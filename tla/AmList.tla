-------------------------------- MODULE AmList --------------------------------
(***************************************************************************)
(* The lists of src/include/libam/libam_list.h: rings of links that are    *)
(* members of the callers' structures, with a link of their own as anchor. *)
(* The memory of all links is a record m of two functions, next and prev.  *)
(* Each operator makes the stores of the code in their order.              *)
(***************************************************************************)
EXTENDS Integers, Sequences, FiniteSets

\* struct amlist_head, of links nobody has initialised
Links(all, nil) == [next |-> [l \in all |-> nil], prev |-> [l \in all |-> nil]]

\* amlist_init
ListInit(m, head) == [m EXCEPT !.next[head] = head, !.prev[head] = head]

\* __amlist_add
LinkBetween(m, entry, prev, next) ==
    [m EXCEPT !.prev[next] = entry, !.next[entry] = next,
              !.prev[entry] = prev, !.next[prev] = entry]

\* amlist_add: right after a link of a list, be it the anchor or not.
ListAdd(m, at, entry) == LinkBetween(m, entry, at, m.next[at])

\* amlist_add_tail: right before it.
ListAddTail(m, at, entry) == LinkBetween(m, entry, m.prev[at], at)

\* amlist_del: the neighbours skip the entry, whose own pointers stay.
ListDel(m, entry) ==
    [m EXCEPT !.prev[m.next[entry]] = m.prev[entry],
              !.next[m.prev[entry]] = m.next[entry]]

\* amlist_empty and amlist_first_entry
ListEmpty(m, head) == m.next[head] = head
ListFirst(m, head) == m.next[head]

\* The links that a walk from head finds, in the direction of one of the two
\* functions, and no more of them than there are.
Walk(f, head) ==
    LET bound == Cardinality(DOMAIN f)
        at[k \in 0 .. bound] == IF k = 0 THEN head ELSE f[at[k - 1]]
        end == IF \E k \in 1 .. bound : at[k] = head
               THEN CHOOSE k \in 1 .. bound : at[k] = head /\ \A j \in 1 .. k - 1 : at[j] # head
               ELSE bound
    IN  [k \in 1 .. end - 1 |-> at[k]]

\* amlist_for_each_entry
ListEntries(m, head) == Walk(m.next, head)
=============================================================================
