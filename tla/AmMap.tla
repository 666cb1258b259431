-------------------------------- MODULE AmMap --------------------------------
(***************************************************************************)
(* What a map of libam promises its callers: a finite function from keys   *)
(* to items, which no operation changes at another key than its own, and   *)
(* a truthful answer to every call: the item that was stored under the key *)
(* when the call took effect, or NULL.                                     *)
(***************************************************************************)
CONSTANTS Keys, Items, NULL

VARIABLES contents,  \* the items stored, by key
          reply      \* the answer of the last call

vars == <<contents, reply>>

Init ==
    /\ contents = <<>>
    /\ reply = NULL

Answer(k) == reply' = [key |-> k,
                       item |-> IF k \in DOMAIN contents THEN contents[k] ELSE NULL]

Insert(k) == \E i \in Items :
    /\ k \notin DOMAIN contents
    /\ contents' = [j \in DOMAIN contents \cup {k} |-> IF j = k THEN i ELSE contents[j]]
    /\ Answer(k)

Replace(k) == \E i \in Items :
    /\ k \in DOMAIN contents
    /\ contents' = [contents EXCEPT ![k] = i]
    /\ Answer(k)

Remove(k) ==
    /\ k \in DOMAIN contents
    /\ contents' = [j \in DOMAIN contents \ {k} |-> contents[j]]
    /\ Answer(k)

\* A lookup, an insertion that finds its key taken, and one for which there is
\* no memory.
Lookup(k) ==
    /\ Answer(k)
    /\ UNCHANGED contents

Clear ==
    /\ contents' = <<>>
    /\ reply' = NULL

Next ==
    \/ Clear
    \/ \E k \in Keys : Insert(k) \/ Replace(k) \/ Remove(k) \/ Lookup(k)

Spec == Init /\ [][Next]_vars
=============================================================================
