-------------------------------- MODULE AmTree --------------------------------
(***************************************************************************)
(* The balanced trees of src/src/libam_tree.c and src/src/libam_itree.c:   *)
(* nodes of the callers, linked both ways, each with the difference of the *)
(* heights below it.  amitree_t is amtree_t with a list of its nodes in    *)
(* the order of their keys, the links of AmList here.  The code of the two *)
(* is the same otherwise, and has no lock: a call is one step.             *)
(*                                                                         *)
(* Left and right mirror each other in the code; one operator stands for   *)
(* both here, with the side as a parameter.  A balance other than -2..2,   *)
(* where the code aborts, has no case, and TLC would report it.            *)
(***************************************************************************)
EXTENDS AmList, SequencesExt

CONSTANTS Keys,       \* the keys; the node the callers have for a key is the key
          StandIn,    \* one more node, which replaces others
          SwapLimit,  \* bound: the nodes of a tree that the stand-in is in
          TreeAnchor, \* the link ordered_list of the tree
          Nil         \* NULL

ASSUME KeysAssumption ==
    Keys \subseteq Nat \ {0} /\ IsFiniteSet(Keys) /\ SwapLimit \in Nat
ASSUME NodesAssumption ==
    /\ StandIn \notin Keys /\ Nil \notin Keys \cup {StandIn}
    /\ TreeAnchor \notin Keys \cup {StandIn, Nil}

Nodes == Keys \cup {StandIn}

VARIABLES tree,  \* root and count; child, parent, balance and key of the nodes,
                 \* Nil or 0 for a node outside: nothing reads them
          links  \* the anchor of the list and the link of each node

treeVars == <<tree, links>>

Sides == {"left", "right"}
Other(side) == IF side = "left" THEN "right" ELSE "left"
Sign(side) == IF side = "left" THEN -1 ELSE 1

TreeInit ==
    /\ tree = [root |-> Nil, count |-> 0,
               child |-> [s \in Sides |-> [n \in Nodes |-> Nil]],
               parent |-> [n \in Nodes |-> Nil],
               balance |-> [n \in Nodes |-> 0],
               key |-> [n \in Nodes |-> 0]]
    /\ links = ListInit(Links(Nodes \cup {TreeAnchor}, Nil), TreeAnchor)

\* A field of a node, if there is one.
PutAt(f, n, v) == IF n = Nil THEN f ELSE [f EXCEPT ![n] = v]

\* amtree_which_child
SideOf(t, p, n) == IF t.child["left"][p] = n THEN "left" ELSE "right"

\* The link to n from its parent p, or the root, leads to c.
Relink(t, p, n, c) ==
    IF p = Nil THEN [t EXCEPT !.root = c]
    ELSE [t EXCEPT !.child[SideOf(t, p, n)][p] = c]

\* A loop of the code, of steps that leave a state alone in which it ends.  No
\* loop over the nodes of a tree takes more steps than it has nodes.
Repeat(Step(_), s, steps) ==
    LET after[k \in 0 .. steps] == IF k = 0 THEN s ELSE Step(after[k - 1])
    IN  after[steps]

\* The state of a loop over nodes that changes the tree; it ends at Nil.
Visit(t, n) == [tree |-> t, node |-> n]

-----------------------------------------------------------------------------
(* Rotations                                                                *)

\* amtree_rotate_left and amtree_rotate_right: the child of n on its heavy side
\* takes the place of n.
Rotate(t, n, heavy) ==
    LET c == t.child[heavy][n]
        g == t.child[Other(heavy)][c]
        even == t.balance[c] = 0
    IN  [Relink(t, t.parent[n], n, c) EXCEPT
            !.child[heavy][n] = g,
            !.child[Other(heavy)][c] = n,
            !.parent = PutAt([@ EXCEPT ![c] = t.parent[n], ![n] = c], g, n),
            !.balance[n] = IF even THEN Sign(heavy) ELSE 0,
            !.balance[c] = IF even THEN -Sign(heavy) ELSE 0]

\* Slip: a grandchild that moves keeps its parent.
RotateTwiceStale(t, n, heavy) ==
    LET light == Other(heavy)
        c == t.child[heavy][n]
        g == t.child[light][c]
    IN  [Relink(t, t.parent[n], n, g) EXCEPT
            !.child[light][c] = t.child[heavy][g],
            !.child[heavy][n] = t.child[light][g],
            !.child[heavy][g] = c,
            !.child[light][g] = n,
            !.parent = PutAt([@ EXCEPT ![g] = t.parent[n], ![c] = g, ![n] = g],
                           t.child[light][g], n),
            !.balance[n] = IF t.balance[g] = Sign(heavy) THEN -Sign(heavy) ELSE 0,
            !.balance[c] = IF t.balance[g] = Sign(light) THEN Sign(heavy) ELSE 0,
            !.balance[g] = 0]

\* amtree_rotate_right_left and amtree_rotate_left_right: the grandchild does.
RotateTwice(t, n, heavy) ==
    LET light == Other(heavy)
        c == t.child[heavy][n]
        g == t.child[light][c]
    IN  [Relink(t, t.parent[n], n, g) EXCEPT
            !.child[light][c] = t.child[heavy][g],
            !.child[heavy][n] = t.child[light][g],
            !.child[heavy][g] = c,
            !.child[light][g] = n,
            !.parent = PutAt(PutAt([@ EXCEPT ![g] = t.parent[n], ![c] = g, ![n] = g],
                               t.child[heavy][g], c),
                           t.child[light][g], n),
            !.balance[n] = IF t.balance[g] = Sign(heavy) THEN -Sign(heavy) ELSE 0,
            !.balance[c] = IF t.balance[g] = Sign(light) THEN Sign(heavy) ELSE 0,
            !.balance[g] = 0]

Heavy(t, n) == IF t.balance[n] > 0 THEN "right" ELSE "left"

-----------------------------------------------------------------------------
(* amtree_insert                                                            *)

\* A turn of the loop of amtree_balance_add: the tree below the node is one
\* level higher.
AddStep(s) ==
    LET t == s.tree
        n == s.node
        p == t.parent[n]
        u == [t EXCEPT !.balance[p] = @ + Sign(SideOf(t, p, n))]
    IN  CASE n = Nil -> s
          [] n # Nil /\ p = Nil -> Visit(t, Nil)
          [] n # Nil /\ p # Nil /\ u.balance[p] = 0 -> Visit(u, Nil)
          [] n # Nil /\ p # Nil /\ u.balance[p] \in {-1, 1} -> Visit(u, p)
          [] n # Nil /\ p # Nil /\ u.balance[p] \in {-2, 2} ->
                IF u.balance[n] = Sign(Heavy(u, p)) THEN Visit(Rotate(u, p, Heavy(u, p)), Nil)
                                                    ELSE Visit(RotateTwice(u, p, Heavy(u, p)), Nil)

BalanceAdd(t, n) == Repeat(AddStep, Visit(t, n), t.count).tree

\* The descent of amtree_find and amtree_insert: the node with key k, or the one
\* below which it would be.
Descend(t, k) ==
    LET down[n \in Nodes] ==
            LET next == t.child[IF k > t.key[n] THEN "right" ELSE "left"][n]
            IN  IF t.key[n] = k \/ next = Nil THEN n ELSE down[next]
    IN  down[t.root]

\* amtree_find_key
TreeFind(t, k) ==
    IF t.root = Nil THEN Nil
    ELSE LET n == Descend(t, k) IN IF t.key[n] = k THEN n ELSE Nil

\* The tree of amtree_insert, for a key it does not have.
Inserted(t, n, k) ==
    LET p == Descend(t, k)
        side == IF k < t.key[p] THEN "left" ELSE "right"
    IN  IF t.root = Nil
        THEN [t EXCEPT !.root = n, !.count = 1, !.key[n] = k]
        ELSE BalanceAdd([t EXCEPT !.child[side][p] = n, !.parent[n] = p,
                                  !.count = @ + 1, !.key[n] = k], n)

\* The list of amitree_insert: the new node goes next to its parent.
TreeInsert(n) ==
    LET p == Descend(tree, n)
    IN  /\ tree.key[n] = 0 /\ TreeFind(tree, n) = Nil
        /\ tree.key[StandIn] # 0 => tree.count < SwapLimit
        /\ tree' = Inserted(tree, n, n)
        /\ links' = CASE tree.root = Nil -> ListAdd(links, TreeAnchor, n)
                      [] tree.root # Nil /\ n < tree.key[p] -> ListAddTail(links, p, n)
                      [] tree.root # Nil /\ n > tree.key[p] -> ListAdd(links, p, n)

\* The key is there: the node that has it is returned.
TreeInsertExists(n) ==
    /\ tree.key[n] = 0 /\ TreeFind(tree, n) # Nil
    /\ UNCHANGED treeVars

-----------------------------------------------------------------------------
(* amtree_delete and amtree_swap                                            *)

\* A turn of the loop of amtree_balance_del: the balance of the node is right,
\* and the tree below it one level lower if that is 0 or gets 0.
DelStep(s) ==
    LET t == s.tree
        n == s.node
        heavy == Heavy(t, n)
        c == t.child[heavy][n]
        once == Rotate(t, n, heavy)
        twice == RotateTwice(t, n, heavy)
        Lower(u, m) ==
            LET p == u.parent[m]
            IN  IF p = Nil THEN Visit(u, Nil)
                ELSE Visit([u EXCEPT !.balance[p] = @ - Sign(SideOf(u, p, m))], p)
    IN  CASE n = Nil -> s
          [] n # Nil /\ t.balance[n] = 0 -> Lower(t, n)
          [] n # Nil /\ t.balance[n] \in {-1, 1} -> Visit(t, Nil)
          [] n # Nil /\ t.balance[n] \in {-2, 2} /\ t.balance[c] # -Sign(heavy) ->
                IF once.balance[c] # 0 THEN Visit(once, Nil) ELSE Lower(once, c)
          [] n # Nil /\ t.balance[n] \in {-2, 2} /\ t.balance[c] = -Sign(heavy) ->
                Lower(twice, twice.parent[n])

BalanceDel(t, n) == Repeat(DelStep, Visit(t, n), t.count).tree

LeftMost(t, n) ==
    LET down[m \in Nodes] ==
            IF t.child["left"][m] = Nil THEN m ELSE down[t.child["left"][m]]
    IN  down[n]

\* n has one child at most, and that takes its place.
UnlinkLeaf(t, n) ==
    LET p == t.parent[n]
        c == IF t.child["right"][n] # Nil THEN t.child["right"][n] ELSE t.child["left"][n]
        u == [Relink(t, p, n, c) EXCEPT !.parent = PutAt(@, c, p)]
    IN  IF p = Nil THEN u
        ELSE BalanceDel([u EXCEPT !.balance[p] = @ - Sign(SideOf(t, p, n))], p)

\* The right child of n has no left one: it takes the place of n.
UnlinkRight(t, n) ==
    LET cr == t.child["right"][n]
        cl == t.child["left"][n]
        u == Relink(t, t.parent[n], n, cr)
    IN  BalanceDel([u EXCEPT !.parent[cr] = t.parent[n], !.parent[cl] = cr,
                             !.child["left"][cr] = cl,
                             !.balance[cr] = t.balance[n] - 1], cr)

\* The node with the next key leaves its place to its right child, and takes
\* that of n.
UnlinkNext(t, n) ==
    LET cr == t.child["right"][n]
        cl == t.child["left"][n]
        min == LeftMost(t, cr)
        minp == t.parent[min]
        g == t.child["right"][min]
        u == Relink(t, t.parent[n], n, min)
    IN  BalanceDel([u EXCEPT !.child["left"] = [@ EXCEPT ![minp] = g, ![min] = cl],
                             !.child["right"][min] = cr,
                             !.parent = PutAt([@ EXCEPT ![min] = t.parent[n], ![cl] = min,
                                                      ![cr] = min], g, minp),
                             !.balance[min] = t.balance[n], !.balance[minp] = @ + 1],
                   minp)

Unlink(t, n) ==
    LET cr == t.child["right"][n]
    IN  CASE cr = Nil \/ t.child["left"][n] = Nil -> UnlinkLeaf(t, n)
          [] OTHER -> IF t.child["left"][cr] = Nil THEN UnlinkRight(t, n) ELSE UnlinkNext(t, n)

\* The fields of a node that is outside.
Forget(t, n) ==
    [t EXCEPT !.child["left"][n] = Nil, !.child["right"][n] = Nil, !.parent[n] = Nil,
              !.balance[n] = 0, !.key[n] = 0]

\* amitree_delete_key, and amitree_delete of the node it finds.
TreeDelete(k) ==
    LET n == TreeFind(tree, k)
    IN  /\ n # Nil
        /\ tree' = [Forget(Unlink(tree, n), n) EXCEPT !.count = @ - 1]
        /\ links' = [ListDel(links, n) EXCEPT !.next[n] = Nil, !.prev[n] = Nil]

TreeDeleteMissing(k) ==
    /\ TreeFind(tree, k) = Nil
    /\ UNCHANGED treeVars

\* amtree_swap: m gets the fields of n, its key too, and its place.
Swapped(t, n, m) ==
    LET cl == t.child["left"][n]
        cr == t.child["right"][n]
        u == Relink(t, t.parent[n], n, m)
        v == [u EXCEPT !.child["left"][m] = cl, !.child["right"][m] = cr,
                       !.parent = PutAt(PutAt([@ EXCEPT ![m] = t.parent[n]], cl, m), cr, m),
                       !.balance[m] = t.balance[n], !.key[m] = t.key[n]]
    IN  Forget(v, n)

\* The link of m gets the pointers of that of n, and its neighbours point to it.
LinkSwapped(l, n, m) ==
    LET after == l.next[n]
        before == l.prev[n]
    IN  [l EXCEPT !.next = [@ EXCEPT ![m] = after, ![n] = Nil, ![before] = m],
                  !.prev = [@ EXCEPT ![m] = before, ![n] = Nil, ![after] = m]]

\* amitree_swap; bound: the stand-in replaces the node of a key, or is replaced,
\* in a small tree.
TreeSwap(n, m) ==
    /\ tree.key[n] # 0 /\ tree.key[m] = 0
    /\ m = StandIn \/ (n = StandIn /\ m = tree.key[n])
    /\ tree.count <= SwapLimit
    /\ tree' = Swapped(tree, n, m)
    /\ links' = LinkSwapped(links, n, m)

TreeNext ==
    \/ \E k \in Keys : TreeInsert(k) \/ TreeInsertExists(k) \/ TreeDelete(k) \/ TreeDeleteMissing(k)
    \/ \E n, m \in Nodes : TreeSwap(n, m)

TreeSpec == TreeInit /\ [][TreeNext]_treeVars

-----------------------------------------------------------------------------
(* Properties                                                               *)

\* The nodes below a node, itself among them, from left to right, and the height
\* of the tree they are.
InOrder[n \in Nodes \cup {Nil}] ==
    IF n = Nil THEN <<>>
    ELSE InOrder[tree.child["left"][n]] \o <<n>> \o InOrder[tree.child["right"][n]]

Height[n \in Nodes \cup {Nil}] ==
    IF n = Nil THEN 0
    ELSE LET l == Height[tree.child["left"][n]]
             r == Height[tree.child["right"][n]]
         IN  IF l > r THEN l + 1 ELSE r + 1

TreeList == ListEntries(links, TreeAnchor)

\* Whatever was rotated and spliced, the tree is a search tree of the very nodes
\* the callers inserted and did not delete, which are those of the list, in the
\* order that iterations follow in both directions; it agrees with the count,
\* and every node knows its parent, up to the root.
WellFormed ==
    LET list == TreeList
    IN  /\ InOrder[tree.root] = list
        /\ Reverse(Walk(links.prev, TreeAnchor)) = list
        /\ \A i \in 1 .. Len(list) - 1 : tree.key[list[i]] < tree.key[list[i + 1]]
        /\ tree.count = Len(list)
        /\ tree.root # Nil => tree.parent[tree.root] = Nil
        /\ \A n \in Range(list), s \in Sides :
            tree.child[s][n] # Nil => tree.parent[tree.child[s][n]] = n

\* Every node's balance is the difference of the heights below it, and none is
\* off by more than one: calls take a logarithmic time, and the code never
\* reaches an impossible balance.
Balanced ==
    \A n \in Range(TreeList) :
        /\ tree.balance[n] \in -1 .. 1
        /\ tree.balance[n] = Height[tree.child["right"][n]] - Height[tree.child["left"][n]]

\* Both.
TreeSound == WellFormed /\ Balanced
=============================================================================
