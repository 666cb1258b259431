------------------------------ MODULE AmLStack ------------------------------
(***************************************************************************)
(* The linked stack of src/src/libam_lstack.c: callers link nodes they own *)
(* and swap the head pointer.  A push never waits.  Pops exclude each      *)
(* other by a spinlock, because the node a pop has read as the head could  *)
(* otherwise be popped and pushed again before its swap ("an erroneous     *)
(* tale of two threads", libam_lstack.c:58).                               *)
(***************************************************************************)
EXTENDS Integers, Sequences, FiniteSets

CONSTANTS Threads,     \* the threads that share the stack
          Nodes,       \* the nodes they push
          NULL,
          SizeModulus  \* the number of values of stk->size, 2^64 in the code

ASSUME NullAssumption == NULL \notin Nodes
ASSUME FiniteAssumption == IsFiniteSet(Threads) /\ IsFiniteSet(Nodes)
ASSUME ModulusAssumption == SizeModulus \in Nat /\ SizeModulus > Cardinality(Nodes)

VARIABLES head,     \* stk->head
          next,     \* next[n]: n->next
          size,     \* stk->size
          lock,     \* stk->consumer_lock
          pc,       \* pc[t]: where t is in push or pop
          node,     \* node[t]: the node t is pushing
          seen,     \* seen[t]: t's local head
          after,    \* after[t]: a popping t's local next
          outside,  \* the nodes the callers hold
          order     \* history: the nodes in the stack, oldest first

vars == <<head, next, size, lock, pc, node, seen, after, outside, order>>

\* amlstack_init does not touch consumer_lock: the caller has to hand it zeroed
\* memory, as the users of the stack in this repository do.
Init ==
    /\ head = NULL
    /\ next = [n \in Nodes |-> NULL]
    /\ size = 0
    /\ lock = 0
    /\ pc = [t \in Threads |-> "idle"]
    /\ node = [t \in Threads |-> NULL]
    /\ seen = [t \in Threads |-> NULL]
    /\ after = [t \in Threads |-> NULL]
    /\ outside = Nodes
    /\ order = <<>>

Goto(t, label) == pc' = [pc EXCEPT ![t] = label]

-----------------------------------------------------------------------------
PushCall(t) == \E n \in outside :
    /\ pc[t] = "idle"
    /\ Goto(t, "push")
    /\ node' = [node EXCEPT ![t] = n]
    /\ outside' = outside \ {n}
    /\ UNCHANGED <<head, next, size, lock, seen, after, order>>

\* Slip: push takes part in the lock of the consumers.
PushLoadLocked(t) ==
    /\ pc[t] = "push"
    /\ lock = 0
    /\ seen' = [seen EXCEPT ![t] = head]
    /\ next' = [next EXCEPT ![node[t]] = head]
    /\ Goto(t, "pushSwap")
    /\ UNCHANGED <<head, size, lock, node, after, outside, order>>

\* head = *headptr; node->next = head: nobody else looks at the node yet.
PushLoad(t) ==
    /\ pc[t] = "push"
    /\ seen' = [seen EXCEPT ![t] = head]
    /\ next' = [next EXCEPT ![node[t]] = head]
    /\ Goto(t, "pushSwap")
    /\ UNCHANGED <<head, size, lock, node, after, outside, order>>

\* Slip: the head is stored without looking.
PushSwapBlind(t) ==
    /\ pc[t] = "pushSwap"
    /\ head' = node[t]
    /\ order' = Append(order, node[t])
    /\ Goto(t, "pushCount")
    /\ node' = [node EXCEPT ![t] = NULL]
    /\ seen' = [seen EXCEPT ![t] = NULL]
    /\ UNCHANGED <<next, size, lock, after, outside>>

\* amsync_swap(headptr, head, node): the node is in the stack.
PushSwap(t) ==
    /\ pc[t] = "pushSwap"
    /\ head = seen[t]
    /\ head' = node[t]
    /\ order' = Append(order, node[t])
    /\ Goto(t, "pushCount")
    /\ node' = [node EXCEPT ![t] = NULL]
    /\ seen' = [seen EXCEPT ![t] = NULL]
    /\ UNCHANGED <<next, size, lock, after, outside>>

PushRetry(t) ==
    /\ pc[t] = "pushSwap"
    /\ head # seen[t]
    /\ Goto(t, "push")
    /\ seen' = [seen EXCEPT ![t] = NULL]
    /\ UNCHANGED <<head, next, size, lock, node, after, outside, order>>

\* amsync_inc(&stk->size) and return.
PushCount(t) ==
    /\ pc[t] = "pushCount"
    /\ size' = (size + 1) % SizeModulus
    /\ Goto(t, "idle")
    /\ UNCHANGED <<head, next, lock, node, seen, after, outside, order>>

-----------------------------------------------------------------------------
PopCall(t) ==
    /\ pc[t] = "idle"
    /\ Goto(t, "popLock")
    /\ UNCHANGED <<head, next, size, lock, node, seen, after, outside, order>>

\* Slip: consumers do not exclude each other.
PopLockIgnored(t) ==
    /\ pc[t] = "popLock"
    /\ lock' = 1
    /\ Goto(t, "popHead")
    /\ UNCHANGED <<head, next, size, node, seen, after, outside, order>>

\* amspinlock_lock(&stk->consumer_lock, 1)
PopLock(t) ==
    /\ pc[t] = "popLock"
    /\ lock = 0
    /\ lock' = 1
    /\ Goto(t, "popHead")
    /\ UNCHANGED <<head, next, size, node, seen, after, outside, order>>

\* head = *headptr; an empty stack makes pop return NULL.
PopHead(t) ==
    /\ pc[t] = "popHead"
    /\ seen' = [seen EXCEPT ![t] = head]
    /\ Goto(t, IF head = NULL THEN "popUnlock" ELSE "popNext")
    /\ UNCHANGED <<head, next, size, lock, node, after, outside, order>>

PopNext(t) ==
    /\ pc[t] = "popNext"
    /\ after' = [after EXCEPT ![t] = next[seen[t]]]
    /\ Goto(t, "popSwap")
    /\ UNCHANGED <<head, next, size, lock, node, seen, outside, order>>

\* amsync_swap(headptr, head, next); head->next = NULL.
PopSwap(t) ==
    /\ pc[t] = "popSwap"
    /\ head = seen[t]
    /\ head' = after[t]
    /\ next' = [next EXCEPT ![seen[t]] = NULL]
    /\ order' = SubSeq(order, 1, Len(order) - 1)
    /\ Goto(t, "popCount")
    /\ after' = [after EXCEPT ![t] = NULL]
    /\ UNCHANGED <<size, lock, node, seen, outside>>

PopRetry(t) ==
    /\ pc[t] = "popSwap"
    /\ head # seen[t]
    /\ Goto(t, "popHead")
    /\ seen' = [seen EXCEPT ![t] = NULL]
    /\ after' = [after EXCEPT ![t] = NULL]
    /\ UNCHANGED <<head, next, size, lock, node, outside, order>>

\* Slip: the node is not counted out.
PopCountNot(t) ==
    /\ pc[t] = "popCount"
    /\ Goto(t, "popUnlock")
    /\ UNCHANGED <<head, next, size, lock, node, seen, after, outside, order>>

\* amsync_dec(&stk->size): the push of the node may not have counted it yet.
PopCount(t) ==
    /\ pc[t] = "popCount"
    /\ size' = (size - 1) % SizeModulus
    /\ Goto(t, "popUnlock")
    /\ UNCHANGED <<head, next, lock, node, seen, after, outside, order>>

\* Slip: the lock is kept when the stack is empty.
PopUnlockFound(t) ==
    /\ pc[t] = "popUnlock"
    /\ lock' = IF seen[t] = NULL THEN lock ELSE 0
    /\ outside' = outside \cup ({seen[t]} \ {NULL})
    /\ Goto(t, "idle")
    /\ seen' = [seen EXCEPT ![t] = NULL]
    /\ UNCHANGED <<head, next, size, node, after, order>>

\* amspinlock_unlock (it aborts unless the lock is held) and return the node.
PopUnlock(t) ==
    /\ pc[t] = "popUnlock"
    /\ lock = 1
    /\ lock' = 0
    /\ outside' = outside \cup ({seen[t]} \ {NULL})
    /\ Goto(t, "idle")
    /\ seen' = [seen EXCEPT ![t] = NULL]
    /\ UNCHANGED <<head, next, size, node, after, order>>

-----------------------------------------------------------------------------
PushStep(t) == PushLoad(t) \/ PushSwap(t) \/ PushRetry(t) \/ PushCount(t)

PopStep(t) ==
    \/ PopLock(t) \/ PopHead(t) \/ PopNext(t) \/ PopSwap(t) \/ PopRetry(t)
    \/ PopCount(t) \/ PopUnlock(t)

Next == \E t \in Threads : PushCall(t) \/ PopCall(t) \/ PushStep(t) \/ PopStep(t)

Spec == Init /\ [][Next]_vars

\* Threads that push are scheduled; a thread may stop inside pop for good.
FairSpec == Spec /\ \A t \in Threads : WF_vars(PushStep(t))

-----------------------------------------------------------------------------
\* Types; a pop follows the next pointer of a node, never NULL (libam_lstack.c:56).
TypeOK ==
    /\ head \in Nodes \cup {NULL}
    /\ next \in [Nodes -> Nodes \cup {NULL}]
    /\ size \in 0 .. SizeModulus - 1
    /\ lock \in {0, 1}
    /\ pc \in [Threads -> {"idle", "push", "pushSwap", "pushCount", "popLock", "popHead",
                           "popNext", "popSwap", "popCount", "popUnlock"}]
    /\ node \in [Threads -> Nodes \cup {NULL}]
    /\ seen \in [Threads -> Nodes \cup {NULL}]
    /\ after \in [Threads -> Nodes \cup {NULL}]
    /\ outside \in SUBSET Nodes
    /\ order \in Seq(Nodes)
    /\ \A t \in Threads :
        /\ pc[t] \in {"push", "pushSwap"} => node[t] \in Nodes
        /\ pc[t] \in {"popNext", "popSwap", "popCount"} => seen[t] \in Nodes

\* The chain of next pointers from the head is the stack, newest node first: no
\* swap of the head, by a push that was overtaken or by a pop whose head was
\* replaced, ever loses nodes or breaks last-in-first-out.
ChainIsStack ==
    /\ head = IF order = <<>> THEN NULL ELSE order[Len(order)]
    /\ \A i \in 1 .. Len(order) : next[order[i]] = IF i = 1 THEN NULL ELSE order[i - 1]
    /\ \A i, j \in 1 .. Len(order) : order[i] = order[j] => i = j

Counting(label) == Cardinality({t \in Threads : pc[t] = label})

\* The size is counted after the fact, in by push and out by pop, and may run
\* through zero in between; it is off by exactly the operations under way.
SizeAccounted ==
    (size + Counting("pushCount")) % SizeModulus
    = (Len(order) + Counting("popCount")) % SizeModulus

\* The types, with no pop following a null pointer, and the size that amlstack_push
\* and amlstack_pop count late (libam_lstack.c:33, 75).
SizeSound == TypeOK /\ SizeAccounted

InStack == {order[i] : i \in 1 .. Len(order)}

\* The nodes popped whose pop has not returned yet.
Popped == {seen[t] : t \in {u \in Threads : pc[u] \in {"popCount", "popUnlock"}}} \ {NULL}

OpOf(t) == IF pc[t] \in {"push", "pushSwap"} THEN "push"
           ELSE IF pc[t] \in {"popLock", "popHead", "popNext", "popSwap"} THEN "pop"
           ELSE "none"

Bag == INSTANCE AmBag WITH Objects <- Nodes, Capacity <- Cardinality(Nodes),
    outside <- outside \cup Popped, stored <- InStack, arg <- node,
    op <- [t \in Threads |-> OpOf(t)]

\* The stack is a container that is never full and reports empty only when it is.
ImplementsBag == Bag!Spec

\* "Multiple producers ... totally lock free" (libam_lstack.h:5): whatever
\* consumers do, and wherever they stop, pushes that run do not all hang.
PushNeverWaits ==
    \/ []<>(\A t \in Threads : pc[t] \notin {"push", "pushSwap", "pushCount"})
    \/ []<><<\E t \in Threads : PushSwap(t) \/ PopSwap(t) \/ PushCount(t)>>_vars

\* Consumers that are scheduled do not lock each other out for good.
PopsGoOn == (\A t \in Threads : WF_vars(PopStep(t)))
    => \/ []<>(\A t \in Threads : pc[t] = "idle")
       \/ []<><<\E t \in Threads : PushCount(t) \/ PopUnlock(t)>>_vars
=============================================================================
