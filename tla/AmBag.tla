------------------------------- MODULE AmBag --------------------------------
(***************************************************************************)
(* What a bounded lock-free container of libam promises its callers,       *)
(* whatever it is made of.  Pointers are handed over by push and handed    *)
(* back by pop; between its call and its return an operation takes effect  *)
(* in one step, its commit.  A push may be refused, and a pop may report   *)
(* an empty container, only when the operations still running could be     *)
(* the reason.  AmStack, AmLStack and AmCQueue implement it, each in its   *)
(* own way; ThreadPool builds on it.                                       *)
(***************************************************************************)
EXTENDS Integers, FiniteSets

CONSTANTS Threads,   \* the threads that share the container
          Objects,   \* the pointers they exchange
          Capacity,  \* the number of pointers it can hold
          NULL       \* the null pointer

VARIABLES outside,   \* the pointers the callers hold
          stored,    \* the pointers whose push took effect, not yet popped
          op,        \* op[t]: the operation t runs
          arg        \* arg[t]: the pointer t is pushing

vars == <<outside, stored, op, arg>>

Init ==
    /\ outside = Objects
    /\ stored = {}
    /\ op = [t \in Threads |-> "none"]
    /\ arg = [t \in Threads |-> NULL]

Running(kind) == {t \in Threads : op[t] = kind}

BeginPush(t) == \E o \in outside \cup {NULL} :
    /\ op[t] = "none"
    /\ op' = [op EXCEPT ![t] = "push"]
    /\ arg' = [arg EXCEPT ![t] = o]
    /\ outside' = outside \ {o}
    /\ UNCHANGED stored

CommitPush(t) ==
    /\ op[t] = "push"
    /\ arg[t] # NULL
    /\ Cardinality(stored) < Capacity
    /\ stored' = stored \cup {arg[t]}
    /\ op' = [op EXCEPT ![t] = "none"]
    /\ arg' = [arg EXCEPT ![t] = NULL]
    /\ UNCHANGED outside

\* A push is refused for a null pointer, or when the pointers stored and those
\* other threads are pushing would fill the container.
FailPush(t) ==
    /\ op[t] = "push"
    /\ \/ arg[t] = NULL
       \/ Cardinality(stored) + Cardinality(Running("push") \ {t}) >= Capacity
    /\ outside' = outside \cup ({arg[t]} \ {NULL})
    /\ op' = [op EXCEPT ![t] = "none"]
    /\ arg' = [arg EXCEPT ![t] = NULL]
    /\ UNCHANGED stored

BeginPop(t) ==
    /\ op[t] = "none"
    /\ op' = [op EXCEPT ![t] = "pop"]
    /\ UNCHANGED <<outside, stored, arg>>

CommitPop(t) == \E o \in stored :
    /\ op[t] = "pop"
    /\ stored' = stored \ {o}
    /\ outside' = outside \cup {o}
    /\ op' = [op EXCEPT ![t] = "none"]
    /\ UNCHANGED arg

\* A pop reports an empty container only when the pops other threads are
\* running are enough to account for every pointer stored.
FailPop(t) ==
    /\ op[t] = "pop"
    /\ Cardinality(stored) <= Cardinality(Running("pop") \ {t})
    /\ op' = [op EXCEPT ![t] = "none"]
    /\ UNCHANGED <<outside, stored, arg>>

Next == \E t \in Threads :
    \/ BeginPush(t)
    \/ CommitPush(t)
    \/ FailPush(t)
    \/ BeginPop(t)
    \/ CommitPop(t)
    \/ FailPop(t)

Spec == Init /\ [][Next]_vars
=============================================================================
