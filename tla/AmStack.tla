------------------------------- MODULE AmStack -------------------------------
(***************************************************************************)
(* The array stack of src/src/libam_stack.c.  A thread first moves `size'  *)
(* with a compare-and-swap, which gives it a slot, and then exchanges the  *)
(* pointer with that slot by a second compare-and-swap: a push waits until *)
(* the slot is empty, a pop until it is filled.  Each load and each        *)
(* compare-and-swap is one action; a failed one loops as the code does.    *)
(***************************************************************************)
EXTENDS Integers, FiniteSets

CONSTANTS Threads,   \* the threads that share the stack
          Objects,   \* the pointers they exchange
          Capacity,  \* stk->capacity
          NULL       \* the null pointer, which marks an empty slot

ASSUME CapacityAssumption == Capacity \in Nat
ASSUME NullAssumption == NULL \notin Objects
ASSUME ThreadsAssumption == IsFiniteSet(Threads)

Slots == 0 .. Capacity - 1

VARIABLES size,     \* stk->size
          data,     \* stk->data
          pc,       \* pc[t]: where t is in push or pop
          obj,      \* obj[t]: the pointer t is pushing
          seen,     \* seen[t]: t's local size, then the slot it claimed
          ptr,      \* ptr[t]: what a popping t read from its slot
          outside   \* the pointers the callers hold

vars == <<size, data, pc, obj, seen, ptr, outside>>
locals == <<pc, obj, seen, ptr>>

Init ==
    /\ size = 0
    /\ data = [s \in Slots |-> NULL]
    /\ pc = [t \in Threads |-> "idle"]
    /\ obj = [t \in Threads |-> NULL]
    /\ seen = [t \in Threads |-> 0]
    /\ ptr = [t \in Threads |-> NULL]
    /\ outside = Objects

Goto(t, label) == pc' = [pc EXCEPT ![t] = label]

\* The operation of t returns; its locals die.
Return(t) ==
    /\ Goto(t, "idle")
    /\ obj' = [obj EXCEPT ![t] = NULL]
    /\ seen' = [seen EXCEPT ![t] = 0]
    /\ ptr' = [ptr EXCEPT ![t] = NULL]

-----------------------------------------------------------------------------
\* A caller hands over a pointer it holds, or NULL.
PushCall(t) == \E o \in outside \cup {NULL} :
    /\ pc[t] = "idle"
    /\ Goto(t, "push")
    /\ obj' = [obj EXCEPT ![t] = o]
    /\ outside' = outside \ {o}
    /\ UNCHANGED <<size, data, seen, ptr>>

\* NULL is refused.
PushNull(t) ==
    /\ pc[t] = "push"
    /\ obj[t] = NULL
    /\ Return(t)
    /\ UNCHANGED <<size, data, outside>>

\* size = stk->size finds a full stack: the caller keeps its pointer.
PushFull(t) ==
    /\ pc[t] = "push"
    /\ obj[t] # NULL
    /\ size >= Capacity
    /\ outside' = outside \cup {obj[t]}
    /\ Return(t)
    /\ UNCHANGED <<size, data>>

\* Slip: the full stack is missed by one.
PushLoadOneMore(t) ==
    /\ pc[t] = "push"
    /\ obj[t] # NULL
    /\ size <= Capacity
    /\ seen' = [seen EXCEPT ![t] = size]
    /\ Goto(t, "pushClaim")
    /\ UNCHANGED <<size, data, obj, ptr, outside>>

\* Slip: NULL is pushed like any pointer.
PushLoadNull(t) ==
    /\ pc[t] = "push"
    /\ size < Capacity
    /\ seen' = [seen EXCEPT ![t] = size]
    /\ Goto(t, "pushClaim")
    /\ UNCHANGED <<size, data, obj, ptr, outside>>

\* size = stk->size finds room.
PushLoad(t) ==
    /\ pc[t] = "push"
    /\ obj[t] # NULL
    /\ size < Capacity
    /\ seen' = [seen EXCEPT ![t] = size]
    /\ Goto(t, "pushClaim")
    /\ UNCHANGED <<size, data, obj, ptr, outside>>

\* amsync_swap(&stk->size, size, size + 1): the slot `size' is t's to fill.
PushClaim(t) ==
    /\ pc[t] = "pushClaim"
    /\ size = seen[t]
    /\ size' = seen[t] + 1
    /\ Goto(t, "pushStore")
    /\ UNCHANGED <<data, obj, seen, ptr, outside>>

PushRetry(t) ==
    /\ pc[t] = "pushClaim"
    /\ size # seen[t]
    /\ Goto(t, "push")
    /\ seen' = [seen EXCEPT ![t] = 0]
    /\ UNCHANGED <<size, data, obj, ptr, outside>>

\* Slip: the slot is filled without waiting for its last pop.
PushStoreOver(t) ==
    /\ pc[t] = "pushStore"
    /\ data' = [data EXCEPT ![seen[t]] = obj[t]]
    /\ Return(t)
    /\ UNCHANGED <<size, outside>>

\* amsync_swap(&stk->data[size], NULL, data); t spins while the slot is taken.
PushStore(t) ==
    /\ pc[t] = "pushStore"
    /\ data[seen[t]] = NULL
    /\ data' = [data EXCEPT ![seen[t]] = obj[t]]
    /\ Return(t)
    /\ UNCHANGED <<size, outside>>

-----------------------------------------------------------------------------
PopCall(t) ==
    /\ pc[t] = "idle"
    /\ Goto(t, "pop")
    /\ UNCHANGED <<size, data, obj, seen, ptr, outside>>

\* Slip: the last pointer is taken for none.
PopEmptyEarly(t) ==
    /\ pc[t] = "pop"
    /\ size <= 1
    /\ Return(t)
    /\ UNCHANGED <<size, data, outside>>

\* size = stk->size finds an empty stack.
PopEmpty(t) ==
    /\ pc[t] = "pop"
    /\ size = 0
    /\ Return(t)
    /\ UNCHANGED <<size, data, outside>>

PopLoad(t) ==
    /\ pc[t] = "pop"
    /\ size # 0
    /\ seen' = [seen EXCEPT ![t] = size]
    /\ Goto(t, "popClaim")
    /\ UNCHANGED <<size, data, obj, ptr, outside>>

\* amsync_swap(&stk->size, size, size - 1): the slot size - 1 is t's to empty.
PopClaim(t) ==
    /\ pc[t] = "popClaim"
    /\ size = seen[t]
    /\ size' = seen[t] - 1
    /\ seen' = [seen EXCEPT ![t] = seen[t] - 1]
    /\ Goto(t, "popRead")
    /\ UNCHANGED <<data, obj, ptr, outside>>

PopRetry(t) ==
    /\ pc[t] = "popClaim"
    /\ size # seen[t]
    /\ Goto(t, "pop")
    /\ seen' = [seen EXCEPT ![t] = 0]
    /\ UNCHANGED <<size, data, obj, ptr, outside>>

\* ptr = *pptr; t spins while the slot is empty.
PopRead(t) ==
    /\ pc[t] = "popRead"
    /\ data[seen[t]] # NULL
    /\ ptr' = [ptr EXCEPT ![t] = data[seen[t]]]
    /\ Goto(t, "popTake")
    /\ UNCHANGED <<size, data, obj, seen, outside>>

\* Slip: the slot is emptied by a plain store.
PopTakeBlind(t) ==
    /\ pc[t] = "popTake"
    /\ data' = [data EXCEPT ![seen[t]] = NULL]
    /\ outside' = outside \cup {ptr[t]}
    /\ Return(t)
    /\ UNCHANGED size

\* amsync_swap(&stk->data[new_size], ptr, NULL) and return ptr to the caller.
PopTake(t) ==
    /\ pc[t] = "popTake"
    /\ data[seen[t]] = ptr[t]
    /\ data' = [data EXCEPT ![seen[t]] = NULL]
    /\ outside' = outside \cup {ptr[t]}
    /\ Return(t)
    /\ UNCHANGED size

\* Another pop of the same slot was faster.
PopLost(t) ==
    /\ pc[t] = "popTake"
    /\ data[seen[t]] # ptr[t]
    /\ ptr' = [ptr EXCEPT ![t] = NULL]
    /\ Goto(t, "popRead")
    /\ UNCHANGED <<size, data, obj, seen, outside>>

-----------------------------------------------------------------------------
Call(t) == PushCall(t) \/ PopCall(t)

\* The steps in which an operation of t returns to its caller.
Returns(t) == PushNull(t) \/ PushFull(t) \/ PushStore(t) \/ PopEmpty(t) \/ PopTake(t)

\* What a thread does of its own inside an operation.
Step(t) ==
    \/ Returns(t)
    \/ PushLoad(t) \/ PushClaim(t) \/ PushRetry(t)
    \/ PopLoad(t) \/ PopClaim(t) \/ PopRetry(t)
    \/ PopRead(t) \/ PopLost(t)

Next == \E t \in Threads : Call(t) \/ Step(t)

Spec == Init /\ [][Next]_vars

\* The operating system runs every thread that is inside an operation; nothing
\* obliges a caller to start one.
FairSpec == Spec /\ \A t \in Threads : WF_vars(Step(t))

-----------------------------------------------------------------------------
\* Types of the variables; a claimed slot is inside the array
\* (amstack_push and amstack_pop index stk->data with it).
TypeOK ==
    /\ size \in 0 .. Capacity
    /\ data \in [Slots -> Objects \cup {NULL}]
    /\ pc \in [Threads -> {"idle", "push", "pushClaim", "pushStore",
                           "pop", "popClaim", "popRead", "popTake"}]
    /\ obj \in [Threads -> Objects \cup {NULL}]
    /\ seen \in [Threads -> 0 .. Capacity]
    /\ ptr \in [Threads -> Objects \cup {NULL}]
    /\ outside \in SUBSET Objects
    /\ \A t \in Threads :
        /\ pc[t] \in {"pushClaim", "pushStore", "popRead", "popTake"} => seen[t] \in Slots
        /\ pc[t] = "popClaim" => seen[t] \in 1 .. Capacity
        /\ pc[t] \in {"pushClaim", "pushStore"} => obj[t] \in Objects
        /\ pc[t] = "popTake" => ptr[t] \in Objects

PushersAt(s) == {t \in Threads : pc[t] = "pushStore" /\ seen[t] = s}
PoppersAt(s) == {t \in Threads : pc[t] \in {"popRead", "popTake"} /\ seen[t] = s}
Filled(s) == IF data[s] # NULL THEN 1 ELSE 0
Below(s) == IF s < size THEN 1 ELSE 0

\* Several threads may hold the same slot at once, and `size' counts slots that
\* are not filled yet: still, at every slot the pushes that have to fill it and
\* the pointer in it balance the pops that have to empty it and the pointer
\* `size' says it holds.  This is what makes both spinning loops
\* (libam_stack.c:60 and :89) terminate with the right pointer.
SlotBalance == \A s \in Slots :
    Cardinality(PushersAt(s)) + Filled(s) = Cardinality(PoppersAt(s)) + Below(s)

\* No pointer is lost or duplicated although slots change hands without a lock:
\* each is with a caller, in the hands of one push, or in one slot
\* (the hand-overs are the compare-and-swaps libam_stack.c:60 and :94).
NoneLost == \A o \in Objects :
    \/ o \in outside
    \/ \E t \in Threads : obj[t] = o
    \/ \E s \in Slots : data[s] = o

NoneTwice == \A o \in Objects :
    /\ o \in outside => (\A t \in Threads : obj[t] # o) /\ (\A s \in Slots : data[s] # o)
    /\ \A t \in Threads, s \in Slots : ~(obj[t] = o /\ data[s] = o)
    /\ \A t, u \in Threads : obj[t] = o /\ obj[u] = o => t = u
    /\ \A r, s \in Slots : data[r] = o /\ data[s] = o => r = s

Conservation == NoneLost /\ NoneTwice

\* "Lock-free* stack": whenever operations run, some operation returns, however
\* the compare-and-swaps of the others fail (a single one may starve).
Progress == []<>(\A t \in Threads : pc[t] = "idle")
            \/ []<><<\E t \in Threads : Returns(t)>>_vars

\* The pointers in the slots.
InSlots == {data[s] : s \in Slots} \ {NULL}

\* Pops that keep reporting an empty stack while pointers are in it are beside
\* pops that take them: polling threads cannot leave a pointer where it is.
PopsDeliver == []<><<\E t \in Threads : PopEmpty(t) /\ InSlots # {}>>_vars
               => []<><<\E t \in Threads : PopTake(t)>>_vars

OpOf(t) == IF pc[t] = "idle" THEN "none"
           ELSE IF pc[t] \in {"push", "pushClaim", "pushStore"} THEN "push" ELSE "pop"

Bag == INSTANCE AmBag WITH stored <- InSlots, arg <- obj,
                                op <- [t \in Threads |-> OpOf(t)]

\* The stack is the bounded container its callers rely on: it refuses a push
\* only when stored and incoming pointers fill it, and reports empty only when
\* the running pops account for all that is stored.
ImplementsBag == Bag!Spec

=============================================================================
