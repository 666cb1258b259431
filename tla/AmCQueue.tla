------------------------------ MODULE AmCQueue ------------------------------
(***************************************************************************)
(* The circular queue of src/src/libam_cqueue.c.  An enqueue claims a slot *)
(* by moving `tail' and then fills it; a dequeue claims one by moving      *)
(* `head' under a spinlock and then, the lock released, waits for the slot *)
(* to be filled and empties it.  Nothing checks for a full queue: "Queue   *)
(* must be allocated to accommodate all possible concurrent adds", which   *)
(* is ContractAssumption.                                                  *)
(***************************************************************************)
EXTENDS Integers, Sequences, FiniteSets

CONSTANTS Threads,   \* the threads that share the queue
          Objects,   \* the pointers they exchange
          Capacity,  \* the capacity given to amcqueue_alloc
          NULL       \* the null pointer, which marks an empty slot

ASSUME NullAssumption == NULL \notin Objects
ASSUME FiniteAssumption == IsFiniteSet(Threads) /\ IsFiniteSet(Objects)
ASSUME ContractAssumption == Capacity \in Nat /\ Cardinality(Objects) <= Capacity

\* Slip: no slot is kept empty.
RingNoSpare == Capacity

\* cq->capacity: "We keep one empty at all times".
Ring == Capacity + 1

Slots == 0 .. Ring - 1

VARIABLES head,     \* cq->head
          tail,     \* cq->tail
          data,     \* cq->data
          lock,     \* cq->read_lock
          pc,       \* pc[t]: where t is in enq or deq
          obj,      \* obj[t]: the pointer t is enqueueing
          seen,     \* seen[t]: t's local tail or head, then the slot it claimed
          ptr,      \* ptr[t]: what a dequeueing t read from its slot
          outside,  \* the pointers the callers hold
          line,     \* history: the pointers in the order of their claims of a slot
          readers   \* the threads that dequeue

vars == <<head, tail, data, lock, pc, obj, seen, ptr, outside, line, readers>>

\* Either one thread consumes, as the log thread does, or all of them may.
Init ==
    /\ head = 0
    /\ tail = 0
    /\ data = [s \in Slots |-> NULL]
    /\ lock = 0
    /\ pc = [t \in Threads |-> "idle"]
    /\ obj = [t \in Threads |-> NULL]
    /\ seen = [t \in Threads |-> 0]
    /\ ptr = [t \in Threads |-> NULL]
    /\ outside = Objects
    /\ line = <<>>
    /\ readers \in {{t} : t \in Threads} \cup {Threads}

Goto(t, label) == pc' = [pc EXCEPT ![t] = label]

\* The operation of t returns; its locals die.
Return(t) ==
    /\ Goto(t, "idle")
    /\ obj' = [obj EXCEPT ![t] = NULL]
    /\ seen' = [seen EXCEPT ![t] = 0]
    /\ ptr' = [ptr EXCEPT ![t] = NULL]

-----------------------------------------------------------------------------
EnqCall(t) == \E o \in outside \cup {NULL} :
    /\ pc[t] = "idle"
    /\ Goto(t, "enq")
    /\ obj' = [obj EXCEPT ![t] = o]
    /\ outside' = outside \ {o}
    /\ UNCHANGED <<head, tail, data, lock, seen, ptr, line, readers>>

\* NULL is refused.
EnqNull(t) ==
    /\ pc[t] = "enq"
    /\ obj[t] = NULL
    /\ Return(t)
    /\ UNCHANGED <<head, tail, data, lock, outside, line, readers>>

\* tail = cq->tail
EnqLoad(t) ==
    /\ pc[t] = "enq"
    /\ obj[t] # NULL
    /\ seen' = [seen EXCEPT ![t] = tail]
    /\ Goto(t, "enqClaim")
    /\ UNCHANGED <<head, tail, data, lock, obj, ptr, outside, line, readers>>

\* Slip: the tail is moved without looking.
EnqClaimBlind(t) ==
    /\ pc[t] = "enqClaim"
    /\ tail' = (seen[t] + 1) % Ring
    /\ line' = Append(line, obj[t])
    /\ Goto(t, "enqStore")
    /\ UNCHANGED <<head, data, lock, obj, seen, ptr, outside, readers>>

\* amsync_swap(&cq->tail, tail, new_tail): the slot `tail' is t's to fill.
EnqClaim(t) ==
    /\ pc[t] = "enqClaim"
    /\ tail = seen[t]
    /\ tail' = (seen[t] + 1) % Ring
    /\ line' = Append(line, obj[t])
    /\ Goto(t, "enqStore")
    /\ UNCHANGED <<head, data, lock, obj, seen, ptr, outside, readers>>

EnqRetry(t) ==
    /\ pc[t] = "enqClaim"
    /\ tail # seen[t]
    /\ Goto(t, "enq")
    /\ seen' = [seen EXCEPT ![t] = 0]
    /\ UNCHANGED <<head, tail, data, lock, obj, ptr, outside, line, readers>>

\* amsync_swap(&cq->data[tail], NULL, data); t spins while the slot is taken.
EnqStore(t) ==
    /\ pc[t] = "enqStore"
    /\ data[seen[t]] = NULL
    /\ data' = [data EXCEPT ![seen[t]] = obj[t]]
    /\ Return(t)
    /\ UNCHANGED <<head, tail, lock, outside, line, readers>>

-----------------------------------------------------------------------------
DeqCall(t) ==
    /\ pc[t] = "idle"
    /\ t \in readers
    /\ Goto(t, "deqLock")
    /\ UNCHANGED <<head, tail, data, lock, obj, seen, ptr, outside, line, readers>>

\* amspinlock_lock(&cq->read_lock, 1)
DeqLock(t) ==
    /\ pc[t] = "deqLock"
    /\ lock = 0
    /\ lock' = 1
    /\ Goto(t, "deqHead")
    /\ UNCHANGED <<head, tail, data, obj, seen, ptr, outside, line, readers>>

\* head == cq->tail: the queue is empty.  The head moves under the lock only, so
\* reading it belongs to the read of the tail.
DeqEmpty(t) ==
    /\ pc[t] = "deqHead"
    /\ head = tail
    /\ Goto(t, "deqGiveUp")
    /\ UNCHANGED <<head, tail, data, lock, obj, seen, ptr, outside, line, readers>>

DeqHead(t) ==
    /\ pc[t] = "deqHead"
    /\ head # tail
    /\ seen' = [seen EXCEPT ![t] = head]
    /\ Goto(t, "deqClaim")
    /\ UNCHANGED <<head, tail, data, lock, obj, ptr, outside, line, readers>>

\* amsync_swap(&cq->head, head, new_head), which cannot fail under the lock: the
\* slot `head' is t's to empty.
DeqClaim(t) ==
    /\ pc[t] = "deqClaim"
    /\ head = seen[t]
    /\ head' = (seen[t] + 1) % Ring
    /\ Goto(t, "deqUnlock")
    /\ UNCHANGED <<tail, data, lock, obj, seen, ptr, outside, line, readers>>

\* Slip: the lock is kept until the slot is filled.
DeqUnlockLate(t) ==
    /\ \/ pc[t] = "deqUnlock" /\ data[seen[t]] # NULL /\ Goto(t, "deqRead")
       \/ pc[t] = "deqGiveUp" /\ Goto(t, "idle")
    /\ lock' = 0
    /\ UNCHANGED <<head, tail, data, obj, seen, ptr, outside, line, readers>>

\* amspinlock_unlock(&cq->read_lock, 1), with and without a slot.
DeqUnlock(t) ==
    /\ \/ pc[t] = "deqUnlock" /\ Goto(t, "deqRead")
       \/ pc[t] = "deqGiveUp" /\ Goto(t, "idle")
    /\ lock' = 0
    /\ UNCHANGED <<head, tail, data, obj, seen, ptr, outside, line, readers>>

\* ptr = *pptr; t spins while the slot is empty.
DeqRead(t) ==
    /\ pc[t] = "deqRead"
    /\ data[seen[t]] # NULL
    /\ ptr' = [ptr EXCEPT ![t] = data[seen[t]]]
    /\ Goto(t, "deqTake")
    /\ UNCHANGED <<head, tail, data, lock, obj, seen, outside, line, readers>>

\* A pointer leaves the line.
Without(s, o) ==
    IF \E i \in 1 .. Len(s) : s[i] = o
    THEN LET i == CHOOSE i \in 1 .. Len(s) : s[i] = o
         IN  SubSeq(s, 1, i - 1) \o SubSeq(s, i + 1, Len(s))
    ELSE s

\* Slip: the slot is emptied by a plain store.
DeqTakeBlind(t) ==
    /\ pc[t] = "deqTake"
    /\ data' = [data EXCEPT ![seen[t]] = NULL]
    /\ outside' = outside \cup {ptr[t]}
    /\ line' = Without(line, ptr[t])
    /\ Return(t)
    /\ UNCHANGED <<head, tail, lock, readers>>

\* amsync_swap(&cq->data[head], ptr, NULL) and return ptr to the caller.
DeqTake(t) ==
    /\ pc[t] = "deqTake"
    /\ data[seen[t]] = ptr[t]
    /\ data' = [data EXCEPT ![seen[t]] = NULL]
    /\ outside' = outside \cup {ptr[t]}
    /\ line' = Without(line, ptr[t])
    /\ Return(t)
    /\ UNCHANGED <<head, tail, lock, readers>>

\* Another dequeue of the same slot was faster.
DeqLost(t) ==
    /\ pc[t] = "deqTake"
    /\ data[seen[t]] # ptr[t]
    /\ ptr' = [ptr EXCEPT ![t] = NULL]
    /\ Goto(t, "deqRead")
    /\ UNCHANGED <<head, tail, data, lock, obj, seen, outside, line, readers>>

-----------------------------------------------------------------------------
EnqStep(t) == EnqNull(t) \/ EnqLoad(t) \/ EnqClaim(t) \/ EnqRetry(t) \/ EnqStore(t)

DeqStep(t) ==
    \/ DeqLock(t) \/ DeqEmpty(t) \/ DeqHead(t) \/ DeqClaim(t) \/ DeqUnlock(t)
    \/ DeqRead(t) \/ DeqTake(t) \/ DeqLost(t)

Next == \E t \in Threads : EnqCall(t) \/ DeqCall(t) \/ EnqStep(t) \/ DeqStep(t)

Spec == Init /\ [][Next]_vars

\* Threads that dequeue are scheduled; a thread may stop inside enq for good.
FairSpec == Spec /\ \A t \in Threads : WF_vars(DeqStep(t))

-----------------------------------------------------------------------------
\* Types; every access to cq->data is inside the array and by a thread that
\* claimed the slot.
TypeOK ==
    /\ head \in Slots /\ tail \in Slots
    /\ data \in [Slots -> Objects \cup {NULL}]
    /\ lock \in {0, 1}
    /\ pc \in [Threads -> {"idle", "enq", "enqClaim", "enqStore", "deqLock", "deqHead",
                           "deqClaim", "deqUnlock", "deqGiveUp", "deqRead", "deqTake"}]
    /\ obj \in [Threads -> Objects \cup {NULL}]
    /\ seen \in [Threads -> Slots]
    /\ ptr \in [Threads -> Objects \cup {NULL}]
    /\ outside \in SUBSET Objects
    /\ line \in Seq(Objects)
    /\ readers \in SUBSET Threads
    /\ \A t \in Threads :
        /\ pc[t] \in {"enqClaim", "enqStore"} => obj[t] \in Objects
        /\ pc[t] = "deqTake" => ptr[t] \in Objects

EnqueuersAt(s) == {t \in Threads : pc[t] = "enqStore" /\ seen[t] = s}
DequeuersAt(s) == {t \in Threads : pc[t] \in {"deqUnlock", "deqRead", "deqTake"} /\ seen[t] = s}
Filled(s) == IF data[s] # NULL THEN 1 ELSE 0

\* The slots from head up to tail, around the ring.
Queued(s) == IF (s - head) % Ring < (tail - head) % Ring THEN 1 ELSE 0

\* A dequeue that stalls lets the ring lap it: two dequeues then wait at one
\* slot with an enqueue.  At every slot the enqueues that have to fill it and
\* the pointer in it balance the dequeues that have to empty it and the pointer
\* that head and tail say is there.
SlotBalance == \A s \in Slots :
    Cardinality(EnqueuersAt(s)) + Filled(s) = Cardinality(DequeuersAt(s)) + Queued(s)

\* The types, with every access to cq->data in bounds, and the balance of the
\* claims amcqueue_enq and amcqueue_deq make on each slot.
SlotsSound == TypeOK /\ SlotBalance

\* One consumer gets the pointers in the order in which their enqueues claimed
\* their slots ("Insertions are done to the tail", libam_cqueue.h:33),
\* although they may be stored in any order.
FirstInFirstOut == [][\A t \in Threads :
    Cardinality(readers) = 1 /\ DeqTake(t) => ptr[t] = Head(line)]_vars

InSlots == {data[s] : s \in Slots} \ {NULL}

OpOf(t) == IF pc[t] \in {"idle", "deqGiveUp"} THEN "none"
           ELSE IF pc[t] \in {"enq", "enqClaim", "enqStore"} THEN "push" ELSE "pop"

Bag == INSTANCE AmBag WITH stored <- InSlots, arg <- obj,
                           op <- [t \in Threads |-> OpOf(t)]

\* Within its contract the queue is the bounded container its callers rely on;
\* in particular it reports empty only when running dequeues account for all it
\* holds, although head = tail could also mean a full ring.
ImplementsBag == Bag!Spec

\* A producer that stops between claiming and filling its slot holds up the one
\* dequeue of that slot, not the others: nobody waits for it under the lock.
LockComesFree == []<>(lock = 0)
=============================================================================
