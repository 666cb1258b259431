-------------------------- MODULE ContainerProofs ---------------------------
(***************************************************************************)
(* Theorems of AmCQueue, for any finite sets of threads and pointers and   *)
(* any capacity that the contract of the queue allows, and of AmTree, for  *)
(* any finite set of keys.                                                 *)
(***************************************************************************)
EXTENDS AmCQueue, AmTree, Basics


-----------------------------------------------------------------------------
(* Around the ring.                                                         *)
LEMMA RingPositive == Ring \in Nat /\ Ring > 0 /\ Ring - 1 = Capacity
BY ContractAssumption DEF Ring

(* The way from one slot to another, and the slot after a slot.             *)
LEMMA RingDistance ==
  ASSUME NEW a \in Slots, NEW b \in Slots
  PROVE  (b - a) % Ring = IF a <= b THEN b - a ELSE b - a + Ring
<1>1. Ring \in Nat \ {0} /\ a \in 0 .. Ring - 1 /\ b \in 0 .. Ring - 1
  BY RingPositive DEF Slots
<1> DEFINE x == b - a
           k == IF a <= b THEN 0 ELSE -1
           r == IF a <= b THEN b - a ELSE b - a + Ring
<1>2. x \in Int /\ k \in Int /\ r \in 0 .. Ring - 1 /\ x = Ring * k + r
  BY <1>1
<1> HIDE DEF x, k, r
<1>3. x % Ring = r
  BY <1>1, <1>2, OnlyRemainder
<1> QED
  BY <1>3 DEF x, r

LEMMA RingSuccessor ==
  ASSUME NEW a \in Slots
  PROVE  (a + 1) % Ring = IF a = Ring - 1 THEN 0 ELSE a + 1
<1>1. Ring \in Nat \ {0} /\ a \in 0 .. Ring - 1
  BY RingPositive DEF Slots
<1> DEFINE x == a + 1
           k == IF a = Ring - 1 THEN 1 ELSE 0
           r == IF a = Ring - 1 THEN 0 ELSE a + 1
<1>2. x \in Int /\ k \in Int /\ r \in 0 .. Ring - 1 /\ x = Ring * k + r
  BY <1>1
<1> HIDE DEF x, k, r
<1>3. x % Ring = r
  BY <1>1, <1>2, OnlyRemainder
<1> QED
  BY <1>3 DEF x, r

LEMMA RingBasics ==
  ASSUME NEW a \in Slots, NEW b \in Slots
  PROVE  /\ (b - a) % Ring \in Nat /\ (b - a) % Ring < Ring
         /\ (b - a) % Ring = 0 <=> a = b
         /\ (a + 1) % Ring \in Slots
<1>1. Ring \in Nat \ {0} /\ a \in 0 .. Ring - 1 /\ b \in 0 .. Ring - 1
  BY RingPositive DEF Slots
<1>2. (b - a) % Ring = IF a <= b THEN b - a ELSE b - a + Ring
  BY RingDistance
<1>3. (a + 1) % Ring = IF a = Ring - 1 THEN 0 ELSE a + 1
  BY RingSuccessor
<1> DEFINE x == (b - a) % Ring  y == (a + 1) % Ring
<1>4. x = IF a <= b THEN b - a ELSE b - a + Ring
  BY <1>2
<1>5. y = IF a = Ring - 1 THEN 0 ELSE a + 1
  BY <1>3
<1> HIDE DEF x, y
<1>6. x \in Nat /\ x < Ring /\ (x = 0 <=> a = b) /\ y \in 0 .. Ring - 1
  BY <1>1, <1>4, <1>5
<1> QED
  BY <1>6 DEF x, y, Slots

(* Seen from a, no two slots are equally far.                               *)
LEMMA RingInjective ==
  ASSUME NEW a \in Slots, NEW b \in Slots, NEW c \in Slots, (b - a) % Ring = (c - a) % Ring
  PROVE  b = c
<1>1. Ring \in Nat \ {0} /\ a \in 0 .. Ring - 1 /\ b \in 0 .. Ring - 1 /\ c \in 0 .. Ring - 1
  BY RingPositive DEF Slots
<1> DEFINE x == (b - a) % Ring  y == (c - a) % Ring
<1>2. x = (IF a <= b THEN b - a ELSE b - a + Ring) /\ y = (IF a <= c THEN c - a ELSE c - a + Ring)
      /\ x = y
  BY RingDistance
<1> HIDE DEF x, y
<1> QED
  BY <1>1, <1>2

(* One step on from b is one step further from a, short of a full turn.     *)
LEMMA FurtherOn ==
  ASSUME NEW a \in Slots, NEW b \in Slots, (b - a) % Ring < Ring - 1
  PROVE  (((b + 1) % Ring) - a) % Ring = ((b - a) % Ring) + 1
<1> DEFINE n == (b + 1) % Ring
<1>1. n \in Slots /\ n = IF b = Ring - 1 THEN 0 ELSE b + 1
  BY RingBasics, RingSuccessor
<1> HIDE DEF n
<1> DEFINE x == (b - a) % Ring  y == (n - a) % Ring
<1>2. x = (IF a <= b THEN b - a ELSE b - a + Ring) /\ y = (IF a <= n THEN n - a ELSE n - a + Ring)
  BY <1>1, RingDistance
<1>3. x < Ring - 1
  OBVIOUS
<1>4. Ring \in Nat \ {0} /\ a \in 0 .. Ring - 1 /\ b \in 0 .. Ring - 1
  BY RingPositive DEF Slots
<1> HIDE DEF x, y
<1>5. y = x + 1
  BY <1>1, <1>2, <1>3, <1>4
<1> QED
  BY <1>5 DEF x, y, n

(* One step on from a every slot but a is one step nearer.                  *)
LEMMA NearerFrom ==
  ASSUME NEW a \in Slots, NEW b \in Slots
  PROVE  (b - ((a + 1) % Ring)) % Ring = IF a = b THEN Ring - 1 ELSE ((b - a) % Ring) - 1
<1> DEFINE n == (a + 1) % Ring
<1>1. n \in Slots /\ n = IF a = Ring - 1 THEN 0 ELSE a + 1
  BY RingBasics, RingSuccessor
<1> HIDE DEF n
<1> DEFINE x == (b - a) % Ring  y == (b - n) % Ring
<1>2. x = (IF a <= b THEN b - a ELSE b - a + Ring) /\ y = (IF n <= b THEN b - n ELSE b - n + Ring)
  BY <1>1, RingDistance
<1>3. Ring \in Nat \ {0} /\ a \in 0 .. Ring - 1 /\ b \in 0 .. Ring - 1
  BY RingPositive DEF Slots
<1> HIDE DEF x, y
<1>4. y = IF a = b THEN Ring - 1 ELSE x - 1
  BY <1>1, <1>2, <1>3
<1> QED
  BY <1>4 DEF x, y, n

-----------------------------------------------------------------------------
(* The line is a sequence of pointers, and stays one.                       *)
LEMMA WithoutType ==
  ASSUME NEW s \in Seq(Objects), NEW o PROVE Without(s, o) \in Seq(Objects)
<1>1. CASE \E i \in 1 .. Len(s) : s[i] = o
  <2> DEFINE i == CHOOSE i \in 1 .. Len(s) : s[i] = o
             l == i - 1
             m == i + 1
  <2>1. i \in 1 .. Len(s) /\ Len(s) \in Nat
    BY <1>1, LenProperties
  <2>2. Without(s, o) = SubSeq(s, 1, l) \o SubSeq(s, m, Len(s))
    BY <1>1 DEF Without
  <2>3. l \in Int /\ m \in Int /\ l <= Len(s) /\ m >= 1
    BY <2>1
  <2> HIDE DEF i, l, m
  <2>4. \A j \in 1 .. Len(s) : s[j] \in Objects
    BY ElementOfSeq
  <2>5. SubSeq(s, 1, l) \in Seq(Objects)
    <3>1. \A j \in 1 .. l : s[j] \in Objects
      BY <2>1, <2>3, <2>4
    <3> QED
      BY <2>3, <3>1, SubSeqProperties
  <2>6. SubSeq(s, m, Len(s)) \in Seq(Objects)
    <3>1. \A j \in m .. Len(s) : s[j] \in Objects
      BY <2>1, <2>3, <2>4
    <3> QED
      BY <2>1, <2>3, <3>1, SubSeqProperties
  <2> QED
    BY <2>2, <2>5, <2>6, ConcatProperties
<1>2. CASE ~ \E i \in 1 .. Len(s) : s[i] = o
  BY <1>2 DEF Without
<1> QED
  BY <1>1, <1>2

-----------------------------------------------------------------------------
(* The invariant.                                                           *)

\* The threads that have a slot to fill, and a slot to empty.
Storing == {t \in Threads : pc[t] = "enqStore"}
Claimed == {t \in Threads : pc[t] \in {"deqUnlock", "deqRead", "deqTake"}}

\* The pointers for which a slot was claimed.
Owned == InSlots \cup {obj[t] : t \in Storing}

\* A pointer is in one place.
Apart ==
    /\ \A t \in Threads : obj[t] # NULL =>
         /\ pc[t] \in {"enq", "enqClaim", "enqStore"}
         /\ obj[t] \notin outside
         /\ \A s \in Slots : data[s] # obj[t]
         /\ \A u \in Threads : obj[t] = obj[u] => t = u
    /\ \A s \in Slots : data[s] # NULL =>
         /\ data[s] \notin outside
         /\ \A r \in Slots : data[s] = data[r] => s = r

\* The spinlock keeps the head still for the thread that is about to move it.
Inside == {"deqHead", "deqClaim", "deqUnlock", "deqGiveUp"}
Locked ==
    /\ \A t \in Threads : pc[t] \in Inside => lock = 1
    /\ \A t, u \in Threads : pc[t] \in Inside /\ pc[u] \in Inside => t = u
    /\ \A t \in Threads : pc[t] = "deqClaim" => seen[t] = head /\ head # tail

\* All in all, the claims of slots to fill exceed the claims of slots to empty
\* by the way from head to tail.
Counted == ((tail - head) % Ring) + Cardinality(Claimed) = Cardinality(Owned)

LEMMA InitSound == Init => TypeOK /\ Apart /\ Locked /\ Counted /\ SlotBalance
<1> SUFFICES ASSUME Init PROVE TypeOK /\ Apart /\ Locked /\ Counted /\ SlotBalance
  OBVIOUS
<1>1. 0 \in Slots
  BY RingPositive DEF Slots
<1>2. TypeOK
  BY <1>1, EmptySeq DEF Init, TypeOK
<1>3. Apart /\ Locked
  BY DEF Init, Apart, Locked, Inside
<1>4. Claimed = {} /\ Owned = {}
  BY DEF Init, Claimed, Owned, Storing, InSlots
<1>5. (tail - head) % Ring = 0 /\ head \in Slots /\ tail \in Slots
  BY <1>1, RingBasics DEF Init
<1>6. Counted
  BY <1>4, <1>5, FS_EmptySet DEF Counted
<1>7. SlotBalance
  <2>1. ASSUME NEW s \in Slots
        PROVE  /\ EnqueuersAt(s) = {} /\ DequeuersAt(s) = {}
               /\ Filled(s) = 0 /\ Queued(s) = 0
    <3>1. EnqueuersAt(s) = {} /\ DequeuersAt(s) = {} /\ Filled(s) = 0
      BY DEF Init, EnqueuersAt, DequeuersAt, Filled
    <3>2. (s - head) % Ring \in Nat
      BY <1>5, RingBasics
    <3> QED
      BY <1>5, <3>1, <3>2 DEF Queued
  <2> QED
    BY <2>1, FS_EmptySet DEF SlotBalance
<1> QED
  BY <1>2, <1>3, <1>6, <1>7

LEMMA TypeStep == ASSUME TypeOK, [Next]_vars PROVE TypeOK'
  <2>0. TypeOK
    OBVIOUS
  <2>1. CASE UNCHANGED vars
    BY <2>1 DEF vars, TypeOK
  <2>2. ASSUME NEW t \in Threads, EnqCall(t) PROVE TypeOK'
    BY <2>2 DEF EnqCall, Goto, TypeOK
  <2>3. ASSUME NEW t \in Threads, EnqNull(t) PROVE TypeOK'
    <3>1. 0 \in Slots
      BY RingPositive DEF Slots
    <3> QED
      BY <2>3, <3>1 DEF EnqNull, Return, Goto, TypeOK
  <2>4. ASSUME NEW t \in Threads, EnqLoad(t) PROVE TypeOK'
    BY <2>4 DEF EnqLoad, Goto, TypeOK
  <2>5. ASSUME NEW t \in Threads, EnqClaim(t) PROVE TypeOK'
    <3>1. tail' \in Slots
      BY <2>5, RingBasics DEF EnqClaim, TypeOK
    <3>2. line' \in Seq(Objects)
      BY <2>5, AppendProperties DEF EnqClaim, TypeOK
    <3> QED
      BY <2>5, <3>1, <3>2 DEF EnqClaim, Goto, TypeOK
  <2>6. ASSUME NEW t \in Threads, EnqRetry(t) PROVE TypeOK'
    <3>1. 0 \in Slots
      BY RingPositive DEF Slots
    <3> QED
      BY <2>6, <3>1 DEF EnqRetry, Goto, TypeOK
  <2>7. ASSUME NEW t \in Threads, EnqStore(t) PROVE TypeOK'
    <3>1. 0 \in Slots
      BY RingPositive DEF Slots
    <3> QED
      BY <2>7, <3>1 DEF EnqStore, Return, Goto, TypeOK
  <2>8. ASSUME NEW t \in Threads, DeqCall(t) PROVE TypeOK'
    BY <2>8 DEF DeqCall, Goto, TypeOK
  <2>9. ASSUME NEW t \in Threads, DeqLock(t) PROVE TypeOK'
    BY <2>9 DEF DeqLock, Goto, TypeOK
  <2>10. ASSUME NEW t \in Threads, DeqEmpty(t) PROVE TypeOK'
    BY <2>10 DEF DeqEmpty, Goto, TypeOK
  <2>11. ASSUME NEW t \in Threads, DeqHead(t) PROVE TypeOK'
    BY <2>11 DEF DeqHead, Goto, TypeOK
  <2>12. ASSUME NEW t \in Threads, DeqClaim(t) PROVE TypeOK'
    <3>1. head' \in Slots
      BY <2>12, RingBasics DEF DeqClaim, TypeOK
    <3> QED
      BY <2>12, <3>1 DEF DeqClaim, Goto, TypeOK
  <2>13. ASSUME NEW t \in Threads, DeqUnlock(t) PROVE TypeOK'
    BY <2>13 DEF DeqUnlock, Goto, TypeOK
  <2>14. ASSUME NEW t \in Threads, DeqRead(t) PROVE TypeOK'
    BY <2>14 DEF DeqRead, Goto, TypeOK
  <2>15. ASSUME NEW t \in Threads, DeqTake(t) PROVE TypeOK'
    <3>1. 0 \in Slots
      BY RingPositive DEF Slots
    <3>2. line' \in Seq(Objects)
      BY <2>15, WithoutType DEF DeqTake, TypeOK
    <3> QED
      BY <2>15, <3>1, <3>2 DEF DeqTake, Return, Goto, TypeOK
  <2>16. ASSUME NEW t \in Threads, DeqLost(t) PROVE TypeOK'
    BY <2>16 DEF DeqLost, Goto, TypeOK
  <2> QED
    BY <2>1, <2>2, <2>3, <2>4, <2>5, <2>6, <2>7, <2>8, <2>9, <2>10, <2>11, <2>12, <2>13,
       <2>14, <2>15, <2>16
       DEF Next, EnqStep, DeqStep

LEMMA ApartStep == ASSUME TypeOK, Apart, [Next]_vars PROVE Apart'
  <2> USE NullAssumption
  <2>1. CASE UNCHANGED vars
    BY <2>1 DEF vars, Apart
  <2>2. ASSUME NEW t \in Threads, EnqCall(t) PROVE Apart'
    BY <2>2 DEF EnqCall, Goto, TypeOK, Apart
  <2>3. ASSUME NEW t \in Threads, EnqNull(t) PROVE Apart'
    BY <2>3 DEF EnqNull, Return, Goto, TypeOK, Apart
  <2>4. ASSUME NEW t \in Threads, EnqLoad(t) PROVE Apart'
    BY <2>4 DEF EnqLoad, Goto, TypeOK, Apart
  <2>5. ASSUME NEW t \in Threads, EnqClaim(t) PROVE Apart'
    BY <2>5 DEF EnqClaim, Goto, TypeOK, Apart
  <2>6. ASSUME NEW t \in Threads, EnqRetry(t) PROVE Apart'
    BY <2>6 DEF EnqRetry, Goto, TypeOK, Apart
  <2>7. ASSUME NEW t \in Threads, EnqStore(t) PROVE Apart'
    BY <2>7 DEF EnqStore, Return, Goto, TypeOK, Apart
  <2>8. ASSUME NEW t \in Threads, DeqCall(t) PROVE Apart'
    BY <2>8 DEF DeqCall, Goto, TypeOK, Apart
  <2>9. ASSUME NEW t \in Threads, DeqTake(t) PROVE Apart'
    BY <2>9 DEF DeqTake, Return, Goto, TypeOK, Apart
  <2>10. ASSUME NEW t \in Threads,
               \/ DeqLock(t) \/ DeqEmpty(t) \/ DeqHead(t) \/ DeqClaim(t) \/ DeqUnlock(t)
               \/ DeqRead(t) \/ DeqLost(t)
        PROVE  Apart'
    BY <2>10 DEF DeqLock, DeqEmpty, DeqHead, DeqClaim, DeqUnlock, DeqRead, DeqLost, Goto,
       TypeOK, Apart
  <2> QED
    BY <2>1, <2>2, <2>3, <2>4, <2>5, <2>6, <2>7, <2>8, <2>9, <2>10
       DEF Next, EnqStep, DeqStep


LEMMA OwnedFinite ==
  ASSUME TypeOK
  PROVE  /\ InSlots \subseteq Owned /\ Owned \subseteq Objects
         /\ IsFiniteSet(Owned) /\ Cardinality(Owned) \in Nat
         /\ IsFiniteSet(InSlots) /\ Cardinality(InSlots) <= Cardinality(Owned)
         /\ IsFiniteSet(Claimed) /\ Cardinality(Claimed) \in Nat
<1>1. InSlots \subseteq Owned /\ InSlots \subseteq Objects
  BY DEF Owned, InSlots, TypeOK
<1>2. {obj[t] : t \in Storing} \subseteq Objects
  BY DEF Storing, TypeOK
<1>3. Owned \subseteq Objects /\ Claimed \subseteq Threads
  BY <1>1, <1>2 DEF Owned, Claimed
<1> QED
  BY <1>1, <1>3, FiniteAssumption, FS_Subset, FS_CardinalityType

(* Whoever is about to claim a slot holds a pointer that nobody claimed one *)
(* for: the contract leaves room for it, and a slot empty.                  *)
LEMMA RoomLeft ==
  ASSUME TypeOK, Apart, NEW t \in Threads, obj[t] \in Objects, pc[t] # "enqStore"
  PROVE  obj[t] \notin Owned /\ Cardinality(Owned) < Capacity
<1>1. obj[t] \notin Owned
  BY NullAssumption DEF Apart, Owned, InSlots, Storing
<1>2. Owned \cup {obj[t]} \subseteq Objects
  BY OwnedFinite
<1>3. Cardinality(Owned \cup {obj[t]}) = Cardinality(Owned) + 1
  BY <1>1, OwnedFinite, FS_AddElement
<1>4. Cardinality(Owned \cup {obj[t]}) <= Cardinality(Objects) /\ Cardinality(Objects) \in Nat
  BY <1>2, FiniteAssumption, FS_Subset, FS_CardinalityType
<1> QED
  BY <1>1, <1>3, <1>4, OwnedFinite, ContractAssumption

LEMMA RingNotFull ==
  ASSUME TypeOK, Apart, Counted, NEW t \in Threads, obj[t] \in Objects, pc[t] # "enqStore"
  PROVE  (tail - head) % Ring < Ring - 1
<1> DEFINE n == (tail - head) % Ring
<1>1. n + Cardinality(Claimed) = Cardinality(Owned) /\ n \in Nat
  BY RingBasics DEF Counted, TypeOK
<1>2. Cardinality(Owned) < Capacity /\ Cardinality(Owned) \in Nat /\ Cardinality(Claimed) \in Nat
  BY RoomLeft, OwnedFinite
<1> HIDE DEF n
<1>3. n < Ring - 1
  BY <1>1, <1>2, RingPositive, ContractAssumption
<1> QED
  BY <1>3 DEF n

(* The tail moves on by one, and so gets further from the head.             *)
LEMMA TailMoves ==
  ASSUME TypeOK, Apart, Counted, NEW t \in Threads, EnqClaim(t)
  PROVE  /\ seen[t] = tail /\ tail' = (tail + 1) % Ring /\ head' = head
         /\ (tail' - head) % Ring = ((tail - head) % Ring) + 1
         /\ (tail' - head) % Ring # 0
<1>1. seen[t] = tail /\ tail' = (tail + 1) % Ring /\ head' = head
      /\ obj[t] \in Objects /\ pc[t] # "enqStore"
  BY DEF EnqClaim, TypeOK
<1>2. (tail - head) % Ring < Ring - 1
  BY <1>1, RingNotFull
<1>3. (((tail + 1) % Ring) - head) % Ring = ((tail - head) % Ring) + 1
  BY <1>2, FurtherOn DEF TypeOK
<1>4. (tail - head) % Ring \in Nat
  BY RingBasics DEF TypeOK
<1>5. (tail' - head) % Ring = ((tail - head) % Ring) + 1
  BY <1>1, <1>3
<1> QED
  BY <1>1, <1>4, <1>5

LEMMA LockedStep == ASSUME TypeOK, Apart, Locked, Counted, [Next]_vars PROVE Locked'
  <2>1. CASE UNCHANGED vars
    BY <2>1 DEF vars, Locked
  <2>2. ASSUME NEW t \in Threads, EnqClaim(t) PROVE Locked'
    <3>1. head # tail'
      <4>1. head \in Slots /\ tail' \in Slots
        BY <2>2, RingBasics DEF EnqClaim, TypeOK
      <4>2. (tail' - head) % Ring # 0
        BY <2>2, TailMoves
      <4> QED
        BY <4>1, <4>2, RingBasics
    <3> QED
      BY <2>2, <3>1 DEF EnqClaim, Goto, TypeOK, Locked, Inside
  <2>3. ASSUME NEW t \in Threads, DeqCall(t) PROVE Locked'
    BY <2>3 DEF DeqCall, Goto, TypeOK, Locked, Inside
  <2>4. ASSUME NEW t \in Threads, DeqLock(t) PROVE Locked'
    BY <2>4 DEF DeqLock, Goto, TypeOK, Locked, Inside
  <2>5. ASSUME NEW t \in Threads, DeqEmpty(t) PROVE Locked'
    BY <2>5 DEF DeqEmpty, Goto, TypeOK, Locked, Inside
  <2>6. ASSUME NEW t \in Threads, DeqHead(t) PROVE Locked'
    BY <2>6 DEF DeqHead, Goto, TypeOK, Locked, Inside
  <2>7. ASSUME NEW t \in Threads, DeqClaim(t) PROVE Locked'
    BY <2>7 DEF DeqClaim, Goto, TypeOK, Locked, Inside
  <2>8. ASSUME NEW t \in Threads, DeqUnlock(t) PROVE Locked'
    BY <2>8 DEF DeqUnlock, Goto, TypeOK, Locked, Inside
  <2>9. ASSUME NEW t \in Threads,
               \/ EnqCall(t) \/ EnqNull(t) \/ EnqLoad(t) \/ EnqRetry(t) \/ EnqStore(t)
               \/ DeqRead(t) \/ DeqTake(t) \/ DeqLost(t)
        PROVE  Locked'
    BY <2>9 DEF EnqCall, EnqNull, Return, EnqLoad, EnqRetry, EnqStore, DeqRead, DeqTake,
       DeqLost, Goto, TypeOK, Locked, Inside
  <2> QED
    BY <2>1, <2>2, <2>3, <2>4, <2>5, <2>6, <2>7, <2>8, <2>9
       DEF Next, EnqStep, DeqStep

(* What a dequeue takes leaves the slots; what an enqueue stores enters them.*)
LEMMA SlotFilled ==
  ASSUME TypeOK, NEW t \in Threads, EnqStore(t)
  PROVE  /\ obj[t] \in Objects /\ obj[t] # NULL
         /\ InSlots' = InSlots \cup {obj[t]}
<1>1. /\ obj[t] \in Objects /\ obj[t] # NULL /\ seen[t] \in Slots
      /\ data[seen[t]] = NULL /\ data' = [data EXCEPT ![seen[t]] = obj[t]]
  BY NullAssumption DEF EnqStore, TypeOK
<1> QED
  BY <1>1 DEF InSlots, TypeOK

LEMMA SlotEmptied ==
  ASSUME TypeOK, Apart, NEW t \in Threads, DeqTake(t)
  PROVE  /\ ptr[t] \in InSlots /\ ptr[t] # NULL
         /\ InSlots' = InSlots \ {ptr[t]}
         /\ \A u \in Threads : obj[u] # ptr[t]
<1>1. /\ ptr[t] \in Objects /\ ptr[t] # NULL /\ seen[t] \in Slots
      /\ data[seen[t]] = ptr[t] /\ data' = [data EXCEPT ![seen[t]] = NULL]
  BY NullAssumption DEF DeqTake, TypeOK
<1>2. \A s \in Slots : data[s] = ptr[t] => s = seen[t]
  BY <1>1 DEF Apart
<1>3. \A u \in Threads : obj[u] # ptr[t]
  BY <1>1 DEF Apart
<1> QED
  BY <1>1, <1>2, <1>3 DEF InSlots, TypeOK

LEMMA CountedStep == ASSUME TypeOK, Apart, Locked, Counted, [Next]_vars PROVE Counted'
  <2>0. /\ (tail - head) % Ring \in Nat
        /\ ((tail - head) % Ring) + Cardinality(Claimed) = Cardinality(Owned)
        /\ Cardinality(Owned) \in Nat /\ Cardinality(Claimed) \in Nat
    BY OwnedFinite, RingBasics DEF Counted, TypeOK
  <2>1. CASE UNCHANGED vars
    BY <2>1 DEF vars, Counted, Claimed, Owned, Storing, InSlots
  <2>2. ASSUME NEW t \in Threads, EnqClaim(t) PROVE Counted'
    <3>1. Claimed' = Claimed
      BY <2>2 DEF EnqClaim, Goto, Claimed, TypeOK
    <3>2. obj[t] \notin Owned
      BY <2>2, RoomLeft DEF EnqClaim, TypeOK
    <3>3. Owned' = Owned \cup {obj[t]}
      <4>1. Storing' = Storing \cup {t} /\ UNCHANGED <<obj, data>>
        BY <2>2 DEF EnqClaim, Goto, Storing, TypeOK
      <4> QED
        BY <4>1 DEF Owned, InSlots
    <3>4. Cardinality(Owned)' = Cardinality(Owned) + 1
      BY <3>2, <3>3, OwnedFinite, FS_AddElement
    <3>5. (tail' - head') % Ring = ((tail - head) % Ring) + 1
      BY <2>2, TailMoves
    <3> QED
      BY <2>0, <3>1, <3>4, <3>5 DEF Counted
  <2>3. ASSUME NEW t \in Threads, EnqStore(t) PROVE Counted'
    <3>1. Claimed' = Claimed /\ UNCHANGED <<head, tail>>
      BY <2>3 DEF EnqStore, Return, Goto, Claimed, TypeOK
    <3>2. InSlots' = InSlots \cup {obj[t]}
      BY <2>3, SlotFilled
    <3>3. /\ Storing' = Storing \ {t} /\ t \in Storing
          /\ \A u \in Storing' : obj'[u] = obj[u]
      BY <2>3 DEF EnqStore, Return, Goto, Storing, TypeOK
    <3>4. Owned' = Owned
      BY <3>2, <3>3 DEF Owned
    <3> QED
      BY <3>1, <3>4 DEF Counted
  <2>4. ASSUME NEW t \in Threads, DeqClaim(t) PROVE Counted'
    <3>1. Claimed' = Claimed \cup {t} /\ t \notin Claimed
      BY <2>4 DEF DeqClaim, Goto, Claimed, TypeOK
    <3>2. Cardinality(Claimed)' = Cardinality(Claimed) + 1
      BY <3>1, OwnedFinite, FS_AddElement
    <3>3. Owned' = Owned
      BY <2>4 DEF DeqClaim, Goto, Owned, InSlots, Storing, TypeOK
    <3>4. head' = (head + 1) % Ring /\ tail' = tail /\ head # tail
      BY <2>4 DEF DeqClaim, Locked
    <3>5. (tail' - head') % Ring = ((tail - head) % Ring) - 1
      BY <3>4, NearerFrom DEF TypeOK
    <3> QED
      BY <2>0, <3>2, <3>3, <3>5 DEF Counted
  <2>5. ASSUME NEW t \in Threads, DeqTake(t) PROVE Counted'
    <3>1. Claimed' = Claimed \ {t} /\ t \in Claimed /\ UNCHANGED <<head, tail>>
      BY <2>5 DEF DeqTake, Return, Goto, Claimed, TypeOK
    <3>2. Cardinality(Claimed)' = Cardinality(Claimed) - 1
      BY <3>1, OwnedFinite, FS_RemoveElement
    <3>3. /\ ptr[t] \in InSlots /\ InSlots' = InSlots \ {ptr[t]}
          /\ \A u \in Threads : obj[u] # ptr[t]
      BY <2>5, SlotEmptied
    <3>4. Storing' = Storing /\ \A u \in Storing : obj'[u] = obj[u]
      BY <2>5 DEF DeqTake, Return, Goto, Storing, TypeOK
    <3>5. Owned' = Owned \ {ptr[t]} /\ ptr[t] \in Owned
      BY <3>3, <3>4 DEF Owned, Storing
    <3>6. Cardinality(Owned)' = Cardinality(Owned) - 1
      BY <3>5, OwnedFinite, FS_RemoveElement
    <3> QED
      BY <2>0, <3>1, <3>2, <3>6 DEF Counted
  <2>6. ASSUME NEW t \in Threads,
               \/ EnqCall(t) \/ EnqNull(t) \/ EnqLoad(t) \/ EnqRetry(t)
        PROVE  Counted'
    <3>1. Claimed' = Claimed /\ UNCHANGED <<head, tail, data>>
      BY <2>6 DEF EnqCall, EnqNull, Return, EnqLoad, EnqRetry, Goto, Claimed, TypeOK
    <3>2. Storing' = Storing /\ \A u \in Storing : obj'[u] = obj[u]
      BY <2>6 DEF EnqCall, EnqNull, Return, EnqLoad, EnqRetry, Goto, Storing, TypeOK
    <3> QED
      BY <3>1, <3>2 DEF Counted, Owned, InSlots
  <2>7. ASSUME NEW t \in Threads,
               \/ DeqCall(t) \/ DeqLock(t) \/ DeqEmpty(t) \/ DeqHead(t) \/ DeqUnlock(t)
               \/ DeqRead(t) \/ DeqLost(t)
        PROVE  Counted'
    <3>1. Claimed' = Claimed /\ UNCHANGED <<head, tail, data>>
      BY <2>7 DEF DeqCall, DeqLock, DeqEmpty, DeqHead, DeqUnlock, DeqRead, DeqLost, Goto,
         Claimed, TypeOK
    <3>2. Storing' = Storing /\ \A u \in Storing : obj'[u] = obj[u]
      BY <2>7 DEF DeqCall, DeqLock, DeqEmpty, DeqHead, DeqUnlock, DeqRead, DeqLost, Goto,
         Storing, TypeOK
    <3> QED
      BY <3>1, <3>2 DEF Counted, Owned, InSlots
  <2> QED
    BY <2>1, <2>2, <2>3, <2>4, <2>5, <2>6, <2>7
       DEF Next, EnqStep, DeqStep

(* A claim moves only its thread between the claims on a slot.              *)
LEMMA ClaimsMove ==
  ASSUME NEW t \in Threads, NEW s \in Slots,
         \A u \in Threads \ {t} : pc'[u] = pc[u] /\ seen'[u] = seen[u]
  PROVE  /\ Cardinality(EnqueuersAt(s)') + One(t \in EnqueuersAt(s))
              = Cardinality(EnqueuersAt(s)) + One(t \in EnqueuersAt(s)')
         /\ Cardinality(DequeuersAt(s)') + One(t \in DequeuersAt(s))
              = Cardinality(DequeuersAt(s)) + One(t \in DequeuersAt(s)')
         /\ Cardinality(EnqueuersAt(s)) \in Nat /\ Cardinality(EnqueuersAt(s)') \in Nat
         /\ Cardinality(DequeuersAt(s)) \in Nat /\ Cardinality(DequeuersAt(s)') \in Nat
<1>1. /\ EnqueuersAt(s) \ {t} = EnqueuersAt(s)' \ {t}
      /\ DequeuersAt(s) \ {t} = DequeuersAt(s)' \ {t}
  BY DEF EnqueuersAt, DequeuersAt
<1>2. EnqueuersAt(s) \subseteq Threads /\ DequeuersAt(s) \subseteq Threads
  BY DEF EnqueuersAt, DequeuersAt
<1>3. IsFiniteSet(EnqueuersAt(s)) /\ IsFiniteSet(DequeuersAt(s))
  BY <1>2, FiniteAssumption, FS_Subset
<1> QED
  BY <1>1, <1>3, DifferInOne

BalancedAt(s) ==
    Cardinality(EnqueuersAt(s)) + Filled(s) = Cardinality(DequeuersAt(s)) + Queued(s)

(* A slot stays in balance if its pointer and its place in the ring change  *)
(* as the claims on it do.                                                  *)
LEMMA StaysBalanced ==
  ASSUME NEW t \in Threads, NEW s \in Slots, BalancedAt(s),
         \A u \in Threads \ {t} : pc'[u] = pc[u] /\ seen'[u] = seen[u],
         NEW e \in Int, NEW e2 \in Int, NEW d \in Int, NEW d2 \in Int,
         e = One(t \in EnqueuersAt(s)), e2 = One(t \in EnqueuersAt(s)'),
         d = One(t \in DequeuersAt(s)), d2 = One(t \in DequeuersAt(s)'),
         e2 - e + Filled(s)' - Filled(s) = d2 - d + Queued(s)' - Queued(s)
  PROVE  BalancedAt(s)'
<1>1. /\ Cardinality(EnqueuersAt(s)') + e = Cardinality(EnqueuersAt(s)) + e2
      /\ Cardinality(DequeuersAt(s)') + d = Cardinality(DequeuersAt(s)) + d2
      /\ Cardinality(EnqueuersAt(s)) \in Nat /\ Cardinality(EnqueuersAt(s)') \in Nat
      /\ Cardinality(DequeuersAt(s)) \in Nat /\ Cardinality(DequeuersAt(s)') \in Nat
  BY ClaimsMove
<1>2. Filled(s) \in Int /\ Filled(s)' \in Int /\ Queued(s) \in Int /\ Queued(s)' \in Int
  BY DEF Filled, Queued
<1>3. Cardinality(EnqueuersAt(s)) + Filled(s) = Cardinality(DequeuersAt(s)) + Queued(s)
  BY DEF BalancedAt
<1>4. Cardinality(EnqueuersAt(s)') + Filled(s)' = Cardinality(DequeuersAt(s)') + Queued(s)'
  <2> DEFINE E == Cardinality(EnqueuersAt(s))  EE == Cardinality(EnqueuersAt(s)')
             D == Cardinality(DequeuersAt(s))  DD == Cardinality(DequeuersAt(s)')
             F == Filled(s)  FF == Filled(s)'  Q == Queued(s)  QQ == Queued(s)'
  <2>1. /\ E \in Int /\ EE \in Int /\ D \in Int /\ DD \in Int
        /\ F \in Int /\ FF \in Int /\ Q \in Int /\ QQ \in Int
    BY <1>1, <1>2
  <2>2. EE + e = E + e2 /\ DD + d = D + d2 /\ E + F = D + Q
        /\ e2 - e + FF - F = d2 - d + QQ - Q
    BY <1>1, <1>3
  <2> HIDE DEF E, EE, D, DD, F, FF, Q, QQ
  <2>3. EE + FF = DD + QQ
    BY <2>1, <2>2
  <2> QED
    BY <2>3 DEF EE, FF, DD, QQ
<1> QED
  BY <1>4 DEF BalancedAt

LEMMA BalanceStep ==
  ASSUME TypeOK, Apart, Locked, Counted, SlotBalance, [Next]_vars
  PROVE  SlotBalance'
  <2>0. \A s \in Slots : BalancedAt(s)
    BY DEF SlotBalance, BalancedAt
  <2> SUFFICES ASSUME NEW s \in Slots PROVE BalancedAt(s)'
    BY DEF SlotBalance, BalancedAt
  <2>1. CASE UNCHANGED vars
    BY <2>0, <2>1 DEF vars, BalancedAt, EnqueuersAt, DequeuersAt, Filled, Queued
  <2>2. ASSUME NEW t \in Threads, EnqClaim(t) PROVE BalancedAt(s)'
    <3>1. /\ \A u \in Threads \ {t} : pc'[u] = pc[u] /\ seen'[u] = seen[u]
          /\ pc[t] = "enqClaim" /\ pc'[t] = "enqStore" /\ seen'[t] = seen[t]
          /\ UNCHANGED data
      BY <2>2 DEF EnqClaim, Goto, TypeOK
    <3>2. /\ seen[t] = tail /\ head' = head
          /\ (tail' - head) % Ring = ((tail - head) % Ring) + 1
      BY <2>2, TailMoves
    <3>3. Queued(s)' = IF s = tail THEN 1 ELSE Queued(s)
      <4> DEFINE x == (s - head) % Ring  n == (tail - head) % Ring
      <4>1. x \in Nat /\ n \in Nat /\ (x = n => s = tail) /\ (s = tail => x = n)
        BY RingBasics, RingInjective DEF TypeOK
      <4>2. Queued(s) = (IF x < n THEN 1 ELSE 0) /\ Queued(s)' = IF x < n + 1 THEN 1 ELSE 0
        BY <3>2 DEF Queued
      <4> HIDE DEF x, n
      <4> QED
        BY <4>1, <4>2
    <3>4. s = tail => Queued(s) = 0
      <4>1. (tail - head) % Ring \in Nat
        BY RingBasics DEF TypeOK
      <4> QED
        BY <4>1 DEF Queued
    <3>5. /\ One(t \in EnqueuersAt(s)) = 0
          /\ One(t \in EnqueuersAt(s)') = IF s = tail THEN 1 ELSE 0
          /\ One(t \in DequeuersAt(s)) = 0 /\ One(t \in DequeuersAt(s)') = 0
          /\ Filled(s)' = Filled(s)
      BY <3>1, <3>2 DEF One, EnqueuersAt, DequeuersAt, Filled
    <3>6. Filled(s) \in Int /\ Queued(s) \in Int
      BY DEF Filled, Queued
    <3>7. CASE s = tail
      BY <2>0, <3>1, <3>3, <3>4, <3>5, <3>6, <3>7, StaysBalanced
    <3>8. CASE s # tail
      BY <2>0, <3>1, <3>3, <3>5, <3>6, <3>8, StaysBalanced
    <3> QED
      BY <3>7, <3>8
  <2>3. ASSUME NEW t \in Threads, EnqStore(t) PROVE BalancedAt(s)'
    <3>1. /\ \A u \in Threads \ {t} : pc'[u] = pc[u] /\ seen'[u] = seen[u]
          /\ pc[t] = "enqStore" /\ pc'[t] = "idle" /\ seen[t] \in Slots
          /\ data[seen[t]] = NULL /\ data' = [data EXCEPT ![seen[t]] = obj[t]]
          /\ UNCHANGED <<head, tail>>
      BY <2>3 DEF EnqStore, Return, Goto, TypeOK
    <3>2. obj[t] # NULL
      BY <2>3, SlotFilled
    <3>3. /\ One(t \in EnqueuersAt(s)) = IF s = seen[t] THEN 1 ELSE 0
          /\ One(t \in EnqueuersAt(s)') = 0
          /\ One(t \in DequeuersAt(s)) = 0 /\ One(t \in DequeuersAt(s)') = 0
      BY <3>1 DEF One, EnqueuersAt, DequeuersAt
    <3>4. /\ Queued(s)' = Queued(s)
          /\ Filled(s)' = IF s = seen[t] THEN 1 ELSE Filled(s)
          /\ s = seen[t] => Filled(s) = 0
      BY <3>1, <3>2 DEF Queued, Filled, TypeOK
    <3>5. Filled(s) \in Int /\ Queued(s) \in Int
      BY DEF Filled, Queued
    <3>6. CASE s = seen[t]
      BY <2>0, <3>1, <3>3, <3>4, <3>5, <3>6, StaysBalanced
    <3>7. CASE s # seen[t]
      BY <2>0, <3>1, <3>3, <3>4, <3>5, <3>7, StaysBalanced
    <3> QED
      BY <3>6, <3>7
  <2>4. ASSUME NEW t \in Threads, DeqClaim(t) PROVE BalancedAt(s)'
    <3>1. /\ \A u \in Threads \ {t} : pc'[u] = pc[u] /\ seen'[u] = seen[u]
          /\ pc[t] = "deqClaim" /\ pc'[t] = "deqUnlock" /\ seen'[t] = seen[t]
          /\ UNCHANGED <<data, tail>>
          /\ seen[t] = head /\ head # tail /\ head' = (head + 1) % Ring
      BY <2>4 DEF DeqClaim, Goto, TypeOK, Locked
    <3>2. /\ Queued(s)' = IF s = head THEN 0 ELSE Queued(s)
          /\ s = head => Queued(s) = 1
      <4> DEFINE x == (s - head) % Ring  n == (tail - head) % Ring
                 y == (s - head') % Ring  m == (tail - head') % Ring
      <4>1. x \in Nat /\ n \in Nat /\ n < Ring /\ n # 0 /\ (x = 0 <=> s = head)
        BY <3>1, RingBasics DEF TypeOK
      <4>2. (y = IF head = s THEN Ring - 1 ELSE x - 1) /\ m = n - 1
        BY <3>1, NearerFrom DEF TypeOK
      <4>3. Queued(s) = (IF x < n THEN 1 ELSE 0) /\ Queued(s)' = IF y < m THEN 1 ELSE 0
        BY <3>1 DEF Queued
      <4> HIDE DEF x, n, y, m
      <4> QED
        BY <4>1, <4>2, <4>3, RingPositive
    <3>3. /\ One(t \in EnqueuersAt(s)) = 0 /\ One(t \in EnqueuersAt(s)') = 0
          /\ One(t \in DequeuersAt(s)) = 0
          /\ One(t \in DequeuersAt(s)') = IF s = head THEN 1 ELSE 0
          /\ Filled(s)' = Filled(s)
      BY <3>1 DEF One, EnqueuersAt, DequeuersAt, Filled
    <3>4. Filled(s) \in Int /\ Queued(s) \in Int
      BY DEF Filled, Queued
    <3>5. CASE s = head
      BY <2>0, <3>1, <3>2, <3>3, <3>4, <3>5, StaysBalanced
    <3>6. CASE s # head
      BY <2>0, <3>1, <3>2, <3>3, <3>4, <3>6, StaysBalanced
    <3> QED
      BY <3>5, <3>6
  <2>5. ASSUME NEW t \in Threads, DeqTake(t) PROVE BalancedAt(s)'
    <3>1. /\ \A u \in Threads \ {t} : pc'[u] = pc[u] /\ seen'[u] = seen[u]
          /\ pc[t] = "deqTake" /\ pc'[t] = "idle" /\ seen[t] \in Slots
          /\ data[seen[t]] # NULL /\ data' = [data EXCEPT ![seen[t]] = NULL]
          /\ UNCHANGED <<head, tail>>
      BY <2>5, NullAssumption DEF DeqTake, Return, Goto, TypeOK
    <3>2. /\ One(t \in EnqueuersAt(s)) = 0 /\ One(t \in EnqueuersAt(s)') = 0
          /\ One(t \in DequeuersAt(s)) = IF s = seen[t] THEN 1 ELSE 0
          /\ One(t \in DequeuersAt(s)') = 0
      BY <3>1 DEF One, EnqueuersAt, DequeuersAt
    <3>3. /\ Queued(s)' = Queued(s)
          /\ Filled(s)' = IF s = seen[t] THEN 0 ELSE Filled(s)
          /\ s = seen[t] => Filled(s) = 1
      BY <3>1 DEF Queued, Filled, TypeOK
    <3>4. Filled(s) \in Int /\ Queued(s) \in Int
      BY DEF Filled, Queued
    <3>5. CASE s = seen[t]
      BY <2>0, <3>1, <3>2, <3>3, <3>4, <3>5, StaysBalanced
    <3>6. CASE s # seen[t]
      BY <2>0, <3>1, <3>2, <3>3, <3>4, <3>6, StaysBalanced
    <3> QED
      BY <3>5, <3>6
  <2>6. ASSUME NEW t \in Threads,
               \/ EnqCall(t) \/ EnqNull(t) \/ EnqLoad(t) \/ EnqRetry(t)
        PROVE  BalancedAt(s)'
    <3>1. /\ EnqueuersAt(s)' = EnqueuersAt(s) /\ DequeuersAt(s)' = DequeuersAt(s)
          /\ UNCHANGED <<head, tail, data>>
      BY <2>6 DEF EnqCall, EnqNull, Return, EnqLoad, EnqRetry, Goto, EnqueuersAt,
         DequeuersAt, TypeOK
    <3> QED
      BY <2>0, <3>1 DEF BalancedAt, Filled, Queued
  <2>7. ASSUME NEW t \in Threads,
               \/ DeqCall(t) \/ DeqLock(t) \/ DeqEmpty(t) \/ DeqHead(t) \/ DeqUnlock(t)
               \/ DeqRead(t) \/ DeqLost(t)
        PROVE  BalancedAt(s)'
    <3>1. /\ EnqueuersAt(s)' = EnqueuersAt(s) /\ DequeuersAt(s)' = DequeuersAt(s)
          /\ UNCHANGED <<head, tail, data>>
      BY <2>7 DEF DeqCall, DeqLock, DeqEmpty, DeqHead, DeqUnlock, DeqRead, DeqLost, Goto,
         EnqueuersAt, DequeuersAt, TypeOK
    <3> QED
      BY <2>0, <3>1 DEF BalancedAt, Filled, Queued
  <2> QED
    BY <2>1, <2>2, <2>3, <2>4, <2>5, <2>6, <2>7
       DEF Next, EnqStep, DeqStep

QueueInvariant == TypeOK /\ Apart /\ Locked /\ Counted /\ SlotBalance

LEMMA QueueHolds == Spec => []QueueInvariant
<1>1. QueueInvariant /\ [Next]_vars => QueueInvariant'
  BY TypeStep, ApartStep, LockedStep, CountedStep, BalanceStep DEF QueueInvariant
<1> QED
  BY <1>1, InitSound, PTL DEF Spec, QueueInvariant

(* Dequeues that stall may be lapped, so that several wait at one slot with *)
(* an enqueue; still the enqueues that have to fill a slot and the pointer  *)
(* in it balance the dequeues that have to empty it and the pointer that    *)
(* head and tail say is there (libam_cqueue.c:76-117).                      *)
THEOREM SlotsBalanced == Spec => []SlotsSound
BY QueueHolds, PTL DEF QueueInvariant, SlotsSound


-----------------------------------------------------------------------------
(* The queue implements the container AmBag.                                *)
LEMMA SameCardinality == \A S : Bag!Cardinality(S) = Cardinality(S)
BY DEF Bag!Cardinality, Cardinality

LEMMA BagStep ==
  ASSUME QueueInvariant, [Next]_vars PROVE [Bag!Next]_(Bag!vars)
  <2> DEFINE op == [t \in Threads |-> OpOf(t)]
  <2>0. TypeOK /\ Apart /\ Locked /\ Counted
    BY DEF QueueInvariant
  <2>1. CASE UNCHANGED vars
    BY <2>1 DEF vars, Bag!vars, InSlots, OpOf
  <2>2. ASSUME NEW t \in Threads, EnqCall(t) PROVE [Bag!Next]_(Bag!vars)
    <3>1. op[t] = "none" /\ op' = [op EXCEPT ![t] = "push"]
      BY <2>2, <2>0 DEF EnqCall, Goto, OpOf, TypeOK
    <3>2. InSlots' = InSlots
      BY <2>2 DEF EnqCall, InSlots
    <3> QED
      BY <2>2, <3>1, <3>2 DEF EnqCall, Bag!BeginPush, Bag!Next
  <2>3. ASSUME NEW t \in Threads, EnqNull(t) PROVE [Bag!Next]_(Bag!vars)
    <3>1. op[t] = "push" /\ op' = [op EXCEPT ![t] = "none"]
      BY <2>3, <2>0 DEF EnqNull, Return, Goto, OpOf, TypeOK
    <3>2. InSlots' = InSlots
      BY <2>3 DEF EnqNull, InSlots
    <3>3. outside' = outside \cup ({obj[t]} \ {NULL}) /\ obj[t] = NULL
      BY <2>3 DEF EnqNull
    <3>4. obj' = [obj EXCEPT ![t] = NULL]
      BY <2>3 DEF EnqNull, Return
    <3> QED
      BY <3>1, <3>2, <3>3, <3>4 DEF Bag!FailPush, Bag!Next
  <2>4. ASSUME NEW t \in Threads, EnqStore(t) PROVE [Bag!Next]_(Bag!vars)
    <3>1. op[t] = "push" /\ op' = [op EXCEPT ![t] = "none"]
      BY <2>4, <2>0 DEF EnqStore, Return, Goto, OpOf, TypeOK
    <3>2. obj[t] \in Objects /\ obj[t] # NULL /\ InSlots' = InSlots \cup {obj[t]}
      BY <2>4, <2>0, SlotFilled
    <3>3. Cardinality(InSlots) < Capacity
      <4>1. obj[t] \notin InSlots /\ InSlots \cup {obj[t]} \subseteq Objects
        BY <2>0, <3>2, OwnedFinite DEF Apart, InSlots
      <4>2. Cardinality(InSlots \cup {obj[t]}) = Cardinality(InSlots) + 1
        BY <2>0, <4>1, OwnedFinite, FS_AddElement
      <4>3. Cardinality(InSlots \cup {obj[t]}) <= Cardinality(Objects)
            /\ Cardinality(Objects) \in Nat
        BY <4>1, FiniteAssumption, FS_Subset, FS_CardinalityType
      <4>4. Cardinality(InSlots) \in Nat
        BY <2>0, OwnedFinite, FS_CardinalityType
      <4> QED
        BY <4>2, <4>3, <4>4, ContractAssumption
    <3>4. obj' = [obj EXCEPT ![t] = NULL] /\ UNCHANGED outside
      BY <2>4 DEF EnqStore, Return
    <3> QED
      BY <3>1, <3>2, <3>3, <3>4, SameCardinality DEF Bag!CommitPush, Bag!Next
  <2>5. ASSUME NEW t \in Threads, DeqCall(t) PROVE [Bag!Next]_(Bag!vars)
    <3>1. op[t] = "none" /\ op' = [op EXCEPT ![t] = "pop"]
      BY <2>5, <2>0 DEF DeqCall, Goto, OpOf, TypeOK
    <3>2. InSlots' = InSlots
      BY <2>5 DEF DeqCall, InSlots
    <3> QED
      BY <2>5, <3>1, <3>2 DEF DeqCall, Bag!BeginPop, Bag!Next
  <2>6. ASSUME NEW t \in Threads, DeqEmpty(t) PROVE [Bag!Next]_(Bag!vars)
    <3>1. op[t] = "pop" /\ op' = [op EXCEPT ![t] = "none"]
      BY <2>6, <2>0 DEF DeqEmpty, Goto, OpOf, TypeOK
    <3>2. InSlots' = InSlots
      BY <2>6 DEF DeqEmpty, InSlots
    <3>3. Cardinality(InSlots) <= Cardinality(Bag!Running("pop") \ {t})
      <4>1. (tail - head) % Ring = 0
        BY <2>6, <2>0, RingBasics DEF DeqEmpty, TypeOK
      <4>2. Cardinality(Claimed) = Cardinality(Owned)
        BY <2>0, <4>1, OwnedFinite DEF Counted
      <4>3. Claimed \subseteq Bag!Running("pop") \ {t}
        BY <2>6 DEF DeqEmpty, Claimed, Bag!Running, OpOf
      <4>4. Bag!Running("pop") \ {t} \subseteq Threads
        BY DEF Bag!Running
      <4>5. IsFiniteSet(Bag!Running("pop") \ {t})
        BY <4>4, FiniteAssumption, FS_Subset
      <4>6. Cardinality(Claimed) <= Cardinality(Bag!Running("pop") \ {t})
            /\ Cardinality(Bag!Running("pop") \ {t}) \in Nat
        BY <4>3, <4>5, FS_Subset, FS_CardinalityType
      <4>7. Cardinality(InSlots) <= Cardinality(Owned) /\ Cardinality(InSlots) \in Nat
            /\ Cardinality(Owned) \in Nat
        BY <2>0, OwnedFinite, FS_CardinalityType
      <4> QED
        BY <4>2, <4>6, <4>7
    <3> QED
      BY <2>6, <3>1, <3>2, <3>3, SameCardinality DEF DeqEmpty, Bag!FailPop, Bag!Next
  <2>7. ASSUME NEW t \in Threads, DeqTake(t) PROVE [Bag!Next]_(Bag!vars)
    <3>1. op[t] = "pop" /\ op' = [op EXCEPT ![t] = "none"]
      BY <2>7, <2>0 DEF DeqTake, Return, Goto, OpOf, TypeOK
    <3>2. ptr[t] \in InSlots /\ InSlots' = InSlots \ {ptr[t]}
      BY <2>7, <2>0, SlotEmptied
    <3>3. obj' = obj
      <4>1. obj[t] = NULL
        BY <2>7, <2>0 DEF DeqTake, Apart
      <4> QED
        BY <2>7, <2>0, <4>1 DEF DeqTake, Return, TypeOK
    <3>4. outside' = outside \cup {ptr[t]}
      BY <2>7 DEF DeqTake
    <3> QED
      BY <3>1, <3>2, <3>3, <3>4 DEF Bag!CommitPop, Bag!Next
  <2>8. ASSUME NEW t \in Threads,
               \/ EnqLoad(t) \/ EnqClaim(t) \/ EnqRetry(t) \/ DeqLock(t) \/ DeqHead(t)
               \/ DeqClaim(t) \/ DeqUnlock(t) \/ DeqRead(t) \/ DeqLost(t)
        PROVE  [Bag!Next]_(Bag!vars)
    <3>1. op' = op
      BY <2>8, <2>0 DEF EnqLoad, EnqClaim, EnqRetry, DeqLock, DeqHead, DeqClaim, DeqUnlock,
         DeqRead, DeqLost, Goto, OpOf, TypeOK
    <3>2. InSlots' = InSlots
      BY <2>8 DEF EnqLoad, EnqClaim, EnqRetry, DeqLock, DeqHead, DeqClaim, DeqUnlock,
         DeqRead, DeqLost, InSlots
    <3> QED
      BY <2>8, <3>1, <3>2 DEF EnqLoad, EnqClaim, EnqRetry, DeqLock, DeqHead, DeqClaim,
         DeqUnlock, DeqRead, DeqLost, Bag!vars
  <2> QED
    BY <2>1, <2>2, <2>3, <2>4, <2>5, <2>6, <2>7, <2>8
       DEF Next, EnqStep, DeqStep

(* Within its contract the queue is a container that is never too full to   *)
(* enqueue, and a dequeue reports it empty only when dequeues under way     *)
(* account for all it holds, although head = tail could also mean a full    *)
(* ring (libam_cqueue.c:62-117).                                            *)
THEOREM Refinement == Spec => ImplementsBag
<1>1. Init => Bag!Init
  <2> SUFFICES ASSUME Init PROVE Bag!Init
    OBVIOUS
  <2>1. InSlots = {} /\ \A t \in Threads : OpOf(t) = "none"
    BY DEF Init, InSlots, OpOf
  <2> QED
    BY <2>1 DEF Init, Bag!Init
<1> QED
  BY <1>1, BagStep, QueueHolds, PTL DEF Spec, ImplementsBag, Bag!Spec


-----------------------------------------------------------------------------
(* First in, first out, for a single consumer.                              *)

\* The pointer o is in slot s, or will be: its enqueue has claimed the slot.
DueAt(s, o) ==
    \/ data[s] = o
    \/ data[s] = NULL /\ \E t \in Storing : seen[t] = s /\ obj[t] = o

\* From slot b up to the tail the line is what is, or will be, in the slots.
LineFrom(b) ==
    /\ Len(line) = (tail - b) % Ring
    /\ \A s \in Slots :
         (s - b) % Ring < Len(line) => DueAt(s, line[((s - b) % Ring) + 1])

\* The line begins at the slot the one consumer has claimed, else at the head.
OneReader == Cardinality(readers) = 1
ReadersOnly == \A t \in Threads : pc[t] \notin {"idle", "enq", "enqClaim", "enqStore"}
                                  => t \in readers
LineSound == OneReader =>
    /\ \A t \in Claimed : head = (seen[t] + 1) % Ring /\ LineFrom(seen[t])
    /\ Claimed = {} => LineFrom(head)

LineInvariant == QueueInvariant /\ ReadersOnly /\ LineSound

LEMMA RingReach ==
  ASSUME NEW b \in Slots, NEW k \in Nat, k < Ring
  PROVE  \E s \in Slots : (s - b) % Ring = k
<1>1. Ring \in Nat \ {0} /\ b \in 0 .. Ring - 1
  BY RingPositive DEF Slots
<1> DEFINE s == IF b + k < Ring THEN b + k ELSE b + k - Ring
<1>2. s \in 0 .. Ring - 1 /\ k = IF b <= s THEN s - b ELSE s - b + Ring
  BY <1>1
<1>3. s \in Slots
  BY <1>2 DEF Slots
<1> HIDE DEF s
<1>4. (s - b) % Ring = k
  BY <1>2, <1>3, RingDistance
<1> QED
  BY <1>3, <1>4

LEMMA WithoutFirst ==
  ASSUME NEW s \in Seq(Objects), NEW o, Len(s) > 0, s[1] = o,
         \A i \in 1 .. Len(s) : s[i] = o => i = 1
  PROVE  /\ Len(Without(s, o)) = Len(s) - 1
         /\ \A j \in 1 .. Len(s) - 1 : Without(s, o)[j] = s[j + 1]
<1>1. Len(s) \in Nat /\ 1 \in 1 .. Len(s) /\ \A j \in 1 .. Len(s) : s[j] \in Objects
  BY LenProperties, ElementOfSeq
<1>2. (CHOOSE i \in 1 .. Len(s) : s[i] = o) = 1
  BY <1>1
<1>3. Without(s, o) = SubSeq(s, 1, 1 - 1) \o SubSeq(s, 1 + 1, Len(s))
  BY <1>1, <1>2 DEF Without
<1> DEFINE a == SubSeq(s, 1, 0)  c == SubSeq(s, 2, Len(s))
<1>4. a \in Seq(Objects) /\ Len(a) = 0
  BY <1>1, SubSeqProperties
<1>5. c \in Seq(Objects) /\ Len(c) = Len(s) - 1
      /\ \A j \in 1 .. Len(s) - 1 : c[j] = s[2 + j - 1]
  <2>1. \A j \in 2 .. Len(s) : s[j] \in Objects
    BY <1>1
  <2>2. /\ c \in Seq(Objects)
        /\ Len(c) = IF 2 <= Len(s) THEN Len(s) - 2 + 1 ELSE 0
        /\ \A j \in 1 .. Len(s) - 2 + 1 : c[j] = s[2 + j - 1]
    BY <1>1, <2>1, SubSeqProperties
  <2> DEFINE n == Len(s)
  <2>3. n \in Nat /\ n > 0
    BY <1>1
  <2>4. /\ Len(c) = IF 2 <= n THEN n - 2 + 1 ELSE 0
        /\ \A j \in 1 .. n - 2 + 1 : c[j] = s[2 + j - 1]
    BY <2>2
  <2> HIDE DEF n
  <2>5. Len(c) = n - 1 /\ \A j \in 1 .. n - 1 : c[j] = s[2 + j - 1]
    BY <2>3, <2>4
  <2> QED
    BY <2>2, <2>5 DEF n
<1>6. Without(s, o) = a \o c
  BY <1>3
<1> HIDE DEF a, c
<1>7. Len(a \o c) = Len(c) /\ \A j \in 1 .. Len(c) : (a \o c)[j] = c[j]
  BY <1>4, <1>5, ConcatProperties
<1> QED
  BY <1>1, <1>5, <1>6, <1>7

LEMMA InitLine == Init => LineInvariant
<1> SUFFICES ASSUME Init PROVE LineInvariant
  OBVIOUS
<1>1. head = 0 /\ tail = 0 /\ 0 \in Slots /\ line = <<>> /\ Claimed = {}
  BY RingPositive DEF Init, Slots, Claimed
<1>2. \A s \in Slots : (s - head) % Ring \in Nat
  BY <1>1, RingBasics
<1>3. (tail - head) % Ring = 0
  BY <1>1, RingBasics
<1>4. LineFrom(head)
  BY <1>1, <1>2, <1>3, EmptySeq DEF LineFrom
<1>5. ReadersOnly
  BY DEF Init, ReadersOnly
<1> QED
  BY <1>1, <1>4, <1>5, InitSound DEF LineInvariant, LineSound, QueueInvariant

LEMMA ReadersStep == ASSUME TypeOK, ReadersOnly, [Next]_vars PROVE ReadersOnly'
  <2>1. CASE UNCHANGED vars
    BY <2>1 DEF vars, ReadersOnly
  <2>2. ASSUME NEW t \in Threads,
               \/ EnqCall(t) \/ EnqNull(t) \/ EnqLoad(t) \/ EnqClaim(t) \/ EnqRetry(t)
               \/ EnqStore(t)
        PROVE  ReadersOnly'
    BY <2>2 DEF EnqCall, EnqNull, Return, EnqLoad, EnqClaim, EnqRetry, EnqStore, Goto,
       TypeOK, ReadersOnly
  <2>3. ASSUME NEW t \in Threads,
               \/ DeqCall(t) \/ DeqLock(t) \/ DeqEmpty(t) \/ DeqHead(t) \/ DeqClaim(t)
               \/ DeqUnlock(t) \/ DeqRead(t) \/ DeqTake(t) \/ DeqLost(t)
        PROVE  ReadersOnly'
    BY <2>3 DEF DeqCall, DeqLock, DeqEmpty, DeqHead, DeqClaim, DeqUnlock, DeqRead, DeqTake,
       Return, DeqLost, Goto, TypeOK, ReadersOnly
  <2> QED
    BY <2>1, <2>2, <2>3
       DEF Next, EnqStep, DeqStep

(* One consumer has one slot to empty at most, and that slot is behind the  *)
(* head and ahead of the tail.                                              *)
LEMMA OneClaim ==
  ASSUME LineInvariant, OneReader
  PROVE  /\ \A t, u \in readers : t = u
         /\ \A t \in Claimed : /\ Claimed = {t} /\ seen[t] \in Slots
                               /\ seen[t] # tail
                               /\ (tail - seen[t]) % Ring = ((tail - head) % Ring) + 1
                               /\ (tail - head) % Ring < Capacity
                               /\ ((tail - head) % Ring) + 1 = Cardinality(Owned)
<1>0. TypeOK /\ Counted /\ ReadersOnly /\ LineSound
  BY DEF LineInvariant, QueueInvariant
<1>1. \A t, u \in readers : t = u
  <2>1. IsFiniteSet(readers)
    BY <1>0, FiniteAssumption, FS_Subset DEF TypeOK
  <2>2. \E x : readers = {x}
    BY <2>1, FS_Singleton DEF OneReader
  <2> QED
    BY <2>2
<1>2. ASSUME NEW t \in Claimed
      PROVE  /\ Claimed = {t} /\ seen[t] \in Slots /\ seen[t] # tail
             /\ (tail - seen[t]) % Ring = ((tail - head) % Ring) + 1
             /\ (tail - head) % Ring < Capacity
             /\ ((tail - head) % Ring) + 1 = Cardinality(Owned)
  <2>1. Claimed \subseteq readers
    BY <1>0 DEF ReadersOnly, Claimed
  <2>2. Claimed = {t}
    BY <1>1, <2>1
  <2>3. Cardinality(Claimed) = 1
    BY <2>2, FS_Singleton
  <2>4. seen[t] \in Slots /\ head = (seen[t] + 1) % Ring /\ tail \in Slots /\ head \in Slots
    BY <1>0 DEF TypeOK, Claimed, LineSound
  <2> DEFINE n == (tail - head) % Ring  m == (tail - seen[t]) % Ring
  <2>5. n + 1 = Cardinality(Owned) /\ n \in Nat
    BY <1>0, <2>3, <2>4, RingBasics DEF Counted
  <2>6. Cardinality(Owned) <= Capacity
    <3>1. Cardinality(Owned) <= Cardinality(Objects) /\ Cardinality(Objects) \in Nat
      BY <1>0, OwnedFinite, FiniteAssumption, FS_Subset, FS_CardinalityType
    <3> QED
      BY <1>0, <3>1, OwnedFinite, ContractAssumption
  <2>7. n = IF seen[t] = tail THEN Ring - 1 ELSE m - 1
    BY <2>4, NearerFrom
  <2>8. m \in Nat
    BY <2>4, RingBasics
  <2> HIDE DEF n, m
  <2>9. n < Ring - 1 /\ n < Capacity
    BY <2>5, <2>6, RingPositive, ContractAssumption
  <2>10. seen[t] # tail /\ m = n + 1
    BY <2>5, <2>7, <2>8, <2>9, RingPositive
  <2> QED
    BY <2>2, <2>4, <2>5, <2>9, <2>10 DEF n, m
<1> QED
  BY <1>1, <1>2

(* No two enqueues wait at one slot.                                        *)
LEMMA OneStorer ==
  ASSUME LineInvariant, OneReader, NEW t \in Storing, NEW u \in Storing, seen[t] = seen[u]
  PROVE  t = u
<1>0. TypeOK /\ SlotBalance /\ LineSound
  BY DEF LineInvariant, QueueInvariant
<1> DEFINE s == seen[t]
<1>1. s \in Slots /\ t \in EnqueuersAt(s) /\ u \in EnqueuersAt(s)
  BY <1>0 DEF TypeOK, Storing, EnqueuersAt
<1>2. Cardinality(EnqueuersAt(s)) + Filled(s) = Cardinality(DequeuersAt(s)) + Queued(s)
  BY <1>0, <1>1 DEF SlotBalance
<1> HIDE DEF s
<1>3. Cardinality(DequeuersAt(s)) + Queued(s) <= 1
  <2>1. CASE DequeuersAt(s) = {}
    BY <2>1, FS_EmptySet DEF Queued
  <2>2. CASE DequeuersAt(s) # {}
    <3>1. PICK v \in Claimed : v \in DequeuersAt(s) /\ seen[v] = s
      BY <2>2 DEF DequeuersAt, Claimed
    <3>2. DequeuersAt(s) = {v}
      BY <3>1, OneClaim DEF DequeuersAt, Claimed
    <3>3. Cardinality(DequeuersAt(s)) = 1
      BY <3>2, FS_Singleton
    <3>4. head = (s + 1) % Ring
      BY <1>0, <3>1 DEF LineSound
    <3>5. (s - head) % Ring = Ring - 1
      BY <1>1, <3>4, NearerFrom
    <3>6. (tail - head) % Ring \in Nat /\ (tail - head) % Ring < Ring
      BY <1>0, RingBasics DEF TypeOK
    <3>7. Queued(s) = 0
      BY <3>5, <3>6, RingPositive DEF Queued
    <3> QED
      BY <3>3, <3>7
  <2> QED
    BY <2>1, <2>2
<1>4. IsFiniteSet(EnqueuersAt(s)) /\ Cardinality(EnqueuersAt(s)) \in Nat
  <2>1. EnqueuersAt(s) \subseteq Threads
    BY DEF EnqueuersAt
  <2> QED
    BY <2>1, FiniteAssumption, FS_Subset, FS_CardinalityType
<1>5. Cardinality(EnqueuersAt(s)) <= 1
  <2>1. Filled(s) \in Nat /\ Queued(s) \in Nat /\ Cardinality(DequeuersAt(s)) \in Nat
    <3>1. DequeuersAt(s) \subseteq Threads
      BY DEF DequeuersAt
    <3> QED
      BY <3>1, FiniteAssumption, FS_Subset, FS_CardinalityType DEF Filled, Queued
  <2> QED
    BY <1>2, <1>3, <1>4, <2>1
<1>6. Cardinality(EnqueuersAt(s) \ {t}) = 0 /\ IsFiniteSet(EnqueuersAt(s) \ {t})
  <2>1. /\ Cardinality(EnqueuersAt(s) \ {t}) = Cardinality(EnqueuersAt(s)) - 1
        /\ IsFiniteSet(EnqueuersAt(s) \ {t})
    BY <1>1, <1>4, FS_RemoveElement
  <2>2. Cardinality(EnqueuersAt(s) \ {t}) \in Nat
    BY <2>1, FS_CardinalityType
  <2> QED
    BY <1>4, <1>5, <2>1, <2>2
<1> QED
  BY <1>1, <1>6, FS_EmptySet


(* The one consumer's claim, or else the head, is where the line begins.    *)
Begins(b) ==
    /\ \A t \in Claimed : seen[t] = b /\ head = (b + 1) % Ring
    /\ Claimed = {} => b = head

LEMMA LineBegins ==
  ASSUME LineInvariant, OneReader
  PROVE  \E b \in Slots : Begins(b) /\ LineFrom(b)
<1>1. CASE Claimed = {}
  BY <1>1 DEF LineInvariant, QueueInvariant, LineSound, TypeOK, Begins
<1>2. ASSUME NEW t \in Claimed
      PROVE  \E b \in Slots : Begins(b) /\ LineFrom(b)
  <2>1. Claimed = {t} /\ seen[t] \in Slots
    BY OneClaim
  <2>2. head = (seen[t] + 1) % Ring /\ LineFrom(seen[t])
    BY DEF LineInvariant, LineSound
  <2> QED
    BY <2>1, <2>2 DEF Begins
<1> QED
  BY <1>1, <1>2

LEMMA LineGoesOn ==
  ASSUME NEW b \in Slots, Begins(b)', LineFrom(b)' PROVE LineSound'
<1>1. \A t \in Claimed' : seen'[t] = b
  BY DEF Begins
<1>2. (Claimed = {})' => b = head'
  BY DEF Begins
<1>3. ASSUME NEW t \in Claimed' PROVE (head = (seen[t] + 1) % Ring /\ LineFrom(seen[t]))'
  <2>1. seen'[t] = b /\ head' = (b + 1) % Ring
    BY DEF Begins
  <2> QED
    BY <2>1 DEF LineFrom
<1>4. ASSUME (Claimed = {})' PROVE LineFrom(head)'
  <2>1. head' = b
    BY <1>2, <1>4
  <2> QED
    BY <2>1 DEF LineFrom
<1> QED
  BY <1>3, <1>4 DEF LineSound

(* What the one consumer takes is the first of the line, and only there.    *)
LEMMA TakesFirst ==
  ASSUME LineInvariant, OneReader, NEW t \in Threads, DeqTake(t)
  PROVE  /\ Len(line) > 0 /\ line[1] = ptr[t]
         /\ \A i \in 1 .. Len(line) : line[i] = ptr[t] => i = 1
<1>0. TypeOK /\ Apart /\ LineSound
  BY DEF LineInvariant, QueueInvariant
<1>1. t \in Claimed
  BY DEF DeqTake, Claimed
<1> DEFINE b == seen[t]
           m == Len(line)
<1>2. b \in Slots /\ tail \in Slots /\ b # tail /\ LineFrom(b)
  BY <1>0, <1>1, OneClaim DEF LineSound, TypeOK
<1>3. m = (tail - b) % Ring
  BY <1>2 DEF LineFrom
<1>4. m \in Nat /\ m > 0 /\ m < Ring
  <2>1. (tail - b) % Ring \in Nat /\ (tail - b) % Ring < Ring /\ (tail - b) % Ring # 0
    BY <1>2, RingBasics
  <2> QED
    BY <1>3, <2>1
<1>5. data[b] = ptr[t] /\ ptr[t] # NULL /\ \A u \in Threads : obj[u] # ptr[t]
  BY <1>0, SlotEmptied DEF DeqTake
<1>6. \A s \in Slots : data[s] = ptr[t] => s = b
  BY <1>0, <1>2, <1>5 DEF Apart
<1>7. \A s \in Slots : (s - b) % Ring < m => DueAt(s, line[((s - b) % Ring) + 1])
  BY <1>2 DEF LineFrom
<1> HIDE DEF b, m
<1>8. (b - b) % Ring = 0
  BY <1>2, RingBasics
<1>9. line[1] = ptr[t]
  <2>1. DueAt(b, line[0 + 1])
    BY <1>2, <1>4, <1>7, <1>8
  <2> QED
    BY <1>5, <2>1 DEF DueAt
<1>10. ASSUME NEW i \in 1 .. m, line[i] = ptr[t] PROVE i = 1
  <2>1. i - 1 \in Nat /\ i - 1 < Ring /\ i - 1 < m /\ (i - 1) + 1 = i
    BY <1>4, RingPositive
  <2>2. PICK s \in Slots : (s - b) % Ring = i - 1
    <3> DEFINE k == i - 1
    <3>1. k \in Nat /\ k < Ring
      BY <2>1
    <3> HIDE DEF k
    <3>2. \E s \in Slots : (s - b) % Ring = k
      BY <1>2, <3>1, RingReach
    <3> QED
      BY <3>2 DEF k
  <2>3. DueAt(s, line[i])
    <3>1. DueAt(s, line[(i - 1) + 1])
      BY <1>7, <2>1, <2>2
    <3> QED
      BY <2>1, <3>1
  <2>4. data[s] = ptr[t]
    BY <1>5, <1>10, <2>3 DEF DueAt, Storing
  <2>5. i - 1 = 0
    BY <1>6, <1>8, <2>2, <2>4
  <2> QED
    BY <2>5
<1> QED
  BY <1>4, <1>9, <1>10 DEF m

LEMMA LineStep == ASSUME LineInvariant, [Next]_vars PROVE LineSound'
  <2> SUFFICES ASSUME OneReader' PROVE LineSound'
    BY DEF LineSound
  <2>0. TypeOK /\ Apart /\ Locked /\ Counted /\ SlotBalance /\ ReadersOnly /\ LineSound
    BY DEF LineInvariant, QueueInvariant
  <2>1. readers' = readers
    BY DEF Next, vars, EnqStep, DeqStep, EnqCall, EnqNull, Return, EnqLoad, EnqClaim, EnqRetry,
       EnqStore, DeqCall, DeqLock, DeqEmpty, DeqHead, DeqClaim, DeqUnlock,
       DeqRead, DeqTake, DeqLost
  <2>2. OneReader
    BY <2>1 DEF OneReader
  <2>3. PICK b \in Slots : Begins(b) /\ LineFrom(b)
    BY <2>2, LineBegins
  <2>4. /\ Len(line) = (tail - b) % Ring
        /\ \A s \in Slots :
             (s - b) % Ring < Len(line) => DueAt(s, line[((s - b) % Ring) + 1])
    BY <2>3 DEF LineFrom
  <2>5. tail \in Slots /\ head \in Slots /\ Len(line) \in Nat /\ Len(line) < Ring
    BY <2>0, <2>3, <2>4, RingBasics DEF TypeOK
  <2>6. ASSUME NEW t \in Threads, EnqClaim(t) PROVE LineSound'
    <3>1. /\ seen[t] = tail /\ tail' = (tail + 1) % Ring /\ head' = head
          /\ obj[t] \in Objects /\ pc[t] = "enqClaim" /\ UNCHANGED <<data, obj, seen>>
          /\ line' = Append(line, obj[t])
      BY <2>6, <2>0 DEF EnqClaim, TypeOK
    <3>2. Claimed' = Claimed /\ Storing' = Storing \cup {t}
      BY <2>6, <2>0 DEF EnqClaim, Goto, Claimed, Storing, TypeOK
    <3>3. Begins(b)'
      BY <2>3, <3>1, <3>2 DEF Begins
    <3>4. Len(line) < Ring - 1
      <4>1. CASE Claimed = {}
        <5>1. (tail - head) % Ring < Ring - 1
          BY <2>0, <3>1, RingNotFull
        <5>2. b = head
          BY <2>3, <4>1 DEF Begins
        <5> QED
          BY <2>4, <5>1, <5>2
      <4>2. ASSUME NEW u \in Claimed PROVE Len(line) < Ring - 1
        <5>1. seen[u] = b
          BY <2>3 DEF Begins
        <5>2. (tail - b) % Ring = Cardinality(Owned)
          BY <2>2, <5>1, OneClaim
        <5>3. Cardinality(Owned) < Capacity
          BY <2>0, <3>1, RoomLeft
        <5> QED
          BY <2>4, <5>2, <5>3, RingPositive
      <4> QED
        BY <4>1, <4>2
    <3>5. (tail' - b) % Ring = Len(line) + 1
      <4>1. (tail - b) % Ring < Ring - 1
        BY <2>4, <3>4
      <4>2. (((tail + 1) % Ring) - b) % Ring = ((tail - b) % Ring) + 1
        BY <2>3, <2>5, <4>1, FurtherOn
      <4> QED
        BY <2>4, <3>1, <4>2
    <3>6. /\ Len(line') = Len(line) + 1 /\ line'[Len(line) + 1] = obj[t]
          /\ \A i \in 1 .. Len(line) : line'[i] = line[i]
      BY <2>0, <3>1, AppendProperties DEF TypeOK
    <3>7. data[tail] = NULL
      <4>1. Cardinality(EnqueuersAt(tail)) + Filled(tail)
              = Cardinality(DequeuersAt(tail)) + Queued(tail)
        BY <2>0, <2>5 DEF SlotBalance
      <4>2. Queued(tail) = 0
        <5>1. (tail - head) % Ring \in Nat
          BY <2>5, RingBasics
        <5> QED
          BY <5>1 DEF Queued
      <4>3. DequeuersAt(tail) = {}
        <5>1. \A u \in Claimed : seen[u] # tail
          BY <2>2, OneClaim
        <5> QED
          BY <5>1 DEF DequeuersAt, Claimed
      <4>4. Cardinality(EnqueuersAt(tail)) \in Nat
        <5>1. EnqueuersAt(tail) \subseteq Threads
          BY DEF EnqueuersAt
        <5> QED
          BY <5>1, FiniteAssumption, FS_Subset, FS_CardinalityType
      <4>5. Cardinality(DequeuersAt(tail)) = 0
        BY <4>3, FS_EmptySet
      <4>6. Filled(tail) \in {0, 1}
        BY DEF Filled
      <4>7. Filled(tail) = 0
        BY <4>1, <4>2, <4>4, <4>5, <4>6
      <4> QED
        BY <4>7 DEF Filled
    <3>8. ASSUME NEW s \in Slots, (s - b) % Ring < Len(line')
          PROVE  DueAt(s, line[((s - b) % Ring) + 1])'
      <4>1. (s - b) % Ring \in Nat
        BY <2>3, RingBasics
      <4>2. CASE (s - b) % Ring < Len(line)
        <5>1. DueAt(s, line[((s - b) % Ring) + 1])
          BY <2>4, <4>2
        <5>2. line'[((s - b) % Ring) + 1] = line[((s - b) % Ring) + 1]
          BY <2>5, <3>6, <4>1, <4>2
        <5> QED
          BY <3>1, <3>2, <5>1, <5>2 DEF DueAt
      <4>3. CASE (s - b) % Ring = Len(line)
        <5>1. s = tail
          BY <2>3, <2>4, <2>5, <4>3, RingInjective
        <5>2. line'[((s - b) % Ring) + 1] = obj[t]
          BY <3>6, <4>3
        <5> QED
          BY <3>1, <3>2, <3>7, <5>1, <5>2 DEF DueAt
      <4> QED
        BY <2>5, <3>6, <3>8, <4>1, <4>2, <4>3
    <3>9. LineFrom(b)'
      BY <3>5, <3>6, <3>8 DEF LineFrom
    <3> QED
      BY <3>3, <3>9, LineGoesOn
  <2>7. ASSUME NEW t \in Threads, EnqStore(t) PROVE LineSound'
    <3>1. /\ UNCHANGED <<head, tail, line>> /\ t \in Storing /\ seen[t] \in Slots
          /\ obj[t] # NULL /\ data[seen[t]] = NULL
          /\ data' = [data EXCEPT ![seen[t]] = obj[t]]
          /\ \A u \in Threads \ {t} : seen'[u] = seen[u] /\ obj'[u] = obj[u]
      BY <2>7, <2>0, NullAssumption DEF EnqStore, Return, Storing, TypeOK
    <3>2. Claimed' = Claimed /\ t \notin Claimed /\ Storing' = Storing \ {t}
      BY <2>7, <2>0 DEF EnqStore, Return, Goto, Claimed, Storing, TypeOK
    <3>3. Begins(b)'
      BY <2>3, <3>1, <3>2 DEF Begins, Claimed
    <3>4. ASSUME NEW s \in Slots, NEW o \in Objects, DueAt(s, o) PROVE DueAt(s, o)'
      <4>1. CASE s = seen[t]
        <5>1. PICK u \in Storing : seen[u] = s /\ obj[u] = o
          BY <3>1, <3>4, <4>1, NullAssumption DEF DueAt
        <5>2. u = t
          BY <2>2, <3>1, <4>1, <5>1, OneStorer
        <5>3. data'[s] = o
          BY <2>0, <3>1, <4>1, <5>1, <5>2 DEF TypeOK
        <5> QED
          BY <5>3 DEF DueAt
      <4>2. CASE s # seen[t]
        <5>1. data'[s] = data[s]
          BY <2>0, <3>1, <4>2 DEF TypeOK
        <5>2. \A u \in Storing : seen[u] = s =>
                 u \in Storing' /\ seen'[u] = s /\ obj'[u] = obj[u]
          BY <3>1, <3>2, <4>2 DEF Storing
        <5> QED
          BY <3>4, <5>1, <5>2 DEF DueAt
      <4> QED
        BY <4>1, <4>2
    <3>5. LineFrom(b)'
      <4>1. \A s \in Slots :
              (s - b) % Ring < Len(line) => DueAt(s, line[((s - b) % Ring) + 1])'
        <5> SUFFICES ASSUME NEW s \in Slots, (s - b) % Ring < Len(line)
                     PROVE  DueAt(s, line[((s - b) % Ring) + 1])'
          OBVIOUS
        <5>0. line[((s - b) % Ring) + 1] \in Objects
          <6> DEFINE d == (s - b) % Ring
          <6>0. d \in Nat /\ d < Len(line)
            BY <2>3, RingBasics
          <6> HIDE DEF d
          <6>1. d + 1 \in 1 .. Len(line)
            BY <2>5, <6>0
          <6> QED
            BY <2>0, <6>1, ElementOfSeq DEF TypeOK, d
        <5>1. PICK o \in Objects : o = line[((s - b) % Ring) + 1]
          BY <5>0
        <5>2. DueAt(s, o)
          BY <2>4, <5>1
        <5>3. DueAt(s, o)'
          BY <3>4, <5>2
        <5>4. line'[((s - b) % Ring) + 1] = o
          BY <3>1, <5>1
        <5> QED
          BY <5>3, <5>4 DEF DueAt
      <4> QED
        BY <2>4, <3>1, <4>1 DEF LineFrom
    <3> QED
      BY <3>3, <3>5, LineGoesOn
  <2>8. ASSUME NEW t \in Threads, DeqClaim(t) PROVE LineSound'
    <3>1. /\ seen[t] = head /\ head' = (head + 1) % Ring /\ t \in readers
          /\ UNCHANGED <<tail, data, line, obj, seen>>
      BY <2>8, <2>0 DEF DeqClaim, ReadersOnly
    <3>2. Claimed' = Claimed \cup {t} /\ t \notin Claimed /\ Storing' = Storing
      BY <2>8, <2>0 DEF DeqClaim, Goto, Claimed, Storing, TypeOK
    <3>3. Claimed \subseteq readers
      BY <2>0 DEF ReadersOnly, Claimed
    <3>4. Claimed = {}
      BY <2>2, <3>1, <3>2, <3>3, OneClaim
    <3>5. b = head
      BY <2>3, <3>4 DEF Begins
    <3>6. Begins(b)'
      BY <3>1, <3>2, <3>4, <3>5 DEF Begins
    <3>7. LineFrom(b)'
      BY <2>3, <3>1, <3>2 DEF LineFrom, DueAt
    <3> QED
      BY <3>6, <3>7, LineGoesOn
  <2>9. ASSUME NEW t \in Threads, DeqTake(t) PROVE LineSound'
    <3>1. /\ UNCHANGED <<head, tail>> /\ t \in Claimed
          /\ data' = [data EXCEPT ![seen[t]] = NULL]
          /\ line' = Without(line, ptr[t])
          /\ \A u \in Threads \ {t} : seen'[u] = seen[u] /\ obj'[u] = obj[u]
      BY <2>9, <2>0 DEF DeqTake, Return, Claimed, TypeOK
    <3>2. Claimed' = Claimed \ {t} /\ Storing' = Storing /\ t \notin Storing
      BY <2>9, <2>0 DEF DeqTake, Return, Goto, Claimed, Storing, TypeOK
    <3>3. /\ Claimed = {t} /\ (tail - b) % Ring = ((tail - head) % Ring) + 1
          /\ b = seen[t] /\ head = (b + 1) % Ring
      BY <2>2, <2>3, <3>1, OneClaim DEF Begins
    <3>4. /\ Len(line) > 0 /\ line[1] = ptr[t]
          /\ \A i \in 1 .. Len(line) : line[i] = ptr[t] => i = 1
      BY <2>2, <2>9, TakesFirst
    <3>5. /\ Len(line') = Len(line) - 1
          /\ \A j \in 1 .. Len(line) - 1 : line'[j] = line[j + 1]
      BY <2>0, <3>1, <3>4, WithoutFirst DEF TypeOK
    <3>6. Begins(head)'
      BY <3>1, <3>2, <3>3 DEF Begins
    <3>7. Len(line') = (tail - head) % Ring
      <4>1. (tail - head) % Ring \in Nat
        BY <2>5, RingBasics
      <4> QED
        BY <2>4, <3>3, <3>5, <4>1
    <3>8. ASSUME NEW s \in Slots, (s - head) % Ring < Len(line')
          PROVE  DueAt(s, line[((s - head) % Ring) + 1])'
      <4>1. (s - head) % Ring = IF b = s THEN Ring - 1 ELSE ((s - b) % Ring) - 1
        BY <2>3, <3>3, NearerFrom
      <4> DEFINE d == (s - b) % Ring
                 c == (s - head) % Ring
                 m == Len(line)
      <4>2. d \in Nat /\ c \in Nat /\ m \in Nat /\ m < Ring /\ c < m - 1
        BY <2>3, <2>5, <3>5, <3>8, RingBasics
      <4>3. c = IF b = s THEN Ring - 1 ELSE d - 1
        BY <4>1
      <4>4. d < m => DueAt(s, line[d + 1])
        BY <2>4
      <4>5. \A j \in 1 .. m - 1 : line'[j] = line[j + 1]
        BY <3>5
      <4> HIDE DEF c, d, m
      <4>6. b # s /\ d < m /\ c + 1 \in 1 .. m - 1 /\ (c + 1) + 1 = d + 1
        BY <4>2, <4>3, RingPositive
      <4>7. line'[c + 1] = line[d + 1]
        BY <4>5, <4>6
      <4>8. data'[s] = data[s]
        BY <2>0, <3>1, <3>3, <4>6 DEF TypeOK
      <4>9. \A u \in Storing : seen'[u] = seen[u] /\ obj'[u] = obj[u]
        BY <3>1, <3>2 DEF Storing
      <4>10. line'[((s - head) % Ring) + 1] = line[d + 1]
        BY <4>7 DEF c
      <4> QED
        BY <3>1, <3>2, <4>4, <4>6, <4>8, <4>9, <4>10 DEF DueAt
    <3>9. LineFrom(head)'
      BY <3>1, <3>7, <3>8 DEF LineFrom
    <3>10. PICK h \in Slots : h = head
      BY <2>5
    <3>11. Begins(h)' /\ LineFrom(h)'
      BY <3>1, <3>6, <3>9, <3>10 DEF Begins, LineFrom
    <3> QED
      BY <3>11, LineGoesOn
  <2>10. ASSUME NEW t \in Threads,
               \/ EnqCall(t) \/ EnqNull(t) \/ EnqLoad(t) \/ EnqRetry(t)
        PROVE  LineSound'
    <3>1. UNCHANGED <<head, tail, data, line>>
      BY <2>10 DEF EnqCall, EnqNull, Return, EnqLoad, EnqRetry
    <3>2. /\ Claimed' = Claimed /\ Storing' = Storing
          /\ \A u \in Claimed \cup Storing : seen'[u] = seen[u] /\ obj'[u] = obj[u]
      BY <2>10, <2>0 DEF EnqCall, EnqNull, Return, EnqLoad, EnqRetry, Goto, Claimed,
         Storing, TypeOK
    <3>3. Begins(b)'
      BY <2>3, <3>1, <3>2 DEF Begins
    <3>4. LineFrom(b)'
      BY <2>3, <3>1, <3>2 DEF LineFrom, DueAt
    <3> QED
      BY <3>3, <3>4, LineGoesOn
  <2>11. ASSUME NEW t \in Threads,
               \/ DeqCall(t) \/ DeqLock(t) \/ DeqEmpty(t) \/ DeqHead(t) \/ DeqUnlock(t)
               \/ DeqRead(t) \/ DeqLost(t)
        PROVE  LineSound'
    <3>1. UNCHANGED <<head, tail, data, line>>
      BY <2>11 DEF DeqCall, DeqLock, DeqEmpty, DeqHead, DeqUnlock, DeqRead, DeqLost
    <3>2. /\ Claimed' = Claimed /\ Storing' = Storing
          /\ \A u \in Claimed \cup Storing : seen'[u] = seen[u] /\ obj'[u] = obj[u]
      BY <2>11, <2>0 DEF DeqCall, DeqLock, DeqEmpty, DeqHead, DeqUnlock, DeqRead, DeqLost,
         Goto, Claimed, Storing, TypeOK
    <3>3. Begins(b)'
      BY <2>3, <3>1, <3>2 DEF Begins
    <3>4. LineFrom(b)'
      BY <2>3, <3>1, <3>2 DEF LineFrom, DueAt
    <3> QED
      BY <3>3, <3>4, LineGoesOn
  <2>12. CASE UNCHANGED vars
    BY <2>0, <2>12 DEF vars, LineSound, LineFrom, DueAt, OneReader, Claimed, Storing
  <2> QED
    BY <2>6, <2>7, <2>8, <2>9, <2>10, <2>11, <2>12
       DEF Next, EnqStep, DeqStep

LEMMA LineHolds == Spec => []LineInvariant
<1>1. LineInvariant /\ [Next]_vars => LineInvariant'
  <2> SUFFICES ASSUME LineInvariant, [Next]_vars PROVE LineInvariant'
    OBVIOUS
  <2>1. QueueInvariant'
    BY TypeStep, ApartStep, LockedStep, CountedStep, BalanceStep
       DEF LineInvariant, QueueInvariant
  <2>2. ReadersOnly'
    BY ReadersStep DEF LineInvariant, QueueInvariant
  <2> QED
    BY <2>1, <2>2, LineStep DEF LineInvariant
<1> QED
  BY InitLine, <1>1, PTL DEF Spec

(* One consumer gets the pointers in the order in which their enqueues      *)
(* claimed their slots, although the enqueues may store them in any order   *)
(* (libam_cqueue.c:62-117).                                                 *)
THEOREM FirstIn == Spec => FirstInFirstOut
<1> DEFINE A == \A t \in Threads :
                  Cardinality(readers) = 1 /\ DeqTake(t) => ptr[t] = Head(line)
<1>1. LineInvariant /\ [Next]_vars => [A]_vars
  <2> SUFFICES ASSUME LineInvariant, NEW t \in Threads, OneReader, DeqTake(t)
               PROVE  ptr[t] = Head(line)
    BY DEF OneReader
  <2>1. Len(line) > 0 /\ line[1] = ptr[t]
    BY TakesFirst
  <2> QED
    BY <2>1
<1>2. Spec => [][A]_vars
  BY <1>1, LineHolds, PTL DEF Spec
<1> QED
  BY <1>2 DEF FirstInFirstOut



-----------------------------------------------------------------------------
(* Which nodes are below which: every node of the tree t, of the nodes S, has  *)
(* two bounds, between which the keys below it lie.                            *)
Past(side, i, j) == IF side = "left" THEN i < j ELSE j < i

\* No key is above it.
Top == CHOOSE i \in Nat : \A k \in Keys : k < i

Bounds == [Sides -> [Nodes -> Nat]]

TreeType == [root : Nodes \cup {Nil}, count : Nat,
             child : [Sides -> [Nodes -> Nodes \cup {Nil}]],
             parent : [Nodes -> Nodes \cup {Nil}],
             balance : [Nodes -> Int], key : [Nodes -> Nat]]

Rooted(t, S, b) ==
    /\ t.root = Nil <=> S = {}
    /\ t.root # Nil => /\ t.root \in S /\ t.parent[t.root] = Nil
                       /\ b["left"][t.root] = 0 /\ b["right"][t.root] = Top

Ordered(t, S, b) == \A n \in S, s \in Sides : Past(s, b[s][n], t.key[n])

Hung(t, S, b) == \A n \in S, s \in Sides :
    LET c == t.child[s][n]
    IN  c # Nil => /\ c \in S /\ t.parent[c] = n
                   /\ b[s][c] = b[s][n] /\ b[Other(s)][c] = t.key[n]

Closed(t, S, b) == \A n \in S, s \in Sides :
    t.child[s][n] = Nil => \A x \in S : ~ (Past(s, b[s][n], t.key[x]) /\ Past(s, t.key[x], t.key[n]))

Held(t, S) == \A n \in S :
    /\ t.parent[n] = Nil => n = t.root
    /\ t.parent[n] # Nil => /\ t.parent[n] \in S
                            /\ \E s \in Sides : t.child[s][t.parent[n]] = n

Keyed(t, S) == \A x, y \in S : t.key[x] = t.key[y] => x = y

Fit(t, S, b) ==
    /\ Rooted(t, S, b) /\ Ordered(t, S, b) /\ Hung(t, S, b) /\ Closed(t, S, b)
    /\ Held(t, S) /\ Keyed(t, S)

-----------------------------------------------------------------------------
LEMMA SideFacts ==
  /\ Sides = {"left", "right"} /\ "left" # "right"
  /\ Other("left") = "right" /\ Other("right") = "left"
  /\ Sign("left") = -1 /\ Sign("right") = 1
BY DEF Sides, Other, Sign

LEMMA OtherSide ==
  ASSUME NEW s \in Sides
  PROVE  /\ Other(s) \in Sides /\ Other(s) # s /\ Other(Other(s)) = s
         /\ \A e \in Sides : e = s \/ e = Other(s)
         /\ Sign(s) \in {-1, 1} /\ Sign(Other(s)) = -Sign(s)
BY DEF Sides, Other, Sign

LEMMA PastIs ==
  ASSUME NEW s \in Sides
  PROVE  /\ \A i \in Nat : ~ Past(s, i, i)
         /\ \A i, j \in Nat : i = j \/ Past(s, i, j) \/ Past(s, j, i)
         /\ \A i, j \in Nat : ~ (Past(s, i, j) /\ Past(s, j, i))
         /\ \A i, j, k \in Nat : Past(s, i, j) /\ Past(s, j, k) => Past(s, i, k)
         /\ \A i, j \in Nat : Past(Other(s), i, j) <=> Past(s, j, i)
<1>1. CASE s = "left"
  BY <1>1 DEF Past, Other
<1>2. CASE s = "right"
  BY <1>2 DEF Past, Other
<1> QED
  BY <1>1, <1>2 DEF Sides

(* A node and its child on side s.                                             *)
Below(t, S, b, n, s, c) ==
    /\ c \in S /\ c # n /\ t.parent[c] = n
    /\ b[s][c] = b[s][n] /\ b[Other(s)][c] = t.key[n]
    /\ t.child[Other(s)][n] # c
    /\ SideOf(t, n, c) = s
    /\ \A e \in Sides : t.child[e][c] # n
    /\ \A x \in S, e \in Sides : t.child[e][x] = c <=> (x = n /\ e = s)
    /\ \A e \in Sides : Past(e, b[e][n], t.key[c])
    /\ Past(s, t.key[c], t.key[n])

LEMMA ParentOf ==
  ASSUME NEW t \in TreeType, NEW S \in SUBSET Nodes, NEW b \in Bounds, Fit(t, S, b),
         NEW n \in S, NEW s \in Sides, NEW c, c = t.child[s][n], c # Nil
  PROVE  Below(t, S, b, n, s, c)
<1>1. /\ \A x \in Nodes : t.key[x] \in Nat
      /\ \A e \in Sides, x \in Nodes : b[e][x] \in Nat
  BY DEF TreeType, Bounds
<1>2. /\ c \in S /\ t.parent[c] = n /\ b[s][c] = b[s][n] /\ b[Other(s)][c] = t.key[n]
  BY DEF Fit, Hung
<1>3. \A x \in S, e \in Sides : Past(e, b[e][x], t.key[x])
  BY DEF Fit, Ordered
<1>4. Other(s) \in Sides /\ Other(s) # s /\ \A e \in Sides : e = s \/ e = Other(s)
  BY OtherSide
<1>5. Past(s, t.key[c], t.key[n]) /\ c # n /\ Past(s, b[s][n], t.key[c])
  BY <1>1, <1>2, <1>3, <1>4, PastIs
<1>6. Past(Other(s), b[Other(s)][n], t.key[c])
  BY <1>1, <1>2, <1>3, <1>4, <1>5, PastIs
<1>7. t.child[Other(s)][n] # c
  <2> SUFFICES ASSUME t.child[Other(s)][n] = c PROVE FALSE
    OBVIOUS
  <2>1. b[Other(s)][c] = b[Other(s)][n]
    BY <1>4 DEF Fit, Hung
  <2> QED
    BY <2>1, <1>1, <1>2, <1>3, <1>4, PastIs
<1>8. \A x \in S, e \in Sides : t.child[e][x] = c <=> (x = n /\ e = s)
  <2> TAKE x \in S, e \in Sides
  <2>1. t.child[e][x] = c => t.parent[c] = x
    BY DEF Fit, Hung
  <2> QED
    BY <2>1, <1>2, <1>4, <1>7
<1>9. ASSUME NEW e \in Sides, t.child[e][c] = n PROVE FALSE
  <2>1. n # Nil
    BY NodesAssumption DEF Nodes
  <2>2. b[e][n] = b[e][c] /\ b[Other(e)][n] = t.key[c]
    BY <1>2, <1>9, <2>1 DEF Fit, Hung
  <2>3. CASE e = s
    BY <2>2, <2>3, <1>1, <1>2, <1>3, <1>4, <1>6, PastIs
  <2>4. CASE e = Other(s)
    <3>1. b[s][n] = t.key[c]
      BY <2>2, <2>4, OtherSide
    <3> QED
      BY <3>1, <1>1, <1>2, <1>3, <1>4, <1>5, PastIs
  <2> QED
    BY <2>3, <2>4, <1>4
<1>10. SideOf(t, n, c) = s
  BY <1>4, <1>7, SideFacts DEF SideOf
<1> QED
  BY <1>2, <1>4, <1>5, <1>6, <1>7, <1>8, <1>9, <1>10 DEF Below

\* A node with a parent is its child.
LEMMA ParentBelow ==
  ASSUME NEW t \in TreeType, NEW S \in SUBSET Nodes, NEW b \in Bounds, Fit(t, S, b),
         NEW n \in S, t.parent[n] # Nil
  PROVE  t.parent[n] \in S /\ \E e \in Sides : Below(t, S, b, t.parent[n], e, n)
<1>1. t.parent[n] \in S /\ \E e \in Sides : t.child[e][t.parent[n]] = n
  BY DEF Fit, Held
<1>2. n # Nil
  BY NodesAssumption DEF Nodes
<1>3. PICK e \in Sides : t.child[e][t.parent[n]] = n
  BY <1>1
<1>4. Below(t, S, b, t.parent[n], e, n)
  BY <1>1, <1>2, <1>3, ParentOf
<1> QED
  BY <1>1, <1>4

-----------------------------------------------------------------------------
(* The child of n on side s takes the place of n, which becomes its child.     *)
Turned(t, u, S, n, s) ==
    LET c == t.child[s][n]
        g == t.child[Other(s)][c]
    IN  /\ u.root = IF t.root = n THEN c ELSE t.root
        /\ u.key = t.key
        /\ \A x \in S :
              u.parent[x] = IF x = c THEN t.parent[n]
                            ELSE IF x = n THEN c
                            ELSE IF x = g THEN n ELSE t.parent[x]
        /\ \A x \in S, e \in Sides :
              u.child[e][x] = IF x = n /\ e = s THEN g
                              ELSE IF x = c /\ e = Other(s) THEN n
                              ELSE IF t.child[e][x] = n THEN c ELSE t.child[e][x]

TurnedBounds(t, b, n, s) ==
    [e \in Sides |-> [x \in Nodes |->
        IF x = n /\ e = s THEN t.key[t.child[s][n]]
        ELSE IF x = t.child[s][n] /\ e = Other(s) THEN b[e][n] ELSE b[e][x]]]

LEMMA TurnedFit ==
  ASSUME NEW t \in TreeType, NEW S \in SUBSET Nodes, NEW b \in Bounds, Fit(t, S, b),
         NEW n \in S, NEW s \in Sides, t.child[s][n] # Nil,
         NEW u, Turned(t, u, S, n, s)
  PROVE  TurnedBounds(t, b, n, s) \in Bounds /\ Fit(u, S, TurnedBounds(t, b, n, s))
<1> DEFINE c == t.child[s][n]
           o == Other(s)
           g == t.child[o][c]
           d == TurnedBounds(t, b, n, s)
<1>0. n # Nil /\ n \in Nodes /\ Nil \notin S
  BY NodesAssumption DEF Nodes
<1>1. o \in Sides /\ o # s /\ Other(o) = s /\ \A f \in Sides : f = s \/ f = o
  BY OtherSide
<1>2. Below(t, S, b, n, s, c)
  BY ParentOf
<1>3. /\ c \in S /\ c # n /\ c # Nil /\ t.parent[c] = n /\ t.child[s][n] = c
      /\ b[s][c] = b[s][n] /\ b[o][c] = t.key[n] /\ t.child[o][n] # c
      /\ \A e \in Sides : t.child[e][c] # n
      /\ \A x \in S, e \in Sides : t.child[e][x] = c <=> (x = n /\ e = s)
      /\ \A e \in Sides : Past(e, b[e][n], t.key[c])
      /\ Past(s, t.key[c], t.key[n])
  BY <1>2 DEF Below
<1>4. g # Nil => /\ g \in S /\ g # c /\ g # n /\ t.parent[g] = c
                 /\ b[o][g] = t.key[n] /\ b[s][g] = t.key[c]
                 /\ \A x \in S, e \in Sides : t.child[e][x] = g <=> (x = c /\ e = o)
  <2> SUFFICES ASSUME g # Nil
               PROVE  /\ g \in S /\ g # c /\ g # n /\ t.parent[g] = c
                      /\ b[o][g] = t.key[n] /\ b[s][g] = t.key[c]
                      /\ \A x \in S, e \in Sides : t.child[e][x] = g <=> (x = c /\ e = o)
    OBVIOUS
  <2>1. Below(t, S, b, c, o, g)
    BY <1>1, <1>3, ParentOf
  <2> QED
    BY <1>1, <1>3, <2>1 DEF Below
<1>5. /\ d \in Bounds
      /\ d[s][n] = t.key[c] /\ d[o][n] = b[o][n]
      /\ d[s][c] = b[s][n] /\ d[o][c] = b[o][n]
      /\ \A x \in S, e \in Sides : x # n /\ x # c => d[e][x] = b[e][x]
  <2>1. \A f \in Sides, x \in Nodes : b[f][x] \in Nat
    BY DEF Bounds
  <2>2. t.key[c] \in Nat
    BY <1>3 DEF TreeType
  <2> QED
    BY <1>0, <1>1, <1>3, <2>1, <2>2 DEF Bounds, TurnedBounds
<1>6. /\ u.root = IF t.root = n THEN c ELSE t.root
      /\ u.key = t.key
      /\ \A x \in S :
            u.parent[x] = IF x = c THEN t.parent[n]
                          ELSE IF x = n THEN c
                          ELSE IF x = g THEN n ELSE t.parent[x]
      /\ \A x \in S, e \in Sides :
            u.child[e][x] = IF x = n /\ e = s THEN g
                            ELSE IF x = c /\ e = o THEN n
                            ELSE IF t.child[e][x] = n THEN c ELSE t.child[e][x]
  BY DEF Turned
<1> HIDE DEF c, o, g, d
<1>7. /\ \A y \in S : t.key[y] \in Nat
      /\ \A f \in Sides, y \in S : b[f][y] \in Nat /\ Past(f, b[f][y], t.key[y])
  BY DEF TreeType, Bounds, Fit, Ordered
<1>8. \A x \in S, f \in Sides : t.child[f][x] = n =>
           /\ b[f][n] = b[f][x] /\ b[Other(f)][n] = t.key[x] /\ t.parent[n] = x
           /\ x # n /\ x # c
  <2> TAKE x \in S, f \in Sides
  <2> SUFFICES ASSUME t.child[f][x] = n
               PROVE  /\ b[f][n] = b[f][x] /\ b[Other(f)][n] = t.key[x] /\ t.parent[n] = x
                      /\ x # n /\ x # c
    OBVIOUS
  <2>1. Below(t, S, b, x, f, n)
    BY <1>0, ParentOf
  <2> QED
    BY <1>3, <2>1 DEF Below
<1>9. t.child[o][n] # n /\ t.child[s][c] # n
  BY <1>1, <1>3, <1>8
<1>10. Rooted(u, S, d)
  <2>1. t.root \in S /\ t.parent[t.root] = Nil /\ t.root # Nil
        /\ b["left"][t.root] = 0 /\ b["right"][t.root] = Top
    BY DEF Fit, Rooted
  <2>2. CASE t.root = n
    <3>1. \A f \in Sides : d[f][c] = b[f][n]
      BY <1>1, <1>5
    <3> QED
      BY <1>3, <1>6, <2>1, <2>2, <3>1, SideFacts DEF Rooted
  <2>3. CASE t.root # n
    <3>1. t.root # c /\ t.root # g
      BY <1>0, <1>3, <1>4, <2>1
    <3>2. u.root = t.root /\ u.parent[t.root] = Nil
      BY <1>6, <2>1, <2>3, <3>1
    <3>3. d["left"][t.root] = 0 /\ d["right"][t.root] = Top
      BY <1>5, <2>1, <2>3, <3>1, SideFacts
    <3> QED
      BY <2>1, <3>2, <3>3 DEF Rooted
  <2> QED
    BY <2>2, <2>3
<1>11. Ordered(u, S, d)
  <2> SUFFICES ASSUME NEW x \in S, NEW f \in Sides PROVE Past(f, d[f][x], t.key[x])
    BY <1>6 DEF Ordered
  <2>1. CASE x = n
    BY <1>1, <1>3, <1>5, <1>7, <2>1
  <2>2. CASE x = c
    BY <1>1, <1>3, <1>5, <2>2
  <2>3. CASE x # n /\ x # c
    BY <1>5, <1>7, <2>3
  <2> QED
    BY <2>1, <2>2, <2>3
<1>12. Hung(u, S, d)
  <2> SUFFICES ASSUME NEW x \in S, NEW f \in Sides, NEW y, y = u.child[f][x], y # Nil
               PROVE  y \in S /\ u.parent[y] = x /\ d[f][y] = d[f][x] /\ d[Other(f)][y] = t.key[x]
    BY <1>6 DEF Hung
  <2>0. Other(f) \in Sides
    BY OtherSide
  <2>1. CASE x = n /\ f = s
    <3>1. y = g
      BY <1>6, <2>1
    <3>2. y \in S /\ y # c /\ y # n /\ b[o][y] = t.key[n] /\ b[s][y] = t.key[c]
      BY <1>4, <3>1
    <3>3. u.parent[y] = n
      BY <1>6, <3>1, <3>2
    <3> QED
      BY <1>1, <1>5, <2>1, <3>2, <3>3 DEF o
  <2>2. CASE x = c /\ f = o
    <3>1. y = n
      BY <1>3, <1>6, <2>2
    <3> QED
      BY <1>1, <1>3, <1>5, <1>6, <2>2, <3>1
  <2>3. CASE t.child[f][x] = n
    <3>1. x # n /\ x # c /\ b[f][n] = b[f][x] /\ b[Other(f)][n] = t.key[x] /\ t.parent[n] = x
      BY <1>8, <2>3
    <3>2. y = c
      BY <1>6, <2>3, <3>1
    <3>3. \A e \in Sides : d[e][c] = b[e][n]
      BY <1>1, <1>5
    <3> QED
      BY <1>3, <1>5, <1>6, <2>0, <3>1, <3>2, <3>3
  <2>4. CASE ~ (x = n /\ f = s) /\ ~ (x = c /\ f = o) /\ t.child[f][x] # n
    <3>1. y = t.child[f][x]
      BY <1>6, <2>4
    <3>2. y # c /\ y # n /\ y # g
      BY <1>3, <1>4, <2>4, <3>1
    <3>3. y \in S /\ t.parent[y] = x /\ b[f][y] = b[f][x] /\ b[Other(f)][y] = t.key[x]
      BY <3>1 DEF Fit, Hung
    <3>4. u.parent[y] = x /\ d[f][y] = b[f][y] /\ d[Other(f)][y] = b[Other(f)][y]
      BY <1>5, <1>6, <2>0, <3>2, <3>3
    <3>5. b[f][x] = d[f][x]
      <4>1. CASE x = n
        BY <1>1, <1>5, <2>4, <4>1
      <4>2. CASE x = c
        BY <1>1, <1>3, <1>5, <2>4, <4>2
      <4>3. CASE x # n /\ x # c
        BY <1>5, <4>3
      <4> QED
        BY <4>1, <4>2, <4>3
    <3> QED
      BY <3>3, <3>4, <3>5
  <2> QED
    BY <2>1, <2>2, <2>3, <2>4
<1>13. Closed(u, S, d)
  <2> SUFFICES ASSUME NEW x \in S, NEW f \in Sides, u.child[f][x] = Nil, NEW y \in S,
                      Past(f, d[f][x], t.key[y]), Past(f, t.key[y], t.key[x])
               PROVE  FALSE
    BY <1>6 DEF Closed
  <2>1. CASE x = n /\ f = s
    <3>1. g = Nil
      BY <1>6, <2>1
    <3>2. ~ (Past(o, b[o][c], t.key[y]) /\ Past(o, t.key[y], t.key[c]))
      BY <1>1, <1>3, <3>1 DEF Fit, Closed, g
    <3>3. Past(s, t.key[c], t.key[y]) /\ Past(s, t.key[y], t.key[n])
      BY <1>5, <2>1
    <3>4. Past(o, t.key[n], t.key[y]) /\ Past(o, t.key[y], t.key[c])
      BY <1>3, <1>7, <3>3, PastIs DEF o
    <3> QED
      BY <1>3, <3>2, <3>4
  <2>2. CASE ~ (x = n /\ f = s)
    <3>1. ~ (x = c /\ f = o) /\ t.child[f][x] = Nil
      BY <1>0, <1>3, <1>6, <2>2
    <3>2. d[f][x] = b[f][x]
      <4>1. CASE x = n
        BY <1>1, <1>5, <2>2, <4>1
      <4>2. CASE x = c
        BY <1>1, <1>3, <1>5, <3>1, <4>2
      <4>3. CASE x # n /\ x # c
        BY <1>5, <4>3
      <4> QED
        BY <4>1, <4>2, <4>3
    <3> QED
      BY <3>1, <3>2 DEF Fit, Closed
  <2> QED
    BY <2>1, <2>2
<1>14. Held(u, S)
  <2> SUFFICES ASSUME NEW x \in S
               PROVE  /\ u.parent[x] = Nil => x = u.root
                      /\ u.parent[x] # Nil => /\ u.parent[x] \in S
                                              /\ \E f \in Sides : u.child[f][u.parent[x]] = x
    BY DEF Held
  <2>1. CASE x = c
    <3>1. u.parent[x] = t.parent[n] /\ (t.parent[n] = Nil => n = t.root)
      BY <1>6, <2>1 DEF Fit, Held
    <3>2. CASE t.parent[n] = Nil
      BY <1>6, <2>1, <3>1, <3>2
    <3>3. CASE t.parent[n] # Nil
      <4>1. t.parent[n] \in S
        BY <3>3 DEF Fit, Held
      <4>2. PICK f \in Sides : t.child[f][t.parent[n]] = n
        BY <3>3 DEF Fit, Held
      <4>3. u.child[f][t.parent[n]] = c
        BY <1>6, <1>8, <4>1, <4>2
      <4> QED
        BY <2>1, <3>1, <3>3, <4>1, <4>3
    <3> QED
      BY <3>2, <3>3
  <2>2. CASE x = n
    <3>1. u.parent[x] = c /\ u.child[o][c] = n
      BY <1>1, <1>3, <1>6, <2>2
    <3> QED
      BY <1>1, <1>3, <2>2, <3>1
  <2>3. CASE x = g
    <3>1. x # c /\ x # n
      BY <1>0, <1>4, <2>3
    <3>2. u.parent[x] = n /\ u.child[s][n] = g
      BY <1>6, <2>3, <3>1
    <3> QED
      BY <1>0, <2>3, <3>2
  <2>4. CASE x # c /\ x # n /\ x # g
    <3>1. u.parent[x] = t.parent[x] /\ (t.parent[x] = Nil => x = t.root)
      BY <1>6, <2>4 DEF Fit, Held
    <3>2. CASE t.parent[x] = Nil
      BY <1>6, <2>4, <3>1, <3>2
    <3>3. CASE t.parent[x] # Nil
      <4>1. t.parent[x] \in S
        BY <3>3 DEF Fit, Held
      <4>2. PICK f \in Sides : t.child[f][t.parent[x]] = x
        BY <3>3 DEF Fit, Held
      <4>3. ~ (t.parent[x] = n /\ f = s) /\ ~ (t.parent[x] = c /\ f = o)
        BY <1>3, <2>4, <4>2 DEF g
      <4>4. u.child[f][t.parent[x]] = x
        BY <1>6, <2>4, <4>1, <4>2, <4>3
      <4> QED
        BY <3>1, <3>3, <4>1, <4>4
    <3> QED
      BY <3>2, <3>3
  <2> QED
    BY <2>1, <2>2, <2>3, <2>4
<1>15. Keyed(u, S)
  BY <1>6 DEF Fit, Keyed
<1> QED
  BY <1>5, <1>10, <1>11, <1>12, <1>13, <1>14, <1>15 DEF Fit, d

-----------------------------------------------------------------------------
LEMMA PutAtIs ==
  ASSUME NEW f \in [Nodes -> Nodes \cup {Nil}], NEW n \in Nodes \cup {Nil},
         NEW v \in Nodes \cup {Nil}
  PROVE  /\ PutAt(f, n, v) \in [Nodes -> Nodes \cup {Nil}]
         /\ \A x \in Nodes : PutAt(f, n, v)[x] = IF x = n THEN v ELSE f[x]
BY NodesAssumption DEF PutAt, Nodes

(* The fields of the other nodes are left alone.                               *)
Spared(t, u, S) == \A x \in Nodes \ S :
    /\ \A e \in Sides : u.child[e][x] = t.child[e][x]
    /\ u.parent[x] = t.parent[x] /\ u.balance[x] = t.balance[x] /\ u.key[x] = t.key[x]

(* The way to n leads to c instead.                                            *)
Relinked(t, u, S, n, c) ==
    /\ u \in TreeType
    /\ u.parent = t.parent /\ u.balance = t.balance /\ u.key = t.key /\ u.count = t.count
    /\ u.root = IF n = t.root THEN c ELSE t.root
    /\ \A x \in S, e \in Sides :
          u.child[e][x] = IF t.child[e][x] = n THEN c ELSE t.child[e][x]
    /\ \A x \in Nodes \ S, e \in Sides : u.child[e][x] = t.child[e][x]

LEMMA RelinkIs ==
  ASSUME NEW t \in TreeType, NEW S \in SUBSET Nodes, NEW b \in Bounds, Fit(t, S, b),
         NEW n \in S, NEW c \in Nodes \cup {Nil}
  PROVE  Relinked(t, Relink(t, t.parent[n], n, c), S, n, c)
<1> DEFINE P == t.parent[n]
           u == Relink(t, P, n, c)
<1>0. n \in Nodes /\ Nil \notin Nodes
  BY NodesAssumption DEF Nodes
<1>1. CASE P = Nil
  <2>1. n = t.root
    BY <1>1 DEF Fit, Held
  <2>2. u = [t EXCEPT !.root = c]
    BY <1>1 DEF Relink
  <2>3. \A x \in S, e \in Sides : t.child[e][x] # n
    BY <1>0, <1>1 DEF Fit, Hung
  <2>4. u \in TreeType /\ u.child = t.child /\ u.root = c
    BY <2>2 DEF TreeType
  <2>5. u.parent = t.parent /\ u.balance = t.balance /\ u.key = t.key /\ u.count = t.count
    BY <2>2 DEF TreeType
  <2> HIDE DEF u
  <2> QED
    BY <2>1, <2>3, <2>4, <2>5 DEF u, Relinked
<1>2. CASE P # Nil
  <2>1. P \in S /\ n # t.root
    BY <1>2 DEF Fit, Held, Rooted
  <2>2. PICK s \in Sides : t.child[s][P] = n
    BY <1>2 DEF Fit, Held
  <2>3. SideOf(t, P, n) = s /\ \A x \in S, e \in Sides : t.child[e][x] = n <=> (x = P /\ e = s)
    <3>1. Below(t, S, b, P, s, n)
      BY <1>0, <2>1, <2>2, ParentOf
    <3> QED
      BY <3>1 DEF Below
  <2>4. u = [t EXCEPT !.child[s][P] = c]
    BY <1>2, <2>3 DEF Relink
  <2>5. u \in TreeType /\ u.child = [t.child EXCEPT ![s][P] = c] /\ u.root = t.root
    <3> DEFINE k == [t.child EXCEPT ![s][P] = c]
    <3>1. k \in [Sides -> [Nodes -> Nodes \cup {Nil}]]
      BY <2>1 DEF TreeType
    <3>2. u = [t EXCEPT !.child = k]
      BY <2>4 DEF TreeType
    <3> HIDE DEF k, u
    <3>3. u \in TreeType /\ u.child = k /\ u.root = t.root
      BY <3>1, <3>2 DEF TreeType
    <3> QED
      BY <3>3 DEF k
  <2>6. u.parent = t.parent /\ u.balance = t.balance /\ u.key = t.key /\ u.count = t.count
    BY <2>4 DEF TreeType
  <2>7. \A x \in Nodes, e \in Sides : u.child[e][x] = IF x = P /\ e = s THEN c ELSE t.child[e][x]
    BY <2>1, <2>5 DEF TreeType
  <2> HIDE DEF u
  <2>8. \A x \in S, e \in Sides : u.child[e][x] = IF t.child[e][x] = n THEN c ELSE t.child[e][x]
    BY <2>3, <2>7
  <2>9. \A x \in Nodes \ S, e \in Sides : u.child[e][x] = t.child[e][x]
    BY <2>1, <2>7
  <2> QED
    BY <2>1, <2>5, <2>6, <2>8, <2>9 DEF u, Relinked
<1> QED
  BY <1>1, <1>2


(* Stores into the fields of a node.                                           *)
ChildStored(t, u, s, n, v) ==
    /\ u \in TreeType
    /\ u.root = t.root /\ u.count = t.count /\ u.key = t.key
    /\ u.parent = t.parent /\ u.balance = t.balance
    /\ \A x \in Nodes, e \in Sides :
          u.child[e][x] = IF x = n /\ e = s THEN v ELSE t.child[e][x]

LEMMA ChildStore ==
  ASSUME NEW t \in TreeType, NEW s \in Sides, NEW n \in Nodes, NEW v \in Nodes \cup {Nil}
  PROVE  ChildStored(t, [t EXCEPT !.child[s][n] = v], s, n, v)
<1> DEFINE k == [t.child EXCEPT ![s][n] = v]
           u == [t EXCEPT !.child[s][n] = v]
<1>1. /\ k \in [Sides -> [Nodes -> Nodes \cup {Nil}]]
      /\ \A x \in Nodes, e \in Sides : k[e][x] = IF x = n /\ e = s THEN v ELSE t.child[e][x]
  BY DEF TreeType
<1>2. u = [t EXCEPT !.child = k]
  BY DEF TreeType
<1> HIDE DEF k, u
<1>3. /\ u \in TreeType /\ u.child = k
      /\ u.root = t.root /\ u.count = t.count /\ u.key = t.key
      /\ u.parent = t.parent /\ u.balance = t.balance
  BY <1>1, <1>2 DEF TreeType
<1>4. ChildStored(t, u, s, n, v)
  BY <1>1, <1>3 DEF ChildStored
<1> QED
  BY <1>4 DEF u

ParentStored(t, u, p) ==
    /\ u \in TreeType
    /\ u.root = t.root /\ u.count = t.count /\ u.key = t.key
    /\ u.child = t.child /\ u.balance = t.balance /\ u.parent = p

LEMMA ParentStore ==
  ASSUME NEW t \in TreeType, NEW p \in [Nodes -> Nodes \cup {Nil}]
  PROVE  ParentStored(t, [t EXCEPT !.parent = p], p)
BY DEF ParentStored, TreeType

BalanceStored(t, u, n, v) ==
    /\ u \in TreeType
    /\ u.root = t.root /\ u.count = t.count /\ u.key = t.key
    /\ u.child = t.child /\ u.parent = t.parent
    /\ \A x \in Nodes : u.balance[x] = IF x = n THEN v ELSE t.balance[x]

LEMMA BalanceStore ==
  ASSUME NEW t \in TreeType, NEW n \in Nodes, NEW v \in Int
  PROVE  BalanceStored(t, [t EXCEPT !.balance[n] = v], n, v)
<1> DEFINE f == [t.balance EXCEPT ![n] = v]
           u == [t EXCEPT !.balance[n] = v]
<1>1. f \in [Nodes -> Int] /\ \A x \in Nodes : f[x] = IF x = n THEN v ELSE t.balance[x]
  BY DEF TreeType
<1>2. u = [t EXCEPT !.balance = f]
  BY DEF TreeType
<1> HIDE DEF f, u
<1>3. /\ u \in TreeType /\ u.balance = f
      /\ u.root = t.root /\ u.count = t.count /\ u.key = t.key
      /\ u.child = t.child /\ u.parent = t.parent
  BY <1>1, <1>2 DEF TreeType
<1>4. BalanceStored(t, u, n, v)
  BY <1>1, <1>3 DEF BalanceStored
<1> QED
  BY <1>4 DEF u

(* A rotation of the code, with the balances it stores.                        *)
Rotated(t, u, S, n, s) ==
    LET c == t.child[s][n]
        even == t.balance[c] = 0
    IN  /\ u \in TreeType /\ u.count = t.count /\ Turned(t, u, S, n, s)
        /\ \A x \in Nodes :
              u.balance[x] = IF x = c THEN IF even THEN -Sign(s) ELSE 0
                             ELSE IF x = n THEN IF even THEN Sign(s) ELSE 0
                             ELSE t.balance[x]
        /\ Spared(t, u, S)

LEMMA RotateIs ==
  ASSUME NEW t \in TreeType, NEW S \in SUBSET Nodes, NEW b \in Bounds, Fit(t, S, b),
         NEW n \in S, NEW s \in Sides, t.child[s][n] # Nil
  PROVE  Rotated(t, Rotate(t, n, s), S, n, s)
<1> DEFINE c == t.child[s][n]
           o == Other(s)
           g == t.child[o][c]
           P == t.parent[n]
           u == Rotate(t, n, s)
           r == Relink(t, P, n, c)
           even == t.balance[c] = 0
           bn == IF even THEN Sign(s) ELSE 0
           bc == IF even THEN -Sign(s) ELSE 0
           f == [t.parent EXCEPT ![c] = P, ![n] = c]
           p == PutAt(f, g, n)
           u1 == [r EXCEPT !.child[s][n] = g]
           u2 == [u1 EXCEPT !.child[o][c] = n]
           u3 == [u2 EXCEPT !.parent = p]
           u4 == [u3 EXCEPT !.balance[n] = bn]
           u5 == [u4 EXCEPT !.balance[c] = bc]
<1>0. n # Nil /\ n \in Nodes /\ Nil \notin S /\ o \in Sides /\ o # s
  BY NodesAssumption, OtherSide DEF Nodes
<1>1. Below(t, S, b, n, s, c)
  BY ParentOf
<1>2. /\ c \in S /\ c # n /\ c \in Nodes /\ \A e \in Sides : t.child[e][c] # n
  BY <1>1 DEF Below
<1>3. g \in Nodes \cup {Nil} /\ g # c /\ g # n /\ (g # Nil => g \in S)
  <2>1. g \in Nodes \cup {Nil} /\ g # n
    BY <1>0, <1>2 DEF TreeType
  <2>2. CASE g = Nil
    BY <1>0, <1>2, <2>1, <2>2
  <2>3. CASE g # Nil
    <3>1. Below(t, S, b, c, o, g)
      BY <1>0, <1>2, <2>3, ParentOf
    <3> QED
      BY <2>1, <3>1, Zenon DEF Below
  <2> QED
    BY <2>2, <2>3
<1>4. P \in Nodes \cup {Nil} /\ bn \in Int /\ bc \in Int
  <2>1. Sign(s) \in {-1, 1}
    BY OtherSide
  <2> QED
    BY <1>0, <2>1 DEF TreeType
<1>5. /\ p \in [Nodes -> Nodes \cup {Nil}]
      /\ \A x \in Nodes : p[x] = IF x = g THEN n ELSE IF x = n THEN c ELSE IF x = c THEN P
                                 ELSE t.parent[x]
  <2>1. /\ f \in [Nodes -> Nodes \cup {Nil}]
        /\ \A x \in Nodes : f[x] = IF x = n THEN c ELSE IF x = c THEN P ELSE t.parent[x]
    BY <1>0, <1>2, <1>4 DEF TreeType
  <2>2. n \in Nodes \cup {Nil} /\ g \in Nodes \cup {Nil}
    BY <1>0, <1>3
  <2> HIDE DEF f, g, c, P
  <2>3. /\ PutAt(f, g, n) \in [Nodes -> Nodes \cup {Nil}]
        /\ \A x \in Nodes : PutAt(f, g, n)[x] = IF x = g THEN n ELSE f[x]
    BY <2>1, <2>2, PutAtIs
  <2> QED
    BY <2>1, <2>3
<1>6. Relinked(t, r, S, n, c)
  BY <1>2, RelinkIs
<1>7. u = u5
  <2>1. r.parent = t.parent
    BY <1>6 DEF Relinked
  <2> HIDE DEF r
  <2> QED
    BY <2>1 DEF Rotate, r
<1> HIDE DEF u, r, p, f, bn, bc
<1>8. r \in TreeType
  BY <1>6 DEF Relinked
<1>9. ChildStored(r, u1, s, n, g)
  BY <1>0, <1>3, <1>8, ChildStore
<1> HIDE DEF u1
<1>10. u1 \in TreeType
  BY <1>9 DEF ChildStored
<1>11. ChildStored(u1, u2, o, c, n)
  BY <1>0, <1>2, <1>10, ChildStore
<1> HIDE DEF u2
<1>12. u2 \in TreeType
  BY <1>11 DEF ChildStored
<1>13. ParentStored(u2, u3, p)
  BY <1>5, <1>12, ParentStore
<1> HIDE DEF u3
<1>14. u3 \in TreeType
  BY <1>13 DEF ParentStored
<1>15. BalanceStored(u3, u4, n, bn)
  BY <1>0, <1>4, <1>14, BalanceStore
<1> HIDE DEF u4
<1>16. u4 \in TreeType
  BY <1>15 DEF BalanceStored
<1>17. BalanceStored(u4, u5, c, bc)
  BY <1>2, <1>4, <1>16, BalanceStore
<1> HIDE DEF u5
<1>18. /\ u \in TreeType /\ u.count = t.count /\ u.key = t.key
       /\ u.root = (IF n = t.root THEN c ELSE t.root) /\ u.parent = p
       /\ u.child = u2.child
       /\ \A x \in Nodes : u.balance[x] = IF x = c THEN bc ELSE IF x = n THEN bn ELSE t.balance[x]
  BY <1>6, <1>7, <1>9, <1>11, <1>13, <1>15, <1>17
     DEF Relinked, ChildStored, ParentStored, BalanceStored
<1>19. \A x \in Nodes, e \in Sides :
           u.child[e][x] = IF x = c /\ e = o THEN n ELSE IF x = n /\ e = s THEN g ELSE r.child[e][x]
  BY <1>9, <1>11, <1>18 DEF ChildStored
<1>20. \A x \in S, e \in Sides :
           u.child[e][x] = IF x = n /\ e = s THEN g
                           ELSE IF x = c /\ e = o THEN n
                           ELSE IF t.child[e][x] = n THEN c ELSE t.child[e][x]
  BY <1>2, <1>6, <1>19 DEF Relinked
<1>21. \A x \in S : u.parent[x] = IF x = c THEN P ELSE IF x = n THEN c
                                  ELSE IF x = g THEN n ELSE t.parent[x]
  BY <1>2, <1>3, <1>5, <1>18
<1>22. Turned(t, u, S, n, s)
  BY <1>18, <1>20, <1>21 DEF Turned
<1>23. Spared(t, u, S)
  <2> SUFFICES ASSUME NEW x \in Nodes \ S
               PROVE  /\ \A e \in Sides : u.child[e][x] = t.child[e][x]
                      /\ u.parent[x] = t.parent[x] /\ u.balance[x] = t.balance[x]
                      /\ u.key[x] = t.key[x]
    BY DEF Spared
  <2>1. x # n /\ x # c /\ x # g
    BY <1>2, <1>3, <1>0, NodesAssumption DEF Nodes
  <2>2. \A e \in Sides : r.child[e][x] = t.child[e][x]
    BY <1>6 DEF Relinked
  <2> QED
    BY <1>5, <1>18, <1>19, <2>1, <2>2
<1>24. \A x \in Nodes :
           u.balance[x] = IF x = c THEN IF even THEN -Sign(s) ELSE 0
                          ELSE IF x = n THEN IF even THEN Sign(s) ELSE 0
                          ELSE t.balance[x]
  BY <1>18 DEF bn, bc
<1>25. Rotated(t, u, S, n, s)
  <2>1. u \in TreeType /\ u.count = t.count
    BY <1>18
  <2> QED
    BY <1>22, <1>23, <1>24, <2>1 DEF Rotated
<1> QED
  BY <1>25 DEF u

-----------------------------------------------------------------------------
(* The tree where n was, between the same bounds, has c on top.                *)
Topped(u, S, b, d, n, c) ==
    /\ d \in Bounds /\ Fit(u, S, d) /\ c \in S
    /\ \A e \in Sides : d[e][c] = b[e][n]

LEMMA TurnedOnceFit ==
  ASSUME NEW t \in TreeType, NEW S \in SUBSET Nodes, NEW b \in Bounds, Fit(t, S, b),
         NEW n \in S, NEW s \in Sides, NEW c, c = t.child[s][n], c # Nil,
         NEW u, Turned(t, u, S, n, s)
  PROVE  /\ Topped(u, S, b, TurnedBounds(t, b, n, s), n, c)
         /\ \A x \in S : x # n /\ x # c =>
               \A e \in Sides : TurnedBounds(t, b, n, s)[e][x] = b[e][x]
<1> DEFINE d == TurnedBounds(t, b, n, s)
<1>1. d \in Bounds /\ Fit(u, S, d)
  BY TurnedFit
<1>2. c \in S /\ c # n /\ b[s][c] = b[s][n]
  <2>1. Below(t, S, b, n, s, c)
    BY ParentOf
  <2> QED
    BY <2>1 DEF Below
<1>3. \A e \in Sides : d[e][c] = b[e][n]
  BY <1>2, OtherSide DEF TurnedBounds
<1>4. \A x \in S : x # n /\ x # c => \A e \in Sides : d[e][x] = b[e][x]
  BY DEF TurnedBounds
<1> QED
  BY <1>1, <1>2, <1>3, <1>4 DEF Topped

(* A node, its child c on side s, and the child g of that on the other side.   *)
Under(t, S, n, s, c, g) ==
    /\ n \in S /\ c \in S /\ g \in S /\ n # c /\ c # g /\ g # n /\ t.root # c
    /\ t.child[s][n] = c /\ t.child[Other(s)][c] = g
    /\ t.parent[c] = n /\ t.parent[g] = c
    /\ \A x \in S, e \in Sides : t.child[e][x] = c <=> (x = n /\ e = s)
    /\ \A x \in S, e \in Sides : t.child[e][x] = g <=> (x = c /\ e = Other(s))
    /\ \A x \in S, e \in Sides : t.child[e][x] = n => x # n /\ x # c /\ x # g
    /\ \A e \in Sides : t.child[e][g] # g
    /\ t.child[s][g] # Nil => /\ t.child[s][g] \in S /\ t.child[s][g] # n
                              /\ t.child[s][g] # c /\ t.child[s][g] # t.child[Other(s)][g]
    /\ t.child[Other(s)][g] # Nil => /\ t.child[Other(s)][g] \in S
                                     /\ t.child[Other(s)][g] # n /\ t.child[Other(s)][g] # c

(* A child c of n on side s with a child g of its own on the other side.       *)
Chained(t, S, b, n, s, c, g) ==
    /\ t \in TreeType /\ S \in SUBSET Nodes /\ b \in Bounds /\ Fit(t, S, b)
    /\ n \in S /\ s \in Sides /\ c = t.child[s][n] /\ c # Nil
    /\ g = t.child[Other(s)][c] /\ g # Nil

LEMMA ChainedAt ==
  ASSUME NEW t, NEW S, NEW b, NEW n, NEW s, NEW c, NEW g, Chained(t, S, b, n, s, c, g)
  PROVE  Below(t, S, b, n, s, c) /\ Below(t, S, b, c, Other(s), g)
<1>1. /\ t \in TreeType /\ S \in SUBSET Nodes /\ b \in Bounds /\ Fit(t, S, b)
      /\ n \in S /\ s \in Sides /\ c = t.child[s][n] /\ c # Nil
  BY Zenon DEF Chained
<1>2. g = t.child[Other(s)][c] /\ g # Nil
  BY Zenon DEF Chained
<1>3. Below(t, S, b, n, s, c)
  BY <1>1, ParentOf, Zenon
<1>4. c \in S
  BY <1>3, Zenon DEF Below
<1>5. Other(s) \in Sides
  BY <1>1, OtherSide, Zenon
<1>6. Below(t, S, b, c, Other(s), g)
  BY <1>1, <1>2, <1>4, <1>5, ParentOf, Zenon
<1> QED
  BY <1>3, <1>6

LEMMA UnderAt ==
  ASSUME NEW t, NEW S, NEW b, NEW n, NEW s, NEW c, NEW g, Chained(t, S, b, n, s, c, g)
  PROVE  Under(t, S, n, s, c, g)
<1>t. t \in TreeType /\ S \in SUBSET Nodes /\ b \in Bounds /\ Fit(t, S, b)
  BY Zenon DEF Chained
<1>n. n \in S /\ s \in Sides
  BY Zenon DEF Chained
<1>c. t.child[s][n] = c /\ c # Nil /\ t.child[Other(s)][c] = g /\ g # Nil
  BY Zenon DEF Chained
<1>b. Below(t, S, b, n, s, c) /\ Below(t, S, b, c, Other(s), g)
  BY ChainedAt, Zenon
<1>o. Other(s) \in Sides /\ Other(s) # s /\ Other(Other(s)) = s
  BY <1>n, OtherSide
<1>2. /\ c \in S /\ c # n /\ t.parent[c] = n
      /\ \A e \in Sides : t.child[e][c] # n
      /\ \A x \in S, e \in Sides : t.child[e][x] = c <=> (x = n /\ e = s)
  BY <1>b, Zenon DEF Below
<1>4. /\ g \in S /\ g # c /\ t.parent[g] = c
      /\ \A e \in Sides : t.child[e][g] # c
      /\ \A x \in S, e \in Sides : t.child[e][x] = g <=> (x = c /\ e = Other(s))
  BY <1>b, Zenon DEF Below
<1>z. Nil \notin S
  BY <1>t, NodesAssumption DEF Nodes
<1>5. g # n /\ n # Nil
  BY <1>2, <1>c, <1>n, <1>o, <1>z, Zenon
<1>6. ASSUME NEW x \in S, NEW e \in Sides, t.child[e][x] = n
      PROVE  Below(t, S, b, x, e, n)
  BY <1>5, <1>6, <1>t, ParentOf, Zenon
<1>7. \A e \in Sides : t.child[e][g] # n
  <2> SUFFICES ASSUME NEW e \in Sides, t.child[e][g] = n PROVE FALSE
    OBVIOUS
  <2>1. Below(t, S, b, g, e, n)
    BY <1>4, <1>6, Zenon
  <2>2. b[Other(s)][g] = b[Other(s)][c] /\ b[Other(s)][c] = t.key[n]
    BY <1>b, Zenon DEF Below
  <2>3. Past(Other(s), b[Other(s)][g], t.key[n])
    BY <1>o, <2>1, Zenon DEF Below
  <2>4. Past(Other(s), t.key[n], t.key[n])
    BY <2>2, <2>3, Zenon
  <2>5. t.key[n] \in Nat
    BY <1>t, <1>n DEF TreeType
  <2> QED
    BY <1>o, <2>4, <2>5, PastIs, Zenon
<1>8. \A x \in S, e \in Sides : t.child[e][x] = n => x # n /\ x # c /\ x # g
  <2> SUFFICES ASSUME NEW x \in S, NEW e \in Sides, t.child[e][x] = n
               PROVE  x # n
    BY <1>2, <1>7, Zenon
  <2>1. n # x
    BY <1>6, Zenon DEF Below
  <2> QED
    BY <2>1, Zenon
<1>9. \A e \in Sides : t.child[e][g] # g /\ t.child[e][g] # c /\ t.child[e][g] # n
  BY <1>4, <1>7, Zenon
<1>10. ASSUME t.child[s][g] # Nil
       PROVE  t.child[s][g] \in S /\ t.child[s][g] # t.child[Other(s)][g]
  <2>1. Below(t, S, b, g, s, t.child[s][g])
    BY <1>10, <1>4, <1>n, <1>t, ParentOf, Zenon
  <2> QED
    BY <2>1, Zenon DEF Below
<1>11. ASSUME t.child[Other(s)][g] # Nil PROVE t.child[Other(s)][g] \in S
  <2>1. Below(t, S, b, g, Other(s), t.child[Other(s)][g])
    BY <1>11, <1>4, <1>o, <1>t, ParentOf, Zenon
  <2> QED
    BY <2>1, Zenon DEF Below
<1>12. t.root # c
  BY <1>t, <1>z, <1>2, <1>n DEF Fit, Rooted
<1>13. t.child[s][g] # Nil => /\ t.child[s][g] \in S /\ t.child[s][g] # n
                              /\ t.child[s][g] # c /\ t.child[s][g] # t.child[Other(s)][g]
  BY <1>9, <1>10, <1>n, Zenon
<1>14. t.child[Other(s)][g] # Nil => /\ t.child[Other(s)][g] \in S
                                     /\ t.child[Other(s)][g] # n /\ t.child[Other(s)][g] # c
  BY <1>9, <1>11, <1>o, Zenon
<1> QED
  BY <1>n, <1>c, <1>2, <1>4, <1>5, <1>8, <1>9, <1>12, <1>13, <1>14, Zenon DEF Under

LEMMA UnderIs ==
  ASSUME NEW t \in TreeType, NEW S \in SUBSET Nodes, NEW b \in Bounds, Fit(t, S, b),
         NEW n \in S, NEW s \in Sides, NEW c, c = t.child[s][n], c # Nil,
         NEW g, g = t.child[Other(s)][c], g # Nil
  PROVE  Under(t, S, n, s, c, g)
<1>1. Chained(t, S, b, n, s, c, g)
  BY Zenon DEF Chained
<1> QED
  BY <1>1, UnderAt, Zenon

(* The double rotation of the code.                                            *)
RotatedTwice(t, u, S, n, s, c, g) ==
    /\ u \in TreeType /\ u.count = t.count /\ u.key = t.key
    /\ u.root = IF t.root = n THEN g ELSE t.root
    /\ \A x \in S :
          u.parent[x] = IF x = g THEN t.parent[n]
                        ELSE IF x = c \/ x = n THEN g
                        ELSE IF x = t.child[s][g] THEN c
                        ELSE IF x = t.child[Other(s)][g] THEN n ELSE t.parent[x]
    /\ \A x \in S, e \in Sides :
          u.child[e][x] = IF x = c /\ e = Other(s) THEN t.child[s][g]
                          ELSE IF x = n /\ e = s THEN t.child[Other(s)][g]
                          ELSE IF x = g THEN IF e = s THEN c ELSE n
                          ELSE IF t.child[e][x] = n THEN g ELSE t.child[e][x]
    /\ \A x \in Nodes :
          u.balance[x] = IF x = n THEN IF t.balance[g] = Sign(s) THEN -Sign(s) ELSE 0
                         ELSE IF x = c THEN IF t.balance[g] = Sign(Other(s)) THEN Sign(s) ELSE 0
                         ELSE IF x = g THEN 0 ELSE t.balance[x]
    /\ Spared(t, u, S)

LEMMA RotateTwiceAt ==
  ASSUME NEW t \in TreeType, NEW S \in SUBSET Nodes, NEW n, NEW s \in Sides, NEW c, NEW g,
         Under(t, S, n, s, c, g), Relinked(t, Relink(t, t.parent[n], n, g), S, n, g)
  PROVE  RotatedTwice(t, RotateTwice(t, n, s), S, n, s, c, g)
<1> DEFINE o == Other(s)
           L == t.child[s][g]
           R == t.child[o][g]
           P == t.parent[n]
           u == RotateTwice(t, n, s)
           r == Relink(t, P, n, g)
           bn == IF t.balance[g] = Sign(s) THEN -Sign(s) ELSE 0
           bc == IF t.balance[g] = Sign(o) THEN Sign(s) ELSE 0
           f == [t.parent EXCEPT ![g] = P, ![c] = g, ![n] = g]
           f1 == PutAt(f, L, c)
           p == PutAt(f1, R, n)
           u1 == [r EXCEPT !.child[o][c] = L]
           u2 == [u1 EXCEPT !.child[s][n] = R]
           u3 == [u2 EXCEPT !.child[s][g] = c]
           u4 == [u3 EXCEPT !.child[o][g] = n]
           u5 == [u4 EXCEPT !.parent = p]
           u6 == [u5 EXCEPT !.balance[n] = bn]
           u7 == [u6 EXCEPT !.balance[c] = bc]
           u8 == [u7 EXCEPT !.balance[g] = 0]
<1>0. o \in Sides /\ o # s /\ \A e \in Sides : e = s \/ e = o
  BY OtherSide
<1>1. Under(t, S, n, s, c, g)
  OBVIOUS
<1>2. /\ n \in S /\ c \in S /\ g \in S /\ n # c /\ c # g /\ g # n
      /\ n \in Nodes /\ c \in Nodes /\ g \in Nodes /\ Nil \notin Nodes
      /\ t.child[s][n] = c /\ t.child[o][c] = g
      /\ L # Nil => L \in S /\ L # n /\ L # c /\ L # g /\ L # R
      /\ R # Nil => R \in S /\ R # n /\ R # c /\ R # g
      /\ \A x \in S, e \in Sides : t.child[e][x] = n => x # n /\ x # c /\ x # g
  BY <1>0, <1>1, NodesAssumption DEF Under, Nodes
<1>3. L \in Nodes \cup {Nil} /\ R \in Nodes \cup {Nil} /\ P \in Nodes \cup {Nil}
  BY <1>0, <1>2 DEF TreeType
<1>4. bn \in Int /\ bc \in Int
  <2>1. Sign(s) \in {-1, 1}
    BY OtherSide
  <2> QED
    BY <2>1
<1>5. /\ p \in [Nodes -> Nodes \cup {Nil}]
      /\ \A x \in Nodes : p[x] = IF x = R THEN n ELSE IF x = L THEN c
                                 ELSE IF x = n \/ x = c THEN g ELSE IF x = g THEN P
                                 ELSE t.parent[x]
  <2>1. /\ f \in [Nodes -> Nodes \cup {Nil}]
        /\ \A x \in Nodes : f[x] = IF x = n \/ x = c THEN g ELSE IF x = g THEN P
                                   ELSE t.parent[x]
    BY <1>2, <1>3 DEF TreeType
  <2> HIDE DEF f, L, R, P
  <2>2. /\ f1 \in [Nodes -> Nodes \cup {Nil}]
        /\ \A x \in Nodes : f1[x] = IF x = L THEN c ELSE f[x]
    BY <1>2, <1>3, <2>1, PutAtIs
  <2> HIDE DEF f1
  <2>3. /\ p \in [Nodes -> Nodes \cup {Nil}]
        /\ \A x \in Nodes : p[x] = IF x = R THEN n ELSE f1[x]
    BY <1>2, <1>3, <2>2, PutAtIs
  <2> QED
    BY <2>1, <2>2, <2>3
<1>6. Relinked(t, r, S, n, g)
  BY Zenon
<1>7. u = u8
  <2>1. r.parent = t.parent
    BY <1>6, Zenon DEF Relinked
  <2>2. t.child[s][n] = c /\ t.child[o][c] = g
    BY <1>2
  <2> HIDE DEF r
  <2> QED
    BY <2>1, <2>2, Zenon DEF RotateTwice, r
<1> HIDE DEF u, r, p, f, f1, bn, bc, L, R, P
<1>8. r \in TreeType
  BY <1>6 DEF Relinked
<1>9. ChildStored(r, u1, o, c, L)
  BY <1>0, <1>2, <1>3, <1>8, ChildStore
<1> HIDE DEF u1
<1>10. u1 \in TreeType
  BY <1>9 DEF ChildStored
<1>11. ChildStored(u1, u2, s, n, R)
  BY <1>2, <1>3, <1>10, ChildStore
<1> HIDE DEF u2
<1>12. u2 \in TreeType
  BY <1>11 DEF ChildStored
<1>13. ChildStored(u2, u3, s, g, c)
  BY <1>2, <1>12, ChildStore
<1> HIDE DEF u3
<1>14. u3 \in TreeType
  BY <1>13 DEF ChildStored
<1>15. ChildStored(u3, u4, o, g, n)
  BY <1>0, <1>2, <1>14, ChildStore
<1> HIDE DEF u4
<1>16. u4 \in TreeType
  BY <1>15 DEF ChildStored
<1>17. ParentStored(u4, u5, p)
  BY <1>5, <1>16, ParentStore
<1> HIDE DEF u5
<1>18. u5 \in TreeType
  BY <1>17 DEF ParentStored
<1>19. BalanceStored(u5, u6, n, bn)
  BY <1>2, <1>4, <1>18, BalanceStore
<1> HIDE DEF u6
<1>20. u6 \in TreeType
  BY <1>19 DEF BalanceStored
<1>21. BalanceStored(u6, u7, c, bc)
  BY <1>2, <1>4, <1>20, BalanceStore
<1> HIDE DEF u7
<1>22. u7 \in TreeType
  BY <1>21 DEF BalanceStored
<1>23. BalanceStored(u7, u8, g, 0)
  BY <1>2, <1>22, BalanceStore
<1> HIDE DEF u8
<1>24. /\ u \in TreeType /\ u.count = t.count /\ u.key = t.key /\ u.parent = p
       /\ u.root = (IF n = t.root THEN g ELSE t.root) /\ u.child = u4.child
  BY <1>6, <1>7, <1>9, <1>11, <1>13, <1>15, <1>17, <1>19, <1>21, <1>23
     DEF Relinked, ChildStored, ParentStored, BalanceStored
<1>25. \A x \in Nodes : u.balance[x] = IF x = g THEN 0 ELSE IF x = c THEN bc ELSE IF x = n THEN bn
                                       ELSE t.balance[x]
  <2>1. u5.balance = t.balance
    BY <1>6, <1>9, <1>11, <1>13, <1>15, <1>17 DEF Relinked, ChildStored, ParentStored
  <2> QED
    BY <1>7, <1>19, <1>21, <1>23, <2>1 DEF BalanceStored
<1>26. \A x \in Nodes, e \in Sides :
           u.child[e][x] = IF x = g /\ e = o THEN n ELSE IF x = g /\ e = s THEN c
                           ELSE IF x = n /\ e = s THEN R ELSE IF x = c /\ e = o THEN L
                           ELSE r.child[e][x]
  BY <1>9, <1>11, <1>13, <1>15, <1>24 DEF ChildStored
<1>27. \A x \in S, e \in Sides :
           u.child[e][x] = IF x = c /\ e = o THEN L
                           ELSE IF x = n /\ e = s THEN R
                           ELSE IF x = g THEN IF e = s THEN c ELSE n
                           ELSE IF t.child[e][x] = n THEN g ELSE t.child[e][x]
  <2>1. \A x \in S, e \in Sides : r.child[e][x] = IF t.child[e][x] = n THEN g ELSE t.child[e][x]
    BY <1>6 DEF Relinked
  <2> QED
    BY <1>0, <1>2, <1>26, <2>1
<1>28. \A x \in S : u.parent[x] = IF x = g THEN P ELSE IF x = c \/ x = n THEN g
                                  ELSE IF x = L THEN c ELSE IF x = R THEN n ELSE t.parent[x]
  BY <1>2, <1>5, <1>24
<1>29. \A x \in Nodes : u.balance[x] = IF x = n THEN bn ELSE IF x = c THEN bc
                                       ELSE IF x = g THEN 0 ELSE t.balance[x]
  BY <1>2, <1>25
<1>30. Spared(t, u, S)
  <2> SUFFICES ASSUME NEW x \in Nodes \ S
               PROVE  /\ \A e \in Sides : u.child[e][x] = t.child[e][x]
                      /\ u.parent[x] = t.parent[x] /\ u.balance[x] = t.balance[x]
                      /\ u.key[x] = t.key[x]
    BY DEF Spared
  <2>1. x # n /\ x # c /\ x # g /\ x # L /\ x # R
    BY <1>2
  <2>2. \A e \in Sides : r.child[e][x] = t.child[e][x]
    BY <1>6 DEF Relinked
  <2> QED
    BY <1>5, <1>24, <1>25, <1>26, <2>1, <2>2
<1>31. u.root = IF t.root = n THEN g ELSE t.root
  BY <1>24
<1>33. \A x \in Nodes :
           u.balance[x] = IF x = n THEN IF t.balance[g] = Sign(s) THEN -Sign(s) ELSE 0
                          ELSE IF x = c THEN IF t.balance[g] = Sign(o) THEN Sign(s) ELSE 0
                          ELSE IF x = g THEN 0 ELSE t.balance[x]
  BY <1>29 DEF bn, bc
<1>34. \A x \in S : u.parent[x] = IF x = g THEN t.parent[n] ELSE IF x = c \/ x = n THEN g
                                  ELSE IF x = t.child[s][g] THEN c
                                  ELSE IF x = t.child[o][g] THEN n ELSE t.parent[x]
  BY <1>28 DEF L, R, P
<1>35. \A x \in S, e \in Sides :
           u.child[e][x] = IF x = c /\ e = o THEN t.child[s][g]
                           ELSE IF x = n /\ e = s THEN t.child[o][g]
                           ELSE IF x = g THEN IF e = s THEN c ELSE n
                           ELSE IF t.child[e][x] = n THEN g ELSE t.child[e][x]
  BY <1>27 DEF L, R
<1>36. u \in TreeType /\ u.count = t.count /\ u.key = t.key
  BY <1>24
<1>32. RotatedTwice(t, u, S, n, s, c, g)
  BY <1>30, <1>31, <1>33, <1>34, <1>35, <1>36, Zenon DEF RotatedTwice
<1> QED
  BY <1>32 DEF u

LEMMA RotateTwiceIs ==
  ASSUME NEW t \in TreeType, NEW S \in SUBSET Nodes, NEW b \in Bounds, Fit(t, S, b),
         NEW n \in S, NEW s \in Sides, NEW c, c = t.child[s][n], c # Nil,
         NEW g, g = t.child[Other(s)][c], g # Nil
  PROVE  RotatedTwice(t, RotateTwice(t, n, s), S, n, s, c, g)
<1>1. Under(t, S, n, s, c, g)
  BY UnderIs, Zenon
<1>2. g \in S
  BY <1>1, Zenon DEF Under
<1>3. g \in Nodes \cup {Nil}
  BY <1>2
<1>4. Relinked(t, Relink(t, t.parent[n], n, g), S, n, g)
  BY <1>3, RelinkIs, Zenon
<1> QED
  BY <1>1, <1>4, RotateTwiceAt, Zenon

(* It is a rotation of the child and one of the node.                          *)
LEMMA TurnedTwice ==
  ASSUME NEW t, NEW S \in SUBSET Nodes, NEW n, NEW s \in Sides, NEW c, NEW g,
         Under(t, S, n, s, c, g), NEW v, Turned(t, v, S, c, Other(s)),
         NEW u, RotatedTwice(t, u, S, n, s, c, g)
  PROVE  Turned(v, u, S, n, s) /\ v.child[s][n] = g
<1> DEFINE o == Other(s)
           L == t.child[s][g]
           R == t.child[o][g]
<1>0. o \in Sides /\ o # s /\ Other(o) = s /\ \A e \in Sides : e = s \/ e = o
  BY OtherSide
<1>1. /\ n \in S /\ c \in S /\ g \in S /\ n # c /\ c # g /\ g # n
      /\ t.child[s][n] = c /\ t.child[o][c] = g /\ t.parent[c] = n /\ t.parent[g] = c
      /\ \A x \in S, e \in Sides : t.child[e][x] = c <=> (x = n /\ e = s)
      /\ \A x \in S, e \in Sides : t.child[e][x] = n => x # n /\ x # c /\ x # g
      /\ n # Nil /\ t.root # c
  BY NodesAssumption DEF Under, Nodes
<1>2. /\ L # n /\ R # n /\ R # c /\ L # c /\ L # g
      /\ \A x \in S : ~ (x = L /\ x = R)
  <2>1. Nil \notin S
    BY NodesAssumption DEF Nodes
  <2> QED
    BY <1>0, <1>1, <2>1 DEF Under
<1>3. /\ v.root = (IF t.root = c THEN g ELSE t.root) /\ v.key = t.key
      /\ \A x \in S :
            v.parent[x] = IF x = g THEN n ELSE IF x = c THEN g
                          ELSE IF x = L THEN c ELSE t.parent[x]
      /\ \A x \in S, e \in Sides :
            v.child[e][x] = IF x = c /\ e = o THEN L
                            ELSE IF x = g /\ e = s THEN c
                            ELSE IF t.child[e][x] = c THEN g ELSE t.child[e][x]
  BY <1>0, <1>1 DEF Turned
<1>4. /\ u.root = (IF t.root = n THEN g ELSE t.root) /\ u.key = t.key
      /\ \A x \in S :
            u.parent[x] = IF x = g THEN t.parent[n]
                          ELSE IF x = c \/ x = n THEN g
                          ELSE IF x = L THEN c ELSE IF x = R THEN n ELSE t.parent[x]
      /\ \A x \in S, e \in Sides :
            u.child[e][x] = IF x = c /\ e = o THEN L
                            ELSE IF x = n /\ e = s THEN R
                            ELSE IF x = g THEN IF e = s THEN c ELSE n
                            ELSE IF t.child[e][x] = n THEN g ELSE t.child[e][x]
  BY <1>1 DEF RotatedTwice
<1> HIDE DEF L, R, o
<1>5. v.child[s][n] = g /\ v.child[o][g] = R
  <2>1. t.child[o][g] = R /\ R # c
    BY <1>2 DEF R
  <2> QED
    BY <1>0, <1>1, <1>3, <2>1
<1>6. v.parent[n] = t.parent[n]
  BY <1>1, <1>2, <1>3
<1>7. \A x \in S : u.parent[x] = IF x = g THEN v.parent[n] ELSE IF x = n THEN g
                                 ELSE IF x = R THEN n ELSE v.parent[x]
  BY <1>1, <1>2, <1>3, <1>4, <1>6
<1>8. \A x \in S, e \in Sides :
          u.child[e][x] = IF x = n /\ e = s THEN R
                          ELSE IF x = g /\ e = o THEN n
                          ELSE IF v.child[e][x] = n THEN g ELSE v.child[e][x]
  <2> TAKE x \in S, e \in Sides
  <2>1. CASE x = n /\ e = s
    BY <1>1, <1>4, <2>1
  <2>2. CASE x = g
    <3>1. e = s => v.child[e][x] = c
      BY <1>1, <1>3, <2>2
    <3> QED
      BY <1>0, <1>1, <1>4, <2>2, <3>1
  <2>3. CASE x = c /\ e = o
    BY <1>1, <1>2, <1>3, <1>4, <2>3
  <2>4. CASE ~ (x = n /\ e = s) /\ x # g /\ ~ (x = c /\ e = o)
    <3>1. v.child[e][x] = t.child[e][x]
      BY <1>1, <1>3, <2>4
    <3> QED
      BY <1>4, <2>4, <3>1
  <2> QED
    BY <2>1, <2>2, <2>3, <2>4
<1>9. u.root = IF v.root = n THEN g ELSE v.root
  BY <1>1, <1>3, <1>4
<1> HIDE DEF o
<1>10. u.key = v.key
  BY <1>3, <1>4
<1>11. Turned(v, u, S, n, s)
  BY <1>5, <1>7, <1>8, <1>9, <1>10 DEF Turned, o
<1> QED
  BY <1>5, <1>11

-----------------------------------------------------------------------------
LEMMA TurnedTwiceFitAt ==
  ASSUME NEW t, NEW S, NEW b, NEW n, NEW s, NEW c, NEW g, Chained(t, S, b, n, s, c, g),
         NEW u, RotatedTwice(t, u, S, n, s, c, g)
  PROVE  \E d : Topped(u, S, b, d, n, g)
<1> DEFINE o == Other(s)
           v == Rotate(t, c, o)
           d == TurnedBounds(t, b, c, o)
<1>t. t \in TreeType /\ S \in SUBSET Nodes /\ b \in Bounds /\ Fit(t, S, b)
  BY Zenon DEF Chained
<1>n. n \in S /\ s \in Sides /\ c = t.child[s][n] /\ c # Nil
  BY Zenon DEF Chained
<1>g. g = t.child[o][c] /\ g # Nil
  BY Zenon DEF Chained
<1>0. o \in Sides
  BY <1>n, OtherSide, Zenon
<1>1. Under(t, S, n, s, c, g)
  BY UnderAt, Zenon
<1>2. c \in S /\ g \in S /\ n # c /\ n # g /\ t.child[o][c] = g
  BY <1>1, Zenon DEF Under
<1>3. Rotated(t, v, S, c, o)
  BY <1>t, <1>g, <1>0, <1>2, RotateIs, Zenon
<1> HIDE DEF v
<1>4. v \in TreeType /\ Turned(t, v, S, c, o)
  BY <1>3, Zenon DEF Rotated
<1>5. Topped(v, S, b, d, c, g)
  BY <1>t, <1>g, <1>0, <1>2, <1>4, TurnedOnceFit, Zenon
<1>6. d \in Bounds /\ Fit(v, S, d)
  BY <1>5, Zenon DEF Topped
<1>8. \A e \in Sides : d[e][n] = b[e][n]
  <2>1. n \in Nodes
    BY <1>t, <1>n, Zenon
  <2> QED
    BY <1>g, <1>2, <2>1 DEF TurnedBounds
<1> HIDE DEF d, o
<1>7. Turned(v, u, S, n, s) /\ v.child[s][n] = g
  BY <1>t, <1>n, <1>1, <1>4, TurnedTwice DEF o
<1> DEFINE f == TurnedBounds(v, d, n, s)
<1>9. Topped(u, S, d, f, n, g)
  BY <1>t, <1>n, <1>g, <1>4, <1>6, <1>7, TurnedOnceFit, Zenon
<1> HIDE DEF f
<1>10. Topped(u, S, b, f, n, g)
  BY <1>8, <1>9, Zenon DEF Topped
<1> QED
  BY <1>10

LEMMA TurnedTwiceFit ==
  ASSUME NEW t \in TreeType, NEW S \in SUBSET Nodes, NEW b \in Bounds, Fit(t, S, b),
         NEW n \in S, NEW s \in Sides, NEW c, c = t.child[s][n], c # Nil,
         NEW g, g = t.child[Other(s)][c], g # Nil,
         NEW u, RotatedTwice(t, u, S, n, s, c, g)
  PROVE  \E d : Topped(u, S, b, d, n, g)
<1>1. Chained(t, S, b, n, s, c, g)
  BY Zenon DEF Chained
<1> QED
  BY <1>1, TurnedTwiceFitAt, Zenon

(* The links of the nodes of S are the same in both.                           *)
SameLinks(t, u, S) ==
    /\ u.root = t.root
    /\ \A x \in S : /\ u.key[x] = t.key[x] /\ u.parent[x] = t.parent[x]
                    /\ \A e \in Sides : u.child[e][x] = t.child[e][x]

LEMMA FitSame ==
  ASSUME NEW t, NEW u, NEW S \in SUBSET Nodes, NEW b, Fit(t, S, b), SameLinks(t, u, S)
  PROVE  Fit(u, S, b)
<1>1. Rooted(u, S, b)
  BY DEF Fit, Rooted, SameLinks
<1>2. Ordered(u, S, b)
  BY DEF Fit, Ordered, SameLinks
<1>3. Hung(u, S, b)
  BY DEF Fit, Hung, SameLinks
<1>4. Closed(u, S, b)
  BY DEF Fit, Closed, SameLinks
<1>5. Held(u, S)
  BY DEF Fit, Held, SameLinks
<1>6. Keyed(u, S)
  BY DEF Fit, Keyed, SameLinks
<1> QED
  BY <1>1, <1>2, <1>3, <1>4, <1>5, <1>6 DEF Fit

-----------------------------------------------------------------------------
(* Heights: h are those of the nodes, w what the nodes above take them for.    *)
Heights == {h \in [Nodes \cup {Nil} -> Nat] : h[Nil] = 0}

\* The balance of a node with height i on side s and j on the other, and its
\* height.
Lean(s, i, j) == IF s = "right" THEN i - j ELSE j - i
Tall(i, j) == 1 + (IF i > j THEN i ELSE j)

LeansAt(t, h, w, n, s) ==
    /\ t.balance[n] = Lean(s, w[t.child[s][n]], w[t.child[Other(s)][n]])
    /\ h[n] = Tall(w[t.child[s][n]], w[t.child[Other(s)][n]])

Level(t, S, h, w) == \A n \in S, s \in Sides : LeansAt(t, h, w, n, s)

LEMMA LeanSides ==
  ASSUME NEW s \in Sides, NEW i \in Nat, NEW j \in Nat
  PROVE  Lean(Other(s), j, i) = Lean(s, i, j) /\ Tall(j, i) = Tall(i, j)
BY DEF Sides, Other, Lean, Tall

\* It is enough to look at a node from one side.
LEMMA LevelFrom ==
  ASSUME NEW t \in TreeType, NEW S \in SUBSET Nodes, NEW h,
         NEW w \in [Nodes \cup {Nil} -> Nat],
         \A n \in S : \E s \in Sides : LeansAt(t, h, w, n, s)
  PROVE  Level(t, S, h, w)
<1> SUFFICES ASSUME NEW n \in S, NEW e \in Sides PROVE LeansAt(t, h, w, n, e)
  BY DEF Level
<1>1. PICK s \in Sides : LeansAt(t, h, w, n, s)
  OBVIOUS
<1> DEFINE i == w[t.child[s][n]]
           j == w[t.child[Other(s)][n]]
<1>2. Other(s) \in Sides /\ Other(Other(s)) = s /\ (e = s \/ e = Other(s))
  BY OtherSide
<1>3. t.child[s][n] \in Nodes \cup {Nil} /\ t.child[Other(s)][n] \in Nodes \cup {Nil}
  BY <1>2 DEF TreeType
<1>4. i \in Nat /\ j \in Nat
  BY <1>3
<1>5. t.balance[n] = Lean(s, i, j) /\ h[n] = Tall(i, j)
  BY <1>1 DEF LeansAt
<1>6. t.balance[n] = Lean(Other(s), j, i) /\ h[n] = Tall(j, i)
  BY <1>4, <1>5, LeanSides
<1>7. LeansAt(t, h, w, n, Other(s))
  BY <1>2, <1>6 DEF LeansAt
<1> QED
  BY <1>1, <1>2, <1>7

\* The tree below c, now of height v, has been taken for one of height w.
Leveled(u, S, k, c, w, v) ==
    k \in Heights /\ k[c] = v /\ v \in Nat /\ Level(u, S, k, [k EXCEPT ![c] = w])

\* The numbers of a rotation.
OnceGiven(s, L, R, g, c, n, b) ==
    /\ s \in Sides /\ {L, R, g, c, n} \subseteq Nat /\ b \in {0, Sign(s)}
    /\ Lean(s, c, L) = 2 * Sign(s) /\ n = Tall(c, L)
    /\ b = Lean(s, R, g) /\ c = Tall(R, g)

OnceDone(s, L, R, g, n, b) ==
    LET kn == IF b = 0 THEN n - 1 ELSE n - 2
        kc == IF b = 0 THEN n ELSE n - 1
    IN  /\ {n, kn, kc} \subseteq Nat
        /\ (IF b = 0 THEN Sign(s) ELSE 0) = Lean(s, g, L) /\ kn = Tall(g, L)
        /\ (IF b = 0 THEN -Sign(s) ELSE 0) = Lean(s, R, kn) /\ kc = Tall(R, kn)

LEMMA OnceNumbers ==
  ASSUME NEW s, NEW L, NEW R, NEW g, NEW c, NEW n, NEW b, OnceGiven(s, L, R, g, c, n, b)
  PROVE  OnceDone(s, L, R, g, n, b)
<1>1. L \in Nat /\ R \in Nat /\ g \in Nat /\ c \in Nat /\ n \in Nat /\ (b = 0 \/ b = Sign(s))
  BY DEF OnceGiven
<1>2. CASE s = "left"
  <2>1. L - c = -2 /\ c = 1 + (IF R > g THEN R ELSE g) /\ b = g - R /\ (b = 0 \/ b = -1)
        /\ n = 1 + (IF c > L THEN c ELSE L)
    BY <1>1, <1>2 DEF OnceGiven, Lean, Tall, Sign
  <2> QED
    BY <1>1, <1>2, <2>1 DEF OnceDone, Lean, Tall, Sign
<1>3. CASE s = "right"
  <2>1. c - L = 2 /\ c = 1 + (IF R > g THEN R ELSE g) /\ b = R - g /\ (b = 0 \/ b = 1)
        /\ n = 1 + (IF c > L THEN c ELSE L)
    BY <1>1, <1>3 DEF OnceGiven, Lean, Tall, Sign
  <2> QED
    BY <1>1, <1>3, <2>1 DEF OnceDone, Lean, Tall, Sign
<1> QED
  BY <1>2, <1>3 DEF OnceGiven, Sides

TwiceGiven(s, L, R, gs, go, g, c, n, b) ==
    /\ s \in Sides /\ {L, R, gs, go, g, c, n} \subseteq Nat /\ b \in -1 .. 1
    /\ Lean(s, c, L) = 2 * Sign(s) /\ n = Tall(c, L)
    /\ -Sign(s) = Lean(s, R, g) /\ c = Tall(R, g)
    /\ b = Lean(s, gs, go) /\ g = Tall(gs, go)

TwiceDone(s, L, R, gs, go, n, b) ==
    /\ n - 2 \in Nat /\ n - 1 \in Nat
    /\ (IF b = Sign(s) THEN -Sign(s) ELSE 0) = Lean(s, go, L) /\ n - 2 = Tall(go, L)
    /\ (IF b = Sign(Other(s)) THEN Sign(s) ELSE 0) = Lean(s, R, gs) /\ n - 2 = Tall(R, gs)
    /\ 0 = Lean(s, n - 2, n - 2) /\ n - 1 = Tall(n - 2, n - 2)

LEMMA TwiceNumbers ==
  ASSUME NEW s, NEW L, NEW R, NEW gs, NEW go, NEW g, NEW c, NEW n, NEW b,
         TwiceGiven(s, L, R, gs, go, g, c, n, b)
  PROVE  TwiceDone(s, L, R, gs, go, n, b)
<1>1. /\ L \in Nat /\ R \in Nat /\ gs \in Nat /\ go \in Nat /\ g \in Nat /\ c \in Nat
      /\ n \in Nat /\ b \in {-1, 0, 1}
  BY DEF TwiceGiven
<1>2. CASE s = "left"
  <2>1. L - c = -2 /\ n = 1 + (IF c > L THEN c ELSE L) /\ 1 = g - R
        /\ c = 1 + (IF R > g THEN R ELSE g) /\ b = go - gs
        /\ g = 1 + (IF gs > go THEN gs ELSE go)
    BY <1>1, <1>2 DEF TwiceGiven, Lean, Tall, Sign
  <2> QED
    BY <1>1, <1>2, <2>1 DEF TwiceDone, Lean, Tall, Sign, Other
<1>3. CASE s = "right"
  <2>1. c - L = 2 /\ n = 1 + (IF c > L THEN c ELSE L) /\ -1 = R - g
        /\ c = 1 + (IF R > g THEN R ELSE g) /\ b = gs - go
        /\ g = 1 + (IF gs > go THEN gs ELSE go)
    BY <1>1, <1>3 DEF TwiceGiven, Lean, Tall, Sign
  <2> QED
    BY <1>1, <1>3, <2>1 DEF TwiceDone, Lean, Tall, Sign, Other
<1> QED
  BY <1>2, <1>3 DEF TwiceGiven, Sides

LEMMA OnceLevel ==
  ASSUME NEW t \in TreeType, NEW S \in SUBSET Nodes, NEW b \in Bounds, Fit(t, S, b),
         NEW n \in S, NEW s \in Sides, NEW c, c = t.child[s][n], c # Nil,
         NEW h \in Heights, NEW w \in Nat, Level(t, S, h, [h EXCEPT ![n] = w]),
         t.balance[n] = 2 * Sign(s), t.balance[c] \in {0, Sign(s)},
         NEW u, Rotated(t, u, S, n, s)
  PROVE  \E k : Leveled(u, S, k, c, w, IF t.balance[c] = 0 THEN h[n] ELSE h[n] - 1)
<1> DEFINE o == Other(s)
           g == t.child[o][c]
           hw == [h EXCEPT ![n] = w]
           even == t.balance[c] = 0
           kn == IF even THEN h[n] - 1 ELSE h[n] - 2
           kc == IF even THEN h[n] ELSE h[n] - 1
           k == [h EXCEPT ![n] = kn, ![c] = kc]
           kw == [k EXCEPT ![c] = w]
           L == h[t.child[o][n]]
           R == h[t.child[s][c]]
           G == h[g]
<1>0. /\ o \in Sides /\ o # s /\ n # Nil /\ Nil \notin S /\ n \in Nodes
      /\ \A e \in Sides : e = s \/ e = o
  BY OtherSide, NodesAssumption DEF Nodes
<1>1. Below(t, S, b, n, s, c)
  BY ParentOf
<1>2. /\ c \in S /\ c # n /\ \A e \in Sides : t.child[e][c] # n
      /\ \A x \in S, e \in Sides : t.child[e][x] = c <=> (x = n /\ e = s)
      /\ t.child[o][n] # c
  BY <1>1 DEF Below
<1>3. \A x \in S, e \in Sides : t.child[e][x] \in Nodes \cup {Nil} /\ h[t.child[e][x]] \in Nat
  BY DEF TreeType, Heights
<1>4. h \in [Nodes \cup {Nil} -> Nat] /\ h[Nil] = 0
  BY DEF Heights
<1>5. hw[n] = w /\ \A x \in Nodes \cup {Nil} : x # n => hw[x] = h[x]
  BY <1>4
<1>6. \A x \in S, e \in Sides : LeansAt(t, h, hw, x, e)
  BY DEF Level
<1> HIDE DEF hw
<1>7. t.child[o][n] # n /\ t.child[s][n] = c
  <2>1. CASE t.child[o][n] = Nil
    BY <1>0, <2>1
  <2>2. CASE t.child[o][n] # Nil
    <3>1. Below(t, S, b, n, o, t.child[o][n])
      BY <1>0, <2>2, ParentOf
    <3> QED
      BY <3>1 DEF Below
  <2> QED
    BY <2>1, <2>2
<1>8. t.balance[n] = Lean(s, h[c], L) /\ h[n] = Tall(h[c], L)
  <2>1. hw[c] = h[c] /\ hw[t.child[o][n]] = L
    BY <1>0, <1>2, <1>3, <1>5, <1>7
  <2> QED
    BY <1>6, <1>7, <2>1 DEF LeansAt
<1>9. t.balance[c] = Lean(s, R, G) /\ h[c] = Tall(R, G)
  <2>1. hw[t.child[s][c]] = R /\ hw[g] = G
    BY <1>0, <1>2, <1>3, <1>5
  <2> QED
    BY <1>2, <1>6, <2>1 DEF LeansAt
<1>10. L \in Nat /\ R \in Nat /\ G \in Nat /\ h[c] \in Nat /\ h[n] \in Nat
  BY <1>0, <1>2, <1>3, <1>4
<1> HIDE DEF L, R, G
<1>11. OnceGiven(s, L, R, G, h[c], h[n], t.balance[c])
  BY <1>8, <1>9, <1>10 DEF OnceGiven
<1>12. OnceDone(s, L, R, G, h[n], t.balance[c])
  BY <1>11, OnceNumbers
<1>13. /\ kn \in Nat /\ kc \in Nat
       /\ (IF even THEN Sign(s) ELSE 0) = Lean(s, G, L) /\ kn = Tall(G, L)
       /\ (IF even THEN -Sign(s) ELSE 0) = Lean(s, R, kn) /\ kc = Tall(R, kn)
  BY <1>12 DEF OnceDone
<1> HIDE DEF kn, kc
<1>14. /\ k \in Heights /\ k[n] = kn /\ k[c] = kc
       /\ \A x \in Nodes \cup {Nil} : x # n /\ x # c => k[x] = h[x]
  BY <1>0, <1>2, <1>4, <1>13 DEF Heights
<1> HIDE DEF k
<1>15. /\ kw \in [Nodes \cup {Nil} -> Nat] /\ kw[n] = kn /\ kw[c] = w
       /\ \A x \in Nodes \cup {Nil} : x # n /\ x # c => kw[x] = h[x]
  BY <1>0, <1>2, <1>14 DEF Heights
<1> HIDE DEF kw
<1>16. /\ u \in TreeType
       /\ \A x \in S, e \in Sides :
              u.child[e][x] = IF x = n /\ e = s THEN g
                              ELSE IF x = c /\ e = o THEN n
                              ELSE IF t.child[e][x] = n THEN c ELSE t.child[e][x]
       /\ \A x \in Nodes :
              u.balance[x] = IF x = c THEN IF even THEN -Sign(s) ELSE 0
                             ELSE IF x = n THEN IF even THEN Sign(s) ELSE 0
                             ELSE t.balance[x]
  BY DEF Rotated, Turned
<1> HIDE DEF even, o, g
<1>17. LeansAt(u, k, kw, n, s)
  <2>1. u.child[s][n] = g /\ u.child[o][n] = t.child[o][n]
    BY <1>0, <1>2, <1>7, <1>16
  <2>2. g # n /\ g # c /\ t.child[o][n] # c
    <3>1. g # n
      BY <1>0, <1>2 DEF g
    <3>2. g # c
      BY <1>0, <1>2 DEF g
    <3> QED
      BY <1>2, <3>1, <3>2
  <2>3. kw[g] = G /\ kw[t.child[o][n]] = L
    BY <1>0, <1>2, <1>3, <1>7, <1>15, <2>2 DEF G, L, g
  <2>4. u.balance[n] = IF even THEN Sign(s) ELSE 0
    BY <1>0, <1>2, <1>16
  <2> QED
    BY <1>13, <1>14, <2>1, <2>3, <2>4 DEF LeansAt, o
<1>18. LeansAt(u, k, kw, c, s)
  <2>1. u.child[s][c] = t.child[s][c] /\ u.child[o][c] = n
    BY <1>0, <1>2, <1>16
  <2>2. t.child[s][c] # n /\ t.child[s][c] # c
    BY <1>2
  <2>3. kw[t.child[s][c]] = R
    BY <1>2, <1>3, <1>15, <2>2 DEF R
  <2>4. u.balance[c] = IF even THEN -Sign(s) ELSE 0
    BY <1>2, <1>16
  <2> QED
    BY <1>13, <1>14, <1>15, <2>1, <2>3, <2>4 DEF LeansAt, o
<1>19. ASSUME NEW x \in S, x # n, x # c PROVE LeansAt(u, k, kw, x, s)
  <2>1. \A e \in Sides : kw[u.child[e][x]] = hw[t.child[e][x]]
    <3> TAKE e \in Sides
    <3>1. t.child[e][x] # c /\ t.child[e][x] \in Nodes \cup {Nil}
      BY <1>2, <1>3, <1>19
    <3> QED
      BY <1>5, <1>15, <1>16, <1>19, <3>1
  <2>2. u.balance[x] = t.balance[x] /\ k[x] = h[x]
    BY <1>14, <1>16, <1>19
  <2>3. LeansAt(t, h, hw, x, s)
    BY <1>6
  <2> QED
    BY <1>0, <2>1, <2>2, <2>3 DEF LeansAt, o
<1>20. Level(u, S, k, kw)
  <2>1. \A x \in S : LeansAt(u, k, kw, x, s)
    BY <1>17, <1>18, <1>19
  <2> QED
    BY <1>15, <1>16, <2>1, LevelFrom
<1>21. Leveled(u, S, k, c, w, kc)
  BY <1>13, <1>14, <1>20 DEF Leveled, kw
<1> QED
  BY <1>21 DEF kc, even

-----------------------------------------------------------------------------
\* What TwiceLevel is told, with the heights hw that the nodes count with.
TwiceAt(t, S, n, s, c, g, h, hw, w, u) ==
    /\ t \in TreeType /\ S \in SUBSET Nodes /\ n \in S /\ s \in Sides
    /\ Under(t, S, n, s, c, g)
    /\ h \in Heights /\ w \in Nat /\ hw = [h EXCEPT ![n] = w] /\ Level(t, S, h, hw)
    /\ t.balance[n] = 2 * Sign(s) /\ t.balance[c] = -Sign(s) /\ t.balance[g] \in -1 .. 1
    /\ RotatedTwice(t, u, S, n, s, c, g)

LEMMA TwiceLevelAt ==
  ASSUME NEW t, NEW S, NEW n, NEW s, NEW c, NEW g, NEW h, NEW hw, NEW w, NEW u,
         TwiceAt(t, S, n, s, c, g, h, hw, w, u)
  PROVE  \E k : Leveled(u, S, k, g, w, h[n] - 1)
<1> DEFINE o == Other(s)
           k == [h EXCEPT ![n] = h[n] - 2, ![c] = h[n] - 2, ![g] = h[n] - 1]
           kw == [k EXCEPT ![g] = w]
           L == h[t.child[o][n]]
           R == h[t.child[s][c]]
           gs == h[t.child[s][g]]
           go == h[t.child[o][g]]
<1>a. /\ t \in TreeType /\ S \in SUBSET Nodes /\ n \in S /\ s \in Sides
      /\ h \in Heights /\ w \in Nat
      /\ t.balance[n] = 2 * Sign(s) /\ t.balance[c] = -Sign(s) /\ t.balance[g] \in -1 .. 1
  BY DEF TwiceAt
<1>b. Level(t, S, h, hw) /\ RotatedTwice(t, u, S, n, s, c, g) /\ Under(t, S, n, s, c, g)
  BY DEF TwiceAt
<1>0. /\ o \in Sides /\ o # s /\ n # Nil /\ Nil \notin S /\ n \in Nodes
      /\ \A e \in Sides : e = s \/ e = o
      /\ s \in Sides /\ n \in S /\ S \subseteq Nodes
  BY <1>a, OtherSide, NodesAssumption DEF Nodes
<1>2. /\ c \in S /\ g \in S /\ n # c /\ c # g /\ g # n
      /\ t.child[s][n] = c /\ t.child[o][c] = g
      /\ \A x \in S, e \in Sides : t.child[e][x] = c <=> (x = n /\ e = s)
      /\ \A x \in S, e \in Sides : t.child[e][x] = g <=> (x = c /\ e = o)
      /\ \A x \in S, e \in Sides : t.child[e][x] = n => x # n /\ x # c /\ x # g
      /\ \A e \in Sides : t.child[e][g] # g
  BY <1>b DEF Under
<1>3. \A x \in S, e \in Sides : t.child[e][x] \in Nodes \cup {Nil} /\ h[t.child[e][x]] \in Nat
  BY <1>a DEF TreeType, Heights
<1>4. h \in [Nodes \cup {Nil} -> Nat] /\ h[Nil] = 0 /\ w \in Nat
  BY <1>a DEF Heights
<1>5. hw[n] = w /\ \A x \in Nodes \cup {Nil} : x # n => hw[x] = h[x]
  BY <1>0, <1>4 DEF TwiceAt
<1>6. \A x \in S, e \in Sides : LeansAt(t, h, hw, x, e)
  BY <1>b DEF Level
<1>7. \A x \in S, e \in Sides : (x = n \/ x = c \/ x = g) =>
          hw[t.child[e][x]] = h[t.child[e][x]]
  BY <1>2, <1>3, <1>5
<1>8. t.balance[n] = Lean(s, h[c], L) /\ h[n] = Tall(h[c], L)
  <2>1. LeansAt(t, h, hw, n, s)
    BY <1>0, <1>6
  <2>2. hw[t.child[s][n]] = h[c] /\ hw[t.child[o][n]] = L
    BY <1>0, <1>2, <1>7
  <2> QED
    BY <2>1, <2>2 DEF LeansAt
<1>9. t.balance[c] = Lean(s, R, h[g]) /\ h[c] = Tall(R, h[g])
  <2>1. LeansAt(t, h, hw, c, s)
    BY <1>0, <1>2, <1>6
  <2>2. hw[t.child[s][c]] = R /\ hw[t.child[o][c]] = h[t.child[o][c]]
    BY <1>0, <1>2, <1>7
  <2> QED
    BY <1>2, <2>1, <2>2 DEF LeansAt
<1>10. t.balance[g] = Lean(s, gs, go) /\ h[g] = Tall(gs, go)
  <2>1. LeansAt(t, h, hw, g, s)
    BY <1>0, <1>2, <1>6
  <2>2. hw[t.child[s][g]] = gs /\ hw[t.child[o][g]] = go
    BY <1>0, <1>2, <1>7
  <2> QED
    BY <2>1, <2>2 DEF LeansAt
<1>11. /\ L \in Nat /\ R \in Nat /\ gs \in Nat /\ go \in Nat
       /\ h[g] \in Nat /\ h[c] \in Nat /\ h[n] \in Nat
  BY <1>0, <1>2, <1>3, <1>4
<1> HIDE DEF L, R, gs, go
<1>12. TwiceGiven(s, L, R, gs, go, h[g], h[c], h[n], t.balance[g])
  BY <1>a, <1>8, <1>9, <1>10, <1>11 DEF TwiceGiven
<1>13. TwiceDone(s, L, R, gs, go, h[n], t.balance[g])
  BY <1>12, TwiceNumbers
<1>14. /\ h[n] - 2 \in Nat /\ h[n] - 1 \in Nat
       /\ (IF t.balance[g] = Sign(s) THEN -Sign(s) ELSE 0) = Lean(s, go, L)
       /\ h[n] - 2 = Tall(go, L)
       /\ (IF t.balance[g] = Sign(o) THEN Sign(s) ELSE 0) = Lean(s, R, gs)
       /\ h[n] - 2 = Tall(R, gs)
       /\ 0 = Lean(s, h[n] - 2, h[n] - 2) /\ h[n] - 1 = Tall(h[n] - 2, h[n] - 2)
  BY <1>13 DEF TwiceDone
<1>15. /\ k \in Heights /\ k[n] = h[n] - 2 /\ k[c] = h[n] - 2 /\ k[g] = h[n] - 1
       /\ \A x \in Nodes \cup {Nil} : x # n /\ x # c /\ x # g => k[x] = h[x]
  BY <1>0, <1>2, <1>4, <1>14 DEF Heights
<1> HIDE DEF k
<1>16. /\ kw \in [Nodes \cup {Nil} -> Nat] /\ kw[g] = w
       /\ \A x \in Nodes \cup {Nil} : x # g => kw[x] = k[x]
  BY <1>0, <1>2, <1>4, <1>15 DEF Heights
<1> HIDE DEF kw
<1>17. /\ u \in TreeType
       /\ \A x \in S, e \in Sides :
          u.child[e][x] = IF x = c /\ e = o THEN t.child[s][g]
                          ELSE IF x = n /\ e = s THEN t.child[o][g]
                          ELSE IF x = g THEN IF e = s THEN c ELSE n
                          ELSE IF t.child[e][x] = n THEN g ELSE t.child[e][x]
       /\ \A x \in Nodes :
          u.balance[x] = IF x = n THEN IF t.balance[g] = Sign(s) THEN -Sign(s) ELSE 0
                         ELSE IF x = c THEN IF t.balance[g] = Sign(o) THEN Sign(s) ELSE 0
                         ELSE IF x = g THEN 0 ELSE t.balance[x]
  BY <1>b DEF RotatedTwice
<1> HIDE DEF o
<1>18. LeansAt(u, k, kw, n, s)
  <2>1. u.child[s][n] = t.child[o][g] /\ u.child[o][n] = t.child[o][n]
    BY <1>0, <1>2, <1>17
  <2>2. /\ t.child[o][g] # n /\ t.child[o][g] # c /\ t.child[o][g] # g
        /\ t.child[o][n] # n /\ t.child[o][n] # c /\ t.child[o][n] # g
    BY <1>0, <1>2
  <2>3. kw[t.child[o][g]] = go /\ kw[t.child[o][n]] = L
    BY <1>0, <1>2, <1>3, <1>15, <1>16, <2>2 DEF go, L
  <2>4. u.balance[n] = IF t.balance[g] = Sign(s) THEN -Sign(s) ELSE 0
    BY <1>0, <1>17
  <2> QED
    BY <1>14, <1>15, <2>1, <2>3, <2>4 DEF LeansAt, o
<1>19. LeansAt(u, k, kw, c, s)
  <2>1. u.child[s][c] = t.child[s][c] /\ u.child[o][c] = t.child[s][g]
    BY <1>0, <1>2, <1>17
  <2>2. /\ t.child[s][c] # n /\ t.child[s][c] # c /\ t.child[s][c] # g
        /\ t.child[s][g] # n /\ t.child[s][g] # c /\ t.child[s][g] # g
    BY <1>0, <1>2
  <2>3. kw[t.child[s][c]] = R /\ kw[t.child[s][g]] = gs
    BY <1>0, <1>2, <1>3, <1>15, <1>16, <2>2 DEF R, gs
  <2>4. u.balance[c] = IF t.balance[g] = Sign(o) THEN Sign(s) ELSE 0
    BY <1>0, <1>2, <1>17
  <2> QED
    BY <1>14, <1>15, <2>1, <2>3, <2>4 DEF LeansAt, o
<1>20. LeansAt(u, k, kw, g, s)
  <2>1. u.child[s][g] = c /\ u.child[o][g] = n /\ u.balance[g] = 0
    BY <1>0, <1>2, <1>17
  <2>2. kw[c] = h[n] - 2 /\ kw[n] = h[n] - 2
    BY <1>0, <1>2, <1>15, <1>16
  <2> QED
    BY <1>14, <1>15, <2>1, <2>2 DEF LeansAt, o
<1>21. ASSUME NEW x \in S, x # n, x # c, x # g PROVE LeansAt(u, k, kw, x, s)
  <2>1. \A e \in Sides : kw[u.child[e][x]] = hw[t.child[e][x]]
    <3> TAKE e \in Sides
    <3>1. t.child[e][x] # c /\ t.child[e][x] # g /\ t.child[e][x] \in Nodes \cup {Nil}
      BY <1>2, <1>3, <1>21
    <3>2. CASE t.child[e][x] = n
      BY <1>5, <1>16, <1>17, <1>21, <3>2
    <3>3. CASE t.child[e][x] # n
      <4>1. u.child[e][x] = t.child[e][x]
        BY <1>17, <1>21, <3>3
      <4>2. kw[t.child[e][x]] = h[t.child[e][x]]
        BY <1>15, <1>16, <3>1, <3>3
      <4> QED
        BY <1>5, <3>1, <3>3, <4>1, <4>2
    <3> QED
      BY <3>2, <3>3
  <2>2. u.balance[x] = t.balance[x] /\ k[x] = h[x]
    BY <1>0, <1>15, <1>17, <1>21
  <2>3. LeansAt(t, h, hw, x, s)
    BY <1>0, <1>6
  <2> QED
    BY <1>0, <2>1, <2>2, <2>3 DEF LeansAt, o
<1>22. Level(u, S, k, kw)
  <2>1. \A x \in S : LeansAt(u, k, kw, x, s)
    BY <1>18, <1>19, <1>20, <1>21
  <2> QED
    BY <1>a, <1>16, <1>17, <2>1, LevelFrom
<1>23. Leveled(u, S, k, g, w, h[n] - 1)
  BY <1>14, <1>15, <1>22 DEF Leveled, kw
<1> QED
  BY <1>23

LEMMA TwiceLevel ==
  ASSUME NEW t \in TreeType, NEW S \in SUBSET Nodes, NEW b \in Bounds, Fit(t, S, b),
         NEW n \in S, NEW s \in Sides, NEW c, c = t.child[s][n], c # Nil,
         NEW g, g = t.child[Other(s)][c], g # Nil,
         NEW h \in Heights, NEW w \in Nat, Level(t, S, h, [h EXCEPT ![n] = w]),
         t.balance[n] = 2 * Sign(s), t.balance[c] = -Sign(s), t.balance[g] \in -1 .. 1,
         NEW u, RotatedTwice(t, u, S, n, s, c, g)
  PROVE  \E k : Leveled(u, S, k, g, w, h[n] - 1)
<1>1. Under(t, S, n, s, c, g)
  BY UnderIs, Zenon
<1>2. TwiceAt(t, S, n, s, c, g, h, [h EXCEPT ![n] = w], w, u)
  BY <1>1, Zenon DEF TwiceAt
<1> QED
  BY <1>2, TwiceLevelAt, Zenon

-----------------------------------------------------------------------------
(* The nodes between the bounds of a node: they are fewer further down.        *)
Within(t, S, b, n) == {x \in S : \A e \in Sides : Past(e, b[e][n], t.key[x])}

LEMMA NodesFinite ==
  IsFiniteSet(Nodes) /\ \A S \in SUBSET Nodes : IsFiniteSet(S)
BY KeysAssumption, FS_Singleton, FS_Union, FS_Subset DEF Nodes

LEMMA WithinSize ==
  ASSUME NEW t, NEW S \in SUBSET Nodes, NEW b, NEW n
  PROVE  /\ Within(t, S, b, n) \in SUBSET Nodes
         /\ Cardinality(Within(t, S, b, n)) \in Nat
         /\ Cardinality(Within(t, S, b, n)) <= Cardinality(S)
<1>1. Within(t, S, b, n) \subseteq S
  BY DEF Within
<1> QED
  BY <1>1, NodesFinite, FS_CardinalityType, FS_Subset

LEMMA WithinGrows ==
  ASSUME NEW t \in TreeType, NEW S \in SUBSET Nodes, NEW b \in Bounds, Fit(t, S, b),
         NEW p \in S, NEW s \in Sides, NEW n, Below(t, S, b, p, s, n)
  PROVE  Cardinality(Within(t, S, b, n)) < Cardinality(Within(t, S, b, p))
<1> DEFINE N == Within(t, S, b, n)
           P == Within(t, S, b, p)
           o == Other(s)
<1>0. /\ o \in Sides /\ \A e \in Sides : e = s \/ e = o
      /\ \A x \in S : t.key[x] \in Nat
      /\ \A e \in Sides, x \in S : b[e][x] \in Nat
  BY OtherSide DEF TreeType, Bounds
<1>1. n \in S /\ b[s][n] = b[s][p] /\ b[o][n] = t.key[p]
  BY DEF Below
<1>2. \A e \in Sides : Past(e, b[e][p], t.key[p])
  BY DEF Fit, Ordered
<1> HIDE DEF o
<1>3. N \subseteq P
  <2> SUFFICES ASSUME NEW x \in N PROVE x \in P
    OBVIOUS
  <2>1. x \in S /\ Past(s, b[s][n], t.key[x]) /\ Past(o, b[o][n], t.key[x])
    BY <1>0 DEF Within
  <2>2. Past(o, b[o][p], t.key[x])
    <3>1. Past(o, b[o][p], t.key[p]) /\ Past(o, t.key[p], t.key[x])
      BY <1>0, <1>1, <1>2, <2>1
    <3> QED
      BY <1>0, <2>1, <3>1, PastIs
  <2> QED
    BY <1>0, <1>1, <2>1, <2>2 DEF Within
<1>4. p \in P
  BY <1>2 DEF Within
<1>5. p \notin N
  <2> SUFFICES ASSUME p \in N PROVE FALSE
    OBVIOUS
  <2>1. Past(o, t.key[p], t.key[p])
    BY <1>0, <1>1 DEF Within
  <2> QED
    BY <1>0, <2>1, PastIs
<1>6. IsFiniteSet(P)
  BY WithinSize, NodesFinite
<1>7. Cardinality(N) <= Cardinality(P) /\ (Cardinality(N) = Cardinality(P) => N = P)
  BY <1>3, <1>6, FS_Subset
<1>8. Cardinality(N) \in Nat /\ Cardinality(P) \in Nat /\ N # P
  BY <1>4, <1>5, WithinSize
<1> QED
  BY <1>7, <1>8

(* One level up: the parent of a node that is lower or higher than it was.     *)
Climbed(t, u, S, h, g, n, p, e, w, j) ==
    /\ g \in Heights /\ j \in Nat /\ Level(u, S, g, h)
    /\ g = [h EXCEPT ![p] = Tall(h[n], j)]
    /\ t.balance[p] = Lean(e, w, j) /\ u.balance[p] = Lean(e, h[n], j)
    /\ h[p] = Tall(w, j) /\ g[p] = Tall(h[n], j)

LEMMA Climb ==
  ASSUME NEW t \in TreeType, NEW S \in SUBSET Nodes, NEW b \in Bounds, Fit(t, S, b),
         NEW p \in S, NEW e \in Sides, NEW n, Below(t, S, b, p, e, n),
         NEW h \in Heights, NEW w \in Nat, Level(t, S, h, [h EXCEPT ![n] = w]),
         NEW v \in Int, NEW u, BalanceStored(t, u, p, v),
         \A j \in Nat : t.balance[p] = Lean(e, w, j) => v = Lean(e, h[n], j)
  PROVE  \E g, j : Climbed(t, u, S, h, g, n, p, e, w, j)
<1> DEFINE o == Other(e)
           hw == [h EXCEPT ![n] = w]
           j == h[t.child[o][p]]
           g == [h EXCEPT ![p] = Tall(h[n], j)]
<1>0. /\ o \in Sides /\ o # e /\ p # Nil /\ p \in Nodes /\ Nil \notin S
      /\ \A f \in Sides : f = e \/ f = o
  BY OtherSide, NodesAssumption DEF Nodes
<1>1. /\ n \in S /\ n # p /\ t.child[o][p] # n
      /\ \A x \in S, f \in Sides : t.child[f][x] = n <=> (x = p /\ f = e)
  BY DEF Below
<1>2. h \in [Nodes \cup {Nil} -> Nat] /\ h[Nil] = 0
  BY DEF Heights
<1>3. \A x \in S, f \in Sides : t.child[f][x] \in Nodes \cup {Nil}
  BY DEF TreeType
<1>4. hw \in [Nodes \cup {Nil} -> Nat] /\ hw[n] = w
      /\ \A x \in Nodes \cup {Nil} : x # n => hw[x] = h[x]
  BY <1>1, <1>2
<1>5. \A x \in S : LeansAt(t, h, hw, x, e)
  BY DEF Level
<1> HIDE DEF hw
<1>6. j \in Nat /\ h[n] \in Nat
  BY <1>0, <1>1, <1>2, <1>3
<1>7. t.balance[p] = Lean(e, w, j) /\ h[p] = Tall(w, j)
  <2>1. hw[t.child[e][p]] = w /\ hw[t.child[o][p]] = j
    BY <1>0, <1>1, <1>3, <1>4
  <2> QED
    BY <1>5, <2>1 DEF LeansAt
<1>8. v = Lean(e, h[n], j)
  BY <1>6, <1>7
<1>9. Tall(h[n], j) \in Nat
  BY <1>6 DEF Tall
<1>10. /\ g \in Heights /\ g[p] = Tall(h[n], j)
       /\ \A x \in Nodes \cup {Nil} : x # p => g[x] = h[x]
  BY <1>0, <1>2, <1>9 DEF Heights
<1>11. /\ u \in TreeType /\ u.child = t.child
       /\ \A x \in Nodes : u.balance[x] = IF x = p THEN v ELSE t.balance[x]
  BY DEF BalanceStored
<1> HIDE DEF g
<1>12. LeansAt(u, g, h, p, e)
  <2>1. h[u.child[e][p]] = h[n] /\ h[u.child[o][p]] = j
    BY <1>1, <1>11
  <2>2. u.balance[p] = v
    BY <1>0, <1>11
  <2> HIDE DEF j
  <2> QED
    BY <1>8, <1>10, <2>1, <2>2 DEF LeansAt
<1>13. ASSUME NEW x \in S, x # p PROVE LeansAt(u, g, h, x, e)
  <2>1. \A f \in Sides : h[u.child[f][x]] = hw[t.child[f][x]]
    BY <1>1, <1>3, <1>4, <1>11, <1>13
  <2>2. u.balance[x] = t.balance[x] /\ g[x] = h[x]
    BY <1>10, <1>11, <1>13
  <2> QED
    BY <1>0, <1>5, <2>1, <2>2 DEF LeansAt
<1>14. Level(u, S, g, h)
  <2>1. \A x \in S : LeansAt(u, g, h, x, e)
    BY <1>12, <1>13
  <2> QED
    BY <1>2, <1>11, <2>1, LevelFrom
<1>15. Climbed(t, u, S, h, g, n, p, e, w, j)
  <2>1. u.balance[p] = v
    BY <1>0, <1>11
  <2>2. g = [h EXCEPT ![p] = Tall(h[n], j)]
    BY DEF g
  <2> HIDE DEF j
  <2> QED
    BY <1>6, <1>7, <1>8, <1>10, <1>14, <2>1, <2>2 DEF Climbed
<1> QED
  BY <1>15

-----------------------------------------------------------------------------
(* What no rotation changes.                                                   *)
Kept(t, u, S) ==
    u \in TreeType /\ u.count = t.count /\ u.key = t.key /\ Spared(t, u, S)

LEMMA KeptTwice ==
  ASSUME NEW t, NEW u, NEW v, NEW S, Kept(t, u, S), Kept(u, v, S)
  PROVE  Kept(t, v, S)
BY DEF Kept, Spared

\* No node is off by more than one.
Near(t, S) == \A x \in S : t.balance[x] \in -1 .. 1

\* A node leans to side s only if it has a child there.
LEMMA HeavySide ==
  ASSUME NEW t \in TreeType, NEW S \in SUBSET Nodes, NEW n \in S, NEW s \in Sides,
         NEW h \in Heights, NEW m \in S, NEW w \in Nat,
         Level(t, S, h, [h EXCEPT ![m] = w]),
         t.balance[n] \in {Sign(s), 2 * Sign(s)}
  PROVE  t.child[s][n] # Nil
<1> DEFINE hw == [h EXCEPT ![m] = w]
           i == hw[t.child[s][n]]
           j == hw[t.child[Other(s)][n]]
<1>1. m # Nil /\ h \in [Nodes \cup {Nil} -> Nat] /\ h[Nil] = 0
  BY NodesAssumption DEF Heights, Nodes
<1>2. hw \in [Nodes \cup {Nil} -> Nat] /\ hw[Nil] = 0
  BY <1>1
<1>3. t.balance[n] = Lean(s, i, j)
  BY DEF Level, LeansAt
<1>4. t.child[s][n] \in Nodes \cup {Nil} /\ t.child[Other(s)][n] \in Nodes \cup {Nil}
  BY OtherSide DEF TreeType
<1>5. i \in Nat /\ j \in Nat
  BY <1>2, <1>4
<1>6. SUFFICES ASSUME t.child[s][n] = Nil PROVE FALSE
  OBVIOUS
<1>7. i = 0
  BY <1>2, <1>6
<1> HIDE DEF i, j
<1> QED
  BY <1>3, <1>5, <1>7 DEF Lean, Sign, Sides

(* A node that is off by two, to side s, in a tree that is in order otherwise. *)
Tilted(t, S, b, n, s, c, h, w) ==
    /\ t \in TreeType /\ b \in Bounds /\ Fit(t, S, b)
    /\ n \in S /\ s \in Sides /\ c = t.child[s][n]
    /\ h \in Heights /\ w \in Nat /\ Level(t, S, h, [h EXCEPT ![n] = w])
    /\ t.balance[n] = 2 * Sign(s)
    /\ \A x \in S : x # n => t.balance[x] \in -1 .. 1

(* The tree where n was, of which the nodes above still take the height for w, *)
(* has c on top, and height v.                                                 *)
Lifted(t, u, S, b, n, c, w, v, d, k) ==
    /\ Kept(t, u, S) /\ Topped(u, S, b, d, n, c) /\ Leveled(u, S, k, c, w, v)
    /\ Near(u, S)

LEMMA LiftOnce ==
  ASSUME NEW t, NEW S \in SUBSET Nodes, NEW b, NEW n, NEW s, NEW c, NEW h, NEW w,
         Tilted(t, S, b, n, s, c, h, w), t.balance[c] # -Sign(s)
  PROVE  /\ c \in S /\ c # Nil
         /\ Rotate(t, n, s).balance[c] = 0 <=> t.balance[c] # 0
         /\ \E d, k : Lifted(t, Rotate(t, n, s), S, b, n, c, w,
                             IF t.balance[c] = 0 THEN h[n] ELSE h[n] - 1, d, k)
<1> DEFINE u == Rotate(t, n, s)
           v == IF t.balance[c] = 0 THEN h[n] ELSE h[n] - 1
           d == TurnedBounds(t, b, n, s)
<1>t. /\ t \in TreeType /\ b \in Bounds /\ Fit(t, S, b)
      /\ n \in S /\ s \in Sides /\ c = t.child[s][n]
      /\ h \in Heights /\ w \in Nat /\ Level(t, S, h, [h EXCEPT ![n] = w])
      /\ t.balance[n] = 2 * Sign(s)
      /\ \A x \in S : x # n => t.balance[x] \in -1 .. 1
  BY DEF Tilted
<1> USE <1>t
<1>1. c # Nil
  BY HeavySide
<1>2. c \in S /\ c # n
  <2>1. Below(t, S, b, n, s, c)
    BY <1>1, ParentOf
  <2> QED
    BY <2>1 DEF Below
<1>3. t.balance[c] \in {0, Sign(s)}
  <2>1. t.balance[c] \in {-1, 0, 1}
    BY <1>2
  <2>2. Sign(s) \in {-1, 1}
    BY OtherSide
  <2> QED
    BY <2>1, <2>2
<1>4. Rotated(t, u, S, n, s)
  BY <1>1, RotateIs
<1> HIDE DEF u, d, v
<1>5. /\ u \in TreeType /\ u.count = t.count /\ Turned(t, u, S, n, s) /\ Spared(t, u, S)
      /\ u.key = t.key
      /\ \A x \in Nodes :
              u.balance[x] = IF x = c THEN IF t.balance[c] = 0 THEN -Sign(s) ELSE 0
                             ELSE IF x = n THEN IF t.balance[c] = 0 THEN Sign(s) ELSE 0
                             ELSE t.balance[x]
  BY <1>4 DEF Rotated, Turned
<1>6. Kept(t, u, S)
  BY <1>5 DEF Kept
<1>7. Topped(u, S, b, d, n, c)
  BY <1>1, <1>5, TurnedOnceFit DEF d
<1>8. PICK k : Leveled(u, S, k, c, w, v)
  BY <1>1, <1>3, <1>4, OnceLevel DEF v
<1>9. Near(u, S) /\ (u.balance[c] = 0 <=> t.balance[c] # 0)
  <2>1. Sign(s) \in {-1, 1} /\ -Sign(s) \in {-1, 1}
    BY OtherSide
  <2> QED
    BY <1>2, <1>5, <2>1 DEF Near
<1>10. Lifted(t, u, S, b, n, c, w, v, d, k)
  BY <1>6, <1>7, <1>8, <1>9 DEF Lifted
<1> QED
  BY <1>1, <1>2, <1>9, <1>10 DEF u, v

LEMMA LiftTwice ==
  ASSUME NEW t, NEW S \in SUBSET Nodes, NEW b, NEW n, NEW s, NEW c, NEW h, NEW w,
         Tilted(t, S, b, n, s, c, h, w), t.balance[c] = -Sign(s)
  PROVE  \E g, d, k : /\ Lifted(t, RotateTwice(t, n, s), S, b, n, g, w, h[n] - 1, d, k)
                      /\ g \in S /\ g # Nil
                      /\ RotateTwice(t, n, s).balance[g] = 0
                      /\ RotateTwice(t, n, s).parent[n] = g
<1> DEFINE u == RotateTwice(t, n, s)
           o == Other(s)
           g == t.child[o][c]
<1>t. /\ t \in TreeType /\ b \in Bounds /\ Fit(t, S, b)
      /\ n \in S /\ s \in Sides /\ c = t.child[s][n]
      /\ h \in Heights /\ w \in Nat /\ Level(t, S, h, [h EXCEPT ![n] = w])
      /\ t.balance[n] = 2 * Sign(s)
      /\ \A x \in S : x # n => t.balance[x] \in -1 .. 1
  BY DEF Tilted
<1> USE <1>t
<1>0. o \in Sides /\ Sign(o) = -Sign(s)
  BY OtherSide
<1>1. c # Nil /\ c \in S
  <2>1. c # Nil
    BY HeavySide
  <2>2. Below(t, S, b, n, s, c)
    BY <2>1, ParentOf
  <2> QED
    BY <2>1, <2>2 DEF Below
<1>2. g # Nil
  <2>1. t.balance[c] \in {Sign(o), 2 * Sign(o)}
    BY <1>0
  <2> HIDE DEF o
  <2> QED
    BY <1>0, <1>1, <2>1, HeavySide
<1>3. Under(t, S, n, s, c, g)
  BY <1>1, <1>2, UnderIs
<1>4. RotatedTwice(t, u, S, n, s, c, g)
  BY <1>1, <1>2, RotateTwiceIs
<1>5. g = t.child[Other(s)][c] /\ n \in Nodes /\ g \in S /\ n # g /\ n # c
  BY <1>3 DEF Under
<1> HIDE DEF u, o, g
<1>6. /\ u \in TreeType /\ u.count = t.count /\ u.key = t.key /\ Spared(t, u, S)
      /\ u.parent[n] = g /\ u.balance[g] = 0
      /\ \A x \in Nodes :
          u.balance[x] = IF x = n THEN IF t.balance[g] = Sign(s) THEN -Sign(s) ELSE 0
                         ELSE IF x = c THEN IF t.balance[g] = Sign(Other(s)) THEN Sign(s) ELSE 0
                         ELSE IF x = g THEN 0 ELSE t.balance[x]
  <2>1. c # g
    BY <1>3 DEF Under
  <2> QED
    BY <1>4, <1>5, <2>1, Zenon DEF RotatedTwice
<1>7. Kept(t, u, S)
  BY <1>6 DEF Kept
<1>8. PICK d : Topped(u, S, b, d, n, g)
  BY <1>1, <1>2, <1>4, <1>5, TurnedTwiceFit
<1>9. t.balance[g] \in -1 .. 1
  BY <1>5
<1>10. PICK k : Leveled(u, S, k, g, w, h[n] - 1)
  BY <1>1, <1>2, <1>4, <1>5, <1>9, TwiceLevel
<1>11. Near(u, S)
  <2>1. Sign(s) \in {-1, 1} /\ -Sign(s) \in {-1, 1}
    BY OtherSide
  <2> QED
    BY <1>6, <2>1 DEF Near
<1>12. Lifted(t, u, S, b, n, g, w, h[n] - 1, d, k)
  BY <1>7, <1>8, <1>10, <1>11 DEF Lifted
<1> QED
  BY <1>2, <1>5, <1>6, <1>12, Zenon DEF u

-----------------------------------------------------------------------------
(* The heights of the nodes are what their balances say, and what the nodes    *)
(* above take them for.                                                        *)
Even(t, S, h) == h \in Heights /\ Level(t, S, h, h) /\ Near(t, S)

Settled(t, S) == t \in TreeType /\ \E b \in Bounds : Fit(t, S, b) /\ \E h : Even(t, S, h)

(* The tree below n is higher by one than the nodes above know.                *)
Grown(t, S, h, n) ==
    /\ n \in S /\ h \in Heights /\ h[n] # 0 /\ Near(t, S)
    /\ Level(t, S, h, [h EXCEPT ![n] = h[n] - 1])
    /\ t.balance[n] # 0 \/ h[n] = 1

(* The loop of amtree_balance_add after k turns.                               *)
AddingAt(t, S, k, n, b, h) ==
    b \in Bounds /\ Fit(t, S, b) /\ Grown(t, S, h, n) /\ k < Cardinality(Within(t, S, b, n))

Adding(s, S, k) ==
    /\ s.tree \in TreeType
    /\ (s.node = Nil /\ Settled(s.tree, S)) \/ \E b, h : AddingAt(s.tree, S, k, s.node, b, h)

\* No node is above the one without a parent.
LEMMA TopUnseen ==
  ASSUME NEW t \in TreeType, NEW S \in SUBSET Nodes, NEW b \in Bounds, Fit(t, S, b),
         NEW n \in S, t.parent[n] = Nil, NEW h \in Heights, NEW w \in Nat,
         Level(t, S, h, [h EXCEPT ![n] = w])
  PROVE  Level(t, S, h, h)
<1> DEFINE hw == [h EXCEPT ![n] = w]
<1>1. n # Nil /\ Nil \notin S /\ h \in [Nodes \cup {Nil} -> Nat]
  BY NodesAssumption DEF Nodes, Heights
<1>2. \A x \in S, e \in Sides : t.child[e][x] # n
  BY <1>1 DEF Fit, Hung
<1>3. \A x \in S, e \in Sides : hw[t.child[e][x]] = h[t.child[e][x]]
  BY <1>1, <1>2 DEF TreeType
<1>4. \A x \in S, e \in Sides : LeansAt(t, h, hw, x, e)
  BY DEF Level
<1> HIDE DEF hw
<1> SUFFICES ASSUME NEW x \in S, NEW e \in Sides PROVE LeansAt(t, h, h, x, e)
  BY DEF Level
<1>5. Other(e) \in Sides
  BY OtherSide
<1> QED
  BY <1>3, <1>4, <1>5 DEF LeansAt

\* A store of a balance is no concern of the links.
LEMMA BalanceKept ==
  ASSUME NEW t \in TreeType, NEW S \in SUBSET Nodes, NEW b, Fit(t, S, b), NEW p \in S, NEW v,
         NEW u, BalanceStored(t, u, p, v)
  PROVE  /\ Kept(t, u, S) /\ Fit(u, S, b)
         /\ \A x : Within(u, S, b, x) = Within(t, S, b, x)
<1>1. SameLinks(t, u, S)
  BY DEF BalanceStored, SameLinks
<1>2. Fit(u, S, b)
  BY <1>1, FitSame
<1>3. Kept(t, u, S)
  BY DEF BalanceStored, Kept, Spared
<1>4. \A x : Within(u, S, b, x) = Within(t, S, b, x)
  BY DEF BalanceStored, Within
<1> QED
  BY <1>2, <1>3, <1>4

\* The tree below a node is what the nodes above take it for, again.
LEMMA LiftedSettles ==
  ASSUME NEW t, NEW u, NEW S \in SUBSET Nodes, NEW b, NEW n, NEW c, NEW w, NEW d, NEW k,
         Lifted(t, u, S, b, n, c, w, w, d, k)
  PROVE  Settled(u, S) /\ Kept(t, u, S)
<1>1. /\ Kept(t, u, S) /\ Near(u, S) /\ u \in TreeType
      /\ d \in Bounds /\ Fit(u, S, d) /\ c \in S
      /\ k \in Heights /\ k[c] = w /\ Level(u, S, k, [k EXCEPT ![c] = w])
  BY DEF Lifted, Kept, Topped, Leveled
<1>2. [k EXCEPT ![c] = w] = k
  BY <1>1 DEF Heights
<1>3. Even(u, S, k)
  BY <1>1, <1>2 DEF Even
<1> QED
  BY <1>1, <1>3 DEF Settled

\* The numbers of a parent, of which the child on side e gets higher.
HigherDone(e, w, j, v) ==
    /\ v = Lean(e, w + 1, j)
    /\ v \in {0, Sign(e), 2 * Sign(e)}
    /\ v = 0 => Tall(w + 1, j) = Tall(w, j)
    /\ v # 0 => /\ Tall(w + 1, j) # 0 /\ Tall(w + 1, j) - 1 = Tall(w, j)
                /\ (v = 2 * Sign(e) => w + 1 # 1)

LEMMA HigherNumbers ==
  ASSUME NEW e \in Sides, NEW w \in Nat, NEW j \in Nat, Lean(e, w, j) \in -1 .. 1
  PROVE  HigherDone(e, w, j, Lean(e, w, j) + Sign(e))
<1>1. CASE e = "left"
  <2>1. j - w \in -1 .. 1
    BY <1>1 DEF Lean
  <2> QED
    BY <1>1, <2>1 DEF HigherDone, Lean, Tall, Sign
<1>2. CASE e = "right"
  <2>1. w - j \in -1 .. 1
    BY <1>2 DEF Lean
  <2> QED
    BY <1>2, <2>1 DEF HigherDone, Lean, Tall, Sign
<1> QED
  BY <1>1, <1>2 DEF Sides

LEMMA HeavyIs ==
  ASSUME NEW t, NEW n, NEW e \in Sides, t.balance[n] \in {Sign(e), 2 * Sign(e)}
  PROVE  Heavy(t, n) = e
BY DEF Heavy, Sides, Sign

\* The turn of the loop, to a, for a node that is there.
AddTurn(a, t, u, n, p) ==
    /\ p = Nil => a = Visit(t, Nil)
    /\ p # Nil /\ u.balance[p] = 0 => a = Visit(u, Nil)
    /\ p # Nil /\ u.balance[p] \in {-1, 1} => a = Visit(u, p)
    /\ p # Nil /\ u.balance[p] \in {-2, 2} =>
          a = IF u.balance[n] = Sign(Heavy(u, p)) THEN Visit(Rotate(u, p, Heavy(u, p)), Nil)
                                                  ELSE Visit(RotateTwice(u, p, Heavy(u, p)), Nil)

LEMMA AddStepIs ==
  ASSUME NEW s, s.node # Nil
  PROVE  AddTurn(AddStep(s), s.tree,
                 [s.tree EXCEPT !.balance[s.tree.parent[s.node]] =
                     @ + Sign(SideOf(s.tree, s.tree.parent[s.node], s.node))],
                 s.node, s.tree.parent[s.node])
<1> DEFINE t == s.tree
           n == s.node
           p == t.parent[n]
           u == [t EXCEPT !.balance[p] = @ + Sign(SideOf(t, p, n))]
           a == AddStep(s)
<1>1. a = CASE n = Nil -> s
          [] n # Nil /\ p = Nil -> Visit(t, Nil)
          [] n # Nil /\ p # Nil /\ u.balance[p] = 0 -> Visit(u, Nil)
          [] n # Nil /\ p # Nil /\ u.balance[p] \in {-1, 1} -> Visit(u, p)
          [] n # Nil /\ p # Nil /\ u.balance[p] \in {-2, 2} ->
                IF u.balance[n] = Sign(Heavy(u, p)) THEN Visit(Rotate(u, p, Heavy(u, p)), Nil)
                                                    ELSE Visit(RotateTwice(u, p, Heavy(u, p)), Nil)
  BY DEF AddStep
<1>2. n # Nil
  OBVIOUS
<1> HIDE DEF t, n, p, u, a
<1>3. p = Nil => a = Visit(t, Nil)
  BY <1>1, <1>2
<1>4. p # Nil /\ u.balance[p] = 0 => a = Visit(u, Nil)
  BY <1>1, <1>2
<1>5. p # Nil /\ u.balance[p] \in {-1, 1} => a = Visit(u, p)
  BY <1>1, <1>2
<1>6. p # Nil /\ u.balance[p] \in {-2, 2} =>
          a = IF u.balance[n] = Sign(Heavy(u, p)) THEN Visit(Rotate(u, p, Heavy(u, p)), Nil)
                                                  ELSE Visit(RotateTwice(u, p, Heavy(u, p)), Nil)
  BY <1>1, <1>2
<1>7. AddTurn(a, t, u, n, p)
  BY <1>3, <1>4, <1>5, <1>6 DEF AddTurn
<1> QED
  BY <1>7 DEF t, n, p, u, a

LEMMA VisitIs ==
  ASSUME NEW t, NEW n
  PROVE  Visit(t, n).tree = t /\ Visit(t, n).node = n
BY DEF Visit

LEMMA AddTurnKeeps ==
  ASSUME NEW t \in TreeType, NEW S \in SUBSET Nodes, NEW k \in Nat, NEW n, NEW b, NEW h,
         AddingAt(t, S, k, n, b, h),
         NEW p, p = t.parent[n],
         NEW u, p \in S => BalanceStored(t, u, p, t.balance[p] + Sign(SideOf(t, p, n))),
         NEW a, AddTurn(a, t, u, n, p)
  PROVE  Adding(a, S, k + 1) /\ Kept(t, a.tree, S)
<1>1. /\ b \in Bounds /\ Fit(t, S, b) /\ k < Cardinality(Within(t, S, b, n))
      /\ n \in S /\ h \in Heights /\ h[n] # 0 /\ Near(t, S)
      /\ Level(t, S, h, [h EXCEPT ![n] = h[n] - 1])
      /\ (t.balance[n] # 0 \/ h[n] = 1)
  BY DEF AddingAt, Grown
<1> DEFINE w == h[n] - 1
<1>2. n \in Nodes /\ n # Nil /\ h \in [Nodes \cup {Nil} -> Nat] /\ w \in Nat /\ h[n] = w + 1
  BY <1>1, NodesAssumption DEF Nodes, Heights
<1>3. CASE p = Nil
  <2>1. Level(t, S, h, h)
    BY <1>1, <1>2, <1>3, TopUnseen
  <2>2. Settled(t, S)
    BY <1>1, <2>1 DEF Settled, Even
  <2>3. Kept(t, t, S)
    BY DEF Kept, Spared
  <2>4. a = Visit(t, Nil)
    BY <1>3, VisitIs DEF AddTurn
  <2> QED
    BY <2>2, <2>3, <2>4, VisitIs DEF Adding
<1>4. CASE p # Nil
  <2>1. p \in S /\ \E e \in Sides : Below(t, S, b, p, e, n)
    BY <1>1, <1>4, ParentBelow
  <2>2. PICK e \in Sides : Below(t, S, b, p, e, n)
    BY <2>1
  <2> DEFINE v == t.balance[p] + Sign(e)
  <2>3. SideOf(t, p, n) = e /\ p # n /\ p \in Nodes
    BY <2>1, <2>2 DEF Below
  <2>4. t.balance[p] \in -1 .. 1 /\ Sign(e) \in {-1, 1} /\ v \in Int
    BY <1>1, <2>1, OtherSide DEF Near
  <2>6. BalanceStored(t, u, p, v)
    BY <2>1, <2>3
  <2> HIDE DEF v, w
  <2>7. ASSUME NEW j \in Nat, t.balance[p] = Lean(e, w, j)
        PROVE  HigherDone(e, w, j, v)
    BY <1>2, <2>4, <2>7, HigherNumbers DEF v
  <2>8. \A j \in Nat : t.balance[p] = Lean(e, w, j) => v = Lean(e, h[n], j)
    BY <1>2, <2>7 DEF HigherDone
  <2>9. \E g, j : Climbed(t, u, S, h, g, n, p, e, w, j)
    <3>1. Level(t, S, h, [h EXCEPT ![n] = w])
      BY <1>1 DEF w
    <3> QED
      BY <1>1, <1>2, <2>1, <2>2, <2>4, <2>6, <2>8, <3>1, Climb
  <2>10. PICK g, j : Climbed(t, u, S, h, g, n, p, e, w, j)
    BY <2>9
  <2>11. /\ g \in Heights /\ j \in Nat /\ Level(u, S, g, h)
         /\ g = [h EXCEPT ![p] = Tall(w + 1, j)]
         /\ t.balance[p] = Lean(e, w, j) /\ h[p] = Tall(w, j) /\ g[p] = Tall(w + 1, j)
    BY <1>2, <2>10 DEF Climbed
  <2>12. HigherDone(e, w, j, v)
    BY <2>7, <2>11
  <2>13. /\ v \in {0, Sign(e), 2 * Sign(e)}
         /\ v = 0 => g[p] = h[p]
         /\ v # 0 => g[p] # 0 /\ g[p] - 1 = h[p]
         /\ v = 2 * Sign(e) => h[n] # 1
    <3>1. v = 2 * Sign(e) => v # 0
      BY <2>4
    <3> QED
      BY <1>2, <2>11, <2>12, <3>1 DEF HigherDone
  <2>14. /\ u \in TreeType /\ Kept(t, u, S) /\ Fit(u, S, b)
         /\ Within(u, S, b, p) = Within(t, S, b, p)
         /\ u.child = t.child
         /\ \A x \in Nodes : u.balance[x] = IF x = p THEN v ELSE t.balance[x]
    <3>1. /\ Kept(t, u, S) /\ Fit(u, S, b)
          /\ Within(u, S, b, p) = Within(t, S, b, p)
      BY <1>1, <2>1, <2>6, BalanceKept
    <3> QED
      BY <2>6, <3>1 DEF BalanceStored
  <2>15. CASE v = 0
    <3>1. g = h
      BY <1>2, <2>3, <2>11, <2>13, <2>15
    <3>2. Near(u, S)
      BY <1>1, <2>14, <2>15 DEF Near
    <3>3. Settled(u, S)
      BY <1>1, <2>11, <2>14, <3>1, <3>2 DEF Settled, Even
    <3>4. a = Visit(u, Nil)
      BY <1>4, <2>3, <2>14, <2>15, VisitIs DEF AddTurn
    <3> QED
      BY <2>14, <3>3, <3>4, VisitIs DEF Adding
  <2>16. CASE v # 0
    <3>1. h = [g EXCEPT ![p] = g[p] - 1] /\ h[p] \in Nat /\ h[p] = g[p] - 1
      BY <1>2, <2>3, <2>11, <2>13, <2>16 DEF Heights
    <3>2. Level(u, S, g, [g EXCEPT ![p] = h[p]])
      BY <2>11, <3>1
    <3>3. CASE v = Sign(e)
      <4>1. Near(u, S) /\ u.balance[p] # 0 /\ u.balance[p] \in {-1, 1}
        BY <1>1, <2>3, <2>4, <2>14, <3>3 DEF Near
      <4>2. Grown(u, S, g, p)
        BY <2>1, <2>11, <2>13, <2>16, <3>1, <3>2, <4>1 DEF Grown
      <4>3. k + 1 < Cardinality(Within(u, S, b, p))
        <5>1. Cardinality(Within(t, S, b, n)) < Cardinality(Within(t, S, b, p))
          BY <1>1, <2>1, <2>2, WithinGrows
        <5>2. Cardinality(Within(t, S, b, n)) \in Nat /\ Cardinality(Within(t, S, b, p)) \in Nat
          BY WithinSize
        <5> QED
          BY <1>1, <2>14, <5>1, <5>2
      <4>4. AddingAt(u, S, k + 1, p, b, g)
        BY <1>1, <2>14, <4>2, <4>3 DEF AddingAt
      <4>5. a = Visit(u, p)
        BY <1>4, <4>1, VisitIs DEF AddTurn
      <4> QED
        BY <2>14, <4>4, <4>5, VisitIs DEF Adding
    <3>4. CASE v = 2 * Sign(e)
      <4>1. u.balance[p] = 2 * Sign(e) /\ u.balance[p] \in {-2, 2} /\ u.balance[n] = t.balance[n]
        BY <1>2, <2>3, <2>4, <2>14, <3>4
      <4>2. Heavy(u, p) = e
        BY <4>1, HeavyIs
      <4>3. n = u.child[e][p]
        BY <2>1, <2>2, <2>14 DEF Below
      <4>4. \A x \in S : x # p => u.balance[x] \in -1 .. 1
        BY <1>1, <2>14 DEF Near
      <4>0. u \in TreeType /\ Fit(u, S, b) /\ b \in Bounds /\ p \in S /\ g \in Heights
            /\ h[p] \in Nat
        BY <1>1, <2>1, <2>11, <2>14, <3>1
      <4>8. Tilted(u, S, b, p, e, n, g, h[p])
        BY <3>2, <4>0, <4>1, <4>3, <4>4, Zenon DEF Tilted
      <4>5. u.balance[n] \in {Sign(e), -Sign(e)}
        <5>1. t.balance[n] \in {-1, 0, 1} /\ t.balance[n] # 0
          BY <1>1, <2>13, <3>4 DEF Near
        <5> QED
          BY <2>4, <4>1, <5>1
      <4>6. CASE u.balance[n] = Sign(e)
        <5>1. u.balance[n] # -Sign(e) /\ u.balance[n] # 0
          BY <2>4, <4>6
        <5>2. \E d, m : Lifted(u, Rotate(u, p, e), S, b, p, n, h[p],
                               IF u.balance[n] = 0 THEN g[p] ELSE g[p] - 1, d, m)
          BY <4>8, <5>1, LiftOnce
        <5>3. \E d, m : Lifted(u, Rotate(u, p, e), S, b, p, n, h[p], h[p], d, m)
          BY <3>1, <5>1, <5>2
        <5>4. Settled(Rotate(u, p, e), S) /\ Kept(u, Rotate(u, p, e), S)
          BY <5>3, LiftedSettles
        <5>5. Kept(t, Rotate(u, p, e), S) /\ Rotate(u, p, e) \in TreeType
          BY <2>14, <5>4, KeptTwice DEF Kept
        <5>6. a = Visit(Rotate(u, p, e), Nil)
          BY <1>4, <4>1, <4>2, <4>6, VisitIs DEF AddTurn
        <5> QED
          BY <5>4, <5>5, <5>6, VisitIs DEF Adding
      <4>7. CASE u.balance[n] = -Sign(e)
        <5>1. u.balance[n] # Sign(e)
          BY <2>4, <4>7
        <5>2. \E f, d, m : Lifted(u, RotateTwice(u, p, e), S, b, p, f, h[p], g[p] - 1, d, m)
          BY <4>8, <4>7, LiftTwice
        <5>3. \E f, d, m : Lifted(u, RotateTwice(u, p, e), S, b, p, f, h[p], h[p], d, m)
          BY <3>1, <5>2
        <5>4. Settled(RotateTwice(u, p, e), S) /\ Kept(u, RotateTwice(u, p, e), S)
          BY <5>3, LiftedSettles
        <5>5. Kept(t, RotateTwice(u, p, e), S) /\ RotateTwice(u, p, e) \in TreeType
          BY <2>14, <5>4, KeptTwice DEF Kept
        <5>6. a = Visit(RotateTwice(u, p, e), Nil)
          BY <1>4, <4>1, <4>2, <5>1, VisitIs DEF AddTurn
        <5> QED
          BY <5>4, <5>5, <5>6, VisitIs DEF Adding
      <4> QED
        BY <4>5, <4>6, <4>7
    <3> QED
      BY <2>13, <2>16, <3>3, <3>4
  <2> QED
    BY <2>15, <2>16
<1> QED
  BY <1>3, <1>4

LEMMA AddStepKeeps ==
  ASSUME NEW s, NEW S \in SUBSET Nodes, NEW k \in Nat, Adding(s, S, k)
  PROVE  Adding(AddStep(s), S, k + 1) /\ Kept(s.tree, AddStep(s).tree, S)
<1>1. CASE s.node = Nil
  <2>1. AddStep(s) = s
    BY <1>1 DEF AddStep
  <2>2. Settled(s.tree, S)
    <3>1. ASSUME NEW b, NEW h, AddingAt(s.tree, S, k, s.node, b, h) PROVE FALSE
      BY <1>1, <3>1, NodesAssumption DEF AddingAt, Grown, Nodes
    <3> QED
      BY <3>1 DEF Adding
  <2> QED
    BY <1>1, <2>1, <2>2 DEF Adding, Kept, Spared
<1>2. CASE s.node # Nil
  <2>1. PICK b, h : AddingAt(s.tree, S, k, s.node, b, h)
    BY <1>2 DEF Adding
  <2>2. s.tree \in TreeType
    BY DEF Adding
  <2> DEFINE t == s.tree
             n == s.node
             p == t.parent[n]
             u == [t EXCEPT !.balance[p] = @ + Sign(SideOf(t, p, n))]
  <2>3. AddTurn(AddStep(s), t, u, n, p)
    BY <1>2, AddStepIs
  <2>4. ASSUME p \in S PROVE BalanceStored(t, u, p, t.balance[p] + Sign(SideOf(t, p, n)))
    <3>1. t.balance[p] \in Int /\ Sign(SideOf(t, p, n)) \in Int /\ p \in Nodes
      BY <2>2, <2>4 DEF TreeType, Sign
    <3>2. t.balance[p] + Sign(SideOf(t, p, n)) \in Int
      BY <3>1
    <3>3. u = [t EXCEPT !.balance[p] = t.balance[p] + Sign(SideOf(t, p, n))]
      OBVIOUS
    <3> HIDE DEF u, p, n
    <3> QED
      BY <2>2, <3>1, <3>2, <3>3, BalanceStore
  <2>5. p = t.parent[n]
    OBVIOUS
  <2> HIDE DEF u, p
  <2> QED
    BY <2>1, <2>2, <2>3, <2>4, <2>5, AddTurnKeeps
<1> QED
  BY <1>1, <1>2

-----------------------------------------------------------------------------
(* The tree below n is what its balance says; if that is 0, it is lower by one *)
(* than the nodes above know.                                                  *)
Lowered(t, S, h, n) ==
    /\ n \in S /\ h \in Heights /\ t.balance[n] \in -2 .. 2
    /\ \A x \in S : x # n => t.balance[x] \in -1 .. 1
    /\ Level(t, S, h, [h EXCEPT ![n] = IF t.balance[n] = 0 THEN h[n] + 1 ELSE h[n]])

(* The loop of amtree_balance_del after k turns.                               *)
DeletingAt(t, S, k, n, b, h) ==
    b \in Bounds /\ Fit(t, S, b) /\ Lowered(t, S, h, n) /\ k < Cardinality(Within(t, S, b, n))

Deleting(s, S, k) ==
    /\ s.tree \in TreeType
    /\ (s.node = Nil /\ Settled(s.tree, S)) \/ \E b, h : DeletingAt(s.tree, S, k, s.node, b, h)

\* One level up.
LowerTurn(u, m) ==
    IF u.parent[m] = Nil THEN Visit(u, Nil)
    ELSE Visit([u EXCEPT !.balance[u.parent[m]] = @ - Sign(SideOf(u, u.parent[m], m))],
               u.parent[m])

DelTurn(a, t, n, heavy, c, once, twice) ==
    /\ t.balance[n] = 0 => a = LowerTurn(t, n)
    /\ t.balance[n] \in {-1, 1} => a = Visit(t, Nil)
    /\ t.balance[n] \in {-2, 2} /\ t.balance[c] # -Sign(heavy) =>
          a = IF once.balance[c] # 0 THEN Visit(once, Nil) ELSE LowerTurn(once, c)
    /\ t.balance[n] \in {-2, 2} /\ t.balance[c] = -Sign(heavy) =>
          a = LowerTurn(twice, twice.parent[n])

LEMMA DelStepIs ==
  ASSUME NEW s, s.node # Nil, NEW t, t = s.tree, NEW n, n = s.node,
         NEW heavy, heavy = Heavy(t, n), NEW c, c = t.child[heavy][n]
  PROVE  DelTurn(DelStep(s), t, n, heavy, c, Rotate(t, n, heavy), RotateTwice(t, n, heavy))
<1> DEFINE once == Rotate(t, n, heavy)
           twice == RotateTwice(t, n, heavy)
           a == DelStep(s)
<1>1. a = CASE n = Nil -> s
          [] n # Nil /\ t.balance[n] = 0 -> LowerTurn(t, n)
          [] n # Nil /\ t.balance[n] \in {-1, 1} -> Visit(t, Nil)
          [] n # Nil /\ t.balance[n] \in {-2, 2} /\ t.balance[c] # -Sign(heavy) ->
                IF once.balance[c] # 0 THEN Visit(once, Nil) ELSE LowerTurn(once, c)
          [] n # Nil /\ t.balance[n] \in {-2, 2} /\ t.balance[c] = -Sign(heavy) ->
                LowerTurn(twice, twice.parent[n])
  BY DEF DelStep, LowerTurn
<1>2. n # Nil
  OBVIOUS
<1> HIDE DEF once, twice, a
<1>3. t.balance[n] = 0 => a = LowerTurn(t, n)
  BY <1>1, <1>2
<1>4. t.balance[n] \in {-1, 1} => a = Visit(t, Nil)
  <2>1. t.balance[n] \in {-1, 1} => t.balance[n] # 0 /\ t.balance[n] \notin {-2, 2}
    OBVIOUS
  <2> QED
    BY <1>1, <1>2, <2>1, Zenon
<1>5. t.balance[n] \in {-2, 2} /\ t.balance[c] # -Sign(heavy) =>
          a = IF once.balance[c] # 0 THEN Visit(once, Nil) ELSE LowerTurn(once, c)
  <2>1. t.balance[n] \in {-2, 2} => t.balance[n] # 0 /\ t.balance[n] \notin {-1, 1}
    OBVIOUS
  <2> QED
    BY <1>1, <1>2, <2>1, Zenon
<1>6. t.balance[n] \in {-2, 2} /\ t.balance[c] = -Sign(heavy) =>
          a = LowerTurn(twice, twice.parent[n])
  BY <1>1, <1>2
<1>7. DelTurn(a, t, n, heavy, c, once, twice)
  BY <1>3, <1>4, <1>5, <1>6 DEF DelTurn
<1> QED
  BY <1>7 DEF once, twice, a

\* The numbers of a parent, of which the child on side e gets lower.
LowerDone(e, a, j, v) ==
    /\ v = Lean(e, a, j) /\ v \in -2 .. 2
    /\ Tall(a + 1, j) = IF v = 0 THEN Tall(a, j) + 1 ELSE Tall(a, j)

LEMMA LowerNumbers ==
  ASSUME NEW e \in Sides, NEW a \in Nat, NEW j \in Nat, Lean(e, a + 1, j) \in -1 .. 1
  PROVE  LowerDone(e, a, j, Lean(e, a + 1, j) - Sign(e))
<1>1. CASE e = "left"
  <2>1. j - (a + 1) \in -1 .. 1
    BY <1>1 DEF Lean
  <2> QED
    BY <1>1, <2>1 DEF LowerDone, Lean, Tall, Sign
<1>2. CASE e = "right"
  <2>1. a + 1 - j \in -1 .. 1
    BY <1>2 DEF Lean
  <2> QED
    BY <1>2, <2>1 DEF LowerDone, Lean, Tall, Sign
<1> QED
  BY <1>1, <1>2 DEF Sides

\* The tree below m got lower by one: that of its parent may have, too.
Sunk(u, S, k, m, b, h) ==
    /\ b \in Bounds /\ Fit(u, S, b) /\ m \in S /\ h \in Heights /\ Near(u, S)
    /\ Level(u, S, h, [h EXCEPT ![m] = h[m] + 1])
    /\ k < Cardinality(Within(u, S, b, m))

LEMMA SunkParent ==
  ASSUME NEW t \in TreeType, NEW S \in SUBSET Nodes, NEW k \in Nat, NEW m, NEW b, NEW h,
         Sunk(t, S, k, m, b, h), NEW p, p = t.parent[m], p # Nil,
         NEW u, BalanceStored(t, u, p, t.balance[p] - Sign(SideOf(t, p, m)))
  PROVE  Deleting(Visit(u, p), S, k + 1) /\ Kept(t, u, S)
<1>1. /\ b \in Bounds /\ Fit(t, S, b) /\ m \in S /\ h \in Heights /\ Near(t, S)
      /\ Level(t, S, h, [h EXCEPT ![m] = h[m] + 1])
      /\ k < Cardinality(Within(t, S, b, m))
  BY DEF Sunk
<1>2. h \in [Nodes \cup {Nil} -> Nat] /\ h[m] \in Nat /\ h[m] + 1 \in Nat
  BY <1>1 DEF Heights
<1>3. p \in S /\ \E e \in Sides : Below(t, S, b, p, e, m)
  BY <1>1, ParentBelow
<1>4. PICK e \in Sides : Below(t, S, b, p, e, m)
  BY <1>3
<1> DEFINE v == t.balance[p] - Sign(e)
           w == h[m] + 1
<1>5. t.balance[p] \in -1 .. 1 /\ Sign(e) \in {-1, 1} /\ v \in Int /\ p \in Nodes
  BY <1>1, <1>3, OtherSide DEF Near
<1>6. BalanceStored(t, u, p, v)
  BY <1>4 DEF Below
<1>7. ASSUME NEW j \in Nat, t.balance[p] = Lean(e, w, j)
      PROVE  LowerDone(e, h[m], j, v)
  BY <1>2, <1>5, <1>7, LowerNumbers
<1> HIDE DEF v
<1>8. \A j \in Nat : t.balance[p] = Lean(e, w, j) => v = Lean(e, h[m], j)
  BY <1>7 DEF LowerDone
<1>9. Level(t, S, h, [h EXCEPT ![m] = w]) /\ w \in Nat
  BY <1>1, <1>2
<1> HIDE DEF w
<1>10. \E g, j : Climbed(t, u, S, h, g, m, p, e, w, j)
  BY <1>1, <1>3, <1>4, <1>5, <1>6, <1>8, <1>9, Climb
<1>11. PICK g, j : Climbed(t, u, S, h, g, m, p, e, w, j)
  BY <1>10
<1>12. /\ g \in Heights /\ j \in Nat /\ Level(u, S, g, h)
       /\ g = [h EXCEPT ![p] = Tall(h[m], j)]
       /\ t.balance[p] = Lean(e, w, j) /\ h[p] = Tall(w, j) /\ g[p] = Tall(h[m], j)
  BY <1>11 DEF Climbed
<1>13. v \in -2 .. 2 /\ h[p] = IF v = 0 THEN g[p] + 1 ELSE g[p]
  <2>1. LowerDone(e, h[m], j, v)
    BY <1>7, <1>12
  <2> QED
    BY <1>12, <2>1 DEF LowerDone, w
<1>14. Kept(t, u, S) /\ Fit(u, S, b) /\ Within(u, S, b, p) = Within(t, S, b, p)
  BY <1>1, <1>3, <1>6, BalanceKept
<1>15. u \in TreeType /\ \A x \in Nodes : u.balance[x] = IF x = p THEN v ELSE t.balance[x]
  BY <1>6 DEF BalanceStored
<1>16. Lowered(u, S, g, p)
  <2>1. h = [g EXCEPT ![p] = h[p]]
    BY <1>2, <1>5, <1>12
  <2>2. u.balance[p] = v
    BY <1>5, <1>15
  <2>3. Level(u, S, g, [g EXCEPT ![p] = h[p]])
    BY <1>12, <2>1
  <2>4. Level(u, S, g, [g EXCEPT ![p] = IF u.balance[p] = 0 THEN g[p] + 1 ELSE g[p]])
    BY <1>13, <2>2, <2>3
  <2>5. \A x \in S : x # p => u.balance[x] \in -1 .. 1
    BY <1>1, <1>15 DEF Near
  <2> QED
    BY <1>3, <1>12, <1>13, <2>2, <2>4, <2>5 DEF Lowered
<1>17. k + 1 < Cardinality(Within(u, S, b, p))
  <2>1. Cardinality(Within(t, S, b, m)) < Cardinality(Within(t, S, b, p))
    BY <1>1, <1>3, <1>4, WithinGrows
  <2>2. Cardinality(Within(t, S, b, m)) \in Nat /\ Cardinality(Within(t, S, b, p)) \in Nat
    BY WithinSize
  <2> QED
    BY <1>1, <1>14, <2>1, <2>2
<1>18. DeletingAt(u, S, k + 1, p, b, g)
  BY <1>1, <1>14, <1>16, <1>17 DEF DeletingAt
<1> QED
  BY <1>14, <1>15, <1>18, VisitIs DEF Deleting

LEMMA LowerKeeps ==
  ASSUME NEW t \in TreeType, NEW S \in SUBSET Nodes, NEW k \in Nat, NEW m, NEW b, NEW h,
         Sunk(t, S, k, m, b, h)
  PROVE  Deleting(LowerTurn(t, m), S, k + 1) /\ Kept(t, LowerTurn(t, m).tree, S)
<1> DEFINE p == t.parent[m]
           v == t.balance[p] - Sign(SideOf(t, p, m))
           u == [t EXCEPT !.balance[p] = v]
<1>1. CASE p = Nil
  <2>1. LowerTurn(t, m) = Visit(t, Nil)
    BY <1>1 DEF LowerTurn
  <2>2. /\ b \in Bounds /\ Fit(t, S, b) /\ m \in S /\ h \in Heights /\ Near(t, S)
        /\ Level(t, S, h, [h EXCEPT ![m] = h[m] + 1]) /\ h[m] + 1 \in Nat
    BY DEF Sunk, Heights
  <2>3. Level(t, S, h, h)
    BY <1>1, <2>2, TopUnseen
  <2>4. Settled(t, S)
    BY <2>2, <2>3 DEF Settled, Even
  <2> QED
    BY <2>1, <2>4, VisitIs DEF Deleting, Kept, Spared
<1>2. CASE p # Nil
  <2>1. LowerTurn(t, m) = Visit(u, p)
    BY <1>2 DEF LowerTurn
  <2>2. p \in Nodes
    BY <1>2 DEF Sunk, TreeType
  <2>3. v \in Int
    BY <2>2 DEF TreeType, Sign
  <2> HIDE DEF p, v
  <2>4. BalanceStored(t, u, p, v)
    BY <2>2, <2>3, BalanceStore
  <2> HIDE DEF u
  <2>5. Deleting(Visit(u, p), S, k + 1) /\ Kept(t, u, S)
    BY <1>2, <2>4, SunkParent DEF p, v
  <2> QED
    BY <2>1, <2>5, VisitIs
<1> QED
  BY <1>1, <1>2

\* The nodes between the bounds of the top are the same.
LEMMA LiftedSinks ==
  ASSUME NEW t, NEW u, NEW S \in SUBSET Nodes, NEW k, NEW b, NEW n, NEW c, NEW w, NEW v, NEW d,
         NEW m, Lifted(t, u, S, b, n, c, w, v, d, m), w = v + 1,
         k < Cardinality(Within(t, S, b, n))
  PROVE  u \in TreeType /\ Kept(t, u, S) /\ Sunk(u, S, k, c, d, m)
<1>1. /\ Kept(t, u, S) /\ Near(u, S) /\ u \in TreeType /\ u.key = t.key
      /\ d \in Bounds /\ Fit(u, S, d) /\ c \in S /\ \A e \in Sides : d[e][c] = b[e][n]
      /\ m \in Heights /\ m[c] = v /\ Level(u, S, m, [m EXCEPT ![c] = w])
  BY DEF Lifted, Kept, Topped, Leveled
<1>2. Within(u, S, d, c) = Within(t, S, b, n)
  BY <1>1 DEF Within
<1>3. Level(u, S, m, [m EXCEPT ![c] = m[c] + 1])
  BY <1>1
<1> QED
  BY <1>1, <1>2, <1>3 DEF Sunk

LEMMA DelTurnKeeps ==
  ASSUME NEW t \in TreeType, NEW S \in SUBSET Nodes, NEW k \in Nat, NEW n, NEW b, NEW h,
         DeletingAt(t, S, k, n, b, h),
         NEW heavy, heavy = Heavy(t, n), NEW c, c = t.child[heavy][n],
         NEW a, DelTurn(a, t, n, heavy, c, Rotate(t, n, heavy), RotateTwice(t, n, heavy))
  PROVE  Deleting(a, S, k + 1) /\ Kept(t, a.tree, S)
<1> DEFINE once == Rotate(t, n, heavy)
           twice == RotateTwice(t, n, heavy)
<1>1. /\ b \in Bounds /\ Fit(t, S, b) /\ k < Cardinality(Within(t, S, b, n))
      /\ n \in S /\ h \in Heights /\ t.balance[n] \in -2 .. 2
      /\ \A x \in S : x # n => t.balance[x] \in -1 .. 1
      /\ Level(t, S, h, [h EXCEPT ![n] = IF t.balance[n] = 0 THEN h[n] + 1 ELSE h[n]])
  BY DEF DeletingAt, Lowered
<1>2. h \in [Nodes \cup {Nil} -> Nat] /\ h[n] \in Nat
  BY <1>1 DEF Heights
<1>3. CASE t.balance[n] = 0
  <2>1. Near(t, S)
    BY <1>1, <1>3 DEF Near
  <2>2. Level(t, S, h, [h EXCEPT ![n] = h[n] + 1])
    BY <1>1, <1>3
  <2>3. Sunk(t, S, k, n, b, h)
    BY <1>1, <2>1, <2>2 DEF Sunk
  <2>4. a = LowerTurn(t, n)
    BY <1>3 DEF DelTurn
  <2> QED
    BY <2>3, <2>4, LowerKeeps
<1>4. CASE t.balance[n] \in {-1, 1}
  <2>1. Near(t, S)
    BY <1>1, <1>4 DEF Near
  <2>2. [h EXCEPT ![n] = h[n]] = h /\ t.balance[n] # 0
    BY <1>2, <1>4
  <2>3. Level(t, S, h, h)
    BY <1>1, <2>2
  <2>4. Settled(t, S)
    BY <1>1, <2>1, <2>3 DEF Settled, Even
  <2>5. a = Visit(t, Nil)
    BY <1>4 DEF DelTurn
  <2> QED
    BY <2>4, <2>5, VisitIs DEF Deleting, Kept, Spared
<1>5. CASE t.balance[n] \in {-2, 2}
  <2>1. heavy \in Sides /\ t.balance[n] = 2 * Sign(heavy)
    BY <1>5 DEF Heavy, Sides, Sign
  <2>2. t.balance[n] # 0
    BY <1>5
  <2>3. Level(t, S, h, [h EXCEPT ![n] = h[n]])
    BY <1>1, <2>2
  <2>4. Tilted(t, S, b, n, heavy, c, h, h[n])
    BY <1>1, <1>2, <2>1, <2>3 DEF Tilted
  <2>5. CASE t.balance[c] # -Sign(heavy)
    <3>1. /\ once.balance[c] = 0 <=> t.balance[c] # 0
          /\ \E d, m : Lifted(t, once, S, b, n, c, h[n],
                              IF t.balance[c] = 0 THEN h[n] ELSE h[n] - 1, d, m)
      BY <2>4, <2>5, LiftOnce
    <3>2. a = IF once.balance[c] # 0 THEN Visit(once, Nil) ELSE LowerTurn(once, c)
      BY <1>5, <2>5 DEF DelTurn
    <3> HIDE DEF once
    <3>3. CASE t.balance[c] = 0
      <4>1. \E d, m : Lifted(t, once, S, b, n, c, h[n], h[n], d, m)
        BY <3>1, <3>3
      <4>2. Settled(once, S) /\ Kept(t, once, S)
        BY <4>1, LiftedSettles
      <4>3. a = Visit(once, Nil) /\ once \in TreeType
        BY <3>1, <3>2, <3>3, <4>2 DEF Kept
      <4> QED
        BY <4>2, <4>3, VisitIs DEF Deleting
    <3>4. CASE t.balance[c] # 0
      <4>1. PICK d, m : Lifted(t, once, S, b, n, c, h[n], h[n] - 1, d, m)
        BY <3>1, <3>4
      <4>2. h[n] = (h[n] - 1) + 1
        BY <1>2
      <4>3. once \in TreeType /\ Kept(t, once, S) /\ Sunk(once, S, k, c, d, m)
        BY <1>1, <4>1, <4>2, LiftedSinks
      <4>4. a = LowerTurn(once, c)
        BY <3>1, <3>2, <3>4
      <4>5. Deleting(a, S, k + 1) /\ Kept(once, a.tree, S)
        BY <4>3, <4>4, LowerKeeps
      <4> QED
        BY <4>3, <4>5, KeptTwice
    <3> QED
      BY <3>3, <3>4
  <2>6. CASE t.balance[c] = -Sign(heavy)
    <3>1. \E g, d, m : /\ Lifted(t, twice, S, b, n, g, h[n], h[n] - 1, d, m)
                       /\ twice.parent[n] = g
      BY <2>4, <2>6, LiftTwice
    <3>2. a = LowerTurn(twice, twice.parent[n])
      BY <1>5, <2>6 DEF DelTurn
    <3> HIDE DEF twice
    <3>3. PICK g, d, m : Lifted(t, twice, S, b, n, g, h[n], h[n] - 1, d, m)
                         /\ twice.parent[n] = g
      BY <3>1
    <3>4. h[n] = (h[n] - 1) + 1
      BY <1>2
    <3>5. twice \in TreeType /\ Kept(t, twice, S) /\ Sunk(twice, S, k, g, d, m)
      BY <1>1, <3>3, <3>4, LiftedSinks
    <3>6. Deleting(a, S, k + 1) /\ Kept(twice, a.tree, S)
      BY <3>2, <3>3, <3>5, LowerKeeps
    <3> QED
      BY <3>5, <3>6, KeptTwice
  <2> QED
    BY <2>5, <2>6
<1> QED
  BY <1>1, <1>3, <1>4, <1>5

LEMMA DelStepKeeps ==
  ASSUME NEW s, NEW S \in SUBSET Nodes, NEW k \in Nat, Deleting(s, S, k)
  PROVE  Deleting(DelStep(s), S, k + 1) /\ Kept(s.tree, DelStep(s).tree, S)
<1>1. CASE s.node = Nil
  <2>1. DelStep(s) = s
    BY <1>1 DEF DelStep
  <2>2. Settled(s.tree, S)
    <3>1. ASSUME NEW b, NEW h, DeletingAt(s.tree, S, k, s.node, b, h) PROVE FALSE
      BY <1>1, <3>1, NodesAssumption DEF DeletingAt, Lowered, Nodes
    <3> QED
      BY <3>1 DEF Deleting
  <2> QED
    BY <1>1, <2>1, <2>2 DEF Deleting, Kept, Spared
<1>2. CASE s.node # Nil
  <2> DEFINE t == s.tree
             n == s.node
             heavy == Heavy(t, n)
             c == t.child[heavy][n]
  <2>1. PICK b, h : DeletingAt(t, S, k, n, b, h)
    BY <1>2 DEF Deleting
  <2>2. t \in TreeType /\ t = s.tree /\ n = s.node /\ n # Nil
    BY <1>2 DEF Deleting
  <2>3. heavy = Heavy(t, n) /\ c = t.child[heavy][n]
    OBVIOUS
  <2> HIDE DEF t, n, heavy, c
  <2>4. DelTurn(DelStep(s), t, n, heavy, c, Rotate(t, n, heavy), RotateTwice(t, n, heavy))
    BY <2>2, <2>3, DelStepIs
  <2> QED
    BY <2>1, <2>2, <2>3, <2>4, DelTurnKeeps
<1> QED
  BY <1>1, <1>2

-----------------------------------------------------------------------------
LEMMA WithinItself ==
  ASSUME NEW t \in TreeType, NEW S \in SUBSET Nodes, NEW b, Fit(t, S, b), NEW n \in S
  PROVE  0 < Cardinality(Within(t, S, b, n))
<1>1. n \in Within(t, S, b, n)
  BY DEF Fit, Ordered, Within
<1>2. IsFiniteSet(Within(t, S, b, n)) /\ Cardinality(Within(t, S, b, n)) \in Nat
  BY WithinSize, NodesFinite
<1>3. Cardinality(Within(t, S, b, n)) # 0
  BY <1>1, <1>2, FS_EmptySet
<1> QED
  BY <1>2, <1>3

(* The turns of the loop of amtree_balance_add.                              *)
AddTurns(f, s, m) == f = [k \in 0 .. m |-> IF k = 0 THEN s ELSE AddStep(f[k - 1])]

LEMMA AddTurnsExist ==
  ASSUME NEW s, NEW n \in Nat
  PROVE  \E f : AddTurns(f, s, n)
<1> DEFINE N == {m \in Nat : \E f : AddTurns(f, s, m)}
<1>1. 0 \in N
  <2> DEFINE f == [k \in 0 .. 0 |-> s]
  <2>1. AddTurns(f, s, 0)
    BY DEF AddTurns
  <2> QED
    BY <2>1
<1>2. ASSUME NEW m \in N PROVE m + 1 \in N
  <2>1. PICK f : AddTurns(f, s, m)
    OBVIOUS
  <2> DEFINE g == [k \in 0 .. m + 1 |-> IF k = m + 1 THEN AddStep(f[m]) ELSE f[k]]
  <2>2. \A k \in 0 .. m + 1 : g[k] = IF k = 0 THEN s ELSE AddStep(g[k - 1])
    <3> TAKE k \in 0 .. m + 1
    <3>1. CASE k = m + 1
      <4>1. g[k] = AddStep(f[m]) /\ g[k - 1] = f[m] /\ k # 0
        BY <3>1
      <4> QED
        BY <4>1
    <3>2. CASE k # m + 1
      <4>1. k \in 0 .. m /\ g[k] = f[k]
        BY <3>2
      <4>2. k # 0 => k - 1 \in 0 .. m + 1 /\ g[k - 1] = f[k - 1]
        BY <4>1
      <4>3. f[k] = IF k = 0 THEN s ELSE AddStep(f[k - 1])
        BY <2>1, <4>1 DEF AddTurns
      <4> HIDE DEF g
      <4> QED
        BY <4>1, <4>2, <4>3
    <3> QED
      BY <3>1, <3>2
  <2>3. AddTurns(g, s, m + 1)
    <3>1. g = [k \in 0 .. m + 1 |-> g[k]]
      OBVIOUS
    <3> HIDE DEF g
    <3> QED
      BY <2>2, <3>1 DEF AddTurns
  <2> QED
    BY <2>3
<1>3. N = Nat
  BY <1>1, <1>2, NatSetInduction
<1> QED
  BY <1>3

LEMMA RepeatAdd ==
  ASSUME NEW s, NEW n \in Nat
  PROVE  \E f : /\ f[0] = s /\ \A k \in 0 .. n - 1 : f[k + 1] = AddStep(f[k])
               /\ Repeat(AddStep, s, n) = f[n]
<1> DEFINE f == CHOOSE f : AddTurns(f, s, n)
<1>1. AddTurns(f, s, n)
  BY AddTurnsExist
<1>2. Repeat(AddStep, s, n) = f[n]
  BY DEF Repeat, AddTurns
<1> HIDE DEF f
<1>3. f[0] = s
  BY <1>1 DEF AddTurns
<1>4. ASSUME NEW k \in 0 .. n - 1 PROVE f[k + 1] = AddStep(f[k])
  <2>1. k + 1 \in 0 .. n /\ k + 1 # 0 /\ (k + 1) - 1 = k
    OBVIOUS
  <2> QED
    BY <1>1, <2>1 DEF AddTurns
<1> QED
  BY <1>2, <1>3, <1>4

(* The loop of amtree_balance_add: whatever search tree it starts on, if only  *)
(* the tree below n is higher, by one, than the nodes above it know, it leaves *)
(* a search tree of the same nodes and keys in which every balance is the      *)
(* difference of the heights below and at most one off, and it is done within  *)
(* as many turns as the tree has nodes.                                        *)
THEOREM BalanceAddIs ==
  ASSUME NEW t \in TreeType, NEW S \in SUBSET Nodes, NEW b \in Bounds, Fit(t, S, b),
         NEW h, NEW n, Grown(t, S, h, n), Cardinality(S) <= t.count
  PROVE  Settled(BalanceAdd(t, n), S) /\ Kept(t, BalanceAdd(t, n), S)
<1>1. t.count \in Nat /\ n \in S
  BY DEF TreeType, Grown
<1>2. PICK f : /\ f[0] = Visit(t, n) /\ \A k \in 0 .. t.count - 1 : f[k + 1] = AddStep(f[k])
               /\ Repeat(AddStep, Visit(t, n), t.count) = f[t.count]
  BY <1>1, RepeatAdd
<1> DEFINE N == {k \in Nat : k <= t.count => Adding(f[k], S, k) /\ Kept(t, f[k].tree, S)}
<1>3. 0 \in N
  <2>1. 0 < Cardinality(Within(t, S, b, n))
    BY <1>1, WithinItself
  <2>2. AddingAt(t, S, 0, n, b, h)
    BY <2>1 DEF AddingAt
  <2>3. f[0].tree = t /\ f[0].node = n
    BY <1>2, VisitIs
  <2>4. Adding(f[0], S, 0)
    BY <2>2, <2>3 DEF Adding
  <2> QED
    BY <2>3, <2>4 DEF Kept, Spared
<1>4. ASSUME NEW k \in N PROVE k + 1 \in N
  <2> SUFFICES ASSUME k + 1 <= t.count
               PROVE  Adding(f[k + 1], S, k + 1) /\ Kept(t, f[k + 1].tree, S)
    OBVIOUS
  <2>1. k \in Nat /\ k <= t.count /\ k \in 0 .. t.count - 1
    BY <1>1
  <2>2. Adding(f[k], S, k) /\ Kept(t, f[k].tree, S) /\ f[k + 1] = AddStep(f[k])
    BY <1>2, <2>1
  <2>3. Adding(f[k + 1], S, k + 1) /\ Kept(f[k].tree, f[k + 1].tree, S)
    BY <2>1, <2>2, AddStepKeeps
  <2> QED
    BY <2>2, <2>3, KeptTwice
<1>5. t.count \in N
  <2>1. N = Nat
    <3> HIDE DEF N
    <3>1. N \in SUBSET Nat
      BY DEF N
    <3> QED
      BY <1>3, <1>4, <3>1, NatSetInduction
  <2> QED
    BY <1>1, <2>1
<1> DEFINE u == f[t.count].tree
<1>6. Adding(f[t.count], S, t.count) /\ Kept(t, u, S) /\ BalanceAdd(t, n) = u
  BY <1>1, <1>2, <1>5 DEF BalanceAdd
<1>7. Settled(u, S)
  <2> SUFFICES ASSUME NEW d, NEW g, AddingAt(u, S, t.count, f[t.count].node, d, g) PROVE FALSE
    BY <1>6 DEF Adding
  <2>1. t.count < Cardinality(Within(u, S, d, f[t.count].node))
    BY DEF AddingAt
  <2>2. /\ Cardinality(Within(u, S, d, f[t.count].node)) \in Nat
        /\ Cardinality(Within(u, S, d, f[t.count].node)) <= Cardinality(S)
    BY WithinSize
  <2>3. Cardinality(S) \in Nat
    BY NodesFinite, FS_CardinalityType
  <2> HIDE DEF u
  <2> QED
    BY <1>1, <2>1, <2>2, <2>3
<1> QED
  BY <1>6, <1>7

(* The turns of the loop of amtree_balance_del.                              *)
DelTurns(f, s, m) == f = [k \in 0 .. m |-> IF k = 0 THEN s ELSE DelStep(f[k - 1])]

LEMMA DelTurnsExist ==
  ASSUME NEW s, NEW n \in Nat
  PROVE  \E f : DelTurns(f, s, n)
<1> DEFINE N == {m \in Nat : \E f : DelTurns(f, s, m)}
<1>1. 0 \in N
  <2> DEFINE f == [k \in 0 .. 0 |-> s]
  <2>1. DelTurns(f, s, 0)
    BY DEF DelTurns
  <2> QED
    BY <2>1
<1>2. ASSUME NEW m \in N PROVE m + 1 \in N
  <2>1. PICK f : DelTurns(f, s, m)
    OBVIOUS
  <2> DEFINE g == [k \in 0 .. m + 1 |-> IF k = m + 1 THEN DelStep(f[m]) ELSE f[k]]
  <2>2. \A k \in 0 .. m + 1 : g[k] = IF k = 0 THEN s ELSE DelStep(g[k - 1])
    <3> TAKE k \in 0 .. m + 1
    <3>1. CASE k = m + 1
      <4>1. g[k] = DelStep(f[m]) /\ g[k - 1] = f[m] /\ k # 0
        BY <3>1
      <4> QED
        BY <4>1
    <3>2. CASE k # m + 1
      <4>1. k \in 0 .. m /\ g[k] = f[k]
        BY <3>2
      <4>2. k # 0 => k - 1 \in 0 .. m + 1 /\ g[k - 1] = f[k - 1]
        BY <4>1
      <4>3. f[k] = IF k = 0 THEN s ELSE DelStep(f[k - 1])
        BY <2>1, <4>1 DEF DelTurns
      <4> HIDE DEF g
      <4> QED
        BY <4>1, <4>2, <4>3
    <3> QED
      BY <3>1, <3>2
  <2>3. DelTurns(g, s, m + 1)
    <3>1. g = [k \in 0 .. m + 1 |-> g[k]]
      OBVIOUS
    <3> HIDE DEF g
    <3> QED
      BY <2>2, <3>1 DEF DelTurns
  <2> QED
    BY <2>3
<1>3. N = Nat
  BY <1>1, <1>2, NatSetInduction
<1> QED
  BY <1>3

LEMMA RepeatDel ==
  ASSUME NEW s, NEW n \in Nat
  PROVE  \E f : /\ f[0] = s /\ \A k \in 0 .. n - 1 : f[k + 1] = DelStep(f[k])
               /\ Repeat(DelStep, s, n) = f[n]
<1> DEFINE f == CHOOSE f : DelTurns(f, s, n)
<1>1. DelTurns(f, s, n)
  BY DelTurnsExist
<1>2. Repeat(DelStep, s, n) = f[n]
  BY DEF Repeat, DelTurns
<1> HIDE DEF f
<1>3. f[0] = s
  BY <1>1 DEF DelTurns
<1>4. ASSUME NEW k \in 0 .. n - 1 PROVE f[k + 1] = DelStep(f[k])
  <2>1. k + 1 \in 0 .. n /\ k + 1 # 0 /\ (k + 1) - 1 = k
    OBVIOUS
  <2> QED
    BY <1>1, <2>1 DEF DelTurns
<1> QED
  BY <1>2, <1>3, <1>4

(* The loop of amtree_balance_del does the same for a node of which only the   *)
(* tree is lower by one than the nodes above know, or whose balance is two     *)
(* off, with the rotations of a child that is even among those it may take.    *)
THEOREM BalanceDelIs ==
  ASSUME NEW t \in TreeType, NEW S \in SUBSET Nodes, NEW b \in Bounds, Fit(t, S, b),
         NEW h, NEW n, Lowered(t, S, h, n), Cardinality(S) <= t.count
  PROVE  Settled(BalanceDel(t, n), S) /\ Kept(t, BalanceDel(t, n), S)
<1>1. t.count \in Nat /\ n \in S
  BY DEF TreeType, Lowered
<1>2. PICK f : /\ f[0] = Visit(t, n) /\ \A k \in 0 .. t.count - 1 : f[k + 1] = DelStep(f[k])
               /\ Repeat(DelStep, Visit(t, n), t.count) = f[t.count]
  BY <1>1, RepeatDel
<1> DEFINE N == {k \in Nat : k <= t.count => Deleting(f[k], S, k) /\ Kept(t, f[k].tree, S)}
<1>3. 0 \in N
  <2>1. 0 < Cardinality(Within(t, S, b, n))
    BY <1>1, WithinItself
  <2>2. DeletingAt(t, S, 0, n, b, h)
    BY <2>1 DEF DeletingAt
  <2>3. f[0].tree = t /\ f[0].node = n
    BY <1>2, VisitIs
  <2>4. Deleting(f[0], S, 0)
    BY <2>2, <2>3 DEF Deleting
  <2> QED
    BY <2>3, <2>4 DEF Kept, Spared
<1>4. ASSUME NEW k \in N PROVE k + 1 \in N
  <2> SUFFICES ASSUME k + 1 <= t.count
               PROVE  Deleting(f[k + 1], S, k + 1) /\ Kept(t, f[k + 1].tree, S)
    OBVIOUS
  <2>1. k \in Nat /\ k <= t.count /\ k \in 0 .. t.count - 1
    BY <1>1
  <2>2. Deleting(f[k], S, k) /\ Kept(t, f[k].tree, S) /\ f[k + 1] = DelStep(f[k])
    BY <1>2, <2>1
  <2>3. Deleting(f[k + 1], S, k + 1) /\ Kept(f[k].tree, f[k + 1].tree, S)
    BY <2>1, <2>2, DelStepKeeps
  <2> QED
    BY <2>2, <2>3, KeptTwice
<1>5. t.count \in N
  <2>1. N = Nat
    <3> HIDE DEF N
    <3>1. N \in SUBSET Nat
      BY DEF N
    <3> QED
      BY <1>3, <1>4, <3>1, NatSetInduction
  <2> QED
    BY <1>1, <2>1
<1> DEFINE u == f[t.count].tree
<1>6. Deleting(f[t.count], S, t.count) /\ Kept(t, u, S) /\ BalanceDel(t, n) = u
  BY <1>1, <1>2, <1>5 DEF BalanceDel
<1>7. Settled(u, S)
  <2> SUFFICES ASSUME NEW d, NEW g, DeletingAt(u, S, t.count, f[t.count].node, d, g) PROVE FALSE
    BY <1>6 DEF Deleting
  <2>1. t.count < Cardinality(Within(u, S, d, f[t.count].node))
    BY DEF DeletingAt
  <2>2. /\ Cardinality(Within(u, S, d, f[t.count].node)) \in Nat
        /\ Cardinality(Within(u, S, d, f[t.count].node)) <= Cardinality(S)
    BY WithinSize
  <2>3. Cardinality(S) \in Nat
    BY NodesFinite, FS_CardinalityType
  <2> HIDE DEF u
  <2> QED
    BY <1>1, <2>1, <2>2, <2>3
<1> QED
  BY <1>6, <1>7
=============================================================================
