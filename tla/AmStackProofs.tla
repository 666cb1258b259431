---------------------------- MODULE AmStackProofs ----------------------------
(***************************************************************************)
(* Theorems of AmStack, for any finite set of threads, any set of pointers *)
(* and any capacity; and of the rounds in which its test has threads push  *)
(* and pop, which the tests of the other containers copy.  They do not     *)
(* meet: the rounds are about a container that keeps what it is given.     *)
(***************************************************************************)
EXTENDS AmStack, Basics

CONSTANTS WriteObjects, StackSize, RecordLength,
          MaxThreads, Schedule, RoundLimit  \* of the rounds

VARIABLES kind, sizes, bag, object, objlist, thr,
          signal, counts, mainAt, left      \* of the rounds

Test == INSTANCE BagTest WITH Rounds <- RoundLimit, size <- sizes

-----------------------------------------------------------------------------
(* The array stack.                                                         *)

(* Every variable keeps its type and a thread only ever indexes the array   *)
(* inside its bounds (the accesses to stk->data in amstack_push/_pop).      *)
THEOREM TypeCorrect == Spec => []TypeOK
<1>1. Init => TypeOK
  BY CapacityAssumption DEF Init, TypeOK, Slots
<1>2. TypeOK /\ [Next]_vars => TypeOK'
  <2> SUFFICES ASSUME TypeOK, [Next]_vars PROVE TypeOK'
    OBVIOUS
  <2> USE CapacityAssumption, NullAssumption DEF TypeOK, Slots, Goto, Return
  <2>1. CASE UNCHANGED vars
    BY <2>1 DEF vars
  <2>2. ASSUME NEW t \in Threads, PushCall(t) PROVE TypeOK'
    BY <2>2 DEF PushCall
  <2>3. ASSUME NEW t \in Threads, PushNull(t) PROVE TypeOK'
    BY <2>3 DEF PushNull
  <2>4. ASSUME NEW t \in Threads, PushFull(t) PROVE TypeOK'
    BY <2>4 DEF PushFull
  <2>5. ASSUME NEW t \in Threads, PushLoad(t) PROVE TypeOK'
    BY <2>5 DEF PushLoad
  <2>6. ASSUME NEW t \in Threads, PushClaim(t) PROVE TypeOK'
    BY <2>6 DEF PushClaim
  <2>7. ASSUME NEW t \in Threads, PushRetry(t) PROVE TypeOK'
    BY <2>7 DEF PushRetry
  <2>8. ASSUME NEW t \in Threads, PushStore(t) PROVE TypeOK'
    BY <2>8 DEF PushStore
  <2>9. ASSUME NEW t \in Threads, PopCall(t) PROVE TypeOK'
    BY <2>9 DEF PopCall
  <2>10. ASSUME NEW t \in Threads, PopEmpty(t) PROVE TypeOK'
    BY <2>10 DEF PopEmpty
  <2>11. ASSUME NEW t \in Threads, PopLoad(t) PROVE TypeOK'
    BY <2>11 DEF PopLoad
  <2>12. ASSUME NEW t \in Threads, PopClaim(t) PROVE TypeOK'
    BY <2>12 DEF PopClaim
  <2>13. ASSUME NEW t \in Threads, PopRetry(t) PROVE TypeOK'
    BY <2>13 DEF PopRetry
  <2>14. ASSUME NEW t \in Threads, PopRead(t) PROVE TypeOK'
    BY <2>14 DEF PopRead
  <2>15. ASSUME NEW t \in Threads, PopTake(t) PROVE TypeOK'
    BY <2>15 DEF PopTake
  <2>16. ASSUME NEW t \in Threads, PopLost(t) PROVE TypeOK'
    BY <2>16 DEF PopLost
  <2> QED
    BY <2>1, <2>2, <2>3, <2>4, <2>5, <2>6, <2>7, <2>8, <2>9, <2>10, <2>11,
       <2>12, <2>13, <2>14, <2>15, <2>16 DEF Next, Call, Step, Returns
<1> QED
  BY <1>1, <1>2, PTL DEF Spec

-----------------------------------------------------------------------------
(* Only a running push holds a pointer: with it Conservation is inductive.  *)
PushHolds == \A t \in Threads :
    obj[t] # NULL => pc[t] \in {"push", "pushClaim", "pushStore"}

(* The inductive invariant of which Conservation is a part.                 *)
LEMMA HoldingInvariant == Spec => [](PushHolds /\ Conservation)
<1> DEFINE IInv == PushHolds /\ Conservation
<1>1. Init => IInv
  BY NullAssumption DEF Init, PushHolds, Conservation, NoneLost, NoneTwice
<1>2. TypeOK /\ IInv /\ [Next]_vars => IInv'
  <2> SUFFICES ASSUME TypeOK, IInv, [Next]_vars PROVE IInv'
    OBVIOUS
  <2> USE NullAssumption DEF TypeOK, PushHolds, Conservation, NoneLost, NoneTwice, Goto, Return
  <2>1. CASE UNCHANGED vars
    BY <2>1 DEF vars
  <2>2. ASSUME NEW t \in Threads, PushCall(t) PROVE IInv'
    BY <2>2 DEF PushCall
  <2>3. ASSUME NEW t \in Threads, PushNull(t) PROVE IInv'
    BY <2>3 DEF PushNull
  <2>4. ASSUME NEW t \in Threads, PushFull(t) PROVE IInv'
    BY <2>4 DEF PushFull
  <2>5. ASSUME NEW t \in Threads, PushLoad(t) PROVE IInv'
    BY <2>5 DEF PushLoad
  <2>6. ASSUME NEW t \in Threads, PushClaim(t) PROVE IInv'
    BY <2>6 DEF PushClaim
  <2>7. ASSUME NEW t \in Threads, PushRetry(t) PROVE IInv'
    BY <2>7 DEF PushRetry
  <2>8. ASSUME NEW t \in Threads, PushStore(t) PROVE IInv'
    BY <2>8 DEF PushStore
  <2>9. ASSUME NEW t \in Threads, PopCall(t) PROVE IInv'
    BY <2>9 DEF PopCall
  <2>10. ASSUME NEW t \in Threads, PopEmpty(t) PROVE IInv'
    BY <2>10 DEF PopEmpty
  <2>11. ASSUME NEW t \in Threads, PopLoad(t) PROVE IInv'
    BY <2>11 DEF PopLoad
  <2>12. ASSUME NEW t \in Threads, PopClaim(t) PROVE IInv'
    BY <2>12 DEF PopClaim
  <2>13. ASSUME NEW t \in Threads, PopRetry(t) PROVE IInv'
    BY <2>13 DEF PopRetry
  <2>14. ASSUME NEW t \in Threads, PopRead(t) PROVE IInv'
    BY <2>14 DEF PopRead
  <2>15. ASSUME NEW t \in Threads, PopTake(t) PROVE IInv'
    BY <2>15 DEF PopTake
  <2>16. ASSUME NEW t \in Threads, PopLost(t) PROVE IInv'
    BY <2>16 DEF PopLost
  <2> QED
    BY <2>1, <2>2, <2>3, <2>4, <2>5, <2>6, <2>7, <2>8, <2>9, <2>10, <2>11,
       <2>12, <2>13, <2>14, <2>15, <2>16 DEF Next, Call, Step, Returns
<1> QED
  BY <1>1, <1>2, TypeCorrect, PTL DEF Spec

(* No pointer is lost, duplicated or overwritten, whatever the interleaving *)
(* of amstack_push and amstack_pop.                                         *)
THEOREM PointersConserved == Spec => []Conservation
BY HoldingInvariant, PTL

-----------------------------------------------------------------------------
LEMMA SlotCrowdsFinite ==
  ASSUME NEW s
  PROVE  /\ IsFiniteSet(PushersAt(s))
         /\ IsFiniteSet(PoppersAt(s))
         /\ Cardinality(PushersAt(s)) \in Nat
         /\ Cardinality(PoppersAt(s)) \in Nat
BY ThreadsAssumption, FS_Subset, FS_CardinalityType, PushersAt(s) \in SUBSET Threads,
   PoppersAt(s) \in SUBSET Threads DEF PushersAt, PoppersAt

(* At every slot the pushes that must fill it and the pointer in it balance *)
(* the pops that must empty it and the pointer stk->size says it holds      *)
(* (libam_stack.c:60 and :89 wait for each other there).                    *)
THEOREM SlotsBalanced == Spec => []SlotBalance
<1> DEFINE Balance(s) == Cardinality(PushersAt(s)) + Filled(s)
                         = Cardinality(PoppersAt(s)) + Below(s)
<1>1. Init => SlotBalance
  <2> SUFFICES ASSUME Init, NEW s \in Slots PROVE Balance(s)
    BY DEF SlotBalance
  <2>1. PushersAt(s) = {} /\ PoppersAt(s) = {}
    BY DEF Init, PushersAt, PoppersAt
  <2>2. Filled(s) = 0 /\ Below(s) = 0
    BY CapacityAssumption DEF Init, Filled, Below, Slots
  <2> QED
    BY <2>1, <2>2
<1>2. TypeOK /\ SlotBalance /\ [Next]_vars => SlotBalance'
  <2> SUFFICES ASSUME TypeOK, SlotBalance, [Next]_vars, NEW s \in Slots PROVE Balance(s)'
    BY DEF SlotBalance, Slots
  <2>0. Balance(s)
    BY DEF SlotBalance
  <2>f. /\ IsFiniteSet(PushersAt(s))
        /\ IsFiniteSet(PoppersAt(s))
        /\ Cardinality(PushersAt(s)) \in Nat
        /\ Cardinality(PoppersAt(s)) \in Nat
        /\ Filled(s) \in {0, 1} /\ Below(s) \in {0, 1}
    BY SlotCrowdsFinite DEF Filled, Below
  <2> USE CapacityAssumption, NullAssumption DEF TypeOK, Slots
  <2>1. ASSUME /\ PushersAt(s)' = PushersAt(s) /\ PoppersAt(s)' = PoppersAt(s)
               /\ Filled(s)' = Filled(s) /\ Below(s)' = Below(s)
        PROVE  Balance(s)'
    BY <2>0, <2>1
  <2>2. CASE UNCHANGED vars
    BY <2>1, <2>2 DEF vars, PushersAt, PoppersAt, Filled, Below
  <2>3. ASSUME NEW t \in Threads, PushClaim(t) PROVE Balance(s)'
    <3>1. PoppersAt(s)' = PoppersAt(s) /\ Filled(s)' = Filled(s)
      BY <2>3 DEF PushClaim, Goto, PoppersAt, Filled
    <3>2. CASE s = seen[t]
      <4>1. PushersAt(s)' = PushersAt(s) \cup {t} /\ t \notin PushersAt(s)
        BY <2>3, <3>2 DEF PushClaim, Goto, PushersAt
      <4>2. Below(s) = 0 /\ Below(s)' = 1
        BY <2>3, <3>2 DEF PushClaim, Below
      <4>3. Cardinality(PushersAt(s)') = Cardinality(PushersAt(s)) + 1
        BY <4>1, <2>f, FS_AddElement
      <4> QED
        BY <2>0, <2>f, <3>1, <4>2, <4>3
    <3>3. CASE s # seen[t]
      <4>1. PushersAt(s)' = PushersAt(s) /\ Below(s)' = Below(s)
        BY <2>3, <3>3 DEF PushClaim, Goto, PushersAt, Below
      <4> QED
        BY <2>1, <3>1, <4>1
    <3> QED
      BY <3>2, <3>3
  <2>4. ASSUME NEW t \in Threads, PushStore(t) PROVE Balance(s)'
    <3>1. PoppersAt(s)' = PoppersAt(s) /\ Below(s)' = Below(s)
      BY <2>4 DEF PushStore, Return, Goto, PoppersAt, Below
    <3>2. CASE s = seen[t]
      <4>1. PushersAt(s)' = PushersAt(s) \ {t} /\ t \in PushersAt(s)
        BY <2>4, <3>2 DEF PushStore, Return, Goto, PushersAt
      <4>2. Filled(s) = 0 /\ Filled(s)' = 1
        <5>1. obj[t] # NULL
          BY <2>4 DEF PushStore, TypeOK
        <5> QED
          BY <2>4, <3>2, <5>1 DEF PushStore, Filled
      <4>3. Cardinality(PushersAt(s)') = Cardinality(PushersAt(s)) - 1
        BY <4>1, <2>f, FS_RemoveElement
      <4> QED
        BY <2>0, <2>f, <3>1, <4>2, <4>3
    <3>3. CASE s # seen[t]
      <4>1. PushersAt(s)' = PushersAt(s) /\ Filled(s)' = Filled(s)
        BY <2>4, <3>3 DEF PushStore, Return, Goto, PushersAt, Filled
      <4> QED
        BY <2>1, <3>1, <4>1
    <3> QED
      BY <3>2, <3>3
  <2>5. ASSUME NEW t \in Threads, PopClaim(t) PROVE Balance(s)'
    <3>1. PushersAt(s)' = PushersAt(s) /\ Filled(s)' = Filled(s)
      BY <2>5 DEF PopClaim, Goto, PushersAt, Filled
    <3>2. CASE s = seen[t] - 1
      <4>1. PoppersAt(s)' = PoppersAt(s) \cup {t} /\ t \notin PoppersAt(s)
        BY <2>5, <3>2 DEF PopClaim, Goto, PoppersAt
      <4>2. Below(s) = 1 /\ Below(s)' = 0
        BY <2>5, <3>2 DEF PopClaim, Below
      <4>3. Cardinality(PoppersAt(s)') = Cardinality(PoppersAt(s)) + 1
        BY <4>1, <2>f, FS_AddElement
      <4> QED
        BY <2>0, <2>f, <3>1, <4>2, <4>3
    <3>3. CASE s # seen[t] - 1
      <4>1. PoppersAt(s)' = PoppersAt(s) /\ Below(s)' = Below(s)
        BY <2>5, <3>3 DEF PopClaim, Goto, PoppersAt, Below
      <4> QED
        BY <2>1, <3>1, <4>1
    <3> QED
      BY <3>2, <3>3
  <2>6. ASSUME NEW t \in Threads, PopTake(t) PROVE Balance(s)'
    <3>1. PushersAt(s)' = PushersAt(s) /\ Below(s)' = Below(s)
      BY <2>6 DEF PopTake, Return, Goto, PushersAt, Below
    <3>2. CASE s = seen[t]
      <4>1. PoppersAt(s)' = PoppersAt(s) \ {t} /\ t \in PoppersAt(s)
        BY <2>6, <3>2 DEF PopTake, Return, Goto, PoppersAt
      <4>2. Filled(s) = 1 /\ Filled(s)' = 0
        <5>1. ptr[t] # NULL
          BY <2>6 DEF PopTake, TypeOK
        <5> QED
          BY <2>6, <3>2, <5>1 DEF PopTake, Filled
      <4>3. Cardinality(PoppersAt(s)') = Cardinality(PoppersAt(s)) - 1
        BY <4>1, <2>f, FS_RemoveElement
      <4> QED
        BY <2>0, <2>f, <3>1, <4>2, <4>3
    <3>3. CASE s # seen[t]
      <4>1. PoppersAt(s)' = PoppersAt(s) /\ Filled(s)' = Filled(s)
        BY <2>6, <3>3 DEF PopTake, Return, Goto, PoppersAt, Filled
      <4> QED
        BY <2>1, <3>1, <4>1
    <3> QED
      BY <3>2, <3>3
  <2>7. ASSUME NEW t \in Threads,
               PushCall(t) \/ PushNull(t) \/ PushFull(t) \/ PushLoad(t) \/ PushRetry(t)
        PROVE  Balance(s)'
    BY <2>1, <2>7 DEF PushCall, PushNull, PushFull, PushLoad, PushRetry, Goto, Return,
       PushersAt, PoppersAt, Filled, Below
  <2>8. ASSUME NEW t \in Threads,
               PopCall(t) \/ PopEmpty(t) \/ PopLoad(t) \/ PopRetry(t) \/ PopRead(t) \/ PopLost(t)
        PROVE  Balance(s)'
    BY <2>1, <2>8 DEF PopCall, PopEmpty, PopLoad, PopRetry, PopRead, PopLost, Goto, Return,
       PushersAt, PoppersAt, Filled, Below
  <2> QED
    BY <2>2, <2>3, <2>4, <2>5, <2>6, <2>7, <2>8 DEF Next, Call, Step, Returns
<1> QED
  BY <1>1, <1>2, TypeCorrect, PTL DEF Spec

-----------------------------------------------------------------------------
(* The sum of SlotBalance over all slots, which the refinement needs.       *)
Pushers == {t \in Threads : pc[t] = "pushStore"}
Poppers == {t \in Threads : pc[t] \in {"popRead", "popTake"}}
FilledSlots == {s \in Slots : data[s] # NULL}
CountBalance == size + Cardinality(Poppers) = Cardinality(FilledSlots) + Cardinality(Pushers)

LEMMA CrowdsFinite ==
  /\ IsFiniteSet(Pushers) /\ Cardinality(Pushers) \in Nat
  /\ IsFiniteSet(Poppers) /\ Cardinality(Poppers) \in Nat
  /\ IsFiniteSet(FilledSlots) /\ Cardinality(FilledSlots) \in Nat
<1>1. Pushers \in SUBSET Threads /\ Poppers \in SUBSET Threads /\ FilledSlots \in SUBSET Slots
  BY DEF Pushers, Poppers, FilledSlots
<1>2. IsFiniteSet(Slots)
  BY CapacityAssumption, FS_Interval DEF Slots
<1> QED
  BY <1>1, <1>2, ThreadsAssumption, FS_Subset, FS_CardinalityType

LEMMA CountStep == ASSUME TypeOK, CountBalance, [Next]_vars PROVE CountBalance'
<1> USE CapacityAssumption, NullAssumption DEF TypeOK
<1>f. /\ IsFiniteSet(Pushers) /\ Cardinality(Pushers) \in Nat
      /\ IsFiniteSet(Poppers) /\ Cardinality(Poppers) \in Nat
      /\ IsFiniteSet(FilledSlots) /\ Cardinality(FilledSlots) \in Nat
  BY CrowdsFinite
<1>1. ASSUME /\ Pushers' = Pushers /\ Poppers' = Poppers
             /\ FilledSlots' = FilledSlots /\ size' = size
      PROVE  CountBalance'
  BY <1>1 DEF CountBalance
<1>2. CASE UNCHANGED vars
  BY <1>1, <1>2 DEF vars, Pushers, Poppers, FilledSlots
<1>3. ASSUME NEW t \in Threads, PushClaim(t) PROVE CountBalance'
  <2>1. Poppers' = Poppers /\ FilledSlots' = FilledSlots /\ size' = size + 1
    BY <1>3 DEF PushClaim, Goto, Poppers, FilledSlots
  <2>2. Pushers' = Pushers \cup {t} /\ t \notin Pushers
    BY <1>3 DEF PushClaim, Goto, Pushers
  <2>3. Cardinality(Pushers') = Cardinality(Pushers) + 1
    BY <2>2, <1>f, FS_AddElement
  <2> QED
    BY <1>f, <2>1, <2>3 DEF CountBalance
<1>4. ASSUME NEW t \in Threads, PushStore(t) PROVE CountBalance'
  <2>1. Poppers' = Poppers /\ size' = size
    BY <1>4 DEF PushStore, Return, Goto, Poppers
  <2>2. Pushers' = Pushers \ {t} /\ t \in Pushers
    BY <1>4 DEF PushStore, Return, Goto, Pushers
  <2>3. FilledSlots' = FilledSlots \cup {seen[t]} /\ seen[t] \notin FilledSlots
    BY <1>4 DEF PushStore, FilledSlots
  <2>4. Cardinality(Pushers') = Cardinality(Pushers) - 1
    BY <2>2, <1>f, FS_RemoveElement
  <2>5. Cardinality(FilledSlots') = Cardinality(FilledSlots) + 1
    BY <2>3, <1>f, FS_AddElement
  <2> QED
    BY <1>f, <2>1, <2>4, <2>5 DEF CountBalance
<1>5. ASSUME NEW t \in Threads, PopClaim(t) PROVE CountBalance'
  <2>1. Pushers' = Pushers /\ FilledSlots' = FilledSlots /\ size' = size - 1
    BY <1>5 DEF PopClaim, Goto, Pushers, FilledSlots
  <2>2. Poppers' = Poppers \cup {t} /\ t \notin Poppers
    BY <1>5 DEF PopClaim, Goto, Poppers
  <2>3. Cardinality(Poppers') = Cardinality(Poppers) + 1
    BY <2>2, <1>f, FS_AddElement
  <2> QED
    BY <1>f, <2>1, <2>3 DEF CountBalance
<1>6. ASSUME NEW t \in Threads, PopTake(t) PROVE CountBalance'
  <2>1. Pushers' = Pushers /\ size' = size
    BY <1>6 DEF PopTake, Return, Goto, Pushers
  <2>2. Poppers' = Poppers \ {t} /\ t \in Poppers
    BY <1>6 DEF PopTake, Return, Goto, Poppers
  <2>3. FilledSlots' = FilledSlots \ {seen[t]} /\ seen[t] \in FilledSlots
    BY <1>6 DEF PopTake, FilledSlots
  <2>4. Cardinality(Poppers') = Cardinality(Poppers) - 1
    BY <2>2, <1>f, FS_RemoveElement
  <2>5. Cardinality(FilledSlots') = Cardinality(FilledSlots) - 1
    BY <2>3, <1>f, FS_RemoveElement
  <2> QED
    BY <1>f, <2>1, <2>4, <2>5 DEF CountBalance
<1>7. ASSUME NEW t \in Threads,
             PushCall(t) \/ PushNull(t) \/ PushFull(t) \/ PushLoad(t) \/ PushRetry(t)
      PROVE  CountBalance'
  BY <1>1, <1>7 DEF PushCall, PushNull, PushFull, PushLoad, PushRetry, Goto, Return,
     Pushers, Poppers, FilledSlots
<1>8. ASSUME NEW t \in Threads,
             PopCall(t) \/ PopEmpty(t) \/ PopLoad(t) \/ PopRetry(t) \/ PopRead(t) \/ PopLost(t)
      PROVE  CountBalance'
  BY <1>1, <1>8 DEF PopCall, PopEmpty, PopLoad, PopRetry, PopRead, PopLost, Goto, Return,
     Pushers, Poppers, FilledSlots
<1> QED
  BY <1>2, <1>3, <1>4, <1>5, <1>6, <1>7, <1>8 DEF Next, Call, Step, Returns

LEMMA InitCount == Init => CountBalance
<1> SUFFICES ASSUME Init PROVE CountBalance
  OBVIOUS
<1>1. Pushers = {} /\ Poppers = {} /\ FilledSlots = {}
  BY DEF Init, Pushers, Poppers, FilledSlots
<1> QED
  BY <1>1, FS_EmptySet DEF Init, CountBalance

-----------------------------------------------------------------------------
(* The pointers of the abstract container are as many as the filled slots.  *)
LEMMA InSlotsSize ==
  ASSUME TypeOK, Conservation
  PROVE  IsFiniteSet(InSlots) /\ Cardinality(InSlots) = Cardinality(FilledSlots)
<1> DEFINE f == [s \in FilledSlots |-> data[s]]
<1>1. f \in Bijection(FilledSlots, InSlots)
  <2>1. f \in [FilledSlots -> InSlots]
    BY DEF FilledSlots, InSlots
  <2>2. \A a, b \in FilledSlots : f[a] = f[b] => a = b
    BY DEF FilledSlots, TypeOK, Conservation, NoneTwice
  <2>3. \A o \in InSlots : \E s \in FilledSlots : f[s] = o
    BY DEF FilledSlots, InSlots
  <2> QED
    BY <2>1, <2>2, <2>3 DEF Bijection, Injection, Surjection, IsInjective
<1> QED
  BY <1>1, CrowdsFinite, FS_Bijection DEF ExistsBijection

LEMMA RoomToStore ==
  ASSUME TypeOK, NEW t \in Threads, PushStore(t)
  PROVE  Cardinality(FilledSlots) < Capacity
<1>1. FilledSlots \in SUBSET Slots /\ FilledSlots # Slots
  BY DEF PushStore, FilledSlots, TypeOK
<1>2. IsFiniteSet(Slots) /\ Cardinality(Slots) = Capacity
  BY CapacityAssumption, FS_Interval DEF Slots
<1>3. Cardinality(FilledSlots) <= Cardinality(Slots)
      /\ Cardinality(FilledSlots) # Cardinality(Slots)
  BY <1>1, <1>2, FS_Subset
<1> QED
  BY <1>2, <1>3, CrowdsFinite, CapacityAssumption

\* The abstract operations a thread is running, seen from the concrete state.
Inside(act) == {t \in Threads : OpOf(t) = act}

LEMMA InsideFinite ==
  ASSUME NEW act, NEW t
  PROVE  /\ IsFiniteSet(Inside(act) \ {t})
         /\ Cardinality(Inside(act) \ {t}) \in Nat
<1>1. Inside(act) \ {t} \in SUBSET Threads
  BY DEF Inside
<1> QED
  BY <1>1, ThreadsAssumption, FS_Subset, FS_CardinalityType

LEMMA FullIsHonest ==
  ASSUME TypeOK, Conservation, CountBalance, NEW t \in Threads, PushFull(t)
  PROVE  Cardinality(InSlots) + Cardinality(Inside("push") \ {t}) >= Capacity
<1>1. Pushers \in SUBSET (Inside("push") \ {t})
  BY DEF PushFull, Pushers, Inside, OpOf
<1>2. Cardinality(Pushers) <= Cardinality(Inside("push") \ {t})
  BY <1>1, InsideFinite, FS_Subset
<1>3. size \in Nat /\ size >= Capacity
  BY CapacityAssumption DEF TypeOK, PushFull
<1>4. Cardinality(InSlots) = size + Cardinality(Poppers) - Cardinality(Pushers)
  BY <1>3, CrowdsFinite, InSlotsSize DEF CountBalance
<1>5. /\ Cardinality(Pushers) \in Nat /\ Cardinality(Poppers) \in Nat
      /\ Cardinality(Inside("push") \ {t}) \in Nat
  BY InsideFinite, CrowdsFinite
<1> QED
  BY <1>2, <1>3, <1>4, <1>5, CapacityAssumption

LEMMA EmptyIsHonest ==
  ASSUME TypeOK, Conservation, CountBalance, NEW t \in Threads, PopEmpty(t)
  PROVE  Cardinality(InSlots) <= Cardinality(Inside("pop") \ {t})
<1>1. Poppers \in SUBSET (Inside("pop") \ {t})
  BY DEF PopEmpty, Poppers, Inside, OpOf
<1>2. Cardinality(Poppers) <= Cardinality(Inside("pop") \ {t})
  BY <1>1, InsideFinite, FS_Subset
<1>3. size = 0
  BY DEF PopEmpty
<1> QED
  BY <1>2, <1>3, InsideFinite, CrowdsFinite, InSlotsSize DEF CountBalance

\* The module AmBag brings its own copy of FiniteSets.
LEMMA SameCardinality == \A S : Bag!Cardinality(S) = Cardinality(S)
BY DEF Bag!Cardinality, Cardinality

(* The stack implements the bounded container of AmBag: a push is      *)
(* refused only when stored and incoming pointers fill the array, and a pop *)
(* reports empty only when running pops account for every stored pointer.   *)
THEOREM Refinement == Spec => ImplementsBag
<1> DEFINE opOf == [t \in Threads |-> OpOf(t)]
<1> USE NullAssumption
<1>1. Init => Bag!Init
  BY DEF Init, Bag!Init, InSlots, OpOf
<1>2. /\ TypeOK /\ PushHolds /\ Conservation /\ CountBalance
      /\ [Next]_vars
      => [Bag!Next]_(Bag!vars)
  <2> SUFFICES ASSUME TypeOK, PushHolds, Conservation, CountBalance, [Next]_vars
               PROVE  [Bag!Next]_(Bag!vars)
    OBVIOUS
  <2>1. CASE UNCHANGED vars
    BY <2>1 DEF vars, Bag!vars, InSlots, OpOf
  <2>2. ASSUME NEW t \in Threads, PushCall(t) PROVE Bag!BeginPush(t)
    <3>0. pc[t] = "idle" /\ pc' = [pc EXCEPT ![t] = "push"]
      BY <2>2 DEF PushCall, Goto
    <3>1. opOf' = [opOf EXCEPT ![t] = "push"] /\ opOf[t] = "none"
      <4>1. pc'[t] = "push" /\ \A u \in Threads \ {t} : pc'[u] = pc[u]
        BY <3>0 DEF TypeOK
      <4>2. opOf'[t] = "push" /\ \A u \in Threads \ {t} : opOf'[u] = opOf[u]
        BY <4>1 DEF OpOf
      <4> QED
        BY <3>0, <4>2 DEF OpOf
    <3>2. InSlots' = InSlots
      BY <2>2 DEF PushCall, InSlots
    <3> QED
      BY <2>2, <3>1, <3>2 DEF PushCall, Bag!BeginPush
  <2>3. ASSUME NEW t \in Threads, PushNull(t) PROVE Bag!FailPush(t)
    <3>1. opOf' = [opOf EXCEPT ![t] = "none"] /\ opOf[t] = "push"
      BY <2>3 DEF PushNull, Return, Goto, OpOf, TypeOK
    <3>2. InSlots' = InSlots
      BY <2>3 DEF PushNull, InSlots
    <3> QED
      BY <2>3, <3>1, <3>2 DEF PushNull, Return, Bag!FailPush
  <2>4. ASSUME NEW t \in Threads, PushFull(t) PROVE Bag!FailPush(t)
    <3>1. opOf' = [opOf EXCEPT ![t] = "none"] /\ opOf[t] = "push"
      BY <2>4 DEF PushFull, Return, Goto, OpOf, TypeOK
    <3>2. InSlots' = InSlots
      BY <2>4 DEF PushFull, InSlots
    <3>3. Bag!Running("push") = Inside("push")
      BY DEF Bag!Running, Inside
    <3>4. Cardinality(InSlots) + Cardinality(Bag!Running("push") \ {t}) >= Capacity
      BY <2>4, <3>3, FullIsHonest
    <3> QED
      BY <2>4, <3>1, <3>2, <3>4, SameCardinality DEF PushFull, Return, Bag!FailPush
  <2>5. ASSUME NEW t \in Threads, PushStore(t) PROVE Bag!CommitPush(t)
    <3>1. opOf' = [opOf EXCEPT ![t] = "none"] /\ opOf[t] = "push"
      BY <2>5 DEF PushStore, Return, Goto, OpOf, TypeOK
    <3>2. obj[t] # NULL
      BY <2>5 DEF PushStore, TypeOK
    <3>3. InSlots' = InSlots \cup {obj[t]}
      BY <2>5, <3>2 DEF PushStore, InSlots, TypeOK
    <3>4. Cardinality(InSlots) < Capacity
      BY <2>5, RoomToStore, InSlotsSize
    <3> QED
      BY <2>5, <3>1, <3>2, <3>3, <3>4, SameCardinality DEF PushStore, Return, Bag!CommitPush
  <2>6. ASSUME NEW t \in Threads, PopCall(t) PROVE Bag!BeginPop(t)
    <3>1. opOf' = [opOf EXCEPT ![t] = "pop"] /\ opOf[t] = "none"
      BY <2>6 DEF PopCall, Goto, OpOf, TypeOK
    <3>2. InSlots' = InSlots
      BY <2>6 DEF PopCall, InSlots
    <3> QED
      BY <2>6, <3>1, <3>2 DEF PopCall, Bag!BeginPop
  <2>7. ASSUME NEW t \in Threads, PopEmpty(t) PROVE Bag!FailPop(t)
    <3>1. opOf' = [opOf EXCEPT ![t] = "none"] /\ opOf[t] = "pop"
      BY <2>7 DEF PopEmpty, Return, Goto, OpOf, TypeOK
    <3>2. InSlots' = InSlots /\ obj' = obj
      BY <2>7 DEF PopEmpty, Return, InSlots, TypeOK, PushHolds
    <3>3. Bag!Running("pop") = Inside("pop")
      BY DEF Bag!Running, Inside
    <3>4. Cardinality(InSlots) <= Cardinality(Bag!Running("pop") \ {t})
      BY <2>7, <3>3, EmptyIsHonest
    <3> QED
      BY <2>7, <3>1, <3>2, <3>4, SameCardinality DEF PopEmpty, Bag!FailPop
  <2>8. ASSUME NEW t \in Threads, PopTake(t) PROVE Bag!CommitPop(t)
    <3>1. opOf' = [opOf EXCEPT ![t] = "none"] /\ opOf[t] = "pop"
      BY <2>8 DEF PopTake, Return, Goto, OpOf, TypeOK
    <3>2. obj' = obj
      BY <2>8 DEF PopTake, Return, TypeOK, PushHolds
    <3>3. ptr[t] \in InSlots
      BY <2>8 DEF PopTake, InSlots, TypeOK
    <3>4. InSlots' = InSlots \ {ptr[t]}
      BY <2>8 DEF PopTake, InSlots, TypeOK, Conservation, NoneTwice
    <3> QED
      BY <2>8, <3>1, <3>2, <3>3, <3>4 DEF PopTake, Bag!CommitPop
  <2>9. ASSUME NEW t \in Threads,
               \/ PushLoad(t) \/ PushClaim(t) \/ PushRetry(t)
               \/ PopLoad(t) \/ PopClaim(t) \/ PopRetry(t)
               \/ PopRead(t) \/ PopLost(t)
        PROVE  UNCHANGED Bag!vars
    <3>1. opOf' = opOf
      BY <2>9 DEF PushLoad, PushClaim, PushRetry, PopLoad, PopClaim, PopRetry, PopRead,
         PopLost, Goto, OpOf, TypeOK
    <3>2. InSlots' = InSlots
      BY <2>9 DEF PushLoad, PushClaim, PushRetry, PopLoad, PopClaim, PopRetry, PopRead,
         PopLost, InSlots
    <3> QED
      BY <2>9, <3>1, <3>2 DEF PushLoad, PushClaim, PushRetry, PopLoad, PopClaim, PopRetry,
         PopRead, PopLost, Bag!vars
  <2> QED
    BY <2>1, <2>2, <2>3, <2>4, <2>5, <2>6, <2>7, <2>8, <2>9
       DEF Next, Call, Step, Returns, Bag!Next
<1>3. Spec => []CountBalance
  BY InitCount, CountStep, TypeCorrect, PTL DEF Spec
<1> QED
  BY <1>1, <1>2, <1>3, TypeCorrect, HoldingInvariant, PTL DEF Spec, ImplementsBag, Bag!Spec

-----------------------------------------------------------------------------
(* The rounds of the container tests.  The slices of a list of n threads.    *)
SliceStart(k, n) == (k - 1) * (WriteObjects \div n)
SliceSize(k, n) ==
    IF k < n THEN WriteObjects \div n ELSE WriteObjects - (WriteObjects \div n) * (n - 1)

LEMMA Shares ==
  ASSUME NEW N \in Nat, NEW n \in Nat \ {0}
  PROVE  N \div n \in Nat /\ (N \div n) * n <= N /\ N < (N \div n) * (n + 1) + n
OBVIOUS

LEMMA Multiples ==
  ASSUME NEW p \in Nat, NEW a \in Nat, NEW b \in Nat, a <= b
  PROVE  a * p \in Nat /\ b * p \in Nat /\ a * p <= b * p
OBVIOUS

LEMMA OneMore ==
  ASSUME NEW p \in Nat, NEW k \in Int
  PROVE  (k - 1) * p + p = k * p /\ p * (k - 1) = (k - 1) * p
OBVIOUS

LEMMA SliceIn ==
  ASSUME WriteObjects \in Nat, NEW n \in Nat \ {0}, NEW k \in 1 .. n
  PROVE  /\ SliceSize(k, n) \in Nat /\ SliceStart(k, n) \in Nat
         /\ \A j \in 1 .. SliceSize(k, n) : SliceStart(k, n) + j \in 1 .. WriteObjects
<1> DEFINE p == WriteObjects \div n
<1>1. p \in Nat /\ p * n <= WriteObjects
  BY Shares
<1> HIDE DEF p
<1>2. (n - 1) * p + p = n * p /\ p * (n - 1) = (n - 1) * p /\ n * p = p * n
  BY <1>1, OneMore
<1>3. /\ (k - 1) * p \in Nat /\ (n - 1) * p \in Nat /\ (k - 1) * p <= (n - 1) * p
  BY <1>1, Multiples, k - 1 \in Nat, n - 1 \in Nat, k - 1 <= n - 1
<1>4. CASE k < n
  <2>1. k * p <= (n - 1) * p /\ (k - 1) * p + p = k * p /\ k * p \in Nat
    BY <1>1, <1>4, Multiples, OneMore, k \in Nat, n - 1 \in Nat, k <= n - 1
  <2> QED
    BY <1>1, <1>2, <1>3, <1>4, <2>1 DEF SliceStart, SliceSize, p
<1>5. CASE k = n
  BY <1>1, <1>2, <1>3, <1>5 DEF SliceStart, SliceSize, p
<1> QED
  BY <1>4, <1>5

LEMMA SliceApart ==
  ASSUME WriteObjects \in Nat, NEW n \in Nat \ {0}, NEW k \in 1 .. n, NEW m \in 1 .. n,
         NEW i \in 1 .. SliceSize(k, n), NEW j \in 1 .. SliceSize(m, n), k # m
  PROVE  SliceStart(k, n) + i # SliceStart(m, n) + j
<1> SUFFICES ASSUME NEW a \in 1 .. n, NEW b \in 1 .. n, a < b, NEW x \in 1 .. SliceSize(a, n),
                    NEW y \in 1 .. SliceSize(b, n)
             PROVE  SliceStart(a, n) + x < SliceStart(b, n) + y
  <2>1. SliceStart(k, n) \in Nat /\ SliceStart(m, n) \in Nat /\ i \in Int /\ j \in Int
    BY SliceIn
  <2> QED
    BY <2>1, k < m \/ m < k
<1> DEFINE p == WriteObjects \div n
<1>1. p \in Nat
  BY Shares
<1>2. SliceSize(a, n) = p /\ SliceStart(a, n) = (a - 1) * p /\ SliceStart(b, n) = (b - 1) * p
  BY DEF SliceSize, SliceStart
<1> HIDE DEF p
<1>3. a * p <= (b - 1) * p /\ (a - 1) * p + p = a * p
  BY <1>1, Multiples, OneMore, a \in Nat, b - 1 \in Nat, a <= b - 1
<1>4. (a - 1) * p \in Nat /\ (b - 1) * p \in Nat
  BY <1>1, Multiples, a - 1 \in Nat, b - 1 \in Nat
<1>5. x <= p /\ y >= 1 /\ x \in Int /\ y \in Int
  BY <1>1, <1>2, SliceIn
<1> QED
  BY <1>1, <1>2, <1>3, <1>4, <1>5

LEMMA SliceCovers ==
  ASSUME WriteObjects \in Nat, NEW n \in Nat \ {0}, NEW i \in 1 .. WriteObjects
  PROVE  \E k \in 1 .. n : \E j \in 1 .. SliceSize(k, n) : SliceStart(k, n) + j = i
<1> DEFINE p == WriteObjects \div n
<1>1. p \in Nat /\ p * n <= WriteObjects
  BY Shares
<1> HIDE DEF p
<1>2. (n - 1) * p + p = n * p /\ p * (n - 1) = (n - 1) * p /\ n * p = p * n /\ (n - 1) * p \in Nat
  BY <1>1, OneMore, Multiples, n - 1 \in Nat
<1>3. CASE i > (n - 1) * p
  <2>1. n \in 1 .. n /\ i - (n - 1) * p \in 1 .. (WriteObjects - (n - 1) * p)
    BY <1>1, <1>2, <1>3
  <2>2. SliceStart(n, n) = (n - 1) * p /\ SliceSize(n, n) = WriteObjects - (n - 1) * p
    BY <1>2 DEF SliceStart, SliceSize, p
  <2>3. SliceStart(n, n) + (i - (n - 1) * p) = i
    BY <2>2, <1>2
  <2> QED
    BY <2>1, <2>2, <2>3
<1>4. CASE i <= (n - 1) * p
  <2>1. p # 0
    BY <1>1, <1>4
  <2>2. PICK q \in Int : i - 1 = p * q + ((i - 1) % p)
    BY <1>1, <2>1, Quotient, i - 1 \in Int
  <2>3. (i - 1) % p \in 0 .. p - 1
    BY <1>1, <2>1, Quotient, i - 1 \in Int
  <2> DEFINE r == (i - 1) % p
  <2> HIDE DEF r
  <2>4. i - 1 = p * q + r /\ r \in 0 .. p - 1
    BY <2>2, <2>3 DEF r
  <2>5. q >= 0
    <3> SUFFICES ASSUME q <= -1 PROVE FALSE
      OBVIOUS
    <3>1. p * q <= -p
      BY <1>1
    <3> QED
      BY <1>1, <2>4, <3>1
  <2>6. q < n - 1
    <3> SUFFICES ASSUME n - 1 <= q PROVE FALSE
      OBVIOUS
    <3>1. (n - 1) * p <= q * p /\ q * p = p * q /\ q * p \in Nat
      BY <1>1, <2>5, Multiples, n - 1 \in Nat, q \in Nat
    <3> QED
      BY <1>4, <2>4, <3>1, <1>2
  <2>7. q + 1 \in 1 .. n /\ q + 1 < n /\ r + 1 \in 1 .. p
    BY <1>1, <2>4, <2>5, <2>6
  <2>8. SliceStart(q + 1, n) = q * p /\ SliceSize(q + 1, n) = p
    <3>1. (q + 1) - 1 = q
      OBVIOUS
    <3> QED
      BY <2>7, <3>1 DEF SliceStart, SliceSize, p
  <2>9. q * p + (r + 1) = i
    BY <1>1, <2>4
  <2> QED
    BY <2>7, <2>8, <2>9
<1> QED
  BY <1>2, <1>3, <1>4

-----------------------------------------------------------------------------
(* The marks in the ring an object carries.                                  *)
Positions == 0 .. RecordLength - 1
WithMark(x, l) == [x EXCEPT !.record[x.index] = l]
Notes == [object_id : Nat, index : Positions, record : [Positions -> {NULL, "R", "W", "M"}]]

Unmarked(x) == x.index = 0 /\ x.record = [i \in Positions |-> NULL]

\* Marks before the reader's: the writer's is at 0 until the meddlers' fill the ring.
Written(x) ==
    /\ \A i \in Positions : x.record[i] # "R" /\ (i # 0 => x.record[i] # "W")
    /\ \/ /\ x.record[0] = "W"
          /\ \A i \in 1 .. (IF x.index = 0 THEN RecordLength ELSE x.index) - 1 : x.record[i] = "M"
       \/ \A i \in Positions : x.record[i] = "M"

ReadOnce(x) ==
    /\ \E j \in Positions : \A i \in Positions : x.record[i] = "R" <=> i = j
    /\ \A i \in Positions \ {0} : x.record[i] # "W"
    /\ x.record[0] = "W" \/ \A i \in Positions : x.record[i] \in {"R", "M"}

Advanced(x) == (x.index + 1) % RecordLength

LEMMA AdvancedIs ==
  ASSUME RecordLength \in Nat \ {0}, NEW i \in Positions
  PROVE  (i + 1) % RecordLength = IF i = RecordLength - 1 THEN 0 ELSE i + 1
<1>1. CASE i = RecordLength - 1
  BY <1>1 DEF Positions
<1>2. CASE i # RecordLength - 1
  <2>1. i + 1 \in 0 .. RecordLength - 1
    BY <1>2 DEF Positions
  <2> QED
    BY <1>2, <2>1
<1> QED
  BY <1>1, <1>2

LEMMA MarkedIs ==
  ASSUME NEW x \in Notes, NEW l \in {"R", "W", "M"}, RecordLength \in Nat \ {0}
  PROVE  LET y == WithMark(x, l)
             z == [y EXCEPT !.index = Advanced(x)]
         IN  /\ y \in Notes /\ z \in Notes
             /\ y.index = x.index /\ z.index = Advanced(x)
             /\ y.record = [x.record EXCEPT ![x.index] = l] /\ z.record = y.record
<1>1. Advanced(x) \in Positions
  BY AdvancedIs DEF Advanced, Positions, Notes
<1> QED
  BY <1>1 DEF Notes, WithMark

LEMMA WriterMarks ==
  ASSUME NEW x \in Notes, NEW z \in Notes, RecordLength \in Nat \ {0}, Unmarked(x),
         NULL \notin {"R", "W", "M"},
         z.index = Advanced(x), z.record = [x.record EXCEPT ![x.index] = "W"]
  PROVE  Written(z)
<1>1. z.record = [i \in Positions |-> IF i = 0 THEN "W" ELSE NULL]
  BY DEF Unmarked, Notes, Positions
<1>2. z.index = IF RecordLength = 1 THEN 0 ELSE 1
  BY AdvancedIs DEF Unmarked, Advanced, Positions
<1> QED
  BY <1>1, <1>2 DEF Written, Positions

LEMMA MeddlerMarks ==
  ASSUME NEW x \in Notes, NEW z \in Notes, RecordLength \in Nat \ {0}, Written(x),
         z.index = Advanced(x), z.record = [x.record EXCEPT ![x.index] = "M"]
  PROVE  Written(z)
<1>1. x.index \in Positions /\ x.record \in [Positions -> {NULL, "R", "W", "M"}]
  BY DEF Notes
<1>2. \A i \in Positions : z.record[i] = IF i = x.index THEN "M" ELSE x.record[i]
  BY <1>1
<1>3. \A i \in Positions : z.record[i] # "R" /\ (i # 0 => z.record[i] # "W")
  BY <1>2 DEF Written
<1>4. CASE \A i \in Positions : x.record[i] = "M"
  BY <1>2, <1>3, <1>4 DEF Written
<1>5. CASE /\ x.record[0] = "W"
           /\ \A i \in 1 .. (IF x.index = 0 THEN RecordLength ELSE x.index) - 1 :
                 x.record[i] = "M"
  <2>1. CASE x.index = 0
    <3>1. \A i \in Positions : z.record[i] = "M"
      BY <1>2, <1>5, <2>1 DEF Positions
    <3> QED
      BY <1>3, <3>1 DEF Written
  <2>2. CASE x.index # 0
    <3>1. z.index = IF x.index = RecordLength - 1 THEN 0 ELSE x.index + 1
      BY <1>1, AdvancedIs DEF Advanced
    <3>2. \A i \in 1 .. x.index : z.record[i] = "M"
      BY <1>1, <1>2, <1>5, <2>2 DEF Positions
    <3>3. (IF z.index = 0 THEN RecordLength ELSE z.index) - 1 = x.index
      BY <1>1, <3>1, <2>2 DEF Positions
    <3>4. z.record[0] = "W"
      BY <1>1, <1>2, <1>5, <2>2 DEF Positions
    <3> QED
      BY <1>3, <3>2, <3>3, <3>4 DEF Written
  <2> QED
    BY <2>1, <2>2
<1> QED
  BY <1>4, <1>5 DEF Written

LEMMA ReaderMarks ==
  ASSUME NEW x \in Notes, NEW y \in Notes, RecordLength \in Nat \ {0}, Written(x),
         y.record = [x.record EXCEPT ![x.index] = "R"]
  PROVE  ReadOnce(y)
<1>1. x.index \in Positions /\ x.record \in [Positions -> {NULL, "R", "W", "M"}]
  BY DEF Notes
<1>2. \A i \in Positions : y.record[i] = IF i = x.index THEN "R" ELSE x.record[i]
  BY <1>1
<1>3. \A i \in Positions : y.record[i] = "R" <=> i = x.index
  BY <1>2 DEF Written
<1>4. \A i \in Positions \ {0} : y.record[i] # "W"
  BY <1>2 DEF Written
<1>5. CASE \A i \in Positions : x.record[i] = "M"
  BY <1>1, <1>2, <1>3, <1>4, <1>5 DEF ReadOnce
<1>6. CASE /\ x.record[0] = "W"
           /\ \A i \in 1 .. (IF x.index = 0 THEN RecordLength ELSE x.index) - 1 :
                 x.record[i] = "M"
  <2>1. y.record[0] = "W" \/ \A i \in Positions : y.record[i] \in {"R", "M"}
    BY <1>1, <1>2, <1>6 DEF Positions
  <2> QED
    BY <1>1, <1>3, <1>4, <2>1 DEF ReadOnce
<1> QED
  BY <1>5, <1>6 DEF Written

\* What validate() and print_all_objects() count.
LEMMA MarksCounted ==
  ASSUME NEW x \in Notes, RecordLength \in Nat \ {0}, ReadOnce(x)
  PROVE  LET marks(l) == Cardinality({i \in Positions : x.record[i] = l})
         IN  /\ marks("W") <= 1 /\ marks("R") = 1
             /\ marks("W") = 1 \/ marks("R") + marks("M") = RecordLength
<1> DEFINE at(l) == {i \in Positions : x.record[i] = l}
<1>1. PICK j \in Positions : \A i \in Positions : x.record[i] = "R" <=> i = j
  BY DEF ReadOnce
<1>2. at("R") = {j}
  BY <1>1
<1>3. Cardinality(at("R")) = 1
  BY <1>2, FS_Singleton
<1>4. 0 \in Positions /\ IsFiniteSet(Positions) /\ Cardinality(Positions) = RecordLength
  BY FS_Interval DEF Positions
<1>5. at("W") = {} \/ at("W") = {0}
  BY DEF ReadOnce
<1>6. Cardinality(at("W")) <= 1
  BY <1>5, FS_EmptySet, FS_Singleton
<1>7. CASE x.record[0] = "W"
  <2>1. at("W") = {0}
    BY <1>4, <1>5, <1>7
  <2>2. Cardinality(at("W")) = 1
    BY <2>1, FS_Singleton
  <2> QED
    BY <1>3, <2>2
<1>8. CASE \A i \in Positions : x.record[i] \in {"R", "M"}
  <2>1. at("M") = Positions \ {j}
    BY <1>1, <1>8
  <2>2. Cardinality(at("M")) = RecordLength - 1
    BY <1>4, <2>1, FS_RemoveElement
  <2>3. 1 + (RecordLength - 1) = RecordLength
    OBVIOUS
  <2> QED
    BY <1>3, <1>6, <2>2, <2>3
<1> QED
  BY <1>7, <1>8 DEF ReadOnce

-----------------------------------------------------------------------------
(* Where the objects are: in a writer's slot, in the container, in the hand of a   *)
(* thread, or in a reader's slot.                                                  *)
Objs == 1 .. WriteObjects
Hands == {"R", "W", "M"} \X (1 .. MaxThreads)

\* No object is in two places.
Once(W, B, H, R) == \A o \in Objs :
    /\ W[o] # NULL =>
         o \notin B /\ (\A t \in Hands : H[t] # o) /\ \A i \in Objs : R[i] # o
    /\ o \in B => (\A t \in Hands : H[t] # o) /\ \A i \in Objs : R[i] # o
    /\ \A t \in Hands : H[t] = o =>
         (\A u \in Hands : H[u] = o => u = t) /\ \A i \in Objs : R[i] # o
    /\ \A i, j \in Objs : R[i] = o /\ R[j] = o => i = j

\* An object's ring of marks is that of the place it is in.
MarksFit(W, B, H, R, ob) == \A o \in Objs :
    /\ W[o] # NULL => Unmarked(ob[o])
    /\ o \in B \/ (\E t \in Hands : H[t] = o) => Written(ob[o])
    /\ (\E i \in Objs : R[i] = o) => ReadOnce(ob[o])

Spots == [Objs -> Objs \cup {NULL}]

InPlaces(W, B, H, R, ob) ==
    /\ W \in Spots /\ B \in SUBSET Objs /\ H \in [Hands -> Objs \cup {NULL}] /\ R \in Spots
    /\ \A i \in Objs : W[i] \in {i, NULL}
    /\ ob \in [Objs -> Notes]
    /\ Once(W, B, H, R) /\ MarksFit(W, B, H, R, ob)

LEMMA SlotToHand ==
  ASSUME NEW W, NEW B, NEW H, NEW R, NEW ob, InPlaces(W, B, H, R, ob), NULL \notin Objs,
         NEW o \in Objs, W[o] = o, NEW t \in Hands, H[t] = NULL,
         NEW x \in Notes, Unmarked(ob[o]) => Written(x)
  PROVE  InPlaces([W EXCEPT ![o] = NULL], B, [H EXCEPT ![t] = o], R, [ob EXCEPT ![o] = x])
<1> DEFINE W1 == [W EXCEPT ![o] = NULL]
           H1 == [H EXCEPT ![t] = o]
           ob1 == [ob EXCEPT ![o] = x]
<1>1. /\ W \in Spots /\ H \in [Hands -> Objs \cup {NULL}] /\ R \in Spots /\ ob \in [Objs -> Notes]
      /\ B \in SUBSET Objs /\ \A i \in Objs : W[i] \in {i, NULL}
  BY DEF InPlaces
<1>2. W1 \in Spots /\ H1 \in [Hands -> Objs \cup {NULL}] /\ ob1 \in [Objs -> Notes]
  BY <1>1 DEF Spots
<1>3. /\ \A i \in Objs : W1[i] = IF i = o THEN NULL ELSE W[i]
      /\ \A u \in Hands : H1[u] = IF u = t THEN o ELSE H[u]
      /\ \A i \in Objs : ob1[i] = IF i = o THEN x ELSE ob[i]
  BY <1>1 DEF Spots
<1>4. o # NULL
  OBVIOUS
<1>5. Once(W, B, H, R) /\ MarksFit(W, B, H, R, ob)
  BY DEF InPlaces
<1> HIDE DEF W1, H1, ob1
<1>6. Once(W1, B, H1, R)
  BY <1>3, <1>4, <1>5 DEF Once
<1>7. MarksFit(W1, B, H1, R, ob1)
  BY <1>3, <1>4, <1>5 DEF Once, MarksFit
<1>8. InPlaces(W1, B, H1, R, ob1)
  BY <1>1, <1>2, <1>3, <1>6, <1>7 DEF InPlaces
<1> QED
  BY <1>8 DEF W1, H1, ob1

LEMMA BagToHand ==
  ASSUME NEW W, NEW B, NEW H, NEW R, NEW ob, InPlaces(W, B, H, R, ob), NULL \notin Objs,
         NEW o \in B, NEW t \in Hands, H[t] = NULL
  PROVE  InPlaces(W, B \ {o}, [H EXCEPT ![t] = o], R, ob)
<1> DEFINE H1 == [H EXCEPT ![t] = o]
           B1 == B \ {o}
<1>1. /\ W \in Spots /\ H \in [Hands -> Objs \cup {NULL}] /\ R \in Spots /\ ob \in [Objs -> Notes]
      /\ B \in SUBSET Objs /\ \A i \in Objs : W[i] \in {i, NULL}
  BY DEF InPlaces
<1>2. B1 \in SUBSET Objs /\ H1 \in [Hands -> Objs \cup {NULL}] /\ o \in Objs
  BY <1>1
<1>3. /\ \A i \in Objs : i \in B1 <=> i \in B /\ i # o
      /\ \A u \in Hands : H1[u] = IF u = t THEN o ELSE H[u]
  BY <1>1
<1>4. Once(W, B, H, R) /\ MarksFit(W, B, H, R, ob)
  BY DEF InPlaces
<1> HIDE DEF B1, H1
<1>5. Once(W, B1, H1, R)
  BY <1>2, <1>3, <1>4 DEF Once
<1>6. MarksFit(W, B1, H1, R, ob)
  BY <1>2, <1>3, <1>4 DEF Once, MarksFit
<1>7. InPlaces(W, B1, H1, R, ob)
  BY <1>1, <1>2, <1>5, <1>6 DEF InPlaces
<1> QED
  BY <1>7 DEF B1, H1

LEMMA HandToBag ==
  ASSUME NEW W, NEW B, NEW H, NEW R, NEW ob, InPlaces(W, B, H, R, ob), NULL \notin Objs,
         NEW t \in Hands, H[t] # NULL
  PROVE  InPlaces(W, B \cup {H[t]}, [H EXCEPT ![t] = NULL], R, ob)
<1> DEFINE o == H[t]
           H1 == [H EXCEPT ![t] = NULL]
           B1 == B \cup {o}
<1>1. /\ W \in Spots /\ H \in [Hands -> Objs \cup {NULL}] /\ R \in Spots /\ ob \in [Objs -> Notes]
      /\ B \in SUBSET Objs /\ \A i \in Objs : W[i] \in {i, NULL}
  BY DEF InPlaces
<1>2. B1 \in SUBSET Objs /\ H1 \in [Hands -> Objs \cup {NULL}] /\ o \in Objs
  BY <1>1
<1>3. /\ \A i \in Objs : i \in B1 <=> i \in B \/ i = o
      /\ \A u \in Hands : H1[u] = IF u = t THEN NULL ELSE H[u]
  BY <1>1
<1>4. Once(W, B, H, R) /\ MarksFit(W, B, H, R, ob) /\ H[t] = o
  BY DEF InPlaces
<1> HIDE DEF B1, H1, o
<1>5. Once(W, B1, H1, R)
  BY <1>2, <1>3, <1>4 DEF Once
<1>6. MarksFit(W, B1, H1, R, ob)
  BY <1>2, <1>3, <1>4 DEF Once, MarksFit
<1>7. InPlaces(W, B1, H1, R, ob)
  BY <1>1, <1>2, <1>5, <1>6 DEF InPlaces
<1> QED
  BY <1>7 DEF B1, H1, o

LEMMA MarkInHand ==
  ASSUME NEW W, NEW B, NEW H, NEW R, NEW ob, InPlaces(W, B, H, R, ob), NULL \notin Objs,
         NEW t \in Hands, H[t] # NULL, NEW x \in Notes, Written(ob[H[t]]) => Written(x)
  PROVE  InPlaces(W, B, H, R, [ob EXCEPT ![H[t]] = x])
<1> DEFINE o == H[t]
           ob1 == [ob EXCEPT ![o] = x]
<1>1. /\ W \in Spots /\ H \in [Hands -> Objs \cup {NULL}] /\ R \in Spots /\ ob \in [Objs -> Notes]
      /\ B \in SUBSET Objs /\ \A i \in Objs : W[i] \in {i, NULL}
  BY DEF InPlaces
<1>2. ob1 \in [Objs -> Notes] /\ o \in Objs
  BY <1>1
<1>3. \A i \in Objs : ob1[i] = IF i = o THEN x ELSE ob[i]
  BY <1>1
<1>4. Once(W, B, H, R) /\ MarksFit(W, B, H, R, ob) /\ H[t] = o /\ (Written(ob[o]) => Written(x))
  BY DEF InPlaces
<1> HIDE DEF ob1, o
<1>5. MarksFit(W, B, H, R, ob1)
  BY <1>2, <1>3, <1>4 DEF Once, MarksFit
<1>6. InPlaces(W, B, H, R, ob1)
  BY <1>1, <1>2, <1>4, <1>5 DEF InPlaces
<1> QED
  BY <1>6 DEF ob1, o

LEMMA HandToSlot ==
  ASSUME NEW W, NEW B, NEW H, NEW R, NEW ob, InPlaces(W, B, H, R, ob), NULL \notin Objs,
         NEW t \in Hands, H[t] # NULL, NEW i \in Objs,
         NEW x \in Notes, Written(ob[H[t]]) => ReadOnce(x)
  PROVE  InPlaces(W, B, [H EXCEPT ![t] = NULL], [R EXCEPT ![i] = H[t]], [ob EXCEPT ![H[t]] = x])
<1> DEFINE o == H[t]
           H1 == [H EXCEPT ![t] = NULL]
           R1 == [R EXCEPT ![i] = o]
           ob1 == [ob EXCEPT ![o] = x]
<1>1. /\ W \in Spots /\ H \in [Hands -> Objs \cup {NULL}] /\ R \in Spots /\ ob \in [Objs -> Notes]
      /\ B \in SUBSET Objs /\ \A j \in Objs : W[j] \in {j, NULL}
  BY DEF InPlaces
<1>2. R1 \in Spots /\ H1 \in [Hands -> Objs \cup {NULL}] /\ ob1 \in [Objs -> Notes] /\ o \in Objs
  BY <1>1 DEF Spots
<1>3. /\ \A j \in Objs : R1[j] = IF j = i THEN o ELSE R[j]
      /\ \A u \in Hands : H1[u] = IF u = t THEN NULL ELSE H[u]
      /\ \A j \in Objs : ob1[j] = IF j = o THEN x ELSE ob[j]
  BY <1>1 DEF Spots
<1>4. Once(W, B, H, R) /\ MarksFit(W, B, H, R, ob) /\ H[t] = o /\ (Written(ob[o]) => ReadOnce(x))
  BY DEF InPlaces
<1> HIDE DEF R1, H1, ob1, o
<1>5. Once(W, B, H1, R1)
  BY <1>2, <1>3, <1>4 DEF Once
<1>6. MarksFit(W, B, H1, R1, ob1)
  <2>1. \A j \in Objs : W[j] # NULL => Unmarked(ob1[j])
    BY <1>2, <1>3, <1>4 DEF Once, MarksFit
  <2>2. \A j \in Objs : j \in B \/ (\E u \in Hands : H1[u] = j) => Written(ob1[j])
    BY <1>2, <1>3, <1>4 DEF Once, MarksFit
  <2>3. \A j \in Objs : (\E k \in Objs : R1[k] = j) => ReadOnce(ob1[j])
    BY <1>2, <1>3, <1>4 DEF Once, MarksFit
  <2> QED
    BY <2>1, <2>2, <2>3 DEF MarksFit
<1>7. InPlaces(W, B, H1, R1, ob1)
  BY <1>1, <1>2, <1>5, <1>6 DEF InPlaces
<1> QED
  BY <1>7 DEF R1, H1, ob1, o

\* When every reader's slot has an object, every object has come to one.
LEMMA AllRead ==
  ASSUME NEW W, NEW B, NEW H, NEW R, NEW ob, InPlaces(W, B, H, R, ob), NULL \notin Objs,
         WriteObjects \in Nat, \A i \in Objs : R[i] # NULL
  PROVE  /\ B = {} /\ \A t \in Hands : H[t] = NULL
         /\ \A o \in Objs : W[o] = NULL /\ ReadOnce(ob[o])
         /\ IsInjective(R)
<1>1. R \in [Objs -> Objs] /\ Once(W, B, H, R)
  BY DEF InPlaces, Spots
<1>2. \A i, j \in Objs : R[i] = R[j] => i = j
  BY <1>1 DEF Once
<1>3. IsFiniteSet(Objs)
  BY FS_Interval DEF Objs
<1>4. R \in Bijection(Objs, Range(R))
  BY <1>1, <1>2 DEF Bijection, Injection, Surjection, IsInjective, Range
<1>5. Range(R) \in SUBSET Objs
  BY <1>1 DEF Range
<1>6. IsFiniteSet(Range(R)) /\ ExistsBijection(Objs, Range(R))
  BY <1>3, <1>4, <1>5, FS_Subset DEF ExistsBijection
<1>7. Range(R) = Objs
  <2>1. Cardinality(Range(R)) = Cardinality(Objs)
    BY <1>3, <1>6, FS_Bijection
  <2> QED
    BY <1>3, <1>5, <2>1, FS_Subset
<1>8. \A o \in Objs : \E i \in Objs : R[i] = o
  BY <1>1, <1>7 DEF Range
<1>9. B = {}
  BY <1>1, <1>8 DEF Once, InPlaces
<1>10. \A t \in Hands : H[t] = NULL
  <2>1. \A t \in Hands : H[t] \in Objs \cup {NULL}
    BY DEF InPlaces
  <2> QED
    BY <1>1, <1>8, <2>1 DEF Once
<1>11. \A o \in Objs : W[o] = NULL /\ ReadOnce(ob[o])
  BY <1>1, <1>8 DEF Once, InPlaces, MarksFit
<1>12. IsInjective(R)
  BY <1>1, <1>2 DEF IsInjective
<1> QED
  BY <1>9, <1>10, <1>11, <1>12

-----------------------------------------------------------------------------
(* The invariant of the rounds.                                              *)
ThreadAts == {"none", "start", "loop", "note", "put", "pop", "got", "put back", "push", "exit"}
Holding == {"note", "put", "got", "put back", "push"}
ThreadNotes == [at : ThreadAts, done : Nat, obj : Objs \cup {NULL}]
Hand == [t \in Hands |-> thr[t].obj]

BagTyped ==
    /\ sizes \in [{"R", "W", "M"} -> Nat]
    /\ objlist \in [{"R", "W"} -> Spots]
    /\ thr \in [Hands -> ThreadNotes]
    /\ signal \in [go : BOOLEAN, stop : BOOLEAN]
    /\ counts \in [writes : Nat, reads : Nat]
    /\ mainAt \in {"prep", "started", "join writers", "join readers", "join meddlers", "validate",
                   "ended"}

Resting == mainAt \in {"prep", "ended"}
Out(l) == \A t \in Hands : t[1] = l => thr[t].at \in {"none", "exit"}
AllFilled == \A i \in Objs : objlist["R"][i] # NULL

\* What is over at each point of run_single.
Phases ==
    /\ Resting => /\ bag = {} /\ counts = [writes |-> 0, reads |-> 0]
                  /\ \A t \in Hands : thr[t].at \in {"none", "exit"} /\ thr[t].obj = NULL
    /\ ~Resting => /\ sizes["R"] \in 1 .. MaxThreads /\ sizes["W"] \in 1 .. MaxThreads
                   /\ sizes["M"] \in 0 .. MaxThreads
    /\ signal.stop => mainAt = "join meddlers"
    /\ mainAt \in {"join readers", "join meddlers", "validate"} => Out("W")
    /\ mainAt \in {"join meddlers", "validate"} => Out("R") /\ AllFilled
    /\ mainAt = "validate" => Out("M")

Working == \A t \in Hands :
    /\ thr[t].obj # NULL <=> thr[t].at \in Holding
    /\ thr[t].at = "note" => t[1] = "R"
    /\ thr[t].at = "put" => t[1] = "W"
    /\ thr[t].at \in {"pop", "got", "put back", "push"} => t[1] = "M"
    /\ thr[t].at # "none" => t[2] <= sizes[t[1]]

\* How much of its slice a thread has gone through.
First(t) == SliceStart(t[2], sizes[t[1]])
Share(t) == SliceSize(t[2], sizes[t[1]])
SlotsFilled(t) == IF thr[t].at = "exit" THEN Share(t) ELSE thr[t].done
Emptied(t) == IF thr[t].at = "put" THEN thr[t].done + 1 ELSE SlotsFilled(t)

SliceProgress == \A t \in Hands : t[2] <= sizes[t[1]] =>
    /\ t[1] = "R" =>
         /\ SlotsFilled(t) \in 0 .. Share(t) /\ (thr[t].at = "note" => thr[t].done < Share(t))
         /\ \A j \in 1 .. Share(t) : objlist["R"][First(t) + j] # NULL <=> j <= SlotsFilled(t)
    /\ t[1] = "W" =>
         /\ Emptied(t) \in 0 .. Share(t)
         /\ \A j \in 1 .. Share(t) : objlist["W"][First(t) + j] # NULL <=> j > Emptied(t)

\* The counts of the linked stack's test: what was read, and what is not pushed yet.
Unpushed == {o \in Objs :
    objlist["W"][o] # NULL \/ \E t \in Hands : thr[t].at = "put" /\ thr[t].obj = o}

Counting == kind = "lstack" =>
    /\ counts.reads = Cardinality({i \in Objs : objlist["R"][i] # NULL})
    /\ counts.writes + Cardinality(Unpushed) = WriteObjects

BagInvariant ==
    /\ BagTyped /\ Phases /\ Working
    /\ ~Resting => /\ InPlaces(objlist["W"], bag, Hand, objlist["R"], object)
                   /\ SliceProgress /\ Counting

LEMMA BagNumbers ==
  ASSUME Test!BagTestAssumption
  PROVE  /\ WriteObjects \in Nat \ {0} /\ RecordLength \in Nat \ {0} /\ MaxThreads \in Nat \ {0}
         /\ NULL \notin Objs /\ NULL \notin {"R", "W", "M"}
         /\ Test!Objects = Objs /\ Test!Threads = Hands
         /\ \A t \in Hands :
              t = <<t[1], t[2]>> /\ t[1] \in {"R", "W", "M"} /\ t[2] \in 1 .. MaxThreads
         /\ \A l \in {"R", "W", "M"}, i \in 1 .. MaxThreads :
              <<l, i>> \in Hands /\ <<l, i>>[1] = l /\ <<l, i>>[2] = i
BY DEF Test!BagTestAssumption, Test!Objects, Test!Threads, Objs, Hands

LEMMA ObjsFinite ==
  ASSUME Test!BagTestAssumption
  PROVE  IsFiniteSet(Objs) /\ Cardinality(Objs) = WriteObjects
<1>1. /\ 1 \in Int /\ WriteObjects \in Int
      /\ WriteObjects - 1 + 1 = WriteObjects /\ 1 <= WriteObjects
  BY BagNumbers
<1> QED
  BY <1>1, FS_Interval DEF Objs

LEMMA BagCounts ==
  /\ \A S : Test!Cardinality(S) = Cardinality(S)
  /\ \A f : Test!IsInjective(f) <=> IsInjective(f)
<1>1. \A S : Test!Cardinality(S) = Cardinality(S)
  BY DEF Test!Cardinality, Cardinality
<1>2. \A f : Test!IsInjective(f) <=> IsInjective(f)
  BY DEF Test!IsInjective, IsInjective
<1> QED
  BY <1>1, <1>2

LEMMA ShareIs ==
  ASSUME Test!BagTestAssumption, BagTyped, NEW t \in Hands, t[2] <= sizes[t[1]]
  PROVE  /\ Test!TargetCapacity(t) = Share(t)
         /\ Test!Slot(t) = First(t) + (thr[t].done + 1)
         /\ Share(t) \in Nat /\ First(t) \in Nat
         /\ \A j \in 1 .. Share(t) : First(t) + j \in Objs
<1> DEFINE n == sizes[t[1]]
           k == t[2]
<1>0. t[1] \in {"R", "W", "M"} /\ k \in 1 .. MaxThreads /\ MaxThreads \in Nat
  BY BagNumbers
<1>1. n \in Nat \ {0} /\ k \in 1 .. n /\ thr[t].done \in Nat /\ k \in Nat
  <2>1. n \in Nat /\ k <= n
    BY <1>0 DEF BagTyped
  <2>2. thr[t].done \in Nat
    BY DEF BagTyped, ThreadNotes
  <2> QED
    BY <1>0, <2>1, <2>2
<1>2. Share(t) \in Nat /\ First(t) \in Nat /\ \A j \in 1 .. Share(t) : First(t) + j \in Objs
  BY <1>1, SliceIn, BagNumbers DEF Share, First, Objs
<1>3. WriteObjects \div n \in Nat
  BY <1>1, Shares, BagNumbers
<1>4. Test!Slot(t) = First(t) + (thr[t].done + 1)
  <2>1. Test!Slot(t) = (k - 1) * (WriteObjects \div n) + thr[t].done + 1
    BY DEF Test!Slot, Test!PerThread
  <2>2. First(t) = (k - 1) * (WriteObjects \div n)
    BY DEF First, SliceStart
  <2> QED
    BY <1>1, <1>2, <2>1, <2>2
<1>5. Test!TargetCapacity(t) = Share(t)
  BY <1>1 DEF Test!TargetCapacity, Test!PerThread, Share, SliceSize
<1> QED
  BY <1>2, <1>4, <1>5

\* Only the thread of a slice gets to its slots.
LEMMA SlotsApart ==
  ASSUME Test!BagTestAssumption, BagTyped, NEW t \in Hands, NEW u \in Hands, t[1] = u[1], t # u,
         t[2] <= sizes[t[1]], u[2] <= sizes[t[1]],
         NEW i \in 1 .. Share(t), NEW j \in 1 .. Share(u)
  PROVE  First(t) + i # First(u) + j
<1> DEFINE n == sizes[t[1]]
<1>0. /\ t[1] \in {"R", "W", "M"} /\ t[2] \in 1 .. MaxThreads /\ MaxThreads \in Nat
      /\ u[2] \in 1 .. MaxThreads
  BY BagNumbers
<1>1. n \in Nat \ {0} /\ t[2] \in 1 .. n /\ u[2] \in 1 .. n
  <2>1. n \in Nat /\ t[2] <= n /\ u[2] <= n
    BY <1>0 DEF BagTyped
  <2> QED
    BY <1>0, <2>1
<1>2. t[2] # u[2]
  BY BagNumbers
<1>3. i \in 1 .. SliceSize(t[2], n) /\ j \in 1 .. SliceSize(u[2], n)
  BY DEF Share
<1> HIDE DEF n
<1>4. SliceStart(t[2], n) + i # SliceStart(u[2], n) + j
  BY <1>1, <1>2, <1>3, SliceApart, BagNumbers
<1> QED
  BY <1>4 DEF First, n

\* Readers that are through have filled all slots.
LEMMA AllThrough ==
  ASSUME Test!BagTestAssumption, BagTyped, SliceProgress, sizes["R"] \in 1 .. MaxThreads,
         \A i \in 1 .. sizes["R"] : thr[<<"R", i>>].at = "exit"
  PROVE  AllFilled
<1> SUFFICES ASSUME NEW i \in Objs PROVE objlist["R"][i] # NULL
  BY DEF AllFilled
<1> DEFINE n == sizes["R"]
<1>1. n \in Nat \ {0}
  BY BagNumbers
<1> HIDE DEF n
<1>2. PICK k \in 1 .. n : \E j \in 1 .. SliceSize(k, n) : SliceStart(k, n) + j = i
  BY <1>1, SliceCovers, BagNumbers DEF Objs
<1>3. PICK j \in 1 .. SliceSize(k, n) : SliceStart(k, n) + j = i
  BY <1>2
<1> DEFINE t == <<"R", k>>
<1>4. t \in Hands /\ t[1] = "R" /\ t[2] = k /\ k <= n /\ thr[t].at = "exit"
  BY BagNumbers, <1>1 DEF n
<1> HIDE DEF t
<1>5. Share(t) = SliceSize(k, n) /\ First(t) = SliceStart(k, n) /\ SlotsFilled(t) = Share(t)
  BY <1>4 DEF Share, First, SlotsFilled, n
<1>6. j <= Share(t) /\ j \in 1 .. Share(t)
  BY <1>5, <1>4, ShareIs DEF n
<1>7. objlist["R"][First(t) + j] # NULL
  BY <1>4, <1>5, <1>6 DEF SliceProgress, n
<1> QED
  BY <1>3, <1>5, <1>7

-----------------------------------------------------------------------------
(* A step of one thread.                                                     *)
Rec(a, d, o) == [at |-> a, done |-> d, obj |-> o]

LEMMA RecFields ==
  ASSUME NEW a, NEW d, NEW o
  PROVE  /\ Rec(a, d, o).at = a /\ Rec(a, d, o).done = d /\ Rec(a, d, o).obj = o
         /\ a \in ThreadAts /\ d \in Nat /\ o \in Objs \cup {NULL} => Rec(a, d, o) \in ThreadNotes
BY DEF Rec, ThreadNotes

LEMMA RecIs ==
  ASSUME BagTyped, NEW t \in Hands
  PROVE  /\ thr[t] \in ThreadNotes /\ thr[t].done \in Nat /\ thr[t].obj \in Objs \cup {NULL}
         /\ \A a : [thr EXCEPT ![t].at = a] = [thr EXCEPT ![t] = Rec(a, thr[t].done, thr[t].obj)]
<1>1. thr \in [Hands -> ThreadNotes] /\ thr[t] \in ThreadNotes
  BY DEF BagTyped
<1>2. thr[t].done \in Nat /\ thr[t].obj \in Objs \cup {NULL}
  BY <1>1 DEF ThreadNotes
<1>3. ASSUME NEW a PROVE [thr[t] EXCEPT !.at = a] = Rec(a, thr[t].done, thr[t].obj)
  BY <1>1 DEF ThreadNotes, Rec
<1>4. ASSUME NEW a
      PROVE  [thr EXCEPT ![t].at = a] = [thr EXCEPT ![t] = Rec(a, thr[t].done, thr[t].obj)]
  BY <1>1, <1>3
<1> QED
  BY <1>1, <1>2, <1>4

LEMMA RecTakes ==
  ASSUME BagTyped, NEW t \in Hands, NEW a \in {"note", "put", "got"}, NEW o \in Objs,
         thr' = [thr EXCEPT ![t].at = a, ![t].obj = o]
  PROVE  thr' = [thr EXCEPT ![t] = Rec(a, thr[t].done, o)]
<1>1. thr \in [Hands -> ThreadNotes] /\ thr[t] \in ThreadNotes
  BY DEF BagTyped
<1>2. [thr[t] EXCEPT !.at = a] = Rec(a, thr[t].done, thr[t].obj)
  BY <1>1 DEF ThreadNotes, Rec
<1>3. [Rec(a, thr[t].done, thr[t].obj) EXCEPT !.obj = o] = Rec(a, thr[t].done, o)
  BY DEF Rec
<1> QED
  BY <1>1, <1>2, <1>3

LEMMA OneThread ==
  ASSUME BagTyped, NEW t \in Hands, NEW r \in ThreadNotes, thr' = [thr EXCEPT ![t] = r]
  PROVE  /\ thr' \in [Hands -> ThreadNotes]
         /\ \A u \in Hands : thr'[u] = IF u = t THEN r ELSE thr[u]
         /\ Hand' = [Hand EXCEPT ![t] = r.obj]
         /\ \A u \in Hands : Hand[u] = thr[u].obj /\ thr[u].obj \in Objs \cup {NULL}
BY DEF BagTyped, Hand, ThreadNotes

LEMMA Awake ==
  ASSUME BagInvariant, NEW t \in Hands, thr[t].at \notin {"none", "exit"}
  PROVE  /\ ~Resting /\ BagTyped /\ Working /\ SliceProgress /\ Counting
         /\ InPlaces(objlist["W"], bag, Hand, objlist["R"], object)
         /\ t[2] <= sizes[t[1]]
BY DEF BagInvariant, Phases, Working

LEMMA EmptyHand ==
  ASSUME Working, NEW t \in Hands
  PROVE  /\ thr[t].at \notin Holding => thr[t].obj = NULL
         /\ thr[t].at \in Holding => thr[t].obj # NULL
BY DEF Working

LEMMA WorkingKept ==
  ASSUME BagTyped, Working, NEW t \in Hands, NEW r \in ThreadNotes,
         thr' = [thr EXCEPT ![t] = r], UNCHANGED sizes, t[2] <= sizes[t[1]],
         r.obj # NULL <=> r.at \in Holding,
         r.at = "note" => t[1] = "R", r.at = "put" => t[1] = "W",
         r.at \in {"pop", "got", "put back", "push"} => t[1] = "M"
  PROVE  Working'
<1>1. \A u \in Hands : thr'[u] = IF u = t THEN r ELSE thr[u]
  BY OneThread
<1> SUFFICES ASSUME NEW u \in Hands
             PROVE  /\ thr'[u].obj # NULL <=> thr'[u].at \in Holding
                    /\ thr'[u].at = "note" => u[1] = "R"
                    /\ thr'[u].at = "put" => u[1] = "W"
                    /\ thr'[u].at \in {"pop", "got", "put back", "push"} => u[1] = "M"
                    /\ thr'[u].at # "none" => u[2] <= sizes'[u[1]]
  BY DEF Working
<1>2. CASE u = t
  <2>1. thr'[u] = r
    BY <1>1, <1>2
  <2> QED
    BY <1>2, <2>1
<1>3. CASE u # t
  <2>1. thr'[u] = thr[u]
    BY <1>1, <1>3
  <2> QED
    BY <2>1 DEF Working
<1> QED
  BY <1>2, <1>3

LEMMA PhasesKept ==
  ASSUME BagInvariant, NEW t \in Hands, thr[t].at \notin {"none", "exit"}, NEW r \in ThreadNotes,
         thr' = [thr EXCEPT ![t] = r], UNCHANGED <<sizes, signal, mainAt>>,
         AllFilled => AllFilled'
  PROVE  Phases'
<1>1. \A u \in Hands : thr'[u] = IF u = t THEN r ELSE thr[u]
  BY OneThread DEF BagInvariant
<1>2. ASSUME NEW l, Out(l) PROVE Out(l)'
  BY <1>1, <1>2 DEF Out
<1>3. ~Resting /\ ~Resting' /\ Phases
  BY Awake DEF Resting, BagInvariant
<1> QED
  BY <1>2, <1>3 DEF Phases

LEMMA ProgressKept ==
  ASSUME BagTyped, SliceProgress, NEW t \in Hands, NEW r \in ThreadNotes,
         thr' = [thr EXCEPT ![t] = r], UNCHANGED <<sizes, objlist>>,
         t[1] = "R" => SlotsFilled(t)' = SlotsFilled(t) /\ (r.at = "note" => r.done < Share(t)),
         t[1] = "W" => Emptied(t)' = Emptied(t)
  PROVE  SliceProgress'
<1>1. \A u \in Hands : thr'[u] = IF u = t THEN r ELSE thr[u]
  BY OneThread
<1>2. \A u \in Hands : Share(u)' = Share(u) /\ First(u)' = First(u)
  BY DEF Share, First
<1>3. \A u \in Hands \ {t} : SlotsFilled(u)' = SlotsFilled(u) /\ Emptied(u)' = Emptied(u)
  BY <1>1, <1>2 DEF SlotsFilled, Emptied
<1> SUFFICES ASSUME NEW u \in Hands, u[2] <= sizes[u[1]]
             PROVE  /\ u[1] = "R" =>
                         /\ SlotsFilled(u)' \in 0 .. Share(u)
                         /\ thr'[u].at = "note" => thr'[u].done < Share(u)
                         /\ \A j \in 1 .. Share(u) :
                               objlist["R"][First(u) + j] # NULL <=> j <= SlotsFilled(u)'
                    /\ u[1] = "W" =>
                         /\ Emptied(u)' \in 0 .. Share(u)
                         /\ \A j \in 1 .. Share(u) :
                               objlist["W"][First(u) + j] # NULL <=> j > Emptied(u)'
  BY <1>2 DEF SliceProgress
<1>4. CASE u = t
  BY <1>1, <1>4 DEF SliceProgress
<1>5. CASE u # t
  BY <1>1, <1>3, <1>5 DEF SliceProgress
<1> QED
  BY <1>4, <1>5

LEMMA CountingKept ==
  ASSUME BagTyped, Counting, NEW t \in Hands, NEW r \in ThreadNotes,
         thr' = [thr EXCEPT ![t] = r], UNCHANGED <<kind, objlist, counts>>,
         thr[t].at # "put", r.at # "put"
  PROVE  Counting'
<1>1. \A u \in Hands : thr'[u] = IF u = t THEN r ELSE thr[u]
  BY OneThread
<1>2. Unpushed' = Unpushed
  <2>1. ASSUME NEW o PROVE (\E u \in Hands : thr'[u].at = "put" /\ thr'[u].obj = o)
                           <=> \E u \in Hands : thr[u].at = "put" /\ thr[u].obj = o
    BY <1>1
  <2> QED
    BY <2>1 DEF Unpushed
<1> QED
  BY <1>2 DEF Counting

LEMMA StepKeeps ==
  ASSUME BagInvariant, NEW t \in Hands, thr[t].at \notin {"none", "exit"}, NEW r \in ThreadNotes,
         thr' = [thr EXCEPT ![t] = r], UNCHANGED <<sizes, signal, mainAt>>,
         objlist' \in [{"R", "W"} -> Spots], counts' \in [writes : Nat, reads : Nat],
         AllFilled => AllFilled',
         r.obj # NULL <=> r.at \in Holding,
         r.at = "note" => t[1] = "R", r.at = "put" => t[1] = "W",
         r.at \in {"pop", "got", "put back", "push"} => t[1] = "M",
         InPlaces(objlist'["W"], bag', Hand', objlist'["R"], object'), SliceProgress', Counting'
  PROVE  BagInvariant'
<1>1. BagTyped'
  BY OneThread DEF BagInvariant, BagTyped
<1>2. Working'
  BY Awake, WorkingKept
<1>3. Phases'
  BY PhasesKept
<1> QED
  BY <1>1, <1>2, <1>3 DEF BagInvariant

\* A thread that goes on with what it has.
LEMMA MovesOn ==
  ASSUME Test!BagTestAssumption, BagInvariant, NEW t \in Hands,
         thr[t].at \notin {"none", "exit", "put"}, NEW r \in ThreadNotes,
         thr' = [thr EXCEPT ![t] = r],
         UNCHANGED <<kind, sizes, bag, objlist, signal, counts, mainAt>>,
         r.obj = thr[t].obj, r.at # "put",
         thr[t].at \in Holding <=> r.at \in Holding,
         r.at = "note" => t[1] = "R",
         r.at \in {"pop", "got", "put back", "push"} => t[1] = "M",
         t[1] = "R" => SlotsFilled(t)' = SlotsFilled(t) /\ (r.at = "note" => r.done < Share(t)),
         t[1] = "W" => Emptied(t)' = Emptied(t),
         InPlaces(objlist["W"], bag, Hand, objlist["R"], object')
  PROVE  BagInvariant'
<1>1. ~Resting /\ BagTyped /\ Working /\ SliceProgress /\ Counting
  BY Awake
<1>2. Hand' = Hand
  BY <1>1, OneThread DEF Hand
<1>3. SliceProgress' /\ Counting'
  BY <1>1, ProgressKept, CountingKept
<1>4. InPlaces(objlist'["W"], bag', Hand', objlist'["R"], object')
  BY <1>2
<1>5. objlist' \in [{"R", "W"} -> Spots] /\ counts' \in [writes : Nat, reads : Nat]
  BY <1>1 DEF BagTyped
<1>6. r.obj # NULL <=> r.at \in Holding
  BY <1>1 DEF Working
<1>7. AllFilled => AllFilled'
  BY DEF AllFilled
<1> QED
  BY <1>3, <1>4, <1>5, <1>6, <1>7, StepKeeps

-----------------------------------------------------------------------------
(* The actions of the threads.                                               *)
LEMMA SeeGoKeeps ==
  ASSUME Test!BagTestAssumption, BagInvariant, NEW t \in Hands, Test!SeeGo(t)
  PROVE  BagInvariant'
<1> DEFINE r == Rec("loop", thr[t].done, thr[t].obj)
<1>1. /\ thr[t].at = "start" /\ thr' = [thr EXCEPT ![t] = r]
      /\ UNCHANGED <<kind, sizes, bag, object, objlist, signal, counts, mainAt>>
  BY RecIs DEF Test!SeeGo, Test!At, Test!Goes, BagInvariant
<1>2. BagTyped /\ InPlaces(objlist["W"], bag, Hand, objlist["R"], object)
  BY <1>1, Awake
<1>3. r \in ThreadNotes /\ r.at = "loop" /\ r.done = thr[t].done /\ r.obj = thr[t].obj
  BY <1>2, RecIs DEF Rec, ThreadNotes, ThreadAts
<1> HIDE DEF r
<1>4. SlotsFilled(t)' = SlotsFilled(t) /\ Emptied(t)' = Emptied(t)
  BY <1>1, <1>2, <1>3, OneThread DEF SlotsFilled, Emptied
<1> QED
  BY <1>1, <1>2, <1>3, <1>4, MovesOn DEF Holding

LEMMA FinishKeeps ==
  ASSUME Test!BagTestAssumption, BagInvariant, NEW t \in Hands, Test!Finish(t)
  PROVE  BagInvariant'
<1> DEFINE r == Rec("exit", 0, thr[t].obj)
<1>1. /\ thr[t].at = "loop" /\ thr' = [thr EXCEPT ![t] = r]
      /\ thr[t].done = Test!TargetCapacity(t)
      /\ UNCHANGED <<kind, sizes, bag, object, objlist, signal, counts, mainAt>>
  BY DEF Test!Finish, Test!At, Test!Left, Rec
<1>2. BagTyped /\ InPlaces(objlist["W"], bag, Hand, objlist["R"], object) /\ t[2] <= sizes[t[1]]
  BY <1>1, Awake
<1>3. r \in ThreadNotes /\ r.at = "exit" /\ r.obj = thr[t].obj
  BY <1>2, RecIs DEF Rec, ThreadNotes, ThreadAts
<1> HIDE DEF r
<1>4. SlotsFilled(t)' = SlotsFilled(t) /\ Emptied(t)' = Emptied(t)
  <2>1. thr[t].done = Share(t) /\ Share(t)' = Share(t)
    BY <1>1, <1>2, ShareIs DEF Share
  <2> QED
    BY <1>1, <1>2, <1>3, <2>1, OneThread DEF SlotsFilled, Emptied
<1> QED
  BY <1>1, <1>2, <1>3, <1>4, MovesOn DEF Holding

LEMMA ReaderPopKeeps ==
  ASSUME Test!BagTestAssumption, BagInvariant, NEW t \in Hands, Test!ReaderPop(t)
  PROVE  BagInvariant'
<1>1. PICK o \in bag :
         /\ t[1] = "R" /\ thr[t].at = "loop" /\ thr[t].done < Test!TargetCapacity(t)
         /\ bag' = bag \ {o} /\ thr' = [thr EXCEPT ![t].at = "note", ![t].obj = o]
         /\ UNCHANGED <<kind, sizes, object, objlist, signal, counts, mainAt>>
  BY DEF Test!ReaderPop, Test!At
<1> DEFINE r == Rec("note", thr[t].done, o)
<1>2. /\ ~Resting /\ BagTyped /\ Working /\ SliceProgress /\ Counting
      /\ InPlaces(objlist["W"], bag, Hand, objlist["R"], object) /\ t[2] <= sizes[t[1]]
  BY <1>1, Awake
<1>3. o \in Objs /\ o # NULL
  BY <1>2, BagNumbers DEF InPlaces
<1>4. thr' = [thr EXCEPT ![t] = r]
  BY <1>1, <1>2, <1>3, RecTakes
<1>5. r \in ThreadNotes /\ r.at = "note" /\ r.done = thr[t].done /\ r.obj = o
  BY <1>2, <1>3, RecIs DEF Rec, ThreadNotes, ThreadAts
<1> HIDE DEF r
<1>6. SlotsFilled(t)' = SlotsFilled(t) /\ r.done < Share(t)
  <2>1. thr[t].done < Share(t)
    BY <1>1, <1>2, ShareIs
  <2> QED
    BY <1>1, <1>2, <1>4, <1>5, <2>1, OneThread DEF SlotsFilled
<1>7. SliceProgress' /\ Counting'
  BY <1>1, <1>2, <1>4, <1>5, <1>6, ProgressKept, CountingKept
<1>8. Hand' = [Hand EXCEPT ![t] = o] /\ Hand[t] = NULL
  <2>1. Hand' = [Hand EXCEPT ![t] = o] /\ Hand[t] = thr[t].obj
    BY <1>2, <1>4, <1>5, OneThread
  <2>2. thr[t].at \notin Holding
    BY <1>1 DEF Holding
  <2> QED
    BY <1>2, <2>1, <2>2, EmptyHand
<1>9. InPlaces(objlist'["W"], bag', Hand', objlist'["R"], object')
  BY <1>1, <1>2, <1>8, BagToHand, BagNumbers
<1>10. /\ objlist' \in [{"R", "W"} -> Spots] /\ counts' \in [writes : Nat, reads : Nat]
       /\ AllFilled => AllFilled'
  BY <1>1, <1>2 DEF BagTyped, AllFilled
<1> QED
  BY <1>1, <1>4, <1>3, <1>5, <1>7, <1>9, <1>10, StepKeeps DEF Holding

LEMMA MeddlerPopKeeps ==
  ASSUME Test!BagTestAssumption, BagInvariant, NEW t \in Hands, Test!MeddlerPop(t)
  PROVE  BagInvariant'
<1>1. PICK o \in bag :
         /\ thr[t].at = "pop" /\ bag' = bag \ {o}
         /\ thr' = [thr EXCEPT ![t].at = "got", ![t].obj = o]
         /\ UNCHANGED <<kind, sizes, object, objlist, signal, counts, mainAt>>
  BY DEF Test!MeddlerPop, Test!At
<1> DEFINE r == Rec("got", thr[t].done, o)
<1>2. /\ ~Resting /\ BagTyped /\ Working /\ SliceProgress /\ Counting /\ t[1] = "M"
      /\ InPlaces(objlist["W"], bag, Hand, objlist["R"], object)
  BY <1>1, Awake DEF Working
<1>3. o \in Objs /\ o # NULL
  BY <1>2, BagNumbers DEF InPlaces
<1>4. thr' = [thr EXCEPT ![t] = r]
  BY <1>1, <1>2, <1>3, RecTakes
<1>5. r \in ThreadNotes /\ r.at = "got" /\ r.obj = o
  BY <1>2, <1>3, RecIs DEF Rec, ThreadNotes, ThreadAts
<1> HIDE DEF r
<1>6. SliceProgress' /\ Counting'
  BY <1>1, <1>2, <1>4, <1>5, ProgressKept, CountingKept
<1>7. Hand' = [Hand EXCEPT ![t] = o] /\ Hand[t] = NULL
  <2>1. Hand' = [Hand EXCEPT ![t] = o] /\ Hand[t] = thr[t].obj
    BY <1>2, <1>4, <1>5, OneThread
  <2>2. thr[t].at \notin Holding
    BY <1>1 DEF Holding
  <2> QED
    BY <1>2, <2>1, <2>2, EmptyHand
<1>8. InPlaces(objlist'["W"], bag', Hand', objlist'["R"], object')
  BY <1>1, <1>2, <1>7, BagToHand, BagNumbers
<1>9. /\ objlist' \in [{"R", "W"} -> Spots] /\ counts' \in [writes : Nat, reads : Nat]
      /\ AllFilled => AllFilled'
  BY <1>1, <1>2 DEF BagTyped, AllFilled
<1> QED
  BY <1>1, <1>2, <1>4, <1>3, <1>5, <1>6, <1>8, <1>9, StepKeeps DEF Holding

\* The signal to stop is given when the readers have everything.
LEMMA StopIsLate ==
  ASSUME Test!BagTestAssumption, BagInvariant, signal.stop, NEW t \in Hands
  PROVE  thr[t].obj = NULL /\ thr[t].at \notin Holding
<1>1. ~Resting /\ AllFilled /\ Working /\ BagTyped
  BY DEF BagInvariant, Phases, Resting
<1>2. InPlaces(objlist["W"], bag, Hand, objlist["R"], object)
  BY <1>1 DEF BagInvariant
<1>3. Hand[t] = NULL
  BY <1>1, <1>2, AllRead, BagNumbers DEF AllFilled
<1> QED
  BY <1>1, <1>3 DEF Hand, Working

LEMMA MeddlerLookKeeps ==
  ASSUME Test!BagTestAssumption, BagInvariant, NEW t \in Hands,
         Test!MeddlerLook(t) \/ Test!MeddlerEmpty(t)
  PROVE  BagInvariant'
<1>1. PICK at \in {"pop", "exit"}, d \in {0, thr[t].done} :
         /\ thr[t].at \in {"loop", "pop"} /\ t[1] = "M"
         /\ thr' = [thr EXCEPT ![t] = Rec(at, d, thr[t].obj)]
         /\ UNCHANGED <<kind, sizes, bag, object, objlist, signal, counts, mainAt>>
  <2>1. CASE Test!MeddlerLook(t) /\ signal.stop
    <3>1. thr' = [thr EXCEPT ![t] = Rec("exit", 0, thr[t].obj)]
      BY <2>1 DEF Test!MeddlerLook, Test!Left, Rec
    <3> QED
      BY <2>1, <3>1 DEF Test!MeddlerLook, Test!At
  <2>2. CASE Test!MeddlerLook(t) /\ ~signal.stop
    <3>1. thr' = [thr EXCEPT ![t] = Rec("pop", thr[t].done, thr[t].obj)]
      BY <2>2, RecIs DEF Test!MeddlerLook, Test!Goes, BagInvariant
    <3> QED
      BY <2>2, <3>1 DEF Test!MeddlerLook, Test!At
  <2>3. CASE Test!MeddlerEmpty(t)
    <3>1. thr' = [thr EXCEPT ![t] = Rec("exit", 0, thr[t].obj)] /\ thr[t].at = "pop"
      BY <2>3 DEF Test!MeddlerEmpty, Test!Left, Rec, Test!At
    <3> QED
      BY <2>3, <3>1, Awake DEF Test!MeddlerEmpty, Working
  <2> QED
    BY <2>1, <2>2, <2>3
<1> DEFINE r == Rec(at, d, thr[t].obj)
<1>2. BagTyped /\ InPlaces(objlist["W"], bag, Hand, objlist["R"], object)
  BY <1>1, Awake
<1>3. r \in ThreadNotes /\ r.at \in {"pop", "exit"} /\ r.obj = thr[t].obj
  <2>1. thr[t].done \in Nat /\ thr[t].obj \in Objs \cup {NULL}
    BY <1>2, RecIs
  <2>2. d \in Nat
    BY <2>1
  <2>3. at \in ThreadAts
    BY DEF ThreadAts
  <2> QED
    BY <2>1, <2>2, <2>3 DEF Rec, ThreadNotes
<1> HIDE DEF r
<1> QED
  BY <1>1, <1>2, <1>3, MovesOn DEF Holding, r

LEMMA MeddlerNoteKeeps ==
  ASSUME Test!BagTestAssumption, BagInvariant, NEW t \in Hands,
         Test!MeddlerNote(t) \/ Test!MeddlerCheck(t)
  PROVE  BagInvariant'
<1>1. thr[t].at \in {"got", "put back"} /\ ~signal.stop
  BY StopIsLate DEF Test!MeddlerNote, Test!MeddlerCheck, Test!At, Holding
<1>2. /\ BagTyped /\ InPlaces(objlist["W"], bag, Hand, objlist["R"], object) /\ t[1] = "M"
      /\ thr[t].obj # NULL /\ Hand[t] = thr[t].obj /\ thr[t].obj \in Objs /\ Working
  BY <1>1, Awake DEF Working, Holding, Hand, BagTyped, ThreadNotes
<1>3. PICK at \in {"put back", "push"} :
         /\ thr' = [thr EXCEPT ![t].at = at]
         /\ UNCHANGED <<kind, sizes, bag, objlist, signal, counts, mainAt>>
         /\ \/ UNCHANGED object
            \/ object' = [object EXCEPT ![thr[t].obj] = Test!MarkedNext(@, t)]
  BY <1>1 DEF Test!MeddlerNote, Test!MeddlerCheck, Test!Goes
<1> DEFINE r == Rec(at, thr[t].done, thr[t].obj)
<1>4. thr' = [thr EXCEPT ![t] = r]
  BY <1>2, <1>3, RecIs
<1>5. r \in ThreadNotes /\ r.at = at /\ r.obj = thr[t].obj
  BY <1>2, RecIs DEF Rec, ThreadNotes, ThreadAts
<1> HIDE DEF r
<1>6. InPlaces(objlist["W"], bag, Hand, objlist["R"], object')
  <2> DEFINE o == thr[t].obj
             x == Test!MarkedNext(object[o], t)
  <2>1. CASE UNCHANGED object
    BY <1>2, <2>1
  <2>2. CASE object' = [object EXCEPT ![o] = Test!MarkedNext(@, t)]
    <3>1. object \in [Objs -> Notes] /\ object[o] \in Notes /\ RecordLength \in Nat \ {0}
      BY <1>2, BagNumbers DEF InPlaces
    <3>2. x = [WithMark(object[o], "M") EXCEPT !.index = Advanced(object[o])]
      BY <1>2 DEF Test!MarkedNext, Test!Marked, WithMark, Advanced
    <3>3. x \in Notes /\ x.index = Advanced(object[o])
          /\ x.record = [object[o].record EXCEPT ![object[o].index] = "M"]
      BY <3>1, <3>2, MarkedIs
    <3>4. Written(object[o]) => Written(x)
      BY <3>1, <3>3, MeddlerMarks
    <3>5. object' = [object EXCEPT ![o] = x]
      BY <2>2, <3>1
    <3> HIDE DEF x, o
    <3>6. o = Hand[t] /\ o # NULL
      BY <1>2 DEF o
    <3>7. InPlaces(objlist["W"], bag, Hand, objlist["R"], [object EXCEPT ![Hand[t]] = x])
      BY <1>2, <3>3, <3>4, <3>6, MarkInHand, BagNumbers
    <3> QED
      BY <3>5, <3>6, <3>7
  <2> QED
    BY <1>3, <2>1, <2>2
<1> QED
  BY <1>1, <1>2, <1>3, <1>4, <1>5, <1>6, MovesOn DEF Holding

\* An object goes back to the container.
LEMMA HandBack ==
  ASSUME Test!BagTestAssumption, BagInvariant, NEW t \in Hands, thr[t].at \in {"put", "push"},
         NEW r \in ThreadNotes, thr' = [thr EXCEPT ![t] = r], r.obj = NULL, r.at = "loop",
         bag' = bag \cup {thr[t].obj}, counts' \in [writes : Nat, reads : Nat],
         UNCHANGED <<sizes, object, objlist, signal, mainAt>>, SliceProgress', Counting'
  PROVE  BagInvariant'
<1>1. BagTyped /\ Working /\ InPlaces(objlist["W"], bag, Hand, objlist["R"], object)
  BY Awake
<1>2. Hand' = [Hand EXCEPT ![t] = NULL] /\ Hand[t] = thr[t].obj /\ Hand[t] # NULL
  <2>1. Hand' = [Hand EXCEPT ![t] = NULL] /\ Hand[t] = thr[t].obj
    BY <1>1, OneThread
  <2>2. thr[t].at \in Holding
    BY DEF Holding
  <2> QED
    BY <1>1, <2>1, <2>2, EmptyHand
<1>3. InPlaces(objlist["W"], bag \cup {Hand[t]}, [Hand EXCEPT ![t] = NULL], objlist["R"], object)
  BY <1>1, <1>2, HandToBag, BagNumbers
<1>4. InPlaces(objlist'["W"], bag', Hand', objlist'["R"], object')
  BY <1>2, <1>3
<1>5. objlist' \in [{"R", "W"} -> Spots] /\ (AllFilled => AllFilled')
  BY <1>1 DEF BagTyped, AllFilled
<1> QED
  BY <1>4, <1>5, StepKeeps DEF Holding

LEMMA MeddlerPushKeeps ==
  ASSUME Test!BagTestAssumption, BagInvariant, NEW t \in Hands, Test!MeddlerPush(t)
  PROVE  BagInvariant'
<1>1. /\ thr[t].at = "push" /\ UNCHANGED <<kind, sizes, object, objlist, signal, counts, mainAt>>
      /\ \/ /\ bag' = bag \cup {thr[t].obj}
            /\ thr' = [thr EXCEPT ![t] = [Test!Idle EXCEPT !.at = "loop"]]
         \/ thr' = [thr EXCEPT ![t].at = "put back"] /\ UNCHANGED bag
  BY DEF Test!MeddlerPush, Test!At, Test!Goes
<1>2. /\ BagTyped /\ Working /\ SliceProgress /\ Counting /\ t[1] = "M"
      /\ InPlaces(objlist["W"], bag, Hand, objlist["R"], object)
  BY <1>1, Awake DEF Working
<1>3. CASE /\ bag' = bag \cup {thr[t].obj}
           /\ thr' = [thr EXCEPT ![t] = [Test!Idle EXCEPT !.at = "loop"]]
  <2> DEFINE r == Rec("loop", 0, NULL)
  <2>0. [Test!Idle EXCEPT !.at = "loop"] = r
    BY DEF Test!Idle, Rec
  <2>1. thr' = [thr EXCEPT ![t] = r]
    BY <1>3, <2>0
  <2>2. r \in ThreadNotes /\ r.at = "loop" /\ r.obj = NULL
    BY DEF Rec, ThreadNotes, ThreadAts
  <2> HIDE DEF r
  <2>3. SliceProgress' /\ Counting'
    BY <1>1, <1>2, <2>1, <2>2, ProgressKept, CountingKept
  <2>4. counts' \in [writes : Nat, reads : Nat]
    BY <1>1, <1>2 DEF BagTyped
  <2> QED
    BY <1>1, <1>3, <2>1, <2>2, <2>3, <2>4, HandBack
<1>4. CASE thr' = [thr EXCEPT ![t].at = "put back"] /\ UNCHANGED bag
  <2> DEFINE r == Rec("put back", thr[t].done, thr[t].obj)
  <2>1. thr' = [thr EXCEPT ![t] = r]
    BY <1>2, <1>4, RecIs
  <2>2. r \in ThreadNotes /\ r.at = "put back" /\ r.obj = thr[t].obj
    BY <1>2, RecIs DEF Rec, ThreadNotes, ThreadAts
  <2> HIDE DEF r
  <2> QED
    BY <1>1, <1>2, <1>4, <2>1, <2>2, MovesOn DEF Holding
<1> QED
  BY <1>1, <1>3, <1>4

LEMMA WriterPushKeeps ==
  ASSUME Test!BagTestAssumption, BagInvariant, NEW t \in Hands, Test!WriterPush(t)
  PROVE  BagInvariant'
<1> DEFINE r == Rec("loop", thr[t].done + 1, NULL)
           o == thr[t].obj
<1>1. /\ thr[t].at = "put" /\ UNCHANGED <<kind, sizes, object, objlist, signal, mainAt>>
      /\ bag' = bag \cup {o}
      /\ thr' = [thr EXCEPT ![t] = [at |-> "loop", done |-> @.done + 1, obj |-> NULL]]
      /\ counts' = IF kind = "lstack" THEN [counts EXCEPT !.writes = @ + 1] ELSE counts
  BY DEF Test!WriterPush, Test!At
<1>2. /\ BagTyped /\ Working /\ SliceProgress /\ Counting /\ t[1] = "W" /\ t[2] <= sizes[t[1]]
      /\ InPlaces(objlist["W"], bag, Hand, objlist["R"], object)
  BY <1>1, Awake DEF Working
<1>3. thr' = [thr EXCEPT ![t] = r]
  BY <1>1, <1>2 DEF BagTyped, Rec
<1>4. thr[t].done \in Nat /\ o \in Objs /\ o # NULL
  BY <1>1, <1>2, RecIs DEF Working, Holding
<1>5. r \in ThreadNotes /\ r.at = "loop" /\ r.done = thr[t].done + 1 /\ r.obj = NULL
  BY <1>4 DEF Rec, ThreadNotes, ThreadAts
<1> HIDE DEF r
<1>6. \A u \in Hands : thr'[u] = IF u = t THEN r ELSE thr[u]
  BY <1>2, <1>3, <1>5, OneThread
<1>7. Emptied(t)' = Emptied(t)
  BY <1>1, <1>5, <1>6 DEF Emptied, SlotsFilled
<1>8. SliceProgress'
  BY <1>1, <1>2, <1>3, <1>5, <1>7, ProgressKept
<1>9. counts' \in [writes : Nat, reads : Nat]
  <2>1. counts \in [writes : Nat, reads : Nat]
    BY <1>2 DEF BagTyped
  <2>2. [counts EXCEPT !.writes = @ + 1] \in [writes : Nat, reads : Nat]
    BY <2>1
  <2> QED
    BY <1>1, <2>1, <2>2
<1>10. Counting'
  <2>1. SUFFICES ASSUME kind = "lstack"
                 PROVE  /\ counts'.reads = Cardinality({i \in Objs : objlist["R"][i] # NULL})
                        /\ counts'.writes + Cardinality(Unpushed') = WriteObjects
    BY <1>1 DEF Counting
  <2>2. /\ counts'.reads = counts.reads
        /\ counts'.writes = counts.writes + 1 /\ counts.writes \in Nat
    BY <1>1, <1>2, <2>1 DEF BagTyped
  <2>3. \A u \in Hands : thr[u].obj = o => u = t
    <3>1. Once(objlist["W"], bag, Hand, objlist["R"])
      BY <1>2 DEF InPlaces
    <3>2. \A u \in Hands : Hand[u] = thr[u].obj
      BY DEF Hand
    <3> QED
      BY <1>4, <3>1, <3>2 DEF Once
  <2>4. objlist["W"][o] = NULL
    <3>1. Once(objlist["W"], bag, Hand, objlist["R"]) /\ Hand[t] = o
      BY <1>2 DEF InPlaces, Hand
    <3> QED
      BY <1>4, <3>1 DEF Once
  <2>5. o \in Unpushed
    BY <1>1, <1>4 DEF Unpushed
  <2>6. Unpushed' = Unpushed \ {o}
    <3>1. ASSUME NEW x \in Objs
          PROVE  (\E u \in Hands : thr'[u].at = "put" /\ thr'[u].obj = x)
                 <=> x # o /\ \E u \in Hands : thr[u].at = "put" /\ thr[u].obj = x
      BY <1>1, <1>4, <1>5, <1>6, <2>3
    <3> HIDE DEF o
    <3> QED
      BY <1>1, <2>4, <3>1 DEF Unpushed
  <2>7. IsFiniteSet(Unpushed)
    <3>1. Unpushed \in SUBSET Objs
      BY DEF Unpushed
    <3> QED
      BY <3>1, ObjsFinite, FS_Subset
  <2>8. Cardinality(Unpushed') = Cardinality(Unpushed) - 1 /\ Cardinality(Unpushed) \in Nat
    BY <2>5, <2>6, <2>7, FS_RemoveElement, FS_CardinalityType
  <2> QED
    BY <1>2, <2>1, <2>2, <2>8 DEF Counting
<1> HIDE DEF o
<1> QED
  BY <1>1, <1>3, <1>5, <1>8, <1>9, <1>10, HandBack DEF o

LEMMA ReaderNoteKeeps ==
  ASSUME Test!BagTestAssumption, BagInvariant, NEW t \in Hands, Test!ReaderNote(t)
  PROVE  BagInvariant'
<1> DEFINE d == thr[t].done
           o == thr[t].obj
           i == First(t) + (d + 1)
           r == Rec("loop", d + 1, NULL)
           R == objlist["R"]
           x == Test!Marked(object[o], t)
<1>1. /\ thr[t].at = "note" /\ UNCHANGED <<kind, sizes, bag, signal, mainAt>>
      /\ object' = [object EXCEPT ![o] = Test!Marked(@, t)]
      /\ objlist' = [objlist EXCEPT !["R"][Test!Slot(t)] = o]
      /\ thr' = [thr EXCEPT ![t] = [at |-> "loop", done |-> @.done + 1, obj |-> NULL]]
      /\ counts' = IF kind = "lstack" THEN [counts EXCEPT !.reads = @ + 1] ELSE counts
  BY DEF Test!ReaderNote, Test!At
<1>2. /\ ~Resting /\ BagTyped /\ Working /\ SliceProgress /\ Counting /\ t[1] = "R"
      /\ t[2] <= sizes[t[1]] /\ InPlaces(objlist["W"], bag, Hand, objlist["R"], object)
  BY <1>1, Awake DEF Working
<1>3. d \in Nat /\ o \in Objs /\ o # NULL
  BY <1>1, <1>2, RecIs DEF Working, Holding
<1>4. d < Share(t) /\ SlotsFilled(t) = d
  BY <1>1, <1>2 DEF SliceProgress, SlotsFilled
<1>5. Share(t) \in Nat /\ First(t) \in Nat /\ d + 1 \in 1 .. Share(t)
  BY <1>2, <1>3, <1>4, ShareIs
<1>6. i \in Objs /\ Test!Slot(t) = i
  BY <1>2, <1>5, ShareIs
<1>7. R[i] = NULL
  <2>1. ~(d + 1 <= d)
    BY <1>3
  <2> QED
    BY <1>2, <1>4, <1>5, <2>1 DEF SliceProgress
<1>8. thr' = [thr EXCEPT ![t] = r]
  BY <1>1, <1>2 DEF BagTyped, Rec
<1>9. r \in ThreadNotes /\ r.at = "loop" /\ r.done = d + 1 /\ r.obj = NULL
  BY <1>3 DEF Rec, ThreadNotes, ThreadAts
<1> HIDE DEF r
<1>10. \A u \in Hands : thr'[u] = IF u = t THEN r ELSE thr[u]
  BY <1>2, <1>8, <1>9, OneThread
<1>11. R \in Spots /\ objlist \in [{"R", "W"} -> Spots]
  BY <1>2 DEF BagTyped
<1>12. /\ objlist' = [objlist EXCEPT !["R"] = [R EXCEPT ![i] = o]]
       /\ objlist'["R"] = [R EXCEPT ![i] = o] /\ objlist'["W"] = objlist["W"]
       /\ [R EXCEPT ![i] = o] \in Spots
  BY <1>1, <1>3, <1>6, <1>11 DEF Spots
<1>13. objlist' \in [{"R", "W"} -> Spots]
  BY <1>11, <1>12
<1>14. \A k \in Objs : objlist'["R"][k] = IF k = i THEN o ELSE R[k]
  BY <1>11, <1>12 DEF Spots
<1>15. InPlaces(objlist'["W"], bag', Hand', objlist'["R"], object')
  <2>1. object \in [Objs -> Notes] /\ object[o] \in Notes /\ RecordLength \in Nat \ {0}
    BY <1>2, <1>3, BagNumbers DEF InPlaces
  <2>2. x = WithMark(object[o], "R")
    BY <1>2 DEF Test!Marked, WithMark
  <2>3. x \in Notes /\ x.record = [object[o].record EXCEPT ![object[o].index] = "R"]
    BY <2>1, <2>2, MarkedIs
  <2>4. Written(object[o]) => ReadOnce(x)
    BY <2>1, <2>3, ReaderMarks
  <2>5. object' = [object EXCEPT ![o] = x]
    BY <1>1, <2>1
  <2>6. Hand' = [Hand EXCEPT ![t] = NULL] /\ Hand[t] = o
    BY <1>2, <1>8, <1>9, OneThread
  <2> HIDE DEF x, o, i, R
  <2>7. InPlaces(objlist["W"], bag, [Hand EXCEPT ![t] = NULL],
                 [objlist["R"] EXCEPT ![i] = Hand[t]], [object EXCEPT ![Hand[t]] = x])
    BY <1>2, <1>3, <1>6, <2>3, <2>4, <2>6, HandToSlot, BagNumbers
  <2> QED
    BY <1>1, <1>12, <2>5, <2>6, <2>7 DEF R
<1>16. SliceProgress'
  <2>1. \A u \in Hands : Share(u)' = Share(u) /\ First(u)' = First(u)
    BY <1>1 DEF Share, First
  <2>2. \A u \in Hands \ {t} : SlotsFilled(u)' = SlotsFilled(u) /\ Emptied(u)' = Emptied(u)
    BY <1>10, <2>1 DEF SlotsFilled, Emptied
  <2>3. SlotsFilled(t)' = d + 1
    BY <1>9, <1>10 DEF SlotsFilled
  <2> SUFFICES ASSUME NEW u \in Hands, u[2] <= sizes[u[1]]
               PROVE  /\ u[1] = "R" =>
                           /\ SlotsFilled(u)' \in 0 .. Share(u)
                           /\ thr'[u].at = "note" => thr'[u].done < Share(u)
                           /\ \A j \in 1 .. Share(u) :
                                 objlist'["R"][First(u) + j] # NULL <=> j <= SlotsFilled(u)'
                      /\ u[1] = "W" =>
                           /\ Emptied(u)' \in 0 .. Share(u)
                           /\ \A j \in 1 .. Share(u) :
                                 objlist["W"][First(u) + j] # NULL <=> j > Emptied(u)'
    BY <1>1, <1>12, <2>1 DEF SliceProgress
  <2>4. CASE u = t
    <3>1. SlotsFilled(u)' \in 0 .. Share(u)
      BY <1>5, <2>3, <2>4
    <3>2. thr'[u].at # "note" /\ u[1] # "W"
      BY <1>2, <1>9, <1>10, <2>4
    <3>3. ASSUME NEW j \in 1 .. Share(t)
          PROVE  objlist'["R"][First(t) + j] # NULL <=> j <= d + 1
      <4>1. First(t) + j \in Objs /\ (R[First(t) + j] # NULL <=> j <= d)
        BY <1>2, <1>4, ShareIs DEF SliceProgress
      <4>2. First(t) + j = i <=> j = d + 1
        BY <1>3, <1>5
      <4> QED
        BY <1>3, <1>5, <1>14, <4>1, <4>2
    <3> QED
      BY <2>3, <2>4, <3>1, <3>2, <3>3
  <2>5. CASE u # t /\ u[1] = "R"
    <3>1. \A j \in 1 .. Share(u) : First(u) + j # i
      BY <1>2, <1>5, <2>5, SlotsApart
    <3>2. \A j \in 1 .. Share(u) : First(u) + j \in Objs
      BY <1>2, ShareIs
    <3>3. \A j \in 1 .. Share(u) : objlist'["R"][First(u) + j] = R[First(u) + j]
      BY <1>14, <3>1, <3>2
    <3> QED
      BY <1>2, <1>10, <2>2, <2>5, <3>3 DEF SliceProgress
  <2>6. CASE u # t /\ u[1] # "R"
    BY <1>2, <2>2, <2>6 DEF SliceProgress
  <2> QED
    BY <2>4, <2>5, <2>6
<1>17. counts' \in [writes : Nat, reads : Nat]
  <2>1. counts \in [writes : Nat, reads : Nat]
    BY <1>2 DEF BagTyped
  <2>2. [counts EXCEPT !.reads = @ + 1] \in [writes : Nat, reads : Nat]
    BY <2>1
  <2> QED
    BY <1>1, <2>1, <2>2
<1>18. Counting'
  <2> SUFFICES ASSUME kind = "lstack"
               PROVE  /\ counts'.reads = Cardinality({k \in Objs : objlist'["R"][k] # NULL})
                      /\ counts'.writes + Cardinality(Unpushed') = WriteObjects
    BY <1>1 DEF Counting
  <2>1. counts'.reads = counts.reads + 1 /\ counts'.writes = counts.writes /\ counts.reads \in Nat
    BY <1>1, <1>2 DEF BagTyped
  <2>2. Unpushed' = Unpushed
    <3>1. ASSUME NEW k \in Objs
          PROVE  (\E u \in Hands : thr'[u].at = "put" /\ thr'[u].obj = k)
                 <=> \E u \in Hands : thr[u].at = "put" /\ thr[u].obj = k
      BY <1>1, <1>9, <1>10
    <3> QED
      BY <1>12, <3>1 DEF Unpushed
  <2> DEFINE F == {k \in Objs : R[k] # NULL}
             G == {k \in Objs : objlist'["R"][k] # NULL}
  <2>3. G = F \cup {i} /\ i \notin F /\ F \in SUBSET Objs
    BY <1>3, <1>6, <1>7, <1>14
  <2>4. IsFiniteSet(F)
    BY <2>3, ObjsFinite, FS_Subset
  <2>5. counts.reads = Cardinality(F) /\ counts.writes + Cardinality(Unpushed) = WriteObjects
    BY <1>2 DEF Counting
  <2> HIDE DEF F, G
  <2>6. Cardinality(G) = Cardinality(F) + 1
    BY <2>3, <2>4, FS_AddElement
  <2> QED
    BY <2>1, <2>2, <2>5, <2>6 DEF G
<1>19. AllFilled => AllFilled'
  BY <1>3, <1>14 DEF AllFilled
<1> QED
  BY <1>1, <1>2, <1>8, <1>9, <1>13, <1>15, <1>16, <1>17, <1>18, <1>19, StepKeeps DEF Holding

LEMMA WriterNoteKeeps ==
  ASSUME Test!BagTestAssumption, BagInvariant, NEW t \in Hands, Test!WriterNote(t)
  PROVE  BagInvariant'
<1> DEFINE d == thr[t].done
           i == First(t) + (d + 1)
           r == Rec("put", d, i)
           W == objlist["W"]
           x == Test!MarkedNext(object[i], t)
<1>1. /\ thr[t].at = "loop" /\ t[1] = "W" /\ d < Test!TargetCapacity(t)
      /\ UNCHANGED <<kind, sizes, bag, signal, counts, mainAt>>
      /\ objlist' = [objlist EXCEPT !["W"][Test!Slot(t)] = NULL]
      /\ object' = [object EXCEPT ![W[Test!Slot(t)]] = Test!MarkedNext(@, t)]
      /\ thr' = [thr EXCEPT ![t].at = "put", ![t].obj = W[Test!Slot(t)]]
  BY DEF Test!WriterNote, Test!At
<1>2. /\ ~Resting /\ BagTyped /\ Working /\ SliceProgress /\ Counting
      /\ t[2] <= sizes[t[1]] /\ InPlaces(objlist["W"], bag, Hand, objlist["R"], object)
  BY <1>1, Awake
<1>3. d \in Nat /\ Emptied(t) = d /\ d < Share(t)
  BY <1>1, <1>2, RecIs, ShareIs DEF Emptied, SlotsFilled
<1>4. Share(t) \in Nat /\ First(t) \in Nat /\ d + 1 \in 1 .. Share(t)
  BY <1>2, <1>3, ShareIs
<1>5. i \in Objs /\ Test!Slot(t) = i /\ i # NULL
  BY <1>2, <1>4, ShareIs, BagNumbers
<1>6. W[i] # NULL
  <2>1. d + 1 > d
    BY <1>3
  <2> QED
    BY <1>1, <1>2, <1>3, <1>4, <2>1 DEF SliceProgress
<1>7. W[i] = i /\ W[Test!Slot(t)] = i
  BY <1>2, <1>5, <1>6 DEF InPlaces
<1>8. thr' = [thr EXCEPT ![t] = r]
  BY <1>1, <1>2, <1>5, <1>7, RecTakes
<1>9. r \in ThreadNotes /\ r.at = "put" /\ r.done = d /\ r.obj = i
  BY <1>3, <1>5 DEF Rec, ThreadNotes, ThreadAts
<1> HIDE DEF r
<1>10. \A u \in Hands : thr'[u] = IF u = t THEN r ELSE thr[u]
  BY <1>2, <1>8, <1>9, OneThread
<1>11. W \in Spots /\ objlist \in [{"R", "W"} -> Spots]
  BY <1>2 DEF BagTyped
<1>12. /\ objlist' = [objlist EXCEPT !["W"] = [W EXCEPT ![i] = NULL]]
       /\ objlist'["W"] = [W EXCEPT ![i] = NULL] /\ objlist'["R"] = objlist["R"]
       /\ [W EXCEPT ![i] = NULL] \in Spots
  BY <1>1, <1>5, <1>11 DEF Spots
<1>13. objlist' \in [{"R", "W"} -> Spots]
  BY <1>11, <1>12
<1>14. \A k \in Objs : objlist'["W"][k] = IF k = i THEN NULL ELSE W[k]
  BY <1>11, <1>12 DEF Spots
<1>15. InPlaces(objlist'["W"], bag', Hand', objlist'["R"], object')
  <2>1. object \in [Objs -> Notes] /\ object[i] \in Notes /\ RecordLength \in Nat \ {0}
    BY <1>2, <1>5, BagNumbers DEF InPlaces
  <2>2. x = [WithMark(object[i], "W") EXCEPT !.index = Advanced(object[i])]
    BY <1>1 DEF Test!MarkedNext, Test!Marked, WithMark, Advanced
  <2>3. x \in Notes /\ x.index = Advanced(object[i])
        /\ x.record = [object[i].record EXCEPT ![object[i].index] = "W"]
    BY <2>1, <2>2, MarkedIs
  <2>4. Unmarked(object[i]) => Written(x)
    BY <2>1, <2>3, WriterMarks, BagNumbers
  <2>5. object' = [object EXCEPT ![i] = x]
    BY <1>1, <1>7, <2>1
  <2>6. objlist["W"][i] = i
    BY <1>7
  <2> HIDE DEF x, i, W
  <2>7. Hand' = [Hand EXCEPT ![t] = i] /\ Hand[t] = NULL
    <3>1. Hand' = [Hand EXCEPT ![t] = i] /\ Hand[t] = thr[t].obj
      BY <1>2, <1>8, <1>9, OneThread
    <3>2. thr[t].obj = NULL
      BY <1>1, <1>2, EmptyHand DEF Holding
    <3> QED
      BY <3>1, <3>2
  <2>8. InPlaces([objlist["W"] EXCEPT ![i] = NULL], bag, [Hand EXCEPT ![t] = i], objlist["R"],
               [object EXCEPT ![i] = x])
    BY <1>2, <1>5, <2>3, <2>4, <2>6, <2>7, SlotToHand, BagNumbers
  <2> QED
    BY <1>1, <1>12, <2>5, <2>7, <2>8 DEF W
<1>16. SliceProgress'
  <2>1. \A u \in Hands : Share(u)' = Share(u) /\ First(u)' = First(u)
    BY <1>1 DEF Share, First
  <2>2. \A u \in Hands \ {t} : SlotsFilled(u)' = SlotsFilled(u) /\ Emptied(u)' = Emptied(u)
    BY <1>10, <2>1 DEF SlotsFilled, Emptied
  <2>3. Emptied(t)' = d + 1
    BY <1>9, <1>10 DEF Emptied
  <2> SUFFICES ASSUME NEW u \in Hands, u[2] <= sizes[u[1]]
               PROVE  /\ u[1] = "R" =>
                           /\ SlotsFilled(u)' \in 0 .. Share(u)
                           /\ thr'[u].at = "note" => thr'[u].done < Share(u)
                           /\ \A j \in 1 .. Share(u) :
                                 objlist["R"][First(u) + j] # NULL <=> j <= SlotsFilled(u)'
                      /\ u[1] = "W" =>
                           /\ Emptied(u)' \in 0 .. Share(u)
                           /\ \A j \in 1 .. Share(u) :
                                 objlist'["W"][First(u) + j] # NULL <=> j > Emptied(u)'
    <3>1. sizes' = sizes /\ objlist'["R"] = objlist["R"]
      BY <1>1, <1>12
    <3> QED
      BY <2>1, <3>1 DEF SliceProgress
  <2>4. CASE u = t
    <3>1. Emptied(u)' \in 0 .. Share(u) /\ u[1] # "R"
      BY <1>1, <1>4, <2>3, <2>4
    <3>2. ASSUME NEW j \in 1 .. Share(t)
          PROVE  objlist'["W"][First(t) + j] # NULL <=> j > d + 1
      <4>1. First(t) + j \in Objs /\ (W[First(t) + j] # NULL <=> j > d)
        BY <1>1, <1>2, <1>3, ShareIs DEF SliceProgress
      <4>2. First(t) + j = i <=> j = d + 1
        BY <1>3, <1>4
      <4> QED
        BY <1>3, <1>4, <1>14, <4>1, <4>2
    <3> QED
      BY <2>3, <2>4, <3>1, <3>2
  <2>5. CASE u # t /\ u[1] = "W"
    <3>1. \A j \in 1 .. Share(u) : First(u) + j # i
      BY <1>1, <1>2, <1>4, <2>5, SlotsApart
    <3>2. \A j \in 1 .. Share(u) : First(u) + j \in Objs
      BY <1>2, ShareIs
    <3>3. \A j \in 1 .. Share(u) : objlist'["W"][First(u) + j] = W[First(u) + j]
      BY <1>14, <3>1, <3>2
    <3> QED
      BY <1>2, <2>2, <2>5, <3>3 DEF SliceProgress
  <2>6. CASE u # t /\ u[1] # "W"
    BY <1>2, <1>10, <2>2, <2>6 DEF SliceProgress
  <2> QED
    BY <2>4, <2>5, <2>6
<1>17. counts' \in [writes : Nat, reads : Nat]
  BY <1>1, <1>2 DEF BagTyped
<1>18. Counting'
  <2>1. Unpushed' = Unpushed
    <3>1. ASSUME NEW k \in Objs
          PROVE  (\E u \in Hands : thr'[u].at = "put" /\ thr'[u].obj = k)
                 <=> k = i \/ \E u \in Hands : thr[u].at = "put" /\ thr[u].obj = k
      BY <1>1, <1>9, <1>10
    <3> HIDE DEF i
    <3> QED
      BY <1>6, <1>14, <3>1 DEF Unpushed
  <2> QED
    BY <1>1, <1>2, <1>12, <2>1 DEF Counting
<1>19. AllFilled => AllFilled'
  BY <1>12 DEF AllFilled
<1> QED
  BY <1>1, <1>2, <1>5, <1>8, <1>9, <1>13, <1>15, <1>16, <1>17, <1>18, <1>19, StepKeeps
  DEF Holding

LEMMA ThreadKeeps ==
  ASSUME Test!BagTestAssumption, BagInvariant, NEW t \in Hands, Test!Thread(t)
  PROVE  BagInvariant'
BY SeeGoKeeps, FinishKeeps, ReaderPopKeeps, ReaderNoteKeeps, WriterNoteKeeps, WriterPushKeeps,
   MeddlerLookKeeps, MeddlerPopKeeps, MeddlerNoteKeeps, MeddlerPushKeeps DEF Test!Thread

-----------------------------------------------------------------------------
(* The main thread.                                                          *)
LEMMA BagInit == ASSUME Test!BagTestAssumption, Test!Init PROVE BagInvariant
<1>1. /\ sizes = [l \in {"R", "W", "M"} |-> 0] /\ bag = {}
      /\ objlist = [l \in {"R", "W"} |-> [i \in Objs |-> NULL]]
      /\ thr = [t \in Hands |-> [at |-> "none", done |-> 0, obj |-> NULL]]
      /\ signal = [go |-> FALSE, stop |-> FALSE] /\ counts = [writes |-> 0, reads |-> 0]
      /\ mainAt = "prep"
  BY BagNumbers DEF Test!Init, Test!Idle
<1>2. Resting
  BY <1>1 DEF Resting
<1>3. thr \in [Hands -> ThreadNotes] /\ objlist \in [{"R", "W"} -> Spots]
  BY <1>1 DEF ThreadNotes, ThreadAts, Spots
<1>4. BagTyped
  BY <1>1, <1>3 DEF BagTyped
<1>5. Phases /\ Working
  BY <1>1, <1>2 DEF Phases, Working, Holding
<1> QED
  BY <1>2, <1>4, <1>5 DEF BagInvariant

\* A round begins with every object in its writer's slot.
LEMMA PrepareKeeps ==
  ASSUME Test!BagTestAssumption, BagInvariant, Test!Prepare
  PROVE  BagInvariant'
<1> DEFINE S == [i \in Objs |-> i]
           E == [i \in Objs |-> NULL]
           begun == [at |-> "start", done |-> 0, obj |-> NULL]
           idle == [at |-> "none", done |-> 0, obj |-> NULL]
           blank == [o \in Objs |-> [object_id |-> o, index |-> 0,
                                     record |-> [i \in Positions |-> NULL]]]
<1>1. PICK round \in Schedule :
         /\ round[1] \in 1 .. MaxThreads /\ round[2] \in 1 .. MaxThreads
         /\ round[3] \in 0 .. MaxThreads /\ mainAt = "prep" /\ mainAt' = "started"
         /\ sizes' = [R |-> round[1], W |-> round[2], M |-> round[3]]
         /\ object' = blank /\ objlist' = [W |-> S, R |-> E]
         /\ thr' = [t \in Hands |-> IF t[2] <= sizes'[t[1]] THEN begun ELSE idle]
         /\ signal' = [go |-> FALSE, stop |-> FALSE]
         /\ UNCHANGED <<kind, bag, counts>>
  <2>1. Test!Blank = blank /\ Test!Idle = idle /\ [Test!Idle EXCEPT !.at = "start"] = begun
    BY BagNumbers DEF Test!Blank, Test!Idle, Positions
  <2>2. PICK round \in Schedule :
           /\ Test!InRange(round) /\ mainAt = "prep" /\ mainAt' = "started"
           /\ sizes' = [R |-> round[1], W |-> round[2], M |-> round[3]]
           /\ object' = Test!Blank
           /\ objlist' = [W |-> [i \in Test!Objects |-> i], R |-> [i \in Test!Objects |-> NULL]]
           /\ thr' = [t \in Test!Threads |-> IF t[2] <= sizes'[t[1]]
                                            THEN [Test!Idle EXCEPT !.at = "start"] ELSE Test!Idle]
           /\ signal' = [go |-> FALSE, stop |-> FALSE]
           /\ UNCHANGED <<kind, bag, counts>>
    BY DEF Test!Prepare, Test!MainAt
  <2>3. /\ round[1] \in 1 .. MaxThreads /\ round[2] \in 1 .. MaxThreads
        /\ round[3] \in 0 .. MaxThreads
    BY <2>2 DEF Test!InRange
  <2>4. objlist' = [W |-> S, R |-> E]
    BY <2>2, BagNumbers
  <2>5. thr' = [t \in Hands |-> IF t[2] <= sizes'[t[1]] THEN begun ELSE idle] /\ object' = blank
    <3>1. Test!Threads = Hands
      BY BagNumbers
    <3> HIDE DEF blank, begun, idle
    <3> QED
      BY <2>1, <2>2, <3>1
  <2> HIDE DEF blank, begun, idle, S, E
  <2> QED
    BY <2>2, <2>3, <2>4, <2>5
<1>2. BagTyped /\ Phases /\ Resting
  BY <1>1 DEF BagInvariant, Resting
<1>3. bag' = {} /\ counts' = [writes |-> 0, reads |-> 0] /\ ~Resting'
  BY <1>1, <1>2 DEF Phases, Resting
<1>4. /\ sizes'["R"] = round[1] /\ sizes'["W"] = round[2] /\ sizes'["M"] = round[3]
      /\ sizes' \in [{"R", "W", "M"} -> Nat]
  BY <1>1, BagNumbers
<1>5. /\ objlist'["R"] = E /\ objlist'["W"] = S /\ S \in Spots /\ E \in Spots
      /\ objlist' \in [{"R", "W"} -> Spots]
  BY <1>1 DEF Spots
<1>6. /\ \A t \in Hands : thr'[t] \in {begun, idle} /\ (thr'[t] = begun => t[2] <= sizes'[t[1]])
      /\ begun \in ThreadNotes /\ idle \in ThreadNotes
  BY <1>1 DEF ThreadNotes, ThreadAts
<1>7. \A t \in Hands : /\ thr'[t].at \in {"none", "start"}
                       /\ thr'[t].done = 0 /\ thr'[t].obj = NULL
                       /\ thr'[t].at = "start" => t[2] <= sizes'[t[1]]
  BY <1>6
<1>8. thr' \in [Hands -> ThreadNotes]
  BY <1>1, <1>6
<1> HIDE DEF begun, idle
<1>9. BagTyped'
  BY <1>1, <1>3, <1>4, <1>5, <1>8 DEF BagTyped
<1>10. Phases'
  BY <1>1, <1>3, <1>4 DEF Phases
<1>11. Working'
  BY <1>7 DEF Working, Holding
<1>12. InPlaces(objlist'["W"], bag', Hand', objlist'["R"], object')
  <2>1. Hand' = [t \in Hands |-> NULL]
    BY <1>7 DEF Hand
  <2>2. blank \in [Objs -> Notes] /\ \A o \in Objs : Unmarked(blank[o])
    <3>1. ASSUME NEW o \in Objs PROVE blank[o] \in Notes /\ Unmarked(blank[o])
      <4>1. 0 \in Positions /\ o \in Nat
        BY BagNumbers DEF Positions, Objs
      <4> QED
        BY <4>1 DEF Notes, Unmarked
    <3> QED
      BY <3>1
  <2> HIDE DEF blank
  <2>3. InPlaces(S, {}, [t \in Hands |-> NULL], E, blank)
    BY <1>5, <2>2, BagNumbers DEF InPlaces, Once, MarksFit
  <2> QED
    BY <1>1, <1>3, <1>5, <2>1, <2>3
<1>13. SliceProgress'
  <2> SUFFICES ASSUME NEW t \in Hands, t[2] <= sizes'[t[1]]
               PROVE  /\ SlotsFilled(t)' \in 0 .. Share(t)' /\ Emptied(t)' \in 0 .. Share(t)'
                      /\ thr'[t].at # "note"
                      /\ \A j \in 1 .. Share(t)' :
                            /\ objlist'["R"][First(t)' + j] # NULL <=> j <= SlotsFilled(t)'
                            /\ objlist'["W"][First(t)' + j] # NULL <=> j > Emptied(t)'
    BY DEF SliceProgress
  <2>1. SlotsFilled(t)' = 0 /\ Emptied(t)' = 0 /\ thr'[t].at # "note"
    BY <1>7 DEF SlotsFilled, Emptied
  <2>2. Share(t)' \in Nat /\ \A j \in 1 .. Share(t)' : First(t)' + j \in Objs
    <3>1. sizes'[t[1]] \in Nat \ {0} /\ t[2] \in 1 .. sizes'[t[1]]
      <4>1. sizes'[t[1]] \in Nat /\ t[2] \in 1 .. MaxThreads
        BY <1>4, BagNumbers
      <4> QED
        BY <4>1
    <3>2. /\ SliceSize(t[2], sizes'[t[1]]) \in Nat
          /\ \A j \in 1 .. SliceSize(t[2], sizes'[t[1]]) :
                SliceStart(t[2], sizes'[t[1]]) + j \in Objs
      BY <3>1, SliceIn, BagNumbers DEF Objs
    <3> QED
      BY <3>2 DEF Share, First
  <2>3. \A k \in Objs : objlist'["R"][k] = NULL /\ objlist'["W"][k] # NULL
    BY <1>5, BagNumbers
  <2> QED
    BY <2>1, <2>2, <2>3
<1>14. Counting'
  <2>1. {i \in Objs : objlist'["R"][i] # NULL} = {}
    BY <1>5
  <2>2. Unpushed' = Objs
    BY <1>5, BagNumbers DEF Unpushed
  <2>3. counts'.reads = 0 /\ counts'.writes = 0
    BY <1>3
  <2> QED
    BY <2>1, <2>2, <2>3, ObjsFinite, FS_EmptySet, BagNumbers DEF Counting
<1> QED
  BY <1>3, <1>9, <1>10, <1>11, <1>12, <1>13, <1>14 DEF BagInvariant

\* A step of the main thread that leaves the objects and the threads alone.
LEMMA MainMoves ==
  ASSUME BagInvariant, Phases',
         mainAt' \in {"join writers", "join readers", "join meddlers", "validate"},
         ~Resting, signal' \in [go : BOOLEAN, stop : BOOLEAN],
         UNCHANGED <<kind, sizes, bag, object, objlist, thr, counts>>
  PROVE  BagInvariant'
<1>1. BagTyped' /\ ~Resting'
  BY DEF BagInvariant, BagTyped, Resting
<1>2. Hand' = Hand /\ InPlaces(objlist["W"], bag, Hand, objlist["R"], object)
  BY DEF Hand, BagInvariant
<1>3. InPlaces(objlist'["W"], bag', Hand', objlist'["R"], object')
  BY <1>2
<1>4. Working'
  BY DEF BagInvariant, Working
<1>5. SliceProgress'
  BY DEF BagInvariant, SliceProgress, SlotsFilled, Emptied, Share, First
<1>6. Counting'
  BY DEF BagInvariant, Counting, Unpushed
<1> QED
  BY <1>1, <1>3, <1>4, <1>5, <1>6 DEF BagInvariant

LEMMA ExitedIsOut ==
  ASSUME Test!BagTestAssumption, BagInvariant, NEW l \in {"R", "W", "M"}, Test!Exited(l)
  PROVE  Out(l) /\ \A i \in 1 .. sizes[l] : thr[<<l, i>>].at = "exit"
<1>1. \A i \in 1 .. sizes[l] : thr[<<l, i>>].at = "exit"
  BY DEF Test!Exited, Test!At
<1>2. ASSUME NEW t \in Hands, t[1] = l, thr[t].at # "none" PROVE thr[t].at = "exit"
  <2>1. t[2] <= sizes[l] /\ t = <<l, t[2]>> /\ t[2] \in 1 .. MaxThreads
    BY <1>2, BagNumbers DEF BagInvariant, Working
  <2>2. sizes[l] \in Nat
    BY DEF BagInvariant, BagTyped
  <2>3. t[2] \in 1 .. sizes[l]
    BY <2>1, <2>2, BagNumbers
  <2> QED
    BY <1>1, <2>1, <2>3
<1> QED
  BY <1>1, <1>2 DEF Out

LEMMA JoinsKeep ==
  ASSUME Test!BagTestAssumption, BagInvariant,
         Test!SignalGo \/ Test!JoinWriters \/ Test!SignalStop \/ Test!JoinMeddlers
  PROVE  BagInvariant'
<1>1. CASE Test!SignalGo
  <2>1. /\ mainAt = "started" /\ mainAt' = "join writers" /\ signal' = [signal EXCEPT !.go = TRUE]
        /\ UNCHANGED <<kind, sizes, bag, object, objlist, thr, counts>>
    BY <1>1 DEF Test!SignalGo, Test!MainAt
  <2>2. ~Resting /\ ~signal.stop
    BY <2>1 DEF BagInvariant, Phases, Resting
  <2>3. signal' \in [go : BOOLEAN, stop : BOOLEAN] /\ ~signal'.stop
    BY <2>1, <2>2 DEF BagInvariant, BagTyped
  <2>4. Phases'
    BY <2>1, <2>2, <2>3 DEF BagInvariant, Phases, Resting
  <2> QED
    BY <2>1, <2>2, <2>3, <2>4, MainMoves
<1>2. CASE Test!JoinWriters
  <2>1. /\ mainAt = "join writers" /\ mainAt' = "join readers" /\ Out("W")
        /\ UNCHANGED <<kind, sizes, bag, object, objlist, thr, signal, counts>>
    BY <1>2, ExitedIsOut DEF Test!JoinWriters, Test!MainAt
  <2>2. ~Resting /\ ~signal.stop /\ signal' \in [go : BOOLEAN, stop : BOOLEAN] /\ Out("W")'
    BY <2>1 DEF BagInvariant, Phases, Resting, BagTyped, Out
  <2>3. Phases'
    BY <2>1, <2>2 DEF BagInvariant, Phases, Resting
  <2> QED
    BY <2>1, <2>2, <2>3, MainMoves
<1>3. CASE Test!SignalStop
  <2>1. /\ mainAt = "join readers" /\ mainAt' = "join meddlers" /\ Out("R")
        /\ signal' = [signal EXCEPT !.stop = TRUE]
        /\ UNCHANGED <<kind, sizes, bag, object, objlist, thr, counts>>
        /\ \A i \in 1 .. sizes["R"] : thr[<<"R", i>>].at = "exit"
    BY <1>3, ExitedIsOut DEF Test!SignalStop, Test!MainAt
  <2>2. ~Resting /\ signal' \in [go : BOOLEAN, stop : BOOLEAN]
    BY <2>1 DEF BagInvariant, BagTyped, Resting
  <2>3. AllFilled
    BY <2>1, <2>2, AllThrough DEF BagInvariant, Phases
  <2>4. AllFilled' /\ Out("R")' /\ Out("W")'
    BY <2>1, <2>3 DEF AllFilled, Out, BagInvariant, Phases
  <2>5. Phases'
    BY <2>1, <2>2, <2>4 DEF BagInvariant, Phases, Resting
  <2> QED
    BY <2>1, <2>2, <2>5, MainMoves
<1>4. CASE Test!JoinMeddlers
  <2>1. /\ mainAt = "join meddlers" /\ mainAt' = "validate" /\ Out("M")
        /\ signal' = [go |-> FALSE, stop |-> FALSE]
        /\ UNCHANGED <<kind, sizes, bag, object, objlist, thr, counts>>
    BY <1>4, ExitedIsOut DEF Test!JoinMeddlers, Test!MainAt
  <2>2. ~Resting /\ signal' \in [go : BOOLEAN, stop : BOOLEAN] /\ ~signal'.stop
    BY <2>1 DEF Resting
  <2>3. AllFilled' /\ Out("R")' /\ Out("W")' /\ Out("M")'
    BY <2>1 DEF AllFilled, Out, BagInvariant, Phases
  <2>4. Phases'
    BY <2>1, <2>2, <2>3 DEF BagInvariant, Phases, Resting
  <2> QED
    BY <2>1, <2>2, <2>4, MainMoves
<1> QED
  BY <1>1, <1>2, <1>3, <1>4

\* What validate() finds.
LEMMA AllValid ==
  ASSUME Test!BagTestAssumption, BagInvariant, mainAt = "validate"
  PROVE  /\ Test!Validated
         /\ kind = "lstack" => Test!Counted /\ \A o \in Objs : Test!Explained(o)
         /\ bag = {} /\ \A t \in Hands : thr[t].at \in {"none", "exit"} /\ thr[t].obj = NULL
<1>1. ~Resting /\ AllFilled /\ Out("R") /\ Out("W") /\ Out("M") /\ BagTyped /\ Counting
  BY DEF BagInvariant, Phases, Resting
<1>2. InPlaces(objlist["W"], bag, Hand, objlist["R"], object)
  BY <1>1 DEF BagInvariant
<1>3. /\ bag = {} /\ \A t \in Hands : Hand[t] = NULL
      /\ \A o \in Objs : objlist["W"][o] = NULL /\ ReadOnce(object[o])
      /\ IsInjective(objlist["R"])
  BY <1>1, <1>2, AllRead, BagNumbers DEF AllFilled
<1>4. \A t \in Hands : thr[t].at \in {"none", "exit"} /\ thr[t].obj = NULL
  BY <1>1, <1>3, BagNumbers DEF Hand, Out
<1>5. ASSUME NEW o \in Objs
      PROVE  /\ Test!Marks(o, "W") <= 1 /\ Test!Marks(o, "R") = 1
             /\ Test!Marks(o, "W") = 1 \/ Test!Marks(o, "R") + Test!Marks(o, "M") = RecordLength
  <2>1. object[o] \in Notes /\ DOMAIN object[o].record = Positions
    BY <1>2 DEF InPlaces, Notes
  <2>2. \A l : Test!Marks(o, l) = Cardinality({i \in Positions : object[o].record[i] = l})
    BY <2>1, BagCounts DEF Test!Marks
  <2> DEFINE marks(l) == Cardinality({i \in Positions : object[o].record[i] = l})
  <2>3. /\ marks("W") <= 1 /\ marks("R") = 1
        /\ marks("W") = 1 \/ marks("R") + marks("M") = RecordLength
    BY <1>3, <2>1, MarksCounted, BagNumbers
  <2>4. /\ Test!Marks(o, "W") = marks("W") /\ Test!Marks(o, "R") = marks("R")
        /\ Test!Marks(o, "M") = marks("M")
    BY <2>2
  <2> HIDE DEF marks
  <2> QED
    BY <2>3, <2>4
<1>6. Test!Validated
  BY <1>1, <1>3, <1>5, BagCounts, BagNumbers DEF Test!Validated, AllFilled
<1>7. ASSUME kind = "lstack" PROVE Test!Counted /\ \A o \in Objs : Test!Explained(o)
  <2>1. {i \in Objs : objlist["R"][i] # NULL} = Objs
    BY <1>1 DEF AllFilled
  <2>2. Unpushed = {}
    BY <1>3, <1>4 DEF Unpushed
  <2>3. counts.reads = WriteObjects /\ counts.writes + 0 = WriteObjects
    BY <1>1, <1>7, <2>1, <2>2, ObjsFinite, FS_EmptySet DEF Counting
  <2>4. counts = [writes |-> WriteObjects, reads |-> WriteObjects]
    BY <1>1, <2>3 DEF BagTyped
  <2> QED
    BY <1>5, <2>4 DEF Test!Counted, Test!Explained
<1> QED
  BY <1>3, <1>4, <1>6, <1>7

LEMMA ValidateKeeps ==
  ASSUME Test!BagTestAssumption, BagInvariant, Test!Validate
  PROVE  BagInvariant'
<1>1. mainAt = "validate"
  BY DEF Test!Validate
<1>2. /\ mainAt' \in {"prep", "ended"} /\ counts' = [writes |-> 0, reads |-> 0]
      /\ UNCHANGED <<kind, sizes, bag, objlist, thr, signal>>
  BY <1>1, AllValid, BagNumbers DEF Test!Validate
<1>3. ~signal.stop /\ Resting'
  BY <1>1, <1>2 DEF BagInvariant, Phases, Resting
<1>4. BagTyped'
  BY <1>2 DEF BagInvariant, BagTyped
<1>5. Phases'
  BY <1>1, <1>2, <1>3, AllValid DEF Phases, Resting
<1>6. Working'
  BY <1>2 DEF BagInvariant, Working
<1> QED
  BY <1>3, <1>4, <1>5, <1>6 DEF BagInvariant

LEMMA RefuseKeeps ==
  ASSUME BagInvariant, Test!Refuse
  PROVE  BagInvariant'
<1>1. /\ mainAt = "prep" /\ mainAt' \in {"prep", "ended"}
      /\ UNCHANGED <<kind, sizes, bag, object, objlist, thr, signal, counts>>
  BY DEF Test!Refuse, Test!MainAt
<1>2. Resting /\ Resting'
  BY <1>1 DEF Resting
<1>3. BagTyped' /\ Working' /\ Phases'
  BY <1>1, <1>2 DEF BagInvariant, BagTyped, Working, Phases
<1> QED
  BY <1>2, <1>3 DEF BagInvariant

LEMMA BagStep ==
  ASSUME Test!BagTestAssumption, BagInvariant, [Test!Next]_(Test!bagTestVars)
  PROVE  BagInvariant'
<1>1. CASE Test!Main
  BY <1>1, PrepareKeeps, RefuseKeeps, JoinsKeep, ValidateKeeps DEF Test!Main
<1>2. CASE \E t \in Test!Threads : Test!Thread(t)
  BY <1>2, ThreadKeeps, BagNumbers
<1>3. CASE UNCHANGED Test!bagTestVars
  <2>1. UNCHANGED <<kind, sizes, bag, object, objlist, thr, signal, counts, mainAt>>
    BY <1>3 DEF Test!bagTestVars
  <2>2. BagTyped' /\ Working' /\ Phases'
    BY <2>1 DEF BagInvariant, BagTyped, Working, Phases, Resting, Out, AllFilled
  <2>3. Hand' = Hand /\ (Resting' <=> Resting)
    BY <2>1 DEF Hand, Resting
  <2>4. ASSUME ~Resting PROVE InPlaces(objlist'["W"], bag', Hand', objlist'["R"], object')
    BY <2>1, <2>3, <2>4 DEF BagInvariant
  <2>5. ASSUME ~Resting PROVE SliceProgress' /\ Counting'
    BY <2>1, <2>5 DEF BagInvariant, SliceProgress, SlotsFilled, Emptied, Share, First,
                      Counting, Unpushed
  <2> QED
    BY <2>2, <2>3, <2>4, <2>5 DEF BagInvariant
<1> QED
  BY <1>1, <1>2, <1>3 DEF Test!Next

\* For any numbers of objects, readers, writers and meddlers, any ring of marks and any
\* rounds: over a container that keeps what it is given the round's verdict is good, the
\* container is empty at its end, and no meddler is left with an object when the signal
\* to stop is given (testlib_stack.c and its copies).
THEOREM VerdictsGood == Test!BagTestAssumption => (Test!Spec => []Test!VerdictGood)
<1> SUFFICES ASSUME Test!BagTestAssumption PROVE Test!Spec => []Test!VerdictGood
  OBVIOUS
<1>1. Test!Init => BagInvariant
  BY BagInit
<1>2. BagInvariant /\ [Test!Next]_(Test!bagTestVars) => BagInvariant'
  BY BagStep
<1>3. BagInvariant => Test!VerdictGood
  <2> SUFFICES ASSUME BagInvariant PROVE Test!VerdictGood
    OBVIOUS
  <2>1. mainAt # "failed"
    BY DEF BagInvariant, BagTyped
  <2>2. mainAt \in {"validate", "prep", "ended"} => bag = {}
    BY AllValid DEF BagInvariant, Phases, Resting
  <2>3. signal.stop => \A t \in Test!Threads : thr[t].obj = NULL
    BY StopIsLate, BagNumbers
  <2> QED
    BY <2>1, <2>2, <2>3 DEF Test!VerdictGood
<1> QED
  BY <1>1, <1>2, <1>3, PTL DEF Test!Spec
=============================================================================
