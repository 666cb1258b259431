---------------------------- MODULE ThreadPoolProofs ----------------------------
(***************************************************************************)
(* Theorems of ThreadPool, for any number of clients, tasks and threads,   *)
(* any configuration and any number of failing pthread_create calls.       *)
(***************************************************************************)
EXTENDS ThreadPool, Basics

-----------------------------------------------------------------------------
(* Counting.                                                                *)
LEMMA CrowdsFinite ==
  /\ IsFiniteSet(Workers) /\ IsFiniteSet(Callers)
  /\ \A S : S \subseteq Workers \/ S \subseteq Callers => IsFiniteSet(S) /\ Cardinality(S) \in Nat
<1>1. IsFiniteSet(Workers)
  BY ConfigAssumption, FS_Interval DEF Workers
<1>2. IsFiniteSet(Callers)
  BY FiniteAssumption, FS_AddElement DEF Callers
<1> QED
  BY <1>1, <1>2, FS_Subset, FS_CardinalityType

Done == In({"done"})

(* A step of one thread moves it, and nobody else, between the sets that    *)
(* the counters count.                                                      *)
LEMMA WorkerMoves ==
  ASSUME NEW w \in Workers, \A v \in Workers \ {w} : worker'[v] = worker[v]
  PROVE  /\ Cardinality(Active)' + One(w \in Active) = Cardinality(Active) + One(w \in Active')
         /\ Cardinality(Idle)' + One(w \in Idle) = Cardinality(Idle) + One(w \in Idle')
         /\ Cardinality(Live)' + One(w \in Live) = Cardinality(Live) + One(w \in Live')
         /\ Cardinality(Done)' + One(w \in Done) = Cardinality(Done) + One(w \in Done')
<1>1. /\ Active \ {w} = Active' \ {w}
      /\ Idle \ {w} = Idle' \ {w}
      /\ Live \ {w} = Live' \ {w}
      /\ Done \ {w} = Done' \ {w}
  BY DEF Active, Idle, Live, Done, In
<1>2. IsFiniteSet(Active) /\ IsFiniteSet(Idle) /\ IsFiniteSet(Live) /\ IsFiniteSet(Done)
  BY CrowdsFinite DEF Active, Idle, Live, Done, In
<1> QED
  BY <1>1, <1>2, DifferInOne

LEMMA CallerMoves ==
  ASSUME NEW c \in Callers, \A d \in Callers \ {c} : caller'[d] = caller[d]
  PROVE  Cardinality(Starting)' + One(c \in Starting) = Cardinality(Starting) + One(c \in Starting')
<1>1. Starting \ {c} = Starting' \ {c}
  BY DEF Starting
<1>2. IsFiniteSet(Starting)
  BY CrowdsFinite DEF Starting
<1> QED
  BY <1>1, <1>2, DifferInOne

LEMMA Sizes ==
  /\ Cardinality(Active) \in Nat /\ Cardinality(Idle) \in Nat /\ Cardinality(Live) \in Nat
  /\ Cardinality(Done) \in Nat /\ Cardinality(Starting) \in Nat
BY CrowdsFinite DEF Active, Idle, Live, Done, Starting, In

(* Whoever is counted makes the counter positive.                           *)
LEMMA Counted ==
  ASSUME TypeOK, Counters
  PROVE  /\ \A w \in Active : tp.active > 0
         /\ \A w \in Idle : tp.idle > 0
         /\ \A c \in Starting : tp.created > 0
<1>1. \A S, x : IsFiniteSet(S) /\ x \in S => Cardinality(S) # 0
  BY FS_EmptySet
<1>2. IsFiniteSet(Active) /\ IsFiniteSet(Idle) /\ IsFiniteSet(Starting)
  BY CrowdsFinite DEF Active, Idle, Starting, In
<1>3. /\ tp.active = Cardinality(Active) /\ tp.idle = Cardinality(Idle)
      /\ tp.created = tp.destroyed + Cardinality(Live) + Cardinality(Starting) + fails
      /\ tp.destroyed \in Nat /\ fails \in Nat
  BY ConfigAssumption DEF Counters, TypeOK
<1>4. /\ \A w \in Active : Cardinality(Active) # 0
      /\ \A w \in Idle : Cardinality(Idle) # 0
      /\ \A c \in Starting : Cardinality(Starting) # 0
  BY <1>1, <1>2
<1> QED
  BY <1>3, <1>4, Sizes

-----------------------------------------------------------------------------
(* What threads hold at each place.                                         *)

\* A worker holds a task while it executes it, and counts a streak of tasks
\* only between its first task and its report to the statistics.
WorkerLocals == \A w \in Workers :
    /\ worker[w].task # NULL <=> worker[w].pc \in {"leaveIdle", "run"}
    /\ worker[w].pc \notin {"pop", "run", "streakEnds"} => worker[w].busy = 0
    /\ worker[w].pc \in {"none", "begin", "countActive", "countIdle"} => worker[w].sum = 0

\* A task is offered by the clients that are in run; Main offers none.
CallerLocals == \A c \in Callers :
    /\ caller[c].pc = "push" => caller[c].task # NULL
    /\ caller[c].task # NULL => c # Main /\ caller[c].pc \notin {"idle", "setMin"}

\* The types of struct lam_thread_pool and of the threads' locals, by name.
TpType == [created : Nat, destroyed : Nat, tasks : Nat, active : Nat, idle : Nat,
           runningId : Nat, drain : BOOLEAN, min : Nat \ {0}, max : Nat,
           timeout : BOOLEAN, lazy : BOOLEAN, busySum : Nat]
WorkerPlaces == {"none", "begin", "countActive", "countIdle", "pop", "leaveIdle", "run",
                 "streakEnds", "checkDrain", "checkStop", "fold", "endIdle", "endActive",
                 "end", "done"}
WorkerType == [pc : WorkerPlaces, id : Nat, task : Tasks \cup {NULL}, busy : Nat, sum : Nat,
               slept : BOOLEAN]
CallerPlaces == {"idle", "start", "startRead", "startIncLate", "undo", "pthread", "push",
                 "setMin"}
CallerType == [pc : CallerPlaces, task : Tasks \cup {NULL}, seen : Nat, left : Nat]
RestTyped ==
    /\ queue \in SUBSET Tasks
    /\ phase \in {"create", "abandon", "abandonWait", "failed", "open", "drain", "closed"}
    /\ fails \in 0 .. EventLimit /\ sets \in 0 .. EventLimit
    /\ accepted \in SUBSET Tasks /\ refused \in SUBSET Tasks
    /\ ran \in [Tasks -> Nat]
    /\ maxSeen \in Nat

LEMMA TypeParts ==
  TypeOK <=> /\ tp \in TpType /\ worker \in [Workers -> WorkerType]
             /\ caller \in [Callers -> CallerType] /\ RestTyped
BY DEF TypeOK, TpType, WorkerType, WorkerPlaces, CallerType, CallerPlaces, RestTyped

CountInvariant == TypeOK /\ Counters /\ WorkerLocals /\ CallerLocals

LEMMA InitCounts == Init => CountInvariant
<1> SUFFICES ASSUME Init PROVE CountInvariant
  OBVIOUS
<1>1. TypeOK
  BY ConfigAssumption, NamesAssumption DEF Init, TypeOK
<1>2. WorkerLocals /\ CallerLocals
  BY NamesAssumption DEF Init, WorkerLocals, CallerLocals
<1>3. Active = {} /\ Idle = {} /\ Live = {} /\ Done = {} /\ Starting = {}
  BY DEF Init, Active, Idle, Live, Done, Starting, In
<1>4. Counters
  <2>1. tp.active = 0 /\ tp.idle = 0 /\ tp.destroyed = 0 /\ tp.created = 0 /\ fails = 0
    BY DEF Init
  <2>2. Cardinality({}) = 0
    BY FS_EmptySet
  <2> QED
    BY <1>3, <2>1, <2>2 DEF Counters, Done
<1> QED
  BY <1>1, <1>2, <1>4 DEF CountInvariant

(* lam_thread_pool_start_thread returns to run, to the setter or to create. *)
LEMMA AfterStartFacts ==
  ASSUME TypeOK, NEW c \in Callers, NEW success \in BOOLEAN, AfterStart(c, success)
  PROVE  /\ \A d \in Callers \ {c} : caller'[d] = caller[d]
         /\ caller'[c].pc \in {"push", "start", "idle"}
         /\ caller'[c].pc = "push" <=> caller[c].task # NULL /\ success
         /\ caller'[c].task = IF success THEN caller[c].task ELSE NULL
         /\ refused' = IF success THEN refused ELSE refused \cup ({caller[c].task} \ {NULL})
         /\ phase' \in {phase, "abandon", "open"}
         /\ phase' # phase => c = Main
         /\ caller' \in [Callers -> CallerType]
         /\ caller'[c].task # NULL => caller'[c].pc = "push"
<1> DEFINE me == caller[c]
           more == me.left > 1 /\ (success \/ c # Main)
           now == [pc |-> IF me.task # NULL /\ success THEN "push"
                          ELSE IF more THEN "start" ELSE "idle",
                   task |-> IF success THEN me.task ELSE NULL,
                   seen |-> 0,
                   left |-> IF more THEN me.left - 1 ELSE 0]
<1>1. /\ caller' = [caller EXCEPT ![c] = now]
      /\ phase' = IF c = Main /\ ~success THEN "abandon"
                  ELSE IF c = Main /\ ~more THEN "open" ELSE phase
      /\ refused' = IF success THEN refused ELSE refused \cup ({me.task} \ {NULL})
  BY DEF AfterStart
<1>2. /\ now.pc \in {"push", "start", "idle"}
      /\ now.pc = "push" <=> me.task # NULL /\ success
      /\ now.task = IF success THEN me.task ELSE NULL
      /\ now.task # NULL => now.pc = "push"
  OBVIOUS
<1>3. now \in CallerType
  <2>1. me.left \in Nat /\ me.task \in Tasks \cup {NULL}
    BY DEF TypeOK
  <2>2. (IF more THEN me.left - 1 ELSE 0) \in Nat
    BY <2>1
  <2> QED
    BY <2>1, <2>2 DEF CallerType, CallerPlaces
<1> HIDE DEF now, more
<1>4. caller'[c] = now /\ \A d \in Callers \ {c} : caller'[d] = caller[d]
  BY <1>1 DEF TypeOK
<1>5. caller' \in [Callers -> CallerType]
  BY <1>1, <1>3, TypeParts
<1> QED
  BY <1>1, <1>2, <1>4, <1>5


(* Who changes the record of the pool, and how: no counter goes below zero. *)
LEMMA TpStep == ASSUME CountInvariant, [Next]_vars PROVE tp' \in TpType
  <2>0. tp \in TpType /\ TypeOK /\ Counters /\ WorkerLocals
    BY TypeParts DEF CountInvariant
  <2> USE ConfigAssumption
  <2>1. CASE UNCHANGED vars
    BY <2>0, <2>1 DEF vars
  <2>2. ASSUME NEW w \in Workers, WorkerBegin(w) PROVE tp' \in TpType
    BY <2>2, <2>0 DEF WorkerBegin, TpType
  <2>3. ASSUME NEW w \in Workers, WorkerCountActive(w) PROVE tp' \in TpType
    BY <2>3, <2>0 DEF WorkerCountActive, TpType
  <2>4. ASSUME NEW w \in Workers, WorkerCountIdle(w) PROVE tp' \in TpType
    BY <2>4, <2>0 DEF WorkerCountIdle, TpType
  <2>5. ASSUME NEW w \in Workers, WorkerLeaveIdle(w) PROVE tp' \in TpType
    <3>1. w \in Idle
      BY <2>5, <2>0 DEF WorkerLeaveIdle, WorkerAt, WorkerLocals, Idle, Active, In
    <3>2. tp.idle > 0
      BY <2>0, <3>1, Counted
    <3> QED
      BY <2>5, <2>0, <3>2 DEF WorkerLeaveIdle, TpType
  <2>6. ASSUME NEW w \in Workers, WorkerStreakEnds(w) PROVE tp' \in TpType
    BY <2>6, <2>0 DEF WorkerStreakEnds, TpType
  <2>7. ASSUME NEW w \in Workers, WorkerFold(w) PROVE tp' \in TpType
    <3>1. worker[w].sum \in Nat
      BY <2>0 DEF TypeOK
    <3> QED
      BY <2>7, <2>0, <3>1 DEF WorkerFold, TpType
  <2>8. ASSUME NEW w \in Workers, WorkerEndIdle(w) PROVE tp' \in TpType
    <3>1. w \in Idle
      BY <2>8, <2>0 DEF WorkerEndIdle, WorkerAt, WorkerLocals, Idle, Active, In
    <3>2. tp.idle > 0
      BY <2>0, <3>1, Counted
    <3> QED
      BY <2>8, <2>0, <3>2 DEF WorkerEndIdle, TpType
  <2>9. ASSUME NEW w \in Workers, WorkerEndActive(w) PROVE tp' \in TpType
    <3>1. w \in Active
      BY <2>9 DEF WorkerEndActive, WorkerAt, Active, In
    <3>2. tp.active > 0
      BY <2>0, <3>1, Counted
    <3> QED
      BY <2>9, <2>0, <3>2 DEF WorkerEndActive, TpType
  <2>10. ASSUME NEW w \in Workers, WorkerEnd(w) PROVE tp' \in TpType
    BY <2>10, <2>0 DEF WorkerEnd, TpType
  <2>11. ASSUME NEW w \in Workers,
               \/ WorkerPop(w) \/ WorkerRun(w) \/ WorkerPopNothing(w)
               \/ WorkerCheckDrain(w) \/ WorkerCheckStop(w)
        PROVE  tp' \in TpType
    BY <2>11, <2>0 DEF WorkerPop, WorkerRun, WorkerPopNothing, WorkerCheckDrain,
       WorkerCheckStop, Sleep
  <2>12. ASSUME NEW c \in Callers, StartInc(c) PROVE tp' \in TpType
    BY <2>12, <2>0 DEF StartInc, TpType
  <2>13. ASSUME NEW c \in Callers, StartIncLate(c) PROVE tp' \in TpType
    BY <2>13, <2>0 DEF StartIncLate, TpType
  <2>14. ASSUME NEW c \in Callers, StartUndo(c) PROVE tp' \in TpType
    <3>1. c \in Starting
      BY <2>14 DEF StartUndo, CallerAt, Starting
    <3>2. tp.created > 0
      BY <2>0, <3>1, Counted
    <3> QED
      BY <2>14, <2>0, <3>2 DEF StartUndo, TpType
  <2>15. ASSUME NEW c \in Callers,
               \/ StartRead(c) \/ StartReadFirst(c) \/ StartThread(c) \/ StartFail(c)
               \/ RunPush(c) \/ RunFull(c) \/ SetMinLoop(c)
        PROVE  tp' \in TpType
    BY <2>15, <2>0 DEF StartRead, StartReadFirst, StartThread, StartFail, RunPush,
       CallReturns, RunFull, SetMinLoop
  <2>16. ASSUME NEW c \in Clients, RunCall(c) PROVE tp' \in TpType
    BY <2>16, <2>0 DEF RunCall, TpType
  <2>17. ASSUME NEW c \in Clients, SetMin(c) PROVE tp' \in TpType
    BY <2>17, <2>0 DEF SetMin, SetCall, TpType
  <2>18. ASSUME NEW c \in Clients, SetMax(c) PROVE tp' \in TpType
    BY <2>18, <2>0 DEF SetMax, SetCall, TpType
  <2>19. ASSUME NEW c \in Clients, SetIdleTimeout(c) PROVE tp' \in TpType
    BY <2>19, <2>0 DEF SetIdleTimeout, SetCall, TpType
  <2>20. ASSUME NEW c \in Clients, RunRefuse(c) PROVE tp' \in TpType
    BY <2>20, <2>0 DEF RunRefuse
  <2>21. CASE Destroy
    BY <2>21, <2>0 DEF Destroy, TpType
  <2>22. CASE CreateDrain
    BY <2>22, <2>0 DEF CreateDrain, TpType
  <2>23. CASE CreateFree \/ DestroyFree
    BY <2>23, <2>0 DEF CreateFree, DestroyFree
  <2> QED
    BY <2>1, <2>2, <2>3, <2>4, <2>5, <2>6, <2>7, <2>8, <2>9, <2>10, <2>11, <2>12, <2>13,
       <2>14, <2>15, <2>16, <2>17, <2>18, <2>19, <2>20, <2>21, <2>22, <2>23
       DEF Next, Call, CallerStep, Start, WorkerStep, MainWait

LEMMA WorkerTypeStep == ASSUME CountInvariant, [Next]_vars PROVE worker' \in [Workers -> WorkerType]
  <2>0. worker \in [Workers -> WorkerType] /\ tp \in TpType /\ queue \in SUBSET Tasks
    BY TypeParts DEF CountInvariant, RestTyped
  <2> USE ConfigAssumption
  <2>1. CASE UNCHANGED vars
    BY <2>0, <2>1 DEF vars
  <2>2. ASSUME NEW w \in Workers, WorkerBegin(w) PROVE worker' \in [Workers -> WorkerType]
    <3>1. tp.runningId \in Nat
      BY <2>0 DEF TpType
    <3> DEFINE n == tp.runningId
    <3>2. worker' = [worker EXCEPT ![w].pc = "countActive", ![w].id = n]
      BY <2>2 DEF WorkerBegin
    <3>3. n \in Nat
      BY <3>1
    <3> HIDE DEF n
    <3> DEFINE now == [worker[w] EXCEPT !.pc = "countActive", !.id = n]
    <3>4. now \in WorkerType
      BY <2>0, <3>3 DEF WorkerType, WorkerPlaces
    <3>5. worker' = [worker EXCEPT ![w] = now]
      BY <2>0, <3>2
    <3> HIDE DEF now
    <3> QED
      BY <2>0, <3>4, <3>5
  <2>3. ASSUME NEW w \in Workers, WorkerCountActive(w) PROVE worker' \in [Workers -> WorkerType]
    BY <2>3, <2>0 DEF WorkerCountActive, WorkerGoto, WorkerType, WorkerPlaces
  <2>4. ASSUME NEW w \in Workers, WorkerCountIdle(w) PROVE worker' \in [Workers -> WorkerType]
    BY <2>4, <2>0 DEF WorkerCountIdle, WorkerGoto, WorkerType, WorkerPlaces
  <2>5. ASSUME NEW w \in Workers, WorkerPop(w) PROVE worker' \in [Workers -> WorkerType]
    <3> DEFINE place == IF worker[w].busy = 0 THEN "leaveIdle" ELSE "run"
    <3>1. PICK t \in Tasks : worker' = [worker EXCEPT ![w].task = t, ![w].pc = place]
      BY <2>5, <2>0 DEF WorkerPop
    <3>2. place \in WorkerPlaces
      BY DEF WorkerPlaces
    <3> HIDE DEF place
    <3> QED
      BY <2>0, <3>1, <3>2 DEF WorkerType
  <2>6. ASSUME NEW w \in Workers, WorkerLeaveIdle(w) PROVE worker' \in [Workers -> WorkerType]
    BY <2>6, <2>0 DEF WorkerLeaveIdle, WorkerGoto, WorkerType, WorkerPlaces
  <2>7. ASSUME NEW w \in Workers, WorkerRun(w) PROVE worker' \in [Workers -> WorkerType]
    BY <2>7, <2>0 DEF WorkerRun, WorkerGoto, WorkerType, WorkerPlaces
  <2>8. ASSUME NEW w \in Workers, WorkerPopNothing(w) PROVE worker' \in [Workers -> WorkerType]
    BY <2>8, <2>0 DEF WorkerPopNothing, WorkerGoto, WorkerType, WorkerPlaces
  <2>9. ASSUME NEW w \in Workers, WorkerStreakEnds(w) PROVE worker' \in [Workers -> WorkerType]
    <3> DEFINE total == worker[w].sum + worker[w].busy
    <3>1. total \in Nat
      BY <2>0 DEF WorkerType
    <3>2. worker' = [worker EXCEPT ![w].pc = "checkDrain", ![w].busy = 0, ![w].sum = total]
      BY <2>9, <2>0 DEF WorkerStreakEnds, WorkerType
    <3> DEFINE now == [worker[w] EXCEPT !.pc = "checkDrain", !.busy = 0, !.sum = total]
    <3> HIDE DEF total
    <3>3. now \in WorkerType
      BY <2>0, <3>1 DEF WorkerType, WorkerPlaces
    <3>4. worker' = [worker EXCEPT ![w] = now]
      BY <2>0, <3>2
    <3> HIDE DEF now
    <3> QED
      BY <2>0, <3>3, <3>4
  <2>10. ASSUME NEW w \in Workers, WorkerCheckDrain(w) PROVE worker' \in [Workers -> WorkerType]
    BY <2>10, <2>0 DEF WorkerCheckDrain, WorkerGoto, WorkerType, WorkerPlaces
  <2>11. ASSUME NEW w \in Workers, WorkerCheckStop(w) PROVE worker' \in [Workers -> WorkerType]
    BY <2>11, <2>0 DEF WorkerCheckStop, Sleep, WorkerGoto, WorkerType, WorkerPlaces
  <2>12. ASSUME NEW w \in Workers, WorkerFold(w) PROVE worker' \in [Workers -> WorkerType]
    BY <2>12, <2>0 DEF WorkerFold, WorkerGoto, WorkerType, WorkerPlaces
  <2>13. ASSUME NEW w \in Workers, WorkerEndIdle(w) PROVE worker' \in [Workers -> WorkerType]
    BY <2>13, <2>0 DEF WorkerEndIdle, WorkerGoto, WorkerType, WorkerPlaces
  <2>14. ASSUME NEW w \in Workers, WorkerEndActive(w) PROVE worker' \in [Workers -> WorkerType]
    BY <2>14, <2>0 DEF WorkerEndActive, WorkerGoto, WorkerType, WorkerPlaces
  <2>15. ASSUME NEW w \in Workers, WorkerEnd(w) PROVE worker' \in [Workers -> WorkerType]
    BY <2>15, <2>0 DEF WorkerEnd, WorkerGoto, WorkerType, WorkerPlaces
  <2>16. ASSUME NEW c \in Callers, StartThread(c) PROVE worker' \in [Workers -> WorkerType]
    BY <2>16, <2>0 DEF StartThread, WorkerType, WorkerPlaces
  <2>17. ASSUME NEW c \in Callers,
               \/ StartInc(c) \/ StartRead(c) \/ StartReadFirst(c) \/ StartIncLate(c)
               \/ StartUndo(c) \/ StartFail(c) \/ RunPush(c) \/ RunFull(c)
               \/ SetMinLoop(c)
        PROVE  worker' \in [Workers -> WorkerType]
    BY <2>17, <2>0 DEF StartInc, StartRead, StartReadFirst, StartIncLate, StartUndo,
       StartFail, RunPush, CallReturns, RunFull, SetMinLoop, history
  <2>18. ASSUME NEW c \in Clients,
               \/ RunCall(c) \/ RunRefuse(c) \/ SetMin(c) \/ SetMax(c)
               \/ SetIdleTimeout(c)
        PROVE  worker' \in [Workers -> WorkerType]
    BY <2>18, <2>0 DEF RunCall, RunRefuse, SetMin, SetCall, SetMax, SetIdleTimeout, history
  <2>19. CASE Destroy \/ CreateDrain \/ CreateFree \/ DestroyFree
    BY <2>19, <2>0 DEF Destroy, CreateDrain, CreateFree, DestroyFree, history
  <2> QED
    BY <2>1, <2>2, <2>3, <2>4, <2>5, <2>6, <2>7, <2>8, <2>9, <2>10, <2>11, <2>12, <2>13,
       <2>14, <2>15, <2>16, <2>17, <2>18, <2>19
       DEF Next, Call, CallerStep, Start, WorkerStep, MainWait

(* A step of a caller leaves its record a record of a caller.               *)
LEMMA GotoTyped ==
  ASSUME caller \in [Callers -> CallerType], NEW c \in Callers, NEW p \in CallerPlaces,
         CallerGoto(c, p)
  PROVE  caller' \in [Callers -> CallerType]
<1>1. [caller[c] EXCEPT !.pc = p] \in CallerType
  BY DEF CallerType
<1> QED
  BY <1>1 DEF CallerGoto

LEMMA RecordTyped ==
  ASSUME caller \in [Callers -> CallerType], NEW c \in Callers, NEW r \in CallerType,
         caller' = [caller EXCEPT ![c] = r]
  PROVE  caller' \in [Callers -> CallerType]
OBVIOUS

LEMMA ReturnTyped ==
  ASSUME caller \in [Callers -> CallerType], NEW c \in Callers, CallReturns(c)
  PROVE  caller' \in [Callers -> CallerType]
<1>1. [caller[c] EXCEPT !.pc = "idle", !.task = NULL] \in CallerType
  BY DEF CallerType, CallerPlaces
<1> QED
  BY <1>1 DEF CallReturns

LEMMA CallerTypeStep == ASSUME CountInvariant, [Next]_vars PROVE caller' \in [Callers -> CallerType]
  <2>0. caller \in [Callers -> CallerType] /\ tp \in TpType /\ TypeOK
    BY TypeParts DEF CountInvariant
  <2>1. CASE UNCHANGED vars
    BY <2>0, <2>1 DEF vars
  <2>2. ASSUME NEW w \in Workers,
               \/ WorkerBegin(w) \/ WorkerCountActive(w) \/ WorkerCountIdle(w)
               \/ WorkerPop(w) \/ WorkerLeaveIdle(w) \/ WorkerRun(w)
               \/ WorkerPopNothing(w) \/ WorkerStreakEnds(w) \/ WorkerCheckDrain(w)
               \/ WorkerCheckStop(w) \/ WorkerFold(w) \/ WorkerEndIdle(w)
               \/ WorkerEndActive(w) \/ WorkerEnd(w)
        PROVE  caller' \in [Callers -> CallerType]
    <3>1. caller' = caller
      BY <2>2 DEF WorkerBegin, WorkerCountActive, WorkerCountIdle, WorkerPop,
         WorkerLeaveIdle, WorkerRun, WorkerPopNothing, WorkerStreakEnds, WorkerCheckDrain,
         WorkerCheckStop, Sleep, WorkerFold, WorkerEndIdle, WorkerEndActive, WorkerEnd,
         Others, history
    <3> QED
      BY <2>0, <3>1
  <2>3. ASSUME NEW c \in Callers, StartInc(c) PROVE caller' \in [Callers -> CallerType]
    <3> DEFINE r == [caller[c] EXCEPT !.pc = "startRead", !.seen = tp.created]
    <3>1. r \in CallerType
      <4>1. caller[c] \in CallerType /\ tp.created \in Nat /\ "startRead" \in CallerPlaces
        BY <2>0 DEF TpType, CallerPlaces
      <4> QED
        BY <4>1 DEF CallerType
    <3>2. caller' = [caller EXCEPT ![c] = r]
      BY <2>0, <2>3 DEF StartInc
    <3> HIDE DEF r
    <3> QED
      BY <2>0, <3>1, <3>2, RecordTyped
  <2>4. ASSUME NEW c \in Callers, StartRead(c) PROVE caller' \in [Callers -> CallerType]
    <3>1. PICK p \in CallerPlaces : CallerGoto(c, p)
      BY <2>4 DEF StartRead, CallerPlaces
    <3> QED
      BY <2>0, <3>1, GotoTyped
  <2>5. ASSUME NEW c \in Callers, StartReadFirst(c) PROVE caller' \in [Callers -> CallerType]
    <3> DEFINE r == [caller[c] EXCEPT !.pc = "startIncLate", !.seen = tp.destroyed]
    <3>1. r \in CallerType
      <4>1. caller[c] \in CallerType /\ tp.destroyed \in Nat /\ "startIncLate" \in CallerPlaces
        BY <2>0 DEF TpType, CallerPlaces
      <4> QED
        BY <4>1 DEF CallerType
    <3>2. caller' = [caller EXCEPT ![c] = r]
      BY <2>0, <2>5 DEF StartReadFirst
    <3> HIDE DEF r
    <3> QED
      BY <2>0, <3>1, <3>2, RecordTyped
  <2>6. ASSUME NEW c \in Callers, StartIncLate(c) PROVE caller' \in [Callers -> CallerType]
    <3>1. PICK p \in CallerPlaces : CallerGoto(c, p)
      BY <2>6 DEF StartIncLate, CallerPlaces
    <3> QED
      BY <2>0, <3>1, GotoTyped
  <2>7. ASSUME NEW c \in Callers, StartUndo(c) PROVE caller' \in [Callers -> CallerType]
    BY <2>7, <2>0, AfterStartFacts DEF StartUndo
  <2>8. ASSUME NEW c \in Callers, StartThread(c) PROVE caller' \in [Callers -> CallerType]
    BY <2>8, <2>0, AfterStartFacts DEF StartThread
  <2>9. ASSUME NEW c \in Callers, StartFail(c) PROVE caller' \in [Callers -> CallerType]
    BY <2>9, <2>0, AfterStartFacts DEF StartFail
  <2>10. ASSUME NEW c \in Callers, RunPush(c) PROVE caller' \in [Callers -> CallerType]
    BY <2>10, <2>0, ReturnTyped DEF RunPush
  <2>11. ASSUME NEW c \in Callers, RunFull(c) PROVE caller' \in [Callers -> CallerType]
    BY <2>11, <2>0, ReturnTyped DEF RunFull
  <2>12. ASSUME NEW c \in Callers, SetMinLoop(c) PROVE caller' \in [Callers -> CallerType]
    <3> DEFINE missing == IF tp.active < caller[c].left THEN caller[c].left - tp.active ELSE 0
    <3>1. missing \in Nat
      BY <2>0 DEF CallerType, TpType
    <3>2. caller' = [caller EXCEPT ![c].pc = IF missing > 0 THEN "start" ELSE "idle",
                                   ![c].left = missing]
      BY <2>12 DEF SetMinLoop
    <3> DEFINE place == IF missing > 0 THEN "start" ELSE "idle"
    <3>3. place \in CallerPlaces
      BY DEF CallerPlaces
    <3> HIDE DEF missing, place
    <3>4. caller' = [caller EXCEPT ![c].pc = place, ![c].left = missing]
      BY <3>2 DEF place
    <3> QED
      BY <2>0, <3>1, <3>3, <3>4 DEF CallerType
  <2>13. ASSUME NEW c \in Clients, RunCall(c) PROVE caller' \in [Callers -> CallerType]
    BY <2>13, <2>0 DEF RunCall, Unscheduled, Callers, CallerType, CallerPlaces
  <2>14. ASSUME NEW c \in Clients, SetMin(c) PROVE caller' \in [Callers -> CallerType]
    <3>1. c \in Callers
      BY DEF Callers
    <3>2. PICK n \in Nat :
              caller' = caller \/ caller' = [caller EXCEPT ![c].pc = "setMin", ![c].left = n]
      BY <2>14, ConfigAssumption DEF SetMin
    <3> QED
      BY <2>0, <3>1, <3>2 DEF CallerType, CallerPlaces
  <2>15. ASSUME NEW c \in Clients,
               \/ RunRefuse(c) \/ SetMax(c) \/ SetIdleTimeout(c)
        PROVE  caller' \in [Callers -> CallerType]
    BY <2>15, <2>0 DEF RunRefuse, SetMax, SetCall, SetIdleTimeout, Others, history
  <2>16. CASE Destroy \/ CreateDrain \/ CreateFree \/ DestroyFree
    BY <2>16, <2>0 DEF Destroy, CreateDrain, CreateFree, DestroyFree, Others, history
  <2> QED
    BY <2>1, <2>2, <2>3, <2>4, <2>5, <2>6, <2>7, <2>8, <2>9, <2>10, <2>11, <2>12, <2>13,
       <2>14, <2>15, <2>16
       DEF Next, Call, CallerStep, Start, WorkerStep, MainWait

LEMMA RestStep == ASSUME CountInvariant, [Next]_vars PROVE RestTyped'
  <2>0. RestTyped /\ TypeOK /\ CallerLocals /\ WorkerLocals
    BY TypeParts DEF CountInvariant
  <2> USE ConfigAssumption
  <2>1. CASE UNCHANGED vars
    BY <2>0, <2>1 DEF vars, RestTyped
  <2>2. ASSUME NEW w \in Workers, WorkerPop(w) PROVE RestTyped'
    BY <2>2, <2>0 DEF WorkerPop, Others, RestTyped
  <2>3. ASSUME NEW w \in Workers, WorkerRun(w) PROVE RestTyped'
    <3> DEFINE t == worker[w].task
    <3>1. ran' = [ran EXCEPT ![t] = ran[t] + 1] /\ ran \in [Tasks -> Nat]
      BY <2>3, <2>0 DEF WorkerRun, RestTyped
    <3>2. t \in Tasks
      BY <2>3, <2>0 DEF WorkerRun, WorkerAt, WorkerLocals, TypeOK
    <3> HIDE DEF t
    <3>3. ran' \in [Tasks -> Nat]
      BY <3>1, <3>2
    <3> QED
      BY <2>3, <2>0, <3>3 DEF WorkerRun, Others, RestTyped
  <2>4. ASSUME NEW w \in Workers,
               \/ WorkerBegin(w) \/ WorkerCountActive(w) \/ WorkerCountIdle(w)
               \/ WorkerLeaveIdle(w) \/ WorkerPopNothing(w) \/ WorkerStreakEnds(w)
               \/ WorkerCheckDrain(w) \/ WorkerCheckStop(w) \/ WorkerFold(w)
               \/ WorkerEndIdle(w) \/ WorkerEndActive(w) \/ WorkerEnd(w)
        PROVE  RestTyped'
    BY <2>4, <2>0 DEF WorkerBegin, WorkerCountActive, WorkerCountIdle, WorkerLeaveIdle,
       WorkerPopNothing, WorkerStreakEnds, WorkerCheckDrain, WorkerCheckStop, Sleep,
       WorkerFold, WorkerEndIdle, WorkerEndActive, WorkerEnd, Others, history, RestTyped
  <2>5. ASSUME NEW c \in Callers, StartUndo(c) PROVE RestTyped'
    BY <2>5, <2>0, AfterStartFacts DEF StartUndo, RestTyped
  <2>6. ASSUME NEW c \in Callers, StartThread(c) PROVE RestTyped'
    BY <2>6, <2>0, AfterStartFacts DEF StartThread, RestTyped
  <2>7. ASSUME NEW c \in Callers, StartFail(c) PROVE RestTyped'
    <3>1. AfterStart(c, FALSE) /\ fails' = fails + 1 /\ fails + sets < EventLimit
          /\ UNCHANGED <<queue, sets, accepted, ran, maxSeen>>
      BY <2>7 DEF StartFail
    <3>2. caller[c].task \in Tasks \cup {NULL} /\ refused \in SUBSET Tasks
      BY <2>0 DEF TypeOK
    <3>5. /\ refused' = refused \cup ({caller[c].task} \ {NULL})
          /\ phase' \in {phase, "abandon", "open"}
      BY <2>0, <3>1, AfterStartFacts
    <3>3. refused' \in SUBSET Tasks /\ phase' \in {phase, "abandon", "open"}
      BY <3>2, <3>5
    <3>4. fails' \in 0 .. EventLimit
      BY <2>0, <3>1 DEF RestTyped
    <3> QED
      BY <2>0, <3>1, <3>3, <3>4 DEF RestTyped
  <2>8. ASSUME NEW c \in Callers, RunPush(c) PROVE RestTyped'
    <3>1. caller[c].task \in Tasks
      BY <2>8, <2>0 DEF RunPush, CallerAt, CallerLocals, TypeOK
    <3> QED
      BY <2>8, <2>0, <3>1 DEF RunPush, RestTyped
  <2>9. ASSUME NEW c \in Callers, RunFull(c) PROVE RestTyped'
    <3>1. caller[c].task \in Tasks
      BY <2>9, <2>0 DEF RunFull, CallerAt, CallerLocals, TypeOK
    <3> QED
      BY <2>9, <2>0, <3>1 DEF RunFull, RestTyped
  <2>10. ASSUME NEW c \in Callers,
               \/ StartInc(c) \/ StartRead(c) \/ StartReadFirst(c) \/ StartIncLate(c)
               \/ SetMinLoop(c)
        PROVE  RestTyped'
    BY <2>10, <2>0 DEF StartInc, StartRead, StartReadFirst, StartIncLate, SetMinLoop,
       Others, history, RestTyped
  <2>11. ASSUME NEW c \in Clients, RunRefuse(c) PROVE RestTyped'
    BY <2>11, <2>0 DEF RunRefuse, Unscheduled, RestTyped
  <2>12. ASSUME NEW c \in Clients, SetMax(c) PROVE RestTyped'
    BY <2>12, <2>0 DEF SetMax, SetCall, RestTyped
  <2>13. ASSUME NEW c \in Clients,
               \/ RunCall(c) \/ SetMin(c) \/ SetIdleTimeout(c)
        PROVE  RestTyped'
    BY <2>13, <2>0 DEF RunCall, SetMin, SetCall, SetIdleTimeout, Others, history, RestTyped
  <2>14. CASE Destroy \/ CreateDrain \/ CreateFree \/ DestroyFree
    BY <2>14, <2>0 DEF Destroy, CreateDrain, CreateFree, DestroyFree, Others, history,
       RestTyped
  <2> QED
    BY <2>1, <2>2, <2>3, <2>4, <2>5, <2>6, <2>7, <2>8, <2>9, <2>10, <2>11, <2>12, <2>13,
       <2>14
       DEF Next, Call, CallerStep, Start, WorkerStep, MainWait

LEMMA TypeStep == ASSUME CountInvariant, [Next]_vars PROVE TypeOK'
<1>1. /\ tp' \in TpType /\ worker' \in [Workers -> WorkerType]
      /\ caller' \in [Callers -> CallerType] /\ RestTyped'
  BY TpStep, WorkerTypeStep, CallerTypeStep, RestStep
<1> QED
  BY <1>1 DEF TypeOK, TpType, WorkerType, WorkerPlaces, CallerType, CallerPlaces, RestTyped


LEMMA WorkerLocalsStep == ASSUME CountInvariant, [Next]_vars PROVE WorkerLocals'
  <2>0. WorkerLocals /\ worker \in [Workers -> WorkerType] /\ queue \in SUBSET Tasks
        /\ tp \in TpType
    BY TypeParts DEF CountInvariant, RestTyped
  <2> USE NamesAssumption
  <2>1. CASE UNCHANGED vars
    BY <2>0, <2>1 DEF vars, WorkerLocals
  <2>2. ASSUME NEW w \in Workers, WorkerBegin(w) PROVE WorkerLocals'
    BY <2>2, <2>0 DEF WorkerBegin, WorkerAt, WorkerGoto, WorkerType, WorkerLocals
  <2>3. ASSUME NEW w \in Workers, WorkerCountActive(w) PROVE WorkerLocals'
    BY <2>3, <2>0 DEF WorkerCountActive, WorkerAt, WorkerGoto, WorkerType, WorkerLocals
  <2>4. ASSUME NEW w \in Workers, WorkerCountIdle(w) PROVE WorkerLocals'
    BY <2>4, <2>0 DEF WorkerCountIdle, WorkerAt, WorkerGoto, WorkerType, WorkerLocals
  <2>5. ASSUME NEW w \in Workers, WorkerPop(w) PROVE WorkerLocals'
    BY <2>5, <2>0 DEF WorkerPop, WorkerAt, WorkerGoto, WorkerType, WorkerLocals
  <2>6. ASSUME NEW w \in Workers, WorkerLeaveIdle(w) PROVE WorkerLocals'
    BY <2>6, <2>0 DEF WorkerLeaveIdle, WorkerAt, WorkerGoto, WorkerType, WorkerLocals
  <2>7. ASSUME NEW w \in Workers, WorkerRun(w) PROVE WorkerLocals'
    BY <2>7, <2>0 DEF WorkerRun, WorkerAt, WorkerGoto, WorkerType, WorkerLocals
  <2>8. ASSUME NEW w \in Workers, WorkerPopNothing(w) PROVE WorkerLocals'
    BY <2>8, <2>0 DEF WorkerPopNothing, WorkerAt, WorkerGoto, WorkerType, WorkerLocals
  <2>9. ASSUME NEW w \in Workers, WorkerStreakEnds(w) PROVE WorkerLocals'
    BY <2>9, <2>0 DEF WorkerStreakEnds, WorkerAt, WorkerGoto, WorkerType, WorkerLocals
  <2>10. ASSUME NEW w \in Workers, WorkerCheckDrain(w) PROVE WorkerLocals'
    BY <2>10, <2>0 DEF WorkerCheckDrain, WorkerAt, WorkerGoto, WorkerType, WorkerLocals
  <2>11. ASSUME NEW w \in Workers, WorkerCheckStop(w) PROVE WorkerLocals'
    BY <2>11, <2>0 DEF WorkerCheckStop, Sleep, WorkerAt, WorkerGoto, WorkerType,
       WorkerLocals
  <2>12. ASSUME NEW w \in Workers, WorkerFold(w) PROVE WorkerLocals'
    BY <2>12, <2>0 DEF WorkerFold, WorkerAt, WorkerGoto, WorkerType, WorkerLocals
  <2>13. ASSUME NEW w \in Workers, WorkerEndIdle(w) PROVE WorkerLocals'
    BY <2>13, <2>0 DEF WorkerEndIdle, WorkerAt, WorkerGoto, WorkerType, WorkerLocals
  <2>14. ASSUME NEW w \in Workers, WorkerEndActive(w) PROVE WorkerLocals'
    BY <2>14, <2>0 DEF WorkerEndActive, WorkerAt, WorkerGoto, WorkerType, WorkerLocals
  <2>15. ASSUME NEW w \in Workers, WorkerEnd(w) PROVE WorkerLocals'
    BY <2>15, <2>0 DEF WorkerEnd, WorkerAt, WorkerGoto, WorkerType, WorkerLocals
  <2>16. ASSUME NEW c \in Callers, StartThread(c) PROVE WorkerLocals'
    BY <2>16, <2>0 DEF StartThread, WorkerType, WorkerLocals
  <2>17. ASSUME NEW c \in Callers,
               \/ StartInc(c) \/ StartRead(c) \/ StartReadFirst(c) \/ StartIncLate(c)
               \/ StartUndo(c) \/ StartFail(c) \/ RunPush(c) \/ RunFull(c)
               \/ SetMinLoop(c)
        PROVE  WorkerLocals'
    BY <2>17, <2>0 DEF StartInc, StartRead, StartReadFirst, StartIncLate, StartUndo,
       StartFail, RunPush, CallReturns, RunFull, SetMinLoop, history, WorkerLocals
  <2>18. ASSUME NEW c \in Clients,
               \/ RunCall(c) \/ RunRefuse(c) \/ SetMin(c) \/ SetMax(c)
               \/ SetIdleTimeout(c)
        PROVE  WorkerLocals'
    BY <2>18, <2>0 DEF RunCall, RunRefuse, SetMin, SetCall, SetMax, SetIdleTimeout, history,
       WorkerLocals
  <2>19. CASE Destroy \/ CreateDrain \/ CreateFree \/ DestroyFree
    BY <2>19, <2>0 DEF Destroy, CreateDrain, CreateFree, DestroyFree, history, WorkerLocals
  <2> QED
    BY <2>1, <2>2, <2>3, <2>4, <2>5, <2>6, <2>7, <2>8, <2>9, <2>10, <2>11, <2>12, <2>13,
       <2>14, <2>15, <2>16, <2>17, <2>18, <2>19
       DEF Next, Call, CallerStep, Start, WorkerStep, MainWait

LEMMA CallerLocalsStep == ASSUME CountInvariant, [Next]_vars PROVE CallerLocals'
  <2>0. CallerLocals /\ caller \in [Callers -> CallerType] /\ TypeOK
    BY TypeParts DEF CountInvariant
  <2> USE NamesAssumption
  <2>1. CASE UNCHANGED vars
    BY <2>0, <2>1 DEF vars, CallerLocals
  <2>2. ASSUME NEW w \in Workers,
               \/ WorkerBegin(w) \/ WorkerCountActive(w) \/ WorkerCountIdle(w)
               \/ WorkerPop(w) \/ WorkerLeaveIdle(w) \/ WorkerRun(w)
               \/ WorkerPopNothing(w) \/ WorkerStreakEnds(w) \/ WorkerCheckDrain(w)
               \/ WorkerCheckStop(w) \/ WorkerFold(w) \/ WorkerEndIdle(w)
               \/ WorkerEndActive(w) \/ WorkerEnd(w)
        PROVE  CallerLocals'
    BY <2>2, <2>0 DEF WorkerBegin, WorkerCountActive, WorkerCountIdle, WorkerPop,
       WorkerLeaveIdle, WorkerRun, WorkerPopNothing, WorkerStreakEnds, WorkerCheckDrain,
       WorkerCheckStop, Sleep, WorkerFold, WorkerEndIdle, WorkerEndActive, WorkerEnd,
       Others, history, CallerLocals
  <2>3. ASSUME NEW c \in Callers, StartInc(c) PROVE CallerLocals'
    BY <2>3, <2>0 DEF StartInc, CallerAt, CallerGoto, CallerType, CallerLocals
  <2>4. ASSUME NEW c \in Callers, StartRead(c) PROVE CallerLocals'
    BY <2>4, <2>0 DEF StartRead, CallerAt, CallerGoto, CallerType, CallerLocals
  <2>5. ASSUME NEW c \in Callers, StartReadFirst(c) PROVE CallerLocals'
    BY <2>5, <2>0 DEF StartReadFirst, CallerAt, CallerGoto, CallerType, CallerLocals
  <2>6. ASSUME NEW c \in Callers, StartIncLate(c) PROVE CallerLocals'
    BY <2>6, <2>0 DEF StartIncLate, CallerAt, CallerGoto, CallerType, CallerLocals
  <2>7. ASSUME NEW c \in Callers, StartUndo(c) PROVE CallerLocals'
    BY <2>7, <2>0, AfterStartFacts DEF StartUndo, CallerLocals
  <2>8. ASSUME NEW c \in Callers, StartThread(c) PROVE CallerLocals'
    <3>1. AfterStart(c, TRUE)
      BY <2>8 DEF StartThread
    <3>2. /\ \A d \in Callers \ {c} : caller'[d] = caller[d]
          /\ caller'[c].task = caller[c].task
          /\ caller'[c].task # NULL => caller'[c].pc = "push"
          /\ caller'[c].pc = "push" => caller[c].task # NULL
      BY <2>0, <3>1, AfterStartFacts
    <3> QED
      BY <2>0, <3>2 DEF CallerLocals
  <2>9. ASSUME NEW c \in Callers, StartFail(c) PROVE CallerLocals'
    BY <2>9, <2>0, AfterStartFacts DEF StartFail, CallerLocals
  <2>10. ASSUME NEW c \in Callers, RunPush(c) PROVE CallerLocals'
    BY <2>10, <2>0 DEF RunPush, CallReturns, CallerAt, CallerGoto, CallerType, CallerLocals
  <2>11. ASSUME NEW c \in Callers, RunFull(c) PROVE CallerLocals'
    BY <2>11, <2>0 DEF RunFull, CallReturns, CallerAt, CallerGoto, CallerType, CallerLocals
  <2>12. ASSUME NEW c \in Callers, SetMinLoop(c) PROVE CallerLocals'
    BY <2>12, <2>0 DEF SetMinLoop, CallerAt, CallerGoto, CallerType, CallerLocals
  <2>13. ASSUME NEW c \in Clients, RunCall(c) PROVE CallerLocals'
    BY <2>13, <2>0 DEF RunCall, CallerAt, Callers, CallerType, CallerLocals, Unscheduled
  <2>14. ASSUME NEW c \in Clients, SetMin(c) PROVE CallerLocals'
    BY <2>14, <2>0 DEF SetMin, SetCall, CallerAt, Callers, CallerType, CallerLocals
  <2>15. ASSUME NEW c \in Clients,
               \/ RunRefuse(c) \/ SetMax(c) \/ SetIdleTimeout(c)
        PROVE  CallerLocals'
    BY <2>15, <2>0 DEF RunRefuse, SetMax, SetCall, SetIdleTimeout, Others, history,
       CallerLocals
  <2>16. CASE Destroy \/ CreateDrain \/ CreateFree \/ DestroyFree
    BY <2>16, <2>0 DEF Destroy, CreateDrain, CreateFree, DestroyFree, Others, history,
       CallerLocals
  <2> QED
    BY <2>1, <2>2, <2>3, <2>4, <2>5, <2>6, <2>7, <2>8, <2>9, <2>10, <2>11, <2>12, <2>13,
       <2>14, <2>15, <2>16
       DEF Next, Call, CallerStep, Start, WorkerStep, MainWait

-----------------------------------------------------------------------------
(* A counter that changes as the size of the set it counts does stays equal.*)
LEMMA StaysEqual ==
  ASSUME NEW n \in Int, NEW n2 \in Int, NEW s \in Int, NEW s2 \in Int, NEW x \in Int, NEW y \in Int,
         n = s, n2 + x = n + y, s2 + x = s + y
  PROVE  n2 = s2
OBVIOUS

LEMMA OneIsInt == ASSUME NEW b PROVE One(b) \in Int
BY DEF One

(* A step of one worker keeps the counters honest if it changes them as it  *)
(* changes its own place.                                                   *)
LEMMA WorkerBalance ==
  ASSUME TypeOK, TypeOK', Counters, NEW w \in Workers,
         \A v \in Workers \ {w} : worker'[v] = worker[v],
         UNCHANGED <<caller, fails>>, tp'.created = tp.created,
         tp'.active + One(w \in Active) = tp.active + One(w \in Active'),
         tp'.idle + One(w \in Idle) = tp.idle + One(w \in Idle'),
         tp'.destroyed + One(w \in Done) = tp.destroyed + One(w \in Done'),
         One(w \in Live') + One(w \in Done') = One(w \in Live) + One(w \in Done)
  PROVE  Counters'
<1>1. /\ Cardinality(Active)' + One(w \in Active) = Cardinality(Active) + One(w \in Active')
      /\ Cardinality(Idle)' + One(w \in Idle) = Cardinality(Idle) + One(w \in Idle')
      /\ Cardinality(Live)' + One(w \in Live) = Cardinality(Live) + One(w \in Live')
      /\ Cardinality(Done)' + One(w \in Done) = Cardinality(Done) + One(w \in Done')
  BY WorkerMoves
<1>2. Starting' = Starting
  BY DEF Starting
<1>3. \A b \in BOOLEAN : One(b) \in {0, 1}
  BY DEF One
<1>4. /\ Cardinality(Active) \in Nat /\ Cardinality(Idle) \in Nat /\ Cardinality(Live) \in Nat
      /\ Cardinality(Done) \in Nat /\ Cardinality(Starting) \in Nat
      /\ Cardinality(Active') \in Nat /\ Cardinality(Idle') \in Nat
      /\ Cardinality(Live') \in Nat /\ Cardinality(Done') \in Nat
  BY CrowdsFinite DEF Active, Idle, Live, Done, Starting, In
<1>5. /\ tp.active \in Nat /\ tp.idle \in Nat /\ tp.destroyed \in Nat /\ tp.created \in Nat
      /\ tp'.active \in Nat /\ tp'.idle \in Nat /\ tp'.destroyed \in Nat
      /\ fails \in Nat
  BY ConfigAssumption DEF TypeOK
<1>6. /\ tp.active = Cardinality(Active) /\ tp.idle = Cardinality(Idle)
      /\ tp.destroyed = Cardinality(Done)
      /\ tp.created = tp.destroyed + Cardinality(Live) + Cardinality(Starting) + fails
  BY DEF Counters, Done
<1>7. tp'.active = Cardinality(Active)'
  BY <1>1, <1>4, <1>5, <1>6, StaysEqual, OneIsInt
<1>8. tp'.idle = Cardinality(Idle)'
  BY <1>1, <1>4, <1>5, <1>6, StaysEqual, OneIsInt
<1>9. tp'.destroyed = Cardinality(Done)'
  BY <1>1, <1>4, <1>5, <1>6, StaysEqual, OneIsInt
<1>10. tp'.created = tp'.destroyed + Cardinality(Live)' + Cardinality(Starting)' + fails'
  <2> DEFINE l == One(w \in Live)  ll == One(w \in Live')
             d == One(w \in Done)  dd == One(w \in Done')
             L == Cardinality(Live)  LL == Cardinality(Live')
  <2>1. l \in Int /\ ll \in Int /\ d \in Int /\ dd \in Int
    BY OneIsInt
  <2>2. L \in Int /\ LL \in Int /\ Cardinality(Starting) \in Int
    BY <1>4
  <2>3. LL + l = L + ll /\ tp'.destroyed + d = tp.destroyed + dd /\ ll + dd = l + d
    BY <1>1
  <2>4. tp'.created = tp.destroyed + L + Cardinality(Starting) + fails
    BY <1>6
  <2> HIDE DEF l, ll, d, dd, L, LL
  <2>5. tp'.created = tp'.destroyed + LL + Cardinality(Starting) + fails
    BY <1>5, <2>1, <2>2, <2>3, <2>4
  <2> QED
    BY <1>2, <2>5 DEF LL
<1> QED
  BY <1>7, <1>8, <1>9, <1>10 DEF Counters, Done

(* The same for a step of one caller, with the threads it starts.           *)
LEMMA CallerBalance ==
  ASSUME TypeOK, TypeOK', Counters, NEW c \in Callers,
         \A d \in Callers \ {c} : caller'[d] = caller[d],
         UNCHANGED worker, tp'.active = tp.active, tp'.idle = tp.idle,
         tp'.destroyed = tp.destroyed,
         tp'.created + One(c \in Starting) + fails = tp.created + One(c \in Starting') + fails'
  PROVE  Counters'
<1>1. Cardinality(Starting)' + One(c \in Starting) = Cardinality(Starting) + One(c \in Starting')
  BY CallerMoves
<1>2. Active' = Active /\ Idle' = Idle /\ Live' = Live /\ Done' = Done
  BY DEF Active, Idle, Live, Done, In
<1>3. \A b \in BOOLEAN : One(b) \in {0, 1}
  BY DEF One
<1>4. Cardinality(Live) \in Nat /\ Cardinality(Starting) \in Nat /\ Cardinality(Starting') \in Nat
  BY CrowdsFinite DEF Live, Starting, In
<1>5. /\ tp.created \in Nat /\ tp.destroyed \in Nat /\ tp'.created \in Nat /\ fails \in Nat
      /\ fails' \in Nat
  BY ConfigAssumption DEF TypeOK
<1>6. tp.created = tp.destroyed + Cardinality(Live) + Cardinality(Starting) + fails
  BY DEF Counters, Done
<1>7. tp'.created = tp'.destroyed + Cardinality(Live)' + Cardinality(Starting)' + fails'
  <2> DEFINE x == One(c \in Starting)  y == One(c \in Starting')
             S == Cardinality(Starting)  SS == Cardinality(Starting')
  <2>1. x \in Int /\ y \in Int
    BY OneIsInt
  <2>2. S \in Int /\ SS \in Int
    BY <1>4
  <2>3. SS + x = S + y /\ tp'.created + x + fails = tp.created + y + fails'
    BY <1>1
  <2>4. tp.created = tp.destroyed + Cardinality(Live) + S + fails
    BY <1>6
  <2> HIDE DEF x, y, S, SS
  <2>5. tp'.created = tp.destroyed + Cardinality(Live) + SS + fails'
    BY <1>4, <1>5, <2>1, <2>2, <2>3, <2>4
  <2> QED
    BY <1>2, <2>5 DEF SS
<1> QED
  BY <1>2, <1>7 DEF Counters, Done

(* A thread that starts takes the place of its increment of threads_created.*)
LEMMA ThreadBalance ==
  ASSUME TypeOK, TypeOK', Counters, NEW c \in Callers, StartThread(c)
  PROVE  Counters'
<1>1. PICK w \in Workers : /\ worker[w].pc = "none"
                           /\ worker' = [worker EXCEPT ![w].pc = "begin"]
  BY DEF StartThread
<1>2. \A v \in Workers \ {w} : worker'[v] = worker[v]
  BY <1>1 DEF TypeOK
<1>3. worker'[w].pc = "begin"
  BY <1>1 DEF TypeOK
<1>4. /\ Active' = Active /\ Idle' = Idle /\ Done' = Done
      /\ w \notin Live /\ w \in Live'
  BY <1>1, <1>2, <1>3 DEF Active, Idle, Live, Done, In
<1>5. Cardinality(Live)' = Cardinality(Live) + 1
  <2>1. Cardinality(Live)' + One(w \in Live) = Cardinality(Live) + One(w \in Live')
    BY <1>2, WorkerMoves
  <2>2. Cardinality(Live) \in Nat /\ Cardinality(Live') \in Nat
    BY CrowdsFinite DEF Live, In
  <2> QED
    BY <1>4, <2>1, <2>2 DEF One
<1>6. Cardinality(Starting)' = Cardinality(Starting) - 1
  <2>1. /\ \A d \in Callers \ {c} : caller'[d] = caller[d]
        /\ caller'[c].pc \in {"push", "start", "idle"}
    BY AfterStartFacts DEF StartThread
  <2>2. c \in Starting /\ c \notin Starting'
    BY <2>1 DEF StartThread, CallerAt, Starting
  <2>3. Cardinality(Starting)' + One(c \in Starting) = Cardinality(Starting) + One(c \in Starting')
    BY <2>1, CallerMoves
  <2>4. Cardinality(Starting) \in Nat /\ Cardinality(Starting') \in Nat
    BY CrowdsFinite DEF Starting
  <2> QED
    BY <2>2, <2>3, <2>4 DEF One
<1>7. UNCHANGED <<tp, fails>>
  BY DEF StartThread
<1>8. /\ tp.created \in Nat /\ tp.destroyed \in Nat /\ fails \in Nat
      /\ Cardinality(Live) \in Nat /\ Cardinality(Starting) \in Nat
  BY Sizes, ConfigAssumption DEF TypeOK
<1> QED
  BY <1>4, <1>5, <1>6, <1>7, <1>8 DEF Counters, Done

LEMMA CountersStep == ASSUME CountInvariant, [Next]_vars PROVE Counters'
  <2>0. TypeOK /\ TypeOK' /\ Counters /\ WorkerLocals
    BY TypeStep DEF CountInvariant
  <2>w. worker \in [Workers -> WorkerType] /\ tp \in TpType /\ caller \in [Callers -> CallerType]
    BY <2>0, TypeParts
  <2> USE ConfigAssumption, NamesAssumption
  <2>1. CASE UNCHANGED vars
    BY <2>0, <2>1 DEF vars, Counters, Active, Idle, Live, Done, Starting, In
  <2>2. ASSUME NEW w \in Workers, WorkerBegin(w) PROVE Counters'
    <3>1. \A v \in Workers \ {w} : worker'[v] = worker[v]
      BY <2>2, <2>w DEF WorkerBegin, WorkerGoto
    <3>2. /\ UNCHANGED <<caller, fails>> /\ tp'.created = tp.created
          /\ tp'.active + One(w \in Active) = tp.active + One(w \in Active')
          /\ tp'.idle + One(w \in Idle) = tp.idle + One(w \in Idle')
          /\ tp'.destroyed + One(w \in Done) = tp.destroyed + One(w \in Done')
          /\ One(w \in Live') + One(w \in Done') = One(w \in Live) + One(w \in Done)
      BY <2>2, <2>0, <2>w DEF WorkerBegin, WorkerGoto, WorkerAt, Others, WorkerType, TpType,
         WorkerLocals, One, Active, Idle, Live, Done, In
    <3> QED
      BY <2>0, <3>1, <3>2, WorkerBalance
  <2>3. ASSUME NEW w \in Workers, WorkerCountActive(w) PROVE Counters'
    <3>1. \A v \in Workers \ {w} : worker'[v] = worker[v]
      BY <2>3, <2>w DEF WorkerCountActive, WorkerGoto
    <3>2. /\ UNCHANGED <<caller, fails>> /\ tp'.created = tp.created
          /\ tp'.active + One(w \in Active) = tp.active + One(w \in Active')
          /\ tp'.idle + One(w \in Idle) = tp.idle + One(w \in Idle')
          /\ tp'.destroyed + One(w \in Done) = tp.destroyed + One(w \in Done')
          /\ One(w \in Live') + One(w \in Done') = One(w \in Live) + One(w \in Done)
      BY <2>3, <2>0, <2>w DEF WorkerCountActive, WorkerGoto, WorkerAt, Others, WorkerType, TpType,
         WorkerLocals, One, Active, Idle, Live, Done, In
    <3> QED
      BY <2>0, <3>1, <3>2, WorkerBalance
  <2>4. ASSUME NEW w \in Workers, WorkerCountIdle(w) PROVE Counters'
    <3>1. \A v \in Workers \ {w} : worker'[v] = worker[v]
      BY <2>4, <2>w DEF WorkerCountIdle, WorkerGoto
    <3>2. /\ UNCHANGED <<caller, fails>> /\ tp'.created = tp.created
          /\ tp'.active + One(w \in Active) = tp.active + One(w \in Active')
          /\ tp'.idle + One(w \in Idle) = tp.idle + One(w \in Idle')
          /\ tp'.destroyed + One(w \in Done) = tp.destroyed + One(w \in Done')
          /\ One(w \in Live') + One(w \in Done') = One(w \in Live) + One(w \in Done)
      BY <2>4, <2>0, <2>w DEF WorkerCountIdle, WorkerGoto, WorkerAt, Others, WorkerType, TpType,
         WorkerLocals, One, Active, Idle, Live, Done, In
    <3> QED
      BY <2>0, <3>1, <3>2, WorkerBalance
  <2>5. ASSUME NEW w \in Workers, WorkerPop(w) PROVE Counters'
    <3>1. \A v \in Workers \ {w} : worker'[v] = worker[v]
      BY <2>5, <2>w DEF WorkerPop, WorkerGoto
    <3>2. /\ UNCHANGED <<caller, fails>> /\ tp'.created = tp.created
          /\ tp'.active + One(w \in Active) = tp.active + One(w \in Active')
          /\ tp'.idle + One(w \in Idle) = tp.idle + One(w \in Idle')
          /\ tp'.destroyed + One(w \in Done) = tp.destroyed + One(w \in Done')
          /\ One(w \in Live') + One(w \in Done') = One(w \in Live) + One(w \in Done)
      BY <2>5, <2>0, <2>w DEF WorkerPop, WorkerGoto, WorkerAt, Others, WorkerType, TpType,
         WorkerLocals, One, Active, Idle, Live, Done, In
    <3> QED
      BY <2>0, <3>1, <3>2, WorkerBalance
  <2>6. ASSUME NEW w \in Workers, WorkerLeaveIdle(w) PROVE Counters'
    <3>1. \A v \in Workers \ {w} : worker'[v] = worker[v]
      BY <2>6, <2>w DEF WorkerLeaveIdle, WorkerGoto
    <3>2. /\ UNCHANGED <<caller, fails>> /\ tp'.created = tp.created
          /\ tp'.active + One(w \in Active) = tp.active + One(w \in Active')
          /\ tp'.idle + One(w \in Idle) = tp.idle + One(w \in Idle')
          /\ tp'.destroyed + One(w \in Done) = tp.destroyed + One(w \in Done')
          /\ One(w \in Live') + One(w \in Done') = One(w \in Live) + One(w \in Done)
      BY <2>6, <2>0, <2>w DEF WorkerLeaveIdle, WorkerGoto, WorkerAt, Others, WorkerType, TpType,
         WorkerLocals, One, Active, Idle, Live, Done, In
    <3> QED
      BY <2>0, <3>1, <3>2, WorkerBalance
  <2>7. ASSUME NEW w \in Workers, WorkerRun(w) PROVE Counters'
    <3>1. \A v \in Workers \ {w} : worker'[v] = worker[v]
      BY <2>7, <2>w DEF WorkerRun, WorkerGoto
    <3>2. /\ UNCHANGED <<caller, fails>> /\ tp'.created = tp.created
          /\ tp'.active + One(w \in Active) = tp.active + One(w \in Active')
          /\ tp'.idle + One(w \in Idle) = tp.idle + One(w \in Idle')
          /\ tp'.destroyed + One(w \in Done) = tp.destroyed + One(w \in Done')
          /\ One(w \in Live') + One(w \in Done') = One(w \in Live) + One(w \in Done)
      BY <2>7, <2>0, <2>w DEF WorkerRun, WorkerGoto, WorkerAt, Others, WorkerType, TpType,
         WorkerLocals, One, Active, Idle, Live, Done, In
    <3> QED
      BY <2>0, <3>1, <3>2, WorkerBalance
  <2>8. ASSUME NEW w \in Workers, WorkerPopNothing(w) PROVE Counters'
    <3>1. \A v \in Workers \ {w} : worker'[v] = worker[v]
      BY <2>8, <2>w DEF WorkerPopNothing, WorkerGoto
    <3>2. /\ UNCHANGED <<caller, fails>> /\ tp'.created = tp.created
          /\ tp'.active + One(w \in Active) = tp.active + One(w \in Active')
          /\ tp'.idle + One(w \in Idle) = tp.idle + One(w \in Idle')
          /\ tp'.destroyed + One(w \in Done) = tp.destroyed + One(w \in Done')
          /\ One(w \in Live') + One(w \in Done') = One(w \in Live) + One(w \in Done)
      BY <2>8, <2>0, <2>w DEF WorkerPopNothing, WorkerGoto, WorkerAt, Others, WorkerType, TpType,
         WorkerLocals, One, Active, Idle, Live, Done, In
    <3> QED
      BY <2>0, <3>1, <3>2, WorkerBalance
  <2>9. ASSUME NEW w \in Workers, WorkerStreakEnds(w) PROVE Counters'
    <3>1. \A v \in Workers \ {w} : worker'[v] = worker[v]
      BY <2>9, <2>w DEF WorkerStreakEnds, WorkerGoto
    <3>2. /\ UNCHANGED <<caller, fails>> /\ tp'.created = tp.created
          /\ tp'.active + One(w \in Active) = tp.active + One(w \in Active')
          /\ tp'.idle + One(w \in Idle) = tp.idle + One(w \in Idle')
          /\ tp'.destroyed + One(w \in Done) = tp.destroyed + One(w \in Done')
          /\ One(w \in Live') + One(w \in Done') = One(w \in Live) + One(w \in Done)
      BY <2>9, <2>0, <2>w DEF WorkerStreakEnds, WorkerGoto, WorkerAt, Others, WorkerType, TpType,
         WorkerLocals, One, Active, Idle, Live, Done, In
    <3> QED
      BY <2>0, <3>1, <3>2, WorkerBalance
  <2>10. ASSUME NEW w \in Workers, WorkerCheckDrain(w) PROVE Counters'
    <3>1. \A v \in Workers \ {w} : worker'[v] = worker[v]
      BY <2>10, <2>w DEF WorkerCheckDrain, WorkerGoto
    <3>2. /\ UNCHANGED <<caller, fails>> /\ tp'.created = tp.created
          /\ tp'.active + One(w \in Active) = tp.active + One(w \in Active')
          /\ tp'.idle + One(w \in Idle) = tp.idle + One(w \in Idle')
          /\ tp'.destroyed + One(w \in Done) = tp.destroyed + One(w \in Done')
          /\ One(w \in Live') + One(w \in Done') = One(w \in Live) + One(w \in Done)
      BY <2>10, <2>0, <2>w DEF WorkerCheckDrain, WorkerGoto, WorkerAt, Others, WorkerType, TpType,
         WorkerLocals, One, Active, Idle, Live, Done, In
    <3> QED
      BY <2>0, <3>1, <3>2, WorkerBalance
  <2>11. ASSUME NEW w \in Workers, WorkerCheckStop(w) PROVE Counters'
    <3>1. \A v \in Workers \ {w} : worker'[v] = worker[v]
      BY <2>11, <2>w DEF WorkerCheckStop, Sleep, WorkerGoto
    <3>2. /\ UNCHANGED <<caller, fails>> /\ tp'.created = tp.created
          /\ tp'.active + One(w \in Active) = tp.active + One(w \in Active')
          /\ tp'.idle + One(w \in Idle) = tp.idle + One(w \in Idle')
          /\ tp'.destroyed + One(w \in Done) = tp.destroyed + One(w \in Done')
          /\ One(w \in Live') + One(w \in Done') = One(w \in Live) + One(w \in Done)
      BY <2>11, <2>0, <2>w DEF WorkerCheckStop, Sleep, WorkerGoto, WorkerAt, Others, WorkerType,
                               TpType,
         WorkerLocals, One, Active, Idle, Live, Done, In
    <3> QED
      BY <2>0, <3>1, <3>2, WorkerBalance
  <2>12. ASSUME NEW w \in Workers, WorkerFold(w) PROVE Counters'
    <3>1. \A v \in Workers \ {w} : worker'[v] = worker[v]
      BY <2>12, <2>w DEF WorkerFold, WorkerGoto
    <3>2. /\ UNCHANGED <<caller, fails>> /\ tp'.created = tp.created
          /\ tp'.active + One(w \in Active) = tp.active + One(w \in Active')
          /\ tp'.idle + One(w \in Idle) = tp.idle + One(w \in Idle')
          /\ tp'.destroyed + One(w \in Done) = tp.destroyed + One(w \in Done')
          /\ One(w \in Live') + One(w \in Done') = One(w \in Live) + One(w \in Done)
      BY <2>12, <2>0, <2>w DEF WorkerFold, WorkerGoto, WorkerAt, Others, WorkerType, TpType,
         WorkerLocals, One, Active, Idle, Live, Done, In
    <3> QED
      BY <2>0, <3>1, <3>2, WorkerBalance
  <2>13. ASSUME NEW w \in Workers, WorkerEndIdle(w) PROVE Counters'
    <3>1. \A v \in Workers \ {w} : worker'[v] = worker[v]
      BY <2>13, <2>w DEF WorkerEndIdle, WorkerGoto
    <3>2. /\ UNCHANGED <<caller, fails>> /\ tp'.created = tp.created
          /\ tp'.active + One(w \in Active) = tp.active + One(w \in Active')
          /\ tp'.idle + One(w \in Idle) = tp.idle + One(w \in Idle')
          /\ tp'.destroyed + One(w \in Done) = tp.destroyed + One(w \in Done')
          /\ One(w \in Live') + One(w \in Done') = One(w \in Live) + One(w \in Done)
      BY <2>13, <2>0, <2>w DEF WorkerEndIdle, WorkerGoto, WorkerAt, Others, WorkerType, TpType,
         WorkerLocals, One, Active, Idle, Live, Done, In
    <3> QED
      BY <2>0, <3>1, <3>2, WorkerBalance
  <2>14. ASSUME NEW w \in Workers, WorkerEndActive(w) PROVE Counters'
    <3>1. \A v \in Workers \ {w} : worker'[v] = worker[v]
      BY <2>14, <2>w DEF WorkerEndActive, WorkerGoto
    <3>2. /\ UNCHANGED <<caller, fails>> /\ tp'.created = tp.created
          /\ tp'.active + One(w \in Active) = tp.active + One(w \in Active')
          /\ tp'.idle + One(w \in Idle) = tp.idle + One(w \in Idle')
          /\ tp'.destroyed + One(w \in Done) = tp.destroyed + One(w \in Done')
          /\ One(w \in Live') + One(w \in Done') = One(w \in Live) + One(w \in Done)
      BY <2>14, <2>0, <2>w DEF WorkerEndActive, WorkerGoto, WorkerAt, Others, WorkerType, TpType,
         WorkerLocals, One, Active, Idle, Live, Done, In
    <3> QED
      BY <2>0, <3>1, <3>2, WorkerBalance
  <2>15. ASSUME NEW w \in Workers, WorkerEnd(w) PROVE Counters'
    <3>1. \A v \in Workers \ {w} : worker'[v] = worker[v]
      BY <2>15, <2>w DEF WorkerEnd, WorkerGoto
    <3>2. /\ UNCHANGED <<caller, fails>> /\ tp'.created = tp.created
          /\ tp'.active + One(w \in Active) = tp.active + One(w \in Active')
          /\ tp'.idle + One(w \in Idle) = tp.idle + One(w \in Idle')
          /\ tp'.destroyed + One(w \in Done) = tp.destroyed + One(w \in Done')
          /\ One(w \in Live') + One(w \in Done') = One(w \in Live) + One(w \in Done)
      BY <2>15, <2>0, <2>w DEF WorkerEnd, WorkerGoto, WorkerAt, Others, WorkerType, TpType,
         WorkerLocals, One, Active, Idle, Live, Done, In
    <3> QED
      BY <2>0, <3>1, <3>2, WorkerBalance
  <2>16. ASSUME NEW c \in Callers, StartInc(c) PROVE Counters'
    <3>1. \A d \in Callers \ {c} : caller'[d] = caller[d]
      BY <2>16, <2>0, <2>w, AfterStartFacts DEF StartInc, CallerGoto
    <3>2. /\ UNCHANGED worker /\ tp'.active = tp.active /\ tp'.idle = tp.idle
          /\ tp'.destroyed = tp.destroyed
          /\ tp'.created + One(c \in Starting) + fails = tp.created + One(c \in Starting') + fails'
      BY <2>16, <2>0, <2>w, AfterStartFacts DEF StartInc, CallerGoto, CallerAt, CallerType,
                                                TpType, TypeOK, One,
         Starting, history
    <3> QED
      BY <2>0, <3>1, <3>2, CallerBalance
  <2>17. ASSUME NEW c \in Callers, StartRead(c) PROVE Counters'
    <3>1. \A d \in Callers \ {c} : caller'[d] = caller[d]
      BY <2>17, <2>0, <2>w, AfterStartFacts DEF StartRead, CallerGoto
    <3>2. /\ UNCHANGED worker /\ tp'.active = tp.active /\ tp'.idle = tp.idle
          /\ tp'.destroyed = tp.destroyed
          /\ tp'.created + One(c \in Starting) + fails = tp.created + One(c \in Starting') + fails'
      BY <2>17, <2>0, <2>w, AfterStartFacts DEF StartRead, CallerGoto, CallerAt, CallerType,
                                                TpType, TypeOK, One,
         Starting, history
    <3> QED
      BY <2>0, <3>1, <3>2, CallerBalance
  <2>18. ASSUME NEW c \in Callers, StartReadFirst(c) PROVE Counters'
    <3>1. \A d \in Callers \ {c} : caller'[d] = caller[d]
      BY <2>18, <2>0, <2>w, AfterStartFacts DEF StartReadFirst, CallerGoto
    <3>2. /\ UNCHANGED worker /\ tp'.active = tp.active /\ tp'.idle = tp.idle
          /\ tp'.destroyed = tp.destroyed
          /\ tp'.created + One(c \in Starting) + fails = tp.created + One(c \in Starting') + fails'
      BY <2>18, <2>0, <2>w, AfterStartFacts DEF StartReadFirst, CallerGoto, CallerAt, CallerType,
                                                TpType, TypeOK, One,
         Starting, history
    <3> QED
      BY <2>0, <3>1, <3>2, CallerBalance
  <2>19. ASSUME NEW c \in Callers, StartIncLate(c) PROVE Counters'
    <3>1. \A d \in Callers \ {c} : caller'[d] = caller[d]
      BY <2>19, <2>0, <2>w, AfterStartFacts DEF StartIncLate, CallerGoto
    <3>2. /\ UNCHANGED worker /\ tp'.active = tp.active /\ tp'.idle = tp.idle
          /\ tp'.destroyed = tp.destroyed
          /\ tp'.created + One(c \in Starting) + fails = tp.created + One(c \in Starting') + fails'
      BY <2>19, <2>0, <2>w, AfterStartFacts DEF StartIncLate, CallerGoto, CallerAt, CallerType,
                                                TpType, TypeOK, One,
         Starting, history
    <3> QED
      BY <2>0, <3>1, <3>2, CallerBalance
  <2>20. ASSUME NEW c \in Callers, StartUndo(c) PROVE Counters'
    <3>1. AfterStart(c, TRUE)
      BY <2>20 DEF StartUndo
    <3>2. /\ \A d \in Callers \ {c} : caller'[d] = caller[d]
          /\ caller'[c].pc \in {"push", "start", "idle"}
      BY <2>0, <3>1, AfterStartFacts
    <3>3. c \in Starting /\ c \notin Starting'
      BY <2>20, <3>2 DEF StartUndo, CallerAt, Starting
    <3>4. One(c \in Starting) = 1 /\ One(c \in Starting') = 0
      BY <3>3 DEF One
    <3>5. UNCHANGED <<worker, fails>> /\ tp' = [tp EXCEPT !.created = tp.created - 1]
          /\ tp \in TpType /\ tp.created \in Nat /\ fails \in Nat
          /\ tp'.created = tp.created - 1 /\ tp'.active = tp.active /\ tp'.idle = tp.idle
          /\ tp'.destroyed = tp.destroyed
      BY <2>20, <2>0, <2>w DEF StartUndo, TpType, TypeOK
    <3>6. /\ UNCHANGED worker /\ tp'.active = tp.active /\ tp'.idle = tp.idle
          /\ tp'.destroyed = tp.destroyed
          /\ tp'.created + One(c \in Starting) + fails = tp.created + One(c \in Starting') + fails'
      BY <3>4, <3>5
    <3> QED
      BY <2>0, <3>2, <3>6, CallerBalance
  <2>21. ASSUME NEW c \in Callers, StartThread(c) PROVE Counters'
    BY <2>21, <2>0, ThreadBalance DEF StartThread
  <2>22. ASSUME NEW c \in Callers, StartFail(c) PROVE Counters'
    <3>1. AfterStart(c, FALSE)
      BY <2>22 DEF StartFail
    <3>2. /\ \A d \in Callers \ {c} : caller'[d] = caller[d]
          /\ caller'[c].pc \in {"push", "start", "idle"}
      BY <2>0, <3>1, AfterStartFacts
    <3>3. c \in Starting /\ c \notin Starting'
      BY <2>22, <3>2 DEF StartFail, CallerAt, Starting
    <3>4. One(c \in Starting) = 1 /\ One(c \in Starting') = 0
      BY <3>3 DEF One
    <3>5. UNCHANGED <<worker, tp>> /\ fails' = fails + 1 /\ tp.created \in Nat /\ fails \in Nat
      BY <2>22, <2>0, <2>w DEF StartFail, TpType, TypeOK
    <3>6. /\ UNCHANGED worker /\ tp'.active = tp.active /\ tp'.idle = tp.idle
          /\ tp'.destroyed = tp.destroyed
          /\ tp'.created + One(c \in Starting) + fails = tp.created + One(c \in Starting') + fails'
      BY <3>4, <3>5
    <3> QED
      BY <2>0, <3>2, <3>6, CallerBalance
  <2>23. ASSUME NEW c \in Callers, RunPush(c) PROVE Counters'
    <3>1. \A d \in Callers \ {c} : caller'[d] = caller[d]
      BY <2>23, <2>0, <2>w, AfterStartFacts DEF RunPush, CallReturns, CallerGoto
    <3>2. /\ UNCHANGED worker /\ tp'.active = tp.active /\ tp'.idle = tp.idle
          /\ tp'.destroyed = tp.destroyed
          /\ tp'.created + One(c \in Starting) + fails = tp.created + One(c \in Starting') + fails'
      BY <2>23, <2>0, <2>w, AfterStartFacts DEF RunPush, CallReturns, CallerGoto, CallerAt,
                                                CallerType, TpType, TypeOK, One,
         Starting, history
    <3> QED
      BY <2>0, <3>1, <3>2, CallerBalance
  <2>24. ASSUME NEW c \in Callers, RunFull(c) PROVE Counters'
    <3>1. \A d \in Callers \ {c} : caller'[d] = caller[d]
      BY <2>24, <2>0, <2>w, AfterStartFacts DEF RunFull, CallReturns, CallerGoto
    <3>2. /\ UNCHANGED worker /\ tp'.active = tp.active /\ tp'.idle = tp.idle
          /\ tp'.destroyed = tp.destroyed
          /\ tp'.created + One(c \in Starting) + fails = tp.created + One(c \in Starting') + fails'
      BY <2>24, <2>0, <2>w, AfterStartFacts DEF RunFull, CallReturns, CallerGoto, CallerAt,
                                                CallerType, TpType, TypeOK, One,
         Starting, history
    <3> QED
      BY <2>0, <3>1, <3>2, CallerBalance
  <2>25. ASSUME NEW c \in Callers, SetMinLoop(c) PROVE Counters'
    <3> DEFINE missing == IF tp.active < caller[c].left THEN caller[c].left - tp.active ELSE 0
    <3>3. /\ caller' = [caller EXCEPT ![c].pc = IF missing > 0 THEN "start" ELSE "idle",
                                      ![c].left = missing]
          /\ caller[c].pc = "setMin" /\ UNCHANGED <<tp, worker, fails>>
      BY <2>25 DEF SetMinLoop, CallerAt, history
    <3> HIDE DEF missing
    <3>1. \A d \in Callers \ {c} : caller'[d] = caller[d]
      BY <2>0, <3>3 DEF TypeOK
    <3>4. caller'[c].pc \in {"start", "idle"}
      BY <2>0, <3>3 DEF TypeOK, CallerType
    <3>5. c \notin Starting /\ c \notin Starting'
      BY <3>3, <3>4 DEF Starting
    <3>2. /\ UNCHANGED worker /\ tp'.active = tp.active /\ tp'.idle = tp.idle
          /\ tp'.destroyed = tp.destroyed
          /\ tp'.created + One(c \in Starting) + fails = tp.created + One(c \in Starting') + fails'
      BY <3>3, <3>5 DEF One
    <3> QED
      BY <2>0, <3>1, <3>2, CallerBalance
  <2>26. ASSUME NEW c \in Clients, RunCall(c) PROVE Counters'
    <3>1. c \in Callers /\ \A d \in Callers \ {c} : caller'[d] = caller[d]
      BY <2>26, <2>w DEF RunCall, Callers
    <3>2. /\ UNCHANGED worker /\ tp'.active = tp.active /\ tp'.idle = tp.idle
          /\ tp'.destroyed = tp.destroyed
          /\ tp'.created + One(c \in Starting) + fails = tp.created + One(c \in Starting') + fails'
      BY <2>26, <2>0, <2>w, <3>1 DEF RunCall, CallerAt, CallerType, TpType, TypeOK, One,
         Starting, history
    <3> QED
      BY <2>0, <3>1, <3>2, CallerBalance
  <2>27. ASSUME NEW c \in Clients, RunRefuse(c) PROVE Counters'
    <3>1. c \in Callers /\ \A d \in Callers \ {c} : caller'[d] = caller[d]
      BY <2>27, <2>w DEF RunRefuse, Callers
    <3>2. /\ UNCHANGED worker /\ tp'.active = tp.active /\ tp'.idle = tp.idle
          /\ tp'.destroyed = tp.destroyed
          /\ tp'.created + One(c \in Starting) + fails = tp.created + One(c \in Starting') + fails'
      BY <2>27, <2>0, <2>w, <3>1 DEF RunRefuse, CallerAt, CallerType, TpType, TypeOK, One,
         Starting, history
    <3> QED
      BY <2>0, <3>1, <3>2, CallerBalance
  <2>28. ASSUME NEW c \in Clients, SetMin(c) PROVE Counters'
    <3>1. c \in Callers /\ \A d \in Callers \ {c} : caller'[d] = caller[d]
      BY <2>28, <2>w DEF SetMin, SetCall, Callers
    <3>2. /\ UNCHANGED worker /\ tp'.active = tp.active /\ tp'.idle = tp.idle
          /\ tp'.destroyed = tp.destroyed
          /\ tp'.created + One(c \in Starting) + fails = tp.created + One(c \in Starting') + fails'
      BY <2>28, <2>0, <2>w, <3>1 DEF SetMin, SetCall, CallerAt, CallerType, TpType, TypeOK, One,
         Starting, history
    <3> QED
      BY <2>0, <3>1, <3>2, CallerBalance
  <2>29. ASSUME NEW c \in Clients, SetMax(c) PROVE Counters'
    <3>1. c \in Callers /\ \A d \in Callers \ {c} : caller'[d] = caller[d]
      BY <2>29, <2>w DEF SetMax, SetCall, Callers
    <3>2. /\ UNCHANGED worker /\ tp'.active = tp.active /\ tp'.idle = tp.idle
          /\ tp'.destroyed = tp.destroyed
          /\ tp'.created + One(c \in Starting) + fails = tp.created + One(c \in Starting') + fails'
      BY <2>29, <2>0, <2>w, <3>1 DEF SetMax, SetCall, CallerAt, CallerType, TpType, TypeOK, One,
         Starting, history
    <3> QED
      BY <2>0, <3>1, <3>2, CallerBalance
  <2>30. ASSUME NEW c \in Clients, SetIdleTimeout(c) PROVE Counters'
    <3>1. c \in Callers /\ \A d \in Callers \ {c} : caller'[d] = caller[d]
      BY <2>30, <2>w DEF SetIdleTimeout, SetCall, Callers
    <3>2. /\ UNCHANGED worker /\ tp'.active = tp.active /\ tp'.idle = tp.idle
          /\ tp'.destroyed = tp.destroyed
          /\ tp'.created + One(c \in Starting) + fails = tp.created + One(c \in Starting') + fails'
      BY <2>30, <2>0, <2>w, <3>1 DEF SetIdleTimeout, SetCall, CallerAt, CallerType, TpType,
                                     TypeOK, One,
         Starting, history
    <3> QED
      BY <2>0, <3>1, <3>2, CallerBalance
  <2>31. CASE Destroy \/ CreateDrain \/ CreateFree \/ DestroyFree
    BY <2>31, <2>0, <2>w DEF Destroy, CreateDrain, CreateFree, DestroyFree, TpType, history,
       Counters, Active, Idle, Live, Done, Starting, In
  <2> QED
    BY <2>1, <2>2, <2>3, <2>4, <2>5, <2>6, <2>7, <2>8, <2>9, <2>10, <2>11, <2>12, <2>13,
       <2>14, <2>15, <2>16, <2>17, <2>18, <2>19, <2>20, <2>21, <2>22, <2>23, <2>24, <2>25,
       <2>26, <2>27, <2>28, <2>29, <2>30, <2>31
       DEF Next, Call, CallerStep, Start, WorkerStep, MainWait

LEMMA CountsHold == Spec => []CountInvariant
<1>1. CountInvariant /\ [Next]_vars => CountInvariant'
  BY TypeStep, CountersStep, WorkerLocalsStep, CallerLocalsStep DEF CountInvariant
<1> QED
  BY <1>1, InitCounts, PTL DEF Spec

(* The counters that run, start_thread and destroy decide by tell the truth *)
(* about the threads at every moment, and none of them, unsigned in the     *)
(* code, ever wraps below zero (libam_thread_pool.c:103-176, 182-199).      *)
THEOREM CountersHonest == Spec => []CountersSound
BY CountsHold, PTL DEF CountInvariant, CountersSound


-----------------------------------------------------------------------------
(* What becomes of a task.                                                  *)

\* A task that is offered has not been accepted or refused, and only one call
\* offers it.
TasksApart ==
    /\ accepted \cap refused = {}
    /\ \A c \in Callers : caller[c].task # NULL => caller[c].task \notin accepted \cup refused
    /\ \A c, d \in Callers : caller[c].task # NULL /\ caller[c].task = caller[d].task => c = d

\* Every task accepted is in one place, every other one nowhere.
Fates == \A t \in Tasks :
    One(t \in queue) + Cardinality(Holders(t)) + ran[t] = One(t \in accepted)

TaskInvariant == CountInvariant /\ TasksApart /\ Fates

LEMMA HoldersFinite ==
  \A t : /\ IsFiniteSet(Holders(t)) /\ Cardinality(Holders(t)) \in Nat
         /\ IsFiniteSet(Holders(t)') /\ Cardinality(Holders(t)') \in Nat
BY CrowdsFinite DEF Holders

(* A worker takes a task, or gives it up.                                   *)
LEMMA HoldersMove ==
  ASSUME NEW w \in Workers, \A v \in Workers \ {w} : worker'[v].task = worker[v].task, NEW t
  PROVE  Cardinality(Holders(t)') + One(worker[w].task = t)
             = Cardinality(Holders(t)) + One(worker'[w].task = t)
<1>1. Holders(t) \ {w} = Holders(t)' \ {w}
  BY DEF Holders
<1>2. (w \in Holders(t) <=> worker[w].task = t) /\ (w \in Holders(t)' <=> worker'[w].task = t)
  BY DEF Holders
<1>3. One(w \in Holders(t)) = One(worker[w].task = t)
      /\ One(w \in Holders(t)') = One(worker'[w].task = t)
  BY <1>2 DEF One
<1>4. Cardinality(Holders(t)') + One(w \in Holders(t))
        = Cardinality(Holders(t)) + One(w \in Holders(t)')
  BY <1>1, HoldersFinite, DifferInOne
<1> QED
  BY <1>3, <1>4

LEMMA FatesKept ==
  ASSUME Fates, UNCHANGED <<queue, accepted, ran>>,
         \A w \in Workers : worker'[w].task = worker[w].task
  PROVE  Fates'
<1>1. \A t : Holders(t)' = Holders(t)
  BY DEF Holders
<1> QED
  BY <1>1 DEF Fates

LEMMA InitTasks == Init => TaskInvariant
<1> SUFFICES ASSUME Init PROVE TaskInvariant
  OBVIOUS
<1>1. \A t \in Tasks : Holders(t) = {}
  BY NamesAssumption DEF Init, Holders
<1>2. Fates
  BY <1>1, FS_EmptySet DEF Init, Fates, One
<1>3. TasksApart
  BY DEF Init, TasksApart
<1> QED
  BY <1>2, <1>3, InitCounts DEF TaskInvariant

LEMMA TasksApartStep == ASSUME TaskInvariant, [Next]_vars PROVE TasksApart'
  <2>0. TasksApart /\ CallerLocals /\ caller \in [Callers -> CallerType] /\ TypeOK
    BY TypeParts DEF TaskInvariant, CountInvariant
  <2> USE NamesAssumption
  <2>1. CASE UNCHANGED vars
    BY <2>0, <2>1 DEF vars, TasksApart
  <2>2. ASSUME NEW w \in Workers,
               \/ WorkerBegin(w) \/ WorkerCountActive(w) \/ WorkerCountIdle(w)
               \/ WorkerPop(w) \/ WorkerLeaveIdle(w) \/ WorkerRun(w)
               \/ WorkerPopNothing(w) \/ WorkerStreakEnds(w) \/ WorkerCheckDrain(w)
               \/ WorkerCheckStop(w) \/ WorkerFold(w) \/ WorkerEndIdle(w)
               \/ WorkerEndActive(w) \/ WorkerEnd(w)
        PROVE  TasksApart'
    BY <2>2, <2>0 DEF WorkerBegin, WorkerCountActive, WorkerCountIdle, WorkerPop,
       WorkerLeaveIdle, WorkerRun, WorkerPopNothing, WorkerStreakEnds, WorkerCheckDrain,
       WorkerCheckStop, Sleep, WorkerFold, WorkerEndIdle, WorkerEndActive, WorkerEnd,
       Others, history, TasksApart
  <2>3. ASSUME NEW c \in Callers, StartInc(c) PROVE TasksApart'
    BY <2>3, <2>0 DEF StartInc, CallerGoto, CallerType, history, TasksApart
  <2>4. ASSUME NEW c \in Callers, StartRead(c) PROVE TasksApart'
    BY <2>4, <2>0 DEF StartRead, CallerGoto, CallerType, history, TasksApart
  <2>5. ASSUME NEW c \in Callers, StartReadFirst(c) PROVE TasksApart'
    BY <2>5, <2>0 DEF StartReadFirst, CallerGoto, CallerType, history, TasksApart
  <2>6. ASSUME NEW c \in Callers, StartIncLate(c) PROVE TasksApart'
    BY <2>6, <2>0 DEF StartIncLate, CallerGoto, CallerType, history, TasksApart
  <2>7. ASSUME NEW c \in Callers, StartUndo(c) PROVE TasksApart'
    <3>1. AfterStart(c, TRUE) /\ UNCHANGED accepted
      BY <2>7 DEF StartUndo
    <3>2. /\ \A d \in Callers \ {c} : caller'[d] = caller[d]
          /\ caller'[c].task = caller[c].task
          /\ refused' = refused
      BY <2>0, <3>1, AfterStartFacts
    <3> QED
      BY <2>0, <3>1, <3>2 DEF TasksApart
  <2>8. ASSUME NEW c \in Callers, StartThread(c) PROVE TasksApart'
    <3>1. AfterStart(c, TRUE) /\ UNCHANGED accepted
      BY <2>8 DEF StartThread
    <3>2. /\ \A d \in Callers \ {c} : caller'[d] = caller[d]
          /\ caller'[c].task = caller[c].task
          /\ refused' = refused
      BY <2>0, <3>1, AfterStartFacts
    <3> QED
      BY <2>0, <3>1, <3>2 DEF TasksApart
  <2>9. ASSUME NEW c \in Callers, StartFail(c) PROVE TasksApart'
    <3>1. AfterStart(c, FALSE) /\ UNCHANGED accepted
      BY <2>9 DEF StartFail
    <3>2. /\ \A d \in Callers \ {c} : caller'[d] = caller[d]
          /\ caller'[c].task = NULL
          /\ refused' = refused \cup ({caller[c].task} \ {NULL})
      BY <2>0, <3>1, AfterStartFacts
    <3> QED
      BY <2>0, <3>1, <3>2 DEF TasksApart
  <2>10. ASSUME NEW c \in Callers, RunPush(c) PROVE TasksApart'
    <3>1. /\ \A d \in Callers \ {c} : caller'[d] = caller[d]
          /\ caller'[c].task = NULL /\ caller[c].task # NULL
      BY <2>10, <2>0 DEF RunPush, CallReturns, CallerAt, CallerType, CallerLocals
    <3> QED
      BY <2>10, <2>0, <3>1 DEF RunPush, TasksApart
  <2>11. ASSUME NEW c \in Callers, RunFull(c) PROVE TasksApart'
    <3>1. /\ \A d \in Callers \ {c} : caller'[d] = caller[d]
          /\ caller'[c].task = NULL /\ caller[c].task # NULL
      BY <2>11, <2>0 DEF RunFull, CallReturns, CallerAt, CallerType, CallerLocals
    <3> QED
      BY <2>11, <2>0, <3>1 DEF RunFull, TasksApart
  <2>12. ASSUME NEW c \in Callers, SetMinLoop(c) PROVE TasksApart'
    BY <2>12, <2>0 DEF SetMinLoop, CallerGoto, CallerType, history, TasksApart
  <2>13. ASSUME NEW c \in Clients, RunCall(c) PROVE TasksApart'
    <3>1. PICK t \in Unscheduled : caller' = [caller EXCEPT
               ![c].pc = IF tp.idle = 0 THEN "start" ELSE "push", ![c].task = t]
      BY <2>13 DEF RunCall
    <3>2. /\ c \in Callers /\ \A d \in Callers \ {c} : caller'[d] = caller[d]
          /\ caller'[c].task = t
      BY <2>0, <3>1 DEF CallerType, Callers
    <3>3. t \notin accepted \cup refused /\ \A d \in Callers : caller[d].task # t
      BY <2>0 DEF Unscheduled, CallerLocals, Callers
    <3> QED
      BY <2>13, <2>0, <3>2, <3>3 DEF RunCall, history, TasksApart
  <2>14. ASSUME NEW c \in Clients, RunRefuse(c) PROVE TasksApart'
    <3>1. PICK t \in Unscheduled : refused' = refused \cup {t}
      BY <2>14 DEF RunRefuse
    <3>2. t \notin accepted \cup refused /\ \A d \in Callers : caller[d].task # t
      BY <2>0 DEF Unscheduled, CallerLocals, Callers
    <3> QED
      BY <2>14, <2>0, <3>1, <3>2 DEF RunRefuse, TasksApart
  <2>15. ASSUME NEW c \in Clients, SetMin(c) PROVE TasksApart'
    BY <2>15, <2>0 DEF SetMin, SetCall, Callers, CallerType, history, TasksApart
  <2>16. ASSUME NEW c \in Clients,
               \/ SetMax(c) \/ SetIdleTimeout(c)
        PROVE  TasksApart'
    BY <2>16, <2>0 DEF SetMax, SetCall, SetIdleTimeout, Others, history, TasksApart
  <2>17. CASE Destroy \/ CreateDrain \/ CreateFree \/ DestroyFree
    BY <2>17, <2>0 DEF Destroy, CreateDrain, CreateFree, DestroyFree, Others, history,
       TasksApart
  <2> QED
    BY <2>1, <2>2, <2>3, <2>4, <2>5, <2>6, <2>7, <2>8, <2>9, <2>10, <2>11, <2>12, <2>13,
       <2>14, <2>15, <2>16, <2>17
       DEF Next, Call, CallerStep, Start, WorkerStep, MainWait

LEMMA FatesStep == ASSUME TaskInvariant, [Next]_vars PROVE Fates'
  <2>0. /\ TasksApart /\ Fates /\ CallerLocals /\ WorkerLocals
        /\ worker \in [Workers -> WorkerType]
        /\ caller \in [Callers -> CallerType] /\ ran \in [Tasks -> Nat]
        /\ queue \in SUBSET Tasks
    BY TypeParts DEF TaskInvariant, CountInvariant, RestTyped
  <2>1. CASE UNCHANGED vars
    BY <2>0, <2>1, FatesKept DEF vars
  <2>2. ASSUME NEW w \in Workers, WorkerBegin(w) PROVE Fates'
    BY <2>2, <2>0, FatesKept DEF WorkerBegin, WorkerGoto, WorkerType, Others
  <2>3. ASSUME NEW w \in Workers, WorkerCountActive(w) PROVE Fates'
    BY <2>3, <2>0, FatesKept DEF WorkerCountActive, WorkerGoto, WorkerType, Others
  <2>4. ASSUME NEW w \in Workers, WorkerCountIdle(w) PROVE Fates'
    BY <2>4, <2>0, FatesKept DEF WorkerCountIdle, WorkerGoto, WorkerType, Others
  <2>5. ASSUME NEW w \in Workers, WorkerPop(w) PROVE Fates'
    <3>1. PICK t \in queue : /\ queue' = queue \ {t}
                             /\ worker'[w].task = t
                             /\ \A v \in Workers \ {w} : worker'[v] = worker[v]
      BY <2>5, <2>0 DEF WorkerPop, WorkerType
    <3>2. worker[w].task = NULL /\ UNCHANGED <<accepted, ran>>
      BY <2>5, <2>0 DEF WorkerPop, WorkerAt, WorkerLocals, Others
    <3>3. ASSUME NEW u \in Tasks
          PROVE  One(u \in queue') + Cardinality(Holders(u)') + ran[u] = One(u \in accepted)
      <4>1. Cardinality(Holders(u)') + One(NULL = u) = Cardinality(Holders(u)) + One(t = u)
        BY <3>1, <3>2, HoldersMove
      <4>2. One(NULL = u) = 0
        BY NamesAssumption DEF One
      <4>3. One(u \in queue') + One(t = u) = One(u \in queue)
        BY <3>1 DEF One
      <4>4. One(u \in queue) + Cardinality(Holders(u)) + ran[u] = One(u \in accepted)
        BY <2>0 DEF Fates
      <4>5. /\ One(u \in queue') \in Int /\ One(u \in queue) \in Int /\ One(t = u) \in Int
            /\ Cardinality(Holders(u)) \in Int /\ Cardinality(Holders(u)') \in Int
            /\ ran[u] \in Int
        BY <2>0, OneIsInt, HoldersFinite
      <4> QED
        BY <4>1, <4>2, <4>3, <4>4, <4>5
    <3> QED
      BY <3>2, <3>3 DEF Fates
  <2>6. ASSUME NEW w \in Workers, WorkerLeaveIdle(w) PROVE Fates'
    BY <2>6, <2>0, FatesKept DEF WorkerLeaveIdle, WorkerGoto, WorkerType, Others
  <2>7. ASSUME NEW w \in Workers, WorkerRun(w) PROVE Fates'
    <3> DEFINE t == worker[w].task
    <3>1. /\ \A v \in Workers \ {w} : worker'[v] = worker[v]
          /\ worker'[w].task = NULL
          /\ ran' = [ran EXCEPT ![t] = ran[t] + 1] /\ UNCHANGED <<queue, accepted>>
      BY <2>7, <2>0 DEF WorkerRun, WorkerType, Others
    <3>2. t \in Tasks
      BY <2>7, <2>0 DEF WorkerRun, WorkerAt, WorkerLocals, WorkerType
    <3>3. ASSUME NEW u \in Tasks
          PROVE  One(u \in queue) + Cardinality(Holders(u)') + ran'[u] = One(u \in accepted)
      <4>1. Cardinality(Holders(u)') + One(t = u) = Cardinality(Holders(u)) + One(NULL = u)
        BY <3>1, HoldersMove
      <4>2. One(NULL = u) = 0
        BY NamesAssumption DEF One
      <4>3. ran'[u] = ran[u] + One(t = u)
        BY <2>0, <3>1 DEF One
      <4>4. One(u \in queue) + Cardinality(Holders(u)) + ran[u] = One(u \in accepted)
        BY <2>0 DEF Fates
      <4>5. /\ One(u \in queue) \in Int /\ One(t = u) \in Int
            /\ Cardinality(Holders(u)) \in Int /\ Cardinality(Holders(u)') \in Int
            /\ ran[u] \in Int
        BY <2>0, OneIsInt, HoldersFinite
      <4> QED
        BY <4>1, <4>2, <4>3, <4>4, <4>5
    <3> QED
      BY <3>1, <3>3 DEF Fates
  <2>8. ASSUME NEW w \in Workers, WorkerPopNothing(w) PROVE Fates'
    BY <2>8, <2>0, FatesKept DEF WorkerPopNothing, WorkerGoto, WorkerType, Others
  <2>9. ASSUME NEW w \in Workers, WorkerStreakEnds(w) PROVE Fates'
    BY <2>9, <2>0, FatesKept DEF WorkerStreakEnds, WorkerGoto, WorkerType, Others
  <2>10. ASSUME NEW w \in Workers, WorkerCheckDrain(w) PROVE Fates'
    BY <2>10, <2>0, FatesKept DEF WorkerCheckDrain, WorkerGoto, WorkerType, Others
  <2>11. ASSUME NEW w \in Workers, WorkerCheckStop(w) PROVE Fates'
    BY <2>11, <2>0, FatesKept DEF WorkerCheckStop, Sleep, WorkerGoto, WorkerType, Others
  <2>12. ASSUME NEW w \in Workers, WorkerFold(w) PROVE Fates'
    BY <2>12, <2>0, FatesKept DEF WorkerFold, WorkerGoto, WorkerType, Others
  <2>13. ASSUME NEW w \in Workers, WorkerEndIdle(w) PROVE Fates'
    BY <2>13, <2>0, FatesKept DEF WorkerEndIdle, WorkerGoto, WorkerType, Others
  <2>14. ASSUME NEW w \in Workers, WorkerEndActive(w) PROVE Fates'
    BY <2>14, <2>0, FatesKept DEF WorkerEndActive, WorkerGoto, WorkerType, Others
  <2>15. ASSUME NEW w \in Workers, WorkerEnd(w) PROVE Fates'
    BY <2>15, <2>0, FatesKept DEF WorkerEnd, WorkerGoto, WorkerType, Others
  <2>16. ASSUME NEW c \in Callers, StartThread(c) PROVE Fates'
    BY <2>16, <2>0, FatesKept DEF StartThread, WorkerType
  <2>17. ASSUME NEW c \in Callers, RunPush(c) PROVE Fates'
    <3> DEFINE t == caller[c].task
    <3>1. /\ queue' = queue \cup {t} /\ accepted' = accepted \cup {t}
          /\ UNCHANGED <<worker, ran>>
      BY <2>17 DEF RunPush
    <3>2. t \in Tasks /\ t \notin accepted
      BY <2>17, <2>0 DEF RunPush, CallerAt, CallerLocals, CallerType, TasksApart
    <3>3. ASSUME NEW u \in Tasks
          PROVE  One(u \in queue') + Cardinality(Holders(u)) + ran[u] = One(u \in accepted')
      <4>1. One(u \in queue) + Cardinality(Holders(u)) + ran[u] = One(u \in accepted)
        BY <2>0 DEF Fates
      <4>2. Cardinality(Holders(u)) \in Nat /\ ran[u] \in Nat
        BY <2>0, HoldersFinite
      <4>3. CASE u = t
        <5>1. One(u \in accepted) = 0 /\ One(u \in accepted') = 1 /\ One(u \in queue') = 1
          BY <3>1, <3>2, <4>3 DEF One
        <5>2. One(u \in queue) \in Nat
          BY DEF One
        <5> QED
          BY <4>1, <4>2, <5>1, <5>2
      <4>4. CASE u # t
        BY <3>1, <4>1, <4>4 DEF One
      <4> QED
        BY <4>3, <4>4
    <3>4. \A u : Holders(u)' = Holders(u)
      BY <3>1 DEF Holders
    <3> QED
      BY <3>1, <3>3, <3>4 DEF Fates
  <2>18. ASSUME NEW c \in Callers,
               \/ StartInc(c) \/ StartRead(c) \/ StartReadFirst(c) \/ StartIncLate(c)
               \/ StartUndo(c) \/ StartFail(c) \/ RunFull(c) \/ SetMinLoop(c)
        PROVE  Fates'
    BY <2>18, <2>0, FatesKept DEF StartInc, StartRead, StartReadFirst, StartIncLate,
       StartUndo, StartFail, RunFull, CallReturns, SetMinLoop, Others, history
  <2>19. ASSUME NEW c \in Clients,
               \/ RunCall(c) \/ RunRefuse(c) \/ SetMin(c) \/ SetMax(c)
               \/ SetIdleTimeout(c)
        PROVE  Fates'
    BY <2>19, <2>0, FatesKept DEF RunCall, RunRefuse, SetMin, SetCall, SetMax,
       SetIdleTimeout, Others, history
  <2>20. CASE Destroy \/ CreateDrain \/ CreateFree \/ DestroyFree
    BY <2>20, <2>0, FatesKept DEF Destroy, CreateDrain, CreateFree, DestroyFree, Others,
       history
  <2> QED
    BY <2>1, <2>2, <2>3, <2>4, <2>5, <2>6, <2>7, <2>8, <2>9, <2>10, <2>11, <2>12, <2>13,
       <2>14, <2>15, <2>16, <2>17, <2>18, <2>19, <2>20
       DEF Next, Call, CallerStep, Start, WorkerStep, MainWait

LEMMA TasksHold == Spec => []TaskInvariant
<1>1. TaskInvariant /\ [Next]_vars => TaskInvariant'
  BY TypeStep, CountersStep, WorkerLocalsStep, CallerLocalsStep, TasksApartStep, FatesStep
     DEF TaskInvariant, CountInvariant
<1> QED
  BY <1>1, InitTasks, PTL DEF Spec

(* However many callers push and threads pop, a task run accepted is in the *)
(* stack, in the hands of one thread or was executed, once; a task it       *)
(* refused never is (libam_thread_pool.c:119-140, 207-245).                 *)
THEOREM TasksRunOnce == Spec => []TaskFates
<1>1. TaskInvariant => TaskFates
  BY DEF TaskInvariant, TasksApart, Fates, TaskFates, One
<1> QED
  BY <1>1, TasksHold, PTL


-----------------------------------------------------------------------------
(* The cap on the number of threads.                                        *)

\* The cap is known to whoever compares with it, and no reader of
\* threads_destroyed is ahead of it.
CapKnown == maxSeen > 0 => tp.max > 0 /\ tp.max <= maxSeen
SeenOld == \A c \in Callers : caller[c].pc = "startIncLate" => caller[c].seen <= tp.destroyed

\* The callers that are about to start a thread, and those that will decide to
\* if fewer than x threads are left when they read threads_destroyed.
Passed == {c \in Callers : caller[c].pc = "pthread"}
Undecided(x) == {c \in Callers : caller[c].pc = "startRead" /\ caller[c].seen - tp.destroyed < x}

\* However large a number x that is at least the cap: if there is a caller that x would
\* admit, there is room below x for all of them.  A single cap would not do: a thread
\* that stops admits the callers that x + 1 admitted.
Headroom == maxSeen > 0 =>
    /\ Cardinality(Live) + Cardinality(Passed) <= maxSeen
    /\ \A x \in Nat : x >= maxSeen /\ Undecided(x) # {} =>
         Cardinality(Live) + Cardinality(Passed) + Cardinality(Undecided(x)) <= x

CapInvariant == CountInvariant /\ CapKnown /\ SeenOld /\ Headroom

LEMMA CrowdSizes ==
  /\ IsFiniteSet(Live) /\ IsFiniteSet(Passed) /\ \A x : IsFiniteSet(Undecided(x))
  /\ Cardinality(Live) \in Nat /\ Cardinality(Passed) \in Nat
  /\ \A x : Cardinality(Undecided(x)) \in Nat
  /\ IsFiniteSet(Live)' /\ IsFiniteSet(Passed)' /\ \A x : IsFiniteSet(Undecided(x)')
  /\ Cardinality(Live)' \in Nat /\ Cardinality(Passed)' \in Nat
  /\ \A x : Cardinality(Undecided(x)') \in Nat
BY CrowdsFinite DEF Live, Passed, Undecided, In

(* All of them are in threads_created.                                      *)
LEMMA CrowdCreated ==
  ASSUME TypeOK, Counters, NEW x
  PROVE  Cardinality(Live) + Cardinality(Passed) + Cardinality(Undecided(x))
             <= tp.created - tp.destroyed
<1>1. /\ Passed \cap Undecided(x) = {} /\ Passed \cup Undecided(x) \subseteq Starting
  BY DEF Passed, Undecided, Starting
<1>2. Cardinality(Passed \cup Undecided(x)) = Cardinality(Passed) + Cardinality(Undecided(x))
  <2>1. Cardinality(Passed \cup Undecided(x))
          = Cardinality(Passed) + Cardinality(Undecided(x)) - Cardinality(Passed \cap Undecided(x))
    BY CrowdSizes, FS_Union
  <2>2. Cardinality(Passed \cap Undecided(x)) = 0
    BY <1>1, FS_EmptySet
  <2>3. Cardinality(Passed) \in Nat /\ Cardinality(Undecided(x)) \in Nat
    BY CrowdSizes
  <2> QED
    BY <2>1, <2>2, <2>3
<1>3. Cardinality(Passed \cup Undecided(x)) <= Cardinality(Starting)
  <2>1. IsFiniteSet(Starting)
    BY CrowdsFinite DEF Starting
  <2> QED
    BY <1>1, <2>1, FS_Subset
<1>4. tp.created = tp.destroyed + Cardinality(Live) + Cardinality(Starting) + fails
  BY DEF Counters
<1>5. tp.destroyed \in Nat /\ fails \in Nat /\ tp.created \in Nat /\ Cardinality(Starting) \in Nat
  BY Sizes, ConfigAssumption DEF TypeOK
<1> DEFINE L == Cardinality(Live)  P == Cardinality(Passed)  U == Cardinality(Undecided(x))
<1>6. L \in Nat /\ P \in Nat /\ U \in Nat /\ P + U <= Cardinality(Starting)
      /\ tp.created = tp.destroyed + L + Cardinality(Starting) + fails
  BY <1>2, <1>3, <1>4, CrowdSizes
<1> HIDE DEF L, P, U
<1>7. L + P + U <= tp.created - tp.destroyed
  BY <1>5, <1>6
<1> QED
  BY <1>7 DEF L, P, U

(* A step that moves nobody into these crowds keeps the room.               *)
LEMMA RoomKept ==
  ASSUME Headroom, maxSeen \in Nat, UNCHANGED maxSeen, Live' = Live, Passed' \subseteq Passed,
         \A x \in Nat : Undecided(x)' \subseteq Undecided(x)
  PROVE  Headroom'
<1>1. Cardinality(Passed)' <= Cardinality(Passed)
  BY CrowdSizes, FS_Subset
<1>2. \A x \in Nat : Cardinality(Undecided(x)') <= Cardinality(Undecided(x))
  BY CrowdSizes, FS_Subset
<1> SUFFICES ASSUME maxSeen > 0
             PROVE  /\ Cardinality(Live) + Cardinality(Passed)' <= maxSeen
                    /\ \A x \in Nat : x >= maxSeen /\ Undecided(x)' # {} =>
                         Cardinality(Live) + Cardinality(Passed)' + Cardinality(Undecided(x)') <= x
  BY DEF Headroom
<1>3. Cardinality(Live) + Cardinality(Passed)' <= maxSeen
  BY <1>1, CrowdSizes DEF Headroom
<1>4. ASSUME NEW x \in Nat, x >= maxSeen, Undecided(x)' # {}
      PROVE  Cardinality(Live) + Cardinality(Passed)' + Cardinality(Undecided(x)') <= x
  <2>1. Undecided(x) # {}
    BY <1>4
  <2>2. Cardinality(Live) + Cardinality(Passed) + Cardinality(Undecided(x)) <= x
    BY <1>4, <2>1 DEF Headroom
  <2>3. Cardinality(Undecided(x)') <= Cardinality(Undecided(x))
    BY <1>2
  <2> QED
    BY <1>1, <2>2, <2>3, CrowdSizes
<1> QED
  BY <1>3, <1>4

LEMMA InitCap == Init => CapInvariant
<1> SUFFICES ASSUME Init PROVE CapInvariant
  OBVIOUS
<1>1. CapKnown /\ SeenOld
  BY ConfigAssumption DEF Init, CapKnown, SeenOld
<1>2. Live = {} /\ Passed = {} /\ \A x : Undecided(x) = {}
  BY DEF Init, Live, In, Passed, Undecided
<1>3. maxSeen \in Nat
  BY ConfigAssumption DEF Init
<1>4. Headroom
  BY <1>2, <1>3, FS_EmptySet DEF Headroom
<1> QED
  BY <1>1, <1>4, InitCounts DEF CapInvariant

LEMMA CapKnownStep == ASSUME CapInvariant, [Next]_vars PROVE CapKnown'
  <2>0. CapKnown /\ tp \in TpType /\ maxSeen \in Nat
    BY TypeParts DEF CapInvariant, CountInvariant, RestTyped
  <2>1. CASE UNCHANGED vars
    BY <2>0, <2>1 DEF vars, CapKnown
  <2>2. ASSUME NEW w \in Workers,
               \/ WorkerBegin(w) \/ WorkerCountActive(w) \/ WorkerCountIdle(w)
               \/ WorkerPop(w) \/ WorkerLeaveIdle(w) \/ WorkerRun(w)
               \/ WorkerPopNothing(w) \/ WorkerStreakEnds(w) \/ WorkerCheckDrain(w)
               \/ WorkerCheckStop(w) \/ WorkerFold(w) \/ WorkerEndIdle(w)
               \/ WorkerEndActive(w) \/ WorkerEnd(w)
        PROVE  CapKnown'
    BY <2>2, <2>0 DEF WorkerBegin, WorkerCountActive, WorkerCountIdle, WorkerPop,
       WorkerLeaveIdle, WorkerRun, WorkerPopNothing, WorkerStreakEnds, WorkerCheckDrain,
       WorkerCheckStop, Sleep, WorkerFold, WorkerEndIdle, WorkerEndActive, WorkerEnd,
       TpType, Others, history, CapKnown
  <2>3. ASSUME NEW c \in Callers,
               \/ StartInc(c) \/ StartRead(c) \/ StartReadFirst(c) \/ StartIncLate(c)
               \/ StartUndo(c) \/ StartThread(c) \/ StartFail(c) \/ RunPush(c)
               \/ RunFull(c) \/ SetMinLoop(c)
        PROVE  CapKnown'
    BY <2>3, <2>0 DEF StartInc, StartRead, StartReadFirst, StartIncLate, StartUndo,
       StartThread, StartFail, RunPush, CallReturns, RunFull, SetMinLoop, TpType, Others,
       history, CapKnown
  <2>4. ASSUME NEW c \in Clients, SetMax(c) PROVE CapKnown'
    BY <2>4, <2>0, ConfigAssumption DEF SetMax, SetCall, TpType, CapKnown
  <2>5. ASSUME NEW c \in Clients,
               \/ RunCall(c) \/ RunRefuse(c) \/ SetMin(c) \/ SetIdleTimeout(c)
        PROVE  CapKnown'
    BY <2>5, <2>0 DEF RunCall, RunRefuse, SetMin, SetCall, SetIdleTimeout, TpType, Others,
       history, CapKnown
  <2>6. CASE Destroy \/ CreateDrain \/ CreateFree \/ DestroyFree
    BY <2>6, <2>0 DEF Destroy, CreateDrain, CreateFree, DestroyFree, TpType, Others,
       history, CapKnown
  <2> QED
    BY <2>1, <2>2, <2>3, <2>4, <2>5, <2>6
       DEF Next, Call, CallerStep, Start, WorkerStep, MainWait

LEMMA SeenOldStep == ASSUME CapInvariant, [Next]_vars PROVE SeenOld'
  <2>0. SeenOld /\ tp \in TpType /\ caller \in [Callers -> CallerType] /\ TypeOK
    BY TypeParts DEF CapInvariant, CountInvariant
  <2>1. CASE UNCHANGED vars
    BY <2>0, <2>1 DEF vars, SeenOld
  <2>2. ASSUME NEW w \in Workers, WorkerEnd(w) PROVE SeenOld'
    <3>1. tp'.destroyed = tp.destroyed + 1 /\ UNCHANGED caller /\ tp.destroyed \in Nat
      BY <2>2, <2>0 DEF WorkerEnd, Others, TpType
    <3>2. \A c \in Callers : caller[c].seen \in Nat
      BY <2>0 DEF CallerType
    <3> QED
      BY <2>0, <3>1, <3>2 DEF SeenOld
  <2>3. ASSUME NEW w \in Workers,
               \/ WorkerBegin(w) \/ WorkerCountActive(w) \/ WorkerCountIdle(w)
               \/ WorkerPop(w) \/ WorkerLeaveIdle(w) \/ WorkerRun(w)
               \/ WorkerPopNothing(w) \/ WorkerStreakEnds(w) \/ WorkerCheckDrain(w)
               \/ WorkerCheckStop(w) \/ WorkerFold(w) \/ WorkerEndIdle(w)
               \/ WorkerEndActive(w)
        PROVE  SeenOld'
    BY <2>3, <2>0 DEF WorkerBegin, WorkerCountActive, WorkerCountIdle, WorkerPop,
       WorkerLeaveIdle, WorkerRun, WorkerPopNothing, WorkerStreakEnds, WorkerCheckDrain,
       WorkerCheckStop, Sleep, WorkerFold, WorkerEndIdle, WorkerEndActive, TpType, Others,
       history, SeenOld
  <2>4. ASSUME NEW c \in Callers, StartInc(c) PROVE SeenOld'
    BY <2>4, <2>0 DEF StartInc, CallerGoto, CallerType, TpType, Callers, SeenOld
  <2>5. ASSUME NEW c \in Callers, StartRead(c) PROVE SeenOld'
    BY <2>5, <2>0 DEF StartRead, CallerGoto, CallerType, TpType, Callers, SeenOld
  <2>6. ASSUME NEW c \in Callers, StartReadFirst(c) PROVE SeenOld'
    BY <2>6, <2>0 DEF StartReadFirst, CallerGoto, CallerType, TpType, Callers, SeenOld
  <2>7. ASSUME NEW c \in Callers, StartIncLate(c) PROVE SeenOld'
    BY <2>7, <2>0 DEF StartIncLate, CallerGoto, CallerType, TpType, Callers, SeenOld
  <2>8. ASSUME NEW c \in Callers, StartUndo(c) PROVE SeenOld'
    <3>1. AfterStart(c, TRUE) /\ tp'.destroyed = tp.destroyed
      BY <2>8, <2>0 DEF StartUndo, TpType
    <3>2. /\ \A d \in Callers \ {c} : caller'[d] = caller[d]
          /\ caller'[c].pc # "startIncLate"
      BY <2>0, <3>1, AfterStartFacts
    <3> QED
      BY <2>0, <3>1, <3>2 DEF SeenOld
  <2>9. ASSUME NEW c \in Callers, StartThread(c) PROVE SeenOld'
    <3>1. AfterStart(c, TRUE) /\ tp'.destroyed = tp.destroyed
      BY <2>9, <2>0 DEF StartThread, TpType
    <3>2. /\ \A d \in Callers \ {c} : caller'[d] = caller[d]
          /\ caller'[c].pc # "startIncLate"
      BY <2>0, <3>1, AfterStartFacts
    <3> QED
      BY <2>0, <3>1, <3>2 DEF SeenOld
  <2>10. ASSUME NEW c \in Callers, StartFail(c) PROVE SeenOld'
    <3>1. AfterStart(c, FALSE) /\ tp'.destroyed = tp.destroyed
      BY <2>10, <2>0 DEF StartFail, TpType
    <3>2. /\ \A d \in Callers \ {c} : caller'[d] = caller[d]
          /\ caller'[c].pc # "startIncLate"
      BY <2>0, <3>1, AfterStartFacts
    <3> QED
      BY <2>0, <3>1, <3>2 DEF SeenOld
  <2>11. ASSUME NEW c \in Callers, RunPush(c) PROVE SeenOld'
    BY <2>11, <2>0 DEF RunPush, CallReturns, CallerGoto, CallerType, TpType, Callers,
       SeenOld
  <2>12. ASSUME NEW c \in Callers, RunFull(c) PROVE SeenOld'
    BY <2>12, <2>0 DEF RunFull, CallReturns, CallerGoto, CallerType, TpType, Callers,
       SeenOld
  <2>13. ASSUME NEW c \in Callers, SetMinLoop(c) PROVE SeenOld'
    BY <2>13, <2>0 DEF SetMinLoop, CallerGoto, CallerType, TpType, Callers, SeenOld
  <2>14. ASSUME NEW c \in Clients, RunCall(c) PROVE SeenOld'
    BY <2>14, <2>0 DEF RunCall, CallerGoto, CallerType, TpType, Callers, SeenOld
  <2>15. ASSUME NEW c \in Clients, SetMin(c) PROVE SeenOld'
    BY <2>15, <2>0 DEF SetMin, SetCall, CallerGoto, CallerType, TpType, Callers, SeenOld
  <2>16. ASSUME NEW c \in Clients,
               \/ RunRefuse(c) \/ SetMax(c) \/ SetIdleTimeout(c)
        PROVE  SeenOld'
    BY <2>16, <2>0 DEF RunRefuse, SetMax, SetCall, SetIdleTimeout, TpType, Others, history,
       SeenOld
  <2>17. CASE Destroy \/ CreateDrain \/ CreateFree \/ DestroyFree
    BY <2>17, <2>0 DEF Destroy, CreateDrain, CreateFree, DestroyFree, TpType, Others,
       history, SeenOld
  <2> QED
    BY <2>1, <2>2, <2>3, <2>4, <2>5, <2>6, <2>7, <2>8, <2>9, <2>10, <2>11, <2>12, <2>13,
       <2>14, <2>15, <2>16, <2>17
       DEF Next, Call, CallerStep, Start, WorkerStep, MainWait

(* One caller more is admitted, or becomes a candidate, below x.            *)
LEMMA Joins ==
  ASSUME TypeOK, Counters, CapKnown, maxSeen > 0, NEW x \in Nat,
         tp.created - tp.destroyed < x
  PROVE  Cardinality(Live) + Cardinality(Passed) + Cardinality(Undecided(x)) + 1 <= x
<1>1. tp.created \in Nat /\ tp.destroyed \in Nat
  BY DEF TypeOK
<1> DEFINE n3 == Cardinality(Live) + Cardinality(Passed) + Cardinality(Undecided(x))
<1>2. n3 <= tp.created - tp.destroyed /\ n3 \in Nat
  BY CrowdCreated, CrowdSizes
<1> HIDE DEF n3
<1>3. n3 + 1 <= x
  BY <1>1, <1>2
<1> QED
  BY <1>3 DEF n3

LEMMA StartIncRoom ==
  ASSUME CapInvariant, NEW c \in Callers, StartInc(c) PROVE Headroom'
<1>0. TypeOK /\ Counters /\ CapKnown /\ Headroom /\ tp \in TpType
      /\ caller \in [Callers -> CallerType]
  BY TypeParts DEF CapInvariant, CountInvariant
<1>1. /\ UNCHANGED <<worker, maxSeen>> /\ tp'.destroyed = tp.destroyed
      /\ \A d \in Callers \ {c} : caller'[d] = caller[d]
      /\ caller[c].pc = "start" /\ caller'[c].pc = "startRead" /\ caller'[c].seen = tp.created
  BY <1>0 DEF StartInc, CallerAt, TpType, CallerType, history
<1>2. Live' = Live /\ Passed' = Passed
  BY <1>1 DEF Live, In, Passed
<1>3. ASSUME NEW x \in Nat
      PROVE  /\ Undecided(x)' \subseteq Undecided(x) \cup {c} /\ c \notin Undecided(x)
             /\ c \in Undecided(x)' => tp.created - tp.destroyed < x
  BY <1>1 DEF Undecided
<1>4. ASSUME maxSeen > 0, NEW x \in Nat, x >= maxSeen, Undecided(x)' # {}
      PROVE  Cardinality(Live) + Cardinality(Passed) + Cardinality(Undecided(x)') <= x
  <2>1. CASE c \in Undecided(x)'
    <3>1. Cardinality(Live) + Cardinality(Passed) + Cardinality(Undecided(x)) + 1 <= x
      BY <1>0, <1>3, <1>4, <2>1, Joins
    <3>2. Cardinality(Undecided(x) \cup {c}) = Cardinality(Undecided(x)) + 1
          /\ IsFiniteSet(Undecided(x) \cup {c})
      BY <1>3, CrowdSizes, FS_AddElement
    <3>3. Cardinality(Undecided(x)') <= Cardinality(Undecided(x)) + 1
      BY <1>3, <3>2, FS_Subset
    <3> QED
      BY <3>1, <3>3, CrowdSizes
  <2>2. CASE c \notin Undecided(x)'
    <3>1. Undecided(x)' \subseteq Undecided(x)
      BY <1>3, <2>2
    <3>2. Cardinality(Undecided(x)') <= Cardinality(Undecided(x))
      BY <3>1, CrowdSizes, FS_Subset
    <3>3. Cardinality(Live) + Cardinality(Passed) + Cardinality(Undecided(x)) <= x
      BY <1>0, <1>4, <3>1 DEF Headroom
    <3> QED
      BY <3>2, <3>3, CrowdSizes
  <2> QED
    BY <2>1, <2>2
<1> QED
  BY <1>0, <1>1, <1>2, <1>4 DEF Headroom

LEMMA StartReadRoom ==
  ASSUME CapInvariant, NEW c \in Callers, StartRead(c) PROVE Headroom'
<1>0. TypeOK /\ CapKnown /\ Headroom /\ tp \in TpType /\ caller \in [Callers -> CallerType]
      /\ maxSeen \in Nat
  BY TypeParts DEF CapInvariant, CountInvariant, RestTyped
<1>1. /\ UNCHANGED <<worker, maxSeen, tp>>
      /\ \A d \in Callers \ {c} : caller'[d] = caller[d]
      /\ caller[c].pc = "startRead"
      /\ caller'[c].pc = IF CapReached(caller[c].seen, tp.destroyed) THEN "undo" ELSE "pthread"
  BY <1>0 DEF StartRead, CallerAt, CallerGoto, CallerType, history
<1>2. Live' = Live /\ \A x \in Nat : Undecided(x)' = Undecided(x) \ {c}
  BY <1>1 DEF Live, In, Undecided
<1>3. CASE CapReached(caller[c].seen, tp.destroyed)
  <2>1. Passed' = Passed
    BY <1>1, <1>3 DEF Passed
  <2> QED
    BY <1>0, <1>1, <1>2, <2>1, RoomKept
<1>4. CASE ~CapReached(caller[c].seen, tp.destroyed)
  <2>1. Passed' = Passed \cup {c} /\ c \notin Passed
    BY <1>1, <1>4 DEF Passed
  <2>2. Cardinality(Passed)' = Cardinality(Passed) + 1
    BY <2>1, CrowdSizes, FS_AddElement
  <2>3. ASSUME maxSeen > 0, NEW x \in Nat, x >= maxSeen
        PROVE  Cardinality(Live) + Cardinality(Passed)' + Cardinality(Undecided(x)') <= x
    <3>1. caller[c].seen - tp.destroyed < x
      <4>1. /\ caller[c].seen \in Nat /\ tp.destroyed \in Nat /\ tp.max \in Nat
            /\ maxSeen \in Nat
        BY <1>0 DEF TypeOK
      <4>2. tp.max > 0 /\ tp.max <= maxSeen
        BY <1>0, <2>3 DEF CapKnown
      <4>3. caller[c].seen - tp.destroyed < tp.max
        BY <1>4, <4>1, <4>2 DEF CapReached
      <4> QED
        BY <2>3, <4>1, <4>2, <4>3
    <3>2. c \in Undecided(x)
      BY <1>1, <3>1 DEF Undecided
    <3>3. Cardinality(Undecided(x)') = Cardinality(Undecided(x)) - 1
      BY <1>2, <3>2, CrowdSizes, FS_RemoveElement
    <3>4. Cardinality(Live) + Cardinality(Passed) + Cardinality(Undecided(x)) <= x
      BY <1>0, <2>3, <3>2 DEF Headroom
    <3> QED
      BY <2>2, <3>3, <3>4, CrowdSizes
  <2>4. ASSUME maxSeen > 0 PROVE Cardinality(Live) + Cardinality(Passed)' <= maxSeen
    <3>1. maxSeen \in Nat
      BY <1>0 DEF TypeOK
    <3>2. PICK x \in Nat : x = maxSeen
      BY <3>1
    <3>3. Cardinality(Live) + Cardinality(Passed)' + Cardinality(Undecided(x)') <= x
      BY <2>3, <2>4, <3>2
    <3> QED
      BY <3>2, <3>3, CrowdSizes
  <2> QED
    BY <1>1, <1>2, <2>3, <2>4 DEF Headroom
<1> QED
  BY <1>3, <1>4

LEMMA StartIncLateRoom ==
  ASSUME CapInvariant, NEW c \in Callers, StartIncLate(c) PROVE Headroom'
<1>0. TypeOK /\ Counters /\ CapKnown /\ SeenOld /\ Headroom /\ tp \in TpType
      /\ caller \in [Callers -> CallerType] /\ maxSeen \in Nat
  BY TypeParts DEF CapInvariant, CountInvariant, RestTyped
<1>1. /\ UNCHANGED <<worker, maxSeen>> /\ tp'.destroyed = tp.destroyed
      /\ \A d \in Callers \ {c} : caller'[d] = caller[d]
      /\ caller[c].pc = "startIncLate"
      /\ caller'[c].pc = IF CapReached(tp.created, caller[c].seen) THEN "undo" ELSE "pthread"
  BY <1>0 DEF StartIncLate, CallerAt, CallerGoto, CallerType, TpType, history
<1>2. Live' = Live /\ \A x \in Nat : Undecided(x)' = Undecided(x)
  BY <1>1 DEF Live, In, Undecided
<1>3. CASE CapReached(tp.created, caller[c].seen)
  <2>1. Passed' = Passed
    BY <1>1, <1>3 DEF Passed
  <2> QED
    BY <1>0, <1>1, <1>2, <2>1, RoomKept
<1>4. CASE ~CapReached(tp.created, caller[c].seen)
  <2>1. Passed' = Passed \cup {c} /\ c \notin Passed
    BY <1>1, <1>4 DEF Passed
  <2>2. Cardinality(Passed)' = Cardinality(Passed) + 1
    BY <2>1, CrowdSizes, FS_AddElement
  <2>3. ASSUME maxSeen > 0, NEW x \in Nat, x >= maxSeen
        PROVE  Cardinality(Live) + Cardinality(Passed)' + Cardinality(Undecided(x)') <= x
    <3>1. tp.created - tp.destroyed < x
      <4>1. /\ caller[c].seen \in Nat /\ tp.destroyed \in Nat /\ tp.created \in Nat
            /\ tp.max \in Nat /\ maxSeen \in Nat
        BY <1>0 DEF TypeOK
      <4>2. tp.max > 0 /\ tp.max <= maxSeen
        BY <1>0, <2>3 DEF CapKnown
      <4>3. caller[c].seen <= tp.destroyed
        BY <1>0, <1>1 DEF SeenOld
      <4>4. tp.created - caller[c].seen < tp.max
        BY <1>4, <4>1, <4>2 DEF CapReached
      <4> QED
        BY <2>3, <4>1, <4>2, <4>3, <4>4
    <3>2. Cardinality(Live) + Cardinality(Passed) + Cardinality(Undecided(x)) + 1 <= x
      BY <1>0, <2>3, <3>1, Joins
    <3> QED
      BY <1>2, <2>2, <3>2, CrowdSizes
  <2>4. ASSUME maxSeen > 0 PROVE Cardinality(Live) + Cardinality(Passed)' <= maxSeen
    <3>1. maxSeen \in Nat
      BY <1>0 DEF TypeOK
    <3>2. PICK x \in Nat : x = maxSeen
      BY <3>1
    <3>3. Cardinality(Live) + Cardinality(Passed)' + Cardinality(Undecided(x)') <= x
      BY <2>3, <2>4, <3>2
    <3> QED
      BY <3>2, <3>3, CrowdSizes
  <2> QED
    BY <1>1, <1>2, <2>3, <2>4 DEF Headroom
<1> QED
  BY <1>3, <1>4

LEMMA StartThreadRoom ==
  ASSUME CapInvariant, NEW c \in Callers, StartThread(c) PROVE Headroom'
<1>0. TypeOK /\ Headroom /\ worker \in [Workers -> WorkerType]
  BY TypeParts DEF CapInvariant, CountInvariant
<1>1. PICK w \in Workers : worker[w].pc = "none" /\ worker' = [worker EXCEPT ![w].pc = "begin"]
  BY DEF StartThread
<1>2. \A d \in Callers \ {c} : caller'[d] = caller[d]
  BY <1>0, AfterStartFacts DEF StartThread
<1>3. caller[c].pc = "pthread" /\ caller'[c].pc \in {"push", "start", "idle"}
      /\ UNCHANGED <<tp, maxSeen>>
  BY <1>0, AfterStartFacts DEF StartThread, CallerAt
<1>4. Live' = Live \cup {w} /\ w \notin Live
  BY <1>0, <1>1 DEF Live, In, WorkerType
<1>5. Passed' = Passed \ {c} /\ c \in Passed /\ \A x \in Nat : Undecided(x)' = Undecided(x)
  BY <1>2, <1>3 DEF Passed, Undecided
<1>6. Cardinality(Live)' = Cardinality(Live) + 1
  BY <1>4, CrowdSizes, FS_AddElement
<1>7. Cardinality(Passed)' = Cardinality(Passed) - 1
  BY <1>5, CrowdSizes, FS_RemoveElement
<1>8. Cardinality(Live)' + Cardinality(Passed)' = Cardinality(Live) + Cardinality(Passed)
  BY <1>6, <1>7, CrowdSizes
<1> QED
  BY <1>0, <1>3, <1>5, <1>8 DEF Headroom

LEMMA WorkerEndRoom ==
  ASSUME CapInvariant, NEW w \in Workers, WorkerEnd(w) PROVE Headroom'
<1>0. TypeOK /\ Headroom /\ worker \in [Workers -> WorkerType] /\ tp \in TpType
      /\ caller \in [Callers -> CallerType] /\ maxSeen \in Nat
  BY TypeParts DEF CapInvariant, CountInvariant, RestTyped
<1>1. /\ UNCHANGED <<caller, maxSeen>> /\ tp'.destroyed = tp.destroyed + 1
      /\ worker[w].pc = "end" /\ worker' = [worker EXCEPT ![w].pc = "done"]
  BY <1>0 DEF WorkerEnd, WorkerAt, WorkerGoto, Others, TpType
<1>2. Live' = Live \ {w} /\ w \in Live
  BY <1>0, <1>1 DEF Live, In, WorkerType
<1>3. Cardinality(Live)' = Cardinality(Live) - 1
  BY <1>2, CrowdSizes, FS_RemoveElement
<1>4. Passed' = Passed
  BY <1>1 DEF Passed
<1>5. ASSUME NEW x \in Nat PROVE Undecided(x)' = Undecided(x + 1)
  <2>1. \A c \in Callers : caller[c].seen \in Nat
    BY <1>0 DEF CallerType
  <2>2. tp.destroyed \in Nat
    BY <1>0 DEF TpType
  <2>3. \A c \in Callers :
          caller[c].seen - tp'.destroyed < x <=> caller[c].seen - tp.destroyed < x + 1
    BY <1>1, <2>1, <2>2
  <2> QED
    BY <1>1, <2>3 DEF Undecided
<1>6. ASSUME maxSeen > 0, NEW x \in Nat, x >= maxSeen, Undecided(x)' # {}
      PROVE  Cardinality(Live)' + Cardinality(Passed)' + Cardinality(Undecided(x)') <= x
  <2>1. x + 1 \in Nat /\ x + 1 >= maxSeen /\ Undecided(x + 1) # {}
    BY <1>0, <1>5, <1>6
  <2>2. Cardinality(Live) + Cardinality(Passed) + Cardinality(Undecided(x + 1)) <= x + 1
    BY <1>0, <1>6, <2>1 DEF Headroom
  <2>3. Cardinality(Undecided(x)') = Cardinality(Undecided(x + 1))
    BY <1>5
  <2> QED
    BY <1>3, <1>4, <2>2, <2>3, CrowdSizes
<1>7. ASSUME maxSeen > 0 PROVE Cardinality(Live)' + Cardinality(Passed)' <= maxSeen
  <2>1. Cardinality(Live) + Cardinality(Passed) <= maxSeen
    BY <1>0, <1>7 DEF Headroom
  <2> QED
    BY <1>0, <1>3, <1>4, <2>1, CrowdSizes
<1> QED
  BY <1>1, <1>6, <1>7 DEF Headroom

LEMMA SetMaxRoom ==
  ASSUME CapInvariant, NEW c \in Clients, SetMax(c) PROVE Headroom'
<1>0. Headroom /\ tp \in TpType /\ maxSeen \in Nat
  BY TypeParts DEF CapInvariant, CountInvariant, RestTyped
<1>1. UNCHANGED <<worker, caller>> /\ tp'.destroyed = tp.destroyed
  BY <1>0 DEF SetMax, TpType
<1>2. maxSeen' \in Nat /\ (maxSeen' > 0 => maxSeen > 0 /\ maxSeen <= maxSeen')
  BY <1>0, ConfigAssumption DEF SetMax
<1>3. Live' = Live /\ Passed' = Passed /\ \A x \in Nat : Undecided(x)' = Undecided(x)
  BY <1>1 DEF Live, In, Passed, Undecided
<1>4. ASSUME maxSeen' > 0
      PROVE  /\ Cardinality(Live) + Cardinality(Passed) <= maxSeen'
             /\ \A x \in Nat : x >= maxSeen' => x >= maxSeen
  BY <1>0, <1>2, <1>4, CrowdSizes DEF Headroom
<1> QED
  BY <1>0, <1>2, <1>3, <1>4 DEF Headroom

LEMMA HeadroomStep == ASSUME CapInvariant, [Next]_vars PROVE Headroom'
  <2>0. /\ Headroom /\ TypeOK /\ worker \in [Workers -> WorkerType] /\ maxSeen \in Nat
        /\ caller \in [Callers -> CallerType] /\ tp \in TpType
    BY TypeParts DEF CapInvariant, CountInvariant, RestTyped
  <2>1. CASE UNCHANGED vars
    BY <2>0, <2>1 DEF vars, Headroom, Live, In, Passed, Undecided
  <2>2. ASSUME NEW w \in Workers, WorkerPop(w) PROVE Headroom'
    <3>1. /\ UNCHANGED maxSeen /\ Live' = Live /\ Passed' \subseteq Passed
          /\ \A x \in Nat : Undecided(x)' \subseteq Undecided(x)
      BY <2>2, <2>0 DEF WorkerPop, CallerAt, CallerGoto, WorkerAt, WorkerGoto, CallerType,
         WorkerType, TpType, Callers, Others, history, Live, In, Passed, Undecided
    <3> QED
      BY <2>0, <3>1, RoomKept
  <2>3. ASSUME NEW w \in Workers, WorkerEnd(w) PROVE Headroom'
    BY <2>3, WorkerEndRoom DEF WorkerEnd
  <2>4. ASSUME NEW w \in Workers,
               \/ WorkerBegin(w) \/ WorkerCountActive(w) \/ WorkerCountIdle(w)
               \/ WorkerLeaveIdle(w)
        PROVE  Headroom'
    <3>1. /\ UNCHANGED maxSeen /\ Live' = Live /\ Passed' \subseteq Passed
          /\ \A x \in Nat : Undecided(x)' \subseteq Undecided(x)
      BY <2>4, <2>0 DEF WorkerBegin, WorkerCountActive, WorkerCountIdle, WorkerLeaveIdle,
         CallerAt, CallerGoto, WorkerAt, WorkerGoto, CallerType, WorkerType, TpType,
         Callers, Others, history, Live, In, Passed, Undecided
    <3> QED
      BY <2>0, <3>1, RoomKept
  <2>5. ASSUME NEW w \in Workers,
               \/ WorkerRun(w) \/ WorkerPopNothing(w) \/ WorkerStreakEnds(w)
               \/ WorkerCheckDrain(w)
        PROVE  Headroom'
    <3>1. /\ UNCHANGED maxSeen /\ Live' = Live /\ Passed' \subseteq Passed
          /\ \A x \in Nat : Undecided(x)' \subseteq Undecided(x)
      BY <2>5, <2>0 DEF WorkerRun, WorkerPopNothing, WorkerStreakEnds, WorkerCheckDrain,
         CallerAt, CallerGoto, WorkerAt, WorkerGoto, CallerType, WorkerType, TpType,
         Callers, Others, history, Live, In, Passed, Undecided
    <3> QED
      BY <2>0, <3>1, RoomKept
  <2>6. ASSUME NEW w \in Workers,
               \/ WorkerCheckStop(w) \/ WorkerFold(w) \/ WorkerEndIdle(w)
               \/ WorkerEndActive(w)
        PROVE  Headroom'
    <3>1. /\ UNCHANGED maxSeen /\ Live' = Live /\ Passed' \subseteq Passed
          /\ \A x \in Nat : Undecided(x)' \subseteq Undecided(x)
      BY <2>6, <2>0 DEF WorkerCheckStop, Sleep, WorkerFold, WorkerEndIdle, WorkerEndActive,
         CallerAt, CallerGoto, WorkerAt, WorkerGoto, CallerType, WorkerType, TpType,
         Callers, Others, history, Live, In, Passed, Undecided
    <3> QED
      BY <2>0, <3>1, RoomKept
  <2>7. ASSUME NEW c \in Callers, StartInc(c) PROVE Headroom'
    BY <2>7, StartIncRoom DEF StartInc
  <2>8. ASSUME NEW c \in Callers, StartRead(c) PROVE Headroom'
    BY <2>8, StartReadRoom DEF StartRead
  <2>9. ASSUME NEW c \in Callers, StartIncLate(c) PROVE Headroom'
    BY <2>9, StartIncLateRoom DEF StartIncLate
  <2>10. ASSUME NEW c \in Callers, StartUndo(c) PROVE Headroom'
    <3>1. /\ AfterStart(c, TRUE) /\ UNCHANGED <<worker, maxSeen>>
          /\ tp'.destroyed = tp.destroyed
      BY <2>10, <2>0 DEF StartUndo, TpType
    <3>2. /\ \A d \in Callers \ {c} : caller'[d] = caller[d]
          /\ caller'[c].pc \in {"push", "start", "idle"}
      BY <2>0, <3>1, AfterStartFacts
    <3>3. /\ Live' = Live /\ Passed' \subseteq Passed
          /\ \A x \in Nat : Undecided(x)' \subseteq Undecided(x)
      BY <3>1, <3>2 DEF Live, In, Passed, Undecided
    <3> QED
      BY <2>0, <3>1, <3>3, RoomKept
  <2>11. ASSUME NEW c \in Callers, StartThread(c) PROVE Headroom'
    BY <2>11, StartThreadRoom DEF StartThread
  <2>12. ASSUME NEW c \in Callers, StartFail(c) PROVE Headroom'
    <3>1. /\ AfterStart(c, FALSE) /\ UNCHANGED <<worker, maxSeen>>
          /\ tp'.destroyed = tp.destroyed
      BY <2>12, <2>0 DEF StartFail, TpType
    <3>2. /\ \A d \in Callers \ {c} : caller'[d] = caller[d]
          /\ caller'[c].pc \in {"push", "start", "idle"}
      BY <2>0, <3>1, AfterStartFacts
    <3>3. /\ Live' = Live /\ Passed' \subseteq Passed
          /\ \A x \in Nat : Undecided(x)' \subseteq Undecided(x)
      BY <3>1, <3>2 DEF Live, In, Passed, Undecided
    <3> QED
      BY <2>0, <3>1, <3>3, RoomKept
  <2>13. ASSUME NEW c \in Callers,
               \/ StartReadFirst(c) \/ RunPush(c) \/ RunFull(c) \/ SetMinLoop(c)
        PROVE  Headroom'
    <3>1. /\ UNCHANGED maxSeen /\ Live' = Live /\ Passed' \subseteq Passed
          /\ \A x \in Nat : Undecided(x)' \subseteq Undecided(x)
      BY <2>13, <2>0 DEF StartReadFirst, RunPush, CallReturns, RunFull, SetMinLoop,
         CallerAt, CallerGoto, WorkerAt, WorkerGoto, CallerType, WorkerType, TpType,
         Callers, Others, history, Live, In, Passed, Undecided
    <3> QED
      BY <2>0, <3>1, RoomKept
  <2>14. ASSUME NEW c \in Clients, SetMax(c) PROVE Headroom'
    BY <2>14, SetMaxRoom DEF SetMax, SetCall
  <2>15. ASSUME NEW c \in Clients,
               \/ RunCall(c) \/ RunRefuse(c) \/ SetMin(c) \/ SetIdleTimeout(c)
        PROVE  Headroom'
    <3>1. /\ UNCHANGED maxSeen /\ Live' = Live /\ Passed' \subseteq Passed
          /\ \A x \in Nat : Undecided(x)' \subseteq Undecided(x)
      BY <2>15, <2>0 DEF RunCall, RunRefuse, SetMin, SetCall, SetIdleTimeout, CallerAt,
         CallerGoto, WorkerAt, WorkerGoto, CallerType, WorkerType, TpType, Callers, Others,
         history, Live, In, Passed, Undecided
    <3> QED
      BY <2>0, <3>1, RoomKept
  <2>16. CASE Destroy \/ CreateDrain \/ CreateFree \/ DestroyFree
    <3>1. /\ UNCHANGED maxSeen /\ Live' = Live /\ Passed' \subseteq Passed
          /\ \A x \in Nat : Undecided(x)' \subseteq Undecided(x)
      BY <2>16, <2>0 DEF Destroy, CreateDrain, CreateFree, DestroyFree, CallerAt,
         CallerGoto, WorkerAt, WorkerGoto, CallerType, WorkerType, TpType, Callers, Others,
         history, Live, In, Passed, Undecided
    <3> QED
      BY <2>0, <3>1, RoomKept
  <2> QED
    BY <2>1, <2>2, <2>3, <2>4, <2>5, <2>6, <2>7, <2>8, <2>9, <2>10, <2>11, <2>12, <2>13,
       <2>14, <2>15, <2>16
       DEF Next, Call, CallerStep, Start, WorkerStep, MainWait

LEMMA CapHolds == Spec => []CapInvariant
<1>1. CapInvariant /\ [Next]_vars => CapInvariant'
  BY TypeStep, CountersStep, WorkerLocalsStep, CallerLocalsStep, CapKnownStep, SeenOldStep,
     HeadroomStep DEF CapInvariant, CountInvariant
<1> QED
  BY <1>1, InitCap, PTL DEF Spec

(* Callers count a thread, read threads_destroyed in either order and undo  *)
(* the count, each on its own; yet no more threads are alive than the       *)
(* largest max_threads ever set (libam_thread_pool.c:189-193).              *)
THEOREM CapRespected == Spec => []MaxRespected
<1>1. CapInvariant => MaxRespected
  <2> SUFFICES ASSUME CapInvariant, maxSeen > 0 PROVE Cardinality(Live) <= maxSeen
    BY DEF MaxRespected
  <2>1. Cardinality(Live) + Cardinality(Passed) <= maxSeen /\ maxSeen \in Nat
    BY TypeParts DEF CapInvariant, CountInvariant, Headroom, RestTyped
  <2> QED
    BY <2>1, CrowdSizes
<1> QED
  BY <1>1, CapHolds, PTL


-----------------------------------------------------------------------------
(* What is true when the pool is freed.                                     *)

\* The tasks a worker owes the statistics: those it executed, until it has
\* folded their number in.
Due(w) == IF worker[w].pc \in {"none", "endIdle", "endActive", "end", "done"} THEN 0
          ELSE worker[w].sum + worker[w].busy

\* Every task executed is credited to the thread that owes it, or to the
\* statistics.  Nobody and Folded are no threads.
Nobody == -1
Folded == 0
Credited(by, x) == {t \in Tasks : by[t] = x}
Credits(by) ==
    /\ \A t \in Tasks : by[t] = Nobody <=> ran[t] = 0
    /\ tp.busySum = Cardinality(Credited(by, Folded))
    /\ \A w \in Workers : Cardinality(Credited(by, w)) = Due(w)
Credit == \E by \in [Tasks -> Workers \cup {Nobody, Folded}] : Credits(by)

CloseInvariant == TaskInvariant /\ FreedQuiet /\ Credit

LEMMA CreditedFinite ==
  \A by, x : IsFiniteSet(Credited(by, x)) /\ Cardinality(Credited(by, x)) \in Nat
<1>1. \A by, x : Credited(by, x) \subseteq Tasks
  BY DEF Credited
<1> QED
  BY <1>1, FiniteAssumption, FS_Subset, FS_CardinalityType

LEMMA CreditKept ==
  ASSUME Credit, UNCHANGED ran, tp'.busySum = tp.busySum,
         \A w \in Workers : Due(w)' = Due(w)
  PROVE  Credit'
<1>1. PICK by \in [Tasks -> Workers \cup {Nobody, Folded}] : Credits(by)
  BY DEF Credit
<1>2. Credits(by)'
  BY <1>1 DEF Credits
<1> QED
  BY <1>2 DEF Credit

LEMMA InitClose == Init => CloseInvariant
<1> SUFFICES ASSUME Init PROVE CloseInvariant
  OBVIOUS
<1>1. FreedQuiet
  BY DEF Init, FreedQuiet
<1>2. Credit
  <2> DEFINE by == [t \in Tasks |-> Nobody]
  <2>1. by \in [Tasks -> Workers \cup {Nobody, Folded}]
    OBVIOUS
  <2>2. \A x \in Workers \cup {Folded} : Credited(by, x) = {}
    BY ConfigAssumption DEF Credited, Workers, Folded, Nobody
  <2>3. \A x \in Workers \cup {Folded} : Cardinality(Credited(by, x)) = 0
    BY <2>2, FS_EmptySet
  <2>4. tp.busySum = 0 /\ \A w \in Workers : Due(w) = 0
    BY DEF Init, Due
  <2>5. \A t \in Tasks : ran[t] = 0 /\ by[t] = Nobody
    BY DEF Init
  <2> HIDE DEF by
  <2>6. Credits(by)
    BY <2>3, <2>4, <2>5 DEF Credits
  <2> QED
    BY <2>1, <2>6 DEF Credit
<1> QED
  BY <1>1, <1>2, InitTasks DEF CloseInvariant

(* The pool is freed when the counters say so, and the counters are honest. *)
LEMMA FreedQuietStep == ASSUME CloseInvariant, [Next]_vars PROVE FreedQuiet'
  <2>0. /\ FreedQuiet /\ TypeOK /\ Counters /\ worker \in [Workers -> WorkerType]
    BY TypeParts DEF CloseInvariant, TaskInvariant, CountInvariant
  <2>1. CASE UNCHANGED vars
    BY <2>0, <2>1 DEF vars, FreedQuiet, Live, In
  <2>2. ASSUME NEW w \in Workers,
               \/ WorkerBegin(w) \/ WorkerCountActive(w) \/ WorkerCountIdle(w)
               \/ WorkerPop(w) \/ WorkerLeaveIdle(w) \/ WorkerRun(w)
               \/ WorkerPopNothing(w) \/ WorkerStreakEnds(w) \/ WorkerCheckDrain(w)
               \/ WorkerCheckStop(w) \/ WorkerFold(w) \/ WorkerEndIdle(w)
               \/ WorkerEndActive(w) \/ WorkerEnd(w)
        PROVE  FreedQuiet'
    BY <2>2, <2>0 DEF WorkerBegin, WorkerCountActive, WorkerCountIdle, WorkerPop,
       WorkerLeaveIdle, WorkerRun, WorkerPopNothing, WorkerStreakEnds, WorkerCheckDrain,
       WorkerCheckStop, Sleep, WorkerFold, WorkerEndIdle, WorkerEndActive, WorkerEnd,
       WorkerAt, CallerAt, Freed, Others, history, FreedQuiet, Live, In
  <2>3. ASSUME NEW c \in Callers, StartUndo(c) PROVE FreedQuiet'
    <3>1. AfterStart(c, TRUE) /\ ~Freed
      BY <2>3 DEF StartUndo, CallerAt
    <3>2. phase' \in {phase, "abandon", "open"}
      BY <2>0, <3>1, AfterStartFacts
    <3> QED
      BY <3>1, <3>2 DEF Freed, FreedQuiet
  <2>4. ASSUME NEW c \in Callers, StartThread(c) PROVE FreedQuiet'
    <3>1. AfterStart(c, TRUE) /\ ~Freed
      BY <2>4 DEF StartThread, CallerAt
    <3>2. phase' \in {phase, "abandon", "open"}
      BY <2>0, <3>1, AfterStartFacts
    <3> QED
      BY <3>1, <3>2 DEF Freed, FreedQuiet
  <2>5. ASSUME NEW c \in Callers, StartFail(c) PROVE FreedQuiet'
    <3>1. AfterStart(c, FALSE) /\ ~Freed
      BY <2>5 DEF StartFail, CallerAt
    <3>2. phase' \in {phase, "abandon", "open"}
      BY <2>0, <3>1, AfterStartFacts
    <3> QED
      BY <3>1, <3>2 DEF Freed, FreedQuiet
  <2>6. ASSUME NEW c \in Callers,
               \/ StartInc(c) \/ StartRead(c) \/ StartReadFirst(c) \/ StartIncLate(c)
               \/ RunPush(c) \/ RunFull(c) \/ SetMinLoop(c)
        PROVE  FreedQuiet'
    BY <2>6, <2>0 DEF StartInc, StartRead, StartReadFirst, StartIncLate, RunPush,
       CallReturns, RunFull, SetMinLoop, WorkerAt, CallerAt, Freed, Others, history,
       FreedQuiet, Live, In
  <2>7. ASSUME NEW c \in Clients,
               \/ RunCall(c) \/ RunRefuse(c) \/ SetMin(c) \/ SetMax(c)
               \/ SetIdleTimeout(c)
        PROVE  FreedQuiet'
    BY <2>7, <2>0 DEF RunCall, RunRefuse, SetMin, SetCall, SetMax, SetIdleTimeout, WorkerAt,
       CallerAt, Freed, Others, history, FreedQuiet, Live, In
  <2>8. CASE CreateFree
    <3>1. tp.active = 0 /\ phase' = "failed" /\ UNCHANGED worker
      BY <2>8 DEF CreateFree
    <3>2. IsFiniteSet(Active)
      BY CrowdsFinite DEF Active, In
    <3>3. Active = {}
      BY <2>0, <3>1, <3>2, FS_EmptySet DEF Counters
    <3>4. Live \subseteq In({"begin", "countActive", "end"})
      BY <2>0, <3>3 DEF Live, In, Active, WorkerType, WorkerPlaces
    <3> QED
      BY <3>1, <3>4 DEF FreedQuiet, Live, In
  <2>9. CASE DestroyFree
    <3>1. /\ tp.created = tp.destroyed + Cardinality(Live) + Cardinality(Starting) + fails
          /\ tp.created \in Nat /\ tp.destroyed \in Nat /\ fails \in Nat
      BY <2>0, ConfigAssumption DEF Counters, TypeOK
    <3>2. tp.destroyed >= tp.created /\ phase' = "closed" /\ UNCHANGED worker
      BY <2>9 DEF DestroyFree
    <3> DEFINE l == Cardinality(Live)  s == Cardinality(Starting)
    <3>3. l \in Nat /\ s \in Nat /\ tp.created = tp.destroyed + l + s + fails
      BY <3>1, Sizes
    <3> HIDE DEF l, s
    <3>4. l = 0
      BY <3>1, <3>2, <3>3
    <3>5. Live = {}
      BY <3>4, CrowdSizes, FS_EmptySet DEF l
    <3> QED
      BY <3>2, <3>5 DEF FreedQuiet, Live, In
  <2>10. CASE Destroy \/ CreateDrain
    BY <2>10, <2>0 DEF Destroy, CreateDrain, WorkerAt, CallerAt, Freed, Others, history,
       FreedQuiet, Live, In
  <2> QED
    BY <2>1, <2>2, <2>3, <2>4, <2>5, <2>6, <2>7, <2>8, <2>9, <2>10
       DEF Next, Call, CallerStep, Start, WorkerStep, MainWait

LEMMA CreditStep == ASSUME CloseInvariant, [Next]_vars PROVE Credit'
  <2>0. /\ Credit /\ TypeOK /\ Fates /\ WorkerLocals /\ worker \in [Workers -> WorkerType]
        /\ tp \in TpType /\ ran \in [Tasks -> Nat]
    BY TypeParts DEF CloseInvariant, TaskInvariant, CountInvariant, RestTyped
  <2>1. CASE UNCHANGED vars
    BY <2>0, <2>1, CreditKept DEF vars, Due
  <2>2. ASSUME NEW w \in Workers, WorkerPop(w) PROVE Credit'
    <3>1. UNCHANGED ran /\ tp'.busySum = tp.busySum /\ \A v \in Workers : Due(v)' = Due(v)
      BY <2>2, <2>0 DEF WorkerPop, WorkerAt, WorkerGoto, WorkerType, TpType, WorkerLocals,
         Others, history, Due
    <3> QED
      BY <2>0, <3>1, CreditKept
  <2>3. ASSUME NEW w \in Workers, WorkerRun(w) PROVE Credit'
    <3>0. PICK t \in Tasks : t = worker[w].task
      BY <2>3, <2>0 DEF WorkerRun, WorkerAt, WorkerLocals, WorkerType
    <3>1. /\ \A v \in Workers \ {w} : worker'[v] = worker[v]
          /\ ran' = [ran EXCEPT ![t] = ran[t] + 1] /\ UNCHANGED tp
          /\ worker[w].pc = "run" /\ worker'[w].pc = "pop"
          /\ worker'[w].sum = worker[w].sum /\ worker'[w].busy = worker[w].busy + 1
      BY <2>3, <2>0, <3>0 DEF WorkerRun, WorkerAt, WorkerType
    <3>2. t \in Tasks /\ worker[w].sum \in Nat /\ worker[w].busy \in Nat
      BY <2>3, <2>0 DEF WorkerRun, WorkerAt, WorkerLocals, WorkerType
    <3>3. ran[t] = 0
      <4>1. w \in Holders(t)
        BY <3>0 DEF Holders
      <4>2. Cardinality(Holders(t)) # 0 /\ Cardinality(Holders(t)) \in Nat
        BY <4>1, HoldersFinite, FS_EmptySet
      <4>3. One(t \in queue) + Cardinality(Holders(t)) + ran[t] = One(t \in accepted)
        BY <2>0, <3>2 DEF Fates
      <4>4. One(t \in queue) \in {0, 1} /\ One(t \in accepted) \in {0, 1} /\ ran[t] \in Nat
        BY <2>0, <3>2 DEF One
      <4> QED
        BY <4>2, <4>3, <4>4
    <3>4. PICK by \in [Tasks -> Workers \cup {Nobody, Folded}] : Credits(by)
      BY <2>0 DEF Credit
    <3> DEFINE by2 == [by EXCEPT ![t] = w]
    <3>5. by2 \in [Tasks -> Workers \cup {Nobody, Folded}]
      BY <3>2, <3>4
    <3>6. by[t] = Nobody
      BY <3>2, <3>3, <3>4 DEF Credits
    <3>7. Nobody \notin Workers /\ Folded \notin Workers /\ Nobody # Folded
      BY ConfigAssumption DEF Workers, Nobody, Folded
    <3>8. /\ Credited(by2, w) = Credited(by, w) \cup {t} /\ t \notin Credited(by, w)
          /\ \A x \in (Workers \cup {Folded}) \ {w} : Credited(by2, x) = Credited(by, x)
      BY <3>2, <3>4, <3>6, <3>7 DEF Credited
    <3>9. \A u \in Tasks : by2[u] = Nobody <=> ran'[u] = 0
      <4>1. ASSUME NEW u \in Tasks PROVE by2[u] = Nobody <=> ran'[u] = 0
        <5>0. ran \in [Tasks -> Nat]
          BY <2>0
        <5>1. CASE u = t
          <6>1. by2[u] = w /\ w # Nobody
            BY <3>2, <3>4, <3>7, <5>1
          <6>2. ran'[u] = 1
            BY <3>1, <3>2, <3>3, <5>0, <5>1
          <6> QED
            BY <6>1, <6>2
        <5>2. CASE u # t
          <6>1. by2[u] = by[u] /\ ran'[u] = ran[u]
            BY <3>1, <3>2, <3>4, <5>0, <5>2
          <6> QED
            BY <3>4, <6>1 DEF Credits
        <5> QED
          BY <5>1, <5>2
      <4> QED
        BY <4>1
    <3> HIDE DEF by2
    <3>10. Cardinality(Credited(by2, w)) = Due(w)'
      <4>1. Cardinality(Credited(by2, w)) = Cardinality(Credited(by, w)) + 1
        <5> DEFINE A == Credited(by, w)
        <5>1. IsFiniteSet(A) /\ t \notin A /\ Credited(by2, w) = A \cup {t}
          BY <3>8, CreditedFinite
        <5> HIDE DEF A
        <5>2. Cardinality(A \cup {t}) = Cardinality(A) + 1
          BY <5>1, FS_AddElement
        <5> QED
          BY <5>1, <5>2 DEF A
      <4>2. Cardinality(Credited(by, w)) = worker[w].sum + worker[w].busy
        BY <3>1, <3>4 DEF Credits, Due
      <4> QED
        BY <3>1, <3>2, <4>1, <4>2 DEF Due
    <3>11. \A v \in Workers \ {w} : Cardinality(Credited(by2, v)) = Due(v)'
      BY <3>1, <3>4, <3>8 DEF Credits, Due
    <3>12. Credits(by2)'
      BY <3>1, <3>4, <3>7, <3>8, <3>9, <3>10, <3>11 DEF Credits
    <3> QED
      BY <3>5, <3>12 DEF Credit
  <2>4. ASSUME NEW w \in Workers, WorkerStreakEnds(w) PROVE Credit'
    <3>1. /\ UNCHANGED ran /\ tp'.busySum = tp.busySum
          /\ \A v \in Workers \ {w} : worker'[v] = worker[v]
      BY <2>4, <2>0 DEF WorkerStreakEnds, WorkerType, TpType
    <3>2. /\ worker[w].pc = "streakEnds" /\ worker'[w].pc = "checkDrain"
          /\ worker'[w].busy = 0 /\ worker'[w].sum = worker[w].sum + worker[w].busy
          /\ worker[w].sum \in Nat /\ worker[w].busy \in Nat
      BY <2>4, <2>0 DEF WorkerStreakEnds, WorkerAt, WorkerType
    <3>3. Due(w)' = Due(w)
      BY <3>2 DEF Due
    <3>4. \A v \in Workers : Due(v)' = Due(v)
      BY <3>1, <3>3 DEF Due
    <3> QED
      BY <2>0, <3>1, <3>4, CreditKept
  <2>5. ASSUME NEW w \in Workers, WorkerFold(w) PROVE Credit'
    <3>1. /\ \A v \in Workers \ {w} : worker'[v] = worker[v]
          /\ UNCHANGED ran /\ tp'.busySum = tp.busySum + worker[w].sum
          /\ worker[w].pc = "fold" /\ worker'[w].pc = "endIdle"
      BY <2>5, <2>0 DEF WorkerFold, WorkerAt, WorkerGoto, WorkerType, TpType
    <3>2. worker[w].busy = 0 /\ worker[w].sum \in Nat
      BY <2>0, <3>1 DEF WorkerLocals, WorkerType
    <3>3. PICK by \in [Tasks -> Workers \cup {Nobody, Folded}] : Credits(by)
      BY <2>0 DEF Credit
    <3> DEFINE by2 == [t \in Tasks |-> IF by[t] = w THEN Folded ELSE by[t]]
    <3>4. by2 \in [Tasks -> Workers \cup {Nobody, Folded}]
      BY <3>3
    <3>5. Nobody \notin Workers /\ Folded \notin Workers /\ Nobody # Folded
      BY ConfigAssumption DEF Workers, Nobody, Folded
    <3>6. /\ Credited(by2, Folded) = Credited(by, Folded) \cup Credited(by, w)
          /\ Credited(by, Folded) \cap Credited(by, w) = {}
          /\ Credited(by2, w) = {}
          /\ \A v \in Workers \ {w} : Credited(by2, v) = Credited(by, v)
      BY <3>3, <3>5 DEF Credited
    <3>7. \A u \in Tasks : by2[u] = Nobody <=> ran[u] = 0
      BY <3>3, <3>5 DEF Credits
    <3> HIDE DEF by2
    <3>8. tp'.busySum = Cardinality(Credited(by2, Folded))
      <4>1. Cardinality(Credited(by, Folded) \cup Credited(by, w))
              = Cardinality(Credited(by, Folded)) + Cardinality(Credited(by, w))
                  - Cardinality(Credited(by, Folded) \cap Credited(by, w))
        BY CreditedFinite, FS_Union
      <4>2. Cardinality(Credited(by, Folded) \cap Credited(by, w)) = 0
        BY <3>6, FS_EmptySet
      <4>3. Cardinality(Credited(by, w)) = worker[w].sum
        BY <3>1, <3>2, <3>3 DEF Credits, Due
      <4>4. tp.busySum = Cardinality(Credited(by, Folded))
        BY <3>3 DEF Credits
      <4>5. Cardinality(Credited(by, Folded)) \in Nat
        BY CreditedFinite
      <4> QED
        BY <3>1, <3>2, <3>6, <4>1, <4>2, <4>3, <4>4, <4>5
    <3>9. Cardinality(Credited(by2, w)) = Due(w)'
      BY <3>1, <3>6, FS_EmptySet DEF Due
    <3>10. \A v \in Workers \ {w} : Cardinality(Credited(by2, v)) = Due(v)'
      BY <3>1, <3>3, <3>6 DEF Credits, Due
    <3>11. Credits(by2)'
      BY <3>1, <3>7, <3>8, <3>9, <3>10 DEF Credits
    <3> QED
      BY <3>4, <3>11 DEF Credit
  <2>6. ASSUME NEW w \in Workers,
               \/ WorkerBegin(w) \/ WorkerCountActive(w) \/ WorkerCountIdle(w)
               \/ WorkerLeaveIdle(w)
        PROVE  Credit'
    <3>1. UNCHANGED ran /\ tp'.busySum = tp.busySum /\ \A v \in Workers : Due(v)' = Due(v)
      BY <2>6, <2>0 DEF WorkerBegin, WorkerCountActive, WorkerCountIdle, WorkerLeaveIdle,
         WorkerAt, WorkerGoto, WorkerType, TpType, WorkerLocals, Others, history, Due
    <3> QED
      BY <2>0, <3>1, CreditKept
  <2>7. ASSUME NEW w \in Workers,
               \/ WorkerPopNothing(w) \/ WorkerCheckDrain(w) \/ WorkerCheckStop(w)
               \/ WorkerEndIdle(w)
        PROVE  Credit'
    <3>1. UNCHANGED ran /\ tp'.busySum = tp.busySum /\ \A v \in Workers : Due(v)' = Due(v)
      BY <2>7, <2>0 DEF WorkerPopNothing, WorkerCheckDrain, WorkerCheckStop, Sleep,
         WorkerEndIdle, WorkerAt, WorkerGoto, WorkerType, TpType, WorkerLocals, Others,
         history, Due
    <3> QED
      BY <2>0, <3>1, CreditKept
  <2>8. ASSUME NEW w \in Workers,
               \/ WorkerEndActive(w) \/ WorkerEnd(w)
        PROVE  Credit'
    <3>1. UNCHANGED ran /\ tp'.busySum = tp.busySum /\ \A v \in Workers : Due(v)' = Due(v)
      BY <2>8, <2>0 DEF WorkerEndActive, WorkerEnd, WorkerAt, WorkerGoto, WorkerType,
         TpType, WorkerLocals, Others, history, Due
    <3> QED
      BY <2>0, <3>1, CreditKept
  <2>9. ASSUME NEW c \in Callers, StartThread(c) PROVE Credit'
    <3>1. UNCHANGED ran /\ tp'.busySum = tp.busySum /\ \A v \in Workers : Due(v)' = Due(v)
      BY <2>9, <2>0 DEF StartThread, WorkerAt, WorkerGoto, WorkerType, TpType, WorkerLocals,
         Others, history, Due
    <3> QED
      BY <2>0, <3>1, CreditKept
  <2>10. ASSUME NEW c \in Callers,
               \/ StartInc(c) \/ StartRead(c) \/ StartReadFirst(c) \/ StartIncLate(c)
        PROVE  Credit'
    <3>1. UNCHANGED ran /\ tp'.busySum = tp.busySum /\ \A v \in Workers : Due(v)' = Due(v)
      BY <2>10, <2>0 DEF StartInc, StartRead, StartReadFirst, StartIncLate, WorkerAt,
         WorkerGoto, WorkerType, TpType, WorkerLocals, Others, history, Due
    <3> QED
      BY <2>0, <3>1, CreditKept
  <2>11. ASSUME NEW c \in Callers,
               \/ StartUndo(c) \/ StartFail(c) \/ RunPush(c) \/ RunFull(c)
        PROVE  Credit'
    <3>1. UNCHANGED ran /\ tp'.busySum = tp.busySum /\ \A v \in Workers : Due(v)' = Due(v)
      BY <2>11, <2>0 DEF StartUndo, StartFail, RunPush, CallReturns, RunFull, WorkerAt,
         WorkerGoto, WorkerType, TpType, WorkerLocals, Others, history, Due
    <3> QED
      BY <2>0, <3>1, CreditKept
  <2>12. ASSUME NEW c \in Callers, SetMinLoop(c) PROVE Credit'
    <3>1. UNCHANGED ran /\ tp'.busySum = tp.busySum /\ \A v \in Workers : Due(v)' = Due(v)
      BY <2>12, <2>0 DEF SetMinLoop, WorkerAt, WorkerGoto, WorkerType, TpType, WorkerLocals,
         Others, history, Due
    <3> QED
      BY <2>0, <3>1, CreditKept
  <2>13. ASSUME NEW c \in Clients,
               \/ RunCall(c) \/ RunRefuse(c) \/ SetMin(c) \/ SetMax(c)
        PROVE  Credit'
    <3>1. UNCHANGED ran /\ tp'.busySum = tp.busySum /\ \A v \in Workers : Due(v)' = Due(v)
      BY <2>13, <2>0 DEF RunCall, RunRefuse, SetMin, SetCall, SetMax, WorkerAt, WorkerGoto,
         WorkerType, TpType, WorkerLocals, Others, history, Due
    <3> QED
      BY <2>0, <3>1, CreditKept
  <2>14. ASSUME NEW c \in Clients, SetIdleTimeout(c) PROVE Credit'
    <3>1. UNCHANGED ran /\ tp'.busySum = tp.busySum /\ \A v \in Workers : Due(v)' = Due(v)
      BY <2>14, <2>0 DEF SetIdleTimeout, SetCall, WorkerAt, WorkerGoto, WorkerType, TpType,
         WorkerLocals, Others, history, Due
    <3> QED
      BY <2>0, <3>1, CreditKept
  <2>15. CASE Destroy \/ CreateDrain \/ CreateFree \/ DestroyFree
    <3>1. UNCHANGED ran /\ tp'.busySum = tp.busySum /\ \A v \in Workers : Due(v)' = Due(v)
      BY <2>15, <2>0 DEF Destroy, CreateDrain, CreateFree, DestroyFree, WorkerAt,
         WorkerGoto, WorkerType, TpType, WorkerLocals, Others, history, Due
    <3> QED
      BY <2>0, <3>1, CreditKept
  <2> QED
    BY <2>1, <2>2, <2>3, <2>4, <2>5, <2>6, <2>7, <2>8, <2>9, <2>10, <2>11, <2>12, <2>13,
       <2>14, <2>15
       DEF Next, Call, CallerStep, Start, WorkerStep, MainWait

LEMMA CloseHolds == Spec => []CloseInvariant
<1>1. CloseInvariant /\ [Next]_vars => CloseInvariant'
  BY TypeStep, CountersStep, WorkerLocalsStep, CallerLocalsStep, TasksApartStep, FatesStep,
     FreedQuietStep, CreditStep DEF CloseInvariant, TaskInvariant, CountInvariant
<1> QED
  BY <1>1, InitClose, PTL DEF Spec

(* When no thread is left, nobody owes the statistics anything.             *)
LEMMA AllFolded == CloseInvariant => BusyAccounted
<1> SUFFICES ASSUME CloseInvariant, phase = "closed"
             PROVE  tp.busySum = Cardinality({t \in Tasks : ran[t] > 0})
  BY DEF BusyAccounted
<1>1. PICK by \in [Tasks -> Workers \cup {Nobody, Folded}] : Credits(by)
  BY DEF CloseInvariant, Credit
<1>2. Live = {} /\ ran \in [Tasks -> Nat]
  BY TypeParts DEF CloseInvariant, TaskInvariant, CountInvariant, FreedQuiet, RestTyped
<1>3. \A w \in Workers : Due(w) = 0
  BY <1>2 DEF Live, In, Due
<1>4. \A w \in Workers : Credited(by, w) = {}
  BY <1>1, <1>3, CreditedFinite, FS_EmptySet DEF Credits
<1>5. \A t \in Tasks : by[t] = Nobody \/ by[t] = Folded
  BY <1>1, <1>4 DEF Credited
<1>6. Nobody # Folded
  BY DEF Nobody, Folded
<1>7. \A t \in Tasks : by[t] = Folded <=> ran[t] > 0
  BY <1>1, <1>2, <1>5, <1>6 DEF Credits
<1>8. Credited(by, Folded) = {t \in Tasks : ran[t] > 0}
  BY <1>7 DEF Credited
<1> QED
  BY <1>1, <1>8 DEF Credits

(* When destroy frees the pool no thread is left in it, and the statistics  *)
(* it hands out count every task executed, through streaks cut short and    *)
(* threads that stopped for idleness; when create gives up, only threads    *)
(* that have not counted themselves yet, or have only their stop left to    *)
(* count, are still inside (libam_thread_pool.c:103-176, 258-300).          *)
THEOREM FreedSoundly == Spec => []ClosedSound
<1>1. CloseInvariant => ClosedSound
  BY AllFolded DEF CloseInvariant, ClosedSound
<1> QED
  BY <1>1, CloseHolds, PTL


-----------------------------------------------------------------------------
(* The stack of tasks is used as AmBag lets a container be used.            *)
LEMMA SameCardinality == \A S : Stack!Cardinality(S) = Cardinality(S)
BY DEF Stack!Cardinality, Cardinality

Everyone == Workers \cup Clients
OpOf(x) == IF x \in Popping THEN "pop" ELSE IF x \in Pushing THEN "push" ELSE "none"
ArgOf(x) == IF x \in Pushing THEN caller[x].task ELSE NULL
Outside == Tasks \ (queue \cup {caller[c].task : c \in Pushing})

\* A task in the stack was accepted, so nobody offers it.
LEMMA QueueApart ==
  ASSUME TaskInvariant
  PROVE  /\ queue \subseteq accepted
         /\ \A c \in Pushing : caller[c].task \notin queue /\ caller[c].task \in Tasks
<1>1. TypeOK /\ TasksApart /\ Fates /\ CallerLocals
  BY DEF TaskInvariant, CountInvariant
<1>2. ASSUME NEW t \in queue PROVE t \in accepted
  <2>1. t \in Tasks /\ ran[t] \in Nat
    BY <1>1 DEF TypeOK
  <2>2. One(t \in queue) + Cardinality(Holders(t)) + ran[t] = One(t \in accepted)
    BY <1>1, <2>1 DEF Fates
  <2>3. One(t \in queue) = 1 /\ Cardinality(Holders(t)) \in Nat
    BY HoldersFinite DEF One
  <2>4. One(t \in accepted) # 0
    <3>1. One(t \in accepted) \in Int
      BY OneIsInt
    <3> QED
      BY <2>1, <2>2, <2>3, <3>1
  <2> QED
    BY <2>4 DEF One
<1>3. ASSUME NEW c \in Pushing
      PROVE  caller[c].task \notin accepted /\ caller[c].task \in Tasks
  BY <1>1 DEF Pushing, Callers, CallerLocals, TasksApart, TypeOK
<1> QED
  BY <1>2, <1>3

(* What a step of a worker, and of a client, shows of the stack.            *)
LEMMA WorkerShows ==
  ASSUME NEW w \in Workers, \A v \in Workers \ {w} : worker'[v] = worker[v], UNCHANGED caller
  PROVE  /\ [x \in Everyone |-> OpOf(x)]' =
              [[x \in Everyone |-> OpOf(x)] EXCEPT
                 ![w] = IF worker'[w].pc = "pop" THEN "pop" ELSE "none"]
         /\ [x \in Everyone |-> OpOf(x)][w] = IF worker[w].pc = "pop" THEN "pop" ELSE "none"
         /\ [x \in Everyone |-> ArgOf(x)]' = [x \in Everyone |-> ArgOf(x)]
         /\ {caller[c].task : c \in Pushing}' = {caller[c].task : c \in Pushing}
<1>1. w \notin Clients
  BY ThreadsAssumption
<1>2. Pushing' = Pushing /\ Pushing \subseteq Clients
  BY DEF Pushing
<1>3. \A v \in Everyone \ {w} : v \in Popping' <=> v \in Popping
  BY DEF Popping, Everyone
<1>4. (w \in Popping <=> worker[w].pc = "pop") /\ (w \in Popping' <=> worker'[w].pc = "pop")
  BY DEF Popping
<1> QED
  BY <1>1, <1>2, <1>3, <1>4 DEF OpOf, ArgOf, Everyone

LEMMA ClientShows ==
  ASSUME NEW c \in Clients, \A d \in Clients \ {c} : caller'[d] = caller[d], Popping' = Popping
  PROVE  /\ [x \in Everyone |-> OpOf(x)]' =
              [[x \in Everyone |-> OpOf(x)] EXCEPT
                 ![c] = IF caller'[c].pc = "push" THEN "push" ELSE "none"]
         /\ [x \in Everyone |-> OpOf(x)][c] = IF caller[c].pc = "push" THEN "push" ELSE "none"
         /\ [x \in Everyone |-> ArgOf(x)]' =
              [[x \in Everyone |-> ArgOf(x)] EXCEPT
                 ![c] = IF caller'[c].pc = "push" THEN caller'[c].task ELSE NULL]
         /\ [x \in Everyone |-> ArgOf(x)][c] =
              IF caller[c].pc = "push" THEN caller[c].task ELSE NULL
<1>1. c \notin Workers /\ Popping \subseteq Workers
  BY ThreadsAssumption DEF Popping
<1>2. \A d \in Everyone \ {c} : /\ d \in Pushing' <=> d \in Pushing
                                /\ d \in Pushing => caller'[d] = caller[d]
  BY DEF Pushing, Everyone
<1>3. (c \in Pushing <=> caller[c].pc = "push") /\ (c \in Pushing' <=> caller'[c].pc = "push")
  BY DEF Pushing
<1> QED
  BY <1>1, <1>2, <1>3 DEF OpOf, ArgOf, Everyone

LEMMA ShowsNothing ==
  ASSUME UNCHANGED queue, Popping' = Popping, Pushing' = Pushing,
         \A c \in Pushing : caller'[c].task = caller[c].task
  PROVE  UNCHANGED Stack!vars
BY DEF Stack!vars

(* A client begins to push the task it has been given, or found in run.     *)
LEMMA Begins ==
  ASSUME TaskInvariant, NEW c \in Clients, NEW t \in Tasks,
         \A d \in Clients \ {c} : caller'[d] = caller[d],
         caller[c].pc # "push", caller'[c].pc = "push", caller'[c].task = t,
         t \notin accepted, \A d \in Clients \ {c} : caller[d].task # t,
         Popping' = Popping, UNCHANGED queue
  PROVE  Stack!BeginPush(c)
<1> DEFINE op == [x \in Everyone |-> OpOf(x)]
           arg == [x \in Everyone |-> ArgOf(x)]
<1>1. op[c] = "none" /\ op' = [op EXCEPT ![c] = "push"] /\ arg' = [arg EXCEPT ![c] = t]
  BY ClientShows
<1>2. Pushing' = Pushing \cup {c} /\ c \notin Pushing
  BY DEF Pushing
<1>3. t \in Outside
  BY <1>2, QueueApart DEF Outside, Pushing
<1>4. {caller[d].task : d \in Pushing}' = {caller[d].task : d \in Pushing} \cup {t}
  BY <1>2 DEF Pushing
<1>5. Outside' = Outside \ {t}
  BY <1>4 DEF Outside
<1> QED
  BY <1>1, <1>3, <1>5 DEF Stack!BeginPush, OpOf, ArgOf, Outside, Everyone

(* A client that pushed, or was refused, lets go of its task.               *)
LEMMA Ends ==
  ASSUME TaskInvariant, NEW c \in Clients, caller[c].pc = "push", CallReturns(c),
         UNCHANGED worker
  PROVE  /\ Popping' = Popping
         /\ \A d \in Clients \ {c} : caller'[d] = caller[d]
         /\ caller'[c].pc = "idle"
         /\ Pushing' = Pushing \ {c} /\ c \in Pushing
         /\ caller[c].task \in Tasks /\ caller[c].task \notin queue
         /\ \A d \in Pushing' : caller'[d].task = caller[d].task /\ caller[d].task # caller[c].task
<1>1. caller \in [Callers -> CallerType] /\ TasksApart /\ CallerLocals
  BY TypeParts DEF TaskInvariant, CountInvariant
<1>2. /\ \A d \in Clients \ {c} : caller'[d] = caller[d]
      /\ caller'[c].pc = "idle"
  BY <1>1 DEF CallReturns, CallerType, Callers
<1>3. Pushing' = Pushing \ {c} /\ c \in Pushing
  BY <1>2 DEF Pushing
<1>4. caller[c].task \in Tasks /\ caller[c].task \notin queue
  BY <1>3, QueueApart
<1>5. \A d \in Pushing' : caller[d].task # NULL
  BY <1>1, <1>3 DEF Pushing, Callers, CallerLocals
<1>6. \A d \in Pushing' : caller[d].task # caller[c].task
  BY <1>1, <1>3, <1>5 DEF TasksApart, Pushing, Callers
<1> QED
  BY <1>2, <1>3, <1>4, <1>6 DEF Popping, Pushing

LEMMA PushStep ==
  ASSUME TaskInvariant, NEW c \in Clients, RunPush(c) PROVE Stack!CommitPush(c)
<1> DEFINE op == [x \in Everyone |-> OpOf(x)]
           arg == [x \in Everyone |-> ArgOf(x)]
           t == caller[c].task
<1>1. caller[c].pc = "push" /\ CallReturns(c) /\ queue' = queue \cup {t}
      /\ Cardinality(queue) < Backlog /\ UNCHANGED worker
  BY DEF RunPush, CallerAt
<1>2. op[c] = "push" /\ op' = [op EXCEPT ![c] = "none"]
      /\ arg[c] = t /\ arg' = [arg EXCEPT ![c] = NULL]
  BY <1>1, Ends, ClientShows
<1>3. t # NULL
  BY <1>1, Ends, NamesAssumption
<1>4. {caller[d].task : d \in Pushing} = {caller[d].task : d \in Pushing}' \cup {t}
  BY <1>1, Ends
<1>5. Outside' = Outside
  BY <1>1, <1>4 DEF Outside
<1> QED
  BY <1>1, <1>2, <1>3, <1>5, SameCardinality
     DEF Stack!CommitPush, OpOf, ArgOf, Outside, Everyone

LEMMA RefuseStep ==
  ASSUME TaskInvariant, NEW c \in Clients, RunFull(c) PROVE Stack!FailPush(c)
<1> DEFINE op == [x \in Everyone |-> OpOf(x)]
           arg == [x \in Everyone |-> ArgOf(x)]
           t == caller[c].task
<1>1. caller[c].pc = "push" /\ CallReturns(c) /\ UNCHANGED <<queue, worker>>
      /\ Cardinality(queue) + Cardinality(Pushing \ {c}) >= Backlog
  BY DEF RunFull, CallerAt
<1>2. op[c] = "push" /\ op' = [op EXCEPT ![c] = "none"]
      /\ arg[c] = t /\ arg' = [arg EXCEPT ![c] = NULL]
  BY <1>1, Ends, ClientShows
<1>3. t # NULL
  BY <1>1, Ends, NamesAssumption
<1>4. {caller[d].task : d \in Pushing} = {caller[d].task : d \in Pushing}' \cup {t}
      /\ t \notin {caller[d].task : d \in Pushing}' /\ t \in Tasks /\ t \notin queue
  BY <1>1, Ends
<1>5. Outside' = Outside \cup ({t} \ {NULL})
  BY <1>1, <1>3, <1>4 DEF Outside
<1>6. Stack!Running("push") = Pushing
  BY ThreadsAssumption DEF Stack!Running, Pushing, Popping
<1> QED
  BY <1>1, <1>2, <1>5, <1>6, SameCardinality
     DEF Stack!FailPush, OpOf, ArgOf, Outside, Everyone

LEMMA TakeStep ==
  ASSUME TaskInvariant, NEW w \in Workers, WorkerPop(w) PROVE Stack!CommitPop(w)
<1> DEFINE op == [x \in Everyone |-> OpOf(x)]
           arg == [x \in Everyone |-> ArgOf(x)]
           offered == {caller[c].task : c \in Pushing}
<1>0. worker \in [Workers -> WorkerType] /\ queue \in SUBSET Tasks
  BY TypeParts DEF TaskInvariant, CountInvariant, RestTyped
<1>1. PICK t \in queue : /\ queue' = queue \ {t} /\ UNCHANGED caller
                         /\ worker[w].pc = "pop" /\ worker'[w].pc # "pop"
                         /\ \A v \in Workers \ {w} : worker'[v] = worker[v]
  BY <1>0 DEF WorkerPop, WorkerAt, WorkerType, Others
<1>2. op[w] = "pop" /\ op' = [op EXCEPT ![w] = "none"] /\ arg' = arg /\ offered' = offered
  BY <1>1, WorkerShows
<1>3. t \notin offered
  BY QueueApart
<1>4. Outside' = Outside \cup {t}
  BY <1>0, <1>1, <1>2, <1>3 DEF Outside
<1> QED
  BY <1>1, <1>2, <1>4 DEF Stack!CommitPop, OpOf, ArgOf, Outside, Everyone

LEMMA NothingStep ==
  ASSUME TaskInvariant, NEW w \in Workers, WorkerPopNothing(w) PROVE Stack!FailPop(w)
<1> DEFINE op == [x \in Everyone |-> OpOf(x)]
           arg == [x \in Everyone |-> ArgOf(x)]
           offered == {caller[c].task : c \in Pushing}
<1>0. worker \in [Workers -> WorkerType]
  BY TypeParts DEF TaskInvariant, CountInvariant
<1>1. /\ UNCHANGED <<queue, caller>> /\ worker[w].pc = "pop" /\ worker'[w].pc # "pop"
      /\ \A v \in Workers \ {w} : worker'[v] = worker[v]
      /\ Cardinality(queue) <= Cardinality(Popping \ {w})
  BY <1>0 DEF WorkerPopNothing, WorkerAt, WorkerGoto, WorkerType, Others
<1>2. op[w] = "pop" /\ op' = [op EXCEPT ![w] = "none"] /\ arg' = arg /\ offered' = offered
  BY <1>1, WorkerShows
<1>3. Stack!Running("pop") = Popping
  BY DEF Stack!Running, Popping
<1>4. Outside' = Outside
  BY <1>1, <1>2 DEF Outside
<1> QED
  BY <1>1, <1>2, <1>3, <1>4, SameCardinality
     DEF Stack!FailPop, OpOf, ArgOf, Outside, Everyone

LEMMA PollStep ==
  ASSUME NEW w \in Workers, UNCHANGED <<queue, caller>>,
         \A v \in Workers \ {w} : worker'[v] = worker[v],
         worker[w].pc # "pop", worker'[w].pc = "pop"
  PROVE  Stack!BeginPop(w)
<1> DEFINE op == [x \in Everyone |-> OpOf(x)]
           arg == [x \in Everyone |-> ArgOf(x)]
           offered == {caller[c].task : c \in Pushing}
<1>1. op[w] = "none" /\ op' = [op EXCEPT ![w] = "pop"] /\ arg' = arg /\ offered' = offered
  BY WorkerShows
<1>2. Outside' = Outside
  BY <1>1 DEF Outside
<1> QED
  BY <1>1, <1>2 DEF Stack!BeginPop, OpOf, ArgOf, Outside, Everyone

LEMMA StackStep ==
  ASSUME TaskInvariant, [Next]_vars PROVE [Stack!Next]_(Stack!vars)
  <2>0. /\ TypeOK /\ TasksApart /\ CallerLocals /\ worker \in [Workers -> WorkerType]
        /\ caller \in [Callers -> CallerType]
    BY TypeParts DEF TaskInvariant, CountInvariant
  <2> DEFINE Same == /\ UNCHANGED queue /\ Popping' = Popping /\ Pushing' = Pushing
                     /\ \A c \in Pushing : caller'[c].task = caller[c].task
  <2>1. CASE UNCHANGED vars
    <3>1. Same
      BY <2>1 DEF vars, Popping, Pushing
    <3> QED
      BY <3>1, ShowsNothing
  <2>2. ASSUME NEW w \in Workers, WorkerCountIdle(w) PROVE [Stack!Next]_(Stack!vars)
    <3>1. /\ UNCHANGED <<queue, caller>> /\ worker[w].pc # "pop" /\ worker'[w].pc = "pop"
          /\ \A v \in Workers \ {w} : worker'[v] = worker[v]
      BY <2>2, <2>0 DEF WorkerCountIdle, WorkerAt, WorkerGoto, WorkerType, Others
    <3> QED
      BY <3>1, PollStep DEF Stack!Next
  <2>3. ASSUME NEW w \in Workers, WorkerPop(w) PROVE [Stack!Next]_(Stack!vars)
    BY <2>3, TakeStep DEF WorkerPop, Stack!Next
  <2>4. ASSUME NEW w \in Workers, WorkerRun(w) PROVE [Stack!Next]_(Stack!vars)
    <3>1. /\ UNCHANGED <<queue, caller>> /\ worker[w].pc # "pop" /\ worker'[w].pc = "pop"
          /\ \A v \in Workers \ {w} : worker'[v] = worker[v]
      BY <2>4, <2>0 DEF WorkerRun, WorkerAt, WorkerGoto, WorkerType, Others
    <3> QED
      BY <3>1, PollStep DEF Stack!Next
  <2>5. ASSUME NEW w \in Workers, WorkerPopNothing(w) PROVE [Stack!Next]_(Stack!vars)
    BY <2>5, NothingStep DEF WorkerPopNothing, Stack!Next
  <2>6. ASSUME NEW w \in Workers, WorkerCheckStop(w) PROVE [Stack!Next]_(Stack!vars)
    <3>1. /\ UNCHANGED <<queue, caller>> /\ worker[w].pc = "checkStop"
          /\ \A v \in Workers \ {w} : worker'[v] = worker[v]
          /\ worker'[w].pc \in {"pop", "fold"}
      BY <2>6, <2>0 DEF WorkerCheckStop, Sleep, WorkerAt, WorkerGoto, WorkerType, Others
    <3>2. CASE worker'[w].pc = "pop"
      BY <3>1, <3>2, PollStep DEF Stack!Next
    <3>3. CASE worker'[w].pc = "fold"
      <4>1. Same
        BY <3>1, <3>3 DEF Popping, Pushing
      <4> QED
        BY <4>1, ShowsNothing
    <3> QED
      BY <3>1, <3>2, <3>3
  <2>7. ASSUME NEW w \in Workers,
               \/ WorkerBegin(w) \/ WorkerCountActive(w) \/ WorkerLeaveIdle(w)
               \/ WorkerStreakEnds(w) \/ WorkerCheckDrain(w) \/ WorkerFold(w)
               \/ WorkerEndIdle(w) \/ WorkerEndActive(w) \/ WorkerEnd(w)
        PROVE  [Stack!Next]_(Stack!vars)
    <3>1. Same
      BY <2>7, <2>0 DEF WorkerBegin, WorkerCountActive, WorkerLeaveIdle, WorkerStreakEnds,
         WorkerCheckDrain, WorkerFold, WorkerEndIdle, WorkerEndActive, WorkerEnd, CallerAt,
         CallerGoto, WorkerAt, WorkerGoto, CallerType, WorkerType, Callers, Others, history,
         Popping, Pushing
    <3> QED
      BY <3>1, ShowsNothing
  <2>8. ASSUME NEW c \in Callers, StartUndo(c) PROVE [Stack!Next]_(Stack!vars)
    <3>1. AfterStart(c, TRUE) /\ UNCHANGED queue /\ caller[c].pc # "push"
      BY <2>8 DEF StartUndo, CallerAt
    <3>2. Popping' = Popping
      BY <2>8 DEF StartUndo, Popping
    <3>3. /\ \A d \in Callers \ {c} : caller'[d] = caller[d]
          /\ caller'[c].pc = "push" <=> caller[c].task # NULL
          /\ caller'[c].task = caller[c].task
      BY <2>0, <3>1, AfterStartFacts
    <3>4. CASE caller[c].task # NULL
      <4>1. c \in Clients /\ caller[c].task \in Tasks /\ caller[c].task \notin accepted
        BY <2>0, <3>4 DEF TypeOK, CallerLocals, TasksApart, Callers
      <4>2. \A d \in Clients \ {c} : caller[d].task # caller[c].task
        BY <2>0, <3>4, <4>1 DEF TasksApart, Callers
      <4>3. \A d \in Clients \ {c} : caller'[d] = caller[d]
        BY <3>3 DEF Callers
      <4>4. PICK t \in Tasks : t = caller[c].task
        BY <4>1
      <4>5. Stack!BeginPush(c)
        BY <3>1, <3>2, <3>3, <3>4, <4>1, <4>2, <4>3, <4>4, Begins
      <4> QED
        BY <4>1, <4>5 DEF Stack!Next
    <3>5. CASE caller[c].task = NULL
      <4>1. Same
        BY <3>1, <3>2, <3>3, <3>5 DEF Pushing, Callers
      <4> QED
        BY <4>1, ShowsNothing
    <3> QED
      BY <3>4, <3>5
  <2>9. ASSUME NEW c \in Callers, StartThread(c) PROVE [Stack!Next]_(Stack!vars)
    <3>1. AfterStart(c, TRUE) /\ UNCHANGED queue /\ caller[c].pc # "push"
      BY <2>9 DEF StartThread, CallerAt
    <3>2. Popping' = Popping
      BY <2>9, <2>0 DEF StartThread, WorkerType, Popping
    <3>3. /\ \A d \in Callers \ {c} : caller'[d] = caller[d]
          /\ caller'[c].pc = "push" <=> caller[c].task # NULL
          /\ caller'[c].task = caller[c].task
      BY <2>0, <3>1, AfterStartFacts
    <3>4. CASE caller[c].task # NULL
      <4>1. c \in Clients /\ caller[c].task \in Tasks /\ caller[c].task \notin accepted
        BY <2>0, <3>4 DEF TypeOK, CallerLocals, TasksApart, Callers
      <4>2. \A d \in Clients \ {c} : caller[d].task # caller[c].task
        BY <2>0, <3>4, <4>1 DEF TasksApart, Callers
      <4>3. \A d \in Clients \ {c} : caller'[d] = caller[d]
        BY <3>3 DEF Callers
      <4>4. PICK t \in Tasks : t = caller[c].task
        BY <4>1
      <4>5. Stack!BeginPush(c)
        BY <3>1, <3>2, <3>3, <3>4, <4>1, <4>2, <4>3, <4>4, Begins
      <4> QED
        BY <4>1, <4>5 DEF Stack!Next
    <3>5. CASE caller[c].task = NULL
      <4>1. Same
        BY <3>1, <3>2, <3>3, <3>5 DEF Pushing, Callers
      <4> QED
        BY <4>1, ShowsNothing
    <3> QED
      BY <3>4, <3>5
  <2>10. ASSUME NEW c \in Callers, StartFail(c) PROVE [Stack!Next]_(Stack!vars)
    <3>1. AfterStart(c, FALSE) /\ UNCHANGED <<queue, worker>> /\ caller[c].pc # "push"
      BY <2>10 DEF StartFail, CallerAt
    <3>2. /\ \A d \in Callers \ {c} : caller'[d] = caller[d]
          /\ caller'[c].pc # "push"
      BY <2>0, <3>1, AfterStartFacts
    <3>3. Same
      BY <3>1, <3>2 DEF Popping, Pushing, Callers
    <3> QED
      BY <3>3, ShowsNothing
  <2>11. ASSUME NEW c \in Callers, RunPush(c) PROVE [Stack!Next]_(Stack!vars)
    <3>1. c \in Clients
      BY <2>11, <2>0 DEF RunPush, CallerAt, CallerLocals, Callers
    <3> QED
      BY <2>11, <3>1, PushStep DEF Stack!Next
  <2>12. ASSUME NEW c \in Callers, RunFull(c) PROVE [Stack!Next]_(Stack!vars)
    <3>1. c \in Clients
      BY <2>12, <2>0 DEF RunFull, CallerAt, CallerLocals, Callers
    <3> QED
      BY <2>12, <3>1, RefuseStep DEF Stack!Next
  <2>13. ASSUME NEW c \in Callers,
               \/ StartInc(c) \/ StartRead(c) \/ StartReadFirst(c) \/ StartIncLate(c)
               \/ SetMinLoop(c)
        PROVE  [Stack!Next]_(Stack!vars)
    <3>1. Same
      BY <2>13, <2>0 DEF StartInc, StartRead, StartReadFirst, StartIncLate, SetMinLoop,
         CallerAt, CallerGoto, WorkerAt, WorkerGoto, CallerType, WorkerType, Callers,
         Others, history, Popping, Pushing
    <3> QED
      BY <3>1, ShowsNothing
  <2>14. ASSUME NEW c \in Clients, RunCall(c) PROVE [Stack!Next]_(Stack!vars)
    <3>1. PICK t \in Unscheduled : caller' = [caller EXCEPT
               ![c].pc = IF tp.idle = 0 THEN "start" ELSE "push", ![c].task = t]
      BY <2>14 DEF RunCall
    <3>2. /\ \A d \in Clients \ {c} : caller'[d] = caller[d]
          /\ caller'[c].task = t /\ caller'[c].pc \in {"start", "push"}
      BY <2>0, <3>1 DEF CallerType, Callers
    <3>3. t \in Tasks /\ t \notin accepted /\ \A d \in Clients : caller[d].task # t
      BY DEF Unscheduled
    <3>4. caller[c].pc = "idle" /\ UNCHANGED queue /\ Popping' = Popping
      BY <2>14 DEF RunCall, CallerAt, Popping
    <3>5. CASE caller'[c].pc = "push"
      BY TaskInvariant, <3>2, <3>3, <3>4, <3>5, Begins DEF Stack!Next
    <3>6. CASE caller'[c].pc = "start"
      <4>1. Same
        BY <3>2, <3>4, <3>6 DEF Pushing
      <4> QED
        BY <4>1, ShowsNothing
    <3> QED
      BY <3>2, <3>5, <3>6
  <2>15. ASSUME NEW c \in Clients,
               \/ RunRefuse(c) \/ SetMin(c) \/ SetMax(c) \/ SetIdleTimeout(c)
        PROVE  [Stack!Next]_(Stack!vars)
    <3>1. Same
      BY <2>15, <2>0 DEF RunRefuse, SetMin, SetCall, SetMax, SetIdleTimeout, CallerAt,
         CallerGoto, WorkerAt, WorkerGoto, CallerType, WorkerType, Callers, Others, history,
         Popping, Pushing
    <3> QED
      BY <3>1, ShowsNothing
  <2>16. CASE Destroy \/ CreateDrain \/ CreateFree \/ DestroyFree
    <3>1. Same
      BY <2>16, <2>0 DEF Destroy, CreateDrain, CreateFree, DestroyFree, CallerAt,
         CallerGoto, WorkerAt, WorkerGoto, CallerType, WorkerType, Callers, Others, history,
         Popping, Pushing
    <3> QED
      BY <3>1, ShowsNothing
  <2> QED
    BY <2>1, <2>2, <2>3, <2>4, <2>5, <2>6, <2>7, <2>8, <2>9, <2>10, <2>11, <2>12, <2>13,
       <2>14, <2>15, <2>16
       DEF Next, Call, CallerStep, Start, WorkerStep, MainWait

(* The pool pushes and pops its stack of tasks only as the specification of *)
(* a container, which AmStack implements, lets its users do: one operation  *)
(* per thread at a time, and a task in one place (libam_thread_pool.c:119,  *)
(* 238).                                                                    *)
THEOREM StackUsedRight == Spec => UsesStack
<1>1. Init => Stack!Init
  <2> SUFFICES ASSUME Init PROVE Stack!Init
    OBVIOUS
  <2>1. Popping = {} /\ Pushing = {} /\ queue = {}
    BY DEF Init, Popping, Pushing, Callers
  <2> QED
    BY <2>1 DEF Stack!Init
<1> QED
  BY <1>1, StackStep, TasksHold, PTL DEF Spec, UsesStack, Stack!Spec

=============================================================================
