----------------------------- MODULE ThreadPool -----------------------------
(***************************************************************************)
(* The thread pool of src/src/libam_thread_pool.c: worker threads that     *)
(* poll a stack of tasks, clients that schedule tasks and start workers on *)
(* demand, and the thread that creates and destroys the pool.  Nothing but *)
(* the statistics is under a lock: every read or update of a field of      *)
(* struct lam_thread_pool is an action of its own.                         *)
(*                                                                         *)
(* The task stack is the container of AmBag, which AmStack implements *)
(* (property UsesStack).                                                   *)
(***************************************************************************)
EXTENDS Integers, FiniteSets

CONSTANTS Clients,      \* threads that call the pool
          Main,         \* the thread that creates and destroys it
          Tasks,        \* the tasks, each scheduled once at most
          NULL,
          Backlog,      \* config.backlog
          MinConfigs,   \* config.min_threads, of the pools created
          MaxConfig,    \* config.max_threads, 0 for no cap
          PthreadLimit, \* bound: threads started over the pool's life
          EventLimit,   \* bound: failing calls of pthread_create and setter calls
          MinValues,    \* values given to set_min_thread_count
          MaxValues     \* values given to set_max_thread_count

\* create replaces min_threads = 0 and backlog = 0, and raises max_threads.
ASSUME ConfigAssumption ==
    /\ Backlog \in Nat \ {0}
    /\ MinConfigs \subseteq Nat \ {0}
    /\ MaxConfig \in Nat /\ (MaxConfig > 0 => \A min \in MinConfigs : MaxConfig >= min)
    /\ PthreadLimit \in Nat /\ EventLimit \in Nat
    /\ MinValues \subseteq Nat \ {0} /\ MaxValues \subseteq Nat
ASSUME NamesAssumption == NULL \notin Tasks /\ Main \notin Clients
ASSUME FiniteAssumption == IsFiniteSet(Clients) /\ IsFiniteSet(Tasks)

Workers == 1 .. PthreadLimit
Callers == Clients \cup {Main}

ASSUME ThreadsAssumption == Clients \cap Workers = {}

VARIABLES tp,       \* the counters and settings of struct lam_thread_pool
          queue,    \* the tasks in tp->tasks_queue
          phase,    \* how far create and destroy have got
          worker,   \* worker[w]: where thread w is, and its locals
          caller,   \* caller[c]: where c is in a call of the pool, and its locals
          fails,    \* calls of pthread_create that failed
          sets,     \* calls of the setters
          accepted, \* history: the tasks lam_thread_pool_run returned AMRC_SUCCESS for
          refused,  \* history: the tasks it returned AMRC_ERROR for
          ran,      \* history: how often each task was executed
          maxSeen   \* history: the largest max_threads so far

history == <<accepted, refused, ran, maxSeen>>
vars == <<tp, queue, phase, worker, caller, fails, sets, accepted, refused, ran, maxSeen>>

Init == \E lazy \in BOOLEAN, min \in MinConfigs :
    /\ tp = [created |-> 0, destroyed |-> 0, tasks |-> 0, active |-> 0, idle |-> 0,
             runningId |-> 1, drain |-> FALSE, min |-> min, max |-> MaxConfig,
             timeout |-> TRUE, lazy |-> lazy, busySum |-> 0]
    /\ queue = {}
    /\ phase = IF lazy THEN "open" ELSE "create"
    /\ worker = [w \in Workers |-> [pc |-> "none", id |-> 0, task |-> NULL, busy |-> 0,
                                    sum |-> 0, slept |-> FALSE]]
    /\ caller = [c \in Callers |->
         [pc |-> IF c = Main /\ ~lazy THEN "start" ELSE "idle",
          task |-> NULL, seen |-> 0, left |-> IF c = Main /\ ~lazy THEN min ELSE 0]]
    /\ fails = 0
    /\ sets = 0
    /\ accepted = {}
    /\ refused = {}
    /\ ran = [t \in Tasks |-> 0]
    /\ maxSeen = MaxConfig

\* The memory of the pool is gone: what a thread still does with it is undefined
\* and not followed further.
Freed == phase \in {"closed", "failed"}

-----------------------------------------------------------------------------
(* lam_thread_pool_start_thread, on behalf of run, of set_min_thread_count  *)
(* or, for Main, of create.                                                 *)

CallerAt(c, pc) == caller[c].pc = pc /\ ~Freed
CallerGoto(c, pc) == caller' = [caller EXCEPT ![c].pc = pc]

\* The caller goes on after start_thread returned AMRC_SUCCESS or AMRC_ERROR:
\* run pushes its task or frees it, the loops of create and of the setter go
\* round, and create gives up at the first error.
AfterStart(c, success) ==
    LET me == caller[c]
        more == me.left > 1 /\ (success \/ c # Main)
    IN  /\ caller' = [caller EXCEPT ![c] =
             [pc |-> IF me.task # NULL /\ success THEN "push"
                     ELSE IF more THEN "start" ELSE "idle",
              task |-> IF success THEN me.task ELSE NULL,
              seen |-> 0,
              left |-> IF more THEN me.left - 1 ELSE 0]]
        /\ phase' = IF c = Main /\ ~success THEN "abandon"
                    ELSE IF c = Main /\ ~more THEN "open" ELSE phase
        /\ refused' = IF success THEN refused ELSE refused \cup ({me.task} \ {NULL})

\* Slip: one thread more than the cap.
CapReachedLate(created, destroyed) ==
    tp.max > 0 /\ (created < destroyed \/ created - destroyed > tp.max)

\* (max_threads > 0) && (active >= max_threads) with active = created - destroyed,
\* an unsigned difference: a negative one is a very large number.
CapReached(created, destroyed) ==
    tp.max > 0 /\ (created < destroyed \/ created - destroyed >= tp.max)

\* C leaves the order of the two operands of active open: either the counter
\* is incremented first, or threads_destroyed is read first.
StartInc(c) ==
    /\ CallerAt(c, "start")
    /\ ~tp.drain
    /\ caller' = [caller EXCEPT ![c].pc = "startRead", ![c].seen = tp.created]
    /\ tp' = [tp EXCEPT !.created = @ + 1]
    /\ UNCHANGED <<queue, phase, worker, fails, sets, history>>

StartRead(c) ==
    /\ CallerAt(c, "startRead")
    /\ CallerGoto(c, IF CapReached(caller[c].seen, tp.destroyed) THEN "undo" ELSE "pthread")
    /\ UNCHANGED <<tp, queue, phase, worker, fails, sets, history>>

StartReadFirst(c) ==
    /\ CallerAt(c, "start")
    /\ ~tp.drain
    /\ caller' = [caller EXCEPT ![c].pc = "startIncLate", ![c].seen = tp.destroyed]
    /\ UNCHANGED <<tp, queue, phase, worker, fails, sets, history>>

StartIncLate(c) ==
    /\ CallerAt(c, "startIncLate")
    /\ CallerGoto(c, IF CapReached(tp.created, caller[c].seen) THEN "undo" ELSE "pthread")
    /\ tp' = [tp EXCEPT !.created = @ + 1]
    /\ UNCHANGED <<queue, phase, worker, fails, sets, history>>

\* Slip: a thread that is not started stays counted.
StartUndoNot(c) ==
    /\ CallerAt(c, "undo")
    /\ AfterStart(c, TRUE)
    /\ UNCHANGED <<tp, queue, worker, fails, sets, accepted, ran, maxSeen>>

\* The cap is reached: no thread, yet AMRC_SUCCESS.
StartUndo(c) ==
    /\ CallerAt(c, "undo")
    /\ tp' = [tp EXCEPT !.created = @ - 1]
    /\ AfterStart(c, TRUE)
    /\ UNCHANGED <<queue, worker, fails, sets, accepted, ran, maxSeen>>

\* pthread_create starts the next thread.
StartThread(c) == \E w \in Workers :
    /\ CallerAt(c, "pthread")
    /\ worker[w].pc = "none"
    /\ \A v \in 1 .. w - 1 : worker[v].pc # "none"
    /\ worker' = [worker EXCEPT ![w].pc = "begin"]
    /\ AfterStart(c, TRUE)
    /\ UNCHANGED <<tp, queue, fails, sets, accepted, ran, maxSeen>>

\* pthread_create fails; threads_created keeps the increment.
StartFail(c) ==
    /\ CallerAt(c, "pthread")
    /\ fails + sets < EventLimit
    /\ fails' = fails + 1
    /\ AfterStart(c, FALSE)
    /\ UNCHANGED <<tp, queue, worker, sets, accepted, ran, maxSeen>>

-----------------------------------------------------------------------------
(* lam_thread_pool_run                                                      *)

Unscheduled == Tasks \ (accepted \cup refused \cup {caller[c].task : c \in Clients})

\* A client calls run, which counts the task (nobody reads that count before
\* destroy) and starts a thread when it reads that none is idle.  Nobody calls
\* run once destroy is called: it would abort.
RunCall(c) == \E t \in Unscheduled :
    /\ CallerAt(c, "idle")
    /\ phase = "open"
    /\ caller' = [caller EXCEPT ![c].pc = IF tp.idle = 0 THEN "start" ELSE "push",
                                ![c].task = t]
    /\ tp' = [tp EXCEPT !.tasks = @ + 1]
    /\ UNCHANGED <<queue, phase, worker, fails, sets, history>>

\* No function to run, a function the default does not allow, or malloc fails.
RunRefuse(c) == \E t \in Unscheduled :
    /\ CallerAt(c, "idle")
    /\ phase = "open"
    /\ refused' = refused \cup {t}
    /\ UNCHANGED <<tp, queue, phase, worker, caller, fails, sets, accepted, ran, maxSeen>>

Pushing == {c \in Clients : caller[c].pc = "push"}
CallReturns(c) == caller' = [caller EXCEPT ![c].pc = "idle", ![c].task = NULL]

RunPush(c) ==
    /\ CallerAt(c, "push")
    /\ Cardinality(queue) < Backlog
    /\ queue' = queue \cup {caller[c].task}
    /\ accepted' = accepted \cup {caller[c].task}
    /\ CallReturns(c)
    /\ UNCHANGED <<tp, phase, worker, fails, sets, refused, ran, maxSeen>>

\* Slip: the result of the push is not looked at.
RunFullIgnored(c) ==
    /\ CallerAt(c, "push")
    /\ Cardinality(queue) + Cardinality(Pushing \ {c}) >= Backlog
    /\ accepted' = accepted \cup {caller[c].task}
    /\ CallReturns(c)
    /\ UNCHANGED <<tp, queue, phase, worker, fails, sets, refused, ran, maxSeen>>

\* Slip: one entry of the backlog is never used.
RunFullEarly(c) ==
    /\ CallerAt(c, "push")
    /\ Cardinality(queue) + Cardinality(Pushing \ {c}) >= Backlog - 1
    /\ refused' = refused \cup {caller[c].task}
    /\ CallReturns(c)
    /\ UNCHANGED <<tp, queue, phase, worker, fails, sets, accepted, ran, maxSeen>>

\* The stack is full, or looks so because of pushes under way: the task is
\* refused (and its memory is not freed).
RunFull(c) ==
    /\ CallerAt(c, "push")
    /\ Cardinality(queue) + Cardinality(Pushing \ {c}) >= Backlog
    /\ refused' = refused \cup {caller[c].task}
    /\ CallReturns(c)
    /\ UNCHANGED <<tp, queue, phase, worker, fails, sets, accepted, ran, maxSeen>>

-----------------------------------------------------------------------------
(* The setters                                                              *)

SetCall(c) ==
    /\ CallerAt(c, "idle")
    /\ phase = "open"
    /\ fails + sets < EventLimit
    /\ sets' = sets + 1

\* Unless the pool is lazy, threads are started up to the new minimum.
SetMin(c) == \E n \in MinValues :
    /\ SetCall(c)
    /\ tp' = [tp EXCEPT !.min = n]
    /\ caller' = IF tp.lazy THEN caller
                 ELSE [caller EXCEPT ![c].pc = "setMin", ![c].left = n]
    /\ UNCHANGED <<queue, phase, worker, fails, history>>

SetMinLoop(c) ==
    /\ CallerAt(c, "setMin")
    /\ LET missing == IF tp.active < caller[c].left THEN caller[c].left - tp.active ELSE 0
       IN  caller' = [caller EXCEPT ![c].pc = IF missing > 0 THEN "start" ELSE "idle",
                                    ![c].left = missing]
    /\ UNCHANGED <<tp, queue, phase, worker, fails, sets, history>>

SetMax(c) == \E n \in MaxValues :
    /\ SetCall(c)
    /\ tp' = [tp EXCEPT !.max = n]
    /\ maxSeen' = IF maxSeen = 0 \/ n = 0 THEN 0 ELSE IF n > maxSeen THEN n ELSE maxSeen
    /\ UNCHANGED <<queue, phase, worker, caller, fails, accepted, refused, ran>>

SetIdleTimeout(c) ==
    /\ SetCall(c)
    /\ tp' = [tp EXCEPT !.timeout = ~@]
    /\ UNCHANGED <<queue, phase, worker, caller, fails, history>>

-----------------------------------------------------------------------------
(* lam_thread_pool_worker_func                                              *)

WorkerAt(w, pc) == worker[w].pc = pc /\ ~Freed
WorkerGoto(w, pc) == worker' = [worker EXCEPT ![w].pc = pc]
Others == <<caller, fails, sets, accepted, refused, maxSeen, phase>>

WorkerBegin(w) ==
    /\ WorkerAt(w, "begin")
    /\ worker' = [worker EXCEPT ![w].pc = "countActive", ![w].id = tp.runningId]
    /\ tp' = [tp EXCEPT !.runningId = @ + 1]
    /\ UNCHANGED <<queue, ran, Others>>

WorkerCountActive(w) ==
    /\ WorkerAt(w, "countActive")
    /\ tp' = [tp EXCEPT !.active = @ + 1]
    /\ WorkerGoto(w, "countIdle")
    /\ UNCHANGED <<queue, ran, Others>>

WorkerCountIdle(w) ==
    /\ WorkerAt(w, "countIdle")
    /\ tp' = [tp EXCEPT !.idle = @ + 1]
    /\ WorkerGoto(w, "pop")
    /\ UNCHANGED <<queue, ran, Others>>

\* A task is popped; the first of a streak ends the idle time of the thread.
WorkerPop(w) == \E t \in queue :
    /\ WorkerAt(w, "pop")
    /\ queue' = queue \ {t}
    /\ worker' = [worker EXCEPT ![w].task = t,
                                ![w].pc = IF worker[w].busy = 0 THEN "leaveIdle" ELSE "run"]
    /\ UNCHANGED <<tp, ran, Others>>

WorkerLeaveIdle(w) ==
    /\ WorkerAt(w, "leaveIdle")
    /\ tp' = [tp EXCEPT !.idle = @ - 1]
    /\ WorkerGoto(w, "run")
    /\ UNCHANGED <<queue, ran, Others>>

\* The task is executed and freed; last_work = now.
WorkerRun(w) ==
    /\ WorkerAt(w, "run")
    /\ ran' = [ran EXCEPT ![worker[w].task] = @ + 1]
    /\ worker' = [worker EXCEPT ![w].pc = "pop", ![w].task = NULL, ![w].busy = @ + 1,
                                ![w].slept = FALSE]
    /\ UNCHANGED <<tp, queue, Others>>

Popping == {w \in Workers : worker[w].pc = "pop"}

\* The stack is empty, or looks so because of pops under way.
WorkerPopNothing(w) ==
    /\ WorkerAt(w, "pop")
    /\ Cardinality(queue) <= Cardinality(Popping \ {w})
    /\ WorkerGoto(w, IF worker[w].busy > 0 THEN "streakEnds" ELSE "checkDrain")
    /\ UNCHANGED <<tp, queue, ran, Others>>

\* Slip: the thread does not count as idle again.
WorkerStreakEndsBusy(w) ==
    /\ WorkerAt(w, "streakEnds")
    /\ worker' = [worker EXCEPT ![w].pc = "checkDrain", ![w].busy = 0,
                                ![w].sum = @ + worker[w].busy]
    /\ UNCHANGED <<tp, queue, ran, Others>>

\* The streak goes to the statistics of the thread, which is idle again.
WorkerStreakEnds(w) ==
    /\ WorkerAt(w, "streakEnds")
    /\ tp' = [tp EXCEPT !.idle = @ + 1]
    /\ worker' = [worker EXCEPT ![w].pc = "checkDrain", ![w].busy = 0,
                                ![w].sum = @ + worker[w].busy]
    /\ UNCHANGED <<queue, ran, Others>>

WorkerCheckDrain(w) ==
    /\ WorkerAt(w, "checkDrain")
    /\ WorkerGoto(w, IF tp.drain THEN "fold" ELSE "checkStop")
    /\ UNCHANGED <<tp, queue, ran, Others>>

\* nanosleep, after which the thread polls again.
Sleep(w) == worker' = [worker EXCEPT ![w].pc = "pop", ![w].slept = TRUE]

\* Slip: the threads that have to stay are not told apart.
WorkerCheckStopAny(w) ==
    /\ WorkerAt(w, "checkStop")
    /\ \/ Sleep(w)
       \/ tp.timeout /\ worker[w].slept /\ WorkerGoto(w, "fold")
    /\ UNCHANGED <<tp, queue, ran, Others>>

\* lam_thread_pool_should_stop: now - last_work grows by sleeping only, and may
\* reach idle_timeout then; the first min_threads threads never stop.
WorkerCheckStop(w) ==
    /\ WorkerAt(w, "checkStop")
    /\ \/ Sleep(w)
       \/ /\ tp.timeout
          /\ worker[w].slept
          /\ worker[w].id > tp.min
          /\ WorkerGoto(w, "fold")
    /\ UNCHANGED <<tp, queue, ran, Others>>

\* lam_thread_pool_stats_fold, under stats_mutex.
WorkerFold(w) ==
    /\ WorkerAt(w, "fold")
    /\ tp' = [tp EXCEPT !.busySum = @ + worker[w].sum]
    /\ WorkerGoto(w, "endIdle")
    /\ UNCHANGED <<queue, ran, Others>>

WorkerEndIdle(w) ==
    /\ WorkerAt(w, "endIdle")
    /\ tp' = [tp EXCEPT !.idle = @ - 1]
    /\ WorkerGoto(w, "endActive")
    /\ UNCHANGED <<queue, ran, Others>>

WorkerEndActive(w) ==
    /\ WorkerAt(w, "endActive")
    /\ tp' = [tp EXCEPT !.active = @ - 1]
    /\ WorkerGoto(w, "end")
    /\ UNCHANGED <<queue, ran, Others>>

\* The last access of the thread to the pool.
WorkerEnd(w) ==
    /\ WorkerAt(w, "end")
    /\ tp' = [tp EXCEPT !.destroyed = @ + 1]
    /\ WorkerGoto(w, "done")
    /\ UNCHANGED <<queue, ran, Others>>

-----------------------------------------------------------------------------
(* lam_thread_pool_create and lam_thread_pool_destroy, run by Main          *)

\* The error path of create: every thread that has got to counting itself is
\* waited for.
CreateDrain ==
    /\ phase = "abandon"
    /\ tp' = [tp EXCEPT !.drain = TRUE]
    /\ phase' = "abandonWait"
    /\ UNCHANGED <<queue, worker, caller, fails, sets, history>>

CreateFree ==
    /\ phase = "abandonWait"
    /\ tp.active = 0
    /\ phase' = "failed"
    /\ UNCHANGED <<tp, queue, worker, caller, fails, sets, history>>

\* destroy must not run beside another call of the pool.
Destroy ==
    /\ phase = "open"
    /\ \A c \in Clients : caller[c].pc = "idle"
    /\ tp' = [tp EXCEPT !.drain = TRUE]
    /\ phase' = "drain"
    /\ UNCHANGED <<queue, worker, caller, fails, sets, history>>

\* Slip: destroy waits the way create does.
DestroyFreeInactive ==
    /\ phase = "drain"
    /\ tp.active = 0
    /\ phase' = "closed"
    /\ UNCHANGED <<tp, queue, worker, caller, fails, sets, history>>

\* Every thread started has stopped: statistics are handed out, memory is freed.
DestroyFree ==
    /\ phase = "drain"
    /\ tp.destroyed >= tp.created
    /\ phase' = "closed"
    /\ UNCHANGED <<tp, queue, worker, caller, fails, sets, history>>

-----------------------------------------------------------------------------
\* What a client is free to begin, and what it does then.
Call(c) == RunCall(c) \/ RunRefuse(c) \/ SetMin(c) \/ SetMax(c) \/ SetIdleTimeout(c)

Start(c) ==
    \/ StartInc(c) \/ StartRead(c) \/ StartReadFirst(c) \/ StartIncLate(c)
    \/ StartUndo(c) \/ StartThread(c) \/ StartFail(c)

CallerStep(c) == Start(c) \/ RunPush(c) \/ RunFull(c) \/ SetMinLoop(c)

MainWait == CreateDrain \/ CreateFree \/ DestroyFree

WorkerStep(w) ==
    \/ WorkerBegin(w) \/ WorkerCountActive(w) \/ WorkerCountIdle(w)
    \/ WorkerPop(w) \/ WorkerLeaveIdle(w) \/ WorkerRun(w)
    \/ WorkerPopNothing(w) \/ WorkerStreakEnds(w) \/ WorkerCheckDrain(w)
    \/ WorkerCheckStop(w) \/ WorkerFold(w)
    \/ WorkerEndIdle(w) \/ WorkerEndActive(w) \/ WorkerEnd(w)

Next ==
    \/ \E c \in Clients : Call(c)
    \/ \E c \in Callers : CallerStep(c)
    \/ \E w \in Workers : WorkerStep(w)
    \/ Destroy
    \/ MainWait

Spec == Init /\ [][Next]_vars

\* Every thread that is inside the pool is scheduled and tasks return; nobody
\* has to make a call.  A pop that fails beside others on a stack that is not
\* empty leaves the pointer to one of them (PopsDeliver of AmStack), so polling
\* cannot fail forever while a task is in the stack.
FairSpec ==
    /\ Spec
    /\ SF_vars(\E w \in Workers : WorkerPop(w))
    /\ \A c \in Callers : WF_vars(CallerStep(c))
    /\ \A w \in Workers : WF_vars(WorkerStep(w))
    /\ WF_vars(MainWait)

-----------------------------------------------------------------------------
\* Types; in particular no counter ever goes below zero, where the code's
\* unsigned counters would wrap.
TypeOK ==
    /\ tp \in [created : Nat, destroyed : Nat, tasks : Nat, active : Nat, idle : Nat,
               runningId : Nat, drain : BOOLEAN, min : Nat \ {0}, max : Nat,
               timeout : BOOLEAN, lazy : BOOLEAN, busySum : Nat]
    /\ queue \in SUBSET Tasks
    /\ phase \in {"create", "abandon", "abandonWait", "failed", "open", "drain", "closed"}
    /\ worker \in [Workers -> [pc : {"none", "begin", "countActive", "countIdle", "pop",
                                     "leaveIdle", "run", "streakEnds", "checkDrain",
                                     "checkStop", "fold", "endIdle", "endActive",
                                     "end", "done"},
                               id : Nat, task : Tasks \cup {NULL}, busy : Nat, sum : Nat,
                               slept : BOOLEAN]]
    /\ caller \in [Callers -> [pc : {"idle", "start", "startRead",
                                     "startIncLate", "undo", "pthread", "push", "setMin"},
                               task : Tasks \cup {NULL}, seen : Nat, left : Nat]]
    /\ fails \in 0 .. EventLimit /\ sets \in 0 .. EventLimit
    /\ accepted \in SUBSET Tasks /\ refused \in SUBSET Tasks
    /\ ran \in [Tasks -> Nat]
    /\ maxSeen \in Nat

In(pcs) == {w \in Workers : worker[w].pc \in pcs}

\* The threads that count themselves as active, and as idle (not in a streak).
Active == In({"countIdle", "pop", "leaveIdle", "run", "streakEnds", "checkDrain", "checkStop",
              "fold", "endIdle", "endActive"})
Idle == {w \in Active : worker[w].pc \notin {"countIdle", "run", "streakEnds", "endActive"}
                        /\ worker[w].busy = 0}
Live == Workers \ In({"none", "done"})

\* The callers whose increment of threads_created has not led to a thread yet.
Starting == {c \in Callers : caller[c].pc \in {"startRead", "undo", "pthread"}}

\* run decides by idle_thread_count whether to start a thread, start_thread by
\* created - destroyed, and destroy waits on the latter: the counters, each
\* updated on its own and at several places, tell the truth about the threads.
Counters ==
    /\ tp.active = Cardinality(Active)
    /\ tp.idle = Cardinality(Idle)
    /\ tp.destroyed = Cardinality(In({"done"}))
    /\ tp.created = tp.destroyed + Cardinality(Live) + Cardinality(Starting) + fails

\* The types, with no counter below zero, and the counters that run, start_thread
\* and destroy decide by (libam_thread_pool.c:225-300).
CountersSound == TypeOK /\ Counters

\* "Maximum number of concurrent threads to have running" (libam_thread_pool.h:25):
\* callers race between counting a thread, reading threads_destroyed and undoing
\* the count, yet never more threads exist than the largest cap ever set.
MaxRespected == maxSeen > 0 => Cardinality(Live) <= maxSeen

Holders(t) == {w \in Workers : worker[w].task = t}

\* A task run accepted is in the stack, in the hands of one thread, or was
\* executed once; a task it refused ("Nothing is queued when errors happen",
\* libam_thread_pool.h:60) or has not pushed yet is in none of these places.
TaskFates ==
    /\ accepted \cap refused = {}
    /\ \A t \in Tasks : (IF t \in queue THEN 1 ELSE 0) + Cardinality(Holders(t)) + ran[t]
                        = IF t \in accepted THEN 1 ELSE 0

\* destroy frees the pool only when no thread will touch it again
\* (libam_thread_pool.c:284: the counters are all it looks at).  When create gives
\* up it waits for active_thread_count alone (261), and the threads that use the
\* memory after it are those that have not counted themselves yet (103-110) or
\* have only their stop left to count (176).
FreedQuiet ==
    /\ phase = "closed" => Live = {}
    /\ phase = "failed" => Live \subseteq In({"begin", "countActive", "end"})

\* The statistics handed out by destroy account for every executed task, through
\* the streaks each thread summed up and folded in as it stopped.
BusyAccounted == phase = "closed" =>
    tp.busySum = Cardinality({t \in Tasks : ran[t] > 0})

\* What destroy and create may count on when they free the pool, and what destroy
\* hands out: the threads that are left, and the statistics of every task.
ClosedSound == FreedQuiet /\ BusyAccounted

Stack == INSTANCE AmBag WITH
    Threads <- Workers \cup Clients,
    Objects <- Tasks,
    Capacity <- Backlog,
    outside <- Tasks \ (queue \cup {caller[c].task : c \in Pushing}),
    stored <- queue,
    op <- [x \in Workers \cup Clients |->
             IF x \in Popping THEN "pop" ELSE IF x \in Pushing THEN "push" ELSE "none"],
    arg <- [x \in Workers \cup Clients |-> IF x \in Pushing THEN caller[x].task ELSE NULL]

\* What the model does with the stack of tasks is what AmBag, which AmStack
\* implements, lets the container do.
UsesStack == Stack!Spec

\* A task that was accepted is executed, though every thread but the first few
\* may stop for idleness just as it is pushed; unless destroy is called first,
\* or the pool is lazy and the system refused it a thread.
AcceptedRuns == \A t \in Tasks :
    t \in accepted ~> (ran[t] = 1 \/ tp.drain \/ (tp.lazy /\ fails > 0))

\* destroy returns, if the system never refused the pool a thread (the count of
\* such a thread is not undone, libam_thread_pool.c:195).
DestroyEnds == (phase = "drain" /\ fails = 0) ~> phase = "closed"

\* Every accepted task has been executed when destroy returns.
TasksDoneAtDestroy == phase = "closed" => \A t \in accepted : ran[t] = 1
=============================================================================
