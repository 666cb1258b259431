------------------------------- MODULE AmTime -------------------------------
(***************************************************************************)
(* The periodic clock of src/src/libam_time.c: a thread stores the time in *)
(* a handle every refresh_period and keeps the longest interval it saw.    *)
(* Nothing is locked; every access of a field of the handle that another   *)
(* thread may see is a step.  One handle, from its start to its free.      *)
(***************************************************************************)
EXTENDS Integers

CONSTANTS Periods,  \* the periods a caller asks for; 0 asks for the default
          Default,  \* AMTIME_DEFAULT_REFRESH_PERIOD
          Horizon,  \* bound: the clock stops here
          CallLimit \* bound: the calls of the setters

ASSUME TimeAssumption ==
    /\ Periods \subseteq Nat
    /\ Default \in Nat \ {0} /\ Horizon \in Nat /\ CallLimit \in Nat

VARIABLES clock,    \* what gettimeofday answers
          mem,      \* the memory of the handle: none, live, freed, or invalid (freed twice)
          handle,   \* its fields
          thread,   \* where the thread is, and its locals
          caller,   \* where the program is: idle, in a call, or done
          calls,    \* setters called so far
          touched   \* history: the lines that accessed freed memory

timeVars == <<clock, mem, handle, thread, caller, calls, touched>>

Period(p) == IF p > 0 THEN p ELSE Default

TimeInit ==
    /\ clock = 1
    /\ mem = "none"
    /\ handle = [refresh_period |-> 0, max_drift |-> 0, now |-> 0,
                 stop |-> FALSE, thread_free |-> FALSE, ignore_drift |-> FALSE]
    /\ thread = [at |-> "none", new_now |-> 0, old_now |-> 0, ref_period |-> 0]
    /\ caller = "idle"
    /\ calls = 0
    /\ touched = {}

\* An access of the handle by a line of the code: the history keeps those that
\* come when the memory is no longer the handle's.
Touch(line) == touched' = IF mem = "live" THEN touched ELSE touched \cup {line}

Free == mem' = IF mem = "live" THEN "freed" ELSE "invalid"

\* Time passes whatever the threads do.
Elapse == /\ clock < Horizon
          /\ clock' = clock + 1
          /\ UNCHANGED <<mem, handle, thread, caller, calls, touched>>

-----------------------------------------------------------------------------
(* The thread. *)

Step(from, to) == thread.at = from /\ thread' = [thread EXCEPT !.at = to]

TickCheck ==
    /\ Step("check", IF handle.stop THEN "quit" ELSE "sample")
    /\ Touch("loop")
    /\ UNCHANGED <<clock, mem, handle, caller, calls>>

TickSample ==
    /\ thread.at = "sample"
    /\ thread' = [thread EXCEPT !.at = "ignore", !.new_now = clock,
                                !.ref_period = handle.refresh_period]
    /\ Touch("loop")
    /\ UNCHANGED <<clock, mem, handle, caller, calls>>

TickIgnore ==
    /\ Step("ignore", IF handle.ignore_drift THEN "reset" ELSE "interval")
    /\ Touch("loop")
    /\ UNCHANGED <<clock, mem, handle, caller, calls>>

\* The period has changed: the interval since the last refresh is not looked at.
TickReset ==
    /\ Step("reset", "ignored")
    /\ handle' = [handle EXCEPT !.max_drift = 1]
    /\ Touch("loop")
    /\ UNCHANGED <<clock, mem, caller, calls>>

TickIgnored ==
    /\ Step("ignored", "store")
    /\ handle' = [handle EXCEPT !.ignore_drift = FALSE]
    /\ Touch("loop")
    /\ UNCHANGED <<clock, mem, caller, calls>>

\* old_now = handle->now, and the first half of the condition.
TickInterval ==
    /\ thread.at = "interval"
    /\ thread' = [thread EXCEPT !.old_now = handle.now,
          !.at = IF thread.new_now - handle.now > thread.ref_period THEN "drift" ELSE "store"]
    /\ Touch("loop")
    /\ UNCHANGED <<clock, mem, handle, caller, calls>>

TickDrift ==
    /\ Step("drift", IF thread.new_now - thread.old_now > handle.max_drift
                     THEN "raise" ELSE "store")
    /\ Touch("loop")
    /\ UNCHANGED <<clock, mem, handle, caller, calls>>

TickRaise ==
    /\ Step("raise", "store")
    /\ handle' = [handle EXCEPT !.max_drift = thread.new_now - thread.old_now]
    /\ Touch("loop")
    /\ UNCHANGED <<clock, mem, caller, calls>>

\* handle->now = amtime_now(); from here usleep counts.
TickStore ==
    /\ Step("store", "asleep")
    /\ handle' = [handle EXCEPT !.now = clock]
    /\ Touch("loop")
    /\ UNCHANGED <<clock, mem, caller, calls>>

\* usleep returns no earlier than asked.  At the end of the model's time every
\* sleep is over.
TickWake ==
    /\ clock >= handle.now + thread.ref_period \/ clock = Horizon
    /\ Step("asleep", "check")
    /\ UNCHANGED <<clock, mem, handle, caller, calls, touched>>

\* Slip: the thread always frees the handle.
TickQuitFree ==
    /\ Step("quit", "free")
    /\ Touch("quit")
    /\ UNCHANGED <<clock, mem, handle, caller, calls>>

TickQuit ==
    /\ Step("quit", IF handle.thread_free THEN "free" ELSE "gone")
    /\ Touch("quit")
    /\ UNCHANGED <<clock, mem, handle, caller, calls>>

TickFree ==
    /\ Step("free", "gone")
    /\ Free
    /\ UNCHANGED <<clock, handle, caller, calls, touched>>

Tick == TickCheck \/ TickSample \/ TickIgnore \/ TickReset \/ TickIgnored \/ TickInterval
        \/ TickDrift \/ TickRaise \/ TickStore \/ TickWake \/ TickQuit \/ TickFree

-----------------------------------------------------------------------------
(* The program.  It calls nothing on the handle once it asked it to stop. *)

\* amtime_preiodic_start: NULL if there is no memory or no thread.
Start == \E p \in Periods :
    /\ caller = "idle" /\ mem = "none"
    /\ \/ /\ mem' = "live"
          /\ handle' = [refresh_period |-> Period(p), max_drift |-> 1, now |-> clock,
                        stop |-> FALSE, thread_free |-> FALSE, ignore_drift |-> FALSE]
          /\ thread' = [thread EXCEPT !.at = "check"]
          /\ UNCHANGED caller
       \/ /\ caller' = "refused"
          /\ UNCHANGED <<mem, handle, thread>>
    /\ UNCHANGED <<clock, calls, touched>>

\* amtime_preiodic_set_refresh_period: two stores, the flag first.
SetIgnore ==
    /\ caller = "idle" /\ mem # "none" /\ calls < CallLimit
    /\ caller' = "setPeriod"
    /\ calls' = calls + 1
    /\ handle' = [handle EXCEPT !.ignore_drift = TRUE]
    /\ Touch("set")
    /\ UNCHANGED <<clock, mem, thread>>

SetPeriod == \E p \in Periods :
    /\ caller = "setPeriod"
    /\ caller' = "idle"
    /\ handle' = [handle EXCEPT !.refresh_period = Period(p)]
    /\ Touch("set")
    /\ UNCHANGED <<clock, mem, thread, calls>>

\* amtime_periodic_del_max_drift.
DelMaxDrift ==
    /\ caller = "idle" /\ mem # "none" /\ calls < CallLimit
    /\ calls' = calls + 1
    /\ handle' = [handle EXCEPT !.max_drift = 1]
    /\ Touch("del")
    /\ UNCHANGED <<clock, mem, thread, caller>>

\* amtime_preiodic_now, ..._get_refresh_period, ..._get_max_drift: one load each.
Get ==
    /\ caller = "idle" /\ mem # "none"
    /\ Touch("get")
    /\ UNCHANGED <<clock, mem, handle, thread, caller, calls>>

-----------------------------------------------------------------------------
(* amtime_preiodic_stop. *)

Move(from, to) == caller = from /\ caller' = to

\* Slip: the thread is not told that the handle is its own to free.
StopMarkNot ==
    /\ mem # "none"
    /\ Move("idle", "stopFlag")
    /\ Touch("stop")
    /\ UNCHANGED <<clock, mem, handle, thread, calls>>

\* Without blocking: thread_free, stop, and then a look at max_drift.
StopMark ==
    /\ mem # "none"
    /\ Move("idle", "stopFlag")
    /\ handle' = [handle EXCEPT !.thread_free = TRUE]
    /\ Touch("stop")
    /\ UNCHANGED <<clock, mem, thread, calls>>

StopFlag ==
    /\ Move("stopFlag", "stopRead")
    /\ handle' = [handle EXCEPT !.stop = TRUE]
    /\ Touch("stop")
    /\ UNCHANGED <<clock, mem, thread, calls>>

\* libam_time.c:92
StopRead ==
    /\ Move("stopRead", "stopped")
    /\ Touch("stopRead")
    /\ UNCHANGED <<clock, mem, handle, thread, calls>>

\* Blocking.
StopAsk ==
    /\ mem # "none"
    /\ Move("idle", "join")
    /\ handle' = [handle EXCEPT !.stop = TRUE]
    /\ Touch("stop")
    /\ UNCHANGED <<clock, mem, thread, calls>>

StopJoin ==
    /\ thread.at = "gone"
    /\ Move("join", "joined")
    /\ UNCHANGED <<clock, mem, handle, thread, calls, touched>>

StopFree ==
    /\ Move("joined", "stopped")
    /\ Touch("stop")
    /\ Free
    /\ UNCHANGED <<clock, handle, thread, calls>>

Stop == StopMark \/ StopFlag \/ StopRead \/ StopAsk \/ StopJoin \/ StopFree

-----------------------------------------------------------------------------
TimeNext == Elapse \/ Tick \/ Start \/ SetIgnore \/ SetPeriod \/ DelMaxDrift \/ Get \/ Stop

\* The thread runs, time passes, and a call of stop once made goes on.  Nobody
\* has to make one.
TimeFairness == /\ WF_timeVars(Tick) /\ WF_timeVars(Elapse)
                /\ WF_timeVars(StopFlag \/ StopRead \/ StopJoin \/ StopFree)

TimeSpec == TimeInit /\ [][TimeNext]_timeVars /\ TimeFairness

-----------------------------------------------------------------------------
(* Properties *)

\* Nobody uses the handle after its memory was freed, and it is freed once, but
\* for one line: a non-blocking stop raises `stop' and only then reads max_drift
\* (libam_time.c:92), and the thread may have freed the handle in between.
OnlyStopReadsFreed ==
    /\ touched \subseteq {"stopRead"}
    /\ mem # "invalid"

\* A stop, of either kind and whenever it comes, ends: the thread quits within a
\* period, and the memory of the handle is freed by the one whose turn it is.
StopFrees == caller \in {"join", "stopFlag"} ~> (mem = "freed" /\ thread.at = "gone")
=============================================================================
