------------------------------- MODULE TestLog -------------------------------
(***************************************************************************)
(* The log lines of a test set, src/src/test_base.h: run_tests registers a *)
(* queued sink, a thread moves the lines the tests log from the sink's     *)
(* queue to a list, and between two tests the main thread unregisters the  *)
(* sink, waits for the thread to find the queue empty once more, and       *)
(* prints or drops the list.  That wait is all that keeps the two threads  *)
(* from the list at the same time; a counter of the thread's polls is all  *)
(* the wait looks at.                                                      *)
(***************************************************************************)
EXTENDS AmList, SequencesExt

CONSTANTS Buffers, \* lines[_LOQ_QUEUE_SIZE]: the amlog_line_t of the two queues
          Lines,   \* the logline_t the thread allocates, one for each message
          Tests,   \* set->count
          Anchor,  \* &lq->list
          NULL

TestLogAssumption ==
    /\ Tests \in Nat \ {0} /\ IsFiniteSet(Buffers) /\ IsFiniteSet(Lines)
    /\ Anchor \notin Lines /\ NULL \notin Buffers \cup Lines \cup {Anchor}

VARIABLES queue,   \* in_queue and out_queue
          list,    \* the links of lq->list
          sink,    \* lq->sink # NULL
          slept,   \* lq->sleeps has moved since flush read it
          logger,  \* the thread: where it is, its buffer, and whether its last
                   \* poll is older than the last snapshot of sleeps (history)
          run,     \* the main thread: where it is, the tests left, and where flush
                   \* returns to
          keep,    \* keep_running
          shown    \* of each line: "new", "listed" or "flushed", which is printed or not

testLogVars == <<queue, list, sink, slept, logger, run, keep, shown>>

Init ==
    /\ queue = [inq |-> <<>>, outq |-> SetToSeq(Buffers)]
    /\ list = ListInit(Links(Lines \cup {Anchor}, NULL), Anchor)
    /\ sink = FALSE
    /\ slept = FALSE
    /\ logger = [at |-> "none", ent |-> NULL, old |-> FALSE]
    /\ run = [at |-> "start", left |-> Tests, back |-> "tests"]
    /\ keep = TRUE
    /\ shown = [l \in Lines |-> "new"]

-----------------------------------------------------------------------------
(* _test_logger_thread *)

LoggerAt(at, next) == logger.at = at /\ logger' = [logger EXCEPT !.at = next]

LoggerCheck ==
    /\ LoggerAt("check", IF keep THEN "poll" ELSE "gone")
    /\ UNCHANGED <<queue, list, sink, slept, run, keep, shown>>

LoggerPoll ==
    /\ logger.at = "poll"
    /\ IF queue.inq = <<>>
       THEN logger' = [logger EXCEPT !.at = "empty", !.old = FALSE] /\ UNCHANGED queue
       ELSE /\ logger' = [logger EXCEPT !.at = "add", !.ent = Head(queue.inq)]
            /\ queue' = [queue EXCEPT !.inq = Tail(@)]
    /\ UNCHANGED <<list, sink, slept, run, keep, shown>>

LoggerSleep ==
    /\ LoggerAt("empty", "check")
    /\ slept' = TRUE
    /\ UNCHANGED <<queue, list, sink, run, keep, shown>>

\* malloc of a line, and its place at the end of the list.
LoggerAdd ==
    /\ LoggerAt("add", "return")
    /\ LET l == CHOOSE l \in Lines : shown[l] = "new"
       IN  shown' = [shown EXCEPT ![l] = "listed"] /\ list' = ListAddTail(list, Anchor, l)
    /\ UNCHANGED <<queue, sink, slept, run, keep>>

LoggerReturn ==
    /\ logger.at = "return"
    /\ logger' = [logger EXCEPT !.at = "check", !.ent = NULL]
    /\ queue' = [queue EXCEPT !.outq = Append(@, logger.ent)]
    /\ UNCHANGED <<list, sink, slept, run, keep, shown>>

Logger == LoggerCheck \/ LoggerPoll \/ LoggerSleep \/ LoggerAdd \/ LoggerReturn

-----------------------------------------------------------------------------
(* run_tests, _test_flush_logger and _test_stop_logger *)

RunAt(at, next) == run.at = at /\ run' = [run EXCEPT !.at = next]

\* _test_start_logger waits for the thread to be up.
StartLogger ==
    /\ RunAt("start", "unregister")
    /\ logger' = [logger EXCEPT !.at = "check"]
    /\ UNCHANGED <<queue, list, sink, slept, keep, shown>>

Unlogged == Cardinality({l \in Lines : shown[l] = "new"})
            - Len(queue.inq) - (IF logger.at = "add" THEN 1 ELSE 0)

\* A test logs a message: a buffer is needed at once, or the program aborts.
LogMessage ==
    /\ run.at = "tests" /\ run.left > 0 /\ Unlogged > 0
    /\ IF queue.outq = <<>>
       THEN run' = [run EXCEPT !.at = "aborted"] /\ UNCHANGED queue
       ELSE /\ queue' = [inq |-> Append(queue.inq, Head(queue.outq)), outq |-> Tail(queue.outq)]
            /\ UNCHANGED run
    /\ UNCHANGED <<list, sink, slept, logger, keep, shown>>

TestDone ==
    /\ run.left > 0
    /\ run.at = "tests" /\ run' = [run EXCEPT !.at = "unregister", !.left = @ - 1]
    /\ UNCHANGED <<queue, list, sink, slept, logger, keep, shown>>

\* Slip: the thread is told to stop before the flush that waits for it.
StopLoggerFirst ==
    /\ run.at = "tests" /\ run.left = 0
    /\ run' = [run EXCEPT !.at = "unregister", !.back = "stop"]
    /\ sink' = FALSE
    /\ keep' = FALSE
    /\ UNCHANGED <<queue, list, slept, logger, shown>>

\* _test_stop_logger unregisters the sink, and flush does not register it again.
StopLogger ==
    /\ run.at = "tests" /\ run.left = 0
    /\ run' = [run EXCEPT !.at = "unregister", !.back = "stop"]
    /\ sink' = FALSE
    /\ UNCHANGED <<queue, list, slept, logger, keep, shown>>

\* No message is logged any more, and the thread's polls are counted from here.
FlushUnregister ==
    /\ RunAt("unregister", "snapshot")
    /\ sink' = FALSE
    /\ UNCHANGED <<queue, list, slept, logger, keep, shown>>

FlushSnapshot ==
    /\ RunAt("snapshot", "wait")
    /\ slept' = FALSE
    /\ logger' = [logger EXCEPT !.old = logger.at = "empty"]
    /\ UNCHANGED <<queue, list, sink, keep, shown>>

FlushWait ==
    /\ slept
    /\ RunAt("wait", "drain")
    /\ UNCHANGED <<queue, list, sink, slept, logger, keep, shown>>

FlushLine ==
    /\ run.at = "drain" /\ ~ListEmpty(list, Anchor)
    /\ shown' = [shown EXCEPT ![ListFirst(list, Anchor)] = "flushed"]
    /\ list' = ListDel(list, ListFirst(list, Anchor))
    /\ UNCHANGED <<queue, sink, slept, logger, run, keep>>

\* run_tests forces the first registration, and later ones restore the sink.
FlushEnd ==
    /\ ListEmpty(list, Anchor)
    /\ RunAt("drain", run.back)
    /\ sink' = (run.back = "tests")
    /\ UNCHANGED <<queue, list, slept, logger, keep, shown>>

StopRunning ==
    /\ RunAt("stop", "join")
    /\ keep' = FALSE
    /\ UNCHANGED <<queue, list, sink, slept, logger, shown>>

\* The thread is joined, and the queues and lq are freed.
JoinLogger ==
    /\ logger.at = "gone"
    /\ RunAt("join", "ended")
    /\ UNCHANGED <<queue, list, sink, slept, logger, keep, shown>>

Run == StartLogger \/ LogMessage \/ TestDone \/ StopLogger \/ FlushUnregister \/ FlushSnapshot
       \/ FlushWait \/ FlushLine \/ FlushEnd \/ StopRunning \/ JoinLogger

Next == Logger \/ Run

\* Both threads keep running.
TestLogFairness == WF_testLogVars(Logger) /\ WF_testLogVars(Run)

Spec == Init /\ [][Next]_testLogVars /\ TestLogFairness

-----------------------------------------------------------------------------
\* The list holds the lines added and not flushed, and no buffer of the queues
\* is lost.  While flush drains the list (test_base.h:217-224) it has it to
\* itself, and everything logged before is in it; except when the poll that
\* ended its wait had found the queue empty before the sink was unregistered:
\* the thread counts such a poll late (test_base.h:97-99), and may be adding a
\* line to the list that flush is taking apart.
FlushAlone ==
    /\ ToSet(ListEntries(list, Anchor)) = {l \in Lines : shown[l] = "listed"}
    /\ Len(queue.inq) + Len(queue.outq) + (IF logger.ent = NULL THEN 0 ELSE 1)
       = Cardinality(Buffers)
    /\ run.at = "drain" => ~sink
    /\ run.at = "drain" /\ ~logger.old => queue.inq = <<>> /\ logger.at # "add"

\* Every flush ends its wait, and the test set ends: the thread is still there
\* to be waited for (test_base.h:211-215, 243-248).
TestSetEnds == <>(run.at \in {"ended", "aborted"})
=============================================================================
