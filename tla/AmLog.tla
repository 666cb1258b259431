-------------------------------- MODULE AmLog --------------------------------
(***************************************************************************)
(* The logger of src/src/libam_log.c.  Producers call amlog_sink_message,  *)
(* which copies the message into a line of every queued sink and, as long  *)
(* as there is no log thread, calls the callback of every direct sink.     *)
(* amlog_sink_init(AMLOG_FLAGS_USE_THREAD) registers a queued sink of its  *)
(* own, whose lines the log thread hands to the direct sinks.              *)
(*                                                                         *)
(* The queues are circular queues of libam_cqueue.c, taken here as what    *)
(* AmCQueue shows them to be: they never refuse a line, and with one       *)
(* consumer they are first-in-first-out.  A write-locked section is one    *)
(* step that waits for the readers.                                        *)
(***************************************************************************)
EXTENDS Integers, Sequences, FiniteSets, Functions

CONSTANTS Producers,    \* the threads that log
          DirectSinks,  \* the sinks of amlog_sink_register_direct
          AppSinks,     \* the sinks of amlog_sink_register_queued, but for
          LogSink,      \* log_thread->sink
          Lines,        \* Lines[s]: the lines made for the queued sink s
          Kinds,        \* Kinds[p]: what p logs, records of a level, a mask and
                        \* whether vsnprintf fails on the message
          TopLevel,     \* UINT64_MAX
          Levels,       \* what the program gives to amlog_sink_set_level
          Masks,        \* what it gives to amlog_sink_set_mask: sets of components
          Policies,     \* the flags of amlog_sink_init: "fail", "block"
          NULL,
          MessageLimit, \* bound: MessageLimit[p] messages of the producer p
          InitLimit,    \* bound: calls of amlog_sink_init
          EventLimit    \* bound: sinks registered, unregistered or retuned

QueuedSinks == AppSinks \cup {LogSink}
Sinks == DirectSinks \cup QueuedSinks
AllLines == UNION {Lines[s] : s \in QueuedSinks}
Messages == UNION {[by : {p}, nr : 1 .. MessageLimit[p], kind : Kinds[p]] : p \in Producers}

ASSUME SinksAssumption == /\ LogSink \notin AppSinks
                          /\ DirectSinks \cap QueuedSinks = {}
                          /\ IsFiniteSet(DirectSinks) /\ IsFiniteSet(AppSinks)
ASSUME ProducersAssumption == /\ IsFiniteSet(Producers) /\ LogSink \notin Producers
                              /\ MessageLimit \in [Producers -> Nat]
ASSUME LinesAssumption ==
    /\ NULL \notin AllLines
    /\ \A s \in QueuedSinks : IsFiniteSet(Lines[s])
    /\ \A s, r \in QueuedSinks : s # r => Lines[s] \cap Lines[r] = {}
\* No level is above UINT64_MAX.
ASSUME LevelsAssumption ==
    \A p \in Producers : \A k \in Kinds[p] : TopLevel >= k.level

VARIABLES log_thread,   \* log_thread # NULL
          keep_running, \* log_thread->keep_running
          policy,       \* block_on_error
          direct,       \* direct_sinks, in list order
          queued,       \* queued_sinks, in list order
          level, mask,  \* of the sinks
          inq, outq,    \* in_queue and out_queue of the queued sinks
          text,         \* text[l]: the message in the line l, until it is read
          ctl,          \* where the thread is that calls init and term
          thr,          \* where the log thread is
          ent, rest,    \* its line, and the direct sinks left to visit
          pc,           \* where the producers are in amlog_sink_message
          msg, todo,    \* their message, and the sinks left to visit
          hand,         \* the line they took from an out_queue
          dropped,      \* history: for some sink there was no line
          quiet,        \* history: the call has met no init and no term
          sent, inits, events,  \* counts for the bounds
          got,          \* history: got[d], the messages given to d's callback
          owed,         \* history: the messages of quiet calls that dropped
                        \* nothing and returned AMRC_SUCCESS
          lost,         \* history: the messages freed with their in_queue
          steady        \* history: the direct sinks registered and tuned before
                        \* the first message and left alone since

ctlVars == <<log_thread, keep_running, policy, ctl, inits, lost>>
sinkVars == <<direct, queued, level, mask, steady, events>>
thrVars == <<thr, ent, rest>>
msgVars == <<pc, msg, todo, hand, dropped, quiet, sent, owed>>
lineVars == <<inq, outq, text>>
vars == <<ctlVars, sinkVars, thrVars, msgVars, lineVars, got>>

\* The elements of a set, in some order; a list without one of its elements, in
\* which it is once.
Listed(S) == CHOOSE list \in [1 .. Cardinality(S) -> S] : IsInjective(list)

Without(list, s) ==
    IF s \in Range(list)
    THEN LET k == CHOOSE i \in DOMAIN list : list[i] = s
         IN  [i \in 1 .. Len(list) - 1 |-> list[IF i < k THEN i ELSE i + 1]]
    ELSE list

\* The program may have registered its sinks before anything is logged.
Init ==
    /\ log_thread = FALSE /\ keep_running = FALSE
    /\ policy = "fail"
    /\ \/ direct = <<>> /\ queued = <<>>
       \/ direct = Listed(DirectSinks) /\ queued = Listed(AppSinks)
    /\ steady = Range(direct)
    /\ level = [s \in Sinks |-> TopLevel]
    /\ mask = [s \in Sinks |-> {}]
    /\ inq = [s \in QueuedSinks |-> <<>>]
    /\ outq = [s \in QueuedSinks |-> IF s = LogSink THEN <<>> ELSE Listed(Lines[s])]
    /\ text = [l \in AllLines |-> NULL]
    /\ ctl = "idle" /\ thr = "none" /\ ent = NULL /\ rest = <<>>
    /\ pc = [p \in Producers |-> "idle"]
    /\ msg = [p \in Producers |-> NULL]
    /\ todo = [p \in Producers |-> <<>>]
    /\ hand = [p \in Producers |-> NULL]
    /\ dropped = [p \in Producers |-> FALSE]
    /\ quiet = [p \in Producers |-> FALSE]
    /\ sent = [p \in Producers |-> 0]
    /\ inits = 0 /\ events = 0
    /\ got = [d \in DirectSinks |-> <<>>]
    /\ owed = {} /\ lost = {}

\* Who holds queued_rwlock and direct_rwlock for reading.
QueuedReaders == {p \in Producers : pc[p] \in {"queued", "copy"}}
DirectReaders == {p \in Producers : pc[p] = "direct"}
                 \cup {t \in {LogSink} : thr = "offer"}

\* The test every loop over the sinks makes: an empty mask on either side and
\* level 0 always pass.
Accepts(s, m) ==
    /\ mask[s] = {} \/ m.kind.mask = {} \/ mask[s] \cap m.kind.mask # {}
    /\ level[s] >= m.kind.level

\* The callback of d gets m, unless d filters it out.
Offer(d, m) == got' = IF Accepts(d, m) THEN [got EXCEPT ![d] = Append(@, m)] ELSE got

Contents(queue) == {text[queue[i]] : i \in DOMAIN queue}

-----------------------------------------------------------------------------
(* amlog_sink_register_*, _unregister, _set_level, _set_mask                *)

\* A sink that is not registered, or just was, filters nothing.
Fresh(s) == /\ level' = [level EXCEPT ![s] = TopLevel]
            /\ mask' = [mask EXCEPT ![s] = {}]

NoneSent == \A p \in Producers : sent[p] = 0

\* A new sink goes to the front of its list.
RegisterDirect(d) ==
    /\ d \notin Range(direct) /\ DirectReaders = {}
    /\ direct' = <<d>> \o direct
    /\ Fresh(d)
    /\ steady' = IF NoneSent THEN steady \cup {d} ELSE steady
    /\ UNCHANGED queued

RegisterQueued(s) ==
    /\ s \notin Range(queued) /\ QueuedReaders = {}
    /\ queued' = <<s>> \o queued
    /\ Fresh(s)
    /\ UNCHANGED <<direct, steady>>

\* Slip: the list is changed without the lock.
UnregisterUnlocked(s) ==
    /\ s \in Range(direct) \cup Range(queued)
    /\ direct' = Without(direct, s)
    /\ queued' = Without(queued, s)
    /\ steady' = steady \ {s}
    /\ Fresh(s)

\* The kind of the sink says which lock and which list.
Unregister(s) ==
    /\ s \in Range(direct) \cup Range(queued)
    /\ IF s \in DirectSinks THEN DirectReaders = {} ELSE QueuedReaders = {}
    /\ direct' = Without(direct, s)
    /\ queued' = Without(queued, s)
    /\ steady' = steady \ {s}
    /\ Fresh(s)

SetLevel(s) == \E l \in Levels :
    /\ s \in Range(direct) \cup Range(queued)
    /\ level' = [level EXCEPT ![s] = l]
    /\ steady' = IF NoneSent THEN steady ELSE steady \ {s}
    /\ UNCHANGED <<direct, queued, mask>>

SetMask(s) == \E k \in Masks :
    /\ s \in Range(direct) \cup Range(queued)
    /\ mask' = [mask EXCEPT ![s] = k]
    /\ steady' = IF NoneSent THEN steady ELSE steady \ {s}
    /\ UNCHANGED <<direct, queued, level>>

\* The program registers and tunes its own sinks; log_thread->sink has no handle
\* outside the logger.
SinkCall ==
    /\ events < EventLimit
    /\ events' = events + 1
    /\ \/ \E d \in DirectSinks : RegisterDirect(d)
       \/ \E s \in AppSinks : RegisterQueued(s)
       \/ \E s \in DirectSinks \cup AppSinks : Unregister(s) \/ SetLevel(s) \/ SetMask(s)
    /\ UNCHANGED <<ctlVars, thrVars, msgVars, lineVars, got>>

-----------------------------------------------------------------------------
(* amlog_sink_message                                                       *)

Goto(p, label) == pc' = [pc EXCEPT ![p] = label]

\* The call of p returns rc.
Return(p, rc) ==
    /\ Goto(p, "idle")
    /\ msg' = [msg EXCEPT ![p] = NULL]
    /\ todo' = [todo EXCEPT ![p] = <<>>]
    /\ dropped' = [dropped EXCEPT ![p] = FALSE]
    /\ quiet' = [quiet EXCEPT ![p] = FALSE]
    /\ owed' = IF rc = "AMRC_SUCCESS" /\ quiet[p] /\ ~dropped[p]
               THEN owed \cup {msg[p]} ELSE owed

\* p is done with the sink it visits.
NextSink(p) == todo' = [todo EXCEPT ![p] = Tail(@)]

\* The call, up to the read lock on queued_sinks.
MsgCall(p) == \E kind \in Kinds[p] :
    /\ pc[p] = "idle" /\ sent[p] < MessageLimit[p]
    /\ sent' = [sent EXCEPT ![p] = @ + 1]
    /\ msg' = [msg EXCEPT ![p] = [by |-> p, nr |-> sent'[p], kind |-> kind]]
    /\ quiet' = [quiet EXCEPT ![p] = (ctl = "idle")]
    /\ todo' = [todo EXCEPT ![p] = queued]
    /\ Goto(p, "queued")
    /\ UNCHANGED <<ctlVars, sinkVars, thrVars, lineVars, hand, dropped, owed, got>>

Visits(p, list, s) == pc[p] = list /\ todo[p] # <<>> /\ s = Head(todo[p])

MsgSkip(p) == \E s \in QueuedSinks :
    /\ Visits(p, "queued", s) /\ ~Accepts(s, msg[p])
    /\ NextSink(p)
    /\ UNCHANGED <<ctlVars, sinkVars, thrVars, lineVars, got,
                   pc, msg, hand, dropped, quiet, sent, owed>>

\* vsnprintf fails for the first sink that wants the message.
MsgBadFormat(p) == \E s \in Sinks :
    /\ Visits(p, "queued", s) \/ Visits(p, "direct", s)
    /\ Accepts(s, msg[p]) /\ msg[p].kind.bad
    /\ Return(p, "AMRC_ERROR")
    /\ UNCHANGED <<ctlVars, sinkVars, thrVars, lineVars, got, hand, sent>>

\* amlog_sink_dequeue succeeds.
MsgTake(p) == \E s \in QueuedSinks :
    /\ Visits(p, "queued", s) /\ Accepts(s, msg[p]) /\ ~msg[p].kind.bad
    /\ outq[s] # <<>>
    /\ hand' = [hand EXCEPT ![p] = Head(outq[s])]
    /\ outq' = [outq EXCEPT ![s] = Tail(@)]
    /\ Goto(p, "copy")
    /\ UNCHANGED <<ctlVars, sinkVars, thrVars, got, inq, text,
                   msg, todo, dropped, quiet, sent, owed>>

\* It finds no line and gives this sink up.  Under "block" it tries again, which
\* is no step; AMLOG_FLAGS_ABORT_ON_ERROR ends the process there, so that what is
\* said of "block" up to that point covers it.
MsgNoLine(p) == \E s \in QueuedSinks :
    /\ Visits(p, "queued", s) /\ Accepts(s, msg[p]) /\ ~msg[p].kind.bad
    /\ outq[s] = <<>>
    /\ policy = "fail"
    /\ NextSink(p)
    /\ dropped' = [dropped EXCEPT ![p] = TRUE]
    /\ UNCHANGED <<ctlVars, sinkVars, thrVars, lineVars, got, pc, msg, hand, quiet, sent, owed>>

\* Slip: the line is also left where it came from.
MsgCopyTwice(p) == \E s \in QueuedSinks :
    /\ Visits(p, "copy", s)
    /\ text' = [text EXCEPT ![hand[p]] = msg[p]]
    /\ inq' = [inq EXCEPT ![s] = Append(@, hand[p])]
    /\ outq' = [outq EXCEPT ![s] = Append(@, hand[p])]
    /\ hand' = [hand EXCEPT ![p] = NULL]
    /\ NextSink(p)
    /\ Goto(p, "queued")
    /\ UNCHANGED <<ctlVars, sinkVars, thrVars, got, msg, dropped, quiet, sent, owed>>

\* memcpy into the line, which is p's alone, and amlog_sink_enqueue.
MsgCopy(p) == \E s \in QueuedSinks :
    /\ Visits(p, "copy", s)
    /\ text' = [text EXCEPT ![hand[p]] = msg[p]]
    /\ inq' = [inq EXCEPT ![s] = Append(@, hand[p])]
    /\ hand' = [hand EXCEPT ![p] = NULL]
    /\ NextSink(p)
    /\ Goto(p, "queued")
    /\ UNCHANGED <<ctlVars, sinkVars, thrVars, got, outq, msg, dropped, quiet, sent, owed>>

MsgQueuedDone(p) ==
    /\ pc[p] = "queued" /\ todo[p] = <<>>
    /\ Goto(p, "check")
    /\ UNCHANGED <<ctlVars, sinkVars, thrVars, lineVars, got,
                   msg, todo, hand, dropped, quiet, sent, owed>>

\* log_thread # NULL: the log thread serves the direct sinks.
MsgThreaded(p) ==
    /\ pc[p] = "check" /\ log_thread
    /\ Return(p, "AMRC_SUCCESS")
    /\ UNCHANGED <<ctlVars, sinkVars, thrVars, lineVars, got, hand, sent>>

\* Slip: the direct sinks are served here too when the thread is there.
MsgDirectAlways(p) ==
    /\ pc[p] = "check"
    /\ todo' = [todo EXCEPT ![p] = direct]
    /\ Goto(p, "direct")
    /\ UNCHANGED <<ctlVars, sinkVars, thrVars, lineVars, got,
                   msg, hand, dropped, quiet, sent, owed>>

\* log_thread = NULL: p read-locks direct_sinks.
MsgDirect(p) ==
    /\ pc[p] = "check" /\ ~log_thread
    /\ todo' = [todo EXCEPT ![p] = direct]
    /\ Goto(p, "direct")
    /\ UNCHANGED <<ctlVars, sinkVars, thrVars, lineVars, got,
                   msg, hand, dropped, quiet, sent, owed>>

MsgOffer(p) == \E d \in DirectSinks :
    /\ Visits(p, "direct", d) /\ ~(Accepts(d, msg[p]) /\ msg[p].kind.bad)
    /\ Offer(d, msg[p])
    /\ NextSink(p)
    /\ UNCHANGED <<ctlVars, sinkVars, thrVars, lineVars,
                   pc, msg, hand, dropped, quiet, sent, owed>>

MsgDirectDone(p) ==
    /\ pc[p] = "direct" /\ todo[p] = <<>>
    /\ Return(p, "AMRC_SUCCESS")
    /\ UNCHANGED <<ctlVars, sinkVars, thrVars, lineVars, got, hand, sent>>

-----------------------------------------------------------------------------
(* amlog_direct_callback_thread_func                                        *)

ThrTake ==
    /\ thr = "deq" /\ inq[LogSink] # <<>>
    /\ ent' = Head(inq[LogSink])
    /\ inq' = [inq EXCEPT ![LogSink] = Tail(@)]
    /\ thr' = "lock"
    /\ UNCHANGED <<ctlVars, sinkVars, msgVars, got, outq, text, rest>>

\* The queue is empty; keep_running is read after that, in a step of its own.
ThrEmpty ==
    /\ thr = "deq" /\ inq[LogSink] = <<>>
    /\ thr' = "check"
    /\ UNCHANGED <<ctlVars, sinkVars, msgVars, lineVars, got, ent, rest>>

\* Slip: keep_running is not looked at.
ThrCheckNot ==
    /\ thr = "check"
    /\ thr' = "deq"
    /\ UNCHANGED <<ctlVars, sinkVars, msgVars, lineVars, got, ent, rest>>

ThrCheck ==
    /\ thr = "check"
    /\ thr' = IF keep_running THEN "deq" ELSE "exited"
    /\ UNCHANGED <<ctlVars, sinkVars, msgVars, lineVars, got, ent, rest>>

ThrLock ==
    /\ thr = "lock"
    /\ thr' = "offer" /\ rest' = direct
    /\ UNCHANGED <<ctlVars, sinkVars, msgVars, lineVars, got, ent>>

ThrOffer ==
    /\ thr = "offer" /\ rest # <<>>
    /\ Offer(Head(rest), text[ent])
    /\ rest' = Tail(rest)
    /\ UNCHANGED <<ctlVars, sinkVars, msgVars, lineVars, thr, ent>>

\* The line goes back to out_queue; splitting this from the unlock shows nothing
\* more, as nobody else reads the line.
ThrReturn ==
    /\ thr = "offer" /\ rest = <<>>
    /\ outq' = [outq EXCEPT ![LogSink] = Append(@, ent)]
    /\ text' = [text EXCEPT ![ent] = NULL]
    /\ thr' = "deq" /\ ent' = NULL
    /\ UNCHANGED <<ctlVars, sinkVars, msgVars, got, inq, rest>>

-----------------------------------------------------------------------------
(* amlog_sink_init and amlog_sink_term, which one thread calls              *)

\* Calls under way, and those that start before ctl is idle again, are not quiet.
Disturb == quiet' = [p \in Producers |-> FALSE]

\* amlog_sink_init without AMLOG_FLAGS_USE_THREAD, or out of memory at once.
InitPlain == \E flags \in Policies :
    /\ ctl = "idle" /\ inits < InitLimit
    /\ inits' = inits + 1
    /\ policy' = flags
    /\ UNCHANGED <<log_thread, keep_running, ctl, lost>>
    /\ UNCHANGED <<sinkVars, thrVars, msgVars, lineVars, got>>

InitAlloc == \E flags \in Policies :
    /\ ctl = "idle" /\ inits < InitLimit /\ ~log_thread
    /\ inits' = inits + 1
    /\ policy' = flags
    /\ log_thread' = TRUE /\ keep_running' = TRUE
    /\ ctl' = "fill"
    /\ Disturb
    /\ UNCHANGED <<sinkVars, thrVars, lineVars, got, lost,
                   pc, msg, todo, hand, dropped, sent, owed>>

\* Both queues, and every line of line_buffer in out_queue.
InitFill ==
    /\ ctl = "fill"
    /\ outq' = [outq EXCEPT ![LogSink] = Listed(Lines[LogSink])]
    /\ ctl' = "register"
    /\ UNCHANGED <<log_thread, keep_running, policy, inits, lost>>
    /\ UNCHANGED <<sinkVars, thrVars, msgVars, got, inq, text>>

\* Out of memory for a queue or for the sink.
InitFillFails ==
    /\ ctl \in {"fill", "register"}
    /\ ctl' = "free"
    /\ UNCHANGED <<log_thread, keep_running, policy, inits, lost>>
    /\ UNCHANGED <<sinkVars, thrVars, msgVars, lineVars, got>>

InitRegister ==
    /\ ctl = "register"
    /\ RegisterQueued(LogSink)
    /\ ctl' = "create"
    /\ UNCHANGED <<log_thread, keep_running, policy, inits, lost, events>>
    /\ UNCHANGED <<thrVars, msgVars, lineVars, got>>

\* pthread_create
InitCreate ==
    /\ ctl = "create"
    /\ \/ thr' = "deq" /\ ctl' = "idle"
       \/ thr' = thr /\ ctl' = "unregister"
    /\ UNCHANGED <<log_thread, keep_running, policy, inits, lost, ent, rest>>
    /\ UNCHANGED <<sinkVars, msgVars, lineVars, got>>

TermStop ==
    /\ ctl = "idle" /\ log_thread
    /\ keep_running' = FALSE
    /\ ctl' = "join"
    /\ Disturb
    /\ UNCHANGED <<sinkVars, thrVars, lineVars, got, log_thread, policy, inits, lost,
                   pc, msg, todo, hand, dropped, sent, owed>>

TermJoin ==
    /\ ctl = "join" /\ thr = "exited"
    /\ thr' = "none"
    /\ ctl' = "unregister"
    /\ UNCHANGED <<log_thread, keep_running, policy, inits, lost, ent, rest>>
    /\ UNCHANGED <<sinkVars, msgVars, lineVars, got>>

\* amlog_sink_unregister(log_thread->sink), in term and on init's error path.
CtlUnregister ==
    /\ ctl = "unregister"
    /\ Unregister(LogSink)
    /\ ctl' = "free"
    /\ UNCHANGED <<log_thread, keep_running, policy, inits, lost, events>>
    /\ UNCHANGED <<thrVars, msgVars, lineVars, got>>

\* The queues and log_thread are freed, and log_thread = NULL.
CtlFree ==
    /\ ctl = "free"
    /\ lost' = lost \cup Contents(inq[LogSink])
    /\ inq' = [inq EXCEPT ![LogSink] = <<>>]
    /\ outq' = [outq EXCEPT ![LogSink] = <<>>]
    /\ text' = [l \in AllLines |-> IF l \in Lines[LogSink] THEN NULL ELSE text[l]]
    /\ log_thread' = FALSE /\ keep_running' = FALSE
    /\ ctl' = "idle"
    /\ UNCHANGED <<policy, inits>>
    /\ UNCHANGED <<sinkVars, thrVars, msgVars, got>>

-----------------------------------------------------------------------------
\* External: the program behind a queued sink consumes a line and gives it back.
AppConsume(s) ==
    /\ inq[s] # <<>>
    /\ inq' = [inq EXCEPT ![s] = Tail(@)]
    /\ outq' = [outq EXCEPT ![s] = Append(@, Head(inq[s]))]
    /\ text' = [text EXCEPT ![Head(inq[s])] = NULL]
    /\ UNCHANGED <<ctlVars, sinkVars, thrVars, msgVars, got>>

MsgStep(p) ==
    \/ MsgSkip(p) \/ MsgBadFormat(p) \/ MsgTake(p) \/ MsgNoLine(p) \/ MsgCopy(p)
    \/ MsgQueuedDone(p) \/ MsgThreaded(p) \/ MsgDirect(p) \/ MsgOffer(p) \/ MsgDirectDone(p)

ThrStep == ThrTake \/ ThrEmpty \/ ThrCheck \/ ThrLock \/ ThrOffer \/ ThrReturn

CtlStep == InitFill \/ InitFillFails \/ InitRegister \/ InitCreate
           \/ TermJoin \/ CtlUnregister \/ CtlFree

CtlCall == InitPlain \/ InitAlloc \/ TermStop

Next ==
    \/ SinkCall \/ CtlCall \/ CtlStep \/ ThrStep
    \/ \E p \in Producers : MsgCall(p) \/ MsgStep(p)
    \/ \E s \in AppSinks : AppConsume(s)

Spec == Init /\ [][Next]_vars

\* The threads are scheduled; the program makes whatever calls it likes.
FairSpec ==
    /\ Spec
    /\ WF_vars(ThrStep)
    /\ WF_vars(CtlStep)
    /\ \A p \in Producers : WF_vars(MsgStep(p))

-----------------------------------------------------------------------------
\* Types, and what each place in the code can count on: a message while a call
\* runs, a line to copy to, a line to hand out.
TypeOK ==
    /\ log_thread \in BOOLEAN /\ keep_running \in BOOLEAN
    /\ policy \in Policies \cup {"fail"}
    /\ direct \in Seq(DirectSinks) /\ IsInjective(direct)
    /\ queued \in Seq(QueuedSinks) /\ IsInjective(queued)
    /\ level \in [Sinks -> Levels \cup {TopLevel}]
    /\ mask \in [Sinks -> Masks \cup {{}}]
    /\ inq \in [QueuedSinks -> Seq(AllLines)] /\ outq \in [QueuedSinks -> Seq(AllLines)]
    /\ text \in [AllLines -> Messages \cup {NULL}]
    /\ ctl \in {"idle", "fill", "register", "create", "join", "unregister", "free"}
    /\ thr \in {"none", "deq", "check", "lock", "offer", "exited"}
    /\ IF thr \in {"lock", "offer"}
       THEN ent \in AllLines /\ text[ent] \in Messages ELSE ent = NULL
    /\ rest \in Seq(DirectSinks)
    /\ pc \in [Producers -> {"idle", "queued", "copy", "check", "direct"}]
    /\ msg \in [Producers -> Messages \cup {NULL}] /\ todo \in [Producers -> Seq(Sinks)]
    /\ hand \in [Producers -> AllLines \cup {NULL}]
    /\ dropped \in [Producers -> BOOLEAN] /\ quiet \in [Producers -> BOOLEAN]
    /\ sent \in [Producers -> Nat]
    /\ \A p \in Producers :
        /\ sent[p] <= MessageLimit[p]
        /\ IF pc[p] = "idle" THEN msg[p] = NULL ELSE msg[p] \in Messages
        /\ IF pc[p] = "copy" THEN hand[p] \in AllLines ELSE hand[p] = NULL
    /\ got \in [DirectSinks -> Seq(Messages)]
    /\ owed \subseteq Messages /\ lost \subseteq Messages /\ steady \subseteq Range(direct)

Times(x, s) == Cardinality({i \in DOMAIN s : s[i] = x})

Holders(l) == {p \in Producers : hand[p] = l} \cup {t \in {LogSink} : ent = l}

\* Every line is in one place: in a queue of its own sink, or in the hands of
\* the one thread that may write or read it.  So nobody writes a line that
\* another one reads, and no queue ever gets more lines than it was allocated
\* for, which amcqueue_enq does not check.
LinesConserved == \A s \in QueuedSinks : \A l \in Lines[s] :
    /\ Times(l, inq[s]) + Times(l, outq[s]) + Cardinality(Holders(l))
         \in IF s = LogSink /\ s \notin Range(queued) THEN {0, 1} ELSE {1}
    /\ \A r \in QueuedSinks \ {s} : l \notin Range(inq[r]) \cup Range(outq[r])

\* The types, with a message or a line wherever the code counts on one, and the
\* lines, each in one place.
LinesSound == TypeOK /\ LinesConserved

\* A sink is not unregistered, and the log thread's queues are not freed, under
\* a call or a thread that is still going to use them.
SinksOutliveUse ==
    /\ \A p \in Producers :
        /\ p \in QueuedReaders => Range(todo[p]) \subseteq Range(queued)
        /\ p \in DirectReaders => Range(todo[p]) \subseteq Range(direct)
    /\ thr = "offer" => Range(rest) \subseteq Range(direct)
    /\ LogSink \in Range(queued) \/ thr # "none" => log_thread /\ ctl \notin {"fill", "free"}

\* The log thread still has to offer the line with m to d.
OnItsWay(m, d) ==
    \/ m \in Contents(inq[LogSink])
    \/ thr = "lock" /\ text[ent] = m
    \/ thr = "offer" /\ text[ent] = m /\ d \in Range(rest)

\* A message whose call returned AMRC_SUCCESS and met no init or term reaches a
\* direct sink, registered and tuned before the first message, once if the sink
\* wants it: it was given to the callback, or is on its way, or was freed unread.
\* It never reaches one whose level or mask filters it out.  Calls that found no
\* line are left out: they return AMRC_SUCCESS and give the message up.
OnceEach == \A m \in owed, d \in steady :
    Times(m, got[d]) + (IF OnItsWay(m, d) /\ Accepts(d, m) THEN 1 ELSE 0)
                     + (IF m \in lost /\ Accepts(d, m) THEN 1 ELSE 0)
        = IF Accepts(d, m) THEN 1 ELSE 0

\* A direct sink gets the messages of one producer in the order they were
\* logged, with and without the thread and across init and term.
InOrder == \A d \in DirectSinks : \A i, j \in DOMAIN got[d] :
    i < j /\ got[d][i].by = got[d][j].by => got[d][i].nr <= got[d][j].nr

\* What a direct sink is called with (libam_log.c:277-345): every message it is
\* owed, once, and those of one producer in order.
OnceInOrder == OnceEach /\ InOrder

\* amlog_sink_term returns, unless calls may wait for lines: a call that waits
\* holds the lock that term needs.
TermReturns == ctl = "join" /\ policy # "block" ~> ctl = "idle"

\* "@Returns AMRC_SUCCESS if printed successfully": once amlog_sink_term has
\* freed the lines, no message of such a call, not even of one that returned
\* before term was called, was freed unread.
SuccessIsPrinted == lost \cap owed = {}
=============================================================================
