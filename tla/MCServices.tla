------------------------------ MODULE MCServices ------------------------------
(* Small instances, for TLC, of the parts of the repository that run a thread  *)
(* or two and are told to stop: the clock of amtime, a stream between two      *)
(* sockets, and the test programs' harnesses for sockets, for containers and   *)
(* for log lines.  They do not meet: a behaviour is one of one part, and the   *)
(* others stay as they are.                                                    *)
EXTENDS AmTime

CONSTANTS NULL, Anchor, b1, b2

VARIABLES part,                          \* which part this is a behaviour of
          pipe, got, io, offset, setting, signals,
          type, srv, sthr, main, net, missed,
          kind, size, bag, object, objlist, thr, signal, counts, mainAt, left,
          queue, list, sink, slept, logger, run, keep, shown

\* Three bytes through a buffer of two.
Stream == INSTANCE AmStream WITH
              Length <- 3, Room <- 2, Ignores <- SUBSET {"WOULDBLOCK", "INTER", "PACKET"},
              Blocking <- {TRUE, FALSE}, Signals <- 1

Echo == INSTANCE EchoTest WITH Clients <- 2, Requests <- 3

\* Slices of one object and of two, a ring that meddling wraps, and a round
\* that is out of range.
Bag == INSTANCE BagTest WITH
           WriteObjects <- 3, StackSize <- 1, RecordLength <- 2, MaxThreads <- 2, Rounds <- 2,
           Schedule <- {<<2, 1, 0>>, <<1, 1, 1>>, <<1, 1, 4>>}

\* A message more than there are buffers.
Log == INSTANCE TestLog WITH Buffers <- {b1, b2}, Lines <- 1 .. 3, Tests <- 2

ASSUME Stream!StreamAssumption /\ Echo!EchoAssumption
ASSUME Bag!BagTestAssumption /\ Log!TestLogAssumption

-----------------------------------------------------------------------------
streamVars == <<pipe, got, io, offset, setting, signals>>
echoVars == <<type, srv, sthr, main, net, missed>>
bagVars == <<kind, size, bag, object, objlist, thr, signal, counts, mainAt, left>>
logVars == <<queue, list, sink, slept, logger, run, keep, shown>>
mcVars == <<part, timeVars, streamVars, echoVars, bagVars, logVars>>

\* A part whose behaviour this is not has one initial state.
MCInit ==
    /\ part \in {"time", "stream", "echo", "bag", "log"}
    /\ TimeInit /\ Stream!Init /\ Echo!Init /\ Bag!Init /\ Log!Init
    /\ part # "stream" => \A e \in Stream!Ends : setting[e] = [ignore |-> {}, blocking |-> TRUE]
    /\ part # "echo" => type = "STREAM"
    /\ part # "bag" => kind = "stack"

OfTime == part = "time" /\ UNCHANGED <<part, streamVars, echoVars, bagVars, logVars>>
OfStream == part = "stream" /\ UNCHANGED <<part, timeVars, echoVars, bagVars, logVars>>
OfEcho == part = "echo" /\ UNCHANGED <<part, timeVars, streamVars, bagVars, logVars>>
OfBag == part = "bag" /\ UNCHANGED <<part, timeVars, streamVars, echoVars, logVars>>
OfLog == part = "log" /\ UNCHANGED <<part, timeVars, streamVars, echoVars, bagVars>>

MCNext ==
    \/ OfTime /\ TimeNext
    \/ OfStream /\ Stream!Next
    \/ OfEcho /\ Echo!Next
    \/ OfBag /\ Bag!Next
    \/ OfLog /\ Log!Next

\* The fairness of the five modules.  Only actions of one part are ever enabled
\* in a behaviour, so the weak fairness of a disjunction of one action from each
\* part is the weak fairness of all of them.
Runs ==
    \/ (OfTime /\ Tick)
    \/ (OfStream /\ Stream!Send)
    \/ (OfEcho /\ Echo!Server)
    \/ (OfBag /\ Bag!Main)
    \/ (OfLog /\ Log!Logger)
Answers ==
    \/ (OfTime /\ Elapse)
    \/ (OfStream /\ Stream!Recv)
    \/ (OfEcho /\ Echo!Main)
    \/ (OfBag /\ Bag!Thread(<<"R", 1>>))
    \/ (OfLog /\ Log!Run)
GoesOn ==
    \/ (OfTime /\ (StopFlag \/ StopRead \/ StopJoin \/ StopFree))
    \/ (OfStream /\ Stream!Call("send"))
    \/ (OfBag /\ Bag!Thread(<<"R", 2>>))
CallsAgain ==
    \/ (OfStream /\ Stream!Call("recv"))
    \/ (OfBag /\ Bag!Thread(<<"W", 1>>))

MCFairness ==
    /\ WF_mcVars(Runs) /\ WF_mcVars(Answers) /\ WF_mcVars(GoesOn) /\ WF_mcVars(CallsAgain)
    /\ \A t \in {<<"W", 2>>, <<"M", 1>>, <<"M", 2>>} : WF_mcVars(OfBag /\ Bag!Thread(t))

MCSpec == MCInit /\ [][MCNext]_mcVars /\ MCFairness

\* AmStream's properties: amskt_send and amskt_recv keep the stream, and end.
StreamKept ==
    /\ [](part = "stream" => Stream!StreamSound)
    /\ part = "stream" => Stream!StreamEnds
\* EchoTest's properties: the servers and clients of testlib_fdoper.c hear their
\* own messages, and end.
EchoKept ==
    /\ [](part = "echo" => Echo!EchoFaithful)
    /\ part = "echo" => Echo!EchoEnds
\* BagTest's properties: the rounds of the container tests find nothing wrong
\* (the writers', readers' and meddlers' loops of testlib_stack.c), and end.
RoundsKept ==
    /\ [](part = "bag" => Bag!VerdictGood)
    /\ part = "bag" => Bag!RunEnds
\* TestLog's properties: _test_flush_logger (test_base.h) has the list of lines to
\* itself, but for one late poll, and run_tests ends.
LogKept ==
    /\ [](part = "log" => Log!FlushAlone)
    /\ part = "log" => Log!TestSetEnds
=============================================================================
