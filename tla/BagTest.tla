------------------------------- MODULE BagTest -------------------------------
(***************************************************************************)
(* The rounds the three container tests run: src/src/testlib_stack.c and   *)
(* its copies testlib_lstack.c and testlib_cqueue.c.  Writers put the      *)
(* objects of their slice in the container, meddlers take objects and put  *)
(* them back, readers take until their slice is full.  Every hand leaves   *)
(* its mark in a ring the object carries, and validate() reads the marks.  *)
(* The container is the bag AmBag promises; a refused call is repeated.    *)
(***************************************************************************)
EXTENDS Integers, FiniteSets, Functions

CONSTANTS WriteObjects, \* WRITE_OBJECTS
          StackSize,    \* STACK_SIZE, of the array stack's test
          RecordLength, \* RECORD_LENGTH
          MaxThreads,   \* MAX_THREADS, of each list
          Schedule,     \* the numbers of readers, writers and meddlers of the rounds
          Rounds,       \* bound: the rounds tried
          NULL

BagTestAssumption ==
    /\ {WriteObjects, StackSize, RecordLength, MaxThreads, Rounds} \subseteq Nat \ {0}
    /\ Schedule \subseteq Nat \X Nat \X Nat
    /\ NULL \notin Nat \cup {"R", "W", "M"}

Objects == 1 .. WriteObjects
Threads == {"R", "W", "M"} \X (1 .. MaxThreads)

VARIABLES kind,    \* the container under test
          size,    \* of each list: its threads in this round
          bag,     \* the objects in the container
          object,  \* of each object: object_id (0 once read), record_index and record
          objlist, \* of the writers and the readers: WriteObjects slots
          thr,     \* of each thread: where it is, ops_done and obj
          signal,  \* signal_go and signal_stop
          counts,  \* writes and reads, of the linked stack's test
          mainAt,  \* where run_single is
          left     \* the rounds not tried yet

bagTestVars == <<kind, size, bag, object, objlist, thr, signal, counts, mainAt, left>>

Idle == [at |-> "none", done |-> 0, obj |-> NULL]
Blank == [o \in Objects |-> [object_id |-> o, index |-> 0,
                             record |-> [i \in 0 .. RecordLength - 1 |-> NULL]]]

Init ==
    /\ kind \in {"stack", "lstack", "cqueue"}
    /\ size = [l \in {"R", "W", "M"} |-> 0]
    /\ bag = {}
    /\ object = Blank
    /\ objlist = [l \in {"R", "W"} |-> [i \in Objects |-> NULL]]
    /\ thr = [t \in Threads |-> Idle]
    /\ signal = [go |-> FALSE, stop |-> FALSE]
    /\ counts = [writes |-> 0, reads |-> 0]
    /\ mainAt = "prep"
    /\ left = Rounds

\* The linked stack takes any number, and the queue is made to hold them all.
Fits == kind = "stack" => Cardinality(bag) < StackSize

\* prep_generic_tl: equal slices, and the last thread has what is left over.
PerThread(l) == WriteObjects \div size[l]
TargetCapacity(t) == IF t[2] < size[t[1]] THEN PerThread(t[1])
                     ELSE WriteObjects - PerThread(t[1]) * (size[t[1]] - 1)
Slot(t) == (t[2] - 1) * PerThread(t[1]) + thr[t].done + 1

Marked(o, t) == [o EXCEPT !.record[o.index] = t[1]]
MarkedNext(o, t) == [Marked(o, t) EXCEPT !.index = (o.index + 1) % RecordLength]

At(t, at) == thr[t].at = at
Goes(t, at) == thr' = [thr EXCEPT ![t].at = at]
Left(t) == thr' = [thr EXCEPT ![t] = [at |-> "exit", done |-> 0, obj |-> thr[t].obj]]

-----------------------------------------------------------------------------
(* The threads *)

SeeGo(t) ==
    /\ At(t, "start") /\ signal.go
    /\ Goes(t, "loop")
    /\ UNCHANGED <<kind, size, bag, object, objlist, signal, counts, mainAt, left>>

Finish(t) ==
    /\ t[1] # "M" /\ At(t, "loop") /\ thr[t].done = TargetCapacity(t)
    /\ Left(t)
    /\ UNCHANGED <<kind, size, bag, object, objlist, signal, counts, mainAt, left>>

ReaderPop(t) == \E o \in bag :
    /\ t[1] = "R" /\ At(t, "loop") /\ thr[t].done < TargetCapacity(t)
    /\ bag' = bag \ {o}
    /\ thr' = [thr EXCEPT ![t].at = "note", ![t].obj = o]
    /\ UNCHANGED <<kind, size, object, objlist, signal, counts, mainAt, left>>

ReaderNote(t) ==
    /\ At(t, "note")
    /\ object' = [object EXCEPT ![thr[t].obj] = Marked(@, t)]
    /\ objlist' = [objlist EXCEPT !["R"][Slot(t)] = thr[t].obj]
    /\ thr' = [thr EXCEPT ![t] = [at |-> "loop", done |-> @.done + 1, obj |-> NULL]]
    /\ counts' = IF kind = "lstack" THEN [counts EXCEPT !.reads = @ + 1] ELSE counts
    /\ UNCHANGED <<kind, size, bag, signal, mainAt, left>>

WriterNote(t) ==
    /\ t[1] = "W" /\ At(t, "loop") /\ thr[t].done < TargetCapacity(t)
    /\ LET o == objlist["W"][Slot(t)]
       IN  /\ objlist' = [objlist EXCEPT !["W"][Slot(t)] = NULL]
           /\ object' = [object EXCEPT ![o] = MarkedNext(@, t)]
           /\ thr' = [thr EXCEPT ![t].at = "put", ![t].obj = o]
    /\ UNCHANGED <<kind, size, bag, signal, counts, mainAt, left>>

WriterPush(t) ==
    /\ At(t, "put") /\ Fits
    /\ bag' = bag \cup {thr[t].obj}
    /\ thr' = [thr EXCEPT ![t] = [at |-> "loop", done |-> @.done + 1, obj |-> NULL]]
    /\ counts' = IF kind = "lstack" THEN [counts EXCEPT !.writes = @ + 1] ELSE counts
    /\ UNCHANGED <<kind, size, object, objlist, signal, mainAt, left>>

MeddlerLook(t) ==
    /\ t[1] = "M" /\ At(t, "loop")
    /\ IF signal.stop THEN Left(t) ELSE Goes(t, "pop")
    /\ UNCHANGED <<kind, size, bag, object, objlist, signal, counts, mainAt, left>>

MeddlerPop(t) == \E o \in bag :
    /\ At(t, "pop")
    /\ bag' = bag \ {o}
    /\ thr' = [thr EXCEPT ![t].at = "got", ![t].obj = o]
    /\ UNCHANGED <<kind, size, object, objlist, signal, counts, mainAt, left>>

\* Slip: the retry of an empty container does not look at signal_stop.
MeddlerEmptyDeaf(t) ==
    /\ At(t, "pop") /\ bag = {} /\ signal.stop /\ Goes(t, "pop")
    /\ UNCHANGED <<kind, size, bag, object, objlist, signal, counts, mainAt, left>>

MeddlerEmpty(t) ==
    /\ At(t, "pop") /\ bag = {} /\ signal.stop
    /\ Left(t)
    /\ UNCHANGED <<kind, size, bag, object, objlist, signal, counts, mainAt, left>>

\* A meddler that sees the signal here leaves with the object it took.
MeddlerNote(t) ==
    /\ At(t, "got")
    /\ IF signal.stop
       THEN Left(t) /\ UNCHANGED object
       ELSE /\ object' = [object EXCEPT ![thr[t].obj] = MarkedNext(@, t)]
            /\ Goes(t, "put back")
    /\ UNCHANGED <<kind, size, bag, objlist, signal, counts, mainAt, left>>

\* "ERROR: Meddler thread caught with object": it too leaves with it.
MeddlerCheck(t) ==
    /\ At(t, "put back")
    /\ IF signal.stop THEN Left(t) ELSE Goes(t, "push")
    /\ UNCHANGED <<kind, size, bag, object, objlist, signal, counts, mainAt, left>>

MeddlerPush(t) ==
    /\ At(t, "push")
    /\ IF Fits THEN /\ bag' = bag \cup {thr[t].obj}
                    /\ thr' = [thr EXCEPT ![t] = [Idle EXCEPT !.at = "loop"]]
               ELSE Goes(t, "put back") /\ UNCHANGED bag
    /\ UNCHANGED <<kind, size, object, objlist, signal, counts, mainAt, left>>

Thread(t) ==
    \/ SeeGo(t) \/ Finish(t) \/ ReaderPop(t) \/ ReaderNote(t) \/ WriterNote(t) \/ WriterPush(t)
    \/ MeddlerLook(t) \/ MeddlerPop(t) \/ MeddlerEmpty(t) \/ MeddlerNote(t) \/ MeddlerCheck(t)
    \/ MeddlerPush(t)

-----------------------------------------------------------------------------
(* run_single and validate, on the main thread *)

MainAt(at, next) == mainAt = at /\ mainAt' = next
Exited(l) == \A i \in 1 .. size[l] : At(<<l, i>>, "exit")

InRange(round) ==
    /\ {round[1], round[2]} \subseteq 1 .. MaxThreads
    /\ round[3] \in 0 .. MaxThreads

\* Any round of those run_readers, run_writers and run_meddlers go through.
Prepare == \E round \in Schedule :
    /\ left > 0 /\ InRange(round)
    /\ MainAt("prep", "started")
    /\ left' = left - 1
    /\ size' = [R |-> round[1], W |-> round[2], M |-> round[3]]
    /\ object' = Blank
    /\ objlist' = [W |-> [i \in Objects |-> i], R |-> [i \in Objects |-> NULL]]
    /\ thr' = [t \in Threads |-> IF t[2] <= size'[t[1]] THEN [Idle EXCEPT !.at = "start"] ELSE Idle]
    /\ signal' = [go |-> FALSE, stop |-> FALSE]
    /\ UNCHANGED <<kind, bag, counts>>

\* A round out of range ends run_readers: the results are joined by ||, so none
\* of its rounds after an error is run.  main calls it again all the same.
Refuse == \E round \in Schedule :
    /\ left > 0 /\ ~InRange(round)
    /\ MainAt("prep", IF left > 1 THEN "prep" ELSE "ended")
    /\ left' = left - 1
    /\ UNCHANGED <<kind, size, bag, object, objlist, thr, signal, counts>>

SignalGo ==
    /\ MainAt("started", "join writers")
    /\ signal' = [signal EXCEPT !.go = TRUE]
    /\ UNCHANGED <<kind, size, bag, object, objlist, thr, counts, left>>

JoinWriters ==
    /\ Exited("W")
    /\ MainAt("join writers", "join readers")
    /\ UNCHANGED <<kind, size, bag, object, objlist, thr, signal, counts, left>>

SignalStop ==
    /\ Exited("R")
    /\ MainAt("join readers", "join meddlers")
    /\ signal' = [signal EXCEPT !.stop = TRUE]
    /\ UNCHANGED <<kind, size, bag, object, objlist, thr, counts, left>>

JoinMeddlers ==
    /\ Exited("M")
    /\ MainAt("join meddlers", "validate")
    /\ signal' = [go |-> FALSE, stop |-> FALSE]
    /\ UNCHANGED <<kind, size, bag, object, objlist, thr, counts, left>>

Marks(o, l) == Cardinality({i \in DOMAIN object[o].record : object[o].record[i] = l})

Validated ==
    /\ \A i \in Objects : objlist["W"][i] = NULL /\ objlist["R"][i] # NULL
    /\ IsInjective(objlist["R"])
    /\ \A o \in Objects : Marks(o, "W") <= 1 /\ Marks(o, "R") = 1

\* print_all_objects: a writer's mark is missing only where marks of the others
\* have filled the ring.
Explained(o) == Marks(o, "W") = 1 \/ Marks(o, "R") + Marks(o, "M") = RecordLength

Counted == counts = [writes |-> WriteObjects, reads |-> WriteObjects]

\* A condition that does not hold aborts, or makes the round an error.
Validate ==
    /\ mainAt = "validate"
    /\ mainAt' = IF Validated /\ (kind = "lstack" => Counted /\ \A o \in Objects : Explained(o))
                 THEN IF left > 0 THEN "prep" ELSE "ended"
                 ELSE "failed"
    /\ object' = [o \in Objects |-> [object[o] EXCEPT !.object_id = 0]]
    /\ counts' = [writes |-> 0, reads |-> 0]
    /\ UNCHANGED <<kind, size, bag, objlist, thr, signal, left>>

Main == Prepare \/ Refuse \/ SignalGo \/ JoinWriters \/ SignalStop \/ JoinMeddlers \/ Validate

Next == Main \/ \E t \in Threads : Thread(t)

\* The threads and the main thread keep running, and a call the container can
\* serve is served in the end.
BagTestFairness == WF_bagTestVars(Main) /\ \A t \in Threads : WF_bagTestVars(Thread(t))

Spec == Init /\ [][Next]_bagTestVars /\ BagTestFairness

-----------------------------------------------------------------------------
\* Over a container that keeps what it is given, a round's verdict is good
\* (testlib_stack.c:406-470): every object has come to one reader's slot, the
\* ring of marks never contradicts it however the meddling wrapped it, the
\* container is empty for the next round, and no meddler is left with an
\* object (testlib_stack.c:162-171) when the signal to stop is given.
VerdictGood ==
    /\ mainAt # "failed"
    /\ mainAt \in {"validate", "prep", "ended"} => bag = {}
    /\ signal.stop => \A t \in Threads : thr[t].obj = NULL

\* A round without meddlers ends by itself, and one with them ends once the
\* meddlers are told to stop (testlib_stack.c:492-496).
RunEnds ==
    /\ (mainAt = "started" /\ size["M"] = 0) ~> mainAt = "validate"
    /\ signal.stop ~> ~signal.stop
=============================================================================
