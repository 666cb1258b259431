------------------------------- MODULE AmStream -------------------------------
(***************************************************************************)
(* amskt_send and amskt_recv of src/src/libam_fdopers.c, at the two ends   *)
(* of a connection.  Either call moves bytes in chunks of the kernel's     *)
(* choice, and an ignore argument says which interruptions it overlooks.   *)
(* The two programs here call again for what a call left undone.           *)
(***************************************************************************)
EXTENDS Integers, Sequences

CONSTANTS Length,   \* the bytes to be sent, which are 1 .. Length
          Room,     \* the bytes the kernel holds
          Ignores,  \* the ignore arguments in use
          Blocking, \* the settings of amskt_set_blocking in use
          Signals   \* bound: the signals that interrupt a call

StreamAssumption ==
    /\ Length \in Nat /\ Room \in Nat \ {0} /\ Signals \in Nat
    /\ \A i \in Ignores : i \subseteq {"WOULDBLOCK", "INTER", "PACKET"}
    /\ Blocking \subseteq BOOLEAN

Ends == {"send", "recv"}

VARIABLES pipe,    \* the bytes the kernel holds
          got,     \* the receiver's buffer
          io,      \* of each end: in a call or not, and its length, remaining, buf
          offset,  \* of each end: the bytes moved, by the returns of its calls
          setting, \* of each end: ignore and blocking
          signals  \* signals that may still come

streamVars == <<pipe, got, io, offset, setting, signals>>

Init ==
    /\ pipe = <<>>
    /\ got = [i \in 1 .. Length |-> 0]
    /\ io = [e \in Ends |-> [at |-> "out", length |-> 0, remaining |-> 0, buf |-> 1]]
    /\ offset = [e \in Ends |-> 0]
    /\ setting \in [Ends -> [ignore : Ignores, blocking : Blocking]]
    /\ signals = Signals

\* Each end calls with the rest of its buffer.
Call(e) ==
    /\ io[e].at = "out" /\ offset[e] < Length
    /\ io' = [io EXCEPT ![e] = [at |-> "in", length |-> Length - offset[e],
                                remaining |-> Length - offset[e], buf |-> offset[e] + 1]]
    /\ UNCHANGED <<pipe, got, offset, setting, signals>>

\* Slip: the call returns what is left.
ReturnLeft(e, remaining) ==
    /\ io' = [io EXCEPT ![e].at = "out"]
    /\ offset' = [offset EXCEPT ![e] = @ + remaining]

\* The call returns length - remaining.
Return(e, remaining) ==
    /\ io' = [io EXCEPT ![e].at = "out"]
    /\ offset' = [offset EXCEPT ![e] = @ + io[e].length - remaining]

\* n bytes were moved: the call goes on if it ignores the bounds of packets.
Moved(e, n) ==
    LET remaining == io[e].remaining - n
    IN  IF remaining = 0 \/ "PACKET" \notin setting[e].ignore THEN Return(e, remaining)
        ELSE /\ io' = [io EXCEPT ![e].remaining = remaining, ![e].buf = @ + n]
             /\ UNCHANGED offset

Send == \E n \in 1 .. io["send"].remaining :
    /\ io["send"].at = "in" /\ Len(pipe) + n <= Room
    /\ pipe' = pipe \o [i \in 1 .. n |-> io["send"].buf + i - 1]
    /\ Moved("send", n)
    /\ UNCHANGED <<got, setting, signals>>

Recv == \E n \in 1 .. io["recv"].remaining :
    /\ io["recv"].at = "in" /\ n <= Len(pipe)
    /\ got' = [i \in 1 .. Length |-> LET k == i - io["recv"].buf + 1
                                     IN  IF k \in 1 .. n THEN pipe[k] ELSE got[i]]
    /\ pipe' = SubSeq(pipe, n + 1, Len(pipe))
    /\ Moved("recv", n)
    /\ UNCHANGED <<setting, signals>>

\* An error that is not ignored ends the call.
Fails(e) == /\ Return(e, io[e].remaining)
            /\ UNCHANGED <<pipe, got, setting>>

WouldBlock(e) == IF e = "send" THEN Len(pipe) = Room ELSE pipe = <<>>

\* EWOULDBLOCK, which a call that ignores it tries again.
Refused(e) ==
    /\ io[e].at = "in" /\ ~setting[e].blocking /\ WouldBlock(e)
    /\ "WOULDBLOCK" \notin setting[e].ignore
    /\ Fails(e)
    /\ UNCHANGED signals

\* EINTR, which comes to a call that waits.
Interrupted(e) ==
    /\ io[e].at = "in" /\ setting[e].blocking /\ WouldBlock(e) /\ signals > 0
    /\ signals' = signals - 1
    /\ \/ "INTER" \notin setting[e].ignore /\ Fails(e)
       \/ "INTER" \in setting[e].ignore /\ UNCHANGED <<pipe, got, io, offset, setting>>

Next == Send \/ Recv \/ \E e \in Ends : Call(e) \/ Refused(e) \/ Interrupted(e)

\* Both programs go on.
StreamFairness == /\ WF_streamVars(Send) /\ WF_streamVars(Recv)
                  /\ \A e \in Ends : WF_streamVars(Call(e))

Spec == Init /\ [][Next]_streamVars /\ StreamFairness

-----------------------------------------------------------------------------
(* Properties *)

\* The bytes an end has moved, as a program that saw its call return knows them.
Settled(e) == offset[e] + IF io[e].at = "in" THEN io[e].length - io[e].remaining ELSE 0

\* However the calls were cut into chunks and interrupted, and called again from
\* where their counts say they stopped, the bytes sent are those received and
\* those on their way, in order and once.
BytesInOrder ==
    /\ Settled("send") = Settled("recv") + Len(pipe)
    /\ \A i \in 1 .. Settled("recv") : got[i] = i
    /\ \A i \in 1 .. Len(pipe) : pipe[i] = Settled("recv") + i

\* A call that ignores everything moves all it was asked to, as the header says
\* of every call.
IgnoresAll(e) == setting[e].ignore = {"WOULDBLOCK", "INTER", "PACKET"}
ExactLength == \A e \in Ends :
    IgnoresAll(e) /\ io[e].at = "out" => offset[e] \in {0, Length}

StreamSound == BytesInOrder /\ ExactLength

\* All bytes arrive.
StreamEnds == <>(offset = [e \in Ends |-> Length])
=============================================================================
