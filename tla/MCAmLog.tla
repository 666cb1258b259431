------------------------------- MODULE MCAmLog -------------------------------
(* Two producers, one direct sink, one queued sink of the program.  A message   *)
(* passes unless a level is lowered or a mask leaves its component out, and can *)
(* be impossible to format.                                                     *)
EXTENDS AmLog

CONSTANTS p1, p2, d1, a1, l1, l2, x1

MCProducers == {p1, p2}
MCDirectSinks == {d1}
MCAppSinks == {a1}
MCLines == [s \in {LogSink, a1} |-> IF s = LogSink THEN {l1} ELSE {x1}]
MCTwoLines == [s \in {LogSink, a1} |-> IF s = LogSink THEN {l1, l2} ELSE {x1}]
MCKinds == [p \in MCProducers |-> [level : {1}, mask : {{"net"}},
                                  bad : IF p = p1 THEN {FALSE} ELSE BOOLEAN]]
MCMessageLimit == [p \in MCProducers |-> IF p = p1 THEN 2 ELSE 1]
MCMasks == {{"disk"}}
=============================================================================
