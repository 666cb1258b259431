------------------------------ MODULE MCAmStack ------------------------------
(* A small instance of AmStack for TLC. *)
EXTENDS AmStack

CONSTANTS t1, t2, t3, o1, o2, o3

MCThreads == {t1, t2, t3}
MCObjects == {o1, o2, o3}
=============================================================================
