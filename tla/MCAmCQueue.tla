----------------------------- MODULE MCAmCQueue ------------------------------
(* A small instance of AmCQueue for TLC. *)
EXTENDS AmCQueue

CONSTANTS t1, t2, t3, o1, o2

MCThreads == {t1, t2, t3}
MCObjects == {o1, o2}
=============================================================================
