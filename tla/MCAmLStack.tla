----------------------------- MODULE MCAmLStack ------------------------------
(* A small instance of AmLStack for TLC. *)
EXTENDS AmLStack

CONSTANTS t1, t2, t3, n1, n2, n3

MCThreads == {t1, t2, t3}
MCNodes == {n1, n2, n3}
=============================================================================
