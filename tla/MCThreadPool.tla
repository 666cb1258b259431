---------------------------- MODULE MCThreadPool ----------------------------
(* A small instance of ThreadPool for TLC. *)
EXTENDS ThreadPool, TLC

CONSTANTS c1, c2, k1, k2

MCClients == {c1, c2}
MCTasks == {k1, k2}
Alike == Permutations(MCClients) \cup Permutations(MCTasks)
=============================================================================
