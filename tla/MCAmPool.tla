------------------------------- MODULE MCAmPool -------------------------------
(* A small instance of AmPool for TLC: two sizes share a bucket, and one is    *)
(* oversized.                                                                  *)
EXTENDS AmPool, TLC

CONSTANTS t1, t2, root, sub

MCThreads == {t1, t2}
MCPools == {root, sub}
MCParent == [p \in MCPools |-> IF p = sub THEN root ELSE NULL]
ThreadsAlike == Permutations(MCThreads)
=============================================================================
