----------------------------- MODULE MCRedisQueue -----------------------------
(* TLC instances of RedisQueue. *)
EXTENDS RedisQueue

CONSTANTS j1, j2, c1, c2

MCJobs == {j1, j2}
MCMaxRetries == (j1 :> 1) @@ (j2 :> 0)
OneJob == {j1}
OneJobRetries == j1 :> 1
MCCallers == {c1, c2}
CallerSymmetry == Permutations(MCCallers)
=============================================================================
