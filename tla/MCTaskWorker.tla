----------------------------- MODULE MCTaskWorker -----------------------------
(* TLC instances of TaskWorker: a job with one retry and one with none. *)
EXTENDS TaskWorker

CONSTANTS j1, j2

MCJobs == {j1, j2}
MCMaxRetries == (j1 :> 1) @@ (j2 :> 0)
MCUnregistered == {j2}
=============================================================================
