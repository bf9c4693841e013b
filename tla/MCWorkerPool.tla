---------------------------- MODULE MCWorkerPool ----------------------------
(* WorkerPool on a small instance: two tasks in the first stage and one in *)
(* the second, like gen; a task of the first stage pushes one more, which  *)
(* gen does not do but the pool allows.                                    *)
EXTENDS WorkerPool, TLC

CONSTANTS t1, t2, t3, t4

TwoStages == (t1 :> 1) @@ (t2 :> 1) @@ (t3 :> 2) @@ (t4 :> 0)
OneSpawns == (t1 :> {t4}) @@ (t2 :> {}) @@ (t3 :> {}) @@ (t4 :> {})
=============================================================================
