---------------------------- MODULE MCWorkerPool ----------------------------
(***************************************************************************)
(* Three calls on two GPUs: one call more than there are workers.          *)
(***************************************************************************)
EXTENDS WorkerPool, TLC

CONSTANTS c1, c2, c3, gpu0, gpu1

MCThreads == {c1, c2, c3}
MCWorkers == {gpu0, gpu1}
=============================================================================
