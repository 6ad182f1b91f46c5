-------------------------- MODULE MCWorkerProcess --------------------------
(***************************************************************************)
(* A worker that is asked for two transcriptions and told to sleep once.   *)
(***************************************************************************)
EXTENDS WorkerProcess, TLC
=============================================================================
