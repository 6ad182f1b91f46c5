------------------------- MODULE MCDynamicSemaphore -------------------------
(***************************************************************************)
(* Four jobs on a semaphore that is resized between 1 and 3; 0 is the      *)
(* value set_capacity must ignore.                                         *)
(***************************************************************************)
EXTENDS DynamicSemaphore, TLC

CONSTANTS t1, t2, t3, t4

MCTasks == {t1, t2, t3, t4}
MCCapacities == {0, 1, 2, 3}
=============================================================================
