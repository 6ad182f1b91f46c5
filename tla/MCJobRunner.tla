---------------------------- MODULE MCJobRunner ----------------------------
(***************************************************************************)
(* Two runs of up to two of three jobs, one of which has an engine that    *)
(* supports concurrency, with one or two slots.                            *)
(***************************************************************************)
EXTENDS JobRunner, TLC

CONSTANTS r1, r2, j1, j2, j3

MCRuns == {r1, r2}
MCJobs == {j1, j2, j3}
MCConcurrent == {j3}
MCCapacities == {0, 1, 2}
=============================================================================
