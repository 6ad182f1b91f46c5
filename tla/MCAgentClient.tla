--------------------------- MODULE MCAgentClient ---------------------------
(***************************************************************************)
(* One or two jobs, one or two slots, two messages on the wire each way.   *)
(***************************************************************************)
EXTENDS AgentClient, TLC

CONSTANTS j1, j2

MCOneJob == {j1}
MCJobs == {j1, j2}
MCLimits == {1, 2}
=============================================================================
