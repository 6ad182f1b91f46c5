-------------------------- MODULE MCModelRegistry --------------------------
(***************************************************************************)
(* Two users and the message loop on two models, in two modes.  Two idle   *)
(* workers are enough: one asleep and one that has just cancelled itself.  *)
(***************************************************************************)
EXTENDS ModelRegistry, TLC

CONSTANTS u1, u2, w1, w2, asr, mt, cpu, gpu

MCUsers == {u1, u2}
MCOneUser == {u1}
MCWorkers == {w1, w2}
MCModels == {asr, mt}
MCOneModel == {asr}
MCModes == {cpu, gpu}
MCOneMode == {gpu}
Interchangeable ==
  Permutations(MCUsers) \cup Permutations(MCWorkers) \cup Permutations(MCModels)
    \cup Permutations(MCModes)
=============================================================================
