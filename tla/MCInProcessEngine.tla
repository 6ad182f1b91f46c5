------------------------- MODULE MCInProcessEngine -------------------------
(* Small instances of InProcessEngine. *)
EXTENDS InProcessEngine

CONSTANTS t1, t2, t3
TwoThreads == {t1, t2}
ThreeThreads == {t1, t2, t3}
=============================================================================
