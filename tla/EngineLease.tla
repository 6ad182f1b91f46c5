---------------------------- MODULE EngineLease ----------------------------
(***************************************************************************)
(* What the registry promises about the engine of one model.  It is loaded *)
(* once and given to users only when it is ready; it is unloaded when      *)
(* nobody uses it, or, after a drain that was given up, under users who    *)
(* then have lost it.  The user who was waited for starts the unload by    *)
(* leaving.  An unload may be interrupted, also at the moment a user       *)
(* leaves, and then leaves the engine ready.                               *)
(***************************************************************************)
CONSTANT Users

VARIABLES state,  \* of the engine
          users,  \* who is inside a context of the model
          lost    \* users whose engine was unloaded

lvars == <<state, users, lost>>

LInit == state = "none" /\ users = {} /\ lost = {}

Become(s) == state' = s /\ UNCHANGED <<users, lost>>

Load == state = "none" /\ Become("loading")
FinishLoad == state = "loading" /\ Become("ready")
FailLoad == state = "loading" /\ Become("none")

\* A user who finds the engine ready, or has just loaded it.
Lease(u) ==
  /\ state \in {"loading", "ready"} /\ u \notin users
  /\ state' = "ready" /\ users' = users \cup {u}
  /\ UNCHANGED lost

StartUnload ==
  state = "ready" /\ Become(IF users = {} THEN "closing" ELSE "draining")
GiveUp == state = "draining" /\ Become("forced")
Interrupted == state \in {"draining", "forced", "closing"} /\ Become("ready")

Unload ==
  /\ state \in {"closing", "forced"}
  /\ state' = "none" /\ lost' = lost \cup users
  /\ UNCHANGED users

Return(u) ==
  /\ u \in users
  /\ users' = users \ {u} /\ lost' = lost \ {u}
  /\ \/ state' = IF state = "draining" /\ users = {u} THEN "closing" ELSE state
     \/ state \in {"draining", "forced"} /\ state' = "ready"

LNext ==
  \/ Load \/ FinishLoad \/ FailLoad
  \/ StartUnload \/ GiveUp \/ Interrupted \/ Unload
  \/ \E u \in Users : Lease(u) \/ Return(u)

LSpec == LInit /\ [][LNext]_lvars
=============================================================================
