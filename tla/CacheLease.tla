----------------------------- MODULE CacheLease -----------------------------
(***************************************************************************)
(* What an engine with a sleep mode promises about its KV cache, wherever  *)
(* it runs: the cache is there from the start, is offloaded only while     *)
(* nobody uses the engine, and whoever comes next has the engine woken up, *)
(* which may fail and is believed all the same.  An engine is closed once, *)
(* also under its users, and who comes then is not served.                 *)
(***************************************************************************)
CONSTANT Users

VARIABLES state,  \* "new", "awake", "asleep", "closed"
          users,  \* the calls in progress
          cache   \* is the cache allocated?

cvars == <<state, users, cache>>

CInit == state = "new" /\ users = {} /\ cache = FALSE

Open == state = "new" /\ state' = "awake" /\ cache' = TRUE /\ UNCHANGED users

Use(u) ==
  /\ state # "new" /\ u \notin users
  /\ users' = users \cup {u}
  /\ IF state = "asleep"
       THEN state' = "awake" /\ cache' \in BOOLEAN
       ELSE UNCHANGED <<state, cache>>

Done(u) == u \in users /\ users' = users \ {u} /\ UNCHANGED <<state, cache>>

Sleep ==
  /\ state = "awake" /\ users = {}
  /\ state' = "asleep" /\ cache' = FALSE
  /\ UNCHANGED users

Close ==
  /\ state # "closed"
  /\ state' = "closed" /\ cache' = FALSE
  /\ UNCHANGED users

CNext == Open \/ Sleep \/ Close \/ \E u \in Users : Use(u) \/ Done(u)

CSpec == CInit /\ [][CNext]_cvars
=============================================================================
