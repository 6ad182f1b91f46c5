------------------------------ MODULE Permits ------------------------------
(***************************************************************************)
(* What a resizable counting semaphore promises the jobs that use it.  A   *)
(* job asks once, is given a permit only while fewer than capacity permits *)
(* are out, and gives it back once.  Shrinking the capacity revokes        *)
(* nothing: the permits already out drain.                                 *)
(***************************************************************************)
EXTENDS Integers, FiniteSets

CONSTANTS Tasks,      \* the jobs that may ask for a permit
          Capacities  \* the values a caller may pass as a capacity

VARIABLES capacity,   \* permits that may be out
          asked,      \* tasks that have asked and were not served yet
          holders,    \* tasks that hold a permit
          finished    \* tasks that gave their permit back or gave up

pvars == <<capacity, asked, holders, finished>>

PInit ==
  /\ capacity \in Nat \ {0}
  /\ asked = {}
  /\ holders = {}
  /\ finished = {}

Known == asked \cup holders \cup finished

Ask(t) ==
  /\ t \notin Known
  /\ asked' = asked \cup {t}
  /\ UNCHANGED <<capacity, holders, finished>>

\* A task is served straight away, or after having asked.
Take(t) ==
  /\ t \notin holders \cup finished
  /\ Cardinality(holders) < capacity
  /\ holders' = holders \cup {t}
  /\ asked' = asked \ {t}
  /\ UNCHANGED <<capacity, finished>>

Give(t) ==
  /\ t \in holders
  /\ holders' = holders \ {t}
  /\ finished' = finished \cup {t}
  /\ UNCHANGED <<capacity, asked>>

GiveUp(t) ==
  /\ t \in asked
  /\ asked' = asked \ {t}
  /\ finished' = finished \cup {t}
  /\ UNCHANGED <<capacity, holders>>

Resize(c) ==
  /\ c > 0
  /\ capacity' = c
  /\ UNCHANGED <<asked, holders, finished>>

PNext ==
  \/ \E t \in Tasks : Ask(t) \/ Take(t) \/ Give(t) \/ GiveUp(t)
  \/ \E c \in Capacities : Resize(c)

PSpec == PInit /\ [][PNext]_pvars
=============================================================================
