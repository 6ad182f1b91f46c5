----------------------- MODULE DynamicSemaphoreProofs -----------------------
(***************************************************************************)
(* The safety of DynamicSemaphore and its refinement of Permits, for every *)
(* finite set of jobs and every set of capacities.  The conjunction of the *)
(* type, the count and the wake-up invariant is inductive as it stands:    *)
(* the wake-up of a waiter needs the count, and the count the type.        *)
(***************************************************************************)
EXTENDS DynamicSemaphore, FiniteSetTheorems, TLAPS

IInv == TypeOK /\ PermitsMatchHolders /\ NoLostWakeup

\* The set of holders is finite and its size is a natural number.
LEMMA HoldersFinite == IsFiniteSet(Holders) /\ Cardinality(Holders) \in Nat
<1>1. Holders \subseteq Tasks
  BY DEF Holders
<1> QED
  BY <1>1, SemaphoreAssumption, FS_Subset, FS_CardinalityType

\* A job that becomes a holder raises the number of holders by one.
LEMMA OneMoreHolder ==
  ASSUME NEW t \in Tasks, Holders' = Holders \cup {t}, t \notin Holders
  PROVE  Cardinality(Holders') = Cardinality(Holders) + 1
BY HoldersFinite, FS_AddElement

\* A job that gives its permit back lowers the number of holders by one.
LEMMA OneHolderLess ==
  ASSUME NEW t \in Tasks, Holders' = Holders \ {t}, t \in Holders
  PROVE  Cardinality(Holders') = Cardinality(Holders) - 1
BY HoldersFinite, FS_RemoveElement

\* No job holds a permit at first.
LEMMA InitIInv == Init => IInv
<1> SUFFICES ASSUME Init PROVE IInv
  OBVIOUS
<1> USE SemaphoreAssumption DEF Init
<1>1. TypeOK
  BY DEF TypeOK, Stages
<1>2. PermitsMatchHolders
  <2>1. Holders = {}
    BY DEF Holders
  <2> QED
    BY <2>1, FS_EmptySet DEF PermitsMatchHolders
<1>3. NoLostWakeup
  BY DEF NoLostWakeup
<1> QED
  BY <1>1, <1>2, <1>3 DEF IInv

\* Every step keeps the three invariants.
LEMMA NextIInv == IInv /\ [Next]_vars => IInv'
<1> SUFFICES ASSUME IInv, [Next]_vars PROVE IInv'
  OBVIOUS
<1> USE SemaphoreAssumption DEF IInv, TypeOK
<1>1. ASSUME NEW t \in Tasks, Grant(t) PROVE IInv'
  <2> USE <1>1 DEF Grant
  <2>1. TypeOK'
    BY DEF Stages
  <2>2. Holders' = Holders \cup {t} /\ t \notin Holders
    BY DEF Holders
  <2>3. PermitsMatchHolders'
    BY <2>2, OneMoreHolder DEF PermitsMatchHolders
  <2>4. NoLostWakeup'
    BY DEF NoLostWakeup, Free
  <2> QED
    BY <2>1, <2>3, <2>4
<1>2. ASSUME NEW t \in Tasks, Block(t) PROVE IInv'
  <2> USE <1>2 DEF Block
  <2>1. TypeOK'
    BY DEF Stages
  <2>2. Holders' = Holders
    BY DEF Holders
  <2>3. PermitsMatchHolders'
    BY <2>2 DEF PermitsMatchHolders
  <2>4. NoLostWakeup'
    BY DEF NoLostWakeup, Free
  <2> QED
    BY <2>1, <2>3, <2>4
<1>3. ASSUME NEW t \in Tasks, Cancel(t) PROVE IInv'
  <2> USE <1>3 DEF Cancel
  <2>1. TypeOK'
    BY DEF Stages
  <2>2. Holders' = Holders
    BY DEF Holders
  <2>3. PermitsMatchHolders'
    BY <2>2 DEF PermitsMatchHolders
  <2>4. NoLostWakeup'
    BY DEF NoLostWakeup, Free
  <2> QED
    BY <2>1, <2>3, <2>4
<1>4. ASSUME NEW t \in Tasks, Release(t) PROVE IInv'
  <2> USE <1>4 DEF Release, NotifyAll
  <2>1. TypeOK'
    BY DEF Stages
  <2>2. Holders' = Holders \ {t} /\ t \in Holders
    BY DEF Holders
  <2>3. acquired > 0
    BY <2>2, HoldersFinite, FS_EmptySet DEF PermitsMatchHolders
  <2>4. PermitsMatchHolders'
    BY <2>2, <2>3, OneHolderLess DEF PermitsMatchHolders
  <2>5. NoLostWakeup'
    BY DEF NoLostWakeup
  <2> QED
    BY <2>1, <2>4, <2>5
<1>5. ASSUME NEW c \in Capacities, SetCapacity(c) PROVE IInv'
  <2> USE <1>5 DEF SetCapacity
  <2>1. TypeOK'
    OBVIOUS
  <2>2. Holders' = Holders
    BY DEF Holders
  <2>3. PermitsMatchHolders'
    BY <2>2 DEF PermitsMatchHolders
  <2>4. NoLostWakeup'
    BY DEF NoLostWakeup
  <2> QED
    BY <2>1, <2>3, <2>4
<1>6. CASE Notify
  <2> USE <1>6 DEF Notify, NotifyAll
  <2>1. TypeOK'
    BY DEF Stages
  <2>2. Holders' = Holders
    BY DEF Holders
  <2>3. PermitsMatchHolders'
    BY <2>2 DEF PermitsMatchHolders
  <2>4. NoLostWakeup'
    BY DEF NoLostWakeup
  <2> QED
    BY <2>1, <2>3, <2>4
<1>7. CASE UNCHANGED vars
  BY <1>7 DEF vars, PermitsMatchHolders, Holders, NoLostWakeup, Free
<1> QED
  BY <1>1, <1>2, <1>3, <1>4, <1>5, <1>6, <1>7 DEF Next

(* The inductive invariant holds in every reachable state.                 *)
THEOREM Invariance == Spec => []IInv
BY InitIInv, NextIInv, PTL DEF Spec

(* The capacity stays positive whatever set_capacity is called with, and   *)
(* the counter never goes below zero.                                      *)
THEOREM SemaphoreTyped == Spec => []TypeOK
BY Invariance, PTL DEF IInv

(* _acquired is the number of jobs inside "async with semaphore".          *)
THEOREM PermitsNeverLeak == Spec => []PermitsMatchHolders
BY Invariance, PTL DEF IInv

(* No job sleeps in cond.wait() beside a free permit.                      *)
THEOREM WakeupsNeverLost == Spec => []NoLostWakeup
BY Invariance, PTL DEF IInv

-----------------------------------------------------------------------------
(* The refinement of Permits.                                              *)
Asked == {t \in Tasks : stage[t] \in {"waiting", "woken"}}
Finished == {t \in Tasks : stage[t] \in {"done", "cancelled"}}

\* Permits counts its holders as this module does.
LEMMA SameCardinality ==
  ASSUME NEW S PROVE Promise!Cardinality(S) = Cardinality(S)
BY DEF Promise!Cardinality, Cardinality, Promise!IsFiniteSet, IsFiniteSet

\* The mapped initial state is an initial state of Permits.
LEMMA InitPromise == Init => Promise!PInit
BY SemaphoreAssumption DEF Init, Promise!PInit, Holders

\* Every step of the semaphore is a step of Permits or leaves it unchanged.
LEMMA StepPromise == IInv /\ [Next]_vars => [Promise!PNext]_(Promise!pvars)
<1> SUFFICES ASSUME IInv, [Next]_vars
             PROVE  Promise!PNext \/ UNCHANGED Promise!pvars
  OBVIOUS
<1> USE DEF IInv, TypeOK
<1>1. ASSUME NEW t \in Tasks, Grant(t) PROVE Promise!Take(t)
  <2> USE <1>1 DEF Grant
  <2>1. t \notin Holders \cup Finished /\ Holders' = Holders \cup {t}
    BY DEF Holders, Finished
  <2>2. Asked' = Asked \ {t} /\ Finished' = Finished
    BY DEF Asked, Finished
  <2>3. Cardinality(Holders) < capacity
    BY DEF PermitsMatchHolders, Free
  <2> QED
    BY <2>1, <2>2, <2>3, SameCardinality DEF Promise!Take, Asked, Finished
<1>2. ASSUME NEW t \in Tasks, Block(t)
      PROVE  Promise!Ask(t) \/ UNCHANGED Promise!pvars
  <2> USE <1>2 DEF Block
  <2>1. Holders' = Holders /\ Finished' = Finished
    BY DEF Holders, Finished
  <2>2. CASE stage[t] = "new"
    <3>1. Asked' = Asked \cup {t} /\ t \notin Asked \cup Holders \cup Finished
      BY <2>2 DEF Asked, Holders, Finished
    <3> QED
      BY <2>1, <3>1 DEF Promise!Ask, Promise!Known, Asked, Finished
  <2>3. CASE stage[t] = "woken"
    <3>1. Asked' = Asked
      BY <2>3 DEF Asked
    <3> QED
      BY <2>1, <3>1 DEF Promise!pvars, Asked, Finished
  <2> QED
    BY <2>2, <2>3
<1>3. ASSUME NEW t \in Tasks, Cancel(t) PROVE Promise!GiveUp(t)
  <2> USE <1>3 DEF Cancel
  <2>1. Holders' = Holders /\ Finished' = Finished \cup {t}
    BY DEF Holders, Finished
  <2>2. Asked' = Asked \ {t} /\ t \in Asked
    BY DEF Asked
  <2> QED
    BY <2>1, <2>2 DEF Promise!GiveUp, Asked, Finished
<1>4. ASSUME NEW t \in Tasks, Release(t) PROVE Promise!Give(t)
  <2> USE <1>4 DEF Release, NotifyAll
  <2>1. Holders' = Holders \ {t} /\ t \in Holders
    BY DEF Holders
  <2>2. Asked' = Asked /\ Finished' = Finished \cup {t}
    BY DEF Asked, Finished
  <2> QED
    BY <2>1, <2>2 DEF Promise!Give, Asked, Finished
<1>5. ASSUME NEW c \in Capacities, SetCapacity(c) PROVE Promise!Resize(c)
  BY <1>5 DEF SetCapacity, Promise!Resize, Holders
<1>6. CASE Notify
  <2> USE <1>6 DEF Notify, NotifyAll
  <2>1. Holders' = Holders /\ Asked' = Asked /\ Finished' = Finished
    BY DEF Holders, Asked, Finished
  <2> QED
    BY <2>1 DEF Promise!pvars, Asked, Finished
<1>7. CASE UNCHANGED vars
  BY <1>7 DEF vars, Promise!pvars, Holders
<1> QED
  BY <1>1, <1>2, <1>3, <1>4, <1>5, <1>6, <1>7 DEF Next, Promise!PNext

(* The semaphore keeps the promise of Permits: permits go out only below   *)
(* the capacity and a shrink revokes none.                                 *)
THEOREM SemaphoreImplementsPermits == Spec => PromiseKept
<1>1. Spec => []IInv
  BY Invariance
<1> QED
  BY <1>1, InitPromise, StepPromise, PTL DEF Spec, PromiseKept, Promise!PSpec
=============================================================================
