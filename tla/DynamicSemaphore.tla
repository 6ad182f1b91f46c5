-------------------------- MODULE DynamicSemaphore --------------------------
(***************************************************************************)
(* scheduler/semaphore.py: the semaphore that bounds the jobs in           *)
(* _execute_job, with the wait set of its asyncio.Condition.               *)
(*                                                                         *)
(* The condition's lock is never held across a suspension: every critical  *)
(* section of the class is free of awaits but for cond.wait(), which gives *)
(* the lock back.  A step of the model is therefore the code a task runs   *)
(* between two suspensions.  The event loop may run a job that has just    *)
(* started before one that has just been notified, so nothing is assumed   *)
(* about who is served first.                                              *)
(***************************************************************************)
EXTENDS Integers, FiniteSets

CONSTANTS Tasks,            \* the jobs; each uses the semaphore once
          InitialCapacity,  \* DynamicSemaphore(initial_capacity)
          Capacities,       \* what set_capacity may be called with
          MaxNotifiers      \* bound: _notify() tasks pending at a time

ASSUME SemaphoreAssumption ==
  /\ IsFiniteSet(Tasks)
  /\ InitialCapacity \in Int
  /\ Capacities \subseteq Int
  /\ MaxNotifiers \in Nat

VARIABLES capacity,   \* _capacity
          acquired,   \* _acquired
          stage,      \* where each job is in "async with semaphore"
          notifiers   \* background _notify() tasks that have not run yet

vars == <<capacity, acquired, stage, notifiers>>

\* "waiting": suspended in cond.wait(); "woken": notified, not run again yet
Stages == {"new", "waiting", "woken", "holding", "done", "cancelled"}

TypeOK ==
  /\ capacity \in Nat \ {0}
  /\ acquired \in Nat
  /\ stage \in [Tasks -> Stages]
  /\ notifiers \in 0 .. MaxNotifiers

Init ==
  /\ capacity = IF InitialCapacity > 1 THEN InitialCapacity ELSE 1
  /\ acquired = 0
  /\ stage = [t \in Tasks |-> "new"]
  /\ notifiers = 0

\* Variant with a bug: one permit too many.
FreeOffByOne == acquired <= capacity

Free == acquired < capacity

\* Variant with a bug: notify() instead of notify_all().
NotifyOne(st) ==
  LET waiting == {t \in Tasks : st[t] = "waiting"}
  IN IF waiting = {} THEN st
                     ELSE [st EXCEPT ![CHOOSE t \in waiting : TRUE] = "woken"]

\* notify_all(): every suspended waiter becomes ready to run
NotifyAll(st) ==
  [t \in Tasks |-> IF st[t] = "waiting" THEN "woken" ELSE st[t]]

\* acquire(): the test of the while loop, on entry and after every wake-up
Grant(t) ==
  /\ stage[t] \in {"new", "woken"}
  /\ Free
  /\ acquired' = acquired + 1
  /\ stage' = [stage EXCEPT ![t] = "holding"]
  /\ UNCHANGED <<capacity, notifiers>>

Block(t) ==
  /\ stage[t] \in {"new", "woken"}
  /\ ~Free
  /\ stage' = [stage EXCEPT ![t] = "waiting"]
  /\ UNCHANGED <<capacity, acquired, notifiers>>

\* Variant with a bug: a cancelled waiter gives back what it never had.
CancelReturning(t) ==
  /\ stage[t] \in {"waiting", "woken"}
  /\ stage' = [stage EXCEPT ![t] = "cancelled"]
  /\ acquired' = IF acquired > 0 THEN acquired - 1 ELSE 0
  /\ UNCHANGED <<capacity, notifiers>>

\* The loop cancels every task when it is torn down: cond.wait() raises and
\* acquire() leaves without a permit.
Cancel(t) ==
  /\ stage[t] \in {"waiting", "woken"}
  /\ stage' = [stage EXCEPT ![t] = "cancelled"]
  /\ UNCHANGED <<capacity, acquired, notifiers>>

Release(t) ==
  /\ stage[t] = "holding"
  /\ acquired' = IF acquired > 0 THEN acquired - 1 ELSE 0
  /\ stage' = NotifyAll([stage EXCEPT ![t] = "done"])
  /\ UNCHANGED <<capacity, notifiers>>

\* Variant with a bug: nobody is notified.
SetCapacitySilently(c) ==
  /\ c > 0
  /\ capacity' = c
  /\ UNCHANGED <<acquired, stage, notifiers>>

\* set_capacity() changes the bound at once but wakes nobody itself.
SetCapacity(c) ==
  /\ c > 0
  /\ notifiers < MaxNotifiers
  /\ capacity' = c
  /\ notifiers' = notifiers + 1
  /\ UNCHANGED <<acquired, stage>>

\* the background task it created
Notify ==
  /\ notifiers > 0
  /\ notifiers' = notifiers - 1
  /\ stage' = NotifyAll(stage)
  /\ UNCHANGED <<capacity, acquired>>

Proceed(t) == Grant(t) \/ Block(t)

Next ==
  \/ \E t \in Tasks : Grant(t) \/ Block(t) \/ Cancel(t) \/ Release(t)
  \/ \E c \in Capacities : SetCapacity(c)
  \/ Notify

Spec == Init /\ [][Next]_vars

\* A ready task is run, a job ends (every stage of a job has a timeout), and
\* a created task runs: what the event loop guarantees.
FairSpec ==
  /\ Spec
  /\ \A t \in Tasks : WF_vars(Proceed(t)) /\ WF_vars(Release(t))
  /\ WF_vars(Notify)

-----------------------------------------------------------------------------
Holders == {t \in Tasks : stage[t] = "holding"}

(* The count kept by the class is the number of jobs inside "async with":  *)
(* no sequence of resizes, wake-ups and cancellations leaks or forges a    *)
(* permit (the class comment's "without leaking permits").                 *)
PermitsMatchHolders == acquired = Cardinality(Holders)

(* No job stays suspended in cond.wait() while a permit is free, but for   *)
(* the time a pending _notify() needs to run: release() and the background *)
(* task of set_capacity() wake every waiter, since a resize may free       *)
(* several permits and a woken waiter may be cancelled before it runs.     *)
NoLostWakeup ==
  Free /\ notifiers = 0 => \A t \in Tasks : stage[t] # "waiting"

(* Every job that waits is served or cancelled, however often the capacity *)
(* changes, although the condition has no queue of its own.                *)
WaitersAreServed ==
  \A t \in Tasks :
    stage[t] = "waiting" ~> stage[t] \in {"holding", "done", "cancelled"}

-----------------------------------------------------------------------------
(* What the jobs are promised, with the refinement mapping.                *)
Promise == INSTANCE Permits
  WITH asked    <- {t \in Tasks : stage[t] \in {"waiting", "woken"}},
       holders  <- Holders,
       finished <- {t \in Tasks : stage[t] \in {"done", "cancelled"}}

(* The semaphore implements Permits: a permit is given only below the      *)
(* capacity, the mapped sets move as the abstract operations say, and the  *)
(* counter and the wait set are not visible.                               *)
PromiseKept == Promise!PSpec
=============================================================================
