------------------------ MODULE InProcessEngineProofs ------------------------
(***************************************************************************)
(* The safety of InProcessEngine for any number of executor threads and of *)
(* late timer threads.  That an inference keeps its engine is not          *)
(* inductive: it needs that a call in progress is counted, that a counted  *)
(* call means an engine that is awake, and that an engine that is awake    *)
(* has its cache.  That no timer is armed on an unloaded engine needs that *)
(* no call is in progress before the load is over.  That the object        *)
(* implements CacheLease needs the count again: it is put to sleep when    *)
(* _active_tasks is zero, which is to mean that no call is in progress.    *)
(***************************************************************************)
EXTENDS InProcessEngine, FiniteSetTheorems, TLAPS

Busy == {t \in Threads : pc[t] \in Inside}

\* How the parts of the object fit together.
Consistent ==
  /\ phase \in {"loading", "built", "failed"} => \A t \in Threads : pc[t] = "out"
  /\ model => phase \in {"built", "up"}
  /\ lock # None => model
  /\ active > 0 => ~sleeping
  /\ model /\ ~sleeping => kv \/ numb
  /\ armed => phase = "up"

IInv == TypeOK /\ active = Cardinality(Busy) /\ Consistent

-----------------------------------------------------------------------------
\* The calls in progress are finitely many.
LEMMA BusyFinite == IsFiniteSet(Busy) /\ Cardinality(Busy) \in Nat
<1>1. Busy \subseteq Threads
  BY DEF Busy
<1> QED
  BY <1>1, EngineAssumption, FS_Subset, FS_CardinalityType

\* A call that enters is one more.
LEMMA OneMore ==
  ASSUME NEW t \in Threads, Busy' = Busy \cup {t}, t \notin Busy
  PROVE  Cardinality(Busy') = Cardinality(Busy) + 1
BY BusyFinite, FS_AddElement

\* A call that leaves was there, and is one less.
LEMMA OneLess ==
  ASSUME NEW t \in Threads, Busy' = Busy \ {t}, t \in Busy
  PROVE  /\ Cardinality(Busy) > 0
         /\ Cardinality(Busy') = Cardinality(Busy) - 1
<1>1. Cardinality(Busy) # 0
  BY BusyFinite, FS_EmptySet
<1>2. Cardinality(Busy') = Cardinality(Busy) - 1
  BY BusyFinite, FS_RemoveElement
<1> QED
  BY <1>1, <1>2, BusyFinite

\* While a thread holds the lock a call is counted.
LEMMA HolderCounted == IInv /\ lock # None => active > 0
<1> SUFFICES ASSUME IInv, lock # None PROVE active > 0
  OBVIOUS
<1>1. lock \in Busy
  BY DEF IInv, TypeOK, Busy, Inside
<1>2. Cardinality(Busy) # 0
  BY <1>1, BusyFinite, FS_EmptySet
<1> QED
  BY <1>2, BusyFinite DEF IInv

-----------------------------------------------------------------------------
LEMMA InitIInv == Init => IInv
<1> SUFFICES ASSUME Init PROVE IInv
  OBVIOUS
<1>1. TypeOK
  <2>1. /\ phase \in {"loading", "built", "up", "down", "failed"}
        /\ loaded \in BOOLEAN /\ model \in BOOLEAN /\ sleeping \in BOOLEAN
        /\ kv \in BOOLEAN /\ armed \in BOOLEAN /\ room \in BOOLEAN
        /\ numb \in BOOLEAN
    BY DEF Init
  <2>2. /\ active \in Nat
        /\ entering \in 0 .. MaxEntering
        /\ lock \in Threads \cup {None}
        /\ loop \in Waits
    BY EngineAssumption DEF Init, Waits
  <2>3. /\ pc \in [Threads -> Pcs]
        /\ \A t \in Threads : lock = t <=> pc[t] = "inferring"
    BY EngineAssumption DEF Init, Pcs, Inside
  <2> QED
    BY <2>1, <2>2, <2>3 DEF TypeOK
<1>2. Busy = {}
  BY DEF Init, Busy, Inside
<1>3. active = Cardinality(Busy)
  BY <1>2, FS_EmptySet DEF Init
<1>4. Consistent
  BY DEF Init, Consistent
<1> QED
  BY <1>1, <1>3, <1>4 DEF IInv

\* The steps that move no call into the engine or out of it.
LEMMA QuietStep ==
  ASSUME IInv, TypeOK', Consistent', Busy' = Busy, active' = active
  PROVE  IInv'
BY DEF IInv

\* The steps of an executor thread.
LEMMA ThreadIInv ==
  ASSUME IInv, NEW t \in Threads, Call(t) \/ ThreadStep(t)
  PROVE  IInv'
<1> USE EngineAssumption DEF IInv, object, cache, timer, Go, Pcs, Inside
<1>1. CASE Call(t)
  <2> USE <1>1 DEF Call
  <2>1. TypeOK' /\ Consistent'
    BY DEF TypeOK, Consistent
  <2>2. Busy' = Busy
    BY DEF Busy, TypeOK
  <2> QED
    BY <2>1, <2>2, QuietStep
<1>2. CASE Check(t)
  <2> USE <1>2 DEF Check
  <2>1. TypeOK' /\ Consistent'
    BY DEF TypeOK, Consistent
  <2>2. Busy' = Busy
    BY DEF Busy, TypeOK
  <2> QED
    BY <2>1, <2>2, QuietStep
<1>3. CASE Enter(t)
  <2> USE <1>3 DEF Enter
  <2>1. CASE pc' = [pc EXCEPT ![t] = "out"] /\ active' = active /\ UNCHANGED cache
    <3>1. TypeOK' /\ Consistent'
      BY <2>1 DEF TypeOK, Consistent
    <3>2. Busy' = Busy
      BY <2>1 DEF Busy, TypeOK
    <3> QED
      BY <2>1, <3>1, <3>2, QuietStep
  <2>2. CASE /\ pc' = [pc EXCEPT ![t] = "preparing"]
             /\ active' = active + 1
             /\ IF sleeping THEN WakeUp ELSE UNCHANGED cache
    <3>1. TypeOK'
      <4>1. active' \in Nat
        BY <2>2 DEF TypeOK
      <4>2. sleeping' \in BOOLEAN /\ kv' \in BOOLEAN /\ numb' \in BOOLEAN
        BY <2>2 DEF TypeOK, WakeUp
      <4>3. /\ pc' \in [Threads -> Pcs]
            /\ \A s \in Threads : lock' = s <=> pc'[s] = "inferring"
        BY <2>2 DEF TypeOK
      <4> QED
        BY <4>1, <4>2, <4>3 DEF TypeOK
    <3>2. Busy' = Busy \cup {t} /\ t \notin Busy
      BY <2>2 DEF Busy, TypeOK
    <3>3. active' = Cardinality(Busy')
      BY <2>2, <3>2, OneMore
    <3>4. Consistent'
      BY <2>2 DEF TypeOK, Consistent, WakeUp
    <3> QED
      BY <3>1, <3>3, <3>4
  <2> QED
    BY <2>1, <2>2
<1>4. CASE PrepareFails(t)
  <2> USE <1>4 DEF PrepareFails
  <2>1. TypeOK' /\ Consistent'
    BY DEF TypeOK, Consistent
  <2>2. Busy' = Busy
    BY DEF Busy, TypeOK
  <2> QED
    BY <2>1, <2>2, QuietStep
<1>5. CASE Infer(t)
  <2> USE <1>5 DEF Infer
  <2>1. TypeOK' /\ Consistent'
    BY DEF TypeOK, Consistent
  <2>2. Busy' = Busy
    BY DEF Busy, TypeOK
  <2> QED
    BY <2>1, <2>2, QuietStep
<1>6. CASE Inferred(t)
  <2> USE <1>6 DEF Inferred
  <2>1. TypeOK' /\ Consistent'
    BY DEF TypeOK, Consistent
  <2>2. Busy' = Busy
    BY DEF Busy, TypeOK
  <2> QED
    BY <2>1, <2>2, QuietStep
<1>7. CASE Leave(t)
  <2> USE <1>7 DEF Leave
  <2>1. Busy' = Busy \ {t} /\ t \in Busy
    BY DEF Busy, TypeOK
  <2>2. /\ Cardinality(Busy) > 0
        /\ Cardinality(Busy') = Cardinality(Busy) - 1
    BY <2>1, OneLess
  <2>3. active > 0 /\ active' = active - 1 /\ active' \in Nat
    BY <2>2, BusyFinite
  <2>4. TypeOK'
    <3>1. armed' \in BOOLEAN
      BY DEF TypeOK, Arm
    <3>2. /\ pc' \in [Threads -> Pcs]
          /\ \A s \in Threads : lock' = s <=> pc'[s] = "inferring"
      BY DEF TypeOK
    <3> QED
      BY <2>3, <3>1, <3>2 DEF TypeOK
  <2>5. Consistent'
    BY <2>3 DEF TypeOK, Consistent, Arm
  <2> QED
    BY <2>2, <2>3, <2>4, <2>5
<1> QED
  BY <1>1, <1>2, <1>3, <1>4, <1>5, <1>6, <1>7 DEF ThreadStep

\* Every step keeps the invariant.
LEMMA NextIInv == IInv /\ [Next]_vars => IInv'
<1> SUFFICES ASSUME IInv, [Next]_vars PROVE IInv'
  OBVIOUS
<1> USE EngineAssumption DEF IInv, object, cache, timer
<1>1. CASE Build \/ Load
  <2>1. TypeOK'
    <3>1. phase' \in {"loading", "built", "up", "down", "failed"}
      BY <1>1 DEF Build, Load
    <3>2. /\ loaded' \in BOOLEAN /\ model' \in BOOLEAN /\ kv' \in BOOLEAN
          /\ armed' \in BOOLEAN
      BY <1>1 DEF Build, Load, Arm, TypeOK
    <3> QED
      BY <1>1, <3>1, <3>2 DEF Build, Load, TypeOK
  <2>3. Consistent'
    BY <1>1 DEF Build, Load, Arm, TypeOK, Consistent
  <2>2. Busy' = Busy /\ active' = active
    BY <1>1 DEF Build, Load, Busy
  <2> QED
    BY <2>1, <2>2, <2>3, QuietStep
<1>2. ASSUME NEW t \in Threads, Call(t) \/ ThreadStep(t) PROVE IInv'
  BY <1>2, ThreadIInv
<1>3. CASE TimerFires \/ EnterSleep \/ RoomChanges
  <2>1. TypeOK'
    <3>1. entering' \in 0 .. MaxEntering
      BY <1>3 DEF TimerFires, EnterSleep, RoomChanges, TypeOK
    <3>2. /\ sleeping' \in BOOLEAN /\ kv' \in BOOLEAN /\ numb' \in BOOLEAN
          /\ armed' \in BOOLEAN /\ room' \in BOOLEAN
      BY <1>3 DEF TimerFires, EnterSleep, Offload, RoomChanges, TypeOK
    <3> QED
      BY <1>3, <3>1, <3>2 DEF TimerFires, EnterSleep, RoomChanges, TypeOK
  <2>3. Consistent'
    BY <1>3 DEF TimerFires, EnterSleep, Offload, RoomChanges, TypeOK, Consistent
  <2>2. Busy' = Busy /\ active' = active
    BY <1>3 DEF TimerFires, EnterSleep, RoomChanges, Busy
  <2> QED
    BY <2>1, <2>2, <2>3, QuietStep
<1>4. CASE AskActive \/ AskSleep \/ AskUnload
  <2>1. TypeOK' /\ Consistent'
    BY <1>4 DEF AskActive, AskSleep, AskUnload, Wants, Waits, TypeOK, Consistent
  <2>2. Busy' = Busy /\ active' = active
    BY <1>4 DEF AskActive, AskSleep, AskUnload, Wants, Busy
  <2> QED
    BY <2>1, <2>2, QuietStep
<1>5. CASE IsActive \/ SleepNow \/ Unload
  <2>1. TypeOK'
    <3>1. phase' \in {"loading", "built", "up", "down", "failed"} /\ loop' \in Waits
      BY <1>5 DEF IsActive, SleepNow, Unload, Has, Waits, TypeOK
    <3>2. /\ loaded' \in BOOLEAN /\ model' \in BOOLEAN /\ kv' \in BOOLEAN
          /\ sleeping' \in BOOLEAN /\ numb' \in BOOLEAN /\ armed' \in BOOLEAN
      BY <1>5 DEF IsActive, SleepNow, Unload, Has, Offload, TypeOK
    <3> QED
      BY <1>5, <3>1, <3>2 DEF IsActive, SleepNow, Unload, Has, TypeOK
  <2>3. Consistent'
    BY <1>5 DEF IsActive, SleepNow, Unload, Has, Offload, TypeOK, Consistent
  <2>2. Busy' = Busy /\ active' = active
    BY <1>5 DEF IsActive, SleepNow, Unload, Has, Busy
  <2> QED
    BY <2>1, <2>2, <2>3, QuietStep
<1>6. CASE UNCHANGED vars
  <2>1. TypeOK' /\ Consistent'
    BY <1>6 DEF vars, TypeOK, Consistent
  <2>2. Busy' = Busy /\ active' = active
    BY <1>6 DEF vars, Busy
  <2> QED
    BY <2>1, <2>2, QuietStep
<1> QED
  BY <1>1, <1>2, <1>3, <1>4, <1>5, <1>6 DEF Next, LoopStep

LEMMA Invariance == Spec => []IInv
BY InitIInv, NextIInv, PTL DEF Spec

-----------------------------------------------------------------------------
\* The variables of the engine object keep their types, and the thread that
\* holds the lock is the one in its inference.
THEOREM EngineTyped == Spec => []TypeOK
<1>1. IInv => TypeOK
  BY DEF IInv
<1> QED
  BY <1>1, Invariance, PTL

\* _active_tasks counts the calls between their first and last section under
\* the lock.
THEOREM TasksNeverLost == Spec => []TasksAreCounted
<1>1. IInv => TasksAreCounted
  BY DEF IInv, TasksAreCounted, Busy
<1> QED
  BY <1>1, Invariance, PTL

\* An inference keeps its model and its cache, whoever else is at the lock.
THEOREM InferenceKeepsEngine == Spec => []InferenceHasEngine
<1>1. IInv => InferenceHasEngine
  BY HolderCounted DEF IInv, Consistent, InferenceHasEngine
<1> QED
  BY <1>1, Invariance, PTL

\* A call that outlives the unload leaves no timer behind.
THEOREM NoTimerLeft == Spec => []NoTimerUnloaded
<1>1. IInv => NoTimerUnloaded
  BY DEF IInv, Consistent, NoTimerUnloaded
<1> QED
  BY <1>1, Invariance, PTL
-----------------------------------------------------------------------------
(* The refinement of CacheLease.  An object has a model from the end of    *)
(* its load to its unload, and neither flag nor cache without one.         *)

Whole ==
  /\ model <=> phase \in {"built", "up"}
  /\ ~model => ~sleeping /\ ~kv

LEMMA InitWhole == Init => Whole
BY DEF Init, Whole

LEMMA NextWhole == IInv /\ Whole /\ [Next]_vars => Whole'
<1> SUFFICES ASSUME IInv, Whole, [Next]_vars PROVE Whole'
  OBVIOUS
<1> USE DEF Whole, object, cache, timer
<1>1. CASE Build \/ Load
  BY <1>1 DEF Build, Load
<1>2. ASSUME NEW t \in Threads, Call(t) \/ ThreadStep(t) PROVE Whole'
  BY <1>2 DEF Call, ThreadStep, Check, Enter, WakeUp, PrepareFails, Infer, Inferred, Leave
<1>3. CASE TimerFires \/ EnterSleep \/ RoomChanges
  BY <1>3 DEF TimerFires, EnterSleep, Offload, RoomChanges
<1>4. CASE AskActive \/ AskSleep \/ AskUnload
  BY <1>4 DEF AskActive, AskSleep, AskUnload, Wants
<1>5. CASE IsActive \/ SleepNow \/ Unload
  BY <1>5 DEF IsActive, SleepNow, Unload, Offload
<1>6. CASE UNCHANGED vars
  BY <1>6 DEF vars
<1> QED
  BY <1>1, <1>2, <1>3, <1>4, <1>5, <1>6 DEF Next, LoopStep

LEMMA WholeInvariance == Spec => [](IInv /\ Whole)
BY InitIInv, NextIInv, InitWhole, NextWhole, PTL DEF Spec

\* The promise begins with the object.
LEMMA InitLease == Init => Cache!CInit
BY DEF Init, Cache!CInit, EngineState, Inside

\* A step that moves no call in or out and leaves object and cache alone.
LEMMA LeaseKept ==
  ASSUME Busy' = Busy, UNCHANGED <<phase, model, sleeping, kv>>
  PROVE  [Cache!CNext]_(Cache!cvars)
BY DEF Cache!cvars, EngineState, Busy

\* The engine is put to sleep only when nobody is counted.
LEMMA OffloadLeases ==
  ASSUME IInv, Whole, Offload, Busy' = Busy, UNCHANGED <<phase, model>>
  PROVE  [Cache!CNext]_(Cache!cvars)
<1>1. CASE UNCHANGED <<sleeping, kv>>
  BY <1>1, LeaseKept
<1>2. CASE active = 0 /\ ~sleeping /\ model /\ sleeping' = TRUE /\ kv' = FALSE
  <2>1. EngineState = "awake" /\ EngineState' = "asleep"
    BY <1>2 DEF EngineState
  <2>2. Busy = {}
    BY <1>2, BusyFinite, FS_EmptySet DEF IInv
  <2>3. Cache!Sleep
    BY <1>2, <2>1, <2>2 DEF Cache!Sleep, Busy
  <2> QED
    BY <2>3 DEF Cache!CNext
<1> QED
  BY <1>1, <1>2 DEF Offload, cache, IInv, TypeOK

\* The steps of an executor thread.
LEMMA ThreadLease ==
  ASSUME IInv, Whole, NEW t \in Threads, Call(t) \/ ThreadStep(t)
  PROVE  [Cache!CNext]_(Cache!cvars)
<1> USE DEF object, cache, timer, Go, Pcs, Inside
<1>1. CASE Call(t) \/ Check(t) \/ PrepareFails(t) \/ Infer(t) \/ Inferred(t)
  <2>1. Busy' = Busy
    BY <1>1 DEF Call, Check, PrepareFails, Infer, Inferred, Busy, IInv, TypeOK
  <2>2. UNCHANGED <<phase, model, sleeping, kv>>
    BY <1>1 DEF Call, Check, PrepareFails, Infer, Inferred
  <2> QED
    BY <2>1, <2>2, LeaseKept
<1>2. CASE Enter(t)
  <2> USE <1>2 DEF Enter
  <2>1. CASE pc' = [pc EXCEPT ![t] = "out"] /\ UNCHANGED cache
    <3>1. Busy' = Busy
      BY <2>1 DEF Busy, IInv, TypeOK
    <3> QED
      BY <2>1, <3>1, LeaseKept
  <2>2. CASE /\ pc' = [pc EXCEPT ![t] = "preparing"]
             /\ IF sleeping THEN WakeUp ELSE UNCHANGED cache
    <3>1. Busy' = Busy \cup {t} /\ t \notin Busy
      BY <2>2 DEF Busy, IInv, TypeOK
    <3>2. EngineState # "new"
      BY DEF IInv, Consistent, Whole, TypeOK, EngineState
    <3>3. IF EngineState = "asleep"
            THEN EngineState' = "awake" /\ kv' \in BOOLEAN
            ELSE EngineState' = EngineState /\ kv' = kv
      <4>1. CASE sleeping
        <5>1. model /\ EngineState = "asleep"
          BY <4>1 DEF Whole, EngineState
        <5>2. sleeping' = FALSE /\ kv' \in BOOLEAN
          BY <2>2, <4>1 DEF WakeUp, IInv, TypeOK
        <5> QED
          BY <5>1, <5>2 DEF EngineState
      <4>2. CASE ~sleeping
        BY <2>2, <4>2 DEF EngineState
      <4> QED
        BY <4>1, <4>2
    <3>4. Cache!Use(t)
      BY <3>1, <3>2, <3>3 DEF Cache!Use, Busy
    <3> QED
      BY <3>4 DEF Cache!CNext
  <2> QED
    BY <2>1, <2>2
<1>3. CASE Leave(t)
  <2>1. Busy' = Busy \ {t} /\ t \in Busy
    BY <1>3 DEF Leave, Busy, IInv, TypeOK
  <2>2. UNCHANGED <<EngineState, kv>>
    BY <1>3 DEF Leave, EngineState
  <2>3. Cache!Done(t)
    BY <2>1, <2>2 DEF Cache!Done, Busy
  <2> QED
    BY <2>3 DEF Cache!CNext
<1> QED
  BY <1>1, <1>2, <1>3 DEF ThreadStep

\* Each step is a step of CacheLease or none.
LEMMA NextLease == IInv /\ Whole /\ [Next]_vars => [Cache!CNext]_(Cache!cvars)
<1> SUFFICES ASSUME IInv, Whole, [Next]_vars PROVE [Cache!CNext]_(Cache!cvars)
  OBVIOUS
<1> USE DEF object, cache, timer
<1>1. CASE Build
  <2>1. Busy' = Busy
    BY <1>1 DEF Build, Busy
  <2>2. CASE phase' = "built" /\ model' = TRUE /\ kv' = TRUE
    <3>1. EngineState = "new" /\ EngineState' = "awake"
      BY <1>1, <2>2 DEF Build, Whole, EngineState
    <3>2. Cache!Open
      BY <2>1, <2>2, <3>1 DEF Cache!Open, Busy
    <3> QED
      BY <3>2 DEF Cache!CNext
  <2>3. CASE phase' = "failed" /\ UNCHANGED <<model, kv>>
    <3>1. EngineState' = EngineState
      BY <1>1, <2>3 DEF Build, Whole, EngineState
    <3> QED
      BY <2>1, <2>3, <3>1 DEF Cache!cvars, Busy
  <2> QED
    BY <1>1, <2>2, <2>3 DEF Build
<1>2. CASE Load
  <2>1. EngineState' = EngineState /\ kv' = kv /\ Busy' = Busy
    BY <1>2 DEF Load, Whole, EngineState, Busy
  <2> QED
    BY <2>1 DEF Cache!cvars, Busy
<1>3. ASSUME NEW t \in Threads, Call(t) \/ ThreadStep(t)
      PROVE  [Cache!CNext]_(Cache!cvars)
  BY <1>3, ThreadLease
<1>4. CASE EnterSleep \/ SleepNow
  <2>1. Offload /\ Busy' = Busy /\ UNCHANGED <<phase, model>>
    BY <1>4 DEF EnterSleep, SleepNow, Busy
  <2> QED
    BY <2>1, OffloadLeases
<1>5. CASE Unload
  <2>1. EngineState' = "closed" /\ kv' = FALSE /\ Busy' = Busy
    BY <1>5 DEF Unload, EngineState, Busy
  <2>2. CASE EngineState = "closed"
    <3>1. kv = FALSE
      BY <2>2 DEF Whole, EngineState, IInv, TypeOK
    <3> QED
      BY <2>1, <2>2, <3>1 DEF Cache!cvars, Busy
  <2>3. CASE EngineState # "closed"
    <3>1. Cache!Close
      BY <2>1, <2>3 DEF Cache!Close, Busy
    <3> QED
      BY <3>1 DEF Cache!CNext
  <2> QED
    BY <2>2, <2>3
<1>6. CASE TimerFires \/ RoomChanges \/ AskActive \/ AskSleep \/ AskUnload \/ IsActive
           \/ UNCHANGED vars
  <2>1. Busy' = Busy /\ UNCHANGED <<phase, model, sleeping, kv>>
    BY <1>6 DEF TimerFires, RoomChanges, AskActive, AskSleep, AskUnload, Wants, IsActive,
         vars, Busy
  <2> QED
    BY <2>1, LeaseKept
<1> QED
  BY <1>1, <1>2, <1>3, <1>4, <1>5, <1>6 DEF Next, LoopStep

\* The engine object keeps its cache as CacheLease promises, for any number of
\* executor threads and late timers.
THEOREM EngineImplementsCache == Spec => CacheLeased
BY WholeInvariance, InitLease, NextLease, PTL DEF Spec, CacheLeased, Cache!CSpec
=============================================================================
