--------------------------- MODULE InProcessEngine ---------------------------
(***************************************************************************)
(* models/qwen3_asr.py on an agent with one GPU: the engine runs vLLM in   *)
(* the agent's own process.  Executor threads transcribe, timer threads    *)
(* put an idle engine to sleep, and the event loop asks is_active(),       *)
(* offloads the KV cache and unloads.  All of them meet at _lock, a        *)
(* threading.Lock that a thread keeps for the whole of its inference: the  *)
(* event loop, and with it the agent, stands still while it waits for it.  *)
(*                                                                         *)
(* Other sections under the lock are short and atomic here.  The registry  *)
(* makes a new engine object for every load, so this is the life of one.   *)
(***************************************************************************)
EXTENDS Integers, FiniteSets

CONSTANTS Threads,      \* executor threads
          MaxEntering,  \* bound: timer threads that wait for the lock
          Faults,       \* may loads, wake-ups, sleeps, inferences raise?
          None

ASSUME EngineAssumption ==
  /\ IsFiniteSet(Threads)
  /\ None \notin Threads
  /\ MaxEntering \in Nat
  /\ Faults \in BOOLEAN

VARIABLES
  phase,     \* the object: "loading", "built", "up", "down", "failed"
  loaded,    \* loaded
  model,     \* is _model not None?
  sleeping,  \* _is_sleeping
  kv,        \* is the KV cache on the GPU?
  active,    \* _active_tasks
  armed,     \* has _sleep_timer not fired yet?
  entering,  \* timer threads at the start of _enter_sleep
  lock,      \* the thread in its inference, which holds _lock
  pc,        \* where each executor thread is
  loop,      \* what the event loop waits for the lock for
  room,      \* MIN_WAKE_VRAM_MB are free
  numb       \* the last wake-up or sleep raised

vars == <<phase, loaded, model, sleeping, kv, active, armed, entering, lock, pc,
          loop, room, numb>>
cache == <<sleeping, kv, numb>>
timer == <<armed, entering>>
object == <<phase, loaded, model>>

Inside == {"preparing", "inferring", "leaving"}
Pcs == {"out", "called", "checked"} \cup Inside
Waits == {"none", "is_active", "enter_sleep", "unload"}

Init ==
  /\ phase = "loading"
  /\ loaded = FALSE /\ model = FALSE /\ sleeping = FALSE /\ kv = FALSE
  /\ active = 0
  /\ armed = FALSE /\ entering = 0
  /\ lock = None
  /\ pc = [t \in Threads |-> "out"]
  /\ loop = "none"
  /\ room \in BOOLEAN
  /\ numb = FALSE

Go(t, from, to) == pc[t] = from /\ pc' = [pc EXCEPT ![t] = to]

\* Variant with a bug: the timer is armed whatever has become of the engine.
ArmAnyway == armed' = (active' = 0)

\* _arm_sleep_timer_locked, at the end of a step
Arm == armed' = (model' /\ ~sleeping' /\ active' = 0)

-----------------------------------------------------------------------------
(* load(): the thread of to_thread, then the event loop                    *)

Build ==
  /\ phase = "loading"
  /\ \/ phase' = "built" /\ model' = TRUE /\ kv' = TRUE
     \/ Faults /\ phase' = "failed" /\ UNCHANGED <<model, kv>>
  /\ UNCHANGED <<loaded, sleeping, numb, active, timer, lock, pc, loop, room>>

Load ==
  /\ phase = "built" /\ loop = "none"
  /\ phase' = "up" /\ loaded' = TRUE
  /\ UNCHANGED <<model, cache, active, entering, lock, pc, loop, room>>
  /\ Arm

-----------------------------------------------------------------------------
(* transcribe(), in an executor thread                                     *)

\* run_in_executor, by the event loop; a forced unload may have come before
Call(t) ==
  /\ loop = "none" /\ phase \in {"up", "down"}
  /\ Go(t, "out", "called")
  /\ UNCHANGED <<object, cache, active, timer, lock, loop, room>>

\* the test outside of the lock
Check(t) ==
  /\ Go(t, "called", IF model /\ loaded THEN "checked" ELSE "out")
  /\ UNCHANGED <<object, cache, active, timer, lock, loop, room>>

WakeUp ==
  /\ sleeping' = FALSE
  /\ \/ kv' = TRUE /\ numb' = FALSE
     \/ Faults /\ kv' = kv /\ numb' = TRUE

\* Variant with a bug: the call is counted before the memory is probed.
EnterCounted(t) ==
  /\ lock = None
  /\ armed' = FALSE
  /\ active' = active + 1
  /\ \/ /\ sleeping /\ ~room
        /\ Go(t, "checked", "out")
        /\ UNCHANGED cache
     \/ /\ sleeping => room
        /\ Go(t, "checked", "preparing")
        /\ IF sleeping THEN WakeUp ELSE UNCHANGED cache
  /\ UNCHANGED <<object, entering, lock, loop, room>>

\* The timer is cancelled, a sleeping engine woken up, or, for want of memory,
\* the call rejected.
Enter(t) ==
  /\ lock = None
  /\ armed' = FALSE
  /\ \/ /\ sleeping /\ ~room
        /\ Go(t, "checked", "out")
        /\ UNCHANGED <<active, cache>>
     \/ /\ sleeping => room
        /\ Go(t, "checked", "preparing")
        /\ active' = active + 1
        /\ IF sleeping THEN WakeUp ELSE UNCHANGED cache
  /\ UNCHANGED <<object, entering, lock, loop, room>>

PrepareFails(t) ==
  /\ Faults
  /\ Go(t, "preparing", "leaving")
  /\ UNCHANGED <<object, cache, active, timer, lock, loop, room>>

\* The inference starts; it fails at once if the model was unloaded meanwhile.
Infer(t) ==
  /\ lock = None
  /\ Go(t, "preparing", IF model THEN "inferring" ELSE "leaving")
  /\ lock' = IF model THEN t ELSE None
  /\ UNCHANGED <<object, cache, active, timer, loop, room>>

\* Variant with a bug: the progress callback waits for its report, which the
\* event loop would have to run.
InferredReporting(t) ==
  /\ loop = "none"
  /\ Go(t, "inferring", "leaving")
  /\ lock' = None
  /\ UNCHANGED <<object, cache, active, timer, loop, room>>

\* The inference returns or raises.  Its progress callbacks do not wait.
Inferred(t) ==
  /\ Go(t, "inferring", "leaving")
  /\ lock' = None
  /\ UNCHANGED <<object, cache, active, timer, loop, room>>

\* Variant with a bug: the finally clause does not arm the timer.
LeaveUnarmed(t) ==
  /\ lock = None
  /\ Go(t, "leaving", "out")
  /\ active' = IF active = 0 THEN 0 ELSE active - 1
  /\ UNCHANGED <<object, cache, timer, lock, loop, room>>

\* the finally clause
Leave(t) ==
  /\ lock = None
  /\ Go(t, "leaving", "out")
  /\ active' = IF active = 0 THEN 0 ELSE active - 1
  /\ UNCHANGED <<object, cache, entering, lock, loop, room>>
  /\ IF active' = 0 THEN Arm ELSE UNCHANGED armed

-----------------------------------------------------------------------------
(* The timer                                                               *)

\* From here on cancel() is without effect.
TimerFires ==
  /\ armed /\ entering < MaxEntering
  /\ armed' = FALSE /\ entering' = entering + 1
  /\ UNCHANGED <<object, cache, active, lock, pc, loop, room>>

\* Variant with a bug: the active tasks are not looked at again.
OffloadUnchecked ==
  IF ~sleeping /\ model
    THEN sleeping' = TRUE /\ kv' = FALSE /\ numb' = FALSE
    ELSE UNCHANGED cache

\* _enter_sleep, with the lock
Offload ==
  IF active = 0 /\ ~sleeping /\ model
    THEN \/ sleeping' = TRUE /\ kv' = FALSE /\ numb' = FALSE
         \/ Faults /\ sleeping' = FALSE /\ kv' = kv /\ numb' = TRUE
    ELSE UNCHANGED cache

EnterSleep ==
  /\ entering > 0 /\ lock = None
  /\ entering' = entering - 1
  /\ Offload
  /\ UNCHANGED <<object, active, armed, lock, pc, loop, room>>

-----------------------------------------------------------------------------
(* The event loop: it asks for the lock and is blocked until it has it.    *)

Wants(op) ==
  /\ loop = "none" /\ phase = "up"
  /\ loop' = op
  /\ UNCHANGED <<object, cache, active, timer, lock, pc, room>>

\* the pull worker asks is_model_active()
AskActive == Wants("is_active")

\* another engine is acquired while this one is not in use
AskSleep ==
  /\ \A t \in Threads : pc[t] = "out"
  /\ Wants("enter_sleep")

\* unload_model, drained or not
AskUnload == Wants("unload")

Has(op) == loop = op /\ lock = None /\ loop' = "none"

IsActive ==
  /\ Has("is_active")
  /\ UNCHANGED <<object, cache, active, timer, lock, pc, room>>

SleepNow ==
  /\ Has("enter_sleep")
  /\ Offload
  /\ UNCHANGED <<object, active, timer, lock, pc, room>>

\* Variant with a bug: _is_sleeping outlives the unload, and a call that comes
\* late wakes up an engine that is gone.
UnloadFlagged ==
  /\ Has("unload")
  /\ phase' = "down" /\ loaded' = FALSE /\ model' = FALSE
  /\ kv' = FALSE /\ armed' = FALSE
  /\ UNCHANGED <<sleeping, numb, active, entering, lock, pc, room>>

Unload ==
  /\ Has("unload")
  /\ phase' = "down" /\ loaded' = FALSE /\ model' = FALSE
  /\ sleeping' = FALSE /\ kv' = FALSE /\ armed' = FALSE
  /\ UNCHANGED <<numb, active, entering, lock, pc, room>>

RoomChanges ==
  /\ room' = ~room
  /\ UNCHANGED <<object, cache, active, timer, lock, pc, loop>>

-----------------------------------------------------------------------------
ThreadStep(t) ==
  \/ Check(t) \/ Enter(t) \/ PrepareFails(t) \/ Infer(t) \/ Inferred(t) \/ Leave(t)

LoopStep == Load \/ IsActive \/ SleepNow \/ Unload

Next ==
  \/ Build \/ LoopStep
  \/ AskActive \/ AskSleep \/ AskUnload
  \/ \E t \in Threads : Call(t) \/ ThreadStep(t)
  \/ TimerFires \/ EnterSleep
  \/ RoomChanges

\* Threads run, the timer fires, inferences return; nobody is promised the
\* lock, which goes to any of those that want it.
Fairness ==
  /\ WF_vars(LoopStep)
  /\ WF_vars(TimerFires) /\ WF_vars(EnterSleep)
  /\ \A t \in Threads : WF_vars(ThreadStep(t))

Spec == Init /\ [][Next]_vars /\ Fairness

-----------------------------------------------------------------------------
(* Properties                                                              *)

TypeOK ==
  /\ phase \in {"loading", "built", "up", "down", "failed"}
  /\ loaded \in BOOLEAN /\ model \in BOOLEAN /\ sleeping \in BOOLEAN
  /\ kv \in BOOLEAN /\ armed \in BOOLEAN /\ room \in BOOLEAN /\ numb \in BOOLEAN
  /\ active \in Nat
  /\ entering \in 0 .. MaxEntering
  /\ lock \in Threads \cup {None}
  /\ pc \in [Threads -> Pcs]
  /\ \A t \in Threads : lock = t <=> pc[t] = "inferring"
  /\ loop \in Waits

\* _active_tasks is the number of calls between their two visits to the lock,
\* over rejections, failing calls and unloads, and never hits its floor.
TasksAreCounted ==
  active = Cardinality({t \in Threads : pc[t] \in Inside})

\* An inference has its model and its KV cache from its first to its last
\* batch: no timer that fired before the call and could not be cancelled any
\* more, no offload for another model and no unload that was not drained takes
\* them (but a wake-up that raised is taken for one that worked).
InferenceHasEngine ==
  lock # None => model /\ ~sleeping /\ (kv \/ numb)

\* The object keeps what CacheLease promises, from load() to unload(): the
\* flag, the count and the engine agree, over late timers, wake-ups and sleeps
\* that raise, and calls that an unload overtakes.
EngineState ==
  IF model THEN IF sleeping THEN "asleep" ELSE "awake"
  ELSE IF phase = "down" THEN "closed" ELSE "new"

Cache == INSTANCE CacheLease
           WITH Users <- Threads, state <- EngineState,
                users <- {t \in Threads : pc[t] \in Inside}, cache <- kv

CacheLeased == Cache!CSpec

\* No timer is armed on an engine that is unloaded, although calls that
\* outlive a forced unload arm it in their finally clause.
NoTimerUnloaded == armed => phase = "up"

\* The event loop gets the lock back, although no one queues for it: while
\* the event loop waits it starts no calls, and an inference needs nothing of
\* the event loop to end.
LoopGoesOn == loop # "none" ~> loop = "none"

\* An engine nobody uses any more offloads its KV cache, whichever timer was
\* cancelled or came too late, unless the engine refused.
IdleEngineSleeps ==
  <>[](phase = "up" /\ \A t \in Threads : pc[t] = "out")
    => <>[](~kv \/ numb)
=============================================================================
