--------------------------- MODULE ModelRegistry ---------------------------
(***************************************************************************)
(* models/registry.py: the engines the agent keeps loaded, the reference   *)
(* counts of acquire_engine, the drain before an unload and the timer that *)
(* unloads idle models.                                                    *)
(*                                                                         *)
(* Three kinds of asyncio tasks meet here: users (a job or a chat inside   *)
(* "async with acquire_engine"), the message loop, which runs the          *)
(* controller's commands one after the other, and the idle workers, the    *)
(* tasks of _check_and_schedule_idle_unload.  _registry_lock is never held *)
(* across a suspension, so its sections are atomic; the load lock of a     *)
(* model is held by the task whose stage is in Critical.  A task may be    *)
(* interrupted at every await, also at those that do not suspend for every *)
(* engine (unload() suspends in the mock engine only).                     *)
(***************************************************************************)
EXTENDS Integers, FiniteSets

CONSTANTS Users,      \* jobs and chats
          Workers,    \* identities of the _idle_worker tasks
          Loop,       \* the client's message loop
          Models,     \* registered model names
          Modes,      \* _supported_modes
          None,       \* no task
          Faults      \* may a load raise, or a waiting acquisition be cancelled?

ASSUME RegistryAssumption ==
  /\ IsFiniteSet(Users)
  /\ Faults \in BOOLEAN
  /\ Loop \notin Users \cup Workers
  /\ None \notin Users \cup Workers \cup {Loop}
  /\ Users \cap Workers = {}

VARIABLES
  pc,       \* where each task is suspended
  at,       \* the model it works on
  todo,     \* unload_all_models: the names of its snapshot still to come
  freed,    \* idle workers whose list of unloaded names is not empty
  mode,     \* _current_mode
  loaded,   \* _loaded_engines
  modeOf,   \* the work mode an engine was loaded with
  count,    \* _inference_counts
  asleep,   \* loaded engines whose KV cache is offloaded
  orphans,  \* users whose engine was unloaded under them
  auto,     \* _auto_unload_minutes > 0
  timer,    \* _idle_unload_task, None when done
  doomed    \* idle workers that cancelled themselves while running

vars == <<pc, at, todo, freed, mode, loaded, modeOf, count, asleep, orphans,
          auto, timer, doomed>>
engines == <<mode, loaded, modeOf, count, asleep, orphans>>
sweeps == <<todo, freed>>

Procs == Users \cup Workers \cup {Loop}
Holding == {"holding", "inferring"}
Critical == {"loading", "draining", "forcing", "unloading"}
Stages == {"out", "toLoad", "toUnload", "armed", "reporting"}
            \cup Holding \cup Critical

Init ==
  /\ pc = [p \in Procs |-> "out"]
  /\ at \in {[p \in Procs |-> m] : m \in Models}
  /\ todo = [p \in Procs |-> {}]
  /\ mode \in Modes
  /\ modeOf = [m \in Models |-> mode]
  /\ count = [m \in Models |-> 0]
  /\ auto \in BOOLEAN
  /\ timer = None
  /\ freed = {} /\ loaded = {} /\ asleep = {} /\ orphans = {} /\ doomed = {}

\* Variant with a bug: loads do not take the lock.
LockFreeOfUnloads(m) ==
  \A p \in Procs : ~(pc[p] \in Critical \ {"loading"} /\ at[p] = m)

LockFree(m) == \A p \in Procs : ~(pc[p] \in Critical /\ at[p] = m)

-----------------------------------------------------------------------------
(* The idle timer.  The task p that touches it may be the idle worker      *)
(* itself: cancel() then only marks it, and its next suspension raises.    *)
(* Any other worker is suspended and leaves, giving its lock back.  In     *)
(* both operators f is the value pc would have without the cancellation.   *)

Stopped(f, p) ==
  IF timer \in Workers \ {p} THEN [f EXCEPT ![timer] = "out"] ELSE f

Doomed(p) == IF timer = p THEN doomed \cup {p} ELSE doomed

CancelIdleTimer(p, f) ==
  /\ pc' = Stopped(f, p)
  /\ doomed' = Doomed(p)
  /\ timer' = None

IdleNow == auto /\ loaded # {} /\ \A m \in Models : count[m] = 0

\* _check_and_schedule_idle_unload, run on the state after the step
CheckIdle(p, f) ==
  IF ~IdleNow'
    THEN CancelIdleTimer(p, f)
    ELSE \E w \in Workers \ {p} :
           /\ Stopped(f, p)[w] = "out"
           /\ timer' = w
           /\ pc' = [Stopped(f, p) EXCEPT ![w] = "armed"]
           /\ doomed' = Doomed(p)

-----------------------------------------------------------------------------
(* acquire_engine                                                          *)

Enter(u, m) ==
  /\ pc[u] = "out"
  /\ at' = [at EXCEPT ![u] = m]
  /\ CancelIdleTimer(u, [pc EXCEPT ![u] = "toLoad"])
  /\ UNCHANGED <<engines, sweeps, auto>>

\* Variant with a bug: a loaded engine is taken without the lock.
AcquireUnlocked(u) ==
  /\ pc[u] = "toLoad"
  /\ at[u] \in loaded
  /\ pc' = [pc EXCEPT ![u] = "holding"]
  /\ count' = [count EXCEPT ![at[u]] = @ + 1]
  /\ UNCHANGED <<at, sweeps, mode, loaded, modeOf, asleep, orphans, auto,
                 timer, doomed>>

\* Variant with a bug: every other engine is put to sleep, in use or not.
AcquireSleepAll(u) ==
  /\ pc[u] = "toLoad"
  /\ LockFree(at[u])
  /\ at[u] \in loaded
  /\ asleep' = asleep \cup (loaded \ {at[u]})
  /\ pc' = [pc EXCEPT ![u] = "holding"]
  /\ count' = [count EXCEPT ![at[u]] = @ + 1]
  /\ UNCHANGED <<at, sweeps, mode, loaded, modeOf, orphans, auto, timer, doomed>>

\* With the lock: the other idle engines are put to sleep, a loaded engine
\* is taken at once, a missing one is loaded in the mode of this moment.  One
\* that is registered with its flag loaded down is never met: load() raises it
\* before the engine is registered, and what lowers it is the end of unload(),
\* after which the lock's holder removes the engine with no suspension between.
Acquire(u) ==
  LET m == at[u] IN
  /\ pc[u] = "toLoad"
  /\ LockFree(m)
  /\ asleep' = asleep \cup {n \in loaded \ {m} : count[n] = 0}
  /\ IF m \in loaded
       THEN /\ pc' = [pc EXCEPT ![u] = "holding"]
            /\ count' = [count EXCEPT ![m] = @ + 1]
            /\ UNCHANGED modeOf
       ELSE /\ pc' = [pc EXCEPT ![u] = "loading"]
            /\ modeOf' = [modeOf EXCEPT ![m] = mode]
            /\ UNCHANGED count
  /\ UNCHANGED <<at, sweeps, mode, loaded, orphans, auto, timer, doomed>>

Loaded(u) ==
  /\ pc[u] = "loading"
  /\ pc' = [pc EXCEPT ![u] = "holding"]
  /\ loaded' = loaded \cup {at[u]}
  /\ count' = [count EXCEPT ![at[u]] = @ + 1]
  /\ UNCHANGED <<at, sweeps, mode, modeOf, asleep, orphans, auto, timer, doomed>>

\* load() raises, or the chat is aborted while it waits for the lock or the
\* load: the try block is not entered and nothing is undone.
Abandon(u) ==
  /\ Faults
  /\ pc[u] \in {"toLoad", "loading"}
  /\ pc' = [pc EXCEPT ![u] = "out"]
  /\ UNCHANGED <<at, sweeps, engines, auto, timer, doomed>>

\* the handler runs inference, which wakes its engine up
Infer(u) ==
  /\ pc[u] = "holding"
  /\ pc' = [pc EXCEPT ![u] = "inferring"]
  /\ asleep' = IF u \in orphans THEN asleep ELSE asleep \ {at[u]}
  /\ UNCHANGED <<at, sweeps, mode, loaded, modeOf, count, orphans, auto,
                 timer, doomed>>

\* event.set(): whoever drains m goes on to unload it
Drained(f, m) ==
  [p \in Procs |-> IF f[p] = "draining" /\ at[p] = m THEN "unloading" ELSE f[p]]

\* Variant with a bug: the event is not set.
ExitSilently(u) ==
  /\ pc[u] \in Holding
  /\ count' = [count EXCEPT ![at[u]] = IF @ <= 1 THEN 0 ELSE @ - 1]
  /\ orphans' = orphans \ {u}
  /\ UNCHANGED <<at, sweeps, mode, loaded, modeOf, asleep, auto>>
  /\ CheckIdle(u, [pc EXCEPT ![u] = "out"])

Exit(u) ==
  LET m == at[u]
      left == [pc EXCEPT ![u] = "out"]
  IN
  /\ pc[u] \in Holding
  /\ count' = [count EXCEPT ![m] = IF @ <= 1 THEN 0 ELSE @ - 1]
  /\ orphans' = orphans \ {u}
  /\ UNCHANGED <<at, sweeps, mode, loaded, modeOf, asleep, auto>>
  /\ CheckIdle(u, IF count[m] <= 1 THEN Drained(left, m) ELSE left)

-----------------------------------------------------------------------------
(* load_model                                                              *)

LoadCommand(m) ==
  /\ pc[Loop] = "out"
  /\ pc' = [pc EXCEPT ![Loop] = "toLoad"]
  /\ at' = [at EXCEPT ![Loop] = m]
  /\ UNCHANGED <<sweeps, engines, auto, timer, doomed>>

StartLoad ==
  LET m == at[Loop] IN
  /\ pc[Loop] = "toLoad"
  /\ LockFree(m)
  /\ UNCHANGED <<at, sweeps, mode, loaded, count, asleep, orphans, auto>>
  /\ IF m \in loaded
       THEN /\ UNCHANGED modeOf
            /\ CheckIdle(Loop, [pc EXCEPT ![Loop] = "out"])
       ELSE /\ pc' = [pc EXCEPT ![Loop] = "loading"]
            /\ modeOf' = [modeOf EXCEPT ![m] = mode]
            /\ UNCHANGED <<timer, doomed>>

\* Variant with a bug: load_model does not schedule the idle unload.
FinishLoadUnscheduled ==
  /\ pc[Loop] = "loading"
  /\ loaded' = loaded \cup {at[Loop]}
  /\ pc' = [pc EXCEPT ![Loop] = "out"]
  /\ UNCHANGED <<at, sweeps, mode, modeOf, count, asleep, orphans, auto,
                 timer, doomed>>

FinishLoad ==
  /\ pc[Loop] = "loading"
  /\ loaded' = loaded \cup {at[Loop]}
  /\ UNCHANGED <<at, sweeps, mode, modeOf, count, asleep, orphans, auto>>
  /\ CheckIdle(Loop, [pc EXCEPT ![Loop] = "out"])

FailLoad ==
  /\ Faults
  /\ pc[Loop] = "loading"
  /\ pc' = [pc EXCEPT ![Loop] = "out"]
  /\ UNCHANGED <<at, sweeps, engines, auto, timer, doomed>>

-----------------------------------------------------------------------------
(* unload_model and unload_all_models, run by the message loop or by an    *)
(* idle worker                                                             *)

\* unload_all_models takes its snapshot of the names
Sweep(p) ==
  IF loaded = {}
    THEN /\ CheckIdle(p, pc)
         /\ UNCHANGED <<at, todo>>
    ELSE \E m \in loaded :
           /\ pc' = [pc EXCEPT ![p] = "toUnload"]
           /\ at' = [at EXCEPT ![p] = m]
           /\ todo' = [todo EXCEPT ![p] = loaded \ {m}]
           /\ UNCHANGED <<timer, doomed>>

UnloadCommand(m) ==
  /\ pc[Loop] = "out"
  /\ pc' = [pc EXCEPT ![Loop] = "toUnload"]
  /\ at' = [at EXCEPT ![Loop] = m]
  /\ UNCHANGED <<sweeps, engines, auto, timer, doomed>>

UnloadAllCommand ==
  /\ pc[Loop] = "out"
  /\ UNCHANGED <<freed, engines, auto>>
  /\ Sweep(Loop)

SetWorkMode(k) ==
  /\ pc[Loop] = "out"
  /\ k # mode
  /\ mode' = k
  /\ UNCHANGED <<freed, loaded, modeOf, count, asleep, orphans, auto>>
  /\ Sweep(Loop)

\* The sleep of the idle worker is over.  It lasts a minute or more, by then
\* a worker that cancelled itself has run into its next suspension.
Fire(w) ==
  /\ pc[w] = "armed"
  /\ doomed = {}
  /\ freed' = freed \ {w}
  /\ UNCHANGED <<engines, auto>>
  /\ Sweep(w)

\* The end of one unload: the timer is checked and the sweep goes on.  The
\* last check of unload_all_models repeats this one without a suspension.
NextUnload(p) ==
  IF todo[p] # {}
    THEN \E m \in todo[p] :
           /\ at' = [at EXCEPT ![p] = m]
           /\ todo' = [todo EXCEPT ![p] = @ \ {m}]
           /\ CheckIdle(p, [pc EXCEPT ![p] = "toUnload"])
    ELSE /\ UNCHANGED <<at, todo>>
         /\ CheckIdle(p, [pc EXCEPT ![p] = IF p \in Workers THEN "reporting"
                                                             ELSE "out"])

StartUnload(p) ==
  LET m == at[p] IN
  /\ pc[p] = "toUnload"
  /\ LockFree(m)
  /\ UNCHANGED <<freed, engines, auto>>
  /\ IF count[m] = 0 /\ m \notin loaded
       THEN NextUnload(p)
       ELSE /\ pc' = [pc EXCEPT ![p] = IF count[m] > 0 THEN "draining"
                                                        ELSE "unloading"]
            /\ UNCHANGED <<at, todo, timer, doomed>>

\* Variant with a bug: the drain has no timeout and ends only when it need not.
DrainForever(p) ==
  /\ pc[p] = "draining"
  /\ count[at[p]] = 0
  /\ pc' = [pc EXCEPT ![p] = "forcing"]
  /\ UNCHANGED <<at, sweeps, engines, auto, timer, doomed>>

DrainTimeout(p) ==
  /\ pc[p] = "draining"
  /\ pc' = [pc EXCEPT ![p] = "forcing"]
  /\ UNCHANGED <<at, sweeps, engines, auto, timer, doomed>>

\* Variant with a bug: the count of the removed engine is dropped with it.
UnloadedUncounted(p) ==
  /\ pc[p] \in {"unloading", "forcing"}
  /\ loaded' = loaded \ {at[p]}
  /\ asleep' = asleep \ {at[p]}
  /\ count' = [count EXCEPT ![at[p]] = 0]
  /\ UNCHANGED <<mode, modeOf, auto, orphans, freed>>
  /\ NextUnload(p)

Unloaded(p) ==
  LET m == at[p] IN
  /\ pc[p] \in {"unloading", "forcing"}
  /\ loaded' = loaded \ {m}
  /\ asleep' = asleep \ {m}
  /\ orphans' = orphans \cup {u \in Users : pc[u] \in Holding /\ at[u] = m}
  /\ freed' = IF p \in Workers /\ m \in loaded THEN freed \cup {p} ELSE freed
  /\ UNCHANGED <<mode, modeOf, count, auto>>
  /\ NextUnload(p)

-----------------------------------------------------------------------------
(* The end of an idle worker, and set_auto_unload_minutes                  *)

Leave(w) ==
  /\ pc' = [pc EXCEPT ![w] = "out"]
  /\ timer' = IF timer = w THEN None ELSE timer
  /\ doomed' = doomed \ {w}
  /\ freed' = freed \ {w}
  /\ UNCHANGED <<at, todo, engines, auto>>

\* the callback, when something was unloaded
Report(w) == pc[w] = "reporting" /\ Leave(w)

\* CancelledError at a suspension of a worker that cancelled itself
Die(w) == w \in doomed /\ pc[w] # "out" /\ Leave(w)

\* Variant with a bug: switching auto-unload off leaves the timer armed.
SetAutoUnloadOnly(b) ==
  /\ pc[Loop] = "out"
  /\ auto' = b
  /\ UNCHANGED <<pc, at, sweeps, engines, timer, doomed>>

SetAutoUnload(b) ==
  /\ pc[Loop] = "out"
  /\ auto' = b
  /\ UNCHANGED <<at, sweeps, engines>>
  /\ CheckIdle(Loop, pc)

-----------------------------------------------------------------------------
UserStep(u) ==
  \/ \E m \in Models : Enter(u, m)
  \/ Acquire(u)
  \/ Loaded(u)
  \/ Abandon(u)
  \/ Infer(u)
  \/ Exit(u)

Command ==
  \/ \E m \in Models : LoadCommand(m) \/ UnloadCommand(m)
  \/ UnloadAllCommand
  \/ \E k \in Modes : SetWorkMode(k)
  \/ \E b \in BOOLEAN : SetAutoUnload(b)

LoadStep == StartLoad \/ FinishLoad \/ FailLoad

UnloadStep(p) == StartUnload(p) \/ DrainTimeout(p) \/ Unloaded(p)

WorkerStep(w) == Fire(w) \/ Report(w) \/ Die(w)

Next ==
  \/ \E u \in Users : UserStep(u)
  \/ Command
  \/ LoadStep
  \/ \E p \in Workers \cup {Loop} : UnloadStep(p)
  \/ \E w \in Workers : WorkerStep(w)

Spec == Init /\ [][Next]_vars

\* Ready tasks run; load() and unload() return; the drain and the idle sleep
\* are timers; asyncio.Lock serves its waiters in order.  Nothing is assumed
\* of the inferences, which may take for ever, nor of the controller.
FairSpec ==
  /\ Spec
  /\ \A u \in Users : SF_vars(Acquire(u)) /\ WF_vars(Loaded(u))
  /\ SF_vars(StartLoad) /\ WF_vars(FinishLoad)
  /\ \A p \in Workers \cup {Loop} :
       SF_vars(StartUnload(p)) /\ WF_vars(DrainTimeout(p)) /\ WF_vars(Unloaded(p))
  /\ \A w \in Workers : WF_vars(Fire(w)) /\ WF_vars(Report(w))

-----------------------------------------------------------------------------
Holders(m) == {u \in Users : pc[u] \in Holding /\ at[u] = m}

TypeOK ==
  /\ pc \in [Procs -> Stages]
  /\ at \in [Procs -> Models]
  /\ todo \in [Procs -> SUBSET Models]
  /\ mode \in Modes
  /\ loaded \subseteq Models
  /\ modeOf \in [Models -> Modes]
  /\ count \in [Models -> Nat]
  /\ asleep \subseteq loaded
  /\ orphans \subseteq Users
  /\ auto \in BOOLEAN
  /\ timer \in Workers \cup {None}
  /\ doomed \subseteq Workers
  /\ freed \subseteq Workers

(* The reference count of a model is the number of contexts of             *)
(* acquire_engine open on it, through failed loads, aborted waits and      *)
(* forced unloads (after which the count of the removed engine goes on).   *)
CountsAreHolders == \A m \in Models : count[m] = Cardinality(Holders(m))

(* An engine is taken from its users only by an unload whose drain timed   *)
(* out: between the drain, or the test that none is needed, and the end of *)
(* engine.unload() nobody comes to hold the model.                         *)
DrainedBeforeUnload ==
  \A p \in Procs : pc[p] = "unloading" => Holders(at[p]) = {}

(* A model is loaded by one task at a time, and never while the registry   *)
(* already has an engine of that name: the weights are not loaded twice.   *)
LoadedOnce ==
  \A p \in Procs : pc[p] = "loading" =>
    /\ at[p] \notin loaded
    /\ \A q \in Procs \ {p} : ~(pc[q] \in Critical /\ at[q] = at[p])

(* The pre-emptive sleep of the other engines never hits one that runs an  *)
(* inference, although it is decided by another task's lock.               *)
NoInferenceAsleep ==
  \A u \in Users \ orphans : pc[u] = "inferring" => at[u] \notin asleep

(* An unload that waits in drain_event.wait() has somebody to wait for:    *)
(* the event of the last user is not missed.                               *)
DrainHasHolders ==
  \A p \in Procs : pc[p] = "draining" => Holders(at[p]) # {}

(* The idle timer runs only while auto-unload is on and there is something *)
(* to unload, and no armed timer is forgotten: at most one worker sleeps,  *)
(* and it is the one that _idle_unload_task can cancel.                    *)
TimerIsCurrent ==
  \A w \in Workers : pc[w] = "armed" => timer = w /\ auto /\ loaded # {}

(* The engine of each model keeps what EngineLease promises: contexts are  *)
(* opened only on an engine that is ready or was just loaded, and those    *)
(* that are open lose it only to a drain that was given up, through all    *)
(* that loads, unloads and the timer do to other models meanwhile.         *)
Doing(m, s) == \E p \in Procs : pc[p] = s /\ at[p] = m

StateOf(m) ==
  IF m \notin loaded THEN IF Doing(m, "loading") THEN "loading" ELSE "none"
  ELSE IF Doing(m, "draining") THEN "draining"
  ELSE IF Doing(m, "forcing") THEN "forced"
  ELSE IF Doing(m, "unloading") THEN "closing" ELSE "ready"

Engine(m) == INSTANCE EngineLease
               WITH state <- StateOf(m), users <- Holders(m),
                    lost <- Holders(m) \cap orphans

LeasesKept ==
  /\ \A m \in Models : Engine(m)!LInit
  /\ [][\A m \in Models : [Engine(m)!LNext]_(Engine(m)!lvars)]_vars

(* Whoever asks for an engine gets out of the queue for its load lock,     *)
(* even if an inference on the model never ends: an unload that holds the  *)
(* lock drains for a bounded time.                                         *)
AcquirersAreServed ==
  \A u \in Users : pc[u] = "toLoad" ~> pc[u] # "toLoad"

Reconfigure == \E b \in BOOLEAN : SetAutoUnload(b)

Quiet == \A p \in Users \cup {Loop} : pc[p] = "out"

(* An agent that stays idle with auto-unload on ends with nothing loaded,  *)
(* although the worker that unloads the models cancels itself on the way.  *)
(* (A set_config that comes again and again puts the unload off for ever.) *)
IdleModelsUnloaded ==
  <>[](auto /\ Quiet) /\ <>[][~Reconfigure]_vars => <>[](loaded = {})

-----------------------------------------------------------------------------
(* What the documentation says and the code does not do.                   *)

(* registry.py:214, "Guarantees the model cannot be concurrently unloaded  *)
(* while the context block is executing."                                  *)
EngineOutlivesContext == \A u \in Users : pc[u] \in Holding => u \notin orphans

(* registry.py:190, "ModelRegistry idle for %.1fs": the timer counts while *)
(* nobody holds an engine.                                                 *)
TimerCountsIdleTime ==
  timer # None /\ pc[timer] = "armed" => \A u \in Users : pc[u] \notin Holding

(* registry.py:152, idle models are unloaded: idle engines have a timer.   *)
IdleModelsHaveTimer ==
  Quiet /\ auto /\ loaded # {} => \E w \in Workers : pc[w] # "out"

(* registry.py:104, "Unload all models so future loads use the new device  *)
(* mode": with no command in progress every engine is in the mode chosen.  *)
ModeIsFollowed ==
  Quiet => \A m \in loaded : modeOf[m] = mode

(* registry.py:164, "Register a callback (sync or async) invoked after     *)
(* models are auto-unloaded": no worker that unloaded one ends without it. *)
CallbackFollowsUnload ==
  [][\A w \in freed : pc'[w] = "out" => pc[w] \in {"reporting", "out"}]_vars
=============================================================================
