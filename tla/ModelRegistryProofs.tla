------------------------ MODULE ModelRegistryProofs ------------------------
(***************************************************************************)
(* Proofs about the model registry: every safety property of ModelRegistry *)
(* that its exhaustive runs check, for any number of users, idle workers,  *)
(* models and modes.                                                       *)
(*                                                                         *)
(* Whatever a step does to the idle timer, it touches idle workers only,   *)
(* and leaves them outside of every load lock (Touches).  With this, the   *)
(* types come first, then the stages each kind of task can be in and the   *)
(* exclusion of the load locks, then the reference counts, and from those  *)
(* the properties of the drain, of the sleeping engines and of the timer.  *)
(***************************************************************************)
EXTENDS ModelRegistry, FiniteSetTheorems, TLAPS

-----------------------------------------------------------------------------
(* The effect of the timer on the stages                                   *)

\* pc' is f but for idle workers that were cancelled or armed
Touches(f) ==
  /\ pc' \in [Procs -> Stages]
  /\ \A q \in Procs :
       pc'[q] = f[q] \/ (q \in Workers /\ pc'[q] \in {"out", "armed"})

TimerTyped == timer \in Workers \cup {None} /\ doomed \subseteq Workers

\* Cancelling the timer (registry.py _cancel_idle_unload_timer) stops the
\* armed worker at most.
LEMMA CancelTouches ==
  ASSUME TypeOK, NEW p \in Procs, NEW f \in [Procs -> Stages],
         CancelIdleTimer(p, f)
  PROVE  Touches(f) /\ TimerTyped'
  BY RegistryAssumption
     DEF TypeOK, CancelIdleTimer, Stopped, Doomed, Touches, TimerTyped, Procs, Stages

\* _check_and_schedule_idle_unload stops one worker and arms another at most.
LEMMA CheckTouches ==
  ASSUME TypeOK, NEW p \in Procs, NEW f \in [Procs -> Stages],
         CheckIdle(p, f)
  PROVE  Touches(f) /\ TimerTyped'
<1>1. CASE CancelIdleTimer(p, f)
  BY <1>1, CancelTouches
<1>2. CASE ~CancelIdleTimer(p, f)
  <2>1. PICK w \in Workers \ {p} :
          /\ timer' = w
          /\ pc' = [Stopped(f, p) EXCEPT ![w] = "armed"]
          /\ doomed' = Doomed(p)
    BY <1>2 DEF CheckIdle
  <2>2. QED
    BY <2>1, RegistryAssumption
       DEF TypeOK, Stopped, Doomed, Touches, TimerTyped, Procs, Stages
<1>3. QED
  BY <1>1, <1>2

\* What unload_all_models does first: the task is where it was, or on its
\* way to unload the first model.
LEMMA SweepShape ==
  ASSUME TypeOK, NEW p \in Procs, Sweep(p)
  PROVE  /\ \E s \in {pc[p], "toUnload"} : Touches([pc EXCEPT ![p] = s])
         /\ TimerTyped'
         /\ at' \in [Procs -> Models]
         /\ todo' \in [Procs -> SUBSET Models]
         /\ \A q \in Procs \ {p} : at'[q] = at[q]
<1>1. CASE loaded = {}
  <2>1. CheckIdle(p, pc) /\ UNCHANGED <<at, todo>>
    BY <1>1 DEF Sweep
  <2>2. pc \in [Procs -> Stages]
    BY DEF TypeOK
  <2>3. Touches(pc) /\ TimerTyped'
    BY <2>1, <2>2, CheckTouches
  <2>4. pc = [pc EXCEPT ![p] = pc[p]]
    BY <2>2
  <2>5. QED
    BY <2>1, <2>3, <2>4 DEF TypeOK
<1>2. CASE loaded # {}
  BY <1>2 DEF Sweep, TypeOK, Touches, TimerTyped, Stages
<1>3. QED
  BY <1>1, <1>2

\* What the end of one unload does: the task goes on to the next model, or
\* its unloading is over.
LEMMA NextUnloadShape ==
  ASSUME TypeOK, NEW p \in Procs, NextUnload(p)
  PROVE  /\ \E s \in {"toUnload", IF p \in Workers THEN "reporting" ELSE "out"} :
              Touches([pc EXCEPT ![p] = s])
         /\ TimerTyped'
         /\ at' \in [Procs -> Models]
         /\ todo' \in [Procs -> SUBSET Models]
         /\ \A q \in Procs \ {p} : at'[q] = at[q]
<1> DEFINE end == IF p \in Workers THEN "reporting" ELSE "out"
           F(s) == [pc EXCEPT ![p] = s]
<1>1. F("toUnload") \in [Procs -> Stages] /\ F(end) \in [Procs -> Stages]
  BY DEF TypeOK, Stages
<1>2. CASE todo[p] # {}
  <2>1. PICK m \in todo[p] :
          /\ at' = [at EXCEPT ![p] = m]
          /\ todo' = [todo EXCEPT ![p] = @ \ {m}]
          /\ CheckIdle(p, F("toUnload"))
    BY <1>2 DEF NextUnload
  <2>2. Touches(F("toUnload")) /\ TimerTyped'
    BY <1>1, <2>1, CheckTouches
  <2>3. QED
    BY <2>1, <2>2 DEF TypeOK
<1>3. CASE todo[p] = {}
  <2>1. UNCHANGED <<at, todo>> /\ CheckIdle(p, F(end))
    BY <1>3 DEF NextUnload
  <2>2. Touches(F(end)) /\ TimerTyped'
    BY <1>1, <2>1, CheckTouches
  <2>3. QED
    BY <2>1, <2>2 DEF TypeOK
<1>4. QED
  BY <1>2, <1>3

-----------------------------------------------------------------------------
(* Types                                                                   *)

LEMMA InitTyped == Init => TypeOK
BY RegistryAssumption DEF Init, TypeOK, Stages

\* What users do keeps the types.
LEMMA UserTyped ==
  ASSUME TypeOK, NEW u \in Users, UserStep(u)
  PROVE  TypeOK'
<1>1. u \in Procs
  BY DEF Procs
<1>2. ASSUME NEW m \in Models, Enter(u, m) PROVE TypeOK'
  <2>1. [pc EXCEPT ![u] = "toLoad"] \in [Procs -> Stages]
    BY DEF TypeOK, Stages
  <2>2. Touches([pc EXCEPT ![u] = "toLoad"]) /\ TimerTyped'
    BY <1>1, <1>2, <2>1, CancelTouches DEF Enter
  <2>3. QED
    BY <1>1, <1>2, <2>2 DEF Enter, Touches, TimerTyped, TypeOK, engines, sweeps
<1>3. CASE Acquire(u)
  BY <1>1, <1>3 DEF Acquire, TypeOK, Stages, Holding, Critical, sweeps
<1>4. CASE Loaded(u)
  BY <1>1, <1>4 DEF Loaded, TypeOK, Stages, Holding, sweeps
<1>5. CASE Abandon(u)
  BY <1>1, <1>5 DEF Abandon, TypeOK, Stages, sweeps, engines
<1>6. CASE Infer(u)
  BY <1>1, <1>6 DEF Infer, TypeOK, Stages, Holding, sweeps
<1>7. CASE Exit(u)
  <2> DEFINE left == [pc EXCEPT ![u] = "out"]
             f == IF count[at[u]] <= 1 THEN Drained(left, at[u]) ELSE left
  <2>1. f \in [Procs -> Stages]
    BY DEF TypeOK, Drained, Stages, Critical
  <2>2. CheckIdle(u, f)
    BY <1>7 DEF Exit
  <2>3. Touches(f) /\ TimerTyped'
    BY <1>1, <2>1, <2>2, CheckTouches
  <2>4. count' \in [Models -> Nat]
    <3>1. count' = [count EXCEPT ![at[u]] = IF count[at[u]] <= 1 THEN 0
                                                ELSE count[at[u]] - 1]
      BY <1>7 DEF Exit
    <3>2. count \in [Models -> Nat]
      BY DEF TypeOK
    <3>3. \A n \in Nat : (IF n <= 1 THEN 0 ELSE n - 1) \in Nat
      OBVIOUS
    <3>4. CASE at[u] \in Models
      BY <3>1, <3>2, <3>3, <3>4
    <3>5. QED
      BY <1>1, <3>4 DEF TypeOK
  <2>5. QED
    BY <1>1, <1>7, <2>3, <2>4
       DEF Exit, Touches, TimerTyped, TypeOK, sweeps
<1>8. QED
  BY <1>2, <1>3, <1>4, <1>5, <1>6, <1>7 DEF UserStep

\* The commands of the controller keep the types.
LEMMA CommandTyped == TypeOK /\ Command => TypeOK'
<1> SUFFICES ASSUME TypeOK, Command PROVE TypeOK'
  OBVIOUS
<1>1. Loop \in Procs /\ pc \in [Procs -> Stages]
  BY DEF Procs, TypeOK
<1>2. ASSUME NEW m \in Models, LoadCommand(m) \/ UnloadCommand(m) PROVE TypeOK'
  BY <1>1, <1>2 DEF LoadCommand, UnloadCommand, TypeOK, Stages, sweeps, engines
<1>3. CASE UnloadAllCommand
  BY <1>1, <1>3, SweepShape
     DEF UnloadAllCommand, TypeOK, Touches, TimerTyped, engines
<1>4. ASSUME NEW k \in Modes, SetWorkMode(k) PROVE TypeOK'
  BY <1>1, <1>4, SweepShape DEF SetWorkMode, TypeOK, Touches, TimerTyped
<1>5. ASSUME NEW b \in BOOLEAN, SetAutoUnload(b) PROVE TypeOK'
  <2>1. Touches(pc) /\ TimerTyped'
    BY <1>1, <1>5, CheckTouches DEF SetAutoUnload
  <2>2. QED
    BY <1>5, <2>1 DEF SetAutoUnload, TypeOK, Touches, TimerTyped, sweeps, engines
<1>6. QED
  BY <1>2, <1>3, <1>4, <1>5 DEF Command

\* load_model keeps the types.
LEMMA LoadTyped == TypeOK /\ LoadStep => TypeOK'
<1> SUFFICES ASSUME TypeOK, LoadStep PROVE TypeOK'
  OBVIOUS
<1> DEFINE done == [pc EXCEPT ![Loop] = "out"]
<1>1. Loop \in Procs /\ done \in [Procs -> Stages]
  BY DEF Procs, TypeOK, Stages
<1>2. CheckIdle(Loop, done) => Touches(done) /\ TimerTyped'
  BY <1>1, CheckTouches
<1> HIDE DEF done
<1>3. CASE StartLoad
  <2>1. CASE at[Loop] \in loaded
    <3>1. CheckIdle(Loop, done) /\ UNCHANGED modeOf
      BY <1>3, <2>1 DEF StartLoad, done
    <3>2. QED
      BY <1>2, <1>3, <3>1 DEF StartLoad, TypeOK, Touches, TimerTyped, sweeps
  <2>2. CASE at[Loop] \notin loaded
    BY <1>1, <1>3, <2>2
       DEF StartLoad, TypeOK, Stages, Critical, Touches, TimerTyped, sweeps
  <2>3. QED
    BY <2>1, <2>2
<1>4. CASE FinishLoad
  <2>1. CheckIdle(Loop, done)
    BY <1>4 DEF FinishLoad, done
  <2>2. QED
    BY <1>1, <1>2, <1>4, <2>1
       DEF FinishLoad, TypeOK, Touches, TimerTyped, sweeps
<1>5. CASE FailLoad
  BY <1>1, <1>5 DEF FailLoad, TypeOK, Stages, sweeps, engines
<1>6. QED
  BY <1>3, <1>4, <1>5 DEF LoadStep

\* Unloading keeps the types.
LEMMA UnloadTyped ==
  ASSUME TypeOK, NEW p \in Workers \cup {Loop}, UnloadStep(p)
  PROVE  TypeOK'
<1>1. p \in Procs
  BY DEF Procs
<1>2. CASE StartUnload(p)
  <2>1. CASE count[at[p]] = 0 /\ at[p] \notin loaded
    <3>1. NextUnload(p)
      BY <1>2, <2>1 DEF StartUnload
    <3>2. QED
      BY <1>1, <1>2, <3>1, NextUnloadShape
         DEF StartUnload, TypeOK, Touches, TimerTyped, engines
  <2>2. CASE ~(count[at[p]] = 0 /\ at[p] \notin loaded)
    BY <1>1, <1>2, <2>2 DEF StartUnload, TypeOK, Stages, Critical, engines
  <2>3. QED
    BY <2>1, <2>2
<1>3. CASE DrainTimeout(p)
  BY <1>1, <1>3 DEF DrainTimeout, TypeOK, Stages, Critical, sweeps, engines
<1>4. CASE Unloaded(p)
  <2>1. NextUnload(p)
    BY <1>4 DEF Unloaded
  <2>2. QED
    BY <1>1, <1>4, <2>1, NextUnloadShape
       DEF Unloaded, TypeOK, Touches, TimerTyped
<1>5. QED
  BY <1>2, <1>3, <1>4 DEF UnloadStep

\* The idle workers keep the types.
LEMMA WorkerTyped ==
  ASSUME TypeOK, NEW w \in Workers, WorkerStep(w)
  PROVE  TypeOK'
<1>1. w \in Procs
  BY DEF Procs
<1>2. CASE Fire(w)
  BY <1>1, <1>2, SweepShape DEF Fire, TypeOK, Touches, TimerTyped, engines
<1>3. CASE Leave(w)
  BY <1>1, <1>3 DEF Leave, TypeOK, Stages, engines
<1>4. QED
  BY <1>2, <1>3 DEF WorkerStep, Report, Die

\* Every step keeps the types.
LEMMA NextTyped == TypeOK /\ [Next]_vars => TypeOK'
<1> SUFFICES ASSUME TypeOK, [Next]_vars PROVE TypeOK'
  OBVIOUS
<1>1. CASE Next
  BY <1>1, UserTyped, CommandTyped, LoadTyped, UnloadTyped, WorkerTyped DEF Next
<1>2. CASE UNCHANGED vars
  BY <1>2 DEF vars, TypeOK
<1>3. QED
  BY <1>1, <1>2

(* The registry's tables keep their types: a reference count never goes    *)
(* negative, only a loaded engine is asleep, the timer is an idle worker.  *)
THEOREM RegistryTyped == Spec => []TypeOK
<1>1. QED
  BY InitTyped, NextTyped, PTL DEF Spec

-----------------------------------------------------------------------------
(* The steps of the message loop and of the idle workers, seen from the    *)
(* tasks they do not belong to                                             *)

UserStages == {"out", "toLoad", "loading"} \cup Holding
LoopStages == {"out", "toLoad", "toUnload"} \cup Critical
WorkerStages ==
  {"out", "armed", "toUnload", "reporting", "draining", "forcing", "unloading"}

StagesFit ==
  /\ \A u \in Users : pc[u] \in UserStages
  /\ pc[Loop] \in LoopStages
  /\ \A w \in Workers : pc[w] \in WorkerStages

\* The engines stay, but for one that p has loaded or unloaded, which its
\* users have lost then.
Changes(p) ==
  \/ loaded' = loaded /\ orphans' = orphans
  \/ /\ pc[p] = "loading" /\ pc'[p] \notin Critical
     /\ loaded' = loaded \cup {at[p]} /\ orphans' = orphans
  \/ /\ pc[p] \in {"unloading", "forcing"} /\ pc'[p] \notin Critical
     /\ loaded' = loaded \ {at[p]} /\ orphans' = orphans \cup Holders(at[p])

\* Other tasks stay where they are, but for idle workers; the task p takes a
\* lock that is free and starts what the tables call for; the reference
\* counts stay, no engine falls asleep, and only a finished load adds one.
Service(p) ==
  /\ \A q \in Procs \ {p} :
       /\ at'[q] = at[q]
       /\ pc'[q] = pc[q] \/ (q \in Workers /\ pc'[q] \in {"out", "armed"})
  /\ pc'[p] \in IF p = Loop THEN LoopStages ELSE WorkerStages
  /\ pc'[p] \in Critical =>
       at'[p] = at[p] /\ (pc[p] \in Critical \/ LockFree(at[p]))
  /\ pc'[p] = "loading" => at[p] \notin loaded
  /\ pc'[p] = "draining" => count[at[p]] # 0
  /\ pc'[p] = "unloading" => count[at[p]] = 0
  /\ pc'[p] = "forcing" => pc[p] \in {"draining", "forcing"}
  /\ pc[p] \in Critical => pc'[p] \notin Critical \/ pc'[p] \in {pc[p], "forcing"}
  /\ Changes(p)
  /\ count' = count
  /\ asleep' \subseteq asleep

Serving == Workers \cup {Loop}

LEMMA CommandServes ==
  ASSUME TypeOK, StagesFit, Command
  PROVE  Service(Loop)
<1>1. Loop \in Procs /\ pc \in [Procs -> Stages] /\ at \in [Procs -> Models]
      /\ Loop \notin Workers
  BY RegistryAssumption DEF Procs, TypeOK
<1>2. ASSUME NEW m \in Models, LoadCommand(m) \/ UnloadCommand(m)
      PROVE  Service(Loop)
  BY <1>1, <1>2
     DEF LoadCommand, UnloadCommand, Service, Changes, engines, LoopStages, Critical
<1>3. CASE UnloadAllCommand
  BY <1>1, <1>3, SweepShape
     DEF UnloadAllCommand, Touches, Service, Changes, engines, LoopStages, Critical
<1>4. ASSUME NEW k \in Modes, SetWorkMode(k) PROVE Service(Loop)
  BY <1>1, <1>4, SweepShape
     DEF SetWorkMode, Touches, Service, Changes, LoopStages, Critical
<1>5. ASSUME NEW b \in BOOLEAN, SetAutoUnload(b) PROVE Service(Loop)
  <2>1. Touches(pc)
    BY <1>1, <1>5, CheckTouches DEF SetAutoUnload
  <2>2. QED
    BY <1>1, <1>5, <2>1
       DEF SetAutoUnload, Touches, Service, Changes, engines, LoopStages, Critical
<1>6. QED
  BY <1>2, <1>3, <1>4, <1>5 DEF Command

LEMMA LoadServes ==
  ASSUME TypeOK, StagesFit, LoadStep
  PROVE  Service(Loop)
<1> DEFINE done == [pc EXCEPT ![Loop] = "out"]
<1>1. Loop \in Procs /\ pc \in [Procs -> Stages] /\ done \in [Procs -> Stages]
      /\ Loop \notin Workers
  BY RegistryAssumption DEF Procs, TypeOK, Stages
<1>2. CheckIdle(Loop, done) => Touches(done)
  BY <1>1, CheckTouches
<1>3. CASE StartLoad
  <2>1. CASE at[Loop] \in loaded
    <3>1. CheckIdle(Loop, done)
      BY <1>3, <2>1 DEF StartLoad
    <3>2. QED
      BY <1>1, <1>2, <1>3, <3>1
         DEF StartLoad, Touches, Service, Changes, LoopStages, Critical
  <2>2. CASE at[Loop] \notin loaded
    BY <1>1, <1>3, <2>2 DEF StartLoad, Service, Changes, LoopStages, Critical
  <2>3. QED
    BY <2>1, <2>2
<1>4. CASE FinishLoad
  <2>1. CheckIdle(Loop, done)
    BY <1>4 DEF FinishLoad
  <2>2. QED
    BY <1>1, <1>2, <1>4, <2>1
       DEF FinishLoad, Touches, Service, Changes, LoopStages, Critical
<1>5. CASE FailLoad
  BY <1>1, <1>5 DEF FailLoad, Service, Changes, engines, LoopStages, Critical
<1>6. QED
  BY <1>3, <1>4, <1>5 DEF LoadStep

LEMMA UnloadServes ==
  ASSUME TypeOK, StagesFit, NEW p \in Serving, UnloadStep(p)
  PROVE  Service(p)
<1>1. p \in Procs /\ pc \in [Procs -> Stages] /\ Loop \notin Workers
  BY RegistryAssumption DEF Procs, TypeOK, Serving
<1>2. CASE StartUnload(p)
  <2>1. CASE count[at[p]] = 0 /\ at[p] \notin loaded
    <3>1. NextUnload(p)
      BY <1>2, <2>1 DEF StartUnload
    <3>2. QED
      BY <1>1, <1>2, <3>1, NextUnloadShape
         DEF StartUnload, Touches, Service, Changes, engines, LoopStages, WorkerStages,
             Critical, Serving
  <2>2. CASE ~(count[at[p]] = 0 /\ at[p] \notin loaded)
    <3>1. count[at[p]] \in Nat
      BY <1>1 DEF TypeOK
    <3>2. QED
      BY <1>1, <1>2, <2>2, <3>1
         DEF StartUnload, Service, Changes, engines, LoopStages, WorkerStages, Critical,
             Serving
  <2>3. QED
    BY <2>1, <2>2
<1>3. CASE DrainTimeout(p)
  BY <1>1, <1>3
     DEF DrainTimeout, Service, Changes, sweeps, engines, LoopStages, WorkerStages,
         Critical, Serving
<1>4. CASE Unloaded(p)
  <2>1. NextUnload(p)
    BY <1>4 DEF Unloaded
  <2>2. QED
    BY <1>1, <1>4, <2>1, NextUnloadShape
       DEF Unloaded, Holders, Touches, Service, Changes, LoopStages, WorkerStages, Critical, Serving
<1>5. QED
  BY <1>2, <1>3, <1>4 DEF UnloadStep

LEMMA WorkerServes ==
  ASSUME TypeOK, StagesFit, NEW w \in Workers, WorkerStep(w)
  PROVE  Service(w)
<1>1. w \in Procs /\ pc \in [Procs -> Stages] /\ w # Loop
  BY RegistryAssumption DEF Procs, TypeOK
<1>2. CASE Fire(w)
  BY <1>1, <1>2, SweepShape
     DEF Fire, Touches, Service, Changes, engines, WorkerStages, Critical
<1>3. CASE Leave(w)
  BY <1>1, <1>3 DEF Leave, Service, Changes, engines, WorkerStages, Critical
<1>4. QED
  BY <1>2, <1>3 DEF WorkerStep, Report, Die

\* A step is a user's, a service step, or none.
LEMMA StepKinds ==
  ASSUME TypeOK, StagesFit, [Next]_vars
  PROVE  \/ \E u \in Users : UserStep(u)
         \/ \E p \in Serving : Service(p)
         \/ UNCHANGED vars
BY CommandServes, LoadServes, UnloadServes, WorkerServes DEF Next, Serving

-----------------------------------------------------------------------------
(* The load locks                                                          *)

LocksExclude ==
  \A p, q \in Procs :
    p # q /\ pc[p] \in Critical /\ pc[q] \in Critical => at[p] # at[q]

LoadsAreNeeded == \A p \in Procs : pc[p] = "loading" => at[p] \notin loaded

LInv == StagesFit /\ LocksExclude /\ LoadsAreNeeded

LEMMA InitLocks == Init => LInv
BY DEF Init, LInv, StagesFit, LocksExclude, LoadsAreNeeded, UserStages,
       LoopStages, WorkerStages, Critical, Procs

\* A step of one task that keeps the others out of new locks, and takes none
\* that is not free, keeps the locks exclusive.
LEMMA LocksFrame ==
  ASSUME LocksExclude, NEW p \in Procs,
         \A q \in Procs \ {p} :
           at'[q] = at[q] /\ (pc'[q] \in Critical => pc[q] \in Critical),
         pc'[p] \in Critical =>
           at'[p] = at[p] /\ (pc[p] \in Critical \/ LockFree(at[p]))
  PROVE  LocksExclude'
BY DEF LocksExclude, LockFree

LEMMA ServiceKeepsLocks ==
  ASSUME LInv, NEW p \in Serving, Service(p)
  PROVE  LInv'
<1>1. p \in Procs /\ Loop \notin Users /\ Users \cap Workers = {}
      /\ Loop \notin Workers
  BY RegistryAssumption DEF Procs, Serving
<1>2. StagesFit'
  <2>1. \A u \in Users : pc'[u] = pc[u]
    BY <1>1 DEF Service, Procs, Serving
  <2>2. pc'[Loop] \in LoopStages
    BY <1>1 DEF Service, LInv, StagesFit, Procs, Serving
  <2>3. \A w \in Workers : pc'[w] \in WorkerStages
    BY <1>1 DEF Service, LInv, StagesFit, Procs, Serving, WorkerStages
  <2>4. QED
    BY <2>1, <2>2, <2>3 DEF LInv, StagesFit
<1>3. LocksExclude'
  <2>1. \A q \in Procs \ {p} :
          at'[q] = at[q] /\ (pc'[q] \in Critical => pc[q] \in Critical)
    BY DEF Service, Critical
  <2>2. pc'[p] \in Critical =>
          at'[p] = at[p] /\ (pc[p] \in Critical \/ LockFree(at[p]))
    BY DEF Service
  <2>3. QED
    BY <1>1, <2>1, <2>2, LocksFrame DEF LInv
<1>4. LoadsAreNeeded'
  <2> SUFFICES ASSUME NEW q \in Procs, pc'[q] = "loading"
               PROVE  at'[q] \notin loaded'
    BY DEF LoadsAreNeeded
  <2>1. at'[q] = at[q] /\ at[q] \notin loaded /\ (q # p => pc[q] = "loading")
    <3>1. CASE q = p
      BY <3>1 DEF Service, Critical
    <3>2. CASE q # p
      BY <3>2 DEF Service, LInv, LoadsAreNeeded
    <3>3. QED
      BY <3>1, <3>2
  <2>2. CASE loaded' \subseteq loaded
    BY <2>1, <2>2
  <2>3. CASE pc[p] = "loading" /\ pc'[p] # "loading"
             /\ loaded' = loaded \cup {at[p]}
    BY <1>1, <2>1, <2>3 DEF LInv, LocksExclude, Critical
  <2>4. QED
    BY <2>2, <2>3 DEF Service, Changes, Critical
<1>5. QED
  BY <1>2, <1>3, <1>4 DEF LInv

LEMMA UserKeepsLocks ==
  ASSUME TypeOK, LInv, NEW u \in Users, UserStep(u)
  PROVE  LInv'
<1>1. u \in Procs /\ u \notin Workers /\ u # Loop /\ pc \in [Procs -> Stages]
      /\ at \in [Procs -> Models] /\ Users \cap Workers = {} /\ Loop \notin Users
      /\ Loop \notin Workers
  BY RegistryAssumption DEF Procs, TypeOK
\* what the six actions have in common
<1> DEFINE Common ==
      /\ \A q \in Procs \ {u} :
           /\ at'[q] = at[q]
           /\ \/ pc'[q] = pc[q]
              \/ q \in Workers /\ pc'[q] \in {"out", "armed"}
              \/ pc[q] = "draining" /\ pc'[q] = "unloading"
      /\ pc'[u] \in UserStages
      /\ pc'[u] \in Critical => at'[u] = at[u] /\ LockFree(at[u])
      /\ pc'[u] = "loading" => at[u] \notin loaded
      /\ \/ loaded' = loaded
         \/ pc[u] = "loading" /\ pc'[u] # "loading" /\ loaded' = loaded \cup {at[u]}
<1>2. Common
  <2>1. ASSUME NEW m \in Models, Enter(u, m) PROVE Common
    <3>1. [pc EXCEPT ![u] = "toLoad"] \in [Procs -> Stages]
      BY <1>1 DEF Stages
    <3>2. Touches([pc EXCEPT ![u] = "toLoad"])
      BY <1>1, <2>1, <3>1, CancelTouches DEF Enter
    <3>3. QED
      BY <1>1, <2>1, <3>2 DEF Enter, Touches, engines, UserStages, Critical
  <2>2. CASE Acquire(u)
    BY <1>1, <2>2 DEF Acquire, UserStages, Critical, Holding
  <2>3. CASE Loaded(u)
    BY <1>1, <2>3 DEF Loaded, UserStages, Critical, Holding
  <2>4. CASE Abandon(u)
    BY <1>1, <2>4 DEF Abandon, engines, UserStages, Critical
  <2>5. CASE Infer(u)
    BY <1>1, <2>5 DEF Infer, UserStages, Critical, Holding
  <2>6. CASE Exit(u)
    <3> DEFINE left == [pc EXCEPT ![u] = "out"]
               f == IF count[at[u]] <= 1 THEN Drained(left, at[u]) ELSE left
    <3>1. f \in [Procs -> Stages]
      BY <1>1 DEF Drained, Stages, Critical
    <3>2. Touches(f)
      BY <1>1, <2>6, <3>1, CheckTouches DEF Exit
    <3>3. \A q \in Procs : f[q] = left[q] \/ (left[q] = "draining" /\ f[q] = "unloading")
      BY <1>1 DEF Drained
    <3>4. \A q \in Procs \ {u} : left[q] = pc[q]
      BY <1>1
    <3>5. f[u] = "out"
      BY <1>1 DEF Drained
    <3>6. at' = at /\ loaded' = loaded
      BY <2>6 DEF Exit
    <3> HIDE DEF left, f
    <3>7. QED
      BY <1>1, <3>2, <3>3, <3>4, <3>5, <3>6 DEF Touches, UserStages, Critical
  <2>7. QED
    BY <2>1, <2>2, <2>3, <2>4, <2>5, <2>6 DEF UserStep
<1> HIDE DEF Common
<1>3. StagesFit'
  <2>1. \A v \in Users : pc'[v] \in UserStages
    BY <1>1, <1>2
       DEF Common, LInv, StagesFit, Procs, UserStages, Holding
  <2>2. pc'[Loop] \in LoopStages
    BY <1>1, <1>2 DEF Common, LInv, StagesFit, Procs, LoopStages, Critical
  <2>3. \A w \in Workers : pc'[w] \in WorkerStages
    BY <1>1, <1>2 DEF Common, LInv, StagesFit, Procs, WorkerStages
  <2>4. QED
    BY <2>1, <2>2, <2>3 DEF StagesFit
<1>4. LocksExclude'
  <2>1. \A q \in Procs \ {u} :
          at'[q] = at[q] /\ (pc'[q] \in Critical => pc[q] \in Critical)
    BY <1>2 DEF Common, Critical
  <2>2. pc'[u] \in Critical =>
          at'[u] = at[u] /\ (pc[u] \in Critical \/ LockFree(at[u]))
    BY <1>2 DEF Common
  <2>3. QED
    BY <1>1, <2>1, <2>2, LocksFrame DEF LInv
<1>5. LoadsAreNeeded'
  <2> SUFFICES ASSUME NEW q \in Procs, pc'[q] = "loading"
               PROVE  at'[q] \notin loaded'
    BY DEF LoadsAreNeeded
  <2>1. at'[q] = at[q] /\ at[q] \notin loaded /\ (q # u => pc[q] = "loading")
    <3>1. CASE q = u
      BY <1>2, <3>1 DEF Common, Critical
    <3>2. CASE q # u
      BY <1>2, <3>2 DEF Common, LInv, LoadsAreNeeded
    <3>3. QED
      BY <3>1, <3>2
  <2>2. CASE loaded' = loaded
    BY <2>1, <2>2
  <2>3. CASE pc[u] = "loading" /\ pc'[u] # "loading"
             /\ loaded' = loaded \cup {at[u]}
    BY <1>1, <2>1, <2>3 DEF LInv, LocksExclude, Critical
  <2>4. QED
    BY <1>2, <2>2, <2>3 DEF Common
<1>6. QED
  BY <1>3, <1>4, <1>5 DEF LInv

LEMMA NextKeepsLocks == TypeOK /\ LInv /\ [Next]_vars => LInv'
<1> SUFFICES ASSUME TypeOK, LInv, [Next]_vars PROVE LInv'
  OBVIOUS
<1>1. CASE UNCHANGED vars
  BY <1>1
     DEF vars, LInv, StagesFit, LocksExclude, LoadsAreNeeded
<1>2. QED
  BY <1>1, StepKinds, ServiceKeepsLocks, UserKeepsLocks DEF LInv

\* The load lock of a model has one owner, and a load has something to load.
LEMMA LocksInvariant == Spec => [](TypeOK /\ LInv)
BY InitTyped, NextTyped, InitLocks, NextKeepsLocks, PTL DEF Spec

(* The weights of a model are never loaded twice at a time, nor beside an  *)
(* engine of the same name that is still loaded or being unloaded.         *)
THEOREM LoadsAreExclusive == Spec => []LoadedOnce
<1>1. LInv => LoadedOnce
  BY DEF LInv, LocksExclude, LoadsAreNeeded, LoadedOnce, Critical
<1>2. QED
  BY <1>1, LocksInvariant, PTL

-----------------------------------------------------------------------------
(* The reference counts                                                    *)

\* Exit, seen from the stages: the user is out, and whoever drains its model
\* goes on when the count reaches zero.
LEMMA ExitShape ==
  ASSUME TypeOK, StagesFit, NEW u \in Users, Exit(u)
  PROVE  /\ pc'[u] = "out"
         /\ \A q \in Procs \ {u} :
              \/ pc'[q] = pc[q]
                   /\ ~(pc[q] = "draining" /\ at[q] = at[u] /\ count[at[u]] <= 1)
              \/ q \in Workers /\ pc'[q] \in {"out", "armed"}
              \/ /\ pc[q] = "draining" /\ pc'[q] = "unloading"
                 /\ at[q] = at[u] /\ count[at[u]] <= 1
         /\ pc[u] \in Holding
         /\ at' = at
         /\ count' = [count EXCEPT ![at[u]] = IF count[at[u]] <= 1 THEN 0
                                              ELSE count[at[u]] - 1]
<1> DEFINE left == [pc EXCEPT ![u] = "out"]
           f == IF count[at[u]] <= 1 THEN Drained(left, at[u]) ELSE left
<1>1. u \in Procs /\ u \notin Workers /\ pc \in [Procs -> Stages]
  BY RegistryAssumption DEF Procs, TypeOK
<1>2. f \in [Procs -> Stages]
  BY <1>1 DEF Drained, Stages, Critical
<1>3. Touches(f)
  BY <1>1, <1>2, CheckTouches DEF Exit
<1>4. f[u] = "out"
  BY <1>1 DEF Drained
<1>5. \A q \in Procs \ {u} :
        \/ f[q] = pc[q]
             /\ ~(pc[q] = "draining" /\ at[q] = at[u] /\ count[at[u]] <= 1)
        \/ /\ pc[q] = "draining" /\ f[q] = "unloading"
           /\ at[q] = at[u] /\ count[at[u]] <= 1
  BY <1>1 DEF Drained
<1>6. /\ pc[u] \in Holding
      /\ at' = at
      /\ count' = [count EXCEPT ![at[u]] = IF count[at[u]] <= 1 THEN 0
                                           ELSE count[at[u]] - 1]
  BY DEF Exit
<1> HIDE DEF f, left
<1>7. QED
  BY <1>1, <1>3, <1>4, <1>5, <1>6 DEF Touches

LEMMA HoldersFinite ==
  ASSUME NEW m
  PROVE  IsFiniteSet(Holders(m)) /\ Cardinality(Holders(m)) \in Nat
<1>1. Holders(m) \subseteq Users
  BY DEF Holders
<1>2. QED
  BY <1>1, RegistryAssumption, FS_Subset, FS_CardinalityType

\* Steps that let the same users hold the same models keep the counts right.
LEMMA SameHolders ==
  ASSUME CountsAreHolders, count' = count,
         \A u \in Users : /\ pc'[u] \in Holding <=> pc[u] \in Holding
                          /\ pc[u] \in Holding => at'[u] = at[u]
  PROVE  CountsAreHolders'
<1>1. \A m \in Models : Holders(m)' = Holders(m)
  BY DEF Holders
<1>2. QED
  BY <1>1 DEF CountsAreHolders

\* A user that comes to hold its model adds one to its count.
LEMMA OneMoreHolder ==
  ASSUME CountsAreHolders, TypeOK, NEW u \in Users,
         pc[u] \notin Holding, pc' = [pc EXCEPT ![u] = "holding"], at' = at,
         count' = [count EXCEPT ![at[u]] = count[at[u]] + 1]
  PROVE  CountsAreHolders'
<1>1. u \in Procs /\ pc \in [Procs -> Stages] /\ at[u] \in Models
      /\ count \in [Models -> Nat]
  BY DEF TypeOK, Procs
<1>2. SUFFICES ASSUME NEW m \in Models
               PROVE  count'[m] = Cardinality(Holders(m)')
  BY DEF CountsAreHolders
<1>3. CASE m = at[u]
  <2>1. Holders(m)' = Holders(m) \cup {u} /\ u \notin Holders(m)
    BY <1>1, <1>3 DEF Holders, Holding, Procs
  <2>2. Cardinality(Holders(m)') = Cardinality(Holders(m)) + 1
    BY <2>1, HoldersFinite, FS_AddElement
  <2>3. count'[m] = count[m] + 1
    BY <1>1, <1>3
  <2>4. QED
    BY <2>2, <2>3 DEF CountsAreHolders
<1>4. CASE m # at[u]
  <2>1. Holders(m)' = Holders(m)
    BY <1>1, <1>4 DEF Holders, Procs
  <2>2. QED
    BY <1>1, <1>4, <2>1 DEF CountsAreHolders
<1>5. QED
  BY <1>3, <1>4

LEMMA ExitCounts ==
  ASSUME TypeOK, StagesFit, CountsAreHolders, NEW u \in Users, Exit(u)
  PROVE  CountsAreHolders'
<1>1. u \in Procs /\ at[u] \in Models /\ count \in [Models -> Nat]
  BY DEF TypeOK, Procs
<1>2. /\ pc[u] \in Holding /\ pc'[u] \notin Holding /\ at' = at
      /\ \A v \in Users \ {u} : pc'[v] \in Holding <=> pc[v] \in Holding
  BY ExitShape, RegistryAssumption DEF Procs, Holding
<1>3. SUFFICES ASSUME NEW m \in Models
               PROVE  count'[m] = Cardinality(Holders(m)')
  BY DEF CountsAreHolders
<1>4. CASE m = at[u]
  <2>1. Holders(m)' = Holders(m) \ {u} /\ u \in Holders(m)
    BY <1>2, <1>4 DEF Holders
  <2>2. /\ Cardinality(Holders(m)') = Cardinality(Holders(m)) - 1
        /\ Cardinality(Holders(m)') \in Nat
    <3>1. IsFiniteSet(Holders(m)')
      BY <2>1, HoldersFinite, FS_Subset
    <3>2. QED
      BY <2>1, <3>1, HoldersFinite, FS_RemoveElement, FS_CardinalityType
  <2>3. count'[m] = IF count[m] <= 1 THEN 0 ELSE count[m] - 1
    BY <1>1, <1>4, ExitShape
  <2>4. QED
    BY <2>2, <2>3, HoldersFinite DEF CountsAreHolders
<1>5. CASE m # at[u]
  <2>1. Holders(m)' = Holders(m)
    BY <1>2, <1>5 DEF Holders
  <2>2. count'[m] = count[m]
    BY <1>1, <1>5, ExitShape
  <2>3. QED
    BY <2>1, <2>2 DEF CountsAreHolders
<1>6. QED
  BY <1>4, <1>5

LEMMA UserCounts ==
  ASSUME TypeOK, StagesFit, CountsAreHolders, NEW u \in Users, UserStep(u)
  PROVE  CountsAreHolders'
<1>1. u \in Procs /\ u \notin Workers /\ pc \in [Procs -> Stages]
      /\ Users \cap Workers = {} /\ Users \subseteq Procs
      /\ at \in [Procs -> Models]
  BY RegistryAssumption DEF Procs, TypeOK
<1>2. ASSUME NEW m \in Models, Enter(u, m) PROVE CountsAreHolders'
  <2>1. [pc EXCEPT ![u] = "toLoad"] \in [Procs -> Stages]
    BY <1>1 DEF Stages
  <2>2. Touches([pc EXCEPT ![u] = "toLoad"])
    BY <1>1, <1>2, <2>1, CancelTouches DEF Enter
  <2>3. QED
    BY <1>1, <1>2, <2>2, SameHolders DEF Enter, Touches, engines, Holding
<1>3. CASE Acquire(u)
  <2>1. CASE at[u] \in loaded
    BY <1>3, <2>1, OneMoreHolder DEF Acquire, Holding
  <2>2. CASE at[u] \notin loaded
    BY <1>1, <1>3, <2>2, SameHolders DEF Acquire, Holding
  <2>3. QED
    BY <2>1, <2>2
<1>4. CASE Loaded(u)
  BY <1>4, OneMoreHolder DEF Loaded, Holding
<1>5. CASE Abandon(u)
  BY <1>1, <1>5, SameHolders DEF Abandon, engines, Holding
<1>6. CASE Infer(u)
  BY <1>1, <1>6, SameHolders DEF Infer, Holding
<1>7. CASE Exit(u)
  BY <1>7, ExitCounts
<1>8. QED
  BY <1>2, <1>3, <1>4, <1>5, <1>6, <1>7 DEF UserStep

LEMMA NextCounts ==
  TypeOK /\ StagesFit /\ CountsAreHolders /\ [Next]_vars => CountsAreHolders'
<1> SUFFICES ASSUME TypeOK, StagesFit, CountsAreHolders, [Next]_vars
             PROVE  CountsAreHolders'
  OBVIOUS
<1>1. CASE UNCHANGED vars
  BY <1>1, SameHolders DEF vars
<1>2. ASSUME NEW p \in Serving, Service(p) PROVE CountsAreHolders'
  <2>1. Users \subseteq Procs \ {p} /\ Users \cap Workers = {}
    BY RegistryAssumption DEF Procs, Serving
  <2>2. QED
    BY <1>2, <2>1, SameHolders DEF Service
<1>3. QED
  BY <1>1, <1>2, StepKinds, UserCounts

LEMMA InitCounts == Init => CountsAreHolders
<1> SUFFICES ASSUME Init, NEW m \in Models PROVE count[m] = Cardinality(Holders(m))
  BY DEF CountsAreHolders
<1>1. Holders(m) = {}
  BY DEF Init, Holders, Holding, Procs
<1>2. QED
  BY <1>1, FS_EmptySet DEF Init

(* A model's reference count is the number of users that hold it, whatever *)
(* loads fail, waits are cancelled and engines are unloaded by force.      *)
THEOREM CountsAreExact == Spec => []CountsAreHolders
<1>1. LInv => StagesFit
  BY DEF LInv
<1>2. QED
  BY <1>1, InitCounts, NextCounts, LocksInvariant, PTL DEF Spec

-----------------------------------------------------------------------------
(* The drain                                                               *)

DrainCounts ==
  \A p \in Procs :
    /\ pc[p] = "draining" => count[at[p]] # 0
    /\ pc[p] = "unloading" => count[at[p]] = 0

LEMMA ServiceDrains ==
  ASSUME DrainCounts, NEW p \in Serving, Service(p)
  PROVE  DrainCounts'
<1> SUFFICES ASSUME NEW q \in Procs
             PROVE  /\ pc'[q] = "draining" => count'[at'[q]] # 0
                    /\ pc'[q] = "unloading" => count'[at'[q]] = 0
  BY DEF DrainCounts
<1>1. CASE q = p
  BY <1>1 DEF Service, Critical
<1>2. CASE q # p
  BY <1>2 DEF Service, DrainCounts
<1>3. QED
  BY <1>1, <1>2

\* A user that takes a model has its load lock, or has had it: nobody unloads
\* the model or waits to.
LEMMA TakeDrains ==
  ASSUME TypeOK, DrainCounts, NEW u \in Users, pc' = [pc EXCEPT ![u] = "holding"],
         at' = at, count' = [count EXCEPT ![at[u]] = count[at[u]] + 1],
         \A q \in Procs \ {u} : ~(pc[q] \in Critical /\ at[q] = at[u])
  PROVE  DrainCounts'
<1>1. u \in Procs /\ pc \in [Procs -> Stages] /\ count \in [Models -> Nat]
      /\ at \in [Procs -> Models]
  BY DEF TypeOK, Procs
<1>2. SUFFICES ASSUME NEW q \in Procs
               PROVE  /\ pc'[q] = "draining" => count'[at'[q]] # 0
                      /\ pc'[q] = "unloading" => count'[at'[q]] = 0
  BY DEF DrainCounts
<1>3. CASE q = u
  BY <1>1, <1>3
<1>4. CASE q # u /\ pc[q] \notin Critical
  BY <1>1, <1>4 DEF Critical
<1>5. CASE q # u /\ pc[q] \in Critical
  <2>1. pc'[q] = pc[q] /\ at[q] # at[u] /\ count'[at[q]] = count[at[q]]
    BY <1>1, <1>5
  <2>2. QED
    BY <2>1 DEF DrainCounts
<1>6. QED
  BY <1>3, <1>4, <1>5

LEMMA ExitDrains ==
  ASSUME TypeOK, StagesFit, DrainCounts, NEW u \in Users, Exit(u)
  PROVE  DrainCounts'
<1>1. u \in Procs /\ count \in [Models -> Nat] /\ at \in [Procs -> Models]
  BY DEF TypeOK, Procs
<1>2. SUFFICES ASSUME NEW q \in Procs
               PROVE  /\ pc'[q] = "draining" => count'[at'[q]] # 0
                      /\ pc'[q] = "unloading" => count'[at'[q]] = 0
  BY DEF DrainCounts
<1>3. at' = at /\ at[q] \in Models /\ at[u] \in Models
      /\ count[at[q]] \in Nat /\ count[at[u]] \in Nat
  BY <1>1, ExitShape
<1>4. CASE at[q] = at[u]
  <2>1. count'[at[q]] = IF count[at[q]] <= 1 THEN 0 ELSE count[at[q]] - 1
    BY <1>1, <1>3, <1>4, ExitShape
  <2>2. pc'[q] = "draining" => pc[q] = "draining" /\ ~(count[at[q]] <= 1)
    BY <1>4, ExitShape
  <2>3. pc'[q] = "unloading" => pc[q] = "unloading" \/ count[at[q]] <= 1
    BY <1>4, ExitShape
  <2>4. pc[q] = "unloading" => count[at[q]] = 0
    BY DEF DrainCounts
  <2>5. QED
    BY <1>3, <2>1, <2>2, <2>3, <2>4
<1>5. CASE at[q] # at[u]
  <2>1. count'[at[q]] = count[at[q]]
    BY <1>1, <1>3, <1>5, ExitShape
  <2>2. pc'[q] \in {"draining", "unloading"} => pc'[q] = pc[q]
    BY <1>5, ExitShape
  <2>3. QED
    BY <1>3, <2>1, <2>2 DEF DrainCounts
<1>6. QED
  BY <1>4, <1>5

LEMMA UserDrains ==
  ASSUME TypeOK, LInv, DrainCounts, NEW u \in Users, UserStep(u)
  PROVE  DrainCounts'
<1>1. u \in Procs /\ u \notin Workers /\ pc \in [Procs -> Stages] /\ StagesFit
      /\ at \in [Procs -> Models]
  BY RegistryAssumption DEF Procs, TypeOK, LInv
<1>2. ASSUME NEW m \in Models, Enter(u, m) PROVE DrainCounts'
  <2> DEFINE f == [pc EXCEPT ![u] = "toLoad"]
  <2>1. f \in [Procs -> Stages]
    BY <1>1 DEF Stages
  <2>2. Touches(f)
    BY <1>1, <1>2, <2>1, CancelTouches DEF Enter
  <2>3. QED
    BY <1>1, <1>2, <2>2 DEF Enter, Touches, engines, DrainCounts
<1>3. CASE Acquire(u)
  <2>1. CASE at[u] \in loaded
    BY <1>3, <2>1, TakeDrains DEF Acquire, LockFree
  <2>2. CASE at[u] \notin loaded
    BY <1>1, <1>3, <2>2 DEF Acquire, DrainCounts
  <2>3. QED
    BY <2>1, <2>2
<1>4. CASE Loaded(u)
  BY <1>1, <1>4, TakeDrains DEF Loaded, LInv, LocksExclude, Critical
<1>5. CASE Abandon(u)
  BY <1>1, <1>5 DEF Abandon, engines, DrainCounts
<1>6. CASE Infer(u)
  BY <1>1, <1>6 DEF Infer, DrainCounts
<1>7. CASE Exit(u)
  BY <1>1, <1>7, ExitDrains
<1>8. QED
  BY <1>2, <1>3, <1>4, <1>5, <1>6, <1>7 DEF UserStep

LEMMA NextDrains == TypeOK /\ LInv /\ DrainCounts /\ [Next]_vars => DrainCounts'
<1> SUFFICES ASSUME TypeOK, LInv, DrainCounts, [Next]_vars PROVE DrainCounts'
  OBVIOUS
<1>1. CASE UNCHANGED vars
  BY <1>1 DEF vars, DrainCounts
<1>2. QED
  BY <1>1, StepKinds, ServiceDrains, UserDrains DEF LInv

LEMMA DrainInvariant == Spec => [](DrainCounts /\ CountsAreHolders)
<1>1. Init => DrainCounts
  BY DEF Init, DrainCounts
<1>2. QED
  BY <1>1, NextDrains, LocksInvariant, CountsAreExact, PTL DEF Spec

(* While an unload believes that its model is drained nobody holds it: only *)
(* a drain that times out takes an engine from its users.                   *)
THEOREM UnloadsAreDrained == Spec => []DrainedBeforeUnload
<1>1. TypeOK /\ DrainCounts /\ CountsAreHolders => DrainedBeforeUnload
  <2> SUFFICES ASSUME TypeOK, DrainCounts, CountsAreHolders, NEW p \in Procs,
                      pc[p] = "unloading"
               PROVE  Holders(at[p]) = {}
    BY DEF DrainedBeforeUnload
  <2>1. Cardinality(Holders(at[p])) = 0
    BY DEF TypeOK, DrainCounts, CountsAreHolders
  <2>2. QED
    BY <2>1, HoldersFinite, FS_EmptySet
<1>2. QED
  BY <1>1, RegistryTyped, DrainInvariant, PTL

(* An unload that waits for the drain event waits for a user that is there *)
(* to set it: the event is never missed.                                   *)
THEOREM DrainsAwaitSomebody == Spec => []DrainHasHolders
<1>1. TypeOK /\ DrainCounts /\ CountsAreHolders => DrainHasHolders
  <2> SUFFICES ASSUME TypeOK, DrainCounts, CountsAreHolders, NEW p \in Procs,
                      pc[p] = "draining"
               PROVE  Holders(at[p]) # {}
    BY DEF DrainHasHolders
  <2>1. Cardinality(Holders(at[p])) # 0
    BY DEF TypeOK, DrainCounts, CountsAreHolders
  <2>2. QED
    BY <2>1, HoldersFinite, FS_EmptySet
<1>2. QED
  BY <1>1, RegistryTyped, DrainInvariant, PTL

-----------------------------------------------------------------------------
(* The sleep of idle engines                                               *)

LEMMA UserAwake ==
  ASSUME TypeOK, StagesFit, CountsAreHolders, NoInferenceAsleep,
         NEW u \in Users, UserStep(u)
  PROVE  NoInferenceAsleep'
<1>1. u \in Procs /\ u \notin Workers /\ pc \in [Procs -> Stages]
      /\ Users \cap Workers = {} /\ Users \subseteq Procs
      /\ at \in [Procs -> Models]
  BY RegistryAssumption DEF Procs, TypeOK
<1>2. ASSUME NEW m \in Models, Enter(u, m) PROVE NoInferenceAsleep'
  <2> DEFINE f == [pc EXCEPT ![u] = "toLoad"]
  <2>1. f \in [Procs -> Stages]
    BY <1>1 DEF Stages
  <2>2. Touches(f)
    BY <1>1, <1>2, <2>1, CancelTouches DEF Enter
  <2>3. QED
    BY <1>1, <1>2, <2>2 DEF Enter, Touches, engines, NoInferenceAsleep
<1>3. CASE Acquire(u)
  <2>1. SUFFICES ASSUME NEW v \in Users \ orphans', pc'[v] = "inferring"
                 PROVE  at'[v] \notin asleep'
    BY DEF NoInferenceAsleep
  <2>2. pc[v] = "inferring" /\ at' = at /\ orphans' = orphans
    BY <1>1, <1>3, <2>1 DEF Acquire
  <2>3. at[v] \notin asleep
    BY <2>1, <2>2 DEF NoInferenceAsleep
  <2>4. count[at[v]] # 0
    <3>1. v \in Holders(at[v])
      BY <2>1, <2>2 DEF Holders, Holding
    <3>2. Cardinality(Holders(at[v])) # 0
      BY <3>1, HoldersFinite, FS_EmptySet
    <3>3. QED
      BY <1>1, <2>1, <3>2 DEF CountsAreHolders
  <2>5. asleep' = asleep \cup {n \in loaded \ {at[u]} : count[n] = 0}
    BY <1>3 DEF Acquire
  <2>6. QED
    BY <2>2, <2>3, <2>4, <2>5
<1>4. CASE Loaded(u)
  BY <1>1, <1>4 DEF Loaded, NoInferenceAsleep
<1>5. CASE Abandon(u)
  BY <1>1, <1>5 DEF Abandon, engines, NoInferenceAsleep
<1>6. CASE Infer(u)
  BY <1>1, <1>6 DEF Infer, NoInferenceAsleep
<1>7. CASE Exit(u)
  <2>1. \A v \in Users \ {u} : pc'[v] = "inferring" => pc[v] = "inferring"
    BY <1>1, <1>7, ExitShape
  <2>2. pc'[u] = "out" /\ at' = at
    BY <1>7, ExitShape
  <2>3. orphans' = orphans \ {u} /\ asleep' = asleep
    BY <1>7 DEF Exit
  <2>4. QED
    BY <2>1, <2>2, <2>3 DEF NoInferenceAsleep
<1>8. QED
  BY <1>2, <1>3, <1>4, <1>5, <1>6, <1>7 DEF UserStep

LEMMA NextAwake ==
  TypeOK /\ StagesFit /\ CountsAreHolders /\ NoInferenceAsleep /\ [Next]_vars
    => NoInferenceAsleep'
<1> SUFFICES ASSUME TypeOK, StagesFit, CountsAreHolders, NoInferenceAsleep,
                    [Next]_vars
             PROVE  NoInferenceAsleep'
  OBVIOUS
<1>1. CASE UNCHANGED vars
  BY <1>1 DEF vars, NoInferenceAsleep
<1>2. ASSUME NEW p \in Serving, Service(p) PROVE NoInferenceAsleep'
  <2>1. Users \subseteq Procs \ {p} /\ Users \cap Workers = {}
    BY RegistryAssumption DEF Procs, Serving
  <2>2. QED
    BY <1>2, <2>1 DEF Service, Changes, NoInferenceAsleep
<1>3. QED
  BY <1>1, <1>2, StepKinds, UserAwake

(* No engine is put to sleep under an inference that is running on it.     *)
THEOREM InferencesAreAwake == Spec => []NoInferenceAsleep
<1>1. Init => NoInferenceAsleep
  BY DEF Init, NoInferenceAsleep
<1>2. LInv => StagesFit
  BY DEF LInv
<1>3. QED
  BY <1>1, <1>2, NextAwake, LocksInvariant, CountsAreExact, PTL DEF Spec

-----------------------------------------------------------------------------
(* The idle timer                                                          *)

\* A cancellation by a task that is not asleep itself leaves nobody asleep.
LEMMA CancelTimes ==
  ASSUME TypeOK, TimerIsCurrent, NEW p \in Procs, NEW f \in [Procs -> Stages],
         \A w \in Workers : f[w] = "armed" => pc[w] = "armed" /\ w # p,
         CancelIdleTimer(p, f)
  PROVE  TimerIsCurrent'
<1>1. ASSUME NEW w \in Workers PROVE pc'[w] # "armed"
  <2>1. w \in Procs /\ timer \in Workers \cup {None}
    BY DEF Procs, TypeOK
  <2>2. CASE f[w] # "armed"
    BY <2>1, <2>2 DEF CancelIdleTimer, Stopped, Procs
  <2>3. CASE f[w] = "armed"
    BY <2>1, <2>3 DEF CancelIdleTimer, Stopped, TimerIsCurrent
  <2>4. QED
    BY <2>2, <2>3
<1>2. QED
  BY <1>1 DEF TimerIsCurrent

\* A check cancels the old timer, and arms one when the registry is idle.
LEMMA CheckTimes ==
  ASSUME TypeOK, TimerIsCurrent, NEW p \in Procs, NEW f \in [Procs -> Stages],
         \A w \in Workers : f[w] = "armed" => pc[w] = "armed" /\ w # p,
         CheckIdle(p, f)
  PROVE  TimerIsCurrent'
<1>1. CASE ~IdleNow'
  BY <1>1, CancelTimes DEF CheckIdle
<1>2. CASE IdleNow'
  <2>1. PICK v \in Workers \ {p} :
          timer' = v /\ pc' = [Stopped(f, p) EXCEPT ![v] = "armed"]
    BY <1>2 DEF CheckIdle
  <2>2. auto' /\ loaded' # {}
    BY <1>2 DEF IdleNow
  <2>3. ASSUME NEW w \in Workers, w # v PROVE pc'[w] # "armed"
    <3>1. w \in Procs /\ pc'[w] = Stopped(f, p)[w]
      BY <2>1, <2>3 DEF Procs, Stopped
    <3>2. CASE f[w] # "armed"
      BY <3>1, <3>2 DEF Stopped, Procs
    <3>3. CASE f[w] = "armed"
      BY <3>1, <3>3 DEF Stopped, TimerIsCurrent
    <3>4. QED
      BY <3>2, <3>3
  <2>4. QED
    BY <2>1, <2>2, <2>3 DEF TimerIsCurrent
<1>3. QED
  BY <1>1, <1>2

\* Steps that arm no worker and touch neither the timer nor the tables.
LEMMA SameTimer ==
  ASSUME TimerIsCurrent, timer' = timer, auto' = auto, loaded \subseteq loaded',
         \A w \in Workers : pc'[w] = "armed" => pc[w] = "armed"
  PROVE  TimerIsCurrent'
BY DEF TimerIsCurrent

LEMMA UserTimes ==
  ASSUME TypeOK, TimerIsCurrent, NEW u \in Users, UserStep(u)
  PROVE  TimerIsCurrent'
<1>1. u \in Procs /\ u \notin Workers /\ pc \in [Procs -> Stages]
      /\ Workers \subseteq Procs
  BY RegistryAssumption DEF Procs, TypeOK
<1>2. ASSUME NEW m \in Models, Enter(u, m) PROVE TimerIsCurrent'
  <2> DEFINE f == [pc EXCEPT ![u] = "toLoad"]
  <2>1. f \in [Procs -> Stages]
    BY <1>1 DEF Stages
  <2>2. \A w \in Workers : f[w] = "armed" => pc[w] = "armed" /\ w # u
    BY <1>1
  <2>3. CancelIdleTimer(u, f)
    BY <1>2 DEF Enter
  <2> HIDE DEF f
  <2>4. QED
    BY <1>1, <2>1, <2>2, <2>3, CancelTimes
<1>3. CASE Acquire(u)
  BY <1>1, <1>3, SameTimer DEF Acquire
<1>4. CASE Loaded(u)
  BY <1>1, <1>4, SameTimer DEF Loaded
<1>5. CASE Abandon(u)
  BY <1>1, <1>5, SameTimer DEF Abandon, engines
<1>6. CASE Infer(u)
  BY <1>1, <1>6, SameTimer DEF Infer
<1>7. CASE Exit(u)
  <2> DEFINE left == [pc EXCEPT ![u] = "out"]
             f == IF count[at[u]] <= 1 THEN Drained(left, at[u]) ELSE left
  <2>1. f \in [Procs -> Stages]
    BY <1>1 DEF Drained, Stages, Critical
  <2>2. \A w \in Workers : f[w] = "armed" => pc[w] = "armed" /\ w # u
    BY <1>1 DEF Drained
  <2>3. CheckIdle(u, f)
    BY <1>7 DEF Exit
  <2> HIDE DEF f
  <2>4. QED
    BY <1>1, <2>1, <2>2, <2>3, CheckTimes
<1>8. QED
  BY <1>2, <1>3, <1>4, <1>5, <1>6, <1>7 DEF UserStep

\* A sweep that starts, by a task that is not an armed worker, or by one whose
\* timer has gone off.
LEMMA SweepTimes ==
  ASSUME TypeOK, TimerIsCurrent, NEW p \in Serving, Sweep(p),
         UNCHANGED <<loaded, auto>>, pc[p] = "armed" => p \in Workers,
         p = Loop => pc[p] = "out"
  PROVE  TimerIsCurrent'
<1>1. p \in Procs /\ pc \in [Procs -> Stages] /\ Workers \subseteq Procs
      /\ Loop \notin Workers
  BY RegistryAssumption DEF Procs, Serving, TypeOK
<1>2. CASE loaded = {}
  <2>1. \A w \in Workers : pc[w] # "armed"
    BY <1>2 DEF TimerIsCurrent
  <2>2. CheckIdle(p, pc)
    BY <1>2 DEF Sweep
  <2>3. QED
    BY <1>1, <2>1, <2>2, CheckTimes
<1>3. CASE loaded # {}
  <2>1. timer' = timer /\ pc' = [pc EXCEPT ![p] = "toUnload"]
    BY <1>3 DEF Sweep
  <2>2. QED
    BY <1>1, <2>1, SameTimer
<1>4. QED
  BY <1>2, <1>3

LEMMA CommandTimes ==
  ASSUME TypeOK, TimerIsCurrent, Command
  PROVE  TimerIsCurrent'
<1>1. Loop \in Procs /\ pc \in [Procs -> Stages] /\ Workers \subseteq Procs
      /\ Loop \notin Workers /\ Loop \in Serving
  BY RegistryAssumption DEF Procs, TypeOK, Serving
<1>2. ASSUME NEW m \in Models, LoadCommand(m) \/ UnloadCommand(m)
      PROVE  TimerIsCurrent'
  BY <1>1, <1>2, SameTimer DEF LoadCommand, UnloadCommand, engines
<1>3. CASE UnloadAllCommand
  BY <1>1, <1>3, SweepTimes DEF UnloadAllCommand, engines
<1>4. ASSUME NEW k \in Modes, SetWorkMode(k) PROVE TimerIsCurrent'
  BY <1>1, <1>4, SweepTimes DEF SetWorkMode
<1>5. ASSUME NEW b \in BOOLEAN, SetAutoUnload(b) PROVE TimerIsCurrent'
  <2>1. CheckIdle(Loop, pc)
    BY <1>5 DEF SetAutoUnload
  <2>2. \A w \in Workers : pc[w] = "armed" => pc[w] = "armed" /\ w # Loop
    BY <1>1
  <2>3. QED
    BY <1>1, <2>1, <2>2, CheckTimes
<1>6. QED
  BY <1>2, <1>3, <1>4, <1>5 DEF Command

LEMMA LoadTimes ==
  ASSUME TypeOK, TimerIsCurrent, LoadStep
  PROVE  TimerIsCurrent'
<1> DEFINE done == [pc EXCEPT ![Loop] = "out"]
<1>1. Loop \in Procs /\ pc \in [Procs -> Stages] /\ Workers \subseteq Procs
      /\ Loop \notin Workers
  BY RegistryAssumption DEF Procs, TypeOK
<1>2. CheckIdle(Loop, done) => TimerIsCurrent'
  <2>1. done \in [Procs -> Stages]
    BY <1>1 DEF Stages
  <2>2. \A w \in Workers : done[w] = "armed" => pc[w] = "armed" /\ w # Loop
    BY <1>1
  <2> HIDE DEF done
  <2>3. QED
    BY <1>1, <2>1, <2>2, CheckTimes
<1>3. CASE StartLoad
  <2>1. CASE at[Loop] \in loaded
    BY <1>2, <1>3, <2>1 DEF StartLoad
  <2>2. CASE at[Loop] \notin loaded
    BY <1>1, <1>3, <2>2, SameTimer DEF StartLoad
  <2>3. QED
    BY <2>1, <2>2
<1>4. CASE FinishLoad
  BY <1>2, <1>4 DEF FinishLoad
<1>5. CASE FailLoad
  BY <1>1, <1>5, SameTimer DEF FailLoad, engines
<1>6. QED
  BY <1>3, <1>4, <1>5 DEF LoadStep

LEMMA NextUnloadTimes ==
  ASSUME TypeOK, TimerIsCurrent, NEW p \in Procs, NextUnload(p)
  PROVE  TimerIsCurrent'
<1> DEFINE F(s) == [pc EXCEPT ![p] = s]
<1>1. pc \in [Procs -> Stages] /\ Workers \subseteq Procs
  BY DEF TypeOK, Procs
<1>2. \E s \in Stages \ {"armed"} : CheckIdle(p, F(s))
  BY DEF NextUnload, Stages
<1>3. PICK s \in Stages \ {"armed"} : CheckIdle(p, F(s))
  BY <1>2
<1>4. F(s) \in [Procs -> Stages]
  BY <1>1
<1>5. \A w \in Workers : F(s)[w] = "armed" => pc[w] = "armed" /\ w # p
  BY <1>1, <1>3
<1> HIDE DEF F
<1>6. QED
  BY <1>3, <1>4, <1>5, CheckTimes

LEMMA UnloadTimes ==
  ASSUME TypeOK, TimerIsCurrent, NEW p \in Serving, UnloadStep(p)
  PROVE  TimerIsCurrent'
<1>1. p \in Procs /\ pc \in [Procs -> Stages] /\ Workers \subseteq Procs
  BY DEF Procs, TypeOK, Serving
<1>2. NextUnload(p) => TimerIsCurrent'
  BY <1>1, NextUnloadTimes
<1>3. CASE StartUnload(p)
  <2>1. CASE count[at[p]] = 0 /\ at[p] \notin loaded
    BY <1>2, <1>3, <2>1 DEF StartUnload
  <2>2. CASE ~(count[at[p]] = 0 /\ at[p] \notin loaded)
    BY <1>1, <1>3, <2>2, SameTimer DEF StartUnload, engines
  <2>3. QED
    BY <2>1, <2>2
<1>4. CASE DrainTimeout(p)
  BY <1>1, <1>4, SameTimer DEF DrainTimeout, engines
<1>5. CASE Unloaded(p)
  BY <1>2, <1>5 DEF Unloaded
<1>6. QED
  BY <1>3, <1>4, <1>5 DEF UnloadStep

LEMMA WorkerTimes ==
  ASSUME TypeOK, TimerIsCurrent, NEW w \in Workers, WorkerStep(w)
  PROVE  TimerIsCurrent'
<1>1. w \in Procs /\ pc \in [Procs -> Stages] /\ Workers \subseteq Procs
      /\ w # Loop /\ w \in Serving
  BY RegistryAssumption DEF Procs, TypeOK, Serving
<1>2. CASE Fire(w)
  BY <1>1, <1>2, SweepTimes DEF Fire, engines
<1>3. CASE Leave(w)
  BY <1>1, <1>3 DEF Leave, engines, TimerIsCurrent
<1>4. QED
  BY <1>2, <1>3 DEF WorkerStep, Report, Die

LEMMA NextTimes == TypeOK /\ TimerIsCurrent /\ [Next]_vars => TimerIsCurrent'
<1> SUFFICES ASSUME TypeOK, TimerIsCurrent, [Next]_vars PROVE TimerIsCurrent'
  OBVIOUS
<1>1. CASE UNCHANGED vars
  BY <1>1 DEF vars, TimerIsCurrent
<1>2. CASE Next
  BY <1>2, UserTimes, CommandTimes, LoadTimes, UnloadTimes, WorkerTimes
     DEF Next, Serving
<1>3. QED
  BY <1>1, <1>2

(* A sleeping idle worker is the one that can be cancelled, and it sleeps  *)
(* only while auto-unload is on and an engine is loaded.                   *)
THEOREM TimersAreCurrent == Spec => []TimerIsCurrent
<1>1. Init => TimerIsCurrent
  BY DEF Init, TimerIsCurrent, Procs
<1>2. QED
  BY <1>1, NextTimes, RegistryTyped, PTL DEF Spec

-----------------------------------------------------------------------------
(* The leases                                                              *)

\* Who holds an engine that was not taken away holds one that is loaded, and
\* only who is inside a context can have lost its engine.
EnginesKept ==
  \A u \in Users :
    /\ u \in orphans => pc[u] \in Holding
    /\ pc[u] \in Holding /\ u \notin orphans => at[u] \in loaded

\* The state of an engine as the owner of its lock leaves it.
Shown(s) ==
  IF s = "draining" THEN "draining" ELSE IF s = "forcing" THEN "forced"
  ELSE IF s = "unloading" THEN "closing" ELSE "ready"

\* The owner of the load lock, if there is one, determines the state.
StatesFollowLocks ==
  \A m \in Models :
    /\ LockFree(m) => StateOf(m) = IF m \in loaded THEN "ready" ELSE "none"
    /\ \A q \in Procs : pc[q] \in Critical /\ at[q] = m =>
         StateOf(m) = IF m \in loaded THEN Shown(pc[q])
                      ELSE IF pc[q] = "loading" THEN "loading" ELSE "none"

LEMMA StatesAreLocks == LInv => StatesFollowLocks
<1> SUFFICES ASSUME LInv, NEW m \in Models
             PROVE  /\ LockFree(m) =>
                         StateOf(m) = IF m \in loaded THEN "ready" ELSE "none"
                    /\ \A q \in Procs : pc[q] \in Critical /\ at[q] = m =>
                         StateOf(m) = IF m \in loaded THEN Shown(pc[q])
                           ELSE IF pc[q] = "loading" THEN "loading" ELSE "none"
  BY DEF StatesFollowLocks
<1>1. LockFree(m) => \A s \in Critical : ~Doing(m, s)
  BY DEF LockFree, Doing
<1>2. ASSUME NEW q \in Procs, pc[q] \in Critical, at[q] = m
      PROVE  \A s \in Critical : Doing(m, s) <=> s = pc[q]
  BY <1>2 DEF Doing, LInv, LocksExclude
<1> QED
  BY <1>1, <1>2 DEF StateOf, Shown, Critical

LEMMA ServiceKeepsEngines ==
  ASSUME EnginesKept, NEW p \in Serving, Service(p)
  PROVE  EnginesKept'
<1>1. Users \subseteq Procs \ {p} /\ Users \cap Workers = {}
  BY RegistryAssumption DEF Procs, Serving
<1>2. \A u \in Users : pc'[u] = pc[u] /\ at'[u] = at[u]
  BY <1>1 DEF Service
<1> QED
  BY <1>2 DEF EnginesKept, Service, Changes, Holders

LEMMA UserKeepsEngines ==
  ASSUME TypeOK, LInv, EnginesKept, NEW u \in Users, UserStep(u)
  PROVE  EnginesKept'
<1>1. /\ u \in Procs /\ u \notin Workers /\ Users \subseteq Procs
      /\ Users \cap Workers = {}
      /\ pc \in [Procs -> Stages] /\ at \in [Procs -> Models]
  BY RegistryAssumption DEF Procs, TypeOK
<1>2. ASSUME NEW m \in Models, Enter(u, m) PROVE EnginesKept'
  <2>1. [pc EXCEPT ![u] = "toLoad"] \in [Procs -> Stages]
    BY <1>1 DEF Stages
  <2>2. Touches([pc EXCEPT ![u] = "toLoad"])
    BY <1>1, <1>2, <2>1, CancelTouches DEF Enter
  <2> QED
    BY <1>1, <1>2, <2>2 DEF Enter, Touches, engines, EnginesKept, Holding
<1>3. CASE Acquire(u)
  BY <1>1, <1>3 DEF Acquire, EnginesKept, Holding
<1>4. CASE Loaded(u)
  BY <1>1, <1>4 DEF Loaded, EnginesKept, Holding
<1>5. CASE Abandon(u)
  BY <1>1, <1>5 DEF Abandon, engines, EnginesKept, Holding
<1>6. CASE Infer(u)
  BY <1>1, <1>6 DEF Infer, EnginesKept, Holding
<1>7. CASE Exit(u)
  <2>1. loaded' = loaded /\ orphans' = orphans \ {u} /\ at' = at /\ pc'[u] = "out"
    BY <1>7, ExitShape DEF Exit, LInv
  <2>2. \A v \in Users \ {u} : pc'[v] \in Holding <=> pc[v] \in Holding
    BY <1>1, <1>7, ExitShape DEF LInv, Holding
  <2> QED
    BY <2>1, <2>2 DEF EnginesKept, Holding
<1> QED
  BY <1>2, <1>3, <1>4, <1>5, <1>6, <1>7 DEF UserStep

LEMMA NextKeepsEngines == TypeOK /\ LInv /\ EnginesKept /\ [Next]_vars => EnginesKept'
<1> SUFFICES ASSUME TypeOK, LInv, EnginesKept, [Next]_vars PROVE EnginesKept'
  OBVIOUS
<1>1. CASE UNCHANGED vars
  BY <1>1 DEF vars, EnginesKept
<1> QED
  BY <1>1, StepKinds, ServiceKeepsEngines, UserKeepsEngines DEF LInv

\* What the leases rest on.
LeaseInv ==
  /\ TypeOK /\ LInv /\ DrainCounts /\ CountsAreHolders /\ EnginesKept
  /\ StatesFollowLocks

\* The engine of m in the terms of EngineLease, for the steps below.
Stays(m) == [Engine(m)!LNext]_(Engine(m)!lvars)

\* A step that changes no context and not who is loaded, in which the lock of
\* m keeps its owner or loses an idle worker, may only interrupt an unload.
LEMMA ReleaseKeepsLease ==
  ASSUME LeaseInv, LeaseInv', NEW m \in Models,
         Holders(m)' = Holders(m),
         Holders(m)' \cap orphans' = Holders(m) \cap orphans,
         m \in loaded' <=> m \in loaded,
         \A q \in Procs : pc[q] \in Critical /\ at[q] = m =>
           \/ pc'[q] = pc[q] /\ at'[q] = at[q]
           \/ pc[q] # "loading" /\ LockFree(m)',
         LockFree(m) => LockFree(m)'
  PROVE  Stays(m)
<1>1. CASE LockFree(m)
  <2>1. StateOf(m)' = StateOf(m)
    BY <1>1 DEF LeaseInv, StatesFollowLocks
  <2> QED
    BY <2>1 DEF Stays, Engine!lvars
<1>2. CASE ~LockFree(m)
  <2>1. PICK q \in Procs : pc[q] \in Critical /\ at[q] = m
    BY <1>2 DEF LockFree
  <2>2. CASE pc'[q] = pc[q] /\ at'[q] = at[q]
    <3>1. StateOf(m)' = StateOf(m)
      BY <2>1, <2>2 DEF LeaseInv, StatesFollowLocks
    <3> QED
      BY <3>1 DEF Stays, Engine!lvars
  <2>3. CASE pc[q] # "loading" /\ LockFree(m)'
    <3>1. /\ StateOf(m) = IF m \in loaded THEN Shown(pc[q]) ELSE "none"
          /\ StateOf(m)' = IF m \in loaded THEN "ready" ELSE "none"
      BY <2>1, <2>3 DEF LeaseInv, StatesFollowLocks
    <3>2. Shown(pc[q]) \in {"draining", "forced", "closing"}
      BY <2>1, <2>3 DEF Shown, Critical
    <3> QED
      BY <3>1, <3>2 DEF Stays, Engine!lvars, Engine!LNext, Engine!Interrupted,
         Engine!Become
  <2> QED
    BY <2>1, <2>2, <2>3
<1> QED
  BY <1>1, <1>2

\* The service steps: a lock that is taken starts a load or an unload, one that
\* is given back has ended it or broken it off.
LEMMA ServiceKeepsLease ==
  ASSUME LeaseInv, LeaseInv', NEW p \in Serving, Service(p), NEW m \in Models
  PROVE  Stays(m)
<1>1. /\ p \in Procs /\ Users \subseteq Procs \ {p} /\ Users \cap Workers = {}
      /\ LocksExclude /\ LocksExclude' /\ StagesFit
      /\ count \in [Models -> Nat]
  BY RegistryAssumption DEF Procs, Serving, LeaseInv, LInv, TypeOK
<1>2. \A n \in Models : Holders(n)' = Holders(n)
  <2>1. \A u \in Users : pc'[u] = pc[u] /\ at'[u] = at[u]
    BY <1>1 DEF Service
  <2> QED
    BY <2>1 DEF Holders
<1>3. at[p] # m => Holders(m) \cap Holders(at[p]) = {}
  BY DEF Holders
<1>4. \A q \in Procs \ {p} : pc[q] \in Critical /\ at[q] = m =>
        \/ pc'[q] = pc[q] /\ at'[q] = at[q]
        \/ pc[q] # "loading" /\ pc'[q] \notin Critical
  BY <1>1 DEF Service, StagesFit, WorkerStages, Critical
<1>5. \A q \in Procs \ {p} : pc'[q] \in Critical => pc[q] \in Critical /\ at'[q] = at[q]
  BY DEF Service, Critical
<1>6. CASE ~(at[p] = m /\ (pc[p] \in Critical \/ pc'[p] \in Critical))
  <2>1. m \in loaded' <=> m \in loaded
    BY <1>6 DEF Service, Changes, Critical
  <2>2. Holders(m)' \cap orphans' = Holders(m) \cap orphans
    BY <1>2, <1>3, <1>6 DEF Service, Changes, Critical
  <2>3. ~(pc'[p] \in Critical /\ at'[p] = m) /\ ~(pc[p] \in Critical /\ at[p] = m)
    BY <1>6 DEF Service
  <2>4. LockFree(m) => LockFree(m)'
    BY <1>5, <2>3 DEF LockFree
  <2>5. ASSUME NEW q \in Procs \ {p}, pc[q] \in Critical, at[q] = m,
               pc'[q] \notin Critical
        PROVE  LockFree(m)'
    BY <1>1, <1>5, <2>3, <2>5 DEF LockFree, LocksExclude
  <2> QED
    BY <1>2, <1>4, <2>1, <2>2, <2>3, <2>4, <2>5, ReleaseKeepsLease
<1>7. CASE at[p] = m /\ pc[p] \notin Critical /\ pc'[p] \in Critical
  <2>1. LockFree(m) /\ at'[p] = m
    BY <1>7 DEF Service
  <2>2. loaded' = loaded /\ orphans' = orphans
    BY <1>7 DEF Service, Changes, Critical
  <2>3. /\ StateOf(m) = IF m \in loaded THEN "ready" ELSE "none"
        /\ StateOf(m)' = IF m \in loaded THEN Shown(pc'[p])
                         ELSE IF pc'[p] = "loading" THEN "loading" ELSE "none"
    BY <1>1, <1>7, <2>1, <2>2 DEF LeaseInv, StatesFollowLocks
  <2>4. /\ pc'[p] = "draining" => Holders(m) # {}
        /\ pc'[p] = "unloading" => Holders(m) = {}
    BY <1>1, <1>7, HoldersFinite, FS_EmptySet DEF Service, LeaseInv, CountsAreHolders
  <2>5. pc'[p] \in {"loading", "draining", "unloading"}
    BY <1>7 DEF Service, Critical
  <2>6. pc'[p] = "loading" => m \notin loaded
    BY <1>7 DEF Service
  <2> QED
    BY <1>2, <2>2, <2>3, <2>4, <2>5, <2>6
       DEF Stays, Shown, Engine!lvars, Engine!LNext, Engine!Load,
           Engine!StartUnload, Engine!Become
<1>8. CASE at[p] = m /\ pc[p] \in Critical /\ pc'[p] \in Critical
  <2>1. at'[p] = m /\ pc'[p] \in {pc[p], "forcing"}
        /\ (pc'[p] = "forcing" => pc[p] \in {"draining", "forcing"})
    BY <1>8 DEF Service
  <2>2. loaded' = loaded /\ orphans' = orphans
    BY <1>8 DEF Service, Changes
  <2>3. /\ StateOf(m) = IF m \in loaded THEN Shown(pc[p])
                        ELSE IF pc[p] = "loading" THEN "loading" ELSE "none"
        /\ StateOf(m)' = IF m \in loaded THEN Shown(pc'[p])
                         ELSE IF pc'[p] = "loading" THEN "loading" ELSE "none"
    BY <1>1, <1>8, <2>1, <2>2 DEF LeaseInv, StatesFollowLocks
  <2> QED
    BY <1>2, <2>1, <2>2, <2>3
       DEF Stays, Shown, Engine!lvars, Engine!LNext, Engine!GiveUp, Engine!Become
<1>9. CASE at[p] = m /\ pc[p] \in Critical /\ pc'[p] \notin Critical
  <2>1. LockFree(m)'
    BY <1>1, <1>5, <1>9 DEF LockFree, LocksExclude
  <2>2. /\ StateOf(m) = IF m \in loaded THEN Shown(pc[p])
                        ELSE IF pc[p] = "loading" THEN "loading" ELSE "none"
        /\ StateOf(m)' = IF m \in loaded' THEN "ready" ELSE "none"
    BY <1>1, <1>9, <2>1 DEF LeaseInv, StatesFollowLocks
  <2>3. pc[p] = "loading" => m \notin loaded
    BY <1>1, <1>9 DEF LeaseInv, LInv, LoadsAreNeeded
  <2>4. CASE loaded' = loaded /\ orphans' = orphans
    <3>1. m \in loaded => Shown(pc[p]) \in {"draining", "forced", "closing"}
      BY <1>9, <2>3 DEF Shown, Critical
    <3> QED
      BY <1>2, <2>2, <2>4, <3>1
         DEF Stays, Engine!lvars, Engine!LNext, Engine!FailLoad,
             Engine!Interrupted, Engine!Become
  <2>5. CASE /\ pc[p] = "loading"
             /\ loaded' = loaded \cup {at[p]} /\ orphans' = orphans
    BY <1>2, <1>9, <2>2, <2>3, <2>5
       DEF Stays, Engine!lvars, Engine!LNext, Engine!FinishLoad, Engine!Become
  <2>6. CASE /\ pc[p] \in {"unloading", "forcing"}
             /\ loaded' = loaded \ {at[p]} /\ orphans' = orphans \cup Holders(at[p])
    <3>1. Holders(m)' \cap orphans' = (Holders(m) \cap orphans) \cup Holders(m)
      BY <1>2, <1>9, <2>6
    <3>2. CASE m \in loaded
      BY <1>2, <1>9, <2>2, <2>6, <3>1, <3>2
         DEF Stays, Shown, Engine!lvars, Engine!LNext, Engine!Unload
    <3>3. CASE m \notin loaded
      <4>1. Holders(m) \subseteq orphans
        BY <3>3 DEF LeaseInv, EnginesKept, Holders
      <4> QED
        BY <1>2, <1>9, <2>2, <2>6, <3>1, <3>3, <4>1 DEF Stays, Engine!lvars
    <3> QED
      BY <3>2, <3>3
  <2> QED
    BY <2>4, <2>5, <2>6 DEF Service, Changes
<1> QED
  BY <1>6, <1>7, <1>8, <1>9

\* A user comes to hold the engine of its model, which is ready or was loaded
\* by it.
LEMMA TakeKeepsLease ==
  ASSUME LeaseInv, LeaseInv', NEW u \in Users,
         pc[u] \notin Holding, pc' = [pc EXCEPT ![u] = "holding"],
         at' = at, orphans' = orphans,
         \/ LockFree(at[u]) /\ at[u] \in loaded /\ loaded' = loaded
         \/ pc[u] = "loading" /\ loaded' = loaded \cup {at[u]},
         NEW m \in Models
  PROVE  Stays(m)
<1>1. /\ u \in Procs /\ pc \in [Procs -> Stages] /\ at \in [Procs -> Models]
      /\ LocksExclude
  BY DEF Procs, LeaseInv, LInv, TypeOK
<1>2. u \notin orphans
  BY DEF LeaseInv, EnginesKept
<1>3. \A q \in Procs \ {u} : pc'[q] = pc[q]
  BY <1>1
<1>4. pc'[u] = "holding"
  BY <1>1
<1>5. CASE m = at[u]
  <2>1. Holders(m)' = Holders(m) \cup {u} /\ u \notin Holders(m)
    BY <1>1, <1>3, <1>4, <1>5 DEF Holders, Holding, Procs
  <2>2. Holders(m)' \cap orphans' = Holders(m) \cap orphans
    BY <1>2, <2>1
  <2>3. LockFree(m)'
    BY <1>1, <1>3, <1>4, <1>5 DEF LockFree, LocksExclude, Critical
  <2>4. StateOf(m)' = "ready"
    BY <1>5, <2>3 DEF LeaseInv, StatesFollowLocks
  <2>5. StateOf(m) \in {"loading", "ready"}
    BY <1>1, <1>5 DEF LeaseInv, StatesFollowLocks, LInv, LoadsAreNeeded, Critical
  <2> QED
    BY <2>1, <2>2, <2>4, <2>5 DEF Stays, Engine!lvars, Engine!LNext, Engine!Lease
<1>6. CASE m # at[u]
  <2>1. Holders(m)' = Holders(m) /\ Holders(m)' \cap orphans' = Holders(m) \cap orphans
    BY <1>1, <1>3, <1>6 DEF Holders, Procs
  <2>2. m \in loaded' <=> m \in loaded
    BY <1>6
  <2>3. /\ LockFree(m) => LockFree(m)'
        /\ \A q \in Procs : pc[q] \in Critical /\ at[q] = m => pc'[q] = pc[q]
    BY <1>1, <1>3, <1>4, <1>6 DEF LockFree, Critical
  <2> QED
    BY <2>1, <2>2, <2>3, ReleaseKeepsLease
<1> QED
  BY <1>5, <1>6

\* A user leaves: the drain that waited for it goes on, if it was the last one.
LEMMA ExitKeepsLease ==
  ASSUME LeaseInv, LeaseInv', NEW u \in Users, Exit(u), NEW m \in Models
  PROVE  Stays(m)
<1>1. /\ u \in Procs /\ u \notin Workers /\ Users \subseteq Procs
      /\ Users \cap Workers = {} /\ LocksExclude /\ StagesFit /\ TypeOK
  BY RegistryAssumption DEF Procs, LeaseInv, LInv
<1>2. /\ at' = at /\ loaded' = loaded /\ orphans' = orphans \ {u}
      /\ pc[u] \in Holding /\ pc'[u] = "out"
  BY <1>1, ExitShape DEF Exit
<1>3. \A q \in Procs \ {u} :
        \/ pc'[q] = pc[q]
             /\ ~(pc[q] = "draining" /\ at[q] = at[u] /\ count[at[u]] <= 1)
        \/ q \in Workers /\ pc'[q] \in {"out", "armed"}
        \/ /\ pc[q] = "draining" /\ pc'[q] = "unloading"
           /\ at[q] = at[u] /\ count[at[u]] <= 1
  BY <1>1, ExitShape
<1>4. \A v \in Users \ {u} : pc'[v] \in Holding <=> pc[v] \in Holding
  BY <1>1, <1>3 DEF Holding
<1>5. Holders(m)' = Holders(m) \ {u} /\ (u \in Holders(m) <=> at[u] = m)
  BY <1>2, <1>4 DEF Holders, Holding
<1>6. \A q \in Procs : pc'[q] \in Critical => pc[q] \in Critical
  BY <1>2, <1>3 DEF Critical
<1>7. LockFree(m) => LockFree(m)'
  BY <1>2, <1>6 DEF LockFree
<1>8. ASSUME NEW q \in Procs, pc[q] \in Critical, at[q] = m, pc'[q] \notin Critical
      PROVE  LockFree(m)' /\ pc[q] # "loading"
  <2>1. LockFree(m)'
    BY <1>1, <1>2, <1>6, <1>8 DEF LockFree, LocksExclude
  <2>2. q \in Workers
    BY <1>2, <1>3, <1>8 DEF Critical, Holding
  <2> QED
    BY <1>1, <2>1, <2>2 DEF StagesFit, WorkerStages
<1>9. CASE at[u] # m
  <2>1. Holders(m)' = Holders(m) /\ Holders(m)' \cap orphans' = Holders(m) \cap orphans
    BY <1>2, <1>5, <1>9
  <2>2. \A q \in Procs : pc[q] \in Critical /\ at[q] = m =>
          pc'[q] = pc[q] \/ pc'[q] \notin Critical
    BY <1>2, <1>3, <1>9 DEF Critical
  <2> QED
    BY <1>2, <1>7, <1>8, <2>1, <2>2, ReleaseKeepsLease
<1>10. CASE at[u] = m
  <2>1. /\ u \in Holders(m) /\ Holders(m)' = Holders(m) \ {u}
        /\ Holders(m)' \cap orphans' = (Holders(m) \cap orphans) \ {u}
    BY <1>2, <1>5, <1>10
  <2>2. count[m] <= 1 <=> Holders(m) = {u}
    <3>1. /\ count[m] = Cardinality(Holders(m)) /\ IsFiniteSet(Holders(m) \ {u})
          /\ Cardinality(Holders(m) \ {u}) = Cardinality(Holders(m)) - 1
          /\ Cardinality(Holders(m) \ {u}) \in Nat
      BY <2>1, HoldersFinite, FS_RemoveElement, FS_CardinalityType
         DEF LeaseInv, CountsAreHolders
    <3>2. Cardinality(Holders(m) \ {u}) = 0 <=> Holders(m) \ {u} = {}
      BY <3>1, FS_EmptySet
    <3>3. Holders(m) \ {u} = {} <=> Holders(m) = {u}
      BY <2>1
    <3>4. Cardinality(Holders(m)) \in Nat
      BY HoldersFinite
    <3> HIDE DEF Holders
    <3> QED
      BY <3>1, <3>2, <3>3, <3>4
  <2>3. SUFFICES
          \/ StateOf(m)' = IF StateOf(m) = "draining" /\ Holders(m) = {u}
                             THEN "closing" ELSE StateOf(m)
          \/ StateOf(m) \in {"draining", "forced"} /\ StateOf(m)' = "ready"
    BY <2>1, <2>3 DEF Stays, Engine!LNext, Engine!Return
  <2>4. CASE LockFree(m)
    BY <1>2, <1>7, <2>4 DEF LeaseInv, StatesFollowLocks
  <2>5. CASE ~LockFree(m)
    <3>1. PICK q \in Procs : pc[q] \in Critical /\ at[q] = m
      BY <2>5 DEF LockFree
    <3>2. StateOf(m) = IF m \in loaded THEN Shown(pc[q])
                       ELSE IF pc[q] = "loading" THEN "loading" ELSE "none"
      BY <3>1 DEF LeaseInv, StatesFollowLocks
    <3>3. pc'[q] \in Critical =>
            StateOf(m)' = IF m \in loaded THEN Shown(pc'[q])
                          ELSE IF pc'[q] = "loading" THEN "loading" ELSE "none"
      BY <1>2, <3>1 DEF LeaseInv, StatesFollowLocks
    <3>4. q # u /\ pc[q] # "unloading"
      <4>1. Holders(at[q]) # {}
        BY <2>1, <3>1
      <4>2. Cardinality(Holders(at[q])) # 0
        BY <4>1, HoldersFinite, FS_EmptySet
      <4>3. pc[q] # "unloading"
        BY <3>1, <4>2 DEF LeaseInv, DrainCounts, CountsAreHolders
      <4> QED
        BY <1>2, <3>1, <4>3 DEF Critical, Holding
    <3>5. CASE /\ pc'[q] = pc[q]
               /\ ~(pc[q] = "draining" /\ at[q] = at[u] /\ count[at[u]] <= 1)
      <4>1. StateOf(m)' = StateOf(m)
        BY <3>1, <3>2, <3>3, <3>5
      <4>2. ~(StateOf(m) = "draining" /\ Holders(m) = {u})
        BY <1>10, <2>2, <3>1, <3>2, <3>5 DEF Shown
      <4> QED
        BY <4>1, <4>2
    <3>6. CASE pc'[q] \in {"out", "armed"}
      <4>1. LockFree(m)' /\ pc[q] \in {"draining", "forcing"}
        BY <1>8, <3>1, <3>4, <3>6 DEF Critical
      <4>2. StateOf(m)' = IF m \in loaded THEN "ready" ELSE "none"
        BY <1>2, <4>1 DEF LeaseInv, StatesFollowLocks
      <4> QED
        BY <3>2, <4>1, <4>2 DEF Shown
    <3>7. CASE /\ pc[q] = "draining" /\ pc'[q] = "unloading"
               /\ at[q] = at[u] /\ count[at[u]] <= 1
      BY <1>10, <2>2, <3>2, <3>3, <3>7 DEF Shown, Critical
    <3> QED
      BY <1>3, <3>4, <3>5, <3>6, <3>7
  <2> QED
    BY <2>4, <2>5
<1> QED
  BY <1>9, <1>10

LEMMA UserKeepsLease ==
  ASSUME LeaseInv, LeaseInv', NEW u \in Users, UserStep(u), NEW m \in Models
  PROVE  Stays(m)
<1>1. /\ u \in Procs /\ u \notin Workers /\ Users \subseteq Procs
      /\ Users \cap Workers = {} /\ LocksExclude /\ StagesFit /\ TypeOK
      /\ pc \in [Procs -> Stages] /\ at \in [Procs -> Models]
  BY RegistryAssumption DEF Procs, LeaseInv, LInv, TypeOK
<1>2. ASSUME NEW n \in Models, Enter(u, n) PROVE Stays(m)
  <2>1. [pc EXCEPT ![u] = "toLoad"] \in [Procs -> Stages]
    BY <1>1 DEF Stages
  <2>2. Touches([pc EXCEPT ![u] = "toLoad"])
    BY <1>1, <1>2, <2>1, CancelTouches DEF Enter
  <2>3. /\ pc[u] = "out" /\ pc'[u] = "toLoad"
        /\ loaded' = loaded /\ orphans' = orphans
        /\ \A q \in Procs \ {u} :
             /\ at'[q] = at[q]
             /\ pc'[q] = pc[q] \/ (q \in Workers /\ pc'[q] \in {"out", "armed"})
    BY <1>1, <1>2, <2>2 DEF Enter, Touches, engines
  <2>4. Holders(m)' = Holders(m)
    BY <1>1, <2>3 DEF Holders, Holding
  <2>5. \A q \in Procs : pc'[q] \in Critical => pc[q] \in Critical /\ at'[q] = at[q]
    BY <2>3 DEF Critical
  <2>6. ASSUME NEW q \in Procs, pc[q] \in Critical, at[q] = m, pc'[q] # pc[q]
        PROVE  LockFree(m)' /\ pc[q] # "loading"
    <3>1. q \in Workers /\ pc'[q] \notin Critical
      BY <2>3, <2>6 DEF Critical
    <3>2. LockFree(m)'
      BY <1>1, <2>5, <2>6, <3>1 DEF LockFree, LocksExclude
    <3> QED
      BY <1>1, <3>1, <3>2 DEF StagesFit, WorkerStages
  <2>7. LockFree(m) => LockFree(m)'
    BY <2>5 DEF LockFree
  <2>8. \A q \in Procs : pc[q] \in Critical => at'[q] = at[q]
    BY <2>3 DEF Critical
  <2> QED
    BY <2>3, <2>4, <2>6, <2>7, <2>8, ReleaseKeepsLease
<1>3. CASE Acquire(u)
  <2>1. CASE at[u] \in loaded
    BY <1>3, <2>1, TakeKeepsLease DEF Acquire, Holding
  <2>2. CASE at[u] \notin loaded
    <3>1. /\ pc[u] = "toLoad" /\ LockFree(at[u]) /\ at' = at
          /\ loaded' = loaded /\ orphans' = orphans
          /\ pc'[u] = "loading" /\ \A q \in Procs \ {u} : pc'[q] = pc[q]
      BY <1>1, <1>3, <2>2 DEF Acquire
    <3>2. Holders(m)' = Holders(m)
      BY <1>1, <3>1 DEF Holders, Holding
    <3>3. CASE m = at[u]
      <4>1. StateOf(m) = "none" /\ StateOf(m)' = "loading"
        BY <1>1, <2>2, <3>1, <3>3 DEF LeaseInv, StatesFollowLocks, Critical
      <4> QED
        BY <3>1, <3>2, <4>1
           DEF Stays, Engine!lvars, Engine!LNext, Engine!Load, Engine!Become
    <3>4. CASE m # at[u]
      <4>1. LockFree(m) => LockFree(m)'
        BY <1>1, <3>1, <3>4 DEF LockFree
      <4>2. \A q \in Procs : pc[q] \in Critical => pc'[q] = pc[q]
        BY <3>1 DEF Critical
      <4> QED
        BY <3>1, <3>2, <4>1, <4>2, ReleaseKeepsLease
    <3> QED
      BY <3>3, <3>4
  <2> QED
    BY <2>1, <2>2
<1>4. CASE Loaded(u)
  BY <1>4, TakeKeepsLease DEF Loaded, Holding
<1>5. CASE Abandon(u)
  <2>1. /\ pc[u] \in {"toLoad", "loading"} /\ at' = at
        /\ loaded' = loaded /\ orphans' = orphans
        /\ pc'[u] = "out" /\ \A q \in Procs \ {u} : pc'[q] = pc[q]
    BY <1>1, <1>5 DEF Abandon, engines
  <2>2. Holders(m)' = Holders(m)
    BY <1>1, <2>1 DEF Holders, Holding
  <2>3. CASE pc[u] = "loading" /\ at[u] = m
    <3>1. LockFree(m)'
      BY <1>1, <2>1, <2>3 DEF LockFree, LocksExclude, Critical
    <3>2. m \notin loaded
      BY <1>1, <2>3 DEF LeaseInv, LInv, LoadsAreNeeded
    <3>3. StateOf(m) = "loading" /\ StateOf(m)' = "none"
      BY <1>1, <2>1, <2>3, <3>1, <3>2 DEF LeaseInv, StatesFollowLocks, Critical
    <3> QED
      BY <2>1, <2>2, <3>3
         DEF Stays, Engine!lvars, Engine!LNext, Engine!FailLoad, Engine!Become
  <2>4. CASE ~(pc[u] = "loading" /\ at[u] = m)
    <3>1. LockFree(m) => LockFree(m)'
      BY <1>1, <2>1 DEF LockFree, Critical
    <3>2. \A q \in Procs : pc[q] \in Critical /\ at[q] = m => pc'[q] = pc[q]
      BY <2>1, <2>4 DEF Critical
    <3> QED
      BY <2>1, <2>2, <3>1, <3>2, ReleaseKeepsLease
  <2> QED
    BY <2>3, <2>4
<1>6. CASE Infer(u)
  <2>1. /\ pc[u] = "holding" /\ at' = at /\ loaded' = loaded /\ orphans' = orphans
        /\ pc'[u] = "inferring" /\ \A q \in Procs \ {u} : pc'[q] = pc[q]
    BY <1>1, <1>6 DEF Infer
  <2>2. Holders(m)' = Holders(m)
    BY <1>1, <2>1 DEF Holders, Holding
  <2>3. LockFree(m) => LockFree(m)'
    BY <2>1 DEF LockFree, Critical
  <2>4. \A q \in Procs : pc[q] \in Critical => pc'[q] = pc[q]
    BY <2>1 DEF Critical
  <2> QED
    BY <2>1, <2>2, <2>3, <2>4, ReleaseKeepsLease
<1>7. CASE Exit(u)
  BY <1>7, ExitKeepsLease
<1> QED
  BY <1>2, <1>3, <1>4, <1>5, <1>6, <1>7 DEF UserStep

LEMMA NextKeepsLease ==
  LeaseInv /\ LeaseInv' /\ [Next]_vars => [\A m \in Models : Stays(m)]_vars
<1> SUFFICES ASSUME LeaseInv, LeaseInv', Next, NEW m \in Models
             PROVE  Stays(m)
  OBVIOUS
<1>1. CASE UNCHANGED vars
  <2>1. StateOf(m)' = StateOf(m) /\ UNCHANGED <<Holders(m), orphans>>
    BY <1>1 DEF vars, StateOf, Doing, Holders
  <2> QED
    BY <2>1 DEF Stays, Engine!lvars
<1> QED
  BY <1>1, StepKinds, ServiceKeepsLease, UserKeepsLease DEF LeaseInv, LInv

LEMMA LeaseInvariant == Spec => []LeaseInv
<1>1. Init => EnginesKept
  BY DEF Init, EnginesKept, Holding, Procs
<1>2. Spec => []EnginesKept
  BY <1>1, NextKeepsEngines, LocksInvariant, PTL DEF Spec
<1> QED
  BY <1>2, LocksInvariant, DrainInvariant, StatesAreLocks, PTL DEF LeaseInv

(* The registry implements the lease of each engine: whatever happens to    *)
(* other models, tasks and the timer, the steps of one model are those of   *)
(* EngineLease or none (registry.py:214, "Guarantees the model cannot be    *)
(* concurrently unloaded", but for the drain that is given up).             *)
THEOREM RegistryImplementsLease == Spec => LeasesKept
<1>1. ASSUME Init, NEW m \in Models PROVE Engine(m)!LInit
  <2>1. Holders(m) = {} /\ ~Doing(m, "loading") /\ loaded = {}
    BY <1>1 DEF Init, Holders, Holding, Procs, Doing
  <2> QED
    BY <2>1 DEF Engine!LInit, StateOf
<1>2. Init => \A m \in Models : Engine(m)!LInit
  BY <1>1
<1>3. LeaseInv /\ LeaseInv' /\ [Next]_vars
        => [\A m \in Models : [Engine(m)!LNext]_(Engine(m)!lvars)]_vars
  BY NextKeepsLease DEF Stays
<1> QED
  BY <1>2, <1>3, LeaseInvariant, PTL DEF Spec, LeasesKept
=============================================================================
