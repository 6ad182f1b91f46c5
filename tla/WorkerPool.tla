----------------------------- MODULE WorkerPool -----------------------------
(***************************************************************************)
(* models/qwen3_asr.py with a worker per GPU: how Qwen3ASREngine starts    *)
(* its workers, hands them to the executor threads that transcribe, and    *)
(* stops them.  A worker process is seen through its proxy: its flag       *)
(* is_sleeping, the KV cache it really has, whether it still answers       *)
(* (module WorkerProcess has the details).  The engine's lock guards the   *)
(* probe, the load and the clean-up.  It does not guard the queue: workers *)
(* are waited for, and come back, while a probe has the others out of the  *)
(* queue or an unload stops them.                                          *)
(***************************************************************************)
EXTENDS Integers, Sequences, FiniteSets, SequencesExt

CONSTANTS Threads,    \* transcribe() calls, one each
          Workers,    \* devices of resolve_devices
          MayUnload,  \* may unload() be called?
          None

ASSUME PoolAssumption ==
  /\ IsFiniteSet(Workers) /\ Workers # {}
  /\ MayUnload \in BOOLEAN
  /\ None \notin Workers

VARIABLES
  phase,    \* "loading", "up", "stopping" under the lock, "down", "failed"
  workers,  \* _workers, in the order of their start
  stopped,  \* how many of them the unload has stopped
  free,     \* _worker_queue
  looked,   \* all_candidates of the probe in progress
  tight,    \* devices with less free VRAM than MIN_WAKE_VRAM_MB
  flag,     \* proxy.is_sleeping
  child,    \* each worker's process: "absent"; its engine "awake" with its KV
            \* cache, "asleep", or "numb": a wake-up failed and the child
            \* believes it awake; "dumb": it has taken a sleep command and
            \* answers no more
  pc,       \* where each call is
  got,      \* the worker it has
  short     \* devices short of memory at its probe, until it judges (history)

vars == <<phase, workers, stopped, free, looked, tight, flag, child, pc,
          got, short>>
engine == <<phase, workers, stopped>>
pool == <<free, looked>>

Ends == {"ended", "rejected"}
Pcs == {"new", "probe", "probing", "unserved", "waiting", "taken", "running"} \cup Ends

Init ==
  /\ phase = "loading"
  /\ workers = <<>> /\ stopped = 0
  /\ free = <<>> /\ looked = <<>>
  /\ tight \in SUBSET Workers
  /\ flag = [w \in Workers |-> FALSE]
  /\ child = [w \in Workers |-> "absent"]
  /\ pc = [t \in Threads |-> "new"]
  /\ got = [t \in Threads |-> None]
  /\ short = [t \in Threads |-> {}]

\* _load_blocking, under the lock: a worker is started and awaited, then it
\* joins the pool.
StartWorker(w) ==
  /\ phase = "loading" /\ w \notin ToSet(workers)
  /\ workers' = Append(workers, w)
  /\ free' = Append(free, w)
  /\ child' = [child EXCEPT ![w] = "awake"]
  /\ phase' = IF ToSet(workers') = Workers THEN "up" ELSE "loading"
  /\ UNCHANGED <<stopped, looked, tight, flag, pc, got, short>>

\* wait_ready() raises: the engine is dropped with what it has started.
StartFails(w) ==
  /\ phase = "loading" /\ w \notin ToSet(workers)
  /\ phase' = "failed"
  /\ \E left \in {"absent", "awake"} : child' = [child EXCEPT ![w] = left]
  /\ UNCHANGED <<workers, stopped, pool, tight, flag, pc, got, short>>

\* transcribe() finds _workers not empty and the engine loaded
Enter(t) ==
  /\ pc[t] = "new" /\ phase \in {"up", "stopping"}
  /\ pc' = [pc EXCEPT ![t] = "probe"]
  /\ UNCHANGED <<engine, pool, tight, flag, child, got, short>>

Take(t, w) ==
  /\ pc' = [pc EXCEPT ![t] = "taken"]
  /\ got' = [got EXCEPT ![t] = w]

\* execute_transcribe: the flag is cleared, and a child that sleeps woken up,
\* in vain when its device is short of memory.
Begin(t) ==
  /\ pc[t] = "taken"
  /\ pc' = [pc EXCEPT ![t] = "running"]
  /\ flag' = [flag EXCEPT ![got[t]] = FALSE]
  /\ child' = IF child[got[t]] # "asleep" THEN child
                ELSE [child EXCEPT ![got[t]] =
                        IF got[t] \in tight THEN "numb" ELSE "awake"]
  /\ UNCHANGED <<engine, pool, tight, got, short>>

Probing == \E t \in Threads : pc[t] = "probing"

\* The pre-wakeup probe begins: with the lock, it takes all out of the queue.
StartProbe(t) ==
  /\ pc[t] = "probe" /\ ~Probing /\ phase # "stopping"
  /\ pc' = [pc EXCEPT ![t] = "probing"]
  /\ looked' = free /\ free' = <<>>
  /\ UNCHANGED <<engine, tight, flag, child, got, short>>

Usable(w) == ~(flag[w] /\ w \in tight)

\* Variant with a bug: the workers the probe skipped are not put back.
ProbeTakesDropping(t) ==
  \E i \in 1 .. Len(looked) :
    /\ Usable(looked[i])
    /\ \A k \in 1 .. i - 1 : ~Usable(looked[k])
    /\ free' = free \o SubSeq(looked, i + 1, Len(looked))
    /\ Take(t, looked[i])
    /\ UNCHANGED short

\* The first that is awake or has room is taken, the others go back in order,
\* behind those that have come back meanwhile.
ProbeTakes(t) ==
  \E i \in 1 .. Len(looked) :
    /\ Usable(looked[i])
    /\ \A k \in 1 .. i - 1 : ~Usable(looked[k])
    /\ free' = free \o RemoveAt(looked, i)
    /\ Take(t, looked[i])
    /\ UNCHANGED short

ProbeFails(t) ==
  /\ \A i \in 1 .. Len(looked) : ~Usable(looked[i])
  /\ free' = free \o looked
  /\ pc' = [pc EXCEPT ![t] = "unserved"]
  /\ short' = [short EXCEPT ![t] = tight]
  /\ UNCHANGED got

Probe(t) ==
  /\ pc[t] = "probing"
  /\ ProbeTakes(t) \/ ProbeFails(t)
  /\ looked' = <<>>
  /\ UNCHANGED <<engine, tight, flag, child>>

\* Variant with a bug: the call is rejected whenever the probe finds nobody.
JudgeHastily(t) ==
  /\ pc[t] = "unserved"
  /\ pc' = [pc EXCEPT ![t] = "rejected"]
  /\ short' = [short EXCEPT ![t] = {}]
  /\ UNCHANGED <<engine, pool, tight, flag, child, got>>

\* all(is_sleeping for w in _workers), which holds of no workers too
Judge(t) ==
  /\ pc[t] = "unserved"
  /\ pc' = [pc EXCEPT ![t] =
              IF \A w \in ToSet(workers) : flag[w] THEN "rejected" ELSE "waiting"]
  /\ short' = [short EXCEPT ![t] = {}]
  /\ UNCHANGED <<engine, pool, tight, flag, child, got>>

\* _worker_queue.get(timeout=60): no probe here
Get(t) ==
  /\ pc[t] = "waiting" /\ free # <<>>
  /\ free' = Tail(free)
  /\ Take(t, Head(free))
  /\ UNCHANGED <<engine, looked, tight, flag, child, short>>

GetTimeout(t) ==
  /\ pc[t] = "waiting" /\ free = <<>>
  /\ pc' = [pc EXCEPT ![t] = "ended"]
  /\ UNCHANGED <<engine, pool, tight, flag, child, got, short>>

\* Variant with a bug: the call waits for its answer without a time-out.
FinishUntimed(t) ==
  /\ pc[t] = "running"
  /\ child[got[t]] # "dumb"
  /\ pc' = [pc EXCEPT ![t] = "ended"]
  /\ got' = [got EXCEPT ![t] = None]
  /\ free' = Append(free, got[t])
  /\ UNCHANGED <<engine, looked, tight, flag, child, short>>

\* The call ends with a result, an error of the child or its death, or after
\* ten minutes; the worker goes back into the queue of this engine.
Finish(t) ==
  /\ pc[t] = "running"
  /\ pc' = [pc EXCEPT ![t] = "ended"]
  /\ got' = [got EXCEPT ![t] = None]
  /\ free' = Append(free, got[t])
  /\ UNCHANGED <<engine, looked, tight, flag, child, short>>

-----------------------------------------------------------------------------
InUse == {got[t] : t \in {u \in Threads : pc[u] = "running"}}

\* a child's own idle timer: the proxy is not told
ChildSleeps(w) ==
  /\ child[w] \in {"awake", "numb"} /\ w \notin InUse
  /\ child' = [child EXCEPT ![w] = "asleep"]
  /\ UNCHANGED <<engine, pool, tight, flag, pc, got, short>>

\* somebody else takes or gives back memory
RoomChanges(w) ==
  /\ tight' = IF w \in tight THEN tight \ {w} ELSE tight \cup {w}
  /\ UNCHANGED <<engine, pool, flag, child, pc, got, short>>

ChildDies(w) ==
  /\ child[w] # "absent"
  /\ child' = [child EXCEPT ![w] = "absent"]
  /\ UNCHANGED <<engine, pool, tight, flag, pc, got, short>>

\* The registry puts an engine to sleep that nobody uses; the command makes
\* each living child wait for its own lock.
EnterSleep ==
  /\ phase = "up"
  /\ \A t \in Threads : pc[t] \in {"new"} \cup Ends
  /\ flag' = [w \in Workers |-> TRUE]
  /\ child' = [w \in Workers |-> IF child[w] = "absent" THEN "absent" ELSE "dumb"]
  /\ UNCHANGED <<engine, pool, tight, pc, got, short>>

\* unload() has the lock.  A forced one comes while calls are running.
Unload ==
  /\ MayUnload /\ phase = "up" /\ ~Probing
  /\ phase' = "stopping"
  /\ UNCHANGED <<workers, stopped, pool, tight, flag, child, pc, got, short>>

\* The next worker is stopped, or killed.
StopWorker ==
  /\ phase = "stopping" /\ stopped < Len(workers)
  /\ stopped' = stopped + 1
  /\ flag' = [flag EXCEPT ![workers[stopped']] = TRUE]
  /\ child' = [child EXCEPT ![workers[stopped']] = "absent"]
  /\ UNCHANGED <<phase, workers, pool, tight, pc, got, short>>

\* With the last one gone the list and the queue are emptied.
Unloaded ==
  /\ phase = "stopping" /\ stopped = Len(workers)
  /\ phase' = "down"
  /\ workers' = <<>> /\ stopped' = 0 /\ free' = <<>>
  /\ UNCHANGED <<looked, tight, flag, child, pc, got, short>>

\* transcribe() without workers takes the in-process path and finds no model
EnterUnloaded(t) ==
  /\ pc[t] = "new" /\ phase = "down"
  /\ pc' = [pc EXCEPT ![t] = "ended"]
  /\ UNCHANGED <<engine, pool, tight, flag, child, got, short>>

-----------------------------------------------------------------------------
CallStep(t) ==
  \/ Enter(t) \/ EnterUnloaded(t) \/ StartProbe(t) \/ Probe(t) \/ Judge(t)
  \/ Get(t) \/ GetTimeout(t) \/ Begin(t) \/ Finish(t)

Next ==
  \/ \E w \in Workers : StartWorker(w) \/ StartFails(w)
  \/ \E t \in Threads : CallStep(t)
  \/ \E w \in Workers : ChildSleeps(w) \/ ChildDies(w) \/ RoomChanges(w)
  \/ EnterSleep
  \/ Unload \/ StopWorker \/ Unloaded

Spec == Init /\ [][Next]_vars

\* Calls and probes go on; the stop of a worker has its time-out.
FairSpec ==
  /\ Spec
  /\ \A t \in Threads : WF_vars(CallStep(t))
  /\ WF_vars(StopWorker) /\ WF_vars(Unloaded)

-----------------------------------------------------------------------------
TypeOK ==
  /\ phase \in {"loading", "up", "stopping", "down", "failed"}
  /\ workers \in Seq(Workers) /\ stopped \in Nat
  /\ free \in Seq(Workers) /\ looked \in Seq(Workers)
  /\ tight \subseteq Workers
  /\ flag \in [Workers -> BOOLEAN]
  /\ child \in [Workers -> {"absent", "awake", "asleep", "numb", "dumb"}]
  /\ pc \in [Threads -> Pcs]
  /\ got \in [Threads -> Workers \cup {None}]
  /\ \A t \in Threads : got[t] # None <=> pc[t] \in {"taken", "running"}
  /\ short \in [Threads -> SUBSET Workers]

\* the workers that no call has
Unused == free \o looked

(* While the engine is up each of its workers is either once in the queue, *)
(* or in the probe that goes on, or in the hands of one call: probes,      *)
(* time-outs and failures lose none and share none, while others wait on   *)
(* the queue and put their workers back into it.                           *)
EveryWorkerOnce ==
  phase = "up" =>
    \A w \in Workers :
      Cardinality({i \in 1 .. Len(Unused) : Unused[i] = w})
        + Cardinality({t \in Threads : got[t] = w}) = 1

(* A call is rejected by an engine that is up only if each of its workers  *)
(* was short of memory at the call's probe, or is being taken by another   *)
(* call that has not cleared its flag yet: never because the workers are   *)
(* busy, in whatever order calls come, end and are looked at.              *)
RejectedForCause ==
  [][\A t \in Threads :
       phase = "up" /\ pc[t] # "rejected" /\ pc'[t] = "rejected"
         => \A w \in Workers \ short[t] :
              \E u \in Threads : pc[u] = "taken" /\ got[u] = w]_vars

(* Every call that has begun comes to an end, on whatever children.        *)
CallsEnd == \A t \in Threads : pc[t] = "probe" ~> pc[t] \in Ends

-----------------------------------------------------------------------------
(* What the documentation says and the code does not do.                   *)

(* tests/test_agent.py:1936, a card without free memory "cannot restore KV *)
(* cache and is skipped": no child transcribes without its cache.          *)
RunsWithCache ==
  \A t \in Threads :
    pc[t] = "running" => child[got[t]] \in {"awake", "dumb", "absent"}

(* The same words: a call is rejected only if every device was short of    *)
(* memory (a call that comes while another has taken the last worker and   *)
(* not cleared its flag is rejected, too).                                 *)
RejectedOnlyShort ==
  [][\A t \in Threads :
       phase = "up" /\ pc[t] # "rejected" /\ pc'[t] = "rejected"
         => short[t] = Workers]_vars

(* qwen3_asr.py:363, "All GPU workers have insufficient free VRAM": a call *)
(* rejected with these words was made on an engine that has workers.       *)
RejectedOnlyLoaded ==
  [][\A t \in Threads : pc[t] # "rejected" /\ pc'[t] = "rejected"
       => workers # <<>>]_vars
=============================================================================
