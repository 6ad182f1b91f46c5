# Verification of cyphr-agent

cyphr-agent is an asyncio program that connects to a controller over a
WebSocket, takes transcription and translation jobs from it, runs them on
models it loads and unloads, and reports the results over HTTP.  This directory
models the parts of it where several tasks, threads and processes meet, checks
the models with TLC and proves what matters most about each with TLAPS.
Paths below are relative to `src/` of the repository's Python package
(`src/src/...` in `PROJECT.json`).

## 1. Inventory

| part | code | state | operations |
|---|---|---|---|
| Job semaphore | `scheduler/semaphore.py` | capacity, permits out, the condition's wait set, pending notifications | `acquire`, `release`, `set_capacity`, `_notify`, cancellation of a waiter |
| Model registry | `models/registry.py` | loaded engines, load locks, reference counts, drain events, work mode, idle delay and idle task | `acquire_engine`, `load_model`, `unload_model`, `unload_all_models`, `set_work_mode`, `set_auto_unload_minutes`, `_idle_worker` |
| ASR worker process, proxy | `models/worker.py`, `workers/proxy.py` | command and response queue, KV cache, `is_sleeping` on both sides, lock, timer threads, `active_tasks` | start, `wait_ready`, `execute_transcribe`, `enter_sleep`, `stop`; the commands `transcribe`, `sleep`, `stop`; `_enter_sleep` |
| ASR engine, worker pool | `models/qwen3_asr.py` 1-376 | list and queue of workers, lock | `load`, `transcribe` (probe, wait on the queue, return), `enter_sleep`, `unload` |
| ASR engine, in-process path | `models/qwen3_asr.py` 118-505 | model, KV cache, `_is_sleeping`, `_active_tasks`, lock, timer | `load`, `transcribe`, `_enter_sleep`, `enter_sleep`, `_wake_up_locked`, `is_active`, `unload` |
| Job runner, handler, reporter | `scheduler/runner.py`, `scheduler/handlers/asr.py`, `reporter.py` | active tasks, inference lock, temporary files, what was reported | `run_job`, `_execute_job`, `execute`, `report_*`, `set_max_concurrent_jobs` |
| WebSocket client | `ws_client.py` | `_running`, connection, pull trigger, cooldowns, heartbeat and pull tasks, chat tasks | `start`, `stop`, `_message_loop`, `_pull_worker`, `_check_and_pull_job`, `_heartbeat_loop`, `on_job_rejected`, `on_job_finished` |
| HyMT2 engine and chats | `models/hy_mt2.py`, `ws_client.py` 295-312, 388-445 | `_active_requests`, `_aborted_requests`, chat tasks by id, the position of each stream | `load`, `generate_stream`, `abort`, `unload`, `chat_completion`, `chat_abort` |
| Entry point | `main.py` | the process | signal handler, end of the process |
| Probes, telemetry, configuration | `resources/`, `monitor.py`, `config.py` | none that changes | queries |

How they interact.  The message loop of the client handles one message at a
time and calls the runner (`run_job`) and the registry (load, unload, mode,
idle delay) directly; a handler awaited there keeps every later message
waiting.  `run_job` creates a task that waits on the semaphore, opens
`registry.acquire_engine`, and runs the handler inside; the handler calls the
engine in an executor thread, and the engine of a multi-GPU agent talks to its
worker processes over queues.  The end of a job and a rejection come back to
the client by callbacks, which trigger the pull worker.  The idle task of the
registry unloads models behind everybody's back and tells the client by a
callback.

What is hard.  Three schedulers are at work: the event loop (a task may lose
control at each await), the executor threads and the child processes with their
own timer threads.  State is read before a suspension and used after it (the
engine behind a reference count, the idle timer behind an acquisition, the
proxy's flag of a child); time-outs race with late answers (drains, worker
queues, calls to a child); steps of a job fail with locks, files and slots
taken; the connection comes and goes with triggers and messages in flight.
`PROJECT.json` lists each of these hazards at its line, with the properties
that would catch it.

What makes the parts correct, in a line each: a semaphore leaks no permit and
leaves nobody asleep beside a free one; a registry unloads no engine that is in
use but by a drain that timed out, loads none twice, and unloads what is idle;
a worker process gives each call its own answer, sleeps when idle and never
under a call; a pool loses no worker, rejects no call for being busy and ends every call; an
engine in the agent's own process keeps its cache under an inference, gives it
back when idle and never blocks the event loop for good; a chat is streamed
whole, ends when it is aborted and leaves nothing registered; a job ends, leaves
nothing behind and is reported once; a client takes what it can and comes back.

## 2. Plan

Order of the modules: first the parts all others rest on.

1. `DynamicSemaphore`, which implements `Permits`; its proofs. *Done.*
2. `ModelRegistry`, which implements `EngineLease`; its proofs. *Done.*
3. `WorkerProcess`, which implements `CacheLease`, then `WorkerPool`, which sees a process through its proxy. *Done.*
4. `JobRunner`, which uses the semaphore through `Permits`. *Done.*
5. `AgentClient`, which sees the jobs as a set. *Done.*
6. `ChatStream`: chat requests and aborts on an explicit event loop. *Done.*
7. `InProcessEngine`: the engine of an agent with one GPU, which implements
   `CacheLease`. *Done.*
8. Proofs of the invariants and action properties of every module, and of the
   refinements. *Done.*
9. Composition: `AgentClient` with `JobRunner` (the same job by a dispatch and a
   pull); a stop of the client followed by the end of the process.

Abstract specifications: `Permits`, of which both the semaphore and the runner
are shown to be refinements; `EngineLease`, of which the registry is one for each
model; `CacheLease`, of which both the child process and the in-process engine
are refinements.  Still worth stating: for a job, the verdicts the controller
sees.

## 3. Modules and code

Every module is one component; `MC*` modules give its constants values; no
module uses recursion, so every one can be proved about.  In all of them a step
is what one task, thread or process does between two points at which another
may run.  A definition under "Variant with a bug" is not part of the
specification: it is the mutated form of the definition beside it, with which
the property named in `PROJECT.json` must fail.

**`Permits`** is the abstract semaphore: who has asked, who holds a permit, who
is finished.  It maps to no code of its own.

**`DynamicSemaphore`** (`scheduler/semaphore.py`).  `capacity` and `acquired`
are the fields, `stage` says where each job is in `async with semaphore`,
`notifiers` counts the background tasks `set_capacity` creates.  The condition's
lock is never held across a suspension, so `Grant`, `Block`, `Release` and
`SetCapacity` are atomic.  `Cancel` is the cancellation of a suspended waiter.

**`EngineLease`** is the life of one model's engine as its users see it: loaded
once, leased when it is ready, drained before it is unloaded, and lost by its
users only to a drain that was given up.  It maps to no code of its own.
`ModelRegistry` is mapped to it model by model: the engine's state follows from
`loaded` and from the stage of the task that holds the load lock (`StateOf`), its
users are the open contexts, the users who lost it are `orphans`.

**`CacheLease`** is what an engine with a sleep mode does with its KV cache,
wherever it runs: it is offloaded only while nobody uses the engine, who comes
next has it woken up, and nothing is allocated once the engine is closed.  It
maps to no code of its own.  `WorkerProcess` is mapped to it by the child's stage
and flag, with the call it transcribes as the only user; `InProcessEngine` by
`_model` and `_is_sleeping`, with the calls between their two visits to the lock
as users (`EngineState` in both).

**`ModelRegistry`** (`models/registry.py`).  `pc` says where each user (a job or
a chat), the message loop (`Loop`) and each idle worker is suspended, `at` the
model it works on.  The load lock of a model is held by the task whose stage is
in `Critical`; `_registry_lock` is never held across a suspension.  `Enter`,
`Acquire`, `Loaded`, `Abandon`, `Infer`, `Exit` are `acquire_engine` and its
body; `LoadCommand` to `FailLoad` are `load_model`; `Sweep`, `StartUnload`,
`DrainTimeout`, `Unloaded`, `NextUnload` are `unload_model` and
`unload_all_models`; `CheckIdle` and `CancelIdleTimer` are the methods of these
names, run inside the action of their caller.  An idle worker that cancels
itself is `doomed`: it dies at its next suspension (`Die`), not at once.
`modeOf`, `orphans` and `freed` remember facts the code does not keep and only
properties read (but that inference on an engine already unloaded does not
touch its successor).  The branch of `acquire_engine` for a registered engine
whose `loaded` flag is down has no action: an engine is registered after its load
and removed from the table, under the load lock, in the same step that lowers the
flag, so nobody who holds that lock meets one.

**`WorkerProcess`** (`models/worker.py`, `workers/proxy.py`).  The child's main
thread (`child`, `task`), its lock by atomicity, but for the sleep command, which
takes the lock twice (`"stuck"`), its timer (`armed`) and timer threads that
fired and cannot be cancelled any more (`entering`); the proxy's call, flag and
stop; both queues.  `SleepsWhenIdle` is the guard `sleep_idle_seconds > 0` of the
timer.  `answered` and `raised` are history.

**`WorkerPool`** (`models/qwen3_asr.py`, the worker path).  `workers` and `free`
are `_workers` and `_worker_queue`; `pc` and `got` say where each executor
thread is in `transcribe`.  A probe holds the lock, which the queue knows nothing
of: `StartProbe` takes all workers out of the queue (`looked`), `Probe` takes the
first usable one and puts the others back, and between the two other calls wait
on the queue that is empty, time out, or put their workers back into it.  Looking
at `_workers` (`Judge`), the wait on the queue (`Get`) and the clearing of the
proxy's flag (`Begin`, the first line of `execute_transcribe`) are outside of the
lock.  `Unload` takes it, `StopWorker` stops the workers one after another while
calls run on, `Unloaded` empties list and queue.  `Judge` reads all the flags in
one step, and `Probe` those it looks at with the memory of their devices: an
engine has few workers and neither read suspends anything.  A child is seen by
what it does to its callers (`child`): its engine is awake with its cache or
asleep, it is gone, or it has taken a sleep command and answers no more
(`"dumb"`), or it believes an engine awake that refused to wake up (`"numb"`), as
`WorkerProcess` shows it does.  Memory comes and goes (`RoomChanges`, external);
`short` remembers which devices lacked it at a call's probe and is history.

**`InProcessEngine`** (`models/qwen3_asr.py`, the in-process path) is the life of
one engine object.  A thread keeps `_lock` for the whole of its inference
(`lock`); the other sections under it are atomic: `Enter` is the first visit of a
call, with the cancellation of the timer and the wake-up, `Leave` that of its
`finally` clause, `Offload` the body of `_enter_sleep`.  `entering` counts timer
threads that have fired and wait for the lock.  `loop` is what the event loop
waits for the lock for: `is_active`, `enter_sleep` and `unload` are called on it
directly, so it does nothing else meanwhile.  `numb` remembers that a wake-up or
a sleep has raised, which the code logs and ignores.

**`ChatStream`** (`models/hy_mt2.py` and the chats of `ws_client.py`).  Unlike the
other modules it has an explicit event loop: `ready` holds the callbacks that
will run, in order, since what goes wrong with aborts depends on that order.
The body of a chat is one step between two of its awaits; the done callback
(`"pop"`), the task of an abort (`"abort"`) and the two turns it takes to close a
generator that was left at its yield (`"hook"`, `"close"`) are callbacks of their
own.  The message loop (`loop`) handles a message between any two callbacks,
unless it waits for a drain, or in its own send of the model status that follows
an unload, which lasts as long as the controller does not read.  Both modes of
the engine are there (`mock`); `TextLength` bounds a translation, and an output of
vLLM is any longer prefix of it, the last one possibly no longer than the one
before.  vLLM's own `abort` is awaited as well, but has taken effect before it can
suspend and nothing of the state is touched after it, so `AbortRequest` is one
step.  `hit`, `dead` and `silent` are history.

**`JobRunner`** (`scheduler/runner.py`, `scheduler/handlers/asr.py`,
`reporter.py`).  A run is a task of `run_job`; two runs may carry one job.  The
stages are the awaits of `_execute_job` and `execute`; each HTTP request may
fail, the completion report also after the controller has accepted it
(`Settle`).  The operating system may refuse to remove a media file, which the
handler logs and swallows (`RemoveFile`): `refused` remembers the runs whose file
stays on the disk for that reason.  `told` is what the controller has accepted.  `Shutdown` is the end of
`main`, after which `asyncio.run` cancels each run at its await (`Cancelled`): no
run does anything else, since every cancellation is requested before any run goes
on.  A report that was on its way may have been accepted (`Underway`).  The
executor thread of a cancelled inference runs on, and meets no other inference.

**`AgentClient`** (`ws_client.py`).  `link` is where `start` is, `puller`,
`trigger` and `heart` the tasks of a connection, `pulls` and `inbox` what is on
the wire.  `room` is the answer of `check_resources_available`.  A rejection is
two steps: its cooldown counts from before the message to the controller is sent
(`Reject`), the `call_later` that triggers a pull is set when the send is over
(`Rejected`); `telling` are the jobs in between, `cooling` those whose cooldown has
not expired, and `due` those whose `call_later` is still to fire.  The controller (`NewJob`, `Dispatch`, `AnswerPull`,
`SetConfig`) is external: it is modelled from the messages `ws_client.py`
handles.

**`*Proofs`** modules hold the theorems about the module they are named after,
and the strengthened invariants these need (see 6).

**External code** as it is used: `asyncio.Condition`, `asyncio.Lock`, tasks, their
cancellation and the finalisation of asynchronous generators, the queues and
processes of `multiprocessing`, the free memory of the GPUs, the controller.

## 4. What the runs check

| run | what it shows | bounds |
|---|---|---|
| `Semaphore` | the count is the number of holders, no waiter sleeps beside a free permit once the notifications have run, every waiter is served or cancelled, `Permits` is implemented | 4 jobs, capacities 1-3 and the refused 0, 2 notifications at a time (`MaxNotifiers`) |
| `Registry` | counts, drains, loads, pre-emptive sleep and timer (6 invariants) with every operation, failing loads and aborts; `EngineLease` is implemented | 2 users, 2 models, 2 modes, 2 idle workers; symmetric |
| `RegistryServed` | whoever waits for a load lock gets it although inferences may never end | 2 users, 1 model |
| `RegistryIdle` | an agent left idle with auto-unload on ends with nothing loaded | 1 user, 2 models, no failing acquisition (see 7) |
| `Worker` | answers go to their calls, no sleep under a call, no process left by `stop`, a child that is left idle has given back its cache for good, or its engine has raised; `CacheLease` is implemented | 3 calls (`MaxCalls`), 1 sleep request (`MaxSleeps`), 2 timer threads in flight (`MaxEntering`), an idle delay (`SleepsWhenIdle`; without one there are no timer threads), every fault |
| `WorkerSleep` (violated) | a sleep request offloads nothing | the same module, fewer calls |
| `Pool` | each worker is in the queue, in the probe that goes on, or lent, once; a rejection has a cause in the memory or in a worker just taken; calls end | 3 calls, 2 workers, memory that comes and goes, children that sleep, die and hang, forced unloads that stop the workers one after another |
| `Runner` | inference lock, files, verdicts, slots (`Permits`), and every run ends; a file stays only where its removal was refused | 2 runs of 3 jobs, one of which runs concurrently; capacities 1-2; failing requests and removals; the end of the process at any moment |
| `Client` | no pull is missed, an idle agent takes its work, rejected jobs included | 2 jobs, 1-2 slots, 2 messages each way (`MaxWire`), broken connections, `stop` |
| `ClientEnds` | a running agent reconnects, a stopped one ends, with every message and with resources that come and go | 1 job |
| `Chat` | an abort ends its chat and no other, if the message loop comes out of its own sends; a translation arrives whole; nothing stays registered or active | 2 chats with one id or two, texts of 2 characters (`TextLength`), 1 abort, 1 unload, 1 failure, 2 messages on the wire (`MaxAborts`, `MaxUnloads`, `MaxFaults`, `MaxWire`), `stop`; both modes |
| `Engine` | the count of calls, an inference that keeps its cache, no timer after an unload, an event loop that goes on, an idle engine that sleeps; `CacheLease` is implemented | 3 threads that call again and again, 2 late timer threads (`MaxEntering`), loads, wake-ups, sleeps and inferences that raise |

Why the bounds are enough.  *Registry*: every conflict the code knows is between
two tasks on one model (a user and an unload, two loads) or between two models
(pre-emptive sleep, the sweep of two names); three processes that are not
workers give two users and a command at once, and a self-cancelled worker needs
one successor.  *Semaphore*: with four jobs and resizes by up to two there are
two holders and two waiters, so that one notification must wake several.
*Pool*: one call more than workers makes one wait, and one looks while two are
being taken.  *Worker*: the third call is
one after a time-out whose answer is late; two timer threads are one that lost
its race and its successor.  *Client*: two jobs and one slot make one wait, two
make the pull after a pull.  *Chat*: what aborts confuse is two chats with one
id, before and after an unload that makes a second engine object; two characters
make a first delta, a last one, and one that is both.  *Engine*: three threads
are one in its inference, one waiting for the lock and one that leaves.  The counters that would grow for ever are bounded
by the constants named in the table, in the guards of the actions.

The semaphore and the registry never stop, since resizes and commands go on, nor
does the engine, whose threads call again, so TLC
looks for deadlocks there.  The worker, the pool, the runner, the client and the
chats do stop (a process that is gone, calls that are done, `main` or `start` that
returned, chats that are over), and their configurations say `CHECK_DEADLOCK FALSE`.

Each property of a run has a variant of the code with which it fails
(`PROJECT.json`, "mutants").  The type invariants are not among the runs'
properties: they are proved.

## 5. Fairness

* Weak fairness of the steps a ready task, a running thread or a live process
  takes: the event loop and the operating system run what is ready, `load` and
  `unload` return, requests and connection attempts have time-outs.
* Weak fairness of timers: the drain (30 s), the idle delay, the queue wait
  (60 s), the back-off and the cooldown.
* Strong fairness where a lock or permit is handed on while others also want it:
  `Acquire`, `StartLoad`, `StartUnload` (`asyncio.Lock` serves in order of
  arrival), `Admit` (`WaitersAreServed` is what the semaphore gives), `Lock`.
  Strong fairness of `Connect`: attempts are repeated, and one succeeds.
* `ChatStream` assumes only that the event loop runs what is ready, reads what
  has come while the message loop waits for it, and that the drain has its
  time-out.  An output of the engine may never come, and a chat's send may never
  end: `AbortEnds` holds all the same.  Nor is the message loop's own send of the
  model status promised to end (`StatusSent` has no fairness): `AbortEnds` has it
  as its premise that the message loop is out of that send again and again, since
  it handles no abort in it (`AbortEndsStalled`, see 7).
* `WorkerPool`: weak fairness of each call, whose waits have time-outs, and of the
  stop of a worker, which is joined and killed with time-outs.
* `InProcessEngine`: weak fairness of each thread, timer and of the event loop.
  Nobody is promised the lock against others that want it: `threading.Lock` has
  no queue.  `LoopGoesOn` holds since the event loop, while it waits, starts no
  call.
* None for what the outside decides: inferences in `ModelRegistry`, the
  controller's commands, memory, faults, the end of a job in `AgentClient`, the choice
  of `Raise` in `JobRunner`.

`WaitersAreServed` holds with weak fairness of `Proceed` since each waiter asks
once and jobs end; the model has finitely many jobs, so it says nothing of
overtaking by an endless stream of new jobs, which the class does not exclude.

## 6. What is proved

Every theorem holds for every value of the constants under its module's own
assumption (`SemaphoreAssumption`, `RegistryAssumption`, `WorkerAssumption`,
`PoolAssumption`, `EngineAssumption`, `RunnerAssumption`, `ClientAssumption`,
`ChatAssumption`: finite sets of tasks, distinct identities, bounds that are
numbers), which TLC evaluates in the runs above.  One theorem assumes more and
says so (`PullsNeverMissed`).

`DynamicSemaphoreProofs`
* `SemaphoreTyped`, `PermitsNeverLeak`, `WakeupsNeverLost`: the three invariants
  of the run.  `PermitsMatchHolders` and `NoLostWakeup` are inductive with the
  type invariant: a count that equals the number of holders never hits the floor
  of `Release`, and every step that frees a permit wakes everybody or leaves a
  notification pending.
* `SemaphoreImplementsPermits`: initial states and steps map to those of
  `Permits`, or stutter, under the refinement mapping.

`ModelRegistryProofs`
* `RegistryTyped`, then the inductive invariant in layers.  First which stages
  which kind of task can be in (`StagesFit`); then that two tasks never hold the
  lock of one model (`LocksExclude`) and that a load is needed while it runs
  (`LoadsAreNeeded`): together `LoadsAreExclusive`.
* `CountsAreExact`: the count is the number of open contexts.  The step that
  needs the strengthening is the check for idleness inside `Exit`, which moves
  other tasks: `Touches` says that the timer's effect on `pc` is confined to
  workers, so no holder is moved.
* `UnloadsAreDrained` and `DrainsAwaitSomebody`, from the exact counts: an unload
  drains while the count is not zero, and the exit that brings it to zero sends
  every drain on.
* `InferencesAreAwake`: an engine that is put to sleep has count zero, hence no
  holder.
* `TimersAreCurrent`: an armed worker is the one `_idle_unload_task` names, and
  the conditions under which it was armed still hold.
* `RegistryImplementsLease`: for each model, every step of every task is a step
  of `EngineLease` or none.  The state of an engine is spread over the stages of
  all tasks; that the load locks exclude each other makes it a function of the
  one task that holds the lock (`StatesFollowLocks`).  The inductive part is
  `EnginesKept`: who is inside a context and has not lost its engine has one that
  is loaded, and who has lost it is still inside.

`WorkerProcessProofs`
* `WorkerTyped`, `ResultsAreOwn`, `StopLeavesNothing`.  That a result belongs to
  its call needs what the queues may hold: commands that name a call, and answers
  to calls that the child has answered, those of calls that timed out included.
* `TranscriptionsKeepCache`: no step takes the cache while a transcription runs;
  the only step that offloads is a timer thread's, which looks at `active_tasks`
  under the lock.
* `WorkerImplementsCache`: a step of the child or of its proxy is a step of
  `CacheLease` or none.  It needs that a child that transcribes is awake, and that
  no timer runs before the child is up (`Fresh`).

`WorkerPoolProofs`
* `PoolTyped`; `WorkersNeverLost` is proved of a form without cardinalities: no
  worker twice in the queue, none with two calls, none both queued and lent, none
  neither, where those a probe has out of the queue count as queued.  It survives
  the probe, which takes a worker from the middle and puts the others back behind
  those returned meanwhile; one probe goes on at a time, and nothing is looked at
  when none does.
* `RejectionsHaveCause`: a worker that transcribes is not flagged, and a call whose
  probe found nobody knows of each flagged worker that it was short of memory or
  is being taken (`Flagged`).

`InProcessEngineProofs`
* `EngineTyped`, with the lock held by the thread in its inference, and
  `TasksNeverLost`: the floor in the `finally` clause is never hit.
* `InferenceKeepsEngine` and `NoTimerLeft`: a counted call means an engine that is
  awake, one that is awake has its cache or has refused to wake up, and no call is
  in progress before the load is over (`Consistent`).
* `EngineImplementsCache`: the step that puts the engine to sleep looks at a
  counter, `CacheLease` asks for no users: the exact count joins the two.  An
  unload may overtake calls; that they wake up nothing afterwards rests on a flag
  and a cache that are down with the model (`Whole`).

`JobRunnerProofs`
* `RunnerTyped`, `InferencesSerialized`, `NoFilesLeft`, `RejectionsAreFinal`.  The
  strengthening says who may hold or ask for the inference lock, at which stages a
  file can be there whose removal was not refused yet, and what a run may have
  told the controller at each stage.  `NoFilesLeft` says that every way out of the
  handler attempts the removal, not that the removal succeeds.
* `RunnerImplementsPermits`: the slots of the runner map to `Permits`.

`AgentClientProofs`
* `ClientTyped`.
* `PullsNeverMissed`, while no `set_config` adds a slot and the resources suffice,
  as in the run.  A job offered while the pull worker sleeps must be promised by
  something on the wire: a pull that does not exclude it, or a message that will
  trigger another (`Promised`).  An answer takes a pull off the wire only with a
  job, or when the pull excluded all there was.

`ChatStreamProofs`
* `TranslationsAreWhole`: what was sent is what the engine has produced, up to its
  position.  A stream of the mock engine that goes on has something left, and a
  chat starts at the beginning, since the message that starts it is the only one for it (`Posted`).
* `ChatTyped`.  That the engine objects do not run out is a count: those made,
  those to come and the unloads on their way are no more than the unloads sent,
  and one (`EnginesCounted`).
* `AbortsReachTheirChat`, from the order of the callbacks: a callback that marks
  an id in an engine is queued behind the living chats with that id it was meant
  for, and ahead of the first step of any later one (`AbortsFirst`), so a mark in
  an engine is met only by a chat that was hit, or dropped by a later one as it
  starts (`Meant`).
* `ChatsLeaveNothing`: a registered task is alive or its done callback is queued
  (`Registered`); an active request has its chat, or one of the two callbacks that
  close a generator left at its yield (`Requested`).  With nobody alive and an
  empty queue neither is left.  Both need that a task is scheduled once
  (`RunsOnce`).

Only model-checked: liveness (`WaitersAreServed`, `AcquirersAreServed`,
`IdleModelsUnloaded`, `IdleChildSleeps`, `CallsEnd`, `RunsEnd`, `WorkIsTaken`,
`Reconnects`, `StopEnds`, `AbortEnds`, `LoopGoesOn`, `IdleEngineSleeps`), which is
out of reach of the prover.

## 7. Divergences met while modelling

Each is a property stated in its module under "What the documentation says and
the code does not do".  The first has a run of its own; the others fail
when the property is added to the run named in the table.

| property | code | what happens | run |
|---|---|---|---|
| `RequestedSleepOffloads` | `models/worker.py:248` | the sleep command takes a non-reentrant lock twice; the child answers no more | `WorkerSleep` |
| `CallbackFollowsUnload` | `models/registry.py:194` | the idle worker's own unload cancels the idle worker; the callback is not run | `RegistryIdle` |
| `StopDisconnects` | `ws_client.py:146` | `stop` closes the current connection; one that is being made comes up later and is served | `ClientEnds` |
| `EngineOutlivesContext` | `models/registry.py:272` | a drain that timed out unloads an engine inside an open context, which line 214 excludes (a test expects the forced unload) | `Registry` |
| `TimerCountsIdleTime` | `models/registry.py:216` | a check during a pending acquisition arms the timer, which runs on during the inference | `Registry` |
| `IdleModelsHaveTimer` | `models/registry.py:229` | a failed acquisition has cancelled the timer and does not arm it again | `Registry` |
| `ModeIsFollowed` | `models/registry.py:105` | an engine being loaded during `set_work_mode` stays in the old mode | `Registry` |
| `ActiveMeansAwake` | `workers/proxy.py:27` | the proxy is not told that the child's timer put it to sleep | `Worker` |
| `InitErrorSurfaces` | `workers/proxy.py:51` | the error raised for a failed start is caught by its own `except` | `Worker` |
| `RunsWithCache` | `models/qwen3_asr.py:342` | the probe trusts the proxy's flag; a worker taken by the queue wait is not probed | `Pool` |
| `RejectedOnlyLoaded` | `models/qwen3_asr.py:360` | a call overtaken by an unload is rejected as short of memory | `Pool` |
| `RejectedOnlyShort` | `models/worker.py:369` | the flag of a worker that was taken is cleared outside the lock; a call that looks at the flags in between is rejected with memory free | `Pool` |
| `OneVerdict` | `scheduler/handlers/asr.py:150` | a completion whose response is lost is reported again as a failure | `Runner` |
| `EndIsReported` | `scheduler/runner.py:135` | a rejection while there is no connection is never reported, nor is a job that the end of the process cancels | `Runner` |
| `ActiveJobsCounted` | `scheduler/runner.py:81` | the end of one run of a job hides the other run | `Runner` |
| `AddedSlotsPull` | `ws_client.py:363` | a slot added by `set_config` triggers no pull | `ClientEnds` with `Tight = FALSE` |
| `FreedRoomPulls` | `ws_client.py:222` | a pull skipped for want of memory is not repeated | `ClientEnds` |
| `HeartbeatsGoOn` | `ws_client.py:159` | one heartbeat that raises ends them for this connection | `ClientEnds` |
| `AbortsForgotten` | `models/hy_mt2.py:235` | an abort whose generator has ended stays in `_aborted_requests` for good | `Chat` |
| `AbortEndsStalled` | `ws_client.py:339` | after an unload the message loop waits in its own send of the model status; while the controller does not read, an abort behind it is not handled | `Chat` |
| `AbortEndsLast` | `ws_client.py:301` | the done callback of a chat drops the registration of a later chat with its id, which cannot be aborted any more | `Chat` |

The properties that hold are stated beside them: `IdleModelsUnloaded` without
failing acquisitions, `NoPullMissed` and `WorkIsTaken` without added slots and
with enough memory, `StopEnds` for a stop while connected or waiting,
`RejectedForCause` with workers that are being taken, `AbortEnds` for ids that no
other chat has and a message loop that comes out of its sends.

## 8. Not modelled

* The composition of client and runner: planned (2).
* `resources/`: queries and arithmetic on their answers, seen as a flag.
* `monitor.py`, `config.py`, the listing and downloading of models: they keep no
  state another part reads.
* Progress and log reports, but for those whose failure fails the job.
* Audio processing, prompts, formats of messages.
* A thread of `asyncio.to_thread(load)` that outlives its cancelled task.
