--------------------------- MODULE WorkerProcess ---------------------------
(***************************************************************************)
(* One ASR worker: the child process of models/worker.py with its command  *)
(* loop, its idle timer threads and its non-reentrant lock, and the proxy  *)
(* of workers/proxy.py and models/worker.py that talks to it over a        *)
(* command queue and a response queue.  The pool gives a proxy to one      *)
(* caller at a time.  Progress messages, which carry no decision, are left *)
(* out; every critical section of the child but one is free of blocking    *)
(* and is a single step.                                                   *)
(***************************************************************************)
EXTENDS Integers, Sequences, FiniteSets

CONSTANTS MaxCalls,     \* bound: transcriptions asked of this worker
          MaxSleeps,    \* bound: calls of the proxy's enter_sleep()
          MaxEntering,  \* bound: timer threads inside _enter_sleep at a time
          SleepsWhenIdle, \* is sleep_idle_seconds > 0?
          Faults        \* may the process die, or the engine raise on sleep
                        \* and wake-up?

ASSUME WorkerAssumption ==
  /\ MaxCalls \in Nat /\ MaxSleeps \in Nat /\ MaxEntering \in Nat
  /\ SleepsWhenIdle \in BOOLEAN /\ Faults \in BOOLEAN

Calls == 1 .. MaxCalls
None == 0

VARIABLES
  setup,     \* what wait_ready has made of the start of the process
  child,     \* where the child's main thread is
  task,      \* the call it transcribes: active_tasks = 1
  flag,      \* the child's is_sleeping
  kv,        \* is the engine's KV cache really allocated?
  armed,     \* the child's sleep_timer is set
  entering,  \* timer threads that have fired and want the lock
  raised,    \* the engine's last attempt to sleep raised (history)
  cmds,      \* cmd_queue
  resps,     \* resp_queue
  call,      \* the call the proxy waits for, None when there is none
  asked,     \* calls made so far
  outcome,   \* how each call ended
  answered,  \* calls whose result the child has put (history)
  sleeping,  \* the proxy's is_sleeping
  sleeps,    \* enter_sleep() calls so far
  stop       \* stop(): "no", "joining", "done"

childVars == <<child, task, flag, kv, armed, entering, raised, answered>>
proxyVars == <<setup, call, asked, outcome, sleeping, sleeps, stop>>
vars == <<childVars, proxyVars, cmds, resps>>

\* "stuck": the main thread waits for the lock it holds
Stages == {"starting", "failing", "idle", "transcribing", "stuck", "gone"}
Setups == {"waiting", "ready", "terminated", "late"}
Outcomes == {"none", "result", "error", "timeout", "died"}
Command == [kind : {"stop", "sleep", "transcribe"}, id : Calls \cup {None}]
Message == [kind : {"ready", "initError", "result", "error"}, id : Calls \cup {None}]

Alive == child # "gone"
Msg(k, i) == [kind |-> k, id |-> i]

Init ==
  /\ setup = "waiting" /\ child = "starting" /\ task = None
  /\ flag = FALSE /\ kv = TRUE /\ armed = FALSE /\ entering = 0
  /\ raised = FALSE
  /\ cmds = <<>> /\ resps = <<>>
  /\ call = None /\ asked = 0 /\ outcome = [i \in Calls |-> "none"]
  /\ answered = {} /\ sleeping = FALSE /\ sleeps = 0 /\ stop = "no"

-----------------------------------------------------------------------------
(* The child                                                               *)

Started ==
  /\ child = "starting"
  /\ child' = "idle"
  /\ armed' = SleepsWhenIdle
  /\ resps' = Append(resps, Msg("ready", None))
  /\ UNCHANGED <<task, flag, kv, entering, raised, answered, proxyVars, cmds>>

\* the error is put, then the process ends
StartFails ==
  /\ child = "starting"
  /\ child' = "failing"
  /\ resps' = Append(resps, Msg("initError", None))
  /\ UNCHANGED <<task, flag, kv, armed, entering, raised, answered, proxyVars,
                 cmds>>

Commanded(k) == child = "idle" /\ cmds # <<>> /\ Head(cmds).kind = k

EndFailed ==
  /\ child = "failing"
  /\ child' = "gone"
  /\ UNCHANGED <<task, flag, kv, armed, entering, raised, answered, proxyVars,
                 cmds, resps>>

TakeStop ==
  /\ Commanded("stop")
  /\ cmds' = Tail(cmds)
  /\ child' = "gone"
  /\ armed' = FALSE
  /\ UNCHANGED <<task, flag, kv, entering, raised, answered, proxyVars, resps>>

\* _enter_sleep() is called with the lock held and takes it again: the main
\* thread never runs again, and no timer thread gets the lock.
TakeSleep ==
  /\ Commanded("sleep")
  /\ cmds' = Tail(cmds)
  /\ child' = "stuck"
  /\ armed' = FALSE
  /\ UNCHANGED <<task, flag, kv, entering, raised, answered, proxyVars, resps>>

\* Variant with a bug: waking up leaves is_sleeping set.
TakeCallFlagged ==
  /\ Commanded("transcribe")
  /\ cmds' = Tail(cmds)
  /\ child' = "transcribing"
  /\ task' = Head(cmds).id
  /\ armed' = FALSE
  /\ kv' = TRUE
  /\ UNCHANGED <<flag, entering, raised, answered, proxyVars, resps>>

\* The timer is cancelled and a sleeping engine woken up; if wake_up() raises,
\* the error is logged and the engine is believed awake from then on.
TakeCall ==
  /\ Commanded("transcribe")
  /\ cmds' = Tail(cmds)
  /\ child' = "transcribing"
  /\ task' = Head(cmds).id
  /\ armed' = FALSE
  /\ flag' = FALSE
  /\ \/ flag /\ kv' = TRUE
     \/ (flag => Faults) /\ UNCHANGED kv
  /\ UNCHANGED <<entering, raised, answered, proxyVars, resps>>

Answer ==
  /\ child = "transcribing"
  /\ \E k \in {"result", "error"} : resps' = Append(resps, Msg(k, task))
  /\ raised' = FALSE
  /\ answered' = answered \cup {task}
  /\ child' = "idle"
  /\ task' = None
  /\ armed' = SleepsWhenIdle
  /\ UNCHANGED <<flag, kv, entering, proxyVars, cmds>>

\* The timer thread is started; cancel() does not reach it any more.
TimerFires ==
  /\ Alive /\ armed /\ entering < MaxEntering
  /\ armed' = FALSE
  /\ entering' = entering + 1
  /\ UNCHANGED <<child, task, flag, kv, raised, answered, proxyVars, cmds, resps>>

\* Variant with a bug: active_tasks is not looked at under the lock.
EnterSleepUnchecked ==
  /\ Alive /\ entering > 0 /\ child # "stuck"
  /\ entering' = entering - 1
  /\ flag' = TRUE
  /\ kv' = FALSE
  /\ UNCHANGED <<child, task, armed, raised, answered, proxyVars, cmds, resps>>

\* _enter_sleep in a timer thread, with the lock
EnterSleep ==
  /\ Alive /\ entering > 0 /\ child # "stuck"
  /\ entering' = entering - 1
  /\ IF child = "transcribing" \/ flag
       THEN UNCHANGED <<flag, kv, raised>>
       ELSE \/ flag' = TRUE /\ kv' = FALSE /\ raised' = FALSE
            \/ Faults /\ raised' = TRUE /\ UNCHANGED <<flag, kv>>
  /\ UNCHANGED <<child, task, armed, answered, proxyVars, cmds, resps>>

\* killed from outside, or by stop()
Gone ==
  /\ child' = "gone"
  /\ UNCHANGED <<task, flag, kv, armed, entering, raised, answered>>

Crash ==
  /\ Faults /\ Alive
  /\ Gone
  /\ UNCHANGED <<proxyVars, cmds, resps>>

-----------------------------------------------------------------------------
(* The proxy                                                               *)

\* wait_ready.  The RuntimeError it raises for an init error is caught by
\* its own "except Exception" and the loop goes on until the process is seen
\* dead.
WaitReady ==
  /\ setup = "waiting"
  /\ \/ /\ Alive /\ resps # <<>>
        /\ resps' = Tail(resps)
        /\ setup' = IF Head(resps).kind = "ready" THEN "ready" ELSE "waiting"
     \/ /\ ~Alive
        /\ setup' = "terminated"
        /\ UNCHANGED resps
     \/ /\ setup' = "late"
        /\ UNCHANGED resps
  /\ UNCHANGED <<childVars, call, asked, outcome, sleeping, sleeps, stop, cmds>>

\* execute_transcribe
Call ==
  /\ setup = "ready" /\ stop = "no" /\ call = None /\ asked < MaxCalls
  /\ asked' = asked + 1
  /\ call' = asked + 1
  /\ sleeping' = FALSE
  /\ cmds' = Append(cmds, Msg("transcribe", asked + 1))
  /\ UNCHANGED <<childVars, setup, outcome, sleeps, stop, resps>>

EndCall(how) ==
  /\ outcome' = [outcome EXCEPT ![call] = how]
  /\ call' = None

\* Variant with a bug: any result is taken for the one awaited.
ReceiveAny ==
  /\ call # None /\ resps # <<>>
  /\ resps' = Tail(resps)
  /\ EndCall(Head(resps).kind)
  /\ UNCHANGED <<childVars, setup, asked, sleeping, sleeps, stop, cmds>>

\* An answer to an earlier call, one that timed out, is dropped.
Receive ==
  /\ call # None /\ resps # <<>>
  /\ resps' = Tail(resps)
  /\ IF Head(resps).id = call
       THEN EndCall(Head(resps).kind)
       ELSE UNCHANGED <<call, outcome>>
  /\ UNCHANGED <<childVars, setup, asked, sleeping, sleeps, stop, cmds>>

GiveUp ==
  /\ call # None
  /\ \/ EndCall("timeout")
     \/ ~Alive /\ EndCall("died")
  /\ UNCHANGED <<childVars, setup, asked, sleeping, sleeps, stop, cmds, resps>>

\* the proxy's enter_sleep, called while no call is running
RequestSleep ==
  /\ setup = "ready" /\ stop = "no" /\ call = None /\ sleeps < MaxSleeps
  /\ sleeps' = sleeps + 1
  /\ sleeping' = TRUE
  /\ cmds' = IF Alive THEN Append(cmds, Msg("sleep", None)) ELSE cmds
  /\ UNCHANGED <<childVars, setup, call, asked, outcome, stop, resps>>

\* stop(), also under a call when an unload is forced
Stop ==
  /\ setup = "ready" /\ stop = "no"
  /\ sleeping' = TRUE
  /\ IF Alive
       THEN cmds' = Append(cmds, Msg("stop", None)) /\ stop' = "joining"
       ELSE stop' = "done" /\ UNCHANGED cmds
  /\ UNCHANGED <<childVars, setup, call, asked, outcome, sleeps, resps>>

\* Variant with a bug: the join times out and nothing is killed.
JoinOnly ==
  /\ stop = "joining"
  /\ stop' = "done"
  /\ UNCHANGED <<childVars, setup, call, asked, outcome, sleeping, sleeps, cmds,
                 resps>>

\* join(timeout) ends with the process, or the process is killed
Join ==
  /\ stop = "joining"
  /\ stop' = "done"
  /\ Gone
  /\ UNCHANGED <<setup, call, asked, outcome, sleeping, sleeps, cmds, resps>>

-----------------------------------------------------------------------------
ChildStep ==
  Started \/ StartFails \/ EndFailed \/ TakeStop \/ TakeSleep \/ TakeCall \/ Answer
    \/ TimerFires \/ EnterSleep

ProxyStep == WaitReady \/ Call \/ Receive \/ GiveUp \/ RequestSleep \/ Stop \/ Join

Next == ChildStep \/ Crash \/ ProxyStep

Spec == Init /\ [][Next]_vars

\* The child's threads run, transcriptions end and timers fire.
FairSpec ==
  /\ Spec
  /\ WF_vars(Started \/ StartFails \/ EndFailed)
  /\ WF_vars(TakeStop \/ TakeSleep \/ TakeCall)
  /\ WF_vars(Answer) /\ WF_vars(TimerFires) /\ WF_vars(EnterSleep)
  /\ WF_vars(Receive) /\ WF_vars(Join)

-----------------------------------------------------------------------------
TypeOK ==
  /\ setup \in Setups
  /\ child \in Stages
  /\ task \in IF child = "transcribing" THEN Calls
               ELSE IF Alive THEN {None} ELSE Calls \cup {None}
  /\ flag \in BOOLEAN /\ kv \in BOOLEAN /\ armed \in BOOLEAN
  /\ raised \in BOOLEAN
  /\ entering \in 0 .. MaxEntering
  /\ cmds \in Seq(Command)
  /\ resps \in Seq(Message)
  /\ call \in Calls \cup {None}
  /\ asked \in 0 .. MaxCalls
  /\ outcome \in [Calls -> Outcomes]
  /\ answered \subseteq Calls
  /\ sleeping \in BOOLEAN
  /\ sleeps \in 0 .. MaxSleeps
  /\ stop \in {"no", "joining", "done"}

(* The engine is not put to sleep under a transcription, even by a timer   *)
(* thread that fired before the command came and could not be cancelled.   *)
CacheKeptInUse ==
  [][child = "transcribing" /\ kv /\ child' = "transcribing" => kv']_vars

(* The child keeps what CacheLease promises, from the start of the process *)
(* to its end: is_sleeping, active_tasks and the engine agree, whichever   *)
(* timer threads, commands, wake-ups that raise and kills come together.   *)
EngineState ==
  IF child = "gone" THEN "closed"
  ELSE IF child \in {"starting", "failing"} THEN "new"
  ELSE IF flag THEN "asleep" ELSE "awake"

Cache == INSTANCE CacheLease
           WITH Users <- Calls, state <- EngineState, users <- {task} \ {None},
                cache <- kv /\ EngineState \in {"awake", "asleep"}

CacheLeased == Cache!CSpec

(* A call returns a result only if the child has answered that very call:  *)
(* the late answer to a call that timed out is never taken for another's.  *)
ResultIsOwn ==
  \A i \in Calls : outcome[i] \in {"result", "error"} => i \in answered

(* stop() leaves no process behind, whatever state the child is in.        *)
StoppedIsGone == stop = "done" => ~Alive

(* A child with an idle delay that has nothing to do ends up with its      *)
(* cache given back, or its engine has raised (after which nothing is      *)
(* tried again): no interleaving of timer threads, cancellations and       *)
(* commands loses the timer, or leaves is_sleeping set on an engine that   *)
(* is awake.                                                               *)
IdleChildSleeps ==
  SleepsWhenIdle /\ <>[](child = "idle" /\ cmds = <<>>) => <>[](~kv \/ raised)

-----------------------------------------------------------------------------
(* What the documentation says and the code does not do.                   *)

(* proxy.py:59, "Signal child worker process to enter sleep mode and       *)
(* offload KV cache": a request that reaches a living child offloads it.   *)
RequestedSleepOffloads ==
  Commanded("sleep") ~> ~kv \/ ~Alive

(* qwen3_asr.py:292, is_active() tells whether the engine is "performing   *)
(* inference or awake with KV cache allocated".                            *)
ActiveMeansAwake ==
  setup = "ready" /\ child = "idle" /\ call = None /\ ~sleeping /\ cmds = <<>>
    => kv

(* proxy.py:48, "Worker init error on device": a start that fails with an  *)
(* error of the child raises that error.                                   *)
InitErrorSurfaces ==
  setup = "terminated" => \E i \in 1 .. Len(resps) : resps[i].kind = "initError"
=============================================================================
