---------------------------- MODULE AgentClient ----------------------------
(***************************************************************************)
(* ws_client.py: the connection of the agent to the controller, with its   *)
(* reconnection, its message loop, its pull worker and its heartbeat, and  *)
(* the jobs that come and go over it.  The registry and the jobs are seen  *)
(* from here only: whether there is room for a model (which                *)
(* check_resources_available tells, as it does when a model is active) and *)
(* which jobs are active.  The controller is outside of the repository: it *)
(* announces new jobs, answers pulls in order and may dispatch a job of    *)
(* its own accord.  What is on the wire is lost with the connection.       *)
(***************************************************************************)
EXTENDS Integers, Sequences, FiniteSets, SequencesExt

CONSTANTS Jobs,      \* job ids
          Limits,    \* max_concurrent_jobs, at first and in set_config
          Resizes,   \* does the controller send set_config?
          Tight,     \* may the resources be short for a time?
          Faults,    \* may connections break and heartbeats fail?
          Stops,     \* may stop() be called?
          MaxWire,   \* bound: messages on the wire in one direction
          None

ASSUME ClientAssumption ==
  /\ IsFiniteSet(Jobs)
  /\ Limits \subseteq Nat \ {0}
  /\ {Resizes, Tight, Faults, Stops} \subseteq BOOLEAN
  /\ MaxWire \in Nat
  /\ None \notin Jobs

VARIABLES
  running,  \* _running
  link,     \* where start() is
  puller,   \* is the pull worker waiting for its trigger?
  trigger,  \* _pull_trigger
  heart,    \* does the heartbeat loop run?
  pulls,    \* exclude_job_ids of the pulls on the wire
  inbox,    \* messages of the controller on the wire
  pending,  \* jobs the controller would give away
  fresh,    \* jobs it has not got yet
  active,   \* jobs of the runner
  telling,  \* those of them whose rejection is being sent
  limit,    \* max_concurrent_jobs
  cooling,  \* jobs whose cooldown has not expired
  due,      \* jobs whose call_later has not fired since the expiry
  room      \* do the resources allow to load or wake a model?

vars == <<running, link, puller, trigger, heart, pulls, inbox, pending, fresh,
          active, telling, limit, cooling, due, room>>
wire == <<pulls, inbox, pending>>
session == <<running, link, heart>>
jobs == <<fresh, active, telling, limit, cooling, due, room>>

\* "dead": the connection is broken or being closed, _current_ws is still set
Links == {"connecting", "up", "dead", "backoff", "ended"}
Message ==
  [kind : {"job", "dispatch"}, job : Jobs]
    \cup [kind : {"empty", "notify"}, job : {None}]
    \cup [kind : {"config"}, job : Limits]

Msg(k, j) == [kind |-> k, job |-> j]

\* The controller tells the agent something, if it can.
Tell(m) ==
  IF link = "up" /\ Len(inbox) < MaxWire THEN Append(inbox, m) ELSE inbox

Init ==
  /\ running = TRUE /\ link = "connecting"
  /\ puller = FALSE /\ trigger = FALSE /\ heart = FALSE
  /\ pulls = <<>> /\ inbox = <<>>
  /\ pending = {} /\ fresh = Jobs /\ active = {} /\ telling = {}
  /\ limit \in Limits
  /\ cooling = {} /\ due = {}
  /\ room \in {TRUE, ~Tight}

-----------------------------------------------------------------------------
(* start() and stop()                                                      *)

\* The heartbeat and the pull worker are created, and end at once if stop()
\* came in the meantime; the message loop does not look.
Connect ==
  /\ link = "connecting"
  /\ link' = "up"
  /\ puller' = running /\ heart' = running
  /\ trigger' = TRUE
  /\ UNCHANGED <<running, wire, jobs>>

\* where the loop of start() goes from an exception
Retry == link' = IF running THEN "backoff" ELSE "ended"

ConnectFails ==
  /\ Faults /\ link = "connecting"
  /\ Retry
  /\ UNCHANGED <<running, puller, trigger, heart, wire, jobs>>

\* What was on the wire is gone; the controller may take its jobs back.
Cut ==
  LET lost == {inbox[i].job : i \in 1 .. Len(inbox)} \cap Jobs IN
  /\ pulls' = <<>> /\ inbox' = <<>>
  /\ \E back \in SUBSET lost : pending' = pending \cup back

Break ==
  /\ Faults /\ link = "up"
  /\ link' = "dead"
  /\ Cut
  /\ UNCHANGED <<running, puller, trigger, heart, jobs>>

\* Variant with a bug: the message loop's end does not lead to a new connection.
LeaveForGood ==
  /\ link = "dead"
  /\ link' = "ended"
  /\ puller' = FALSE /\ heart' = FALSE
  /\ UNCHANGED <<running, trigger, wire, jobs>>

\* The message loop ends, its two tasks are cancelled and awaited.
Leave ==
  /\ link = "dead"
  /\ Retry
  /\ puller' = FALSE /\ heart' = FALSE
  /\ UNCHANGED <<running, trigger, wire, jobs>>

\* Variant with a bug: the loop of start() does not test _running again.
BackoffEndsUntested ==
  /\ link = "backoff"
  /\ link' = "connecting"
  /\ UNCHANGED <<running, puller, trigger, heart, wire, jobs>>

BackoffEnds ==
  /\ link = "backoff"
  /\ link' = IF running THEN "connecting" ELSE "ended"
  /\ UNCHANGED <<running, puller, trigger, heart, wire, jobs>>

Stop ==
  /\ Stops /\ running
  /\ running' = FALSE
  /\ trigger' = TRUE
  /\ IF link = "up" THEN link' = "dead" /\ Cut ELSE UNCHANGED <<link, wire>>
  /\ UNCHANGED <<puller, heart, jobs>>

\* _send_heartbeat raises: the loop breaks
HeartFails ==
  /\ Faults /\ heart
  /\ heart' = FALSE
  /\ UNCHANGED <<running, link, puller, trigger, wire, jobs>>

HeartEnds ==
  /\ heart /\ ~running
  /\ heart' = FALSE
  /\ UNCHANGED <<running, link, puller, trigger, wire, jobs>>

-----------------------------------------------------------------------------
(* The pull worker                                                         *)

MayPull == running /\ Cardinality(active) < limit /\ room

Woken == puller /\ trigger

PullerEnds ==
  /\ Woken /\ ~running
  /\ puller' = FALSE
  /\ trigger' = FALSE
  /\ UNCHANGED <<session, wire, jobs>>

\* The pull worker clears its trigger and runs _check_and_pull_job; a send on
\* a dead connection raises or goes nowhere.
Pull ==
  /\ Woken /\ running
  /\ Len(pulls) < MaxWire
  /\ trigger' = FALSE
  /\ pulls' = IF MayPull /\ link = "up" THEN Append(pulls, cooling) ELSE pulls
  /\ UNCHANGED <<session, puller, inbox, pending, jobs>>

-----------------------------------------------------------------------------
(* The message loop                                                        *)

\* Variant with a bug: a pulled job does not lead to the next pull.
TakeOne(m) ==
  /\ m.kind = "job"
  /\ active' = active \cup {m.job}
  /\ UNCHANGED <<trigger, limit>>

\* pull_job_result with a job: run_job, then the next pull if there is room
Take(m) ==
  /\ m.kind = "job"
  /\ active' = active \cup {m.job}
  /\ trigger' = (trigger \/ Cardinality(active') < limit)
  /\ UNCHANGED limit

Dispatched(m) ==
  /\ m.kind = "dispatch"
  /\ active' = active \cup {m.job}
  /\ UNCHANGED <<trigger, limit>>

Notified(m) ==
  /\ m.kind = "notify"
  /\ trigger' = TRUE
  /\ UNCHANGED <<active, limit>>

Configured(m) ==
  /\ m.kind = "config"
  /\ limit' = m.job
  /\ UNCHANGED <<active, trigger>>

Ignored(m) == m.kind = "empty" /\ UNCHANGED <<active, trigger, limit>>

Handle ==
  /\ link = "up" /\ inbox # <<>>
  /\ inbox' = Tail(inbox)
  /\ LET m == Head(inbox)
     IN Take(m) \/ Dispatched(m) \/ Notified(m) \/ Configured(m) \/ Ignored(m)
  /\ UNCHANGED <<session, puller, pulls, pending, fresh, telling, cooling, due, room>>

-----------------------------------------------------------------------------
(* Jobs and cooldowns                                                      *)

\* the job ends and on_job_finished triggers a pull
Finish(j) ==
  /\ j \in active \ telling
  /\ active' = active \ {j}
  /\ trigger' = TRUE
  /\ UNCHANGED <<session, puller, wire, fresh, telling, limit, cooling, due, room>>

\* on_job_rejected: the cooldown begins and the controller is told, if there is
\* a connection.  A controller that is told gives the job away again, and may
\* announce it.
Reject(j) ==
  /\ j \in active \ telling
  /\ telling' = telling \cup {j}
  /\ cooling' = cooling \cup {j}
  /\ IF link = "up"
       THEN /\ pending' = pending \cup {j}
            /\ inbox' \in {inbox, Tell(Msg("notify", None))}
       ELSE UNCHANGED <<pending, inbox>>
  /\ UNCHANGED <<session, puller, trigger, pulls, fresh, active, limit, due, room>>

\* The send is over, or has raised: call_later is set, and the job ends.
Rejected(j) ==
  /\ j \in telling
  /\ telling' = telling \ {j}
  /\ active' = active \ {j}
  /\ trigger' = TRUE
  /\ UNCHANGED <<session, puller, wire, fresh, limit, cooling, due, room>>

\* The cooldown counts from before the send.
Expire(j) ==
  /\ j \in cooling
  /\ cooling' = cooling \ {j}
  /\ due' = due \cup {j}
  /\ UNCHANGED <<session, puller, trigger, wire, fresh, active, telling, limit, room>>

\* Variant with a bug: call_later is not used to come back to the job.
RetrySilently(j) ==
  /\ j \in due \ telling
  /\ due' = due \ {j}
  /\ UNCHANGED <<session, puller, trigger, wire, fresh, active, telling, limit,
                 cooling, room>>

\* call_later(60, trigger_pull), which counts from after the send
RetryCooled(j) ==
  /\ j \in due \ telling
  /\ due' = due \ {j}
  /\ trigger' = TRUE
  /\ UNCHANGED <<session, puller, wire, fresh, active, telling, limit, cooling, room>>

ResourcesChange ==
  /\ Tight
  /\ room' = ~room
  /\ UNCHANGED <<session, puller, trigger, wire, fresh, active, telling, limit,
                 cooling, due>>

-----------------------------------------------------------------------------
(* The controller                                                          *)

NewJob(j) ==
  /\ j \in fresh /\ Len(inbox) < MaxWire
  /\ fresh' = fresh \ {j}
  /\ pending' = pending \cup {j}
  /\ inbox' = Tell(Msg("notify", None))
  /\ UNCHANGED <<session, puller, trigger, pulls, active, telling, limit, cooling,
                 due, room>>

Dispatch(j) ==
  /\ link = "up" /\ j \in pending /\ Len(inbox) < MaxWire
  /\ pending' = pending \ {j}
  /\ inbox' = Append(inbox, Msg("dispatch", j))
  /\ UNCHANGED <<session, puller, trigger, pulls, jobs>>

AnswerPull ==
  /\ link = "up" /\ pulls # <<>> /\ Len(inbox) < MaxWire
  /\ pulls' = Tail(pulls)
  /\ LET offers == pending \ Head(pulls) IN
     IF offers = {}
       THEN inbox' = Append(inbox, Msg("empty", None)) /\ UNCHANGED pending
       ELSE \E j \in offers :
              /\ inbox' = Append(inbox, Msg("job", j))
              /\ pending' = pending \ {j}
  /\ UNCHANGED <<session, puller, trigger, jobs>>

SetConfig(n) ==
  /\ Resizes /\ link = "up" /\ Len(inbox) < MaxWire
  /\ inbox' = Append(inbox, Msg("config", n))
  /\ UNCHANGED <<session, puller, trigger, pulls, pending, jobs>>

-----------------------------------------------------------------------------
Link == Connect \/ ConnectFails \/ Break \/ Leave \/ BackoffEnds \/ Stop
Worker == PullerEnds \/ Pull \/ HeartFails \/ HeartEnds
Job(j) == Finish(j) \/ Reject(j) \/ Rejected(j) \/ Expire(j) \/ RetryCooled(j)
Controller ==
  \/ \E j \in Jobs : NewJob(j) \/ Dispatch(j)
  \/ AnswerPull
  \/ \E n \in Limits : SetConfig(n)

Next ==
  \/ Link \/ Worker \/ Handle \/ ResourcesChange \/ Controller
  \/ \E j \in Jobs : Job(j)

Spec == Init /\ [][Next]_vars

\* The event loop runs ready tasks and timers, the controller answers, and
\* connections succeed if they are tried for ever.  Jobs may take for ever.
FairSpec ==
  /\ Spec
  /\ SF_vars(Connect) /\ WF_vars(Leave) /\ WF_vars(BackoffEnds)
  /\ WF_vars(PullerEnds) /\ WF_vars(HeartEnds) /\ WF_vars(Pull)
  /\ WF_vars(Handle) /\ WF_vars(AnswerPull)
  /\ \A j \in Jobs : WF_vars(Expire(j)) /\ WF_vars(RetryCooled(j))

-----------------------------------------------------------------------------
TypeOK ==
  /\ running \in BOOLEAN /\ puller \in BOOLEAN /\ trigger \in BOOLEAN
  /\ heart \in BOOLEAN /\ room \in BOOLEAN
  /\ link \in Links
  /\ puller \/ heart => link \in {"up", "dead"}
  /\ pulls \in Seq(SUBSET Jobs)
  /\ inbox \in Seq(Message)
  /\ link # "up" => pulls = <<>> /\ inbox = <<>>
  /\ pending \subseteq Jobs /\ fresh \subseteq Jobs
  /\ active \subseteq Jobs /\ telling \subseteq active
  /\ cooling \subseteq Jobs /\ due \subseteq Jobs
  /\ limit \in Limits

Settled == link = "up" /\ running /\ ~trigger /\ pulls = <<>> /\ inbox = <<>>

(* The pull worker never sleeps over a job it could have: with a free slot *)
(* and nothing on the wire, what the controller still offers is excluded   *)
(* by a cooldown, whose timer will trigger the next pull.                  *)
NoPullMissed ==
  Settled /\ Cardinality(active) < limit /\ room => pending \subseteq cooling \cup due

(* An idle agent that is connected gets the work there is, also a job that *)
(* it has rejected, once its cooldown is over.                             *)
WorkIsTaken ==
  pending # {} /\ active = {}
    ~> active # {} \/ pending = {} \/ link # "up" \/ ~running

(* An agent that was not stopped comes back, however its connections end.  *)
Reconnects == running /\ link # "up" ~> link = "up" \/ ~running

(* An agent that is stopped while connected or while waiting to reconnect  *)
(* ends.                                                                   *)
StopEnds == ~running /\ link \in {"dead", "backoff"} ~> link = "ended"

-----------------------------------------------------------------------------
(* What the documentation says and the code does not do.                   *)

(* ws_client.py:140, "Signal client to stop and disconnect": no connection *)
(* outlives stop().                                                        *)
StopDisconnects == ~running ~> link = "ended"

(* ws_client.py:186, "Suspends execution with asyncio.Event.wait() when no *)
(* pull is needed": a slot that set_config adds is filled.                 *)
AddedSlotsPull ==
  Settled /\ Cardinality(active) < limit => pending \subseteq cooling \cup due

(* The same sentence: work that had to wait for memory is pulled when      *)
(* there is memory again.                                                  *)
FreedRoomPulls ==
  []<>(pending = {} \/ active # {} \/ link # "up" \/ ~running \/ ~room)

(* README.md:7, "Persistent connection to central controller with          *)
(* heartbeat": a connected agent sends heartbeats.                         *)
HeartbeatsGoOn == link = "up" /\ running => heart
=============================================================================
