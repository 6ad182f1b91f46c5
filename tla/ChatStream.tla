----------------------------- MODULE ChatStream -----------------------------
(***************************************************************************)
(* models/hy_mt2.py and the chats of ws_client.py: each chat_completion    *)
(* becomes a task that streams the output of the translation engine over   *)
(* the WebSocket; chat_abort cancels that task and tells the engine.       *)
(*                                                                         *)
(* The event loop is explicit: ready holds the callbacks that will run, in *)
(* order, and a step runs the first.  The message loop handles a message   *)
(* between any two of them, as its messages arrive when they like, unless  *)
(* it is draining inferences for an unload, or sending the controller the  *)
(* status of its models after one.  A call that suspends leaves ready and  *)
(* comes back when somebody queues it.                                     *)
(*                                                                         *)
(* load() of this engine and a free lock do not suspend.  The load lock is *)
(* held across a suspension by a drain only; who gets it next among those  *)
(* that wait is left open.                                                 *)
(***************************************************************************)
EXTENDS Integers, Sequences, FiniteSets, SequencesExt

CONSTANTS Chats,        \* chat_completion messages
          Ids,          \* request ids
          Givings,      \* how the controller may give ids to chats
          TextLength,   \* bound: length of a translation
          MaxAborts,    \* bound: aborts the controller sends
          MaxUnloads,   \* bound: unloads the controller sends
          MaxWire,      \* bound: messages on the wire
          MaxFaults,    \* bound: loads, engines and connections that fail
          None

ASSUME ChatAssumption ==
  /\ IsFiniteSet(Chats)
  /\ Givings \subseteq [Chats -> Ids]
  /\ {TextLength, MaxWire} \subseteq Nat \ {0}
  /\ {MaxAborts, MaxUnloads, MaxFaults} \subseteq Nat
  /\ None \notin Chats

VARIABLES
  id,         \* request_id of each chat
  stage,      \* where its task is
  cancelled,  \* tasks whose next step raises CancelledError
  tasks,      \* _chat_tasks
  ready,      \* callbacks of the event loop
  loop,       \* where the message loop is
  mock,       \* _mock_mode
  current,    \* the loaded engine object, 0 if none
  made,       \* engine objects made so far
  active,     \* _active_requests of each engine object
  aborted,    \* _aborted_requests of each engine object
  using,      \* the engine object a chat was given
  prev,       \* prev_len
  got,        \* characters the controller has
  finish,     \* finish_reason the controller has
  running,    \* _running
  inbox,      \* messages on the wire
  aborts,     \* aborts sent so far
  unloads,    \* unloads sent so far
  faults,     \* failures so far
  dead,       \* chats whose connection is gone
  hit,        \* chats for whose id an abort came, or that were stopped
  silent      \* chats that ended of their own accord without a last chunk

vars == <<id, stage, cancelled, tasks, ready, loop, mock, current, made,
          active, aborted, using, prev, got, finish, running, inbox, aborts,
          unloads, faults, dead, hit, silent>>
object == <<mock, current, made>>
requests == <<active, aborted>>
stream == <<using, prev, got, finish>>
counters == <<aborts, unloads, faults>>
outside == <<id, running, inbox, aborts, unloads>>
fate == <<dead, hit, silent>>
others == <<outside, fate, faults>>

Engines == 1 .. MaxUnloads + 1
Holding == {"generating", "sending"}
Places == {"reading", "draining", "status"}
Stages == {"new", "posted", "starting", "waiting", "reporting", "over"}
            \cup Holding
Callback ==
  [do : {"run"}, x : Chats, on : {0}]
    \cup [do : {"abort", "hook", "close"}, x : Ids, on : Engines]
    \cup [do : {"pop"}, x : Ids, on : {0}]
Message ==
  [kind : {"chat"}, x : Chats] \cup [kind : {"abort"}, x : Ids]
    \cup [kind : {"unload"}, x : {None}]

Call(d, x, e) == [do |-> d, x |-> x, on |-> e]
Msg(k, x) == [kind |-> k, x |-> x]

Init ==
  /\ id \in Givings
  /\ stage = [c \in Chats |-> "new"]
  /\ tasks = [r \in Ids |-> None]
  /\ ready = <<>> /\ inbox = <<>>
  /\ mock \in BOOLEAN
  /\ current = 0 /\ made = 0 /\ aborts = 0 /\ unloads = 0 /\ faults = 0
  /\ active = [e \in Engines |-> {}] /\ aborted = [e \in Engines |-> {}]
  /\ using = [c \in Chats |-> 0]
  /\ prev = [c \in Chats |-> 0] /\ got = [c \in Chats |-> 0]
  /\ finish = [c \in Chats |-> "none"]
  /\ running = TRUE /\ loop = "reading"
  /\ cancelled = {} /\ dead = {} /\ hit = {} /\ silent = {}

Fail == faults < MaxFaults /\ faults' = faults + 1
Queued(c) == Contains(ready, Call("run", c, 0))
Alive == {c \in Chats : stage[c] \notin {"new", "posted", "over"}}
Holders == {c \in Chats : stage[c] \in Holding}

Wakeups(S) == {Call("run", c, 0) : c \in {d \in S \cap Alive : ~Queued(d)}}

\* Task.cancel() on some tasks: the next step of each raises.
CancelAll(S, next) ==
  /\ cancelled' = cancelled \cup (S \cap Alive)
  /\ \E q \in SetToSeqs(Wakeups(S)) : ready' = ready \o q \o next

-----------------------------------------------------------------------------
(* What a chat does in its steps.  The first of ready is this chat.        *)

Runs(c) == ready # <<>> /\ Head(ready) = Call("run", c, 0)
Proceeds(c) == Runs(c) /\ c \notin cancelled

Suspend(c, s) ==
  /\ stage' = [stage EXCEPT ![c] = s]
  /\ ready' = Tail(ready)
  /\ UNCHANGED <<cancelled, tasks, loop, dead, hit, silent>>

\* The task ends with all it knows; its done callback is queued behind
\* whatever else it left.
End(c, left) ==
  /\ stage' = [stage EXCEPT ![c] = "over"]
  /\ ready' = Tail(ready) \o left \o <<Call("pop", id[c], 0)>>
  /\ using' = [using EXCEPT ![c] = 0]
  /\ prev' = [prev EXCEPT ![c] = 0] /\ got' = [got EXCEPT ![c] = 0]
  /\ finish' = [finish EXCEPT ![c] = "none"]
  /\ silent' = IF finish[c] = "none" /\ c \notin hit \cup dead
                 THEN silent \cup {c} ELSE silent
  /\ cancelled' = cancelled \ {c} /\ dead' = dead \ {c} /\ hit' = hit \ {c}
  /\ UNCHANGED <<tasks, loop>>

\* The generator was left suspended at its yield: the event loop's hook will
\* create a task that closes it.
EndAtYield(c) ==
  /\ End(c, <<Call("hook", id[c], using[c])>>)
  /\ UNCHANGED requests

\* Variant with a bug: the generator has no finally clause.
LeaveRequest(r, e) ==
  /\ active' = active
  /\ aborted' = [aborted EXCEPT ![e] = @ \ {r}]

\* the finally clause of generate_stream
Forget(r, e) ==
  /\ active' = [active EXCEPT ![e] = @ \ {r}]
  /\ aborted' = [aborted EXCEPT ![e] = @ \ {r}]

\* the generator ends by itself or by an exception thrown into it
EndWithGenerator(c) == Forget(id[c], using[c]) /\ End(c, <<>>)

Cancelled(c) ==
  /\ Runs(c) /\ c \in cancelled
  /\ \/ stage[c] = "generating" /\ EndWithGenerator(c)
     \/ stage[c] = "sending" /\ EndAtYield(c)
     \/ stage[c] \notin Holding /\ End(c, <<>>) /\ UNCHANGED requests
  /\ UNCHANGED <<object, outside, faults>>

\* The error chunk, which a broken connection swallows.
ReportError(c) ==
  IF c \in dead
    THEN End(c, <<>>)
    ELSE /\ Suspend(c, "reporting")
         /\ finish' = [finish EXCEPT ![c] = "error"]
         /\ UNCHANGED <<using, prev, got>>

WaitForLock(c) ==
  /\ Proceeds(c) /\ stage[c] \in {"starting", "waiting"}
  /\ loop = "draining"
  /\ Suspend(c, "waiting")
  /\ UNCHANGED <<object, requests, stream, outside, faults>>

FailLoad(c) ==
  /\ Fail
  /\ Proceeds(c) /\ stage[c] \in {"starting", "waiting"}
  /\ loop # "draining" /\ current = 0
  /\ ReportError(c)
  /\ UNCHANGED <<object, requests, outside>>

\* acquire_engine, with the load if there is no engine, and generate_stream
\* up to its first wait; kept are the aborts that stay in the engine's table
Start(c, kept) ==
  LET e == IF current = 0 THEN made + 1 ELSE current IN
  /\ Proceeds(c) /\ stage[c] \in {"starting", "waiting"}
  /\ loop # "draining"
  /\ current' = e
  /\ made' = IF current = 0 THEN e ELSE made
  /\ active' = [active EXCEPT ![e] = @ \cup {id[c]}]
  /\ aborted' = [aborted EXCEPT ![e] = @ \cap kept]
  /\ using' = [using EXCEPT ![c] = e]
  /\ Suspend(c, "generating")
  /\ UNCHANGED <<mock, prev, got, finish, outside, faults>>

\* Variant with a bug: an id that is to be aborted stays so.
StartStreamMarked(c) == Start(c, Ids)

StartStream(c) == Start(c, Ids \ {id[c]})

\* A delta from position from is sent; on a broken connection send() raises,
\* and so does that of the error chunk.
Yield(c, from, to, reason) ==
  IF c \in dead
    THEN EndAtYield(c)
    ELSE /\ prev' = [prev EXCEPT ![c] = to]
         /\ got' = [got EXCEPT ![c] = @ + to - from]
         /\ finish' = [finish EXCEPT ![c] = reason]
         /\ Suspend(c, "sending")
         /\ UNCHANGED <<using, requests>>

\* Variant with a bug: every delta is the whole text.
SendWhole(c, n, reason) == Yield(c, 0, n, reason)

Send(c, n, reason) == Yield(c, prev[c], n, reason)

Asked(c) == id[c] \in aborted[using[c]]

\* An output of vLLM, which puts several into one; some bring no new text, the
\* last one among them.
Output(c) ==
  /\ Proceeds(c) /\ stage[c] = "generating" /\ ~mock
  /\ \/ Asked(c) /\ EndWithGenerator(c)
     \/ /\ ~Asked(c)
        /\ \E n \in prev[c] .. TextLength, reason \in {"none", "stop"} :
             /\ reason = "stop" => n = TextLength
             /\ Send(c, n, reason)
  /\ UNCHANGED <<object, outside, faults>>

\* The mock engine's sleep ends: it yields a word, whatever was aborted.
MockOutput(c) ==
  /\ Proceeds(c) /\ stage[c] = "generating" /\ mock
  /\ Send(c, prev[c] + 1, "none")
  /\ UNCHANGED <<object, outside, faults>>

EngineFails(c) ==
  /\ Fail
  /\ Proceeds(c) /\ stage[c] = "generating"
  /\ Forget(id[c], using[c])
  /\ ReportError(c)
  /\ UNCHANGED <<object, outside>>

\* The send is over and the generator resumed: it ends after its last chunk,
\* the mock engine also if it is to, and goes on otherwise.
Resume(c) ==
  \/ /\ finish[c] = "stop" \/ (mock /\ prev[c] < TextLength /\ Asked(c))
     /\ EndWithGenerator(c)
  \/ /\ finish[c] = "none" /\ mock /\ prev[c] = TextLength
     /\ Send(c, TextLength, "stop")
  \/ /\ finish[c] = "none"
     /\ mock => prev[c] < TextLength /\ ~Asked(c)
     /\ Suspend(c, "generating")
     /\ UNCHANGED <<stream, requests>>

Sent(c) ==
  /\ Proceeds(c) /\ stage[c] = "sending"
  /\ IF c \in dead THEN EndAtYield(c) ELSE Resume(c)
  /\ UNCHANGED <<object, outside, faults>>

Reported(c) ==
  /\ Proceeds(c) /\ stage[c] = "reporting"
  /\ End(c, <<>>)
  /\ UNCHANGED <<object, requests, outside, faults>>

\* What a chat waits for comes: an output, room in the send buffer, the lock.
Wake(c) ==
  /\ stage[c] \in Holding \cup {"waiting", "reporting"}
  /\ stage[c] = "waiting" => loop # "draining"
  /\ ~Queued(c)
  /\ ready' = Append(ready, Call("run", c, 0))
  /\ UNCHANGED <<stage, cancelled, tasks, loop, object, requests, stream,
                 others>>

-----------------------------------------------------------------------------
(* The other callbacks                                                     *)

First(d) == ready # <<>> /\ Head(ready).do = d

\* abort() of the engine.  It then waits for the abort of vLLM, which has taken
\* effect by then, and touches nothing any more.
AbortRequest ==
  /\ First("abort")
  /\ aborted' = [aborted EXCEPT ![Head(ready).on] = @ \cup {Head(ready).x}]
  /\ ready' = Tail(ready)
  /\ UNCHANGED <<stage, cancelled, tasks, loop, object, active, stream,
                 others>>

\* the hook of the event loop for generators nobody holds
FinalizeGenerator ==
  /\ First("hook")
  /\ ready' = Append(Tail(ready), [Head(ready) EXCEPT !.do = "close"])
  /\ UNCHANGED <<stage, cancelled, tasks, loop, object, requests, stream,
                 others>>

CloseGenerator ==
  /\ First("close")
  /\ Forget(Head(ready).x, Head(ready).on)
  /\ ready' = Tail(ready)
  /\ UNCHANGED <<stage, cancelled, tasks, loop, object, stream, others>>

\* the done callback: whatever task is registered
PopTask ==
  /\ First("pop")
  /\ tasks' = [tasks EXCEPT ![Head(ready).x] = None]
  /\ ready' = Tail(ready)
  /\ UNCHANGED <<stage, cancelled, loop, object, requests, stream, others>>

-----------------------------------------------------------------------------
(* The message loop                                                        *)

Arrived(k) == loop = "reading" /\ inbox # <<>> /\ Head(inbox).kind = k
Consume ==
  /\ inbox' = Tail(inbox)
  /\ UNCHANGED <<id, running, counters, dead, silent>>

ChatCompletion ==
  LET c == Head(inbox).x IN
  /\ Arrived("chat") /\ Consume
  /\ stage' = [stage EXCEPT ![c] = "starting"]
  /\ tasks' = [tasks EXCEPT ![id[c]] = c]
  /\ ready' = Append(ready, Call("run", c, 0))
  /\ UNCHANGED <<cancelled, loop, object, requests, stream, hit>>

ChatAbort ==
  LET r == Head(inbox).x IN
  /\ Arrived("abort") /\ Consume
  /\ CancelAll({tasks[r]},
               IF current = 0 THEN <<>> ELSE <<Call("abort", r, current)>>)
  /\ hit' = hit \cup {c \in Alive : id[c] = r}
  /\ UNCHANGED <<stage, tasks, loop, object, requests, stream>>

\* unload() of the engine, which clears its tables
Unload ==
  /\ current' = 0
  /\ active' = [e \in Engines |-> IF e = current THEN {} ELSE active[e]]
  /\ aborted' = [e \in Engines |-> IF e = current THEN {} ELSE aborted[e]]
  /\ UNCHANGED <<mock, made>>

\* unload_model of the registry: inferences that go on are waited for
UnloadModel ==
  /\ Arrived("unload") /\ Consume
  /\ IF Holders # {}
       THEN loop' = "draining" /\ UNCHANGED <<object, requests>>
       ELSE loop' = "status" /\ Unload
  /\ UNCHANGED <<stage, cancelled, tasks, ready, stream, hit>>

\* Variant with a bug: the drain has no time-out.
DrainedOnly ==
  /\ loop = "draining" /\ Holders = {}
  /\ loop' = "status"
  /\ Unload
  /\ UNCHANGED <<stage, cancelled, tasks, ready, stream, others>>

\* The last inference has ended, or the time-out has come.
Drained ==
  /\ loop = "draining"
  /\ loop' = "status"
  /\ Unload
  /\ UNCHANGED <<stage, cancelled, tasks, ready, stream, others>>

\* The send of the model status is over, or has raised, which is logged.
StatusSent ==
  /\ loop = "status"
  /\ loop' = "reading"
  /\ UNCHANGED <<stage, cancelled, tasks, ready, object, requests, stream,
                 others>>

\* What is on the wire comes from the receive buffer, or is lost.
Disconnect ==
  LET posted == {c \in Chats : stage[c] = "posted"} IN
  \/ /\ dead' = dead \cup Alive \cup posted
     /\ UNCHANGED <<stage, inbox>>
  \/ /\ dead' = dead \cup Alive
     /\ stage' = [c \in Chats |-> IF c \in posted THEN "over" ELSE stage[c]]
     /\ inbox' = <<>>

Stop ==
  /\ running
  /\ running' = FALSE
  /\ CancelAll({tasks[r] : r \in Ids}, <<>>)
  /\ hit' = hit \cup {c \in Alive : \E r \in Ids : tasks[r] = c}
  /\ tasks' = [r \in Ids |-> None]
  /\ Disconnect
  /\ UNCHANGED <<id, loop, object, requests, stream, counters, silent>>

Break ==
  /\ Fail
  /\ \E c \in Chats : stage[c] \notin {"new", "over"} /\ c \notin dead
  /\ Disconnect
  /\ UNCHANGED <<id, cancelled, tasks, ready, loop, object, requests,
                 stream, running, aborts, unloads, hit, silent>>

-----------------------------------------------------------------------------
(* The controller                                                          *)

Post(m) ==
  /\ running /\ Len(inbox) < MaxWire
  /\ inbox' = Append(inbox, m)
  /\ UNCHANGED <<id, cancelled, tasks, ready, loop, object, requests,
                 stream, running, fate>>

PostChat(c) ==
  /\ stage[c] = "new"
  /\ Post(Msg("chat", c))
  /\ stage' = [stage EXCEPT ![c] = "posted"]
  /\ UNCHANGED counters

PostAbort(c) ==
  /\ stage[c] # "new"
  /\ aborts < MaxAborts
  /\ Post(Msg("abort", id[c]))
  /\ aborts' = aborts + 1
  /\ UNCHANGED <<stage, unloads, faults>>

PostUnload ==
  /\ unloads < MaxUnloads
  /\ Post(Msg("unload", None))
  /\ unloads' = unloads + 1
  /\ UNCHANGED <<stage, aborts, faults>>

-----------------------------------------------------------------------------
ChatStep(c) ==
  \/ Cancelled(c) \/ WaitForLock(c) \/ FailLoad(c) \/ StartStream(c)
  \/ Output(c) \/ MockOutput(c) \/ EngineFails(c) \/ Sent(c) \/ Reported(c)

RunNext ==
  \/ \E c \in Chats : ChatStep(c)
  \/ AbortRequest \/ FinalizeGenerator \/ CloseGenerator \/ PopTask

HandleMessage == ChatCompletion \/ ChatAbort \/ UnloadModel

Next ==
  \/ RunNext
  \/ \E c \in Chats : Wake(c) \/ PostChat(c) \/ PostAbort(c)
  \/ HandleMessage \/ Drained \/ StatusSent
  \/ Stop \/ Break \/ PostUnload

\* The event loop runs what is ready and handles what has come once the message
\* loop reads; the drain has its time-out.  Nothing is assumed of the engine or
\* the connection: an output may never come, and a send may never end, be it
\* that of a chat or that of the message loop itself.
Fairness == WF_vars(RunNext) /\ WF_vars(HandleMessage) /\ WF_vars(Drained)

Spec == Init /\ [][Next]_vars /\ Fairness

-----------------------------------------------------------------------------
(* Properties                                                              *)

TypeOK ==
  /\ id \in [Chats -> Ids]
  /\ stage \in [Chats -> Stages]
  /\ {cancelled, dead, hit, silent} \subseteq SUBSET Chats
  /\ cancelled \cup hit \subseteq Alive
  /\ tasks \in [Ids -> Chats \cup {None}]
  /\ ready \in Seq(Callback) /\ inbox \in Seq(Message)
  /\ loop \in Places /\ {mock, running} \subseteq BOOLEAN
  /\ current \in {0} \cup Engines /\ made \in {0} \cup Engines
  /\ {active, aborted} \subseteq [Engines -> SUBSET Ids]
  /\ using \in [Chats -> {0} \cup Engines]
  /\ {prev, got} \subseteq [Chats -> Nat]
  /\ finish \in [Chats -> {"none", "stop", "error"}]
  /\ aborts \in 0 .. MaxAborts /\ unloads \in 0 .. MaxUnloads
  /\ faults \in 0 .. MaxFaults

\* A chat that ends without a last chunk was itself aborted or stopped while
\* it was alive, or has lost its connection: the abort of an earlier chat,
\* whose id stays behind in _aborted_requests, does not stop a later one with
\* the same id.
NoStrayAbort == silent = {}

\* A chat that was told to stop has sent each character of its translation
\* once, however the engine cut its outputs.
StreamIsWhole ==
  \A c \in Chats :
    /\ got[c] <= TextLength
    /\ finish[c] = "stop" => got[c] = TextLength

\* When no chat is left and the event loop has nothing to run, no task is
\* registered and no engine takes itself for active, wherever the chats were
\* cancelled, cut off or overtaken by an unload.
LeftNothing ==
  (ready = <<>> /\ Alive = {}) =>
    /\ \A r \in Ids : tasks[r] = None
    /\ \A e \in Engines : active[e] = {}

Unique(c) == \A d \in Chats \ {c} : id[d] # id[c]
Aborting(c) ==
  /\ stage[c] # "over"
  /\ \E i \in 1 .. Len(inbox) : inbox[i] = Msg("abort", id[c])

\* An abort on the wire ends its chat, if no other chat has its id, the
\* connection lives and the message loop comes out of its own sends: also one
\* whose engine has stalled, whose own send has stalled, one that waits for the
\* lock, and one whose abort comes behind a drain.
AbortEnds ==
  []<>(loop # "status") =>
    \A c \in Chats :
      Unique(c) /\ Aborting(c) ~> stage[c] = "over" \/ c \in dead

-----------------------------------------------------------------------------
(* What the code does not do                                               *)

\* An engine at rest remembers no abort (it keeps the ids of those that came
\* when their generator had ended, for good).
AbortsForgotten ==
  (ready = <<>> /\ Alive = {}) => \A e \in Engines : aborted[e] = {}

\* An abort ends its chat whatever the controller reads (the message loop waits
\* in its own send of the model status and handles no abort meanwhile).
AbortEndsStalled ==
  \A c \in Chats :
    Unique(c) /\ Aborting(c) ~> stage[c] = "over" \/ c \in dead

\* An abort ends the one living chat with its id, also if an earlier chat had
\* the same id (whose done callback drops the registration of the later one).
AbortEndsLast ==
  \A c \in Chats :
    /\ c \in Alive /\ Aborting(c)
    /\ \A d \in Chats \ {c} : id[d] = id[c] => stage[d] = "over"
    ~> stage[c] = "over" \/ c \in dead
=============================================================================
