-------------------------- MODULE ChatStreamProofs --------------------------
(***************************************************************************)
(* The chats of models/hy_mt2.py and ws_client.py, for any number of       *)
(* chats, any way to give them ids, any length and any number of aborts,   *)
(* unloads and failures.                                                   *)
(*                                                                         *)
(* A translation arrives whole: that what is sent is what the engine has   *)
(* produced needs that a stream of the mock engine that goes on has words  *)
(* left, that a chat without a stream starts at the beginning, and that a  *)
(* chat_completion on the wire is the only one for a chat that has not     *)
(* begun.                                                                  *)
(*                                                                         *)
(* No abort strays, and chats leave nothing: both need what the queue of   *)
(* the event loop holds, and in which order.  The callback that marks an   *)
(* id in an engine is queued behind the living chats of that id and ahead  *)
(* of later ones; whatever is registered or active has its chat, or the    *)
(* callback that will remove it, still to come.                            *)
(***************************************************************************)
EXTENDS ChatStream, SequenceTheorems, FiniteSetTheorems, TLAPS

Reasons == {"none", "stop", "error"}

Position(c) ==
  /\ got[c] = prev[c] /\ prev[c] <= TextLength
  /\ finish[c] = "stop" => prev[c] = TextLength
  /\ stage[c] = "generating" /\ mock => prev[c] < TextLength
  /\ stage[c] \notin Holding \cup {"reporting"} => prev[c] = 0

Streams ==
  /\ stage \in [Chats -> Stages]
  /\ prev \in [Chats -> Nat] /\ got \in [Chats -> Nat]
  /\ finish \in [Chats -> Reasons]
  /\ \A c \in Chats : Position(c)

IsChat(i) == i \in 1 .. Len(inbox) /\ inbox[i].kind = "chat"

Posted ==
  /\ inbox \in Seq(Message)
  /\ cancelled \subseteq Alive
  /\ \A i \in 1 .. Len(inbox) : IsChat(i) => stage[inbox[i].x] = "posted"
  /\ \A i, j \in 1 .. Len(inbox) :
       IsChat(i) /\ IsChat(j) /\ inbox[i].x = inbox[j].x => i = j

USE DEF Stages, Holding, Reasons, Places

-----------------------------------------------------------------------------
(* What the steps of a chat have in common                                 *)

\* A chat that ends starts anew.
LEMMA EndKeepsStreams ==
  ASSUME Streams, mock' = mock, NEW c \in Chats, NEW left, End(c, left)
  PROVE  Streams'
BY ChatAssumption DEF Streams, Position, End

\* A chat that goes on generating has words left in the mock engine; one that
\* waits for the lock has not begun.
LEMMA SuspendKeepsStreams ==
  ASSUME Streams, NEW c \in Chats,
         NEW s \in {"waiting", "generating", "reporting"}, Suspend(c, s),
         UNCHANGED <<prev, got>>,
         finish' \in [Chats -> Reasons],
         \A d \in Chats : finish'[d] = "stop" => finish[d] = "stop",
         s = "generating" /\ mock => prev[c] < TextLength,
         mock' = mock,
         s = "waiting" => prev[c] = 0
  PROVE  Streams'
BY DEF Streams, Position, Suspend

\* A delta from the previous position moves it to the end of the delta.
LEMMA SendKeepsStreams ==
  ASSUME Streams, mock' = mock, NEW c \in Chats, NEW n \in 0 .. TextLength,
         NEW reason \in {"none", "stop"}, reason = "stop" => n = TextLength,
         Send(c, n, reason)
  PROVE  Streams'
<1>1. CASE c \in dead
  BY <1>1, EndKeepsStreams DEF Send, Yield, EndAtYield
<1>2. CASE c \notin dead
  <2>1. /\ stage' = [stage EXCEPT ![c] = "sending"]
        /\ prev' = [prev EXCEPT ![c] = n]
        /\ got' = [got EXCEPT ![c] = @ + n - prev[c]]
        /\ finish' = [finish EXCEPT ![c] = reason]
    BY <1>2 DEF Send, Yield, Suspend
  <2>2. got[c] = prev[c] /\ prev[c] \in Nat /\ n \in Nat /\ n <= TextLength
    BY ChatAssumption DEF Streams, Position
  <2>3. got' = [got EXCEPT ![c] = n]
    <3> got[c] + n - prev[c] = n
      BY <2>2
    <3> QED
      BY <2>1 DEF Streams
  <2> QED
    BY <2>1, <2>2, <2>3 DEF Streams, Position
<1> QED
  BY <1>1, <1>2

LEMMA ErrorKeepsStreams ==
  ASSUME Streams, mock' = mock, NEW c \in Chats, ReportError(c)
  PROVE  Streams'
<1>1. CASE c \in dead
  BY <1>1, EndKeepsStreams DEF ReportError
<1>2. CASE c \notin dead
  <2>1. /\ Suspend(c, "reporting") /\ UNCHANGED <<prev, got>>
        /\ finish' = [finish EXCEPT ![c] = "error"]
    BY <1>2 DEF ReportError
  <2>2. /\ finish' \in [Chats -> Reasons]
        /\ \A d \in Chats : finish'[d] = "stop" => finish[d] = "stop"
    BY <2>1 DEF Streams
  <2> QED
    BY <2>1, <2>2, SuspendKeepsStreams
<1> QED
  BY <1>1, <1>2

-----------------------------------------------------------------------------
(* The steps                                                               *)

LEMMA ResumeKeepsStreams ==
  ASSUME Streams, mock' = mock, NEW c \in Chats, stage[c] = "sending", Resume(c)
  PROVE  Streams'
<1>1. CASE EndWithGenerator(c)
  BY <1>1, EndKeepsStreams DEF EndWithGenerator
<1>2. CASE Send(c, TextLength, "stop")
  BY <1>2, SendKeepsStreams, ChatAssumption
<1>3. CASE /\ mock => prev[c] < TextLength
           /\ Suspend(c, "generating") /\ UNCHANGED stream
  BY <1>3, SuspendKeepsStreams DEF stream, Streams
<1> QED
  BY <1>1, <1>2, <1>3 DEF Resume

LEMMA ChatKeepsStreams ==
  ASSUME Streams, NEW c \in Chats, ChatStep(c)
  PROVE  Streams'
<1>0. mock' = mock
  BY DEF ChatStep, Cancelled, WaitForLock, FailLoad, StartStream, Start, Output,
         MockOutput, EngineFails, Sent, Reported, object
<1> USE <1>0
<1>1. CASE Cancelled(c)
  BY <1>1, EndKeepsStreams DEF Cancelled, EndWithGenerator, EndAtYield
<1>2. CASE WaitForLock(c)
  <2>1. prev[c] = 0
    BY <1>2 DEF WaitForLock, Streams, Position
  <2> QED
    BY <1>2, <2>1, SuspendKeepsStreams DEF WaitForLock, stream, Streams
<1>3. CASE FailLoad(c)
  BY <1>3, ErrorKeepsStreams DEF FailLoad
<1>4. CASE StartStream(c)
  <2>1. prev[c] < TextLength
    BY <1>4, ChatAssumption DEF StartStream, Start, Streams, Position
  <2> QED
    BY <1>4, <2>1, SuspendKeepsStreams DEF StartStream, Start, Streams
<1>5. CASE Output(c)
  <2>1. CASE EndWithGenerator(c)
    BY <2>1, EndKeepsStreams DEF EndWithGenerator
  <2>2. ASSUME NEW n \in prev[c] .. TextLength, NEW reason \in {"none", "stop"},
               reason = "stop" => n = TextLength, Send(c, n, reason)
        PROVE  Streams'
    <3>1. n \in 0 .. TextLength
      BY ChatAssumption DEF Streams
    <3> QED
      BY <2>2, <3>1, SendKeepsStreams
  <2> QED
    BY <1>5, <2>1, <2>2 DEF Output
<1>6. CASE MockOutput(c)
  <2>1. prev[c] + 1 \in 0 .. TextLength
    BY <1>6, ChatAssumption DEF MockOutput, Streams, Position
  <2> QED
    BY <1>6, <2>1, SendKeepsStreams DEF MockOutput
<1>7. CASE EngineFails(c)
  BY <1>7, ErrorKeepsStreams DEF EngineFails
<1>8. CASE Sent(c)
  BY <1>8, ResumeKeepsStreams, EndKeepsStreams DEF Sent, EndAtYield
<1>9. CASE Reported(c)
  BY <1>9, EndKeepsStreams DEF Reported
<1> QED
  BY <1>1, <1>2, <1>3, <1>4, <1>5, <1>6, <1>7, <1>8, <1>9 DEF ChatStep

\* Posting, receiving and losing a chat happen before it streams.
LEMMA ConnectionKeepsStreams ==
  ASSUME Streams, Posted,
         \/ \E c \in Chats : PostChat(c) \/ PostAbort(c)
         \/ PostUnload \/ HandleMessage \/ Stop \/ Break
  PROVE  Streams'
<1>0. mock' = mock
  BY DEF PostChat, PostAbort, PostUnload, Post, HandleMessage, ChatCompletion,
         ChatAbort, UnloadModel, Unload, Stop, Break, object
<1> USE <1>0
<1>1. ASSUME NEW c \in Chats, PostChat(c) PROVE Streams'
  BY <1>1 DEF PostChat, Post, Streams, Position, stream
<1>2. ASSUME NEW c \in Chats, PostAbort(c) PROVE Streams'
  BY <1>2 DEF PostAbort, Post, Streams, Position, stream
<1>3. CASE PostUnload
  BY <1>3 DEF PostUnload, Post, Streams, Position, stream
<1>4. CASE ChatCompletion
  <2>1. stage[Head(inbox).x] = "posted"
    BY <1>4, LenProperties, EmptySeq, HeadTailProperties
       DEF ChatCompletion, Arrived, Posted, IsChat
  <2> QED
    BY <1>4, <2>1 DEF ChatCompletion, Streams, Position, stream
<1>5. CASE ChatAbort
  BY <1>5 DEF ChatAbort, Streams, Position, stream
<1>6. CASE UnloadModel
  BY <1>6 DEF UnloadModel, Streams, Position, stream
<1>7. ASSUME Disconnect, UNCHANGED stream PROVE Streams'
  BY <1>7 DEF Disconnect, Streams, Position, stream
<1> QED
  BY <1>1, <1>2, <1>3, <1>4, <1>5, <1>6, <1>7 DEF HandleMessage, Stop, Break

LEMMA OthersKeepStreams ==
  ASSUME Streams,
         \/ AbortRequest \/ FinalizeGenerator \/ CloseGenerator \/ PopTask
         \/ Drained \/ StatusSent \/ \E c \in Chats : Wake(c)
         \/ UNCHANGED vars
  PROVE  Streams'
<1>1. UNCHANGED <<stage, prev, got, finish, mock>>
  BY DEF AbortRequest, FinalizeGenerator, CloseGenerator, PopTask, Drained, StatusSent,
         Unload, Wake, vars, stream, object
<1> QED
  BY <1>1 DEF Streams, Position

-----------------------------------------------------------------------------
(* The chats on the wire                                                   *)

\* Steps of other chats and of the engine leave the wire alone.
LEMMA WireKeepsPosted ==
  ASSUME Streams, Posted, inbox' = inbox, cancelled' \subseteq Alive',
         \A c \in Chats : stage[c] = "posted" => stage'[c] = "posted"
  PROVE  Posted'
<1>1. \A i \in 1 .. Len(inbox) : IsChat(i) => inbox[i].x \in Chats
  BY ElementOfSeq DEF Posted, IsChat, Message
<1> QED
  BY <1>1 DEF Posted, IsChat

LEMMA ChatKeepsPosted ==
  ASSUME Streams, Posted, NEW c \in Chats, ChatStep(c)
  PROVE  Posted'
<1>1. inbox' = inbox
  BY DEF ChatStep, Cancelled, WaitForLock, FailLoad, StartStream, Start, Output,
         MockOutput, EngineFails, Sent, Reported, outside
<1>2. stage[c] \notin {"new", "posted", "over"}
  BY DEF ChatStep, Cancelled, WaitForLock, FailLoad, StartStream, Start, Output,
         MockOutput, EngineFails, Sent, Reported, Posted, Alive
<1>3. \/ \E left : End(c, left)
      \/ \E s \in {"waiting", "generating", "sending", "reporting"} : Suspend(c, s)
  BY DEF ChatStep, Cancelled, WaitForLock, FailLoad, StartStream, Start, Output,
         MockOutput, EngineFails, Sent, Reported, Resume, Send, Yield,
         ReportError, EndWithGenerator, EndAtYield
<1>4. /\ cancelled' \subseteq Alive'
      /\ \A d \in Chats : stage[d] = "posted" => stage'[d] = "posted"
  <2>1. ASSUME NEW left, End(c, left) PROVE <1>4!1 /\ <1>4!2
    BY <2>1, <1>2 DEF End, Posted, Alive, Streams
  <2>2. ASSUME NEW s \in {"waiting", "generating", "sending", "reporting"},
               Suspend(c, s)
        PROVE  <1>4!1 /\ <1>4!2
    BY <2>2, <1>2 DEF Suspend, Posted, Alive, Streams
  <2> QED
    BY <1>3, <2>1, <2>2
<1> QED
  BY <1>1, <1>4, WireKeepsPosted

\* A message that is no chat, or a chat that is new, joins the others.
LEMMA PostKeepsPosted ==
  ASSUME Streams, Posted, NEW m \in Message, inbox' = Append(inbox, m),
         cancelled' = cancelled,
         \/ m.kind # "chat" /\ stage' = stage
         \/ \E c \in Chats : /\ m = Msg("chat", c) /\ stage[c] = "new"
                             /\ stage' = [stage EXCEPT ![c] = "posted"]
  PROVE  Posted'
<1>1. /\ Len(inbox) \in Nat /\ Len(inbox') = Len(inbox) + 1
      /\ inbox' \in Seq(Message)
      /\ \A i \in 1 .. Len(inbox) : inbox'[i] = inbox[i]
      /\ inbox'[Len(inbox) + 1] = m
  BY LenProperties, AppendProperties DEF Posted
<1>2. \A i \in 1 .. Len(inbox') : i \in 1 .. Len(inbox) \/ i = Len(inbox) + 1
  BY <1>1
<1>3. \A i \in 1 .. Len(inbox) : IsChat(i) => inbox[i].x \in Chats
  BY ElementOfSeq DEF Posted, IsChat, Message
<1>4. CASE m.kind # "chat" /\ stage' = stage
  BY <1>1, <1>2, <1>4 DEF Posted, IsChat, Alive
<1>5. ASSUME NEW c \in Chats, m = Msg("chat", c), stage[c] = "new",
             stage' = [stage EXCEPT ![c] = "posted"]
      PROVE  Posted'
  <2>1. cancelled' \subseteq Alive'
    BY <1>5 DEF Posted, Alive, Streams
  <2>2. m.kind = "chat" /\ m.x = c
    BY <1>5 DEF Msg
  <2>3. \A i \in 1 .. Len(inbox) : IsChat(i) => inbox[i].x # c
    BY <1>5 DEF Posted
  <2>4. \A i \in 1 .. Len(inbox') :
          IsChat(i)' => /\ stage'[inbox'[i].x] = "posted"
                        /\ i \in 1 .. Len(inbox) => IsChat(i)
    BY <1>1, <1>2, <1>3, <1>5, <2>2 DEF Posted, IsChat, Streams
  <2>5. \A i, j \in 1 .. Len(inbox') :
          IsChat(i)' /\ IsChat(j)' /\ inbox'[i].x = inbox'[j].x => i = j
    BY <1>1, <1>2, <2>2, <2>3, <2>4 DEF Posted
  <2> QED
    BY <1>1, <2>1, <2>4, <2>5 DEF Posted
<1> QED
  BY <1>4, <1>5

\* The message loop takes the first message, a chat as the only one for it.
LEMMA ConsumeKeepsPosted ==
  ASSUME Streams, Posted, inbox # <<>>, inbox' = Tail(inbox),
         cancelled' \subseteq Alive',
         \A c \in Chats : stage'[c] = stage[c] \/ Head(inbox) = Msg("chat", c)
  PROVE  Posted'
<1>1. /\ Len(inbox) \in Nat /\ Len(inbox) # 0 /\ Len(inbox') = Len(inbox) - 1
      /\ inbox' \in Seq(Message) /\ Head(inbox) = inbox[1]
      /\ \A i \in 1 .. Len(inbox') : inbox'[i] = inbox[i + 1]
  BY LenProperties, EmptySeq, HeadTailProperties DEF Posted
<1>2. \A i \in 1 .. Len(inbox') : i + 1 \in 1 .. Len(inbox) /\ i + 1 # 1
  BY <1>1
<1>3. \A i \in 1 .. Len(inbox) : IsChat(i) => inbox[i].x \in Chats
  BY ElementOfSeq DEF Posted, IsChat, Message
<1>4. ASSUME NEW i \in 1 .. Len(inbox'), IsChat(i)'
      PROVE  stage'[inbox'[i].x] = "posted" /\ IsChat(i + 1)
  <2>1. IsChat(i + 1) /\ inbox'[i] = inbox[i + 1]
    BY <1>1, <1>2, <1>4 DEF IsChat
  <2>2. Head(inbox) # Msg("chat", inbox[i + 1].x)
    <3>1. SUFFICES ASSUME Head(inbox) = Msg("chat", inbox[i + 1].x)
                   PROVE  FALSE
      OBVIOUS
    <3>2. IsChat(1) /\ inbox[1].x = inbox[i + 1].x /\ 1 \in 1 .. Len(inbox)
      BY <1>1, <3>1 DEF IsChat, Msg
    <3> QED
      BY <1>2, <2>1, <3>2 DEF Posted
  <2> QED
    BY <1>2, <1>3, <2>1, <2>2 DEF Posted
<1>5. \A i, j \in 1 .. Len(inbox') :
        IsChat(i)' /\ IsChat(j)' /\ inbox'[i].x = inbox'[j].x => i = j
  BY <1>1, <1>2, <1>4 DEF Posted
<1> QED
  BY <1>1, <1>4, <1>5 DEF Posted

LEMMA LoopKeepsPosted ==
  ASSUME Streams, Posted, HandleMessage
  PROVE  Posted'
<1>1. inbox # <<>> /\ inbox' = Tail(inbox)
  BY DEF HandleMessage, ChatCompletion, ChatAbort, UnloadModel, Arrived, Consume
<1>2. Head(inbox) \in Message
  BY <1>1, HeadTailProperties DEF Posted
<1>3. CASE ChatCompletion
  <2> DEFINE c == Head(inbox).x
  <2>1. c \in Chats /\ Head(inbox) = Msg("chat", c)
    BY <1>2, <1>3 DEF ChatCompletion, Arrived, Message, Msg
  <2>2. stage' = [stage EXCEPT ![c] = "starting"] /\ cancelled' = cancelled
    BY <1>3 DEF ChatCompletion
  <2>3. cancelled' \subseteq Alive'
    BY <2>1, <2>2 DEF Posted, Alive, Streams
  <2>4. \A d \in Chats : stage'[d] = stage[d] \/ Head(inbox) = Msg("chat", d)
    BY <2>1, <2>2 DEF Streams
  <2> QED
    BY <1>1, <2>3, <2>4, ConsumeKeepsPosted
<1>4. CASE ChatAbort
  <2>1. stage' = stage /\ cancelled' \subseteq Alive
    BY <1>4 DEF ChatAbort, CancelAll, Posted
  <2>2. cancelled' \subseteq Alive'
    BY <2>1 DEF Alive
  <2> QED
    BY <1>1, <2>1, <2>2, ConsumeKeepsPosted
<1>5. CASE UnloadModel
  <2>1. stage' = stage /\ cancelled' \subseteq Alive'
    BY <1>5 DEF UnloadModel, Posted, Alive
  <2> QED
    BY <1>1, <2>1, ConsumeKeepsPosted
<1> QED
  BY <1>3, <1>4, <1>5 DEF HandleMessage

\* A disconnection keeps the wire, or ends the chats that were on it.
LEMMA DisconnectKeepsPosted ==
  ASSUME Streams, Posted, Disconnect, cancelled' \subseteq Alive
  PROVE  Posted'
<1>1. cancelled' \subseteq Alive'
  BY DEF Disconnect, Alive, Streams
<1>2. CASE stage' = stage /\ inbox' = inbox
  BY <1>1, <1>2, WireKeepsPosted
<1>3. CASE inbox' = <<>>
  <2>1. inbox' \in Seq(Message) /\ Len(inbox') = 0
    BY <1>3, EmptySeq
  <2> QED
    BY <1>1, <2>1 DEF Posted
<1> QED
  BY <1>2, <1>3 DEF Disconnect

\* The controller gives the ids once.
LEMMA NextKeepsIds == [Next]_vars => id' = id
BY DEF Next, RunNext, HandleMessage, ChatStep, Cancelled, WaitForLock, FailLoad,
       StartStream, Start, Output, MockOutput, EngineFails, Sent, Reported, Wake,
       AbortRequest, FinalizeGenerator, CloseGenerator, PopTask, ChatCompletion,
       ChatAbort, UnloadModel, Consume, Drained, StatusSent,
       Stop, Break, PostChat, PostAbort,
       PostUnload, Post, vars, others, outside

LEMMA NextKeepsPosted ==
  Streams /\ Posted /\ id \in [Chats -> Ids] /\ [Next]_vars => Posted'
<1> SUFFICES ASSUME Streams, Posted, id \in [Chats -> Ids], [Next]_vars
             PROVE  Posted'
  OBVIOUS
<1>1. ASSUME NEW c \in Chats, ChatStep(c) PROVE Posted'
  BY <1>1, ChatKeepsPosted
<1>2. ASSUME UNCHANGED <<stage, inbox, cancelled>> PROVE Posted'
  BY <1>2, WireKeepsPosted DEF Posted, Alive
<1>3. ASSUME NEW c \in Chats, PostChat(c) PROVE Posted'
  <2>1. Msg("chat", c) \in Message
    BY DEF Msg, Message
  <2> QED
    BY <1>3, <2>1, PostKeepsPosted DEF PostChat, Post
<1>4. ASSUME NEW c \in Chats, PostAbort(c) PROVE Posted'
  <2>1. Msg("abort", id[c]) \in Message /\ Msg("abort", id[c]).kind # "chat"
    BY DEF Msg, Message
  <2> QED
    BY <1>4, <2>1, PostKeepsPosted DEF PostAbort, Post
<1>5. CASE PostUnload
  <2>1. Msg("unload", None) \in Message /\ Msg("unload", None).kind # "chat"
    BY DEF Msg, Message
  <2> QED
    BY <1>5, <2>1, PostKeepsPosted DEF PostUnload, Post
<1>6. CASE Stop
  BY <1>6, DisconnectKeepsPosted DEF Stop, CancelAll, Posted
<1>7. CASE Break
  BY <1>7, DisconnectKeepsPosted DEF Break, Posted
<1>8. ASSUME \/ AbortRequest \/ FinalizeGenerator \/ CloseGenerator \/ PopTask
             \/ Drained \/ StatusSent \/ (\E c \in Chats : Wake(c)) \/ UNCHANGED vars
      PROVE  Posted'
  BY <1>2, <1>8 DEF AbortRequest, FinalizeGenerator, CloseGenerator, PopTask,
                    Drained, StatusSent, Wake, vars, others, outside
<1> QED
  BY <1>1, <1>3, <1>4, <1>5, <1>6, <1>7, <1>8, LoopKeepsPosted
     DEF Next, RunNext

-----------------------------------------------------------------------------
(* What the queue of callbacks and the tables of the engines may hold      *)

Pending(s) == {i \in 1 .. Len(s) : s[i].kind = "unload"}
One(b) == IF b THEN 1 ELSE 0

\* An engine object beyond the first replaces one that an unload has taken
\* away: the next one to be made is covered by the unloads that were handled.
EnginesCounted ==
  /\ current <= made
  /\ made + One(current = 0) + One(loop = "draining") + Cardinality(Pending(inbox))
       <= unloads + 1

\* A task is scheduled once, and not any more when it is over.
RunsOnce ==
  /\ \A c \in Chats : Queued(c) => c \in Alive
  /\ \A i, j \in 1 .. Len(ready) :
       ready[i].do = "run" /\ ready[i] = ready[j] => i = j

\* A registered task is alive, or its done callback is on its way.
Registered ==
  \A r \in Ids : tasks[r] # None =>
    /\ id[tasks[r]] = r
    /\ tasks[r] \in Alive \/ Contains(ready, Call("pop", r, 0))

\* An active request has a chat in its generator, or one that will be closed.
Requested ==
  \A e \in Engines : \A r \in active[e] :
    \/ \E c \in Holders : id[c] = r /\ using[c] = e
    \/ Contains(ready, Call("hook", r, e))
    \/ Contains(ready, Call("close", r, e))

\* An abort that is still to be carried out comes before the first step of a
\* chat it was not meant for.
AbortsFirst ==
  \A c \in Alive \ hit : \A i \in 1 .. Len(ready) :
    ready[i].do = "abort" /\ ready[i].x = id[c] =>
      /\ stage[c] = "starting"
      /\ \A j \in 1 .. Len(ready) : ready[j] = Call("run", c, 0) => i < j

\* What ends a chat before its last chunk was meant for it.
Meant ==
  /\ cancelled \subseteq hit
  /\ \A c \in Holders : using[c] \in Engines
  /\ \A c \in Holders \ hit : id[c] \notin aborted[using[c]]
  /\ \A c \in Chats : stage[c] = "reporting" => finish[c] = "error"

-----------------------------------------------------------------------------
(* How a step moves the queue                                              *)

\* ready loses its first n callbacks and gains those of q.
Moves(n, q) ==
  /\ Len(ready) \in Nat /\ Len(q) \in Nat /\ n <= Len(ready)
  /\ Len(ready') = Len(ready) - n + Len(q)
  /\ \A i \in 1 .. Len(ready) - n : ready'[i] = ready[i + n]
  /\ \A i \in 1 .. Len(q) : ready'[Len(ready) - n + i] = q[i]

LEMMA TailMoves ==
  ASSUME ready \in Seq(Callback), ready # <<>>, NEW q \in Seq(Callback),
         ready' = Tail(ready) \o q
  PROVE  Moves(1, q) /\ ready' \in Seq(Callback) /\ Head(ready) = ready[1]
<1>1. /\ Tail(ready) \in Seq(Callback) /\ Len(Tail(ready)) = Len(ready) - 1
      /\ \A i \in 1 .. Len(ready) - 1 : Tail(ready)[i] = ready[i + 1]
      /\ Len(ready) \in Nat /\ Len(ready) # 0 /\ Len(q) \in Nat
  BY HeadTailProperties, LenProperties, EmptySeq
<1>2. /\ ready' \in Seq(Callback)
      /\ Len(ready') = Len(ready) - 1 + Len(q)
      /\ \A i \in 1 .. Len(ready) - 1 + Len(q) :
           ready'[i] = IF i <= Len(ready) - 1 THEN Tail(ready)[i]
                                              ELSE q[i - (Len(ready) - 1)]
  BY <1>1, ConcatProperties
<1>3. \A i \in 1 .. Len(q) : ready'[Len(ready) - 1 + i] = q[i]
  <2> SUFFICES ASSUME NEW i \in 1 .. Len(q)
               PROVE  ready'[Len(ready) - 1 + i] = q[i]
    OBVIOUS
  <2>1. Len(ready) - 1 + i \in 1 .. Len(ready) - 1 + Len(q)
    BY <1>1
  <2>2. ~(Len(ready) - 1 + i <= Len(ready) - 1)
        /\ Len(ready) - 1 + i - (Len(ready) - 1) = i
    BY <1>1
  <2> QED
    BY <1>2, <2>1, <2>2
<1> QED
  BY <1>1, <1>2, <1>3 DEF Moves

LEMMA TailOnlyMoves ==
  ASSUME ready \in Seq(Callback), ready # <<>>, ready' = Tail(ready)
  PROVE  Moves(1, <<>>) /\ ready' \in Seq(Callback) /\ Head(ready) = ready[1]
<1>1. <<>> \in Seq(Callback) /\ Tail(ready) \in Seq(Callback)
  BY EmptySeq, HeadTailProperties
<1>2. ready' = Tail(ready) \o <<>>
  BY <1>1, ConcatEmptySeq
<1> QED
  BY <1>1, <1>2, TailMoves

LEMMA ConcatMoves ==
  ASSUME ready \in Seq(Callback), NEW q \in Seq(Callback), ready' = ready \o q
  PROVE  Moves(0, q) /\ ready' \in Seq(Callback)
<1>1. /\ Len(ready) \in Nat /\ Len(q) \in Nat /\ ready' \in Seq(Callback)
      /\ Len(ready') = Len(ready) + Len(q)
      /\ \A i \in 1 .. Len(ready) + Len(q) :
           ready'[i] = IF i <= Len(ready) THEN ready[i] ELSE q[i - Len(ready)]
  BY LenProperties, ConcatProperties
<1>2. \A i \in 1 .. Len(q) : ready'[Len(ready) + i] = q[i]
  <2> SUFFICES ASSUME NEW i \in 1 .. Len(q) PROVE ready'[Len(ready) + i] = q[i]
    OBVIOUS
  <2>1. Len(ready) + i \in 1 .. Len(ready) + Len(q)
        /\ ~(Len(ready) + i <= Len(ready)) /\ Len(ready) + i - Len(ready) = i
    BY <1>1
  <2> QED
    BY <1>1, <2>1
<1> QED
  BY <1>1, <1>2 DEF Moves

LEMMA AppendMoves ==
  ASSUME ready \in Seq(Callback), NEW m \in Callback, ready' = Append(ready, m)
  PROVE  Moves(0, <<m>>) /\ ready' \in Seq(Callback)
<1>1. <<m>> \in Seq(Callback) /\ ready' = ready \o <<m>>
  BY AppendIsConcat
<1> QED
  BY <1>1, ConcatMoves

\* A callback in the queue was there before, or is new.
LEMMA MovedQueue ==
  ASSUME NEW n \in {0, 1}, NEW q, Moves(n, q), NEW i \in 1 .. Len(ready')
  PROVE  \/ /\ i \in 1 .. Len(ready) - n /\ i + n \in 1 .. Len(ready)
            /\ ready'[i] = ready[i + n]
         \/ /\ i - (Len(ready) - n) \in 1 .. Len(q)
            /\ ready'[i] = q[i - (Len(ready) - n)]
<1>1. CASE i <= Len(ready) - n
  BY <1>1 DEF Moves
<1>2. CASE i > Len(ready) - n
  <2>1. i - (Len(ready) - n) \in 1 .. Len(q)
    BY <1>2 DEF Moves
  <2>2. Len(ready) - n + (i - (Len(ready) - n)) = i
    BY DEF Moves
  <2> QED
    BY <2>1, <2>2 DEF Moves
<1> QED
  BY <1>1, <1>2 DEF Moves

\* What was not at the head is still there.
LEMMA StaysQueued ==
  ASSUME NEW n \in {0, 1}, NEW q, Moves(n, q), NEW m, Contains(ready, m),
         n = 1 => ready[1] # m
  PROVE  Contains(ready', m)
<1>1. PICK i \in 1 .. Len(ready) : ready[i] = m
  BY DEF Contains
<1>2. i - n \in 1 .. Len(ready) - n /\ (i - n) + n = i
  BY <1>1 DEF Moves
<1>3. ready'[i - n] = m /\ i - n \in 1 .. Len(ready')
  BY <1>1, <1>2 DEF Moves
<1> QED
  BY <1>3 DEF Contains

LEMMA IsQueued ==
  ASSUME NEW n \in {0, 1}, NEW q, Moves(n, q), NEW i \in 1 .. Len(q)
  PROVE  Contains(ready', q[i])
<1>1. Len(ready) - n + i \in 1 .. Len(ready')
  BY DEF Moves
<1> QED
  BY <1>1 DEF Moves, Contains

\* The tasks that a cancellation wakes up, in any order.
LEMMA WakeupList ==
  ASSUME NEW S, NEW q \in SetToSeqs(Wakeups(S))
  PROVE  /\ q \in Seq(Callback)
         /\ \A i \in 1 .. Len(q) :
              \E c \in S \cap Alive : ~Queued(c) /\ q[i] = Call("run", c, 0)
         /\ \A i, j \in 1 .. Len(q) : q[i] = q[j] => i = j
<1> DEFINE D == {d \in S \cap Alive : ~Queued(d)}
           f == [c \in D |-> Call("run", c, 0)]
<1>1. IsFiniteSet(D)
  BY ChatAssumption, FS_Subset DEF Alive
<1>2. f \in Surjection(D, Wakeups(S))
  BY DEF Surjection, Wakeups
<1>3. Cardinality(Wakeups(S)) \in Nat
  BY <1>1, <1>2, FS_Surjection, FS_CardinalityType
<1>4. Wakeups(S) \subseteq Callback
  BY DEF Wakeups, Callback, Call, Alive
<1>5. /\ q \in [1 .. Cardinality(Wakeups(S)) -> Wakeups(S)]
      /\ \A i, j \in 1 .. Cardinality(Wakeups(S)) : i # j => q[i] # q[j]
  BY DEF SetToSeqs
<1>6. q \in Seq(Callback)
  BY <1>3, <1>4, <1>5, SeqDef
<1>7. 1 .. Len(q) = 1 .. Cardinality(Wakeups(S))
  BY <1>5, <1>6, LenProperties
<1> QED
  BY <1>5, <1>6, <1>7 DEF Wakeups

-----------------------------------------------------------------------------
(* The order of the callbacks                                              *)

\* A step that runs the first callback and queues neither a task nor an abort.
LEMMA RunKeepsOrder ==
  ASSUME RunsOnce, AbortsFirst, NEW q, Moves(1, q), id' = id,
         \A i \in 1 .. Len(q) : q[i].do \notin {"run", "abort"},
         \A c \in Alive : c \in Alive' \/ ready[1] = Call("run", c, 0),
         \A c \in Alive' \ hit' :
           /\ c \in Alive \ hit
           /\ stage'[c] = stage[c] \/ ready[1] = Call("run", c, 0)
  PROVE  RunsOnce' /\ AbortsFirst'
<1>1. \A i \in 1 .. Len(ready') : ready'[i].do \in {"run", "abort"} =>
        i + 1 \in 1 .. Len(ready) /\ ready'[i] = ready[i + 1]
  BY MovedQueue
<1>2. 1 \in 1 .. Len(ready) /\ Len(ready') \in Nat
  BY DEF Moves
<1>3. \A c : Call("run", c, 0).do = "run"
  BY DEF Call
<1>4. ASSUME NEW c \in Chats, Queued(c)' PROVE c \in Alive'
  <2>1. PICK i \in 1 .. Len(ready') : ready'[i] = Call("run", c, 0)
    BY <1>4 DEF Queued, Contains
  <2>2. i + 1 \in 1 .. Len(ready) /\ ready[i + 1] = Call("run", c, 0)
    BY <1>1, <1>3, <2>1
  <2>3. c \in Alive /\ ready[1] # Call("run", c, 0)
    BY <1>2, <1>3, <2>2 DEF RunsOnce, Queued, Contains
  <2> QED
    BY <2>3
<1>5. ASSUME NEW i \in 1 .. Len(ready'), NEW j \in 1 .. Len(ready'),
             ready'[i].do = "run", ready'[i] = ready'[j]
      PROVE  i = j
  <2>1. /\ i + 1 \in 1 .. Len(ready) /\ ready'[i] = ready[i + 1]
        /\ j + 1 \in 1 .. Len(ready) /\ ready'[j] = ready[j + 1]
    BY <1>1, <1>5
  <2>2. i + 1 = j + 1
    BY <1>5, <2>1 DEF RunsOnce
  <2> QED
    BY <2>2
<1>6. ASSUME NEW c \in Alive' \ hit', NEW i \in 1 .. Len(ready'),
             ready'[i].do = "abort", ready'[i].x = id[c]
      PROVE  /\ stage'[c] = "starting"
             /\ \A j \in 1 .. Len(ready') :
                  ready'[j] = Call("run", c, 0) => i < j
  <2>1. i + 1 \in 1 .. Len(ready) /\ ready'[i] = ready[i + 1] /\ c \in Alive \ hit
    BY <1>1, <1>6
  <2>2. /\ stage[c] = "starting"
        /\ \A j \in 1 .. Len(ready) : ready[j] = Call("run", c, 0) => i + 1 < j
    BY <1>6, <2>1 DEF AbortsFirst
  <2>3. ready[1] # Call("run", c, 0)
    BY <1>2, <2>2
  <2>4. \A j \in 1 .. Len(ready') : ready'[j] = Call("run", c, 0) =>
          j + 1 \in 1 .. Len(ready) /\ ready[j + 1] = Call("run", c, 0)
    BY <1>1, <1>3
  <2>5. \A j \in 1 .. Len(ready') : ready'[j] = Call("run", c, 0) => i + 1 < j + 1
    BY <2>2, <2>4
  <2> QED
    BY <1>2, <2>2, <2>3, <2>5
<1> QED
  BY <1>4, <1>5, <1>6 DEF RunsOnce, AbortsFirst

\* A step that queues tasks that were not queued, and an abort for chats that
\* are all known to be meant.
LEMMA QueueKeepsOrder ==
  ASSUME RunsOnce, AbortsFirst, NEW q, Moves(0, q), id' = id,
         \A i \in 1 .. Len(q) : q[i].do = "run" =>
           \E c \in Alive' : ~Queued(c) /\ q[i] = Call("run", c, 0),
         \A i, j \in 1 .. Len(q) : q[i].do = "run" /\ q[i] = q[j] => i = j,
         \A i \in 1 .. Len(q) : q[i].do = "abort" =>
           \A c \in Alive' \ hit' : id[c] # q[i].x,
         Alive \subseteq Alive',
         \A c \in Alive' \ hit' :
           \/ c \in Alive \ hit /\ stage'[c] = stage[c]
           \/ c \notin Alive /\ stage'[c] = "starting"
  PROVE  RunsOnce' /\ AbortsFirst'
<1>1. \A i \in 1 .. Len(ready') :
        \/ i \in 1 .. Len(ready) /\ ready'[i] = ready[i]
        \/ /\ i > Len(ready) /\ i - Len(ready) \in 1 .. Len(q)
           /\ ready'[i] = q[i - Len(ready)]
  <2> SUFFICES ASSUME NEW i \in 1 .. Len(ready')
               PROVE  \/ i \in 1 .. Len(ready) /\ ready'[i] = ready[i]
                      \/ /\ i > Len(ready) /\ i - Len(ready) \in 1 .. Len(q)
                         /\ ready'[i] = q[i - Len(ready)]
    OBVIOUS
  <2>1. Len(ready) \in Nat /\ Len(ready) - 0 = Len(ready) /\ i + 0 = i
    BY DEF Moves
  <2>2. \/ i \in 1 .. Len(ready) - 0 /\ ready'[i] = ready[i + 0]
        \/ /\ i - (Len(ready) - 0) \in 1 .. Len(q)
           /\ ready'[i] = q[i - (Len(ready) - 0)]
    BY MovedQueue
  <2> QED
    BY <2>1, <2>2
<1>2. Len(ready) \in Nat /\ Len(q) \in Nat
  BY DEF Moves
<1>3. \A c : Call("run", c, 0).do = "run" /\ Call("run", c, 0).x = c
  BY DEF Call
<1>4. ASSUME NEW c \in Chats, Queued(c)' PROVE c \in Alive'
  <2>1. PICK i \in 1 .. Len(ready') : ready'[i] = Call("run", c, 0)
    BY <1>4 DEF Queued, Contains
  <2>2. CASE i \in 1 .. Len(ready) /\ ready'[i] = ready[i]
    BY <2>1, <2>2 DEF RunsOnce, Queued, Contains
  <2>3. CASE i - Len(ready) \in 1 .. Len(q) /\ ready'[i] = q[i - Len(ready)]
    BY <1>3, <2>1, <2>3
  <2> QED
    BY <1>1, <2>2, <2>3
<1>5. ASSUME NEW i \in 1 .. Len(ready'), NEW j \in 1 .. Len(ready'),
             ready'[i].do = "run", ready'[i] = ready'[j]
      PROVE  i = j
  <2>1. ASSUME NEW k \in 1 .. Len(ready), NEW l \in 1 .. Len(q),
               q[l].do = "run", ready[k] = q[l]
        PROVE  FALSE
    BY <2>1 DEF Queued, Contains
  <2>2. CASE /\ i \in 1 .. Len(ready) /\ ready'[i] = ready[i]
             /\ j \in 1 .. Len(ready) /\ ready'[j] = ready[j]
    BY <1>5, <2>2 DEF RunsOnce
  <2>3. CASE /\ i - Len(ready) \in 1 .. Len(q) /\ ready'[i] = q[i - Len(ready)]
             /\ j - Len(ready) \in 1 .. Len(q) /\ ready'[j] = q[j - Len(ready)]
    <3>1. i - Len(ready) = j - Len(ready)
      BY <1>5, <2>3
    <3> QED
      BY <1>2, <3>1
  <2> QED
    BY <1>1, <1>5, <2>1, <2>2, <2>3
<1>6. ASSUME NEW c \in Alive' \ hit', NEW i \in 1 .. Len(ready'),
             ready'[i].do = "abort", ready'[i].x = id[c]
      PROVE  /\ stage'[c] = "starting"
             /\ \A j \in 1 .. Len(ready') :
                  ready'[j] = Call("run", c, 0) => i < j
  <2>1. i \in 1 .. Len(ready) /\ ready'[i] = ready[i]
    BY <1>1, <1>6, SMTT(30)
  <2>2. ASSUME NEW j \in 1 .. Len(ready), ready[j] = Call("run", c, 0)
        PROVE  c \in Alive
    BY <2>2 DEF RunsOnce, Queued, Contains, Alive
  <2>3. c \in Alive => /\ stage[c] = "starting" /\ stage'[c] = stage[c]
                       /\ \A j \in 1 .. Len(ready) :
                            ready[j] = Call("run", c, 0) => i < j
    BY <1>6, <2>1 DEF AbortsFirst
  <2>4. ASSUME NEW j \in 1 .. Len(ready'), ready'[j] = Call("run", c, 0)
        PROVE  i < j
    <3>1. CASE j \in 1 .. Len(ready) /\ ready'[j] = ready[j]
      BY <2>2, <2>3, <2>4, <3>1
    <3>2. CASE j > Len(ready)
      BY <1>2, <2>1, <3>2
    <3> QED
      BY <1>1, <3>1, <3>2
  <2> QED
    BY <2>3, <2>4
<1> QED
  BY <1>4, <1>5, <1>6 DEF RunsOnce, AbortsFirst

-----------------------------------------------------------------------------
(* The steps of a chat, by what they do to the queue and to the requests   *)

\* The request is forgotten, if there is one.
Leaves(c) ==
  IF stage[c] \in Holding THEN Forget(id[c], using[c]) ELSE UNCHANGED requests

Quits(c) == End(c, <<>>) /\ Leaves(c)
QuitsAtYield(c) == stage[c] \in Holding /\ EndAtYield(c)
GoesOn(c) ==
  /\ stage[c] \in Holding
  /\ \E s \in Holding : Suspend(c, s)
  /\ \A d \in Chats \ {c} : finish'[d] = finish[d]
  /\ UNCHANGED <<requests, using>>
Errs(c) ==
  /\ Suspend(c, "reporting") /\ Leaves(c)
  /\ finish' = [finish EXCEPT ![c] = "error"]
  /\ UNCHANGED using
Waits(c) ==
  /\ stage[c] \notin Holding /\ Suspend(c, "waiting")
  /\ UNCHANGED <<requests, stream>>

\* A chat that ends without a last chunk was cancelled, has no connection any
\* more, or its id is to be aborted.
MayEnd(c) ==
  \/ finish[c] # "none" \/ c \in cancelled \cup dead
  \/ stage[c] \in Holding /\ id[c] \in aborted[using[c]]

LEMMA SendShape ==
  ASSUME Streams, NEW c \in Chats, NEW n, NEW reason, Send(c, n, reason),
         stage[c] \in Holding
  PROVE  (QuitsAtYield(c) /\ c \in dead) \/ GoesOn(c)
BY DEF Send, Yield, QuitsAtYield, GoesOn, Streams

LEMMA ErrorShape ==
  ASSUME NEW c \in Chats, ReportError(c), Leaves(c)
  PROVE  (Quits(c) /\ c \in dead) \/ Errs(c)
BY DEF ReportError, Quits, Errs

LEMMA ChatFrame ==
  ASSUME NEW c \in Chats, ChatStep(c)
  PROVE  /\ Runs(c) /\ UNCHANGED <<outside, loop, tasks, mock>>
         /\ StartStream(c) \/ UNCHANGED object
         /\ faults' = faults \/ Fail
BY DEF ChatStep, Cancelled, WaitForLock, FailLoad, StartStream, Start, Output,
       MockOutput, EngineFails, Sent, Reported, Resume, Send, Yield, ReportError,
       EndWithGenerator, EndAtYield, End, Suspend, Proceeds, outside, object

LEMMA ChatShape ==
  ASSUME Streams, \A d \in Chats : stage[d] = "reporting" => finish[d] = "error",
         NEW c \in Chats, ChatStep(c)
  PROVE  \/ (Quits(c) \/ QuitsAtYield(c)) /\ MayEnd(c)
         \/ StartStream(c) \/ GoesOn(c) \/ Errs(c) \/ Waits(c)
<1> USE DEF MayEnd
<1>1. CASE Cancelled(c)
  BY <1>1 DEF Cancelled, EndWithGenerator, Leaves, Quits, QuitsAtYield
<1>2. CASE WaitForLock(c)
  BY <1>2 DEF WaitForLock, Waits
<1>3. CASE FailLoad(c)
  BY <1>3, ErrorShape DEF FailLoad, Leaves
<1>4. CASE Output(c)
  <2>1. CASE EndWithGenerator(c) /\ Asked(c)
    BY <1>4, <2>1 DEF Output, EndWithGenerator, Asked, Leaves, Quits
  <2>2. CASE \E n, reason : Send(c, n, reason)
    BY <1>4, <2>2, SendShape DEF Output
  <2> QED
    BY <1>4, <2>1, <2>2 DEF Output
<1>5. CASE MockOutput(c)
  BY <1>5, SendShape DEF MockOutput
<1>6. CASE EngineFails(c)
  BY <1>6, ErrorShape DEF EngineFails, Leaves
<1>7. CASE Sent(c)
  <2>1. CASE c \in dead
    BY <1>7, <2>1 DEF Sent, QuitsAtYield
  <2>2. CASE EndWithGenerator(c) /\ (finish[c] = "stop" \/ Asked(c))
    BY <1>7, <2>2 DEF Sent, EndWithGenerator, Asked, Leaves, Quits
  <2>3. CASE Send(c, TextLength, "stop")
    BY <1>7, <2>3, SendShape DEF Sent
  <2>4. CASE Suspend(c, "generating") /\ UNCHANGED <<stream, requests>>
    BY <1>7, <2>4 DEF Sent, GoesOn, stream
  <2> QED
    BY <1>7, <2>1, <2>2, <2>3, <2>4 DEF Sent, Resume
<1>8. CASE Reported(c)
  BY <1>8 DEF Reported, Quits, Leaves
<1> QED
  BY <1>1, <1>2, <1>3, <1>4, <1>5, <1>6, <1>7, <1>8 DEF ChatStep

\* The end of a task and its done callback, behind what it has left.
LEMMA EndMoves ==
  ASSUME ready \in Seq(Callback), id \in [Chats -> Ids], NEW c \in Chats, Runs(c),
         NEW left, left = <<>> \/ \E m \in Callback : left = <<m>>,
         End(c, left)
  PROVE  /\ ready' \in Seq(Callback) /\ ready[1] = Call("run", c, 0)
         /\ Contains(ready', Call("pop", id[c], 0))
         /\ \A m : left = <<m>> => Contains(ready', m)
         /\ \E q : /\ Moves(1, q)
                   /\ \A i \in 1 .. Len(q) :
                        q[i].do = "pop" \/ \E m : left = <<m>> /\ q[i] = m
<1> DEFINE q(p) == left \o <<p>>
<1>1. PICK p \in Callback : p = Call("pop", id[c], 0)
  BY DEF Callback, Call
<1>2. left \in Seq(Callback) /\ Len(left) \in {0, 1} /\ <<p>> \in Seq(Callback)
  <2>1. CASE left = <<>>
    BY <2>1, EmptySeq
  <2>2. CASE \E m \in Callback : left = <<m>>
    BY <2>2
  <2> QED
    BY <2>1, <2>2
<1>3. /\ q(p) \in Seq(Callback) /\ Len(q(p)) = Len(left) + 1
      /\ \A i \in 1 .. Len(left) + 1 :
           q(p)[i] = IF i <= Len(left) THEN left[i] ELSE <<p>>[i - Len(left)]
  BY <1>2, ConcatProperties
<1>4. Tail(ready) \in Seq(Callback) /\ ready # <<>>
  BY HeadTailProperties DEF Runs
<1>5. ready' = Tail(ready) \o q(p)
  BY <1>1, <1>2, <1>4, ConcatAssociative DEF End
<1>6. Moves(1, q(p)) /\ ready' \in Seq(Callback) /\ ready[1] = Call("run", c, 0)
  BY <1>3, <1>4, <1>5, TailMoves DEF Runs
<1>7. /\ q(p)[Len(left) + 1] = p
      /\ \A i \in 1 .. Len(left) : q(p)[i] = left[i]
  BY <1>2, <1>3
<1>8. Contains(ready', p) /\ \A i \in 1 .. Len(left) : Contains(ready', left[i])
  <2>1. \A i \in 1 .. Len(q(p)) : Contains(ready', q(p)[i])
    <3> HIDE DEF q
    <3> QED
      BY <1>6, IsQueued
  <2> QED
    BY <1>2, <1>3, <1>7, <2>1
<1>9. \A i \in 1 .. Len(q(p)) :
        q(p)[i].do = "pop" \/ \E m : left = <<m>> /\ q(p)[i] = m
  BY <1>1, <1>2, <1>3, <1>7 DEF Call
<1>10. /\ Contains(ready', Call("pop", id[c], 0))
       /\ \A m : left = <<m>> => Contains(ready', m)
  <2> HIDE DEF q
  <2>1. ASSUME NEW m, left = <<m>> PROVE Contains(ready', m)
    <3>1. 1 \in 1 .. Len(left) /\ left[1] = m
      BY <2>1
    <3> QED
      BY <1>8, <3>1
  <2> QED
    BY <1>1, <1>8, <2>1
<1>11. \E r : /\ Moves(1, r)
              /\ \A i \in 1 .. Len(r) :
                   r[i].do = "pop" \/ \E m : left = <<m>> /\ r[i] = m
  <2> HIDE DEF q
  <2> WITNESS q(p)
  <2> QED
    BY <1>6, <1>9
<1> QED
  BY <1>6, <1>10, <1>11

\* A cancellation queues what sleeps, then what its caller adds.
LEMMA CancelMoves ==
  ASSUME ready \in Seq(Callback), NEW S, NEW next,
         next = <<>> \/ \E m \in Callback : m.do = "abort" /\ next = <<m>>,
         CancelAll(S, next)
  PROVE  /\ ready' \in Seq(Callback)
         /\ \E q : /\ Moves(0, q)
                   /\ \A i \in 1 .. Len(q) :
                        \/ /\ q[i].do = "run"
                           /\ \E c \in S \cap Alive :
                                ~Queued(c) /\ q[i] = Call("run", c, 0)
                        \/ q[i].do = "abort" /\ next = <<q[i]>>
                   /\ \A i, j \in 1 .. Len(q) :
                        q[i].do = "run" /\ q[i] = q[j] => i = j
<1>1. PICK w \in SetToSeqs(Wakeups(S)) : ready' = ready \o w \o next
  BY DEF CancelAll
<1>2. /\ w \in Seq(Callback)
      /\ \A i \in 1 .. Len(w) :
           \E c \in S \cap Alive : ~Queued(c) /\ w[i] = Call("run", c, 0)
      /\ \A i, j \in 1 .. Len(w) : w[i] = w[j] => i = j
  BY WakeupList
<1>3. next \in Seq(Callback) /\ Len(next) \in {0, 1}
  <2>1. CASE next = <<>>
    BY <2>1, EmptySeq
  <2>2. CASE \E m \in Callback : next = <<m>>
    BY <2>2
  <2> QED
    BY <2>1, <2>2
<1>4. /\ w \o next \in Seq(Callback) /\ Len(w \o next) = Len(w) + Len(next)
      /\ \A i \in 1 .. Len(w) + Len(next) :
           (w \o next)[i] = IF i <= Len(w) THEN w[i] ELSE next[i - Len(w)]
      /\ Len(w) \in Nat
  BY <1>2, <1>3, ConcatProperties, LenProperties
<1>5. PICK q \in Seq(Callback) : q = w \o next
  BY <1>4
<1>6. ready' = ready \o q
  BY <1>1, <1>2, <1>3, <1>5, ConcatAssociative, SMTT(30)
<1>7. \A i \in 1 .. Len(q) : \/ i \in 1 .. Len(w) /\ q[i] = w[i]
                             \/ i = Len(w) + 1 /\ next = <<q[i]>>
  BY <1>3, <1>4, <1>5
<1>8. \A i \in 1 .. Len(q) :
        \/ /\ i \in 1 .. Len(w) /\ q[i] = w[i] /\ q[i].do = "run"
           /\ \E c \in S \cap Alive : ~Queued(c) /\ q[i] = Call("run", c, 0)
        \/ q[i].do = "abort" /\ next = <<q[i]>>
  <2>1. \A m : next = <<m>> => m.do = "abort"
    OBVIOUS
  <2>2. \A c : Call("run", c, 0).do = "run"
    BY DEF Call
  <2>3. \A i \in 1 .. Len(w) : w[i].do = "run"
    BY <1>2, <2>2
  <2> HIDE DEF CancelAll
  <2> QED
    BY <1>2, <1>7, <2>1, <2>3
<1>9. \A i, j \in 1 .. Len(q) : q[i].do = "run" /\ q[i] = q[j] => i = j
  BY <1>2, <1>8
<1> QED
  BY <1>6, <1>8, <1>9, ConcatMoves

LEMMA StillMoves ==
  ASSUME ready \in Seq(Callback), ready' = ready
  PROVE  Moves(0, <<>>) /\ Len(<<>>) = 0
BY ConcatMoves, ConcatEmptySeq, EmptySeq

\* The chat that runs is alive.
LEMMA RunnerIsAlive ==
  ASSUME ready \in Seq(Callback), RunsOnce, NEW c \in Chats, Runs(c)
  PROVE  c \in Alive /\ ready[1] = Call("run", c, 0)
<1>1. 1 \in 1 .. Len(ready) /\ ready[1] = Call("run", c, 0)
  BY LenProperties, EmptySeq DEF Runs
<1> QED
  BY <1>1 DEF RunsOnce, Queued, Contains

\* What a suspension does to the queue.
LEMMA SuspendMoves ==
  ASSUME ready \in Seq(Callback), NEW c \in Chats, Runs(c), NEW s, Suspend(c, s)
  PROVE  /\ ready' \in Seq(Callback) /\ ready[1] = Call("run", c, 0)
         /\ Moves(1, <<>>) /\ Len(<<>>) = 0
BY TailOnlyMoves, EmptySeq DEF Suspend, Runs

\* The hook queues the task that closes the generator.
LEMMA HookMoves ==
  ASSUME ready \in Seq(Callback), FinalizeGenerator
  PROVE  /\ ready' \in Seq(Callback) /\ Head(ready) = ready[1]
         /\ \E m \in Callback :
              /\ m = [Head(ready) EXCEPT !.do = "close"]
              /\ Head(ready) = Call("hook", m.x, m.on)
              /\ m = Call("close", m.x, m.on)
              /\ Moves(1, <<m>>) /\ Contains(ready', m)
              /\ \A i \in 1 .. Len(<<m>>) : <<m>>[i].do \notin {"run", "abort"}
<1>1. ready # <<>> /\ Head(ready) \in Callback /\ Head(ready).do = "hook"
  BY HeadTailProperties DEF FinalizeGenerator, First
<1>2. PICK m \in Callback : /\ m = [Head(ready) EXCEPT !.do = "close"]
                            /\ m = Call("close", m.x, m.on)
                            /\ Head(ready) = Call("hook", m.x, m.on)
  <2>1. [Head(ready) EXCEPT !.do = "close"] \in Callback
    BY <1>1 DEF Callback
  <2> QED
    BY <1>1, <2>1 DEF Callback, Call
<1>3. Tail(ready) \in Seq(Callback) /\ <<m>> \in Seq(Callback)
  BY <1>1, HeadTailProperties
<1>4. ready' = Tail(ready) \o <<m>>
  <2>1. ready' = Append(Tail(ready), m)
    BY <1>2 DEF FinalizeGenerator
  <2> QED
    BY <1>3, <2>1, AppendIsConcat
<1>5. Moves(1, <<m>>) /\ ready' \in Seq(Callback) /\ Head(ready) = ready[1]
  BY <1>1, <1>3, <1>4, TailMoves
<1>6. Contains(ready', <<m>>[1])
  <2>1. 1 \in 1 .. Len(<<m>>)
    OBVIOUS
  <2> QED
    BY <1>5, <2>1, IsQueued
<1>7. \A i \in 1 .. Len(<<m>>) : <<m>>[i].do \notin {"run", "abort"}
  <2>1. m.do = "close"
    BY <1>2 DEF Call
  <2>2. \A i \in 1 .. Len(<<m>>) : <<m>>[i] = m
    OBVIOUS
  <2> QED
    BY <2>1, <2>2
<1>8. <<m>>[1] = m
  OBVIOUS
<1> HIDE DEF FinalizeGenerator
<1> QED
  BY <1>2, <1>5, <1>6, <1>7, <1>8, Zenon

-----------------------------------------------------------------------------
(* The inductive invariant                                                 *)

\* TypeOK in the form in which the provers read it.
Typed ==
  /\ id \in [Chats -> Ids]
  /\ stage \in [Chats -> Stages]
  /\ cancelled \subseteq Alive /\ hit \subseteq Alive
  /\ dead \subseteq Chats /\ silent \subseteq Chats
  /\ tasks \in [Ids -> Chats \cup {None}]
  /\ ready \in Seq(Callback) /\ inbox \in Seq(Message)
  /\ loop \in Places /\ mock \in BOOLEAN /\ running \in BOOLEAN
  /\ current \in Nat /\ made \in Nat
  /\ active \in [Engines -> SUBSET Ids] /\ aborted \in [Engines -> SUBSET Ids]
  /\ using \in [Chats -> {0} \cup Engines]
  /\ aborts \in 0 .. MaxAborts /\ unloads \in 0 .. MaxUnloads
  /\ faults \in 0 .. MaxFaults

IInv ==
  /\ Typed /\ Streams /\ Posted
  /\ EnginesCounted /\ RunsOnce /\ Registered /\ Requested
  /\ AbortsFirst /\ Meant /\ NoStrayAbort

LEMMA ChatKeepsOrder ==
  ASSUME IInv, NEW c \in Chats, ChatStep(c)
  PROVE  RunsOnce' /\ AbortsFirst'
<1> USE DEF IInv
<1>1. /\ Runs(c) /\ c \in Alive /\ ready[1] = Call("run", c, 0) /\ id' = id
  BY ChatFrame, RunnerIsAlive DEF Typed, outside
<1>2. ASSUME NEW left, End(c, left),
             left = <<>> \/ \E m \in Callback : m.do = "hook" /\ left = <<m>>
      PROVE  RunsOnce' /\ AbortsFirst'
  <2>1. PICK q : /\ Moves(1, q)
                 /\ \A i \in 1 .. Len(q) :
                      q[i].do = "pop" \/ \E m : left = <<m>> /\ q[i] = m
    <3>1. /\ ready \in Seq(Callback) /\ id \in [Chats -> Ids]
          /\ left = <<>> \/ \E m \in Callback : left = <<m>>
      BY <1>2 DEF Typed
    <3> HIDE DEF IInv
    <3> QED
      BY <1>1, <1>2, <3>1, EndMoves
  <2>2. \A i \in 1 .. Len(q) : q[i].do \notin {"run", "abort"}
    BY <1>2, <2>1, SMTT(30)
  <2>3. /\ \A d \in Alive : d \in Alive' \/ d = c
        /\ \A d \in Alive' \ hit' : d \in Alive \ hit /\ stage'[d] = stage[d]
    BY <1>2 DEF End, Alive, Typed
  <2> QED
    BY <1>1, <2>1, <2>2, <2>3, RunKeepsOrder
<1>3. ASSUME NEW s \in Stages \ {"new", "posted", "over"}, Suspend(c, s)
      PROVE  RunsOnce' /\ AbortsFirst'
  <2>1. Moves(1, <<>>) /\ Len(<<>>) = 0
    BY <1>1, <1>3, SuspendMoves DEF Typed
  <2>2. /\ \A d \in Alive : d \in Alive'
        /\ \A d \in Alive' \ hit' :
             d \in Alive \ hit /\ (stage'[d] = stage[d] \/ d = c)
    BY <1>1, <1>3 DEF Suspend, Alive, Typed
  <2>3. \A i \in 1 .. Len(<<>>) : <<>>[i].do \notin {"run", "abort"}
    BY <2>1
  <2> QED
    BY <1>1, <2>1, <2>2, <2>3, RunKeepsOrder
<1>4. CASE Quits(c)
  BY <1>2, <1>4 DEF Quits
<1>5. CASE QuitsAtYield(c)
  <2>1. Call("hook", id[c], using[c]) \in Callback
    BY <1>5 DEF QuitsAtYield, Typed, Meant, Holders, Callback, Call
  <2> QED
    BY <1>2, <1>5, <2>1 DEF QuitsAtYield, EndAtYield, Call
<1> QED
  BY <1>3, <1>4, <1>5, ChatShape
     DEF Meant, StartStream, Start, GoesOn, Errs, Waits

LEMMA CallbackKeepsOrder ==
  ASSUME IInv, AbortRequest \/ FinalizeGenerator \/ CloseGenerator \/ PopTask
  PROVE  RunsOnce' /\ AbortsFirst'
<1> USE DEF IInv
<1>1. ready # <<>> /\ UNCHANGED <<id, stage, hit>> /\ Alive' = Alive
  BY DEF AbortRequest, FinalizeGenerator, CloseGenerator, PopTask, First,
         others, outside, fate, Alive
<1>2. CASE ready' = Tail(ready)
  <2>1. Moves(1, <<>>) /\ \A i \in 1 .. Len(<<>>) : <<>>[i].do \notin {"run", "abort"}
    BY <1>1, <1>2, TailOnlyMoves, EmptySeq DEF Typed
  <2> QED
    BY <1>1, <2>1, RunKeepsOrder
<1>3. CASE FinalizeGenerator
  BY <1>1, <1>3, HookMoves, RunKeepsOrder DEF Typed
<1> QED
  BY <1>2, <1>3 DEF AbortRequest, CloseGenerator, PopTask

\* A task that is queued when it is not, and not over.
LEMMA QueueOneKeepsOrder ==
  ASSUME IInv, NEW c \in Chats, c \in Alive', ~Queued(c), id' = id, hit' = hit,
         ready' = Append(ready, Call("run", c, 0)),
         \/ stage' = stage
         \/ c \notin Alive /\ stage' = [stage EXCEPT ![c] = "starting"]
  PROVE  RunsOnce' /\ AbortsFirst'
<1> DEFINE m == Call("run", c, 0)
<1>1. m \in Callback /\ m.do = "run"
  BY DEF Callback, Call
<1>2. Moves(0, <<m>>)
  BY <1>1, AppendMoves DEF IInv, Typed
<1>3. \A i \in 1 .. Len(<<m>>) : i = 1 /\ <<m>>[i] = m
  OBVIOUS
<1>4. /\ Alive \subseteq Alive'
      /\ \A d \in Alive' \ hit' :
           \/ d \in Alive \ hit /\ stage'[d] = stage[d]
           \/ d \notin Alive /\ stage'[d] = "starting"
  BY DEF IInv, Typed, Alive
<1> HIDE DEF m
<1>5. /\ \A i \in 1 .. Len(<<m>>) : <<m>>[i].do = "run" =>
           \E d \in Alive' : ~Queued(d) /\ <<m>>[i] = Call("run", d, 0)
      /\ \A i, j \in 1 .. Len(<<m>>) :
           <<m>>[i].do = "run" /\ <<m>>[i] = <<m>>[j] => i = j
      /\ \A i \in 1 .. Len(<<m>>) : <<m>>[i].do = "abort" =>
           \A d \in Alive' \ hit' : id[d] # <<m>>[i].x
  BY <1>1, <1>3 DEF m
<1> QED
  BY <1>2, <1>4, <1>5, QueueKeepsOrder DEF IInv

\* A cancellation of registered tasks, all of which are known to be meant.
LEMMA CancelKeepsOrder ==
  ASSUME IInv, NEW S, NEW next, CancelAll(S, next), id' = id, Alive' = Alive,
         \A c \in Alive : stage'[c] = stage[c],
         hit \subseteq hit',
         \/ next = <<>>
         \/ \E m \in Callback : /\ m.do = "abort" /\ next = <<m>>
                                /\ \A c \in Alive \ hit' : id[c] # m.x
  PROVE  RunsOnce' /\ AbortsFirst'
<1>1. next = <<>> \/ \E m \in Callback : m.do = "abort" /\ next = <<m>>
  OBVIOUS
<1>2. PICK q : /\ Moves(0, q)
               /\ \A i \in 1 .. Len(q) :
                    \/ /\ q[i].do = "run"
                       /\ \E c \in S \cap Alive :
                            ~Queued(c) /\ q[i] = Call("run", c, 0)
                    \/ q[i].do = "abort" /\ next = <<q[i]>>
               /\ \A i, j \in 1 .. Len(q) : q[i].do = "run" /\ q[i] = q[j] => i = j
  <2>1. ready \in Seq(Callback)
    BY DEF IInv, Typed
  <2> QED
    BY <1>1, <2>1, CancelMoves
<1>3. \A i \in 1 .. Len(q) : q[i].do = "abort" =>
        \A c \in Alive' \ hit' : id[c] # q[i].x
  <2>1. \A m : next = <<m>> => \A c \in Alive \ hit' : id[c] # m.x
    OBVIOUS
  <2> HIDE DEF CancelAll
  <2> QED
    BY <1>2, <2>1
<1>4. \A c \in Alive' \ hit' : c \in Alive \ hit /\ stage'[c] = stage[c]
  OBVIOUS
<1> QED
  BY <1>2, <1>3, <1>4, QueueKeepsOrder DEF IInv

\* A step that leaves the queue and the living chats as they are.
LEMMA StillKeepsOrder ==
  ASSUME IInv, UNCHANGED <<ready, id, hit>>, Alive' = Alive,
         \A c \in Alive : stage'[c] = stage[c]
  PROVE  RunsOnce' /\ AbortsFirst'
BY DEF IInv, RunsOnce, AbortsFirst, Queued, Alive

\* The chats that a disconnection ends were not alive.
LEMMA DisconnectKeepsAlive ==
  ASSUME Typed, Disconnect
  PROVE  /\ Alive' = Alive /\ \A c \in Alive : stage'[c] = stage[c]
         /\ stage' \in [Chats -> Stages]
BY DEF Disconnect, Alive, Typed

-----------------------------------------------------------------------------
(* The engines that are made                                               *)

LEMMA PendingFinite ==
  ASSUME NEW s \in Seq(Message)
  PROVE  IsFiniteSet(Pending(s)) /\ Cardinality(Pending(s)) \in Nat
<1>1. IsFiniteSet(1 .. Len(s))
  BY LenProperties, FS_Interval
<1>2. Pending(s) \subseteq 1 .. Len(s)
  BY DEF Pending
<1> QED
  BY <1>1, <1>2, FS_Subset, FS_CardinalityType

LEMMA PendingEmpty == Cardinality(Pending(<<>>)) = 0
<1>1. Pending(<<>>) = {}
  BY EmptySeq DEF Pending
<1> QED
  BY <1>1, FS_EmptySet

LEMMA PendingAppend ==
  ASSUME NEW s \in Seq(Message), NEW m \in Message
  PROVE  Cardinality(Pending(Append(s, m)))
           <= Cardinality(Pending(s)) + One(m.kind = "unload")
<1> DEFINE k == Len(s) + 1
<1>1. /\ Len(Append(s, m)) = k /\ Len(s) \in Nat /\ Append(s, m)[k] = m
      /\ \A i \in 1 .. Len(s) : Append(s, m)[i] = s[i]
  BY AppendProperties, LenProperties
<1>2. Pending(Append(s, m)) =
        IF m.kind = "unload" THEN Pending(s) \cup {k} ELSE Pending(s)
  <2>1. \A i : i \in 1 .. Len(Append(s, m)) <=> i \in 1 .. Len(s) \/ i = k
    BY <1>1
  <2>2. \A i : i \in Pending(Append(s, m))
                 <=> i \in Pending(s) \/ (i = k /\ m.kind = "unload")
    BY <1>1, <2>1 DEF Pending
  <2> QED
    BY <2>2
<1>3. Cardinality(Pending(s) \cup {k})
        \in {Cardinality(Pending(s)), Cardinality(Pending(s)) + 1}
  <2> HIDE DEF k
  <2> QED
    BY PendingFinite, FS_AddElement
<1> QED
  BY <1>2, <1>3, PendingFinite DEF One

LEMMA PendingTail ==
  ASSUME NEW s \in Seq(Message), s # <<>>
  PROVE  Cardinality(Pending(Tail(s))) + One(Head(s).kind = "unload")
           <= Cardinality(Pending(s))
<1> DEFINE T == Pending(s) \ {1}
           f == [i \in Pending(Tail(s)) |-> i + 1]
<1>1. /\ Len(Tail(s)) = Len(s) - 1 /\ Len(s) \in Nat /\ Len(s) # 0
      /\ \A i \in 1 .. Len(s) - 1 : Tail(s)[i] = s[i + 1]
      /\ Head(s) = s[1] /\ Tail(s) \in Seq(Message)
  BY HeadTailProperties, LenProperties, EmptySeq
<1>2. f \in Injection(Pending(Tail(s)), T)
  <2>1. ASSUME NEW i \in Pending(Tail(s)) PROVE i + 1 \in T
    BY <1>1, <2>1 DEF Pending
  <2>2. \A i \in Pending(Tail(s)) : i \in Nat
    BY <1>1 DEF Pending
  <2> QED
    BY <2>1, <2>2 DEF Injection, IsInjective
<1>3. /\ IsFiniteSet(T)
      /\ Cardinality(T) =
           IF 1 \in Pending(s) THEN Cardinality(Pending(s)) - 1
                               ELSE Cardinality(Pending(s))
  BY PendingFinite, FS_RemoveElement
<1>4. Cardinality(Pending(Tail(s))) <= Cardinality(T)
  BY <1>2, <1>3, FS_Injection
<1>5. 1 \in Pending(s) <=> Head(s).kind = "unload"
  BY <1>1 DEF Pending
<1>6. Cardinality(Pending(Tail(s))) \in Nat /\ Cardinality(Pending(s)) \in Nat
  BY <1>1, PendingFinite
<1> HIDE DEF T
<1> QED
  BY <1>3, <1>4, <1>5, <1>6 DEF One

\* The current engine, and the next one to be made, are among Engines.
LEMMA EnginesExist ==
  ASSUME Typed, EnginesCounted
  PROVE  /\ current # 0 => current \in Engines
         /\ current = 0 => made + 1 \in Engines
<1>1. Cardinality(Pending(inbox)) \in Nat
  BY PendingFinite DEF Typed
<1>2. unloads \in Nat /\ unloads <= MaxUnloads /\ MaxUnloads \in Nat
  BY ChatAssumption DEF Typed
<1> QED
  BY <1>1, <1>2 DEF Typed, EnginesCounted, One, Engines

\* The abort of an engine that is loaded.
LEMMA AbortIsCallback ==
  ASSUME Typed, EnginesCounted, Posted, ChatAbort
  PROVE  LET r == Head(inbox).x IN
         /\ r \in Ids
         /\ current # 0 => /\ Call("abort", r, current) \in Callback
                           /\ Call("abort", r, current).do = "abort"
                           /\ Call("abort", r, current).x = r
<1>1. Head(inbox) \in Message /\ Head(inbox).kind = "abort"
  BY HeadTailProperties DEF ChatAbort, Arrived, Typed
<1>2. Head(inbox).x \in Ids
  BY <1>1 DEF Message
<1>3. current # 0 => current \in Engines
  BY EnginesExist
<1> QED
  BY <1>2, <1>3 DEF Callback, Call

LEMMA NextKeepsOrder ==
  ASSUME IInv, [Next]_vars
  PROVE  RunsOnce' /\ AbortsFirst'
<1> USE DEF IInv
<1>1. id' = id
  BY NextKeepsIds
<1>2. ASSUME NEW c \in Chats, Wake(c) PROVE RunsOnce' /\ AbortsFirst'
  <2>1. c \in Alive' /\ ~Queued(c) /\ stage' = stage /\ hit' = hit
        /\ ready' = Append(ready, Call("run", c, 0))
    BY <1>2 DEF Wake, Alive, others, fate, Typed
  <2> QED
    BY <1>1, <2>1, QueueOneKeepsOrder
<1>3. CASE ChatCompletion
  <2> DEFINE c == Head(inbox).x
  <2>1. c \in Chats /\ stage[c] = "posted"
    <3>1. inbox # <<>> /\ Head(inbox).kind = "chat"
      BY <1>3 DEF ChatCompletion, Arrived
    <3>2. Head(inbox) \in Message /\ 1 \in 1 .. Len(inbox) /\ Head(inbox) = inbox[1]
      BY <3>1, HeadTailProperties, LenProperties, EmptySeq DEF Typed
    <3> QED
      BY <3>1, <3>2 DEF Message, Posted, IsChat
  <2>2. c \notin Alive /\ ~Queued(c)
    BY <2>1 DEF Alive, RunsOnce
  <2>3. /\ stage' = [stage EXCEPT ![c] = "starting"] /\ hit' = hit
        /\ ready' = Append(ready, Call("run", c, 0))
    BY <1>3 DEF ChatCompletion
  <2>4. c \in Alive'
    BY <2>1, <2>3 DEF Alive, Typed
  <2> QED
    BY <1>1, <2>1, <2>2, <2>3, <2>4, QueueOneKeepsOrder
<1>4. CASE ChatAbort
  <2> DEFINE r == Head(inbox).x
             next == IF current = 0 THEN <<>> ELSE <<Call("abort", r, current)>>
  <2>1. /\ CancelAll({tasks[r]}, next) /\ stage' = stage
        /\ hit' = hit \cup {c \in Alive : id[c] = r}
    BY <1>4 DEF ChatAbort
  <2>2. Alive' = Alive
    BY <2>1 DEF Alive
  <2>3. \/ next = <<>>
        \/ \E m \in Callback : /\ m.do = "abort" /\ next = <<m>>
                               /\ \A c \in Alive \ hit' : id[c] # m.x
    <3>1. CASE current # 0
      <4>1. PICK m \in Callback : m = Call("abort", r, current)
        BY <1>4, <3>1, AbortIsCallback
      <4>2. m.do = "abort" /\ m.x = r /\ next = <<m>>
        BY <3>1, <4>1 DEF Call
      <4> QED
        BY <2>1, <4>2
    <3> QED
      BY <3>1
  <2> QED
    BY <1>1, <2>1, <2>2, <2>3, CancelKeepsOrder
<1>5. CASE Stop
  <2>1. /\ CancelAll({tasks[r] : r \in Ids}, <<>>) /\ Disconnect
        /\ hit \subseteq hit'
    BY <1>5 DEF Stop
  <2> QED
    BY <1>1, <2>1, DisconnectKeepsAlive, CancelKeepsOrder
<1>6. CASE Break
  BY <1>1, <1>6, DisconnectKeepsAlive, StillKeepsOrder DEF Break
<1>7. ASSUME NEW c \in Chats, PostChat(c) PROVE RunsOnce' /\ AbortsFirst'
  <2>1. /\ UNCHANGED <<ready, hit>> /\ Alive' = Alive
        /\ \A d \in Alive : stage'[d] = stage[d]
    BY <1>7 DEF PostChat, Post, Alive, Typed, fate
  <2> QED
    BY <1>1, <2>1, StillKeepsOrder
<1>8. ASSUME UNCHANGED <<stage, ready, hit>> PROVE RunsOnce' /\ AbortsFirst'
  BY <1>1, <1>8, StillKeepsOrder DEF Alive
<1>9. ASSUME \/ (\E c \in Chats : PostAbort(c)) \/ PostUnload \/ UnloadModel
             \/ Drained \/ StatusSent \/ UNCHANGED vars
      PROVE  RunsOnce' /\ AbortsFirst'
  BY <1>8, <1>9 DEF PostAbort, PostUnload, Post, UnloadModel, Drained, StatusSent,
                    vars,
                    others, fate
<1> QED
  BY <1>2, <1>3, <1>4, <1>5, <1>6, <1>7, <1>9, ChatKeepsOrder, CallbackKeepsOrder
     DEF Next, RunNext, HandleMessage

LEMMA NextKeepsCount ==
  ASSUME IInv, [Next]_vars
  PROVE  EnginesCounted'
<1> DEFINE P == Cardinality(Pending(inbox))
<1>1. /\ P \in Nat /\ current \in Nat /\ made \in Nat /\ unloads \in Nat
      /\ current <= made
      /\ made + One(current = 0) + One(loop = "draining") + P <= unloads + 1
      /\ inbox \in Seq(Message)
  BY PendingFinite DEF IInv, Typed, EnginesCounted
<1>2. ASSUME NEW m \in Message, inbox' = Append(inbox, m)
      PROVE  P' \in Nat /\ P' <= P + One(m.kind = "unload")
  BY <1>1, <1>2, PendingAppend, PendingFinite, AppendProperties
<1>3. ASSUME inbox # <<>>, inbox' = Tail(inbox)
      PROVE  P' \in Nat /\ P' + One(Head(inbox).kind = "unload") <= P
  BY <1>1, <1>3, PendingTail, PendingFinite, HeadTailProperties
<1>4. ASSUME UNCHANGED <<current, made, loop>>, P' \in Nat,
             P' - unloads' <= P - unloads, unloads' \in Nat
      PROVE  EnginesCounted'
  BY <1>1, <1>4 DEF EnginesCounted, One
<1>5. ASSUME NEW c \in Chats, ChatStep(c) PROVE EnginesCounted'
  <2>1. UNCHANGED <<inbox, unloads, loop>>
    BY <1>5, ChatFrame DEF outside
  <2>2. CASE StartStream(c)
    BY <1>1, <2>1, <2>2 DEF StartStream, Start, EnginesCounted, One
  <2>3. CASE UNCHANGED object
    BY <1>1, <1>4, <2>1, <2>3 DEF object
  <2> QED
    BY <1>5, <2>2, <2>3, ChatFrame
<1>6. CASE AbortRequest \/ FinalizeGenerator \/ CloseGenerator \/ PopTask
           \/ (\E c \in Chats : Wake(c)) \/ UNCHANGED vars
  <2>1. UNCHANGED <<current, made, loop, inbox, unloads>>
    BY <1>6 DEF AbortRequest, FinalizeGenerator, CloseGenerator, PopTask, Wake,
                vars, object, others, outside
  <2> QED
    BY <1>1, <1>4, <2>1
<1>7. CASE ChatCompletion \/ ChatAbort
  <2>1. /\ UNCHANGED <<current, made, loop, unloads>>
        /\ inbox # <<>> /\ inbox' = Tail(inbox)
    BY <1>7 DEF ChatCompletion, ChatAbort, Arrived, Consume, object, counters
  <2> QED
    BY <1>1, <1>3, <1>4, <2>1 DEF One
<1>8. CASE UnloadModel
  <2>1. /\ inbox # <<>> /\ inbox' = Tail(inbox) /\ unloads' = unloads
        /\ Head(inbox).kind = "unload" /\ loop = "reading"
        /\ \/ loop' = "draining" /\ UNCHANGED <<current, made>>
           \/ loop' = "status" /\ current' = 0 /\ made' = made
    BY <1>8 DEF UnloadModel, Unload, Arrived, Consume, object, counters
  <2> QED
    BY <1>1, <1>3, <2>1 DEF EnginesCounted, One
<1>9. CASE Drained
  <2>1. /\ loop = "draining" /\ loop' = "status" /\ current' = 0
        /\ UNCHANGED <<inbox, unloads, made>>
    BY <1>9 DEF Drained, Unload, others, outside
  <2> QED
    BY <1>1, <2>1 DEF EnginesCounted, One
<1>13. CASE StatusSent
  <2>1. /\ loop = "status" /\ loop' = "reading"
        /\ UNCHANGED <<current, made, inbox, unloads>>
    BY <1>13 DEF StatusSent, object, others, outside
  <2> QED
    BY <1>1, <2>1 DEF EnginesCounted, One
<1>10. CASE Stop \/ Break
  <2>1. /\ UNCHANGED <<current, made, loop, unloads>>
        /\ inbox' = inbox \/ inbox' = <<>>
    BY <1>10 DEF Stop, Break, Disconnect, object, counters
  <2>2. P' = P \/ P' = 0
    BY <2>1, PendingEmpty
  <2> QED
    BY <1>1, <1>4, <2>1, <2>2
<1>11. ASSUME NEW c \in Chats, PostChat(c) \/ PostAbort(c)
       PROVE  EnginesCounted'
  <2>1. PICK m \in Message : m.kind # "unload" /\ inbox' = Append(inbox, m)
    <3>1. Msg("chat", c) \in Message /\ Msg("abort", id[c]) \in Message
      BY DEF Message, Msg, IInv, Typed
    <3> QED
      BY <1>11, <3>1 DEF PostChat, PostAbort, Post, Msg
  <2>2. UNCHANGED <<current, made, loop, unloads>>
    BY <1>11 DEF PostChat, PostAbort, Post, object, counters
  <2> QED
    BY <1>1, <1>2, <1>4, <2>1, <2>2 DEF One
<1>12. CASE PostUnload
  <2>1. Msg("unload", None) \in Message
    BY DEF Message, Msg
  <2>2. /\ UNCHANGED <<current, made, loop>> /\ unloads' = unloads + 1
        /\ inbox' = Append(inbox, Msg("unload", None))
    BY <1>12 DEF PostUnload, Post, object
  <2> QED
    BY <1>1, <1>2, <1>4, <2>1, <2>2 DEF One
<1> QED
  BY <1>5, <1>6, <1>7, <1>8, <1>9, <1>10, <1>11, <1>12, <1>13
     DEF Next, RunNext, HandleMessage

-----------------------------------------------------------------------------
(* The tasks that are registered                                           *)

\* A step that keeps the living chats and all done callbacks.
LEMMA StillRegistered ==
  ASSUME IInv, id' = id, Alive \subseteq Alive', 
         \A r \in Ids : tasks'[r] \in {tasks[r], None},
         \A r \in Ids : Contains(ready, Call("pop", r, 0)) =>
            \/ Contains(ready', Call("pop", r, 0)) \/ tasks'[r] = None
  PROVE  Registered'
BY DEF IInv, Registered

LEMMA ChatKeepsRegistered ==
  ASSUME IInv, NEW c \in Chats, ChatStep(c)
  PROVE  Registered'
<1> USE DEF IInv
<1>1. /\ Runs(c) /\ c \in Alive /\ ready[1] = Call("run", c, 0)
      /\ id' = id /\ tasks' = tasks
  BY ChatFrame, RunnerIsAlive DEF Typed, outside
<1>2. \A r : Call("pop", r, 0) # ready[1]
  BY <1>1 DEF Call
<1>3. ASSUME NEW q, Moves(1, q), NEW r \in Ids,
             Contains(ready, Call("pop", r, 0))
      PROVE  Contains(ready', Call("pop", r, 0))
  BY <1>2, <1>3, StaysQueued
<1>4. ASSUME NEW left, End(c, left), left = <<>> \/ \E m \in Callback : left = <<m>>
      PROVE  Registered'
  <2>1. Contains(ready', Call("pop", id[c], 0)) /\ \E q : Moves(1, q)
    BY <1>1, <1>4, EndMoves DEF Typed
  <2>2. \A d \in Alive : d \in Alive' \/ d = c
    BY <1>4 DEF End, Alive, Typed
  <2> QED
    BY <1>1, <1>3, <2>1, <2>2 DEF Registered
<1>5. ASSUME NEW s \in Stages \ {"new", "posted", "over"}, Suspend(c, s)
      PROVE  Registered'
  <2>1. Moves(1, <<>>)
    BY <1>1, <1>5, SuspendMoves DEF Typed
  <2>2. Alive \subseteq Alive'
    BY <1>5 DEF Suspend, Alive, Typed
  <2> QED
    BY <1>1, <1>3, <2>1, <2>2, StillRegistered
<1>6. CASE QuitsAtYield(c)
  <2>1. Call("hook", id[c], using[c]) \in Callback
    BY <1>6 DEF QuitsAtYield, Typed, Meant, Holders, Callback, Call
  <2> QED
    BY <1>4, <1>6, <2>1 DEF QuitsAtYield, EndAtYield
<1> QED
  BY <1>4, <1>5, <1>6, ChatShape
     DEF Meant, Quits, StartStream, Start, GoesOn, Errs, Waits

LEMMA NextKeepsRegistered ==
  ASSUME IInv, [Next]_vars
  PROVE  Registered'
<1> USE DEF IInv
<1>1. id' = id /\ ready \in Seq(Callback) /\ tasks \in [Ids -> Chats \cup {None}]
  BY NextKeepsIds DEF Typed
<1>2. ASSUME NEW q, Moves(0, q), NEW m, Contains(ready, m)
      PROVE  Contains(ready', m)
  BY <1>2, StaysQueued
<1>3. ASSUME ready # <<>>, Head(ready).do # "pop", NEW q, Moves(1, q),
             Head(ready) = ready[1], UNCHANGED <<tasks, stage>>
      PROVE  Registered'
  <2>1. \A r \in Ids : Call("pop", r, 0) # ready[1]
    BY <1>3 DEF Call
  <2>2. \A r \in Ids : Contains(ready, Call("pop", r, 0)) =>
                         Contains(ready', Call("pop", r, 0))
    BY <1>3, <2>1, StaysQueued
  <2> QED
    BY <1>1, <1>3, <2>2, StillRegistered DEF Alive
<1>4. CASE AbortRequest \/ CloseGenerator
  <2>1. /\ ready # <<>> /\ ready' = Tail(ready) /\ Head(ready).do # "pop"
        /\ UNCHANGED <<tasks, stage>>
    BY <1>4 DEF AbortRequest, CloseGenerator, First
  <2> QED
    BY <1>1, <1>3, <2>1, TailOnlyMoves
<1>5. CASE FinalizeGenerator
  <2>1. /\ ready # <<>> /\ Head(ready).do # "pop" /\ UNCHANGED <<tasks, stage>>
        /\ ready' = Append(Tail(ready), [Head(ready) EXCEPT !.do = "close"])
    BY <1>5 DEF FinalizeGenerator, First
  <2> QED
    BY <1>1, <1>3, <1>5, <2>1, HookMoves
<1>6. CASE PopTask
  <2> DEFINE x == Head(ready).x
  <2>1. /\ ready # <<>> /\ Head(ready).do = "pop" /\ stage' = stage
        /\ tasks' = [tasks EXCEPT ![x] = None] /\ ready' = Tail(ready)
    BY <1>6 DEF PopTask, First
  <2>2. Moves(1, <<>>) /\ Head(ready) = ready[1]
    BY <1>1, <2>1, TailOnlyMoves
  <2>3. \A r \in Ids : tasks'[r] = IF r = x THEN None ELSE tasks[r]
    BY <1>1, <2>1
  <2>4. \A r \in Ids : r # x => Call("pop", r, 0) # ready[1]
    BY <2>2 DEF Call
  <2>5. \A r \in Ids : Contains(ready, Call("pop", r, 0)) =>
           \/ Contains(ready', Call("pop", r, 0)) \/ tasks'[r] = None
    BY <2>2, <2>3, <2>4, StaysQueued
  <2> QED
    BY <1>1, <2>1, <2>3, <2>5, StillRegistered DEF Alive
<1>7. ASSUME NEW c \in Chats, Wake(c) PROVE Registered'
  <2>1. /\ ready' = Append(ready, Call("run", c, 0)) /\ UNCHANGED <<tasks, stage>>
        /\ Call("run", c, 0) \in Callback
    BY <1>7 DEF Wake, Callback, Call
  <2>2. \A m : Contains(ready, m) => Contains(ready', m)
    BY <1>1, <1>2, <2>1, AppendMoves
  <2> QED
    BY <1>1, <2>1, <2>2, StillRegistered DEF Alive
<1>8. CASE ChatCompletion
  <2> DEFINE c == Head(inbox).x
  <2>1. c \in Chats
    BY <1>8, HeadTailProperties DEF ChatCompletion, Arrived, Typed, Message
  <2>2. /\ ready' = Append(ready, Call("run", c, 0))
        /\ stage' = [stage EXCEPT ![c] = "starting"]
        /\ tasks' = [tasks EXCEPT ![id[c]] = c]
        /\ Call("run", c, 0) \in Callback
    BY <1>8, <2>1 DEF ChatCompletion, Callback, Call
  <2>3. \A m : Contains(ready, m) => Contains(ready', m)
    BY <1>1, <1>2, <2>2, AppendMoves
  <2>4. /\ Alive \subseteq Alive' /\ c \in Alive'
        /\ \A r \in Ids : tasks'[r] = IF r = id[c] THEN c ELSE tasks[r]
    BY <1>1, <2>1, <2>2 DEF Alive, Typed
  <2> HIDE DEF c
  <2> QED
    BY <1>1, <2>1, <2>3, <2>4 DEF Registered
<1>9. CASE ChatAbort
  <2> DEFINE r == Head(inbox).x
             next == IF current = 0 THEN <<>> ELSE <<Call("abort", r, current)>>
  <2>1. CancelAll({tasks[r]}, next) /\ UNCHANGED <<stage, tasks>>
    BY <1>9 DEF ChatAbort
  <2>2. next = <<>> \/ \E m \in Callback : m.do = "abort" /\ next = <<m>>
    BY <1>9, AbortIsCallback
  <2>3. \E q : Moves(0, q)
    BY <1>1, <2>1, <2>2, CancelMoves
  <2> QED
    BY <1>1, <1>2, <2>1, <2>3, StillRegistered DEF Alive
<1>10. CASE Stop
  BY <1>10 DEF Stop, Registered
<1>11. ASSUME UNCHANGED <<ready, tasks>>, Alive' = Alive PROVE Registered'
  BY <1>1, <1>11 DEF Registered
<1>12. CASE Break
  BY <1>11, <1>12, DisconnectKeepsAlive DEF Break
<1>13. ASSUME NEW c \in Chats, PostChat(c) PROVE Registered'
  BY <1>11, <1>13 DEF PostChat, Post, Alive, Typed
<1>14. CASE \/ (\E c \in Chats : PostAbort(c)) \/ PostUnload \/ UnloadModel
            \/ Drained \/ StatusSent \/ UNCHANGED vars
  BY <1>11, <1>14 DEF PostAbort, PostUnload, Post, UnloadModel, Drained, StatusSent,
                      vars, Alive
<1> QED
  BY <1>4, <1>5, <1>6, <1>7, <1>8, <1>9, <1>10, <1>12, <1>13, <1>14,
     ChatKeepsRegistered DEF Next, RunNext, HandleMessage

-----------------------------------------------------------------------------
(* The aborts that reach a chat                                            *)

\* No new abort reaches an engine, and no chat enters one.
LEMMA StillMeant ==
  ASSUME IInv, id' = id, Holders' \subseteq Holders,
         \A c \in Holders' : using'[c] = using[c],
         \A e \in Engines : aborted'[e] \subseteq aborted[e],
         hit' = hit \/ (hit \subseteq hit' /\ Alive' = Alive)
                    \/ \E c \in Chats \ Holders' : hit' = hit \ {c},
         cancelled' \subseteq hit',
         \A c \in Chats : stage'[c] = "reporting" => finish'[c] = "error"
  PROVE  Meant'
BY DEF IInv, Meant

LEMMA ChatKeepsMeant ==
  ASSUME IInv, NEW c \in Chats, ChatStep(c)
  PROVE  Meant'
<1> USE DEF IInv
<1>1. id' = id /\ finish \in [Chats -> Reasons] /\ stage \in [Chats -> Stages]
      /\ using \in [Chats -> {0} \cup Engines]
      /\ aborted \in [Engines -> SUBSET Ids]
  BY ChatFrame DEF outside, Typed, Streams
<1>2. Leaves(c) => \A e \in Engines : aborted'[e] \subseteq aborted[e]
  BY <1>1 DEF Leaves, Forget, requests
<1>3. ASSUME NEW left, End(c, left),
             \A e \in Engines : aborted'[e] \subseteq aborted[e]
      PROVE  Meant'
  <2>1. /\ Holders' \subseteq Holders \ {c} /\ hit' = hit \ {c}
        /\ \A d \in Holders' : using'[d] = using[d]
    BY <1>1, <1>3 DEF End, Holders
  <2>2. cancelled' \subseteq hit'
    BY <1>3 DEF End, Meant
  <2>3. \A d \in Chats : stage'[d] = "reporting" => finish'[d] = "error"
    BY <1>1, <1>3 DEF End, Meant
  <2> QED
    BY <1>1, <1>3, <2>1, <2>2, <2>3, StillMeant
<1>4. CASE Quits(c)
  BY <1>2, <1>3, <1>4 DEF Quits
<1>5. CASE QuitsAtYield(c)
  BY <1>3, <1>5 DEF QuitsAtYield, EndAtYield, requests
<1>6. CASE GoesOn(c)
  <2>1. /\ Holders' \subseteq Holders /\ UNCHANGED <<cancelled, hit, using, aborted>>
        /\ \A d \in Chats : stage'[d] = "reporting" => finish'[d] = "error"
    BY <1>1, <1>6 DEF GoesOn, Suspend, Holders, requests, Meant
  <2> QED
    BY <1>1, <2>1, StillMeant DEF Meant
<1>7. CASE Errs(c) \/ Waits(c)
  <2>1. /\ Holders' \subseteq Holders /\ UNCHANGED <<cancelled, hit, using>>
        /\ \A d \in Chats : stage'[d] = "reporting" => finish'[d] = "error"
    BY <1>1, <1>7 DEF Errs, Waits, Suspend, Holders, stream, Meant
  <2>2. \A e \in Engines : aborted'[e] \subseteq aborted[e]
    BY <1>2, <1>7 DEF Errs, Waits, requests
  <2> QED
    BY <1>1, <2>1, <2>2, StillMeant DEF Meant
<1>8. CASE StartStream(c)
  <2> DEFINE e == IF current = 0 THEN made + 1 ELSE current
  <2>1. e \in Engines
    BY EnginesExist
  <2>2. /\ aborted' = [aborted EXCEPT ![e] = @ \cap (Ids \ {id[c]})]
        /\ using' = [using EXCEPT ![c] = e]
        /\ stage' = [stage EXCEPT ![c] = "generating"]
        /\ UNCHANGED <<cancelled, hit, finish>>
    BY <1>8 DEF StartStream, Start, Suspend
  <2> HIDE DEF e
  <2>3. \A f \in Engines : aborted'[f] \subseteq aborted[f]
    BY <1>1, <2>1, <2>2
  <2>4. using'[c] = e /\ id[c] \notin aborted'[e]
    BY <1>1, <2>1, <2>2
  <2>5. \A d \in Holders' : d = c \/ (d \in Holders /\ using'[d] = using[d])
    BY <1>1, <2>2 DEF Holders
  <2>6. \A d \in Chats : stage'[d] = "reporting" => finish'[d] = "error"
    BY <1>1, <2>2 DEF Meant
  <2> QED
    BY <1>1, <2>1, <2>2, <2>3, <2>4, <2>5, <2>6 DEF Meant
<1> QED
  BY <1>4, <1>5, <1>6, <1>7, <1>8, ChatShape DEF Meant

LEMMA NextKeepsMeant ==
  ASSUME IInv, [Next]_vars
  PROVE  Meant'
<1> USE DEF IInv
<1>1. id' = id /\ stage \in [Chats -> Stages]
      /\ aborted \in [Engines -> SUBSET Ids] /\ tasks \in [Ids -> Chats \cup {None}]
  BY NextKeepsIds DEF Typed
<1>2. CASE AbortRequest
  <2> DEFINE m == Head(ready)
  <2>1. /\ ready # <<>> /\ m.do = "abort"
        /\ aborted' = [aborted EXCEPT ![m.on] = @ \cup {m.x}]
        /\ UNCHANGED <<stage, cancelled, hit, using, finish>>
    BY <1>2 DEF AbortRequest, First, stream, others, fate
  <2>2. 1 \in 1 .. Len(ready) /\ m = ready[1]
    BY <2>1, LenProperties, EmptySeq DEF Typed
  <2>3. \A c \in Holders \ hit : id[c] # m.x
    BY <2>1, <2>2 DEF AbortsFirst, Holders, Alive
  <2>4. \A e \in Engines : aborted'[e] \subseteq aborted[e] \cup {m.x}
    BY <1>1, <2>1
  <2> HIDE DEF m
  <2> QED
    BY <1>1, <2>1, <2>3, <2>4 DEF Meant, Holders
<1>3. ASSUME UNCHANGED <<stage, using, finish>>, cancelled' \subseteq hit',
             hit \subseteq hit',
             \A e \in Engines : aborted'[e] \subseteq aborted[e]
      PROVE  Meant'
  BY <1>1, <1>3 DEF Meant, Holders
<1>4. CASE FinalizeGenerator \/ PopTask \/ UNCHANGED vars
           \/ (\E c \in Chats : Wake(c) \/ PostAbort(c)) \/ PostUnload
  <2>1. UNCHANGED <<stage, using, finish, cancelled, hit, aborted>>
    BY <1>4 DEF FinalizeGenerator, PopTask, Wake, PostAbort, PostUnload, Post, vars,
                requests, stream, others, fate
  <2> QED
    BY <1>3, <2>1 DEF Meant
<1>5. CASE CloseGenerator
  <2>1. /\ UNCHANGED <<stage, using, finish, cancelled, hit>>
        /\ \A e \in Engines : aborted'[e] \subseteq aborted[e]
    BY <1>1, <1>5 DEF CloseGenerator, Forget, stream, others, fate
  <2> QED
    BY <1>3, <2>1 DEF Meant
<1>6. CASE UnloadModel \/ Drained \/ StatusSent
  <2>1. /\ UNCHANGED <<stage, using, finish, cancelled, hit>>
        /\ \A e \in Engines : aborted'[e] \subseteq aborted[e]
    BY <1>1, <1>6 DEF UnloadModel, Drained, StatusSent,
                      Unload, requests, stream, others, fate
  <2> QED
    BY <1>3, <2>1 DEF Meant
<1>7. CASE ChatAbort
  <2> DEFINE r == Head(inbox).x
  <2>1. /\ UNCHANGED <<stage, using, finish, aborted>>
        /\ cancelled' = cancelled \cup ({tasks[r]} \cap Alive)
        /\ hit' = hit \cup {c \in Alive : id[c] = r}
    BY <1>7 DEF ChatAbort, CancelAll, requests, stream
  <2>2. tasks[r] \in Alive => id[tasks[r]] = r
    BY <1>1, <1>7, AbortIsCallback, ChatAssumption DEF Registered, Alive
  <2> QED
    BY <1>3, <2>1, <2>2 DEF Meant
<1>8. ASSUME Disconnect, UNCHANGED <<using, finish, aborted>>, hit \subseteq hit',
             cancelled' \subseteq hit'
      PROVE  Meant'
  <2>1. /\ Holders' = Holders
        /\ \A c \in Chats : stage'[c] = "reporting" => stage[c] = "reporting"
    BY <1>1, <1>8 DEF Disconnect, Holders
  <2> QED
    BY <1>1, <1>8, <2>1 DEF Meant
<1>9. CASE Stop
  <2>1. /\ UNCHANGED <<using, finish, aborted>> /\ Disconnect
        /\ cancelled' = cancelled \cup ({tasks[r] : r \in Ids} \cap Alive)
        /\ hit' = hit \cup {c \in Alive : \E r \in Ids : tasks[r] = c}
    BY <1>9 DEF Stop, CancelAll, requests, stream
  <2> QED
    BY <1>8, <2>1 DEF Meant
<1>10. CASE Break
  BY <1>8, <1>10 DEF Break, requests, stream, Meant
<1>11. ASSUME NEW c \in Chats, NEW s \in {"posted", "starting"},
              stage' = [stage EXCEPT ![c] = s],
              UNCHANGED <<using, finish, aborted, cancelled, hit>>
       PROVE  Meant'
  BY <1>1, <1>11 DEF Meant, Holders
<1>12. CASE ChatCompletion
  <2>1. Head(inbox).x \in Chats
    <3>1. Head(inbox) \in Message /\ Head(inbox).kind = "chat"
      BY <1>12, HeadTailProperties DEF ChatCompletion, Arrived, Typed
    <3> QED
      BY <3>1 DEF Message
  <2> QED
    BY <1>11, <1>12, <2>1 DEF ChatCompletion, requests, stream
<1>13. ASSUME NEW c \in Chats, PostChat(c) PROVE Meant'
  BY <1>11, <1>13 DEF PostChat, Post, requests, stream, fate
<1> QED
  BY <1>2, <1>4, <1>5, <1>6, <1>7, <1>9, <1>10, <1>12, <1>13, ChatKeepsMeant
     DEF Next, RunNext, HandleMessage

-----------------------------------------------------------------------------
(* The requests that are active                                            *)

\* Neither a request nor a holder nor a generator that will be closed is new
\* or gone.
LEMMA StillRequested ==
  ASSUME IInv, id' = id,
         \A e \in Engines : active'[e] \subseteq active[e],
         \A c \in Holders : c \in Holders' /\ using'[c] = using[c],
         \A r, e : Contains(ready, Call("hook", r, e)) =>
                     Contains(ready', Call("hook", r, e)),
         \A r, e : Contains(ready, Call("close", r, e)) =>
                     Contains(ready', Call("close", r, e))
  PROVE  Requested'
BY DEF IInv, Requested

LEMMA ChatKeepsRequested ==
  ASSUME IInv, NEW c \in Chats, ChatStep(c)
  PROVE  Requested'
<1> USE DEF IInv
<1>1. /\ Runs(c) /\ c \in Alive /\ ready[1] = Call("run", c, 0) /\ id' = id
      /\ stage \in [Chats -> Stages] /\ ready \in Seq(Callback)
      /\ using \in [Chats -> {0} \cup Engines]
      /\ active \in [Engines -> SUBSET Ids] /\ id \in [Chats -> Ids]
  BY ChatFrame, RunnerIsAlive DEF Typed, outside
<1>2. \A r, e : ready[1] \notin {Call("hook", r, e), Call("close", r, e)}
  BY <1>1 DEF Call
<1>3. ASSUME NEW q, Moves(1, q), NEW r, NEW e
      PROVE  /\ Contains(ready, Call("hook", r, e)) =>
                  Contains(ready', Call("hook", r, e))
             /\ Contains(ready, Call("close", r, e)) =>
                  Contains(ready', Call("close", r, e))
  BY <1>2, <1>3, StaysQueued
<1>4. Leaves(c) =>
        \A e \in Engines :
          /\ active'[e] \subseteq active[e]
          /\ c \in Holders /\ using[c] = e => id[c] \notin active'[e]
  BY <1>1 DEF Leaves, Forget, requests, Holders
<1>5. CASE Quits(c)
  <2>1. /\ \A d \in Holders : d # c => d \in Holders' /\ using'[d] = using[d]
        /\ End(c, <<>>)
    BY <1>1, <1>5 DEF Quits, End, Holders
  <2>2. \E q : Moves(1, q)
    BY <1>1, <2>1, EndMoves
  <2> QED
    BY <1>1, <1>3, <1>4, <1>5, <2>1, <2>2 DEF Requested, Quits
<1>6. CASE QuitsAtYield(c)
  <2>1. /\ \A d \in Holders : d # c => d \in Holders' /\ using'[d] = using[d]
        /\ End(c, <<Call("hook", id[c], using[c])>>) /\ active' = active
    BY <1>1, <1>6 DEF QuitsAtYield, EndAtYield, End, Holders, requests
  <2>2. Call("hook", id[c], using[c]) \in Callback
    BY <1>6 DEF QuitsAtYield, Typed, Meant, Holders, Callback, Call
  <2>3. Contains(ready', Call("hook", id[c], using[c])) /\ \E q : Moves(1, q)
    BY <1>1, <2>1, <2>2, EndMoves
  <2> QED
    BY <1>1, <1>3, <2>1, <2>3 DEF Requested
<1>7. CASE GoesOn(c) \/ Waits(c)
  <2>1. /\ \A d \in Holders : d \in Holders' /\ using'[d] = using[d]
        /\ active' = active /\ \E s : Suspend(c, s)
    BY <1>1, <1>7 DEF GoesOn, Waits, Suspend, Holders, requests, stream
  <2>2. Moves(1, <<>>)
    BY <1>1, <2>1, SuspendMoves
  <2> QED
    BY <1>1, <1>3, <2>1, <2>2, StillRequested
<1>8. CASE Errs(c)
  <2>1. /\ \A d \in Holders : d # c => d \in Holders' /\ using'[d] = using[d]
        /\ Suspend(c, "reporting")
    BY <1>1, <1>8 DEF Errs, Suspend, Holders
  <2>2. Moves(1, <<>>)
    BY <1>1, <2>1, SuspendMoves
  <2> QED
    BY <1>1, <1>3, <1>4, <1>8, <2>1, <2>2 DEF Requested, Errs
<1>9. CASE StartStream(c)
  <2> DEFINE e == IF current = 0 THEN made + 1 ELSE current
  <2>1. /\ e \in Engines /\ stage[c] \notin Holding
        /\ active' = [active EXCEPT ![e] = @ \cup {id[c]}]
        /\ using' = [using EXCEPT ![c] = e] /\ Suspend(c, "generating")
    BY <1>9, EnginesExist DEF StartStream, Start
  <2> HIDE DEF e
  <2>2. Moves(1, <<>>)
    BY <1>1, <2>1, SuspendMoves
  <2>3. /\ c \in Holders' /\ using'[c] = e
        /\ \A d \in Holders : d \in Holders' /\ using'[d] = using[d]
    BY <1>1, <2>1 DEF Suspend, Holders
  <2>4. \A f \in Engines : \A r \in active'[f] :
          r \in active[f] \/ (f = e /\ r = id[c])
    BY <1>1, <2>1
  <2> QED
    BY <1>1, <1>3, <2>2, <2>3, <2>4 DEF Requested
<1> QED
  BY <1>5, <1>6, <1>7, <1>8, <1>9, ChatShape DEF Meant

LEMMA NextKeepsRequested ==
  ASSUME IInv, [Next]_vars
  PROVE  Requested'
<1> USE DEF IInv
<1>1. id' = id /\ ready \in Seq(Callback) /\ stage \in [Chats -> Stages]
      /\ active \in [Engines -> SUBSET Ids]
  BY NextKeepsIds DEF Typed
<1>2. ASSUME NEW q, Moves(0, q), NEW m, Contains(ready, m)
      PROVE  Contains(ready', m)
  BY <1>2, StaysQueued
<1>3. ASSUME ready' = ready \/ \E q : Moves(0, q),
             \A e \in Engines : active'[e] \subseteq active[e],
             \A c \in Holders : c \in Holders' /\ using'[c] = using[c]
      PROVE  Requested'
  BY <1>1, <1>2, <1>3, StillRequested
<1>4. CASE AbortRequest \/ PopTask
  <2>1. /\ ready # <<>> /\ ready' = Tail(ready)
        /\ Head(ready).do \in {"abort", "pop"} /\ UNCHANGED <<stage, using, active>>
    BY <1>4 DEF AbortRequest, PopTask, First, stream, requests
  <2>2. Moves(1, <<>>) /\ Head(ready) = ready[1]
    BY <1>1, <2>1, TailOnlyMoves
  <2>3. \A r, e : ready[1] \notin {Call("hook", r, e), Call("close", r, e)}
    BY <2>1, <2>2 DEF Call
  <2>4. ASSUME NEW m, m # ready[1], Contains(ready, m) PROVE Contains(ready', m)
    BY <2>2, <2>4, StaysQueued
  <2> QED
    BY <1>1, <2>1, <2>3, <2>4, StillRequested DEF Holders
<1>5. CASE FinalizeGenerator
  <2>1. PICK m \in Callback :
          /\ Head(ready) = Call("hook", m.x, m.on) /\ m = Call("close", m.x, m.on)
          /\ Moves(1, <<m>>) /\ Contains(ready', m) /\ Head(ready) = ready[1]
    BY <1>1, <1>5, HookMoves
  <2>2. UNCHANGED <<stage, using, active>>
    BY <1>5 DEF FinalizeGenerator, stream, requests
  <2>3. ASSUME NEW k, k # ready[1], Contains(ready, k) PROVE Contains(ready', k)
    BY <2>1, <2>3, StaysQueued
  <2>4. ASSUME NEW e \in Engines, NEW r \in active[e],
               Contains(ready, Call("hook", r, e)) \/ Contains(ready, Call("close", r, e))
        PROVE  Contains(ready', Call("hook", r, e)) \/ Contains(ready', Call("close", r, e))
    <3>1. CASE Call("hook", r, e) = ready[1]
      <4>1. m.x = r /\ m.on = e
        BY <2>1, <3>1 DEF Call
      <4> QED
        BY <2>1, <4>1
    <3>2. CASE Call("hook", r, e) # ready[1]
      <4>1. Call("close", r, e) # ready[1]
        BY <2>1 DEF Call
      <4> QED
        BY <2>3, <2>4, <3>2, <4>1
    <3> QED
      BY <3>1, <3>2
  <2> QED
    BY <1>1, <2>2, <2>4 DEF Requested, Holders
<1>6. CASE CloseGenerator
  <2> DEFINE h == Head(ready)
  <2>1. /\ ready # <<>> /\ ready' = Tail(ready) /\ h.do = "close"
        /\ active' = [active EXCEPT ![h.on] = @ \ {h.x}] /\ UNCHANGED <<stage, using>>
    BY <1>6 DEF CloseGenerator, Forget, First, stream
  <2>2. Moves(1, <<>>) /\ h = ready[1]
    BY <1>1, <2>1, TailOnlyMoves
  <2> HIDE DEF h
  <2>3. ASSUME NEW e \in Engines, NEW r \in active'[e]
        PROVE  /\ r \in active[e] /\ Call("close", r, e) # ready[1]
               /\ Call("hook", r, e) # ready[1]
    BY <1>1, <2>1, <2>2 DEF Call
  <2>4. ASSUME NEW m, m # ready[1], Contains(ready, m) PROVE Contains(ready', m)
    BY <2>2, <2>4, StaysQueued
  <2> QED
    BY <1>1, <2>1, <2>3, <2>4 DEF Requested, Holders
<1>7. ASSUME NEW c \in Chats, Wake(c) PROVE Requested'
  <2>1. /\ ready' = Append(ready, Call("run", c, 0))
        /\ UNCHANGED <<stage, using, active>> /\ Call("run", c, 0) \in Callback
    BY <1>7 DEF Wake, Callback, Call, stream, requests
  <2> QED
    BY <1>1, <1>3, <2>1, AppendMoves DEF Holders
<1>8. CASE ChatCompletion
  <2> DEFINE c == Head(inbox).x
  <2>1. /\ c \in Chats /\ stage[c] = "posted"
    <3>1. inbox # <<>> /\ Head(inbox).kind = "chat"
      BY <1>8 DEF ChatCompletion, Arrived
    <3>2. Head(inbox) \in Message /\ 1 \in 1 .. Len(inbox) /\ Head(inbox) = inbox[1]
      BY <3>1, HeadTailProperties, LenProperties, EmptySeq DEF Typed
    <3> QED
      BY <3>1, <3>2 DEF Message, Posted, IsChat
  <2>2. /\ ready' = Append(ready, Call("run", c, 0))
        /\ stage' = [stage EXCEPT ![c] = "starting"]
        /\ UNCHANGED <<using, active>> /\ Call("run", c, 0) \in Callback
    BY <1>8, <2>1 DEF ChatCompletion, Callback, Call, stream, requests
  <2> HIDE DEF c
  <2>3. \A d \in Holders : d \in Holders' /\ using'[d] = using[d]
    BY <1>1, <2>1, <2>2 DEF Holders
  <2> QED
    BY <1>1, <1>3, <2>2, <2>3, AppendMoves
<1>9. CASE ChatAbort
  <2> DEFINE r == Head(inbox).x
             next == IF current = 0 THEN <<>> ELSE <<Call("abort", r, current)>>
  <2>1. CancelAll({tasks[r]}, next) /\ UNCHANGED <<stage, using, active>>
    BY <1>9 DEF ChatAbort, stream, requests
  <2>2. next = <<>> \/ \E m \in Callback : m.do = "abort" /\ next = <<m>>
    BY <1>9, AbortIsCallback
  <2>3. \E q : Moves(0, q)
    BY <1>1, <2>1, <2>2, CancelMoves
  <2> QED
    BY <1>3, <2>1, <2>3 DEF Holders
<1>10. CASE Stop
  <2>1. /\ CancelAll({tasks[r] : r \in Ids}, <<>>) /\ Disconnect
        /\ UNCHANGED <<using, active>>
    BY <1>10 DEF Stop, stream, requests
  <2>2. \E q : Moves(0, q)
    BY <1>1, <2>1, CancelMoves
  <2>3. \A c \in Holders : c \in Holders' /\ using'[c] = using[c]
    BY <1>1, <2>1 DEF Disconnect, Holders
  <2> QED
    BY <1>3, <2>1, <2>2, <2>3
<1>11. CASE Break
  <2>1. Disconnect /\ UNCHANGED <<ready, using, active>>
    BY <1>11 DEF Break, stream, requests
  <2>2. \A c \in Holders : c \in Holders' /\ using'[c] = using[c]
    BY <1>1, <2>1 DEF Disconnect, Holders
  <2> QED
    BY <1>3, <2>1, <2>2
<1>12. CASE UnloadModel \/ Drained \/ StatusSent
  <2>1. /\ UNCHANGED <<ready, stage, using>>
        /\ \A e \in Engines : active'[e] \subseteq active[e]
    BY <1>1, <1>12 DEF UnloadModel, Drained, StatusSent, Unload, requests, stream
  <2> QED
    BY <1>3, <2>1 DEF Holders
<1>13. ASSUME NEW c \in Chats, PostChat(c) PROVE Requested'
  <2>1. /\ UNCHANGED <<ready, using, active>>
        /\ \A d \in Holders : d \in Holders'
    BY <1>1, <1>13 DEF PostChat, Post, stream, requests, Holders
  <2> QED
    BY <1>3, <2>1
<1>14. CASE (\E c \in Chats : PostAbort(c)) \/ PostUnload \/ UNCHANGED vars
  <2>1. UNCHANGED <<ready, stage, using, active>>
    BY <1>14 DEF PostAbort, PostUnload, Post, stream, requests, vars
  <2> QED
    BY <1>3, <2>1 DEF Holders
<1> QED
  BY <1>4, <1>5, <1>6, <1>7, <1>8, <1>9, <1>10, <1>11, <1>12, <1>13, <1>14,
     ChatKeepsRequested DEF Next, RunNext, HandleMessage

-----------------------------------------------------------------------------
(* The chats that end                                                      *)

LEMMA NextKeepsSilent ==
  ASSUME IInv, [Next]_vars
  PROVE  NoStrayAbort'
<1> USE DEF IInv, NoStrayAbort
<1>1. ASSUME NEW c \in Chats, ChatStep(c) PROVE silent' = {}
  <2>1. CASE StartStream(c) \/ GoesOn(c) \/ Errs(c) \/ Waits(c)
    BY <2>1 DEF StartStream, Start, GoesOn, Errs, Waits, Suspend
  <2>2. CASE (Quits(c) \/ QuitsAtYield(c)) /\ MayEnd(c)
    <3>1. finish[c] # "none" \/ c \in hit \cup dead
      BY <2>2 DEF MayEnd, Meant, Holders
    <3> QED
      BY <2>2, <3>1 DEF Quits, QuitsAtYield, EndAtYield, End
  <2> QED
    BY <1>1, <2>1, <2>2, ChatShape DEF Meant
<1>2. CASE ~\E c \in Chats : ChatStep(c)
  <2>1. silent' = silent
    BY <1>2 DEF Next, RunNext, HandleMessage, AbortRequest, FinalizeGenerator,
       CloseGenerator, PopTask, Wake, PostChat, PostAbort, PostUnload, Post,
       ChatCompletion, ChatAbort, UnloadModel, Consume, Drained, StatusSent,
       Stop, Break,
       vars, others, fate
  <2> QED
    BY <2>1
<1> QED
  BY <1>1, <1>2

-----------------------------------------------------------------------------
(* The types                                                               *)

LEMMA ChatKeepsTyped ==
  ASSUME IInv, NEW c \in Chats, ChatStep(c)
  PROVE  Typed'
<1>1. /\ Runs(c) /\ c \in Alive /\ UNCHANGED <<outside, loop, tasks, mock>>
      /\ faults' \in 0 .. MaxFaults
  <2>1. Runs(c) /\ UNCHANGED <<outside, loop, tasks, mock>>
    BY ChatFrame
  <2>2. c \in Alive
    BY <2>1, RunnerIsAlive DEF IInv, Typed
  <2>3. faults' \in 0 .. MaxFaults
    BY ChatFrame, ChatAssumption DEF Fail, IInv, Typed
  <2> QED
    BY <2>1, <2>2, <2>3
<1>2. Leaves(c) => /\ active' \in [Engines -> SUBSET Ids]
                   /\ aborted' \in [Engines -> SUBSET Ids]
  <2>1. /\ active \in [Engines -> SUBSET Ids]
        /\ aborted \in [Engines -> SUBSET Ids]
    BY DEF IInv, Typed
  <2> QED
    BY <2>1 DEF Leaves, Forget, requests
<1> USE DEF IInv, Typed
<1>3. ASSUME NEW left, End(c, left), left = <<>> \/ \E m \in Callback : left = <<m>>
      PROVE  /\ ready' \in Seq(Callback) /\ stage' \in [Chats -> Stages]
             /\ cancelled' \subseteq Alive' /\ hit' \subseteq Alive'
             /\ dead' \subseteq Chats /\ silent' \subseteq Chats
             /\ using' \in [Chats -> {0} \cup Engines]
  <2>1. ready' \in Seq(Callback)
    BY <1>1, <1>3, EndMoves
  <2> QED
    BY <1>3, <2>1 DEF End, Alive
<1>4. ASSUME NEW s \in Stages \ {"new", "posted", "over"}, Suspend(c, s)
      PROVE  /\ ready' \in Seq(Callback) /\ stage' \in [Chats -> Stages]
             /\ cancelled' \subseteq Alive' /\ hit' \subseteq Alive'
             /\ dead' \subseteq Chats /\ silent' \subseteq Chats
  <2>1. ready' \in Seq(Callback)
    BY <1>1, <1>4, SuspendMoves
  <2> QED
    BY <1>4, <2>1 DEF Suspend, Alive
<1>5. CASE StartStream(c)
  <2>1. (IF current = 0 THEN made + 1 ELSE current) \in Engines
    BY EnginesExist
  <2>2. /\ current' \in Nat /\ made' \in Nat
        /\ active' \in [Engines -> SUBSET Ids] /\ aborted' \in [Engines -> SUBSET Ids]
        /\ using' \in [Chats -> {0} \cup Engines]
    BY <1>5, <2>1 DEF StartStream, Start
  <2> QED
    BY <1>1, <1>4, <1>5, <2>2 DEF StartStream, Start, outside
<1>6. CASE ~StartStream(c)
  <2>1. UNCHANGED object
    BY <1>6, ChatFrame
  <2>2. CASE Quits(c)
    BY <1>1, <1>2, <1>3, <2>1, <2>2 DEF Quits, outside, object
  <2>3. CASE QuitsAtYield(c)
    <3>1. Call("hook", id[c], using[c]) \in Callback
      BY <2>3 DEF QuitsAtYield, Meant, Holders, Callback, Call
    <3> QED
      BY <1>1, <1>3, <2>1, <2>3, <3>1
         DEF QuitsAtYield, EndAtYield, outside, object, requests
  <2>4. CASE GoesOn(c)
    BY <1>1, <1>4, <2>1, <2>4 DEF GoesOn, outside, object, requests
  <2>5. CASE Errs(c)
    BY <1>1, <1>2, <1>4, <2>1, <2>5 DEF Errs, outside, object
  <2>6. CASE Waits(c)
    BY <1>1, <1>4, <2>1, <2>6 DEF Waits, outside, object, requests, stream
  <2> QED
    BY <1>6, <2>2, <2>3, <2>4, <2>5, <2>6, ChatShape DEF Meant
<1> QED
  BY <1>5, <1>6

LEMMA NextKeepsTyped ==
  ASSUME IInv, [Next]_vars
  PROVE  Typed'
<1> USE DEF IInv, Typed
<1>1. id' = id
  BY NextKeepsIds
<1>2. CASE AbortRequest \/ CloseGenerator \/ PopTask
  <2>1. ready' \in Seq(Callback)
    BY <1>2, TailOnlyMoves DEF AbortRequest, CloseGenerator, PopTask, First
  <2>2. Head(ready) \in Callback
    BY <1>2, HeadTailProperties DEF AbortRequest, CloseGenerator, PopTask, First
  <2> DEFINE m == Head(ready)
  <2>3. /\ m.do \in {"abort", "close"} => m.x \in Ids /\ m.on \in Engines
        /\ m.do = "pop" => m.x \in Ids
    BY <2>2 DEF Callback
  <2>4. CASE AbortRequest
    <3>1. /\ m.do = "abort"
          /\ aborted' = [aborted EXCEPT ![m.on] = @ \cup {m.x}]
          /\ active' = active /\ tasks' = tasks
      BY <2>4 DEF AbortRequest, First
    <3> HIDE DEF m
    <3>2. aborted[m.on] \cup {m.x} \in SUBSET Ids
      BY <2>3, <3>1
    <3>3. aborted' \in [Engines -> SUBSET Ids]
      BY <3>1, <3>2
    <3> QED
      BY <1>1, <2>1, <2>4, <3>1, <3>3 DEF AbortRequest, object, stream, others,
         outside, fate, Alive
  <2>5. CASE CloseGenerator
    <3>1. /\ m.do = "close" /\ Forget(m.x, m.on) /\ tasks' = tasks
      BY <2>5 DEF CloseGenerator, First
    <3> HIDE DEF m
    <3>2. active' \in [Engines -> SUBSET Ids] /\ aborted' \in [Engines -> SUBSET Ids]
      BY <2>3, <3>1 DEF Forget
    <3> QED
      BY <1>1, <2>1, <2>5, <3>1, <3>2 DEF CloseGenerator, object, stream, others,
         outside, fate, Alive
  <2>6. CASE PopTask
    <3>1. /\ m.do = "pop" /\ tasks' = [tasks EXCEPT ![m.x] = None]
          /\ active' = active /\ aborted' = aborted
      BY <2>6 DEF PopTask, First, requests
    <3> HIDE DEF m
    <3>2. tasks' \in [Ids -> Chats \cup {None}]
      BY <2>3, <3>1
    <3> QED
      BY <1>1, <2>1, <2>6, <3>1, <3>2 DEF PopTask, object, stream, others,
         outside, fate, Alive
  <2> QED
    BY <1>2, <2>4, <2>5, <2>6
<1>3. CASE FinalizeGenerator
  <2>1. ready' \in Seq(Callback)
    BY <1>3, HookMoves
  <2> QED
    BY <1>1, <1>3, <2>1 DEF FinalizeGenerator, object, requests, stream, others,
       outside, fate, Alive
<1>4. ASSUME NEW c \in Chats, Wake(c) PROVE Typed'
  <2>1. ready' \in Seq(Callback)
    <3>1. Call("run", c, 0) \in Callback
      BY DEF Callback, Call
    <3> QED
      BY <1>4, <3>1, AppendMoves DEF Wake
  <2> QED
    BY <1>1, <1>4, <2>1 DEF Wake, object, requests, stream, others, outside, fate,
       Alive
<1>5. ASSUME HandleMessage
      PROVE  /\ Head(inbox) \in Message /\ inbox' \in Seq(Message)
             /\ UNCHANGED <<running, aborts, unloads, faults, dead, silent>>
  <2>1. inbox # <<>> /\ Consume
    BY <1>5 DEF HandleMessage, ChatCompletion, ChatAbort, UnloadModel, Arrived
  <2>2. inbox \in Seq(Message)
    OBVIOUS
  <2> HIDE DEF IInv, Typed
  <2>3. Head(inbox) \in Message /\ Tail(inbox) \in Seq(Message)
    BY <2>1, <2>2, HeadTailProperties
  <2> QED
    BY <2>1, <2>3 DEF Consume, counters
<1>6. CASE ChatCompletion
  <2> DEFINE c == Head(inbox).x
  <2>1. c \in Chats
    BY <1>5, <1>6 DEF HandleMessage, ChatCompletion, Arrived, Message
  <2>2. ready' \in Seq(Callback)
    <3>1. Call("run", c, 0) \in Callback
      BY <2>1 DEF Callback, Call
    <3> QED
      BY <1>6, <2>1, <3>1, AppendMoves DEF ChatCompletion
  <2>3. /\ stage' = [stage EXCEPT ![c] = "starting"]
        /\ tasks' = [tasks EXCEPT ![id[c]] = c]
        /\ UNCHANGED <<cancelled, loop, object, requests, stream, hit>>
    BY <1>6 DEF ChatCompletion
  <2> HIDE DEF c
  <2>4. Alive \subseteq Alive' /\ stage' \in [Chats -> Stages]
    BY <2>1, <2>3 DEF Alive
  <2> QED
    BY <1>1, <1>5, <1>6, <2>1, <2>2, <2>3, <2>4
       DEF HandleMessage, object, requests, stream
<1>7. CASE ChatAbort
  <2> DEFINE r == Head(inbox).x
             next == IF current = 0 THEN <<>> ELSE <<Call("abort", r, current)>>
  <2>1. /\ CancelAll({tasks[r]}, next)
        /\ hit' = hit \cup {c \in Alive : id[c] = r}
        /\ UNCHANGED <<stage, tasks, loop, object, requests, stream>>
    BY <1>7 DEF ChatAbort
  <2>2. next = <<>> \/ \E m \in Callback : m.do = "abort" /\ next = <<m>>
    BY <1>7, AbortIsCallback
  <2>3. ready' \in Seq(Callback)
    BY <2>1, <2>2, CancelMoves
  <2>4. Alive' = Alive /\ cancelled' \subseteq Alive /\ hit' \subseteq Alive
    BY <2>1 DEF CancelAll, Alive
  <2> QED
    BY <1>1, <1>5, <1>7, <2>1, <2>3, <2>4
       DEF HandleMessage, object, requests, stream
<1>8. CASE UnloadModel \/ Drained \/ StatusSent
  <2>1. /\ current' \in Nat /\ made' = made /\ mock' = mock
        /\ active' \in [Engines -> SUBSET Ids] /\ aborted' \in [Engines -> SUBSET Ids]
        /\ loop' \in Places
    <3>1. ASSUME Unload
          PROVE  /\ current' \in Nat /\ made' = made /\ mock' = mock
                 /\ active' \in [Engines -> SUBSET Ids]
                 /\ aborted' \in [Engines -> SUBSET Ids]
      BY <3>1 DEF Unload
    <3>2. CASE UnloadModel
      <4>1. CASE Holders # {}
        BY <3>2, <4>1 DEF UnloadModel, object, requests
      <4>2. CASE Holders = {}
        BY <3>1, <3>2, <4>2 DEF UnloadModel
      <4> QED
        BY <4>1, <4>2
    <3>3. CASE Drained
      BY <3>1, <3>3 DEF Drained
    <3>4. CASE StatusSent
      BY <3>4 DEF StatusSent, object, requests
    <3> QED
      BY <1>8, <3>2, <3>3, <3>4
  <2>2. UNCHANGED <<stage, cancelled, hit, tasks, ready, using>>
    BY <1>8 DEF UnloadModel, Drained, StatusSent, stream, others, fate
  <2>3. inbox' \in Seq(Message)
        /\ UNCHANGED <<running, aborts, unloads, faults, dead, silent>>
    BY <1>5, <1>8 DEF HandleMessage, Drained, StatusSent, others, outside, fate
  <2> QED
    BY <1>1, <2>1, <2>2, <2>3 DEF Alive
<1>9. ASSUME Disconnect
      PROVE  /\ Alive' = Alive /\ stage' \in [Chats -> Stages]
             /\ dead' \subseteq Chats /\ inbox' \in Seq(Message)
  BY <1>9, DisconnectKeepsAlive, EmptySeq DEF Disconnect, Alive
<1>10. CASE Stop
  <2>1. /\ CancelAll({tasks[r] : r \in Ids}, <<>>) /\ Disconnect
        /\ hit' = hit \cup {c \in Alive : \E r \in Ids : tasks[r] = c}
        /\ tasks' = [r \in Ids |-> None] /\ running' = FALSE
        /\ UNCHANGED <<id, loop, object, requests, stream, counters, silent>>
    BY <1>10 DEF Stop
  <2>2. ready' \in Seq(Callback)
    BY <2>1, CancelMoves
  <2>3. cancelled' \subseteq Alive /\ hit' \subseteq Alive
    BY <2>1 DEF CancelAll
  <2> QED
    BY <1>9, <2>1, <2>2, <2>3 DEF object, requests, stream, counters
<1>11. CASE Break
  <2>1. faults' \in 0 .. MaxFaults
    BY <1>11, ChatAssumption DEF Break, Fail
  <2> QED
    BY <1>9, <1>11, <2>1 DEF Break, object, requests, stream
<1>12. ASSUME NEW m \in Message, Post(m)
       PROVE  inbox' \in Seq(Message)
  BY <1>12, AppendProperties DEF Post
<1>13. ASSUME NEW c \in Chats, PostChat(c) PROVE Typed'
  <2>1. inbox' \in Seq(Message)
    <3>1. Msg("chat", c) \in Message
      BY DEF Message, Msg
    <3> QED
      BY <1>12, <1>13, <3>1 DEF PostChat
  <2>2. Alive' = Alive /\ stage' \in [Chats -> Stages]
    BY <1>13 DEF PostChat, Alive
  <2> QED
    BY <1>13, <2>1, <2>2 DEF PostChat, Post, object, requests, stream, counters, fate
<1>14. ASSUME NEW c \in Chats, PostAbort(c) PROVE Typed'
  <2>1. inbox' \in Seq(Message)
    <3>1. Msg("abort", id[c]) \in Message
      BY DEF Message, Msg
    <3> QED
      BY <1>12, <1>14, <3>1 DEF PostAbort
  <2>2. aborts' \in 0 .. MaxAborts
    BY <1>14, ChatAssumption DEF PostAbort
  <2> QED
    BY <1>14, <2>1, <2>2 DEF PostAbort, Post, object, requests, stream, fate, Alive
<1>15. CASE PostUnload
  <2>1. inbox' \in Seq(Message)
    <3>1. Msg("unload", None) \in Message
      BY DEF Message, Msg
    <3> QED
      BY <1>12, <1>15, <3>1 DEF PostUnload
  <2>2. unloads' \in 0 .. MaxUnloads
    BY <1>15, ChatAssumption DEF PostUnload
  <2> QED
    BY <1>15, <2>1, <2>2 DEF PostUnload, Post, object, requests, stream, fate, Alive
<1>16. CASE UNCHANGED vars
  BY <1>16 DEF vars, Alive
<1> QED
  BY <1>2, <1>3, <1>4, <1>6, <1>7, <1>8, <1>10, <1>11, <1>13, <1>14, <1>15, <1>16,
     ChatKeepsTyped DEF Next, RunNext, HandleMessage

-----------------------------------------------------------------------------
(* The theorems                                                            *)

LEMMA InitIInv == Init => IInv
<1> SUFFICES ASSUME Init PROVE IInv
  OBVIOUS
<1> USE DEF Init
<1>1. /\ ready \in Seq(Callback) /\ Len(ready) = 0
      /\ inbox \in Seq(Message) /\ Len(inbox) = 0
  BY EmptySeq
<1>2. 0 \in 0 .. MaxAborts /\ 0 \in 0 .. MaxUnloads /\ 0 \in 0 .. MaxFaults
  <2>1. MaxAborts \in Nat /\ MaxUnloads \in Nat /\ MaxFaults \in Nat
    BY ChatAssumption
  <2> QED
    BY <2>1
<1>3. Typed
  <2>1. id \in [Chats -> Ids]
    BY ChatAssumption
  <2>2. stage \in [Chats -> Stages]
    BY DEF Stages
  <2>3. tasks \in [Ids -> Chats \cup {None}] /\ using \in [Chats -> {0} \cup Engines]
    OBVIOUS
  <2>4. /\ active \in [Engines -> SUBSET Ids]
        /\ aborted \in [Engines -> SUBSET Ids]
    OBVIOUS
  <2> QED
    BY <1>1, <1>2, <2>1, <2>2, <2>3, <2>4 DEF Typed
<1>4. Streams /\ Posted
  BY <1>1, ChatAssumption DEF Streams, Position, Posted
<1>5. EnginesCounted
  BY PendingEmpty DEF EnginesCounted, One
<1>6. RunsOnce /\ Registered /\ AbortsFirst
  BY <1>1 DEF RunsOnce, Registered, AbortsFirst, Queued, Contains, Alive
<1>7. Requested /\ Meant /\ NoStrayAbort
  BY DEF Requested, Meant, NoStrayAbort, Holders
<1> QED
  BY <1>3, <1>4, <1>5, <1>6, <1>7 DEF IInv

LEMMA NextIInv == IInv /\ [Next]_vars => IInv'
<1> SUFFICES ASSUME IInv, [Next]_vars PROVE IInv'
  OBVIOUS
<1>1. Streams /\ Posted /\ id \in [Chats -> Ids]
  BY DEF IInv, Typed
<1>2. Streams'
  BY <1>1, ChatKeepsStreams, ConnectionKeepsStreams, OthersKeepStreams
     DEF Next, RunNext
<1>3. Posted'
  BY <1>1, NextKeepsPosted
<1> QED
  BY <1>2, <1>3, NextKeepsTyped, NextKeepsCount, NextKeepsOrder,
     NextKeepsRegistered, NextKeepsRequested, NextKeepsMeant, NextKeepsSilent
     DEF IInv

LEMMA Invariance == Spec => []IInv
BY InitIInv, NextIInv, PTL DEF Spec

\* The variables keep their types: in particular there is never an engine
\* object more than the unloads that were sent allow.
THEOREM ChatTyped == Spec => []TypeOK
<1>1. IInv => TypeOK
  <2> SUFFICES ASSUME IInv PROVE TypeOK
    OBVIOUS
  <2>1. current \in {0} \cup Engines /\ made \in {0} \cup Engines
    <3>1. Cardinality(Pending(inbox)) \in Nat
      BY PendingFinite DEF IInv, Typed
    <3>2. unloads \in Nat /\ unloads <= MaxUnloads /\ MaxUnloads \in Nat
      BY ChatAssumption DEF IInv, Typed
    <3> QED
      BY <3>1, <3>2 DEF IInv, Typed, EnginesCounted, One, Engines
  <2> QED
    BY <2>1 DEF IInv, Typed, Streams, TypeOK, Alive
<1> QED
  BY <1>1, Invariance, PTL

\* The controller gets each character of a translation once: never more than
\* there are, and all of them with the last chunk, however the engine cuts its
\* outputs and whatever is aborted, unloaded or cut off (hy_mt2.py:281-305,
\* ws_client.py:410-427).
THEOREM TranslationsAreWhole == Spec => []StreamIsWhole
<1>1. IInv => StreamIsWhole
  BY DEF IInv, Streams, Position, StreamIsWhole
<1> QED
  BY <1>1, Invariance, PTL

\* A chat that ends without a last chunk was told to, or lost its connection,
\* however many chats have its id: an abort that is left over in
\* _aborted_requests does not reach it (hy_mt2.py:228-239, 268-276).
THEOREM AbortsReachTheirChat == Spec => []NoStrayAbort
<1>1. IInv => NoStrayAbort
  BY DEF IInv
<1> QED
  BY <1>1, Invariance, PTL

\* With no chat alive and an empty queue, no task is registered and no engine
\* has an active request (hy_mt2.py:307-309, ws_client.py:299-301).
THEOREM ChatsLeaveNothing == Spec => []LeftNothing
<1>1. IInv => LeftNothing
  <2> SUFFICES ASSUME IInv, ready = <<>>, Alive = {}
               PROVE  /\ \A r \in Ids : tasks[r] = None
                      /\ \A e \in Engines : active[e] = {}
    BY DEF LeftNothing
  <2>1. \A m : ~Contains(ready, m)
    BY EmptySeq DEF Contains
  <2>2. Holders = {}
    BY DEF Holders, Alive
  <2>3. \A r \in Ids : tasks[r] = None
    BY <2>1 DEF IInv, Registered
  <2>4. \A e \in Engines : active[e] = {}
    BY <2>1, <2>2 DEF IInv, Requested
  <2> QED
    BY <2>3, <2>4
<1> QED
  BY <1>1, Invariance, PTL
=============================================================================
