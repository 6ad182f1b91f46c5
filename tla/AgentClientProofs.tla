-------------------------- MODULE AgentClientProofs --------------------------
(***************************************************************************)
(* The types of AgentClient, and that its pull worker misses no job, for   *)
(* any finite set of jobs, any limits and any depth of the wire.  The      *)
(* latter holds while set_config adds no slot and the resources suffice,   *)
(* as in the run that checks it.  It is not inductive: a job that the      *)
(* controller offers while the pull worker sleeps must be promised by      *)
(* something on the wire, a pull that does not exclude it or a message     *)
(* that will trigger another pull.                                         *)
(***************************************************************************)
EXTENDS AgentClient, SequenceTheorems, FiniteSetTheorems, TLAPS

\* The two sequences are checked apart from the other types.
Wired == pulls \in Seq(SUBSET Jobs) /\ inbox \in Seq(Message)

Triggering == {m \in Message : m.kind \in {"job", "notify"}}
Answered == \E i \in 1 .. Len(inbox) : inbox[i] \in Triggering
Requested(j) == \E i \in 1 .. Len(pulls) : j \notin pulls[i]
Full == ~(Cardinality(active) < limit)

Promised ==
  link = "up" /\ running =>
    \/ trigger \/ Full \/ Answered
    \/ \A j \in pending \ (cooling \cup due) : Requested(j)

\* Nothing on the wire changes the limit, and the resources suffice.
Steady ==
  /\ room
  /\ \A i \in 1 .. Len(inbox) : inbox[i].kind # "config"

-----------------------------------------------------------------------------
(* Queues                                                                  *)

\* What is in a queue after something has joined it.
LEMMA JoinQueue ==
  ASSUME NEW S, NEW q \in Seq(S), NEW x \in S
  PROVE  /\ Append(q, x) \in Seq(S)
         /\ Len(q) \in Nat /\ Len(Append(q, x)) = Len(q) + 1
         /\ \A i \in 1 .. Len(q) : i \in 1 .. Len(q) + 1 /\ Append(q, x)[i] = q[i]
         /\ Len(q) + 1 \in 1 .. Len(q) + 1 /\ Append(q, x)[Len(q) + 1] = x
         /\ \A i \in 1 .. Len(q) + 1 : i \in 1 .. Len(q) \/ i = Len(q) + 1
BY LenProperties, AppendProperties

\* What is in a queue after its head has left.
LEMMA LeaveQueue ==
  ASSUME NEW S, NEW q \in Seq(S), q # <<>>
  PROVE  /\ Tail(q) \in Seq(S) /\ Head(q) \in S
         /\ Head(q) = q[1] /\ 1 \in 1 .. Len(q)
         /\ \A i \in 1 .. Len(Tail(q)) :
              i + 1 \in 1 .. Len(q) /\ Tail(q)[i] = q[i + 1]
         /\ \A i \in 1 .. Len(q) :
              i = 1 \/ (i - 1 \in 1 .. Len(Tail(q)) /\ Tail(q)[i - 1] = q[i])
<1>1. /\ Len(q) \in Nat /\ Len(q) # 0
      /\ Head(q) \in S /\ Tail(q) \in Seq(S) /\ Len(Tail(q)) = Len(q) - 1
      /\ \A i \in 1 .. Len(Tail(q)) : Tail(q)[i] = q[i + 1]
  BY LenProperties, EmptySeq, HeadTailProperties
<1>2. Head(q) = q[1]
  BY <1>1
<1>3. ASSUME NEW i \in 1 .. Len(q), i # 1
      PROVE  i - 1 \in 1 .. Len(Tail(q)) /\ Tail(q)[i - 1] = q[i]
  <2>1. i - 1 \in 1 .. Len(Tail(q)) /\ (i - 1) + 1 = i
    BY <1>1, <1>3
  <2> QED
    BY <2>1, <1>1
<1> QED
  BY <1>1, <1>2, <1>3

\* Messages of the controller.
LEMMA Messages ==
  /\ \A j \in Jobs : Msg("job", j) \in Triggering /\ Msg("dispatch", j) \in Message
  /\ Msg("notify", None) \in Triggering /\ Msg("empty", None) \in Message
  /\ \A n \in Limits : Msg("config", n) \in Message
  /\ \A m \in Message :
       /\ m.kind \in {"job", "dispatch"} => m.job \in Jobs
       /\ m.kind = "config" => m.job \in Limits
BY DEF Msg, Triggering, Message

-----------------------------------------------------------------------------
(* Types                                                                   *)

LEMMA NothingOnTheWire == <<>> \in Seq(SUBSET Jobs) /\ <<>> \in Seq(Message)
BY EmptySeq

LEMMA InitTypes == Init => TypeOK
BY ClientAssumption, NothingOnTheWire DEF Init, TypeOK, Links

\* What is told is a message, and nothing is told without a connection.
LEMMA ToldTypes ==
  ASSUME TypeOK, NEW m \in Message
  PROVE  Tell(m) \in Seq(Message) /\ (link # "up" => Tell(m) = <<>>)
BY JoinQueue DEF TypeOK, Tell

\* A cut empties the wire.
LEMMA CutTypes ==
  ASSUME TypeOK, Cut
  PROVE  pulls' = <<>> /\ inbox' = <<>> /\ pending' \subseteq Jobs
BY DEF TypeOK, Cut

LEMMA LinkTypes == TypeOK /\ Link => TypeOK'
<1> SUFFICES ASSUME TypeOK, Link PROVE TypeOK'
  OBVIOUS
<1>1. CASE Connect
  BY <1>1 DEF TypeOK, Connect, Links, wire, jobs
<1>2. CASE ConnectFails
  BY <1>2 DEF TypeOK, ConnectFails, Retry, Links, wire, jobs
<1>3. CASE Break
  BY <1>3, CutTypes, NothingOnTheWire DEF TypeOK, Break, Links, jobs
<1>4. CASE Leave
  BY <1>4 DEF TypeOK, Leave, Retry, Links, wire, jobs
<1>5. CASE BackoffEnds
  BY <1>5 DEF TypeOK, BackoffEnds, Links, wire, jobs
<1>6. CASE Stop
  BY <1>6, CutTypes, NothingOnTheWire DEF TypeOK, Stop, Links, wire, jobs
<1> QED
  BY <1>1, <1>2, <1>3, <1>4, <1>5, <1>6 DEF Link

LEMMA WorkerTypes == TypeOK /\ Worker => TypeOK'
<1> SUFFICES ASSUME TypeOK, Worker PROVE TypeOK'
  OBVIOUS
<1>1. CASE PullerEnds
  BY <1>1 DEF TypeOK, PullerEnds, session, wire, jobs
<1>2. CASE Pull
  <2>1. Append(pulls, cooling) \in Seq(SUBSET Jobs)
    BY JoinQueue DEF TypeOK
  <2> QED
    BY <1>2, <2>1 DEF TypeOK, Pull, session, jobs
<1>3. CASE HeartFails
  BY <1>3 DEF TypeOK, HeartFails, wire, jobs
<1>4. CASE HeartEnds
  BY <1>4 DEF TypeOK, HeartEnds, wire, jobs
<1> QED
  BY <1>1, <1>2, <1>3, <1>4 DEF Worker

LEMMA HandleTypes == TypeOK /\ Handle => TypeOK'
<1> SUFFICES ASSUME TypeOK, Handle PROVE TypeOK'
  OBVIOUS
<1>1. Tail(inbox) \in Seq(Message) /\ Head(inbox) \in Message
  BY LeaveQueue DEF TypeOK, Handle
<1>2. /\ active \subseteq active' /\ active' \subseteq Jobs /\ trigger' \in BOOLEAN /\ limit' \in Limits
  BY <1>1, Messages
     DEF TypeOK, Handle, Take, Dispatched, Notified, Configured, Ignored
<1> QED
  BY <1>1, <1>2 DEF TypeOK, Handle, session

LEMMA JobTypes == TypeOK /\ (\E j \in Jobs : Job(j)) => TypeOK'
<1> SUFFICES ASSUME TypeOK, NEW j \in Jobs, Job(j) PROVE TypeOK'
  OBVIOUS
<1>1. CASE Finish(j)
  BY <1>1 DEF TypeOK, Finish, session, wire
<1>2. CASE Reject(j)
  <2>1. inbox' \in Seq(Message) /\ (link # "up" => inbox' = inbox)
    BY <1>2, ToldTypes, Messages DEF Reject, TypeOK, Triggering
  <2> QED
    BY <1>2, <2>1 DEF TypeOK, Reject, session
<1>3. CASE Rejected(j)
  BY <1>3 DEF TypeOK, Rejected, session, wire
<1>4. CASE Expire(j)
  BY <1>4 DEF TypeOK, Expire, session, wire
<1>5. CASE RetryCooled(j)
  BY <1>5 DEF TypeOK, RetryCooled, session, wire
<1> QED
  BY <1>1, <1>2, <1>3, <1>4, <1>5 DEF Job

LEMMA ControllerTypes == TypeOK /\ Controller => TypeOK'
<1> SUFFICES ASSUME TypeOK, Controller PROVE TypeOK'
  OBVIOUS
<1>1. ASSUME NEW j \in Jobs, NewJob(j) PROVE TypeOK'
  <2>1. Tell(Msg("notify", None)) \in Seq(Message)
        /\ (link # "up" => Tell(Msg("notify", None)) = <<>>)
    BY ToldTypes, Messages DEF Triggering
  <2> QED
    BY <1>1, <2>1 DEF TypeOK, NewJob, session
<1>2. ASSUME NEW j \in Jobs, Dispatch(j) PROVE TypeOK'
  <2>1. Append(inbox, Msg("dispatch", j)) \in Seq(Message)
    BY JoinQueue, Messages DEF TypeOK
  <2> QED
    BY <1>2, <2>1 DEF TypeOK, Dispatch, session, jobs
<1>3. ASSUME AnswerPull PROVE TypeOK'
  <2>1. Tail(pulls) \in Seq(SUBSET Jobs)
    BY <1>3, LeaveQueue DEF TypeOK, AnswerPull
  <2>2. inbox' \in Seq(Message) /\ pending' \subseteq Jobs
    <3>1. Append(inbox, Msg("empty", None)) \in Seq(Message)
      BY JoinQueue, Messages DEF TypeOK
    <3>2. \A j \in Jobs : Append(inbox, Msg("job", j)) \in Seq(Message)
      BY JoinQueue, Messages DEF TypeOK, Triggering
    <3> QED
      BY <1>3, <3>1, <3>2 DEF TypeOK, AnswerPull
  <2> QED
    BY <1>3, <2>1, <2>2 DEF TypeOK, AnswerPull, session, jobs
<1>4. ASSUME NEW n \in Limits, SetConfig(n) PROVE TypeOK'
  <2>1. Append(inbox, Msg("config", n)) \in Seq(Message)
    BY JoinQueue, Messages DEF TypeOK
  <2> QED
    BY <1>4, <2>1 DEF TypeOK, SetConfig, session, jobs
<1> QED
  BY <1>1, <1>2, <1>3, <1>4 DEF Controller

(* AgentClient keeps its types, and nothing is on the wire and no task of  *)
(* a connection runs without one, whatever the controller sends and        *)
(* however often the connection breaks (ws_client.py).                     *)
THEOREM ClientTyped == Spec => []TypeOK
<1>1. TypeOK /\ [Next]_vars => TypeOK'
  <2> SUFFICES ASSUME TypeOK, [Next]_vars PROVE TypeOK'
    OBVIOUS
  <2>1. CASE ResourcesChange
    BY <2>1 DEF TypeOK, ResourcesChange, session, wire
  <2>2. CASE UNCHANGED vars
    BY <2>2 DEF TypeOK, vars
  <2> QED
    BY <2>1, <2>2, LinkTypes, WorkerTypes, HandleTypes, JobTypes,
       ControllerTypes DEF Next
<1> QED
  BY <1>1, InitTypes, PTL DEF Spec

-----------------------------------------------------------------------------
(* No job is missed                                                        *)

\* A queue that is unchanged or longer answers and requests what it did.
LEMMA AnswersStay ==
  ASSUME TypeOK, NEW m \in Message, inbox' = Append(inbox, m)
  PROVE  /\ Answered => Answered'
         /\ m \in Triggering => Answered'
         /\ Steady /\ m.kind # "config" /\ room' => Steady'
<1>1. /\ Len(inbox') = Len(inbox) + 1
      /\ \A i \in 1 .. Len(inbox) : i \in 1 .. Len(inbox') /\ inbox'[i] = inbox[i]
      /\ Len(inbox) + 1 \in 1 .. Len(inbox') /\ inbox'[Len(inbox) + 1] = m
      /\ \A i \in 1 .. Len(inbox') : i \in 1 .. Len(inbox) \/ i = Len(inbox) + 1
  BY JoinQueue DEF TypeOK
<1>2. Answered => Answered'
  BY <1>1 DEF Answered, Triggering
<1>3. m \in Triggering => Answered'
  BY <1>1 DEF Answered, Triggering
<1>4. Steady /\ m.kind # "config" /\ room' => Steady'
  BY <1>1 DEF Steady
<1> QED
  BY <1>2, <1>3, <1>4

\* What the controller is told takes no answer off the wire.
LEMMA ToldAnswers ==
  ASSUME TypeOK, inbox' \in {inbox, Tell(Msg("notify", None))}
  PROVE  Answered => Answered'
<1>1. inbox' = inbox \/ inbox' = Append(inbox, Msg("notify", None))
  BY DEF Tell
<1>2. Msg("notify", None) \in Message
  BY Messages DEF Triggering
<1> QED
  BY <1>1, <1>2, AnswersStay DEF Answered

\* A step that only adds to what was promised, or takes offers away.
Keeps ==
  /\ link' = link /\ running' = running
  /\ trigger => trigger'
  /\ Full => Full'
  /\ Answered => Answered'
  /\ pending' \ (cooling' \cup due') \subseteq pending \ (cooling \cup due)
  /\ pulls' = pulls

LEMMA KeepsPromise == Promised /\ Keeps => Promised'
<1> SUFFICES ASSUME Promised, Keeps, link' = "up", running'
             PROVE  \/ trigger' \/ Full' \/ Answered'
                    \/ \A j \in (pending \ (cooling \cup due))' : Requested(j)'
  BY DEF Promised
<1>1. \A j : Requested(j) => Requested(j)'
  BY DEF Requested, Keeps
<1> QED
  BY <1>1 DEF Promised, Keeps

\* A step after which the promise is kept by the trigger or is void.
LEMMA KeptAtOnce == trigger' \/ link' # "up" \/ ~running' => Promised'
BY DEF Promised

\* An agent that takes one more job does not have more room.
LEMMA MoreIsFuller ==
  ASSUME TypeOK, NEW j \in Jobs, active' = active \cup {j}, limit' = limit
  PROVE  Full => Full'
<1>1. IsFiniteSet(active) /\ IsFiniteSet(active')
  BY ClientAssumption, FS_Subset DEF TypeOK
<1>2. Cardinality(active) \in Nat /\ Cardinality(active') \in Nat
      /\ Cardinality(active) =< Cardinality(active')
  BY <1>1, FS_CardinalityType, FS_Subset
<1> QED
  BY <1>2, ClientAssumption DEF Full, TypeOK

LEMMA LinkPromise == TypeOK /\ Promised /\ Link => Promised'
<1> SUFFICES ASSUME TypeOK, Promised, Link PROVE Promised'
  OBVIOUS
<1>1. CASE Connect
  BY <1>1, KeptAtOnce DEF Connect
<1>2. CASE ConnectFails
  BY <1>2, KeptAtOnce DEF ConnectFails, Retry
<1>3. CASE Break
  BY <1>3, KeptAtOnce DEF Break
<1>4. CASE Leave
  BY <1>4, KeptAtOnce DEF Leave, Retry
<1>5. CASE BackoffEnds
  BY <1>5, KeptAtOnce DEF BackoffEnds
<1>6. CASE Stop
  BY <1>6, KeptAtOnce DEF Stop
<1> QED
  BY <1>1, <1>2, <1>3, <1>4, <1>5, <1>6 DEF Link

\* Pull sends a request that covers every offer, unless there is no room.
LEMMA PullPromise == TypeOK /\ Promised /\ Steady /\ Pull => Promised'
<1> SUFFICES ASSUME TypeOK, Steady, Pull, link = "up", ~Full'
             PROVE  \A j \in (pending \ (cooling \cup due))' : Requested(j)'
  BY DEF Promised, Pull, session
<1>1. pulls' = Append(pulls, cooling)
  BY DEF Pull, MayPull, Full, Steady, jobs
<1>2. Len(pulls) + 1 \in 1 .. Len(pulls') /\ pulls'[Len(pulls) + 1] = cooling
  BY <1>1, JoinQueue DEF TypeOK
<1>3. (pending \ (cooling \cup due))' = pending \ (cooling \cup due)
  BY DEF Pull, jobs
<1> QED
  BY <1>2, <1>3 DEF Requested

LEMMA WorkerPromise == TypeOK /\ Promised /\ Steady /\ Worker => Promised'
<1> SUFFICES ASSUME TypeOK, Promised, Steady, Worker PROVE Promised'
  OBVIOUS
<1>1. CASE PullerEnds
  BY <1>1, KeptAtOnce DEF PullerEnds, session
<1>2. CASE Pull
  BY <1>2, PullPromise
<1>3. CASE HeartFails
  BY <1>3, KeepsPromise
     DEF HeartFails, Keeps, Full, Answered, wire, jobs
<1>4. CASE HeartEnds
  BY <1>4, KeptAtOnce DEF HeartEnds
<1> QED
  BY <1>1, <1>2, <1>3, <1>4 DEF Worker

\* A message that is handled has triggered a pull or filled the last slot,
\* or it promised nothing.
LEMMA HandlePromise ==
  TypeOK /\ Promised /\ Steady /\ Handle => Promised' /\ Steady'
<1> SUFFICES ASSUME TypeOK, Promised, Steady, Handle PROVE Promised' /\ Steady'
  OBVIOUS
<1> DEFINE m == Head(inbox)
<1>1. /\ m \in Message /\ m = inbox[1] /\ 1 \in 1 .. Len(inbox)
      /\ \A i \in 1 .. Len(inbox') : i + 1 \in 1 .. Len(inbox) /\ inbox'[i] = inbox[i + 1]
      /\ \A i \in 1 .. Len(inbox) :
           i = 1 \/ (i - 1 \in 1 .. Len(inbox') /\ inbox'[i - 1] = inbox[i])
  BY LeaveQueue DEF TypeOK, Handle
<1>2. Steady'
  BY <1>1 DEF Steady, Handle
<1>3. m \notin Triggering /\ Answered => Answered'
  BY <1>1 DEF Answered
<1>4. CASE Take(m)
  <2>1. trigger' \/ Full'
    BY <1>4 DEF Take, Full
  <2> QED
    BY <2>1, <1>2 DEF Promised
<1>5. CASE Dispatched(m)
  <2>1. m.job \in Jobs /\ m \notin Triggering
    BY <1>1, <1>5, Messages DEF Dispatched, Triggering
  <2>2. Full => Full'
    BY <1>5, <2>1, MoreIsFuller DEF Dispatched
  <2>3. Keeps
    BY <1>3, <1>5, <2>1, <2>2 DEF Keeps, Dispatched, Handle, session
  <2> QED
    BY <2>3, <1>2, KeepsPromise
<1>6. CASE Notified(m)
  BY <1>6, <1>2, KeptAtOnce DEF Notified
<1>7. CASE Configured(m)
  BY <1>7, <1>1 DEF Configured, Steady
<1>8. CASE Ignored(m)
  <2>1. m \notin Triggering
    BY <1>8 DEF Ignored, Triggering
  <2>2. Keeps
    BY <1>3, <1>8, <2>1 DEF Keeps, Ignored, Handle, Full, session
  <2> QED
    BY <2>2, <1>2, KeepsPromise
<1> QED
  BY <1>4, <1>5, <1>6, <1>7, <1>8 DEF Handle

LEMMA JobPromise ==
  TypeOK /\ Promised /\ Steady /\ (\E j \in Jobs : Job(j)) => Promised' /\ Steady'
<1> SUFFICES ASSUME TypeOK, Promised, Steady, NEW j \in Jobs, Job(j)
             PROVE  Promised' /\ Steady'
  OBVIOUS
<1>1. CASE Finish(j)
  BY <1>1, KeptAtOnce DEF Finish, Steady, wire
<1>2. CASE Reject(j)
  <2>1. Steady'
    <3>1. inbox' = inbox \/ inbox' = Append(inbox, Msg("notify", None))
      BY <1>2 DEF Reject, Tell
    <3>2. CASE inbox' = inbox
      BY <1>2, <3>2 DEF Reject, Steady
    <3>3. CASE inbox' = Append(inbox, Msg("notify", None))
      <4>1. Msg("notify", None) \in Message /\ Msg("notify", None).kind # "config"
        BY Messages DEF Msg, Triggering
      <4>2. room'
        BY <1>2 DEF Reject, Steady
      <4> QED
        BY <3>3, <4>1, <4>2, AnswersStay
    <3> QED
      BY <3>1, <3>2, <3>3
  <2>2. Answered => Answered'
    BY <1>2, ToldAnswers DEF Reject
  <2>3. pending' \ (cooling' \cup due') \subseteq pending \ (cooling \cup due)
    BY <1>2 DEF Reject
  <2>4. Keeps
    BY <1>2, <2>2, <2>3 DEF Keeps, Reject, Full, session
  <2> QED
    BY <2>1, <2>4, KeepsPromise
<1>3. CASE Rejected(j)
  BY <1>3, KeptAtOnce DEF Rejected, Steady, wire
<1>4. CASE Expire(j)
  <2>1. cooling' \cup due' = cooling \cup due
    BY <1>4 DEF Expire, TypeOK
  <2>2. Keeps
    BY <1>4, <2>1 DEF Keeps, Expire, Full, Answered, session, wire
  <2> QED
    BY <1>4, <2>2, KeepsPromise DEF Expire, Steady, wire
<1>5. CASE RetryCooled(j)
  BY <1>5, KeptAtOnce DEF RetryCooled, Steady, wire
<1> QED
  BY <1>1, <1>2, <1>3, <1>4, <1>5 DEF Job

\* An answer is a job, or the pull excluded every offer; with no set_config.
LEMMA ControllerPromise ==
  ASSUME ~Resizes
  PROVE  TypeOK /\ Promised /\ Steady /\ Controller => Promised' /\ Steady'
<1> SUFFICES ASSUME TypeOK, Promised, Steady, Controller
             PROVE  Promised' /\ Steady'
  OBVIOUS
<1>1. ASSUME NEW j \in Jobs, NewJob(j) PROVE Promised' /\ Steady'
  <2> DEFINE m == Msg("notify", None)
  <2>1. m \in Message /\ m \in Triggering /\ m.kind # "config"
    BY Messages DEF Msg, Triggering
  <2>2. room'
    BY <1>1 DEF NewJob, Steady
  <2>3. CASE link = "up"
    <3>1. inbox' = Append(inbox, m)
      BY <1>1, <2>3 DEF NewJob, Tell
    <3>2. Answered' /\ Steady'
      BY <2>1, <2>2, <3>1, AnswersStay
    <3> QED
      BY <3>2 DEF Promised
  <2>4. CASE link # "up"
    BY <1>1, <2>4, KeptAtOnce DEF NewJob, Tell, Steady, session
  <2> QED
    BY <2>3, <2>4
<1>2. ASSUME NEW j \in Jobs, Dispatch(j) PROVE Promised' /\ Steady'
  <2> DEFINE m == Msg("dispatch", j)
  <2>1. m \in Message /\ m.kind # "config"
    BY Messages DEF Msg
  <2>2. room' /\ inbox' = Append(inbox, m)
    BY <1>2 DEF Dispatch, Steady, jobs
  <2>3. (Answered => Answered') /\ Steady'
    BY <2>1, <2>2, AnswersStay
  <2>4. Keeps
    BY <1>2, <2>3 DEF Dispatch, Keeps, Full, session, jobs
  <2> QED
    BY <2>3, <2>4, KeepsPromise
<1>3. ASSUME AnswerPull PROVE Promised' /\ Steady'
  <2> DEFINE offers == pending \ Head(pulls)
  <2>1. room'
    BY <1>3 DEF AnswerPull, Steady, jobs
  <2>2. CASE offers = {}
    <3> DEFINE m == Msg("empty", None)
    <3>1. m \in Message /\ m.kind # "config"
      BY Messages DEF Msg
    <3>2. inbox' = Append(inbox, m) /\ pending' = pending
      BY <1>3, <2>2 DEF AnswerPull
    <3>3. (Answered => Answered') /\ Steady'
      BY <3>1, <3>2, <2>1, AnswersStay
    <3>4. ASSUME NEW j \in pending, Requested(j) PROVE Requested(j)'
      <4>1. pulls' = Tail(pulls) /\ j \in Head(pulls)
        BY <1>3, <2>2 DEF AnswerPull
      <4>2. /\ Head(pulls) = pulls[1]
            /\ \A i \in 1 .. Len(pulls) :
                 i = 1 \/ (i - 1 \in 1 .. Len(pulls') /\ pulls'[i - 1] = pulls[i])
        BY <1>3, <4>1, LeaveQueue DEF TypeOK, AnswerPull
      <4> QED
        BY <3>4, <4>1, <4>2 DEF Requested
    <3> QED
      BY <1>3, <3>2, <3>3, <3>4
         DEF Promised, AnswerPull, Full, session, jobs
  <2>3. CASE offers # {}
    <3>1. PICK j \in offers : inbox' = Append(inbox, Msg("job", j))
      BY <1>3, <2>3 DEF AnswerPull
    <3> DEFINE m == Msg("job", j)
    <3>2. m \in Message /\ m \in Triggering /\ m.kind # "config"
      BY <3>1, Messages DEF Msg, Triggering, TypeOK
    <3>3. Answered' /\ Steady'
      BY <3>1, <3>2, <2>1, AnswersStay
    <3> QED
      BY <3>3 DEF Promised
  <2> QED
    BY <2>2, <2>3
<1> QED
  BY <1>1, <1>2, <1>3 DEF Controller, SetConfig

LEMMA SteadyStays ==
  TypeOK /\ Steady /\ (Link \/ Worker) => Steady'
<1> SUFFICES ASSUME TypeOK, Steady, Link \/ Worker PROVE Steady'
  OBVIOUS
<1>1. room' = room /\ (inbox' = inbox \/ inbox' = <<>>)
  BY DEF Link, Worker, Connect, ConnectFails, Break, Leave, BackoffEnds, Stop,
         PullerEnds, Pull, HeartFails, HeartEnds, Cut, wire, jobs
<1>2. CASE inbox' = inbox
  BY <1>1, <1>2 DEF Steady
<1>3. CASE inbox' = <<>>
  BY <1>1, <1>3, Len(<<>>) = 0 DEF Steady
<1> QED
  BY <1>1, <1>2, <1>3

(* A pull worker that sleeps with a free slot has nothing to pull but jobs *)
(* that a cooldown excludes, however the connection breaks and the         *)
(* controller announces, dispatches and answers (ws_client.py:184-228).    *)
THEOREM PullsNeverMissed ==
  ASSUME ~Resizes, ~Tight
  PROVE  Spec => []NoPullMissed
<1> DEFINE IInv == TypeOK /\ Promised /\ Steady
<1>1. Init => IInv
  <2> SUFFICES ASSUME Init PROVE Promised /\ Steady
    BY InitTypes
  <2>1. Len(inbox) = 0
    BY DEF Init
  <2>2. Promised
    BY DEF Init, Promised
  <2>3. room
    BY DEF Init
  <2> QED
    BY <2>1, <2>2, <2>3 DEF Steady
<1>2. IInv /\ [Next]_vars => IInv'
  <2> SUFFICES ASSUME TypeOK, Promised, Steady, [Next]_vars
               PROVE  TypeOK' /\ Promised' /\ Steady'
    OBVIOUS
  <2>1. CASE Link
    BY <2>1, LinkTypes, LinkPromise, SteadyStays
  <2>2. CASE Worker
    BY <2>2, WorkerTypes, WorkerPromise, SteadyStays
  <2>3. CASE Handle
    BY <2>3, HandleTypes, HandlePromise
  <2>4. CASE \E j \in Jobs : Job(j)
    BY <2>4, JobTypes, JobPromise
  <2>5. CASE Controller
    BY <2>5, ControllerTypes, ControllerPromise
  <2>6. CASE UNCHANGED vars
    BY <2>6 DEF vars, TypeOK, Promised, Steady, Full, Answered, Requested
  <2> QED
    BY <2>1, <2>2, <2>3, <2>4, <2>5, <2>6 DEF Next, ResourcesChange
<1>3. IInv => NoPullMissed
  <2> SUFFICES ASSUME Promised, Settled, ~Full, NEW j \in pending
               PROVE  j \in cooling \cup due
    BY DEF NoPullMissed, Full
  <2>1. Len(inbox) = 0 /\ Len(pulls) = 0
    BY DEF Settled
  <2> QED
    BY <2>1 DEF Promised, Settled, Answered, Requested
<1> QED
  BY <1>1, <1>2, <1>3, PTL DEF Spec
=============================================================================
