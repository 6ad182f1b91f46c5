------------------------- MODULE WorkerProcessProofs -------------------------
(***************************************************************************)
(* The safety of a worker process and its proxy, for any number of calls,  *)
(* of requests to sleep and of timer threads.  That a result belongs to    *)
(* its call needs what the queues may hold: commands that name their call, *)
(* and answers to calls that were answered, also those nobody waits for    *)
(* any more.  That the child implements CacheLease needs that a child that *)
(* transcribes is awake, and that no timer runs before it is up.           *)
(***************************************************************************)
EXTENDS WorkerProcess, SequenceTheorems, TLAPS

\* What is in the command queue, and in the response queue when the child has
\* answered the calls a.
Commands == {m \in Command : m.kind = "transcribe" => m.id \in Calls}
Responses(a) ==
  {m \in Message :
     IF m.kind \in {"result", "error"} THEN m.id \in a ELSE m.id = None}

IInv ==
  /\ TypeOK
  /\ cmds \in Seq(Commands)
  /\ resps \in Seq(Responses(answered))
  /\ ResultIsOwn
  /\ StoppedIsGone

-----------------------------------------------------------------------------
LEMMA InitIInv == Init => IInv
<1> SUFFICES ASSUME Init PROVE IInv
  OBVIOUS
<1> USE WorkerAssumption DEF Init
<1>1. \A S : cmds \in Seq(S) /\ resps \in Seq(S)
  BY EmptySeq
<1>2. TypeOK
  <2>1. None \notin Calls
    BY DEF None, Calls
  <2>2. outcome \in [Calls -> Outcomes]
    BY DEF Outcomes
  <2>3. entering \in 0 .. MaxEntering /\ asked \in 0 .. MaxCalls /\ sleeps \in 0 .. MaxSleeps
    OBVIOUS
  <2> QED
    BY <1>1, <2>1, <2>2, <2>3 DEF TypeOK, Setups, Stages, Alive
<1>3. ResultIsOwn /\ StoppedIsGone
  BY DEF ResultIsOwn, StoppedIsGone
<1> QED
  BY <1>1, <1>2, <1>3 DEF IInv

\* A queue of commands is a queue of sane ones, and an answered call stays so.
LEMMA QueuesTyped ==
  /\ \A s \in Seq(Commands) : s \in Seq(Command)
  /\ \A a : \A s \in Seq(Responses(a)) : s \in Seq(Message)
  /\ \A a, b : a \subseteq b =>
       \A s \in Seq(Responses(a)) : s \in Seq(Responses(b))
<1>1. Commands \subseteq Command
  BY DEF Commands
<1>2. \A a : Responses(a) \subseteq Message
  BY DEF Responses
<1>3. \A a, b : a \subseteq b => Responses(a) \subseteq Responses(b)
  BY DEF Responses
<1> QED
  BY <1>1, <1>2, <1>3, SeqMonotonic

\* The steps of the child's life that take no command and give no answer.
LEMMA LifeIInv ==
  ASSUME IInv, Started \/ StartFails \/ EndFailed \/ Crash
  PROVE  IInv'
<1> USE WorkerAssumption DEF IInv, proxyVars, childVars
<1>1. UNCHANGED <<cmds, answered, outcome, stop, proxyVars>>
  BY DEF Started, StartFails, EndFailed, Crash, Gone
<1>2. resps' \in Seq(Responses(answered'))
  <2>1. Msg("ready", None) \in Responses(answered)
        /\ Msg("initError", None) \in Responses(answered)
    BY DEF Responses, Message, Msg
  <2>2. resps' \in {resps, Append(resps, Msg("ready", None)),
                    Append(resps, Msg("initError", None))}
    BY DEF Started, StartFails, EndFailed, Crash
  <2>3. resps \in Seq(Responses(answered))
    OBVIOUS
  <2> HIDE DEF IInv
  <2>4. resps' \in Seq(Responses(answered))
    BY <2>1, <2>2, <2>3, AppendProperties
  <2> QED
    BY <1>1, <2>4
<1>3. TypeOK'
  <2>1. /\ child' \in {"idle", "failing", "gone"} /\ task' = task
        /\ child' = "gone" \/ child = "starting"
    BY DEF Started, StartFails, EndFailed, Crash, Gone
  <2>2. task' \in IF child' = "transcribing" THEN Calls
                  ELSE IF Alive' THEN {None} ELSE Calls \cup {None}
    BY <2>1 DEF TypeOK, Alive
  <2>3. child' \in Stages
    BY <2>1 DEF Stages
  <2>4. UNCHANGED <<flag, kv, entering, raised>> /\ armed' \in BOOLEAN
    BY DEF Started, StartFails, EndFailed, Crash, Gone, TypeOK
  <2> QED
    BY <1>1, <1>2, <2>2, <2>3, <2>4, QueuesTyped DEF TypeOK
<1>4. ResultIsOwn'
  BY <1>1 DEF ResultIsOwn
<1>5. StoppedIsGone'
  BY <1>1 DEF Started, StartFails, EndFailed, Crash, Gone, StoppedIsGone, Alive
<1> QED
  BY <1>1, <1>2, <1>3, <1>4, <1>5

\* A command that is taken.
LEMMA CommandIInv ==
  ASSUME IInv, TakeStop \/ TakeSleep \/ TakeCall
  PROVE  IInv'
<1> USE WorkerAssumption DEF IInv, proxyVars, childVars
<1>1. /\ UNCHANGED <<resps, answered, outcome, stop, proxyVars, entering, raised>>
      /\ child = "idle" /\ cmds # <<>> /\ cmds' = Tail(cmds)
  BY DEF TakeStop, TakeSleep, TakeCall, Commanded
<1>2. Head(cmds) \in Commands /\ cmds' \in Seq(Commands)
  BY <1>1, HeadTailProperties
<1>3. TypeOK'
  <2>1. child' \in Stages
    BY DEF TakeStop, TakeSleep, TakeCall, Stages
  <2>2. task' \in IF child' = "transcribing" THEN Calls
                  ELSE IF Alive' THEN {None} ELSE Calls \cup {None}
    BY <1>1, <1>2 DEF TakeStop, TakeSleep, TakeCall, Commanded, Commands, TypeOK, Alive
  <2>3. flag' \in BOOLEAN /\ kv' \in BOOLEAN /\ armed' \in BOOLEAN
    BY DEF TakeStop, TakeSleep, TakeCall, TypeOK
  <2> QED
    BY <1>1, <1>2, <2>1, <2>2, <2>3, QueuesTyped DEF TypeOK
<1>4. ResultIsOwn' /\ StoppedIsGone'
  BY <1>1 DEF ResultIsOwn, StoppedIsGone, Alive
<1> QED
  BY <1>1, <1>2, <1>3, <1>4

\* An answer, which makes its call an answered one.
LEMMA AnswerIInv ==
  ASSUME IInv, Answer
  PROVE  IInv'
<1> USE WorkerAssumption DEF IInv, proxyVars, childVars, Answer
<1>1. PICK k \in {"result", "error"} : resps' = Append(resps, Msg(k, task))
  OBVIOUS
<1>2. task \in Calls /\ answered \subseteq answered' /\ task \in answered'
  BY DEF TypeOK
<1>3. Msg(k, task) \in Responses(answered')
  BY <1>2 DEF Responses, Message, Msg
<1>4. resps' \in Seq(Responses(answered'))
  BY <1>1, <1>2, <1>3, QueuesTyped, AppendProperties
<1>5. TypeOK'
  <2>1. child' \in Stages /\ task' = None /\ Alive' /\ child' # "transcribing"
    BY DEF Stages, Alive
  <2>2. answered' \subseteq Calls /\ raised' \in BOOLEAN /\ armed' \in BOOLEAN
    BY <1>2 DEF TypeOK
  <2> QED
    BY <1>4, <2>1, <2>2, QueuesTyped DEF TypeOK
<1>6. ResultIsOwn' /\ StoppedIsGone'
  BY DEF ResultIsOwn, StoppedIsGone, Alive
<1> QED
  BY <1>4, <1>5, <1>6

\* The timer threads.
LEMMA TimerIInv ==
  ASSUME IInv, TimerFires \/ EnterSleep
  PROVE  IInv'
<1> USE WorkerAssumption DEF IInv, proxyVars, childVars
<1>1. UNCHANGED <<cmds, resps, answered, outcome, stop, proxyVars, child, task>>
  BY DEF TimerFires, EnterSleep
<1>2. TypeOK'
  <2>1. entering' \in 0 .. MaxEntering
    BY DEF TimerFires, EnterSleep, TypeOK
  <2>2. /\ flag' \in BOOLEAN /\ kv' \in BOOLEAN /\ armed' \in BOOLEAN
        /\ raised' \in BOOLEAN
    BY DEF TimerFires, EnterSleep, TypeOK
  <2> QED
    BY <1>1, <2>1, <2>2 DEF TypeOK, Alive
<1>3. ResultIsOwn' /\ StoppedIsGone'
  BY <1>1 DEF ResultIsOwn, StoppedIsGone, Alive
<1> QED
  BY <1>1, <1>2, <1>3

\* The steps of the proxy that read no answer to a call.
LEMMA RequestIInv ==
  ASSUME IInv, WaitReady \/ Call \/ RequestSleep \/ Stop \/ Join
  PROVE  IInv'
<1> USE WorkerAssumption DEF IInv, proxyVars, childVars
<1>1. /\ UNCHANGED <<answered, outcome, task, flag, kv, armed, entering, raised>>
      /\ child' = child \/ (child' = "gone" /\ Join)
  BY DEF WaitReady, Call, RequestSleep, Stop, Join, Gone
<1>2. resps' \in Seq(Responses(answered'))
  <2>1. resps' = resps \/ (resps # <<>> /\ resps' = Tail(resps))
    BY DEF WaitReady, Call, RequestSleep, Stop, Join
  <2>2. resps \in Seq(Responses(answered))
    OBVIOUS
  <2> HIDE DEF IInv
  <2>3. resps' \in Seq(Responses(answered))
    BY <2>1, <2>2, HeadTailProperties
  <2> QED
    BY <1>1, <2>3
<1>3. cmds' \in Seq(Commands)
  <2>1. /\ Call => Msg("transcribe", asked + 1) \in Commands
        /\ Msg("sleep", None) \in Commands /\ Msg("stop", None) \in Commands
    BY DEF Call, Commands, Command, Msg, Calls, TypeOK
  <2>2. \/ cmds' = cmds
        \/ Call /\ cmds' = Append(cmds, Msg("transcribe", asked + 1))
        \/ cmds' = Append(cmds, Msg("sleep", None))
        \/ cmds' = Append(cmds, Msg("stop", None))
    BY DEF WaitReady, Call, RequestSleep, Stop, Join
  <2>3. cmds \in Seq(Commands)
    OBVIOUS
  <2> HIDE DEF IInv
  <2> QED
    BY <2>1, <2>2, <2>3, AppendProperties
<1>4. TypeOK'
  <2>1. setup' \in Setups /\ sleeping' \in BOOLEAN
    BY DEF WaitReady, Call, RequestSleep, Stop, Join, TypeOK, Setups
  <2>2. asked' \in 0 .. MaxCalls /\ call' \in Calls \cup {None}
    BY DEF WaitReady, Call, RequestSleep, Stop, Join, TypeOK, Calls
  <2>3. sleeps' \in 0 .. MaxSleeps /\ stop' \in {"no", "joining", "done"}
    BY DEF WaitReady, Call, RequestSleep, Stop, Join, TypeOK
  <2>4. /\ child' \in Stages
        /\ task' \in IF child' = "transcribing" THEN Calls
                     ELSE IF Alive' THEN {None} ELSE Calls \cup {None}
    BY <1>1 DEF TypeOK, Alive, Stages
  <2> QED
    BY <1>1, <1>2, <1>3, <2>1, <2>2, <2>3, <2>4, QueuesTyped DEF TypeOK
<1>5. ResultIsOwn'
  BY <1>1 DEF ResultIsOwn
<1>6. StoppedIsGone'
  BY DEF WaitReady, Call, RequestSleep, Stop, Join, Gone, StoppedIsGone, Alive
<1> QED
  BY <1>2, <1>3, <1>4, <1>5, <1>6

\* The end of a call: its own answer, a time-out or the death of the child.
LEMMA EndIInv ==
  ASSUME IInv, Receive \/ GiveUp
  PROVE  IInv'
<1> USE WorkerAssumption DEF IInv, proxyVars, childVars
<1>1. /\ UNCHANGED <<answered, child, task, flag, kv, armed, entering, raised>>
      /\ UNCHANGED <<setup, asked, sleeping, sleeps, stop, cmds>>
      /\ call \in Calls
  BY DEF Receive, GiveUp, TypeOK
<1>2. resps' \in Seq(Responses(answered'))
      /\ (Receive => Head(resps) \in Responses(answered))
  <2>1. resps' = resps \/ (resps # <<>> /\ resps' = Tail(resps))
    BY DEF Receive, GiveUp
  <2>2. resps \in Seq(Responses(answered)) /\ (Receive => resps # <<>>)
    BY DEF Receive
  <2> HIDE DEF IInv
  <2>3. resps' \in Seq(Responses(answered))
    BY <2>1, <2>2, HeadTailProperties
  <2>4. Receive => Head(resps) \in Responses(answered)
    BY <2>2, HeadTailProperties
  <2> QED
    BY <1>1, <2>3, <2>4
<1>3. PICK how \in Outcomes \ {"none"} :
        /\ \/ outcome' = outcome /\ call' = call
           \/ outcome' = [outcome EXCEPT ![call] = how] /\ call' = None
        /\ how \in {"result", "error"} => call \in answered
  <2> HIDE DEF IInv
  <2>1. CASE Receive
    <3>1. CASE Head(resps).id = call
      <4>1. Head(resps).kind \in {"result", "error"} /\ call \in answered
        BY <1>1, <1>2, <2>1, <3>1 DEF Responses, Message, None, Calls
      <4>2. outcome' = [outcome EXCEPT ![call] = Head(resps).kind] /\ call' = None
        BY <2>1, <3>1 DEF Receive, EndCall
      <4> QED
        BY <4>1, <4>2 DEF Outcomes
    <3>2. CASE Head(resps).id # call
      <4>1. outcome' = outcome /\ call' = call
        BY <2>1, <3>2 DEF Receive
      <4>2. "timeout" \in Outcomes \ {"none"}
        BY DEF Outcomes
      <4> QED
        BY <4>1, <4>2
    <3> QED
      BY <3>1, <3>2
  <2>2. CASE GiveUp
    BY <2>2 DEF GiveUp, EndCall, Outcomes
  <2> QED
    BY <2>1, <2>2
<1>4. TypeOK'
  <2>1. outcome' \in [Calls -> Outcomes] /\ call' \in Calls \cup {None}
    BY <1>1, <1>3 DEF TypeOK
  <2> QED
    BY <1>1, <1>2, <2>1, QueuesTyped DEF TypeOK, Alive
<1>5. ResultIsOwn'
  BY <1>1, <1>3 DEF ResultIsOwn, TypeOK
<1>6. StoppedIsGone'
  BY <1>1 DEF StoppedIsGone, Alive
<1> QED
  BY <1>1, <1>2, <1>4, <1>5, <1>6

\* Every step keeps the invariant.
LEMMA NextIInv == IInv /\ [Next]_vars => IInv'
<1> SUFFICES ASSUME IInv, [Next]_vars PROVE IInv'
  OBVIOUS
<1>1. CASE Next
  BY <1>1, LifeIInv, CommandIInv, AnswerIInv, TimerIInv, RequestIInv, EndIInv
     DEF Next, ChildStep, ProxyStep
<1>2. CASE UNCHANGED vars
  <2>1. UNCHANGED <<childVars, proxyVars, cmds, resps>>
    BY <1>2 DEF vars
  <2> QED
    BY <2>1 DEF childVars, proxyVars, IInv, TypeOK, ResultIsOwn, StoppedIsGone, Alive
<1> QED
  BY <1>1, <1>2

LEMMA Invariance == Spec => []IInv
BY InitIInv, NextIInv, PTL DEF Spec

-----------------------------------------------------------------------------
\* The variables of the child and of its proxy keep their types; a child that
\* transcribes does so for a call.
THEOREM WorkerTyped == Spec => []TypeOK
BY Invariance, PTL DEF IInv

\* A late answer is never taken for that of another call.
THEOREM ResultsAreOwn == Spec => []ResultIsOwn
BY Invariance, PTL DEF IInv

\* stop() leaves no process behind.
THEOREM StopLeavesNothing == Spec => []StoppedIsGone
BY Invariance, PTL DEF IInv

\* No step takes the cache from a transcription.
LEMMA StepKeepsCache ==
  [Next]_vars => [child = "transcribing" /\ kv /\ child' = "transcribing" => kv']_vars
<1> SUFFICES ASSUME Next, child = "transcribing", kv, child' = "transcribing"
             PROVE  kv'
  OBVIOUS
<1> QED
  BY DEF Next, ChildStep, ProxyStep, Crash, Gone, Started, StartFails, EndFailed,
         TakeStop, TakeSleep, TakeCall, Commanded, Answer, TimerFires, EnterSleep,
         WaitReady, Call, Receive, GiveUp, RequestSleep, Stop, Join, childVars

\* A timer thread that comes late does not put the engine to sleep under a
\* transcription.
THEOREM TranscriptionsKeepCache == Spec => CacheKeptInUse
BY StepKeepsCache, PTL DEF Spec, CacheKeptInUse
-----------------------------------------------------------------------------
(* The refinement of CacheLease.  Before the child is up nothing can take  *)
(* the cache it starts with, and a child that transcribes is awake.        *)

Fresh ==
  /\ child \in {"starting", "failing"} => ~flag /\ kv /\ ~armed /\ entering = 0
  /\ child = "transcribing" => ~flag

LEMMA InitFresh == Init => Fresh
BY DEF Init, Fresh

LEMMA NextFresh == IInv /\ Fresh /\ [Next]_vars => Fresh'
<1> SUFFICES ASSUME IInv, Fresh, [Next]_vars PROVE Fresh'
  OBVIOUS
<1> USE DEF Fresh, childVars
<1>1. CASE Started \/ StartFails \/ EndFailed \/ Crash
  BY <1>1 DEF Started, StartFails, EndFailed, Crash, Gone
<1>2. CASE TakeStop \/ TakeSleep \/ TakeCall \/ Answer
  BY <1>2 DEF TakeStop, TakeSleep, TakeCall, Answer
<1>3. CASE TimerFires \/ EnterSleep
  BY <1>3 DEF TimerFires, EnterSleep
<1>4. CASE ProxyStep
  BY <1>4 DEF ProxyStep, WaitReady, Call, Receive, GiveUp, RequestSleep, Stop, Join, Gone
<1>5. CASE UNCHANGED vars
  BY <1>5 DEF vars
<1> QED
  BY <1>1, <1>2, <1>3, <1>4, <1>5 DEF Next, ChildStep

LEMMA FreshInvariance == Spec => [](IInv /\ Fresh)
BY InitIInv, NextIInv, InitFresh, NextFresh, PTL DEF Spec

\* The promise begins with the process.
LEMMA InitLease == Init => Cache!CInit
BY DEF Init, Cache!CInit, EngineState

\* A step that leaves the child's stage, its task and its cache alone.
LEMMA LeaseKept ==
  ASSUME UNCHANGED <<child, task, flag, kv>>
  PROVE  UNCHANGED Cache!cvars
BY DEF Cache!cvars, EngineState

\* The end of the process, however it comes.
LEMMA EndCloses ==
  ASSUME child' = "gone", UNCHANGED <<task, flag, kv>>
  PROVE  [Cache!CNext]_(Cache!cvars)
<1>1. CASE child = "gone"
  BY <1>1, LeaseKept
<1>2. CASE child # "gone"
  <2>1. EngineState # "closed" /\ EngineState' = "closed"
    BY <1>2 DEF EngineState
  <2>2. Cache!Close
    BY <2>1 DEF Cache!Close
  <2> QED
    BY <2>2 DEF Cache!CNext
<1> QED
  BY <1>1, <1>2

\* Each step of the child or of its proxy is a step of CacheLease or none.
LEMMA NextLease == IInv /\ Fresh /\ [Next]_vars => [Cache!CNext]_(Cache!cvars)
<1> SUFFICES ASSUME IInv, Fresh, [Next]_vars PROVE [Cache!CNext]_(Cache!cvars)
  OBVIOUS
<1> USE DEF childVars
<1>1. CASE Started
  <2>1. /\ EngineState = "new" /\ EngineState' = "awake"
        /\ kv' /\ task' = task
    BY <1>1 DEF Started, EngineState, Fresh
  <2>2. Cache!Open
    BY <2>1 DEF Cache!Open
  <2> QED
    BY <2>2 DEF Cache!CNext
<1>2. CASE StartFails
  <2>1. /\ EngineState = "new" /\ EngineState' = "new"
        /\ task' = task
    BY <1>2 DEF StartFails, EngineState
  <2> QED
    BY <2>1 DEF Cache!cvars
<1>3. CASE EndFailed \/ TakeStop \/ Crash \/ Join
  <2>1. child' = "gone" /\ UNCHANGED <<task, flag, kv>>
    BY <1>3 DEF EndFailed, TakeStop, Crash, Join, Gone
  <2> QED
    BY <2>1, EndCloses
<1>4. CASE TakeSleep
  <2>1. EngineState' = EngineState /\ UNCHANGED <<task, kv>>
    BY <1>4 DEF TakeSleep, Commanded, EngineState
  <2> QED
    BY <2>1 DEF Cache!cvars
<1>5. CASE TakeCall
  <2>1. task = None /\ task' \in Calls /\ task' # None
    <3>1. Head(cmds) \in Commands
      BY <1>5, HeadTailProperties DEF TakeCall, Commanded, IInv
    <3> QED
      BY <1>5, <3>1 DEF TakeCall, Commanded, Commands, IInv, TypeOK, Alive, None, Calls
  <2>2. EngineState = (IF flag THEN "asleep" ELSE "awake") /\ EngineState' = "awake"
    BY <1>5 DEF TakeCall, Commanded, EngineState
  <2>3. flag \/ kv' = kv
    BY <1>5 DEF TakeCall
  <2>4. flag \in BOOLEAN /\ kv \in BOOLEAN /\ kv' \in BOOLEAN
    BY <1>5 DEF TakeCall, IInv, TypeOK
  <2>5. Cache!Use(task')
    BY <2>1, <2>2, <2>3, <2>4 DEF Cache!Use
  <2> QED
    BY <2>1, <2>5 DEF Cache!CNext
<1>6. CASE Answer
  <2>1. task \in Calls /\ task # None /\ task' = None
    BY <1>6 DEF Answer, IInv, TypeOK, None, Calls
  <2>2. UNCHANGED <<EngineState, kv>>
    BY <1>6 DEF Answer, EngineState
  <2>3. Cache!Done(task)
    BY <2>1, <2>2 DEF Cache!Done
  <2> QED
    BY <2>1, <2>3 DEF Cache!CNext
<1>7. CASE EnterSleep
  <2>1. CASE UNCHANGED <<flag, kv>>
    BY <1>7, <2>1, LeaseKept DEF EnterSleep
  <2>2. CASE ~flag /\ child # "transcribing" /\ flag' = TRUE /\ kv' = FALSE
    <3>1. child \notin {"starting", "failing"}
      BY <1>7 DEF EnterSleep, Fresh
    <3>2. EngineState = "awake" /\ EngineState' = "asleep"
      BY <1>7, <2>2, <3>1 DEF EnterSleep, EngineState, Alive
    <3>3. task = None /\ task' = None
      BY <1>7, <2>2 DEF EnterSleep, IInv, TypeOK
    <3>4. Cache!Sleep
      BY <2>2, <3>2, <3>3 DEF Cache!Sleep
    <3> QED
      BY <3>4 DEF Cache!CNext
  <2> QED
    BY <1>7, <2>1, <2>2 DEF EnterSleep
<1>8. CASE TimerFires \/ WaitReady \/ Call \/ Receive \/ GiveUp \/ RequestSleep \/ Stop
           \/ UNCHANGED vars
  <2>1. UNCHANGED <<child, task, flag, kv>>
    BY <1>8 DEF TimerFires, WaitReady, Call, Receive, GiveUp, RequestSleep, Stop, vars
  <2> QED
    BY <2>1, LeaseKept
<1> QED
  BY <1>1, <1>2, <1>3, <1>4, <1>5, <1>6, <1>7, <1>8 DEF Next, ChildStep, ProxyStep

\* The worker process keeps its engine's cache as CacheLease promises, for any
\* number of calls, timer threads, faults and requests to sleep.
THEOREM WorkerImplementsCache == Spec => CacheLeased
BY FreshInvariance, InitLease, NextLease, PTL DEF Spec, CacheLeased, Cache!CSpec
=============================================================================
