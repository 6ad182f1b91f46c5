--------------------------- MODULE JobRunnerProofs ---------------------------
(***************************************************************************)
(* The safety of JobRunner and its use of the slots, for every finite set  *)
(* of runs, every job id a run may carry and every capacity.  That a       *)
(* rejected run is nothing else is not inductive: a run that can still be  *)
(* rejected must have told the controller nothing yet, which holds of      *)
(* every run that has not settled.  That the inference lock is never kept  *)
(* needs who may hold it, and that no handler leaves its file needs that   *)
(* there is none before it.                                                *)
(***************************************************************************)
EXTENDS JobRunner, FiniteSetTheorems, TLAPS

\* The lock is asked for by runs that need it, and held in the middle of an
\* inference.
Lockers == {"waiting", "locking"}
HolderInfers ==
  /\ \A r \in Runs : pc[r] \in Lockers => job[r] \notin Concurrent
  /\ holder # None => pc[holder] = "inferring" /\ job[holder] \notin Concurrent

\* What a run may have told the controller, by where it is.
Unsettled == {"new", "queued", "acquiring", "rejecting"} \cup InHandler
ToldInTime ==
  \A r \in Runs :
    /\ pc[r] \in Unsettled => told[r] = {}
    /\ pc[r] = "failing" => "rejected" \notin told[r]

\* No run has a file before its handler has one.
Early == {"new", "queued", "acquiring"}
FilesInTime == \A r \in files : pc[r] \notin Early

IInv ==
  /\ TypeOK /\ HolderInfers /\ SerializedInference /\ NoFileLeft
  /\ FilesInTime /\ ToldInTime /\ RejectedOnly

-----------------------------------------------------------------------------
LEMMA InitIInv == Init => IInv
<1> SUFFICES ASSUME Init PROVE IInv
  OBVIOUS
<1> USE RunnerAssumption DEF Init
<1>1. TypeOK
  BY DEF TypeOK, Stages, Verdicts
<1>2. HolderInfers /\ SerializedInference /\ NoFileLeft /\ FilesInTime
  BY DEF HolderInfers, SerializedInference, NoFileLeft, FilesInTime, Lockers
<1>3. ToldInTime /\ RejectedOnly
  BY DEF ToldInTime, RejectedOnly
<1> QED
  BY <1>1, <1>2, <1>3 DEF IInv

\* A run that goes from one stage to another, short of its end, keeps the
\* types if its verdicts do.
LEMMA MoveTyped ==
  ASSUME TypeOK, NEW r \in Runs, NEW s \in Stages \ {"new", "over"},
         Goto(r, s),
         UNCHANGED <<world, job, active>>,
         holder' \in Runs \cup {None}, files' \subseteq Runs,
         refused' \subseteq files',
         told' \in [Runs -> SUBSET Verdicts], cooldown' \subseteq Jobs
  PROVE  TypeOK'
BY DEF TypeOK, Goto, world

\* A step of a run that leaves the lock, the files and the verdicts alone and
\* stays away from inference keeps the invariant.
LEMMA PlainMove ==
  ASSUME IInv, NEW r \in Runs,
         NEW s \in Stages \ {"new", "over", "inferring", "failing", "rejecting"},
         Goto(r, s), pc[r] # "inferring",
         pc[r] \in InHandler => s \in InHandler,
         s \in InHandler => pc[r] \in InHandler \cup Early,
         s \in Early => pc[r] \in Early,
         s \in Unsettled => pc[r] \in Unsettled,
         s \in Lockers => job[r] \notin Concurrent,
         UNCHANGED <<world, job, active, holder, files, refused, told, cooldown>>
  PROVE  IInv'
<1> USE RunnerAssumption DEF IInv
<1>1. TypeOK'
  BY MoveTyped DEF TypeOK
<1>2. HolderInfers' /\ SerializedInference'
  BY DEF TypeOK, Goto, HolderInfers, SerializedInference
<1>3. NoFileLeft' /\ FilesInTime'
  BY DEF TypeOK, Goto, NoFileLeft, FilesInTime
<1>4. ToldInTime' /\ RejectedOnly'
  BY DEF TypeOK, Goto, ToldInTime, RejectedOnly
<1> QED
  BY <1>1, <1>2, <1>3, <1>4

\* A run that leaves the handler keeps a file only if it could not remove it.
LEMMA RemovalKept ==
  ASSUME TypeOK, NoFileLeft, FilesInTime,
         NEW r \in Runs, NEW s \in Stages \ (InHandler \cup Early),
         Goto(r, s), RemoveFile(r)
  PROVE  NoFileLeft' /\ FilesInTime'
BY DEF TypeOK, Goto, RemoveFile, NoFileLeft, FilesInTime

\* An exception keeps the invariant, wherever the handler raises it.
LEMMA RaiseIInv ==
  ASSUME IInv, NEW r \in Runs, Raise(r)
  PROVE  IInv'
<1> USE RunnerAssumption DEF IInv
<1>1. PICK s \in {"failing", "rejecting"} : Goto(r, s)
  BY DEF Raise, Abort, Unwind
<1>2. /\ RemoveFile(r)
      /\ holder' = IF holder = r THEN None ELSE holder
      /\ UNCHANGED <<world, job, active, told, cooldown>>
  BY DEF Raise, Abort, Unwind
<1>3. pc[r] \in Unsettled
  BY DEF Raise, Unsettled, InHandler
<1>4. TypeOK'
  <2>1. s \in Stages \ {"new", "over"}
    BY DEF Stages
  <2>2. holder' \in Runs \cup {None} /\ files' \subseteq Runs
        /\ refused' \subseteq files'
    BY <1>2 DEF TypeOK, RemoveFile
  <2> QED
    BY <1>1, <1>2, <2>1, <2>2, MoveTyped DEF TypeOK
<1>5. HolderInfers' /\ SerializedInference'
  BY <1>1, <1>2 DEF TypeOK, Goto, HolderInfers, SerializedInference, Lockers
<1>6. NoFileLeft' /\ FilesInTime'
  <2>1. s \in Stages \ (InHandler \cup Early)
    BY DEF Stages, InHandler, Early
  <2> QED
    BY <1>1, <1>2, <2>1, RemovalKept
<1>7. ToldInTime' /\ RejectedOnly'
  BY <1>1, <1>2, <1>3
     DEF TypeOK, Goto, ToldInTime, RejectedOnly, Unsettled, InHandler
<1> QED
  BY <1>4, <1>5, <1>6, <1>7

\* The cancellation of a run keeps the invariant, wherever it is.
LEMMA CancelledIInv ==
  ASSUME IInv, NEW r \in Runs, Cancelled(r)
  PROVE  IInv'
<1> USE RunnerAssumption DEF IInv
<1>1. /\ Goto(r, "ended") /\ pc[r] \notin {"new", "ended", "over"}
      /\ RemoveFile(r)
      /\ holder' = IF holder = r THEN None ELSE holder
      /\ UNCHANGED <<world, job, active>>
      /\ cooldown' \in {cooldown, cooldown \cup {job[r]}}
  BY DEF Cancelled, Unwind
<1>2. told' \in {told, [told EXCEPT ![r] = @ \cup Underway(r)]}
  BY DEF Cancelled
<1>3. /\ Underway(r) \subseteq Verdicts
      /\ "rejected" \in Underway(r) => Underway(r) = {"rejected"} /\ told[r] = {}
      /\ "rejected" \in told[r] => Underway(r) = {}
  BY DEF Underway, Verdicts, ToldInTime, Unsettled, InHandler
<1>4. TypeOK'
  <2>1. told' \in [Runs -> SUBSET Verdicts] /\ cooldown' \subseteq Jobs
    BY <1>1, <1>2, <1>3 DEF TypeOK
  <2>2. holder' \in Runs \cup {None} /\ files' \subseteq Runs
        /\ refused' \subseteq files'
    BY <1>1 DEF TypeOK, RemoveFile
  <2> QED
    BY <1>1, <2>1, <2>2, MoveTyped DEF Stages
<1>5. HolderInfers' /\ SerializedInference'
  BY <1>1 DEF TypeOK, Goto, HolderInfers, SerializedInference, Lockers
<1>6. NoFileLeft' /\ FilesInTime'
  <2>1. "ended" \in Stages \ (InHandler \cup Early)
    BY DEF Stages, InHandler, Early
  <2> QED
    BY <1>1, <2>1, RemovalKept
<1>7. ToldInTime' /\ RejectedOnly'
  BY <1>1, <1>2, <1>3
     DEF TypeOK, Goto, ToldInTime, RejectedOnly, Unsettled, InHandler
<1> QED
  BY <1>4, <1>5, <1>6, <1>7

\* Each step of a run in the handler keeps the invariant.
LEMMA HandlerIInv ==
  ASSUME IInv, NEW r \in Runs,
         \/ StartDownload(r) \/ Downloaded(r) \/ WaitLogged(r)
         \/ Lock(r) \/ Inferred(r)
  PROVE  IInv'
<1> USE RunnerAssumption
        DEF IInv, InHandler, InSlot, Stages, Unsettled, Lockers, Early
<1>1. CASE StartDownload(r)
  <2> USE <1>1 DEF StartDownload
  <2>1. TypeOK'
    BY MoveTyped DEF TypeOK
  <2>2. HolderInfers' /\ SerializedInference'
    BY DEF TypeOK, Goto, HolderInfers, SerializedInference
  <2>3. NoFileLeft' /\ FilesInTime'
    BY DEF TypeOK, Goto, NoFileLeft, FilesInTime
  <2>4. ToldInTime' /\ RejectedOnly'
    BY DEF TypeOK, Goto, ToldInTime, RejectedOnly
  <2> QED
    BY <2>1, <2>2, <2>3, <2>4
<1>2. CASE Downloaded(r)
  <2> USE <1>2 DEF Downloaded
  <2>1. CASE job[r] \in Concurrent
    <3>1. Goto(r, "inferring")
      BY <2>1
    <3>2. TypeOK'
      BY <3>1, MoveTyped DEF TypeOK
    <3>3. HolderInfers' /\ SerializedInference'
      BY <2>1, <3>1 DEF TypeOK, Goto, HolderInfers, SerializedInference
    <3>4. NoFileLeft' /\ FilesInTime'
      BY <3>1 DEF TypeOK, Goto, NoFileLeft, FilesInTime
    <3>5. ToldInTime' /\ RejectedOnly'
      BY <3>1 DEF TypeOK, Goto, ToldInTime, RejectedOnly
    <3> QED
      BY <3>2, <3>3, <3>4, <3>5
  <2>2. CASE job[r] \notin Concurrent
    <3>1. PICK s \in {"waiting", "locking"} : Goto(r, s)
      BY <2>2
    <3>2. /\ s \in Stages \ {"new", "over", "inferring", "failing", "rejecting"}
          /\ s \in InHandler /\ pc[r] \in Unsettled /\ pc[r] # "inferring"
      OBVIOUS
    <3> QED
      BY <2>2, <3>1, <3>2, PlainMove
  <2> QED
    BY <2>1, <2>2
<1>3. CASE WaitLogged(r)
  <2> USE <1>3 DEF WaitLogged
  <2>1. job[r] \notin Concurrent
    BY DEF HolderInfers
  <2>2. /\ "locking" \in Stages \ {"new", "over", "inferring", "failing", "rejecting"}
        /\ "locking" \in InHandler /\ pc[r] \in Unsettled /\ pc[r] # "inferring"
    OBVIOUS
  <2> QED
    BY <2>1, <2>2, PlainMove
<1>4. CASE Lock(r)
  <2> USE <1>4 DEF Lock
  <2>1. TypeOK'
    BY MoveTyped DEF TypeOK
  <2>2. job[r] \notin Concurrent
    BY DEF HolderInfers
  <2>3. HolderInfers' /\ SerializedInference'
    BY <2>2 DEF TypeOK, Goto, HolderInfers, SerializedInference
  <2>4. NoFileLeft' /\ FilesInTime'
    BY DEF TypeOK, Goto, NoFileLeft, FilesInTime
  <2>5. ToldInTime' /\ RejectedOnly'
    BY DEF TypeOK, Goto, ToldInTime, RejectedOnly
  <2> QED
    BY <2>1, <2>3, <2>4, <2>5
<1>5. CASE Inferred(r)
  <2> USE <1>5 DEF Inferred
  <2>1. TypeOK'
    BY MoveTyped DEF TypeOK
  <2>2. HolderInfers' /\ SerializedInference'
    BY DEF TypeOK, Goto, HolderInfers, SerializedInference
  <2>3. NoFileLeft' /\ FilesInTime'
    BY DEF TypeOK, Goto, NoFileLeft, FilesInTime
  <2>4. ToldInTime' /\ RejectedOnly'
    BY DEF TypeOK, Goto, ToldInTime, RejectedOnly
  <2> QED
    BY <2>1, <2>2, <2>3, <2>4
<1> QED
  BY <1>1, <1>2, <1>3, <1>4, <1>5
\* Each step of a run outside of the handler keeps the invariant.
LEMMA OutsideIInv ==
  ASSUME IInv, NEW r \in Runs,
         \/ RunJob(r) \/ Admit(r) \/ Acquire(r) \/ Settle(r)
         \/ ReportFailure(r) \/ Reject(r) \/ Cleanup(r)
  PROVE  IInv'
<1> USE RunnerAssumption
        DEF IInv, InHandler, InSlot, Stages, Unsettled, Lockers, Early
<1>1. CASE RunJob(r)
  <2> USE <1>1 DEF RunJob
  <2>1. TypeOK'
    BY DEF TypeOK, Goto, world
  <2>2. HolderInfers' /\ SerializedInference' /\ NoFileLeft' /\ FilesInTime'
    BY DEF TypeOK, Goto, HolderInfers, SerializedInference, NoFileLeft,
           FilesInTime
  <2>3. ToldInTime' /\ RejectedOnly'
    BY DEF TypeOK, Goto, ToldInTime, RejectedOnly
  <2> QED
    BY <2>1, <2>2, <2>3
<1>2. CASE Admit(r)
  <2> USE <1>2 DEF Admit
  <2>1. /\ "acquiring" \in Stages \ {"new", "over", "inferring", "failing", "rejecting"}
        /\ pc[r] \in Unsettled /\ pc[r] \notin InHandler
    OBVIOUS
  <2> QED
    BY <2>1, PlainMove
<1>3. CASE Acquire(r)
  <2> USE <1>3 DEF Acquire
  <2>1. /\ "preparing" \in Stages \ {"new", "over", "inferring", "failing", "rejecting"}
        /\ pc[r] \in Unsettled /\ pc[r] \notin InHandler
    OBVIOUS
  <2> QED
    BY <2>1, PlainMove
<1>4. CASE Settle(r)
  <2> USE <1>4 DEF Settle
  <2>1. PICK s \in {"ended", "failing"} : Goto(r, s)
    OBVIOUS
  <2>2. told' \in {told, [told EXCEPT ![r] = @ \cup {"completed"}]}
    OBVIOUS
  <2>3. told' \in [Runs -> SUBSET Verdicts]
    BY <2>2 DEF TypeOK, Verdicts
  <2>4. TypeOK'
    <3>1. files' \subseteq Runs /\ refused' \subseteq files'
      BY DEF TypeOK, RemoveFile
    <3> QED
      BY <2>1, <2>3, <3>1, MoveTyped DEF TypeOK
  <2>5. HolderInfers' /\ SerializedInference'
    BY <2>1 DEF TypeOK, Goto, HolderInfers, SerializedInference
  <2>6. NoFileLeft' /\ FilesInTime'
    BY <2>1, RemovalKept
  <2>7. ToldInTime' /\ RejectedOnly'
    BY <2>1, <2>2 DEF TypeOK, Goto, ToldInTime, RejectedOnly
  <2> QED
    BY <2>4, <2>5, <2>6, <2>7
<1>5. CASE ReportFailure(r)
  <2> USE <1>5 DEF ReportFailure
  <2>1. told' \in {told, [told EXCEPT ![r] = @ \cup {"failed"}]}
    OBVIOUS
  <2>2. told' \in [Runs -> SUBSET Verdicts]
    BY <2>1 DEF TypeOK, Verdicts
  <2>3. TypeOK'
    BY <2>2, MoveTyped DEF TypeOK
  <2>4. HolderInfers' /\ SerializedInference' /\ NoFileLeft' /\ FilesInTime'
    BY DEF TypeOK, Goto, HolderInfers, SerializedInference, NoFileLeft,
           FilesInTime
  <2>5. ToldInTime' /\ RejectedOnly'
    BY <2>1 DEF TypeOK, Goto, ToldInTime, RejectedOnly
  <2> QED
    BY <2>3, <2>4, <2>5
<1>6. CASE Reject(r)
  <2> USE <1>6 DEF Reject
  <2>1. told' \in {told, [told EXCEPT ![r] = {"rejected"}]}
    BY DEF TypeOK, ToldInTime
  <2>2. told' \in [Runs -> SUBSET Verdicts] /\ cooldown' \subseteq Jobs
    BY <2>1 DEF TypeOK, Verdicts
  <2>3. TypeOK'
    BY <2>2, MoveTyped DEF TypeOK
  <2>4. HolderInfers' /\ SerializedInference' /\ NoFileLeft' /\ FilesInTime'
    BY DEF TypeOK, Goto, HolderInfers, SerializedInference, NoFileLeft,
           FilesInTime
  <2>5. ToldInTime' /\ RejectedOnly'
    BY <2>1 DEF TypeOK, Goto, ToldInTime, RejectedOnly
  <2> QED
    BY <2>3, <2>4, <2>5
<1>7. CASE Cleanup(r)
  <2> USE <1>7 DEF Cleanup
  <2>1. TypeOK'
    BY DEF TypeOK, Goto, world
  <2>2. HolderInfers' /\ SerializedInference' /\ NoFileLeft' /\ FilesInTime'
    BY DEF TypeOK, Goto, HolderInfers, SerializedInference, NoFileLeft,
           FilesInTime
  <2>3. ToldInTime' /\ RejectedOnly'
    BY DEF TypeOK, Goto, ToldInTime, RejectedOnly
  <2> QED
    BY <2>1, <2>2, <2>3
<1> QED
  BY <1>1, <1>2, <1>3, <1>4, <1>5, <1>6, <1>7

\* Every step keeps the invariant.
LEMMA NextIInv == IInv /\ [Next]_vars => IInv'
<1> SUFFICES ASSUME IInv, [Next]_vars PROVE IInv'
  OBVIOUS
<1>1. ASSUME NEW r \in Runs,
             RunJob(r) \/ Admit(r) \/ Lock(r) \/ Progress(r) \/ Raise(r)
      PROVE  IInv'
  BY <1>1, RaiseIInv, CancelledIInv, HandlerIInv, OutsideIInv DEF Progress, Work
<1>2. ASSUME \/ \E c \in Capacities : SetMax(c)
             \/ \E j \in Jobs : CooldownEnds(j)
             \/ Connection \/ Shutdown
             \/ UNCHANGED vars
      PROVE  IInv'
  <2>1. UNCHANGED <<pc, job, active, holder, files, refused, told>>
    BY <1>2 DEF SetMax, CooldownEnds, Connection, Shutdown, vars
  <2>2. capacity' \in Nat \ {0}
    BY <1>2, RunnerAssumption
       DEF IInv, TypeOK, SetMax, CooldownEnds, Connection, Shutdown, vars
  <2>3. connected' \in BOOLEAN /\ cooldown' \subseteq Jobs /\ down' \in BOOLEAN
    BY <1>2 DEF IInv, TypeOK, SetMax, CooldownEnds, Connection, Shutdown, vars
  <2>4. TypeOK'
    BY <2>1, <2>2, <2>3 DEF IInv, TypeOK
  <2> QED
    BY <2>1, <2>4
       DEF IInv, HolderInfers, SerializedInference, NoFileLeft, FilesInTime,
           ToldInTime, RejectedOnly
<1> QED
  BY <1>1, <1>2 DEF Next

LEMMA Invariance == Spec => []IInv
BY InitIInv, NextIInv, PTL DEF Spec

\* The runner's variables keep their types; _active_tasks maps a job to a run
\* of that job that is under way.
THEOREM RunnerTyped == Spec => []TypeOK
BY Invariance, PTL DEF IInv

\* _inference_lock is held by the one run that infers on an engine without
\* concurrency.
THEOREM InferencesSerialized == Spec => []SerializedInference
BY Invariance, PTL DEF IInv

\* A temporary media file on the disk is either in the hands of its run's
\* handler or one that the operating system refused to remove: whatever
\* raises, no handler ends without an attempt at its file.
THEOREM NoFilesLeft == Spec => []NoFileLeft
BY Invariance, PTL DEF IInv

\* A rejected run is neither completed nor failed for the controller.
THEOREM RejectionsAreFinal == Spec => []RejectedOnly
BY Invariance, PTL DEF IInv

-----------------------------------------------------------------------------
(* The refinement of Permits.                                              *)
Asked == {r \in Runs : pc[r] = "queued"}
Released == {"failing", "rejecting", "ended", "over"}
Finished == {r \in Runs : pc[r] \in Released}

\* Permits counts the slots as this module does.
LEMMA SameCardinality ==
  ASSUME NEW S PROVE Slot!Cardinality(S) = Cardinality(S)
BY DEF Slot!Cardinality, Cardinality, Slot!IsFiniteSet, IsFiniteSet

\* At first no run has a slot.
LEMMA InitSlot == Init => Slot!PInit
BY DEF Init, Slot!PInit, Slots, InSlot, InHandler

\* What a move of one run is for the slots.
LEMMA MoveSlot ==
  ASSUME TypeOK, NEW r \in Runs, NEW s \in Stages, Goto(r, s),
         capacity' = capacity
  PROVE  /\ pc[r] \in InSlot /\ s \in InSlot => UNCHANGED Slot!pvars
         /\ pc[r] \in InSlot /\ s \in Released => Slot!Give(r)
         /\ pc[r] \in Released /\ s \in Released => UNCHANGED Slot!pvars
         /\ pc[r] = "queued" /\ s \in Released => Slot!GiveUp(r)
<1> USE DEF TypeOK, Goto, InSlot, InHandler, Released
<1>1. CASE pc[r] \in InSlot /\ s \in InSlot
  <2>1. Slots' = Slots /\ Asked' = Asked /\ Finished' = Finished
    BY <1>1 DEF Slots, Asked, Finished
  <2> QED
    BY <1>1, <2>1 DEF Slot!pvars, Asked, Finished
<1>2. CASE pc[r] \in InSlot /\ s \in Released
  <2>1. Slots' = Slots \ {r} /\ r \in Slots
    BY <1>2 DEF Slots
  <2>2. Asked' = Asked /\ Finished' = Finished \cup {r}
    BY <1>2 DEF Asked, Finished
  <2> QED
    BY <1>2, <2>1, <2>2 DEF Slot!Give, Asked, Finished
<1>3. CASE pc[r] \in Released /\ s \in Released
  <2>1. Slots' = Slots /\ Asked' = Asked /\ Finished' = Finished
    BY <1>3 DEF Slots, Asked, Finished
  <2> QED
    BY <1>3, <2>1 DEF Slot!pvars, Asked, Finished
<1>4. CASE pc[r] = "queued" /\ s \in Released
  <2>1. Slots' = Slots /\ r \in Asked
    BY <1>4 DEF Slots, Asked
  <2>2. Asked' = Asked \ {r} /\ Finished' = Finished \cup {r}
    BY <1>4 DEF Asked, Finished
  <2> QED
    BY <1>4, <2>1, <2>2 DEF Slot!GiveUp, Asked, Finished
<1> QED
  BY <1>1, <1>2, <1>3, <1>4

\* Every step of the runner is a step of Permits or leaves it unchanged.
LEMMA StepSlot == IInv /\ [Next]_vars => [Slot!PNext]_(Slot!pvars)
<1> SUFFICES ASSUME IInv, [Next]_vars
             PROVE  Slot!PNext \/ UNCHANGED Slot!pvars
  OBVIOUS
<1> USE DEF IInv
<1>1. ASSUME NEW r \in Runs, RunJob(r) PROVE Slot!Ask(r)
  <2> USE <1>1 DEF RunJob, TypeOK, Goto
  <2>1. Slots' = Slots /\ Finished' = Finished
    BY DEF Slots, Finished, Released, InSlot, InHandler
  <2>2. Asked' = Asked \cup {r} /\ r \notin Asked \cup Slots \cup Finished
    BY DEF Asked, Slots, Finished, Released, InSlot, InHandler
  <2> QED
    BY <2>1, <2>2 DEF Slot!Ask, Slot!Known, Asked, Finished, Released, world
<1>2. ASSUME NEW r \in Runs, Admit(r) PROVE Slot!Take(r)
  <2> USE <1>2 DEF Admit, TypeOK, Goto
  <2>1. Slots' = Slots \cup {r} /\ r \notin Slots \cup Finished
    BY DEF Slots, Finished, Released, InSlot, InHandler
  <2>2. Asked' = Asked \ {r} /\ Finished' = Finished
    BY DEF Asked, Finished, Released
  <2> QED
    BY <2>1, <2>2, SameCardinality
       DEF Slot!Take, Asked, Finished, Released, world
<1>3. ASSUME NEW r \in Runs, Lock(r) \/ Progress(r) \/ Raise(r)
      PROVE  Slot!Give(r) \/ Slot!GiveUp(r) \/ UNCHANGED Slot!pvars
  <2>1. capacity' = capacity
    BY <1>3 DEF Lock, Progress, Work, Raise, Abort, Acquire, StartDownload,
         Downloaded, WaitLogged, Inferred, Settle, ReportFailure, Reject,
         Cancelled, Cleanup, world
  <2>2. PICK s \in Stages :
          /\ Goto(r, s)
          /\ \/ pc[r] \in InSlot /\ s \in InSlot \cup Released
             \/ pc[r] \in Released /\ s \in Released
             \/ pc[r] = "queued" /\ s \in Released
    BY <1>3 DEF Lock, Progress, Work, Raise, Abort, Acquire, StartDownload,
         Downloaded, WaitLogged, Inferred, Settle, ReportFailure, Reject,
         Cancelled, Cleanup, TypeOK, Stages, InSlot, InHandler, Released
  <2> QED
    BY <2>1, <2>2, MoveSlot
<1>4. ASSUME NEW c \in Capacities, SetMax(c) PROVE Slot!Resize(c)
  BY <1>4 DEF SetMax, Slot!Resize, Slots
<1>5. CASE (\E j \in Jobs : CooldownEnds(j)) \/ Connection \/ Shutdown
          \/ UNCHANGED vars
  BY <1>5 DEF CooldownEnds, Connection, Shutdown, vars, Slot!pvars, Slots
<1> QED
  BY <1>1, <1>2, <1>3, <1>4, <1>5 DEF Next, Slot!PNext

\* The runner uses its slots as Permits says: below the capacity, and each
\* given back once.
THEOREM RunnerImplementsPermits == Spec => SlotsKept
<1>1. Spec => []IInv
  BY Invariance
<1> QED
  BY <1>1, InitSlot, StepSlot, PTL DEF Spec, SlotsKept, Slot!PSpec
=============================================================================
