----------------------------- MODULE JobRunner -----------------------------
(***************************************************************************)
(* scheduler/runner.py with the ASR handler and the reporter: the life of  *)
(* a job from run_job to its settlement with the controller.  A run is one *)
(* task created by run_job; two runs may carry the same job.  A run waits  *)
(* for a permit (Permits is what DynamicSemaphore promises), acquires an   *)
(* engine, downloads its media, runs inference, under a global lock when   *)
(* its engine does not support concurrency, and reports.  An HTTP request  *)
(* ends within its timeout: delivered, lost, or delivered with its         *)
(* response lost.  When the client has returned from start(), asyncio.run  *)
(* cancels every run at the await where it is.                             *)
(***************************************************************************)
EXTENDS Integers, FiniteSets

CONSTANTS Runs,         \* the tasks run_job creates
          Jobs,         \* job ids
          Concurrent,   \* jobs whose engine supports concurrent inference
          Capacities,   \* what set_max_concurrent_jobs may be called with
          None,
          Lossy         \* may HTTP requests fail?

ASSUME RunnerAssumption ==
  /\ IsFiniteSet(Runs)
  /\ Concurrent \subseteq Jobs
  /\ Capacities \subseteq Int
  /\ Lossy \in BOOLEAN
  /\ None \notin Runs

VARIABLES
  pc,         \* where each run is
  job,        \* the job it carries
  active,     \* _active_tasks
  capacity,   \* max_concurrent_jobs, the capacity of the semaphore
  holder,     \* who holds _inference_lock
  files,      \* runs whose temporary media file exists
  refused,    \* runs whose file os.remove could not remove
  told,       \* what the controller has accepted about each run
  connected,  \* is there a current WebSocket?
  cooldown,   \* jobs in the client's _failed_jobs_cooldown
  down        \* has main() returned?

vars == <<pc, job, active, capacity, holder, files, refused, told, connected,
          cooldown, down>>
world == <<capacity, connected, down>>

InHandler ==
  {"preparing", "downloading", "waiting", "locking", "inferring", "settling"}
InSlot == {"acquiring"} \cup InHandler
Stages == {"new", "queued", "failing", "rejecting", "ended", "over"} \cup InSlot
Verdicts == {"completed", "failed", "rejected"}

\* the verdict that the request of a run carries
Underway(r) ==
  CASE pc[r] = "settling" -> {"completed"}
    [] pc[r] = "failing" -> {"failed"}
    [] pc[r] = "rejecting" /\ connected -> {"rejected"}
    [] OTHER -> {}

Slots == {r \in Runs : pc[r] \in InSlot}

Init ==
  /\ pc = [r \in Runs |-> "new"]
  /\ job \in [Runs -> Jobs]
  /\ active = [j \in Jobs |-> None]
  /\ capacity \in Capacities \cap (Nat \ {0})
  /\ holder = None
  /\ files = {}
  /\ refused = {}
  /\ told = [r \in Runs |-> {}]
  /\ connected \in BOOLEAN
  /\ cooldown = {}
  /\ down = FALSE

Goto(r, s) == pc' = [pc EXCEPT ![r] = s]

RunJob(r) ==
  /\ pc[r] = "new" /\ ~down
  /\ Goto(r, "queued")
  /\ active' = [active EXCEPT ![job[r]] = r]
  /\ UNCHANGED <<world, job, holder, files, refused, told, cooldown>>

\* Variant with a bug: one run too many.
AdmitOneMore(r) ==
  /\ pc[r] = "queued"
  /\ Cardinality(Slots) <= capacity
  /\ Goto(r, "acquiring")
  /\ UNCHANGED <<world, job, active, holder, files, refused, told, cooldown>>

Admit(r) ==
  /\ pc[r] = "queued"
  /\ Cardinality(Slots) < capacity
  /\ Goto(r, "acquiring")
  /\ UNCHANGED <<world, job, active, holder, files, refused, told, cooldown>>

\* Variant with a bug: the exception path forgets the file and the lock.
AbortDirty(r) ==
  /\ \E s \in {"failing", "rejecting"} : Goto(r, s)
  /\ UNCHANGED <<files, refused, holder>>

\* The handler removes its file on its way out, once.  The operating system
\* may refuse: that is logged and swallowed, and the file stays.
RemoveFile(r) ==
  \/ /\ r \notin refused
     /\ files' = files \ {r}
     /\ UNCHANGED refused
  \/ /\ r \in files
     /\ refused' = refused \cup {r}
     /\ UNCHANGED files

\* the finally clauses remove the file and give the inference lock back
Unwind(r) ==
  /\ RemoveFile(r)
  /\ holder' = IF holder = r THEN None ELSE holder

\* An exception leaves the handler, the engine and the semaphore.  One that
\* tells of missing memory leads to a rejection, any other to a failure.
Abort(r) ==
  /\ \E s \in {"failing", "rejecting"} : Goto(r, s)
  /\ Unwind(r)

\* no handler for the task type, a load that raises, a failed request (that of
\* a log, too), or an inference that raises
Raise(r) ==
  /\ pc[r] \in {"acquiring", "preparing", "downloading", "waiting", "inferring"}
  /\ Abort(r)
  /\ UNCHANGED <<world, job, active, told, cooldown>>

Acquire(r) ==
  /\ pc[r] = "acquiring"
  /\ Goto(r, "preparing")
  /\ UNCHANGED <<world, job, active, holder, files, refused, told, cooldown>>

\* the first log reports are posted, the file is opened
StartDownload(r) ==
  /\ pc[r] = "preparing"
  /\ Goto(r, "downloading")
  /\ files' = files \cup {r}
  /\ UNCHANGED <<world, job, active, holder, refused, told, cooldown>>

\* A run that finds the inference lock taken first posts a log about it.
Downloaded(r) ==
  /\ pc[r] = "downloading"
  /\ Goto(r, IF job[r] \in Concurrent THEN "inferring"
             ELSE IF holder # None THEN "waiting" ELSE "locking")
  /\ UNCHANGED <<world, job, active, holder, files, refused, told, cooldown>>

WaitLogged(r) ==
  /\ pc[r] = "waiting"
  /\ Goto(r, "locking")
  /\ UNCHANGED <<world, job, active, holder, files, refused, told, cooldown>>

\* Variant with a bug: the lock is only looked at, as before the log message.
LockUnheld(r) ==
  /\ pc[r] = "locking"
  /\ holder = None
  /\ Goto(r, "inferring")
  /\ UNCHANGED <<world, job, active, holder, files, refused, told, cooldown>>

Lock(r) ==
  /\ pc[r] = "locking"
  /\ holder = None
  /\ holder' = r
  /\ Goto(r, "inferring")
  /\ UNCHANGED <<world, job, active, files, refused, told, cooldown>>

Inferred(r) ==
  /\ pc[r] = "inferring"
  /\ Goto(r, "settling")
  /\ holder' = IF holder = r THEN None ELSE holder
  /\ UNCHANGED <<world, job, active, files, refused, told, cooldown>>

\* report_completion("completed"), still inside the slot.  When the request
\* raises, the run goes on as a failed one, accepted or not.
Settle(r) ==
  /\ pc[r] = "settling"
  /\ \/ /\ told' = [told EXCEPT ![r] = @ \cup {"completed"}]
        /\ Goto(r, "ended")
     \/ /\ Lossy
        /\ told' \in {told, [told EXCEPT ![r] = @ \cup {"completed"}]}
        /\ Goto(r, "failing")
  /\ RemoveFile(r)
  /\ UNCHANGED <<world, job, active, holder, cooldown>>

\* report_completion("failed"): an error is logged and swallowed
ReportFailure(r) ==
  /\ pc[r] = "failing"
  /\ Goto(r, "ended")
  /\ \/ told' = [told EXCEPT ![r] = @ \cup {"failed"}]
     \/ Lossy /\ UNCHANGED told
  /\ UNCHANGED <<world, job, active, holder, files, refused, cooldown>>

\* Variant with a bug: a rejected run goes on to report a failure.
RejectAndFail(r) ==
  /\ pc[r] = "rejecting"
  /\ cooldown' = cooldown \cup {job[r]}
  /\ told' = IF connected THEN [told EXCEPT ![r] = @ \cup {"rejected"}] ELSE told
  /\ Goto(r, "failing")
  /\ UNCHANGED <<world, job, active, holder, files, refused>>

\* on_job_rejected: the job cools down, the controller is told if there is a
\* connection
Reject(r) ==
  /\ pc[r] = "rejecting"
  /\ cooldown' = cooldown \cup {job[r]}
  /\ told' = IF connected THEN [told EXCEPT ![r] = @ \cup {"rejected"}] ELSE told
  /\ Goto(r, "ended")
  /\ UNCHANGED <<world, job, active, holder, files, refused>>

\* the done callback of the task
Cleanup(r) ==
  /\ pc[r] = "ended"
  /\ Goto(r, "over")
  /\ active' = [active EXCEPT ![job[r]] = None]
  /\ UNCHANGED <<world, job, holder, files, refused, told, cooldown>>

\* The process ends: a run is cancelled at its await, which is no Exception
\* that the shield would catch.  Of a report that was on its way nobody knows.
Cancelled(r) ==
  /\ down /\ pc[r] \notin {"new", "ended", "over"}
  /\ Goto(r, "ended")
  /\ Unwind(r)
  /\ told' \in {told, [told EXCEPT ![r] = @ \cup Underway(r)]}
  /\ cooldown' = IF pc[r] = "rejecting" THEN cooldown \cup {job[r]} ELSE cooldown
  /\ UNCHANGED <<world, job, active>>

Shutdown ==
  /\ ~down
  /\ down' = TRUE
  /\ UNCHANGED <<pc, job, active, capacity, holder, files, refused, told,
                 connected, cooldown>>

SetMax(c) ==
  /\ c > 0 /\ c # capacity /\ ~down
  /\ capacity' = c
  /\ UNCHANGED <<pc, job, active, holder, files, refused, told, connected,
                 cooldown, down>>

CooldownEnds(j) ==
  /\ j \in cooldown
  /\ cooldown' = cooldown \ {j}
  /\ UNCHANGED <<pc, job, active, capacity, holder, files, refused, told,
                 connected, down>>

\* the client connects or loses its connection
Connection ==
  /\ connected' = ~connected /\ ~down
  /\ UNCHANGED <<pc, job, active, capacity, holder, files, refused, told,
                 cooldown, down>>

-----------------------------------------------------------------------------
Work(r) ==
  \/ Acquire(r) \/ StartDownload(r) \/ Downloaded(r) \/ WaitLogged(r)
  \/ Inferred(r) \/ Settle(r) \/ ReportFailure(r) \/ Reject(r)

Progress(r) == (~down /\ Work(r)) \/ Cancelled(r) \/ Cleanup(r)

Next ==
  \/ \E r \in Runs :
       \/ RunJob(r) \/ Progress(r)
       \/ ~down /\ (Admit(r) \/ Lock(r) \/ Raise(r))
  \/ \E c \in Capacities : SetMax(c)
  \/ \E j \in Jobs : CooldownEnds(j)
  \/ Connection \/ Shutdown

Spec == Init /\ [][Next]_vars

\* Requests, downloads and inferences end; the semaphore and the asyncio lock
\* serve whoever waits.
FairSpec ==
  /\ Spec
  /\ \A r \in Runs :
       /\ WF_vars(Progress(r))
       /\ SF_vars(~down /\ Admit(r)) /\ SF_vars(~down /\ Lock(r))

-----------------------------------------------------------------------------
TypeOK ==
  /\ pc \in [Runs -> Stages]
  /\ job \in [Runs -> Jobs]
  /\ active \in [Jobs -> Runs \cup {None}]
  /\ \A j \in Jobs : active[j] # None => job[active[j]] = j
  /\ \A j \in Jobs : active[j] # None => pc[active[j]] \notin {"new", "over"}
  /\ capacity \in Nat \ {0}
  /\ holder \in Runs \cup {None}
  /\ files \subseteq Runs
  /\ refused \subseteq files
  /\ told \in [Runs -> SUBSET Verdicts]
  /\ connected \in BOOLEAN
  /\ cooldown \subseteq Jobs
  /\ down \in BOOLEAN

(* Two engines that do not support it never run inference at the same time *)
(* (and the lock is held by a run that runs inference, not by a dead one). *)
SerializedInference ==
  \A r \in Runs :
    job[r] \notin Concurrent => (pc[r] = "inferring" <=> holder = r)

(* Whatever step raises and wherever the end of the process cancels a run, *)
(* its handler tries to remove the media file on its way out: a file is    *)
(* there while its handler works on it, or else because the operating      *)
(* system refused to remove it.                                            *)
NoFileLeft == \A r \in files : pc[r] \in InHandler <=> r \notin refused

(* A run that was rejected, and may be given to another node, is neither   *)
(* completed nor failed for the controller.                                *)
RejectedOnly == \A r \in Runs : "rejected" \in told[r] => told[r] = {"rejected"}

(* Every run comes to its end, whatever fails on the way and whenever the  *)
(* process ends: no permit and no lock is kept by a run that is gone.      *)
RunsEnd == \A r \in Runs : pc[r] = "queued" ~> pc[r] = "over"

(* The slots are used as Permits says: a run takes one below the capacity  *)
(* and gives it back once, on every path.                                  *)
Slot == INSTANCE Permits
  WITH Tasks    <- Runs,
       asked    <- {r \in Runs : pc[r] = "queued"},
       holders  <- Slots,
       finished <- {r \in Runs : pc[r] \in {"failing", "rejecting", "ended", "over"}}

SlotsKept == Slot!PSpec

-----------------------------------------------------------------------------
(* What the documentation says and the code does not do.                   *)

(* reporter.py:76, "Report final settlement status": the controller is     *)
(* given one verdict on a run.                                             *)
OneVerdict == \A r \in Runs : Cardinality(told[r]) <= 1

(* README.md:12, "Any task failure is reported to the controller": a run   *)
(* that is over has told the controller how it ended.                      *)
EndIsReported == \A r \in Runs : pc[r] = "over" => told[r] # {}

(* runner.py:59, "Return number of currently active jobs": a job with a    *)
(* run that is not over is counted.                                        *)
ActiveJobsCounted ==
  \A r \in Runs : pc[r] \notin {"new", "over"} => active[job[r]] # None
=============================================================================
