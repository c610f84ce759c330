------------------------------ MODULE TaskQueue ------------------------------
(***************************************************************************)
(* The rows of the generation queue and the call rows of the usage ledger, *)
(* as the database holds them: one action per committed transaction of     *)
(* TaskRepository and UsageRepository.  Who calls a transaction, and when, *)
(* is not said here (GenerationWorker says it), so whatever this module    *)
(* promises holds for every caller the SQL guards let through.             *)
(*                                                                         *)
(* One project is modelled.  A task id is its place in queued_at order.    *)
(* A Key stands for the tuple of idx_tasks_dedupe_active.                  *)
(***************************************************************************)
EXTENDS Naturals

CONSTANTS
  MaxTasks,   \* bound: how many rows are ever enqueued
  Key,        \* dedupe keys: (task type, resource, script file, resource type)
  LaneOf,     \* the media_type a key's tasks belong to
  Provider,   \* provider ids
  NoProvider  \* provider_id IS NULL

TaskId == 1..MaxTasks
Lanes  == {"image", "video", "audio", "text", "render"}
NoKey  == "no key"
NoDep  == 0

ASSUME QueueConstants ==
  /\ MaxTasks \in Nat
  /\ NoKey \notin Key
  /\ LaneOf \in [Key -> Lanes]
  /\ NoProvider \notin Provider

VARIABLES
  status,  \* tasks.status ("absent": not enqueued yet)
  why,     \* the class of error_message, or cancelled_by
  key,     \* dedupe key of the row
  dep,     \* dependency_task_id
  prov,    \* provider_id
  ckpts,   \* rows whose execution_checkpoint_json is set
  jobs,    \* rows whose provider_job_id is set
  call,    \* status of the task's row in api_calls ("none": no row)
  late     \* history: rows enqueued behind a task that had already failed or
           \* been cancelled, so no cascade will ever reach them

rowVars   == <<status, why, key, dep, prov, ckpts, jobs, late>>
queueVars == <<rowVars, call>>

Active   == {"queued", "running"}
Terminal == {"succeeded", "failed", "cancelled"}
Status   == {"absent"} \cup Active \cup Terminal
Reasons  == {"none", "error", "download", "lost", "dependency",
             "user", "cascade", "interrupted"}
CallEnd  == {"success", "failed", "cancelled"}

QueueTypeOK ==
  /\ status \in [TaskId -> Status]
  /\ why \in [TaskId -> Reasons]
  /\ key \in [TaskId -> Key \cup {NoKey}]
  /\ dep \in [TaskId -> TaskId \cup {NoDep}]
  /\ prov \in [TaskId -> Provider \cup {NoProvider}]
  /\ ckpts \subseteq TaskId
  /\ jobs \subseteq TaskId
  /\ call \in [TaskId -> CallEnd \cup {"none", "pending"}]
  /\ late \subseteq TaskId

QueueInit ==
  /\ status = [t \in TaskId |-> "absent"]
  /\ why    = [t \in TaskId |-> "none"]
  /\ key    = [t \in TaskId |-> NoKey]
  /\ dep    = [t \in TaskId |-> NoDep]
  /\ prov   = [t \in TaskId |-> NoProvider]
  /\ ckpts  = {}
  /\ jobs   = {}
  /\ call   = [t \in TaskId |-> "none"]
  /\ late   = {}

-----------------------------------------------------------------------------
Holding(k) == {t \in TaskId : key[t] = k /\ status[t] \in Active}
IsVideo(t) == key[t] \in Key /\ LaneOf[key[t]] = "video"

(* The queued tasks behind t, at any depth: the least set that holds every *)
(* queued task whose dependency is t or in the set.                        *)
ClosedBehind(t, S) ==
  \A u \in TaskId :
    status[u] = "queued" /\ (dep[u] = t \/ dep[u] \in S) => u \in S
(* Mutant: the walk stops after one level.                                 *)
BehindDirectly(t) == {u \in TaskId : status[u] = "queued" /\ dep[u] = t}
Behind(t) ==
  {u \in TaskId : \A S \in SUBSET TaskId : ClosedBehind(t, S) => u \in S}

(* t leaves for `st', and the queued tasks behind it go with it.           *)
EndWithCascade(t, st, reason, cascadeReason) ==
  /\ status' = [u \in TaskId |-> IF u = t \/ u \in Behind(t) THEN st ELSE status[u]]
  /\ why' = [u \in TaskId |-> IF u = t THEN reason
                              ELSE IF u \in Behind(t) THEN cascadeReason
                              ELSE why[u]]

-----------------------------------------------------------------------------
(* Enqueue.  A second active row for the key is refused by the unique      *)
(* partial index and answered with the existing row, which changes none.   *)
Enqueue(k, d, p) ==
  \E t \in TaskId :
    /\ status[t] = "absent"
    /\ \A u \in TaskId : u < t => status[u] # "absent"
    /\ d # NoDep => status[d] # "absent" /\ LaneOf[k] # "render"
    /\ Holding(k) = {}
    /\ status' = [status EXCEPT ![t] = "queued"]
    /\ key'    = [key EXCEPT ![t] = k]
    /\ dep'    = [dep EXCEPT ![t] = d]
    /\ prov'   = [prov EXCEPT ![t] = p]
    /\ late'   = IF d # NoDep /\ status[d] \in {"failed", "cancelled"}
                 THEN late \cup {t} ELSE late
    /\ UNCHANGED <<why, ckpts, jobs, call>>

Claimable(t, lane, full) ==
  /\ status[t] = "queued"
  /\ LaneOf[key[t]] = lane
  /\ prov[t] \notin full
  /\ dep[t] # NoDep => status[dep[t]] = "succeeded"

(* The oldest claimable task of the lane; `full' are the providers whose   *)
(* pool the caller knows to be full.                                       *)
ClaimNext(t, lane, full) ==
  /\ Claimable(t, lane, full)
  /\ \A u \in TaskId : Claimable(u, lane, full) => t <= u
  /\ status' = [status EXCEPT ![t] = "running"]
  /\ UNCHANGED <<why, key, dep, prov, ckpts, jobs, late, call>>

MarkSucceeded(t) ==
  /\ status[t] = "running"
  /\ status' = [status EXCEPT ![t] = "succeeded"]
  /\ why' = [why EXCEPT ![t] = "none"]
  /\ UNCHANGED <<key, dep, prov, ckpts, jobs, late, call>>

MarkFailed(t, reason) ==
  /\ status[t] = "running"
  /\ EndWithCascade(t, "failed", reason, "dependency")
  /\ UNCHANGED <<key, dep, prov, ckpts, jobs, late, call>>

(* A user cancels a queued task; any other status is refused or skipped.   *)
CancelTask(t) ==
  /\ status[t] = "queued"
  /\ EndWithCascade(t, "cancelled", "user", "cascade")
  /\ UNCHANGED <<key, dep, prov, ckpts, jobs, late, call>>

(* A user cancels the project's queued tasks; renders are left alone, and  *)
(* there is no cascade.                                                    *)
CancelAllQueued ==
  LET hit == {t \in TaskId : status[t] = "queued" /\ LaneOf[key[t]] # "render"}
  IN /\ hit # {}
     /\ status' = [t \in TaskId |-> IF t \in hit THEN "cancelled" ELSE status[t]]
     /\ why' = [t \in TaskId |-> IF t \in hit THEN "user" ELSE why[t]]
     /\ UNCHANGED <<key, dep, prov, ckpts, jobs, late, call>>

(* The fallback of a coroutine torn down by the process.                   *)
FinalizeInterrupted(t) ==
  /\ status[t] \in Active
  /\ EndWithCascade(t, "cancelled", "interrupted", "cascade")
  /\ UNCHANGED <<key, dep, prov, ckpts, jobs, late, call>>

(* A failed download goes back to running and its call row is reopened, in *)
(* one transaction, unless another active row holds the key by now.        *)
(* Mutant: any failure may be retried.                                     *)
RetryAnyFailure(t) ==
  /\ status[t] = "failed"
  /\ prov[t] # NoProvider
  /\ call[t] \in {"failed", "pending"}
  /\ Holding(key[t]) = {}
MayRetryDownload(t) ==
  /\ status[t] = "failed" /\ why[t] = "download"
  /\ t \in jobs
  /\ prov[t] # NoProvider
  /\ call[t] \in {"failed", "pending"}
  /\ Holding(key[t]) = {}
RetryArtifactDownload(t) ==
  /\ MayRetryDownload(t)
  /\ status' = [status EXCEPT ![t] = "running"]
  /\ why' = [why EXCEPT ![t] = "none"]
  /\ call' = [call EXCEPT ![t] = "pending"]
  /\ UNCHANGED <<key, dep, prov, ckpts, jobs, late>>

(* A claimed task is put back in its old place.                            *)
Requeue(t) ==
  /\ status[t] = "running"
  /\ status' = [status EXCEPT ![t] = "queued"]
  /\ UNCHANGED <<why, key, dep, prov, ckpts, jobs, late, call>>

(* The advisory provider record; the UPDATE has no status guard.           *)
RecordProvider(t, p) ==
  /\ status[t] # "absent"
  /\ prov' = [prov EXCEPT ![t] = p]
  /\ UNCHANGED <<status, why, key, dep, ckpts, jobs, late, call>>

(* The once-only checkpoint before the first submission of a video.        *)
MayCheckpoint(t) ==
  status[t] = "running" /\ IsVideo(t) /\ t \notin ckpts /\ t \notin jobs
PersistCheckpoint(t, p) ==
  /\ MayCheckpoint(t)
  /\ ckpts' = ckpts \cup {t}
  /\ prov' = [prov EXCEPT ![t] = p]
  /\ UNCHANGED <<status, why, key, dep, jobs, late, call>>

(* The job id the provider answered with; the UPDATE has no status guard.  *)
PersistJob(t) ==
  /\ status[t] # "absent"
  /\ jobs' = jobs \cup {t}
  /\ UNCHANGED <<status, why, key, dep, prov, ckpts, late, call>>

(* The ledger bracket opens a pending row for the task's call (the latest, *)
(* should there be several) ...                                            *)
OpenCall(t) ==
  /\ status[t] # "absent"
  /\ call' = [call EXCEPT ![t] = "pending"]
  /\ UNCHANGED rowVars

(* ... and closes it whatever its status has become (finish_call).         *)
FinishCall(t, end) ==
  /\ call[t] # "none"
  /\ call' = [call EXCEPT ![t] = end]
  /\ UNCHANGED rowVars

(* Every other settlement touches pending rows only.                       *)
FinalizePending(t, end) ==
  /\ call[t] = "pending"
  /\ call' = [call EXCEPT ![t] = end]
  /\ UNCHANGED rowVars

(* Start-up settlement: pending calls of finished tasks.                   *)
(* Mutant: calls of failed tasks are overlooked.                           *)
SettleCancelledOnly ==
  /\ call' = [t \in TaskId |->
                IF call[t] = "pending" /\ status[t] = "cancelled" THEN "cancelled" ELSE call[t]]
  /\ UNCHANGED rowVars
SettleInterrupted ==
  /\ call' = [t \in TaskId |->
                IF call[t] = "pending" /\ status[t] \in Terminal
                THEN IF status[t] = "cancelled" THEN "cancelled" ELSE "failed"
                ELSE call[t]]
  /\ UNCHANGED rowVars

-----------------------------------------------------------------------------
FailReasons == {"error", "download", "lost"}

QueueNext ==
  \/ \E k \in Key, d \in TaskId \cup {NoDep}, p \in Provider \cup {NoProvider} :
       Enqueue(k, d, p)
  \/ \E t \in TaskId, lane \in Lanes, full \in SUBSET Provider : ClaimNext(t, lane, full)
  \/ \E t \in TaskId : MarkSucceeded(t)
  \/ \E t \in TaskId, reason \in FailReasons : MarkFailed(t, reason)
  \/ \E t \in TaskId : CancelTask(t)
  \/ CancelAllQueued
  \/ \E t \in TaskId : FinalizeInterrupted(t)
  \/ \E t \in TaskId : RetryArtifactDownload(t)
  \/ \E t \in TaskId : Requeue(t)
  \/ \E t \in TaskId, p \in Provider : RecordProvider(t, p)
  \/ \E t \in TaskId, p \in Provider : PersistCheckpoint(t, p)
  \/ \E t \in TaskId : PersistJob(t)
  \/ \E t \in TaskId : OpenCall(t)
  \/ \E t \in TaskId, end \in CallEnd : FinishCall(t, end)
  \/ \E t \in TaskId, end \in CallEnd : FinalizePending(t, end)
  \/ SettleInterrupted

QueueSpec == QueueInit /\ [][QueueNext]_queueVars

-----------------------------------------------------------------------------
(* No two unfinished rows hold one dedupe key, retries included: the       *)
(* retry-download path revives a row next to whatever was enqueued since.  *)
OneActivePerKey ==
  \A t, u \in TaskId :
    key[t] = key[u] /\ status[t] \in Active /\ status[u] \in Active => t = u

(* Whatever has run stands on a finished dependency: claim_next's join is  *)
(* the only way from queued to running, and no later transaction takes     *)
(* "succeeded" away from under a dependent, not even when a task is put    *)
(* back, or fails and is revived by retry-download.                        *)
DependencyRespected ==
  \A t \in TaskId :
    /\ dep[t] # NoDep
    /\ \/ status[t] \in {"running", "succeeded"}
       \/ status[t] = "failed" /\ why[t] \in FailReasons
    => status[dep[t]] = "succeeded"

(* No queued task waits for a dependency that will never succeed: every    *)
(* transaction that ends a task badly takes the queued tasks behind it     *)
(* along.  The exception is a task enqueued after its dependency had       *)
(* ended, which enqueue accepts without a look at the dependency.          *)
CascadeComplete ==
  \A t \in TaskId :
    /\ status[t] = "queued" /\ dep[t] # NoDep
    /\ status[dep[t]] \in {"failed", "cancelled"}
    => t \in late

(* What the rows promise to whoever reads them: one active row of a key,   *)
(* nothing ahead of its dependency, nothing behind a dead one              *)
(* (TaskRepository's guards and cascades taken together).                  *)
RowsAreSound == OneActivePerKey /\ DependencyRespected /\ CascadeComplete

(* A queued render waits for no task, which is what lets the cancel-all of *)
(* a project skip renders and still do without a cascade.                  *)
RenderStandsAlone ==
  \A t \in TaskId :
    status[t] # "absent" /\ LaneOf[key[t]] = "render" => dep[t] = NoDep

(* A verdict stands.  Nothing moves a succeeded or cancelled task, a       *)
(* failed one only comes back to running from a failed download of a job   *)
(* whose id is on record, and a running one is never cancelled for a user. *)
Verdict ==
  \A t \in TaskId :
    /\ status[t] \in {"succeeded", "cancelled"} => status'[t] = status[t]
    /\ status[t] = "failed" /\ status'[t] # "failed" =>
         status'[t] = "running" /\ why[t] = "download" /\ t \in jobs
    /\ status[t] = "running" /\ status'[t] = "cancelled" =>
         why'[t] = "interrupted"
VerdictStands == [][Verdict]_queueVars
=============================================================================
