------------------------- MODULE ProjectRetirement -------------------------
(***************************************************************************)
(* The end of a project and the tasks that run in it: DELETE /projects     *)
(* and the overwriting import (server/services/project), the claims of     *)
(* running tasks (lib/project/task_project_claim.py), the records that     *)
(* move to the tombstone name (lib/db/repositories/project_records.py) and *)
(* the worker coroutine that gives up when its claim is revoked.           *)
(*                                                                         *)
(* One project name is modelled.  Directories have identities: `named' is  *)
(* the one that carries the name, 0 when none does, and every path a task  *)
(* or a request uses resolves to whatever directory carries the name at    *)
(* that moment.  Database writes are transactions of SQLite, which admits  *)
(* one writer at a time; the retirement keeps its transaction open while   *)
(* the import renames.                                                     *)
(***************************************************************************)
EXTENDS Naturals, FiniteSets

CONSTANTS Tasks,        \* generation tasks of the project
          Ops,          \* the requests that may run: "delete", "import", "create"
          MaxDirs,      \* bound: directories ever made under the name
          MaxFaults,    \* bound: renames, removals and commits that fail
          MaxDrifts,    \* bound: provider drifts, each sends a task back to the queue
          MaxStops    \* bound: crashes of the server

ASSUME RetirementAssumption ==
    /\ Ops \subseteq {"delete", "import", "create"}
    /\ MaxDirs \in Nat \ {0}
    /\ MaxFaults \in Nat /\ MaxDrifts \in Nat /\ MaxStops \in Nat

VARIABLES
    row,      \* status of the task's row, "absent" before the insert
    tomb,     \* the rows that hang under the tombstone name
    born,     \* the directory the enqueueing request saw
    belated,  \* history: tasks inserted after the retirement of that directory
    co,       \* where the worker coroutine of the task stands
    orphans,  \* running tasks found at the start, still to be resumed
    stale,    \* coroutines that were claimed under the tombstone name
    revoked,  \* _revoked_task_ids of the process
    named,    \* directory that carries the name, 0 for none
    fresh,    \* number of directories made so far
    json,     \* directories with a project.json
    held,     \* directories that hold at least one file
    backup,   \* directories under .import-backup names
    swap,     \* what the import in flight has moved aside and put in place
    retired,  \* history: directories whose retirement committed
    restored, \* history: directories that a failed overwrite put back
    op,       \* where each request stands
    ids,      \* running_task_ids of the open retirement
    writer,   \* request whose transaction is open, "none" otherwise
    faults, drifts, stops

taskRows == <<row, tomb, born, belated, orphans>>
dirs == <<named, fresh, json, held, backup, swap, retired, restored>>
reqs == <<op, ids, writer>>
caps == <<faults, drifts, stops>>
retirementVars == <<taskRows, co, stale, revoked, dirs, reqs, caps>>

NoSwap == [old |-> 0, new |-> 0]
Finished == {"succeeded", "failed", "deleted", "cancelled"}
Places == {"none", "entered", "path", "staged", "checked", "returned", "error", "drifted",
           "succeeding", "erring", "requeueing", "failing", "residue", "sweeping"}

RetirementTypeOK ==
    /\ row \in [Tasks -> {"absent", "asked", "queued", "running"} \cup Finished]
    /\ tomb \subseteq Tasks /\ belated \subseteq Tasks
    /\ orphans \subseteq Tasks
    /\ stale \subseteq Tasks /\ revoked \subseteq Tasks /\ ids \subseteq Tasks
    /\ born \in [Tasks -> 0..MaxDirs]
    /\ co \in [Tasks -> Places]
    /\ named \in 0..fresh /\ fresh \in 0..MaxDirs
    /\ json \subseteq 1..fresh /\ held \subseteq 1..fresh
    /\ backup \subseteq 1..fresh /\ retired \subseteq 1..fresh /\ restored \subseteq 1..fresh
    /\ swap \in [old : 0..fresh, new : 0..fresh]
    /\ op \in [Ops -> {"idle", "publish", "moveOld", "moveNew", "commit", "abort",
                       "discard", "restore", "remove", "removing", "install"}]
    /\ writer \in Ops \cup {"none"}
    /\ faults \in 0..MaxFaults /\ drifts \in 0..MaxDrifts /\ stops \in 0..MaxStops

RetirementInit ==
    /\ row = [t \in Tasks |-> "absent"] /\ tomb = {} /\ belated = {} /\ orphans = {}
    /\ born = [t \in Tasks |-> 0]
    /\ co = [t \in Tasks |-> "none"] /\ stale = {} /\ revoked = {}
    /\ named = 1 /\ fresh = 1 /\ json = {1} /\ held = {1} /\ backup = {} /\ retired = {}
    /\ restored = {}
    /\ swap = NoSwap
    /\ op = [o \in Ops |-> "idle"] /\ ids = {} /\ writer = "none"
    /\ faults = 0 /\ drifts = 0 /\ stops = 0

Goto(t, place) == co' = [co EXCEPT ![t] = place]
Then(o, place) == op' = [op EXCEPT ![o] = place]
Fault == faults < MaxFaults /\ faults' = faults + 1 /\ UNCHANGED <<drifts, stops>>

-----------------------------------------------------------------------------
(* A request enqueues a task: it loads the project, later it inserts the row. *)

Ask(t) ==
    /\ row[t] = "absent"
    /\ named \in json
    /\ row' = [row EXCEPT ![t] = "asked"]
    /\ born' = [born EXCEPT ![t] = named]
    /\ UNCHANGED <<tomb, belated, orphans, co, stale, revoked, dirs, reqs, caps>>

Insert(t) ==
    /\ row[t] = "asked"
    /\ writer = "none"
    /\ row' = [row EXCEPT ![t] = "queued"]
    /\ belated' = IF born[t] \in retired THEN belated \cup {t} ELSE belated
    /\ UNCHANGED <<tomb, born, orphans, co, stale, revoked, dirs, reqs, caps>>

-----------------------------------------------------------------------------
(* The worker coroutine of a task. *)

\* claim_next and claim_task_project: the claim keeps the name the row had.
ClaimTask(t) ==
    /\ row[t] = "queued"
    /\ co[t] = "none"
    /\ writer = "none"
    /\ row' = [row EXCEPT ![t] = "running"]
    /\ stale' = IF t \in tomb THEN stale \cup {t} ELSE stale \ {t}
    /\ Goto(t, "entered")
    /\ UNCHANGED <<tomb, born, belated, orphans, revoked, dirs, reqs, caps>>

\* ensure_task_project_claim raises for the claimed project only; the tombstone
\* is no project name at all.
Ensured(t) == t \notin revoked /\ t \notin stale

\* get_project_path and load_project at the entry of the executor.
GetProjectPath(t) ==
    /\ co[t] = "entered"
    /\ Goto(t, IF Ensured(t) /\ named \in json THEN "path" ELSE "error")
    /\ UNCHANGED <<taskRows, stale, revoked, dirs, reqs, caps>>

\* DispatchProviderChanged, before anything is submitted.
Drift(t) ==
    /\ co[t] = "path"
    /\ drifts < MaxDrifts
    /\ drifts' = drifts + 1
    /\ Goto(t, "drifted")
    /\ UNCHANGED <<taskRows, stale, revoked, dirs, reqs, faults, stops>>

\* The provider is called; mkdir(parents=True) of an output directory makes the
\* project's directory anew when none carries the name.
Stage(t) ==
    /\ co[t] = "path"
    /\ \/ named # 0 /\ UNCHANGED <<named, fresh>>
       \/ named = 0 /\ fresh < MaxDirs /\ fresh' = fresh + 1 /\ named' = fresh + 1
    /\ Goto(t, "staged")
    /\ UNCHANGED <<taskRows, stale, revoked, json, held, backup, swap, retired, restored, reqs, caps>>

\* The executor fails: the provider, the checks, anything before the commit.
Raise(t) ==
    /\ co[t] \in {"path", "staged"}
    /\ Goto(t, "error")
    /\ UNCHANGED <<taskRows, stale, revoked, dirs, reqs, caps>>

\* project_metadata_lock: the claim, then the lock file in the directory.
MayCommit(t) == Ensured(t) /\ named # 0

ProjectMetadataLock(t) ==
    /\ co[t] = "staged"
    /\ Goto(t, IF MayCommit(t) THEN "checked" ELSE "error")
    /\ UNCHANGED <<taskRows, stale, revoked, dirs, reqs, caps>>

\* A formal document (a script, the version history) is written by its path, into
\* the directory that carries the name by then.
WriteFormal(t) ==
    /\ co[t] = "checked"
    /\ IF named # 0
       THEN /\ held' = held \cup {named}
            /\ Goto(t, "returned")
       ELSE /\ Goto(t, "error")
            /\ UNCHANGED held
    /\ UNCHANGED <<taskRows, stale, revoked, named, fresh, json, backup, swap, retired, restored, reqs, caps>>

\* _run_claimed_task looks at claim.revoked once the executor is back.
Judge(t) ==
    /\ co[t] \in {"returned", "error", "drifted"}
    /\ Goto(t, IF t \in revoked THEN "failing"
               ELSE CASE co[t] = "returned" -> "succeeding"
                      [] co[t] = "error"    -> "erring"
                      [] co[t] = "drifted"  -> "requeueing")
    /\ UNCHANGED <<taskRows, stale, revoked, dirs, reqs, caps>>

\* The end of the claim's context forgets its revocation.
LeaveClaim(t) == Goto(t, "none") /\ revoked' = revoked \ {t} /\ stale' = stale \ {t}

\* mark_task_succeeded, mark_task_failed and _requeue_single_task.
Settle(t) ==
    /\ co[t] \in {"succeeding", "erring", "requeueing"}
    /\ writer = "none"
    /\ row' = [row EXCEPT ![t] = CASE co[t] = "succeeding" -> "succeeded"
                                   [] co[t] = "erring"     -> "failed"
                                   [] co[t] = "requeueing" -> "queued"]
    /\ LeaveClaim(t)
    /\ UNCHANGED <<tomb, born, belated, orphans, dirs, reqs, caps>>

\* Mutant: the task fails but leaves the directories it made.
FailWithoutSweep(t) ==
    /\ co[t] = "failing"
    /\ writer = "none"
    /\ row' = [row EXCEPT ![t] = "deleted"]
    /\ LeaveClaim(t)
    /\ UNCHANGED <<tomb, born, belated, orphans, dirs, reqs, caps>>
\* Mutant: the task of a deleted project is not settled.
FailUnsettled(t) ==
    /\ co[t] = "failing"
    /\ writer = "none"
    /\ Goto(t, "residue")
    /\ UNCHANGED <<taskRows, stale, revoked, dirs, reqs, caps>>
\* fail_task_of_deleted_project: the row first, then the residue.
FailTaskOfDeletedProject(t) ==
    /\ co[t] = "failing"
    /\ writer = "none"
    /\ row' = [row EXCEPT ![t] = "deleted"]
    /\ Goto(t, "residue")
    /\ UNCHANGED <<tomb, born, belated, orphans, stale, revoked, dirs, reqs, caps>>

\* remove_project_directory_residue looks for project.json first.
LookForProject(t) ==
    /\ co[t] = "residue"
    /\ IF named \in json \cup {0}
       THEN LeaveClaim(t)
       ELSE Goto(t, "sweeping") /\ UNCHANGED <<revoked, stale>>
    /\ UNCHANGED <<taskRows, dirs, reqs, caps>>

\* os.rmdir succeeds on what is empty.
Sweep(t) ==
    /\ co[t] = "sweeping"
    /\ named' = IF named \in held THEN named ELSE 0
    /\ LeaveClaim(t)
    /\ UNCHANGED <<taskRows, fresh, json, held, backup, swap, retired, restored, reqs, caps>>

-----------------------------------------------------------------------------
(* retiring_project: one transaction around what the caller does to the directory. *)

Running == {t \in Tasks : row[t] = "running" /\ t \notin tomb}

\* revoke_task_project_claims
Revoke == revoked \cup Running

BeginRetirement(o) ==
    /\ o \in {"delete", "import"}
    /\ op[o] = "idle"
    /\ named # 0
    /\ o = "import" => fresh < MaxDirs
    /\ writer = "none"
    /\ writer' = o
    /\ ids' = Running
    /\ revoked' = Revoke
    /\ Then(o, IF o = "import" THEN "moveOld" ELSE "commit")
    /\ UNCHANGED <<taskRows, co, stale, dirs, caps>>

\* retire_project_records: every row under the name moves to the tombstone.
RetireRecords == tomb \cup {t \in Tasks : row[t] \in Finished \cup {"queued", "running"}}

\* The directory whose project ends: the one under the name, or the one the
\* import has moved aside.
CommitRetirement(o) ==
    /\ op[o] = "commit"
    /\ row' = [t \in Tasks |-> IF row[t] = "queued" /\ t \notin tomb THEN "cancelled" ELSE row[t]]
    /\ tomb' = RetireRecords
    /\ retired' = retired \cup (IF o = "delete" THEN {named} \ {0} ELSE {swap.old})
    /\ backup' = IF o = "delete" THEN backup ELSE backup \ {swap.old}
    /\ swap' = IF o = "delete" THEN swap ELSE NoSwap
    /\ writer' = "none" /\ ids' = {}
    /\ Then(o, IF o = "delete" THEN "remove" ELSE "idle")
    /\ UNCHANGED <<born, belated, orphans, co, stale, revoked, named, fresh, json, held, restored, caps>>

CommitFails(o) ==
    /\ op[o] = "commit"
    /\ Fault
    /\ Then(o, "abort")
    /\ UNCHANGED <<taskRows, co, stale, revoked, dirs, ids, writer>>

\* Mutant: the claims stay revoked after the rollback.
RestoreNothing == revoked
\* restore_task_project_claims
Restore == revoked \ ids

\* The transaction rolls back and the claims return before the directory does.
Rollback(o) ==
    /\ op[o] = "abort"
    /\ revoked' = Restore
    /\ writer' = "none" /\ ids' = {}
    /\ Then(o, IF o = "import" /\ swap.old # 0 THEN "discard" ELSE "idle")
    /\ UNCHANGED <<taskRows, co, stale, dirs, caps>>

-----------------------------------------------------------------------------
(* delete_project: the records are retired, then the directory is removed. *)

RemoveDirectory ==
    /\ "delete" \in Ops /\ op["delete"] = "remove"
    /\ json' = json \ {named}
    /\ Then("delete", IF named = 0 THEN "idle" ELSE "removing")
    /\ UNCHANGED <<taskRows, co, stale, revoked, named, fresh, held, backup, swap, retired, restored,
                   ids, writer, caps>>

RemoveRest ==
    /\ "delete" \in Ops /\ op["delete"] = "removing"
    /\ \/ /\ named' = 0
          /\ UNCHANGED caps
       \/ /\ Fault
          /\ UNCHANGED named
    /\ Then("delete", "idle")
    /\ UNCHANGED <<taskRows, co, stale, revoked, fresh, json, held, backup, swap, retired, restored,
                   ids, writer>>

-----------------------------------------------------------------------------
(* _replace_project_dir of the overwriting import. *)

MoveOldAside ==
    /\ "import" \in Ops /\ op["import"] = "moveOld"
    /\ \/ /\ named # 0
          /\ backup' = backup \cup {named} /\ swap' = [NoSwap EXCEPT !.old = named] /\ named' = 0
          /\ Then("import", "moveNew")
          /\ UNCHANGED caps
       \/ /\ (named = 0 /\ UNCHANGED caps) \/ Fault
          /\ Then("import", "abort")
          /\ UNCHANGED <<named, backup, swap>>
    /\ UNCHANGED <<taskRows, co, stale, revoked, fresh, json, held, retired, restored, ids, writer>>

\* prepared_dir.rename(target_dir): the prepared directory arrives complete.
Install(d) ==
    /\ named = 0 /\ d <= MaxDirs
    /\ named' = d /\ fresh' = d /\ json' = json \cup {d} /\ held' = held \cup {d}

\* A directory that a task made in between keeps the rename from succeeding
\* (as does the bound on directories).
MoveNewIn ==
    /\ "import" \in Ops /\ op["import"] = "moveNew"
    /\ \/ /\ Install(fresh + 1)
          /\ swap' = [swap EXCEPT !.new = fresh + 1]
          /\ Then("import", "commit")
          /\ UNCHANGED caps
       \/ /\ ((named # 0 \/ fresh = MaxDirs) /\ UNCHANGED caps) \/ Fault
          /\ Then("import", "abort")
          /\ UNCHANGED <<named, fresh, json, held, swap>>
    /\ UNCHANGED <<taskRows, co, stale, revoked, backup, retired, restored, ids, writer>>

DiscardNew ==
    /\ "import" \in Ops /\ op["import"] = "discard"
    /\ named' = 0 /\ json' = json \ {named}
    /\ Then("import", "restore")
    /\ UNCHANGED <<taskRows, co, stale, revoked, fresh, held, backup, swap, retired, restored,
                   ids, writer, caps>>

\* Mutant: the directory moved aside is removed instead of restored.
RemoveOld ==
    /\ "import" \in Ops /\ op["import"] = "restore"
    /\ backup' = backup \ {swap.old} /\ json' = json \ {swap.old} /\ swap' = NoSwap
    /\ Then("import", "idle")
    /\ UNCHANGED <<taskRows, co, stale, revoked, named, fresh, held, retired, restored, ids, writer, caps>>
\* backup_dir.rename(target_dir) fails on a directory that is not empty.
RestoreOld ==
    /\ "import" \in Ops /\ op["import"] = "restore"
    /\ IF named = 0 THEN /\ named' = swap.old /\ backup' = backup \ {swap.old}
                         /\ restored' = restored \cup {swap.old}
                    ELSE UNCHANGED <<named, backup, restored>>
    /\ swap' = NoSwap
    /\ Then("import", "idle")
    /\ UNCHANGED <<taskRows, co, stale, revoked, fresh, json, held, retired, ids, writer, caps>>

\* Under a name that is free the import replaces nothing, and fails when a
\* directory has come in between.
ImportNew ==
    /\ "import" \in Ops /\ op["import"] = "idle"
    /\ named = 0 /\ fresh < MaxDirs
    /\ Then("import", "install")
    /\ UNCHANGED <<taskRows, co, stale, revoked, dirs, ids, writer, caps>>

InstallNew ==
    /\ "import" \in Ops /\ op["import"] = "install"
    /\ \/ Install(fresh + 1)
       \/ (named # 0 \/ fresh = MaxDirs) /\ UNCHANGED <<named, fresh, json, held>>
    /\ Then("import", "idle")
    /\ UNCHANGED <<taskRows, co, stale, revoked, backup, swap, retired, restored, ids, writer, caps>>

-----------------------------------------------------------------------------
(* create_project: the directory first, project.json later. *)

MakeDirectory ==
    /\ "create" \in Ops /\ op["create"] = "idle"
    /\ named = 0 /\ fresh < MaxDirs
    /\ fresh' = fresh + 1 /\ named' = fresh + 1
    /\ Then("create", "publish")
    /\ UNCHANGED <<taskRows, co, stale, revoked, json, held, backup, swap, retired, restored,
                   ids, writer, caps>>

Publish ==
    /\ "create" \in Ops /\ op["create"] = "publish"
    /\ IF named = 0 THEN UNCHANGED <<json, held>>
                 ELSE json' = json \cup {named} /\ held' = held \cup {named}
    /\ Then("create", "idle")
    /\ UNCHANGED <<taskRows, co, stale, revoked, named, fresh, backup, swap, retired, restored,
                   ids, writer, caps>>

-----------------------------------------------------------------------------
(* The server stops and starts again. *)

ServerStops ==
    /\ stops < MaxStops /\ stops' = stops + 1
    /\ row' = [t \in Tasks |-> IF row[t] = "asked" THEN "absent" ELSE row[t]]
    /\ orphans' = {t \in Tasks : row[t] = "running"}
    /\ co' = [t \in Tasks |-> "none"] /\ stale' = {} /\ revoked' = {}
    /\ op' = [o \in Ops |-> "idle"] /\ writer' = "none" /\ ids' = {} /\ swap' = NoSwap
    /\ UNCHANGED <<tomb, born, belated, named, fresh, json, held, backup, retired, restored,
                   faults, drifts>>

\* VideoResumeRunner.run: under the tombstone name nothing is resumed.
Resume(t) ==
    /\ t \in orphans
    /\ writer = "none"
    /\ orphans' = orphans \ {t}
    /\ IF t \in tomb
       THEN row' = [row EXCEPT ![t] = "deleted"] /\ UNCHANGED co
       ELSE Goto(t, "entered") /\ UNCHANGED row
    /\ UNCHANGED <<tomb, born, belated, stale, revoked, dirs, reqs, caps>>

-----------------------------------------------------------------------------
TaskStep(t) ==
    \/ GetProjectPath(t) \/ Stage(t) \/ Raise(t) \/ ProjectMetadataLock(t) \/ WriteFormal(t)
    \/ Judge(t) \/ Settle(t) \/ FailTaskOfDeletedProject(t) \/ LookForProject(t) \/ Sweep(t)
    \/ Resume(t)

OpStep ==
    \/ \E o \in Ops : CommitRetirement(o) \/ CommitFails(o) \/ Rollback(o)
    \/ RemoveDirectory \/ RemoveRest
    \/ MoveOldAside \/ MoveNewIn \/ DiscardNew \/ RestoreOld
    \/ InstallNew \/ Publish

RetirementNext ==
    \/ \E t \in Tasks : Ask(t) \/ Insert(t) \/ ClaimTask(t) \/ Drift(t) \/ TaskStep(t)
    \/ \E o \in Ops : BeginRetirement(o)
    \/ OpStep
    \/ MakeDirectory \/ ImportNew
    \/ ServerStops

RetirementSpec == RetirementInit /\ [][RetirementNext]_retirementVars

\* The event loop runs every coroutine that can go on, the worker claims what
\* is queued, a request that has begun goes on to its end.
Fairness ==
    /\ \A t \in Tasks : /\ WF_retirementVars(Insert(t))
                       /\ WF_retirementVars(ClaimTask(t))
                       /\ WF_retirementVars(TaskStep(t))
    /\ WF_retirementVars(OpStep)

FairRetirement == RetirementSpec /\ Fairness

\* One user: a second request about the project waits for the first.
OneRequest == \A o, p \in Ops : op[o] # "idle" /\ op[p] # "idle" => o = p

-----------------------------------------------------------------------------
(* A task whose rows were moved while it ran is revoked for as long as it  *)
(* runs under the project's name: every later ensure_task_project_claim    *)
(* refuses it, whoever owns the name by then.                              *)
RetiredIsRevoked ==
    \A t \in tomb \ stale : row[t] = "running" /\ co[t] # "none" => t \in revoked

(* restore_task_project_claims and the exit of the claim leave nothing      *)
(* behind: outside an open retirement no task of a standing project is      *)
(* held revoked.                                                            *)
RevokedIsRetired == revoked \subseteq tomb \cup ids

(* Once its project is retired a task never passes project_metadata_lock,   *)
(* whichever directory carries the name by then and whatever failed and was *)
(* restored before: it gives up its product.                                *)
GivesUp ==
    [][\A t \in Tasks : co[t] = "staged" /\ co'[t] = "checked" => t \notin tomb]_retirementVars

(* retire_project_records leaves no record under the name: whatever was     *)
(* inserted for a retired project before the retirement is under the        *)
(* tombstone, so that no later project of the name inherits it.             *)
InheritsNothing ==
    \A t \in Tasks \ belated :
        row[t] \notin {"absent", "asked"} /\ born[t] \in retired => t \in tomb

(* A directory with a project.json disappears only after its retirement     *)
(* committed, except the one an import put in place and takes back: a       *)
(* failed deletion or a failed overwrite keeps the project.                 *)
OnlyRetiredProjectsEnd ==
    [][\A d \in json \ json' : d \in retired \cup {swap.new}]_retirementVars

(* fail_task_of_deleted_project leaves no skeleton of empty directories     *)
(* under a deleted project's name, which would keep the name from being     *)
(* used again (unless a task was enqueued behind the retirement, the server *)
(* crashed, or an overwrite failed once it had moved the directory aside).   *)
DeletedNameIsFree ==
    /\ \A t \in Tasks : co[t] = "none" /\ row[t] \notin {"asked", "queued", "running"}
    /\ \A o \in Ops : op[o] = "idle"
    /\ belated = {} /\ stops = 0 /\ backup = {} /\ restored = {}
    => named \in held \cup {0}

(* Every task that was enqueued ends, through deletions, failed overwrites, *)
(* drifts to another provider and restarts: nobody waits for a claim or for *)
(* a row that no one will settle.                                           *)
TaskEnds(t) == row[t] \in {"queued", "running"} ~> row[t] \in Finished

(* The claims of running tasks and the records of their project go and come *)
(* back together, though they are kept in two places.                       *)
ClaimsFollowRecords == RetirementTypeOK /\ RetiredIsRevoked /\ RevokedIsRetired

(* A project that takes a name over finds nothing of the former one: no     *)
(* record and no directory.                                                 *)
NameIsFree == InheritsNothing /\ DeletedNameIsFree

(* Only a retirement ends a project, and what belonged to a retired one     *)
(* commits nothing any more.                                                *)
RetirementDecides == OnlyRetiredProjectsEnd /\ GivesUp
=============================================================================
