--------------------------- MODULE GenerationBatch ---------------------------
(***************************************************************************)
(* Batches of generation tasks: a batch row with what was requested, the   *)
(* sequential enqueue that turns the requested units into tasks, the wait  *)
(* of an embedded caller for their ends, and the cancellation of a batch.  *)
(* The tasks are those of TaskQueue, and their transactions are its        *)
(* actions; what is new is who is told what about which task.              *)
(*                                                                         *)
(* A unit of a batch is named by the dedupe key of its task, so two        *)
(* batches that request one unit meet in one active task.  The worker is   *)
(* reduced to claiming tasks and ending them (GenerationWorker has it in   *)
(* full).                                                                  *)
(***************************************************************************)
EXTENDS TaskQueue, Sequences, FiniteSets

CONSTANTS
  Batch,        \* submissions
  SpecsOf,      \* batch -> sequence of [unit, after]: what it requests, in order
  NoUnit,       \* `after' of a unit that waits for no other unit
  Waits,        \* batches whose (embedded) caller waits for the ends
  Stops,        \* batches that end the enqueue at its first failure
  Refusals,     \* batches whose enqueue may fail: conflict, database, migration
  Leaves,       \* batches whose caller may be cancelled while it enqueues or waits
  Misreads,     \* batches whose wait may meet an error of the database
  Cancels,      \* batches somebody cancels
  MayGoOffline, \* TRUE: the worker's lease may run out and come back
  MaxRequeues,  \* bound: how often the worker puts a task back
  MaxCrashes    \* bound: how often the server stops

Units(b) == {SpecsOf[b][i].unit : i \in DOMAIN SpecsOf[b]}

ASSUME BatchConstants ==
  /\ SpecsOf \in [Batch -> Seq([unit : Key, after : Key \cup {NoUnit}])]
  /\ NoUnit \notin Key
  /\ Stops \subseteq Batch /\ Refusals \subseteq Batch /\ Leaves \subseteq Batch
  /\ Waits \subseteq Batch /\ Misreads \subseteq Waits /\ Batch \ Waits \subseteq Stops /\ Cancels \subseteq Batch
  /\ MaxRequeues \in Nat /\ MaxCrashes \in Nat

(* A request names each unit once (GenerationBatchRequestSnapshot), and a  *)
(* unit is made to wait only for one accepted before it (plan_asset_sheet_ *)
(* batch, build_storyboard_dependency_plan).                               *)
ASSUME BatchOrder ==
  \A b \in Batch : \A i, j \in DOMAIN SpecsOf[b] :
    /\ SpecsOf[b][i].unit = SpecsOf[b][j].unit => i = j
    /\ SpecsOf[b][i].after = SpecsOf[b][j].unit => j < i

VARIABLES
  rows,      \* batches that have a row in generation_batches
  members,   \* rows of batch_tasks: [batch, unit, task, deduped]
  phase,     \* batch -> where its caller is
  at,        \* batch -> place of the next unit to enqueue
  report,    \* batch -> unit -> what the caller is told of it ("open": nothing yet)
  open,      \* <<batch, unit>> of waits that read an unfinished task and now
             \* look whether the worker is online
  cancel,    \* batch -> its cancellation: what it found, has to do, was refused
  online,    \* the worker's lease is alive
  requeues, crashes

batchVars == <<rows, members, phase, at, report, open, cancel>>
envVars   == <<online, requeues, crashes>>
vars      == <<queueVars, batchVars, envVars>>

Phases   == {"new", "enqueue", "wait", "answered", "raised", "gone"}
(* "unread" is the result with status `failed' and without a task: the     *)
(* wait itself failed.                                                     *)
Outcomes == {"open", "queued", "unqueued", "interrupted", "unread"} \cup Terminal
NoCancel == [state |-> "none", found |-> {}, todo |-> {}, refused |-> {}]
MemberOf(b) == {m \in members : m.batch = b}
TasksOf(b)  == {m.task : m \in MemberOf(b)}
TaskOfUnit(b, u) == CHOOSE t \in TaskId : \E m \in MemberOf(b) : m.unit = u /\ m.task = t
Queued(b, u) == \E m \in MemberOf(b) : m.unit = u
Afters(b, u) == {SpecsOf[b][i].after : i \in {j \in DOMAIN SpecsOf[b] : SpecsOf[b][j].unit = u}}

TypeOK ==
  /\ QueueTypeOK
  /\ rows \subseteq Batch
  /\ members \subseteq [batch : Batch, unit : Key, task : TaskId, deduped : BOOLEAN]
  /\ phase \in [Batch -> Phases]
  /\ at \in [Batch -> Nat]
  /\ DOMAIN report = Batch /\ \A b \in Batch : report[b] \in [Units(b) -> Outcomes]
  /\ open \subseteq Batch \X Key
  /\ cancel \in [Batch -> [state : {"none", "going", "done"}, found : SUBSET TaskId,
                           todo : SUBSET TaskId, refused : SUBSET TaskId]]
  /\ online \in BOOLEAN /\ requeues \in Nat /\ crashes \in Nat

Init ==
  /\ QueueInit
  /\ rows = {} /\ members = {}
  /\ phase = [b \in Batch |-> "new"]
  /\ at = [b \in Batch |-> 1]
  /\ report = [b \in Batch |-> [u \in Units(b) |-> "open"]]
  /\ open = {}
  /\ cancel = [b \in Batch |-> NoCancel]
  /\ online = TRUE /\ requeues = 0 /\ crashes = 0

-----------------------------------------------------------------------------
(* The submission.                                                         *)
Create(b) ==
  /\ phase[b] = "new"
  /\ rows' = rows \cup {b}
  /\ phase' = [phase EXCEPT ![b] = "enqueue"]
  /\ UNCHANGED <<queueVars, members, at, report, open, cancel, envVars>>

Unit(b) == SpecsOf[b][at[b]]
Enqueuing(b) == phase[b] = "enqueue" /\ at[b] <= Len(SpecsOf[b])

(* The unit this one waits for was asked for earlier in the batch and did  *)
(* not reach the queue.                                                    *)
BehindFailure(b) ==
  LET a == Unit(b).after
  IN a \in Units(b) /\ report[b][a] = "unqueued"

\* Mutant: a joined task is no dependency.
DependencyIfNew(b) ==
  LET a == Unit(b).after
  IN IF a # NoUnit /\ (\E m \in MemberOf(b) : m.unit = a /\ ~m.deduped) THEN TaskOfUnit(b, a) ELSE NoDep
DependencyTask(b) ==
  LET a == Unit(b).after
  IN IF a # NoUnit /\ Queued(b, a) THEN TaskOfUnit(b, a) ELSE NoDep

Step(b, outcome) ==
  /\ report' = [report EXCEPT ![b][Unit(b).unit] = outcome]
  /\ at' = [at EXCEPT ![b] = @ + 1]

SkipDependent(b) ==
  /\ Enqueuing(b) /\ BehindFailure(b)
  /\ Step(b, "unqueued")
  /\ UNCHANGED <<queueVars, rows, members, phase, open, cancel, envVars>>

Join(b, t, deduped) ==
  members' = members \cup {[batch |-> b, unit |-> Unit(b).unit, task |-> t, deduped |-> deduped]}

(* A new task.                                                             *)
EnqueueUnit(b) ==
  /\ Enqueuing(b) /\ ~BehindFailure(b) /\ online
  /\ Enqueue(Unit(b).unit, DependencyTask(b), NoProvider)
  /\ \E t \in TaskId : status[t] = "absent" /\ status'[t] = "queued" /\ Join(b, t, FALSE)
  /\ Step(b, "queued")
  /\ UNCHANGED <<rows, phase, open, cancel, envVars>>

(* The unit has an active task: the batch joins it, as it is.              *)
JoinActive(b) ==
  /\ Enqueuing(b) /\ ~BehindFailure(b) /\ online
  /\ \E t \in Holding(Unit(b).unit) : Join(b, t, TRUE)
  /\ Step(b, "queued")
  /\ UNCHANGED <<queueVars, rows, phase, open, cancel, envVars>>

(* The enqueue raises: the worker is offline, the active task has other    *)
(* request facts, the project's migration failed, or the database did.     *)
\* Mutant: what comes after the first failure is not reported.
EnqueueStopsShort(b) ==
  /\ Enqueuing(b) /\ ~BehindFailure(b)
  /\ ~online \/ b \in Refusals
  /\ IF b \in Stops
     THEN /\ report' = [report EXCEPT ![b] =
               [u \in Units(b) |-> IF u = Unit(b).unit
                                   THEN "unqueued" ELSE @[u]]]
          /\ at' = [at EXCEPT ![b] = Len(SpecsOf[b]) + 1]
     ELSE Step(b, "unqueued")
  /\ UNCHANGED <<queueVars, rows, members, phase, open, cancel, envVars>>
EnqueueFails(b) ==
  /\ Enqueuing(b) /\ ~BehindFailure(b)
  /\ ~online \/ b \in Refusals
  /\ IF b \in Stops
     THEN /\ report' = [report EXCEPT ![b] =
               [u \in Units(b) |-> IF \E i \in at[b]..Len(SpecsOf[b]) : SpecsOf[b][i].unit = u
                                   THEN "unqueued" ELSE @[u]]]
          /\ at' = [at EXCEPT ![b] = Len(SpecsOf[b]) + 1]
     ELSE Step(b, "unqueued")
  /\ UNCHANGED <<queueVars, rows, members, phase, open, cancel, envVars>>

EnqueueEnds(b) ==
  /\ phase[b] = "enqueue" /\ at[b] > Len(SpecsOf[b])
  /\ phase' = [phase EXCEPT ![b] = IF b \in Waits THEN "wait" ELSE "answered"]
  /\ UNCHANGED <<queueVars, rows, members, at, report, open, cancel, envVars>>

(* The caller is cancelled: the row goes unless a task came of it.         *)
Leave(b) ==
  /\ b \in Leaves
  /\ phase[b] \in {"enqueue", "wait"}
  /\ phase' = [phase EXCEPT ![b] = "raised"]
  /\ rows' = IF MemberOf(b) = {} THEN rows \ {b} ELSE rows
  /\ open' = {w \in open : w[1] # b}
  /\ UNCHANGED <<queueVars, members, at, report, cancel, envVars>>

-----------------------------------------------------------------------------
(* The wait: each unit's task is polled.                                   *)
Polling(b, u) == phase[b] = "wait" /\ report[b][u] = "queued"
Told(b, u, outcome) == report' = [report EXCEPT ![b][u] = outcome]

ReadEnd(b, u) ==
  /\ Polling(b, u) /\ <<b, u>> \notin open
  /\ status[TaskOfUnit(b, u)] \in Terminal
  /\ Told(b, u, status[TaskOfUnit(b, u)])
  /\ UNCHANGED <<queueVars, rows, members, phase, at, open, cancel, envVars>>

(* The wait is too long: given up in the step that read the task.          *)
TimeOut(b, u) ==
  /\ Polling(b, u) /\ <<b, u>> \notin open
  /\ status[TaskOfUnit(b, u)] \notin Terminal
  /\ Told(b, u, "interrupted")
  /\ UNCHANGED <<queueVars, rows, members, phase, at, open, cancel, envVars>>

ReadOpen(b, u) ==
  /\ Polling(b, u) /\ <<b, u>> \notin open
  /\ status[TaskOfUnit(b, u)] \notin Terminal
  /\ open' = open \cup {<<b, u>>}
  /\ UNCHANGED <<queueVars, rows, members, phase, at, report, cancel, envVars>>

LookOnline(b, u) ==
  /\ <<b, u>> \in open
  /\ open' = open \ {<<b, u>>}
  /\ \/ UNCHANGED report
     \/ ~online /\ Told(b, u, "interrupted")     \* offline longer than the grace
  /\ UNCHANGED <<queueVars, rows, members, phase, at, cancel, envVars>>

(* Either read raises something else: the unit is given up, as failed but  *)
(* without the row of its task, which goes on all the same.                *)
ReadFails(b, u) ==
  /\ b \in Misreads /\ Polling(b, u)
  /\ Told(b, u, "unread")
  /\ open' = open \ {<<b, u>>}
  /\ UNCHANGED <<queueVars, rows, members, phase, at, cancel, envVars>>

WaitEnds(b) ==
  /\ phase[b] = "wait"
  /\ \A u \in Units(b) : report[b][u] # "queued"
  /\ phase' = [phase EXCEPT ![b] = "answered"]
  /\ UNCHANGED <<queueVars, rows, members, at, report, open, cancel, envVars>>

-----------------------------------------------------------------------------
(* The cancellation of a batch: a snapshot of its members, one transaction *)
(* per member that was not finished, and a second look.                    *)
BeginCancel(b) ==
  /\ b \in Cancels /\ b \in rows
  /\ phase[b] \in {"wait", "answered"}
  /\ cancel[b].state = "none"
  /\ cancel' = [cancel EXCEPT ![b] =
       LET unfinished == {t \in TasksOf(b) : status[t] \notin Terminal}
       IN [state |-> "going", found |-> unfinished, todo |-> unfinished, refused |-> {}]]
  /\ UNCHANGED <<queueVars, rows, members, phase, at, report, open, envVars>>

Done(b, t) == cancel' = [cancel EXCEPT ![b].todo = @ \ {t}]

\* Mutant: the first refusal ends the loop.
CancelUntilRefused(b, t) ==
  /\ cancel[b].state = "going" /\ t \in cancel[b].todo
  /\ \/ CancelTask(t) /\ Done(b, t)
     \/ status[t] \in Terminal /\ Done(b, t) /\ UNCHANGED queueVars
     \/ /\ status[t] = "running"
        /\ cancel' = [cancel EXCEPT ![b].todo = {}, ![b].refused = @ \cup {t}]
        /\ UNCHANGED queueVars
  /\ UNCHANGED <<rows, members, phase, at, report, open, envVars>>
CancelMember(b, t) ==
  /\ cancel[b].state = "going" /\ t \in cancel[b].todo
  /\ \/ CancelTask(t) /\ Done(b, t)
     \/ status[t] \in Terminal /\ Done(b, t) /\ UNCHANGED queueVars
     \/ /\ status[t] = "running"
        /\ cancel' = [cancel EXCEPT ![b].todo = @ \ {t}, ![b].refused = @ \cup {t}]
        /\ UNCHANGED queueVars
  /\ UNCHANGED <<rows, members, phase, at, report, open, envVars>>

EndCancel(b) ==
  /\ cancel[b].state = "going" /\ cancel[b].todo = {}
  /\ cancel' = [cancel EXCEPT ![b].state = "done"]
  /\ UNCHANGED <<queueVars, rows, members, phase, at, report, open, envVars>>

-----------------------------------------------------------------------------
(* The worker, and what happens to it.                                     *)
Claim(t) == online /\ ClaimNext(t, "image", {}) /\ UNCHANGED <<batchVars, envVars>>
Finish(t) ==
  /\ MarkSucceeded(t) \/ MarkFailed(t, "error")
  /\ UNCHANGED <<batchVars, envVars>>
PutBack(t) ==
  /\ requeues < MaxRequeues
  /\ Requeue(t)
  /\ requeues' = requeues + 1
  /\ UNCHANGED <<batchVars, online, crashes>>
Lease ==
  /\ MayGoOffline
  /\ online' = ~online
  /\ UNCHANGED <<queueVars, batchVars, requeues, crashes>>

(* The server stops: callers are gone, rows and tasks stay.                *)
Crash ==
  /\ crashes < MaxCrashes
  /\ crashes' = crashes + 1
  /\ phase' = [b \in Batch |-> IF phase[b] \in {"enqueue", "wait"} THEN "gone" ELSE phase[b]]
  /\ open' = {}
  /\ cancel' = [b \in Batch |-> IF cancel[b].state = "going" THEN NoCancel ELSE cancel[b]]
  /\ UNCHANGED <<queueVars, rows, members, at, report, online, requeues>>

Submission(b) ==
  \/ Create(b) \/ SkipDependent(b) \/ EnqueueUnit(b) \/ JoinActive(b)
  \/ EnqueueFails(b) \/ EnqueueEnds(b)
Waiting(b, u) ==
  ReadEnd(b, u) \/ TimeOut(b, u) \/ ReadOpen(b, u) \/ LookOnline(b, u) \/ ReadFails(b, u)

Next ==
  \/ \E b \in Batch : Submission(b) \/ Leave(b) \/ WaitEnds(b) \/ BeginCancel(b) \/ EndCancel(b)
  \/ \E b \in Batch : \E u \in Units(b) : Waiting(b, u)
  \/ \E b \in Batch, t \in TaskId : CancelMember(b, t)
  \/ \E t \in TaskId : Claim(t) \/ Finish(t) \/ PutBack(t)
  \/ Lease \/ Crash

Spec == Init /\ [][Next]_vars

-----------------------------------------------------------------------------
(* A unit created for a batch behind another of its units runs only when   *)
(* the task that unit got, be it new or joined, has succeeded: the order   *)
(* of a batch survives dedupe of the unit in front, requeues, failures and *)
(* cancellations in between.                                               *)
CreatedRunsInOrder ==
  \A m \in members : \A a \in Afters(m.batch, m.unit) :
    /\ ~m.deduped /\ a \in Units(m.batch)
    /\ status[m.task] \in {"running", "succeeded"}
    => Queued(m.batch, a) /\ status[TaskOfUnit(m.batch, a)] = "succeeded"

(* What a caller is told is what became of the batch: every unit is        *)
(* accounted for, one said not to be queued has no task of this batch, and *)
(* an end that was told with the row of its task is the end of that task.  *)
(* A unit whose wait was interrupted, or failed before an end was read     *)
(* (status `failed' too, but without a task), has a task, of which nothing *)
(* is said: it may still run or succeed.                                   *)
AnswerIsTrue ==
  \A b \in Batch : phase[b] = "answered" =>
    \A u \in Units(b) :
      /\ report[b][u] # "open"
      /\ report[b][u] = "unqueued" <=> ~Queued(b, u)
      /\ report[b][u] \in Terminal => status[TaskOfUnit(b, u)] = report[b][u]

(* A caller that left before anything was enqueued leaves no batch behind, *)
(* and no batch with a task is ever taken back.                            *)
NoEmptyOrLostBatch ==
  \A b \in Batch :
    /\ MemberOf(b) # {} => b \in rows
    /\ phase[b] = "raised" /\ MemberOf(b) = {} => b \notin rows

(* A finished cancellation leaves none of the tasks it found in the queue, *)
(* but for those it was refused because they ran, and which the worker put *)
(* back since.                                                             *)
CancelIsThorough ==
  \A b \in Batch : cancel[b].state = "done" =>
    \A t \in cancel[b].found : status[t] = "queued" => t \in cancel[b].refused

(* Whatever a caller is told, and whatever batch is left when one leaves,  *)
(* is what became of its units.                                            *)
AnswersAreTrue == TypeOK /\ AnswerIsTrue /\ NoEmptyOrLostBatch
=============================================================================
