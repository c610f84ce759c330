--------------------------- MODULE GenerationWorker ---------------------------
(***************************************************************************)
(* The generation worker: processes that share the queue's database, each  *)
(* with a lease heartbeat, a start-up scan for orphans, a claim loop over  *)
(* its lanes, a slot table, and the coroutines it has dispatched.          *)
(*                                                                         *)
(* A process is one event loop: what it does between two awaits is one     *)
(* step, and every database transaction is a step of its own.  A run       *)
(* coroutine executes a claimed task (submit, poll, bill, land); a resume  *)
(* coroutine picks up a provider job after a restart or a failed download. *)
(***************************************************************************)
EXTENDS TaskQueue, FiniteSets

CONSTANTS
  Proc,         \* server processes
  Resumable,    \* providers whose backend implements resume_video
  Tables,       \* the capacity tables the settings may hold; 0: lane not supported
  Builtin,      \* the table a process starts with (CapacityTable.from_env)
  MaxCo,        \* bound: coroutines alive at once
  MaxRestarts,  \* bound: crashes and stops
  MaxFlaps,     \* bound: expiries of the lease of a live process
  MaxRetries,   \* bound: retry-download requests
  MaxSwitches   \* bound: changes of the project's provider or of the settings

WorkLane == {"image", "video"}
CoId     == 1..MaxCo
Free     == "free"   \* no lease row, or an expired one
Dead     == "dead"   \* held, not yet expired, by a process that is gone
NoProc   == "nobody"
NoTask   == 0

ASSUME WorkerConstants ==
  /\ Resumable \subseteq Provider
  /\ Builtin \in Tables
  /\ Tables \subseteq [Provider -> [WorkLane -> Nat]]
  /\ {MaxCo, MaxRestarts, MaxFlaps, MaxRetries, MaxSwitches} \subseteq Nat
  /\ {Free, Dead, NoProc} \cap Proc = {}

VARIABLES
  lease,    \* who holds worker_lease
  proc,     \* per process: the state of _run_loop
  slots,    \* per process: the occupants of its SlotTable
  co,       \* the coroutines
  cfg,      \* the project's provider, and the capacity table the settings hold
  submits,  \* history: generations the provider has accepted, per task
  spent     \* how much of each bound is used up

workerVars == <<lease, proc, slots, co, cfg, submits, spent>>
vars == <<queueVars, workerVars>>

(* pc: the await the main loop is at; round: which scan this process is at; *)
(* table: its CapacityTable.  cap: the semaphore of the dispatch group.    *)
Down == [up |-> "down", owns |-> FALSE, scan |-> TRUE, lost |-> FALSE, pc |-> "lease",
         orphans |-> {}, ready |-> {}, hand |-> NoTask, prov |-> NoProvider, round |-> 0,
         table |-> Builtin]
Idle == [proc |-> NoProc, task |-> NoTask, prov |-> NoProvider, kind |-> "idle",
         ph |-> "idle", why |-> "none", bill |-> FALSE, group |-> 0, cap |-> 0]

RunPhases    == {"exec", "giveback", "opened", "ready", "accepted", "polling",
                 "bill", "land", "unbill", "fail", "void", "quit"}
ResumePhases == {"dispatch", "wait", "look", "polling", "bill", "land", "expire",
                 "fail", "settle", "quit", "drop", "giveup", "writeoff"}

ProcState ==
  [up : {"down", "up", "stopping"}, owns : BOOLEAN, scan : BOOLEAN, lost : BOOLEAN,
   pc : {"lease", "list", "active", "sift", "settle"} \cup WorkLane,
   orphans : SUBSET TaskId, ready : SUBSET TaskId,
   hand : TaskId \cup {NoTask}, prov : Provider \cup {NoProvider},
   round : Nat, table : Tables]
ProcType == proc \in [Proc -> ProcState]
Occupant == [task : TaskId, prov : Provider, co : CoId, pending : BOOLEAN]
SlotsType == slots \in [Proc -> SUBSET Occupant]
Coroutine ==
  [proc : Proc, task : TaskId, prov : Provider, kind : {"run"}, ph : RunPhases,
   why : Reasons, bill : BOOLEAN, group : Nat, cap : Nat]
    \cup [proc : Proc, task : TaskId, prov : Provider, kind : {"resume"}, ph : ResumePhases,
          why : Reasons, bill : BOOLEAN, group : Nat, cap : Nat]
CoType == co \in [CoId -> Coroutine \cup {Idle}]

WorkerTypeOK ==
  /\ lease \in Proc \cup {Free, Dead}
  /\ ProcType
  /\ SlotsType
  /\ CoType
  /\ cfg \in [provider : Provider, table : Tables]
  /\ submits \in [TaskId -> Nat]
  /\ spent \in [{"restarts", "flaps", "retries", "switches"} -> Nat]

WorkerInit ==
  /\ QueueInit
  /\ lease = Free
  /\ proc = [p \in Proc |-> Down]
  /\ slots = [p \in Proc |-> {}]
  /\ co = [c \in CoId |-> Idle]
  /\ cfg \in [provider : Provider, table : Tables]
  /\ submits = [t \in TaskId |-> 0]
  /\ spent = [restarts |-> 0, flaps |-> 0, retries |-> 0, switches |-> 0]

-----------------------------------------------------------------------------
(* Helpers: coroutines and slots.                                          *)
Lane(t) == LaneOf[key[t]]
Live(c) == co[c] # Idle
Working(t) == {c \in CoId : Live(c) /\ co[c].task = t}

(* A future stays referenced by its occupant after it is done.             *)
Unused(c) == ~Live(c) /\ \A p \in Proc : \A s \in slots[p] : s.co # c
FreshCo(c) == Unused(c) /\ \A d \in CoId : Unused(d) => c <= d

Bucket(p, q, lane) == {s \in slots[p] : s.prov = q /\ Lane(s.task) = lane}
Capacity(p, q, lane) == proc[p].table[q][lane]
(* Mutant: off by one.                                                     *)
HasRoomForOneMore(p, q, lane) == Cardinality(Bucket(p, q, lane)) <= Capacity(p, q, lane)
HasRoom(p, q, lane) == Cardinality(Bucket(p, q, lane)) < Capacity(p, q, lane)
(* A provider whose occupants fill its pool is left out of the claim.      *)
PoolFull(p, lane) ==
  {q \in Provider : Capacity(p, q, lane) > 0 /\ Bucket(p, q, lane) # {} /\ ~HasRoom(p, q, lane)}
Vacated(p, t, q) == {s \in slots[p] : ~(s.task = t /\ s.prov = q)}
Register(p, t, q, c, pending) ==
  slots' = [slots EXCEPT ![p] =
              Vacated(p, t, q) \cup {[task |-> t, prov |-> q, co |-> c, pending |-> pending]}]
ActiveTasks(p) == {s.task : s \in slots[p]}
Undrained(p) == {s \in slots[p] : s.pending \/ Live(s.co)}

Go(c, ph) == co' = [co EXCEPT ![c].ph = ph]
GoWhy(c, ph, reason) == co' = [co EXCEPT ![c].ph = ph, ![c].why = reason]
End(c) == co' = [co EXCEPT ![c] = Idle]
Spend(what, bound) == spent[what] < bound /\ spent' = [spent EXCEPT ![what] = @ + 1]

(* The guarded updates: no row in the right status, nothing happens.       *)
TryMarkFailed(t, reason) ==
  IF status[t] = "running" THEN MarkFailed(t, reason) ELSE UNCHANGED queueVars
TryMarkSucceeded(t) ==
  IF status[t] = "running" THEN MarkSucceeded(t) ELSE UNCHANGED queueVars
TryInterrupt(t) ==
  IF status[t] \in Active THEN FinalizeInterrupted(t) ELSE UNCHANGED queueVars
(* Mutant: the WHERE status = 'pending' is missing.                        *)
FinalizeAny(t, end) ==
  IF call[t] # "none" THEN FinishCall(t, end) ELSE UNCHANGED queueVars
TryFinalize(t, end) ==
  IF call[t] = "pending" THEN FinalizePending(t, end) ELSE UNCHANGED queueVars

-----------------------------------------------------------------------------
(* Users, and the project's configuration.                                 *)

(* The web API enqueues with the provider the project has now, or with     *)
(* none when it cannot be told; tasks behind a predecessor name it.        *)
UserEnqueue ==
  /\ \E k \in Key, d \in TaskId \cup {NoDep}, p \in {cfg.provider, NoProvider} :
       Enqueue(k, d, p)
  /\ UNCHANGED workerVars

UserCancel ==
  /\ \/ \E t \in TaskId : CancelTask(t)
     \/ CancelAllQueued
  /\ UNCHANGED workerVars

(* The project moves to another provider, or the saved limits change.      *)
Reconfigure ==
  /\ Spend("switches", MaxSwitches)
  /\ \/ \E q \in Provider \ {cfg.provider} : cfg' = [cfg EXCEPT !.provider = q]
     \/ \E table \in Tables \ {cfg.table} : cfg' = [cfg EXCEPT !.table = table]
  /\ UNCHANGED <<queueVars, lease, proc, slots, co, submits>>

(* The handler that saved provider settings refreshes its own process.     *)
ReloadLimits(p) ==
  /\ proc[p].up = "up" /\ proc[p].table # cfg.table
  /\ proc' = [proc EXCEPT ![p].table = cfg.table]
  /\ UNCHANGED <<queueVars, lease, slots, co, cfg, submits, spent>>

(* POST /tasks/{id}/retry-download: the rows first, then a dispatcher that *)
(* has yet to register the resume.                                         *)
RetryDownload(p) ==
  \E t \in TaskId, c \in CoId :
    /\ proc[p].up = "up" /\ FreshCo(c)
    /\ Spend("retries", MaxRetries)
    /\ RetryArtifactDownload(t)
    /\ co' = [co EXCEPT ![c] = [Idle EXCEPT !.proc = p, !.task = t, !.prov = prov[t],
                                            !.kind = "resume", !.ph = "dispatch"]]
    /\ UNCHANGED <<lease, proc, slots, cfg, submits>>

-----------------------------------------------------------------------------
(* Processes and the lease.                                                *)
Start(p) ==
  /\ proc[p].up = "down"
  /\ proc' = [proc EXCEPT ![p] = [Down EXCEPT !.up = "up"]]
  /\ UNCHANGED <<queueVars, lease, slots, co, cfg, submits, spent>>

(* What a process leaves behind is what the database holds.                *)
Gone(p) ==
  /\ proc' = [proc EXCEPT ![p] = Down]
  /\ slots' = [slots EXCEPT ![p] = {}]
  /\ co' = [c \in CoId |-> IF co[c].proc = p THEN Idle ELSE co[c]]

Crash(p) ==
  /\ proc[p].up # "down"
  /\ Spend("restarts", MaxRestarts)
  /\ Gone(p)
  /\ lease' = IF lease = p THEN Dead ELSE lease
  /\ UNCHANGED <<queueVars, cfg, submits>>

LeaseExpires ==
  /\ \/ lease = Dead /\ UNCHANGED spent
     \/ lease \in Proc /\ Spend("flaps", MaxFlaps)
  /\ lease' = Free
  /\ UNCHANGED <<queueVars, proc, slots, co, cfg, submits>>

StopSignal(p) ==
  /\ proc[p].up = "up"
  /\ Spend("restarts", MaxRestarts)
  /\ proc' = [proc EXCEPT ![p].up = "stopping"]
  /\ UNCHANGED <<queueVars, lease, slots, co, cfg, submits>>

(* The main loop has ended: once the dispatchers (the last scan's and the  *)
(* retries') with their resumes, and whatever holds a slot, are done, the  *)
(* lease is released and the process goes.                                 *)
StopDone(p) ==
  /\ proc[p].up = "stopping" /\ proc[p].pc = "lease"
  /\ \A c \in CoId :
       co[c].proc = p /\ co[c].kind = "resume" => co[c].group \notin {0, proc[p].round}
  /\ \A s \in slots[p] : ~Live(s.co)
  /\ Gone(p)
  /\ lease' = IF proc[p].owns /\ lease = p THEN Free ELSE lease
  /\ UNCHANGED <<queueVars, cfg, submits, spent>>

-----------------------------------------------------------------------------
(* The main loop.                                                          *)
AtLoop(p, pc) == proc[p].up # "down" /\ proc[p].pc = pc
NextLane(lane) == IF lane = "image" THEN "video" ELSE "lease"

(* A lease is renewed by its holder or taken when it has expired.          *)
MayHold(p) == lease \in {p, Free}

(* Renew or take the lease, drain finished occupants, and decide whether   *)
(* this is a take-over that has to be scanned for: the first one is, a     *)
(* later one if the lease was lost for longer than three times its ttl.    *)
Heartbeat(p) ==
  LET got == MayHold(p)
  IN /\ AtLoop(p, "lease") /\ proc[p].up = "up"
     /\ lease' = IF got THEN p ELSE lease
     /\ slots' = [slots EXCEPT ![p] = Undrained(p)]
     /\ \E scan \in IF got /\ proc[p].lost THEN {proc[p].scan, TRUE} ELSE {proc[p].scan} :
          proc' = [proc EXCEPT
            ![p].owns = got,
            ![p].lost = ~got /\ (@ \/ proc[p].owns),
            ![p].scan = scan,
            ![p].pc = IF ~got THEN "lease" ELSE IF scan THEN "list" ELSE "image"]
     /\ UNCHANGED <<queueVars, co, cfg, submits, spent>>

(* Recovery reads the running rows ...                                     *)
ScanList(p) ==
  LET running == {t \in TaskId : status[t] = "running"}
  IN /\ AtLoop(p, "list")
     /\ proc' = [proc EXCEPT
          ![p].orphans = running,
          ![p].ready = {t \in running : /\ Lane(t) = "video"
                                        /\ t \in ckpts /\ t \in jobs
                                        /\ prov[t] \in Resumable},
          ![p].round = @ + 1,
          ![p].pc = IF running = {} THEN "settle" ELSE "active"]
     /\ UNCHANGED <<queueVars, lease, slots, co, cfg, submits, spent>>

(* ... then leaves out what its own slot table holds ...                   *)
(* Mutant: the process forgets what it is working on itself.               *)
ScanEverything(p) ==
  /\ AtLoop(p, "active")
  /\ proc' = [proc EXCEPT ![p].pc = "sift"]
  /\ UNCHANGED <<queueVars, lease, slots, co, cfg, submits, spent>>
ScanActive(p) ==
  /\ AtLoop(p, "active")
  /\ proc' = [proc EXCEPT ![p].orphans = @ \ ActiveTasks(p),
                          ![p].ready = @ \ ActiveTasks(p),
                          ![p].pc = "sift"]
  /\ UNCHANGED <<queueVars, lease, slots, co, cfg, submits, spent>>

(* ... ends what cannot be picked up again ...                             *)
(* Mutant: the task is run again instead.                                  *)
RequeueOrphan(p) ==
  \E t \in proc[p].orphans \ proc[p].ready :
    /\ AtLoop(p, "sift")
    /\ IF status[t] = "running" THEN Requeue(t) ELSE UNCHANGED queueVars
    /\ proc' = [proc EXCEPT ![p].orphans = @ \ {t}]
    /\ UNCHANGED <<lease, slots, co, cfg, submits, spent>>
FailOrphan(p) ==
  \E t \in proc[p].orphans \ proc[p].ready :
    /\ AtLoop(p, "sift")
    /\ TryMarkFailed(t, "lost")
    /\ proc' = [proc EXCEPT ![p].orphans = @ \ {t}]
    /\ UNCHANGED <<lease, slots, co, cfg, submits, spent>>

(* ... and hands the rest to the dispatcher, which registers them before   *)
(* the main loop has its next row back from the database.  A dispatcher    *)
(* that finds the stop event set leaves the row for the next start; one    *)
(* that finds no capacity reloads the limits, and then gives the task up.  *)
Refreshed(p, q) == IF Capacity(p, q, "video") = 0 THEN cfg.table ELSE proc[p].table
DispatchTo(p, t, q, c, group) ==
  LET cap == Refreshed(p, q)[q]["video"]
      it  == [Idle EXCEPT !.proc = p, !.task = t, !.prov = q, !.kind = "resume",
                          !.group = group, !.cap = cap]
  IN \/ /\ cap = 0
        /\ co' = [co EXCEPT ![c] = [it EXCEPT !.ph = "giveup"]]
        /\ UNCHANGED slots
     \/ /\ cap > 0
        /\ co' = [co EXCEPT ![c] = [it EXCEPT !.ph = "wait"]]
        /\ Register(p, t, q, c, TRUE)

DispatchOrphan(p) ==
  \E t \in proc[p].ready, c \in CoId :
    /\ AtLoop(p, "sift") /\ proc[p].orphans = proc[p].ready
    /\ FreshCo(c)
    /\ \/ /\ proc[p].up = "up"
          /\ DispatchTo(p, t, prov[t], c, proc[p].round)
          /\ proc' = [proc EXCEPT ![p].orphans = @ \ {t}, ![p].ready = @ \ {t},
                                  ![p].table = Refreshed(p, prov[t])]
       \/ /\ proc[p].up = "stopping"
          /\ proc' = [proc EXCEPT ![p].orphans = @ \ {t}, ![p].ready = @ \ {t}]
          /\ UNCHANGED <<co, slots>>
    /\ UNCHANGED <<queueVars, lease, cfg, submits, spent>>

(* Mutant: the loop goes on before recovery is through.                    *)
ScanCutShort(p) ==
  /\ AtLoop(p, "sift")
  /\ proc' = [proc EXCEPT ![p].pc = "settle"]
  /\ UNCHANGED <<queueVars, lease, slots, co, cfg, submits, spent>>
ScanDone(p) ==
  /\ AtLoop(p, "sift") /\ proc[p].orphans = {}
  /\ proc' = [proc EXCEPT ![p].pc = "settle"]
  /\ UNCHANGED <<queueVars, lease, slots, co, cfg, submits, spent>>

Settle(p) ==
  /\ AtLoop(p, "settle")
  /\ SettleInterrupted
  /\ proc' = [proc EXCEPT ![p].scan = FALSE, ![p].pc = "image"]
  /\ UNCHANGED <<lease, slots, co, cfg, submits, spent>>

(* The claim loop asks one lane after the other, without the providers     *)
(* whose pool is full; the slot goes by the recorded provider, or by the   *)
(* project's when none is recorded or it does not serve the lane.          *)
Claim(p) ==
  \E lane \in WorkLane, t \in TaskId :
    /\ AtLoop(p, lane) /\ proc[p].hand = NoTask
    /\ ClaimNext(t, lane, PoolFull(p, lane))
    /\ proc' = [proc EXCEPT
         ![p].hand = t,
         ![p].prov = IF prov[t] \in Provider /\ Capacity(p, prov[t], lane) > 0
                     THEN prov[t] ELSE NoProvider]
    /\ UNCHANGED <<lease, slots, co, cfg, submits, spent>>

LaneEmpty(p) ==
  \E lane \in WorkLane :
    /\ AtLoop(p, lane) /\ proc[p].hand = NoTask
    /\ \A t \in TaskId : ~Claimable(t, lane, PoolFull(p, lane))
    /\ proc' = [proc EXCEPT ![p].pc = NextLane(lane)]
    /\ UNCHANGED <<queueVars, lease, slots, co, cfg, submits, spent>>

InHand(p, t) == proc[p].up # "down" /\ proc[p].hand = t
HandEmptied(p) == proc' = [proc EXCEPT ![p].hand = NoTask, ![p].prov = NoProvider]

ProjectProvider(p) ==
  \E t \in TaskId :
    /\ InHand(p, t) /\ proc[p].prov = NoProvider
    /\ RecordProvider(t, cfg.provider)
    /\ proc' = [proc EXCEPT ![p].prov = cfg.provider]
    /\ UNCHANGED <<lease, slots, co, cfg, submits, spent>>

RefuseLane(p) ==
  \E t \in TaskId :
    /\ InHand(p, t) /\ proc[p].prov # NoProvider
    /\ Capacity(p, proc[p].prov, Lane(t)) = 0
    /\ TryMarkFailed(t, "error")
    /\ HandEmptied(p)
    /\ UNCHANGED <<lease, slots, co, cfg, submits, spent>>

PutBack(p) ==
  \E t \in TaskId :
    /\ InHand(p, t) /\ proc[p].prov # NoProvider
    /\ Capacity(p, proc[p].prov, Lane(t)) > 0
    /\ ~HasRoom(p, proc[p].prov, Lane(t))
    /\ IF status[t] = "running" THEN Requeue(t) ELSE UNCHANGED queueVars
    /\ HandEmptied(p)
    /\ UNCHANGED <<lease, slots, co, cfg, submits, spent>>

Dispatch(p) ==
  \E t \in TaskId, c \in CoId :
    /\ InHand(p, t) /\ proc[p].prov # NoProvider
    /\ HasRoom(p, proc[p].prov, Lane(t))
    /\ FreshCo(c)
    /\ Register(p, t, proc[p].prov, c, FALSE)
    /\ co' = [co EXCEPT ![c] = [Idle EXCEPT !.proc = p, !.task = t, !.prov = proc[p].prov,
                                            !.kind = "run", !.ph = "exec"]]
    /\ HandEmptied(p)
    /\ UNCHANGED <<queueVars, lease, cfg, submits, spent>>

-----------------------------------------------------------------------------
(* A run coroutine, from the executor's entry to the terminal write.       *)
Run(c, ph) == co[c].kind = "run" /\ co[c].ph = ph
Task(c) == co[c].task
Quiet == UNCHANGED <<lease, proc, slots, cfg, spent>>

(* The provider is looked up again and differs: the task goes back to the  *)
(* queue under the new provider, before anything is sent or billed, or     *)
(* fails if it cannot be put back.                                         *)
Drift(c) ==
  /\ Run(c, "exec") /\ cfg.provider # co[c].prov
  /\ RecordProvider(Task(c), cfg.provider)
  /\ Go(c, "giveback")
  /\ UNCHANGED submits /\ Quiet

GiveBack(c) ==
  /\ Run(c, "giveback")
  /\ \/ IF status[Task(c)] = "running" THEN Requeue(Task(c)) ELSE UNCHANGED queueVars
     \/ TryMarkFailed(Task(c), "error")
  /\ End(c)
  /\ UNCHANGED submits /\ Quiet

(* The executor fails before the billing bracket.                          *)
Reject(c) ==
  /\ Run(c, "exec")
  /\ GoWhy(c, "fail", "error")
  /\ UNCHANGED <<queueVars, submits>> /\ Quiet

EnterBracket(c) ==
  /\ Run(c, "exec") /\ cfg.provider = co[c].prov
  /\ OpenCall(Task(c))
  /\ Go(c, IF Lane(Task(c)) = "video" THEN "opened" ELSE "ready")
  /\ UNCHANGED submits /\ Quiet

(* Before a video's first submission: the checkpoint, or no submission.    *)
(* Mutant: submitted whether or not the checkpoint can be written.         *)
CheckpointIfPossible(c) ==
  /\ Run(c, "opened")
  /\ \/ PersistCheckpoint(Task(c), co[c].prov)
     \/ UNCHANGED queueVars
  /\ Go(c, "ready")
  /\ UNCHANGED submits /\ Quiet
Checkpoint(c) ==
  /\ Run(c, "opened")
  /\ IF MayCheckpoint(Task(c))
     THEN PersistCheckpoint(Task(c), co[c].prov) /\ Go(c, "ready")
     ELSE UNCHANGED queueVars /\ GoWhy(c, "unbill", "error")
  /\ UNCHANGED submits /\ Quiet

(* The provider takes the request ...                                      *)
Submit(c) ==
  /\ Run(c, "ready")
  /\ submits' = [submits EXCEPT ![Task(c)] = @ + 1]
  /\ Go(c, IF Lane(Task(c)) = "video" /\ co[c].prov \in Resumable THEN "accepted" ELSE "polling")
  /\ UNCHANGED queueVars /\ Quiet

(* ... or refuses it.  (A 413 is answered with a smaller request, which is *)
(* this step taken later.)                                                 *)
Refused(c) ==
  /\ Run(c, "ready")
  /\ GoWhy(c, "unbill", "error")
  /\ UNCHANGED <<queueVars, submits>> /\ Quiet

(* The job id is committed before the first poll; if that fails, the task  *)
(* fails.                                                                  *)
KeepJob(c) ==
  /\ Run(c, "accepted")
  /\ \/ PersistJob(Task(c)) /\ Go(c, "polling")
     \/ UNCHANGED queueVars /\ GoWhy(c, "unbill", "error")
  /\ UNCHANGED submits /\ Quiet

(* Generation ends: a result on disk, or an error, or a result that could  *)
(* not be downloaded.                                                      *)
Answer(c) ==
  /\ Run(c, "polling")
  /\ \/ Go(c, "bill")
     \/ \E reason \in {"error", "download"} : GoWhy(c, "unbill", reason)
  /\ UNCHANGED <<queueVars, submits>> /\ Quiet

CloseBracket(c) ==
  /\ \/ Run(c, "bill")   /\ FinishCall(Task(c), "success")   /\ Go(c, "land")
     \/ Run(c, "unbill") /\ FinishCall(Task(c), "failed")    /\ Go(c, "fail")
     \/ Run(c, "void")   /\ FinishCall(Task(c), "cancelled") /\ Go(c, "quit")
  /\ UNCHANGED submits /\ Quiet

(* The result is committed to the project, or cannot be.                   *)
Land(c) ==
  /\ Run(c, "land")
  /\ \/ TryMarkSucceeded(Task(c)) /\ End(c)
     \/ UNCHANGED queueVars /\ GoWhy(c, "fail", "error")
  /\ UNCHANGED submits /\ Quiet

RunFails(c) ==
  /\ Run(c, "fail")
  /\ TryMarkFailed(Task(c), co[c].why)
  /\ End(c)
  /\ UNCHANGED submits /\ Quiet

(* The event loop is torn down under a coroutine: the bracket closes as    *)
(* cancelled, then the task does.  Writes are shielded, so a settlement    *)
(* that has begun is finished first.  Before its first step, or between    *)
(* the two writes of a drift, a coroutine goes without a word: the row     *)
(* stays running for the next start to find.                               *)
RunTornDown(c) ==
  /\ Live(c) /\ co[c].kind = "run" /\ proc[co[c].proc].up = "stopping"
  /\ \/ co[c].ph \in {"opened", "ready", "accepted", "polling"} /\ Go(c, "void")
     \/ co[c].ph \in {"exec", "land", "fail"} /\ Go(c, "quit")
     \/ co[c].ph \in {"exec", "giveback"} /\ End(c)
  /\ UNCHANGED <<queueVars, submits>> /\ Quiet

RunQuits(c) ==
  /\ Run(c, "quit")
  /\ TryInterrupt(Task(c))
  /\ End(c)
  /\ UNCHANGED submits /\ Quiet

-----------------------------------------------------------------------------
(* A resume coroutine: no submission, and no billing bracket of its own.   *)
Resume(c, ph) == co[c].kind = "resume" /\ co[c].ph = ph
ReleaseSlot(c) ==
  slots' = [slots EXCEPT ![co[c].proc] = Vacated(co[c].proc, Task(c), co[c].prov)]
QuietButSlots == UNCHANGED <<lease, proc, cfg, submits, spent>>

(* The dispatcher of a retried download registers its resume, as above.    *)
RegisterRetry(c) ==
  LET p == co[c].proc
  IN /\ Resume(c, "dispatch")
     /\ \/ /\ proc[p].up = "up"
           /\ DispatchTo(p, Task(c), co[c].prov, c, 0)
           /\ proc' = [proc EXCEPT ![p].table = Refreshed(p, co[c].prov)]
        \/ /\ proc[p].up = "stopping"
           /\ End(c)
           /\ UNCHANGED <<slots, proc>>
     /\ UNCHANGED <<queueVars, lease, cfg, submits, spent>>

(* No capacity: the task fails and its call is settled.                    *)
(* Mutant: only the task is ended.                                         *)
GiveUpTaskOnly(c) ==
  /\ Resume(c, "giveup") /\ TryMarkFailed(Task(c), "lost") /\ End(c)
  /\ UNCHANGED slots /\ QuietButSlots
GiveUp(c) ==
  /\ \/ Resume(c, "giveup") /\ TryMarkFailed(Task(c), "lost") /\ Go(c, "writeoff")
     \/ Resume(c, "writeoff") /\ TryFinalize(Task(c), "failed") /\ End(c)
  /\ UNCHANGED slots /\ QuietButSlots

(* The semaphore of a dispatch group, of the size the provider's pool had  *)
(* when the group was dispatched.                                          *)
Dispatching == {"dispatch", "giveup", "writeoff"}
NotBegun == Dispatching \cup {"wait"}
Permits(c) ==
  {d \in CoId : /\ co[d].kind = "resume" /\ co[d].ph \notin NotBegun
                /\ co[d].proc = co[c].proc /\ co[d].prov = co[c].prov
                /\ co[d].group = co[c].group}

(* Past the semaphore; once the process is stopping, a resume gives up     *)
(* with its task still running.                                            *)
BeginResume(c) ==
  /\ Resume(c, "wait")
  /\ co[c].group # 0 => Cardinality(Permits(c)) < co[c].cap
  /\ IF proc[co[c].proc].up = "stopping"
     THEN End(c) /\ ReleaseSlot(c)
     ELSE /\ Go(c, "look")
          /\ slots' = [slots EXCEPT ![co[c].proc] =
                {IF s.task = Task(c) /\ s.prov = co[c].prov
                 THEN [s EXCEPT !.pending = FALSE] ELSE s : s \in @}]
  /\ UNCHANGED queueVars /\ QuietButSlots

(* Is there a pending call to settle for this task?                        *)
LookUpCall(c) ==
  /\ Resume(c, "look")
  /\ co' = [co EXCEPT ![c].ph = "polling", ![c].bill = (call[Task(c)] = "pending")]
  /\ UNCHANGED <<queueVars, slots>> /\ QuietButSlots

ResumeAnswer(c) ==
  /\ Resume(c, "polling")
  /\ \/ Go(c, IF co[c].bill THEN "bill" ELSE "land")
     \/ GoWhy(c, IF co[c].bill THEN "expire" ELSE "fail", "lost")
     \/ \E reason \in {"error", "download"} : GoWhy(c, "fail", reason)
  /\ UNCHANGED <<queueVars, slots>> /\ QuietButSlots

(* The looked-up call is settled if it is still pending.                   *)
ResumeSettles(c) ==
  /\ \/ Resume(c, "bill")   /\ TryFinalize(Task(c), "success") /\ Go(c, "land")
     \/ Resume(c, "expire") /\ TryFinalize(Task(c), "failed")  /\ Go(c, "fail")
  /\ UNCHANGED slots /\ QuietButSlots

ResumeLands(c) ==
  /\ Resume(c, "land")
  /\ \/ TryMarkSucceeded(Task(c)) /\ End(c) /\ ReleaseSlot(c)
     \/ UNCHANGED <<queueVars, slots>> /\ GoWhy(c, "fail", "error")
  /\ QuietButSlots

ResumeFails(c) ==
  /\ Resume(c, "fail")
  /\ TryMarkFailed(Task(c), co[c].why)
  /\ Go(c, "settle")
  /\ UNCHANGED slots /\ QuietButSlots

(* Whatever call is pending by now is settled, and the slot released --    *)
(* by provider and task, whoever occupies it.                              *)
ResumeEnds(c) ==
  /\ \/ Resume(c, "settle") /\ TryFinalize(Task(c), "failed")
     \/ Resume(c, "drop")   /\ TryFinalize(Task(c), "cancelled")
  /\ End(c) /\ ReleaseSlot(c)
  /\ QuietButSlots

ResumeTornDown(c) ==
  /\ Live(c) /\ co[c].kind = "resume" /\ proc[co[c].proc].up = "stopping"
  /\ \/ co[c].ph \in {"wait", "look", "polling", "land", "fail"} /\ Go(c, "quit")
     \/ co[c].ph \in {"giveup", "writeoff"} /\ End(c)
  /\ UNCHANGED <<queueVars, slots>> /\ QuietButSlots

ResumeQuits(c) ==
  /\ Resume(c, "quit")
  /\ TryInterrupt(Task(c))
  /\ Go(c, "drop")
  /\ UNCHANGED slots /\ QuietButSlots

-----------------------------------------------------------------------------
MainLoop(p) ==
  \/ Heartbeat(p) \/ ScanList(p) \/ ScanActive(p) \/ FailOrphan(p) \/ DispatchOrphan(p)
  \/ ScanDone(p) \/ Settle(p) \/ Claim(p) \/ LaneEmpty(p) \/ ProjectProvider(p)
  \/ RefuseLane(p) \/ PutBack(p) \/ Dispatch(p)

RunStep(c) ==
  \/ Drift(c) \/ GiveBack(c) \/ Reject(c) \/ EnterBracket(c) \/ Checkpoint(c) \/ Submit(c)
  \/ Refused(c) \/ KeepJob(c) \/ Answer(c) \/ CloseBracket(c) \/ Land(c) \/ RunFails(c)
  \/ RunQuits(c)

ResumeStep(c) ==
  \/ RegisterRetry(c) \/ GiveUp(c) \/ BeginResume(c) \/ LookUpCall(c) \/ ResumeAnswer(c)
  \/ ResumeSettles(c) \/ ResumeLands(c) \/ ResumeFails(c) \/ ResumeEnds(c) \/ ResumeQuits(c)

Environment ==
  \/ UserEnqueue \/ UserCancel \/ Reconfigure \/ LeaseExpires
  \/ \E p \in Proc : ReloadLimits(p) \/ RetryDownload(p) \/ Start(p) \/ Crash(p) \/ StopSignal(p) \/ StopDone(p)

WorkerNext ==
  \/ Environment
  \/ \E p \in Proc : MainLoop(p)
  \/ \E c \in CoId : RunStep(c) \/ ResumeStep(c) \/ RunTornDown(c) \/ ResumeTornDown(c)

WorkerSpec == WorkerInit /\ [][WorkerNext]_vars

-----------------------------------------------------------------------------
(* Fairness: the event loop runs every coroutine that can go on (awaits on *)
(* the provider end with an answer or a timeout), a stopped or crashed     *)
(* server is started again, and the lease of a dead process runs out.      *)
WorkerFairness ==
  /\ \A p \in Proc : WF_vars(MainLoop(p)) /\ WF_vars(Start(p)) /\ WF_vars(StopDone(p))
  /\ \A c \in CoId : WF_vars(RunStep(c)) /\ WF_vars(ResumeStep(c))
  /\ WF_vars(lease = Dead /\ LeaseExpires)

FairSpec == WorkerSpec /\ WorkerFairness

-----------------------------------------------------------------------------
(* Who may still bring a task to its first submission: whoever has it in   *)
(* hand from a claim, and a run that has not submitted yet.                *)
BeforeSubmit == {"exec", "giveback", "opened", "ready"}
Carriers(t) ==
  {<<"hand", p>> : p \in {q \in Proc : InHand(q, t)}}
    \cup {<<"run", c>> : c \in {d \in Working(t) : co[d].kind = "run" /\ co[d].ph \in BeforeSubmit}}

(* A task is submitted to a provider at most once, over any number of      *)
(* crashes, restarts, take-overs, drifts and retries: "绝不重新提交"       *)
(* (handle_orphans), docs/adr/0007.                                        *)
AtMostOneSubmission == \A t \in TaskId : submits[t] <= 1

(* What is queued has cost nothing, so cancelling it saves all of it       *)
(* (docs/adr/0006): no call row, no submission, nobody about to submit it. *)
QueuedIsFree ==
  \A t \in TaskId :
    \/ status[t] = "queued"
    \/ status[t] = "cancelled" /\ why[t] \in {"user", "cascade"}
    => submits[t] = 0 /\ call[t] = "none" /\ Carriers(t) = {}

(* A recorded job always has the checkpoint recovery needs to resume it,   *)
(* and a job id is never recorded for something that was not submitted.    *)
JobIsResumable ==
  \A t \in jobs : t \in ckpts /\ prov[t] \in Resumable /\ submits[t] = 1

Orphaned(t) ==
  status[t] = "running" /\ Working(t) = {} /\ \A p \in Proc : ~InHand(p, t)

(* Once a process that holds the lease is past its scan, every running row *)
(* is being worked on by someone (scan plus take-over threshold).          *)
OwnerLeavesNoOrphan ==
  \A p \in Proc : proc[p].up = "up" /\ proc[p].owns /\ lease = p /\ ~proc[p].scan =>
    \A t \in TaskId : ~Orphaned(t)

(* A finished task's call does not stay pending: someone is about to       *)
(* settle it, or the next scan will.                                       *)
LedgerIsSettled ==
  \A t \in TaskId : status[t] \in Terminal /\ call[t] = "pending" =>
    Working(t) # {} \/ \E p \in Proc : proc[p].up # "up" \/ proc[p].scan

(* No process executes more of a provider's tasks than its table allows.   *)
(* (A resume that is torn down asks its provider nothing any more; it may  *)
(* have been waiting for a permit until then.)                             *)
Executing(p, q, lane) ==
  {c \in CoId : /\ Live(c) /\ co[c].ph \notin NotBegun \cup {"quit", "drop"}
                /\ co[c].proc = p /\ co[c].prov = q /\ Lane(Task(c)) = lane}
WithinCapacity ==
  \A p \in Proc, q \in Provider, lane \in WorkLane :
    Cardinality(Executing(p, q, lane)) <= Capacity(p, q, lane)

(* A process knows its coroutines: each holds a slot of its own, which is  *)
(* what the claim loop, a rescan and the shutdown go by.                   *)
EveryCoroutineHasItsSlot ==
  \A c \in CoId : Live(c) /\ co[c].ph \notin Dispatching =>
    \E s \in slots[co[c].proc] : s.co = c /\ s.task = Task(c) /\ s.prov = co[c].prov

(* A process never executes one task twice at a time, so it does not poll  *)
(* and land a provider job twice, whatever its scans and take-overs find   *)
(* running (the self-active filter of handle_orphans).                     *)
OneWorkerPerTask ==
  \A p \in Proc, t \in TaskId :
    Cardinality({c \in Working(t) : /\ co[c].proc = p
                                    /\ co[c].ph \notin Dispatching \cup {"settle", "drop"}}) <= 1

(* A success on the ledger is never taken back.                            *)
SuccessIsKept ==
  [][\A t \in TaskId : call[t] = "success" => call'[t] = "success"]_vars

(* The workers keep the promise of GenerationPromise.                      *)
Promise == INSTANCE GenerationPromise WITH Ticket <- TaskId, state <- status, sent <- submits
PromiseKept == Promise!PromiseSpec

(* Running tasks end, or go back to the queue.                             *)
RunningEnds == \A t \in TaskId : status[t] = "running" ~> status[t] # "running"

(* A queued task is picked up, unless some task was enqueued behind a dead *)
(* dependency.                                                             *)
QueuedMoves ==
  \A t \in TaskId : status[t] = "queued" /\ late = {} ~> status[t] # "queued" \/ late # {}

(* Calls do not stay pending.                                              *)
PendingEnds == \A t \in TaskId : call[t] = "pending" ~> call[t] # "pending"

(* The slot table tells the truth: what works has its slot, what does not  *)
(* has none, and no pool is overrun (SlotTable, has_room, drain_finished). *)
SlotsAreKept == WorkerTypeOK /\ EveryCoroutineHasItsSlot /\ WithinCapacity

(* Every task and every call moves on while somebody starts the server     *)
(* again.                                                                  *)
EverythingMoves == RunningEnds /\ QueuedMoves /\ PendingEnds
=============================================================================
