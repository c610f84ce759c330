------------------------ MODULE GenerationWorker_proofs ------------------------
(***************************************************************************)
(* That the worker is well typed and implements the queue, that a task is  *)
(* submitted once, that a recorded job can be resumed, and that the        *)
(* workers keep the promise made to the user of a task                     *)
(* (GenerationPromise), for every number of processes, coroutines, tasks,  *)
(* providers, crashes and expiries of the lease.                           *)
(*                                                                         *)
(* First come the facts used everywhere: which actor leaves what alone     *)
(* (RunsAreQuiet, ResumesAreQuiet, MainLoopIsQuiet) and how a coroutine    *)
(* moves (RunsMove, ResumesMove).  Then the parts of the type invariant,   *)
(* one lemma each, and the simulation of the queue.                        *)
(*                                                                         *)
(* What follows is an argument of ownership.  A task that is queued, or    *)
(* was withdrawn from the queue, is in nobody's hands and has cost         *)
(* nothing; a claim puts it into one process's hand, a dispatch hands it   *)
(* on to one run, and only that run can submit it, once.  A scan that      *)
(* declares the task lost does not make it anybody else's (HolderInv).     *)
(*                                                                         *)
(* It goes on to what is on record of a task: a job id is only kept by the *)
(* run that has just submitted the task, behind its checkpoint; a resume   *)
(* is only made for a recorded job; and a task somebody is about to submit *)
(* is running or has been given up for lost, since nobody else could have  *)
(* ended it (JobInv).                                                      *)
(*                                                                         *)
(* The last part is about who serves a task at one moment.  While nothing  *)
(* is retried every coroutine sits in a slot of its process, and no        *)
(* process works on one task twice (SlotInv).  With one server process,    *)
(* whatever crashes and is retried, a task that is running has somebody    *)
(* who will answer for it (OneInv).  With any number of them a call that   *)
(* is pending has somebody who will settle it (LedgerInv).  Last, the      *)
(* pools of one server are not overrun while its limits stand (PoolInv).   *)
(***************************************************************************)
EXTENDS GenerationWorker, TaskQueue_proofs, FiniteSetTheorems

(* A task the scan has put aside for a resume is on record with its        *)
(* provider, and stays so until it is dispatched.                          *)
ReadyIsKnown ==
  \A p \in Proc : \A t \in proc[p].ready : status[t] # "absent" /\ prov[t] \in Provider

(* A coroutine that is about to fail its task knows why.                   *)
Failing == {"unbill", "expire", "fail"}
WhyIsKnown == \A c \in CoId : co[c].ph \in Failing => co[c].why \in FailReasons

TypeInv == QueueTypeOK /\ WorkerTypeOK /\ ReadyIsKnown /\ WhyIsKnown

-----------------------------------------------------------------------------
(* What the three kinds of actors leave alone.                             *)
LEMMA RunsAreQuiet ==
  ASSUME NEW c, RunStep(c) \/ RunTornDown(c)
  PROVE  UNCHANGED <<lease, proc, slots, cfg, spent>>
BY DEF RunStep, RunTornDown, Drift, GiveBack, Reject, EnterBracket, Checkpoint, Submit,
       Refused, KeepJob, Answer, CloseBracket, Land, RunFails, RunQuits, Quiet

LEMMA ResumesAreQuiet ==
  ASSUME NEW c, ResumeStep(c) \/ ResumeTornDown(c)
  PROVE  UNCHANGED <<lease, cfg, submits, spent>> /\ (RegisterRetry(c) \/ UNCHANGED proc)
BY SMTT(30) DEF ResumeStep, ResumeTornDown, RegisterRetry, GiveUp, BeginResume, LookUpCall,
       ResumeAnswer, ResumeSettles, ResumeLands, ResumeFails, ResumeEnds, ResumeQuits,
       QuietButSlots

LEMMA MainLoopIsQuiet ==
  ASSUME NEW p, MainLoop(p)
  PROVE  /\ UNCHANGED <<cfg, submits, spent>>
         /\ Heartbeat(p) \/ UNCHANGED lease
         /\ Heartbeat(p) \/ DispatchOrphan(p) \/ Dispatch(p) \/ UNCHANGED slots
         /\ DispatchOrphan(p) \/ Dispatch(p) \/ UNCHANGED co
BY DEF MainLoop, Heartbeat, ScanList, ScanActive, FailOrphan, DispatchOrphan, ScanDone,
       Settle, Claim, LaneEmpty, ProjectProvider, RefuseLane, PutBack, Dispatch

-----------------------------------------------------------------------------
LEMMA ProcTypeStep ==
  ASSUME TypeInv, [WorkerNext]_vars
  PROVE  ProcType'
<1>1. ProcType /\ CoType /\ cfg.table \in Tables /\ cfg.provider \in Provider /\ Builtin \in Tables
  BY WorkerConstants DEF TypeInv, WorkerTypeOK
<1>2. Down \in ProcState
  BY <1>1 DEF Down, ProcState
<1>3. ASSUME NEW p \in Proc, NEW q, NEW lane
      PROVE  Refreshed(p, q) \in Tables
  BY <1>1 DEF Refreshed, ProcType, ProcState
<1> USE <1>1 DEF ProcType, ProcState
<1>4. ASSUME NEW p \in Proc, ReloadLimits(p) \/ Start(p) \/ Crash(p) \/ StopSignal(p) \/ StopDone(p)
      PROVE  ProcType'
  <2>a. CASE Crash(p) \/ StopDone(p)
    BY <1>2, <2>a DEF Crash, StopDone, Gone
  <2>b. CASE Start(p)
    <3>1. [Down EXCEPT !.up = "up"] \in ProcState
      BY <1>2
    <3> QED
      BY <2>b, <3>1 DEF Start
  <2>c. CASE ReloadLimits(p) \/ StopSignal(p)
    BY <2>c DEF ReloadLimits, StopSignal
  <2> QED
    BY <1>4, <2>a, <2>b, <2>c
<1>5. ASSUME NEW p \in Proc, MainLoop(p)
      PROVE  ProcType'
  <2>0. proc[p] \in ProcState
    OBVIOUS
  <2>a. CASE Heartbeat(p)
    <3>1. PICK scan \in {proc[p].scan, TRUE} :
            proc' = [proc EXCEPT
              ![p].owns = MayHold(p),
              ![p].lost = ~MayHold(p) /\ (@ \/ proc[p].owns),
              ![p].scan = scan,
              ![p].pc = IF ~MayHold(p) THEN "lease" ELSE IF scan THEN "list" ELSE "image"]
      BY <2>a DEF Heartbeat
    <3> DEFINE r == [proc[p] EXCEPT
                      !.owns = MayHold(p),
                      !.lost = ~MayHold(p) /\ (@ \/ proc[p].owns),
                      !.scan = scan,
                      !.pc = IF ~MayHold(p) THEN "lease" ELSE IF scan THEN "list" ELSE "image"]
    <3>2. scan \in BOOLEAN
      BY <2>0
    <3>3. r \in ProcState
      <4>1. /\ MayHold(p) \in BOOLEAN
            /\ (~MayHold(p) /\ (proc[p].lost \/ proc[p].owns)) \in BOOLEAN
        BY <2>0 DEF MayHold
      <4>2. (IF ~MayHold(p) THEN "lease" ELSE IF scan THEN "list" ELSE "image")
              \in {"lease", "list", "active", "sift", "settle"} \cup WorkLane
        BY DEF WorkLane
      <4>3. [proc[p] EXCEPT !.owns = MayHold(p), !.scan = scan] \in ProcState
        BY <2>0, <3>2, <4>1
      <4> HIDE DEF ProcState
      <4> DEFINE q == [proc[p] EXCEPT !.owns = MayHold(p), !.scan = scan]
                 l == ~MayHold(p) /\ (proc[p].lost \/ proc[p].owns)
                 pc == IF ~MayHold(p) THEN "lease" ELSE IF scan THEN "list" ELSE "image"
      <4>4. r = [q EXCEPT !.lost = l, !.pc = pc]
        BY <2>0 DEF ProcState
      <4>5. \A s \in ProcState, b \in BOOLEAN,
               c \in {"lease", "list", "active", "sift", "settle"} \cup WorkLane :
              [s EXCEPT !.lost = b, !.pc = c] \in ProcState
        BY DEF ProcState
      <4> HIDE DEF r, q, l, pc
      <4> QED
        BY <4>1, <4>2, <4>3, <4>4, <4>5 DEF q, l, pc
    <3>4. proc' = [proc EXCEPT ![p] = r]
      BY <3>1
    <3> QED
      BY <3>3, <3>4
  <2>b. CASE ScanList(p)
    <3> DEFINE running == {t \in TaskId : status[t] = "running"}
               ready == {t \in running : /\ Lane(t) = "video"
                                         /\ t \in ckpts /\ t \in jobs
                                         /\ prov[t] \in Resumable}
               pc == IF running = {} THEN "settle" ELSE "active"
               r == [proc[p] EXCEPT !.orphans = running, !.ready = ready, !.round = @ + 1,
                                    !.pc = pc]
    <3>1. r \in ProcState
      <4>1. running \in SUBSET TaskId /\ ready \in SUBSET TaskId /\ proc[p].round + 1 \in Nat
        BY <2>0
      <4>2. pc \in {"lease", "list", "active", "sift", "settle"} \cup WorkLane
        OBVIOUS
      <4> HIDE DEF running, ready, pc
      <4> QED
        BY <2>0, <4>1, <4>2
    <3>2. proc' = [proc EXCEPT ![p] = r]
      BY <2>b DEF ScanList
    <3> QED
      BY <3>1, <3>2
  <2>c. CASE ScanActive(p)
    <3> DEFINE r == [proc[p] EXCEPT 
           !.orphans = @ \ ActiveTasks(p), !.ready = @ \ ActiveTasks(p), !.pc = "sift"]
    <3>1. r \in ProcState
      BY <2>0
    <3>2. proc' = [proc EXCEPT ![p] = r]
      BY <2>c DEF ScanActive
    <3> QED
      BY <3>1, <3>2
  <2>d. CASE FailOrphan(p)
    BY <2>d DEF FailOrphan
  <2>e. CASE DispatchOrphan(p)
    BY <2>e, <1>3 DEF DispatchOrphan
  <2>f. CASE ScanDone(p)
    <3> DEFINE r == [proc[p] EXCEPT !.pc = "settle"]
    <3>1. r \in ProcState
      BY <2>0
    <3>2. proc' = [proc EXCEPT ![p] = r]
      BY <2>f DEF ScanDone
    <3> QED
      BY <3>1, <3>2
  <2>g. CASE Settle(p)
    <3> DEFINE r == [proc[p] EXCEPT !.scan = FALSE, !.pc = "image"]
    <3>1. r \in ProcState
      BY <2>0 DEF WorkLane
    <3>2. proc' = [proc EXCEPT ![p] = r]
      BY <2>g DEF Settle
    <3> QED
      BY <3>1, <3>2
  <2>h. CASE Claim(p)
    <3>1. PICK lane \in WorkLane, t \in TaskId :
            proc' = [proc EXCEPT
              ![p].hand = t,
              ![p].prov = IF prov[t] \in Provider /\ Capacity(p, prov[t], lane) > 0
                          THEN prov[t] ELSE NoProvider]
      BY <2>h DEF Claim
    <3> DEFINE q == IF prov[t] \in Provider /\ Capacity(p, prov[t], lane) > 0
                    THEN prov[t] ELSE NoProvider
               r == [proc[p] EXCEPT !.hand = t, !.prov = q]
    <3>2. q \in Provider \cup {NoProvider}
      OBVIOUS
    <3> HIDE DEF q
    <3>3. r \in ProcState
      BY <2>0, <3>2
    <3>4. proc' = [proc EXCEPT ![p] = r]
      BY <3>1 DEF q
    <3> QED
      BY <3>3, <3>4
  <2>i. CASE LaneEmpty(p)
    BY <2>i DEF LaneEmpty, NextLane, WorkLane
  <2>j. CASE ProjectProvider(p)
    BY <2>j DEF ProjectProvider
  <2>k. CASE RefuseLane(p) \/ PutBack(p) \/ Dispatch(p)
    <3> DEFINE r == [proc[p] EXCEPT !.hand = NoTask, !.prov = NoProvider]
    <3>1. r \in ProcState
      BY <2>0
    <3>2. proc' = [proc EXCEPT ![p] = r]
      BY <2>k DEF RefuseLane, PutBack, Dispatch, HandEmptied
    <3> QED
      BY <3>1, <3>2
  <2> QED
    BY <1>5, <2>a, <2>b, <2>c, <2>d, <2>e, <2>f, <2>g, <2>h, <2>i, <2>j, <2>k DEF MainLoop
<1>6. ASSUME NEW c \in CoId, RegisterRetry(c)
      PROVE  ProcType'
  BY <1>6, <1>3 DEF RegisterRetry
<1>7. CASE UNCHANGED proc
  BY <1>7
<1>8. UserEnqueue \/ UserCancel \/ Reconfigure \/ LeaseExpires \/ UNCHANGED vars => UNCHANGED proc
  BY DEF UserEnqueue, UserCancel, Reconfigure, LeaseExpires, workerVars, vars
<1>9. ASSUME NEW p \in Proc, RetryDownload(p)
      PROVE  UNCHANGED proc
  BY <1>9 DEF RetryDownload
<1> QED
  BY <1>4, <1>5, <1>6, <1>7, <1>8, <1>9, RunsAreQuiet, ResumesAreQuiet DEF WorkerNext, Environment

-----------------------------------------------------------------------------
(* How a coroutine moves: it ends, goes to another phase of its kind, or   *)
(* goes to one with a reason to fail; and it goes to a failing phase       *)
(* without a reason only from another, whose reason it keeps.              *)
Moves(c, phases) ==
  \/ End(c)
  \/ \E ph \in phases : Go(c, ph) /\ (ph \in Failing => co[c].ph \in Failing)
  \/ \E ph \in phases, reason \in FailReasons : GoWhy(c, ph, reason)

LEMMA RunsMove ==
  ASSUME NEW c, RunStep(c) \/ RunTornDown(c)
  PROVE  co[c].kind = "run" /\ Moves(c, RunPhases)
<1> USE DEF Run, Moves, RunPhases, Failing, FailReasons
<1>1. CASE Drift(c) \/ GiveBack(c) \/ Reject(c) \/ EnterBracket(c) \/ Checkpoint(c)
  BY <1>1 DEF Drift, GiveBack, Reject, EnterBracket, Checkpoint
<1>2. CASE Submit(c) \/ Refused(c) \/ KeepJob(c) \/ Answer(c)
  BY <1>2 DEF Submit, Refused, KeepJob, Answer
<1>3. CASE CloseBracket(c) \/ Land(c) \/ RunFails(c) \/ RunQuits(c)
  BY <1>3 DEF CloseBracket, Land, RunFails, RunQuits
<1>4. CASE RunTornDown(c)
  BY <1>4 DEF RunTornDown
<1> QED
  BY <1>1, <1>2, <1>3, <1>4 DEF RunStep

LEMMA ResumesMove ==
  ASSUME NEW c, ResumeStep(c) \/ ResumeTornDown(c)
  PROVE  /\ co[c].kind = "resume"
         /\ RegisterRetry(c) \/ LookUpCall(c) \/ Moves(c, ResumePhases)
<1> USE DEF Resume, Moves, ResumePhases, Failing, FailReasons
<1>1. CASE RegisterRetry(c) \/ GiveUp(c) \/ BeginResume(c) \/ LookUpCall(c)
  BY <1>1 DEF RegisterRetry, GiveUp, BeginResume, LookUpCall
<1>2. CASE ResumeAnswer(c) \/ ResumeSettles(c) \/ ResumeLands(c)
  BY <1>2 DEF ResumeAnswer, ResumeSettles, ResumeLands
<1>3. CASE ResumeFails(c) \/ ResumeEnds(c) \/ ResumeQuits(c) \/ ResumeTornDown(c)
  BY <1>3 DEF ResumeFails, ResumeEnds, ResumeQuits, ResumeTornDown
<1> QED
  BY <1>1, <1>2, <1>3 DEF ResumeStep

(* A coroutine that moves stays what it is.                                *)
LEMMA MovesKeepType ==
  ASSUME CoType, WhyIsKnown, NEW c \in CoId,
         \/ co[c].kind = "run" /\ Moves(c, RunPhases)
         \/ co[c].kind = "resume" /\ Moves(c, ResumePhases)
  PROVE  CoType' /\ WhyIsKnown'
<1> DEFINE Fits(ph) == \/ co[c].kind = "run" /\ ph \in RunPhases
                       \/ co[c].kind = "resume" /\ ph \in ResumePhases
<1> USE DEF CoType, WhyIsKnown
<1>0. co[c] \in Coroutine
  BY DEF Idle
<1>1. CASE End(c)
  BY <1>1 DEF End, Idle, Failing
<1>2. ASSUME NEW ph, Go(c, ph), ph \in Failing => co[c].ph \in Failing,
             Fits(ph)
      PROVE  CoType' /\ WhyIsKnown'
  <2>a. [co[c] EXCEPT !.ph = ph] \in Coroutine
    BY <1>0, <1>2 DEF Coroutine
  <2> QED
    BY <1>0, <1>2, <2>a DEF Go, Coroutine
<1>3. ASSUME NEW ph, NEW reason \in FailReasons, GoWhy(c, ph, reason),
             Fits(ph)
      PROVE  CoType' /\ WhyIsKnown'
  <2> DEFINE r == [co[c] EXCEPT !.ph = ph, !.why = reason]
  <2>a. r \in Coroutine /\ r.why = reason
    BY <1>0, <1>3 DEF Coroutine, FailReasons, Reasons
  <2>b. co' = [co EXCEPT ![c] = r]
    BY <1>3 DEF GoWhy
  <2> HIDE DEF r
  <2> QED
    BY <2>a, <2>b
<1> HIDE DEF CoType, WhyIsKnown
<1>4. CASE co[c].kind = "run" /\ Moves(c, RunPhases)
  <2>a. \A ph \in RunPhases : Fits(ph)
    BY <1>4
  <2> HIDE DEF Fits
  <2> QED
    BY <1>1, <1>2, <1>3, <1>4, <2>a DEF Moves
<1>5. CASE co[c].kind = "resume" /\ Moves(c, ResumePhases)
  <2>a. \A ph \in ResumePhases : Fits(ph)
    BY <1>5
  <2> HIDE DEF Fits
  <2> QED
    BY <1>1, <1>2, <1>3, <1>5, <2>a DEF Moves
<1> QED
  BY <1>4, <1>5

(* Registering a task replaces its occupant of the provider.               *)
LEMMA RegisterKeepsType ==
  ASSUME SlotsType, NEW p \in Proc, NEW t \in TaskId, NEW q \in Provider, NEW c \in CoId,
         NEW pending \in BOOLEAN, Register(p, t, q, c, pending)
  PROVE  SlotsType'
<1> DEFINE mine == [task |-> t, prov |-> q, co |-> c, pending |-> pending]
<1>1. mine \in Occupant /\ Vacated(p, t, q) \subseteq slots[p]
  BY DEF Occupant, Vacated
<1>2. slots' = [slots EXCEPT ![p] = Vacated(p, t, q) \cup {mine}]
  BY DEF Register
<1> HIDE DEF mine
<1>3. Vacated(p, t, q) \cup {mine} \in SUBSET Occupant
  BY <1>1 DEF SlotsType
<1> QED
  BY <1>2, <1>3 DEF SlotsType

(* A new resume is one that waits or is to be given up, with a slot of its *)
(* own in the first case.                                                  *)
LEMMA DispatchKeepsType ==
  ASSUME TypeInv, NEW p \in Proc, NEW t \in TaskId, NEW q \in Provider, NEW c \in CoId,
         NEW group \in Nat, DispatchTo(p, t, q, c, group)
  PROVE  CoType' /\ WhyIsKnown' /\ SlotsType'
<1> DEFINE cap == Refreshed(p, q)[q]["video"]
           it(ph) == [Idle EXCEPT !.proc = p, !.task = t, !.prov = q, !.kind = "resume",
                                  !.group = group, !.cap = cap, !.ph = ph]
<1>1. CoType /\ WhyIsKnown /\ SlotsType /\ ProcType /\ cfg.table \in Tables
  BY DEF TypeInv, WorkerTypeOK
<1>2. cap \in Nat
  <2>a. Refreshed(p, q) \in Tables
    BY <1>1 DEF Refreshed, ProcType, ProcState
  <2> QED
    BY <2>a, WorkerConstants DEF WorkLane
<1>3. PICK ph \in {"giveup", "wait"} : co' = [co EXCEPT ![c] = it(ph)]
  BY DEF DispatchTo, Idle
<1>4. UNCHANGED slots \/ Register(p, t, q, c, TRUE)
  BY DEF DispatchTo
<1>5. it(ph) \in Coroutine /\ it(ph).ph \notin Failing
  BY <1>2 DEF Coroutine, Idle, ResumePhases, Reasons, Failing
<1> HIDE DEF it
<1>6. CoType' /\ WhyIsKnown'
  BY <1>1, <1>3, <1>5 DEF CoType, WhyIsKnown
<1>7. SlotsType'
  BY <1>1, <1>4, RegisterKeepsType DEF SlotsType
<1> QED
  BY <1>6, <1>7

LEMMA CoTypeStep ==
  ASSUME TypeInv, [WorkerNext]_vars
  PROVE  CoType' /\ WhyIsKnown'
<1>1. CoType /\ WhyIsKnown /\ QueueTypeOK /\ ProcType /\ ReadyIsKnown
  BY DEF TypeInv, WorkerTypeOK
<1>2. CASE UNCHANGED co
  BY <1>1, <1>2 DEF CoType, WhyIsKnown
<1>3. ASSUME NEW p \in Proc, RetryDownload(p)
      PROVE  CoType' /\ WhyIsKnown'
  <2>a. PICK t \in TaskId, c \in CoId :
          /\ RetryArtifactDownload(t)
          /\ co' = [co EXCEPT ![c] = [Idle EXCEPT !.proc = p, !.task = t, !.prov = prov[t],
                                                  !.kind = "resume", !.ph = "dispatch"]]
    BY <1>3 DEF RetryDownload
  <2> DEFINE r == [Idle EXCEPT !.proc = p, !.task = t, !.prov = prov[t],
                               !.kind = "resume", !.ph = "dispatch"]
  <2>b. prov[t] \in Provider
    BY <1>1, <2>a DEF QueueTypeOK, RetryArtifactDownload, MayRetryDownload
  <2>c. r \in Coroutine /\ r.ph \notin Failing
    BY <2>b DEF Coroutine, Idle, ResumePhases, Reasons, Failing
  <2> HIDE DEF r
  <2> QED
    BY <1>1, <2>a, <2>c DEF CoType, WhyIsKnown, r
<1>4. ASSUME NEW p \in Proc, Crash(p) \/ StopDone(p)
      PROVE  CoType' /\ WhyIsKnown'
  BY <1>1, <1>4 DEF Crash, StopDone, Gone, CoType, WhyIsKnown, Idle, Failing
<1>5. ASSUME NEW p \in Proc, DispatchOrphan(p)
      PROVE  CoType' /\ WhyIsKnown'
  <2>a. PICK t \in proc[p].ready, c \in CoId :
          DispatchTo(p, t, prov[t], c, proc[p].round) \/ UNCHANGED co
    BY <1>5 DEF DispatchOrphan
  <2>b. t \in TaskId /\ prov[t] \in Provider /\ proc[p].round \in Nat
    BY <1>1 DEF ProcType, ProcState, ReadyIsKnown
  <2> QED
    BY <1>2, <2>a, <2>b, DispatchKeepsType
<1>6. ASSUME NEW p \in Proc, Dispatch(p)
      PROVE  CoType' /\ WhyIsKnown'
  <2>a. PICK t \in TaskId, c \in CoId :
          /\ proc[p].prov # NoProvider
          /\ co' = [co EXCEPT ![c] = [Idle EXCEPT !.proc = p, !.task = t, !.prov = proc[p].prov,
                                                  !.kind = "run", !.ph = "exec"]]
    BY <1>6 DEF Dispatch
  <2> DEFINE r == [Idle EXCEPT !.proc = p, !.task = t, !.prov = proc[p].prov,
                               !.kind = "run", !.ph = "exec"]
  <2>b. proc[p].prov \in Provider
    BY <1>1, <2>a DEF ProcType, ProcState
  <2>c. r \in Coroutine /\ r.ph \notin Failing
    BY <2>b DEF Coroutine, Idle, RunPhases, Reasons, Failing
  <2> HIDE DEF r
  <2> QED
    BY <1>1, <2>a, <2>c DEF CoType, WhyIsKnown, r
<1>7. ASSUME NEW c \in CoId, RunStep(c) \/ RunTornDown(c)
      PROVE  CoType' /\ WhyIsKnown'
  BY <1>1, <1>7, RunsMove, MovesKeepType
<1>8. ASSUME NEW c \in CoId, ResumeStep(c) \/ ResumeTornDown(c)
      PROVE  CoType' /\ WhyIsKnown'
  <2>a. co[c] \in Coroutine /\ co[c].kind = "resume"
    BY <1>1, <1>8, ResumesMove DEF CoType, Idle
  <2>b. CASE RegisterRetry(c)
    <3>1. co[c].proc \in Proc /\ Task(c) \in TaskId /\ co[c].prov \in Provider
      BY <2>a DEF Coroutine, Task
    <3>2. CASE DispatchTo(co[c].proc, Task(c), co[c].prov, c, 0)
      BY <3>1, <3>2, DispatchKeepsType
    <3>3. CASE End(c)
      BY <1>1, <3>3 DEF End, CoType, WhyIsKnown, Idle, Failing
    <3> QED
      BY <2>b, <3>2, <3>3 DEF RegisterRetry
  <2>c. CASE LookUpCall(c)
    <3> DEFINE r == [co[c] EXCEPT !.ph = "polling", !.bill = (call[Task(c)] = "pending")]
    <3>1. r \in Coroutine /\ r.ph \notin Failing
      BY <2>a DEF Coroutine, ResumePhases, Failing
    <3>2. co' = [co EXCEPT ![c] = r]
      BY <2>c DEF LookUpCall
    <3> HIDE DEF r
    <3> QED
      BY <1>1, <3>1, <3>2 DEF CoType, WhyIsKnown
  <2> QED
    BY <1>1, <1>8, <2>a, <2>b, <2>c, ResumesMove, MovesKeepType
<1>9. UserEnqueue \/ UserCancel \/ Reconfigure \/ LeaseExpires \/ UNCHANGED vars => UNCHANGED co
  BY DEF UserEnqueue, UserCancel, Reconfigure, LeaseExpires, workerVars, vars
<1>10. ASSUME NEW p \in Proc, ReloadLimits(p) \/ Start(p) \/ StopSignal(p)
       PROVE  UNCHANGED co
  BY <1>10 DEF ReloadLimits, Start, StopSignal
<1> QED
  BY <1>2, <1>3, <1>4, <1>5, <1>6, <1>7, <1>8, <1>9, <1>10, MainLoopIsQuiet
     DEF WorkerNext, Environment

-----------------------------------------------------------------------------
LEMMA SlotsTypeStep ==
  ASSUME TypeInv, [WorkerNext]_vars
  PROVE  SlotsType'
<1>1. SlotsType /\ CoType /\ ProcType /\ ReadyIsKnown
  BY DEF TypeInv, WorkerTypeOK
<1>2. CASE UNCHANGED slots
  BY <1>1, <1>2 DEF SlotsType
<1>3. ASSUME NEW p \in Proc, Crash(p) \/ StopDone(p)
      PROVE  SlotsType'
  BY <1>1, <1>3 DEF Crash, StopDone, Gone, SlotsType
<1>4. ASSUME NEW p \in Proc, Heartbeat(p)
      PROVE  SlotsType'
  BY <1>1, <1>4 DEF Heartbeat, Undrained, SlotsType
<1>5. ASSUME NEW p \in Proc, DispatchOrphan(p)
      PROVE  SlotsType'
  <2>a. PICK t \in proc[p].ready, c \in CoId :
          DispatchTo(p, t, prov[t], c, proc[p].round) \/ UNCHANGED slots
    BY <1>5 DEF DispatchOrphan
  <2>b. t \in TaskId /\ prov[t] \in Provider /\ proc[p].round \in Nat
    BY <1>1 DEF ProcType, ProcState, ReadyIsKnown
  <2> QED
    BY <1>2, <2>a, <2>b, DispatchKeepsType
<1>6. ASSUME NEW p \in Proc, Dispatch(p)
      PROVE  SlotsType'
  <2>a. PICK t \in TaskId, c \in CoId :
          proc[p].prov # NoProvider /\ Register(p, t, proc[p].prov, c, FALSE)
    BY <1>6 DEF Dispatch
  <2>b. proc[p].prov \in Provider
    BY <1>1, <2>a DEF ProcType, ProcState
  <2> QED
    BY <1>1, <2>a, <2>b, RegisterKeepsType
<1>7. ASSUME NEW c \in CoId, ResumeStep(c) \/ ResumeTornDown(c)
      PROVE  SlotsType'
  <2>a. co[c] \in Coroutine /\ co[c].kind = "resume"
    BY <1>1, <1>7, ResumesMove DEF CoType, Idle
  <2>b. co[c].proc \in Proc /\ Task(c) \in TaskId /\ co[c].prov \in Provider
    BY <2>a DEF Coroutine, Task
  <2>c. CASE RegisterRetry(c)
    <3>1. DispatchTo(co[c].proc, Task(c), co[c].prov, c, 0) \/ UNCHANGED slots
      BY <2>c DEF RegisterRetry
    <3> QED
      BY <1>2, <2>b, <3>1, DispatchKeepsType
  <2>d. CASE ReleaseSlot(c)
    BY <1>1, <2>b, <2>d DEF ReleaseSlot, Vacated, SlotsType
  <2>e. CASE BeginResume(c)
    <3> DEFINE S == {IF s.task = Task(c) /\ s.prov = co[c].prov
                     THEN [s EXCEPT !.pending = FALSE] ELSE s : s \in slots[co[c].proc]}
    <3>1. slots' = [slots EXCEPT ![co[c].proc] = S] \/ ReleaseSlot(c)
      BY <2>e DEF BeginResume
    <3>2. S \in SUBSET Occupant
      <4>1. slots[co[c].proc] \in SUBSET Occupant
        BY <1>1, <2>b DEF SlotsType
      <4>2. \A s \in Occupant : [s EXCEPT !.pending = FALSE] \in Occupant
        BY DEF Occupant
      <4> QED
        BY <4>1, <4>2
    <3> HIDE DEF S
    <3> QED
      BY <1>1, <2>d, <3>1, <3>2 DEF SlotsType
  <2>f. RegisterRetry(c) \/ ReleaseSlot(c) \/ BeginResume(c) \/ UNCHANGED slots
    BY <1>7 DEF ResumeStep, ResumeTornDown, GiveUp, LookUpCall, ResumeAnswer, ResumeSettles,
         ResumeLands, ResumeFails, ResumeEnds, ResumeQuits
  <2> QED
    BY <1>2, <2>c, <2>d, <2>e, <2>f
<1>8. UserEnqueue \/ UserCancel \/ Reconfigure \/ LeaseExpires \/ UNCHANGED vars => UNCHANGED slots
  BY DEF UserEnqueue, UserCancel, Reconfigure, LeaseExpires, workerVars, vars
<1>9. ASSUME NEW p \in Proc, ReloadLimits(p) \/ RetryDownload(p) \/ Start(p) \/ StopSignal(p)
      PROVE  UNCHANGED slots
  BY <1>9 DEF ReloadLimits, RetryDownload, Start, StopSignal
<1> QED
  BY <1>2, <1>3, <1>4, <1>5, <1>6, <1>7, <1>8, <1>9, RunsAreQuiet, MainLoopIsQuiet
     DEF WorkerNext, Environment

-----------------------------------------------------------------------------
(* The transactions that put nothing on record and end no task well: what  *)
(* users, scans, claims, failures and settlements do.                      *)
MildNext ==
  \/ \E k \in Key, d \in TaskId \cup {NoDep}, p \in Provider \cup {NoProvider} :
       Enqueue(k, d, p)
  \/ \E t \in TaskId, lane \in Lanes, full \in SUBSET Provider : ClaimNext(t, lane, full)
  \/ \E t \in TaskId : CancelTask(t) \/ RetryArtifactDownload(t)
  \/ \E t \in TaskId, reason \in FailReasons : MarkFailed(t, reason)
  \/ CancelAllQueued
  \/ \E t \in TaskId, end \in CallEnd : FinishCall(t, end) \/ FinalizePending(t, end)
  \/ SettleInterrupted

(* With these, all the transactions that take no claim back and open no    *)
(* call.                                                                   *)
PlainNext ==
  \/ MildNext
  \/ \E t \in TaskId : MarkSucceeded(t) \/ FinalizeInterrupted(t) \/ PersistJob(t)
  \/ \E t \in TaskId, p \in Provider : RecordProvider(t, p) \/ PersistCheckpoint(t, p)

(* The steps that do more to a row.                                        *)
GivesVerdict(c) == Land(c) \/ RunQuits(c) \/ ResumeLands(c) \/ ResumeQuits(c)
Records(c) == Drift(c) \/ Checkpoint(c) \/ KeepJob(c)

LEMMA MildSimulation ==
  ASSUME TypeInv, [WorkerNext]_vars,
         \A p \in Proc : ~PutBack(p) /\ ~ProjectProvider(p),
         \A c \in CoId : ~GiveBack(c) /\ ~EnterBracket(c) /\ ~GivesVerdict(c) /\ ~Records(c)
  PROVE  [MildNext]_queueVars
<1> DEFINE Step == [MildNext]_queueVars
<1>1. QueueTypeOK /\ CoType /\ ProcType /\ WhyIsKnown /\ cfg.provider \in Provider
  BY DEF TypeInv, WorkerTypeOK
<1>2. ASSUME NEW t \in TaskId, NEW reason \in FailReasons, TryMarkFailed(t, reason)
      PROVE  Step
  BY <1>2 DEF TryMarkFailed, MildNext
<1>3. CASE UNCHANGED queueVars
  BY <1>3
<1>4. ASSUME NEW t \in TaskId, NEW end \in CallEnd, TryFinalize(t, end)
      PROVE  Step
  BY <1>4 DEF TryFinalize, MildNext
<1>5. CASE UserEnqueue \/ UserCancel
  BY <1>1, <1>5 DEF UserEnqueue, UserCancel, MildNext
<1>6. ASSUME NEW p \in Proc, RetryDownload(p)
      PROVE  Step
  BY <1>6 DEF RetryDownload, MildNext
<1>7. ASSUME NEW p \in Proc, MainLoop(p)
      PROVE  Step
  <2>0. "lost" \in FailReasons /\ "error" \in FailReasons /\ proc[p].orphans \subseteq TaskId
    BY <1>1 DEF FailReasons, ProcType, ProcState
  <2>a. CASE FailOrphan(p)
    <3>1. PICK t \in TaskId : TryMarkFailed(t, "lost")
      BY <2>0, <2>a DEF FailOrphan
    <3> QED
      BY <1>2, <2>0, <3>1
  <2>b. CASE Claim(p)
    <3>1. PICK lane \in WorkLane, t \in TaskId : ClaimNext(t, lane, PoolFull(p, lane))
      BY <2>b DEF Claim
    <3>2. lane \in Lanes /\ PoolFull(p, lane) \in SUBSET Provider
      BY DEF WorkLane, Lanes, PoolFull
    <3> QED
      BY <3>1, <3>2 DEF MildNext
  <2>c. CASE RefuseLane(p)
    <3>1. PICK t \in TaskId : TryMarkFailed(t, "error")
      BY <2>c DEF RefuseLane
    <3> QED
      BY <1>2, <2>0, <3>1
  <2>d. CASE Settle(p)
    BY SMTT(30), <2>d DEF Settle, MildNext
  <2>e. CASE \/ Heartbeat(p) \/ ScanList(p) \/ ScanActive(p) \/ DispatchOrphan(p)
             \/ ScanDone(p) \/ LaneEmpty(p) \/ Dispatch(p)
    BY <1>3, <2>e DEF Heartbeat, ScanList, ScanActive, DispatchOrphan, ScanDone, LaneEmpty, Dispatch
  <2> QED
    BY <1>7, <2>a, <2>b, <2>c, <2>d, <2>e DEF MainLoop
<1>8. ASSUME NEW c \in CoId, RunStep(c) \/ RunTornDown(c)
      PROVE  Step
  <2>a. co[c] \in Coroutine /\ co[c].kind = "run"
    BY <1>1, <1>8, RunsMove DEF CoType, Idle
  <2>b. Task(c) \in TaskId
    BY <2>a DEF Coroutine, Task
  <2>c. CASE CloseBracket(c)
    BY <2>b, <2>c DEF CloseBracket, CallEnd, MildNext
  <2>d. CASE RunFails(c)
    BY <1>1, <1>2, <2>b, <2>d DEF RunFails, Run, WhyIsKnown, Failing
  <2>e. CASE Reject(c) \/ Submit(c) \/ Refused(c) \/ Answer(c) \/ RunTornDown(c)
    BY <1>3, <2>e DEF Reject, Submit, Refused, Answer, RunTornDown
  <2> QED
    BY <1>8, <2>c, <2>d, <2>e DEF RunStep, GivesVerdict, Records
<1>9. ASSUME NEW c \in CoId, ResumeStep(c) \/ ResumeTornDown(c)
      PROVE  Step
  <2>a. co[c] \in Coroutine /\ co[c].kind = "resume"
    BY <1>1, <1>9, ResumesMove DEF CoType, Idle
  <2>b. Task(c) \in TaskId
    BY <2>a DEF Coroutine, Task
  <2>c. CASE GiveUp(c)
    BY <1>2, <1>4, <2>b, <2>c DEF GiveUp, FailReasons, CallEnd
  <2>d. CASE ResumeSettles(c) \/ ResumeEnds(c)
    BY <1>4, <2>b, <2>d DEF ResumeSettles, ResumeEnds, CallEnd
  <2>e. CASE ResumeFails(c)
    BY <1>1, <1>2, <2>b, <2>e DEF ResumeFails, Resume, WhyIsKnown, Failing
  <2>f. CASE \/ RegisterRetry(c) \/ BeginResume(c) \/ LookUpCall(c) \/ ResumeAnswer(c)
             \/ ResumeTornDown(c)
    BY <1>3, <2>f DEF RegisterRetry, BeginResume, LookUpCall, ResumeAnswer, ResumeTornDown
  <2> QED
    BY <1>9, <2>c, <2>d, <2>e, <2>f DEF ResumeStep, GivesVerdict
<1>10. Reconfigure \/ LeaseExpires \/ UNCHANGED vars => UNCHANGED queueVars
  BY DEF Reconfigure, LeaseExpires, vars
<1>11. ASSUME NEW p \in Proc,
              ReloadLimits(p) \/ Start(p) \/ Crash(p) \/ StopSignal(p) \/ StopDone(p)
       PROVE  UNCHANGED queueVars
  BY <1>11 DEF ReloadLimits, Start, Crash, StopSignal, StopDone
<1> HIDE DEF Step
<1> QED
  BY <1>3, <1>5, <1>6, <1>7, <1>8, <1>9, <1>10, <1>11 DEF WorkerNext, Environment, Step

(* Every step of the worker is such a transaction, or none, but for three. *)
LEMMA PlainSimulation ==
  ASSUME TypeInv, [WorkerNext]_vars,
         \A p \in Proc : ~PutBack(p), \A c \in CoId : ~GiveBack(c) /\ ~EnterBracket(c)
  PROVE  [PlainNext]_queueVars
<1>1. CoType /\ cfg.provider \in Provider
  BY DEF TypeInv, WorkerTypeOK
<1>2. ASSUME NEW p \in Proc, ProjectProvider(p)
      PROVE  [PlainNext]_queueVars
  BY <1>1, <1>2 DEF ProjectProvider, PlainNext
<1>3. ASSUME NEW c \in CoId, GivesVerdict(c) \/ Records(c)
      PROVE  [PlainNext]_queueVars
  <2>a. co[c].kind \in {"run", "resume"}
    BY <1>3 DEF GivesVerdict, Records, Land, RunQuits, ResumeLands, ResumeQuits, Drift, Checkpoint,
         KeepJob, Run, Resume
  <2>b. Task(c) \in TaskId /\ co[c].prov \in Provider
    BY <1>1, <2>a DEF CoType, Idle, Coroutine, Task
  <2>c. CASE GivesVerdict(c)
    BY <2>b, <2>c DEF GivesVerdict, Land, RunQuits, ResumeLands, ResumeQuits, TryMarkSucceeded,
         TryInterrupt, PlainNext
  <2>d. CASE Records(c)
    BY <1>1, <2>b, <2>d DEF Records, Drift, Checkpoint, KeepJob, PlainNext
  <2> QED
    BY <1>3, <2>c, <2>d
<1>4. CASE [MildNext]_queueVars
  BY <1>4 DEF PlainNext
<1> QED
  BY <1>2, <1>3, <1>4, MildSimulation

-----------------------------------------------------------------------------
(* Every step of the worker is a transaction of the queue's, or none.      *)
LEMMA QueueSimulation ==
  ASSUME TypeInv, [WorkerNext]_vars
  PROVE  [QueueNext]_queueVars
<1>1. CASE \E p \in Proc : PutBack(p)
  BY <1>1 DEF PutBack, QueueNext
<1>2. ASSUME NEW c \in CoId, GiveBack(c) \/ EnterBracket(c)
      PROVE  [QueueNext]_queueVars
  <2>a. Task(c) \in TaskId
    BY <1>2 DEF TypeInv, WorkerTypeOK, CoType, Idle, Coroutine, Task, GiveBack, EnterBracket, Run
  <2>b. CASE GiveBack(c)
    BY <2>a, <2>b DEF GiveBack, TryMarkFailed, FailReasons, QueueNext
  <2>c. CASE EnterBracket(c)
    BY <2>a, <2>c DEF EnterBracket, QueueNext
  <2> QED
    BY <1>2, <2>b, <2>c
<1>3. CASE [PlainNext]_queueVars
  BY <1>3 DEF PlainNext, MildNext, QueueNext
<1> QED
  BY <1>1, <1>2, <1>3, PlainSimulation

(* No transaction forgets a row, or a provider it has recorded.            *)
LEMMA KnownStaysKnown ==
  ASSUME QueueTypeOK, [QueueNext]_queueVars, NEW t \in TaskId,
         status[t] # "absent", prov[t] \in Provider
  PROVE  status'[t] # "absent" /\ prov'[t] \in Provider
<1> USE DEF QueueTypeOK, Status, Active, Terminal
<1>1. CASE \E k \in Key, d \in TaskId \cup {NoDep}, p \in Provider \cup {NoProvider} :
             Enqueue(k, d, p)
  BY <1>1 DEF Enqueue
<1>2. CASE \E u \in TaskId, lane \in Lanes, full \in SUBSET Provider : ClaimNext(u, lane, full)
  BY <1>2 DEF ClaimNext
<1>3. ASSUME NEW u \in TaskId,
             \/ MarkSucceeded(u) \/ CancelTask(u) \/ FinalizeInterrupted(u)
             \/ \E reason \in FailReasons : MarkFailed(u, reason)
      PROVE  status'[t] # "absent" /\ prov'[t] \in Provider
  BY <1>3 DEF MarkSucceeded, CancelTask, FinalizeInterrupted, MarkFailed, EndWithCascade
<1>4. CASE CancelAllQueued \/ SettleInterrupted
  BY <1>4 DEF CancelAllQueued, SettleInterrupted, rowVars
<1>5. ASSUME NEW u \in TaskId, RetryArtifactDownload(u) \/ Requeue(u) \/ PersistJob(u) \/ OpenCall(u)
      PROVE  status'[t] # "absent" /\ prov'[t] \in Provider
  BY <1>5 DEF RetryArtifactDownload, Requeue, PersistJob, OpenCall, rowVars
<1>6. ASSUME NEW u \in TaskId, NEW p \in Provider, RecordProvider(u, p) \/ PersistCheckpoint(u, p)
      PROVE  status'[t] # "absent" /\ prov'[t] \in Provider
  BY <1>6 DEF RecordProvider, PersistCheckpoint
<1>7. CASE \E u \in TaskId, end \in CallEnd : FinishCall(u, end) \/ FinalizePending(u, end)
  BY <1>7 DEF FinishCall, FinalizePending, rowVars
<1>8. CASE UNCHANGED queueVars
  BY <1>8 DEF queueVars, rowVars
<1> QED
  BY <1>1, <1>2, <1>3, <1>4, <1>5, <1>6, <1>7, <1>8 DEF QueueNext

(* What the scan puts aside are running jobs it can resume.                *)
LEMMA ReadyIsScanned ==
  ASSUME TypeInv, [WorkerNext]_vars, NEW p \in Proc, NEW t \in proc'[p].ready
  PROVE  \/ t \in proc[p].ready
         \/ t \in TaskId /\ status[t] = "running" /\ t \in jobs /\ prov[t] \in Resumable
<1> DEFINE Found == t \in TaskId /\ status[t] = "running" /\ t \in jobs /\ prov[t] \in Resumable
<1>1. ProcType /\ CoType
  BY DEF TypeInv, WorkerTypeOK
<1>2. ASSUME NEW q \in Proc,
             ReloadLimits(q) \/ Start(q) \/ Crash(q) \/ StopSignal(q) \/ StopDone(q)
      PROVE  t \in proc[p].ready
  BY <1>1, <1>2 DEF ReloadLimits, Start, Crash, StopSignal, StopDone, Gone, Down, ProcType, ProcState
<1>3. ASSUME NEW q \in Proc, MainLoop(q)
      PROVE  t \in proc[p].ready \/ Found
  <2>a. CASE ScanList(q)
    <3> DEFINE running == {u \in TaskId : status[u] = "running"}
               ready == {u \in running : /\ Lane(u) = "video"
                                         /\ u \in ckpts /\ u \in jobs
                                         /\ prov[u] \in Resumable}
    <3>1. proc'[p].ready = IF p = q THEN ready ELSE proc[p].ready
      BY <1>1, <2>a DEF ScanList, ProcType, ProcState
    <3> QED
      BY <3>1
  <2> USE <1>1 DEF ProcType, ProcState
  <2>b. CASE Heartbeat(q)
    BY <1>3, <2>b DEF Heartbeat
  <2>c. CASE ScanActive(q)
    BY <1>3, <2>c DEF ScanActive
  <2>d. CASE FailOrphan(q)
    BY <1>3, <2>d DEF FailOrphan
  <2>e. CASE DispatchOrphan(q)
    BY <1>3, <2>e DEF DispatchOrphan
  <2>f. CASE ScanDone(q)
    BY <1>3, <2>f DEF ScanDone
  <2>g. CASE Settle(q)
    BY <1>3, <2>g DEF Settle
  <2>h. CASE Claim(q)
    BY <1>3, <2>h DEF Claim
  <2>i. CASE LaneEmpty(q)
    BY <1>3, <2>i DEF LaneEmpty
  <2>j. CASE ProjectProvider(q)
    BY <1>3, <2>j DEF ProjectProvider
  <2>k. CASE RefuseLane(q) \/ PutBack(q) \/ Dispatch(q)
    <3>1. HandEmptied(q)
      BY <2>k DEF RefuseLane, PutBack, Dispatch
    <3> QED
      BY <1>3, <3>1 DEF HandEmptied
  <2> QED
    BY <1>3, <2>a, <2>b, <2>c, <2>d, <2>e, <2>f, <2>g, <2>h, <2>i, <2>j, <2>k DEF MainLoop
<1>4. ASSUME NEW c \in CoId, RegisterRetry(c)
      PROVE  t \in proc[p].ready
  BY <1>1, <1>4 DEF RegisterRetry, ProcType, ProcState
<1>5. UserEnqueue \/ UserCancel \/ Reconfigure \/ LeaseExpires \/ UNCHANGED vars => UNCHANGED proc
  BY DEF UserEnqueue, UserCancel, Reconfigure, LeaseExpires, workerVars, vars
<1>6. ASSUME NEW q \in Proc, RetryDownload(q)
       PROVE  UNCHANGED proc
  BY <1>6 DEF RetryDownload
<1>7. CASE UNCHANGED proc
  BY <1>7
<1> QED
  BY <1>2, <1>3, <1>4, <1>5, <1>6, <1>7, RunsAreQuiet, ResumesAreQuiet DEF WorkerNext, Environment

LEMMA ReadyStep ==
  ASSUME TypeInv, [WorkerNext]_vars
  PROVE  ReadyIsKnown'
<1>1. [QueueNext]_queueVars
  BY QueueSimulation
<1>2. \A p \in Proc : \A t \in proc[p].ready : t \in TaskId
  BY DEF TypeInv, WorkerTypeOK, ProcType, ProcState
<1>3. ASSUME NEW p \in Proc, NEW t \in proc'[p].ready
      PROVE  t \in TaskId /\ status[t] # "absent" /\ prov[t] \in Provider
  BY <1>2, ReadyIsScanned, WorkerConstants DEF TypeInv, ReadyIsKnown
<1> QED
  BY <1>1, <1>3, KnownStaysKnown DEF TypeInv, ReadyIsKnown

-----------------------------------------------------------------------------
LEMMA RestTypeStep ==
  ASSUME TypeInv, [WorkerNext]_vars
  PROVE  /\ lease' \in Proc \cup {Free, Dead}
         /\ cfg' \in [provider : Provider, table : Tables]
         /\ submits' \in [TaskId -> Nat]
         /\ spent' \in [{"restarts", "flaps", "retries", "switches"} -> Nat]
<1> DEFINE Bounds == [{"restarts", "flaps", "retries", "switches"} -> Nat]
           Goal == /\ lease' \in Proc \cup {Free, Dead}
                   /\ cfg' \in [provider : Provider, table : Tables]
                   /\ submits' \in [TaskId -> Nat]
                   /\ spent' \in Bounds
<1>1. /\ lease \in Proc \cup {Free, Dead} /\ cfg \in [provider : Provider, table : Tables]
      /\ submits \in [TaskId -> Nat] /\ spent \in Bounds /\ CoType
  BY DEF TypeInv, WorkerTypeOK
<1>2. ASSUME NEW what \in {"restarts", "flaps", "retries", "switches"}, NEW bound, Spend(what, bound)
      PROVE  spent' \in Bounds
  BY <1>1, <1>2 DEF Spend
<1>3. UserEnqueue \/ UserCancel \/ UNCHANGED vars => Goal
  BY <1>1 DEF UserEnqueue, UserCancel, workerVars, vars
<1>4. Reconfigure \/ LeaseExpires => Goal
  BY <1>1, <1>2 DEF Reconfigure, LeaseExpires
<1>5. ASSUME NEW p \in Proc,
             \/ ReloadLimits(p) \/ RetryDownload(p) \/ Start(p) \/ Crash(p)
             \/ StopSignal(p) \/ StopDone(p)
      PROVE  Goal
  BY <1>1, <1>2, <1>5 DEF ReloadLimits, RetryDownload, Start, Crash, StopSignal, StopDone
<1>6. ASSUME NEW p \in Proc, MainLoop(p)
      PROVE  Goal
  <2>a. UNCHANGED <<cfg, submits, spent>> /\ (Heartbeat(p) \/ UNCHANGED lease)
    BY <1>6, MainLoopIsQuiet
  <2>b. lease' \in Proc \cup {Free, Dead}
    <3>1. CASE Heartbeat(p)
      BY <1>1, <3>1 DEF Heartbeat
    <3> QED
      BY <1>1, <2>a, <3>1
  <2> QED
    BY <1>1, <2>a, <2>b
<1>7. ASSUME NEW c \in CoId, ResumeStep(c) \/ ResumeTornDown(c)
      PROVE  Goal
  BY <1>1, <1>7, ResumesAreQuiet
<1>8. ASSUME NEW c \in CoId, RunStep(c) \/ RunTornDown(c)
      PROVE  Goal
  <2>a. Task(c) \in TaskId
    BY <1>1, <1>8, RunsMove DEF CoType, Idle, Coroutine, Task
  <2>b. submits' = submits \/ Submit(c)
    BY <1>8 DEF RunStep, RunTornDown, Drift, GiveBack, Reject, EnterBracket, Checkpoint,
         Refused, KeepJob, Answer, CloseBracket, Land, RunFails, RunQuits
  <2>c. submits' \in [TaskId -> Nat]
    BY <1>1, <2>a, <2>b DEF Submit
  <2> QED
    BY <1>1, <1>8, <2>c, RunsAreQuiet
<1> HIDE DEF Goal
<1> QED
  BY <1>3, <1>4, <1>5, <1>6, <1>7, <1>8 DEF WorkerNext, Environment, Goal

LEMMA WorkerInitTyped == WorkerInit => TypeInv
<1> SUFFICES ASSUME WorkerInit
             PROVE  TypeInv
  OBVIOUS
<1>1. QueueTypeOK
  BY DEF WorkerInit, QueueInit, QueueTypeOK, Status, Reasons
<1>2. ProcType /\ ReadyIsKnown
  BY WorkerConstants DEF WorkerInit, Down, ProcType, ProcState, ReadyIsKnown
<1>3. SlotsType /\ CoType /\ WhyIsKnown
  BY DEF WorkerInit, SlotsType, CoType, WhyIsKnown, Idle, Failing
<1>4. /\ lease \in Proc \cup {Free, Dead} /\ cfg \in [provider : Provider, table : Tables]
      /\ submits \in [TaskId -> Nat]
      /\ spent \in [{"restarts", "flaps", "retries", "switches"} -> Nat]
  BY DEF WorkerInit
<1> QED
  BY <1>1, <1>2, <1>3, <1>4 DEF TypeInv, WorkerTypeOK

LEMMA TypeInvStep == TypeInv /\ [WorkerNext]_vars => TypeInv'
<1> SUFFICES ASSUME TypeInv, [WorkerNext]_vars
             PROVE  TypeInv'
  OBVIOUS
<1>1. QueueTypeOK'
  BY QueueSimulation, TypeStep DEF TypeInv
<1>2. WorkerTypeOK'
  BY ProcTypeStep, SlotsTypeStep, CoTypeStep, RestTypeStep DEF WorkerTypeOK
<1> QED
  BY <1>1, <1>2, ReadyStep, CoTypeStep DEF TypeInv

(* Processes, slots and coroutines stay well typed whatever crashes,       *)
(* take-overs and retries happen; a coroutine that fails its task knows    *)
(* why, and a task put aside for a resume is on record with its provider.  *)
THEOREM WorkerTypeCorrect == WorkerSpec => []WorkerTypeOK
<1>1. WorkerSpec => []TypeInv
  BY WorkerInitTyped, TypeInvStep, PTL DEF WorkerSpec
<1>2. TypeInv => WorkerTypeOK
  BY DEF TypeInv
<1> QED
  BY <1>1, <1>2, PTL

(* The worker implements the queue: whatever several processes, their      *)
(* scans, runs, resumes and retries do between them, the rows go through a *)
(* sequence of TaskRepository and UsageRepository transactions.            *)
THEOREM WorkerIsQueue == WorkerSpec => QueueSpec
<1>1. WorkerSpec => []TypeInv
  BY WorkerInitTyped, TypeInvStep, PTL DEF WorkerSpec
<1>2. WorkerInit => QueueInit
  BY DEF WorkerInit
<1>3. TypeInv /\ [WorkerNext]_vars => [QueueNext]_queueVars
  BY QueueSimulation
<1> QED
  BY <1>1, <1>2, <1>3, PTL DEF WorkerSpec, QueueSpec

(* So the queue's invariants hold of the running system: one unfinished    *)
(* row per key, nothing runs ahead of its dependency, nothing waits for a  *)
(* task that is dead.                                                      *)
THEOREM WorkerKeepsRows == WorkerSpec => []RowsAreSound
BY WorkerIsQueue, RowsSound

(* And so does the action property: no step of the worker takes a verdict  *)
(* back.                                                                   *)
THEOREM WorkerKeepsVerdicts == WorkerSpec => VerdictStands
BY WorkerIsQueue, VerdictsHold

-----------------------------------------------------------------------------
(* A task nothing has happened to yet, or that was withdrawn while it      *)
(* waited.                                                                 *)
Untouched(t) ==
  \/ status[t] \in {"absent", "queued"}
  \/ status[t] = "cancelled" /\ why[t] \in {"user", "cascade"}
Fresh(t) == submits[t] = 0 /\ call[t] = "none"
IsRun(c) == co[c].kind = "run"
BeforeCall == {"exec", "giveback"}

HolderInv ==
  /\ \A p, q \in Proc : proc[p].hand # NoTask /\ proc[p].hand = proc[q].hand => p = q
  /\ \A c, d \in CoId : IsRun(c) /\ IsRun(d) /\ Task(c) = Task(d) => c = d
  /\ \A p \in Proc, c \in CoId : IsRun(c) => proc[p].hand # Task(c)
  /\ \A p \in Proc, t \in TaskId : proc[p].hand = t => Fresh(t) /\ ~Untouched(t)
  /\ \A c \in CoId : IsRun(c) =>
       /\ ~Untouched(Task(c))
       /\ co[c].ph \in BeforeSubmit => submits[Task(c)] = 0
       /\ co[c].ph \in BeforeCall => call[Task(c)] = "none"
  /\ \A t \in TaskId : submits[t] <= 1 /\ (Untouched(t) => Fresh(t))

-----------------------------------------------------------------------------
NoneAdded == \A t \in TaskId : Untouched(t)' => Untouched(t)
CallsStay == \A t \in TaskId : call[t] = "none" => call'[t] = "none"

(* No such transaction puts a task back among the untouched ones, or opens *)
(* the first call row of a task.                                           *)
LEMMA PlainIsQuiet ==
  ASSUME QueueTypeOK, [PlainNext]_queueVars
  PROVE  NoneAdded /\ CallsStay
<1> USE DEF QueueTypeOK, Status, Active, Terminal, NoneAdded, CallsStay, Untouched
<1>1. CASE \E k \in Key, d \in TaskId \cup {NoDep}, p \in Provider \cup {NoProvider} :
             Enqueue(k, d, p)
  BY <1>1 DEF Enqueue
<1>2. CASE \E t \in TaskId, lane \in Lanes, full \in SUBSET Provider : ClaimNext(t, lane, full)
  BY <1>2 DEF ClaimNext
<1>3. ASSUME NEW t \in TaskId, MarkSucceeded(t)
      PROVE  NoneAdded /\ CallsStay
  BY <1>3 DEF MarkSucceeded
<1>4. ASSUME NEW t \in TaskId, CancelTask(t)
      PROVE  NoneAdded /\ CallsStay
  BY <1>4, BehindIsQueued DEF CancelTask, EndWithCascade
<1>5. ASSUME NEW t \in TaskId, FinalizeInterrupted(t)
      PROVE  NoneAdded /\ CallsStay
  BY <1>5, BehindIsQueued DEF FinalizeInterrupted, EndWithCascade
<1>6. ASSUME NEW t \in TaskId, RetryArtifactDownload(t)
      PROVE  NoneAdded /\ CallsStay
  BY <1>6 DEF RetryArtifactDownload, MayRetryDownload
<1>7. ASSUME NEW t \in TaskId, NEW reason \in FailReasons, MarkFailed(t, reason)
      PROVE  NoneAdded /\ CallsStay
  BY <1>7, BehindIsQueued DEF MarkFailed, EndWithCascade
<1>8. CASE CancelAllQueued
  BY <1>8 DEF CancelAllQueued
<1>9. CASE \E t \in TaskId, p \in Provider : RecordProvider(t, p) \/ PersistCheckpoint(t, p)
  BY <1>9 DEF RecordProvider, PersistCheckpoint
<1>10. CASE \E t \in TaskId : PersistJob(t)
  BY <1>10 DEF PersistJob
<1>11. CASE \E t \in TaskId, end \in CallEnd : FinishCall(t, end) \/ FinalizePending(t, end)
  BY <1>11 DEF FinishCall, FinalizePending, rowVars
<1>12. CASE SettleInterrupted
  BY <1>12 DEF SettleInterrupted, rowVars
<1>13. CASE UNCHANGED queueVars
  BY <1>13 DEF queueVars, rowVars
<1> QED
  BY <1>1, <1>2, <1>3, <1>4, <1>5, <1>6, <1>7, <1>8, <1>9, <1>10, <1>11, <1>12, <1>13
     DEF PlainNext, MildNext

-----------------------------------------------------------------------------
(* Runs only ever move on: no run goes back to before its submission, and  *)
(* but for dispatch none begins.  Hands are only ever emptied, but for the *)
(* claim.                                                                  *)
MovesOn(c) ==
  IsRun(c)' => /\ IsRun(c) /\ Task(c)' = Task(c)
               /\ co'[c].ph \in BeforeSubmit => co[c].ph \in BeforeSubmit
               /\ co'[c].ph \in BeforeCall => co[c].ph \in BeforeCall
RunsMoveOn == \A c \in CoId : MovesOn(c)
HandsOnlyEmptied == \A p \in Proc : proc'[p].hand \in {proc[p].hand, NoTask}

(* The phase a run goes to comes later than the one it is in.              *)
Onward(c) ==
  \E ph \in RunPhases, reason \in Reasons :
    /\ Go(c, ph) \/ GoWhy(c, ph, reason)
    /\ ph \in BeforeSubmit => co[c].ph \in BeforeSubmit
    /\ ph \in BeforeCall => co[c].ph \in BeforeCall

LEMMA RunGoesOn ==
  ASSUME CoType, NEW c \in CoId, RunStep(c) \/ RunTornDown(c)
  PROVE  End(c) \/ Onward(c)
<1>0. co[c].why \in Reasons
  BY DEF CoType, Coroutine, Idle, Reasons
<1> USE DEF Onward, Run, RunPhases, BeforeSubmit, BeforeCall, Reasons
<1>1. CASE Drift(c) \/ GiveBack(c) \/ Reject(c) \/ EnterBracket(c) \/ Checkpoint(c)
  BY <1>1 DEF Drift, GiveBack, Reject, EnterBracket, Checkpoint
<1>2. CASE Submit(c) \/ Refused(c) \/ KeepJob(c) \/ Answer(c)
  BY <1>2 DEF Submit, Refused, KeepJob, Answer
<1>3. CASE CloseBracket(c) \/ Land(c) \/ RunFails(c) \/ RunQuits(c)
  BY <1>3 DEF CloseBracket, Land, RunFails, RunQuits
<1>4. CASE RunTornDown(c)
  BY <1>4 DEF RunTornDown
<1> QED
  BY <1>1, <1>2, <1>3, <1>4 DEF RunStep

LEMMA RunStepMovesOn ==
  ASSUME CoType, NEW c \in CoId, RunStep(c) \/ RunTornDown(c)
  PROVE  RunsMoveOn /\ IsRun(c)
<1>1. IsRun(c)
  BY RunsMove DEF IsRun
<1>2. co[c] \in Coroutine
  BY <1>1 DEF IsRun, CoType, Idle
<1> USE DEF RunsMoveOn, MovesOn, IsRun, Task
<1>3. CASE End(c)
  BY <1>1, <1>3 DEF End, CoType, Idle
<1>4. ASSUME NEW ph, NEW reason, Go(c, ph) \/ GoWhy(c, ph, reason),
             ph \in BeforeSubmit => co[c].ph \in BeforeSubmit,
             ph \in BeforeCall => co[c].ph \in BeforeCall
      PROVE  RunsMoveOn
  <2>a. \A d \in CoId : d # c => co'[d] = co[d]
    BY <1>4 DEF Go, GoWhy, CoType
  <2>b. co'[c].ph = ph /\ co'[c].task = co[c].task
    BY <1>2, <1>4 DEF Go, GoWhy, CoType, Coroutine
  <2> QED
    BY <1>1, <1>4, <2>a, <2>b
<1> HIDE DEF RunsMoveOn
<1>5. CASE Onward(c)
  BY <1>1, <1>4, <1>5 DEF Onward
<1> QED
  BY <1>3, <1>5, RunGoesOn

LEMMA ResumeStepMovesOn ==
  ASSUME CoType, NEW c \in CoId, ResumeStep(c) \/ ResumeTornDown(c)
  PROVE  RunsMoveOn
<1>1. co[c].kind = "resume"
  BY ResumesMove
<1>2. co[c] \in Coroutine
  BY <1>1 DEF CoType, Idle
<1>3. \A d \in CoId : d # c => co'[d] = co[d]
  <2>a. CASE End(c) \/ LookUpCall(c)
    BY <2>a DEF CoType, End, LookUpCall
  <2>b. CASE DispatchTo(co[c].proc, Task(c), co[c].prov, c, 0)
    <3>1. PICK it : co' = [co EXCEPT ![c] = it]
      BY <2>b DEF DispatchTo
    <3> QED
      BY <3>1 DEF CoType
  <2>c. CASE \E ph, reason : Go(c, ph) \/ GoWhy(c, ph, reason)
    BY <2>c DEF CoType, Go, GoWhy
  <2>d. RegisterRetry(c) => End(c) \/ DispatchTo(co[c].proc, Task(c), co[c].prov, c, 0)
    BY DEF RegisterRetry
  <2>e. Moves(c, ResumePhases) => End(c) \/ \E ph, reason : Go(c, ph) \/ GoWhy(c, ph, reason)
    BY DEF Moves
  <2> QED
    BY <2>a, <2>b, <2>c, <2>d, <2>e, ResumesMove
<1>4. co'[c].kind # "run"
  <2>a. CASE RegisterRetry(c)
    <3>1. CASE End(c)
      BY <3>1 DEF End, Idle, CoType
    <3>2. CASE DispatchTo(co[c].proc, Task(c), co[c].prov, c, 0)
      <4> DEFINE it(ph) == [Idle EXCEPT !.proc = co[c].proc, !.task = Task(c), !.prov = co[c].prov,
                              !.kind = "resume", !.group = 0,
                              !.cap = Refreshed(co[c].proc, co[c].prov)[co[c].prov]["video"],
                              !.ph = ph]
      <4>1. co' = [co EXCEPT ![c] = it("giveup")] \/ co' = [co EXCEPT ![c] = it("wait")]
        BY <3>2 DEF DispatchTo, Idle
      <4>2. \A ph : it(ph).kind = "resume"
        BY DEF Idle
      <4> HIDE DEF it
      <4> QED
        BY <4>1, <4>2 DEF CoType
    <3> QED
      BY <2>a, <3>1, <3>2 DEF RegisterRetry
  <2>b. CASE LookUpCall(c)
    BY <1>1, <1>2, <2>b DEF CoType, Coroutine, LookUpCall
  <2>c. CASE End(c)
    BY <2>c DEF CoType, End, Idle
  <2>d. CASE \E ph, reason : Go(c, ph) \/ GoWhy(c, ph, reason)
    BY <1>1, <1>2, <2>d DEF CoType, Coroutine, Go, GoWhy
  <2> QED
    BY <2>a, <2>b, <2>c, <2>d, ResumesMove DEF Moves
<1> QED
  BY <1>3, <1>4 DEF RunsMoveOn, MovesOn, IsRun, Task

-----------------------------------------------------------------------------
(* What every step does that is not one of six.                            *)
QuietStep == NoneAdded /\ CallsStay /\ UNCHANGED submits /\ HandsOnlyEmptied /\ RunsMoveOn

LEMMA QuietStepKeepsHolder ==
  ASSUME TypeInv, TypeInv', HolderInv, QuietStep
  PROVE  HolderInv'
<1> DEFINE t0 == NoTask
<1>1. \A p \in Proc : proc[p].hand \in TaskId \cup {NoTask} /\ proc'[p].hand \in TaskId \cup {NoTask}
  BY DEF TypeInv, WorkerTypeOK, ProcType, ProcState
<1>2. \A c \in CoId : (IsRun(c) => Task(c) \in TaskId) /\ (IsRun(c)' => Task(c)' \in TaskId)
  BY DEF TypeInv, WorkerTypeOK, CoType, Coroutine, Idle, IsRun, Task
<1>3. \A t \in TaskId : t # NoTask
  BY DEF TaskId, NoTask
<1>4. \A t \in TaskId : (Fresh(t) => Fresh(t)') /\ (~Untouched(t) => ~Untouched(t)')
  BY DEF QuietStep, NoneAdded, CallsStay, Fresh
<1>5. \A p, q \in Proc : proc'[p].hand # NoTask /\ proc'[p].hand = proc'[q].hand => p = q
  BY DEF HolderInv, QuietStep, HandsOnlyEmptied
<1>6. \A c, d \in CoId : IsRun(c)' /\ IsRun(d)' /\ Task(c)' = Task(d)' => c = d
  BY DEF HolderInv, QuietStep, RunsMoveOn, MovesOn
<1>7. \A p \in Proc, c \in CoId : IsRun(c)' => proc'[p].hand # Task(c)'
  BY <1>2, <1>3 DEF HolderInv, QuietStep, RunsMoveOn, MovesOn, HandsOnlyEmptied
<1>8. \A p \in Proc, t \in TaskId : proc'[p].hand = t => Fresh(t)' /\ ~Untouched(t)'
  BY <1>3, <1>4 DEF HolderInv, QuietStep, HandsOnlyEmptied
<1>9. ASSUME NEW c \in CoId, IsRun(c)'
      PROVE  /\ ~Untouched(Task(c))'
             /\ co'[c].ph \in BeforeSubmit => submits'[Task(c)'] = 0
             /\ co'[c].ph \in BeforeCall => call'[Task(c)'] = "none"
  <2>a. IsRun(c) /\ Task(c)' = Task(c) /\ Task(c) \in TaskId
    BY <1>2, <1>9 DEF QuietStep, RunsMoveOn, MovesOn
  <2>b. ~Untouched(Task(c)) /\ (~Untouched(Task(c)))'
    BY <1>4, <2>a DEF HolderInv, QuietStep, NoneAdded, Untouched
  <2> QED
    BY <1>9, <2>a, <2>b DEF HolderInv, QuietStep, RunsMoveOn, MovesOn, CallsStay
<1>10. \A t \in TaskId : submits'[t] <= 1 /\ (Untouched(t)' => Fresh(t)')
  BY <1>4 DEF HolderInv, QuietStep
<1> QED
  BY <1>5, <1>6, <1>7, <1>8, <1>9, <1>10 DEF HolderInv
LEMMA HandsStep ==
  ASSUME TypeInv, [WorkerNext]_vars, \A p \in Proc : ~Claim(p)
  PROVE  HandsOnlyEmptied
<1>1. ProcType /\ CoType
  BY DEF TypeInv, WorkerTypeOK
<1> USE DEF HandsOnlyEmptied
<1>2. CASE UNCHANGED proc
  BY <1>2
<1> USE <1>1 DEF ProcType, ProcState
<1>3. ASSUME NEW p \in Proc, ReloadLimits(p) \/ Start(p) \/ Crash(p) \/ StopSignal(p) \/ StopDone(p)
      PROVE  HandsOnlyEmptied
  BY <1>3 DEF ReloadLimits, Start, Crash, StopSignal, StopDone, Gone, Down
<1>4. ASSUME NEW p \in Proc, MainLoop(p)
      PROVE  HandsOnlyEmptied
  <2>a. CASE Heartbeat(p)
    BY <2>a DEF Heartbeat
  <2>b. CASE ScanList(p)
    <3> DEFINE running == {t \in TaskId : status[t] = "running"}
               ready == {t \in running : /\ Lane(t) = "video"
                                         /\ t \in ckpts /\ t \in jobs
                                         /\ prov[t] \in Resumable}
               pc == IF running = {} THEN "settle" ELSE "active"
    <3>1. proc' = [proc EXCEPT ![p].orphans = running, ![p].ready = ready, ![p].round = @ + 1,
                               ![p].pc = pc]
      BY <2>b DEF ScanList
    <3> HIDE DEF running, ready, pc
    <3> QED
      BY <3>1
  <2>d. CASE ScanActive(p)
    BY <2>d DEF ScanActive
  <2>e. CASE Settle(p)
    BY <2>e DEF Settle
  <2>f. CASE FailOrphan(p)
    BY <2>f DEF FailOrphan
  <2>g. CASE DispatchOrphan(p)
    BY <2>g DEF DispatchOrphan
  <2>h. CASE ScanDone(p)
    BY <2>h DEF ScanDone
  <2>i. CASE LaneEmpty(p)
    BY <2>i DEF LaneEmpty
  <2>j. CASE ProjectProvider(p)
    BY <2>j DEF ProjectProvider
  <2>c. CASE RefuseLane(p) \/ PutBack(p) \/ Dispatch(p)
    <3>1. HandEmptied(p)
      BY <2>c DEF RefuseLane, PutBack, Dispatch
    <3> QED
      BY <3>1 DEF HandEmptied
  <2> QED
    BY <1>4, <2>a, <2>b, <2>c, <2>d, <2>e, <2>f, <2>g, <2>h, <2>i, <2>j DEF MainLoop
<1>5. ASSUME NEW c \in CoId, RegisterRetry(c)
      PROVE  HandsOnlyEmptied
  BY <1>5 DEF RegisterRetry
<1>6. UserEnqueue \/ UserCancel \/ Reconfigure \/ LeaseExpires \/ UNCHANGED vars => UNCHANGED proc
  BY DEF UserEnqueue, UserCancel, Reconfigure, LeaseExpires, workerVars, vars
<1>7. ASSUME NEW p \in Proc, RetryDownload(p)
      PROVE  UNCHANGED proc
  BY <1>7 DEF RetryDownload
<1> HIDE DEF HandsOnlyEmptied
<1> QED
  BY <1>2, <1>3, <1>4, <1>5, <1>6, <1>7, RunsAreQuiet, ResumesAreQuiet DEF WorkerNext, Environment

LEMMA RunsStep ==
  ASSUME TypeInv, [WorkerNext]_vars, \A p \in Proc : ~Dispatch(p)
  PROVE  RunsMoveOn
<1>1. ProcType /\ CoType
  BY DEF TypeInv, WorkerTypeOK
<1>2. CASE UNCHANGED co
  BY <1>2 DEF RunsMoveOn, MovesOn, IsRun, Task
(* One more resume, in the place of whatever was there. *)
<1>3. ASSUME NEW c \in CoId, NEW r, r.kind = "resume", co' = [co EXCEPT ![c] = r]
      PROVE  RunsMoveOn
  BY <1>1, <1>3 DEF RunsMoveOn, MovesOn, IsRun, Task, CoType
<1>4. ASSUME NEW p \in Proc, RetryDownload(p)
      PROVE  RunsMoveOn
  <2>a. PICK t \in TaskId, c \in CoId :
          co' = [co EXCEPT ![c] = [Idle EXCEPT !.proc = p, !.task = t, !.prov = prov[t],
                                               !.kind = "resume", !.ph = "dispatch"]]
    BY <1>4 DEF RetryDownload
  <2> DEFINE r == [Idle EXCEPT !.proc = p, !.task = t, !.prov = prov[t],
                               !.kind = "resume", !.ph = "dispatch"]
  <2>b. r.kind = "resume"
    BY DEF Idle
  <2> HIDE DEF r
  <2> QED
    BY <1>3, <2>a, <2>b DEF r
<1>5. ASSUME NEW p \in Proc, Crash(p) \/ StopDone(p)
      PROVE  RunsMoveOn
  BY <1>1, <1>5 DEF Crash, StopDone, Gone, Idle, RunsMoveOn, MovesOn, IsRun, Task
<1>6. ASSUME NEW p \in Proc, DispatchOrphan(p)
      PROVE  RunsMoveOn
  <2>a. PICK t \in proc[p].ready, c \in CoId : DispatchTo(p, t, prov[t], c, proc[p].round) \/ UNCHANGED co
    BY <1>6 DEF DispatchOrphan
  <2> DEFINE it(ph) == [Idle EXCEPT !.proc = p, !.task = t, !.prov = prov[t],
                          !.kind = "resume", !.group = proc[p].round,
                          !.cap = Refreshed(p, prov[t])[prov[t]]["video"], !.ph = ph]
  <2>b. UNCHANGED co \/ co' = [co EXCEPT ![c] = it("giveup")] \/ co' = [co EXCEPT ![c] = it("wait")]
    BY <2>a DEF DispatchTo, Idle
  <2>c. \A ph : it(ph).kind = "resume"
    BY DEF Idle
  <2> HIDE DEF it
  <2> QED
    BY <1>2, <1>3, <2>b, <2>c
<1>7. \A p \in Proc : MainLoop(p) => DispatchOrphan(p) \/ UNCHANGED co
  BY MainLoopIsQuiet
<1>8. \A c \in CoId : RunStep(c) \/ RunTornDown(c) \/ ResumeStep(c) \/ ResumeTornDown(c) => RunsMoveOn
  BY <1>1, RunStepMovesOn, ResumeStepMovesOn
<1>9. UserEnqueue \/ UserCancel \/ Reconfigure \/ LeaseExpires \/ UNCHANGED vars => UNCHANGED co
  BY DEF UserEnqueue, UserCancel, Reconfigure, LeaseExpires, workerVars, vars
<1>10. ASSUME NEW p \in Proc, ReloadLimits(p) \/ Start(p) \/ StopSignal(p)
       PROVE  UNCHANGED co
  BY <1>10 DEF ReloadLimits, Start, StopSignal
<1> QED
  BY <1>2, <1>4, <1>5, <1>6, <1>7, <1>8, <1>9, <1>10 DEF WorkerNext, Environment

LEMMA SubmitsStep ==
  ASSUME [WorkerNext]_vars, \A c \in CoId : ~Submit(c)
  PROVE  UNCHANGED submits
<1>1. ASSUME NEW c \in CoId, RunStep(c) \/ RunTornDown(c)
      PROVE  UNCHANGED submits
  BY <1>1 DEF RunStep, RunTornDown, Drift, GiveBack, Reject, EnterBracket, Checkpoint,
       Refused, KeepJob, Answer, CloseBracket, Land, RunFails, RunQuits
<1>2. UserEnqueue \/ UserCancel \/ Reconfigure \/ LeaseExpires \/ UNCHANGED vars => UNCHANGED submits
  BY DEF UserEnqueue, UserCancel, Reconfigure, LeaseExpires, workerVars, vars
<1>3. ASSUME NEW p \in Proc, \/ ReloadLimits(p) \/ RetryDownload(p) \/ Start(p) \/ Crash(p)
                             \/ StopSignal(p) \/ StopDone(p)
      PROVE  UNCHANGED submits
  BY <1>3 DEF ReloadLimits, RetryDownload, Start, Crash, StopSignal, StopDone
<1> QED
  BY <1>1, <1>2, <1>3, MainLoopIsQuiet, ResumesAreQuiet DEF WorkerNext, Environment
LEMMA QuietStepHolds ==
  ASSUME TypeInv, [WorkerNext]_vars,
         \A p \in Proc : ~Claim(p) /\ ~Dispatch(p) /\ ~PutBack(p),
         \A c \in CoId : ~GiveBack(c) /\ ~EnterBracket(c) /\ ~Submit(c)
  PROVE  QuietStep
<1>1. NoneAdded /\ CallsStay
  BY PlainSimulation, PlainIsQuiet DEF TypeInv
<1> QED
  BY <1>1, HandsStep, RunsStep, SubmitsStep DEF QuietStep

-----------------------------------------------------------------------------
(* The claim: what was queued is in one hand, and in nobody's before.      *)
LEMMA ClaimKeepsHolder ==
  ASSUME TypeInv, HolderInv, NEW p \in Proc, Claim(p)
  PROVE  HolderInv'
<1>1. PICK lane \in WorkLane, t \in TaskId :
        /\ proc[p].hand = NoTask
        /\ ClaimNext(t, lane, PoolFull(p, lane))
        /\ proc' = [proc EXCEPT
             ![p].hand = t,
             ![p].prov = IF prov[t] \in Provider /\ Capacity(p, prov[t], lane) > 0
                         THEN prov[t] ELSE NoProvider]
        /\ UNCHANGED <<co, submits>>
  BY DEF Claim
<1>2. /\ status[t] = "queued" /\ status' = [status EXCEPT ![t] = "running"]
      /\ UNCHANGED <<why, call>> /\ status \in [TaskId -> Status]
  BY <1>1 DEF ClaimNext, Claimable, TypeInv, QueueTypeOK
<1>3. \A q \in Proc : proc'[q].hand = IF q = p THEN t ELSE proc[q].hand
  BY <1>1 DEF TypeInv, WorkerTypeOK, ProcType, ProcState
<1>4. /\ \A u \in TaskId : Fresh(u)' = Fresh(u)
      /\ \A u \in TaskId : Untouched(u)' = (u # t /\ Untouched(u))
      /\ Untouched(t)
  BY <1>1, <1>2 DEF Fresh, Untouched
<1>5. \A c \in CoId : IsRun(c)' = IsRun(c) /\ Task(c)' = Task(c)
  BY <1>1 DEF IsRun, Task
<1>6. \A c \in CoId : IsRun(c) => Task(c) \in TaskId
  BY DEF TypeInv, WorkerTypeOK, CoType, Coroutine, Idle, IsRun, Task
<1>7. t # NoTask
  BY DEF TaskId, NoTask
<1>8. \A q \in Proc : proc[q].hand # t
  BY <1>4 DEF HolderInv
<1>9. \A c \in CoId : IsRun(c) => Task(c) # t
  BY <1>4 DEF HolderInv
<1>10. \A c \in CoId : IsRun(c)' => ~Untouched(Task(c))'
  BY <1>4, <1>5, <1>6 DEF HolderInv, Untouched
<1> USE DEF HolderInv
<1>11. \A q, r \in Proc : proc'[q].hand # NoTask /\ proc'[q].hand = proc'[r].hand => q = r
  BY <1>3, <1>8
<1>12. \A q \in Proc, c \in CoId : IsRun(c)' => proc'[q].hand # Task(c)'
  BY <1>3, <1>5, <1>9
<1>13. \A q \in Proc, u \in TaskId : proc'[q].hand = u => Fresh(u)' /\ ~Untouched(u)'
  BY <1>3, <1>4, <1>8
<1>14. \A c \in CoId : IsRun(c)' =>
         /\ co'[c].ph \in BeforeSubmit => submits'[Task(c)'] = 0
         /\ co'[c].ph \in BeforeCall => call'[Task(c)'] = "none"
  BY <1>1, <1>2, <1>5
<1>15. \A u \in TaskId : submits'[u] <= 1 /\ (Untouched(u)' => Fresh(u)')
  BY <1>1, <1>4
<1>16. \A c, d \in CoId : IsRun(c)' /\ IsRun(d)' /\ Task(c)' = Task(d)' => c = d
  BY <1>5
<1> QED
  BY <1>10, <1>11, <1>12, <1>13, <1>14, <1>15, <1>16

(* A task goes back to the queue from the one who has it, who lets it go.  *)
LEMMA RequeueKeepsHolder ==
  ASSUME TypeInv, TypeInv', HolderInv, NEW t \in TaskId, Requeue(t), Fresh(t),
         UNCHANGED submits, HandsOnlyEmptied, RunsMoveOn,
         \A p \in Proc : proc'[p].hand # t,
         \A c \in CoId : IsRun(c)' => Task(c)' # t
  PROVE  HolderInv'
<1>1. \A p \in Proc : proc[p].hand \in TaskId \cup {NoTask} /\ proc'[p].hand \in TaskId \cup {NoTask}
  BY DEF TypeInv, WorkerTypeOK, ProcType, ProcState
<1>2. \A c \in CoId : (IsRun(c) => Task(c) \in TaskId) /\ (IsRun(c)' => Task(c)' \in TaskId)
  BY DEF TypeInv, WorkerTypeOK, CoType, Coroutine, Idle, IsRun, Task
<1>3. \A u \in TaskId : u # NoTask
  BY DEF TaskId, NoTask
<1>4. /\ \A u \in TaskId : Fresh(u)' = Fresh(u)
      /\ \A u \in TaskId : u # t => Untouched(u)' = Untouched(u)
      /\ UNCHANGED call
  BY DEF Requeue, Fresh, Untouched, TypeInv, QueueTypeOK
<1>5. \A p, q \in Proc : proc'[p].hand # NoTask /\ proc'[p].hand = proc'[q].hand => p = q
  BY DEF HolderInv, HandsOnlyEmptied
<1>6. \A c, d \in CoId : IsRun(c)' /\ IsRun(d)' /\ Task(c)' = Task(d)' => c = d
  BY DEF HolderInv, RunsMoveOn, MovesOn
<1>7. \A p \in Proc, c \in CoId : IsRun(c)' => proc'[p].hand # Task(c)'
  BY <1>2, <1>3 DEF HolderInv, RunsMoveOn, MovesOn, HandsOnlyEmptied
<1>8. \A p \in Proc, u \in TaskId : proc'[p].hand = u => Fresh(u)' /\ ~Untouched(u)'
  BY <1>3, <1>4 DEF HolderInv, HandsOnlyEmptied
<1>9. ASSUME NEW c \in CoId, IsRun(c)'
      PROVE  /\ ~Untouched(Task(c))'
             /\ co'[c].ph \in BeforeSubmit => submits'[Task(c)'] = 0
             /\ co'[c].ph \in BeforeCall => call'[Task(c)'] = "none"
  <2>a. IsRun(c) /\ Task(c)' = Task(c) /\ Task(c) \in TaskId /\ Task(c) # t
    BY <1>2, <1>9 DEF RunsMoveOn, MovesOn
  <2>b. ~Untouched(Task(c)) /\ (~Untouched(Task(c)))'
    BY <1>4, <2>a DEF HolderInv, Untouched
  <2> QED
    BY <1>4, <1>9, <2>a, <2>b DEF HolderInv, RunsMoveOn, MovesOn
<1>10. \A u \in TaskId : submits'[u] <= 1 /\ (Untouched(u)' => Fresh(u)')
  BY <1>4 DEF HolderInv
<1> QED
  BY <1>5, <1>6, <1>7, <1>8, <1>9, <1>10 DEF HolderInv

LEMMA PutBackKeepsHolder ==
  ASSUME TypeInv, TypeInv', HolderInv, NEW p \in Proc, PutBack(p)
  PROVE  HolderInv'
<1>1. PICK t \in TaskId :
        /\ proc[p].hand = t
        /\ IF status[t] = "running" THEN Requeue(t) ELSE UNCHANGED queueVars
        /\ HandEmptied(p)
        /\ UNCHANGED <<co, submits>>
  BY DEF PutBack, InHand
<1>2. \A q \in Proc : proc'[q].hand = IF q = p THEN NoTask ELSE proc[q].hand
  BY <1>1 DEF HandEmptied, TypeInv, WorkerTypeOK, ProcType, ProcState
<1>3. t # NoTask
  BY DEF TaskId, NoTask
<1>4. HandsOnlyEmptied /\ RunsMoveOn
  BY <1>1, <1>2 DEF HandsOnlyEmptied, RunsMoveOn, MovesOn, IsRun, Task
<1>5. CASE Requeue(t)
  <2>a. Fresh(t) /\ \A c \in CoId : IsRun(c) => Task(c) # t
    BY <1>1 DEF HolderInv
  <2>b. \A c \in CoId : IsRun(c)' => Task(c)' # t
    BY <2>a, <1>4 DEF RunsMoveOn, MovesOn
  <2>c. \A q \in Proc : proc'[q].hand # t
    BY <1>1, <1>2, <1>3 DEF HolderInv
  <2> QED
    BY <1>1, <1>4, <1>5, <2>a, <2>b, <2>c, RequeueKeepsHolder
<1>6. CASE UNCHANGED queueVars
  <2>a. QuietStep
    BY <1>1, <1>4, <1>6, PlainIsQuiet DEF QuietStep, TypeInv
  <2> QED
    BY <2>a, QuietStepKeepsHolder
<1> QED
  BY <1>1, <1>5, <1>6

LEMMA GiveBackKeepsHolder ==
  ASSUME TypeInv, TypeInv', HolderInv, NEW c \in CoId, GiveBack(c)
  PROVE  HolderInv'
<1> DEFINE t == Task(c)
<1>1. t \in TaskId /\ CoType
  BY DEF TypeInv, WorkerTypeOK, CoType, Idle, Coroutine, Task, GiveBack, Run
<1>2. End(c) /\ UNCHANGED <<proc, submits>>
  BY DEF GiveBack, Quiet
<1>3. IsRun(c) /\ co[c].ph \in BeforeSubmit /\ co[c].ph \in BeforeCall
  BY DEF GiveBack, Run, IsRun, BeforeSubmit, BeforeCall
<1>4. Fresh(t) /\ \A p \in Proc : proc[p].hand # t
  BY <1>3 DEF HolderInv, Fresh
<1>5. HandsOnlyEmptied
  BY <1>2 DEF HandsOnlyEmptied
<1>6. RunsMoveOn
  BY <1>1, RunStepMovesOn DEF RunStep
<1>7. \A d \in CoId : IsRun(d)' => Task(d)' # t
  <2>a. ~IsRun(c)'
    BY <1>1, <1>2 DEF End, Idle, IsRun, CoType
  <2>b. \A d \in CoId : IsRun(d) /\ d # c => Task(d) # t
    BY <1>3 DEF HolderInv
  <2> QED
    BY <1>6, <2>a, <2>b DEF RunsMoveOn, MovesOn
<1>8. CASE Requeue(t)
  <2>a. \A p \in Proc : proc'[p].hand # t
    BY <1>2, <1>4
  <2> QED
    BY <1>1, <1>2, <1>4, <1>5, <1>6, <1>7, <1>8, <2>a, RequeueKeepsHolder
<1>9. CASE [PlainNext]_queueVars
  <2>a. QuietStep
    BY <1>2, <1>5, <1>6, <1>9, PlainIsQuiet DEF QuietStep, TypeInv
  <2> QED
    BY <2>a, QuietStepKeepsHolder
<1>10. Requeue(t) \/ [PlainNext]_queueVars
  <2>a. MarkFailed(t, "error") => PlainNext
    BY <1>1 DEF PlainNext, MildNext, FailReasons
  <2> QED
    BY <2>a DEF GiveBack, TryMarkFailed
<1> QED
  BY <1>8, <1>9, <1>10

(* The dispatch: the task goes from the hand to one run.                   *)
LEMMA DispatchKeepsHolder ==
  ASSUME TypeInv, HolderInv, NEW p \in Proc, Dispatch(p)
  PROVE  HolderInv'
<1>1. PICK t \in TaskId, c \in CoId :
        /\ proc[p].hand = t
        /\ co' = [co EXCEPT ![c] = [Idle EXCEPT !.proc = p, !.task = t, !.prov = proc[p].prov,
                                                !.kind = "run", !.ph = "exec"]]
        /\ HandEmptied(p)
        /\ UNCHANGED <<queueVars, submits>>
  BY DEF Dispatch, InHand
<1> DEFINE r == [Idle EXCEPT !.proc = p, !.task = t, !.prov = proc[p].prov,
                             !.kind = "run", !.ph = "exec"]
<1>2. \A q \in Proc : proc'[q].hand = IF q = p THEN NoTask ELSE proc[q].hand
  BY <1>1 DEF HandEmptied, TypeInv, WorkerTypeOK, ProcType, ProcState
<1>3. r.kind = "run" /\ r.task = t /\ r.ph = "exec"
  BY DEF Idle
<1>4. \A d \in CoId : co'[d] = IF d = c THEN r ELSE co[d]
  BY <1>1 DEF TypeInv, WorkerTypeOK, CoType
<1> HIDE DEF r
<1>5. \A d \in CoId : /\ IsRun(d)' = (d = c \/ IsRun(d))
                      /\ Task(d)' = IF d = c THEN t ELSE Task(d)
                      /\ co'[d].ph = IF d = c THEN "exec" ELSE co[d].ph
  BY <1>3, <1>4 DEF IsRun, Task
<1>6. /\ \A u \in TaskId : Fresh(u)' = Fresh(u) /\ Untouched(u)' = Untouched(u)
      /\ UNCHANGED <<call, submits>>
  BY <1>1 DEF Fresh, Untouched, queueVars, rowVars
<1>7. \A d \in CoId : IsRun(d) => Task(d) \in TaskId
  BY DEF TypeInv, WorkerTypeOK, CoType, Coroutine, Idle, IsRun, Task
<1>8. \A u \in TaskId : u # NoTask
  BY DEF TaskId, NoTask
<1>9. /\ Fresh(t) /\ ~Untouched(t)
      /\ \A d \in CoId : IsRun(d) => Task(d) # t
      /\ \A q \in Proc : q # p => proc[q].hand # t
  BY <1>1, <1>8 DEF HolderInv
<1>9a. \A q \in Proc, d \in CoId : IsRun(d) => proc[q].hand # Task(d)
  BY DEF HolderInv
<1> USE DEF HolderInv
<1>10. \A q, s \in Proc : proc'[q].hand # NoTask /\ proc'[q].hand = proc'[s].hand => q = s
  BY <1>2
<1>11. \A d, e \in CoId : IsRun(d)' /\ IsRun(e)' /\ Task(d)' = Task(e)' => d = e
  BY <1>5, <1>9
<1>12. \A q \in Proc, d \in CoId : IsRun(d)' => proc'[q].hand # Task(d)'
  <2> TAKE q \in Proc, d \in CoId
  <2>a. CASE d = c
    <3>1. Task(d)' = t
      BY <1>5, <2>a
    <3>2. proc'[q].hand # t
      BY <1>2, <1>8, <1>9
    <3> QED
      BY <3>1, <3>2
  <2>b. CASE d # c
    <3>0. co'[d] = co[d]
      BY <1>4, <2>b
    <3>1. Task(d)' = Task(d) /\ (IsRun(d)' => IsRun(d))
      BY <3>0 DEF Task, IsRun
    <3>2. IsRun(d) => proc[q].hand # Task(d)
      BY <1>9a
    <3>3. proc'[q].hand \in {NoTask, proc[q].hand}
      BY <1>2
    <3> HIDE DEF HolderInv
    <3>4. IsRun(d) => Task(d) # NoTask
      BY <1>7, <1>8
    <3> QED
      BY <3>1, <3>2, <3>3, <3>4
  <2> QED
    BY <2>a, <2>b
<1>13. \A q \in Proc, u \in TaskId : proc'[q].hand = u => Fresh(u)' /\ ~Untouched(u)'
  BY <1>2, <1>6, <1>8
<1>14. ASSUME NEW d \in CoId, IsRun(d)'
       PROVE  /\ ~Untouched(Task(d))'
              /\ co'[d].ph \in BeforeSubmit => submits'[Task(d)'] = 0
              /\ co'[d].ph \in BeforeCall => call'[Task(d)'] = "none"
  <2>a. CASE d = c
    <3>1. (~Untouched(Task(d)))'
      <4>1. Task(d)' = t /\ status' = status /\ why' = why /\ ~Untouched(t)
        BY <1>1, <1>5, <1>9, <2>a DEF queueVars, rowVars
      <4> HIDE DEF HolderInv
      <4> QED
        BY <4>1 DEF Untouched
    <3> QED
      BY <1>5, <1>6, <1>9, <2>a, <3>1 DEF Fresh
  <2>b. CASE d # c
    <3>1. IsRun(d) /\ Task(d)' = Task(d) /\ co'[d].ph = co[d].ph
      BY <1>5, <1>14, <2>b
    <3>2. (~Untouched(Task(d)))'
      <4>1. Task(d)' = Task(d) /\ status' = status /\ why' = why /\ ~Untouched(Task(d))
        BY <1>1, <3>1 DEF queueVars, rowVars
      <4> HIDE DEF HolderInv
      <4> QED
        BY <4>1 DEF Untouched
    <3> QED
      BY <1>6, <3>1, <3>2
  <2> QED
    BY <2>a, <2>b
<1>15. \A u \in TaskId : submits'[u] <= 1 /\ (Untouched(u)' => Fresh(u)')
  BY <1>6
<1> QED
  BY <1>10, <1>11, <1>12, <1>13, <1>14, <1>15

(* The bracket: the run's task has a call row from here on.                *)
LEMMA BracketKeepsHolder ==
  ASSUME TypeInv, HolderInv, NEW c \in CoId, EnterBracket(c)
  PROVE  HolderInv'
<1> DEFINE t == Task(c)
<1>1. IsRun(c) /\ co[c].ph = "exec" /\ t \in TaskId /\ CoType /\ call \in [TaskId -> CallEnd \cup {"none", "pending"}]
  BY DEF EnterBracket, Run, IsRun, TypeInv, WorkerTypeOK, CoType, Idle, Coroutine, Task, QueueTypeOK
<1>2. /\ UNCHANGED <<proc, submits, status, why>>
      /\ call' = [call EXCEPT ![t] = "pending"]
  BY DEF EnterBracket, OpenCall, Quiet, rowVars
<1>3. RunsMoveOn
  BY <1>1, RunStepMovesOn DEF RunStep
<1>4. co'[c].ph \notin BeforeCall
  BY <1>1 DEF EnterBracket, Go, CoType, Coroutine, BeforeCall
<1>5. /\ \A p \in Proc : proc[p].hand # t
      /\ \A d \in CoId : IsRun(d) /\ d # c => Task(d) # t
      /\ ~Untouched(t)
  BY <1>1 DEF HolderInv
<1>6. \A u \in TaskId : Untouched(u)' = Untouched(u) /\ (u # t => Fresh(u)' = Fresh(u))
  BY <1>1, <1>2 DEF Untouched, Fresh
<1>7. ASSUME NEW d \in CoId, IsRun(d)'
      PROVE  /\ IsRun(d) /\ Task(d)' = Task(d) /\ Task(d) \in TaskId
             /\ co'[d].ph \in BeforeSubmit => co[d].ph \in BeforeSubmit
             /\ co'[d].ph \in BeforeCall => co[d].ph \in BeforeCall
  <2>a. /\ IsRun(d) /\ Task(d)' = Task(d)
        /\ co'[d].ph \in BeforeSubmit => co[d].ph \in BeforeSubmit
        /\ co'[d].ph \in BeforeCall => co[d].ph \in BeforeCall
    BY <1>3, <1>7 DEF RunsMoveOn, MovesOn
  <2> QED
    BY <1>1, <2>a DEF CoType, Idle, Coroutine, IsRun, Task
<1> USE DEF HolderInv
<1>8. \A d, e \in CoId : IsRun(d)' /\ IsRun(e)' /\ Task(d)' = Task(e)' => d = e
  BY <1>7
<1>9. \A q \in Proc, d \in CoId : IsRun(d)' => proc'[q].hand # Task(d)'
  BY <1>2, <1>7
<1>10. \A q \in Proc, u \in TaskId : proc'[q].hand = u => Fresh(u)' /\ ~Untouched(u)'
  BY <1>2, <1>5, <1>6
<1>11. ASSUME NEW d \in CoId, IsRun(d)'
       PROVE  /\ ~Untouched(Task(d))'
              /\ co'[d].ph \in BeforeSubmit => submits'[Task(d)'] = 0
              /\ co'[d].ph \in BeforeCall => call'[Task(d)'] = "none"
  <2>a. (~Untouched(Task(d)))'
    BY <1>2, <1>7, <1>11 DEF Untouched
  <2>b. co'[d].ph \in BeforeCall => d # c /\ Task(d) # t
    BY <1>4, <1>5, <1>7, <1>11
  <2> QED
    BY <1>1, <1>2, <1>7, <1>11, <2>a, <2>b
<1>12. \A u \in TaskId : submits'[u] <= 1 /\ (Untouched(u)' => Fresh(u)')
  BY <1>2, <1>5, <1>6
<1> QED
  BY <1>2, <1>8, <1>9, <1>10, <1>11, <1>12

(* The submission: the one run that carries the task is past it then.      *)
LEMMA SubmitKeepsHolder ==
  ASSUME TypeInv, HolderInv, NEW c \in CoId, Submit(c)
  PROVE  HolderInv'
<1> DEFINE t == Task(c)
<1>1. IsRun(c) /\ co[c].ph = "ready" /\ t \in TaskId /\ CoType /\ submits \in [TaskId -> Nat]
  BY DEF Submit, Run, IsRun, TypeInv, WorkerTypeOK, CoType, Idle, Coroutine, Task
<1>2. /\ UNCHANGED <<proc, status, why, call>>
      /\ submits' = [submits EXCEPT ![t] = @ + 1]
  BY DEF Submit, Quiet, queueVars, rowVars
<1>3. RunsMoveOn
  BY <1>1, RunStepMovesOn DEF RunStep
<1>4. co'[c].ph \notin BeforeSubmit
  BY <1>1 DEF Submit, Go, CoType, Coroutine, BeforeSubmit
<1>5. /\ \A p \in Proc : proc[p].hand # t
      /\ \A d \in CoId : IsRun(d) /\ d # c => Task(d) # t
      /\ ~Untouched(t) /\ submits[t] = 0
  BY <1>1 DEF HolderInv, BeforeSubmit
<1>6. \A u \in TaskId : Untouched(u)' = Untouched(u) /\ (u # t => Fresh(u)' = Fresh(u))
  BY <1>1, <1>2 DEF Untouched, Fresh
<1>7. ASSUME NEW d \in CoId, IsRun(d)'
      PROVE  /\ IsRun(d) /\ Task(d)' = Task(d) /\ Task(d) \in TaskId
             /\ co'[d].ph \in BeforeSubmit => co[d].ph \in BeforeSubmit
             /\ co'[d].ph \in BeforeCall => co[d].ph \in BeforeCall
  <2>a. /\ IsRun(d) /\ Task(d)' = Task(d)
        /\ co'[d].ph \in BeforeSubmit => co[d].ph \in BeforeSubmit
        /\ co'[d].ph \in BeforeCall => co[d].ph \in BeforeCall
    BY <1>3, <1>7 DEF RunsMoveOn, MovesOn
  <2> QED
    BY <1>1, <2>a DEF CoType, Idle, Coroutine, IsRun, Task
<1> USE DEF HolderInv
<1>8. \A d, e \in CoId : IsRun(d)' /\ IsRun(e)' /\ Task(d)' = Task(e)' => d = e
  BY <1>7
<1>9. \A q \in Proc, d \in CoId : IsRun(d)' => proc'[q].hand # Task(d)'
  BY <1>2, <1>7
<1>10. \A q \in Proc, u \in TaskId : proc'[q].hand = u => Fresh(u)' /\ ~Untouched(u)'
  BY <1>2, <1>5, <1>6
<1>11. ASSUME NEW d \in CoId, IsRun(d)'
       PROVE  /\ ~Untouched(Task(d))'
              /\ co'[d].ph \in BeforeSubmit => submits'[Task(d)'] = 0
              /\ co'[d].ph \in BeforeCall => call'[Task(d)'] = "none"
  <2>a. (~Untouched(Task(d)))'
    BY <1>2, <1>7, <1>11 DEF Untouched
  <2>b. co'[d].ph \in BeforeSubmit => d # c /\ Task(d) # t
    BY <1>4, <1>5, <1>7, <1>11
  <2> QED
    BY <1>1, <1>2, <1>7, <1>11, <2>a, <2>b
<1>12. \A u \in TaskId : submits'[u] <= 1 /\ (Untouched(u)' => Fresh(u)')
  BY <1>1, <1>2, <1>5, <1>6
<1> QED
  BY <1>2, <1>8, <1>9, <1>10, <1>11, <1>12

-----------------------------------------------------------------------------
LEMMA HolderStep == TypeInv /\ TypeInv' /\ HolderInv /\ [WorkerNext]_vars => HolderInv'
<1> SUFFICES ASSUME TypeInv, TypeInv', HolderInv, [WorkerNext]_vars
             PROVE  HolderInv'
  OBVIOUS
<1>1. CASE \E p \in Proc : Claim(p) \/ Dispatch(p) \/ PutBack(p)
  BY <1>1, ClaimKeepsHolder, DispatchKeepsHolder, PutBackKeepsHolder
<1>2. CASE \E c \in CoId : GiveBack(c) \/ EnterBracket(c) \/ Submit(c)
  BY <1>2, GiveBackKeepsHolder, BracketKeepsHolder, SubmitKeepsHolder
<1>3. CASE /\ \A p \in Proc : ~Claim(p) /\ ~Dispatch(p) /\ ~PutBack(p)
           /\ \A c \in CoId : ~GiveBack(c) /\ ~EnterBracket(c) /\ ~Submit(c)
  BY <1>3, QuietStepHolds, QuietStepKeepsHolder
<1> QED
  BY <1>1, <1>2, <1>3

LEMMA HolderHolds == WorkerSpec => [](TypeInv /\ HolderInv)
<1>1. WorkerInit => HolderInv
  BY DEF WorkerInit, QueueInit, HolderInv, Down, Idle, NoTask, TaskId, Fresh, Untouched, IsRun, Task
<1>2. TypeInv /\ HolderInv /\ [WorkerNext]_vars => (TypeInv /\ HolderInv)'
  BY TypeInvStep, HolderStep
<1> QED
  BY <1>1, <1>2, WorkerInitTyped, PTL DEF WorkerSpec

(* A task is submitted at most once, however many processes, crashes,      *)
(* take-overs, drifts and retries there are.                               *)
THEOREM SubmittedOnce == WorkerSpec => []AtMostOneSubmission
<1>1. HolderInv => AtMostOneSubmission
  BY DEF HolderInv, AtMostOneSubmission
<1> QED
  BY <1>1, HolderHolds, PTL

(* What waits in the queue, or was withdrawn from it, has cost nothing and *)
(* is in nobody's hands.                                                   *)
THEOREM QueuedCostsNothing == WorkerSpec => []QueuedIsFree
<1>1. TypeInv /\ HolderInv => QueuedIsFree
  BY DEF HolderInv, QueuedIsFree, Untouched, Fresh, Carriers, InHand, Working, IsRun, Task
<1> QED
  BY <1>1, HolderHolds, PTL

-----------------------------------------------------------------------------
(* What is on record of a task.                                            *)

Open(t) == status[t] \in {"running", "failed"}
AboutToSubmit(c) == IsRun(c) /\ co[c].ph \in BeforeSubmit
SentPhases == {"accepted", "polling", "bill", "land"}

JobInv ==
  /\ \A t \in jobs : submits[t] = 1 /\ t \in ckpts /\ prov[t] \in Resumable
  /\ \A p \in Proc : proc[p].ready \subseteq jobs
  /\ \A c \in CoId : co[c].kind = "resume" => Task(c) \in jobs
  /\ \A p \in Proc, t \in TaskId : proc[p].hand = t => Open(t)
  /\ \A c \in CoId : AboutToSubmit(c) => Open(Task(c))
  /\ \A c \in CoId : IsRun(c) =>
       /\ co[c].ph \in SentPhases => submits[Task(c)] = 1
       /\ co[c].ph = "ready" /\ Lane(Task(c)) = "video" =>
            Task(c) \in ckpts /\ prov[Task(c)] = co[c].prov
       /\ co[c].ph = "accepted" => Task(c) \in ckpts /\ prov[Task(c)] \in Resumable

Inv == TypeInv /\ HolderInv /\ JobInv

-----------------------------------------------------------------------------
(* What a step may do to a row, and whose step it is that does more.       *)
LEMMA MildRows ==
  ASSUME QueueTypeOK, [MildNext]_queueVars
  PROVE  /\ UNCHANGED <<jobs, ckpts>>
         /\ \A t \in TaskId : status[t] # "absent" => prov'[t] = prov[t] /\ key'[t] = key[t]
         /\ \A t \in TaskId : Open(t) => Open(t)'
<1> DEFINE Goal == /\ UNCHANGED <<jobs, ckpts>>
                   /\ \A t \in TaskId : status[t] # "absent" => prov'[t] = prov[t] /\ key'[t] = key[t]
                   /\ \A t \in TaskId : Open(t) => Open(t)'
<1> USE DEF QueueTypeOK, Status, Active, Terminal, Open
<1>1. CASE \E k \in Key, d \in TaskId \cup {NoDep}, p \in Provider \cup {NoProvider} :
             Enqueue(k, d, p)
  BY <1>1 DEF Enqueue
<1>2. CASE \E t \in TaskId, lane \in Lanes, full \in SUBSET Provider : ClaimNext(t, lane, full)
  BY <1>2 DEF ClaimNext, Claimable
<1>3. ASSUME NEW t \in TaskId, CancelTask(t)
      PROVE  Goal
  BY <1>3, BehindIsQueued DEF CancelTask, EndWithCascade
<1>4. ASSUME NEW t \in TaskId, RetryArtifactDownload(t)
      PROVE  Goal
  BY <1>4 DEF RetryArtifactDownload
<1>5. ASSUME NEW t \in TaskId, NEW reason \in FailReasons, MarkFailed(t, reason)
      PROVE  Goal
  BY <1>5, BehindIsQueued DEF MarkFailed, EndWithCascade
<1>6. CASE CancelAllQueued
  BY <1>6 DEF CancelAllQueued
<1>7. CASE \E t \in TaskId, end \in CallEnd : FinishCall(t, end) \/ FinalizePending(t, end)
  BY <1>7 DEF FinishCall, FinalizePending, rowVars
<1>8. CASE SettleInterrupted
  BY <1>8 DEF SettleInterrupted, rowVars
<1>9. CASE UNCHANGED queueVars
  BY <1>9 DEF queueVars, rowVars
<1> HIDE DEF Goal
<1> QED
  BY <1>1, <1>2, <1>3, <1>4, <1>5, <1>6, <1>7, <1>8, <1>9 DEF MildNext, Goal

(* Whose row a step with a hold on a task may touch.                       *)
LetsGo(t) ==
  \/ \E p \in Proc : PutBack(p) /\ proc[p].hand = t
  \/ \E c \in CoId : (GiveBack(c) \/ GivesVerdict(c)) /\ Task(c) = t
Names(t) ==
  \/ \E p \in Proc : ProjectProvider(p) /\ proc[p].hand = t
  \/ \E c \in CoId : (Drift(c) \/ Checkpoint(c)) /\ Task(c) = t

RowStep ==
  /\ ckpts \subseteq ckpts'
  /\ jobs' = jobs \/ \E c \in CoId : KeepJob(c) /\ jobs' = jobs \cup {Task(c)}
  /\ \A t \in TaskId : status[t] # "absent" => key'[t] = key[t] /\ (prov'[t] = prov[t] \/ Names(t))
  /\ \A t \in TaskId : Open(t) => Open(t)' \/ LetsGo(t)

LEMMA RowsStep ==
  ASSUME TypeInv, [WorkerNext]_vars
  PROVE  RowStep
<1>1. QueueTypeOK /\ CoType
  BY DEF TypeInv, WorkerTypeOK
<1> USE DEF RowStep
<1>2. CASE [MildNext]_queueVars
  BY <1>1, <1>2, MildRows
<1> USE <1>1 DEF QueueTypeOK, Status, Active, Terminal, Open
<1>3. ASSUME NEW p \in Proc, PutBack(p)
      PROVE  RowStep
  <2>a. PICK t \in TaskId : proc[p].hand = t /\ (Requeue(t) \/ UNCHANGED queueVars)
    BY <1>3 DEF PutBack, InHand
  <2> QED
    BY <1>3, <2>a DEF Requeue, LetsGo, queueVars, rowVars
<1>4. ASSUME NEW p \in Proc, ProjectProvider(p)
      PROVE  RowStep
  <2>a. PICK t \in TaskId : proc[p].hand = t /\ RecordProvider(t, cfg.provider)
    BY <1>4 DEF ProjectProvider, InHand
  <2> QED
    BY <1>4, <2>a DEF RecordProvider, Names
<1>5. ASSUME NEW c \in CoId, GiveBack(c)
      PROVE  RowStep
  <2>a. Requeue(Task(c)) \/ MarkFailed(Task(c), "error") \/ UNCHANGED queueVars
    BY <1>5 DEF GiveBack, TryMarkFailed
  <2>b. CASE Requeue(Task(c))
    BY <1>5, <2>b DEF Requeue, LetsGo
  <2>c. CASE MarkFailed(Task(c), "error")
    <3>1. Task(c) \in TaskId
      BY <1>5 DEF CoType, Idle, Coroutine, Task, GiveBack, Run
    <3> QED
      BY <1>2, <2>c, <3>1 DEF MildNext, FailReasons
  <2> QED
    BY <1>2, <2>a, <2>b, <2>c
<1>6. ASSUME NEW c \in CoId, EnterBracket(c)
      PROVE  RowStep
  BY <1>6 DEF EnterBracket, OpenCall, rowVars
<1>7. ASSUME NEW c \in CoId, GivesVerdict(c)
      PROVE  RowStep
  <2>a. \/ UNCHANGED queueVars
        \/ MarkSucceeded(Task(c))
        \/ FinalizeInterrupted(Task(c))
    BY <1>7 DEF GivesVerdict, Land, RunQuits, ResumeLands, ResumeQuits, TryMarkSucceeded, TryInterrupt
  <2>b. Task(c) \in TaskId
    BY <1>7 DEF CoType, Idle, Coroutine, Task, GivesVerdict, Land, RunQuits, ResumeLands, ResumeQuits,
                Run, Resume
  <2>c. CASE MarkSucceeded(Task(c))
    BY <1>7, <2>c DEF MarkSucceeded, LetsGo
  <2>d. CASE FinalizeInterrupted(Task(c))
    BY <1>7, <2>b, <2>d, BehindIsQueued DEF FinalizeInterrupted, EndWithCascade, LetsGo
  <2> QED
    BY <1>2, <2>a, <2>c, <2>d
<1>8. ASSUME NEW c \in CoId, Records(c)
      PROVE  RowStep
  <2>a. CASE Drift(c)
    BY <1>8, <2>a DEF Drift, RecordProvider, Names
  <2>b. CASE Checkpoint(c)
    BY <1>2, <1>8, <2>b DEF Checkpoint, PersistCheckpoint, Names
  <2>c. CASE KeepJob(c)
    BY <1>2, <1>8, <2>c DEF KeepJob, PersistJob
  <2> QED
    BY <1>8, <2>a, <2>b, <2>c DEF Records
<1> QED
  BY <1>2, <1>3, <1>4, <1>5, <1>6, <1>7, <1>8, MildSimulation DEF TypeInv
-----------------------------------------------------------------------------
(* Where a coroutine comes from: it stays, ends or takes a step of its     *)
(* own, or it is a resume of a job just retried or put aside by a scan, or *)
(* the run of a task just dispatched.                                      *)
CoStep(c) ==
  \/ co'[c] \in {co[c], Idle}
  \/ RunStep(c) \/ RunTornDown(c) \/ ResumeStep(c) \/ ResumeTornDown(c)
  \/ co'[c].kind = "resume" /\ (Task(c)' \in jobs \/ \E p \in Proc : Task(c)' \in proc[p].ready)
  \/ \E p \in Proc : /\ Dispatch(p) /\ Task(c)' = proc[p].hand
                     /\ co'[c].kind = "run" /\ co'[c].ph = "exec"

LEMMA CoSteps ==
  ASSUME TypeInv, [WorkerNext]_vars
  PROVE  \A c \in CoId : CoStep(c)
<1> DEFINE Goal == \A c \in CoId : CoStep(c)
<1> SUFFICES Goal
  OBVIOUS
<1>1. CoType
  BY DEF TypeInv, WorkerTypeOK
<1>2. CASE UNCHANGED co
  BY <1>2 DEF CoStep
<1>3. ASSUME NEW c \in CoId,
             RunStep(c) \/ RunTornDown(c) \/ ResumeStep(c) \/ ResumeTornDown(c)
      PROVE  Goal
  <2>a. ASSUME NEW d \in CoId, d # c
        PROVE  co'[d] = co[d]
    <3>1. CASE RegisterRetry(c)
      BY <1>1, <2>a, <3>1 DEF RegisterRetry, DispatchTo, End, CoType
    <3>2. CASE LookUpCall(c)
      BY <1>1, <2>a, <3>2 DEF LookUpCall, CoType
    <3>3. CASE Moves(c, RunPhases) \/ Moves(c, ResumePhases)
      BY <1>1, <2>a, <3>3 DEF Moves, End, Go, GoWhy, CoType
    <3> QED
      BY <1>3, <3>1, <3>2, <3>3, RunsMove, ResumesMove
  <2> QED
    BY <1>3, <2>a DEF CoStep
<1>4. ASSUME NEW c \in CoId, NEW t, NEW r, r.kind = "resume", r.task = t,
             co' = [co EXCEPT ![c] = r], t \in jobs \/ \E p \in Proc : t \in proc[p].ready
      PROVE  Goal
  <2>a. \A d \in CoId : co'[d] = IF d = c THEN r ELSE co[d]
    BY <1>1, <1>4 DEF CoType
  <2> QED
    BY <1>4, <2>a DEF CoStep, Task
<1>5. ASSUME NEW p \in Proc, RetryDownload(p)
      PROVE  Goal
  <2>a. PICK t \in TaskId, c \in CoId :
          /\ t \in jobs
          /\ co' = [co EXCEPT ![c] = [Idle EXCEPT !.proc = p, !.task = t, !.prov = prov[t],
                                                  !.kind = "resume", !.ph = "dispatch"]]
    BY <1>5 DEF RetryDownload, RetryArtifactDownload, MayRetryDownload
  <2> DEFINE r == [Idle EXCEPT !.proc = p, !.task = t, !.prov = prov[t],
                               !.kind = "resume", !.ph = "dispatch"]
  <2>b. r.kind = "resume" /\ r.task = t
    BY DEF Idle
  <2>c. co' = [co EXCEPT ![c] = r]
    BY <2>a
  <2> HIDE DEF r, Goal
  <2> QED
    BY <1>4, <2>a, <2>b, <2>c
<1>6. ASSUME NEW p \in Proc, Crash(p) \/ StopDone(p)
      PROVE  Goal
  BY <1>6 DEF Crash, StopDone, Gone, CoStep
<1>7. ASSUME NEW p \in Proc, DispatchOrphan(p)
      PROVE  Goal
  <2>a. PICK t \in proc[p].ready, c \in CoId :
          DispatchTo(p, t, prov[t], c, proc[p].round) \/ UNCHANGED co
    BY <1>7 DEF DispatchOrphan
  <2> DEFINE it(ph) == [Idle EXCEPT !.proc = p, !.task = t, !.prov = prov[t],
                          !.kind = "resume", !.group = proc[p].round,
                          !.cap = Refreshed(p, prov[t])[prov[t]]["video"], !.ph = ph]
  <2>b. UNCHANGED co \/ co' = [co EXCEPT ![c] = it("giveup")] \/ co' = [co EXCEPT ![c] = it("wait")]
    BY <2>a DEF DispatchTo, Idle
  <2>c. \A ph : it(ph).kind = "resume" /\ it(ph).task = t
    BY DEF Idle
  <2> HIDE DEF it, Goal
  <2> QED
    BY <1>2, <1>4, <2>b, <2>c
<1>8. ASSUME NEW p \in Proc, Dispatch(p)
      PROVE  Goal
  <2>a. PICK c \in CoId :
          co' = [co EXCEPT ![c] = [Idle EXCEPT !.proc = p, !.task = proc[p].hand,
                                               !.prov = proc[p].prov,
                                               !.kind = "run", !.ph = "exec"]]
    BY <1>8 DEF Dispatch, InHand
  <2> DEFINE r == [Idle EXCEPT !.proc = p, !.task = proc[p].hand, !.prov = proc[p].prov,
                               !.kind = "run", !.ph = "exec"]
  <2>b. r.kind = "run" /\ r.task = proc[p].hand /\ r.ph = "exec"
    BY DEF Idle
  <2> HIDE DEF r
  <2>c. \A d \in CoId : co'[d] = IF d = c THEN r ELSE co[d]
    BY <1>1, <2>a DEF CoType, r
  <2> QED
    BY <1>8, <2>b, <2>c DEF CoStep, Task
<1>9. UserEnqueue \/ UserCancel \/ Reconfigure \/ LeaseExpires \/ UNCHANGED vars => UNCHANGED co
  BY DEF UserEnqueue, UserCancel, Reconfigure, LeaseExpires, workerVars, vars
<1>10. ASSUME NEW p \in Proc, ReloadLimits(p) \/ Start(p) \/ StopSignal(p)
       PROVE  UNCHANGED co
  BY <1>10 DEF ReloadLimits, Start, StopSignal
<1> HIDE DEF Goal
<1> QED
  BY <1>2, <1>3, <1>5, <1>6, <1>7, <1>8, <1>9, <1>10, MainLoopIsQuiet DEF WorkerNext, Environment

(* The phases in which something is on record of a run's task are entered  *)
(* by the step that puts it there.                                         *)
LEMMA PhaseStep ==
  ASSUME CoType, NEW c \in CoId, RunStep(c) \/ RunTornDown(c), IsRun(c)'
  PROVE  /\ co'[c].prov = co[c].prov /\ co'[c].task = co[c].task
         /\ co'[c].ph \in SentPhases => co[c].ph \in SentPhases \/ Submit(c)
         /\ co'[c].ph = "ready" => Checkpoint(c) \/ EnterBracket(c)
         /\ co'[c].ph = "accepted" => Submit(c)
<1>1. co[c] \in Coroutine /\ IsRun(c)
  BY RunsMove DEF CoType, Idle, IsRun
<1>2. CASE End(c)
  BY <1>2 DEF End, Idle, IsRun, CoType
<1> DEFINE Keeps == co'[c].prov = co[c].prov /\ co'[c].task = co[c].task
<1>3. ASSUME NEW ph, Go(c, ph)
      PROVE  co'[c].ph = ph /\ Keeps
  BY <1>1, <1>3 DEF Go, CoType, Coroutine
<1>4. ASSUME NEW ph, NEW reason, GoWhy(c, ph, reason)
      PROVE  co'[c].ph = ph /\ Keeps
  BY <1>1, <1>4 DEF GoWhy, CoType, Coroutine
<1> USE DEF SentPhases, Run
<1>5. CASE Drift(c) \/ Reject(c) \/ Refused(c)
  BY <1>3, <1>4, <1>5 DEF Drift, Reject, Refused
<1>6. CASE GiveBack(c) \/ RunFails(c) \/ RunQuits(c)
  BY <1>2, <1>6 DEF GiveBack, RunFails, RunQuits
<1>7. CASE EnterBracket(c)
  BY <1>3, <1>7 DEF EnterBracket
<1>8. CASE Checkpoint(c)
  BY <1>3, <1>4, <1>8 DEF Checkpoint
<1>9. CASE Submit(c)
  BY <1>3, <1>9 DEF Submit
<1>10. CASE KeepJob(c)
  BY <1>3, <1>4, <1>10 DEF KeepJob
<1>11. CASE Answer(c)
  BY <1>3, <1>4, <1>11 DEF Answer
<1>12. CASE CloseBracket(c)
  BY <1>3, <1>12 DEF CloseBracket
<1>13. CASE Land(c)
  BY <1>2, <1>4, <1>13 DEF Land
<1>14. CASE RunTornDown(c)
  BY <1>2, <1>3, <1>14 DEF RunTornDown
<1> QED
  BY <1>5, <1>6, <1>7, <1>8, <1>9, <1>10, <1>11, <1>12, <1>13, <1>14 DEF RunStep
-----------------------------------------------------------------------------
Step == Inv /\ TypeInv' /\ HolderInv' /\ [WorkerNext]_vars

LEMMA SubmitsGrow ==
  ASSUME Step, NEW t \in TaskId, submits[t] = 1
  PROVE  submits'[t] = 1
<1>1. submits \in [TaskId -> Nat] /\ submits'[t] <= 1 /\ submits'[t] \in Nat
  BY DEF Step, Inv, TypeInv, WorkerTypeOK, HolderInv
<1>2. CASE \E c \in CoId : Submit(c)
  BY <1>1, <1>2 DEF Submit
<1>3. CASE \A c \in CoId : ~Submit(c)
  BY <1>3, SubmitsStep DEF Step
<1> QED
  BY <1>2, <1>3

(* A task with a job on record is nobody's to submit.                      *)
LEMMA JobIsSubmitted ==
  ASSUME Inv, NEW t \in jobs
  PROVE  /\ t \in TaskId /\ status[t] # "absent" /\ ~Fresh(t)
         /\ \A p \in Proc : proc[p].hand # t
         /\ \A c \in CoId : AboutToSubmit(c) => Task(c) # t
<1>1. t \in TaskId /\ submits[t] = 1
  BY DEF Inv, TypeInv, QueueTypeOK, JobInv
<1> QED
  BY <1>1 DEF Inv, HolderInv, Fresh, Untouched, AboutToSubmit

LEMMA JobRowsStep ==
  ASSUME Step
  PROVE  (\A t \in jobs : submits[t] = 1 /\ t \in ckpts /\ prov[t] \in Resumable)'
<1>1. RowStep /\ Inv
  BY RowsStep DEF Step, Inv
<1>2. ASSUME NEW t \in jobs
      PROVE  submits'[t] = 1 /\ t \in ckpts' /\ prov'[t] \in Resumable
  <2>a. /\ t \in TaskId /\ submits[t] = 1 /\ t \in ckpts /\ prov[t] \in Resumable
        /\ status[t] # "absent"
    BY <1>1, <1>2, JobIsSubmitted DEF Inv, JobInv
  <2>b. \A p \in Proc : ~(ProjectProvider(p) /\ proc[p].hand = t)
    BY <1>1, <1>2, JobIsSubmitted
  <2>c. \A c \in CoId : Drift(c) \/ Checkpoint(c) => AboutToSubmit(c)
    BY DEF Drift, Checkpoint, Run, AboutToSubmit, IsRun, BeforeSubmit
  <2>d. prov'[t] = prov[t]
    BY <1>1, <1>2, <2>a, <2>b, <2>c, JobIsSubmitted DEF RowStep, Names
  <2> QED
    BY <1>1, <2>a, <2>d, SubmitsGrow DEF RowStep
<1>3. ASSUME NEW c \in CoId, KeepJob(c), jobs' = jobs \cup {Task(c)}
      PROVE  submits'[Task(c)] = 1 /\ Task(c) \in ckpts' /\ prov'[Task(c)] \in Resumable
  <2>a. Task(c) \in TaskId /\ IsRun(c) /\ co[c].ph = "accepted"
    BY <1>1, <1>3 DEF KeepJob, Run, IsRun, Inv, TypeInv, WorkerTypeOK, CoType, Idle, Coroutine, Task
  <2>b. submits[Task(c)] = 1 /\ Task(c) \in ckpts /\ prov[Task(c)] \in Resumable
    BY <1>1, <2>a DEF Inv, JobInv, SentPhases
  <2>c. UNCHANGED prov
    BY <1>3 DEF KeepJob, PersistJob, queueVars, rowVars
  <2> QED
    BY <1>1, <2>a, <2>b, <2>c, SubmitsGrow DEF RowStep
<1> QED
  BY <1>1, <1>2, <1>3 DEF RowStep

LEMMA ReadyJobsStep ==
  ASSUME Step
  PROVE  (\A p \in Proc : proc[p].ready \subseteq jobs)'
<1>1. jobs \subseteq jobs'
  BY RowsStep DEF Step, Inv, RowStep
<1>2. ASSUME NEW p \in Proc, NEW t \in proc'[p].ready
      PROVE  t \in jobs
  BY ReadyIsScanned DEF Step, Inv, JobInv
<1> QED
  BY <1>1, <1>2

LEMMA ResumeJobsStep ==
  ASSUME Step
  PROVE  (\A c \in CoId : co[c].kind = "resume" => Task(c) \in jobs)'
<1>1. jobs \subseteq jobs' /\ CoType /\ Inv
  BY RowsStep DEF Step, Inv, RowStep, TypeInv, WorkerTypeOK
<1>2. SUFFICES ASSUME NEW c \in CoId, co'[c].kind = "resume"
               PROVE  Task(c)' \in jobs
  BY <1>1
<1>3. CASE co'[c] \in {co[c], Idle}
  BY <1>1, <1>2, <1>3 DEF Inv, JobInv, Task, Idle
<1>4. CASE Task(c)' \in jobs \/ \E p \in Proc : Task(c)' \in proc[p].ready
  BY <1>1, <1>4 DEF Inv, JobInv
<1>5. CASE RunStep(c) \/ RunTornDown(c)
  <2>a. co[c] \in Coroutine /\ co[c].kind = "run"
    BY <1>1, <1>5, RunsMove DEF CoType, Idle
  <2>b. CASE End(c)
    BY <1>1, <1>2, <2>b DEF End, CoType, Idle
  <2>c. CASE \E ph, reason : Go(c, ph) \/ GoWhy(c, ph, reason)
    BY <1>1, <1>2, <2>a, <2>c DEF CoType, Coroutine, Go, GoWhy
  <2> QED
    BY <1>5, <2>b, <2>c, RunsMove DEF Moves
<1>6. CASE ResumeStep(c) \/ ResumeTornDown(c)
  <2>a. co[c] \in Coroutine /\ co[c].kind = "resume" /\ Task(c) \in jobs
    BY <1>1, <1>6, ResumesMove DEF CoType, Idle, Inv, JobInv
  <2>b. co'[c].task = co[c].task
    <3>1. CASE RegisterRetry(c)
      <4>1. CASE End(c)
        BY <1>1, <1>2, <4>1 DEF End, CoType, Idle
      <4>2. CASE DispatchTo(co[c].proc, Task(c), co[c].prov, c, 0)
        <5> DEFINE it(ph) == [Idle EXCEPT !.proc = co[c].proc, !.task = Task(c), !.prov = co[c].prov,
                                !.kind = "resume", !.group = 0,
                                !.cap = Refreshed(co[c].proc, co[c].prov)[co[c].prov]["video"],
                                !.ph = ph]
        <5>1. co' = [co EXCEPT ![c] = it("giveup")] \/ co' = [co EXCEPT ![c] = it("wait")]
          BY <4>2 DEF DispatchTo, Idle
        <5>2. \A ph : it(ph).task = Task(c)
          BY DEF Idle
        <5> HIDE DEF it
        <5> QED
          BY <1>1, <5>1, <5>2 DEF CoType, Task
      <4> QED
        BY <3>1, <4>1, <4>2 DEF RegisterRetry
    <3>2. CASE LookUpCall(c)
      BY <1>1, <2>a, <3>2 DEF LookUpCall, CoType, Coroutine
    <3>3. CASE Moves(c, ResumePhases)
      <4>1. CASE End(c)
        BY <1>1, <1>2, <4>1 DEF End, CoType, Idle
      <4>2. CASE \E ph, reason : Go(c, ph) \/ GoWhy(c, ph, reason)
        BY <1>1, <2>a, <4>2 DEF CoType, Coroutine, Go, GoWhy
      <4> QED
        BY <3>3, <4>1, <4>2 DEF Moves
    <3> QED
      BY <1>6, <3>1, <3>2, <3>3, ResumesMove
  <2> QED
    BY <2>a, <2>b DEF Task
<1>7. CASE co'[c].kind = "run"
  BY <1>2, <1>7
<1>8. CoStep(c)
  BY CoSteps DEF Step, Inv
<1> QED
  BY <1>3, <1>4, <1>5, <1>6, <1>7, <1>8 DEF CoStep
-----------------------------------------------------------------------------
(* A step that lets go of a task, or ends it, is its holder's: the task is *)
(* in no hand afterwards, and no run is about to submit it.                *)
LEMMA LettingGo ==
  ASSUME Step, NEW t \in TaskId, LetsGo(t)
  PROVE  /\ \A p \in Proc : proc[p].hand = t => proc'[p].hand # t
         /\ \A d \in CoId : AboutToSubmit(d) /\ AboutToSubmit(d)' => Task(d) # t
<1>1. Inv /\ CoType /\ ProcType
  BY DEF Step, Inv, TypeInv, WorkerTypeOK
<1>2. t # NoTask
  BY DEF TaskId, NoTask
<1>3. ASSUME NEW p \in Proc, PutBack(p), proc[p].hand = t
      PROVE  /\ \A q \in Proc : proc[q].hand = t => proc'[q].hand # t
             /\ \A d \in CoId : AboutToSubmit(d) /\ AboutToSubmit(d)' => Task(d) # t
  <2>a. \A q \in Proc : proc[q].hand = t => q = p
    BY <1>1, <1>2, <1>3 DEF Inv, HolderInv
  <2>b. proc'[p].hand = NoTask
    BY <1>1, <1>3 DEF PutBack, HandEmptied, ProcType, ProcState
  <2> QED
    BY <1>1, <1>2, <1>3, <2>a, <2>b DEF Inv, HolderInv, AboutToSubmit
<1>4. ASSUME NEW c \in CoId, ResumeLands(c) \/ ResumeQuits(c), Task(c) = t
      PROVE  /\ \A q \in Proc : proc[q].hand = t => proc'[q].hand # t
             /\ \A d \in CoId : AboutToSubmit(d) /\ AboutToSubmit(d)' => Task(d) # t
  <2>a. t \in jobs
    BY <1>1, <1>4 DEF ResumeLands, ResumeQuits, Resume, Inv, JobInv
  <2> QED
    BY <1>1, <2>a, JobIsSubmitted
<1>5. ASSUME NEW c \in CoId, GiveBack(c) \/ Land(c) \/ RunQuits(c), Task(c) = t
      PROVE  /\ \A q \in Proc : proc[q].hand = t => proc'[q].hand # t
             /\ \A d \in CoId : AboutToSubmit(d) /\ AboutToSubmit(d)' => Task(d) # t
  <2>a. IsRun(c)
    BY <1>5 DEF GiveBack, Land, RunQuits, Run, IsRun
  <2>b. ~(AboutToSubmit(c) /\ AboutToSubmit(c)')
    <3>1. CASE End(c)
      BY <1>1, <3>1 DEF End, Idle, CoType, AboutToSubmit, IsRun
    <3>2. CASE Land(c)
      BY <3>2 DEF Land, Run, AboutToSubmit, BeforeSubmit
    <3> QED
      BY <1>5, <3>1, <3>2 DEF GiveBack, RunQuits
  <2> QED
    BY <1>1, <1>5, <2>a, <2>b DEF Inv, HolderInv, AboutToSubmit
<1> QED
  BY <1>3, <1>4, <1>5 DEF LetsGo, GivesVerdict

LEMMA HandOpenStep ==
  ASSUME Step
  PROVE  (\A p \in Proc, t \in TaskId : proc[p].hand = t => Open(t))'
<1>1. RowStep /\ Inv /\ QueueTypeOK /\ ProcType
  BY RowsStep DEF Step, Inv, TypeInv, WorkerTypeOK
<1>2. SUFFICES ASSUME NEW p \in Proc, NEW t \in TaskId, proc'[p].hand = t
               PROVE  Open(t)'
  OBVIOUS
<1>3. t # NoTask
  BY DEF TaskId, NoTask
<1>4. CASE proc[p].hand = t
  <2>a. Open(t)
    BY <1>1, <1>4 DEF Inv, JobInv
  <2> QED
    BY <1>1, <1>2, <1>4, <2>a, LettingGo DEF RowStep
<1>5. CASE proc[p].hand # t
  <2>a. PICK q \in Proc : Claim(q)
    BY <1>2, <1>3, <1>5, HandsStep DEF HandsOnlyEmptied, Step, Inv
  <2>b. PICK lane \in WorkLane, u \in TaskId :
          /\ ClaimNext(u, lane, PoolFull(q, lane))
          /\ proc' = [proc EXCEPT
               ![q].hand = u,
               ![q].prov = IF prov[u] \in Provider /\ Capacity(q, prov[u], lane) > 0
                           THEN prov[u] ELSE NoProvider]
    BY <2>a DEF Claim
  <2>c. \A r \in Proc : proc'[r].hand = IF r = q THEN u ELSE proc[r].hand
    BY <1>1, <2>b DEF ProcType, ProcState
  <2>d. u = t
    BY <1>2, <1>5, <2>c
  <2> QED
    BY <1>1, <2>b, <2>d DEF ClaimNext, QueueTypeOK, Open
<1> QED
  BY <1>4, <1>5

LEMMA CarriedOpenStep ==
  ASSUME Step
  PROVE  (\A c \in CoId : AboutToSubmit(c) => Open(Task(c)))'
<1>1. RowStep /\ Inv /\ CoType /\ CoType'
  BY RowsStep DEF Step, Inv, TypeInv, WorkerTypeOK
<1>2. SUFFICES ASSUME NEW c \in CoId, AboutToSubmit(c)'
               PROVE  Open(Task(c))'
  OBVIOUS
<1>3. Task(c)' \in TaskId
  BY <1>1, <1>2 DEF CoType, Coroutine, Idle, IsRun, Task, AboutToSubmit
<1>4. CASE \E p \in Proc : Dispatch(p)
  <2>a. UNCHANGED status
    BY <1>4 DEF Dispatch, queueVars, rowVars
  <2>b. CASE co'[c] = co[c]
    BY <1>1, <1>2, <2>a, <2>b DEF Inv, JobInv, AboutToSubmit, IsRun, Task, Open
  <2>c. CASE \E p \in Proc : Task(c)' = proc[p].hand
    BY <1>1, <1>3, <2>a, <2>c DEF Inv, JobInv, Open
  <2>d. PICK p \in Proc : Dispatch(p)
    BY <1>4
  <2>e. PICK d \in CoId :
          co' = [co EXCEPT ![d] = [Idle EXCEPT !.proc = p, !.task = proc[p].hand,
                                               !.prov = proc[p].prov,
                                               !.kind = "run", !.ph = "exec"]]
    BY <2>d DEF Dispatch, InHand
  <2>f. CASE c = d
    <3>1. co'[c].task = proc[p].hand
      BY <1>1, <2>e, <2>f DEF CoType, Idle
    <3> QED
      BY <2>c, <3>1 DEF Task
  <2>g. CASE c # d
    BY <1>1, <2>b, <2>e, <2>g DEF CoType
  <2> QED
    BY <2>f, <2>g
<1>5. CASE \A p \in Proc : ~Dispatch(p)
  <2>a. RunsMoveOn
    BY <1>5, RunsStep DEF Step, Inv
  <2>b. AboutToSubmit(c) /\ Task(c)' = Task(c)
    BY <1>2, <2>a DEF RunsMoveOn, MovesOn, AboutToSubmit
  <2>c. Open(Task(c)) /\ ~LetsGo(Task(c))
    BY <1>1, <1>2, <1>3, <2>b, LettingGo DEF Inv, JobInv
  <2>d. status'[Task(c)] \in {"running", "failed"}
    BY <1>1, <1>3, <2>b, <2>c DEF RowStep, Open
  <2> QED
    BY <2>b, <2>d DEF Open
<1> QED
  BY <1>4, <1>5

(* What a run has on record.                                               *)
LEMMA RunRecordStep ==
  ASSUME Step
  PROVE  (\A c \in CoId : IsRun(c) =>
            /\ co[c].ph \in SentPhases => submits[Task(c)] = 1
            /\ co[c].ph = "ready" /\ Lane(Task(c)) = "video" =>
                 Task(c) \in ckpts /\ prov[Task(c)] = co[c].prov
            /\ co[c].ph = "accepted" => Task(c) \in ckpts /\ prov[Task(c)] \in Resumable)'
<1>1. RowStep /\ Inv /\ CoType /\ CoType' /\ QueueTypeOK
  BY RowsStep DEF Step, Inv, TypeInv, WorkerTypeOK
<1>2. SUFFICES ASSUME NEW c \in CoId, IsRun(c)', co'[c].ph \notin {"exec"}
               PROVE  /\ co'[c].ph \in SentPhases => submits'[Task(c)'] = 1
                      /\ co'[c].ph = "ready" /\ Lane(Task(c))' = "video" =>
                           Task(c)' \in ckpts' /\ prov'[Task(c)'] = co'[c].prov
                      /\ co'[c].ph = "accepted" =>
                           Task(c)' \in ckpts' /\ prov'[Task(c)'] \in Resumable
  BY DEF SentPhases
<1> DEFINE t == Task(c)
<1>3. t \in TaskId /\ IsRun(c) /\ Task(c)' = t /\ co'[c].prov = co[c].prov
  <2>a. co'[c] = co[c] \/ RunStep(c) \/ RunTornDown(c)
    <3>1. ~(ResumeStep(c) \/ ResumeTornDown(c))
      BY <1>1, <1>2, ResumesMove, ResumeStepMovesOn DEF RunsMoveOn, MovesOn, IsRun
    <3> QED
      BY <1>1, <1>2, <3>1, CoSteps DEF CoStep, Step, Inv, IsRun, Idle
  <2>b. IsRun(c) /\ co'[c].task = co[c].task /\ co'[c].prov = co[c].prov
    BY <1>1, <1>2, <2>a, PhaseStep, RunsMove DEF IsRun
  <2> QED
    BY <1>1, <2>b DEF Task, CoType, Coroutine, Idle, IsRun
<1>4. CASE co'[c] = co[c] /\ ~(Drift(c) \/ Checkpoint(c))
  <2>a. status[t] # "absent" /\ \A p \in Proc : proc[p].hand # t
    BY <1>1, <1>3 DEF Inv, HolderInv, Untouched
  <2>b. \A d \in CoId : Drift(d) \/ Checkpoint(d) => Task(d) # t
    BY <1>1, <1>3, <1>4 DEF Inv, HolderInv, Drift, Checkpoint, Run, IsRun
  <2>c. prov'[t] = prov[t] /\ key'[t] = key[t] /\ Lane(Task(c))' = Lane(t)
    BY <1>1, <1>3, <2>a, <2>b DEF RowStep, Names, Lane
  <2>d. submits[t] = 1 => submits'[t] = 1
    BY <1>3, SubmitsGrow
  <2> QED
    BY <1>1, <1>2, <1>3, <1>4, <2>c, <2>d DEF Inv, JobInv, RowStep
<1>5. CASE RunStep(c) \/ RunTornDown(c)
  <2>0. /\ co'[c].ph \in SentPhases => co[c].ph \in SentPhases \/ Submit(c)
        /\ co'[c].ph = "ready" => Checkpoint(c) \/ EnterBracket(c)
        /\ co'[c].ph = "accepted" => Submit(c)
    BY <1>1, <1>2, <1>5, PhaseStep
  <2>a. ASSUME co[c].ph \in SentPhases
        PROVE  submits'[t] = 1
    BY <1>1, <1>3, <2>a, SubmitsGrow DEF Inv, JobInv
  <2>b. ASSUME Submit(c)
        PROVE  /\ submits'[t] = 1
               /\ co'[c].ph = "accepted" => t \in ckpts' /\ prov'[t] \in Resumable
    <3>1. submits[t] = 0 /\ submits \in [TaskId -> Nat] /\ co[c].ph = "ready"
      BY <1>1, <1>3, <2>b DEF Submit, Run, Inv, HolderInv, BeforeSubmit, TypeInv, WorkerTypeOK
    <3>2. submits'[t] = 1 /\ UNCHANGED <<ckpts, prov>>
      BY <1>3, <2>b, <3>1 DEF Submit, queueVars, rowVars
    <3>3. co'[c].ph = "accepted" => Lane(t) = "video" /\ co[c].prov \in Resumable
      BY <1>1, <1>3, <2>b DEF Submit, Go, CoType, Coroutine
    <3> QED
      BY <1>1, <1>3, <3>1, <3>2, <3>3 DEF Inv, JobInv
  <2>c. ASSUME Checkpoint(c), co'[c].ph = "ready"
        PROVE  t \in ckpts' /\ prov'[t] = co[c].prov
    <3>1. PersistCheckpoint(t, co[c].prov)
      <4>1. co[c] \in Coroutine
        BY <1>1, <1>3 DEF CoType, Idle, IsRun
      <4> QED
        BY <1>1, <2>c, <4>1 DEF Checkpoint, GoWhy, CoType, Coroutine
    <3> QED
      BY <1>1, <1>3, <3>1 DEF PersistCheckpoint, QueueTypeOK
  <2>d. ASSUME EnterBracket(c), co'[c].ph = "ready"
        PROVE  Lane(t)' # "video"
    <3>1. Lane(t) # "video" /\ UNCHANGED key
      BY <1>1, <2>d DEF EnterBracket, Go, CoType, OpenCall, rowVars
    <3> QED
      BY <1>3, <3>1 DEF Lane
  <2> QED
    BY <1>3, <2>0, <2>a, <2>b, <2>c, <2>d
<1>6. \/ co'[c] = co[c] /\ ~(Drift(c) \/ Checkpoint(c))
      \/ RunStep(c) \/ RunTornDown(c)
  <2>a. ~(ResumeStep(c) \/ ResumeTornDown(c))
    BY <1>1, <1>3, ResumesMove DEF IsRun
  <2> QED
    BY <1>1, <1>2, <2>a, CoSteps DEF CoStep, Step, Inv, IsRun, Idle, RunStep
<1> QED
  BY <1>4, <1>5, <1>6
-----------------------------------------------------------------------------
LEMMA InvInit == WorkerInit => Inv
<1> SUFFICES ASSUME WorkerInit
             PROVE  Inv
  OBVIOUS
<1>1. TypeInv
  BY WorkerInitTyped
<1>2. HolderInv
  BY DEF WorkerInit, QueueInit, HolderInv, Down, Idle, NoTask, TaskId, Fresh, Untouched, IsRun, Task
<1>3. JobInv
  BY DEF WorkerInit, QueueInit, JobInv, Down, Idle, NoTask, TaskId, IsRun, AboutToSubmit, Task
<1> QED
  BY <1>1, <1>2, <1>3 DEF Inv

LEMMA InvStep == Inv /\ [WorkerNext]_vars => Inv'
<1> SUFFICES ASSUME Inv, [WorkerNext]_vars
             PROVE  Inv'
  OBVIOUS
<1>1. Step
  BY TypeInvStep, HolderStep DEF Inv, Step
<1>2. JobInv'
  BY <1>1, JobRowsStep, ReadyJobsStep, ResumeJobsStep, HandOpenStep, CarriedOpenStep, RunRecordStep
     DEF JobInv
<1> QED
  BY <1>1, <1>2 DEF Step, Inv

LEMMA InvHolds == WorkerSpec => []Inv
BY InvInit, InvStep, PTL DEF WorkerSpec

(* A recorded job was submitted, once, from behind a checkpoint, to a      *)
(* provider that can resume it: what the start-up scan goes by.            *)
THEOREM JobsCanBeResumed == WorkerSpec => []JobIsResumable
<1>1. Inv => JobIsResumable
  BY DEF Inv, JobInv, JobIsResumable
<1> QED
  BY <1>1, InvHolds, PTL

-----------------------------------------------------------------------------
(* The transactions of the queue, as the user of a task sees them.         *)
LEMMA PlainPromise ==
  ASSUME QueueTypeOK, [PlainNext]_queueVars, UNCHANGED submits,
         \A t \in jobs : submits[t] = 1
  PROVE  [Promise!PromiseNext]_Promise!promise
<1> DEFINE Goal == [Promise!PromiseNext]_Promise!promise
<1> SUFFICES Goal
  OBVIOUS
<1> USE DEF QueueTypeOK, Status, Active, Terminal
<1>1. ASSUME UNCHANGED status
      PROVE  Goal
  BY <1>1 DEF Promise!promise
<1>2. ASSUME NEW S \in SUBSET TaskId, \A u \in S : status[u] = "queued",
             status' = [u \in TaskId |-> IF u \in S THEN "cancelled" ELSE status[u]]
      PROVE  Goal
  BY <1>2 DEF Promise!PromiseNext, Promise!Withdraw
<1>3. ASSUME NEW t \in TaskId, NEW S \in SUBSET TaskId, NEW end \in {"failed", "cancelled"},
             status[t] = "running", \A u \in S : status[u] = "queued",
             status' = [u \in TaskId |-> IF u = t \/ u \in S THEN end ELSE status[u]]
      PROVE  Goal
  <2>a. Promise!EndBadly(t, S, end)
    BY <1>3 DEF Promise!EndBadly
  <2> QED
    BY <2>a DEF Promise!PromiseNext
<1>4. ASSUME NEW k, NEW d, NEW p, Enqueue(k, d, p)
      PROVE  Goal
  <2>a. PICK t \in TaskId : status[t] = "absent" /\ status' = [status EXCEPT ![t] = "queued"]
    BY <1>4 DEF Enqueue
  <2>b. Promise!Accept(t)
    BY <2>a DEF Promise!Accept
  <2> QED
    BY <2>b DEF Promise!PromiseNext
<1>5. ASSUME NEW t \in TaskId, NEW lane, NEW full, ClaimNext(t, lane, full)
      PROVE  Goal
  <2>a. Promise!Begin(t)
    BY <1>5 DEF ClaimNext, Claimable, Promise!Begin
  <2> QED
    BY <2>a DEF Promise!PromiseNext
<1>6. ASSUME NEW t \in TaskId, RetryArtifactDownload(t)
      PROVE  Goal
  <2>a. Promise!Revive(t)
    BY <1>6 DEF RetryArtifactDownload, MayRetryDownload, Promise!Revive
  <2> QED
    BY <2>a DEF Promise!PromiseNext
<1>7. ASSUME NEW t \in TaskId, MarkSucceeded(t)
      PROVE  Goal
  <2>a. Promise!Succeed(t)
    BY <1>7 DEF MarkSucceeded, Promise!Succeed
  <2> QED
    BY <2>a DEF Promise!PromiseNext
<1>8. ASSUME NEW t \in TaskId,
             \/ CancelTask(t) \/ FinalizeInterrupted(t)
             \/ \E reason \in FailReasons : MarkFailed(t, reason)
      PROVE  Goal
  <2>a. Behind(t) \in SUBSET TaskId /\ \A u \in Behind(t) : status[u] = "queued"
    BY BehindIsQueued
  <2>b. PICK end \in {"failed", "cancelled"} :
          status' = [u \in TaskId |-> IF u = t \/ u \in Behind(t) THEN end ELSE status[u]]
    BY <1>8 DEF CancelTask, FinalizeInterrupted, MarkFailed, EndWithCascade
  <2>c. CASE status[t] = "running"
    BY <1>3, <2>a, <2>b, <2>c
  <2>d. CASE status[t] = "queued" /\ end = "cancelled"
    <3>1. (Behind(t) \cup {t}) \in SUBSET TaskId /\ \A u \in Behind(t) \cup {t} : status[u] = "queued"
      BY <2>a, <2>d
    <3>2. status' = [u \in TaskId |-> IF u \in Behind(t) \cup {t} THEN "cancelled" ELSE status[u]]
      BY <2>b, <2>d
    <3> HIDE DEF Goal
    <3> QED
      BY <1>2, <3>1, <3>2
  <2>e. status[t] = "running" \/ (status[t] = "queued" /\ status'[t] = "cancelled")
    BY <1>8 DEF CancelTask, FinalizeInterrupted, MarkFailed, EndWithCascade
  <2> QED
    BY <2>b, <2>c, <2>d, <2>e
<1>9. CASE CancelAllQueued
  <2> DEFINE hit == {t \in TaskId : status[t] = "queued" /\ LaneOf[key[t]] # "render"}
  <2>a. status' = [t \in TaskId |-> IF t \in hit THEN "cancelled" ELSE status[t]]
    BY <1>9 DEF CancelAllQueued
  <2>b. hit \in SUBSET TaskId /\ \A u \in hit : status[u] = "queued"
    OBVIOUS
  <2> HIDE DEF hit, Goal
  <2> QED
    BY <1>2, <2>a, <2>b
<1>10. CASE \E t \in TaskId, end \in CallEnd : FinishCall(t, end) \/ FinalizePending(t, end)
  BY <1>1, <1>10 DEF FinishCall, FinalizePending, rowVars
<1>11. CASE SettleInterrupted
  BY <1>1, <1>11 DEF SettleInterrupted, rowVars
<1>12. CASE \E t \in TaskId : PersistJob(t)
  BY <1>1, <1>12 DEF PersistJob
<1>13. CASE \E t \in TaskId, p \in Provider : RecordProvider(t, p) \/ PersistCheckpoint(t, p)
  BY <1>1, <1>13 DEF RecordProvider, PersistCheckpoint
<1>14. CASE UNCHANGED queueVars
  BY <1>1, <1>14 DEF queueVars, rowVars
<1> HIDE DEF Goal
<1> QED
  BY <1>4, <1>5, <1>6, <1>7, <1>8, <1>9, <1>10, <1>11, <1>12, <1>13, <1>14 DEF PlainNext, MildNext

LEMMA PromiseStep ==
  ASSUME Inv, [WorkerNext]_vars
  PROVE  [Promise!PromiseNext]_Promise!promise
<1> DEFINE Goal == [Promise!PromiseNext]_Promise!promise
<1> SUFFICES Goal
  OBVIOUS
<1>1. TypeInv /\ HolderInv /\ JobInv /\ QueueTypeOK /\ CoType
  BY DEF Inv, TypeInv, WorkerTypeOK
<1>2. \A t \in jobs : submits[t] = 1
  BY <1>1 DEF JobInv
<1>3. ASSUME [PlainNext]_queueVars, UNCHANGED submits
      PROVE  Goal
  BY <1>1, <1>2, <1>3, PlainPromise
<1>4. ASSUME NEW t \in TaskId, Requeue(t), UNCHANGED submits, submits[t] = 0
      PROVE  Goal
  <2>a. Promise!GoBack(t)
    BY <1>4 DEF Requeue, Promise!GoBack
  <2> QED
    BY <2>a DEF Promise!PromiseNext
<1>5. ASSUME NEW p \in Proc, PutBack(p)
      PROVE  Goal
  <2>a. PICK t \in TaskId : /\ proc[p].hand = t /\ UNCHANGED submits
                            /\ Requeue(t) \/ UNCHANGED queueVars
    BY <1>5 DEF PutBack, InHand
  <2>b. submits[t] = 0
    BY <1>1, <2>a DEF HolderInv, Fresh
  <2> HIDE DEF Goal
  <2> QED
    BY <1>3, <1>4, <2>a, <2>b
<1>6. ASSUME NEW c \in CoId, GiveBack(c)
      PROVE  Goal
  <2>a. Task(c) \in TaskId /\ IsRun(c) /\ submits[Task(c)] = 0
    BY <1>1, <1>6 DEF GiveBack, Run, IsRun, CoType, Idle, Coroutine, Task, HolderInv, BeforeSubmit
  <2>b. UNCHANGED submits /\ (Requeue(Task(c)) \/ MarkFailed(Task(c), "error") \/ UNCHANGED queueVars)
    BY <1>6 DEF GiveBack, TryMarkFailed
  <2>c. MarkFailed(Task(c), "error") => PlainNext
    BY <2>a DEF PlainNext, MildNext, FailReasons
  <2> HIDE DEF Goal
  <2> QED
    BY <1>3, <1>4, <2>a, <2>b, <2>c
<1>7. ASSUME NEW c \in CoId, EnterBracket(c)
      PROVE  Goal
  BY <1>7 DEF EnterBracket, OpenCall, rowVars, Promise!promise
<1>8. ASSUME NEW c \in CoId, Submit(c)
      PROVE  Goal
  <2>a. IsRun(c) /\ co[c].ph = "ready" /\ Task(c) \in TaskId
    BY <1>1, <1>8 DEF Submit, Run, IsRun, CoType, Idle, Coroutine, Task
  <2>b. submits[Task(c)] = 0 /\ Open(Task(c))
    BY <1>1, <2>a DEF HolderInv, JobInv, AboutToSubmit, BeforeSubmit
  <2>c. submits' = [submits EXCEPT ![Task(c)] = 1] /\ UNCHANGED status
    BY <1>1, <1>8, <2>a, <2>b DEF Submit, queueVars, rowVars, TypeInv, WorkerTypeOK
  <2>d. Promise!Send(Task(c))
    BY <2>b, <2>c DEF Promise!Send, Open
  <2> QED
    BY <2>a, <2>d DEF Promise!PromiseNext
<1>9. CASE /\ \A p \in Proc : ~PutBack(p)
           /\ \A c \in CoId : ~GiveBack(c) /\ ~EnterBracket(c) /\ ~Submit(c)
  BY <1>1, <1>3, <1>9, PlainSimulation, SubmitsStep
<1> HIDE DEF Goal
<1> QED
  BY <1>5, <1>6, <1>7, <1>8, <1>9

(* The worker implements GenerationPromise: a task costs nothing while it  *)
(* waits, is sent to a provider once, goes back in line only if nothing    *)
(* was sent, and its verdict stands unless a download is tried again.      *)
THEOREM PromiseIsKept == WorkerSpec => PromiseKept
<1>1. WorkerInit => Promise!PromiseInit
  BY DEF WorkerInit, QueueInit, Promise!PromiseInit
<1> QED
  BY <1>1, InvHolds, PromiseStep, PTL DEF WorkerSpec, PromiseKept, Promise!PromiseSpec

-----------------------------------------------------------------------------
(* What one step may do to a coroutine, a row, a call, a slot table and a  *)
(* process.                                                                *)

(* A run is in its billing bracket, and a coroutine with one of the closing*)
(* phases has given its verdict and only has its call left to settle.      *)
Bracket == {"opened", "ready", "accepted", "polling", "bill", "unbill", "void"}
Closing == {"writeoff", "settle", "drop"}
Stopping(c) == proc[co[c].proc].up = "stopping"
Own(c) == RunStep(c) \/ RunTornDown(c) \/ ResumeStep(c) \/ ResumeTornDown(c)

(* Somebody who will settle the call of the task, whatever comes.          *)
Accountable(c) ==
  \/ IsRun(c) /\ co[c].ph \in Bracket
  \/ co[c].kind = "resume" /\ co[c].ph # "land" /\ (co[c].ph = "polling" => co[c].bill)

(* The same coroutine, further on.                                         *)
Same(c) == /\ co'[c].kind = co[c].kind /\ co'[c].task = co[c].task
           /\ co'[c].proc = co[c].proc /\ co'[c].prov = co[c].prov
SettlesAtMost(t) ==
  \A u \in TaskId : call'[u] # call[u] => u = t /\ call[t] = "pending" /\ call'[t] # "pending"

RunPath(c) ==
  \/ /\ End(c) /\ call' = call /\ co[c].ph \notin Bracket
     /\ \/ status'[Task(c)] # "running"
        \/ UNCHANGED status /\ Stopping(c)
  \/ /\ Same(c) /\ UNCHANGED status
     /\ \/ /\ co[c].ph = "exec" /\ co'[c].ph \in Bracket
           /\ call' = [call EXCEPT ![Task(c)] = "pending"]
        \/ /\ co[c].ph \in Bracket /\ co'[c].ph \notin Bracket
           /\ \E end \in CallEnd : call' = [call EXCEPT ![Task(c)] = end]
        \/ /\ call' = call
           /\ co'[c].ph \in Bracket <=> co[c].ph \in Bracket

LEMMA Marks ==
  ASSUME QueueTypeOK, NEW t \in TaskId
  PROVE  /\ \A reason \in Reasons : TryMarkFailed(t, reason) => status'[t] # "running" /\ call' = call
         /\ TryMarkSucceeded(t) => status'[t] # "running" /\ call' = call
         /\ TryInterrupt(t) => status'[t] # "running" /\ call' = call
         /\ Requeue(t) => status'[t] # "running" /\ call' = call
         /\ UNCHANGED queueVars => UNCHANGED <<status, call>>
<1> USE DEF QueueTypeOK, queueVars, rowVars
<1>1. ASSUME NEW reason \in Reasons, TryMarkFailed(t, reason)
      PROVE  status'[t] # "running" /\ call' = call
  BY <1>1 DEF TryMarkFailed, MarkFailed, EndWithCascade
<1>2. TryInterrupt(t) => status'[t] # "running" /\ call' = call
  BY DEF TryInterrupt, FinalizeInterrupted, EndWithCascade, Active
<1>3. TryMarkSucceeded(t) => status'[t] # "running" /\ call' = call
  BY DEF TryMarkSucceeded, MarkSucceeded
<1> QED
  BY <1>1, <1>2, <1>3 DEF Requeue

LEMMA GoesOn ==
  ASSUME CoType, NEW c \in CoId, Live(c)
  PROVE  /\ \A ph : Go(c, ph) => Same(c) /\ co'[c].ph = ph /\ co'[c].bill = co[c].bill
         /\ \A ph, reason : GoWhy(c, ph, reason) => Same(c) /\ co'[c].ph = ph /\ co'[c].bill = co[c].bill
<1>1. co[c] \in Coroutine
  BY DEF CoType, Live
<1>2. ASSUME NEW ph, Go(c, ph) PROVE Same(c) /\ co'[c].ph = ph /\ co'[c].bill = co[c].bill
  BY <1>1, <1>2 DEF Go, CoType, Coroutine, Same
<1>3. ASSUME NEW ph, NEW reason, GoWhy(c, ph, reason)
      PROVE  Same(c) /\ co'[c].ph = ph /\ co'[c].bill = co[c].bill
  BY <1>1, <1>3 DEF GoWhy, CoType, Coroutine, Same
<1> QED
  BY <1>2, <1>3

LEMMA RunsPath ==
  ASSUME TypeInv, NEW c \in CoId, RunStep(c) \/ RunTornDown(c)
  PROVE  IsRun(c) /\ RunPath(c)
<1>1. CoType /\ QueueTypeOK
  BY DEF TypeInv, WorkerTypeOK
<1>2. IsRun(c) /\ Live(c)
  BY RunsMove DEF IsRun, Live, Idle
<1>3. Task(c) \in TaskId /\ co[c].why \in Reasons /\ "error" \in Reasons
  BY <1>1, <1>2 DEF CoType, Live, Coroutine, Task, Reasons
<1>4. \A ph : Go(c, ph) => Same(c) /\ co'[c].ph = ph
  BY <1>1, <1>2, GoesOn
<1>5. \A ph, reason : GoWhy(c, ph, reason) => Same(c) /\ co'[c].ph = ph
  BY <1>1, <1>2, GoesOn
<1> DEFINE t == Task(c)
           Over == End(c) /\ co[c].ph \notin Bracket /\ status'[t] # "running" /\ call' = call
           On == Same(c) /\ UNCHANGED <<status, call>> /\ (co'[c].ph \in Bracket <=> co[c].ph \in Bracket)
<1>6. Over \/ On => RunPath(c)
  <2>1. Over => RunPath(c)
    BY DEF RunPath
  <2>2. On => RunPath(c)
    BY DEF RunPath
  <2> HIDE DEF Over, On
  <2> QED
    BY <2>1, <2>2
<1> USE DEF Run, Bracket
<1>7. CASE GiveBack(c) \/ RunFails(c) \/ RunQuits(c)
  <2>1. Over
    BY <1>1, <1>3, <1>7, Marks DEF GiveBack, RunFails, RunQuits, queueVars, rowVars
  <2> QED
    BY <1>2, <1>6, <2>1
<1>drift. CASE Drift(c) \/ Reject(c)
  <2>1. On
    BY <1>4, <1>5, <1>drift DEF Drift, Reject, RecordProvider, queueVars, rowVars
  <2> QED
    BY <1>2, <1>6, <2>1
<1>9. CASE Checkpoint(c)
  <2>1. On
    BY <1>4, <1>5, <1>9 DEF Checkpoint, PersistCheckpoint, queueVars, rowVars
  <2> QED
    BY <1>2, <1>6, <2>1
<1>10. CASE Submit(c) \/ Refused(c) \/ Answer(c)
  <2>1. On
    BY <1>4, <1>5, <1>10 DEF Submit, Refused, Answer, queueVars, rowVars
  <2> QED
    BY <1>2, <1>6, <2>1
<1>keep. CASE KeepJob(c)
  <2>1. On
    BY <1>4, <1>5, <1>keep DEF KeepJob, PersistJob, queueVars, rowVars
  <2> QED
    BY <1>2, <1>6, <2>1
<1>12. CASE EnterBracket(c)
  BY <1>2, <1>4, <1>12 DEF EnterBracket, OpenCall, rowVars, RunPath
<1>13. CASE CloseBracket(c)
  BY <1>2, <1>4, <1>13 DEF CloseBracket, FinishCall, rowVars, RunPath, CallEnd
<1>14. CASE Land(c)
  <2>1. Over \/ On
    BY <1>1, <1>3, <1>5, <1>14, Marks DEF Land, queueVars, rowVars
  <2> QED
    BY <1>2, <1>6, <2>1
<1>15. CASE RunTornDown(c)
  BY <1>2, <1>4, <1>15 DEF RunTornDown, queueVars, rowVars, RunPath, Stopping
<1> QED
  BY <1>7, <1>drift, <1>9, <1>10, <1>keep, <1>12, <1>13, <1>14, <1>15 DEF RunStep

(* A resume that goes on keeps its place behind or before its dispatch,    *)
(* and answers for its call until it is settled.                           *)
ResumePath(c) ==
  \/ /\ End(c) /\ co[c].ph \in Closing
     /\ UNCHANGED status /\ SettlesAtMost(Task(c)) /\ call'[Task(c)] # "pending"
  \/ End(c) /\ co[c].ph = "land" /\ status'[Task(c)] # "running" /\ call' = call
  \/ End(c) /\ Stopping(c) /\ UNCHANGED <<status, call>>
  \/ /\ Same(c) /\ co[c].ph \notin Closing /\ SettlesAtMost(Task(c))
     /\ IF co'[c].ph \in Closing THEN status'[Task(c)] # "running" ELSE UNCHANGED status
     /\ Accountable(c) /\ call'[Task(c)] = "pending" => Accountable(c)'
     /\ co'[c].ph # "dispatch"
     /\ co[c].ph # "dispatch" => (co'[c].ph \in Dispatching <=> co[c].ph \in Dispatching)

LEMMA ResumesPath ==
  ASSUME TypeInv, NEW c \in CoId, ResumeStep(c) \/ ResumeTornDown(c)
  PROVE  co[c].kind = "resume" /\ ResumePath(c)
<1>1. CoType /\ QueueTypeOK
  BY DEF TypeInv, WorkerTypeOK
<1>2. co[c].kind = "resume" /\ Live(c) /\ co[c] \in Coroutine /\ ~IsRun(c)
  BY <1>1, ResumesMove DEF IsRun, Live, Idle, CoType
<1> SUFFICES ResumePath(c)
  BY <1>2
<1>3. Task(c) \in TaskId /\ co[c].why \in Reasons /\ "lost" \in Reasons
  BY <1>1, <1>2 DEF CoType, Live, Coroutine, Task, Reasons
<1>4. \A ph : Go(c, ph) => Same(c) /\ co'[c].ph = ph /\ co'[c].bill = co[c].bill
  BY <1>1, <1>2, GoesOn
<1>5. \A ph, reason : GoWhy(c, ph, reason) => Same(c) /\ co'[c].ph = ph /\ co'[c].bill = co[c].bill
  BY <1>1, <1>2, GoesOn
<1>6. UNCHANGED call => SettlesAtMost(Task(c))
  BY DEF SettlesAtMost
<1>7. ASSUME NEW end \in CallEnd, TryFinalize(Task(c), end)
      PROVE  UNCHANGED status /\ SettlesAtMost(Task(c)) /\ call'[Task(c)] # "pending"
  BY <1>1, <1>3, <1>7 DEF TryFinalize, FinalizePending, CallEnd, SettlesAtMost, QueueTypeOK, queueVars, rowVars
<1>8. \A r \in Reasons : TryMarkFailed(Task(c), r) => status'[Task(c)] # "running" /\ call' = call
  BY <1>1, <1>3, Marks
<1>9. /\ TryMarkSucceeded(Task(c)) => status'[Task(c)] # "running" /\ call' = call
      /\ TryInterrupt(Task(c)) => status'[Task(c)] # "running" /\ call' = call
      /\ UNCHANGED queueVars => UNCHANGED <<status, call>>
  BY <1>1, <1>3, Marks
<1>10. {"success", "failed", "cancelled"} \subseteq CallEnd
  BY DEF CallEnd
<1> USE DEF Resume
<1>answers. Same(c) => (Accountable(c)' <=> (co'[c].ph # "land" /\ (co'[c].ph = "polling" => co'[c].bill)))
  BY <1>2 DEF Accountable, Same, IsRun
<1>answered. Accountable(c) <=> (co[c].ph # "land" /\ (co[c].ph = "polling" => co[c].bill))
  BY <1>2 DEF Accountable, IsRun
<1> DEFINE On == /\ Same(c) /\ co[c].ph \notin Closing \cup {"dispatch"} /\ SettlesAtMost(Task(c))
                 /\ IF co'[c].ph \in Closing THEN status'[Task(c)] # "running" ELSE UNCHANGED status
                 /\ Accountable(c) /\ call'[Task(c)] = "pending" => Accountable(c)'
                 /\ co'[c].ph # "dispatch"
                 /\ co'[c].ph \in Dispatching <=> co[c].ph \in Dispatching
<1>on. On => ResumePath(c)
  BY DEF ResumePath
<1>register. CASE RegisterRetry(c)
  <2>1. UNCHANGED <<status, call>> /\ co[c].ph = "dispatch"
    BY <1>register DEF RegisterRetry, queueVars, rowVars
  <2>2. CASE End(c) /\ Stopping(c)
    BY <2>1, <2>2 DEF ResumePath
  <2>3. CASE DispatchTo(co[c].proc, Task(c), co[c].prov, c, 0)
    <3> DEFINE it(ph) == [Idle EXCEPT !.proc = co[c].proc, !.task = Task(c), !.prov = co[c].prov,
                            !.kind = "resume", !.group = 0,
                            !.cap = Refreshed(co[c].proc, co[c].prov)[co[c].prov]["video"],
                            !.ph = ph]
    <3>1. co' = [co EXCEPT ![c] = it("giveup")] \/ co' = [co EXCEPT ![c] = it("wait")]
      BY <2>3 DEF DispatchTo, Idle
    <3>it. \A ph : /\ it(ph).proc = co[c].proc /\ it(ph).task = co[c].task /\ it(ph).prov = co[c].prov
                   /\ it(ph).kind = "resume" /\ it(ph).ph = ph
      BY DEF Idle, Task
    <3> HIDE DEF it
    <3>2. Same(c) /\ co'[c].ph \in {"giveup", "wait"}
      BY <1>1, <1>2, <3>1, <3>it DEF CoType, Same
    <3>3. Accountable(c)'
      BY <1>answers, <3>2
    <3> QED
      BY <1>6, <2>1, <3>2, <3>3 DEF ResumePath, Closing
  <2> QED
    BY <1>register, <2>2, <2>3 DEF RegisterRetry, Stopping
<1>giveup. CASE GiveUp(c)
  <2>1. CASE TryMarkFailed(Task(c), "lost") /\ Go(c, "writeoff") /\ co[c].ph = "giveup"
    <3>1. On
      BY <1>3, <1>4, <1>6, <1>8, <1>answers, <2>1 DEF Closing, Dispatching
    <3> QED
      BY <1>on, <3>1
  <2>2. CASE TryFinalize(Task(c), "failed") /\ End(c) /\ co[c].ph = "writeoff"
    BY <1>7, <1>10, <2>2 DEF ResumePath, Closing
  <2> QED
    BY <1>giveup, <2>1, <2>2 DEF GiveUp
<1>begin. CASE BeginResume(c)
  <2>1. CASE Stopping(c) /\ End(c) /\ UNCHANGED <<status, call>>
    BY <2>1 DEF ResumePath
  <2>2. CASE Go(c, "look") /\ co[c].ph = "wait" /\ UNCHANGED <<status, call>>
    <3>1. On
      BY <1>4, <1>6, <1>answers, <2>2 DEF Closing, Dispatching
    <3> QED
      BY <1>on, <3>1
  <2> QED
    BY <1>9, <1>begin, <2>1, <2>2 DEF BeginResume, Stopping
<1>look. CASE LookUpCall(c)
  <2>1. Same(c) /\ co'[c].ph = "polling" /\ co'[c].bill = (call[Task(c)] = "pending")
    BY <1>1, <1>2, <1>look DEF LookUpCall, CoType, Coroutine, Same
  <2>2. UNCHANGED <<status, call>> /\ co[c].ph = "look"
    BY <1>9, <1>look DEF LookUpCall
  <2>3. call'[Task(c)] = "pending" => Accountable(c)'
    BY <1>answers, <2>1, <2>2
  <2> QED
    BY <1>6, <2>1, <2>2, <2>3 DEF ResumePath, Closing, Dispatching
<1>answer. CASE ResumeAnswer(c)
  <2>1. UNCHANGED <<status, call>> /\ co[c].ph = "polling"
    BY <1>9, <1>answer DEF ResumeAnswer
  <2>2. /\ Same(c) /\ co'[c].ph \in {"bill", "land", "expire", "fail"}
        /\ co[c].bill => co'[c].ph # "land"
    BY <1>4, <1>5, <1>answer DEF ResumeAnswer
  <2>3. On
    BY <1>6, <1>answers, <1>answered, <2>1, <2>2 DEF Closing, Dispatching
  <2> QED
    BY <1>on, <2>3
<1>settles. CASE ResumeSettles(c)
  <2>1. /\ UNCHANGED status /\ SettlesAtMost(Task(c)) /\ call'[Task(c)] # "pending"
        /\ co[c].ph \in {"bill", "expire"}
    BY <1>7, <1>10, <1>settles DEF ResumeSettles
  <2>2. Same(c) /\ co'[c].ph \in {"land", "fail"}
    BY <1>4, <1>settles DEF ResumeSettles
  <2>3. On
    BY <2>1, <2>2 DEF Closing, Dispatching
  <2> QED
    BY <1>on, <2>3
<1>lands. CASE ResumeLands(c)
  <2>1. CASE TryMarkSucceeded(Task(c)) /\ End(c)
    BY <1>9, <1>lands, <2>1 DEF ResumePath, ResumeLands
  <2>2. CASE UNCHANGED queueVars /\ GoWhy(c, "fail", "error")
    <3>1. On
      BY <1>5, <1>6, <1>9, <1>answers, <1>lands, <2>2 DEF ResumeLands, Closing, Dispatching
    <3> QED
      BY <1>on, <3>1
  <2> QED
    BY <1>lands, <2>1, <2>2 DEF ResumeLands
<1>fails. CASE ResumeFails(c) \/ ResumeQuits(c)
  <2>1. On
    BY <1>3, <1>4, <1>6, <1>8, <1>9, <1>answers, <1>fails DEF ResumeFails, ResumeQuits, Closing, Dispatching
  <2> QED
    BY <1>on, <2>1
<1>ends. CASE ResumeEnds(c)
  BY <1>7, <1>10, <1>ends DEF ResumeEnds, ResumePath, Closing
<1>torn. CASE ResumeTornDown(c)
  <2>1. UNCHANGED <<status, call>> /\ Stopping(c)
    BY <1>9, <1>torn DEF ResumeTornDown, Stopping
  <2>2. CASE End(c)
    BY <2>1, <2>2 DEF ResumePath
  <2>3. CASE co[c].ph \in {"wait", "look", "polling", "land", "fail"} /\ Go(c, "quit")
    <3>1. On
      BY <1>4, <1>6, <1>answers, <2>1, <2>3 DEF Closing, Dispatching
    <3> QED
      BY <1>on, <3>1
  <2> QED
    BY <1>torn, <2>2, <2>3 DEF ResumeTornDown
<1> QED
  BY <1>register, <1>giveup, <1>begin, <1>look, <1>answer, <1>settles, <1>lands, <1>fails, <1>ends, <1>torn
     DEF ResumeStep

-----------------------------------------------------------------------------
(* Where a coroutine begins: with a retried download, with what a scan has *)
(* put aside, or with the task in hand.                                    *)
Retried(c, p) ==
  /\ RetryDownload(p) /\ proc[p].up = "up" /\ RetryArtifactDownload(co'[c].task)
  /\ co'[c].task \in TaskId /\ co'[c].proc = p
  /\ co'[c].kind = "resume" /\ co'[c].ph = "dispatch" /\ UNCHANGED slots
PickedUp(c, p) ==
  /\ DispatchOrphan(p) /\ proc[p].up = "up" /\ proc[p].pc = "sift" /\ proc[p].orphans = proc[p].ready
  /\ co'[c].task \in proc[p].ready /\ co'[c].proc = p /\ co'[c].prov = prov[co'[c].task]
  /\ co'[c].kind = "resume" /\ co'[c].ph \in {"giveup", "wait"} /\ co'[c].group = proc[p].round
  /\ proc'[p].orphans = proc[p].orphans \ {co'[c].task}
  /\ proc'[p].ready = proc[p].ready \ {co'[c].task}
SentOff(c, p) ==
  /\ Dispatch(p) /\ proc[p].hand # NoTask
  /\ co'[c].task = proc[p].hand /\ co'[c].proc = p /\ co'[c].prov = proc[p].prov
  /\ co'[c].kind = "run" /\ co'[c].ph = "exec"
Begins(c, p) == Retried(c, p) \/ PickedUp(c, p) \/ SentOff(c, p)
Stops(p) == Crash(p) \/ StopDone(p)
CoMoves(c) ==
  \/ co'[c] = co[c]
  \/ ~Live(c) /\ \E p \in Proc : Begins(c, p)
  \/ Live(c) /\ co'[c] = Idle /\ Stops(co[c].proc)
  \/ Own(c)

LEMMA OthersStay ==
  ASSUME CoType, NEW c \in CoId, Own(c), NEW d \in CoId, d # c
  PROVE  co'[d] = co[d]
<1>1. CASE RegisterRetry(c)
  BY <1>1 DEF RegisterRetry, DispatchTo, End, CoType
<1>2. CASE LookUpCall(c)
  BY <1>2 DEF LookUpCall, CoType
<1>3. CASE Moves(c, RunPhases) \/ Moves(c, ResumePhases)
  BY <1>3 DEF Moves, End, Go, GoWhy, CoType
<1> QED
  BY <1>1, <1>2, <1>3, RunsMove, ResumesMove DEF Own

LEMMA CoroutinesMove ==
  ASSUME TypeInv, [WorkerNext]_vars, NEW c \in CoId
  PROVE  CoMoves(c)
<1>1. CoType /\ ProcType
  BY DEF TypeInv, WorkerTypeOK
<1> USE DEF CoMoves
<1>own. ASSUME NEW d \in CoId, Own(d)
        PROVE  CoMoves(c)
  BY <1>1, <1>own, OthersStay
<1>retry. ASSUME NEW p \in Proc, RetryDownload(p)
          PROVE  CoMoves(c)
  <2>1. PICK t \in TaskId, d \in CoId :
          /\ proc[p].up = "up" /\ FreshCo(d) /\ RetryArtifactDownload(t) /\ UNCHANGED slots
          /\ co' = [co EXCEPT ![d] = [Idle EXCEPT !.proc = p, !.task = t, !.prov = prov[t],
                                                  !.kind = "resume", !.ph = "dispatch"]]
    BY <1>retry DEF RetryDownload
  <2> DEFINE r == [Idle EXCEPT !.proc = p, !.task = t, !.prov = prov[t], !.kind = "resume", !.ph = "dispatch"]
  <2>2. r.kind = "resume" /\ r.task = t /\ r.proc = p /\ r.ph = "dispatch"
    BY DEF Idle
  <2>3. co' = [co EXCEPT ![d] = r]
    BY <2>1
  <2> HIDE DEF r
  <2>4. CASE c = d
    <3>1. Retried(c, p)
      BY <1>1, <1>retry, <2>1, <2>2, <2>3, <2>4 DEF CoType, Retried
    <3> QED
      BY <2>1, <2>4, <3>1 DEF FreshCo, Unused, Begins
  <2> QED
    BY <1>1, <2>3, <2>4 DEF CoType
<1>stop. ASSUME NEW p \in Proc, Crash(p) \/ StopDone(p)
         PROVE  CoMoves(c)
  BY <1>stop DEF Crash, StopDone, Gone, Stops, Live
<1>pick. ASSUME NEW p \in Proc, DispatchOrphan(p)
         PROVE  CoMoves(c)
  <2>1. CASE UNCHANGED co
    BY <2>1
  <2>2. CASE ~UNCHANGED co
    <3>1. PICK t \in proc[p].ready, d \in CoId :
            /\ proc[p].up = "up" /\ proc[p].pc = "sift" /\ proc[p].orphans = proc[p].ready /\ FreshCo(d)
            /\ DispatchTo(p, t, prov[t], d, proc[p].round)
            /\ proc' = [proc EXCEPT ![p].orphans = @ \ {t}, ![p].ready = @ \ {t},
                                  ![p].table = Refreshed(p, prov[t])]
      BY <1>pick, <2>2 DEF DispatchOrphan, AtLoop
    <3>2. proc'[p].orphans = proc[p].orphans \ {t} /\ proc'[p].ready = proc[p].ready \ {t}
      BY <1>1, <3>1 DEF ProcType, ProcState
    <3> DEFINE it(ph) == [Idle EXCEPT !.proc = p, !.task = t, !.prov = prov[t],
                            !.kind = "resume", !.group = proc[p].round,
                            !.cap = Refreshed(p, prov[t])[prov[t]]["video"], !.ph = ph]
    <3>3. PICK ph \in {"giveup", "wait"} : co' = [co EXCEPT ![d] = it(ph)]
      BY <3>1 DEF DispatchTo, Idle
    <3>4. /\ it(ph).kind = "resume" /\ it(ph).task = t /\ it(ph).proc = p /\ it(ph).prov = prov[t]
          /\ it(ph).group = proc[p].round /\ it(ph).ph = ph
      BY DEF Idle
    <3> HIDE DEF it
    <3>5. CASE c = d
      <4>1. co'[c] = it(ph)
        BY <1>1, <3>3, <3>5 DEF CoType
      <4>2. PickedUp(c, p)
        BY <1>pick, <3>1, <3>2, <3>4, <4>1 DEF PickedUp
      <4> QED
        BY <3>1, <3>5, <4>2 DEF FreshCo, Unused, Begins
    <3> QED
      BY SMTT(30), <1>1, <3>3, <3>5 DEF CoType
  <2> QED
    BY <2>1, <2>2
<1>dispatch. ASSUME NEW p \in Proc, Dispatch(p)
             PROVE  CoMoves(c)
  <2>1. PICK t \in TaskId, d \in CoId :
          /\ proc[p].hand = t /\ FreshCo(d)
          /\ co' = [co EXCEPT ![d] = [Idle EXCEPT !.proc = p, !.task = t, !.prov = proc[p].prov,
                                                  !.kind = "run", !.ph = "exec"]]
    BY <1>dispatch DEF Dispatch, InHand
  <2> DEFINE r == [Idle EXCEPT !.proc = p, !.task = t, !.prov = proc[p].prov, !.kind = "run", !.ph = "exec"]
  <2>2. r.kind = "run" /\ r.task = t /\ r.proc = p /\ r.ph = "exec" /\ r.prov = proc[p].prov
    BY DEF Idle
  <2>3. co' = [co EXCEPT ![d] = r]
    BY <2>1
  <2> HIDE DEF r
  <2>4. CASE c = d
    <3>1. SentOff(c, p)
      BY <1>1, <1>dispatch, <2>1, <2>2, <2>3, <2>4 DEF CoType, SentOff, TaskId, NoTask
    <3> QED
      BY <2>1, <2>4, <3>1 DEF FreshCo, Unused, Begins
  <2> QED
    BY <1>1, <2>3, <2>4 DEF CoType
<1>rest. ASSUME UNCHANGED co
         PROVE  CoMoves(c)
  BY <1>rest
<1> HIDE DEF CoMoves
<1>others. UserEnqueue \/ UserCancel \/ Reconfigure \/ LeaseExpires \/ UNCHANGED vars => UNCHANGED co
  BY DEF UserEnqueue, UserCancel, Reconfigure, LeaseExpires, workerVars, vars
<1>quiet. ASSUME NEW p \in Proc, ReloadLimits(p) \/ Start(p) \/ StopSignal(p)
          PROVE  UNCHANGED co
  BY <1>quiet DEF ReloadLimits, Start, StopSignal
<1> QED
  BY <1>own, <1>retry, <1>stop, <1>pick, <1>dispatch, <1>rest, <1>others, <1>quiet, MainLoopIsQuiet
     DEF WorkerNext, Environment, Own

-----------------------------------------------------------------------------
(* Who starts a row, and who takes it out of running.                      *)
Claims(p, t) == Claim(p) /\ proc'[p].hand = t /\ status[t] = "queued"
Retries(p, t) == RetryDownload(p) /\ RetryArtifactDownload(t)
Forgoes(p, t) == FailOrphan(p) /\ proc[p].pc = "sift" /\ t \in proc[p].orphans
Refuses(p, t) == (RefuseLane(p) \/ PutBack(p)) /\ proc[p].hand = t /\ proc'[p].hand = NoTask
RowMoves(t) ==
  \/ status'[t] = status[t]
  \/ status[t] \in {"absent", "queued"} /\ status'[t] # "running"
  \/ status'[t] = "running" /\ \E p \in Proc : Claims(p, t) \/ Retries(p, t)
  \/ status[t] = "running" /\ \/ \E p \in Proc : Refuses(p, t)
                              \/ \E p \in Proc : Forgoes(p, t) /\ status'[t] \in Terminal
                              \/ \E c \in CoId : Own(c) /\ Task(c) = t

(* A transaction that ends a row reaches beyond it only what is queued.    *)
LEMMA Fails ==
  ASSUME QueueTypeOK, NEW t \in TaskId, NEW u \in TaskId, u # t,
         (\E reason : TryMarkFailed(t, reason)) \/ TryInterrupt(t) \/ TryMarkSucceeded(t) \/ Requeue(t)
  PROVE  status'[u] = status[u] \/ (status[u] = "queued" /\ status'[u] \in Terminal)
<1> USE DEF QueueTypeOK, Terminal, queueVars, rowVars
<1>1. ASSUME NEW reason, TryMarkFailed(t, reason)
      PROVE  status'[u] = status[u] \/ (status[u] = "queued" /\ status'[u] \in Terminal)
  BY <1>1, BehindIsQueued DEF TryMarkFailed, MarkFailed, EndWithCascade
<1>2. CASE TryInterrupt(t)
  BY <1>2, BehindIsQueued DEF TryInterrupt, FinalizeInterrupted, EndWithCascade
<1>3. CASE TryMarkSucceeded(t) \/ Requeue(t)
  BY <1>3 DEF TryMarkSucceeded, MarkSucceeded, Requeue
<1> QED
  BY <1>1, <1>2, <1>3

LEMMA RowsMove ==
  ASSUME TypeInv, [WorkerNext]_vars, NEW t \in TaskId
  PROVE  RowMoves(t)
<1>1. CoType /\ ProcType /\ QueueTypeOK
  BY DEF TypeInv, WorkerTypeOK
<1> USE DEF RowMoves
<1>same. CASE status'[t] = status[t]
  BY <1>same
<1>waits. CASE status[t] \in {"absent", "queued"} /\ status'[t] # "running"
  BY <1>waits
<1>beyond. ASSUME status'[t] = status[t] \/ (status[t] = "queued" /\ status'[t] \in Terminal)
           PROVE  RowMoves(t)
  BY <1>beyond DEF Terminal
<1>ends. ASSUME NEW u \in TaskId, u # t,
                (\E reason : TryMarkFailed(u, reason)) \/ TryInterrupt(u) \/ TryMarkSucceeded(u) \/ Requeue(u)
         PROVE  RowMoves(t)
  BY <1>1, <1>ends, <1>beyond, Fails
<1>leaves. ASSUME \/ \E reason \in Reasons : TryMarkFailed(t, reason)
                  \/ TryInterrupt(t) \/ TryMarkSucceeded(t) \/ Requeue(t)
           PROVE  status'[t] = status[t] \/ (status[t] \in Active /\ status'[t] # "running")
  BY <1>1, <1>leaves DEF TryMarkFailed, MarkFailed, EndWithCascade, TryInterrupt, FinalizeInterrupted,
     TryMarkSucceeded, MarkSucceeded, Requeue, QueueTypeOK, queueVars, rowVars, Active
<1>own. ASSUME NEW c \in CoId, Own(c)
        PROVE  RowMoves(t)
  <2>1. Task(c) \in TaskId /\ co[c].why \in Reasons /\ Live(c)
    <3>1. co[c].kind # "idle"
      BY <1>own, RunsMove, ResumesMove DEF Own
    <3> QED
      BY <1>1, <3>1 DEF CoType, Coroutine, Idle, Task, Live, Reasons
  <2>2. \/ UNCHANGED status
        \/ \E reason \in Reasons : TryMarkFailed(Task(c), reason)
        \/ TryInterrupt(Task(c)) \/ TryMarkSucceeded(Task(c)) \/ Requeue(Task(c))
    <3> USE DEF queueVars, rowVars
    <3>1. CASE RunStep(c)
      BY <2>1, <3>1 DEF RunStep, Drift, GiveBack, Reject, EnterBracket, Checkpoint, Submit,
           Refused, KeepJob, Answer, CloseBracket, Land, RunFails, RunQuits, RecordProvider, OpenCall,
           PersistCheckpoint, PersistJob, FinishCall, Reasons
    <3>2. CASE ResumeStep(c)
      BY <2>1, <3>2 DEF ResumeStep, RegisterRetry, GiveUp, BeginResume, LookUpCall, ResumeAnswer,
           ResumeSettles, ResumeLands, ResumeFails, ResumeEnds, ResumeQuits, TryFinalize, FinalizePending, Reasons
    <3>3. CASE RunTornDown(c) \/ ResumeTornDown(c)
      BY <3>3 DEF RunTornDown, ResumeTornDown
    <3> QED
      BY <1>own, <3>1, <3>2, <3>3 DEF Own
  <2>3. CASE Task(c) = t
    BY <1>own, <1>leaves, <2>2, <2>3 DEF Active
  <2>4. CASE Task(c) # t
    BY <1>ends, <2>1, <2>2, <2>4
  <2> QED
    BY <2>3, <2>4
<1>hand. ASSUME NEW p \in Proc, RefuseLane(p) \/ PutBack(p)
         PROVE  RowMoves(t)
  <2>1. PICK u \in TaskId : /\ proc[p].hand = u /\ proc'[p].hand = NoTask
                            /\ TryMarkFailed(u, "error") \/ Requeue(u) \/ UNCHANGED queueVars
    BY <1>1, <1>hand DEF RefuseLane, PutBack, InHand, HandEmptied, ProcType, ProcState
  <2>2. CASE u = t
    BY <1>hand, <1>leaves, <2>1, <2>2 DEF Reasons, Refuses, Active, queueVars, rowVars
  <2>3. CASE u # t
    BY <1>ends, <2>1, <2>3 DEF queueVars, rowVars
  <2> QED
    BY <2>2, <2>3
<1>orphan. ASSUME NEW p \in Proc, FailOrphan(p)
           PROVE  RowMoves(t)
  <2>1. PICK u \in proc[p].orphans : TryMarkFailed(u, "lost") /\ proc[p].pc = "sift" /\ u \in TaskId
    BY <1>1, <1>orphan DEF FailOrphan, AtLoop, ProcType, ProcState
  <2>2. CASE u = t
    <3>1. UNCHANGED status \/ (status[t] = "running" /\ status'[t] = "failed")
      BY <1>1, <2>1, <2>2 DEF TryMarkFailed, MarkFailed, EndWithCascade, QueueTypeOK, queueVars, rowVars
    <3> QED
      BY <1>orphan, <2>1, <2>2, <3>1 DEF Forgoes, Terminal
  <2>3. CASE u # t
    BY <1>ends, <2>1, <2>3
  <2> QED
    BY <2>2, <2>3
<1>claim. ASSUME NEW p \in Proc, Claim(p)
          PROVE  RowMoves(t)
  <2>1. PICK u \in TaskId : /\ status[u] = "queued" /\ status' = [status EXCEPT ![u] = "running"]
                            /\ proc'[p].hand = u
    <3>1. PICK lane \in WorkLane, u \in TaskId :
            /\ ClaimNext(u, lane, PoolFull(p, lane))
            /\ proc' = [proc EXCEPT
                 ![p].hand = u,
                 ![p].prov = IF prov[u] \in Provider /\ Capacity(p, prov[u], lane) > 0
                             THEN prov[u] ELSE NoProvider]
      BY <1>claim DEF Claim
    <3>2. proc'[p].hand = u
      BY <1>1, <3>1 DEF ProcType, ProcState
    <3> QED
      BY <3>1, <3>2 DEF ClaimNext, Claimable
  <2> QED
    BY <1>1, <1>claim, <2>1 DEF QueueTypeOK, Claims
<1>retry. ASSUME NEW p \in Proc, RetryDownload(p)
          PROVE  RowMoves(t)
  BY ZenonT(40), <1>1, <1>retry DEF RetryDownload, RetryArtifactDownload, Retries, QueueTypeOK
<1>users. ASSUME UserEnqueue \/ UserCancel
          PROVE  RowMoves(t)
  BY <1>1, <1>users, BehindIsQueued DEF UserEnqueue, UserCancel, Enqueue, CancelTask, CancelAllQueued,
     EndWithCascade, QueueTypeOK
<1> HIDE DEF RowMoves
<1>rest. ASSUME Reconfigure \/ LeaseExpires \/ UNCHANGED vars
                \/ \E p \in Proc : \/ ReloadLimits(p) \/ Start(p) \/ Crash(p) \/ StopSignal(p) \/ StopDone(p)
                                   \/ Heartbeat(p) \/ ScanList(p) \/ ScanActive(p) \/ DispatchOrphan(p)
                                   \/ ScanDone(p) \/ Settle(p) \/ LaneEmpty(p) \/ ProjectProvider(p) \/ Dispatch(p)
         PROVE  UNCHANGED status
  <2> USE DEF queueVars, rowVars
  <2>1. CASE Reconfigure \/ LeaseExpires \/ UNCHANGED vars
    BY <2>1 DEF Reconfigure, LeaseExpires, vars
  <2>2. ASSUME NEW p \in Proc, ReloadLimits(p) \/ Start(p) \/ Crash(p) \/ StopSignal(p) \/ StopDone(p)
        PROVE  UNCHANGED status
    BY <2>2 DEF ReloadLimits, Start, Crash, StopSignal, StopDone
  <2>3. ASSUME NEW p \in Proc, \/ Heartbeat(p) \/ ScanList(p) \/ ScanActive(p) \/ DispatchOrphan(p)
                               \/ ScanDone(p) \/ Settle(p) \/ LaneEmpty(p) \/ ProjectProvider(p) \/ Dispatch(p)
        PROVE  UNCHANGED status
    BY <2>3 DEF Heartbeat, ScanList, ScanActive, DispatchOrphan, ScanDone, Settle, SettleInterrupted,
       LaneEmpty, ProjectProvider, RecordProvider, Dispatch
  <2> QED
    BY <1>rest, <2>1, <2>2, <2>3
<1> QED
  BY <1>same, <1>own, <1>hand, <1>orphan, <1>claim, <1>retry, <1>users, <1>rest
     DEF WorkerNext, Environment, MainLoop, Own

(* Who touches the call of a task.                                         *)
CallMoves(t) ==
  \/ call'[t] = call[t]
  \/ call[t] = "pending" /\ call'[t] # "pending" /\ status[t] \in Terminal
  \/ \E p \in Proc : Retries(p, t)
  \/ \E c \in CoId : Own(c) /\ Task(c) = t

LEMMA CallsMove ==
  ASSUME TypeInv, [WorkerNext]_vars, NEW t \in TaskId
  PROVE  CallMoves(t)
<1>1. CoType /\ ProcType /\ QueueTypeOK
  BY DEF TypeInv, WorkerTypeOK
<1> USE DEF CallMoves
<1>same. CASE call'[t] = call[t]
  BY <1>same
<1>closed. CASE call[t] = "pending" /\ call'[t] # "pending" /\ status[t] \in Terminal
  BY <1>closed
<1>own. ASSUME NEW c \in CoId, Own(c), Task(c) = t
        PROVE  CallMoves(t)
  BY <1>own
<1> HIDE DEF CallMoves
<1>run. ASSUME NEW c \in CoId, RunStep(c) \/ RunTornDown(c)
        PROVE  CallMoves(t)
  <2>1. CASE Task(c) # t
    <3>1. UNCHANGED call \/ \E x : call' = [call EXCEPT ![Task(c)] = x]
      BY <1>run, RunsPath DEF RunPath
    <3> QED
      BY <1>1, <1>same, <2>1, <3>1 DEF QueueTypeOK
  <2> QED
    BY <1>run, <1>own, <2>1 DEF Own
<1>resume. ASSUME NEW c \in CoId, ResumeStep(c) \/ ResumeTornDown(c)
           PROVE  CallMoves(t)
  <2>1. SettlesAtMost(Task(c)) \/ UNCHANGED call
    BY <1>resume, ResumesPath DEF ResumePath
  <2> QED
    BY <1>resume, <1>own, <1>same, <2>1 DEF SettlesAtMost, Own
<1> USE DEF CallMoves
<1>retry. ASSUME NEW p \in Proc, RetryDownload(p)
          PROVE  CallMoves(t)
  <2>1. PICK u \in TaskId : RetryArtifactDownload(u)
    BY <1>retry DEF RetryDownload
  <2>2. CASE u = t
    BY <1>retry, <2>1, <2>2 DEF Retries
  <2>3. CASE u # t
    BY <1>1, <2>1, <2>3 DEF RetryArtifactDownload, QueueTypeOK
  <2> QED
    BY <2>2, <2>3
<1>settle. ASSUME NEW p \in Proc, Settle(p)
           PROVE  CallMoves(t)
  BY <1>1, <1>settle DEF Settle, SettleInterrupted
<1> HIDE DEF CallMoves
<1>rest. ASSUME UserEnqueue \/ UserCancel \/ Reconfigure \/ LeaseExpires \/ UNCHANGED vars
                \/ \E p \in Proc : \/ ReloadLimits(p) \/ Start(p) \/ Crash(p) \/ StopSignal(p) \/ StopDone(p)
                                   \/ Heartbeat(p) \/ ScanList(p) \/ ScanActive(p) \/ FailOrphan(p)
                                   \/ DispatchOrphan(p) \/ ScanDone(p) \/ Claim(p) \/ LaneEmpty(p)
                                   \/ ProjectProvider(p) \/ RefuseLane(p) \/ PutBack(p) \/ Dispatch(p)
         PROVE  UNCHANGED call
  <2> USE DEF queueVars
  <2>1. CASE UserEnqueue \/ UserCancel \/ Reconfigure \/ LeaseExpires \/ UNCHANGED vars
    BY <2>1 DEF UserEnqueue, UserCancel, Enqueue, CancelTask, CancelAllQueued, Reconfigure, LeaseExpires, vars
  <2>2. ASSUME NEW p \in Proc, ReloadLimits(p) \/ Start(p) \/ Crash(p) \/ StopSignal(p) \/ StopDone(p)
        PROVE  UNCHANGED call
    BY SMTT(30), <2>2 DEF ReloadLimits, Start, Crash, StopSignal, StopDone
  <2>3. ASSUME NEW p \in Proc, \/ Heartbeat(p) \/ ScanList(p) \/ ScanActive(p) \/ FailOrphan(p)
                               \/ DispatchOrphan(p) \/ ScanDone(p) \/ Claim(p) \/ LaneEmpty(p)
        PROVE  UNCHANGED call
    BY <2>3 DEF Heartbeat, ScanList, ScanActive, FailOrphan, TryMarkFailed, MarkFailed, DispatchOrphan,
       ScanDone, Claim, ClaimNext, LaneEmpty
  <2>4. ASSUME NEW p \in Proc, ProjectProvider(p) \/ RefuseLane(p) \/ PutBack(p) \/ Dispatch(p)
        PROVE  UNCHANGED call
    BY <2>4 DEF ProjectProvider, RecordProvider, RefuseLane, TryMarkFailed, MarkFailed, PutBack, Requeue, Dispatch
  <2> QED
    BY <1>rest, <2>1, <2>2, <2>3, <2>4
<1> QED
  BY <1>same, <1>run, <1>resume, <1>retry, <1>settle, <1>rest
     DEF WorkerNext, Environment, MainLoop

-----------------------------------------------------------------------------
(* How the main loop of a process goes: what stays of its place, its scan  *)
(* and what it holds.                                                      *)
PlaceStays(p) ==
  /\ proc'[p].pc = proc[p].pc /\ proc'[p].scan = proc[p].scan /\ proc'[p].hand = proc[p].hand
  /\ proc'[p].orphans = proc[p].orphans /\ proc'[p].ready = proc[p].ready
Running == {t \in TaskId : status[t] = "running"}
Turns(p) ==
  \/ /\ Heartbeat(p) /\ proc[p].pc = "lease" /\ proc'[p].scan \in {proc[p].scan, TRUE}
     /\ \/ proc'[p].pc = "lease"
        \/ proc'[p].pc = "list" /\ proc'[p].scan
        \/ proc'[p].pc = "image" /\ ~proc'[p].scan
     /\ proc'[p].hand = proc[p].hand /\ proc'[p].orphans = proc[p].orphans /\ proc'[p].ready = proc[p].ready
  \/ /\ ScanList(p) /\ proc[p].pc = "list" /\ proc'[p].scan = proc[p].scan /\ proc'[p].hand = proc[p].hand
     /\ proc'[p].orphans = Running /\ proc'[p].ready \subseteq Running
     /\ IF Running = {} THEN proc'[p].pc = "settle" ELSE proc'[p].pc = "active"
  \/ /\ ScanActive(p) /\ proc[p].pc = "active" /\ proc'[p].pc = "sift"
     /\ proc'[p].scan = proc[p].scan /\ proc'[p].hand = proc[p].hand
     /\ proc'[p].orphans = proc[p].orphans \ ActiveTasks(p)
     /\ proc'[p].ready = proc[p].ready \ ActiveTasks(p)
  \/ /\ FailOrphan(p) \/ DispatchOrphan(p)
     /\ proc[p].pc = "sift" /\ proc'[p].pc = "sift"
     /\ proc'[p].scan = proc[p].scan /\ proc'[p].hand = proc[p].hand
     /\ \E t \in proc[p].orphans :
          /\ proc'[p].orphans = proc[p].orphans \ {t}
          /\ \/ FailOrphan(p) /\ TryMarkFailed(t, "lost") /\ proc'[p].ready = proc[p].ready /\ t \notin proc[p].ready
             \/ /\ DispatchOrphan(p) /\ proc'[p].ready = proc[p].ready \ {t} /\ t \in proc[p].ready
                /\ proc[p].up = "up" => \E c \in CoId : PickedUp(c, p) /\ co'[c].task = t
  \/ /\ ScanDone(p) /\ proc[p].pc = "sift" /\ proc[p].orphans = {} /\ proc'[p].pc = "settle"
     /\ proc'[p].scan = proc[p].scan /\ proc'[p].hand = proc[p].hand
     /\ proc'[p].orphans = proc[p].orphans /\ proc'[p].ready = proc[p].ready
  \/ /\ Settle(p) /\ proc[p].pc = "settle" /\ proc'[p].pc = "image" /\ ~proc'[p].scan
     /\ proc'[p].hand = proc[p].hand /\ proc'[p].orphans = proc[p].orphans /\ proc'[p].ready = proc[p].ready
  \/ /\ Claim(p) /\ proc[p].pc \in WorkLane /\ proc'[p].pc = proc[p].pc /\ proc[p].hand = NoTask
     /\ proc'[p].hand \in TaskId /\ Claims(p, proc'[p].hand)
     /\ proc'[p].scan = proc[p].scan /\ proc'[p].orphans = proc[p].orphans /\ proc'[p].ready = proc[p].ready
  \/ /\ LaneEmpty(p) /\ proc[p].pc \in WorkLane /\ proc[p].hand = NoTask /\ proc'[p].hand = NoTask
     /\ proc'[p].pc \in {"video", "lease"}
     /\ proc'[p].scan = proc[p].scan /\ proc'[p].orphans = proc[p].orphans /\ proc'[p].ready = proc[p].ready
  \/ /\ RefuseLane(p) \/ PutBack(p) \/ Dispatch(p)
     /\ proc[p].hand # NoTask /\ proc'[p].hand = NoTask /\ proc'[p].pc = proc[p].pc
     /\ proc'[p].scan = proc[p].scan /\ proc'[p].orphans = proc[p].orphans /\ proc'[p].ready = proc[p].ready
ProcMoves(p) ==
  \/ Stops(p) /\ proc'[p] = Down
  \/ Start(p) /\ proc'[p] = [Down EXCEPT !.up = "up"] /\ proc[p].up = "down"
  \/ PlaceStays(p) /\ proc'[p].up \in {proc[p].up, "stopping"} /\ (proc'[p].up # proc[p].up => proc[p].up = "up")
  \/ Turns(p) /\ proc'[p].up = proc[p].up /\ proc[p].up # "down"

LEMMA ProcessesMove ==
  ASSUME TypeInv, [WorkerNext]_vars, NEW p \in Proc
  PROVE  ProcMoves(p)
<1>1. CoType /\ ProcType
  BY DEF TypeInv, WorkerTypeOK
<1>2. proc \in [Proc -> ProcState] /\ proc[p] \in ProcState
  BY <1>1 DEF ProcType
<1>stays. ASSUME proc'[p] = proc[p]
          PROVE  ProcMoves(p)
  BY <1>stays DEF ProcMoves, PlaceStays
<1>other. ASSUME NEW q \in Proc, q # p, MainLoop(q)
          PROVE  proc'[p] = proc[p]
  <2>0. CASE ScanList(q)
    <3>1. \E a, b, c : proc' = [proc EXCEPT ![q].orphans = a, ![q].ready = b, ![q].round = @ + 1, ![q].pc = c]
      BY <2>0, Zenon DEF ScanList
    <3> HIDE <2>0
    <3> QED
      BY <1>2, <1>other, <3>1
  <2>1. CASE Heartbeat(q)
    <3>1. PICK scan : proc' = [proc EXCEPT
              ![q].owns = MayHold(q),
              ![q].lost = ~MayHold(q) /\ (@ \/ proc[q].owns),
              ![q].scan = scan,
              ![q].pc = IF ~MayHold(q) THEN "lease" ELSE IF scan THEN "list" ELSE "image"]
      BY <2>1, Zenon DEF Heartbeat
    <3> HIDE <2>1
    <3> QED
      BY <1>2, <1>other, <3>1
  <2>2. CASE ScanActive(q) \/ FailOrphan(q) \/ ScanDone(q) \/ Settle(q) \/ LaneEmpty(q)
    BY <1>2, <1>other, <2>2 DEF ScanActive, FailOrphan, ScanDone, Settle, LaneEmpty
  <2>orphan. CASE DispatchOrphan(q)
    BY <1>2, <1>other, <2>orphan DEF DispatchOrphan
  <2>4. CASE Claim(q)
    BY <1>2, <1>other, <2>4 DEF Claim
  <2>5. CASE ProjectProvider(q) \/ RefuseLane(q)
    BY <1>2, <1>other, <2>5 DEF ProjectProvider, RefuseLane, HandEmptied
  <2>6. CASE PutBack(q) \/ Dispatch(q)
    <3>1. HandEmptied(q)
      BY <2>6, Zenon DEF PutBack, Dispatch
    <3> QED
      BY <1>2, <1>other, <3>1 DEF HandEmptied
  <2> QED
    BY <1>other, <2>0, <2>1, <2>2, <2>orphan, <2>4, <2>5, <2>6 DEF MainLoop
<1>environment. ASSUME NEW q \in Proc, ReloadLimits(q) \/ Start(q) \/ Crash(q) \/ StopSignal(q) \/ StopDone(q)
                PROVE  ProcMoves(p)
  <2>1. CASE q # p
    BY <1>2, <1>environment, <1>stays, <2>1 DEF ReloadLimits, Start, Crash, StopSignal, StopDone, Gone
  <2>2. CASE Crash(p) \/ StopDone(p)
    BY <1>2, <2>2 DEF Crash, StopDone, Gone, ProcMoves, Stops
  <2>3. CASE Start(p)
    BY <1>2, <2>3 DEF Start, ProcMoves
  <2>4. CASE ReloadLimits(p) \/ StopSignal(p)
    BY <1>2, <2>4 DEF ReloadLimits, StopSignal, ProcMoves, PlaceStays, ProcState
  <2> QED
    BY <1>environment, <2>1, <2>2, <2>3, <2>4
<1>turns. ASSUME Turns(p), proc'[p].up = proc[p].up, proc[p].up # "down"
          PROVE  ProcMoves(p)
  BY <1>turns DEF ProcMoves
<1>heartbeat. CASE Heartbeat(p)
  <2>1. PICK scan \in {proc[p].scan, TRUE} :
          /\ proc' = [proc EXCEPT
              ![p].owns = MayHold(p),
              ![p].lost = ~MayHold(p) /\ (@ \/ proc[p].owns),
              ![p].scan = scan,
              ![p].pc = IF ~MayHold(p) THEN "lease" ELSE IF scan THEN "list" ELSE "image"]
    BY <1>heartbeat DEF Heartbeat
  <2>2. /\ proc'[p].scan = scan
        /\ proc'[p].pc = IF ~MayHold(p) THEN "lease" ELSE IF scan THEN "list" ELSE "image"
        /\ proc'[p].hand = proc[p].hand /\ proc'[p].orphans = proc[p].orphans /\ proc'[p].ready = proc[p].ready
        /\ proc'[p].up = proc[p].up
    BY <1>2, <2>1 DEF ProcState
  <2>3. scan \in BOOLEAN /\ proc[p].pc = "lease" /\ proc[p].up = "up"
    BY <1>2, <1>heartbeat DEF ProcState, Heartbeat, AtLoop
  <2>4. Turns(p)
    BY <1>heartbeat, <2>2, <2>3 DEF Turns
  <2> QED
    BY <1>turns, <2>2, <2>3, <2>4
<1>list. CASE ScanList(p)
  <2> DEFINE ready == {t \in Running : Lane(t) = "video" /\ t \in ckpts /\ t \in jobs /\ prov[t] \in Resumable}
             pc == IF Running = {} THEN "settle" ELSE "active"
  <2>1. /\ proc' = [proc EXCEPT ![p].orphans = Running, ![p].ready = ready, ![p].round = @ + 1, ![p].pc = pc]
        /\ proc[p].pc = "list" /\ proc[p].up # "down"
    <3>1. proc' = [proc EXCEPT ![p].orphans = Running, ![p].ready = ready, ![p].round = @ + 1, ![p].pc = pc]
      BY <1>list, Zenon DEF ScanList, Running
    <3> QED
      BY <1>list, <3>1, Zenon DEF ScanList, AtLoop
  <2>2. ready \subseteq Running
    OBVIOUS
  <2> HIDE DEF ready, pc
  <2>3. /\ proc'[p].orphans = Running /\ proc'[p].ready = ready /\ proc'[p].pc = pc
        /\ proc'[p].scan = proc[p].scan /\ proc'[p].hand = proc[p].hand /\ proc'[p].up = proc[p].up
    BY <1>2, <2>1 DEF ProcState
  <2>4. Turns(p)
    BY <1>list, <2>1, <2>2, <2>3 DEF Turns, pc
  <2> QED
    BY <1>turns, <2>1, <2>3, <2>4
<1>active. CASE ScanActive(p)
  <2>1. proc[p].pc = "active" /\ proc[p].up # "down"
    BY <1>active DEF ScanActive, AtLoop
  <2>2. /\ proc'[p].pc = "sift" /\ proc'[p].up = proc[p].up
        /\ proc'[p].scan = proc[p].scan /\ proc'[p].hand = proc[p].hand
        /\ proc'[p].orphans = proc[p].orphans \ ActiveTasks(p)
        /\ proc'[p].ready = proc[p].ready \ ActiveTasks(p)
    <3>1. proc' = [proc EXCEPT ![p].orphans = @ \ ActiveTasks(p), ![p].ready = @ \ ActiveTasks(p), ![p].pc = "sift"]
      BY <1>active DEF ScanActive
    <3> HIDE <1>active
    <3> QED
      BY <1>2, <3>1 DEF ProcState
  <2>3. Turns(p)
    BY <1>active, <2>1, <2>2 DEF Turns
  <2> QED
    BY <1>turns, <2>1, <2>2, <2>3
<1>done. CASE ScanDone(p)
  <2>1. /\ proc[p].pc = "sift" /\ proc[p].up # "down" /\ proc[p].orphans = {}
        /\ proc' = [proc EXCEPT ![p].pc = "settle"]
    BY <1>done DEF ScanDone, AtLoop
  <2>2. /\ proc'[p].pc = "settle" /\ proc'[p].up = proc[p].up
        /\ proc'[p].scan = proc[p].scan /\ proc'[p].hand = proc[p].hand
        /\ proc'[p].orphans = proc[p].orphans /\ proc'[p].ready = proc[p].ready
    BY <1>2, <2>1 DEF ProcState
  <2>3. Turns(p)
    BY <1>done, <2>1, <2>2 DEF Turns
  <2> QED
    BY <1>turns, <2>1, <2>2, <2>3
<1>settle. CASE Settle(p)
  <2>1. /\ proc[p].pc = "settle" /\ proc[p].up # "down"
        /\ proc' = [proc EXCEPT ![p].scan = FALSE, ![p].pc = "image"]
    BY <1>settle DEF Settle, AtLoop
  <2>2. /\ proc'[p].pc = "image" /\ proc'[p].up = proc[p].up
        /\ ~proc'[p].scan /\ proc'[p].hand = proc[p].hand
        /\ proc'[p].orphans = proc[p].orphans /\ proc'[p].ready = proc[p].ready
    BY <1>2, <2>1 DEF ProcState
  <2>3. Turns(p)
    BY <1>settle, <2>1, <2>2 DEF Turns
  <2> QED
    BY <1>turns, <2>1, <2>2, <2>3
<1>empty. CASE LaneEmpty(p)
  <2>1. PICK lane \in WorkLane :
          /\ proc[p].pc = lane /\ proc[p].up # "down" /\ proc[p].hand = NoTask
          /\ proc' = [proc EXCEPT ![p].pc = NextLane(lane)]
    BY <1>empty DEF LaneEmpty, AtLoop
  <2>2. NextLane(lane) \in {"video", "lease"}
    BY DEF NextLane
  <2> HIDE DEF NextLane
  <2>3. /\ proc'[p].pc = NextLane(lane) /\ proc'[p].up = proc[p].up
        /\ proc'[p].scan = proc[p].scan /\ proc'[p].hand = proc[p].hand
        /\ proc'[p].orphans = proc[p].orphans /\ proc'[p].ready = proc[p].ready
    BY <1>2, <2>1 DEF ProcState
  <2>4. Turns(p)
    BY <1>empty, <2>1, <2>2, <2>3 DEF Turns
  <2> QED
    BY <1>turns, <2>1, <2>3, <2>4
<1>fail. CASE FailOrphan(p)
  <2>1. PICK t \in proc[p].orphans \ proc[p].ready :
          /\ proc[p].pc = "sift" /\ proc[p].up # "down" /\ TryMarkFailed(t, "lost")
          /\ proc' = [proc EXCEPT ![p].orphans = @ \ {t}]
    BY <1>fail DEF FailOrphan, AtLoop
  <2>2. /\ proc'[p].orphans = proc[p].orphans \ {t} /\ proc'[p].ready = proc[p].ready /\ proc'[p].pc = "sift"
        /\ proc'[p].scan = proc[p].scan /\ proc'[p].hand = proc[p].hand /\ proc'[p].up = proc[p].up
    BY <1>2, <2>1 DEF ProcState
  <2>3. Turns(p)
    BY <1>fail, <2>1, <2>2 DEF Turns
  <2> QED
    BY <1>turns, <2>1, <2>2, <2>3
<1>pick. CASE DispatchOrphan(p)
  <2>1. PICK t \in proc[p].ready, c \in CoId :
          /\ proc[p].pc = "sift" /\ proc[p].up # "down" /\ proc[p].orphans = proc[p].ready /\ FreshCo(c)
          /\ \/ /\ proc[p].up = "up"
                /\ DispatchTo(p, t, prov[t], c, proc[p].round)
                /\ proc' = [proc EXCEPT ![p].orphans = @ \ {t}, ![p].ready = @ \ {t},
                                        ![p].table = Refreshed(p, prov[t])]
             \/ /\ proc[p].up = "stopping"
                /\ proc' = [proc EXCEPT ![p].orphans = @ \ {t}, ![p].ready = @ \ {t}]
    BY <1>pick DEF DispatchOrphan, AtLoop
  <2>2. /\ proc'[p].orphans = proc[p].orphans \ {t} /\ proc'[p].ready = proc[p].ready \ {t} /\ proc'[p].pc = "sift"
        /\ proc'[p].scan = proc[p].scan /\ proc'[p].hand = proc[p].hand /\ proc'[p].up = proc[p].up
    BY <1>2, <2>1 DEF ProcState
  <2>3. ASSUME proc[p].up = "up" PROVE PickedUp(c, p) /\ co'[c].task = t
    <3>1. DispatchTo(p, t, prov[t], c, proc[p].round)
      BY <2>1, <2>3
    <3> DEFINE it(ph) == [Idle EXCEPT !.proc = p, !.task = t, !.prov = prov[t],
                            !.kind = "resume", !.group = proc[p].round,
                            !.cap = Refreshed(p, prov[t])[prov[t]]["video"], !.ph = ph]
    <3>2. PICK ph \in {"giveup", "wait"} : co' = [co EXCEPT ![c] = it(ph)]
      BY <3>1 DEF DispatchTo, Idle
    <3>3. /\ it(ph).kind = "resume" /\ it(ph).task = t /\ it(ph).proc = p /\ it(ph).prov = prov[t]
          /\ it(ph).group = proc[p].round /\ it(ph).ph = ph
      BY DEF Idle
    <3> HIDE DEF it
    <3>4. co'[c] = it(ph)
      BY <1>1, <3>2 DEF CoType
    <3> QED
      BY <1>pick, <2>1, <2>2, <2>3, <3>3, <3>4 DEF PickedUp
  <2>4. (\E d \in CoId : PickedUp(d, p) /\ co'[d].task = t) \/ proc[p].up # "up"
    BY <2>1, <2>3
  <2>5. Turns(p)
    BY <1>pick, <2>1, <2>2, <2>3 DEF Turns
  <2> QED
    BY <1>turns, <2>1, <2>2, <2>5
<1>claim. CASE Claim(p)
  <2>1. PICK lane \in WorkLane, t \in TaskId :
          /\ proc[p].pc = lane /\ proc[p].up # "down" /\ proc[p].hand = NoTask
          /\ ClaimNext(t, lane, PoolFull(p, lane))
          /\ proc' = [proc EXCEPT
               ![p].hand = t,
               ![p].prov = IF prov[t] \in Provider /\ Capacity(p, prov[t], lane) > 0
                           THEN prov[t] ELSE NoProvider]
    BY <1>claim DEF Claim, AtLoop
  <2>2. /\ proc'[p].hand = t /\ proc'[p].pc = proc[p].pc /\ proc'[p].scan = proc[p].scan
        /\ proc'[p].orphans = proc[p].orphans /\ proc'[p].ready = proc[p].ready /\ proc'[p].up = proc[p].up
    BY <1>2, <2>1 DEF ProcState
  <2>3. Claims(p, proc'[p].hand)
    BY <1>claim, <2>1, <2>2 DEF Claims, ClaimNext, Claimable
  <2>4. Turns(p)
    BY <1>claim, <2>1, <2>2, <2>3 DEF Turns
  <2> QED
    BY <1>turns, <2>1, <2>2, <2>4
<1>provider. CASE ProjectProvider(p)
  <2>1. PlaceStays(p) /\ proc'[p].up = proc[p].up
    BY <1>2, <1>provider DEF ProjectProvider, PlaceStays, ProcState
  <2> QED
    BY <2>1 DEF ProcMoves
<1>empties. CASE RefuseLane(p) \/ PutBack(p) \/ Dispatch(p)
  <2>1. proc[p].hand # NoTask /\ proc[p].up # "down" /\ HandEmptied(p)
    <3>1. PICK t \in TaskId : InHand(p, t) /\ HandEmptied(p)
      BY <1>empties, Zenon DEF RefuseLane, PutBack, Dispatch
    <3>2. t # NoTask
      BY DEF TaskId, NoTask
    <3> QED
      BY <3>1, <3>2 DEF InHand
  <2>2. /\ proc'[p].hand = NoTask /\ proc'[p].pc = proc[p].pc /\ proc'[p].scan = proc[p].scan
        /\ proc'[p].orphans = proc[p].orphans /\ proc'[p].ready = proc[p].ready /\ proc'[p].up = proc[p].up
    BY <1>2, <2>1 DEF HandEmptied, ProcState
  <2>3. Turns(p)
    BY <1>empties, <2>1, <2>2 DEF Turns
  <2> QED
    BY <1>turns, <2>1, <2>2, <2>3
<1>retry. ASSUME NEW c \in CoId, ResumeStep(c) \/ ResumeTornDown(c)
          PROVE  ProcMoves(p)
  <2>1. CASE UNCHANGED proc
    BY <1>stays, <2>1
  <2>2. CASE RegisterRetry(c)
    <3>1. UNCHANGED proc \/ proc' = [proc EXCEPT ![co[c].proc].table = Refreshed(co[c].proc, co[c].prov)]
      BY <2>2 DEF RegisterRetry
    <3>2. PlaceStays(p) /\ proc'[p].up = proc[p].up
      BY <1>2, <3>1 DEF PlaceStays, ProcState
    <3> QED
      BY <3>2 DEF ProcMoves
  <2> QED
    BY <1>retry, <2>1, <2>2, ResumesAreQuiet
<1>same. CASE UNCHANGED proc
  BY <1>same, <1>stays
<1>rest. UserEnqueue \/ UserCancel \/ Reconfigure \/ LeaseExpires \/ UNCHANGED vars => UNCHANGED proc
  BY DEF UserEnqueue, UserCancel, Reconfigure, LeaseExpires, workerVars, vars
<1>download. ASSUME NEW q \in Proc, RetryDownload(q)
             PROVE  UNCHANGED proc
  BY <1>download DEF RetryDownload
<1>own. ASSUME MainLoop(p)
        PROVE  ProcMoves(p)
  BY <1>own, <1>heartbeat, <1>list, <1>active, <1>fail, <1>pick, <1>claim, <1>provider, <1>empties, <1>done, <1>settle, <1>empty DEF MainLoop
<1>loop. ASSUME NEW q \in Proc, MainLoop(q)
         PROVE  ProcMoves(p)
  BY <1>loop, <1>own, <1>other, <1>stays
<1> QED
  BY <1>environment, <1>loop, <1>retry, <1>same, <1>rest, <1>download, RunsAreQuiet
     DEF WorkerNext, Environment

-----------------------------------------------------------------------------
(* What happens to the slot table of a process: it is lost with the        *)
(* process, drained, given an occupant for what is dispatched, rid of the  *)
(* occupants of a resume that ends, or told that a resume has begun.       *)
Seats(p, c) ==
  /\ co'[c].proc = p
  /\ \/ Begins(c, p) /\ Unused(c)
     \/ RegisterRetry(c) /\ co[c].ph = "dispatch" /\ Live(c) /\ Same(c)
  /\ \E b \in BOOLEAN :
       slots'[p] = Vacated(p, co'[c].task, co'[c].prov)
                     \cup {[task |-> co'[c].task, prov |-> co'[c].prov, co |-> c, pending |-> b]}
Unseats(p, c) ==
  /\ co[c].proc = p /\ co[c].kind = "resume" /\ Own(c) /\ End(c)
  /\ co[c].ph \in {"wait", "land", "settle", "drop"}
  /\ slots'[p] = Vacated(p, Task(c), co[c].prov)
SetsOut(p, c) ==
  /\ co[c].proc = p /\ BeginResume(c) /\ Go(c, "look")
  /\ slots'[p] = {IF s.task = Task(c) /\ s.prov = co[c].prov
                  THEN [s EXCEPT !.pending = FALSE] ELSE s : s \in slots[p]}
SlotMoves(p) ==
  \/ slots'[p] = slots[p]
  \/ Stops(p) /\ slots'[p] = {}
  \/ Heartbeat(p) /\ slots'[p] = Undrained(p)
  \/ \E c \in CoId : Seats(p, c) \/ Unseats(p, c) \/ SetsOut(p, c)

LEMMA SlotsMove ==
  ASSUME TypeInv, [WorkerNext]_vars, NEW p \in Proc
  PROVE  SlotMoves(p)
<1>1. SlotsType /\ CoType /\ ProcType
  BY DEF TypeInv, WorkerTypeOK
<1>same. CASE slots'[p] = slots[p]
  BY <1>same DEF SlotMoves
<1>other. ASSUME NEW q \in Proc, q # p, NEW S, slots' = [slots EXCEPT ![q] = S]
          PROVE  slots'[p] = slots[p]
  BY <1>1, <1>other DEF SlotsType
<1>set. ASSUME NEW S, slots' = [slots EXCEPT ![p] = S]
        PROVE  slots'[p] = S
  BY <1>1, <1>set DEF SlotsType
<1>begins. ASSUME NEW q \in Proc, NEW c \in CoId, ~Live(c), co'[c].proc = q, co'[c].kind # "idle"
           PROVE  Begins(c, q)
  <2>1. ~Own(c)
    BY <1>begins, RunsMove, ResumesMove DEF Own, Live, Idle
  <2>2. co'[c] # co[c]
    BY <1>begins DEF Live, Idle
  <2> QED
    BY <1>begins, <2>1, <2>2, CoroutinesMove DEF CoMoves, Begins, Retried, PickedUp, SentOff
<1>seat. ASSUME NEW q \in Proc, NEW c \in CoId, NEW b \in BOOLEAN, Begins(c, q), Unused(c), co'[c].proc = q,
                slots' = [slots EXCEPT ![q] = Vacated(q, co'[c].task, co'[c].prov)
                     \cup {[task |-> co'[c].task, prov |-> co'[c].prov, co |-> c, pending |-> b]}]
         PROVE  SlotMoves(p)
  BY <1>seat, <1>same, <1>other, <1>set DEF SlotMoves, Seats
<1>release. ASSUME NEW c \in CoId, co[c].proc \in Proc, co[c].kind = "resume", Own(c), End(c), ReleaseSlot(c),
                   co[c].ph \in {"wait", "land", "settle", "drop"}
            PROVE  SlotMoves(p)
  BY <1>release, <1>same, <1>other, <1>set DEF SlotMoves, Unseats, ReleaseSlot
<1>stop. ASSUME NEW q \in Proc, Stops(q)
         PROVE  SlotMoves(p)
  <2>1. slots' = [slots EXCEPT ![q] = {}]
    BY <1>stop DEF Stops, Crash, StopDone, Gone
  <2> QED
    BY <1>stop, <1>same, <1>other, <1>set, <2>1 DEF SlotMoves
<1>drain. ASSUME NEW q \in Proc, Heartbeat(q)
          PROVE  SlotMoves(p)
  <2>1. slots' = [slots EXCEPT ![q] = Undrained(q)]
    BY <1>drain, Zenon DEF Heartbeat
  <2> QED
    BY <1>drain, <1>same, <1>other, <1>set, <2>1 DEF SlotMoves
<1>pick. ASSUME NEW q \in Proc, DispatchOrphan(q)
         PROVE  SlotMoves(p)
  <2>1. CASE UNCHANGED slots
    BY <1>same, <2>1
  <2>2. CASE ~UNCHANGED slots
    <3>1. PICK t \in proc[q].ready, c \in CoId :
            /\ FreshCo(c) /\ DispatchTo(q, t, prov[t], c, proc[q].round)
      BY <1>pick, <2>2 DEF DispatchOrphan
    <3> DEFINE it == [Idle EXCEPT !.proc = q, !.task = t, !.prov = prov[t], !.kind = "resume",
                        !.group = proc[q].round, !.cap = Refreshed(q, prov[t])[prov[t]]["video"],
                        !.ph = "wait"]
    <3>2. Register(q, t, prov[t], c, TRUE) /\ co' = [co EXCEPT ![c] = it]
      BY <2>2, <3>1 DEF DispatchTo, Idle
    <3>3. it.kind = "resume" /\ it.proc = q /\ it.task = t /\ it.prov = prov[t]
      BY DEF Idle
    <3> HIDE DEF it
    <3>4. co'[c] = it /\ Unused(c)
      BY <1>1, <3>1, <3>2 DEF CoType, FreshCo
    <3>5. Begins(c, q)
      BY <1>begins, <3>3, <3>4 DEF Unused
    <3> QED
      BY <1>seat, <3>2, <3>3, <3>4, <3>5 DEF Register
  <2> QED
    BY <2>1, <2>2
<1>dispatch. ASSUME NEW q \in Proc, Dispatch(q)
             PROVE  SlotMoves(p)
  <2>1. PICK t \in TaskId, c \in CoId :
          /\ FreshCo(c) /\ Register(q, t, proc[q].prov, c, FALSE)
          /\ co' = [co EXCEPT ![c] = [Idle EXCEPT !.proc = q, !.task = t, !.prov = proc[q].prov,
                                                  !.kind = "run", !.ph = "exec"]]
    BY <1>dispatch, Zenon DEF Dispatch
  <2> DEFINE r == [Idle EXCEPT !.proc = q, !.task = t, !.prov = proc[q].prov, !.kind = "run", !.ph = "exec"]
  <2>2. r.kind = "run" /\ r.task = t /\ r.proc = q /\ r.prov = proc[q].prov
    BY DEF Idle
  <2>3. co' = [co EXCEPT ![c] = r]
    BY <2>1
  <2> HIDE DEF r
  <2>4. co'[c] = r /\ Unused(c)
    BY <1>1, <2>1, <2>3 DEF CoType, FreshCo
  <2>5. Begins(c, q)
    BY <1>begins, <2>2, <2>4 DEF Unused
  <2> QED
    BY <1>seat, <2>1, <2>2, <2>4, <2>5 DEF Register
<1>register. ASSUME NEW c \in CoId, RegisterRetry(c)
             PROVE  SlotMoves(p)
  <2>1. co[c] \in Coroutine /\ Live(c) /\ co[c].ph = "dispatch"
    BY <1>1, <1>register DEF RegisterRetry, Resume, CoType, Idle, Live
  <2>2. co[c].proc \in Proc
    BY <2>1 DEF Coroutine
  <2>3. CASE UNCHANGED slots
    BY <1>same, <2>3
  <2>4. CASE ~UNCHANGED slots
    <3> DEFINE q == co[c].proc
               it == [Idle EXCEPT !.proc = q, !.task = Task(c), !.prov = co[c].prov, !.kind = "resume",
                        !.group = 0, !.cap = Refreshed(q, co[c].prov)[co[c].prov]["video"],
                        !.ph = "wait"]
    <3>1. Register(q, Task(c), co[c].prov, c, TRUE) /\ co' = [co EXCEPT ![c] = it]
      BY <1>register, <2>4 DEF RegisterRetry, DispatchTo, Idle
    <3>2. it.kind = "resume" /\ it.proc = q /\ it.task = co[c].task /\ it.prov = co[c].prov
      BY DEF Idle, Task
    <3> HIDE DEF it
    <3>3. co'[c] = it
      BY <1>1, <3>1 DEF CoType
    <3>4. Same(c)
      BY <1>register, <3>2, <3>3 DEF Same, RegisterRetry, Resume
    <3> QED
      BY <1>register, <1>same, <1>other, <1>set, <2>1, <2>2, <3>1, <3>2, <3>3, <3>4
         DEF Register, SlotMoves, Seats, Task
  <2> QED
    BY <2>3, <2>4
<1>begin. ASSUME NEW c \in CoId, BeginResume(c)
          PROVE  SlotMoves(p)
  <2>1. co[c].proc \in Proc /\ co[c].kind = "resume" /\ co[c].ph = "wait"
    BY <1>1, <1>begin DEF BeginResume, Resume, CoType, Idle, Coroutine
  <2> DEFINE S == {IF s.task = Task(c) /\ s.prov = co[c].prov
                   THEN [s EXCEPT !.pending = FALSE] ELSE s : s \in slots[co[c].proc]}
  <2>2. \/ End(c) /\ ReleaseSlot(c)
        \/ Go(c, "look") /\ slots' = [slots EXCEPT ![co[c].proc] = S]
    BY <1>begin DEF BeginResume
  <2>3. CASE End(c) /\ ReleaseSlot(c)
    BY <1>release, <1>begin, <2>1, <2>3 DEF Own, ResumeStep
  <2>4. CASE Go(c, "look") /\ slots' = [slots EXCEPT ![co[c].proc] = S]
    <3>1. CASE co[c].proc # p
      BY <1>same, <1>other, <2>1, <2>4, <3>1
    <3>2. CASE co[c].proc = p
      <4>1. slots'[p] = S
        BY <1>set, <2>4, <3>2
      <4> QED
        BY <1>begin, <2>4, <3>2, <4>1 DEF SlotMoves, SetsOut
    <3> QED
      BY <3>1, <3>2
  <2> QED
    BY <2>2, <2>3, <2>4
<1>ends. ASSUME NEW c \in CoId, ResumeLands(c) \/ ResumeEnds(c), ~UNCHANGED slots
         PROVE  SlotMoves(p)
  <2>1. End(c) /\ ReleaseSlot(c) /\ co[c].ph \in {"land", "settle", "drop"} /\ co[c].kind = "resume"
    BY <1>ends DEF ResumeLands, ResumeEnds, Resume
  <2>2. co[c].proc \in Proc
    BY <1>1, <2>1 DEF CoType, Idle, Coroutine
  <2> QED
    BY <1>release, <1>ends, <2>1, <2>2 DEF Own, ResumeStep
<1> HIDE DEF SlotMoves
<1>resume. ASSUME NEW c \in CoId, ResumeStep(c) \/ ResumeTornDown(c)
           PROVE  RegisterRetry(c) \/ BeginResume(c) \/ ResumeLands(c) \/ ResumeEnds(c) \/ UNCHANGED slots
  BY <1>resume DEF ResumeStep, ResumeTornDown, GiveUp, LookUpCall, ResumeAnswer, ResumeSettles,
     ResumeFails, ResumeQuits
<1>rest. UserEnqueue \/ UserCancel \/ Reconfigure \/ LeaseExpires \/ UNCHANGED vars => UNCHANGED slots
  BY DEF UserEnqueue, UserCancel, Reconfigure, LeaseExpires, workerVars, vars
<1>quiet. ASSUME NEW q \in Proc, ReloadLimits(q) \/ RetryDownload(q) \/ Start(q) \/ StopSignal(q)
          PROVE  UNCHANGED slots
  BY <1>quiet, Zenon DEF ReloadLimits, RetryDownload, Start, StopSignal
<1> QED
  BY <1>same, <1>stop, <1>drain, <1>pick, <1>dispatch, <1>register, <1>begin, <1>ends, <1>resume, <1>rest,
     <1>quiet, RunsAreQuiet, MainLoopIsQuiet DEF WorkerNext, Environment, Stops

-----------------------------------------------------------------------------
(* A coroutine keeps its occupant as long as no other coroutine of its     *)
(* process takes or gives up a seat for the same task.                     *)
HasSlot(c) == \E s \in slots[co[c].proc] : s.co = c /\ s.task = Task(c) /\ s.prov = co[c].prov
Disturbs(d, t, p) == (Seats(p, d) /\ co'[d].task = t) \/ (Unseats(p, d) /\ Task(d) = t)

LEMMA CoroutineIsLive ==
  ASSUME TypeInv, NEW c \in CoId
  PROVE  /\ Live(c) <=> co[c] \in Coroutine
         /\ Live(c) => co[c].proc \in Proc /\ Task(c) \in TaskId /\ co[c].prov \in Provider
                       /\ co[c].kind \in {"run", "resume"} /\ (co[c].kind = "run" => co[c].ph \in RunPhases)
         /\ ~Live(c) => co[c] = Idle /\ co[c].ph = "idle" /\ co[c].kind = "idle"
<1>1. co[c] \in Coroutine \cup {Idle}
  BY DEF TypeInv, WorkerTypeOK, CoType
<1>2. Idle.kind = "idle" /\ Idle.ph = "idle"
  BY DEF Idle
<1>3. Idle \notin Coroutine
  BY <1>2 DEF Coroutine
<1> HIDE DEF Idle
<1>4. co[c] \in Coroutine => co[c].proc \in Proc /\ co[c].task \in TaskId /\ co[c].prov \in Provider
                       /\ co[c].kind \in {"run", "resume"} /\ (co[c].kind = "run" => co[c].ph \in RunPhases)
  BY DEF Coroutine
<1> QED
  BY <1>1, <1>2, <1>3, <1>4 DEF Live, Task

LEMMA SlotStays ==
  ASSUME TypeInv, [WorkerNext]_vars, NEW c \in CoId, Live(c), HasSlot(c), Live(c)', Same(c),
         \A d \in CoId \ {c} : ~Disturbs(d, Task(c), co[c].proc)
  PROVE  HasSlot(c)'
<1> DEFINE p == co[c].proc
<1>1. p \in Proc /\ SlotsType
  BY CoroutineIsLive DEF TypeInv, WorkerTypeOK
<1>2. PICK s \in slots[p] : s.co = c /\ s.task = Task(c) /\ s.prov = co[c].prov
  BY DEF HasSlot
<1>3. s \in Occupant
  BY <1>1, <1>2 DEF SlotsType
<1>4. SUFFICES \E r \in slots'[p] : r.co = c /\ r.task = Task(c) /\ r.prov = co[c].prov
  BY DEF HasSlot, Same, Task
<1>5. CASE slots'[p] = slots[p]
  BY <1>2, <1>5
<1>6. ASSUME Stops(p)
      PROVE  FALSE
  <2>1. co' = [d \in CoId |-> IF co[d].proc = p THEN Idle ELSE co[d]]
    BY <1>6 DEF Stops, Crash, StopDone, Gone
  <2> QED
    BY <2>1 DEF Live
<1>drains. CASE slots'[p] = Undrained(p)
  BY <1>2, <1>drains DEF Undrained
<1>8. ASSUME NEW d \in CoId, Seats(p, d) \/ Unseats(p, d) \/ SetsOut(p, d)
      PROVE  \E r \in slots'[p] : r.co = c /\ r.task = Task(c) /\ r.prov = co[c].prov
  <2>1. CASE Seats(p, d) /\ d = c
    <3>1. PICK b \in BOOLEAN :
       slots'[p] = Vacated(p, co'[d].task, co'[d].prov)
                     \cup {[task |-> co'[d].task, prov |-> co'[d].prov, co |-> d, pending |-> b]}
      BY <2>1 DEF Seats
    <3> DEFINE r == [task |-> co'[d].task, prov |-> co'[d].prov, co |-> d, pending |-> b]
    <3>2. r \in slots'[p] /\ r.co = c /\ r.task = Task(c) /\ r.prov = co[c].prov
      BY <2>1, <3>1 DEF Same, Task
    <3> QED
      BY <3>2
  <2>2. CASE Seats(p, d) /\ d # c
    <3>1. co'[d].task # s.task
      BY <1>2, <2>2 DEF Disturbs
    <3>2. s \in Vacated(p, co'[d].task, co'[d].prov)
      BY <1>2, <3>1 DEF Vacated
    <3> QED
      BY <1>2, <2>2, <3>2 DEF Seats
  <2>3. CASE Unseats(p, d)
    <3>1. d # c
      BY <2>3 DEF Unseats, End, TypeInv, WorkerTypeOK, CoType, Live
    <3>2. Task(d) # s.task
      BY <1>2, <2>3, <3>1 DEF Disturbs
    <3> QED
      BY <1>2, <2>3, <3>2 DEF Unseats, Vacated
  <2>4. CASE SetsOut(p, d)
    <3> DEFINE f(x) == IF x.task = Task(d) /\ x.prov = co[d].prov THEN [x EXCEPT !.pending = FALSE] ELSE x
    <3>1. slots'[p] = {f(x) : x \in slots[p]}
      BY <2>4 DEF SetsOut
    <3>2. f(s).co = c /\ f(s).task = Task(c) /\ f(s).prov = co[c].prov
      BY <1>2, <1>3 DEF Occupant
    <3> HIDE DEF f
    <3> QED
      BY <1>2, <3>1, <3>2
  <2> QED
    BY <1>8, <2>1, <2>2, <2>3, <2>4
<1> QED
  BY <1>1, <1>5, <1>6, <1>drains, <1>8, SlotsMove DEF SlotMoves

(* A task comes into a slot table with the coroutine that is seated.       *)
LEMMA ActiveComes ==
  ASSUME TypeInv, [WorkerNext]_vars, NEW p \in Proc, NEW t \in ActiveTasks(p)', t \notin ActiveTasks(p)
  PROVE  \E d \in CoId : Seats(p, d) /\ co'[d].task = t
<1>1. PICK s \in slots'[p] : s.task = t
  BY DEF ActiveTasks
<1>2. \A r \in slots[p] : r.task # t /\ r \in Occupant
  BY DEF ActiveTasks, TypeInv, WorkerTypeOK, SlotsType
<1>3. ~(slots'[p] = slots[p] \/ slots'[p] = {} \/ slots'[p] = Undrained(p))
  BY <1>1, <1>2 DEF Undrained
<1>4. PICK d \in CoId : Seats(p, d) \/ Unseats(p, d) \/ SetsOut(p, d)
  BY <1>3, SlotsMove DEF SlotMoves
<1>5. ~Unseats(p, d)
  BY <1>1, <1>2 DEF Unseats, Vacated
<1>6. ~SetsOut(p, d)
  <2> DEFINE f(x) == IF x.task = Task(d) /\ x.prov = co[d].prov THEN [x EXCEPT !.pending = FALSE] ELSE x
  <2>1. SetsOut(p, d) => slots'[p] = {f(x) : x \in slots[p]}
    BY DEF SetsOut
  <2>2. \A x \in slots[p] : f(x).task # t
    BY <1>2 DEF Occupant
  <2> HIDE DEF f
  <2> QED
    BY <1>1, <2>1, <2>2
<1>7. PICK b \in BOOLEAN :
       slots'[p] = Vacated(p, co'[d].task, co'[d].prov)
                     \cup {[task |-> co'[d].task, prov |-> co'[d].prov, co |-> d, pending |-> b]}
  BY <1>4, <1>5, <1>6 DEF Seats
<1>8. s \notin Vacated(p, co'[d].task, co'[d].prov)
  BY <1>1, <1>2 DEF Vacated
<1>9. s.task = co'[d].task
  BY <1>1, <1>7, <1>8
<1> QED
  BY <1>1, <1>4, <1>5, <1>6, <1>9

(* What is in hand is in nobody's coroutine.                               *)
LEMMA HandIsAlone ==
  ASSUME Inv, NEW p \in Proc, NEW c \in CoId, Live(c)
  PROVE  proc[p].hand # Task(c)
<1>1. co[c].kind \in {"run", "resume"}
  BY CoroutineIsLive DEF Inv
<1>2. CASE co[c].kind = "run"
  BY <1>2 DEF Inv, HolderInv, IsRun
<1>3. CASE co[c].kind = "resume"
  BY <1>3, JobIsSubmitted DEF Inv, JobInv
<1> QED
  BY <1>1, <1>2, <1>3

-----------------------------------------------------------------------------
(* One process never executes a task twice at a time, as long as nobody    *)
(* asks for a retry of a download: what a scan puts aside is not in the    *)
(* process's own slot table, since it has left out what was, and all that  *)
(* goes into the table meanwhile is what it has put aside itself.          *)
Slotted(c) == Live(c) /\ co[c].ph \notin Dispatching
NoDispatcher == \A c \in CoId : co[c].ph # "dispatch"
OneSlotted ==
  \A c, d \in CoId : Slotted(c) /\ Slotted(d) /\ co[c].proc = co[d].proc /\ Task(c) = Task(d) => c = d
ReadyIsFree == \A p \in Proc : proc[p].pc = "sift" => \A t \in proc[p].ready : t \notin ActiveTasks(p)
HandIsLaned == \A p \in Proc : proc[p].hand # NoTask => proc[p].pc \in WorkLane
SlotInv == NoDispatcher /\ EveryCoroutineHasItsSlot /\ OneSlotted /\ ReadyIsFree /\ HandIsLaned

LEMMA HandLanedStep ==
  ASSUME TypeInv, HandIsLaned, [WorkerNext]_vars
  PROVE  HandIsLaned'
<1> SUFFICES ASSUME NEW p \in Proc
             PROVE  proc'[p].hand # NoTask => proc'[p].pc \in WorkLane
  BY DEF HandIsLaned
<1>1. ProcMoves(p) /\ (proc[p].hand # NoTask => proc[p].pc \in WorkLane)
  BY ProcessesMove DEF HandIsLaned
<1>2. proc'[p] = Down \/ proc'[p] = [Down EXCEPT !.up = "up"] => proc'[p].hand = NoTask
  BY DEF Down
<1>3. Turns(p) => (proc'[p].hand # NoTask => proc'[p].pc \in WorkLane)
  BY <1>1 DEF Turns, WorkLane
<1> QED
  BY <1>1, <1>2, <1>3 DEF ProcMoves, PlaceStays

(* A retry uses up one of the requests there may be.                       *)
LEMMA NothingRetried ==
  ASSUME MaxRetries = 0, TypeInv, NEW p
  PROVE  ~RetryDownload(p)
<1>1. spent["retries"] \in Nat
  BY DEF TypeInv, WorkerTypeOK
<1>2. RetryDownload(p) => Spend("retries", MaxRetries)
  BY Zenon DEF RetryDownload
<1> QED
  BY <1>1, <1>2 DEF Spend

(* Only one coroutine begins in a step.                                    *)
LEMMA OneBegins ==
  ASSUME TypeInv, NEW c \in CoId, NEW d \in CoId, ~Live(c), ~Live(d),
         NEW p \in Proc, NEW q \in Proc, Begins(c, p), Begins(d, q)
  PROVE  c = d
<1>1. \E e \in CoId : \E r : co' = [co EXCEPT ![e] = r]
  <2>1. co'[c] # co[c]
    BY DEF Begins, Retried, PickedUp, SentOff, Live, Idle
  <2>2. CASE RetryDownload(p)
    BY <2>2, Zenon DEF RetryDownload
  <2>3. CASE DispatchOrphan(p)
    BY <2>1, <2>3 DEF DispatchOrphan, DispatchTo
  <2>4. CASE Dispatch(p)
    BY <2>4, Zenon DEF Dispatch
  <2> QED
    BY <2>2, <2>3, <2>4 DEF Begins, Retried, PickedUp, SentOff
<1>2. PICK e \in CoId : \A x \in CoId : x # e => co'[x] = co[x]
  BY <1>1 DEF TypeInv, WorkerTypeOK, CoType
<1>3. co'[c] # co[c] /\ co'[d] # co[d]
  BY DEF Begins, Retried, PickedUp, SentOff, Live, Idle
<1> QED
  BY <1>2, <1>3

(* What begins with a seat has it.                                         *)
LEMMA BegunIsSeated ==
  ASSUME TypeInv, NEW c \in CoId, ~Live(c), NEW p \in Proc,
         \/ PickedUp(c, p) /\ co'[c].ph \notin Dispatching
         \/ SentOff(c, p)
  PROVE  HasSlot(c)'
<1>1. SlotsType /\ CoType
  BY DEF TypeInv, WorkerTypeOK
<1>2. co'[c] # co[c] /\ co'[c].proc = p
  BY DEF PickedUp, SentOff, Live, Idle
<1>3. \E t, q, b : Register(p, t, q, c, b) /\ co'[c].task = t /\ co'[c].prov = q
  <2>1. CASE PickedUp(c, p)
    <3>0. DispatchOrphan(p) /\ ~UNCHANGED co
      BY <1>2, <2>1 DEF PickedUp
    <3>1. PICK t \in proc[p].ready, d \in CoId : DispatchTo(p, t, prov[t], d, proc[p].round)
      BY <3>0 DEF DispatchOrphan
    <3> DEFINE it(ph) == [Idle EXCEPT !.proc = p, !.task = t, !.prov = prov[t], !.kind = "resume",
                            !.group = proc[p].round, !.cap = Refreshed(p, prov[t])[prov[t]]["video"],
                            !.ph = ph]
    <3>2. \/ co' = [co EXCEPT ![d] = it("giveup")]
          \/ co' = [co EXCEPT ![d] = it("wait")] /\ Register(p, t, prov[t], d, TRUE)
      BY <3>1 DEF DispatchTo, Idle
    <3>3. \A ph : it(ph).ph = ph /\ it(ph).task = t /\ it(ph).prov = prov[t]
      BY DEF Idle
    <3> HIDE DEF it
    <3>4. c = d
      BY <1>1, <1>2, <3>2 DEF CoType
    <3>5. co'[c] = it("wait") /\ Register(p, t, prov[t], d, TRUE)
      BY <1>1, <2>1, <3>2, <3>3, <3>4 DEF CoType, SentOff, Dispatching
    <3> QED
      BY <3>3, <3>4, <3>5
  <2>2. CASE SentOff(c, p)
    <3>1. PICK t \in TaskId, d \in CoId :
            /\ Register(p, t, proc[p].prov, d, FALSE)
            /\ co' = [co EXCEPT ![d] = [Idle EXCEPT !.proc = p, !.task = t, !.prov = proc[p].prov,
                                            !.kind = "run", !.ph = "exec"]]
      BY <2>2, Zenon DEF SentOff, Dispatch
    <3> DEFINE r == [Idle EXCEPT !.proc = p, !.task = t, !.prov = proc[p].prov, !.kind = "run", !.ph = "exec"]
    <3>2. r.task = t /\ r.prov = proc[p].prov
      BY DEF Idle
    <3>3. co' = [co EXCEPT ![d] = r]
      BY <3>1
    <3> HIDE DEF r
    <3>4. c = d /\ co'[c] = r
      BY <1>1, <1>2, <3>3 DEF CoType
    <3> QED
      BY <3>1, <3>2, <3>4
  <2> QED
    BY <2>1, <2>2
<1>4. PICK b : slots' = [slots EXCEPT ![p] =
              Vacated(p, co'[c].task, co'[c].prov)
                \cup {[task |-> co'[c].task, prov |-> co'[c].prov, co |-> c, pending |-> b]}]
  BY <1>3 DEF Register
<1> DEFINE s == [task |-> co'[c].task, prov |-> co'[c].prov, co |-> c, pending |-> b]
<1>5. s \in slots'[p]
  BY <1>1, <1>4 DEF SlotsType
<1> QED
  BY <1>2, <1>5 DEF HasSlot, Task

(* A coroutine with a seat has had it, or is just dispatched, and then the *)
(* process has no other one for that task.                                 *)
Enters(c, p) == ~Live(c) /\ (PickedUp(c, p) \/ SentOff(c, p))

LEMMA SlottedComes ==
  ASSUME MaxRetries = 0, Inv, NoDispatcher, [WorkerNext]_vars, NEW c \in CoId, Slotted(c)'
  PROVE  (Slotted(c) /\ Same(c)) \/ \E p \in Proc : Enters(c, p)
<1>1. TypeInv /\ CoMoves(c)
  BY CoroutinesMove DEF Inv
<1>2. CASE co'[c] = co[c]
  BY <1>2 DEF Slotted, Live, Same
<1>begins. CASE ~Live(c) /\ \E p \in Proc : Begins(c, p)
  BY <1>1, <1>begins, NothingRetried DEF Begins, Retried, Enters
<1>4. ~(End(c) \/ co'[c] = Idle)
  BY <1>1 DEF End, Slotted, Live, TypeInv, WorkerTypeOK, CoType
<1>5. CASE Own(c)
  <2>1. CASE RunStep(c) \/ RunTornDown(c)
    <3>1. co[c].kind = "run" /\ Same(c) /\ Live(c)
      BY <1>1, <1>4, <2>1, RunsPath, CoroutineIsLive DEF RunPath, IsRun
    <3>2. co[c].ph \in RunPhases
      BY <1>1, <3>1, CoroutineIsLive
    <3> QED
      BY <3>1, <3>2 DEF Slotted, RunPhases, Dispatching
  <2>2. CASE ResumeStep(c) \/ ResumeTornDown(c)
    <3>1. co[c].kind = "resume" /\ Same(c) /\ Live(c) /\ co[c].ph # "dispatch"
          /\ (co[c].ph # "dispatch" => (co'[c].ph \in Dispatching <=> co[c].ph \in Dispatching))
      BY <1>1, <1>4, <2>2, ResumesPath, CoroutineIsLive DEF ResumePath, NoDispatcher
    <3> QED
      BY <3>1 DEF Slotted
  <2> QED
    BY <1>5, <2>1, <2>2 DEF Own
<1> QED
  BY <1>1, <1>2, <1>begins, <1>4, <1>5 DEF CoMoves

LEMMA EntersAlone ==
  ASSUME Inv, SlotInv, NEW c \in CoId, NEW p \in Proc, PickedUp(c, p) \/ SentOff(c, p),
         NEW d \in CoId, Slotted(d), co[d].proc = p
  PROVE  Task(d) # co'[c].task
<1>1. CASE SentOff(c, p)
  BY <1>1, HandIsAlone DEF SentOff, Slotted
<1>2. CASE PickedUp(c, p)
  <2>1. proc[p].pc = "sift" /\ co'[c].task \in proc[p].ready
    BY <1>2 DEF PickedUp
  <2>2. co'[c].task \notin ActiveTasks(p)
    BY <2>1 DEF SlotInv, ReadyIsFree
  <2>3. Task(d) \in ActiveTasks(p)
    BY DEF SlotInv, EveryCoroutineHasItsSlot, Slotted, ActiveTasks
  <2> QED
    BY <2>2, <2>3
<1> QED
  BY <1>1, <1>2

LEMMA SlotStep ==
  ASSUME MaxRetries = 0, Inv, Inv', SlotInv, [WorkerNext]_vars
  PROVE  SlotInv'
<1>1. TypeInv /\ TypeInv' /\ NoDispatcher /\ HandIsLaned
  BY DEF Inv, SlotInv
<1>2. HandIsLaned'
  BY <1>1, HandLanedStep
<1>begun. ASSUME NEW c \in CoId, NEW p \in Proc, Seats(p, c)
          PROVE  PickedUp(c, p) \/ SentOff(c, p)
  BY <1>1, <1>begun, NothingRetried DEF Seats, Begins, Retried, NoDispatcher
<1>dispatcher. NoDispatcher'
  <2> SUFFICES ASSUME NEW c \in CoId PROVE co'[c].ph # "dispatch"
    BY DEF NoDispatcher
  <2>1. CoMoves(c)
    BY <1>1, CoroutinesMove
  <2>2. CASE co'[c] = co[c]
    BY <1>1, <2>2 DEF NoDispatcher
  <2>begins. CASE \E p \in Proc : Begins(c, p)
    BY <1>1, <2>begins, NothingRetried DEF Begins, Retried, PickedUp, SentOff
  <2>4. CASE co'[c] = Idle \/ End(c)
    BY <1>1, <2>4 DEF Idle, End, TypeInv, WorkerTypeOK, CoType
  <2>5. CASE RunStep(c) \/ RunTornDown(c)
    <3>1. End(c) \/ (IsRun(c) /\ Same(c))
      BY <1>1, <2>5, RunsPath DEF RunPath
    <3>2. IsRun(c)' => co'[c].ph \in RunPhases
      <4>1. co'[c] \in Coroutine \cup {Idle}
        BY <1>1 DEF TypeInv, WorkerTypeOK, CoType
      <4> QED
        BY <4>1 DEF IsRun, Coroutine, Idle
    <3> QED
      BY <2>4, <3>1, <3>2 DEF Same, IsRun, RunPhases
  <2>6. CASE ResumeStep(c) \/ ResumeTornDown(c)
    BY <1>1, <2>4, <2>6, ResumesPath DEF ResumePath
  <2> QED
    BY <2>1, <2>2, <2>begins, <2>4, <2>5, <2>6 DEF CoMoves, Own
<1>one. OneSlotted'
  <2> SUFFICES ASSUME NEW c \in CoId, NEW d \in CoId, Slotted(c)', Slotted(d)',
                      co'[c].proc = co'[d].proc, co'[c].task = co'[d].task
               PROVE  c = d
    BY DEF OneSlotted, Task
  <2>1. CASE (Slotted(c) /\ Same(c)) /\ (Slotted(d) /\ Same(d))
    BY <2>1 DEF SlotInv, OneSlotted, Same, Task
  <2>2. ASSUME NEW p \in Proc, Enters(c, p), Slotted(d), Same(d)
        PROVE  FALSE
    BY <2>2, EntersAlone DEF Enters, PickedUp, SentOff, Same, Task
  <2>3. ASSUME NEW p \in Proc, Enters(d, p), Slotted(c), Same(c)
        PROVE  FALSE
    BY <2>3, EntersAlone DEF Enters, PickedUp, SentOff, Same, Task
  <2>4. ASSUME NEW p \in Proc, Enters(c, p), NEW q \in Proc, Enters(d, q)
        PROVE  c = d
    BY <1>1, <2>4, OneBegins DEF Enters, Begins
  <2> QED
    BY <1>1, <2>1, <2>2, <2>3, <2>4, SlottedComes
<1>slot. EveryCoroutineHasItsSlot'
  <2> SUFFICES ASSUME NEW c \in CoId, Slotted(c)'
               PROVE  HasSlot(c)'
    BY DEF EveryCoroutineHasItsSlot, Slotted, HasSlot
  <2>1. ASSUME NEW p \in Proc, Enters(c, p)
        PROVE  HasSlot(c)'
    BY <1>1, <2>1, BegunIsSeated DEF Enters, Slotted
  <2>2. CASE Slotted(c) /\ Same(c)
    <3>1. Live(c) /\ HasSlot(c) /\ Live(c)' /\ co[c].proc \in Proc
      BY <1>1, <2>2, CoroutineIsLive DEF Slotted, SlotInv, EveryCoroutineHasItsSlot, HasSlot
    <3>2. ASSUME NEW d \in CoId \ {c}, Disturbs(d, Task(c), co[c].proc)
          PROVE  FALSE
      <4>1. CASE Seats(co[c].proc, d) /\ co'[d].task = Task(c)
        BY <1>begun, <2>2, <3>1, <4>1, EntersAlone
      <4>2. CASE Unseats(co[c].proc, d) /\ Task(d) = Task(c)
        <5>1. Slotted(d) /\ co[d].proc = co[c].proc
          BY <4>2 DEF Unseats, Slotted, Live, Idle, Dispatching
        <5> QED
          BY <2>2, <4>2, <5>1 DEF SlotInv, OneSlotted
      <4> QED
        BY <3>2, <4>1, <4>2 DEF Disturbs
    <3> QED
      BY <1>1, <2>2, <3>1, <3>2, SlotStays
  <2> QED
    BY <1>1, <2>1, <2>2, SlottedComes
<1>ready. ReadyIsFree'
  <2> SUFFICES ASSUME NEW p \in Proc, proc'[p].pc = "sift", NEW t \in proc'[p].ready, t \in ActiveTasks(p)'
               PROVE  FALSE
    BY DEF ReadyIsFree
  <2>1. \/ proc[p].pc = "sift" /\ proc'[p].ready \subseteq proc[p].ready
        \/ proc[p].pc = "active" /\ proc'[p].ready = proc[p].ready \ ActiveTasks(p)
    <3>1. ProcMoves(p)
      BY <1>1, ProcessesMove
    <3>2. ~(proc'[p] = Down) /\ ~(proc'[p] = [Down EXCEPT !.up = "up"])
      BY DEF Down
    <3>3. CASE PlaceStays(p)
      BY <3>3 DEF PlaceStays
    <3>4. CASE Turns(p)
      BY <3>4 DEF Turns, WorkLane
    <3> QED
      BY <3>1, <3>2, <3>3, <3>4 DEF ProcMoves
  <2>2. t \notin ActiveTasks(p)
    BY <2>1 DEF SlotInv, ReadyIsFree
  <2>3. PICK d \in CoId : Seats(p, d) /\ co'[d].task = t
    BY <1>1, <2>2, ActiveComes
  <2>4. ~PickedUp(d, p)
    BY <2>3 DEF PickedUp
  <2>5. ~SentOff(d, p)
    BY <1>1, <2>1 DEF SentOff, HandIsLaned, WorkLane
  <2> QED
    BY <1>begun, <2>3, <2>4, <2>5
<1> QED
  BY <1>2, <1>dispatcher, <1>one, <1>slot, <1>ready DEF SlotInv

LEMMA SlotInit == WorkerInit => SlotInv
BY DEF WorkerInit, SlotInv, NoDispatcher, EveryCoroutineHasItsSlot, OneSlotted, Slotted, ReadyIsFree,
   HandIsLaned, Live, Down, Idle

LEMMA SlotHolds == MaxRetries = 0 => (WorkerSpec => [](Inv /\ SlotInv))
<1> SUFFICES ASSUME MaxRetries = 0
             PROVE  WorkerSpec => [](Inv /\ SlotInv)
  OBVIOUS
<1>1. Inv /\ SlotInv /\ [WorkerNext]_vars => (Inv /\ SlotInv)'
  BY InvStep, SlotStep
<1> QED
  BY <1>1, InvInit, SlotInit, PTL DEF WorkerSpec

(* As long as nobody asks for a retry, a process executes a task in one    *)
(* coroutine at a time, for every number of processes, coroutines and      *)
(* tasks, whatever its scans and take-overs find running.                  *)
THEOREM OneWorkerWithoutRetry == MaxRetries = 0 => (WorkerSpec => []OneWorkerPerTask)
<1>1. ASSUME SlotInv, NEW p \in Proc, NEW t \in TaskId
      PROVE  Cardinality({c \in Working(t) : /\ co[c].proc = p
                            /\ co[c].ph \notin Dispatching \cup {"settle", "drop"}}) <= 1
  <2> DEFINE S == {c \in Working(t) : co[c].proc = p /\ co[c].ph \notin Dispatching \cup {"settle", "drop"}}
  <2>1. \A c, d \in S : c = d
    BY <1>1 DEF SlotInv, OneSlotted, Slotted, Working, Task
  <2>2. S = {} \/ \E c \in S : S = {c}
    BY <2>1
  <2> HIDE DEF S
  <2>3. Cardinality(S) = 0 \/ Cardinality(S) = 1
    BY <2>2, FS_EmptySet, FS_Singleton, Zenon
  <2>4. Cardinality(S) <= 1
    BY <2>3
  <2> QED
    BY <2>4 DEF S
<1>2. Inv /\ SlotInv => OneWorkerPerTask
  BY <1>1 DEF OneWorkerPerTask
<1> QED
  BY <1>2, SlotHolds, PTL

(* And each coroutine that holds a seat finds it in the slot table.        *)
THEOREM SlotsWithoutRetry == MaxRetries = 0 => (WorkerSpec => []EveryCoroutineHasItsSlot)
<1>1. Inv /\ SlotInv => EveryCoroutineHasItsSlot
  BY DEF SlotInv
<1> QED
  BY <1>1, SlotHolds, PTL

-----------------------------------------------------------------------------
(* One server process, whatever else happens: crashes, stops and restarts, *)
(* a lease that runs out, retries, changes of provider and of limits.  A   *)
(* task that is running is tended by somebody who is to give it a verdict, *)
(* or it is a stray, and the process, once it is up again, has yet to scan *)
(* and has not forgotten it.                                               *)
Tends(c, t) == Live(c) /\ Task(c) = t /\ co[c].ph \notin Closing
Stray(t) ==
  /\ status[t] = "running"
  /\ \A p \in Proc : proc[p].hand # t
  /\ \A c \in CoId : ~Tends(c, t)
Answers(c, t) == Live(c) /\ Task(c) = t /\ Accountable(c)

DownIsEmpty == \A p \in Proc : proc[p].up = "down" => slots[p] = {} /\ \A c \in CoId : Live(c) => co[c].proc # p
HeldIsRunning == \A p \in Proc, t \in TaskId : proc[p].hand = t => status[t] = "running"
RunIsSole ==
  \A c \in CoId : IsRun(c) =>
    /\ status[Task(c)] = "running"
    /\ \A d \in CoId : Live(d) /\ Task(d) = Task(c) => c = d
    /\ HasSlot(c)
    /\ \A p \in Proc : proc[p].pc = "sift" => Task(c) \notin proc[p].orphans
    /\ co[c].ph \in Bracket => call[Task(c)] = "pending"
StrayIsScanned ==
  \A p \in Proc, t \in TaskId : proc[p].up = "up" /\ Stray(t) =>
    /\ t \notin ActiveTasks(p) /\ proc[p].scan /\ proc[p].pc # "settle"
    /\ proc[p].pc \in {"active", "sift"} => t \in proc[p].orphans
OneInv == HandIsLaned /\ DownIsEmpty /\ HeldIsRunning /\ RunIsSole /\ StrayIsScanned

LEMMA OneInit == WorkerInit => OneInv
<1> SUFFICES ASSUME WorkerInit
             PROVE  OneInv
  OBVIOUS
<1>1. \A c \in CoId : ~Live(c) /\ ~IsRun(c)
  BY DEF WorkerInit, Live, IsRun, Idle
<1>2. \A p \in Proc : proc[p].up = "down" /\ proc[p].hand = NoTask /\ slots[p] = {}
  BY DEF WorkerInit, Down
<1>3. NoTask \notin TaskId
  BY DEF NoTask, TaskId
<1> QED
  BY <1>1, <1>2, <1>3 DEF OneInv, HandIsLaned, DownIsEmpty, HeldIsRunning, RunIsSole, StrayIsScanned

-----------------------------------------------------------------------------
(* What claims, retries and the emptying of the hand do to the task.       *)
LEMMA ClaimedRuns ==
  ASSUME TypeInv, NEW p \in Proc, Claim(p), NEW t \in TaskId, proc'[p].hand = t
  PROVE  status[t] = "queued" /\ status'[t] = "running"
<1>1. PICK lane \in WorkLane, u \in TaskId :
        /\ ClaimNext(u, lane, PoolFull(p, lane))
        /\ proc' = [proc EXCEPT
             ![p].hand = u,
             ![p].prov = IF prov[u] \in Provider /\ Capacity(p, prov[u], lane) > 0
                         THEN prov[u] ELSE NoProvider]
  BY DEF Claim
<1>2. proc'[p].hand = u
  BY <1>1 DEF TypeInv, WorkerTypeOK, ProcType, ProcState
<1> QED
  BY <1>1, <1>2 DEF ClaimNext, Claimable, TypeInv, QueueTypeOK

LEMMA RetriedRuns ==
  ASSUME TypeInv, NEW p \in Proc, RetryDownload(p), NEW t \in TaskId, RetryArtifactDownload(t)
  PROVE  /\ status[t] = "failed" /\ status'[t] = "running" /\ call[t] # "success"
         /\ \E c \in CoId : Tends(c, t)' /\ Answers(c, t)'
<1>1. PICK u \in TaskId, d \in CoId :
        /\ RetryArtifactDownload(u)
        /\ co' = [co EXCEPT ![d] = [Idle EXCEPT !.proc = p, !.task = u, !.prov = prov[u],
                                                !.kind = "resume", !.ph = "dispatch"]]
  BY Zenon DEF RetryDownload
<1> DEFINE r == [Idle EXCEPT !.proc = p, !.task = u, !.prov = prov[u], !.kind = "resume", !.ph = "dispatch"]
<1>2. r.kind = "resume" /\ r.task = u /\ r.ph = "dispatch" /\ r # Idle
  BY DEF Idle
<1>3. co' = [co EXCEPT ![d] = r]
  BY <1>1
<1> HIDE DEF r
<1>4. co'[d] = r
  BY <1>3 DEF TypeInv, WorkerTypeOK, CoType
<1>5. t = u /\ status[t] = "failed" /\ status'[t] = "running" /\ call[t] # "success"
  BY <1>1 DEF RetryArtifactDownload, MayRetryDownload, TypeInv, QueueTypeOK
<1>6. Tends(d, t)' /\ Answers(d, t)'
  BY <1>2, <1>4, <1>5 DEF Tends, Answers, Accountable, Live, Task, Closing
<1> QED
  BY <1>5, <1>6

LEMMA HandedOn ==
  ASSUME TypeInv, NEW p \in Proc, NEW t \in TaskId, proc[p].hand = t
  PROVE  /\ RefuseLane(p) \/ PutBack(p) => status'[t] # "running"
         /\ Dispatch(p) => \E c \in CoId : Tends(c, t)'
<1>1. ASSUME RefuseLane(p) \/ PutBack(p)
      PROVE  status'[t] # "running"
  <2>1. TryMarkFailed(t, "error") \/ (IF status[t] = "running" THEN Requeue(t) ELSE UNCHANGED queueVars)
    BY <1>1 DEF RefuseLane, PutBack, InHand
  <2>2. CASE TryMarkFailed(t, "error")
    BY <2>2, Marks DEF TypeInv, Reasons
  <2>3. CASE IF status[t] = "running" THEN Requeue(t) ELSE UNCHANGED queueVars
    BY <2>3, Marks DEF TypeInv
  <2> QED
    BY <2>1, <2>2, <2>3
<1>2. ASSUME Dispatch(p)
      PROVE  \E c \in CoId : Tends(c, t)'
  <2>1. PICK u \in TaskId, d \in CoId :
          /\ proc[p].hand = u
          /\ co' = [co EXCEPT ![d] = [Idle EXCEPT !.proc = p, !.task = u, !.prov = proc[p].prov,
                                                  !.kind = "run", !.ph = "exec"]]
    BY <1>2, Zenon DEF Dispatch, InHand
  <2> DEFINE r == [Idle EXCEPT !.proc = p, !.task = u, !.prov = proc[p].prov, !.kind = "run", !.ph = "exec"]
  <2>2. r.task = u /\ r.ph = "exec" /\ r # Idle
    BY DEF Idle
  <2>3. co' = [co EXCEPT ![d] = r]
    BY <2>1
  <2> HIDE DEF r
  <2>4. co'[d] = r
    BY <2>3 DEF TypeInv, WorkerTypeOK, CoType
  <2>5. Tends(d, t)'
    BY <2>1, <2>2, <2>4 DEF Tends, Live, Task, Closing
  <2> QED
    BY <2>5
<1> QED
  BY <1>1, <1>2

(* A live coroutine of the next state was live, or begins.                 *)
LEMMA LiveComes ==
  ASSUME TypeInv, [WorkerNext]_vars, NEW c \in CoId, Live(c)'
  PROVE  \/ Live(c) /\ Same(c)
         \/ ~Live(c) /\ \E p \in Proc : Begins(c, p) /\ co'[c].proc = p
<1>1. CoMoves(c)
  BY CoroutinesMove
<1>2. ~(co'[c] = Idle \/ End(c))
  BY DEF Live, End, TypeInv, WorkerTypeOK, CoType
<1>stays. CASE co'[c] = co[c]
  BY <1>stays DEF Same, Live
<1>4. CASE RunStep(c) \/ RunTornDown(c)
  BY <1>2, <1>4, RunsPath DEF RunPath, IsRun, Live, Idle
<1>5. CASE ResumeStep(c) \/ ResumeTornDown(c)
  BY <1>2, <1>5, ResumesPath DEF ResumePath, Live, Idle
<1> QED
  BY <1>1, <1>2, <1>stays, <1>4, <1>5 DEF CoMoves, Own, Begins, Retried, PickedUp, SentOff

LEMMA BeginnersTend ==
  ASSUME NEW c \in CoId, NEW p \in Proc, Begins(c, p)
  PROVE  /\ Live(c)' /\ co'[c].ph \notin Closing
         /\ co'[c].kind = "resume" => Accountable(c)'
         /\ ~SentOff(c, p) => co'[c].kind = "resume"
BY DEF Begins, Retried, PickedUp, SentOff, Live, Idle, Closing, Accountable

LEMMA SeatedLives ==
  ASSUME TypeInv, NEW p, NEW c \in CoId, Seats(p, c)
  PROVE  /\ Live(c)'
         /\ co'[c].ph \notin Closing \/ (Live(c) /\ co[c].ph = "dispatch" /\ Same(c))
<1>1. CASE Begins(c, p)
  BY <1>1 DEF Begins, Retried, PickedUp, SentOff, Live, Idle, Closing
<1>2. CASE RegisterRetry(c) /\ co[c].ph = "dispatch" /\ Live(c) /\ Same(c)
  <2>1. co[c].kind \in {"run", "resume"} /\ Idle.kind = "idle"
    BY <1>2, CoroutineIsLive DEF Idle
  <2> QED
    BY <1>2, <2>1 DEF Same, Live
<1> QED
  BY <1>1, <1>2 DEF Seats

(* A process that is up in the next state was up, or is just started.      *)
LEMMA UpComes ==
  ASSUME TypeInv, [WorkerNext]_vars, NEW p \in Proc, proc'[p].up = "up"
  PROVE  /\ proc[p].up = "up" \/ (Start(p) /\ proc[p].up = "down" /\ proc'[p] = [Down EXCEPT !.up = "up"])
         /\ ~Stops(p)
<1>1. ProcMoves(p)
  BY ProcessesMove
<1>2. ~Stops(p)
  <2>1. Stops(p) => proc' = [proc EXCEPT ![p] = Down]
    BY DEF Stops, Crash, StopDone, Gone
  <2>2. Down.up = "down"
    BY DEF Down
  <2> QED
    BY <2>1, <2>2 DEF TypeInv, WorkerTypeOK, ProcType
<1> QED
  BY <1>1, <1>2 DEF ProcMoves

-----------------------------------------------------------------------------
(* The steps, one lemma for each part.                                     *)
LEMMA DownEmptyStep ==
  ASSUME TypeInv, DownIsEmpty, [WorkerNext]_vars
  PROVE  DownIsEmpty'
<1> SUFFICES ASSUME NEW p \in Proc, proc'[p].up = "down"
             PROVE  slots'[p] = {} /\ \A c \in CoId : Live(c)' => co'[c].proc # p
  BY DEF DownIsEmpty, Live
<1>2. CASE Stops(p)
  <2>1. /\ slots' = [slots EXCEPT ![p] = {}]
        /\ co' = [c \in CoId |-> IF co[c].proc = p THEN Idle ELSE co[c]]
    BY <1>2 DEF Stops, Crash, StopDone, Gone
  <2> QED
    BY <2>1 DEF TypeInv, WorkerTypeOK, SlotsType, Live
<1>3. CASE ~Stops(p)
  <2>1. proc[p].up = "down"
    <3>1. [Down EXCEPT !.up = "up"].up = "up"
      BY DEF Down
    <3> QED
      BY <1>3, <3>1, ProcessesMove DEF ProcMoves
  <2>2. slots[p] = {} /\ \A c \in CoId : Live(c) => co[c].proc # p
    BY <2>1 DEF DownIsEmpty
  <2>3. \A c \in CoId : ~Begins(c, p)
    <3>1. ~Dispatch(p)
      BY <2>1, Zenon DEF Dispatch, InHand
    <3> QED
      BY <2>1, <3>1 DEF Begins, Retried, PickedUp, SentOff
  <2>4. \A c \in CoId : Live(c)' => co'[c].proc # p
    BY <2>2, <2>3, LiveComes DEF Same
  <2>5. \A c \in CoId : ~(Seats(p, c) \/ Unseats(p, c) \/ SetsOut(p, c))
    <3> TAKE c \in CoId
    <3>1. co[c].proc = p => co[c].kind = "idle"
      BY <2>2, CoroutineIsLive
    <3> QED
      BY <2>2, <2>3, <3>1 DEF Seats, Unseats, SetsOut, BeginResume, Resume, Same
  <2>6. Undrained(p) = {}
    BY <2>2 DEF Undrained
  <2> QED
    BY <1>3, <2>2, <2>4, <2>5, <2>6, SlotsMove DEF SlotMoves
<1> QED
  BY <1>2, <1>3

LEMMA HeldRunningStep ==
  ASSUME Inv, HandIsLaned, HeldIsRunning, [WorkerNext]_vars, NEW p \in Proc, Proc = {p}
  PROVE  HeldIsRunning'
<1> SUFFICES ASSUME NEW t \in TaskId, proc'[p].hand = t
             PROVE  status'[t] = "running"
  BY DEF HeldIsRunning
<1>1. TypeInv /\ ProcMoves(p) /\ RowMoves(t) /\ t # NoTask
  BY ProcessesMove, RowsMove DEF Inv, TaskId, NoTask
<1>2. proc[p].hand = t \/ Claim(p)
  <2>1. Down.hand = NoTask /\ [Down EXCEPT !.up = "up"].hand = NoTask
    BY DEF Down
  <2>2. Turns(p) => proc[p].hand = t \/ Claim(p)
    BY <1>1 DEF Turns
  <2> QED
    BY <1>1, <2>1, <2>2 DEF ProcMoves, PlaceStays
<1>3. CASE Claim(p)
  BY <1>1, <1>3, ClaimedRuns
<1>4. CASE proc[p].hand = t
  <2>1. status[t] = "running" /\ proc[p].pc \in WorkLane
    BY <1>1, <1>4 DEF HeldIsRunning, HandIsLaned
  <2>2. \A c \in CoId : ~(Own(c) /\ Task(c) = t)
    <3>1. \A c \in CoId : Own(c) => co[c].kind # "idle"
      BY RunsMove, ResumesMove DEF Own
    <3> QED
      BY <1>1, <1>4, <3>1, CoroutineIsLive, HandIsAlone
  <2>3. \A q \in Proc : ~Refuses(q, t) /\ ~Forgoes(q, t)
    BY <1>1, <2>1 DEF Refuses, Forgoes, WorkLane
  <2> QED
    BY <1>1, <2>1, <2>2, <2>3 DEF RowMoves
<1> QED
  BY <1>2, <1>3, <1>4

LEMMA RunSoleStep ==
  ASSUME Inv, HandIsLaned, HeldIsRunning, RunIsSole, HeldIsRunning', [WorkerNext]_vars,
         NEW p \in Proc, Proc = {p}
  PROVE  RunIsSole'
<1> SUFFICES ASSUME NEW c \in CoId, IsRun(c)'
             PROVE  /\ status'[Task(c)'] = "running"
                    /\ \A d \in CoId : Live(d)' /\ Task(d)' = Task(c)' => c = d
                    /\ HasSlot(c)'
                    /\ proc'[p].pc = "sift" => Task(c)' \notin proc'[p].orphans
                    /\ co'[c].ph \in Bracket => call'[Task(c)'] = "pending"
  BY DEF RunIsSole
<1>1. TypeInv /\ Live(c)'
  BY DEF Inv, IsRun, Live, Idle
<1>2. CASE ~Live(c)
  <2>1. SentOff(c, p) /\ Begins(c, p)
    BY <1>1, <1>2, LiveComes, BeginnersTend DEF IsRun, Begins
  <2>2. proc[p].hand = Task(c)' /\ co'[c].ph = "exec" /\ Dispatch(p) /\ Task(c)' \in TaskId
    BY <1>1, <2>1 DEF SentOff, Task, TypeInv, WorkerTypeOK, ProcType, ProcState
  <2>3. status'[Task(c)'] = "running"
    <3>1. status[Task(c)'] = "running"
      BY <2>2 DEF HeldIsRunning
    <3>2. UNCHANGED status
      BY <2>2, Zenon DEF Dispatch, queueVars, rowVars
    <3> QED
      BY <3>1, <3>2
  <2>sole. ASSUME NEW d \in CoId, Live(d)', Task(d)' = Task(c)'
        PROVE  c = d
    <3>1. CASE Live(d) /\ Same(d)
      <4>1. Task(d) = proc[p].hand
        BY <2>2, <2>sole, <3>1 DEF Same, Task
      <4> QED
        BY <3>1, <4>1, HandIsAlone
    <3>2. CASE ~Live(d) /\ Begins(d, p)
      BY <1>1, <1>2, <2>1, <3>2, OneBegins
    <3> QED
      BY <1>1, <2>sole, <3>1, <3>2, LiveComes
  <2>5. HasSlot(c)'
    BY <1>1, <1>2, <2>1, BegunIsSeated
  <2>6. proc'[p].pc # "sift"
    <3>1. HandEmptied(p)
      BY <2>2, Zenon DEF Dispatch
    <3>2. proc'[p].pc = proc[p].pc
      BY <1>1, <3>1 DEF HandEmptied, TypeInv, WorkerTypeOK, ProcType, ProcState
    <3>3. proc[p].pc \in WorkLane
      BY <2>1 DEF SentOff, HandIsLaned
    <3> QED
      BY <3>2, <3>3 DEF WorkLane
  <2> QED
    BY <2>2, <2>3, <2>sole, <2>5, <2>6 DEF Bracket
<1>3. CASE Live(c)
  <2>1. Same(c) /\ IsRun(c) /\ Task(c)' = Task(c) /\ Task(c) \in TaskId /\ co[c].proc = p
    BY <1>1, <1>3, LiveComes, CoroutineIsLive DEF Same, IsRun, Task
  <2> DEFINE t == Task(c)
  <2>2. /\ status[t] = "running"
        /\ \A d \in CoId : Live(d) /\ Task(d) = t => c = d
        /\ HasSlot(c)
        /\ proc[p].pc = "sift" => t \notin proc[p].orphans
        /\ co[c].ph \in Bracket => call[t] = "pending"
    BY <2>1 DEF RunIsSole
  <2>own. \A d \in CoId : Own(d) /\ Task(d) = t => c = d /\ RunPath(c)
    <3> SUFFICES ASSUME NEW d \in CoId, Own(d), Task(d) = t
                 PROVE  c = d /\ RunPath(c)
      OBVIOUS
    <3>1. co[d].kind # "idle"
      BY RunsMove, ResumesMove DEF Own
    <3>2. c = d
      BY <1>1, <2>2, <3>1, CoroutineIsLive
    <3> QED
      BY <1>1, <2>1, <3>2, RunsPath, ResumesMove DEF Own, IsRun
  <2>path. RunPath(c) => /\ UNCHANGED status
                         /\ \/ co[c].ph = "exec" /\ call' = [call EXCEPT ![t] = "pending"]
                            \/ co[c].ph \in Bracket /\ co'[c].ph \notin Bracket
                            \/ call' = call /\ (co'[c].ph \in Bracket <=> co[c].ph \in Bracket)
    <3>1. ~End(c)
      BY <1>1 DEF End, Live, TypeInv, WorkerTypeOK, CoType
    <3> QED
      BY <3>1 DEF RunPath
  <2> HIDE DEF t
  <2>hand. proc[p].hand # t
    BY <1>3, HandIsAlone DEF t
  <2>status. status'[t] = "running"
    <3>1. RowMoves(t)
      BY <1>1, <2>1, RowsMove DEF t
    <3>2. \A q \in Proc : ~Refuses(q, t) /\ ~Forgoes(q, t)
      BY <2>2, <2>hand DEF Refuses, Forgoes
    <3> QED
      BY <2>2, <2>own, <2>path, <3>1, <3>2 DEF RowMoves
  <2>sole. ASSUME NEW d \in CoId, Live(d)', Task(d)' = t
           PROVE  c = d
    <3>1. CASE Live(d) /\ Same(d)
      BY <2>2, <2>sole, <3>1 DEF Same, Task
    <3>2. ASSUME Begins(d, p)
          PROVE  FALSE
      <4>1. ~SentOff(d, p)
        BY <2>hand, <2>sole DEF SentOff, Task
      <4>2. ~PickedUp(d, p)
        BY <2>2, <2>sole DEF PickedUp, Task
      <4>3. ~Retried(d, p)
        BY <2>2, <2>sole DEF Retried, Task, RetryArtifactDownload, MayRetryDownload
      <4> QED
        BY <3>2, <4>1, <4>2, <4>3 DEF Begins
    <3> QED
      BY <1>1, <2>sole, <3>1, <3>2, LiveComes
  <2>slot. HasSlot(c)'
    <3>1. ASSUME NEW d \in CoId \ {c}, Disturbs(d, t, p)
          PROVE  FALSE
      <4>1. CASE Seats(p, d) /\ co'[d].task = t
        <5>1. Live(d)'
          BY <1>1, <4>1, SeatedLives
        <5> QED
          BY <2>sole, <4>1, <5>1 DEF Task
      <4>2. CASE Unseats(p, d) /\ Task(d) = t
        BY <2>2, <4>2 DEF Unseats, Live, Idle
      <4> QED
        BY <3>1, <4>1, <4>2 DEF Disturbs
    <3> QED
      BY <1>1, <1>3, <2>1, <2>2, <3>1, SlotStays DEF t
  <2>orphan. ASSUME proc'[p].pc = "sift"
             PROVE  t \notin proc'[p].orphans
    <3>1. t \in ActiveTasks(p)
      BY <2>1, <2>2 DEF HasSlot, ActiveTasks, t
    <3>2. ProcMoves(p)
      BY <1>1, ProcessesMove
    <3>3. CASE Turns(p)
      BY <2>orphan, <2>2, <3>1, <3>3 DEF Turns, WorkLane
    <3> QED
      BY <2>orphan, <2>2, <3>2, <3>3 DEF ProcMoves, PlaceStays, Down
  <2>bracket. ASSUME co'[c].ph \in Bracket
              PROVE  call'[t] = "pending"
    <3>1. CASE Own(c)
      <4>1. t \in TaskId /\ call \in [TaskId -> {"none", "pending"} \cup CallEnd] /\ RunPath(c)
        BY <1>1, <2>1, <2>own, <3>1 DEF t, TypeInv, QueueTypeOK
      <4> QED
        BY <2>2, <2>path, <2>bracket, <4>1
    <3>2. CASE ~Own(c)
      <4>1. co'[c] = co[c]
        BY <1>1, <1>3, <3>2, CoroutinesMove DEF CoMoves, Live
      <4>2. CallMoves(t)
        BY <1>1, <2>1, CallsMove DEF t
      <4>3. \A q \in Proc : ~Retries(q, t)
        BY <2>2 DEF Retries, RetryArtifactDownload, MayRetryDownload
      <4> QED
        BY <2>2, <2>own, <2>bracket, <3>2, <4>1, <4>2, <4>3 DEF CallMoves, Terminal
    <3> QED
      BY <3>1, <3>2
  <2> QED
    BY <2>1, <2>status, <2>sole, <2>slot, <2>orphan, <2>bracket DEF t
<1> QED
  BY <1>2, <1>3

(* A coroutine that is to give its task a verdict gives it, or goes on.    *)
LEMMA TendingEnds ==
  ASSUME TypeInv, [WorkerNext]_vars, NEW p \in Proc, Proc = {p}, proc[p].up = "up", ~Stops(p),
         NEW c \in CoId, NEW t, Tends(c, t), status'[t] = "running"
  PROVE  Tends(c, t)'
<1>1. co[c].proc = p /\ ~Stopping(c) /\ Live(c) /\ Task(c) = t /\ co[c].ph \notin Closing
  BY CoroutineIsLive DEF Tends, Stopping
<1>2. CASE co'[c] = co[c]
  BY <1>1, <1>2 DEF Tends, Live, Task
<1>3. CASE RunStep(c) \/ RunTornDown(c)
  <2>1. IsRun(c) /\ Same(c)
    <3>1. IsRun(c) /\ RunPath(c)
      BY <1>3, RunsPath
    <3> QED
      BY <1>1, <3>1 DEF RunPath
  <2>2. co'[c] \in Coroutine \cup {Idle}
    BY CoTypeStep DEF CoType
  <2>3. co'[c].ph \in RunPhases /\ co'[c] # Idle
    BY <2>1, <2>2 DEF Same, IsRun, Coroutine, Idle
  <2> QED
    BY <1>1, <2>1, <2>3 DEF Tends, Live, Task, Same, RunPhases, Closing
<1>4. CASE ResumeStep(c) \/ ResumeTornDown(c)
  <2>1. co[c].kind = "resume" /\ Same(c) /\ co'[c].ph \notin Closing
    <3>1. co[c].kind = "resume" /\ ResumePath(c)
      BY <1>4, ResumesPath
    <3> QED
      BY <1>1, <3>1 DEF ResumePath
  <2> QED
    BY <1>1, <2>1 DEF Tends, Live, Task, Same, Idle
<1> QED
  BY <1>1, <1>2, <1>3, <1>4, CoroutinesMove DEF CoMoves, Own

LEMMA StrayStays ==
  ASSUME TypeInv, [WorkerNext]_vars, NEW p \in Proc, Proc = {p}, proc[p].up = "up", ~Stops(p),
         NEW t \in TaskId, Stray(t)'
  PROVE  Stray(t)
<1>1. status'[t] = "running" /\ proc'[p].hand # t /\ \A c \in CoId : ~Tends(c, t)'
  BY DEF Stray
<1>2. status[t] = "running"
  <2>1. RowMoves(t)
    BY RowsMove
  <2>2. \A q \in Proc : ~Claims(q, t) /\ ~Retries(q, t)
    BY <1>1, RetriedRuns DEF Claims, Retries
  <2> QED
    BY <1>1, <2>1, <2>2 DEF RowMoves
<1>3. proc[p].hand # t
  <2>1. SUFFICES ASSUME proc[p].hand = t
                 PROVE  FALSE
    OBVIOUS
  <2>2. t # NoTask
    BY DEF TaskId, NoTask
  <2>3. RefuseLane(p) \/ PutBack(p) \/ Dispatch(p)
    <3>1. ProcMoves(p)
      BY ProcessesMove
    <3> QED
      BY <1>1, <2>1, <2>2, <3>1 DEF ProcMoves, PlaceStays, Turns
  <2> QED
    BY <1>1, <2>1, <2>3, HandedOn
<1>4. \A c \in CoId : ~Tends(c, t)
  BY <1>1, TendingEnds
<1> QED
  BY <1>2, <1>3, <1>4 DEF Stray

LEMMA StrayScannedStep ==
  ASSUME TypeInv, TypeInv', HandIsLaned, DownIsEmpty, StrayIsScanned, [WorkerNext]_vars,
         NEW p \in Proc, Proc = {p}
  PROVE  StrayIsScanned'
<1> DEFINE Goal(t) == /\ t \notin ActiveTasks(p)' /\ proc'[p].scan /\ proc'[p].pc # "settle"
                      /\ proc'[p].pc \in {"active", "sift"} => t \in proc'[p].orphans
<1> SUFFICES ASSUME NEW t \in TaskId, proc'[p].up = "up", Stray(t)'
             PROVE  Goal(t)
  BY DEF StrayIsScanned
<1>1. ~Stops(p) /\ (proc[p].up = "up" \/ (Start(p) /\ proc[p].up = "down" /\ proc'[p] = [Down EXCEPT !.up = "up"]))
  BY UpComes
<1>2. CASE Start(p) /\ proc[p].up = "down" /\ proc'[p] = [Down EXCEPT !.up = "up"]
  <2>1. proc'[p].scan /\ proc'[p].pc = "lease"
    BY <1>2 DEF Down
  <2>2. slots'[p] = {}
    BY <1>2 DEF Start, DownIsEmpty
  <2> QED
    BY <2>1, <2>2 DEF ActiveTasks
<1>3. CASE proc[p].up = "up"
  <2>1. Stray(t)
    BY <1>1, <1>3, StrayStays
  <2>2. /\ t \notin ActiveTasks(p) /\ proc[p].scan /\ proc[p].pc # "settle"
        /\ proc[p].pc \in {"active", "sift"} => t \in proc[p].orphans
    BY <1>3, <2>1 DEF StrayIsScanned
  <2>3. /\ status[t] = "running" /\ status'[t] = "running"
        /\ \A c \in CoId : ~Tends(c, t) /\ ~Tends(c, t)'
    BY <2>1 DEF Stray
  <2>4. t \notin ActiveTasks(p)'
    <3>1. ASSUME NEW d \in CoId, Seats(p, d), co'[d].task = t
          PROVE  FALSE
      <4>1. Tends(d, t)' \/ Tends(d, t)
        BY <3>1, SeatedLives DEF Tends, Task, Same, Closing
      <4> QED
        BY <2>3, <4>1
    <3> QED
      BY <2>2, <3>1, ActiveComes
  <2>5. /\ proc'[p].scan /\ proc'[p].pc # "settle"
        /\ proc'[p].pc \in {"active", "sift"} => t \in proc'[p].orphans
    <3>1. ProcMoves(p)
      BY ProcessesMove
    <3>2. CASE PlaceStays(p)
      BY <2>2, <3>2 DEF PlaceStays
    <3>turns. CASE Turns(p)
      <4>1. ~TryMarkFailed(t, "lost")
        BY <2>3, Marks DEF TypeInv, Reasons
      <4>2. \A c \in CoId : PickedUp(c, p) => co'[c].task # t
        BY <2>3, BeginnersTend DEF Begins, Tends, Task
      <4>3. CASE proc[p].pc = "sift"
        <5>1. proc[p].orphans # {} /\ ~Settle(p) /\ ~ScanList(p) /\ ~ScanActive(p)
          BY <2>2, <4>3 DEF Settle, ScanList, ScanActive, AtLoop
        <5>2. proc[p].hand = NoTask
          BY <4>3 DEF HandIsLaned, WorkLane
        <5>3. \/ proc'[p].pc = "sift" /\ proc'[p].scan = proc[p].scan
              /\ \E u \in proc[p].orphans : 
                   /\ proc'[p].orphans = proc[p].orphans \ {u}
                   /\ u # t
          BY <1>3, <2>2, <3>turns, <4>1, <4>2, <4>3, <5>1, <5>2 DEF Turns, WorkLane
        <5> QED
          BY <2>2, <4>3, <5>3
      <4>4. CASE proc[p].pc \in {"lease", "list", "active"}
        <5>1. proc[p].hand = NoTask
          BY <4>4 DEF HandIsLaned, WorkLane
        <5>2. t \in Running
          BY <2>3 DEF Running
        <5> QED
          BY <2>2, <3>turns, <4>4, <5>1, <5>2 DEF Turns, WorkLane
      <4>5. CASE proc[p].pc \in WorkLane
        BY <2>2, <3>turns, <4>5 DEF Turns, WorkLane
      <4> QED
        BY <2>2, <4>3, <4>4, <4>5 DEF TypeInv, WorkerTypeOK, ProcType, ProcState
    <3>4. ~(proc'[p] = Down)
      BY DEF Down
    <3>5. ~Start(p)
      BY <1>3 DEF Start
    <3> QED
      BY <3>1, <3>2, <3>turns, <3>4, <3>5 DEF ProcMoves
  <2> QED
    BY <2>4, <2>5
<1> QED
  BY <1>1, <1>2, <1>3

LEMMA OneStep ==
  ASSUME \E p \in Proc : Proc = {p}, Inv, Inv', OneInv, [WorkerNext]_vars
  PROVE  OneInv'
<1>1. PICK p \in Proc : Proc = {p}
  OBVIOUS
<1>2. TypeInv /\ TypeInv'
  BY DEF Inv
<1>3. HandIsLaned /\ DownIsEmpty /\ HeldIsRunning /\ RunIsSole /\ StrayIsScanned
  BY DEF OneInv
<1>hand. HandIsLaned'
  BY <1>2, <1>3, HandLanedStep
<1>down. DownIsEmpty'
  BY <1>2, <1>3, DownEmptyStep
<1>held. HeldIsRunning'
  BY <1>1, <1>3, HeldRunningStep
<1>run. RunIsSole'
  BY <1>1, <1>3, <1>held, RunSoleStep
<1>stray. StrayIsScanned'
  BY <1>1, <1>2, <1>3, StrayScannedStep
<1> QED
  BY <1>hand, <1>down, <1>held, <1>run, <1>stray DEF OneInv

OneServer == \E p \in Proc : Proc = {p}

LEMMA OneHolds == OneServer => (WorkerSpec => [](Inv /\ OneInv))
<1> SUFFICES ASSUME OneServer
             PROVE  WorkerSpec => [](Inv /\ OneInv)
  OBVIOUS
<1>1. Inv /\ OneInv /\ [WorkerNext]_vars => (Inv /\ OneInv)'
  BY InvStep, OneStep DEF OneServer
<1> QED
  BY <1>1, InvInit, OneInit, PTL DEF WorkerSpec

(* With one server process, which is how the application is deployed       *)
(* (docs/adr/0007-orphan-tasks-not-requeued-on-restart.md:16), no          *)
(* running task is left to nobody once the process is past its scan: for   *)
(* every number of tasks and coroutines, over crashes, restarts, stops,    *)
(* expiries of the lease, retries, and changes of provider and limits.     *)
THEOREM NoOrphanWithOneServer == OneServer => (WorkerSpec => []OwnerLeavesNoOrphan)
<1> SUFFICES ASSUME OneServer
             PROVE  WorkerSpec => []OwnerLeavesNoOrphan
  OBVIOUS
<1>1. OneInv => OwnerLeavesNoOrphan
  <2> SUFFICES ASSUME OneInv, NEW p \in Proc, proc[p].up = "up", ~proc[p].scan,
                      NEW t \in TaskId, Orphaned(t)
               PROVE  FALSE
    BY DEF OwnerLeavesNoOrphan
  <2>1. ~Stray(t)
    BY DEF OneInv, StrayIsScanned
  <2>2. status[t] = "running" /\ Working(t) = {} /\ \A q \in Proc : ~InHand(q, t)
    BY DEF Orphaned
  <2>3. \A c \in CoId : ~Tends(c, t)
    BY <2>2 DEF Tends, Working, Task
  <2>4. PICK q \in Proc : proc[q].hand = t
    BY <2>1, <2>2, <2>3 DEF Stray
  <2> QED
    BY <2>2, <2>4 DEF InHand, OneServer
<1> QED
  BY <1>1, OneHolds, PTL

(* A success on the ledger of one server is never taken back: a bracket    *)
(* that closes unconditionally (finish_call) is only closed by the run     *)
(* that opened it, while the call is still pending.                        *)
THEOREM SuccessKeptWithOneServer == OneServer => (WorkerSpec => SuccessIsKept)
<1> SUFFICES ASSUME OneServer
             PROVE  WorkerSpec => SuccessIsKept
  OBVIOUS
<1>1. ASSUME Inv, OneInv, [WorkerNext]_vars, NEW t \in TaskId, call[t] = "success"
      PROVE  call'[t] = "success"
  <2>1. TypeInv /\ CallMoves(t)
    BY <1>1, CallsMove DEF Inv
  <2>2. \A p \in Proc : ~Retries(p, t)
    BY <1>1 DEF Retries, RetryArtifactDownload, MayRetryDownload
  <2>3. ASSUME NEW c \in CoId, Own(c), Task(c) = t
        PROVE  call'[t] = "success"
    <3>1. CASE RunStep(c) \/ RunTornDown(c)
      <4>1. IsRun(c) /\ RunPath(c)
        BY <2>1, <3>1, RunsPath
      <4>2. co[c].ph # "exec" /\ co[c].ph \notin Bracket
        BY <1>1, <2>3, <4>1 DEF OneInv, RunIsSole, Inv, HolderInv, BeforeCall
      <4> QED
        BY <1>1, <4>1, <4>2 DEF RunPath
    <3>2. CASE ResumeStep(c) \/ ResumeTornDown(c)
      <4>1. SettlesAtMost(t) \/ call' = call
        BY <2>1, <2>3, <3>2, ResumesPath DEF ResumePath
      <4> QED
        BY <1>1, <4>1 DEF SettlesAtMost
    <3> QED
      BY <2>3, <3>1, <3>2 DEF Own
  <2> QED
    BY <1>1, <2>1, <2>2, <2>3 DEF CallMoves
<1>2. Inv /\ OneInv /\ [WorkerNext]_vars => [\A t \in TaskId : call[t] = "success" => call'[t] = "success"]_vars
  BY <1>1
<1> QED
  BY <1>2, OneHolds, PTL DEF WorkerSpec, SuccessIsKept

-----------------------------------------------------------------------------
(* The ledger, for any number of processes.  A call that is pending has a  *)
(* coroutine that will settle it whatever the provider says, or there is a *)
(* process that will come to it: it is on its way down, and scans when it  *)
(* is up again, or it has not scanned yet, does not work on the task and   *)
(* has not left it out.  Which process that is may change at every step.   *)
Due(p, t) ==
  \/ proc[p].up # "up"
  \/ /\ proc[p].scan
     /\ \/ status[t] \in Terminal
        \/ /\ t \notin ActiveTasks(p) /\ proc[p].pc \in {"lease", "list", "active", "sift"}
           /\ proc[p].pc \in {"active", "sift"} => t \in proc[p].orphans
CallIsAnswered ==
  \A t \in TaskId : call[t] = "pending" =>
    \/ \E c \in CoId : Answers(c, t)
    \/ \E p \in Proc : Due(p, t)
LedgerInv == HandIsLaned /\ DownIsEmpty /\ CallIsAnswered

(* The task of a pending call is running or finished.                      *)
LEMMA PendingIsBegun ==
  ASSUME Inv, NEW t \in TaskId, call[t] = "pending"
  PROVE  status[t] \in {"running"} \cup Terminal
<1>1. ~Untouched(t)
  BY DEF Inv, HolderInv, Fresh
<1> QED
  BY <1>1 DEF Untouched, Inv, TypeInv, QueueTypeOK, Status, Active, Terminal

(* A call that becomes pending has somebody who answers for it.            *)
LEMMA PendingComes ==
  ASSUME TypeInv, [WorkerNext]_vars, NEW t \in TaskId, call'[t] = "pending"
  PROVE  call[t] = "pending" \/ \E c \in CoId : Answers(c, t)'
<1> DEFINE Goal == call[t] = "pending" \/ \E c \in CoId : Answers(c, t)'
<1>retried. ASSUME NEW p \in Proc, Retries(p, t)
            PROVE  Goal
  BY <1>retried, RetriedRuns DEF Retries
<1>own. ASSUME NEW c \in CoId, Own(c), Task(c) = t
        PROVE  Goal
  <2>1. CASE RunStep(c) \/ RunTornDown(c)
    <3>1. IsRun(c) /\ RunPath(c)
      BY <2>1, RunsPath
    <3>2. CASE call' = call
      BY <3>2
    <3>3. CASE Same(c) /\ co'[c].ph \in Bracket
      BY <1>own, <3>1, <3>3 DEF Answers, Accountable, Same, IsRun, Live, Idle, Task
    <3>4. CASE \E end \in CallEnd : call' = [call EXCEPT ![t] = end]
      BY <3>4 DEF CallEnd, TypeInv, QueueTypeOK
    <3> QED
      BY <1>own, <3>1, <3>2, <3>3, <3>4 DEF RunPath
  <2>2. CASE ResumeStep(c) \/ ResumeTornDown(c)
    <3>1. SettlesAtMost(t) \/ call' = call
      BY <1>own, <2>2, ResumesPath DEF ResumePath
    <3> QED
      BY <3>1 DEF SettlesAtMost
  <2> QED
    BY <1>own, <2>1, <2>2 DEF Own
<1> HIDE DEF Goal
<1>1. CallMoves(t)
  BY CallsMove
<1>2. call'[t] = call[t] => Goal
  BY DEF Goal
<1>3. call[t] = "pending" => Goal
  BY DEF Goal
<1>4. Goal
  BY <1>retried, <1>own, <1>1, <1>2, <1>3 DEF CallMoves
<1> QED
  BY <1>4 DEF Goal

(* Whoever answers for a call goes on to, has settled it, or is torn down  *)
(* with its process.                                                       *)
LEMMA AnswererStays ==
  ASSUME TypeInv, [WorkerNext]_vars, NEW t \in TaskId, call[t] = "pending", call'[t] = "pending",
         NEW c \in CoId, Answers(c, t)
  PROVE  Answers(c, t)' \/ proc'[co[c].proc].up # "up"
<1> DEFINE p == co[c].proc
<1>1. Live(c) /\ Task(c) = t /\ Accountable(c) /\ CoMoves(c) /\ p \in Proc
  BY CoroutinesMove, CoroutineIsLive DEF Answers
<1>same. CASE co'[c] = co[c]
  BY <1>1, <1>same DEF Answers, Live, Task, Accountable, IsRun
<1>stops. CASE Stops(p)
  BY <1>1, <1>stops, UpComes
<1>run. CASE RunStep(c) \/ RunTornDown(c)
  <2>1. IsRun(c) /\ RunPath(c) /\ co[c].ph \in Bracket
    BY <1>1, <1>run, RunsPath DEF Accountable, IsRun
  <2>2. ~\E end \in CallEnd : call' = [call EXCEPT ![t] = end]
    BY DEF CallEnd, TypeInv, QueueTypeOK
  <2>3. Same(c) /\ co'[c].ph \in Bracket
    BY <1>1, <2>1, <2>2 DEF RunPath, Bracket
  <2> QED
    BY <1>1, <2>1, <2>3 DEF Answers, Accountable, Same, IsRun, Live, Idle, Task
<1>resume. CASE ResumeStep(c) \/ ResumeTornDown(c)
  <2>1. co[c].kind = "resume" /\ ResumePath(c)
    BY <1>resume, ResumesPath
  <2>2. co[c].ph # "land"
    BY <1>1, <2>1 DEF Accountable, IsRun
  <2>3. CASE Stopping(c)
    <3>1. proc[p].up = "stopping"
      BY <2>3 DEF Stopping
    <3> QED
      BY <1>1, <3>1, UpComes
  <2>4. CASE ~Stopping(c)
    <3>1. Same(c) /\ Accountable(c)'
      BY <1>1, <2>1, <2>2, <2>4 DEF ResumePath
    <3> QED
      BY <1>1, <2>1, <3>1 DEF Answers, Same, Live, Idle, Task
  <2> QED
    BY <2>3, <2>4
<1> QED
  BY <1>1, <1>same, <1>stops, <1>run, <1>resume DEF CoMoves, Own

(* A process that is to come to a task comes to it, or somebody else has   *)
(* taken the task up, who answers for it.                                  *)
LEMMA DueStays ==
  ASSUME Inv, Inv', HandIsLaned, DownIsEmpty, [WorkerNext]_vars,
         NEW t \in TaskId, call[t] = "pending", call'[t] = "pending",
         NEW p \in Proc, Due(p, t)
  PROVE  Due(p, t)' \/ \E c \in CoId : Answers(c, t)'
<1> DEFINE Goal == Due(p, t)' \/ \E c \in CoId : Answers(c, t)'
<1>types. TypeInv /\ TypeInv' /\ t # NoTask
  BY DEF Inv, TaskId, NoTask
<1>begun. status[t] \in {"running"} \cup Terminal /\ status'[t] \in {"running"} \cup Terminal
  <2>1. status'[t] \in {"running"} \cup Terminal
    <3>1. ~Untouched(t)'
      BY DEF Inv, HolderInv, Fresh
    <3> QED
      BY <1>types, <3>1 DEF Untouched, TypeInv, QueueTypeOK, Status, Active, Terminal
  <2> QED
    BY <2>1, PendingIsBegun
<1> SUFFICES ASSUME proc'[p].up = "up"
             PROVE  Goal
  BY DEF Due
<1>started. CASE Start(p) /\ proc[p].up = "down" /\ proc'[p] = [Down EXCEPT !.up = "up"]
  <2>1. proc'[p].scan /\ proc'[p].pc = "lease"
    BY <1>started DEF Down
  <2>2. slots[p] = {} /\ slots' = slots
    BY <1>started DEF DownIsEmpty, Start
  <2>3. t \notin ActiveTasks(p)'
    BY <2>2 DEF ActiveTasks
  <2> QED
    BY <2>1, <2>3 DEF Due
<1>up. CASE proc[p].up = "up" /\ ~Stops(p)
  <2>moves. ProcMoves(p) /\ ~Start(p) /\ proc'[p] # Down
    BY <1>types, <1>up, ProcessesMove DEF Start, Down
  <2>settled. ~(Settle(p) /\ status[t] \in Terminal)
    BY DEF Settle, SettleInterrupted
  <2>scan. proc[p].scan /\ (proc'[p].scan \/ Settle(p))
    BY <1>up, <2>moves DEF Due, ProcMoves, PlaceStays, Turns
  <2>retried. ASSUME NEW q \in Proc, Retries(q, t)
              PROVE  Goal
    BY <1>types, <2>retried, RetriedRuns DEF Retries
  <2>over. CASE status'[t] \in Terminal /\ proc'[p].scan
    BY <2>over DEF Due
  <2>finished. CASE status[t] \in Terminal
    <3>1. RowMoves(t)
      BY <1>types, RowsMove
    <3>2. \A q \in Proc : ~Claims(q, t)
      BY <2>finished DEF Claims, Terminal
    <3>3. status'[t] \in Terminal \/ \E q \in Proc : Retries(q, t)
      BY <1>begun, <2>finished, <3>1, <3>2 DEF RowMoves
    <3> QED
      BY <2>finished, <2>settled, <2>scan, <2>over, <2>retried, <3>3
  <2>listed. CASE /\ status[t] = "running" /\ status'[t] = "running"
                  /\ t \notin ActiveTasks(p) /\ proc[p].pc \in {"lease", "list", "active", "sift"}
                  /\ proc[p].pc \in {"active", "sift"} => t \in proc[p].orphans
    <3>1. CASE t \in ActiveTasks(p)'
      <4>1. PICK d \in CoId : Seats(p, d) /\ co'[d].task = t
        BY <1>types, <2>listed, <3>1, ActiveComes
      <4>2. CASE Begins(d, p)
        <5>1. ~SentOff(d, p)
          <6>1. proc[p].hand = NoTask
            BY <2>listed DEF HandIsLaned, WorkLane
          <6> QED
            BY <6>1 DEF SentOff
        <5>2. Live(d)' /\ Accountable(d)'
          BY <4>2, <5>1, BeginnersTend
        <5> QED
          BY <4>1, <5>2 DEF Answers, Task
      <4>3. CASE RegisterRetry(d) /\ co[d].ph = "dispatch" /\ Live(d) /\ Same(d)
        <5>1. Answers(d, t)
          <6>1. co[d].kind = "resume" /\ Task(d) = t
            BY <4>1, <4>3 DEF RegisterRetry, Resume, Same, Task
          <6> QED
            BY <4>3, <6>1 DEF Answers, Accountable
        <5>2. Answers(d, t)' \/ proc'[p].up # "up"
          BY <1>types, <4>1, <4>3, <5>1, AnswererStays DEF Seats, Same
        <5> QED
          BY <5>2
      <4> QED
        BY <4>1, <4>2, <4>3 DEF Seats
    <3>2. CASE t \notin ActiveTasks(p)'
      <4>keeps. CASE /\ proc'[p].scan
                     /\ proc'[p].pc \in {"lease", "list", "active", "sift"}
                     /\ proc'[p].pc \in {"active", "sift"} => t \in proc'[p].orphans
        BY <3>2, <4>keeps DEF Due
      <4>takes. ASSUME NEW u \in proc[p].orphans,
                       proc[p].pc = "sift", proc'[p].pc = "sift", proc'[p].scan,
                       proc'[p].orphans = proc[p].orphans \ {u},
                       TryMarkFailed(u, "lost") \/ \E c \in CoId : PickedUp(c, p) /\ co'[c].task = u
                PROVE  Goal
        <5>1. CASE u # t
          BY <2>listed, <4>keeps, <4>takes, <5>1
        <5>2. CASE u = t /\ TryMarkFailed(t, "lost")
          BY <1>types, <2>listed, <5>2, Marks DEF TypeInv, Reasons
        <5>3. ASSUME NEW c \in CoId, PickedUp(c, p), co'[c].task = t
              PROVE  Goal
          <6>1. Begins(c, p) /\ co'[c].kind = "resume"
            BY <5>3 DEF Begins, PickedUp
          <6>2. Live(c)' /\ Accountable(c)'
            BY <6>1, BeginnersTend
          <6> QED
            BY <5>3, <6>2 DEF Answers, Task
        <5> QED
          BY <4>takes, <5>1, <5>2, <5>3
      <4>1. t \in Running
        BY <2>listed DEF Running
      <4>2. CASE PlaceStays(p)
        BY <2>listed, <2>scan, <4>keeps, <4>2 DEF PlaceStays
      <4>3. CASE Turns(p)
        <5> HIDE DEF Goal
        <5> QED
          BY <1>up, <2>listed, <2>scan, <4>keeps, <4>takes, <4>1, <4>3 DEF Turns, WorkLane
      <4> QED
        BY <1>up, <2>moves, <4>2, <4>3 DEF ProcMoves
    <3> QED
      BY <3>1, <3>2
  <2>ended. CASE status'[t] \in Terminal /\ status[t] = "running"
    <3>1. ~Settle(p)
      BY <2>ended DEF Settle, SettleInterrupted, rowVars, Terminal
    <3> QED
      BY <2>scan, <2>over, <2>ended, <3>1
  <2> QED
    BY <1>begun, <1>up, <2>finished, <2>listed, <2>ended DEF Due
<1> QED
  BY <1>types, <1>started, <1>up, UpComes

LEMMA LedgerStep ==
  ASSUME Inv, Inv', LedgerInv, [WorkerNext]_vars
  PROVE  LedgerInv'
<1>types. TypeInv /\ HandIsLaned /\ DownIsEmpty /\ CallIsAnswered
  BY DEF Inv, LedgerInv
<1>hand. HandIsLaned'
  BY <1>types, HandLanedStep
<1>down. DownIsEmpty'
  BY <1>types, DownEmptyStep
<1>call. CallIsAnswered'
  <2> SUFFICES ASSUME NEW t \in TaskId, call'[t] = "pending"
               PROVE  (\E c \in CoId : Answers(c, t)') \/ \E p \in Proc : Due(p, t)'
    BY DEF CallIsAnswered
  <2>1. CASE call[t] # "pending"
    BY <1>types, <2>1, PendingComes
  <2>2. ASSUME call[t] = "pending", NEW c \in CoId, Answers(c, t)
        PROVE  Answers(c, t)' \/ \E p \in Proc : Due(p, t)'
    <3>1. co[c].proc \in Proc
      BY <1>types, <2>2, CoroutineIsLive DEF Answers
    <3> QED
      BY <1>types, <2>2, <3>1, AnswererStays DEF Due
  <2>3. ASSUME call[t] = "pending", NEW p \in Proc, Due(p, t)
        PROVE  Due(p, t)' \/ \E c \in CoId : Answers(c, t)'
    BY <1>types, <2>3, DueStays
  <2> QED
    BY <1>types, <2>1, <2>2, <2>3 DEF CallIsAnswered
<1> QED
  BY <1>hand, <1>down, <1>call DEF LedgerInv

(* However many processes share the queue, lose the lease to each other,   *)
(* crash and retry, the call of a finished task is pending only while      *)
(* somebody is about to settle it or has still to scan.                    *)
THEOREM LedgerSettled == WorkerSpec => []LedgerIsSettled
<1>1. WorkerInit => LedgerInv
  <2> SUFFICES ASSUME WorkerInit
               PROVE  LedgerInv
    OBVIOUS
  <2>1. \A c \in CoId : ~Live(c)
    BY DEF WorkerInit, Live
  <2>2. \A p \in Proc : proc[p].up = "down" /\ proc[p].hand = NoTask /\ slots[p] = {}
    BY DEF WorkerInit, Down
  <2>3. \A t \in TaskId : call[t] # "pending"
    BY DEF WorkerInit, QueueInit
  <2> QED
    BY <2>1, <2>2, <2>3 DEF LedgerInv, HandIsLaned, DownIsEmpty, CallIsAnswered
<1>2. Inv /\ LedgerInv /\ [WorkerNext]_vars => (Inv /\ LedgerInv)'
  BY InvStep, LedgerStep
<1>3. Inv /\ LedgerInv => LedgerIsSettled
  <2> SUFFICES ASSUME LedgerInv, NEW t \in TaskId, status[t] \in Terminal, call[t] = "pending",
                      \A p \in Proc : proc[p].up = "up" /\ ~proc[p].scan
               PROVE  Working(t) # {}
    BY DEF LedgerIsSettled
  <2>1. PICK c \in CoId : Answers(c, t)
    BY DEF LedgerInv, CallIsAnswered, Due
  <2> QED
    BY <2>1 DEF Answers, Working, Task
<1> QED
  BY <1>1, <1>2, <1>3, InvInit, PTL DEF WorkerSpec

-----------------------------------------------------------------------------
(* That no pool is overrun.  This is about one server process whose limits *)
(* stand and where nothing is retried: a retried download asks no pool,    *)
(* and a table that shrinks is below what was dispatched before.           *)
LimitsStand == Tables = {Builtin}

(* A process that scans has nothing else to do: what it resumes is all it  *)
(* works on, and is of its present round.                                  *)
LeaseIsKept == \A p \in Proc : ~proc[p].lost /\ (proc[p].owns => lease \in {p, Free})
ScanIsFirst ==
  \A p \in Proc :
    /\ proc[p].pc \in WorkLane => ~proc[p].scan
    /\ proc[p].pc \in {"list", "active", "sift", "settle"} => proc[p].scan
    /\ proc[p].pc \in {"active", "sift"} => proc[p].round # 0
    /\ \A c \in CoId : Live(c) /\ co[c].proc = p /\ proc[p].scan =>
         co[c].kind = "resume" /\ proc[p].pc \notin {"lease", "list"}
ReadyIsVideo == \A p \in Proc : \A t \in proc[p].ready : Lane(t) = "video"
ResumeIsGrouped ==
  \A c \in CoId : Live(c) /\ co[c].kind = "resume" =>
    /\ co[c].group # 0 /\ co[c].group = proc[co[c].proc].round
    /\ Lane(Task(c)) = "video" /\ co[c].cap = Builtin[co[c].prov]["video"]

(* The resumes past the semaphore, and the coroutines with a slot.         *)
Begun(p, q) ==
  {c \in CoId : /\ co[c].kind = "resume" /\ co[c].ph \notin NotBegun \cup {"quit", "drop"}
                /\ co[c].proc = p /\ co[c].prov = q}
Seated(p, q, lane) ==
  {c \in CoId : Slotted(c) /\ co[c].proc = p /\ co[c].prov = q /\ Lane(Task(c)) = lane}
BegunFit == \A p \in Proc, q \in Provider : Cardinality(Begun(p, q)) <= Builtin[q]["video"]
RunsIn(p, q, lane) ==
  {c \in CoId : Live(c) /\ IsRun(c) /\ co[c].proc = p /\ co[c].prov = q /\ Lane(Task(c)) = lane}
RunsFit ==
  \A p \in Proc, q \in Provider, lane \in WorkLane : RunsIn(p, q, lane) # {} =>
    Cardinality(Seated(p, q, lane)) <= Builtin[q][lane]
PoolInv == LeaseIsKept /\ ScanIsFirst /\ ReadyIsVideo /\ ResumeIsGrouped /\ BegunFit /\ RunsFit

-----------------------------------------------------------------------------
(* What a step does to what a process knows of its lease and its round.    *)
LifeMoves(p) ==
  \/ Stops(p) /\ proc'[p] = Down
  \/ Start(p) /\ proc[p].up = "down" /\ proc'[p] = [Down EXCEPT !.up = "up"] /\ lease' = lease
  \/ /\ Heartbeat(p)
     /\ proc'[p].owns = MayHold(p) /\ proc'[p].lost = (~MayHold(p) /\ (proc[p].lost \/ proc[p].owns))
     /\ proc'[p].round = proc[p].round /\ (MayHold(p) => lease' = p)
     /\ ~proc[p].lost => proc'[p].scan = proc[p].scan
  \/ ScanList(p) /\ proc'[p].owns = proc[p].owns /\ proc'[p].lost = proc[p].lost
     /\ proc'[p].round = proc[p].round + 1 /\ lease' = lease
  \/ proc'[p].owns = proc[p].owns /\ proc'[p].lost = proc[p].lost
     /\ proc'[p].round = proc[p].round /\ lease' \in {lease, Free} /\ ~Heartbeat(p) /\ ~ScanList(p)

LEMMA LifesMove ==
  ASSUME TypeInv, [WorkerNext]_vars, NEW p \in Proc, Proc = {p}
  PROVE  LifeMoves(p)
<1>1. proc \in [Proc -> ProcState] /\ proc[p] \in ProcState
  BY DEF TypeInv, WorkerTypeOK, ProcType
<1> DEFINE Rest == /\ proc'[p].owns = proc[p].owns /\ proc'[p].lost = proc[p].lost
                   /\ proc'[p].round = proc[p].round
<1>heartbeat. CASE Heartbeat(p)
  <2>1. PICK scan \in IF MayHold(p) /\ proc[p].lost THEN {proc[p].scan, TRUE} ELSE {proc[p].scan} :
          /\ proc' = [proc EXCEPT
              ![p].owns = MayHold(p),
              ![p].lost = ~MayHold(p) /\ (@ \/ proc[p].owns),
              ![p].scan = scan,
              ![p].pc = IF ~MayHold(p) THEN "lease" ELSE IF scan THEN "list" ELSE "image"]
    BY <1>heartbeat, Zenon DEF Heartbeat
  <2>2. MayHold(p) => lease' = p
    BY <1>heartbeat, Zenon DEF Heartbeat
  <2>3. /\ proc'[p].owns = MayHold(p) /\ proc'[p].lost = (~MayHold(p) /\ (proc[p].lost \/ proc[p].owns))
        /\ proc'[p].round = proc[p].round /\ proc'[p].scan = scan
    <3> HIDE <1>heartbeat
    <3> QED
      BY <1>1, <2>1 DEF ProcState
  <2> QED
    BY <1>heartbeat, <2>1, <2>2, <2>3 DEF LifeMoves
<1>list. CASE ScanList(p)
  <2>1. \E a, b, d : proc' = [proc EXCEPT ![p].orphans = a, ![p].ready = b, ![p].round = @ + 1, ![p].pc = d]
    BY <1>list, Zenon DEF ScanList
  <2>2. lease' = lease
    BY <1>list, Zenon DEF ScanList
  <2>3. /\ proc'[p].owns = proc[p].owns /\ proc'[p].lost = proc[p].lost
        /\ proc'[p].round = proc[p].round + 1
    <3> HIDE <1>list
    <3> QED
      BY <1>1, <2>1 DEF ProcState
  <2> QED
    BY <1>list, <2>2, <2>3 DEF LifeMoves
<1> SUFFICES ASSUME ~Heartbeat(p), ~ScanList(p)
             PROVE  LifeMoves(p)
  BY <1>heartbeat, <1>list
<1>rest. CASE Rest /\ lease' \in {lease, Free}
  BY <1>rest DEF LifeMoves
<1>same. CASE UNCHANGED <<proc, lease>>
  BY <1>same, <1>rest
<1>loop. ASSUME MainLoop(p)
         PROVE  Rest /\ lease' = lease
  <2>lease. lease' = lease
    BY <1>loop, MainLoopIsQuiet
  <2>1. CASE ScanActive(p) \/ FailOrphan(p) \/ ScanDone(p) \/ Settle(p) \/ LaneEmpty(p)
    BY <1>1, <2>lease, <2>1 DEF ScanActive, FailOrphan, ScanDone, Settle, LaneEmpty, ProcState
  <2>2. CASE DispatchOrphan(p)
    BY <1>1, <2>lease, <2>2 DEF DispatchOrphan, ProcState
  <2>claim. CASE Claim(p)
    BY <1>1, <2>lease, <2>claim DEF Claim, ProcState
  <2>4. CASE ProjectProvider(p) \/ RefuseLane(p)
    BY <1>1, <2>lease, <2>4 DEF ProjectProvider, RefuseLane, HandEmptied, ProcState
  <2>5. CASE PutBack(p) \/ Dispatch(p)
    <3>1. HandEmptied(p)
      BY <2>5, Zenon DEF PutBack, Dispatch
    <3> QED
      BY <1>1, <2>lease, <3>1 DEF HandEmptied, ProcState
  <2> QED
    BY <1>loop, <2>1, <2>2, <2>claim, <2>4, <2>5 DEF MainLoop
<1>gone. CASE Crash(p) \/ StopDone(p)
  BY <1>1, <1>gone DEF Crash, StopDone, Gone, Stops, LifeMoves
<1>start. CASE Start(p)
  BY <1>1, <1>start DEF Start, LifeMoves
<1>told. CASE ReloadLimits(p) \/ StopSignal(p)
  <2>1. Rest /\ lease' = lease
    BY <1>1, <1>told DEF ReloadLimits, StopSignal, ProcState
  <2> QED
    BY <1>rest, <2>1
<1>expires. CASE LeaseExpires
  BY <1>rest, <1>expires DEF LeaseExpires
<1>others. UserEnqueue \/ UserCancel \/ Reconfigure \/ RetryDownload(p) \/ UNCHANGED vars => UNCHANGED <<proc, lease>>
  <2>1. RetryDownload(p) => UNCHANGED <<proc, lease>>
    BY DEF RetryDownload
  <2> QED
    BY <2>1 DEF UserEnqueue, UserCancel, Reconfigure, workerVars, vars
<1>run. ASSUME NEW c \in CoId, RunStep(c) \/ RunTornDown(c)
        PROVE  UNCHANGED <<proc, lease>>
  BY <1>run, RunsAreQuiet
<1>resume. ASSUME NEW c \in CoId, ResumeStep(c) \/ ResumeTornDown(c)
           PROVE  Rest /\ lease' = lease
  <2>1. UNCHANGED lease /\ (RegisterRetry(c) \/ UNCHANGED proc)
    BY <1>resume, ResumesAreQuiet
  <2>2. CASE UNCHANGED proc
    BY <2>1, <2>2
  <2>3. CASE RegisterRetry(c)
    <3>1. UNCHANGED proc \/ \E q, tab : proc' = [proc EXCEPT ![q].table = tab]
      BY <2>3, Zenon DEF RegisterRetry
    <3> QED
      BY <1>1, <2>1, <3>1 DEF ProcState
  <2> QED
    BY <2>1, <2>2, <2>3
<1> HIDE DEF Rest
<1> QED
  BY <1>rest, <1>same, <1>loop, <1>gone, <1>start, <1>told, <1>expires, <1>others, <1>run, <1>resume
     DEF WorkerNext, Environment

LEMMA LeaseKeptStep ==
  ASSUME TypeInv, LeaseIsKept, [WorkerNext]_vars, NEW p \in Proc, Proc = {p}
  PROVE  LeaseIsKept'
<1>1. LifeMoves(p) /\ ~proc[p].lost /\ (proc[p].owns => lease \in {p, Free})
  BY LifesMove DEF LeaseIsKept
<1>2. ~Down.owns /\ ~Down.lost /\ ~[Down EXCEPT !.up = "up"].owns /\ ~[Down EXCEPT !.up = "up"].lost
  BY DEF Down
<1>3. ~proc'[p].lost /\ (proc'[p].owns => lease' \in {p, Free})
  BY <1>1, <1>2 DEF LifeMoves, MayHold
<1> QED
  BY <1>3 DEF LeaseIsKept

(* Rows keep their lane, and what a coroutine or a scan works on has one.  *)
LEMMA LaneStays ==
  ASSUME TypeInv, [WorkerNext]_vars, NEW t \in TaskId, status[t] # "absent"
  PROVE  Lane(t)' = Lane(t)
BY RowsStep DEF RowStep, Lane

LEMMA WorkedIsThere ==
  ASSUME Inv, NEW c \in CoId, Live(c)
  PROVE  Task(c) \in TaskId /\ status[Task(c)] # "absent"
<1>1. co[c].kind \in {"run", "resume"} /\ Task(c) \in TaskId
  BY CoroutineIsLive DEF Inv
<1>2. CASE co[c].kind = "run"
  BY <1>1, <1>2 DEF Inv, HolderInv, IsRun, Untouched
<1>3. CASE co[c].kind = "resume"
  BY <1>1, <1>3, JobIsSubmitted DEF Inv, JobInv
<1> QED
  BY <1>1, <1>2, <1>3

(* What begins, where nothing is retried, and where the process then is.   *)
LEMMA BeginsWhere ==
  ASSUME MaxRetries = 0, TypeInv, HandIsLaned, NEW c \in CoId, NEW p \in Proc, Begins(c, p)
  PROVE  \/ PickedUp(c, p) /\ proc[p].pc = "sift" /\ co'[c].kind = "resume"
         \/ SentOff(c, p) /\ proc[p].pc \in WorkLane /\ co'[c].kind = "run"
BY NothingRetried DEF Begins, Retried, PickedUp, SentOff, HandIsLaned

LEMMA ScanFirstStep ==
  ASSUME MaxRetries = 0, TypeInv, TypeInv', HandIsLaned, DownIsEmpty, DownIsEmpty', LeaseIsKept, ScanIsFirst,
         [WorkerNext]_vars, NEW p \in Proc, Proc = {p}
  PROVE  ScanIsFirst'
<1>1. /\ proc[p].pc \in WorkLane => ~proc[p].scan
      /\ proc[p].pc \in {"list", "active", "sift", "settle"} => proc[p].scan
      /\ proc[p].pc \in {"active", "sift"} => proc[p].round # 0
  BY DEF ScanIsFirst
<1>2. \A c \in CoId : Live(c) /\ co[c].proc = p /\ proc[p].scan =>
         co[c].kind = "resume" /\ proc[p].pc \notin {"lease", "list"}
  BY DEF ScanIsFirst
<1>3. ProcMoves(p) /\ LifeMoves(p) /\ ~proc[p].lost /\ proc[p].round \in Nat /\ proc[p].scan \in BOOLEAN
  BY ProcessesMove, LifesMove DEF LeaseIsKept, TypeInv, WorkerTypeOK, ProcType, ProcState
<1> SUFFICES /\ proc'[p].pc \in WorkLane => ~proc'[p].scan
             /\ proc'[p].pc \in {"list", "active", "sift", "settle"} => proc'[p].scan
             /\ proc'[p].pc \in {"active", "sift"} => proc'[p].round # 0
             /\ \A c \in CoId : Live(c)' /\ co'[c].proc = p /\ proc'[p].scan =>
                  co'[c].kind = "resume" /\ proc'[p].pc \notin {"lease", "list"}
  BY DEF ScanIsFirst, Live
<1>none. CASE (Stops(p) /\ proc'[p] = Down) \/ (Start(p) /\ proc'[p] = [Down EXCEPT !.up = "up"] /\ proc[p].up = "down")
  <2>1. proc'[p].pc = "lease" /\ proc'[p].scan
    BY <1>none DEF Down
  <2>2. \A c \in CoId : ~(Live(c)' /\ co'[c].proc = p)
    <3>1. CASE Stops(p) /\ proc'[p] = Down
      <4>1. proc'[p].up = "down"
        BY <3>1 DEF Down
      <4> QED
        BY <4>1 DEF DownIsEmpty, Live
    <3>2. CASE Start(p) /\ proc[p].up = "down"
      BY <3>2 DEF DownIsEmpty, Start, Live
    <3> QED
      BY <1>none, <3>1, <3>2
  <2> QED
    BY <2>1, <2>2 DEF WorkLane
<1>some. CASE PlaceStays(p) \/ Turns(p)
  <2>begins. ASSUME NEW c \in CoId, Live(c)', co'[c].proc = p, proc[p].scan
             PROVE  co'[c].kind = "resume" /\ proc[p].pc \notin {"lease", "list"}
    <3>1. CASE Live(c) /\ Same(c)
      BY <1>2, <2>begins, <3>1 DEF Same
    <3>2. CASE Begins(c, p)
      BY <1>1, <2>begins, <3>2, BeginsWhere DEF WorkLane
    <3> QED
      BY <2>begins, <3>1, <3>2, LiveComes
  <2>heartbeat. CASE /\ Heartbeat(p) /\ proc'[p].round = proc[p].round
                     /\ ~proc[p].lost => proc'[p].scan = proc[p].scan
    <3>1. proc[p].pc = "lease"
      BY <2>heartbeat DEF Heartbeat, AtLoop
    <3>2. proc'[p].scan = proc[p].scan
      BY <1>3, <2>heartbeat
    <3>3. \A c \in CoId : ~(Live(c)' /\ co'[c].proc = p /\ proc'[p].scan)
      BY <2>begins, <3>1, <3>2
    <3>4. \/ proc'[p].pc = "lease"
          \/ proc'[p].pc = "list" /\ proc'[p].scan
          \/ proc'[p].pc = "image" /\ ~proc'[p].scan
      BY <1>some, <3>1 DEF PlaceStays, Turns, WorkLane
    <3> QED
      BY <3>3, <3>4 DEF WorkLane
  <2>list. CASE ScanList(p) /\ proc'[p].round = proc[p].round + 1
    <3>1. proc[p].pc = "list"
      BY <2>list DEF ScanList, AtLoop
    <3>2. proc'[p].pc \in {"list", "active", "settle"} /\ proc'[p].scan = proc[p].scan
      BY <1>some, <3>1 DEF PlaceStays, Turns, WorkLane
    <3> QED
      BY <1>1, <1>3, <2>list, <2>begins, <3>1, <3>2 DEF WorkLane
  <2>other. CASE proc'[p].round = proc[p].round /\ ~Heartbeat(p) /\ ~ScanList(p)
    <3>1. PlaceStays(p) => proc'[p].pc = proc[p].pc /\ proc'[p].scan = proc[p].scan
      BY DEF PlaceStays
    <3>2. Turns(p) =>
            \/ proc[p].pc = "active" /\ proc'[p].pc = "sift" /\ proc'[p].scan = proc[p].scan
            \/ proc[p].pc = "sift" /\ proc'[p].pc \in {"sift", "settle"} /\ proc'[p].scan = proc[p].scan
            \/ proc'[p].pc = "image" /\ ~proc'[p].scan
            \/ /\ proc[p].pc \in WorkLane /\ proc'[p].pc \in {proc[p].pc, "video", "lease"}
               /\ proc'[p].scan = proc[p].scan
            \/ proc'[p].pc = proc[p].pc /\ proc'[p].scan = proc[p].scan
      BY <2>other DEF Turns
    <3>3. \A c \in CoId : Live(c)' /\ co'[c].proc = p /\ proc[p].scan =>
            co'[c].kind = "resume" /\ proc[p].pc \notin {"lease", "list"}
      BY <2>begins
    <3> QED
      BY <1>1, <1>some, <2>other, <3>1, <3>2, <3>3 DEF WorkLane
  <2> QED
    BY <1>3, <1>none, <2>heartbeat, <2>list, <2>other DEF LifeMoves
<1> QED
  BY <1>3, <1>none, <1>some DEF ProcMoves

(* What a scan puts aside, and what becomes of a resume on the way.        *)
LEMMA ReadyVideoStep ==
  ASSUME TypeInv, ReadyIsVideo, [WorkerNext]_vars, NEW p \in Proc, Proc = {p}
  PROVE  ReadyIsVideo'
<1> SUFFICES ASSUME NEW t \in proc'[p].ready
             PROVE  Lane(t)' = "video"
  BY DEF ReadyIsVideo
<1>1. proc \in [Proc -> ProcState] /\ proc[p] \in ProcState
  BY DEF TypeInv, WorkerTypeOK, ProcType
<1>list. CASE ScanList(p)
  <2> DEFINE ready == {u \in {v \in TaskId : status[v] = "running"} :
                         Lane(u) = "video" /\ u \in ckpts /\ u \in jobs /\ prov[u] \in Resumable}
  <2>1. \E a, b, d : proc' = [proc EXCEPT ![p].orphans = a, ![p].ready = ready, ![p].round = b, ![p].pc = d]
    BY <1>list, Zenon DEF ScanList
  <2>2. UNCHANGED key
    BY <1>list DEF ScanList, queueVars, rowVars
  <2>3. Lane(t) = "video"
    <3> HIDE <1>list DEF ready
    <3>1. proc'[p].ready = ready
      BY <1>1, <2>1 DEF ProcState
    <3> QED
      BY <3>1 DEF ready
  <2> QED
    BY <2>2, <2>3 DEF Lane
<1>other. CASE ~ScanList(p)
  <2>1. Down.ready = {} /\ [Down EXCEPT !.up = "up"].ready = {}
    BY DEF Down
  <2>2. proc'[p].ready \subseteq proc[p].ready
    BY <1>other, <2>1, ProcessesMove DEF ProcMoves, PlaceStays, Turns
  <2>3. t \in TaskId /\ status[t] # "absent" /\ Lane(t) = "video"
    BY <1>1, <2>2 DEF TypeInv, ReadyIsKnown, ReadyIsVideo, ProcState
  <2> QED
    BY <2>3, LaneStays
<1> QED
  BY <1>list, <1>other

LEMMA ResumeKeepsGroup ==
  ASSUME TypeInv, NEW c \in CoId, co[c].ph # "dispatch", Live(c), ResumeStep(c) \/ ResumeTornDown(c), Live(c)'
  PROVE  co'[c].group = co[c].group /\ co'[c].cap = co[c].cap
<1>1. CoType /\ co[c] \in Coroutine
  BY DEF TypeInv, WorkerTypeOK, CoType, Live
<1>2. ~End(c)
  BY <1>1 DEF End, CoType, Live
<1>3. ASSUME NEW ph, Go(c, ph)
      PROVE  co'[c].group = co[c].group /\ co'[c].cap = co[c].cap
  BY <1>1, <1>3 DEF Go, CoType, Coroutine
<1>4. ASSUME NEW ph, NEW reason, GoWhy(c, ph, reason)
      PROVE  co'[c].group = co[c].group /\ co'[c].cap = co[c].cap
  BY <1>1, <1>4 DEF GoWhy, CoType, Coroutine
<1>5. CASE LookUpCall(c)
  BY <1>1, <1>5 DEF LookUpCall, CoType, Coroutine
<1>6. ~RegisterRetry(c)
  BY DEF RegisterRetry, Resume
<1> QED
  BY <1>2, <1>3, <1>4, <1>5, <1>6, ResumesMove DEF Moves

LEMMA PickedUpCap ==
  ASSUME LimitsStand, TypeInv, NEW c \in CoId, NEW p \in Proc, ~Live(c), PickedUp(c, p)
  PROVE  co'[c].cap = Builtin[co'[c].prov]["video"]
<1>1. PICK t \in proc[p].ready, d \in CoId : DispatchTo(p, t, prov[t], d, proc[p].round) \/ UNCHANGED co
  BY DEF PickedUp, DispatchOrphan
<1>2. Idle.kind = "idle"
  BY DEF Idle
<1>3. ~UNCHANGED co
  BY <1>2 DEF PickedUp, Live
<1> DEFINE it(ph) == [Idle EXCEPT !.proc = p, !.task = t, !.prov = prov[t], !.kind = "resume",
                        !.group = proc[p].round, !.cap = Refreshed(p, prov[t])[prov[t]]["video"], !.ph = ph]
<1>4. \E ph : co' = [co EXCEPT ![d] = it(ph)]
  BY <1>1, <1>3 DEF DispatchTo, Idle
<1>5. \A ph : it(ph).cap = Refreshed(p, prov[t])[prov[t]]["video"] /\ it(ph).prov = prov[t]
  BY DEF Idle
<1>6. Refreshed(p, prov[t]) = Builtin
  BY DEF LimitsStand, Refreshed, TypeInv, WorkerTypeOK, ProcType, ProcState
<1> HIDE DEF it
<1>7. d = c
  BY <1>2, <1>4 DEF PickedUp, Live, TypeInv, WorkerTypeOK, CoType
<1>8. \E ph : co'[c] = it(ph)
  BY <1>4, <1>7 DEF TypeInv, WorkerTypeOK, CoType
<1> QED
  BY <1>5, <1>6, <1>8

LEMMA ResumeGroupStep ==
  ASSUME MaxRetries = 0, LimitsStand, Inv, NoDispatcher, HandIsLaned, DownIsEmpty, DownIsEmpty', ScanIsFirst,
         ReadyIsVideo, ResumeIsGrouped, [WorkerNext]_vars, NEW p \in Proc, Proc = {p}
  PROVE  ResumeIsGrouped'
<1>1. TypeInv
  BY DEF Inv
<1> SUFFICES ASSUME NEW c \in CoId, Live(c)', co'[c].kind = "resume"
             PROVE  /\ co'[c].group # 0 /\ co'[c].group = proc'[co'[c].proc].round
                    /\ LaneOf[key'[co'[c].task]] = "video" /\ co'[c].cap = Builtin[co'[c].prov]["video"]
  BY DEF ResumeIsGrouped, Live, Task, Lane
<1>round. ASSUME co'[c].proc = p, proc[p].pc \notin {"lease", "list"} \/ ~proc[p].scan \/ (Live(c) /\ Same(c))
          PROVE  proc'[p].round = proc[p].round
  <2>1. ~Stops(p)
    <3>1. Stops(p) => proc' = [proc EXCEPT ![p] = Down]
      BY DEF Stops, Crash, StopDone, Gone
    <3>2. Stops(p) => proc'[p].up = "down"
      BY <1>1, <3>1 DEF Down, TypeInv, WorkerTypeOK, ProcType
    <3> QED
      BY <1>round, <3>2 DEF DownIsEmpty, Live
  <2>2. ~(Start(p) /\ proc[p].up = "down")
    <3>1. Start(p) => co' = co
      BY DEF Start
    <3> QED
      BY <1>round, <3>1 DEF DownIsEmpty, Live
  <2>3. ~ScanList(p)
    <3>1. ScanList(p) => proc[p].pc = "list"
      BY DEF ScanList, AtLoop
    <3> QED
      BY <1>round, <3>1 DEF ScanIsFirst, Same
  <2> QED
    BY <1>1, <2>1, <2>2, <2>3, LifesMove DEF LifeMoves
<1>stays. CASE Live(c) /\ Same(c)
  <2>1. co[c].proc = p /\ co[c].kind = "resume" /\ proc'[p].round = proc[p].round
    BY <1>1, <1>round, <1>stays, CoroutineIsLive DEF Same
  <2>2. co'[c].group = co[c].group /\ co'[c].cap = co[c].cap
    <3>1. CASE co'[c] = co[c]
      BY <3>1
    <3>2. CASE RunStep(c) \/ RunTornDown(c)
      BY <1>1, <2>1, <3>2, RunsPath DEF IsRun
    <3>3. CASE ResumeStep(c) \/ ResumeTornDown(c)
      BY <1>1, <1>stays, <3>3, ResumeKeepsGroup DEF NoDispatcher
    <3> QED
      BY <1>1, <1>stays, <3>1, <3>2, <3>3, CoroutinesMove DEF CoMoves, Own, Live
  <2>3. Lane(Task(c))' = Lane(Task(c))
    BY <1>1, <1>stays, WorkedIsThere, LaneStays DEF Same, Task, Lane
  <2> QED
    BY <1>stays, <2>1, <2>2, <2>3 DEF ResumeIsGrouped, Same, Task, Lane
<1>begins. CASE ~Live(c) /\ Begins(c, p) /\ co'[c].proc = p
  <2>1. PickedUp(c, p) /\ proc[p].pc = "sift"
    BY <1>1, <1>begins, BeginsWhere
  <2>2. proc'[p].round = proc[p].round /\ proc[p].round # 0
    BY <1>round, <1>begins, <2>1 DEF ScanIsFirst
  <2>3. co'[c].group = proc[p].round /\ co'[c].task \in proc[p].ready
    BY <2>1 DEF PickedUp
  <2>4. Lane(co'[c].task) = "video" /\ co'[c].task \in TaskId /\ status[co'[c].task] # "absent"
    BY <1>1, <2>3 DEF ReadyIsVideo, TypeInv, ReadyIsKnown, WorkerTypeOK, ProcType, ProcState
  <2>5. key'[co'[c].task] = key[co'[c].task]
    BY <1>1, <2>4, RowsStep DEF RowStep
  <2>6. LaneOf[key'[co'[c].task]] = "video"
    BY <2>4, <2>5 DEF Lane
  <2> QED
    BY <1>1, <1>begins, <2>1, <2>2, <2>3, <2>6, PickedUpCap
<1> QED
  BY <1>1, <1>stays, <1>begins, LiveComes

(* Only past the semaphore does a resume begin, one at a time.             *)
Asks(c) == co[c].kind = "resume" /\ co[c].ph \notin NotBegun \cup {"quit", "drop"}

LEMMA ResumeBegins ==
  ASSUME TypeInv, NEW c \in CoId, Live(c), co[c].kind = "resume", ~Asks(c), co[c].ph # "dispatch",
         Own(c), Asks(c)'
  PROVE  BeginResume(c)
<1>1. CoType
  BY DEF TypeInv, WorkerTypeOK
<1>2. \A ph : Go(c, ph) => co'[c].ph = ph
  BY <1>1, GoesOn
<1>3. ~End(c)
  BY <1>1 DEF End, CoType, Asks, Idle
<1>4. ~(RunStep(c) \/ RunTornDown(c))
  BY RunsPath DEF IsRun
<1>5. co[c].ph \in {"giveup", "writeoff", "wait", "quit", "drop"}
  BY DEF Asks, NotBegun, Dispatching
<1>6. ~(Go(c, "writeoff") \/ Go(c, "quit") \/ Go(c, "drop"))
  BY <1>2 DEF Asks, NotBegun, Dispatching
<1>7. ~ResumeTornDown(c)
  BY <1>3, <1>5, <1>6 DEF ResumeTornDown
<1>8. ~(RegisterRetry(c) \/ GiveUp(c) \/ LookUpCall(c) \/ ResumeAnswer(c) \/ ResumeSettles(c)
        \/ ResumeLands(c) \/ ResumeFails(c) \/ ResumeEnds(c) \/ ResumeQuits(c))
  BY <1>3, <1>5, <1>6 DEF RegisterRetry, GiveUp, LookUpCall, ResumeAnswer, ResumeSettles, ResumeLands,
     ResumeFails, ResumeEnds, ResumeQuits, Resume
<1> QED
  BY <1>4, <1>7, <1>8 DEF Own, ResumeStep

LEMMA AsksComes ==
  ASSUME MaxRetries = 0, TypeInv, NoDispatcher, HandIsLaned, [WorkerNext]_vars,
         NEW c \in CoId, Asks(c)', ~Asks(c)
  PROVE  Live(c) /\ Same(c) /\ BeginResume(c)
<1>1. Live(c)'
  BY DEF Asks, Live, Idle
<1>2. ~\E p \in Proc : Begins(c, p)
  BY BeginsWhere DEF Asks, PickedUp, NotBegun, Dispatching
<1>3. Live(c) /\ Same(c)
  BY <1>1, <1>2, LiveComes
<1>4. Own(c)
  <2>1. co'[c] # co[c] /\ co'[c] # Idle
    BY <1>1 DEF Asks, Live
  <2> QED
    BY <1>3, <2>1, CoroutinesMove DEF CoMoves
<1> QED
  BY <1>3, <1>4, ResumeBegins DEF Same, Asks, NoDispatcher

LEMMA BegunFitStep ==
  ASSUME MaxRetries = 0, TypeInv, NoDispatcher, HandIsLaned, ResumeIsGrouped, BegunFit, [WorkerNext]_vars
  PROVE  BegunFit'
<1> SUFFICES ASSUME NEW p \in Proc, NEW q \in Provider
             PROVE  Cardinality(Begun(p, q)') <= Builtin[q]["video"]
  BY DEF BegunFit
<1>1. \A c \in CoId : Asks(c)' => (Live(c) /\ Same(c) /\ BeginResume(c)) \/ (Asks(c) /\ Same(c))
  <2> SUFFICES ASSUME NEW c \in CoId, Asks(c)', Asks(c)
               PROVE  Same(c)
    BY AsksComes
  <2>1. Live(c) /\ Live(c)'
    BY DEF Asks, Live, Idle
  <2> QED
    BY <2>1, LiveComes
<1>2. IsFiniteSet(CoId)
  BY WorkerConstants, FS_Interval DEF CoId
<1>3. Begun(p, q) \subseteq CoId /\ IsFiniteSet(Begun(p, q)) /\ Begun(p, q)' \subseteq CoId
  BY <1>2, FS_Subset DEF Begun
<1>4. Cardinality(Begun(p, q)) <= Builtin[q]["video"] /\ Cardinality(Begun(p, q)) \in Nat
      /\ Builtin[q]["video"] \in Nat
  BY <1>3, WorkerConstants, FS_CardinalityType DEF BegunFit, WorkLane
<1>none. CASE Begun(p, q)' \subseteq Begun(p, q)
  <2>1. Cardinality(Begun(p, q)') <= Cardinality(Begun(p, q)) /\ Cardinality(Begun(p, q)') \in Nat
    BY <1>3, <1>none, FS_Subset, FS_CardinalityType
  <2> QED
    BY <1>4, <2>1
<1>one. ASSUME NEW c \in CoId, c \in Begun(p, q)', c \notin Begun(p, q)
        PROVE  Cardinality(Begun(p, q)') <= Builtin[q]["video"]
  <2>1. Asks(c)' /\ co'[c].proc = p /\ co'[c].prov = q
    BY <1>one DEF Begun, Asks
  <2>2. ~(Asks(c) /\ Same(c))
    BY <1>one, <2>1 DEF Begun, Asks, Same
  <2>3. Live(c) /\ Same(c) /\ BeginResume(c)
    BY <1>1, <2>1, <2>2
  <2>4. co[c].proc = p /\ co[c].prov = q /\ co[c].kind = "resume"
    BY <2>1, <2>3 DEF Same, Asks
  <2>5. Begun(p, q)' \subseteq Begun(p, q) \cup {c}
    <3> SUFFICES ASSUME NEW d \in CoId, d # c, d \in Begun(p, q)'
                 PROVE  d \in Begun(p, q)
      BY <1>3
    <3>1. co'[d] = co[d]
      BY <2>3, OthersStay DEF TypeInv, WorkerTypeOK, Own, ResumeStep
    <3> QED
      BY <3>1 DEF Begun
  <2>6. Begun(p, q) \subseteq Permits(c)
    <3> SUFFICES ASSUME NEW d \in Begun(p, q)
                 PROVE  d \in Permits(c)
      OBVIOUS
    <3>1. d \in CoId /\ Live(d) /\ co[d].kind = "resume" /\ co[d].proc = p /\ co[d].prov = q
          /\ co[d].ph \notin NotBegun
      BY DEF Begun, Live, Idle
    <3>2. co[d].group = co[c].group
      BY <2>3, <2>4, <3>1 DEF ResumeIsGrouped
    <3> QED
      BY <2>4, <3>1, <3>2 DEF Permits
  <2>7. Cardinality(Permits(c)) < co[c].cap /\ co[c].cap = Builtin[q]["video"]
    BY <2>3, <2>4 DEF ResumeIsGrouped, BeginResume
  <2>8. IsFiniteSet(Permits(c)) /\ Cardinality(Permits(c)) \in Nat
    BY <1>2, FS_Subset, FS_CardinalityType DEF Permits
  <2>9. Cardinality(Begun(p, q)) <= Cardinality(Permits(c))
    BY <2>6, <2>8, FS_Subset
  <2>10. /\ IsFiniteSet(Begun(p, q) \cup {c})
         /\ Cardinality(Begun(p, q) \cup {c}) <= Cardinality(Begun(p, q)) + 1
         /\ Cardinality(Begun(p, q) \cup {c}) \in Nat
    <3>1. /\ IsFiniteSet(Begun(p, q) \cup {c})
          /\ Cardinality(Begun(p, q) \cup {c}) =
               IF c \in Begun(p, q) THEN Cardinality(Begun(p, q)) ELSE Cardinality(Begun(p, q)) + 1
      BY <1>3, FS_AddElement
    <3>2. Cardinality(Begun(p, q) \cup {c}) \in Nat
      BY <3>1, FS_CardinalityType
    <3> QED
      BY <1>4, <3>1, <3>2
  <2>11. Cardinality(Begun(p, q)') <= Cardinality(Begun(p, q) \cup {c}) /\ Cardinality(Begun(p, q)') \in Nat
    BY <2>5, <2>10, FS_Subset, FS_CardinalityType
  <2> QED
    BY <1>4, <2>7, <2>8, <2>9, <2>10, <2>11
<1> QED
  BY <1>3, <1>none, <1>one

(* Who has a slot is in its bucket, so there are no more of them.          *)
LEMMA BucketIsFinite ==
  ASSUME TypeInv, NEW p \in Proc, NEW q \in Provider, NEW lane
  PROVE  IsFiniteSet(Bucket(p, q, lane))
<1> DEFINE S == TaskId \X (CoId \X BOOLEAN)
           f == [x \in S |-> [task |-> x[1], prov |-> q, co |-> x[2][1], pending |-> x[2][2]]]
           T == {f[x] : x \in S}
<1>1. IsFiniteSet(TaskId) /\ IsFiniteSet(CoId)
  <2>1. MaxTasks \in Int /\ MaxCo \in Int
    BY WorkerConstants, QueueConstants
  <2>2. IsFiniteSet(1..MaxTasks) /\ IsFiniteSet(1..MaxCo)
    BY <2>1, FS_Interval
  <2> QED
    BY <2>2 DEF TaskId, CoId
<1>2. IsFiniteSet(BOOLEAN)
  <2>1. IsFiniteSet({TRUE})
    BY FS_Singleton
  <2>2. IsFiniteSet({TRUE} \cup {FALSE})
    BY <2>1, FS_AddElement
  <2>3. BOOLEAN = {TRUE} \cup {FALSE}
    OBVIOUS
  <2> QED
    BY <2>2, <2>3
<1>3. IsFiniteSet(CoId \X BOOLEAN)
  BY <1>1, <1>2, FS_Product
<1>4. IsFiniteSet(S)
  BY <1>1, <1>3, FS_Product
<1>5. f \in Surjection(S, T)
  BY DEF Surjection
<1>6. IsFiniteSet(T)
  <2> HIDE DEF S, f, T
  <2> QED
    BY <1>4, <1>5, FS_Surjection
<1>7. Bucket(p, q, lane) \subseteq T
  <2> SUFFICES ASSUME NEW s \in Bucket(p, q, lane)
               PROVE  s \in T
    OBVIOUS
  <2>1. s \in Occupant /\ s.prov = q
    BY DEF Bucket, TypeInv, WorkerTypeOK, SlotsType
  <2> DEFINE x == <<s.task, <<s.co, s.pending>>>>
  <2>2. x \in S
    BY <2>1 DEF Occupant
  <2>3. f[x] = [task |-> s.task, prov |-> s.prov, co |-> s.co, pending |-> s.pending]
    BY <2>1, <2>2
  <2>4. s = [task |-> s.task, prov |-> s.prov, co |-> s.co, pending |-> s.pending]
    BY <2>1 DEF Occupant
  <2>5. f[x] = s
    BY <2>3, <2>4
  <2> QED
    BY <2>2, <2>5
<1> QED
  BY <1>6, <1>7, FS_Subset

LEMMA SeatedInBucket ==
  ASSUME TypeInv, EveryCoroutineHasItsSlot, NEW p \in Proc, NEW q \in Provider, NEW lane
  PROVE  IsFiniteSet(Bucket(p, q, lane)) /\ Cardinality(Seated(p, q, lane)) <= Cardinality(Bucket(p, q, lane))
<1>1. \A c \in Seated(p, q, lane) : \E s \in Bucket(p, q, lane) : s.co = c
  <2> SUFFICES ASSUME NEW c \in Seated(p, q, lane)
               PROVE  \E s \in Bucket(p, q, lane) : s.co = c
    OBVIOUS
  <2>1. PICK s \in slots[p] : s.co = c /\ s.task = Task(c) /\ s.prov = q
    BY DEF Seated, Slotted, EveryCoroutineHasItsSlot
  <2> QED
    BY <2>1 DEF Seated, Bucket
<1> DEFINE S == Seated(p, q, lane)
           B == Bucket(p, q, lane)
           g == [c \in S |-> CHOOSE s \in B : s.co = c]
<1>2. \A c \in S : g[c] \in B /\ g[c].co = c
  BY <1>1, Zenon
<1>3. g \in Injection(S, B)
  <2>1. g \in [S -> B]
    BY <1>2
  <2> HIDE DEF g, S, B
  <2>2. IsInjective(g)
    BY <1>2, <2>1 DEF IsInjective
  <2> QED
    BY <2>1, <2>2 DEF Injection
<1>4. IsFiniteSet(B)
  BY BucketIsFinite
<1> HIDE DEF g, S, B
<1>5. Cardinality(S) <= Cardinality(B)
  BY <1>3, <1>4, FS_Injection
<1> QED
  BY <1>4, <1>5 DEF S, B

(* Who is sent off finds room for it, and nobody new sits down otherwise   *)
(* while something runs.                                                   *)
LEMMA SentWhereRoom ==
  ASSUME LimitsStand, TypeInv, NEW c \in CoId, NEW p \in Proc, SentOff(c, p)
  PROVE  LET q == co'[c].prov
             lane == LaneOf[key'[co'[c].task]]
         IN  Cardinality(Bucket(p, q, lane)) < Builtin[q][lane]
<1>1. PICK t \in TaskId : InHand(p, t) /\ HasRoom(p, proc[p].prov, Lane(t)) /\ UNCHANGED queueVars
  BY Zenon DEF SentOff, Dispatch
<1>2. co'[c].prov = proc[p].prov /\ co'[c].task = t
  BY <1>1 DEF SentOff, InHand
<1>3. LaneOf[key'[t]] = Lane(t)
  BY <1>1 DEF queueVars, rowVars, Lane
<1>4. proc[p].table = Builtin
  BY DEF LimitsStand, TypeInv, WorkerTypeOK, ProcType, ProcState
<1> QED
  BY <1>1, <1>2, <1>3, <1>4 DEF HasRoom, Capacity

LEMMA RunsFitStep ==
  ASSUME MaxRetries = 0, LimitsStand, Inv, SlotInv, ScanIsFirst, RunsFit, [WorkerNext]_vars,
         NEW p \in Proc, Proc = {p}
  PROVE  RunsFit'
<1>1. TypeInv /\ NoDispatcher /\ HandIsLaned /\ EveryCoroutineHasItsSlot
  BY DEF Inv, SlotInv
<1> SUFFICES ASSUME NEW q \in Provider, NEW lane \in WorkLane, NEW r \in RunsIn(p, q, lane)'
             PROVE  Cardinality(Seated(p, q, lane)') <= Builtin[q][lane]
  BY DEF RunsFit
<1> DEFINE Old == Seated(p, q, lane)
           New == Seated(p, q, lane)'
           In(c) == co'[c].proc = p /\ co'[c].prov = q /\ LaneOf[key'[co'[c].task]] = lane
<1>in. /\ \A c \in New : c \in CoId /\ Slotted(c)' /\ In(c)
       /\ r \in CoId /\ Live(r)' /\ co'[r].kind = "run" /\ In(r)
  BY DEF Seated, RunsIn, IsRun, Task, Lane, Slotted, Live
<1>old. \A c \in CoId : Live(c) /\ Same(c) /\ In(c) =>
          co[c].proc = p /\ co[c].prov = q /\ Lane(Task(c)) = lane /\ co[c].kind = co'[c].kind
  <2> SUFFICES ASSUME NEW c \in CoId, Live(c), Same(c), In(c)
               PROVE  co[c].proc = p /\ co[c].prov = q /\ Lane(Task(c)) = lane /\ co[c].kind = co'[c].kind
    OBVIOUS
  <2>1. Lane(Task(c))' = Lane(Task(c))
    BY <1>1, WorkedIsThere, LaneStays DEF Same, Task, Lane
  <2> QED
    BY <2>1 DEF Same, Task, Lane
<1>comes. \A c \in New : c \in Old \/ Enters(c, p)
  BY <1>1, <1>in, <1>old, SlottedComes DEF Slotted, Seated
<1>finite. IsFiniteSet(Old) /\ Cardinality(Old) \in Nat /\ Cardinality(Old) <= Cardinality(Bucket(p, q, lane))
           /\ Cardinality(Bucket(p, q, lane)) \in Nat /\ Builtin[q][lane] \in Nat
  <2>1. IsFiniteSet(CoId)
    <3>1. MaxCo \in Int
      BY WorkerConstants
    <3> QED
      BY <3>1, FS_Interval DEF CoId
  <2>2. IsFiniteSet(Old)
    BY <2>1, FS_Subset DEF Seated
  <2> QED
    BY <1>1, <2>2, SeatedInBucket, FS_CardinalityType, WorkerConstants
<1>within. ASSUME New \subseteq Old, Cardinality(Old) <= Builtin[q][lane]
           PROVE  Cardinality(New) <= Builtin[q][lane]
  <2>1. Cardinality(New) <= Cardinality(Old) /\ Cardinality(New) \in Nat
    BY <1>finite, <1>within, FS_Subset, FS_CardinalityType
  <2> QED
    BY <1>finite, <1>within, <2>1
<1>fits. Live(r) /\ Same(r) => Cardinality(Old) <= Builtin[q][lane]
  <2>1. Live(r) /\ Same(r) => r \in RunsIn(p, q, lane)
    BY <1>in, <1>old DEF RunsIn, IsRun
  <2> QED
    BY <2>1 DEF RunsFit
<1> HIDE DEF In
<1>sent. ASSUME NEW d \in CoId, ~Live(d), SentOff(d, p)
         PROVE  Cardinality(New) <= Builtin[q][lane]
  <2>1. \A c \in New : c \in Old \cup {d}
    BY <1>1, <1>in, <1>comes, <1>sent, OneBegins DEF Enters, Begins
  <2>here. CASE In(d)
    <3>1. Cardinality(Bucket(p, q, lane)) < Builtin[q][lane]
      BY <1>1, <1>sent, <2>here, SentWhereRoom DEF In
    <3>2. /\ IsFiniteSet(Old \cup {d})
          /\ Cardinality(Old \cup {d}) = IF d \in Old THEN Cardinality(Old) ELSE Cardinality(Old) + 1
      BY <1>finite, FS_AddElement
    <3>3. Cardinality(New) <= Cardinality(Old \cup {d}) /\ Cardinality(New) \in Nat
      BY <2>1, <3>2, FS_Subset, FS_CardinalityType
    <3> HIDE DEF Old, New
    <3> QED
      BY <1>finite, <3>1, <3>2, <3>3
  <2>there. CASE ~In(d)
    <3>1. New \subseteq Old
      BY <1>in, <2>1, <2>there
    <3>2. Live(r) /\ Same(r)
      BY <1>1, <1>in, <1>sent, <2>there, LiveComes, OneBegins DEF Begins
    <3> QED
      BY <1>fits, <1>within, <3>1, <3>2
  <2> QED
    BY <2>here, <2>there
<1>rest. CASE \A d \in CoId : Live(d) \/ ~SentOff(d, p)
  <2>1. Live(r) /\ Same(r)
    BY <1>1, <1>in, <1>rest, LiveComes, BeginsWhere
  <2>2. ~proc[p].scan
    BY <1>in, <1>old, <2>1 DEF ScanIsFirst
  <2>3. \A c \in CoId : ~PickedUp(c, p)
    BY <2>2 DEF ScanIsFirst, PickedUp
  <2>4. New \subseteq Old
    BY <1>in, <1>comes, <1>rest, <2>3 DEF Enters
  <2> QED
    BY <1>fits, <1>within, <2>1, <2>4
<1> QED
  BY <1>sent, <1>rest

LEMMA PoolInit == WorkerInit => PoolInv /\ DownIsEmpty
<1> SUFFICES ASSUME WorkerInit
             PROVE  PoolInv /\ DownIsEmpty
  OBVIOUS
<1>1. \A c \in CoId : ~Live(c) /\ co[c].kind = "idle"
  BY DEF WorkerInit, Live, Idle
<1>2. \A p \in Proc : proc[p] = Down /\ slots[p] = {}
  BY DEF WorkerInit
<1>3. LeaseIsKept /\ ScanIsFirst /\ ReadyIsVideo /\ ResumeIsGrouped /\ DownIsEmpty
  BY <1>1, <1>2 DEF LeaseIsKept, ScanIsFirst, ReadyIsVideo, ResumeIsGrouped, DownIsEmpty, Down, WorkLane
<1>4. RunsFit
  BY <1>1 DEF RunsFit, RunsIn
<1>5. BegunFit
  <2> SUFFICES ASSUME NEW p \in Proc, NEW q \in Provider
               PROVE  Cardinality(Begun(p, q)) <= Builtin[q]["video"]
    BY DEF BegunFit
  <2>1. Begun(p, q) = {}
    BY <1>1 DEF Begun
  <2>2. Builtin[q]["video"] \in Nat
    BY WorkerConstants DEF WorkLane
  <2> QED
    BY <2>1, <2>2, FS_EmptySet
<1> QED
  BY <1>3, <1>4, <1>5 DEF PoolInv

LEMMA PoolStep ==
  ASSUME OneServer, MaxRetries = 0, LimitsStand, Inv, Inv', SlotInv, DownIsEmpty, DownIsEmpty', PoolInv,
         [WorkerNext]_vars
  PROVE  PoolInv'
<1>1. PICK p \in Proc : Proc = {p}
  BY DEF OneServer
<1>2. TypeInv /\ TypeInv' /\ NoDispatcher /\ HandIsLaned
  BY DEF Inv, SlotInv
<1>3. LeaseIsKept /\ ScanIsFirst /\ ReadyIsVideo /\ ResumeIsGrouped /\ BegunFit /\ RunsFit
  BY DEF PoolInv
<1>4. LeaseIsKept'
  BY <1>1, <1>2, <1>3, LeaseKeptStep
<1>5. ScanIsFirst'
  BY <1>1, <1>2, <1>3, ScanFirstStep
<1>6. ReadyIsVideo' /\ ResumeIsGrouped'
  BY <1>1, <1>2, <1>3, ReadyVideoStep, ResumeGroupStep
<1>7. BegunFit'
  BY <1>2, <1>3, BegunFitStep
<1>8. RunsFit'
  BY <1>1, <1>3, RunsFitStep
<1> QED
  BY <1>4, <1>5, <1>6, <1>7, <1>8 DEF PoolInv

(* What executes in a pool: while a run is among it, holders of a slot;    *)
(* otherwise resumes, of videos only, past their group's semaphore.        *)
LEMMA PoolFits ==
  ASSUME LimitsStand, TypeInv, SlotInv, PoolInv
  PROVE  SlotsAreKept
<1> SUFFICES ASSUME NEW p \in Proc, NEW q \in Provider, NEW lane \in WorkLane
             PROVE  Cardinality(Executing(p, q, lane)) <= Capacity(p, q, lane)
  BY DEF SlotsAreKept, WithinCapacity, TypeInv, SlotInv
<1> DEFINE E == Executing(p, q, lane)
<1>1. Capacity(p, q, lane) = Builtin[q][lane] /\ Builtin[q][lane] \in Nat
  <2>1. proc[p].table = Builtin
    BY DEF LimitsStand, TypeInv, WorkerTypeOK, ProcType, ProcState
  <2> QED
    BY <2>1, WorkerConstants DEF Capacity
<1>2. IsFiniteSet(CoId)
  <2>1. MaxCo \in Int
    BY WorkerConstants
  <2> QED
    BY <2>1, FS_Interval DEF CoId
<1>within. ASSUME NEW S \in SUBSET CoId, E \subseteq S, Cardinality(S) <= Builtin[q][lane]
           PROVE  Cardinality(E) <= Builtin[q][lane]
  <2>1. IsFiniteSet(S) /\ Cardinality(S) \in Nat
    BY <1>2, FS_Subset, FS_CardinalityType
  <2>2. Cardinality(E) <= Cardinality(S) /\ Cardinality(E) \in Nat
    BY <1>within, <2>1, FS_Subset, FS_CardinalityType
  <2> HIDE DEF E
  <2> QED
    BY <1>1, <1>within, <2>1, <2>2
<1>run. CASE RunsIn(p, q, lane) # {}
  <2>1. Cardinality(Seated(p, q, lane)) <= Builtin[q][lane]
    BY <1>run DEF PoolInv, RunsFit
  <2>2. E \subseteq Seated(p, q, lane) /\ Seated(p, q, lane) \subseteq CoId
    BY DEF Executing, Seated, Slotted, NotBegun
  <2> QED
    BY <1>1, <1>within, <2>1, <2>2
<1>resumes. CASE RunsIn(p, q, lane) = {}
  <2>1. \A c \in E : co[c].kind = "resume" /\ c \in Begun(p, q) /\ lane = "video"
    <3> SUFFICES ASSUME NEW c \in E
                 PROVE  co[c].kind = "resume" /\ c \in Begun(p, q) /\ lane = "video"
      OBVIOUS
    <3>1. c \in CoId /\ Live(c) /\ co[c].proc = p /\ co[c].prov = q /\ Lane(Task(c)) = lane
          /\ co[c].ph \notin NotBegun \cup {"quit", "drop"}
      BY DEF Executing
    <3>2. ~IsRun(c)
      BY <1>resumes, <3>1 DEF RunsIn
    <3>3. co[c].kind = "resume"
      BY <3>1, <3>2, CoroutineIsLive DEF IsRun
    <3> QED
      BY <3>1, <3>3 DEF Begun, PoolInv, ResumeIsGrouped
  <2>none. CASE E = {}
    BY <1>1, <2>none, FS_EmptySet
  <2>some. CASE E # {}
    <3>1. lane = "video" /\ E \subseteq Begun(p, q) /\ Begun(p, q) \subseteq CoId
      BY <2>1, <2>some DEF Begun
    <3>2. Cardinality(Begun(p, q)) <= Builtin[q]["video"]
      BY DEF PoolInv, BegunFit
    <3> QED
      BY <1>1, <1>within, <3>1, <3>2
  <2> QED
    BY <2>none, <2>some
<1> QED
  BY <1>1, <1>run, <1>resumes

(* The pools of one server are never overrun, however often it crashes and *)
(* picks up what it finds, as long as its limits stand and nobody asks for *)
(* a retry.  Each hypothesis is needed: a second process, a retry or a     *)
(* smaller table lets more execute than the table allows.                  *)
THEOREM SlotsKeptWithOneServer ==
  OneServer /\ MaxRetries = 0 /\ LimitsStand => (WorkerSpec => []SlotsAreKept)
<1> SUFFICES ASSUME OneServer, MaxRetries = 0, LimitsStand
             PROVE  WorkerSpec => []SlotsAreKept
  OBVIOUS
<1> DEFINE I == Inv /\ SlotInv /\ DownIsEmpty /\ PoolInv
<1>1. WorkerInit => I
  BY InvInit, SlotInit, PoolInit
<1>2. I /\ [WorkerNext]_vars => I'
  <2> SUFFICES ASSUME I, [WorkerNext]_vars
               PROVE  I'
    OBVIOUS
  <2>1. Inv' /\ SlotInv'
    BY InvStep, SlotStep
  <2>2. DownIsEmpty'
    BY DownEmptyStep DEF Inv
  <2> QED
    BY <2>1, <2>2, PoolStep
<1>3. I => SlotsAreKept
  BY PoolFits DEF Inv
<1> HIDE DEF I
<1> QED
  BY <1>1, <1>2, <1>3, PTL DEF WorkerSpec
=============================================================================
