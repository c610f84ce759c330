--------------------------- MODULE TaskQueue_proofs ---------------------------
(***************************************************************************)
(* What TaskQueue promises, for every number of tasks, every set of keys   *)
(* and providers and every lane assignment.  The invariants become         *)
(* inductive with RenderStandsAlone beside them: cancel-all ends queued    *)
(* tasks without a cascade, which is sound only because what it skips has  *)
(* no dependency.                                                          *)
(***************************************************************************)
EXTENDS TaskQueue, TLAPS

QueueInv == /\ QueueTypeOK
            /\ OneActivePerKey
            /\ DependencyRespected
            /\ RenderStandsAlone
            /\ CascadeComplete

(* What a cascade reaches is queued: _cascade_failed_queued and            *)
(* _mark_cancelled only ever select and update queued dependents.          *)
LEMMA BehindIsQueued ==
  ASSUME NEW t \in TaskId
  PROVE  Behind(t) \subseteq {u \in TaskId : status[u] = "queued"}
<1> DEFINE Q == {u \in TaskId : status[u] = "queued"}
<1>1. Q \in SUBSET TaskId
  OBVIOUS
<1>2. ClosedBehind(t, Q)
  BY DEF ClosedBehind
<1> HIDE DEF Q
<1>3. Behind(t) \subseteq Q
  BY <1>1, <1>2 DEF Behind
<1> QED
  BY <1>3 DEF Q

(* The recursion of the cascade stops only when no queued task is left     *)
(* behind one it has reached.                                              *)
LEMMA BehindIsClosed ==
  ASSUME NEW t \in TaskId
  PROVE  ClosedBehind(t, Behind(t))
<1> SUFFICES ASSUME NEW u \in TaskId,
                    status[u] = "queued",
                    dep[u] = t \/ dep[u] \in Behind(t),
                    NEW S \in SUBSET TaskId,
                    ClosedBehind(t, S)
             PROVE  u \in S
  BY DEF ClosedBehind, Behind
<1>1. Behind(t) \subseteq S
  BY DEF Behind
<1> QED
  BY <1>1 DEF ClosedBehind

-----------------------------------------------------------------------------
(* Every transaction keeps every column in its domain.                     *)
LEMMA TypeStep == QueueTypeOK /\ [QueueNext]_queueVars => QueueTypeOK'
<1> SUFFICES ASSUME QueueTypeOK, [QueueNext]_queueVars
             PROVE  QueueTypeOK'
  OBVIOUS
<1> USE DEF QueueTypeOK, Status, Active, Terminal, Reasons, CallEnd
<1>1. ASSUME NEW k \in Key, NEW d \in TaskId \cup {NoDep},
             NEW p \in Provider \cup {NoProvider}, Enqueue(k, d, p)
      PROVE  QueueTypeOK'
  BY <1>1 DEF Enqueue
<1>2. ASSUME NEW t \in TaskId, NEW lane, NEW full, ClaimNext(t, lane, full)
      PROVE  QueueTypeOK'
  BY <1>2 DEF ClaimNext
<1>3. ASSUME NEW t \in TaskId, MarkSucceeded(t)
      PROVE  QueueTypeOK'
  BY <1>3 DEF MarkSucceeded
<1>4. ASSUME NEW t \in TaskId, NEW reason \in FailReasons, MarkFailed(t, reason)
      PROVE  QueueTypeOK'
  BY <1>4 DEF MarkFailed, EndWithCascade, FailReasons
<1>5. ASSUME NEW t \in TaskId, CancelTask(t)
      PROVE  QueueTypeOK'
  BY <1>5 DEF CancelTask, EndWithCascade
<1>6. ASSUME CancelAllQueued
      PROVE  QueueTypeOK'
  BY <1>6 DEF CancelAllQueued
<1>7. ASSUME NEW t \in TaskId, FinalizeInterrupted(t)
      PROVE  QueueTypeOK'
  BY <1>7 DEF FinalizeInterrupted, EndWithCascade
<1>8. ASSUME NEW t \in TaskId, RetryArtifactDownload(t)
      PROVE  QueueTypeOK'
  BY <1>8 DEF RetryArtifactDownload, MayRetryDownload
<1>9. ASSUME NEW t \in TaskId, Requeue(t)
      PROVE  QueueTypeOK'
  BY <1>9 DEF Requeue
<1>10. ASSUME NEW t \in TaskId, NEW p \in Provider, RecordProvider(t, p)
       PROVE  QueueTypeOK'
  BY <1>10 DEF RecordProvider
<1>11. ASSUME NEW t \in TaskId, NEW p \in Provider, PersistCheckpoint(t, p)
       PROVE  QueueTypeOK'
  BY <1>11 DEF PersistCheckpoint
<1>12. ASSUME NEW t \in TaskId, PersistJob(t)
       PROVE  QueueTypeOK'
  BY <1>12 DEF PersistJob
<1>13. ASSUME NEW t \in TaskId, OpenCall(t)
       PROVE  QueueTypeOK'
  BY <1>13 DEF OpenCall, rowVars
<1>14. ASSUME NEW t \in TaskId, NEW end \in CallEnd,
              FinishCall(t, end) \/ FinalizePending(t, end)
       PROVE  QueueTypeOK'
  BY <1>14 DEF FinishCall, FinalizePending, rowVars
<1>15. ASSUME SettleInterrupted
       PROVE  QueueTypeOK'
  BY <1>15 DEF SettleInterrupted, rowVars
<1>16. ASSUME UNCHANGED queueVars
       PROVE  QueueTypeOK'
  BY <1>16 DEF queueVars, rowVars
<1> QED
  BY <1>1, <1>2, <1>3, <1>4, <1>5, <1>6, <1>7, <1>8, <1>9, <1>10, <1>11,
     <1>12, <1>13, <1>14, <1>15, <1>16 DEF QueueNext
(* Only enqueue and retry-download make a row active, and both find no     *)
(* active row of the key: the unique index stands behind either.           *)
LEMMA OneActiveStep ==
  QueueTypeOK /\ OneActivePerKey /\ [QueueNext]_queueVars => OneActivePerKey'
<1> SUFFICES ASSUME QueueTypeOK /\ OneActivePerKey, [QueueNext]_queueVars
             PROVE  OneActivePerKey'
  OBVIOUS
<1> USE DEF QueueTypeOK, OneActivePerKey, Active, Status
<1>1. ASSUME NEW k \in Key, NEW d \in TaskId \cup {NoDep},
             NEW p \in Provider \cup {NoProvider}, Enqueue(k, d, p)
      PROVE  OneActivePerKey'
  BY <1>1 DEF Enqueue, Holding
<1>2. ASSUME NEW t \in TaskId, NEW lane, NEW full, ClaimNext(t, lane, full)
      PROVE  OneActivePerKey'
  BY <1>2 DEF ClaimNext, Claimable
<1>3. ASSUME NEW t \in TaskId, MarkSucceeded(t)
      PROVE  OneActivePerKey'
  BY <1>3 DEF MarkSucceeded
<1>4. ASSUME NEW t \in TaskId, NEW reason \in FailReasons, MarkFailed(t, reason)
      PROVE  OneActivePerKey'
  BY <1>4, BehindIsQueued DEF MarkFailed, EndWithCascade
<1>5. ASSUME NEW t \in TaskId, CancelTask(t)
      PROVE  OneActivePerKey'
  BY <1>5, BehindIsQueued DEF CancelTask, EndWithCascade
<1>6. ASSUME CancelAllQueued
      PROVE  OneActivePerKey'
  BY <1>6 DEF CancelAllQueued
<1>7. ASSUME NEW t \in TaskId, FinalizeInterrupted(t)
      PROVE  OneActivePerKey'
  BY <1>7, BehindIsQueued DEF FinalizeInterrupted, EndWithCascade
<1>8. ASSUME NEW t \in TaskId, RetryArtifactDownload(t)
      PROVE  OneActivePerKey'
  BY <1>8 DEF RetryArtifactDownload, MayRetryDownload, Holding
<1>9. ASSUME NEW t \in TaskId, Requeue(t)
      PROVE  OneActivePerKey'
  BY <1>9 DEF Requeue
<1>10. ASSUME UNCHANGED <<status, why, key, dep, late>>
       PROVE  OneActivePerKey'
  BY <1>10
<1> QED
  BY <1>1, <1>2, <1>3, <1>4, <1>5, <1>6, <1>7, <1>8, <1>9, <1>10
     DEF QueueNext, RecordProvider, PersistCheckpoint, PersistJob, OpenCall,
         FinishCall, FinalizePending, SettleInterrupted, queueVars, rowVars

(* Nothing takes "succeeded" away, so what was so at the claim stays so.   *)
LEMMA DependencyStep ==
  QueueTypeOK /\ DependencyRespected /\ [QueueNext]_queueVars => DependencyRespected'
<1> SUFFICES ASSUME QueueTypeOK /\ DependencyRespected, [QueueNext]_queueVars
             PROVE  DependencyRespected'
  OBVIOUS
<1> USE DEF QueueTypeOK, DependencyRespected, FailReasons, Status, Active, Terminal
<1>1. ASSUME NEW k \in Key, NEW d \in TaskId \cup {NoDep},
             NEW p \in Provider \cup {NoProvider}, Enqueue(k, d, p)
      PROVE  DependencyRespected'
  BY <1>1 DEF Enqueue, Holding
<1>2. ASSUME NEW t \in TaskId, NEW lane, NEW full, ClaimNext(t, lane, full)
      PROVE  DependencyRespected'
  BY <1>2 DEF ClaimNext, Claimable
<1>3. ASSUME NEW t \in TaskId, MarkSucceeded(t)
      PROVE  DependencyRespected'
  BY <1>3 DEF MarkSucceeded
<1>4. ASSUME NEW t \in TaskId, NEW reason \in FailReasons, MarkFailed(t, reason)
      PROVE  DependencyRespected'
  BY <1>4, BehindIsQueued DEF MarkFailed, EndWithCascade
<1>5. ASSUME NEW t \in TaskId, CancelTask(t)
      PROVE  DependencyRespected'
  BY <1>5, BehindIsQueued DEF CancelTask, EndWithCascade
<1>6. ASSUME CancelAllQueued
      PROVE  DependencyRespected'
  BY <1>6 DEF CancelAllQueued
<1>7. ASSUME NEW t \in TaskId, FinalizeInterrupted(t)
      PROVE  DependencyRespected'
  BY <1>7, BehindIsQueued DEF FinalizeInterrupted, EndWithCascade
<1>8. ASSUME NEW t \in TaskId, RetryArtifactDownload(t)
      PROVE  DependencyRespected'
  BY <1>8 DEF RetryArtifactDownload, MayRetryDownload, Holding
<1>9. ASSUME NEW t \in TaskId, Requeue(t)
      PROVE  DependencyRespected'
  BY <1>9 DEF Requeue
<1>10. ASSUME UNCHANGED <<status, why, key, dep, late>>
       PROVE  DependencyRespected'
  BY <1>10
<1> QED
  BY <1>1, <1>2, <1>3, <1>4, <1>5, <1>6, <1>7, <1>8, <1>9, <1>10
     DEF QueueNext, RecordProvider, PersistCheckpoint, PersistJob, OpenCall,
         FinishCall, FinalizePending, SettleInterrupted, queueVars, rowVars

(* A cascade leaves no queued task behind one it has ended; a task that    *)
(* comes back to queued had a succeeded dependency.                        *)
LEMMA CascadeStep ==
  QueueInv /\ [QueueNext]_queueVars => CascadeComplete'
<1> SUFFICES ASSUME QueueInv, [QueueNext]_queueVars
             PROVE  CascadeComplete'
  OBVIOUS
<1> USE DEF QueueInv, QueueTypeOK, DependencyRespected, RenderStandsAlone, CascadeComplete, Status, Active, Terminal
<1>1. ASSUME NEW k \in Key, NEW d \in TaskId \cup {NoDep},
             NEW p \in Provider \cup {NoProvider}, Enqueue(k, d, p)
      PROVE  CascadeComplete'
  BY <1>1 DEF Enqueue, Holding
<1>2. ASSUME NEW t \in TaskId, NEW lane, NEW full, ClaimNext(t, lane, full)
      PROVE  CascadeComplete'
  BY <1>2 DEF ClaimNext, Claimable
<1>3. ASSUME NEW t \in TaskId, MarkSucceeded(t)
      PROVE  CascadeComplete'
  BY <1>3 DEF MarkSucceeded
<1>4. ASSUME NEW t \in TaskId, NEW reason \in FailReasons, MarkFailed(t, reason)
      PROVE  CascadeComplete'
  BY <1>4, BehindIsQueued, BehindIsClosed DEF MarkFailed, EndWithCascade, ClosedBehind
<1>5. ASSUME NEW t \in TaskId, CancelTask(t)
      PROVE  CascadeComplete'
  BY <1>5, BehindIsQueued, BehindIsClosed DEF CancelTask, EndWithCascade, ClosedBehind
<1>6. ASSUME CancelAllQueued
      PROVE  CascadeComplete'
  BY <1>6 DEF CancelAllQueued
<1>7. ASSUME NEW t \in TaskId, FinalizeInterrupted(t)
      PROVE  CascadeComplete'
  BY <1>7, BehindIsQueued, BehindIsClosed DEF FinalizeInterrupted, EndWithCascade, ClosedBehind
<1>8. ASSUME NEW t \in TaskId, RetryArtifactDownload(t)
      PROVE  CascadeComplete'
  BY <1>8 DEF RetryArtifactDownload, MayRetryDownload, Holding
<1>9. ASSUME NEW t \in TaskId, Requeue(t)
      PROVE  CascadeComplete'
  BY <1>9 DEF Requeue
<1>10. ASSUME UNCHANGED <<status, why, key, dep, late>>
       PROVE  CascadeComplete'
  BY <1>10
<1> QED
  BY <1>1, <1>2, <1>3, <1>4, <1>5, <1>6, <1>7, <1>8, <1>9, <1>10
     DEF QueueNext, RecordProvider, PersistCheckpoint, PersistJob, OpenCall,
         FinishCall, FinalizePending, SettleInterrupted, queueVars, rowVars

(* Enqueue alone gives a row its key and its dependency.                   *)
LEMMA RenderStep ==
  QueueTypeOK /\ RenderStandsAlone /\ [QueueNext]_queueVars => RenderStandsAlone'
<1> SUFFICES ASSUME QueueTypeOK, RenderStandsAlone, [QueueNext]_queueVars
             PROVE  RenderStandsAlone'
  OBVIOUS
<1> USE DEF QueueTypeOK, RenderStandsAlone, Status, Active, Terminal
<1>1. ASSUME NEW k \in Key, NEW d \in TaskId \cup {NoDep},
             NEW p \in Provider \cup {NoProvider}, Enqueue(k, d, p)
      PROVE  RenderStandsAlone'
  BY <1>1 DEF Enqueue
<1>2. ASSUME NEW t \in TaskId, NEW lane, NEW full, ClaimNext(t, lane, full)
      PROVE  RenderStandsAlone'
  BY <1>2 DEF ClaimNext, Claimable
<1>3. ASSUME NEW t \in TaskId, MarkSucceeded(t)
      PROVE  RenderStandsAlone'
  BY <1>3 DEF MarkSucceeded
<1>4. ASSUME NEW t \in TaskId, NEW reason \in FailReasons, MarkFailed(t, reason)
      PROVE  RenderStandsAlone'
  BY <1>4, BehindIsQueued DEF MarkFailed, EndWithCascade
<1>5. ASSUME NEW t \in TaskId, CancelTask(t)
      PROVE  RenderStandsAlone'
  BY <1>5, BehindIsQueued DEF CancelTask, EndWithCascade
<1>6. ASSUME CancelAllQueued
      PROVE  RenderStandsAlone'
  BY <1>6 DEF CancelAllQueued
<1>7. ASSUME NEW t \in TaskId, FinalizeInterrupted(t)
      PROVE  RenderStandsAlone'
  BY <1>7, BehindIsQueued DEF FinalizeInterrupted, EndWithCascade
<1>8. ASSUME NEW t \in TaskId, RetryArtifactDownload(t)
      PROVE  RenderStandsAlone'
  BY <1>8 DEF RetryArtifactDownload, MayRetryDownload
<1>9. ASSUME NEW t \in TaskId, Requeue(t)
      PROVE  RenderStandsAlone'
  BY <1>9 DEF Requeue
<1>10. ASSUME UNCHANGED <<status, why, key, dep, late>>
       PROVE  RenderStandsAlone'
  BY <1>10
<1> QED
  BY <1>1, <1>2, <1>3, <1>4, <1>5, <1>6, <1>7, <1>8, <1>9, <1>10
     DEF QueueNext, RecordProvider, PersistCheckpoint, PersistJob, OpenCall,
         FinishCall, FinalizePending, SettleInterrupted, queueVars, rowVars

(* Every transaction that changes a status is guarded by the status it     *)
(* changes, and a cascade reaches queued rows only.                        *)
LEMMA VerdictStep ==
  QueueTypeOK /\ [QueueNext]_queueVars => Verdict
<1> SUFFICES ASSUME QueueTypeOK, [QueueNext]_queueVars
             PROVE  Verdict
  OBVIOUS
<1> USE DEF QueueTypeOK, Verdict, Status, Active, Terminal, Reasons
<1>1. ASSUME NEW k \in Key, NEW d \in TaskId \cup {NoDep},
             NEW p \in Provider \cup {NoProvider}, Enqueue(k, d, p)
      PROVE  Verdict
  BY <1>1 DEF Enqueue
<1>2. ASSUME NEW t \in TaskId, NEW lane, NEW full, ClaimNext(t, lane, full)
      PROVE  Verdict
  BY <1>2 DEF ClaimNext, Claimable
<1>3. ASSUME NEW t \in TaskId, MarkSucceeded(t)
      PROVE  Verdict
  BY <1>3 DEF MarkSucceeded
<1>4. ASSUME NEW t \in TaskId, NEW reason \in FailReasons, MarkFailed(t, reason)
      PROVE  Verdict
  BY <1>4, BehindIsQueued DEF MarkFailed, EndWithCascade
<1>5. ASSUME NEW t \in TaskId, CancelTask(t)
      PROVE  Verdict
  BY <1>5, BehindIsQueued DEF CancelTask, EndWithCascade
<1>6. ASSUME CancelAllQueued
      PROVE  Verdict
  BY <1>6 DEF CancelAllQueued
<1>7. ASSUME NEW t \in TaskId, FinalizeInterrupted(t)
      PROVE  Verdict
  BY <1>7, BehindIsQueued DEF FinalizeInterrupted, EndWithCascade
<1>8. ASSUME NEW t \in TaskId, RetryArtifactDownload(t)
      PROVE  Verdict
  BY <1>8 DEF RetryArtifactDownload, MayRetryDownload
<1>9. ASSUME NEW t \in TaskId, Requeue(t)
      PROVE  Verdict
  BY <1>9 DEF Requeue
<1>10. ASSUME UNCHANGED <<status, why, key, dep, late>>
       PROVE  Verdict
  BY <1>10
<1> QED
  BY <1>1, <1>2, <1>3, <1>4, <1>5, <1>6, <1>7, <1>8, <1>9, <1>10
     DEF QueueNext, RecordProvider, PersistCheckpoint, PersistJob, OpenCall,
         FinishCall, FinalizePending, SettleInterrupted, queueVars, rowVars

-----------------------------------------------------------------------------
LEMMA QueueInductive == QueueSpec => []QueueInv
<1>1. QueueInit => QueueInv
  BY DEF QueueInit, QueueInv, QueueTypeOK, OneActivePerKey, DependencyRespected,
         RenderStandsAlone, CascadeComplete, Status, Active, Reasons, FailReasons
<1>2. QueueInv /\ [QueueNext]_queueVars => QueueInv'
  BY TypeStep, OneActiveStep, DependencyStep, RenderStep, CascadeStep DEF QueueInv
<1> QED
  BY <1>1, <1>2, PTL DEF QueueSpec

(* Type correctness of the task and call rows.                             *)
THEOREM TypeCorrect == QueueSpec => []QueueTypeOK
  BY QueueInductive, PTL DEF QueueInv

(* The dedupe key is held by one unfinished row at most, whatever order    *)
(* enqueues, retries and terminal writes come in.                          *)
THEOREM OneActive == QueueSpec => []OneActivePerKey
  BY QueueInductive, PTL DEF QueueInv

(* A task that runs, has succeeded or has failed on its own account stands *)
(* on a succeeded dependency.                                              *)
THEOREM DependenciesHold == QueueSpec => []DependencyRespected
  BY QueueInductive, PTL DEF QueueInv

(* Only a task enqueued too late can be stuck behind a dead dependency.    *)
THEOREM NoDeadWait == QueueSpec => []CascadeComplete
  BY QueueInductive, PTL DEF QueueInv

(* The three together, as the runs check them.                             *)
THEOREM RowsSound == QueueSpec => []RowsAreSound
  BY OneActive, DependenciesHold, NoDeadWait, PTL DEF RowsAreSound

(* Terminal rows are final but for the one documented way back, and the    *)
(* user's cancel never reaches a running task (docs/adr/0006).             *)
THEOREM VerdictsHold == QueueSpec => VerdictStands
<1>1. QueueInv /\ [QueueNext]_queueVars => [Verdict]_queueVars
  BY VerdictStep DEF QueueInv
<1> QED
  BY <1>1, QueueInductive, PTL DEF QueueSpec, VerdictStands
=============================================================================
