--------------------------- MODULE MediaSelection ---------------------------
(***************************************************************************)
(* The formal selection of one video unit of a project.                    *)
(*                                                                         *)
(* A unit has a formal file, a history of versions (versions.json and one  *)
(* snapshot file per version), an entry in the artifact manifest and the   *)
(* address of its result in the episode script.  Four kinds of actors      *)
(* change them: generations commit a paid result and finalize it, users    *)
(* restore an older version or upload a video of their own, and edits      *)
(* change the content the unit is generated from.  A commit is a series of *)
(* separate writes under three locks, taken in this order: the admission   *)
(* lock of the unit (adm), the script and project locks (doc), the lock of *)
(* versions.json (ver).                                                    *)
(***************************************************************************)
EXTENDS Naturals, Sequences, FiniteSets

CONSTANTS Gens,       \* paid generations, and the medium each one brings back
          Restores,   \* restores of an older version by a user
          Uploads,    \* manual uploads, and the medium each one carries
          Bases,      \* digests of the content a video is generated from
          Old,        \* a formal file no version records yet
          Partial,    \* the content of a file whose copy is not finished
          None,
          Free,       \* the holder of a lock nobody holds
          MaxEdits, MaxFaults, MaxCrashes  \* bounds of the environment

Actors == Gens \cup Restores \cup Uploads
Media  == Gens \cup Uploads \cup {Old}

ASSUME ConstantsAreDistinct ==
    /\ Gens \cap (Restores \cup Uploads) = {} /\ Restores \cap Uploads = {}
    /\ (Actors \cup Bases) \cap {Old, Partial, None, Free} = {}
    /\ Actors \cap Bases = {}
    /\ Cardinality({Old, Partial, None, Free}) = 4
ASSUME BoundsAreNat == {MaxEdits, MaxFaults, MaxCrashes} \subseteq Nat

VARIABLES
    formal,    \* content of the formal file
    recs, cur, \* versions.json: the records and the selected version
    snaps,     \* snapshot files, each <<medium, version>>
    manifest,  \* basis registered for the formal file
    uri,       \* whose remote address the script gives for the unit
    want,      \* basis the script and the project give the unit now
    adm, doc, ver,  \* who holds each lock
    pc, mem,   \* control and locals of every actor
    edits, faults, crashes,
    damage,    \* what no handler repaired: a crash, a failed rollback
    selector,  \* whose step made the current selection
    stuck      \* generations whose compensation failed

disk  == <<formal, recs, cur, snaps, manifest>>
locks == <<adm, doc, ver>>
ghost == <<damage, selector, stuck>>
env   == <<want, edits, faults, crashes>>
vars  == <<disk, uri, locks, pc, mem, ghost, env>>

Entries == Bases \cup Uploads \cup {None}
Blank == [basis |-> None, parent |-> 0, guarded |-> FALSE, own |-> 0, prev |-> 0,
          backup |-> None, entry |-> None, uri |-> None, len |-> 0, damage |-> {}]

(***************************************************************************)
(* Helpers of the version history.  A formal file no version records is    *)
(* taken into the history by the next commit, before the new medium.       *)
(***************************************************************************)
Untracked(f) == f # None /\ cur = 0

TrackedRecs(f) ==
    IF Untracked(f) THEN Append(recs, [m |-> f, basis |-> None, prev |-> 0]) ELSE recs

TrackedCur(f) == IF Untracked(f) THEN Len(recs) + 1 ELSE cur

\* The record _append_selected_snapshot and _append_snapshot build for a medium.
Record(f, m, b) == [m |-> m, basis |-> b, prev |-> TrackedCur(f)]

NewSnaps(f, m) ==
    {<<m, Len(TrackedRecs(f)) + 1>>}
        \cup (IF Untracked(f) THEN {<<f, Len(recs) + 1>>} ELSE {})

\* Leaving the with-blocks of every lock a holds, and ending in state p.
End(a, p) ==
    /\ adm' = IF adm = a THEN Free ELSE adm
    /\ doc' = IF doc = a THEN Free ELSE doc
    /\ ver' = IF ver = a THEN Free ELSE ver
    /\ pc' = [pc EXCEPT ![a] = p]
    /\ mem' = [mem EXCEPT ![a] = Blank]

Fault == faults < MaxFaults /\ faults' = faults + 1 /\ UNCHANGED <<want, edits, crashes>>

Goto(a, from, to) == pc[a] = from /\ pc' = [pc EXCEPT ![a] = to]

Init ==
    /\ formal \in {None, Old} /\ recs = <<>> /\ cur = 0 /\ snaps = {}
    /\ manifest = None /\ uri = None /\ want \in Bases
    /\ adm = Free /\ doc = Free /\ ver = Free
    /\ pc = [a \in Actors |-> "idle"] /\ mem = [a \in Actors |-> Blank]
    /\ edits = 0 /\ faults = 0 /\ crashes = 0
    /\ damage = {} /\ selector = None /\ stuck = {}

(***************************************************************************)
(* A generation up to the point where its paid result is on disk.  The     *)
(* basis is frozen from the project and script first, the version it       *)
(* regenerates later, just before the provider is asked.                   *)
(***************************************************************************)
FreezeBasis(g) ==
    /\ g \in Gens /\ Goto(g, "idle", "frozen")
    /\ mem' = [mem EXCEPT ![g].basis = want]
    /\ UNCHANGED <<disk, uri, locks, ghost, env>>

Checkpoint(g) ==
    /\ Goto(g, "frozen", "paid") /\ ver = Free
    /\ mem' = [mem EXCEPT ![g].parent = cur]
    /\ UNCHANGED <<disk, uri, locks, ghost, env>>

\* The admission lock, polled by a finished generation and by a restore.
Admit(a) ==
    /\ adm = Free /\ adm' = a
    /\ Goto(a, "paid", "admitted") \/ Goto(a, "asked", "admitted")
    /\ UNCHANGED <<disk, uri, doc, ver, mem, ghost, env>>

\* Preparing the commit failed: the result is archived without any guard.
PrepareFails(g) ==
    /\ Fault /\ Goto(g, "paid", "archiving")
    /\ UNCHANGED <<disk, uri, locks, mem, ghost>>

\* Mutant: the basis is read without the locks of script and project.
GuardUnlocked(g) ==
    /\ g \in Gens /\ Goto(g, "admitted", "guarded")
    /\ doc = Free
    /\ mem' = [mem EXCEPT ![g].guarded = TRUE, ![g].uri = uri]
    /\ UNCHANGED <<disk, uri, locks, ghost, env>>

Guard(g) ==
    /\ g \in Gens /\ Goto(g, "admitted", "guarded")
    /\ doc = Free /\ doc' = g
    /\ mem' = [mem EXCEPT ![g].guarded = TRUE, ![g].uri = uri]
    /\ UNCHANGED <<disk, uri, adm, ver, ghost, env>>

\* The script or the project cannot be read: archived as well.
GuardFails(g) ==
    /\ g \in Gens /\ Fault /\ Goto(g, "admitted", "archiving")
    /\ UNCHANGED <<disk, uri, locks, mem, ghost>>

(***************************************************************************)
(* Committing a paid result: the history first, then the choice, then the  *)
(* three writes of the selection.                                          *)
(***************************************************************************)
CopySnapshot(g) ==
    /\ Goto(g, "guarded", "copied") \/ Goto(g, "archiving", "copied")
    /\ ver = Free /\ ver' = g
    /\ snaps' = snaps \cup NewSnaps(formal, g)
    /\ UNCHANGED <<formal, recs, cur, manifest, uri, adm, doc, mem, ghost, env>>

Selectable(g) == mem[g].guarded /\ mem[g].parent = cur /\ mem[g].basis = want

SaveHistory(g) ==
    /\ pc[g] = "copied"
    /\ recs' = Append(TrackedRecs(formal), Record(formal, g, mem[g].basis))
    /\ cur' = TrackedCur(formal)
    /\ \/ /\ Selectable(g)
          /\ pc' = [pc EXCEPT ![g] = "chosen"]
          /\ mem' = [mem EXCEPT ![g].own = Len(TrackedRecs(formal)) + 1,
                                ![g].prev = TrackedCur(formal), ![g].backup = formal]
          /\ UNCHANGED locks
       \/ /\ ~ Selectable(g)
          /\ End(g, IF mem[g].guarded THEN "done" ELSE "failed")
    /\ UNCHANGED <<formal, snaps, manifest, uri, ghost, env>>

\* versions.json cannot be written: the snapshots go, and the staged file too.
HistoryFails(g) ==
    /\ pc[g] = "copied" /\ Fault
    /\ snaps' = snaps \ NewSnaps(formal, g)
    /\ End(g, "failed")
    /\ UNCHANGED <<formal, recs, cur, manifest, uri, ghost>>

Install(g) ==
    /\ Goto(g, "chosen", "installed")
    /\ formal' = g
    /\ UNCHANGED <<recs, cur, snaps, manifest, uri, locks, mem, ghost, env>>

\* Shared by a commit and a restore: the pointer follows the file ...
Point(a) ==
    /\ a \notin Uploads /\ Goto(a, "installed", "pointed")
    /\ cur' = mem[a].own /\ selector' = a
    /\ UNCHANGED <<formal, recs, snaps, manifest, uri, locks, mem, damage, stuck, env>>

\* ... and the manifest follows the pointer, the last write under ver and doc.
Register(a) ==
    /\ pc[a] = "pointed"
    /\ manifest' = recs[cur].basis
    /\ damage' = damage \ {"crash"}
    /\ \/ /\ a \in Gens
          /\ doc' = Free /\ ver' = Free
          /\ pc' = [pc EXCEPT ![a] = "committed"]
          /\ mem' = [mem EXCEPT ![a].entry = manifest, ![a].damage = damage]
          /\ UNCHANGED adm
       \/ a \in Restores /\ End(a, "done")
    /\ UNCHANGED <<formal, recs, cur, snaps, uri, selector, stuck, env>>

(***************************************************************************)
(* Rolling back: file, then versions.json, then (an upload) snapshots and, *)
(* where the script was written, the script.  A failing write of the       *)
(* rollback is passed over, and the error says the rollback is incomplete. *)
(***************************************************************************)
ActivationFails(a) ==
    /\ pc[a] \in {"chosen", "copying", "filed", "installed", "pointed", "recorded"} /\ Fault
    /\ pc' = [pc EXCEPT ![a] = "undo_file"]
    /\ UNCHANGED <<disk, uri, locks, mem, ghost>>

\* Mutant: the backup of the formal file is not put back.
UndoFileNever(a) ==
    /\ Goto(a, "undo_file", "undo_versions")
    /\ UNCHANGED <<disk, uri, locks, mem, ghost, env>>

UndoFile(a) ==
    /\ Goto(a, "undo_file", "undo_versions")
    /\ \/ formal' = mem[a].backup /\ UNCHANGED <<damage, env>>
       \/ Fault /\ damage' = damage \cup {"rollback"} /\ UNCHANGED formal
    /\ UNCHANGED <<recs, cur, snaps, manifest, uri, locks, mem, selector, stuck>>

\* Mutant: a failed selection takes the whole file back, like an activation.
UndoWholeFile(a) ==
    /\ pc[a] = "undo_versions"
    /\ cur' = mem[a].prev
    /\ recs' = SubSeq(recs, 1, mem[a].len)
    /\ End(a, "failed")
    /\ UNCHANGED <<formal, snaps, manifest, uri, ghost, env>>

UndoVersions(a) ==
    /\ pc[a] = "undo_versions"
    /\ \/ /\ cur' = mem[a].prev
          /\ recs' = IF a \in Uploads THEN SubSeq(recs, 1, mem[a].len) ELSE recs
          /\ selector' = IF selector = a THEN None ELSE selector
          /\ UNCHANGED <<damage, env>>
       \/ /\ Fault /\ damage' = damage \cup {"rollback"}
          /\ UNCHANGED <<cur, recs, selector>>
    /\ snaps' = IF a \in Uploads
                THEN {s \in snaps : s[2] <= mem[a].len \/ s[1] \notin {a, mem[a].backup}}
                ELSE snaps
    /\ uri' = IF a \in Gens THEN uri ELSE mem[a].uri
    /\ End(a, "failed")
    /\ UNCHANGED <<formal, manifest, stuck>>

(***************************************************************************)
(* After the selection the generation finalizes its result, and takes the  *)
(* selection back when that fails.                                         *)
(***************************************************************************)
Finalize(g) ==
    /\ pc[g] = "committed" /\ doc = Free
    /\ uri' \in {g, None}
    /\ End(g, "done")
    /\ UNCHANGED <<disk, ghost, env>>

\* The thumbnail or the script fails, or the coroutine is cancelled.
FinalizeFails(g) ==
    /\ Goto(g, "committed", "compensating")
    /\ UNCHANGED <<disk, uri, locks, mem, ghost, env>>

WithdrawAssets(g) ==
    /\ Goto(g, "compensating", "rejecting") /\ doc = Free /\ doc' = g
    /\ uri' = mem[g].uri
    /\ mem' = [mem EXCEPT ![g].uri = uri]
    /\ UNCHANGED <<disk, adm, ver, ghost, env>>

SelectionChanged(g) ==
    /\ pc[g] = "rejecting" /\ ver = Free /\ cur # mem[g].own
    /\ uri' = mem[g].uri
    /\ End(g, "failed")
    /\ UNCHANGED <<disk, ghost, env>>

RejectFile(g) ==
    /\ Goto(g, "rejecting", "refiled") /\ cur = mem[g].own
    /\ ver = Free /\ ver' = g
    /\ formal' = IF recs[cur].prev = 0 THEN None ELSE recs[recs[cur].prev].m
    /\ UNCHANGED <<recs, cur, snaps, manifest, uri, adm, doc, mem, ghost, env>>

RejectPointer(g) ==
    /\ Goto(g, "refiled", "repointed")
    /\ cur' = recs[cur].prev /\ selector' = None
    /\ UNCHANGED <<formal, recs, snaps, manifest, uri, locks, mem, damage, stuck, env>>

RejectManifest(g) ==
    /\ pc[g] = "repointed" /\ manifest = mem[g].basis
    /\ manifest' = mem[g].entry
    /\ damage' = damage \cup mem[g].damage
    /\ End(g, "failed")
    /\ UNCHANGED <<formal, recs, cur, snaps, uri, selector, stuck, env>>

\* A write fails, or the entry is no longer this generation's: all is put back.
CompensationFails(g) ==
    /\ pc[g] \in {"refiled", "repointed"}
    /\ \/ Fault
       \/ pc[g] = "repointed" /\ manifest # mem[g].basis /\ UNCHANGED env
    /\ formal' = g /\ cur' = mem[g].own /\ uri' = mem[g].uri
    /\ selector' = g /\ stuck' = stuck \cup {g}
    /\ End(g, "failed")
    /\ UNCHANGED <<recs, snaps, manifest, damage>>

(***************************************************************************)
(* A user restores an older version.  Only versions with the facts of a    *)
(* generation qualify.                                                     *)
(***************************************************************************)
AskRestore(r) ==
    /\ r \in Restores /\ Goto(r, "idle", "asked") /\ ver = Free
    /\ \E v \in DOMAIN recs :
        /\ recs[v].basis \in Bases
        /\ mem' = [mem EXCEPT ![r].own = v]
    /\ UNCHANGED <<disk, uri, locks, ghost, env>>

\* Restores and uploads write the script first, inside its transaction.
WriteScript(a) ==
    /\ a \notin Gens /\ doc = Free /\ doc' = a
    /\ Goto(a, "admitted", "scripted") \/ (a \in Uploads /\ Goto(a, "idle", "scripted"))
    /\ uri' = None
    /\ mem' = [mem EXCEPT ![a].uri = uri]
    /\ UNCHANGED <<disk, adm, ver, ghost, env>>

StartCopy(r) ==
    /\ r \in Restores /\ Goto(r, "scripted", "copying")
    /\ ver = Free /\ ver' = r
    /\ formal' = Partial
    /\ mem' = [mem EXCEPT ![r].prev = cur, ![r].backup = formal]
    /\ UNCHANGED <<recs, cur, snaps, manifest, uri, adm, doc, ghost, env>>

FinishCopy(r) ==
    /\ Goto(r, "copying", "installed")
    /\ formal' = recs[mem[r].own].m
    /\ UNCHANGED <<recs, cur, snaps, manifest, uri, locks, mem, ghost, env>>

(***************************************************************************)
(* A user uploads a video.  The upload does not take the admission lock.   *)
(***************************************************************************)
UploadSnapshot(u) ==
    /\ u \in Uploads /\ Goto(u, "scripted", "filed")
    /\ ver = Free /\ ver' = u
    /\ snaps' = snaps \cup NewSnaps(formal, u)
    /\ mem' = [mem EXCEPT ![u].prev = cur, ![u].backup = formal, ![u].len = Len(recs)]
    /\ UNCHANGED <<formal, recs, cur, manifest, uri, adm, doc, ghost, env>>

UploadFile(u) ==
    /\ Goto(u, "filed", "installed")
    /\ formal' = u
    /\ UNCHANGED <<recs, cur, snaps, manifest, uri, locks, mem, ghost, env>>

UploadVersions(u) ==
    /\ u \in Uploads /\ Goto(u, "installed", "recorded")
    /\ LET before == mem[u].backup
       IN  /\ recs' = Append(TrackedRecs(before), Record(before, u, None))
           /\ cur' = Len(TrackedRecs(before)) + 1
    /\ selector' = u
    /\ UNCHANGED <<formal, snaps, manifest, uri, locks, mem, damage, stuck, env>>

\* The planner projects a basis from the uploaded bytes, or forgets the entry.
UploadClaim(u) ==
    /\ pc[u] = "recorded"
    /\ manifest' \in {u, None}
    /\ damage' = damage \ {"crash"}
    /\ End(u, "done")
    /\ UNCHANGED <<formal, recs, cur, snaps, uri, selector, stuck, env>>

(***************************************************************************)
(* The environment: edits of the content, and the end of the process.  The *)
(* task of a submitted generation is resumed and fetches its result again, *)
(* with the basis and the parent of its checkpoint.                        *)
(***************************************************************************)
Edit ==
    /\ edits < MaxEdits /\ edits' = edits + 1
    /\ doc = Free
    /\ want' \in Bases \ {want}
    /\ UNCHANGED <<disk, uri, locks, pc, mem, ghost, faults, crashes>>

Resumed(g) == pc[g] \notin {"idle", "frozen", "done", "failed"}

Crash ==
    /\ crashes < MaxCrashes /\ crashes' = crashes + 1
    /\ adm' = Free /\ doc' = Free /\ ver' = Free
    /\ pc' = [a \in Actors |-> IF a \in Gens /\ Resumed(a) THEN "paid"
                               ELSE IF pc[a] \in {"idle", "done"} THEN pc[a] ELSE "failed"]
    /\ mem' = [a \in Actors |->
                 IF a \in Gens /\ Resumed(a)
                 THEN [Blank EXCEPT !.basis = mem[a].basis, !.parent = mem[a].parent]
                 ELSE Blank]
    /\ damage' = damage \cup (IF ver = Free THEN {} ELSE {"crash"})
    /\ UNCHANGED <<disk, uri, selector, stuck, want, edits, faults>>

Generation(g) ==
    \/ FreezeBasis(g) \/ Checkpoint(g) \/ PrepareFails(g) \/ Guard(g) \/ GuardFails(g)
    \/ CopySnapshot(g) \/ SaveHistory(g) \/ HistoryFails(g) \/ Install(g)
    \/ Finalize(g) \/ FinalizeFails(g) \/ WithdrawAssets(g) \/ SelectionChanged(g)
    \/ RejectFile(g) \/ RejectPointer(g) \/ RejectManifest(g) \/ CompensationFails(g)

Restore(r) == AskRestore(r) \/ StartCopy(r) \/ FinishCopy(r)

Upload(u) == UploadSnapshot(u) \/ UploadFile(u) \/ UploadVersions(u) \/ UploadClaim(u)

Shared(a) ==
    \/ Admit(a) \/ Point(a) \/ Register(a) \/ WriteScript(a)
    \/ ActivationFails(a) \/ UndoFile(a) \/ UndoVersions(a)

Act(a) ==
    \/ a \in Gens /\ Generation(a)
    \/ a \in Restores /\ Restore(a)
    \/ a \in Uploads /\ Upload(a)
    \/ Shared(a)

Settled(a) == pc[a] \in {"done", "failed"}

\* Every actor has ended, or is a restore nobody asked for.
Finished ==
    /\ \A a \in Actors : Settled(a) \/ (a \in Restores /\ pc[a] = "idle")
    /\ UNCHANGED vars

Next == (\E a \in Actors : Act(a)) \/ Edit \/ Crash \/ Finished

Spec == Init /\ [][Next]_vars

(***************************************************************************)
(* Properties.                                                             *)
(***************************************************************************)
TypeOK ==
    /\ formal \in Media \cup {None, Partial}
    /\ recs \in Seq([m : Media \cup {Partial}, basis : Bases \cup {None}, prev : Nat])
    /\ cur \in 0 .. Len(recs) /\ snaps \subseteq ((Media \cup {Partial}) \X Nat)
    /\ manifest \in Entries /\ uri \in Gens \cup {None} /\ want \in Bases
    /\ {adm, doc, ver} \subseteq Actors \cup {Free}
    /\ DOMAIN pc = Actors /\ DOMAIN mem = Actors
    /\ damage \subseteq {"crash", "rollback"} /\ stuck \subseteq Gens

\* The formal file and the pointer of versions.json are two files: outside the
\* version lock the file holds the medium of the selected version, whatever
\* commits, restores, uploads, compensations and rollbacks ran, and one
\* completed selection repairs what a crash tore apart.
FormalIsSelected ==
    ver = Free /\ damage = {} =>
        IF cur = 0 THEN formal \in {None, Old} ELSE formal = recs[cur].m

\* The manifest is a third file: it registers the basis of the selected
\* version, also after a compensation put a captured entry back.
ManifestIsSelected ==
    ver = Free /\ damage = {} =>
        \/ manifest = None /\ (cur = 0 \/ recs[cur].basis = None)
        \/ cur > 0 /\ manifest \in {recs[cur].basis, recs[cur].m}

\* Every version of the history has its snapshot on disk, crash or not: a
\* rollback takes the record back before it deletes the file.
EveryRecordHasItsSnapshot ==
    "rollback" \notin damage => \A v \in DOMAIN recs : <<recs[v].m, v>> \in snaps

\* A generation that failed has left no selection of its own behind, unless a
\* rollback or its compensation failed as well or the process ended on the way.
FailedLeavesNoSelection ==
    \A g \in Gens : pc[g] = "failed" /\ selector = g => g \in stuck \/ damage # {} \/ crashes > 0

Finalizing(g) == pc[g] \in {"committed", "compensating", "rejecting", "refiled", "repointed"}

\* The remote address in the script belongs to the selected version as soon as
\* no generation is between its commit and the end of its finalization, unless a
\* compensation failed, the process ended in between, or an upload, which does
\* not take the admission lock, came between the two.
UriFollowsSelection ==
    doc = Free /\ damage = {} /\ crashes = 0 /\ stuck = {}
    /\ (\A u \in Uploads : pc[u] = "idle") /\ ~ (\E g \in Gens : Finalizing(g)) =>
        uri = None \/ (cur > 0 /\ uri = recs[cur].m)

InHistory(g) == \E v \in DOMAIN recs : recs[v].m = g

\* A result that was paid for never leaves the history again.
PaidResultStays == [][\A g \in Gens : InHistory(g) => InHistory(g)']_vars

\* A generation is selected only over the version it regenerates (or the
\* untracked file that became a version then) and only while the basis it was
\* paid for is the basis of the unit: the check is made some writes earlier.
SelectsOnlyCurrent ==
    [][\A g \in Gens :
        selector' = g /\ cur' # cur /\ pc'[g] = "pointed" =>
            /\ mem[g].basis = want
            /\ cur = mem[g].parent \/ (mem[g].parent = 0 /\ recs[cur].basis = None)]_vars

\* File, history, snapshots, manifest entry and script speak of one selection,
\* and a task that failed has left none of its own behind.
SelectionAgrees ==
    /\ TypeOK
    /\ FormalIsSelected /\ ManifestIsSelected /\ EveryRecordHasItsSnapshot
    /\ UriFollowsSelection /\ FailedLeavesNoSelection
=============================================================================
