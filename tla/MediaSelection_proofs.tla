------------------------ MODULE MediaSelection_proofs ------------------------
(***************************************************************************)
(* The selection of a unit agrees in its four places (SelectionAgrees), a  *)
(* paid result stays in the history (PaidResultStays) and only what is     *)
(* current is selected (SelectsOnlyCurrent), for any number of             *)
(* generations, restores, uploads and bases, and whatever fails.           *)
(*                                                                         *)
(* The argument is one of locks. While an actor holds the lock of          *)
(* versions.json nobody else touches file, history and manifest, and what  *)
(* it keeps in its locals is enough to say what a rollback will lead back  *)
(* to (ChangeStands). What an actor remembers without the lock are numbers *)
(* of versions, and these stay valid because a rollback only takes back    *)
(* what the same upload has appended under the same lock (Kept).           *)
(***************************************************************************)
EXTENDS MediaSelection, TLAPS

GenPlaces == {"idle", "frozen", "paid", "admitted", "archiving", "guarded", "copied", "chosen",
              "installed", "pointed", "undo_file", "undo_versions", "committed", "compensating",
              "rejecting", "refiled", "repointed", "done", "failed"}
RestorePlaces == {"idle", "asked", "admitted", "scripted", "copying", "installed", "pointed",
                  "undo_file", "undo_versions", "done", "failed"}
UploadPlaces == {"idle", "scripted", "filed", "installed", "recorded", "undo_file",
                 "undo_versions", "done", "failed"}

Files == Media \cup {None, Partial}
Versions == [m : Media \cup {Partial}, basis : Bases \cup {None}, prev : Nat]
Locals == [basis : Bases \cup {None}, parent : Nat, guarded : BOOLEAN, own : Nat, prev : Nat,
           backup : Files, entry : Entries, uri : Gens \cup {None}, len : Nat,
           damage : SUBSET {"crash", "rollback"}]

\* Everybody stands where one of their kind can stand, and a version follows
\* versions before it.
PlacesStand ==
    /\ \A g \in Gens : pc[g] \in GenPlaces
    /\ \A r \in Restores : pc[r] \in RestorePlaces
    /\ \A u \in Uploads : pc[u] \in UploadPlaces
    /\ mem \in [Actors -> Locals]
    /\ \A v \in DOMAIN recs : recs[v].prev < v

\* Where the locks are held.
Changing == {"chosen", "copying", "filed", "installed", "pointed", "recorded", "undo_file",
             "undo_versions"}
Refusing == {"refiled", "repointed"}
Ending   == {"committed", "compensating", "rejecting"} \cup Refusing
UnderVer == Changing \cup Refusing \cup {"copied"}
UnderDoc == Changing \cup Refusing \cup {"guarded", "scripted", "rejecting"}

Locked(a) ==
    /\ pc[a] \in UnderVer <=> ver = a
    /\ pc[a] \in UnderDoc \/ (pc[a] = "copied" /\ mem[a].guarded) => doc = a
    /\ a \in Gens /\ mem[a].guarded => adm = a
    /\ pc[a] = "admitted" => adm = a
    /\ a \in Restores /\ pc[a] \in UnderDoc => adm = a
    /\ a \in Gens /\ pc[a] \in UnderDoc \cup Ending => mem[a].guarded
    /\ mem[a].guarded => a \in Gens /\ pc[a] \in UnderDoc \cup Ending \cup {"copied"}
LocksStand == \A a \in Actors : Locked(a)

\* A version that no rollback takes back.
Kept(v) == v \in DOMAIN recs /\ \A u \in Uploads : ver = u => v <= mem[u].len

\* The file or the manifest entry is the one of a version.
FileOf(f, v) == IF v = 0 THEN f \in {None, Old} ELSE f = recs[v].m
EntryOf(e, v) == \/ e = None /\ (v = 0 \/ recs[v].basis = None)
                 \/ v > 0 /\ e \in {recs[v].basis, recs[v].m}

\* The selection a rollback of a returns to is whole, and a is on its way from it.
ChangeStands(a) ==
    pc[a] \in Changing =>
        /\ mem[a].prev <= Len(recs)
        /\ pc[a] \in {"chosen", "copying", "filed", "installed"} => cur = mem[a].prev
        /\ pc[a] \in {"undo_file", "undo_versions"} => cur = mem[a].prev \/ selector = a
        /\ pc[a] \in {"pointed", "recorded"} => selector = a
        /\ pc[a] \in {"chosen", "filed"} => formal = mem[a].backup
        /\ pc[a] = "pointed" => cur = mem[a].own
        /\ pc[a] = "undo_versions" /\ damage = {} => formal = mem[a].backup
        /\ a \in Restores /\ pc[a] \in {"installed", "pointed"} => formal = recs[mem[a].own].m
        /\ a \notin Restores /\ pc[a] \in {"installed", "pointed", "recorded"} => formal = a
        /\ damage = {} => FileOf(mem[a].backup, mem[a].prev) /\ EntryOf(manifest, mem[a].prev)

\* The same of a commit that has only copied its snapshot.
CopyStands(a) ==
    pc[a] = "copied" =>
        /\ damage = {} => FileOf(formal, cur) /\ EntryOf(manifest, cur)
        /\ NewSnaps(formal, a) \subseteq snaps

\* The version a generation has made is its own, and follows what it replaced;
\* the version a restore goes back to stays.
OwnStands(a) ==
    /\ a \in Gens /\ pc[a] \in Changing \cup Ending =>
        /\ Kept(mem[a].own) /\ recs[mem[a].own].m = a
        /\ recs[mem[a].own].basis = mem[a].basis /\ recs[mem[a].own].prev = mem[a].prev
    /\ a \in Restores /\ pc[a] \in Changing \cup {"asked", "admitted", "scripted"} => Kept(mem[a].own)

\* A rejection knows what the manifest said before.
RejectionStands(a) ==
    /\ pc[a] \in Ending /\ mem[a].damage = {} => EntryOf(mem[a].entry, mem[a].prev)
    /\ pc[a] \in Refusing =>
         /\ cur = IF pc[a] = "refiled" THEN mem[a].own ELSE mem[a].prev
         /\ damage = {} => FileOf(formal, mem[a].prev) /\ EntryOf(manifest, mem[a].own)

\* What an upload appends is the medium it carries and the file it found.
UploadStands(a) ==
    a \in Uploads /\ pc[a] \in Changing =>
        /\ mem[a].prev <= mem[a].len /\ mem[a].len <= Len(recs)
        /\ \A v \in DOMAIN recs : v > mem[a].len => recs[v].m \in {a, mem[a].backup}
        /\ pc[a] \in {"filed", "installed"} =>
             /\ Len(recs) = mem[a].len
             /\ NewSnaps(mem[a].backup, a) \subseteq snaps
        /\ pc[a] = "recorded" => cur = Len(recs) /\ cur > 0 /\ recs[cur].m = a /\ recs[cur].basis = None

\* What was chosen was current when it was chosen, and still is.
ChoiceStands(a) ==
    pc[a] \in {"chosen", "installed"} /\ a \in Gens =>
        /\ mem[a].basis = want
        /\ cur = mem[a].parent \/ (mem[a].parent = 0 /\ recs[cur].basis = None)

ActorStands(a) ==
    /\ ChangeStands(a) /\ CopyStands(a) /\ OwnStands(a) /\ RejectionStands(a)
    /\ UploadStands(a) /\ ChoiceStands(a)

\* A paid result that is or may again become the formal file is in the history.
PaidIsKept ==
    \A g \in Gens :
        formal = g \/ (\E a \in Actors : pc[a] \in Changing /\ mem[a].backup = g)
        => \E v \in DOMAIN recs : Kept(v) /\ recs[v].m = g

\* Only a crash leaves a crash behind.
DamageStands ==
    /\ crashes \in Nat
    /\ "crash" \in damage => crashes > 0
    /\ \A a \in Actors : "crash" \in mem[a].damage => crashes > 0

\* Whoever made the current selection has not failed.
SelectorStands ==
    damage = {} /\ crashes = 0 =>
        \A g \in Gens \ stuck : selector = g =>
            /\ pc[g] \in {"pointed", "undo_file", "undo_versions", "done"} \cup (Ending \ {"repointed"})
            /\ pc[g] \in Ending => cur = mem[g].own

\* The address in the script, as it will be once whoever holds the admission
\* lock is rolled back, belongs to the selection there will be then.
Addresses(w, v) == w = None \/ (v > 0 /\ w = recs[v].m)
Alone == damage = {} /\ crashes = 0 /\ stuck = {} /\ \A u \in Uploads : pc[u] = "idle"
Addressed(a) ==
    /\ a \in Gens /\ mem[a].guarded => uri = mem[a].uri
    /\ a \in Restores /\ pc[a] \in UnderDoc => uri = None
    /\ a \in Gens /\ pc[a] \in Ending \ {"repointed"} => cur = mem[a].own
    /\ a \in Gens /\ pc[a] \in Changing \cup Ending => Addresses(uri, mem[a].prev)
    /\ pc[a] = "scripted" => Addresses(mem[a].uri, cur)
    /\ a \in Restores /\ pc[a] \in Changing => Addresses(mem[a].uri, mem[a].prev)
Replacing(a) == a \in Gens /\ pc[a] \in Changing \cup Ending
AddressStands ==
    Alone => /\ \A a \in Actors : Addressed(a)
             /\ Addresses(uri, cur) \/ \E a \in Actors : Replacing(a)

MediaInv ==
    /\ TypeOK /\ PlacesStand /\ LocksStand
    /\ FormalIsSelected /\ ManifestIsSelected /\ EveryRecordHasItsSnapshot
    /\ \A a \in Actors : ActorStands(a)
    /\ PaidIsKept /\ DamageStands /\ SelectorStands /\ AddressStands

-----------------------------------------------------------------------------
(* The constants, the history, and what everybody but one actor keeps.     *)

LEMMA Names ==
  /\ Gens \cap Uploads = {} /\ Gens \cap Restores = {} /\ Restores \cap Uploads = {}
  /\ Gens \subseteq Actors /\ Uploads \subseteq Actors /\ Restores \subseteq Actors
  /\ Actors = Gens \cup Restores \cup Uploads
  /\ Old \notin Gens /\ None \notin Actors /\ Partial \notin Gens /\ Free \notin Actors
  BY ConstantsAreDistinct DEF Actors, Media

\* What is taken into the history first leaves what is there, and is typed.
LEMMA TrackedHistory ==
  ASSUME TypeOK, PlacesStand, NEW f \in Files
  PROVE  /\ recs \in Seq(Versions) /\ Len(recs) \in Nat /\ cur \in Nat
         /\ TrackedRecs(f) \in Seq(Versions)
         /\ ~ Untracked(f) => TrackedRecs(f) = recs /\ TrackedCur(f) = cur
         /\ Untracked(f) => /\ Len(TrackedRecs(f)) = Len(recs) + 1 /\ TrackedCur(f) = Len(recs) + 1
                            /\ TrackedRecs(f)[Len(recs) + 1] = [m |-> f, basis |-> None, prev |-> 0]
         /\ \A v \in DOMAIN recs : TrackedRecs(f)[v] = recs[v]
         /\ TrackedCur(f) \in 0 .. Len(TrackedRecs(f))
         /\ \A v \in DOMAIN TrackedRecs(f) : TrackedRecs(f)[v].prev < v
<1> USE DEF TypeOK, Versions
<1>1. recs \in Seq(Versions) /\ cur \in 0 .. Len(recs) /\ Len(recs) \in Nat
  OBVIOUS
<1>2. CASE Untracked(f)
  <2> DEFINE r == [m |-> f, basis |-> None, prev |-> 0]
  <2>1. r \in Versions
    BY <1>2 DEF Untracked, Files
  <2>2. TrackedRecs(f) = Append(recs, r) /\ TrackedCur(f) = Len(recs) + 1
    BY <1>2 DEF TrackedRecs, TrackedCur
  <2>prev. r.prev = 0
    OBVIOUS
  <2> HIDE DEF r
  <2>3. /\ Append(recs, r) \in Seq(Versions) /\ Len(Append(recs, r)) = Len(recs) + 1
        /\ \A v \in DOMAIN recs : Append(recs, r)[v] = recs[v]
        /\ Append(recs, r)[Len(recs) + 1] = r
    BY <1>1, <2>1
  <2> QED
    BY <1>1, <1>2, <2>2, <2>3, <2>prev DEF r, PlacesStand
<1>3. CASE ~ Untracked(f)
  BY <1>1, <1>3 DEF TrackedRecs, TrackedCur, PlacesStand
<1> QED
  BY <1>2, <1>3

LEMMA Numbers ==
  ASSUME NEW m \in Nat, NEW n \in Nat
  PROVE  /\ m <= n => 1 .. m \subseteq 1 .. n
         /\ \A v \in 1 .. n + 1 : v # n + 1 => v \in 1 .. n
         /\ \A v \in 1 .. n : n = m + 1 /\ v \notin 1 .. m => v = m + 1
  BY SMTT(30)

\* The history with one more version.
LEMMA LongerHistory ==
  ASSUME TypeOK, PlacesStand, NEW f \in Files, NEW m \in Media, NEW b \in Bases \cup {None},
         recs' = Append(TrackedRecs(f), Record(f, m, b))
  PROVE  /\ recs' \in Seq(Versions)
         /\ Len(recs') = Len(TrackedRecs(f)) + 1 /\ Len(recs') > Len(recs)
         /\ DOMAIN recs \subseteq DOMAIN recs'
         /\ \A v \in DOMAIN recs : recs'[v] = recs[v]
         /\ recs'[Len(recs')].m = m /\ recs'[Len(recs')].basis = b
         /\ recs'[Len(recs')].prev = TrackedCur(f)
         /\ Untracked(f) => /\ Len(recs') = Len(recs) + 2 /\ TrackedCur(f) = Len(recs) + 1
                            /\ recs'[Len(recs) + 1] = [m |-> f, basis |-> None, prev |-> 0]
         /\ ~ Untracked(f) => Len(recs') = Len(recs) + 1 /\ TrackedCur(f) = cur
         /\ \A v \in DOMAIN recs' : recs'[v].prev < v
         /\ \A v \in DOMAIN recs' : v \in DOMAIN recs \/ recs'[v].m \in {m, f}
<1> DEFINE t == TrackedRecs(f)
           r == Record(f, m, b)
<1>tracked. /\ recs \in Seq(Versions) /\ Len(recs) \in Nat /\ cur \in Nat
            /\ t \in Seq(Versions)
            /\ ~ Untracked(f) => t = recs /\ TrackedCur(f) = cur
            /\ Untracked(f) => /\ Len(t) = Len(recs) + 1 /\ TrackedCur(f) = Len(recs) + 1
                               /\ t[Len(recs) + 1] = [m |-> f, basis |-> None, prev |-> 0]
            /\ \A v \in DOMAIN recs : t[v] = recs[v]
            /\ TrackedCur(f) \in 0 .. Len(t)
            /\ \A v \in DOMAIN t : t[v].prev < v
  BY TrackedHistory
<1>rec. r \in Versions /\ r.m = m /\ r.basis = b /\ r.prev = TrackedCur(f)
  BY <1>tracked DEF Record, Versions
<1>app. recs' = Append(t, r)
  OBVIOUS
<1> HIDE DEF t, r
<1>1. /\ recs' \in Seq(Versions) /\ Len(recs') = Len(t) + 1
      /\ \A v \in DOMAIN t : recs'[v] = t[v]
      /\ recs'[Len(t) + 1] = r /\ DOMAIN recs' = 1 .. Len(t) + 1 /\ DOMAIN t = 1 .. Len(t)
      /\ DOMAIN recs = 1 .. Len(recs)
  BY <1>tracked, <1>rec, <1>app
<1>dom. DOMAIN t = 1 .. Len(t) /\ DOMAIN recs = 1 .. Len(recs) /\ DOMAIN recs' = 1 .. Len(t) + 1
  BY <1>1
<1>rest. Len(recs) \in Nat /\ (~ Untracked(f) => t = recs) /\ (Untracked(f) => Len(t) = Len(recs) + 1)
  BY <1>tracked
<1>end. Len(recs') = Len(t) + 1
  BY <1>1
<1>nat. Len(t) \in Nat /\ TrackedCur(f) \in Nat /\ TrackedCur(f) <= Len(t)
  BY <1>tracked
<1>2. ASSUME NEW v \in DOMAIN recs' PROVE recs'[v].prev < v
  <2>1. CASE v = Len(t) + 1
    BY SMTT(30), <1>1, <1>rec, <1>nat, <2>1
  <2>2. CASE v # Len(t) + 1
    <3>1. v \in DOMAIN t
      BY <1>1, <1>nat, <2>2
    <3> QED
      BY <1>1, <1>tracked, <3>1
  <2> QED
    BY <2>1, <2>2
<1>len. /\ Untracked(f) => Len(recs') = Len(recs) + 2 /\ Len(t) = Len(recs) + 1
        /\ ~ Untracked(f) => Len(recs') = Len(recs) + 1 /\ Len(t) = Len(recs)
  <2>1. CASE Untracked(f)
    BY <1>rest, <1>end, <2>1
  <2>2. CASE ~ Untracked(f)
    <3>1. t = recs
      BY <1>rest, <2>2
    <3> QED
      BY <1>end, <2>2, <3>1
  <2> QED
    BY <2>1, <2>2
<1>old. Untracked(f) => recs'[Len(recs) + 1] = [m |-> f, basis |-> None, prev |-> 0]
  BY <1>1, <1>tracked
<1>3. ASSUME NEW v \in DOMAIN recs', v \notin DOMAIN recs PROVE recs'[v].m \in {m, f}
  <2>1. CASE v = Len(t) + 1
    BY <1>1, <1>rec, <2>1
  <2>2. CASE v # Len(t) + 1
    <3>1. Untracked(f) /\ v = Len(recs) + 1
      <4>1. v \in 1 .. Len(t) /\ v \notin 1 .. Len(recs) /\ Len(recs) \in Nat
        BY ZenonT(40), <1>dom, <1>3, <1>nat, <1>rest, <2>2, Numbers
      <4> QED
        BY SMTT(30), <4>1, <1>len, <1>nat, Numbers
    <3> QED
      BY <3>1, <1>old
  <2> QED
    BY <2>1, <2>2
<1>4. \A v \in DOMAIN recs : recs'[v] = recs[v]
  <2>1. DOMAIN recs \subseteq DOMAIN t
    <3>1. Len(recs) <= Len(t)
      BY <1>len, <1>rest
    <3> QED
      BY <1>dom, <3>1, <1>nat, <1>rest, Numbers
  <2> QED
    BY ZenonT(40), <1>1, <1>tracked, <2>1
<1>5. recs'[Len(recs')].m = m /\ recs'[Len(recs')].basis = b /\ recs'[Len(recs')].prev = TrackedCur(f)
  BY <1>1, <1>rec
<1>6. Len(recs') > Len(recs)
  BY SMTT(30), <1>len, <1>tracked
<1>9. DOMAIN recs \subseteq DOMAIN recs'
  <2>1. Len(recs) <= Len(t) + 1 /\ Len(t) + 1 \in Nat
    BY <1>6, <1>end, <1>rest, <1>nat
  <2> QED
    BY <1>dom, <1>rest, <2>1, Numbers
<1>7. ~ Untracked(f) => TrackedCur(f) = cur
  BY <1>tracked
<1>8. Untracked(f) => TrackedCur(f) = Len(recs) + 1
  BY <1>tracked
<1> QED
  BY <1>1, <1>2, <1>3, <1>4, <1>5, <1>6, <1>7, <1>8, <1>9, <1>len, <1>old DEF t

-----------------------------------------------------------------------------
(* The steps of an actor by what they do to the files.                     *)

\* Nothing but the script and the actor's own locals.
Prepares(a) ==
    \/ a \in Gens /\ \/ FreezeBasis(a) \/ Checkpoint(a) \/ PrepareFails(a) \/ Guard(a) \/ GuardFails(a)
                     \/ FinalizeFails(a) \/ WithdrawAssets(a)
    \/ a \in Restores /\ AskRestore(a)
    \/ Admit(a) \/ WriteScript(a) \/ ActivationFails(a)

\* The lock of versions.json is taken.
Takes(a) ==
    \/ a \in Gens /\ (CopySnapshot(a) \/ RejectFile(a))
    \/ a \in Restores /\ StartCopy(a)
    \/ a \in Uploads /\ UploadSnapshot(a)

\* A write under it.
Chooses(g) == g \in Gens /\ SaveHistory(g) /\ Selectable(g)
Commits(g) == g \in Gens /\ Register(g)
Writes(a) ==
    \/ Chooses(a)
    \/ a \in Gens /\ (Install(a) \/ RejectPointer(a))
    \/ a \in Restores /\ FinishCopy(a)
    \/ a \in Uploads /\ (UploadFile(a) \/ UploadVersions(a))
    \/ Point(a) \/ UndoFile(a)

\* It is let go, for the most part because the actor is at its end.
Archives(g) == g \in Gens /\ SaveHistory(g) /\ ~ Selectable(g)
Restored(r) == r \in Restores /\ Register(r)
Leaves(a) ==
    \/ a \in Gens /\ \/ Finalize(a) \/ SelectionChanged(a) \/ HistoryFails(a) \/ RejectManifest(a)
                     \/ CompensationFails(a)
    \/ Archives(a) \/ Restored(a)
    \/ a \in Uploads /\ UploadClaim(a)
    \/ UndoVersions(a)

LEMMA StepKinds ==
  ASSUME NEW a \in Actors, Act(a)
  PROVE  Prepares(a) \/ Takes(a) \/ Writes(a) \/ Commits(a) \/ Leaves(a)
<1>1. ASSUME a \in Gens, Generation(a) PROVE Prepares(a) \/ Takes(a) \/ Writes(a) \/ Leaves(a)
  BY <1>1 DEF Generation, Prepares, Takes, Writes, Leaves, Chooses, Archives
<1>2. ASSUME a \in Restores, Restore(a) PROVE Prepares(a) \/ Takes(a) \/ Writes(a)
  BY <1>2 DEF Restore, Prepares, Takes, Writes
<1>3. ASSUME a \in Uploads, Upload(a) PROVE Takes(a) \/ Writes(a) \/ Leaves(a)
  BY <1>3 DEF Upload, Takes, Writes, Leaves
<1>4. ASSUME Shared(a) PROVE Prepares(a) \/ Writes(a) \/ Commits(a) \/ Leaves(a)
  <2>1. Register(a) => a \in Gens \/ a \in Restores
    BY DEF Register
  <2> QED
    BY <1>4, <2>1 DEF Shared, Prepares, Writes, Commits, Leaves, Restored
<1> QED
  BY <1>1, <1>2, <1>3, <1>4 DEF Act

LEMMA BlankLocals ==
  Blank \in Locals /\ Blank.guarded = FALSE /\ Blank.damage = {}
  BY DEF Blank, Locals, Entries, Files

\* An actor changes its own place and its own locals.
LEMMA ActsAlone ==
  ASSUME TypeOK, PlacesStand, NEW a \in Actors, Act(a)
  PROVE  /\ DOMAIN pc' = Actors /\ DOMAIN mem' = Actors
         /\ \A b \in Actors : b # a => pc'[b] = pc[b] /\ mem'[b] = mem[b]
<1> DEFINE Goal == /\ DOMAIN pc' = Actors /\ DOMAIN mem' = Actors
                   /\ \A b \in Actors : b # a => pc'[b] = pc[b] /\ mem'[b] = mem[b]
<1> USE DEF TypeOK
<1>1. ASSUME Prepares(a) PROVE Goal
  BY <1>1 DEF Prepares, FreezeBasis, Checkpoint, PrepareFails, Guard, GuardFails, FinalizeFails,
     WithdrawAssets, AskRestore, Admit, WriteScript, ActivationFails, Goto, Fault
<1>2. ASSUME Takes(a) PROVE Goal
  BY <1>2 DEF Takes, CopySnapshot, RejectFile, StartCopy, UploadSnapshot, Goto
<1>3. ASSUME Commits(a) PROVE Goal
  BY <1>3, Names DEF Commits, Register
<1>4. ASSUME Writes(a) PROVE Goal
  <2>1. CASE Chooses(a)
    BY <2>1, Names DEF Chooses, SaveHistory, End
  <2> QED
    BY <1>4, <2>1, Names DEF Writes, Install, RejectPointer, FinishCopy, UploadFile, UploadVersions,
       Point, UndoFile, Goto
<1>5. ASSUME Leaves(a) PROVE Goal
  BY <1>5, Names DEF Leaves, Archives, Restored, SaveHistory, Register, Finalize, SelectionChanged,
     HistoryFails, RejectManifest, CompensationFails, UploadClaim, UndoVersions, End
<1> QED
  BY <1>1, <1>2, <1>3, <1>4, <1>5, StepKinds

\* Whoever leaves lets every lock go and remembers nothing.
LEMMA LeavingEnds ==
  ASSUME TypeOK, PlacesStand, NEW a \in Actors, Leaves(a)
  PROVE  \E p \in {"done", "failed"} : End(a, p)
  BY Names DEF Leaves, Archives, Restored, SaveHistory, Register, Finalize, SelectionChanged,
     HistoryFails, RejectManifest, CompensationFails, UploadClaim, UndoVersions

-----------------------------------------------------------------------------
(* What an actor remembers of a step.                                      *)

\* Everything but the fields named.
Remembers(a, fields) ==
    \A x \in {"basis", "parent", "guarded", "own", "prev", "backup", "entry", "uri", "len", "damage"} \ fields :
        mem'[a][x] = mem[a][x]

LEMMA Memory ==
  ASSUME mem \in [Actors -> Locals], NEW a \in Actors
  PROVE  /\ FreezeBasis(a) => Remembers(a, {"basis"}) /\ mem'[a].basis = want
         /\ Checkpoint(a) => Remembers(a, {"parent"}) /\ mem'[a].parent = cur
         /\ Guard(a) => Remembers(a, {"guarded", "uri"}) /\ mem'[a].guarded = TRUE /\ mem'[a].uri = uri
         /\ WithdrawAssets(a) => Remembers(a, {"uri"}) /\ mem'[a].uri = uri
         /\ AskRestore(a) => Remembers(a, {"own"}) /\ mem'[a].own \in DOMAIN recs
         /\ WriteScript(a) => Remembers(a, {"uri"}) /\ mem'[a].uri = uri
         /\ StartCopy(a) => /\ Remembers(a, {"prev", "backup"})
                            /\ mem'[a].prev = cur /\ mem'[a].backup = formal
         /\ UploadSnapshot(a) => /\ Remembers(a, {"prev", "backup", "len"})
                                 /\ mem'[a].prev = cur /\ mem'[a].backup = formal /\ mem'[a].len = Len(recs)
         /\ Chooses(a) => /\ Remembers(a, {"own", "prev", "backup"})
                          /\ mem'[a].own = Len(TrackedRecs(formal)) + 1
                          /\ mem'[a].prev = TrackedCur(formal) /\ mem'[a].backup = formal
         /\ Commits(a) => /\ Remembers(a, {"entry", "damage"})
                          /\ mem'[a].entry = manifest /\ mem'[a].damage = damage
<1> USE DEF Remembers, Locals
<1>freeze. ASSUME FreezeBasis(a) PROVE Remembers(a, {"basis"}) /\ mem'[a].basis = want
  BY <1>freeze DEF FreezeBasis
<1>check. ASSUME Checkpoint(a) PROVE Remembers(a, {"parent"}) /\ mem'[a].parent = cur
  BY <1>check DEF Checkpoint
<1>guard. ASSUME Guard(a) PROVE Remembers(a, {"guarded", "uri"}) /\ mem'[a].guarded = TRUE /\ mem'[a].uri = uri
  BY <1>guard DEF Guard
<1>withdraw. ASSUME WithdrawAssets(a) PROVE Remembers(a, {"uri"}) /\ mem'[a].uri = uri
  BY <1>withdraw DEF WithdrawAssets
<1>ask. ASSUME AskRestore(a) PROVE Remembers(a, {"own"}) /\ mem'[a].own \in DOMAIN recs
  BY <1>ask DEF AskRestore
<1>script. ASSUME WriteScript(a) PROVE Remembers(a, {"uri"}) /\ mem'[a].uri = uri
  BY <1>script DEF WriteScript
<1>copy. ASSUME StartCopy(a)
         PROVE  /\ Remembers(a, {"prev", "backup"})
                /\ mem'[a].prev = cur /\ mem'[a].backup = formal
  BY <1>copy DEF StartCopy
<1>upload. ASSUME UploadSnapshot(a)
           PROVE  /\ Remembers(a, {"prev", "backup", "len"})
                  /\ mem'[a].prev = cur /\ mem'[a].backup = formal /\ mem'[a].len = Len(recs)
  BY <1>upload DEF UploadSnapshot
<1>choose. ASSUME Chooses(a)
           PROVE  /\ Remembers(a, {"own", "prev", "backup"})
                  /\ mem'[a].own = Len(TrackedRecs(formal)) + 1 /\ mem'[a].prev = TrackedCur(formal) /\ mem'[a].backup = formal
  BY <1>choose, Names DEF Chooses, SaveHistory
<1>commit. ASSUME Commits(a)
           PROVE  /\ Remembers(a, {"entry", "damage"})
                  /\ mem'[a].entry = manifest /\ mem'[a].damage = damage
  BY <1>commit, Names DEF Commits, Register
<1> QED
  BY <1>freeze, <1>check, <1>guard, <1>withdraw, <1>ask, <1>script, <1>copy, <1>upload, <1>choose, <1>commit

LEMMA Recall ==
  ASSUME NEW a \in Actors, NEW S, Remembers(a, S)
  PROVE  /\ "basis" \notin S => mem'[a].basis = mem[a].basis
         /\ "parent" \notin S => mem'[a].parent = mem[a].parent
         /\ "guarded" \notin S => mem'[a].guarded = mem[a].guarded
         /\ "own" \notin S => mem'[a].own = mem[a].own
         /\ "prev" \notin S => mem'[a].prev = mem[a].prev
         /\ "backup" \notin S => mem'[a].backup = mem[a].backup
         /\ "entry" \notin S => mem'[a].entry = mem[a].entry
         /\ "uri" \notin S => mem'[a].uri = mem[a].uri
         /\ "len" \notin S => mem'[a].len = mem[a].len
         /\ "damage" \notin S => mem'[a].damage = mem[a].damage
  BY DEF Remembers

\* The steps that change a field.
LEMMA FieldsStay ==
  ASSUME mem \in [Actors -> Locals], NEW a \in Actors,
         Prepares(a) \/ Takes(a) \/ Writes(a) \/ Commits(a)
  PROVE  /\ FreezeBasis(a) \/ mem'[a].basis = mem[a].basis
         /\ Checkpoint(a) \/ mem'[a].parent = mem[a].parent
         /\ Guard(a) \/ mem'[a].guarded = mem[a].guarded
         /\ AskRestore(a) \/ Chooses(a) \/ mem'[a].own = mem[a].own
         /\ StartCopy(a) \/ UploadSnapshot(a) \/ Chooses(a) \/ mem'[a].prev = mem[a].prev
         /\ StartCopy(a) \/ UploadSnapshot(a) \/ Chooses(a) \/ mem'[a].backup = mem[a].backup
         /\ Commits(a) \/ mem'[a].entry = mem[a].entry
         /\ Guard(a) \/ WithdrawAssets(a) \/ WriteScript(a) \/ mem'[a].uri = mem[a].uri
         /\ UploadSnapshot(a) \/ mem'[a].len = mem[a].len
         /\ Commits(a) \/ mem'[a].damage = mem[a].damage
<1> DEFINE Goal == /\ FreezeBasis(a) \/ mem'[a].basis = mem[a].basis
                   /\ Checkpoint(a) \/ mem'[a].parent = mem[a].parent
                   /\ Guard(a) \/ mem'[a].guarded = mem[a].guarded
                   /\ AskRestore(a) \/ Chooses(a) \/ mem'[a].own = mem[a].own
                   /\ StartCopy(a) \/ UploadSnapshot(a) \/ Chooses(a) \/ mem'[a].prev = mem[a].prev
                   /\ StartCopy(a) \/ UploadSnapshot(a) \/ Chooses(a) \/ mem'[a].backup = mem[a].backup
                   /\ Commits(a) \/ mem'[a].entry = mem[a].entry
                   /\ Guard(a) \/ WithdrawAssets(a) \/ WriteScript(a) \/ mem'[a].uri = mem[a].uri
                   /\ UploadSnapshot(a) \/ mem'[a].len = mem[a].len
                   /\ Commits(a) \/ mem'[a].damage = mem[a].damage
<1>freeze. ASSUME FreezeBasis(a) PROVE Goal
  <2>1. Remembers(a, {"basis"})
    BY <1>freeze, Memory
  <2> QED
    BY <1>freeze, <2>1, Recall
<1>check. ASSUME Checkpoint(a) PROVE Goal
  <2>1. Remembers(a, {"parent"})
    BY <1>check, Memory
  <2> QED
    BY <1>check, <2>1, Recall
<1>guard. ASSUME Guard(a) PROVE Goal
  <2>1. Remembers(a, {"guarded", "uri"})
    BY <1>guard, Memory
  <2> QED
    BY <1>guard, <2>1, Recall
<1>withdraw. ASSUME WithdrawAssets(a) PROVE Goal
  <2>1. Remembers(a, {"uri"})
    BY <1>withdraw, Memory
  <2> QED
    BY <1>withdraw, <2>1, Recall
<1>ask. ASSUME AskRestore(a) PROVE Goal
  <2>1. Remembers(a, {"own"})
    BY <1>ask, Memory
  <2> QED
    BY <1>ask, <2>1, Recall
<1>script. ASSUME WriteScript(a) PROVE Goal
  <2>1. Remembers(a, {"uri"})
    BY <1>script, Memory
  <2> QED
    BY <1>script, <2>1, Recall
<1>copy. ASSUME StartCopy(a) PROVE Goal
  <2>1. Remembers(a, {"prev", "backup"})
    BY <1>copy, Memory
  <2> QED
    BY <1>copy, <2>1, Recall
<1>upload. ASSUME UploadSnapshot(a) PROVE Goal
  <2>1. Remembers(a, {"prev", "backup", "len"})
    BY <1>upload, Memory
  <2> QED
    BY <1>upload, <2>1, Recall
<1>choose. ASSUME Chooses(a) PROVE Goal
  <2>1. Remembers(a, {"own", "prev", "backup"})
    BY <1>choose, Memory
  <2> QED
    BY <1>choose, <2>1, Recall
<1>commit. ASSUME Commits(a) PROVE Goal
  <2>1. Remembers(a, {"entry", "damage"})
    BY <1>commit, Memory
  <2> QED
    BY <1>commit, <2>1, Recall
<1>same. ASSUME mem' = mem PROVE Goal
  BY <1>same
<1> HIDE DEF Goal
<1>prepares. ASSUME Prepares(a) PROVE Goal
  <2>1. PrepareFails(a) \/ GuardFails(a) \/ FinalizeFails(a) \/ Admit(a) \/ ActivationFails(a) => mem' = mem
    BY DEF PrepareFails, GuardFails, FinalizeFails, Admit, ActivationFails
  <2> QED
    BY <1>prepares, <2>1, <1>same, <1>freeze, <1>check, <1>guard, <1>withdraw, <1>ask, <1>script DEF Prepares
<1>takes. ASSUME Takes(a) PROVE Goal
  <2>1. CopySnapshot(a) \/ RejectFile(a) => mem' = mem
    BY DEF CopySnapshot, RejectFile
  <2> QED
    BY <1>takes, <2>1, <1>same, <1>copy, <1>upload DEF Takes
<1>writes. ASSUME Writes(a) PROVE Goal
  <2>1. (Install(a) \/ RejectPointer(a) \/ FinishCopy(a) \/ UploadFile(a) \/ UploadVersions(a)
            \/ Point(a) \/ UndoFile(a)) => mem' = mem
    BY DEF Install, RejectPointer, FinishCopy, UploadFile, UploadVersions, Point, UndoFile
  <2> QED
    BY <1>writes, <2>1, <1>same, <1>choose DEF Writes
<1>goal. Goal
  BY <1>prepares, <1>takes, <1>writes, <1>commit
<1> QED
  BY <1>goal DEF Goal

-----------------------------------------------------------------------------
(* Types, places and locks.                                                *)

LEMMA PlacesKept ==
  ASSUME TypeOK, PlacesStand, NEW a \in Actors, Act(a)
  PROVE  /\ \A g \in Gens : pc'[g] \in GenPlaces
         /\ \A r \in Restores : pc'[r] \in RestorePlaces
         /\ \A u \in Uploads : pc'[u] \in UploadPlaces
<1> DEFINE Goal == /\ a \in Gens => pc'[a] \in GenPlaces
                   /\ a \in Restores => pc'[a] \in RestorePlaces
                   /\ a \in Uploads => pc'[a] \in UploadPlaces
<1> USE DEF GenPlaces, RestorePlaces, UploadPlaces
<1>0. /\ DOMAIN pc = Actors
      /\ a \in Gens => pc[a] \in GenPlaces
      /\ a \in Restores => pc[a] \in RestorePlaces
      /\ a \in Uploads => pc[a] \in UploadPlaces
  BY DEF PlacesStand, TypeOK
<1>1. ASSUME Prepares(a) PROVE Goal
  BY <1>0, <1>1, Names DEF Prepares, FreezeBasis, Checkpoint, PrepareFails, Guard, GuardFails, FinalizeFails,
     WithdrawAssets, AskRestore, Admit, WriteScript, ActivationFails, Goto, Fault
<1>2. ASSUME Takes(a) PROVE Goal
  BY <1>0, <1>2, Names DEF Takes, CopySnapshot, RejectFile, StartCopy, UploadSnapshot, Goto
<1>3. ASSUME Commits(a) PROVE Goal
  BY <1>0, <1>3, Names DEF Commits, Register
<1>4. ASSUME Writes(a) PROVE Goal
  <2>1. CASE Chooses(a)
    BY <1>0, <2>1, Names DEF Chooses, SaveHistory, End
  <2> QED
    BY <1>0, <1>4, <2>1, Names DEF Writes, Install, RejectPointer, FinishCopy, UploadFile, UploadVersions,
       Point, UndoFile, Goto
<1>5. ASSUME Leaves(a) PROVE Goal
  BY <1>0, <1>5, LeavingEnds DEF End
<1>6. Goal
  BY <1>1, <1>2, <1>3, <1>4, <1>5, StepKinds
<1>7. \A b \in Actors : b # a => pc'[b] = pc[b]
  BY ActsAlone
<1> HIDE DEF GenPlaces, RestorePlaces, UploadPlaces
<1> QED
  BY <1>6, <1>7, Names DEF PlacesStand

\* What the lock of versions.json guards is changed by its holder only.
Guarded == <<formal, recs, cur, snaps, manifest, ghost>>
LEMMA LockGuards ==
  ASSUME TypeOK, PlacesStand, LocksStand, NEW a \in Actors, Act(a), ver # a
  PROVE  \/ UNCHANGED Guarded /\ ver' = ver
         \/ Takes(a) /\ ver = Free /\ ver' = a
<1>1. pc[a] \notin UnderVer
  BY DEF LocksStand, Locked
<1> USE <1>1 DEF UnderVer, Changing, Refusing, Guarded, ghost, disk, locks
<1>2. ASSUME Prepares(a) PROVE UNCHANGED Guarded /\ ver' = ver
  BY <1>2 DEF Prepares, FreezeBasis, Checkpoint, PrepareFails, Guard, GuardFails, FinalizeFails,
     WithdrawAssets, AskRestore, Admit, WriteScript, ActivationFails, Goto, Fault
<1>3. ASSUME Takes(a) PROVE ver = Free /\ ver' = a
  BY <1>3 DEF Takes, CopySnapshot, RejectFile, StartCopy, UploadSnapshot, Goto
<1>4. ~ Commits(a) /\ ~ Writes(a)
  BY Names DEF Commits, Register, Writes, Chooses, SaveHistory, Install, RejectPointer, FinishCopy,
     UploadFile, UploadVersions, Point, UndoFile, Goto
<1>5. ASSUME Leaves(a) PROVE UNCHANGED Guarded /\ ver' = ver
  BY <1>5, Names DEF Leaves, Archives, Restored, SaveHistory, Register, Finalize, SelectionChanged,
     HistoryFails, RejectManifest, CompensationFails, UploadClaim, UndoVersions, End
<1> QED
  BY <1>2, <1>3, <1>4, <1>5, StepKinds

LEMMA LocksKept ==
  ASSUME TypeOK, PlacesStand, LocksStand, NEW a \in Actors, Act(a)
  PROVE  LocksStand' /\ {adm, doc, ver}' \subseteq Actors \cup {Free}
<1>old. /\ Locked(a) /\ DOMAIN pc = Actors /\ mem \in [Actors -> Locals] /\ mem[a].guarded \in BOOLEAN
        /\ {adm, doc, ver} \subseteq Actors \cup {Free}
        /\ a \in Gens => pc[a] \in GenPlaces
        /\ a \in Restores => pc[a] \in RestorePlaces
        /\ a \in Uploads => pc[a] \in UploadPlaces
  BY DEF LocksStand, PlacesStand, TypeOK, Locals
<1> DEFINE Let(x, y) == y = x \/ (x = Free /\ y = a) \/ (x = a /\ y = Free)
           Goal == Locked(a)' /\ Let(adm, adm') /\ Let(doc, doc') /\ Let(ver, ver')
<1> USE DEF Locked, UnderVer, UnderDoc, Ending, Refusing, Changing
<1>nog. Guard(a) => ~ Takes(a) /\ ~ Commits(a) /\ ~ Chooses(a)
  BY <1>old DEF Guard, Goto, Takes, CopySnapshot, RejectFile, StartCopy, UploadSnapshot, Commits, Register,
     Chooses, SaveHistory
<1>1. ASSUME Prepares(a) PROVE Goal
  <2>guard. Guard(a) => mem'[a].guarded = TRUE
    BY <1>old, Memory
  <2>guarded. ~ Guard(a) => mem'[a].guarded = mem[a].guarded
    BY <1>1, <1>old, FieldsStay
  <2>gens. a \in Gens /\ Guard(a) => Goal
    BY <1>old, <2>guard, Names DEF Guard, Goto, GenPlaces
  <2>freezeBasis. a \in Gens /\ (FreezeBasis(a) \/ Checkpoint(a) \/ PrepareFails(a) \/ GuardFails(a)) => Goal
    BY <1>old, <2>guarded, Names DEF FreezeBasis, Checkpoint, PrepareFails, GuardFails, Goto, locks,
       GenPlaces, Guard
  <2>finalizeFails. a \in Gens /\ (FinalizeFails(a) \/ WithdrawAssets(a)) => Goal
    BY <1>old, <2>guarded, Names DEF FinalizeFails, WithdrawAssets, Goto, locks, GenPlaces, Guard
  <2>restores. a \in Restores /\ AskRestore(a) => Goal
    BY <1>old, <2>guarded, Names DEF AskRestore, Goto, locks, RestorePlaces, Guard
  <2>admit. Admit(a) => Goal
    BY <1>old, <2>guarded, Names DEF Admit, Goto, Guard, GenPlaces, RestorePlaces, UploadPlaces
  <2>writeScript. WriteScript(a) => Goal
    BY <1>old, <2>guarded, Names DEF WriteScript, Goto, Guard, GenPlaces, RestorePlaces, UploadPlaces
  <2>activationFails. ActivationFails(a) => Goal
    BY <1>old, <2>guarded, Names DEF ActivationFails, Guard, locks, Goto, GenPlaces, RestorePlaces,
       UploadPlaces
  <2> QED
    BY <1>1, <2>gens, <2>freezeBasis, <2>finalizeFails, <2>restores, <2>admit, <2>writeScript,
       <2>activationFails DEF Prepares
<1>2. ASSUME Takes(a) PROVE Goal
  <2>1. mem'[a].guarded = mem[a].guarded
    BY <1>2, <1>old, <1>nog, FieldsStay
  <2>2. a \in Gens => Goal
    BY <1>old, <1>2, <2>1, Names DEF Takes, CopySnapshot, RejectFile, Goto, locks, GenPlaces
  <2>3. a \notin Gens => Goal
    BY <1>old, <1>2, <2>1, Names DEF Takes, StartCopy, UploadSnapshot, Goto, locks, RestorePlaces,
       UploadPlaces
  <2> QED
    BY <2>2, <2>3
<1>3. ASSUME Commits(a) PROVE Goal
  <2>1. mem'[a].guarded = mem[a].guarded
    BY <1>3, <1>old, <1>nog, FieldsStay
  <2> QED
    BY <1>old, <1>3, <2>1, Names DEF Commits, Register, GenPlaces
<1>4. ASSUME Writes(a) PROVE Goal
  <2>1. CASE Chooses(a)
    <3>1. mem'[a].guarded = mem[a].guarded
      BY <2>1, <1>old, <1>nog, FieldsStay DEF Writes
    <3> QED
      BY <1>old, <2>1, <3>1, Names DEF Chooses, SaveHistory, Selectable, locks, GenPlaces
  <2> QED
    BY <1>old, <1>4, <2>1, Names DEF Writes, Install, RejectPointer, FinishCopy, UploadFile, UploadVersions,
       Point, UndoFile, Goto, locks, GenPlaces, RestorePlaces, UploadPlaces
<1>5. ASSUME Leaves(a) PROVE Goal
  BY <1>old, <1>5, LeavingEnds, BlankLocals, Names DEF End
<1>6. Goal
  BY <1>1, <1>2, <1>3, <1>4, <1>5, StepKinds
<1> HIDE DEF UnderVer, UnderDoc, Ending, Refusing, Changing
<1>7. ASSUME NEW b \in Actors, b # a PROVE Locked(b)'
  <2>1. pc'[b] = pc[b] /\ mem'[b] = mem[b] /\ Locked(b)
    BY <1>7, ActsAlone DEF LocksStand
  <2> QED
    BY <1>6, <1>7, <2>1, Names
<1>8. {adm, doc, ver}' \subseteq Actors \cup {Free}
  BY <1>6, <1>old
<1> QED
  BY <1>6, <1>7, <1>8 DEF LocksStand

-----------------------------------------------------------------------------
(* The history: only what an upload has appended itself is taken back.     *)

LEMMA HistoryKept ==
  ASSUME MediaInv, NEW a \in Actors, Act(a)
  PROVE  /\ recs' \in Seq(Versions)
         /\ \A v \in DOMAIN recs' : recs'[v].prev < v
         /\ \A v : Kept(v) => Kept(v)' /\ recs'[v] = recs[v]
<1>inv. TypeOK /\ PlacesStand /\ LocksStand /\ ActorStands(a)
  BY DEF MediaInv
<1>type. /\ recs \in Seq(Versions) /\ DOMAIN recs = 1 .. Len(recs) /\ Len(recs) \in Nat
         /\ mem \in [Actors -> Locals] /\ \A b \in Actors : mem[b].len \in Nat /\ mem[b].backup \in Files
         /\ formal \in Files /\ mem[a].basis \in Bases \cup {None}
         /\ \A v \in DOMAIN recs : recs[v].prev < v
  <2>actors. mem \in [Actors -> Locals] /\ \A v \in DOMAIN recs : recs[v].prev < v
    BY <1>inv DEF PlacesStand
  <2>locals. \A m \in Locals : m.len \in Nat /\ m.backup \in Files /\ m.basis \in Bases \cup {None}
    BY DEF Locals
  <2>versions. recs \in Seq(Versions) /\ formal \in Files
    BY <1>inv DEF TypeOK, Versions, Files
  <2>dOMAIN. DOMAIN recs = 1 .. Len(recs) /\ Len(recs) \in Nat
    BY <2>versions
  <2> QED
    BY <2>actors, <2>locals, <2>versions, <2>dOMAIN
<1>next. LocksStand' /\ \A b \in Actors : b # a => pc'[b] = pc[b] /\ mem'[b] = mem[b]
  BY <1>inv, LocksKept, ActsAlone
<1>floor. ASSUME NEW u \in Uploads, ver' = u
          PROVE  (ver = u /\ mem'[u].len = mem[u].len) \/ mem'[u].len = Len(recs)
  <2>1. CASE u # a
    BY <1>inv, <1>next, <1>floor, <2>1, Names DEF LocksStand, Locked
  <2>2. CASE u = a /\ ver = a
    <3>1. ~ Leaves(a)
      <4>1. Leaves(a) => pc'[a] \in {"done", "failed"}
        BY <1>inv, LeavingEnds DEF End, TypeOK
      <4> QED
        BY <4>1, <1>next, <1>floor, <2>2 DEF LocksStand, Locked, UnderVer, Changing, Refusing
    <3>2. UploadSnapshot(a) \/ mem'[a].len = mem[a].len
      BY <3>1, <1>type, StepKinds, FieldsStay
    <3>3. UploadSnapshot(a) => mem'[a].len = Len(recs)
      BY <1>type, Memory
    <3> QED
      BY <2>2, <3>2, <3>3
  <2>3. CASE u = a /\ ver # a
    <3>1. Takes(a)
      BY <1>inv, <1>floor, <2>3, LockGuards
    <3>2. UploadSnapshot(a)
      BY <3>1, <2>3, Names DEF Takes
    <3> QED
      BY <3>2, <2>3, <1>type, Memory
  <2> QED
    BY <2>1, <2>2, <2>3
<1> DEFINE Goal == /\ recs' \in Seq(Versions)
                   /\ \A v \in DOMAIN recs' : recs'[v].prev < v
                   /\ \A v : Kept(v) => v \in DOMAIN recs' /\ recs'[v] = recs[v]
<1>same. ASSUME recs' = recs PROVE Goal
  BY <1>same, <1>type DEF Kept
<1>save. ASSUME a \in Gens, SaveHistory(a) PROVE Goal
  <2>1. recs' = Append(TrackedRecs(formal), Record(formal, a, mem[a].basis)) /\ a \in Media
    BY <1>save DEF SaveHistory, Media
  <2> QED
    BY <2>1, <1>inv, <1>type, LongerHistory DEF Kept
<1>append. ASSUME UploadVersions(a) PROVE Goal
  <2>1. recs' = Append(TrackedRecs(mem[a].backup), Record(mem[a].backup, a, None)) /\ a \in Media
    BY <1>append DEF UploadVersions, Media
  <2> QED
    BY <2>1, <1>inv, <1>type, LongerHistory DEF Kept
<1>undo. ASSUME UndoVersions(a) PROVE Goal
  <2>1. CASE recs' = recs
    BY <2>1, <1>same
  <2>2. CASE recs' # recs
    <3>1. a \in Uploads /\ recs' = SubSeq(recs, 1, mem[a].len) /\ pc[a] \in Changing
      BY <1>undo, <2>2 DEF UndoVersions, Changing
    <3>2. mem[a].len <= Len(recs) /\ ver = a
      BY <3>1, <1>inv, Names DEF ActorStands, UploadStands, LocksStand, Locked, UnderVer
    <3>3. /\ recs' \in Seq(Versions) /\ DOMAIN recs' = 1 .. mem[a].len
          /\ \A v \in 1 .. mem[a].len : recs'[v] = recs[v]
      <4> DEFINE n == mem[a].len
      <4>1. n \in 0 .. Len(recs)
        BY <1>type, <3>2
      <4>2. recs' = SubSeq(recs, 1, n)
        BY <3>1
      <4> HIDE DEF n
      <4>3. recs' \in Seq(Versions) /\ DOMAIN recs' = 1 .. n /\ \A v \in 1 .. n : recs'[v] = recs[v]
        BY <4>1, <4>2, <1>type
      <4> QED
        BY <4>3 DEF n
    <3>4. 1 .. mem[a].len \subseteq DOMAIN recs
      BY <1>type, <3>2
    <3>5. \A v : Kept(v) => v \in 1 .. mem[a].len
      BY <3>1, <3>2, <1>type DEF Kept
    <3> QED
      BY <3>3, <3>4, <3>5, <1>type
  <2> QED
    BY <2>1, <2>2
<1>rest. \/ recs' = recs
         \/ a \in Gens /\ SaveHistory(a)
         \/ UploadVersions(a) \/ UndoVersions(a)
  <2>prepares. Prepares(a) => recs' = recs
    BY DEF Prepares, FreezeBasis, Checkpoint, PrepareFails, Guard, GuardFails, FinalizeFails,
       WithdrawAssets, AskRestore, Admit, WriteScript, ActivationFails, disk
  <2>takes. Takes(a) \/ Commits(a) => recs' = recs
    BY DEF Takes, CopySnapshot, RejectFile, StartCopy, UploadSnapshot, Commits, Register
  <2>writes. Writes(a) => recs' = recs \/ (a \in Gens /\ SaveHistory(a)) \/ UploadVersions(a)
    BY DEF Writes, Chooses, Install, RejectPointer, FinishCopy, UploadFile, Point, UndoFile
  <2>leaves. Leaves(a) => recs' = recs \/ (a \in Gens /\ SaveHistory(a)) \/ UndoVersions(a)
    BY DEF Leaves, Archives, Restored, Register, Finalize, SelectionChanged, disk,
       HistoryFails, RejectManifest, CompensationFails, UploadClaim
  <2> QED
    BY <2>prepares, <2>takes, <2>writes, <2>leaves, StepKinds
<1>goal. Goal
  BY <1>same, <1>save, <1>append, <1>undo, <1>rest
<1>kept. ASSUME NEW v, Kept(v) PROVE Kept(v)'
  <2>1. v \in DOMAIN recs' /\ v \in 1 .. Len(recs)
    BY <1>kept, <1>goal, <1>type DEF Kept
  <2>2. ASSUME NEW u \in Uploads, ver' = u PROVE v <= mem'[u].len
    BY <2>1, <2>2, <1>floor, <1>kept, <1>type DEF Kept
  <2> QED
    BY <2>1, <2>2 DEF Kept
<1> QED
  BY <1>goal, <1>kept

\* Locals with another value of a field.
LEMMA LocalsKept ==
  ASSUME NEW m \in Locals
  PROVE  /\ \A y \in Bases \cup {None} : [m EXCEPT !.basis = y] \in Locals
         /\ \A y \in Nat : [m EXCEPT !.parent = y] \in Locals
         /\ \A y \in Nat : [m EXCEPT !.own = y] \in Locals
         /\ \A y \in Gens \cup {None} : [m EXCEPT !.uri = y] \in Locals
         /\ \A y \in Gens \cup {None} : [m EXCEPT !.guarded = TRUE, !.uri = y] \in Locals
         /\ \A x \in Nat, y \in Files : [m EXCEPT !.prev = x, !.backup = y] \in Locals
         /\ \A x \in Nat, y \in Files, z \in Nat : [m EXCEPT !.prev = x, !.backup = y, !.len = z] \in Locals
         /\ \A x \in Nat, y \in Files, z \in Nat : [m EXCEPT !.own = z, !.prev = x, !.backup = y] \in Locals
         /\ \A x \in Entries, y \in SUBSET {"crash", "rollback"} :
              [m EXCEPT !.entry = x, !.damage = y] \in Locals
<1>basis. \A q \in Locals, y \in Bases \cup {None} : [q EXCEPT !.basis = y] \in Locals
  BY DEF Locals
<1>parent. \A q \in Locals, y \in Nat : [q EXCEPT !.parent = y] \in Locals
  BY DEF Locals
<1>own. \A q \in Locals, y \in Nat : [q EXCEPT !.own = y] \in Locals
  BY DEF Locals
<1>prev. \A q \in Locals, y \in Nat : [q EXCEPT !.prev = y] \in Locals
  BY DEF Locals
<1>backup. \A q \in Locals, y \in Files : [q EXCEPT !.backup = y] \in Locals
  BY DEF Locals
<1>entry. \A q \in Locals, y \in Entries : [q EXCEPT !.entry = y] \in Locals
  BY DEF Locals
<1>uri. \A q \in Locals, y \in Gens \cup {None} : [q EXCEPT !.uri = y] \in Locals
  BY DEF Locals
<1>len. \A q \in Locals, y \in Nat : [q EXCEPT !.len = y] \in Locals
  BY DEF Locals
<1>damage. \A q \in Locals, y \in SUBSET {"crash", "rollback"} : [q EXCEPT !.damage = y] \in Locals
  BY DEF Locals
<1>guarded. \A q \in Locals : [q EXCEPT !.guarded = TRUE] \in Locals
  BY DEF Locals
<1>two. ASSUME NEW y \in Gens \cup {None} PROVE [m EXCEPT !.guarded = TRUE, !.uri = y] \in Locals
  <2> DEFINE q1 == [m EXCEPT !.guarded = TRUE]
             q2 == [q1 EXCEPT !.uri = y]
  <2>1. q1 \in Locals
    BY <1>guarded
  <2>2. q2 \in Locals
    BY <2>1, <1>uri
  <2>same. [m EXCEPT !.guarded = TRUE, !.uri = y] = q2
    BY DEF Locals
  <2> QED
    BY <2>2, <2>same
<1>copy. ASSUME NEW x \in Nat, NEW y \in Files PROVE [m EXCEPT !.prev = x, !.backup = y] \in Locals
  <2> DEFINE q1 == [m EXCEPT !.prev = x]
             q2 == [q1 EXCEPT !.backup = y]
  <2>1. q1 \in Locals
    BY <1>prev
  <2>2. q2 \in Locals
    BY <2>1, <1>backup
  <2>same. [m EXCEPT !.prev = x, !.backup = y] = q2
    BY DEF Locals
  <2> QED
    BY <2>2, <2>same
<1>file. ASSUME NEW x \in Nat, NEW y \in Files, NEW z \in Nat PROVE [m EXCEPT !.prev = x, !.backup = y, !.len = z] \in Locals
  <2> DEFINE q1 == [m EXCEPT !.prev = x]
             q2 == [q1 EXCEPT !.backup = y]
             q3 == [q2 EXCEPT !.len = z]
  <2>1. q1 \in Locals
    BY <1>prev
  <2>2. q2 \in Locals
    BY <2>1, <1>backup
  <2>3. q3 \in Locals
    BY <2>2, <1>len
  <2>same. [m EXCEPT !.prev = x, !.backup = y, !.len = z] = q3
    BY DEF Locals
  <2> QED
    BY <2>3, <2>same
<1>choose. ASSUME NEW x \in Nat, NEW y \in Files, NEW z \in Nat PROVE [m EXCEPT !.own = z, !.prev = x, !.backup = y] \in Locals
  <2> DEFINE q1 == [m EXCEPT !.own = z]
             q2 == [q1 EXCEPT !.prev = x]
             q3 == [q2 EXCEPT !.backup = y]
  <2>1. q1 \in Locals
    BY <1>own
  <2>2. q2 \in Locals
    BY <2>1, <1>prev
  <2>3. q3 \in Locals
    BY <2>2, <1>backup
  <2>same. [m EXCEPT !.own = z, !.prev = x, !.backup = y] = q3
    BY DEF Locals
  <2> QED
    BY <2>3, <2>same
<1>commit. ASSUME NEW x \in Entries, NEW y \in SUBSET {"crash", "rollback"} PROVE [m EXCEPT !.entry = x, !.damage = y] \in Locals
  <2> DEFINE q1 == [m EXCEPT !.entry = x]
             q2 == [q1 EXCEPT !.damage = y]
  <2>1. q1 \in Locals
    BY <1>entry
  <2>2. q2 \in Locals
    BY <2>1, <1>damage
  <2>same. [m EXCEPT !.entry = x, !.damage = y] = q2
    BY DEF Locals
  <2> QED
    BY <2>2, <2>same
<1>one. /\ \A y \in Bases \cup {None} : [m EXCEPT !.basis = y] \in Locals
        /\ \A y \in Nat : [m EXCEPT !.parent = y] \in Locals
        /\ \A y \in Nat : [m EXCEPT !.own = y] \in Locals
        /\ \A y \in Gens \cup {None} : [m EXCEPT !.uri = y] \in Locals
  BY <1>basis, <1>parent, <1>own, <1>uri
<1> QED
  BY Zenon, <1>one, <1>two, <1>copy, <1>file, <1>choose, <1>commit

LEMMA LocalsPut ==
  ASSUME mem \in [Actors -> Locals], NEW a \in Actors, NEW r \in Locals
  PROVE  [mem EXCEPT ![a] = r] \in [Actors -> Locals]
  OBVIOUS

LEMMA MemoryTyped ==
  ASSUME MediaInv, NEW a \in Actors, Act(a)
  PROVE  mem' \in [Actors -> Locals]
<1>type. /\ mem \in [Actors -> Locals] /\ want \in Bases /\ cur \in Nat /\ uri \in Gens \cup {None}
         /\ formal \in Files /\ manifest \in Entries /\ damage \in SUBSET {"crash", "rollback"}
         /\ Len(recs) \in Nat /\ Len(TrackedRecs(formal)) \in Nat /\ TrackedCur(formal) \in Nat
  <2>1. TypeOK /\ PlacesStand /\ formal \in Files
    BY DEF MediaInv, TypeOK, Files
  <2>tracked. TrackedRecs(formal) \in Seq(Versions) /\ TrackedCur(formal) \in 0 .. Len(TrackedRecs(formal))
    BY <2>1, TrackedHistory
  <2>2. Len(TrackedRecs(formal)) \in Nat /\ TrackedCur(formal) \in Nat /\ cur \in Nat /\ Len(recs) \in Nat
    <3>1. Len(TrackedRecs(formal)) \in Nat
      BY <2>tracked
    <3>2. TrackedCur(formal) \in Nat
      BY <2>tracked, <3>1
    <3>3. cur \in Nat /\ Len(recs) \in Nat
      BY <2>1 DEF TypeOK
    <3> QED
      BY <3>1, <3>2, <3>3
  <2> QED
    BY <2>1, <2>2 DEF TypeOK, PlacesStand
<1>dom. DOMAIN recs \subseteq Nat /\ mem[a] \in Locals
  BY <1>type DEF MediaInv, TypeOK
<1>val. /\ mem[a] \in Locals /\ want \in Bases \cup {None} /\ cur \in Nat /\ uri \in Gens \cup {None}
        /\ formal \in Files /\ manifest \in Entries /\ damage \in SUBSET {"crash", "rollback"}
        /\ Len(recs) \in Nat /\ Len(TrackedRecs(formal)) + 1 \in Nat /\ TrackedCur(formal) \in Nat
  BY <1>type, <1>dom
<1>freeze. ASSUME FreezeBasis(a) PROVE mem' \in [Actors -> Locals]
  <2> DEFINE r == [mem[a] EXCEPT !.basis = want]
  <2>1. mem' = [mem EXCEPT ![a] = r]
    BY <1>freeze, <1>type DEF FreezeBasis
  <2>2. r \in Locals
    BY Zenon, <1>val, LocalsKept
  <2> QED
    BY <1>type, <2>1, <2>2, LocalsPut
<1>check. ASSUME Checkpoint(a) PROVE mem' \in [Actors -> Locals]
  <2> DEFINE r == [mem[a] EXCEPT !.parent = cur]
  <2>1. mem' = [mem EXCEPT ![a] = r]
    BY <1>check, <1>type DEF Checkpoint
  <2>2. r \in Locals
    BY Zenon, <1>val, LocalsKept
  <2> QED
    BY <1>type, <2>1, <2>2, LocalsPut
<1>guard. ASSUME Guard(a) PROVE mem' \in [Actors -> Locals]
  <2> DEFINE r == [mem[a] EXCEPT !.guarded = TRUE, !.uri = uri]
  <2>1. mem' = [mem EXCEPT ![a] = r]
    BY <1>guard, <1>type DEF Guard
  <2>2. r \in Locals
    BY Zenon, <1>val, LocalsKept
  <2> QED
    BY <1>type, <2>1, <2>2, LocalsPut
<1>withdraw. ASSUME WithdrawAssets(a) PROVE mem' \in [Actors -> Locals]
  <2> DEFINE r == [mem[a] EXCEPT !.uri = uri]
  <2>1. mem' = [mem EXCEPT ![a] = r]
    BY <1>withdraw, <1>type DEF WithdrawAssets
  <2>2. r \in Locals
    BY Zenon, <1>val, LocalsKept
  <2> QED
    BY <1>type, <2>1, <2>2, LocalsPut
<1>ask. ASSUME AskRestore(a) PROVE mem' \in [Actors -> Locals]
  <2>1. PICK v \in DOMAIN recs : mem' = [mem EXCEPT ![a].own = v]
    BY <1>ask DEF AskRestore
  <2>nat. v \in Nat
    BY <1>dom
  <2> DEFINE r == [mem[a] EXCEPT !.own = v]
  <2>2. mem' = [mem EXCEPT ![a] = r]
    BY <2>1
  <2>3. r \in Locals
    BY Zenon, <1>val, <2>nat, LocalsKept
  <2> QED
    BY <1>type, <2>2, <2>3, LocalsPut
<1>script. ASSUME WriteScript(a) PROVE mem' \in [Actors -> Locals]
  <2> DEFINE r == [mem[a] EXCEPT !.uri = uri]
  <2>1. mem' = [mem EXCEPT ![a] = r]
    BY <1>script, <1>type DEF WriteScript
  <2>2. r \in Locals
    BY Zenon, <1>val, LocalsKept
  <2> QED
    BY <1>type, <2>1, <2>2, LocalsPut
<1>copy. ASSUME StartCopy(a) PROVE mem' \in [Actors -> Locals]
  <2> DEFINE r == [mem[a] EXCEPT !.prev = cur, !.backup = formal]
  <2>1. mem' = [mem EXCEPT ![a] = r]
    BY <1>copy, <1>type DEF StartCopy
  <2>2. r \in Locals
    BY Zenon, <1>val, LocalsKept
  <2> QED
    BY <1>type, <2>1, <2>2, LocalsPut
<1>upload. ASSUME UploadSnapshot(a) PROVE mem' \in [Actors -> Locals]
  <2> DEFINE r == [mem[a] EXCEPT !.prev = cur, !.backup = formal, !.len = Len(recs)]
  <2>1. mem' = [mem EXCEPT ![a] = r]
    BY <1>upload, <1>type DEF UploadSnapshot
  <2>2. r \in Locals
    BY Zenon, <1>val, LocalsKept
  <2> QED
    BY <1>type, <2>1, <2>2, LocalsPut
<1>choose. ASSUME Chooses(a) PROVE mem' \in [Actors -> Locals]
  <2> DEFINE r == [mem[a] EXCEPT !.own = Len(TrackedRecs(formal)) + 1, !.prev = TrackedCur(formal), !.backup = formal]
  <2>1. mem' = [mem EXCEPT ![a] = r]
    BY <1>choose, <1>type, Names DEF Chooses, SaveHistory
  <2>2. r \in Locals
    BY Zenon, <1>val, LocalsKept
  <2> QED
    BY <1>type, <2>1, <2>2, LocalsPut
<1>commit. ASSUME Commits(a) PROVE mem' \in [Actors -> Locals]
  <2> DEFINE r == [mem[a] EXCEPT !.entry = manifest, !.damage = damage]
  <2>1. mem' = [mem EXCEPT ![a] = r]
    BY <1>commit, <1>type, Names DEF Commits, Register
  <2>2. r \in Locals
    BY Zenon, <1>val, LocalsKept
  <2> QED
    BY <1>type, <2>1, <2>2, LocalsPut
<1>leave. ASSUME Leaves(a) PROVE mem' \in [Actors -> Locals]
  <2>1. mem' = [mem EXCEPT ![a] = Blank]
    BY <1>leave, LeavingEnds DEF MediaInv, End
  <2> QED
    BY <1>type, <2>1, BlankLocals
<1>same. ASSUME mem' = mem PROVE mem' \in [Actors -> Locals]
  BY <1>type, <1>same
<1>prepares. ASSUME Prepares(a) PROVE mem' \in [Actors -> Locals]
  <2>1. PrepareFails(a) \/ GuardFails(a) \/ FinalizeFails(a) \/ Admit(a) \/ ActivationFails(a) => mem' = mem
    BY DEF PrepareFails, GuardFails, FinalizeFails, Admit, ActivationFails
  <2> QED
    BY <1>prepares, <2>1, <1>same, <1>freeze, <1>check, <1>guard, <1>withdraw, <1>ask, <1>script DEF Prepares
<1>takes. ASSUME Takes(a) PROVE mem' \in [Actors -> Locals]
  <2>1. CopySnapshot(a) \/ RejectFile(a) => mem' = mem
    BY DEF CopySnapshot, RejectFile
  <2> QED
    BY <1>takes, <2>1, <1>same, <1>copy, <1>upload DEF Takes
<1>writes. ASSUME Writes(a) PROVE mem' \in [Actors -> Locals]
  <2>1. (Install(a) \/ RejectPointer(a) \/ FinishCopy(a) \/ UploadFile(a) \/ UploadVersions(a)
            \/ Point(a) \/ UndoFile(a)) => mem' = mem
    BY DEF Install, RejectPointer, FinishCopy, UploadFile, UploadVersions, Point, UndoFile
  <2> QED
    BY <1>writes, <2>1, <1>same, <1>choose DEF Writes
<1> QED
  BY <1>prepares, <1>takes, <1>writes, <1>commit, <1>leave, StepKinds

LEMMA SelectionTyped ==
  ASSUME MediaInv, NEW a \in Actors, Act(a)
  PROVE  cur' \in 0 .. Len(recs')
<1>inv. /\ TypeOK /\ PlacesStand /\ ActorStands(a)
        /\ recs \in Seq(Versions) /\ Len(recs) \in Nat /\ cur \in 0 .. Len(recs)
        /\ DOMAIN recs = 1 .. Len(recs) /\ recs' \in Seq(Versions) /\ Len(recs') \in Nat
        /\ mem[a] \in Locals /\ formal \in Files
  <2>1. recs' \in Seq(Versions) /\ TypeOK /\ PlacesStand /\ ActorStands(a)
    BY HistoryKept DEF MediaInv
  <2> QED
    BY <2>1 DEF TypeOK, PlacesStand, Versions, Files
<1>fields. mem[a].own \in Nat /\ mem[a].prev \in Nat /\ mem[a].len \in Nat /\ mem[a].backup \in Files
           /\ mem[a].basis \in Bases \cup {None}
  BY <1>inv DEF Locals
<1>own. pc[a] \in Changing \cup Ending /\ a \notin Uploads => mem[a].own \in 1 .. Len(recs)
  <2>1. /\ a \in Gens /\ pc[a] \in Changing \cup Ending => mem[a].own \in DOMAIN recs
        /\ a \in Restores /\ pc[a] \in Changing => mem[a].own \in DOMAIN recs
    BY <1>inv DEF ActorStands, OwnStands, Kept
  <2>2. a \in Restores => pc[a] \notin Ending
    BY <1>inv DEF PlacesStand, RestorePlaces, Ending, Refusing
  <2> QED
    BY <1>inv, <2>1, <2>2, Names
<1>prev. pc[a] \in Changing => mem[a].prev \in 0 .. Len(recs)
  BY <1>inv DEF ActorStands, ChangeStands, Locals
<1>save. ASSUME a \in Gens, SaveHistory(a) PROVE cur' \in 0 .. Len(recs')
  <2>append. /\ recs' = Append(TrackedRecs(formal), Record(formal, a, mem[a].basis)) /\ a \in Media
             /\ cur' = TrackedCur(formal)
    BY <1>save DEF SaveHistory, Media
  <2>basis. mem[a].basis \in Bases \cup {None}
    BY <1>inv DEF Locals
  <2>seq. TrackedCur(formal) \in 0 .. Len(TrackedRecs(formal)) /\ TrackedRecs(formal) \in Seq(Versions)
    BY <1>inv, TrackedHistory
  <2>trackedCur. TrackedCur(formal) \in 0 .. Len(TrackedRecs(formal)) /\ Len(TrackedRecs(formal)) \in Nat
    BY <2>seq
  <2>trackedRecs. Len(recs') = Len(TrackedRecs(formal)) + 1
    BY <2>append, <2>basis, <1>inv, LongerHistory
  <2> QED
    BY <2>append, <2>trackedCur, <2>trackedRecs
<1>append. ASSUME UploadVersions(a) PROVE cur' \in 0 .. Len(recs')
  <2>1. /\ recs' = Append(TrackedRecs(mem[a].backup), Record(mem[a].backup, a, None)) /\ a \in Media
        /\ cur' = Len(TrackedRecs(mem[a].backup)) + 1
    BY <1>append DEF UploadVersions, Media
  <2>2. mem[a].backup \in Files
    BY <1>inv DEF Locals
  <2>3. Len(recs') = Len(TrackedRecs(mem[a].backup)) + 1
    BY <2>1, <2>2, <1>inv, LongerHistory
  <2> QED
    BY <2>1, <2>3, <1>inv
<1>undo. ASSUME UndoVersions(a) PROVE cur' \in 0 .. Len(recs')
  <2>1. pc[a] \in Changing
    BY <1>undo DEF UndoVersions, Changing
  <2>2. CASE recs' = recs
    BY <1>undo, <2>1, <2>2, <1>prev, <1>inv DEF UndoVersions
  <2>3. CASE recs' # recs
    <3>1. a \in Uploads /\ recs' = SubSeq(recs, 1, mem[a].len) /\ cur' = mem[a].prev
      BY <1>undo, <2>3 DEF UndoVersions
    <3>2. mem[a].len \in 0 .. Len(recs) /\ mem[a].prev \in 0 .. mem[a].len
      <4>1. mem[a].len <= Len(recs) /\ mem[a].prev <= mem[a].len
        <5>1. a \in Uploads /\ UploadStands(a)
          BY <3>1, <1>inv DEF ActorStands
        <5> QED
          BY <5>1, <2>1 DEF UploadStands
      <4> QED
        BY <4>1, <1>fields, <1>inv
    <3>3. Len(recs') = mem[a].len
      BY <3>1, <3>2, <1>inv
    <3> QED
      BY <3>1, <3>2, <3>3
  <2> QED
    BY <2>2, <2>3
<1>point. ASSUME Point(a) PROVE cur' \in 0 .. Len(recs')
  BY <1>point, <1>own, <1>inv DEF Point, Goto, Changing
<1>repoint. ASSUME a \in Gens, RejectPointer(a) PROVE cur' \in 0 .. Len(recs')
  <2>1. pc[a] = "refiled" /\ cur' = recs[cur].prev /\ recs' = recs
    BY <1>repoint DEF RejectPointer, Goto
  <2>2. cur = mem[a].own /\ mem[a].own \in DOMAIN recs
    BY <2>1, <1>inv, <1>own, <1>repoint, Names DEF ActorStands, RejectionStands, Refusing, Ending
  <2>3. recs[cur].prev < cur /\ recs[cur].prev \in Nat
    <3>1. cur \in DOMAIN recs /\ recs[cur] \in Versions
      BY <2>2, <1>inv
    <3> QED
      BY <3>1, <1>inv DEF PlacesStand, Versions
  <2> QED
    BY <1>inv, <2>1, <2>2, <2>3
<1>compensate. ASSUME a \in Gens, CompensationFails(a) PROVE cur' \in 0 .. Len(recs')
  BY <1>compensate, <1>own, <1>inv, Names DEF CompensationFails, Ending, Refusing
<1>same. ASSUME cur' = cur, recs' = recs PROVE cur' \in 0 .. Len(recs')
  BY <1>same, <1>inv
<1>rest. \/ cur' = cur /\ recs' = recs
         \/ a \in Gens /\ (SaveHistory(a) \/ RejectPointer(a) \/ CompensationFails(a))
         \/ UploadVersions(a) \/ UndoVersions(a) \/ Point(a)
  <2>prepares. Prepares(a) => cur' = cur /\ recs' = recs
    BY DEF Prepares, FreezeBasis, Checkpoint, PrepareFails, Guard, GuardFails, FinalizeFails,
       WithdrawAssets, AskRestore, Admit, WriteScript, ActivationFails, disk
  <2>takes. Takes(a) \/ Commits(a) => cur' = cur /\ recs' = recs
    BY DEF Takes, CopySnapshot, RejectFile, StartCopy, UploadSnapshot, Commits, Register
  <2>writes. Writes(a) => \/ cur' = cur /\ recs' = recs
                          \/ a \in Gens /\ (SaveHistory(a) \/ RejectPointer(a))
                          \/ UploadVersions(a) \/ Point(a)
    BY DEF Writes, Chooses, Install, FinishCopy, UploadFile, UndoFile
  <2>leaves. Leaves(a) => \/ cur' = cur /\ recs' = recs
                          \/ a \in Gens /\ (SaveHistory(a) \/ CompensationFails(a))
                          \/ UndoVersions(a)
    BY DEF Leaves, Archives, Restored, Register, Finalize, SelectionChanged, disk,
       HistoryFails, RejectManifest, UploadClaim
  <2> QED
    BY <2>prepares, <2>takes, <2>writes, <2>leaves, StepKinds
<1> QED
  BY <1>save, <1>append, <1>undo, <1>point, <1>repoint, <1>compensate, <1>same, <1>rest

LEMMA TypesKept ==
  ASSUME MediaInv, NEW a \in Actors, Act(a)
  PROVE  TypeOK' /\ PlacesStand'
<1>inv. TypeOK /\ PlacesStand /\ LocksStand /\ ActorStands(a)
  BY DEF MediaInv
<1>type. /\ recs \in Seq(Versions) /\ DOMAIN recs = 1 .. Len(recs) /\ Len(recs) \in Nat
         /\ cur \in 0 .. Len(recs) /\ formal \in Files /\ snaps \subseteq ((Media \cup {Partial}) \X Nat)
         /\ \A v \in DOMAIN recs : recs[v].m \in Media \cup {Partial} /\ recs[v].basis \in Bases \cup {None}
                                   /\ recs[v].prev \in Nat /\ recs[v].prev < v
  <2>versions. recs \in Seq(Versions) /\ cur \in 0 .. Len(recs) /\ snaps \subseteq ((Media \cup {Partial}) \X Nat)
    BY <1>inv DEF TypeOK, Versions
  <2>numbers. DOMAIN recs = 1 .. Len(recs) /\ Len(recs) \in Nat /\ \A v \in DOMAIN recs : recs[v] \in Versions
    BY <2>versions
  <2>media. \A x \in Versions : x.m \in Media \cup {Partial} /\ x.basis \in Bases \cup {None} /\ x.prev \in Nat
    BY DEF Versions
  <2>formal. formal \in Files /\ \A v \in DOMAIN recs : recs[v].prev < v
    BY <1>inv DEF TypeOK, PlacesStand, Files
  <2> QED
    BY <2>versions, <2>numbers, <2>media, <2>formal
<1>fields. /\ mem[a].own \in Nat /\ mem[a].prev \in Nat /\ mem[a].len \in Nat /\ mem[a].backup \in Files
           /\ mem[a].uri \in Gens \cup {None} /\ mem[a].entry \in Entries
           /\ mem[a].damage \in SUBSET {"crash", "rollback"}
  <2>1. mem[a] \in Locals
    BY <1>inv DEF PlacesStand
  <2> QED
    BY <2>1 DEF Locals
<1>own. /\ a \in Gens /\ pc[a] \in Changing \cup Ending => mem[a].own \in DOMAIN recs
        /\ a \in Restores /\ pc[a] \in Changing => mem[a].own \in DOMAIN recs
  BY <1>inv DEF ActorStands, OwnStands, Kept
<1>new. ASSUME NEW f \in Files, a \in Gens \cup Uploads
        PROVE  NewSnaps(f, a) \subseteq ((Media \cup {Partial}) \X Nat)
  <2>1. TrackedRecs(f) \in Seq(Versions)
    BY <1>inv, TrackedHistory
  <2>2. Len(TrackedRecs(f)) \in Nat
    BY <2>1
  <2>3. a \in Media /\ (Untracked(f) => f \in Media \cup {Partial})
    BY <1>new DEF Media, Untracked, Files
  <2> QED
    BY <2>2, <2>3, <1>type DEF NewSnaps
<1>rej. a \in Gens /\ pc[a] \in Refusing => cur \in 0 .. Len(recs)
  BY <1>type
<1>formal. formal' \in Files
  <2> USE DEF Files
  <2>prepares. ASSUME Prepares(a) PROVE formal' = formal
    BY <2>prepares DEF Prepares, FreezeBasis, Checkpoint, PrepareFails, Guard, GuardFails, FinalizeFails,
       WithdrawAssets, AskRestore, Admit, WriteScript, ActivationFails, disk
  <2>takes. ASSUME Takes(a) PROVE formal' \in Files
    <3>1. ASSUME a \in Gens, RejectFile(a) PROVE formal' \in Files
      <4>2. cur = mem[a].own /\ pc[a] = "rejecting"
        BY <3>1 DEF RejectFile, Goto
      <4>3. cur \in DOMAIN recs
        BY <4>2, <1>own, <3>1 DEF Ending
      <4>4. recs[cur].prev \in Nat /\ recs[cur].prev < cur
        BY <4>3, <1>type
      <4>5. recs[cur].prev # 0 => recs[cur].prev \in DOMAIN recs
        BY <4>4, <1>type
      <4>6. formal' = IF recs[cur].prev = 0 THEN None ELSE recs[recs[cur].prev].m
        BY <3>1 DEF RejectFile
      <4> QED
        BY <4>5, <4>6, <1>type
    <3> QED
      BY <2>takes, <3>1, <1>type DEF Takes, CopySnapshot, StartCopy, UploadSnapshot
  <2>commits. ASSUME Commits(a) \/ Writes(a) PROVE formal' \in Files
    <3>1. ASSUME a \in Restores, FinishCopy(a) PROVE formal' \in Files
      <4>1. mem[a].own \in DOMAIN recs
        BY <3>1, <1>own DEF FinishCopy, Goto, Changing
      <4> QED
        BY <3>1, <4>1, <1>type DEF FinishCopy
    <3>2. (a \in Gens /\ Install(a)) \/ (a \in Uploads /\ UploadFile(a)) => formal' \in Files
      BY DEF Install, UploadFile, Media
    <3>3. UndoFile(a) => formal' \in Files
      BY <1>type, <1>fields DEF UndoFile
    <3>4. Commits(a) \/ Chooses(a) \/ RejectPointer(a) \/ UploadVersions(a) \/ Point(a) => formal' = formal
      BY DEF Commits, Register, Chooses, SaveHistory, RejectPointer, UploadVersions, Point
    <3>5. formal \in Files
      BY <1>type
    <3> HIDE DEF Files
    <3> QED
      BY <2>commits, <3>1, <3>2, <3>3, <3>4, <3>5 DEF Writes
  <2>leaves. ASSUME Leaves(a) PROVE formal' \in Files
    <3>1. a \in Gens /\ CompensationFails(a) => formal' = a /\ a \in Media
      BY DEF CompensationFails, Media
    <3>2. (Finalize(a) \/ SelectionChanged(a) \/ HistoryFails(a) \/ RejectManifest(a) \/ Archives(a)
             \/ Restored(a) \/ UploadClaim(a) \/ UndoVersions(a)) => formal' = formal
      BY DEF Archives, Restored, SaveHistory, Register, Finalize, SelectionChanged,
         HistoryFails, RejectManifest, UploadClaim, UndoVersions, disk
    <3> QED
      BY <2>leaves, <3>1, <3>2, <1>type DEF Leaves
  <2> QED
    BY <2>prepares, <2>takes, <2>commits, <2>leaves, <1>type, StepKinds
<1>snaps. snaps' \subseteq ((Media \cup {Partial}) \X Nat)
  <2> DEFINE All == (Media \cup {Partial}) \X Nat
  <2>prepares. ASSUME Prepares(a) PROVE snaps' = snaps
    BY <2>prepares DEF Prepares, FreezeBasis, Checkpoint, PrepareFails, Guard, GuardFails, FinalizeFails,
       WithdrawAssets, AskRestore, Admit, WriteScript, ActivationFails, disk
  <2>takes. ASSUME Takes(a) PROVE snaps' \subseteq snaps \/ (a \in Gens \cup Uploads /\ snaps' = snaps \cup NewSnaps(formal, a))
    BY <2>takes DEF Takes, CopySnapshot, RejectFile, StartCopy, UploadSnapshot
  <2>commits. ASSUME Commits(a) \/ Writes(a) PROVE snaps' = snaps
    BY <2>commits DEF Commits, Register, Writes, Chooses, SaveHistory, Install, RejectPointer, FinishCopy,
       UploadFile, UploadVersions, Point, UndoFile
  <2>leaves. ASSUME Leaves(a) PROVE snaps' \subseteq snaps
    BY <2>leaves DEF Leaves, Archives, Restored, SaveHistory, Register, Finalize, SelectionChanged,
       HistoryFails, RejectManifest, CompensationFails, UploadClaim, UndoVersions, disk
  <2>snaps. snaps' \subseteq snaps \/ (a \in Gens \cup Uploads /\ snaps' = snaps \cup NewSnaps(formal, a))
    BY <2>prepares, <2>takes, <2>commits, <2>leaves, StepKinds
  <2>gens. a \in Gens \cup Uploads => NewSnaps(formal, a) \subseteq All
    BY <1>new, <1>type
  <2>all. snaps \subseteq All
    BY <1>type
  <2> HIDE DEF All
  <2>subset. snaps' \subseteq All
    BY <2>snaps, <2>gens, <2>all
  <2> QED
    BY <2>subset DEF All
<1>manifest. manifest' \in Entries
  <2>1. ASSUME Prepares(a) \/ Takes(a) \/ Writes(a) PROVE manifest' = manifest
    BY <2>1 DEF Prepares, FreezeBasis, Checkpoint, PrepareFails, Guard, GuardFails, FinalizeFails,
       WithdrawAssets, AskRestore, Admit, WriteScript, ActivationFails, disk, Takes, CopySnapshot,
       RejectFile, StartCopy, UploadSnapshot, Writes, Chooses, SaveHistory, Install, RejectPointer,
       FinishCopy, UploadFile, UploadVersions, Point, UndoFile
  <2>2. ASSUME Register(a), a \in Gens \cup Restores PROVE manifest' \in Entries
    <3>1. cur = mem[a].own /\ mem[a].own \in DOMAIN recs
      BY <2>2, <1>own, <1>inv DEF Register, ActorStands, ChangeStands, Changing
    <3> QED
      BY <2>2, <3>1, <1>type DEF Register, Entries
  <2>3. ASSUME Leaves(a), ~ Restored(a) PROVE manifest' = manifest \/ manifest' = mem[a].entry \/ manifest' \in Entries
    BY <2>3 DEF Leaves, Archives, SaveHistory, Finalize, SelectionChanged,
       HistoryFails, RejectManifest, CompensationFails, UploadClaim, UndoVersions, disk, Entries
  <2> QED
    BY <1>fields, <1>inv, <2>1, <2>2, <2>3, StepKinds DEF TypeOK, Commits, Restored
<1>uri. uri' \in Gens \cup {None}
  <2>1. ASSUME Prepares(a) PROVE uri' \in {uri, mem[a].uri, None}
    BY <2>1 DEF Prepares, FreezeBasis, Checkpoint, PrepareFails, Guard, GuardFails, FinalizeFails,
       WithdrawAssets, AskRestore, Admit, WriteScript, ActivationFails
  <2>2. ASSUME Takes(a) \/ Commits(a) \/ Writes(a) PROVE uri' = uri
    BY <2>2 DEF Takes, CopySnapshot, RejectFile, StartCopy, UploadSnapshot, Commits, Register, Writes,
       Chooses, SaveHistory, Install, RejectPointer, FinishCopy, UploadFile, UploadVersions, Point, UndoFile
  <2>3. ASSUME Leaves(a) PROVE uri' \in {uri, mem[a].uri, None} \/ (a \in Gens /\ uri' = a)
    BY <2>3 DEF Leaves, Archives, Restored, SaveHistory, Register, Finalize, SelectionChanged,
       HistoryFails, RejectManifest, CompensationFails, UploadClaim, UndoVersions
  <2> QED
    BY <1>fields, <1>inv, <2>1, <2>2, <2>3, StepKinds DEF TypeOK
<1>ghost. damage' \subseteq {"crash", "rollback"} /\ stuck' \subseteq Gens /\ want' = want
  <2>1. ASSUME Prepares(a) \/ Takes(a) PROVE UNCHANGED <<damage, stuck, want>>
    BY <2>1 DEF Prepares, FreezeBasis, Checkpoint, PrepareFails, Guard, GuardFails, FinalizeFails,
       WithdrawAssets, AskRestore, Admit, WriteScript, ActivationFails, Takes, CopySnapshot,
       RejectFile, StartCopy, UploadSnapshot, env, ghost, Fault
  <2>2. ASSUME Commits(a) \/ Writes(a)
        PROVE  damage' \subseteq damage \cup {"rollback"} /\ UNCHANGED <<stuck, want>>
    BY <2>2 DEF Commits, Register, Writes, Chooses, SaveHistory, Install, RejectPointer, FinishCopy,
       UploadFile, UploadVersions, Point, UndoFile, env, ghost, Fault
  <2>3. ASSUME Leaves(a)
        PROVE  /\ damage' \subseteq damage \cup {"rollback"} \cup mem[a].damage
               /\ want' = want /\ stuck' \subseteq stuck \cup (Gens \cap {a})
    BY <2>3 DEF Leaves, Archives, Restored, SaveHistory, Register, Finalize, SelectionChanged,
       HistoryFails, RejectManifest, CompensationFails, UploadClaim, UndoVersions, env, ghost, Fault
  <2> QED
    BY <1>fields, <1>inv, <2>1, <2>2, <2>3, StepKinds DEF TypeOK
<1>places. PlacesStand'
  BY <1>inv, PlacesKept, MemoryTyped, HistoryKept DEF PlacesStand
<1> QED
  <2>1. recs' \in Seq(Versions) /\ cur' \in 0 .. Len(recs') /\ {adm, doc, ver}' \subseteq Actors \cup {Free}
        /\ DOMAIN pc' = Actors /\ DOMAIN mem' = Actors
    BY <1>inv, HistoryKept, SelectionTyped, LocksKept, ActsAlone
  <2>2. want' \in Bases
    BY <1>inv, <1>ghost DEF TypeOK
  <2> QED
    BY <2>1, <2>2, <1>formal, <1>snaps, <1>manifest, <1>uri, <1>ghost, <1>places DEF TypeOK, Files, Versions

-----------------------------------------------------------------------------
(* What holds of every actor.                                              *)

\* The version before a version that stays, stays.
LEMMA EarlierKept ==
  ASSUME TypeOK, PlacesStand, NEW v, Kept(v), recs[v].prev # 0
  PROVE  Kept(recs[v].prev)
<1>1. recs \in Seq(Versions) /\ v \in DOMAIN recs
  BY DEF TypeOK, Versions, Kept
<1>2. DOMAIN recs = 1 .. Len(recs) /\ Len(recs) \in Nat /\ recs[v] \in Versions
  BY <1>1
<1>3. recs[v].prev \in Nat /\ recs[v].prev < v
  BY <1>1, <1>2 DEF PlacesStand, Versions
<1>4. recs[v].prev \in DOMAIN recs
  BY <1>1, <1>2, <1>3
<1>5. \A u \in Uploads : mem[u].len \in Nat
  <2>1. \A u \in Uploads : mem[u] \in Locals
    BY Names DEF PlacesStand
  <2> QED
    BY <2>1 DEF Locals
<1>6. ASSUME NEW u \in Uploads, ver = u PROVE recs[v].prev <= mem[u].len
  <2>1. v <= mem[u].len
    BY <1>6 DEF Kept
  <2> QED
    BY <2>1, <1>1, <1>2, <1>3, <1>5
<1> QED
  BY <1>4, <1>6 DEF Kept

\* Nobody's step touches what another actor relies on.
LEMMA OthersStand ==
  ASSUME MediaInv, NEW a \in Actors, Act(a), NEW b \in Actors, b # a
  PROVE  ActorStands(b)'
<1>inv. TypeOK /\ PlacesStand /\ LocksStand /\ ActorStands(b) /\ Locked(b)
  BY DEF MediaInv, LocksStand
<1>own. pc'[b] = pc[b] /\ mem'[b] = mem[b] /\ want' = want
  <2>1. want' = want
    <3>1. ASSUME Prepares(a) \/ Takes(a) PROVE want' = want
      BY <3>1 DEF Prepares, FreezeBasis, Checkpoint, PrepareFails, Guard, GuardFails, FinalizeFails,
         WithdrawAssets, AskRestore, Admit, WriteScript, ActivationFails, Takes, CopySnapshot,
         RejectFile, StartCopy, UploadSnapshot, env, Fault
    <3>2. ASSUME Commits(a) \/ Writes(a) PROVE want' = want
      BY <3>2 DEF Commits, Register, Writes, Chooses, SaveHistory, Install, RejectPointer, FinishCopy,
         UploadFile, UploadVersions, Point, UndoFile, env, Fault
    <3>3. ASSUME Leaves(a) PROVE want' = want
      BY <3>3 DEF Leaves, Archives, Restored, SaveHistory, Register, Finalize, SelectionChanged,
         HistoryFails, RejectManifest, CompensationFails, UploadClaim, UndoVersions, env, Fault
    <3> QED
      BY <3>1, <3>2, <3>3, StepKinds
  <2> QED
    BY <2>1, <1>inv, ActsAlone
<1>kept. \A v : Kept(v) => Kept(v)' /\ recs'[v] = recs[v]
  BY HistoryKept
<1>1. OwnStands(b)'
  BY <1>inv, <1>own, <1>kept DEF ActorStands, OwnStands
<1>2. CASE pc[b] \in UnderVer
  <2>1. UNCHANGED Guarded
    BY <1>2, <1>inv, Names, LockGuards DEF Locked
  <2>2. UNCHANGED <<formal, recs, cur, snaps, manifest, damage, selector, stuck>>
    BY <2>1 DEF Guarded, ghost
  <2>change. ChangeStands(b)'
    BY <1>own, <2>2, <1>inv DEF ChangeStands, ActorStands, FileOf, EntryOf
  <2>copy. CopyStands(b)'
    BY <1>own, <2>2, <1>inv DEF CopyStands, ActorStands, FileOf, EntryOf, NewSnaps, TrackedRecs, Untracked
  <2>reject. RejectionStands(b)'
    BY <1>own, <2>2, <1>inv DEF RejectionStands, ActorStands, FileOf, EntryOf
  <2>upload. UploadStands(b)'
    BY <1>own, <2>2, <1>inv DEF UploadStands, ActorStands, NewSnaps, TrackedRecs, Untracked
  <2>choice. ChoiceStands(b)'
    BY <1>own, <2>2, <1>inv DEF ChoiceStands, ActorStands
  <2> QED
    BY <1>1, <2>change, <2>copy, <2>reject, <2>upload, <2>choice DEF ActorStands
<1>3. CASE pc[b] \notin UnderVer
  <2>reject. RejectionStands(b)'
    <3> SUFFICES ASSUME pc[b] \in Ending, mem[b].damage = {}
                 PROVE  EntryOf(mem[b].entry, mem[b].prev)'
      BY <1>own, <1>3 DEF RejectionStands, UnderVer
    <3>1. b \in Gens
      BY <1>inv DEF PlacesStand, Actors, RestorePlaces, UploadPlaces, Ending, Refusing
    <3>2. EntryOf(mem[b].entry, mem[b].prev)
      BY <1>inv DEF ActorStands, RejectionStands
    <3>3. Kept(mem[b].own) /\ recs[mem[b].own].prev = mem[b].prev
      BY <3>1, <1>inv DEF ActorStands, OwnStands
    <3>4. mem[b].prev = 0 \/ recs'[mem[b].prev] = recs[mem[b].prev]
      BY <3>3, <1>inv, <1>kept, EarlierKept
    <3> QED
      BY <3>2, <3>4, <1>own DEF EntryOf
  <2> QED
    BY <1>1, <1>3, <1>own, <2>reject DEF ActorStands, ChangeStands, CopyStands, UploadStands, ChoiceStands,
       UnderVer, Changing
<1> QED
  BY <1>2, <1>3

LEMMA PreparesStand ==
  ASSUME MediaInv, NEW a \in Actors, Act(a), Prepares(a)
  PROVE  ActorStands(a)'
<1>inv. /\ TypeOK /\ PlacesStand /\ LocksStand /\ ActorStands(a) /\ Locked(a) /\ mem \in [Actors -> Locals]
        /\ DOMAIN pc = Actors
  BY DEF MediaInv, LocksStand, PlacesStand, TypeOK
<1>kept. \A v : Kept(v) => Kept(v)' /\ recs'[v] = recs[v]
  BY HistoryKept
<1>same. UNCHANGED <<formal, recs, cur, snaps, manifest, damage, selector, stuck, want>>
  BY DEF Prepares, FreezeBasis, Checkpoint, PrepareFails, Guard, GuardFails, FinalizeFails,
     WithdrawAssets, AskRestore, Admit, WriteScript, ActivationFails, disk, ghost, env, Fault
<1>fields. /\ FreezeBasis(a) \/ mem'[a].basis = mem[a].basis
           /\ Checkpoint(a) \/ mem'[a].parent = mem[a].parent
           /\ AskRestore(a) \/ mem'[a].own = mem[a].own
           /\ mem'[a].prev = mem[a].prev /\ mem'[a].backup = mem[a].backup
           /\ mem'[a].entry = mem[a].entry /\ mem'[a].len = mem[a].len /\ mem'[a].damage = mem[a].damage
  <2>1. ~ StartCopy(a) /\ ~ UploadSnapshot(a) /\ ~ Chooses(a) /\ ~ Commits(a)
    <3>1. mem[a].guarded \in BOOLEAN
      BY <1>inv DEF Locals
    <3>2. pc'[a] \in {"frozen", "paid", "archiving", "guarded", "admitted", "scripted", "asked", "undo_file",
                      "compensating", "rejecting"}
      BY <1>inv DEF Prepares, FreezeBasis, Checkpoint, PrepareFails, Guard, GuardFails, FinalizeFails,
         WithdrawAssets, AskRestore, Admit, WriteScript, ActivationFails, Goto
    <3> QED
      BY <1>inv, <3>2, Names DEF StartCopy, UploadSnapshot, Chooses, SaveHistory, Commits, Register, Goto
  <2> QED
    BY <1>inv, <2>1, FieldsStay
<1>move. \/ pc'[a] \in {"frozen", "paid", "archiving", "guarded"}
         \/ a \in Restores /\ AskRestore(a)
         \/ pc[a] = "asked" /\ pc'[a] = "admitted" /\ mem' = mem
         \/ pc[a] = "paid" /\ pc'[a] = "admitted" /\ mem' = mem
         \/ pc[a] = "admitted" /\ pc'[a] = "scripted" /\ WriteScript(a)
         \/ pc[a] = "idle" /\ pc'[a] = "scripted" /\ a \in Uploads
         \/ pc[a] = "committed" /\ pc'[a] = "compensating" /\ mem' = mem
         \/ pc[a] = "compensating" /\ pc'[a] = "rejecting" /\ WithdrawAssets(a)
         \/ pc[a] \in {"chosen", "copying", "filed", "installed", "pointed", "recorded"} /\ pc'[a] = "undo_file"
            /\ mem' = mem
  BY <1>inv DEF Prepares, FreezeBasis, Checkpoint, PrepareFails, Guard, GuardFails, FinalizeFails,
     WithdrawAssets, AskRestore, Admit, WriteScript, ActivationFails, Goto
<1>own. OwnStands(a)'
  <2>1. ASSUME a \in Restores, AskRestore(a) PROVE OwnStands(a)'
    <3>1. mem'[a].own \in DOMAIN recs /\ ver' = Free
      <4>1. ver' = ver /\ ver = Free
        BY <2>1 DEF AskRestore, locks
      <4> QED
        BY <4>1, <2>1, <1>inv, Memory
    <3>2. Kept(mem[a].own)'
      BY <3>1, <1>same, Names DEF Kept
    <3> QED
      BY <2>1, <3>2, Names DEF OwnStands
  <2>2. ASSUME ~ AskRestore(a) PROVE OwnStands(a)'
    <3>1. a \in Gens /\ pc'[a] \in Changing \cup Ending => pc[a] \in Changing \cup Ending /\ ~ FreezeBasis(a)
      BY <1>move, <1>inv, <2>2, Names DEF Changing, Ending, Refusing, FreezeBasis, Goto
    <3>2. a \in Restores /\ pc'[a] \in Changing \cup {"asked", "admitted", "scripted"} =>
            pc[a] \in Changing \cup {"asked", "admitted", "scripted"}
      <4>1. a \in Restores => pc[a] # "paid"
        BY <1>inv DEF PlacesStand, RestorePlaces
      <4> QED
        BY <1>move, <2>2, <4>1, Names DEF Changing
    <3>3. mem'[a].own = mem[a].own /\ mem'[a].prev = mem[a].prev
      BY <1>fields, <2>2
    <3>4. OwnStands(a)
      BY <1>inv DEF ActorStands
    <3> QED
      BY <3>1, <3>2, <3>3, <3>4, <1>fields, <1>kept DEF OwnStands
  <2> QED
    BY <2>1, <2>2 DEF Prepares, AskRestore
<1>change. ChangeStands(a)'
  <2>1. pc'[a] \in Changing => pc[a] \in Changing /\ pc'[a] = "undo_file"
    BY <1>move, <1>inv DEF Changing, AskRestore, Goto
  <2>2. ChangeStands(a) /\ (pc[a] \in {"chosen", "copying", "filed", "installed", "pointed", "recorded"} \/ ~(pc'[a] \in Changing))
    BY <1>inv, <1>move DEF ActorStands, Changing, AskRestore, Goto
  <2> QED
    BY <2>1, <2>2, <1>same, <1>fields DEF ChangeStands, FileOf, EntryOf
<1>copy. CopyStands(a)' /\ ChoiceStands(a)'
  <2>1. pc'[a] \notin {"copied", "chosen", "installed"}
    BY <1>move, <1>inv DEF AskRestore, Goto
  <2> QED
    BY <2>1 DEF CopyStands, ChoiceStands
<1>reject. RejectionStands(a)'
  <2>1. pc'[a] \in Ending => pc[a] \in Ending /\ pc'[a] \notin Refusing
    BY <1>move, <1>inv DEF Ending, Refusing, AskRestore, Goto
  <2>2. RejectionStands(a) /\ Refusing \subseteq Ending
    BY <1>inv DEF ActorStands, Ending
  <2> QED
    BY <2>1, <2>2, <1>same, <1>fields DEF RejectionStands, EntryOf
<1>upload. UploadStands(a)'
  <2>1. pc'[a] \in Changing => pc[a] \in Changing /\ pc'[a] = "undo_file"
    BY <1>move, <1>inv DEF Changing, AskRestore, Goto
  <2>2. UploadStands(a)
    BY <1>inv DEF ActorStands
  <2> QED
    BY <2>1, <2>2, <1>same, <1>fields DEF UploadStands
<1> QED
  BY <1>own, <1>change, <1>copy, <1>reject, <1>upload DEF ActorStands

LEMMA LeavesStand ==
  ASSUME MediaInv, NEW a \in Actors, Leaves(a)
  PROVE  ActorStands(a)'
<1>1. pc'[a] \in {"done", "failed"}
  BY LeavingEnds DEF MediaInv, TypeOK, End
<1> QED
  BY <1>1 DEF ActorStands, ChangeStands, CopyStands, OwnStands, RejectionStands, UploadStands, ChoiceStands,
     Changing, Ending, Refusing

LEMMA TakesStand ==
  ASSUME MediaInv, NEW a \in Actors, Act(a), Takes(a)
  PROVE  ActorStands(a)'
<1>inv. /\ TypeOK /\ PlacesStand /\ LocksStand /\ ActorStands(a) /\ Locked(a) /\ mem \in [Actors -> Locals]
        /\ DOMAIN pc = Actors /\ FormalIsSelected /\ ManifestIsSelected
        /\ cur \in 0 .. Len(recs) /\ DOMAIN recs = 1 .. Len(recs) /\ Len(recs) \in Nat
  <2>1. recs \in Seq(Versions) /\ cur \in 0 .. Len(recs)
    BY DEF MediaInv, TypeOK, Versions
  <2> QED
    BY <2>1 DEF MediaInv, LocksStand, PlacesStand, TypeOK
<1>kept. \A v : Kept(v) => Kept(v)' /\ recs'[v] = recs[v]
  BY HistoryKept
<1>same. /\ UNCHANGED <<recs, cur, manifest, damage, selector, stuck, want>> /\ ver = Free
         /\ snaps \subseteq snaps'
  BY DEF Takes, CopySnapshot, RejectFile, StartCopy, UploadSnapshot, ghost, env
<1>whole. damage = {} => FileOf(formal, cur) /\ EntryOf(manifest, cur)
  BY <1>inv, <1>same DEF FormalIsSelected, ManifestIsSelected, FileOf, EntryOf
<1>snaps. \A f : NewSnaps(f, a)' = NewSnaps(f, a)
  BY <1>same DEF NewSnaps, TrackedRecs, Untracked
<1>1. ASSUME a \in Gens, CopySnapshot(a) PROVE ActorStands(a)'
  <2>1. pc'[a] = "copied" /\ formal' = formal /\ NewSnaps(formal, a) \subseteq snaps' /\ mem' = mem
    BY <1>1, <1>inv DEF CopySnapshot, Goto
  <2>2. CopyStands(a)'
    BY <2>1, <1>same, <1>whole DEF CopyStands, FileOf, EntryOf, NewSnaps, TrackedRecs, Untracked
  <2> QED
    BY <1>1, <2>1, <2>2, Names DEF ActorStands, ChangeStands, OwnStands, RejectionStands, UploadStands,
       ChoiceStands,
       Changing, Ending, Refusing
<1>2. ASSUME a \in Gens, RejectFile(a) PROVE ActorStands(a)'
  <2>own. /\ pc[a] = "rejecting" /\ pc'[a] = "refiled" /\ cur = mem[a].own /\ mem' = mem
          /\ formal' = IF recs[cur].prev = 0 THEN None ELSE recs[recs[cur].prev].m
    BY <1>2, <1>inv DEF RejectFile, Goto
  <2>ownStands. OwnStands(a) /\ RejectionStands(a)
    BY <1>inv DEF ActorStands
  <2>kept. Kept(mem[a].own) /\ recs[mem[a].own].prev = mem[a].prev /\ recs[mem[a].own].m = a
           /\ recs[mem[a].own].basis = mem[a].basis
    BY <1>2, <2>own, <2>ownStands DEF OwnStands, Ending
  <2>stands. OwnStands(a)'
    BY <1>2, <2>own, <2>kept, <1>kept, Names DEF OwnStands
  <2>rejectionStands. RejectionStands(a)'
    <3>1. mem[a].damage = {} => EntryOf(mem[a].entry, mem[a].prev)
      BY <2>own, <2>ownStands DEF RejectionStands, Ending
    <3>2. damage = {} => EntryOf(manifest, mem[a].own)
      BY <1>whole, <2>own
    <3>3. FileOf(formal', mem[a].prev)
      BY <2>own, <2>kept DEF FileOf
    <3> QED
      BY <2>own, <3>1, <3>2, <3>3, <1>same DEF RejectionStands, FileOf, EntryOf
  <2> QED
    BY <1>2, <2>own, <2>stands, <2>rejectionStands, Names DEF ActorStands, ChangeStands, CopyStands,
       UploadStands, ChoiceStands, Changing
<1>3. ASSUME a \in Restores, StartCopy(a) PROVE ActorStands(a)'
  <2>scripted. pc[a] = "scripted" /\ pc'[a] = "copying"
    BY <1>3, <1>inv DEF StartCopy, Goto
  <2>prev. mem'[a].prev = cur /\ mem'[a].backup = formal /\ mem'[a].own = mem[a].own
    <3>1. Remembers(a, {"prev", "backup"}) /\ mem'[a].prev = cur /\ mem'[a].backup = formal
      BY <1>3, <1>inv, Memory
    <3> QED
      BY <3>1, Recall
  <2>ownStands. OwnStands(a)'
    BY <1>3, <2>scripted, <2>prev, <1>inv, <1>kept, Names DEF OwnStands, ActorStands
  <2>changeStands. ChangeStands(a)'
    BY <1>3, <2>scripted, <2>prev, <1>inv, <1>same, <1>whole, Names DEF ChangeStands, FileOf, EntryOf
  <2> QED
    BY <1>3, <2>scripted, <2>ownStands, <2>changeStands, Names DEF ActorStands, CopyStands,
       RejectionStands, UploadStands, ChoiceStands,
       Ending, Refusing
<1>4. ASSUME a \in Uploads, UploadSnapshot(a) PROVE ActorStands(a)'
  <2>filed. pc'[a] = "filed" /\ formal' = formal /\ snaps' = snaps \cup NewSnaps(formal, a)
    BY <1>4, <1>inv DEF UploadSnapshot, Goto
  <2>prev. mem'[a].prev = cur /\ mem'[a].backup = formal /\ mem'[a].len = Len(recs)
    BY <1>4, <1>inv, Memory
  <2>changeStands. ChangeStands(a)'
    BY <1>4, <2>filed, <2>prev, <1>inv, <1>same, <1>whole, Names DEF ChangeStands, FileOf, EntryOf
  <2>uploadStands. UploadStands(a)'
    <3>1. \A v \in DOMAIN recs : ~ v > Len(recs)
      BY <1>inv
    <3>2. cur <= Len(recs)
      BY <1>inv
    <3>3. NewSnaps(formal, a) \subseteq snaps'
      BY <2>filed
    <3> QED
      BY <2>filed, <2>prev, <3>1, <3>2, <3>3, <1>same, <1>inv DEF UploadStands, NewSnaps, TrackedRecs,
         Untracked
  <2> QED
    BY <1>4, <2>filed, <2>changeStands, <2>uploadStands, Names DEF ActorStands, CopyStands, OwnStands,
       RejectionStands, ChoiceStands,
       Ending, Refusing
<1> QED
  BY <1>1, <1>2, <1>3, <1>4 DEF Takes

LEMMA CommitsStand ==
  ASSUME MediaInv, NEW a \in Actors, Act(a), Commits(a)
  PROVE  ActorStands(a)'
<1>inv. TypeOK /\ PlacesStand /\ ActorStands(a) /\ mem \in [Actors -> Locals] /\ DOMAIN pc = Actors
  BY DEF MediaInv, PlacesStand, TypeOK
<1>1. pc[a] = "pointed" /\ pc'[a] = "committed" /\ recs' = recs /\ a \in Gens
  BY <1>inv, Names DEF Commits, Register
<1>2. mem'[a].own = mem[a].own /\ mem'[a].prev = mem[a].prev /\ mem'[a].basis = mem[a].basis
      /\ mem'[a].entry = manifest /\ mem'[a].damage = damage
  <2>1. Remembers(a, {"entry", "damage"}) /\ mem'[a].entry = manifest /\ mem'[a].damage = damage
    BY <1>inv, Memory
  <2> QED
    BY <2>1, Recall
<1>own. OwnStands(a)'
  <2>1. \A v : Kept(v) => Kept(v)'
    BY HistoryKept
  <2>2. OwnStands(a)
    BY <1>inv DEF ActorStands
  <2> QED
    BY <1>1, <1>2, <2>1, <2>2, Names DEF OwnStands, Changing, Ending
<1>reject. RejectionStands(a)'
  <2>1. damage = {} => EntryOf(manifest, mem[a].prev)
    BY <1>1, <1>inv DEF ActorStands, ChangeStands, Changing
  <2> QED
    BY <1>1, <1>2, <2>1 DEF RejectionStands, EntryOf, Refusing
<1> QED
  BY <1>1, <1>own, <1>reject, Names DEF ActorStands, ChangeStands, CopyStands, UploadStands,
     ChoiceStands, Changing

\* What a step of the holder of the lock starts from.
LEMMA HolderKnows ==
  ASSUME MediaInv, NEW a \in Actors
  PROVE  /\ TypeOK /\ PlacesStand /\ LocksStand /\ Locked(a)
         /\ ChangeStands(a) /\ CopyStands(a) /\ OwnStands(a) /\ RejectionStands(a)
         /\ UploadStands(a) /\ ChoiceStands(a)
         /\ recs \in Seq(Versions) /\ cur \in 0 .. Len(recs) /\ DOMAIN recs = 1 .. Len(recs)
         /\ Len(recs) \in Nat /\ formal \in Files
         /\ mem \in [Actors -> Locals] /\ DOMAIN pc = Actors
         /\ mem[a].own \in Nat /\ mem[a].prev \in Nat /\ mem[a].len \in Nat /\ mem[a].backup \in Files
         /\ mem[a].basis \in Bases \cup {None} /\ mem[a].parent \in Nat
<1>1. ActorStands(a) /\ TypeOK /\ PlacesStand /\ LocksStand /\ Locked(a)
  BY DEF MediaInv, LocksStand
<1>2. recs \in Seq(Versions) /\ cur \in 0 .. Len(recs)
  BY <1>1 DEF TypeOK, Versions
<1>3. DOMAIN recs = 1 .. Len(recs) /\ Len(recs) \in Nat
  BY <1>2
<1>4. mem \in [Actors -> Locals] /\ DOMAIN pc = Actors /\ formal \in Files
  BY <1>1 DEF TypeOK, PlacesStand, Files
<1>5. \A m \in Locals : m.own \in Nat /\ m.prev \in Nat /\ m.len \in Nat /\ m.backup \in Files
                        /\ m.basis \in Bases \cup {None} /\ m.parent \in Nat
  BY DEF Locals
<1>6. mem[a] \in Locals
  BY <1>4
<1>7. mem[a].own \in Nat /\ mem[a].prev \in Nat /\ mem[a].len \in Nat /\ mem[a].backup \in Files
      /\ mem[a].basis \in Bases \cup {None} /\ mem[a].parent \in Nat
  BY <1>5, <1>6
<1>8. /\ ChangeStands(a) /\ CopyStands(a) /\ OwnStands(a) /\ RejectionStands(a)
      /\ UploadStands(a) /\ ChoiceStands(a)
  BY <1>1 DEF ActorStands
<1> QED
  BY <1>1, <1>2, <1>3, <1>4, <1>7, <1>8

\* A generation that selects its result has taken the file it found into the history.
LEMMA ChoosesStand ==
  ASSUME MediaInv, NEW a \in Actors, Act(a), Chooses(a)
  PROVE  ActorStands(a)'
<1>a. a \in Gens /\ a \notin Uploads /\ a \notin Restores
  BY Names DEF Chooses
<1>1. /\ pc[a] = "copied" /\ pc'[a] = "chosen" /\ cur' = TrackedCur(formal)
      /\ recs' = Append(TrackedRecs(formal), Record(formal, a, mem[a].basis))
      /\ UNCHANGED <<formal, snaps, manifest, damage, selector, stuck, want>> /\ ver' = ver
      /\ mem[a].parent = cur /\ mem[a].basis = want
  BY HolderKnows DEF Chooses, SaveHistory, Selectable, locks, env, ghost
<1>mem. /\ mem'[a].own = Len(TrackedRecs(formal)) + 1
        /\ mem'[a].prev = TrackedCur(formal) /\ mem'[a].backup = formal
        /\ mem'[a].basis = mem[a].basis /\ mem'[a].parent = mem[a].parent
  <2>1. /\ Remembers(a, {"own", "prev", "backup"}) /\ mem'[a].own = Len(TrackedRecs(formal)) + 1
        /\ mem'[a].prev = TrackedCur(formal) /\ mem'[a].backup = formal
    BY HolderKnows, Memory
  <2> QED
    BY <2>1, Recall
<1>ver. ver' = a
  BY <1>1, HolderKnows DEF Locked, UnderVer
<1>longer. /\ recs' \in Seq(Versions) /\ Len(recs') = Len(TrackedRecs(formal)) + 1
           /\ \A v \in DOMAIN recs : recs'[v] = recs[v]
           /\ recs'[Len(recs')].m = a /\ recs'[Len(recs')].basis = mem[a].basis
           /\ recs'[Len(recs')].prev = TrackedCur(formal)
           /\ Untracked(formal) => /\ Len(recs') = Len(recs) + 2 /\ TrackedCur(formal) = Len(recs) + 1
                                   /\ recs'[Len(recs) + 1] = [m |-> formal, basis |-> None, prev |-> 0]
           /\ ~ Untracked(formal) => Len(recs') = Len(recs) + 1 /\ TrackedCur(formal) = cur
  <2>1. a \in Media /\ formal \in Files /\ mem[a].basis \in Bases \cup {None} /\ TypeOK /\ PlacesStand
    BY <1>a, HolderKnows DEF Media
  <2> QED
    BY <1>1, <2>1, LongerHistory
<1>know. /\ Len(recs) \in Nat /\ cur \in 0 .. Len(recs) /\ DOMAIN recs = 1 .. Len(recs)
         /\ damage = {} => FileOf(formal, cur) /\ EntryOf(manifest, cur)
  BY HolderKnows, <1>1 DEF CopyStands
<1>dom. DOMAIN recs' = 1 .. Len(recs') /\ Len(recs') \in Nat
  BY <1>longer
<1>own. OwnStands(a)'
  <2>1. mem'[a].own = Len(recs') /\ Len(recs') \in DOMAIN recs'
    <3>1. Len(recs') > 0
      <4>1. CASE Untracked(formal)
        BY <4>1, <1>longer, <1>know
      <4>2. CASE ~ Untracked(formal)
        BY <4>2, <1>longer, <1>know
      <4> QED
        BY <4>1, <4>2
    <3> QED
      BY <3>1, <1>dom, <1>mem, <1>longer
  <2>2. Kept(mem[a].own)'
    BY <2>1, <1>ver, <1>a DEF Kept
  <2> QED
    BY <2>1, <2>2, <1>a, <1>mem, <1>longer DEF OwnStands
<1>n. PICK n \in Nat : n = TrackedCur(formal)
  <2>1. TrackedCur(formal) \in Nat
    BY <1>longer, <1>know
  <2> QED
    BY <2>1
<1>change. ChangeStands(a)'
  <2>1. n <= Len(recs') /\ (damage = {} => FileOf(formal, n)' /\ EntryOf(manifest, n)')
    <3>1. CASE Untracked(formal)
      <4>1. n = Len(recs) + 1 /\ cur = 0 /\ n <= Len(recs') /\ n > 0
        BY <3>1, <1>n, <1>longer, <1>know DEF Untracked
      <4>2. recs'[n].m = formal /\ recs'[n].basis = None
        BY <4>1, <3>1, <1>longer
      <4> QED
        BY <4>1, <4>2, <1>know, <1>1 DEF FileOf, EntryOf
    <3>2. CASE ~ Untracked(formal)
      <4>1. n = cur /\ n <= Len(recs') /\ (cur > 0 => recs'[cur] = recs[cur])
        BY <3>2, <1>n, <1>longer, <1>know
      <4>2. cur = 0 \/ cur > 0
        BY <1>know
      <4> QED
        BY <4>1, <4>2, <1>know, <1>1 DEF FileOf, EntryOf
    <3> QED
      BY <3>1, <3>2
  <2> QED
    BY <2>1, <1>n, <1>1, <1>mem, <1>a DEF ChangeStands, FileOf, EntryOf
<1>choice. ChoiceStands(a)'
  <2>1. CASE Untracked(formal)
    BY <2>1, <1>1, <1>mem, <1>longer, <1>a DEF ChoiceStands, Untracked
  <2>2. CASE ~ Untracked(formal)
    BY <2>2, <1>1, <1>mem, <1>longer, <1>a DEF ChoiceStands
  <2> QED
    BY <2>1, <2>2
<1> QED
  BY <1>1, <1>a, <1>own, <1>change, <1>choice DEF ActorStands, CopyStands, RejectionStands, UploadStands,
     Ending, Refusing

\* The other writes under the lock.
LEMMA WritesStand ==
  ASSUME MediaInv, NEW a \in Actors, Act(a), Writes(a), ~ Chooses(a), ~ UploadVersions(a)
  PROVE  ActorStands(a)'
<1>know. /\ ChangeStands(a) /\ OwnStands(a) /\ RejectionStands(a) /\ UploadStands(a) /\ ChoiceStands(a)
         /\ DOMAIN pc = Actors /\ PlacesStand
         /\ a \in Gens => pc[a] \in GenPlaces
         /\ a \in Restores => pc[a] \in RestorePlaces
         /\ a \in Uploads => pc[a] \in UploadPlaces
  BY HolderKnows DEF PlacesStand
<1>kept. \A v : Kept(v) => Kept(v)' /\ recs'[v] = recs[v]
  BY HistoryKept
<1>same. /\ mem' = mem /\ UNCHANGED <<recs, snaps, manifest, stuck, want>>
  <2>1. Install(a) \/ RejectPointer(a) \/ FinishCopy(a) \/ UploadFile(a) \/ Point(a) \/ UndoFile(a)
    BY DEF Writes
  <2>2. Install(a) \/ RejectPointer(a) \/ FinishCopy(a) => mem' = mem /\ UNCHANGED <<recs, snaps, manifest, stuck, want>>
    BY DEF Install, RejectPointer, FinishCopy, env, ghost
  <2>3. UploadFile(a) \/ Point(a) \/ UndoFile(a) => mem' = mem /\ UNCHANGED <<recs, snaps, manifest, stuck, want>>
    BY DEF UploadFile, Point, UndoFile, env, ghost, Fault
  <2> QED
    BY <2>1, <2>2, <2>3
<1>own. ASSUME pc[a] \in Changing \cup Ending, pc'[a] \in Changing \cup Ending PROVE OwnStands(a)'
  <2>1. a \in Restores => pc[a] \in Changing
    BY <1>know, <1>own DEF RestorePlaces, Ending, Refusing, Changing
  <2> QED
    BY <1>own, <2>1, <1>know, <1>same, <1>kept, Names DEF OwnStands
<1>1. ASSUME a \in Gens, Install(a) PROVE ActorStands(a)'
  <2>chosen. /\ pc[a] = "chosen" /\ pc'[a] = "installed" /\ formal' = a
             /\ UNCHANGED <<cur, damage, selector>>
    BY <1>1, <1>know DEF Install, Goto, ghost
  <2>ownStands. OwnStands(a)'
    BY <1>own, <2>chosen DEF Changing
  <2>changeStands. ChangeStands(a)'
    BY <1>1, <2>chosen, <1>know, <1>same, Names DEF ChangeStands, FileOf, EntryOf, Changing
  <2>choiceStands. ChoiceStands(a)'
    BY <1>1, <2>chosen, <1>know, <1>same DEF ChoiceStands
  <2> QED
    BY <1>1, <2>chosen, <2>ownStands, <2>changeStands, <2>choiceStands, Names DEF ActorStands,
       CopyStands, RejectionStands, UploadStands, Ending, Refusing
<1>2. ASSUME a \in Gens, RejectPointer(a) PROVE ActorStands(a)'
  <2>refiled. /\ pc[a] = "refiled" /\ pc'[a] = "repointed" /\ cur' = recs[cur].prev
              /\ UNCHANGED <<formal, damage>>
    BY <1>2, <1>know DEF RejectPointer, Goto
  <2>ownStands. OwnStands(a)'
    BY <1>own, <2>refiled DEF Ending, Refusing
  <2>own. /\ cur = mem[a].own /\ recs[mem[a].own].prev = mem[a].prev
          /\ mem[a].damage = {} => EntryOf(mem[a].entry, mem[a].prev)
          /\ damage = {} => FileOf(formal, mem[a].prev) /\ EntryOf(manifest, mem[a].own)
    BY <1>2, <2>refiled, <1>know DEF OwnStands, RejectionStands, Ending, Refusing
  <2>rejectionStands. RejectionStands(a)'
    BY <2>refiled, <2>own, <1>same DEF RejectionStands, FileOf, EntryOf
  <2> QED
    BY <1>2, <2>refiled, <2>ownStands, <2>rejectionStands, Names DEF ActorStands, ChangeStands,
       CopyStands, UploadStands, ChoiceStands, Changing
<1>3. ASSUME a \in Restores, FinishCopy(a) PROVE ActorStands(a)'
  <2>1. /\ pc[a] = "copying" /\ pc'[a] = "installed" /\ formal' = recs[mem[a].own].m
        /\ UNCHANGED <<cur, damage, selector>>
    BY <1>3, <1>know DEF FinishCopy, Goto, ghost
  <2>2. OwnStands(a)'
    BY <1>own, <2>1 DEF Changing
  <2>3. ChangeStands(a)'
    BY <1>3, <2>1, <1>know, <1>same, Names DEF ChangeStands, FileOf, EntryOf, Changing
  <2> QED
    BY <1>3, <2>1, <2>2, <2>3, Names DEF ActorStands, CopyStands, RejectionStands, UploadStands, ChoiceStands,
       Ending, Refusing
<1>4. ASSUME a \in Uploads, UploadFile(a) PROVE ActorStands(a)'
  <2>filed. /\ pc[a] = "filed" /\ pc'[a] = "installed" /\ formal' = a
            /\ UNCHANGED <<cur, damage, selector>>
    BY <1>4, <1>know DEF UploadFile, Goto, ghost
  <2>ownStands. OwnStands(a)'
    BY <1>own, <2>filed DEF Changing
  <2>changeStands. ChangeStands(a)'
    BY <1>4, <2>filed, <1>know, <1>same, Names DEF ChangeStands, FileOf, EntryOf, Changing
  <2>uploadStands. UploadStands(a)'
    BY <1>4, <2>filed, <1>know, <1>same DEF UploadStands, Changing, NewSnaps, TrackedRecs, Untracked
  <2> QED
    BY <1>4, <2>filed, <2>ownStands, <2>changeStands, <2>uploadStands, Names DEF ActorStands, CopyStands,
       RejectionStands, ChoiceStands,
       Ending, Refusing
<1>5. ASSUME Point(a) PROVE ActorStands(a)'
  <2>1. /\ a \notin Uploads /\ pc[a] = "installed" /\ pc'[a] = "pointed" /\ cur' = mem[a].own /\ selector' = a
        /\ UNCHANGED <<formal, damage>>
    BY <1>5, <1>know DEF Point, Goto
  <2>2. OwnStands(a)'
    BY <1>own, <2>1 DEF Changing
  <2>3. ChangeStands(a)'
    BY <2>1, <1>know, <1>same, Names DEF ChangeStands, FileOf, EntryOf, Changing
  <2> QED
    BY Names, <2>1, <2>2, <2>3 DEF ActorStands, CopyStands, RejectionStands, UploadStands, ChoiceStands,
       Ending, Refusing
<1>6. ASSUME UndoFile(a) PROVE ActorStands(a)'
  <2>undo_file. /\ pc[a] = "undo_file" /\ pc'[a] = "undo_versions" /\ UNCHANGED <<cur, selector>>
                /\ \/ formal' = mem[a].backup /\ damage' = damage
                   \/ damage' # {}
    BY <1>6, <1>know DEF UndoFile, Goto
  <2>ownStands. OwnStands(a)'
    BY <1>own, <2>undo_file DEF Changing
  <2>changeStands. ChangeStands(a)'
    BY <2>undo_file, <1>know, <1>same DEF ChangeStands, FileOf, EntryOf, Changing
  <2>uploadStands. UploadStands(a)'
    BY <2>undo_file, <1>know, <1>same DEF UploadStands, Changing
  <2> QED
    BY <2>undo_file, <2>ownStands, <2>changeStands, <2>uploadStands DEF ActorStands, CopyStands,
       RejectionStands, ChoiceStands,
       Ending, Refusing
<1> QED
  BY <1>1, <1>2, <1>3, <1>4, <1>5, <1>6 DEF Writes

\* An upload records itself, after the file it has replaced.
LEMMA RecordsStand ==
  ASSUME MediaInv, NEW a \in Actors, Act(a), UploadVersions(a)
  PROVE  ActorStands(a)'
<1>1. /\ a \in Uploads /\ a \notin Gens /\ a \notin Restores
      /\ pc[a] = "installed" /\ pc'[a] = "recorded" /\ cur' = Len(TrackedRecs(mem[a].backup)) + 1
      /\ recs' = Append(TrackedRecs(mem[a].backup), Record(mem[a].backup, a, None))
      /\ UNCHANGED <<formal, snaps, manifest, damage, mem>> /\ selector' = a
  BY HolderKnows, Names DEF UploadVersions, Goto
<1>longer. /\ recs' \in Seq(Versions) /\ Len(recs') = Len(TrackedRecs(mem[a].backup)) + 1
           /\ Len(recs') > Len(recs)
           /\ \A v \in DOMAIN recs : recs'[v] = recs[v]
           /\ recs'[Len(recs')].m = a /\ recs'[Len(recs')].basis = None
           /\ \A v \in DOMAIN recs' : v \in DOMAIN recs \/ recs'[v].m \in {a, mem[a].backup}
  <2>1. a \in Media /\ mem[a].backup \in Files /\ TypeOK /\ PlacesStand
    BY <1>1, HolderKnows DEF Media
  <2>2. PICK none \in Bases \cup {None}, f \in Files : none = None /\ f = mem[a].backup
    BY <2>1
  <2>3. recs' = Append(TrackedRecs(f), Record(f, a, none))
    BY <1>1, <2>2
  <2>seq. recs' \in Seq(Versions)
    BY <2>1, <2>3, LongerHistory
  <2>len. Len(recs') = Len(TrackedRecs(f)) + 1
    BY <2>1, <2>3, LongerHistory
  <2>more. Len(recs') > Len(recs)
    BY <2>1, <2>3, LongerHistory
  <2>old. \A v \in DOMAIN recs : recs'[v] = recs[v]
    BY <2>1, <2>3, LongerHistory
  <2>last. recs'[Len(recs')].m = a
    BY <2>1, <2>3, LongerHistory
  <2>basis. recs'[Len(recs')].basis = none
    <3> DEFINE t == TrackedRecs(f)
               r == Record(f, a, none)
    <3>1. t \in Seq(Versions)
      BY <2>1, TrackedHistory
    <3>2. recs' = Append(t, r) /\ Len(recs') = Len(t) + 1
      BY <2>3, <2>len
    <3>3. r.basis = none
      BY DEF Record
    <3> HIDE DEF t, r
    <3> QED
      BY <3>1, <3>2, <3>3
  <2>new. \A v \in DOMAIN recs' : v \in DOMAIN recs \/ recs'[v].m \in {a, f}
    BY <2>1, <2>3, LongerHistory
  <2> QED
    BY <2>2, <2>seq, <2>len, <2>more, <2>old, <2>basis, <2>last, <2>new
<1>know. /\ ChangeStands(a) /\ UploadStands(a) /\ Len(recs) \in Nat /\ DOMAIN recs = 1 .. Len(recs)
         /\ mem[a].prev \in Nat /\ mem[a].len \in Nat
  BY HolderKnows
<1>old. /\ formal = a /\ mem[a].prev <= Len(recs) /\ mem[a].prev <= mem[a].len /\ mem[a].len = Len(recs)
        /\ damage = {} => FileOf(mem[a].backup, mem[a].prev) /\ EntryOf(manifest, mem[a].prev)
  BY <1>1, <1>know DEF ChangeStands, UploadStands, Changing
<1>dom. DOMAIN recs' = 1 .. Len(recs') /\ Len(recs') \in Nat
  BY <1>longer
<1>change. ChangeStands(a)'
  <2>1. mem[a].prev <= Len(recs') /\ (mem[a].prev # 0 => recs'[mem[a].prev] = recs[mem[a].prev])
    BY <1>longer, <1>know, <1>old, <1>dom
  <2>2. damage = {} => FileOf(mem[a].backup, mem[a].prev)' /\ EntryOf(manifest, mem[a].prev)'
    BY <2>1, <1>old, <1>1, <1>know DEF FileOf, EntryOf
  <2> QED
    BY <1>1, <1>old, <2>1, <2>2 DEF ChangeStands, FileOf, EntryOf
<1>upload. UploadStands(a)'
  <2>1. ASSUME NEW v \in DOMAIN recs', v > mem[a].len PROVE recs'[v].m \in {a, mem[a].backup}
    BY <2>1, <1>longer, <1>know, <1>old
  <2>2. cur' = Len(recs') /\ cur' > 0 /\ mem[a].len <= Len(recs')
    BY <1>1, <1>longer, <1>know, <1>old, <1>dom
  <2> QED
    BY <1>1, <1>old, <1>longer, <2>1, <2>2 DEF UploadStands
<1> QED
  BY <1>1, <1>change, <1>upload DEF ActorStands, CopyStands, OwnStands, RejectionStands, ChoiceStands,
     Ending, Refusing

LEMMA ActorsStand ==
  ASSUME MediaInv, NEW a \in Actors, Act(a)
  PROVE  \A b \in Actors : ActorStands(b)'
<1>1. ActorStands(a)'
  BY StepKinds, PreparesStand, TakesStand, CommitsStand, LeavesStand, ChoosesStand, WritesStand, RecordsStand
<1> QED
  BY <1>1, OthersStand

-----------------------------------------------------------------------------
(* File, pointer, manifest and snapshots.                                  *)

\* Whoever lets the lock go is at its end, or has committed.
LEMMA LettingGo ==
  ASSUME MediaInv, NEW a \in Actors, Act(a), ver = a, ver' = Free
  PROVE  Commits(a) \/ (Leaves(a) /\ ~ Finalize(a) /\ ~ SelectionChanged(a))
<1>know. Locked(a) /\ DOMAIN pc = Actors /\ a # Free
  BY HolderKnows, Names
<1>1. Prepares(a) => ver' = ver
  BY DEF Prepares, FreezeBasis, Checkpoint, PrepareFails, Guard, GuardFails, FinalizeFails,
     WithdrawAssets, AskRestore, Admit, WriteScript, ActivationFails, locks
<1>2. Takes(a) => ver' = a
  BY DEF Takes, CopySnapshot, RejectFile, StartCopy, UploadSnapshot
<1>3. Writes(a) => ver' = ver
  BY DEF Writes, Chooses, SaveHistory, End, Install, RejectPointer, FinishCopy, UploadFile,
     UploadVersions, Point,
     UndoFile, locks
<1>4. ~ Finalize(a) /\ ~ SelectionChanged(a)
  BY <1>know DEF Finalize, SelectionChanged, Locked, UnderVer, Changing, Refusing
<1> QED
  BY <1>1, <1>2, <1>3, <1>4, <1>know, StepKinds

\* Taking a file nobody recorded into the history changes no selection.
LEMMA SavedIsWhole ==
  ASSUME MediaInv, NEW g \in Gens, SaveHistory(g)
  PROVE  /\ \A f, v : v \in Nat /\ v <= Len(recs) /\ FileOf(f, v) => FileOf(f, v)'
         /\ damage = {} => FileOf(formal, cur)' /\ EntryOf(manifest, cur)'
         /\ cur # 0 => cur' = cur /\ recs'[cur] = recs[cur]
         /\ "rollback" \notin damage /\ EveryRecordHasItsSnapshot => EveryRecordHasItsSnapshot'
<1>g. g \in Actors /\ g \in Media
  BY Names DEF Media
<1>1. /\ pc[g] = "copied" /\ cur' = TrackedCur(formal)
      /\ recs' = Append(TrackedRecs(formal), Record(formal, g, mem[g].basis))
      /\ UNCHANGED <<formal, snaps, manifest, damage>>
  BY DEF SaveHistory, ghost
<1>longer. /\ recs' \in Seq(Versions) /\ Len(recs') = Len(TrackedRecs(formal)) + 1
           /\ \A v \in DOMAIN recs : recs'[v] = recs[v]
           /\ recs'[Len(recs')].m = g
           /\ Untracked(formal) => /\ Len(recs') = Len(recs) + 2 /\ TrackedCur(formal) = Len(recs) + 1
                                   /\ recs'[Len(recs) + 1] = [m |-> formal, basis |-> None, prev |-> 0]
           /\ ~ Untracked(formal) => Len(recs') = Len(recs) + 1 /\ TrackedCur(formal) = cur
  <2>1. formal \in Files /\ mem[g].basis \in Bases \cup {None} /\ TypeOK /\ PlacesStand
    BY <1>g, HolderKnows
  <2> QED
    BY <1>1, <1>g, <2>1, LongerHistory
<1>know. /\ Len(recs) \in Nat /\ cur \in 0 .. Len(recs) /\ DOMAIN recs = 1 .. Len(recs)
         /\ damage = {} => FileOf(formal, cur) /\ EntryOf(manifest, cur)
         /\ NewSnaps(formal, g) \subseteq snaps
  BY <1>g, HolderKnows, <1>1 DEF CopyStands
<1>2. ASSUME NEW f, NEW v, v \in Nat, v <= Len(recs), FileOf(f, v) PROVE FileOf(f, v)'
  <2>1. v = 0 \/ v \in DOMAIN recs
    BY <1>2, <1>know
  <2> QED
    BY <1>2, <2>1, <1>longer DEF FileOf
<1>3. cur # 0 => cur' = cur /\ recs'[cur] = recs[cur]
  BY <1>1, <1>longer, <1>know DEF Untracked
<1>4. damage = {} => FileOf(formal, cur)' /\ EntryOf(manifest, cur)'
  <2>1. CASE Untracked(formal)
    <3>1. cur' = Len(recs) + 1 /\ cur = 0 /\ cur' > 0
      BY <2>1, <1>1, <1>longer, <1>know DEF Untracked
    <3>2. recs'[cur'].m = formal /\ recs'[cur'].basis = None
      BY <3>1, <2>1, <1>longer
    <3> QED
      BY <3>1, <3>2, <1>know, <1>1 DEF FileOf, EntryOf
  <2>2. CASE ~ Untracked(formal)
    <3>1. cur' = cur
      BY <2>2, <1>1, <1>longer
    <3>2. cur = 0 \/ (cur > 0 /\ cur \in DOMAIN recs)
      BY <1>know
    <3>3. cur > 0 => recs'[cur] = recs[cur]
      BY <3>2, <1>longer
    <3> QED
      BY <3>1, <3>2, <3>3, <1>know, <1>1 DEF FileOf, EntryOf
  <2> QED
    BY <2>1, <2>2
<1>5. ASSUME "rollback" \notin damage, EveryRecordHasItsSnapshot PROVE EveryRecordHasItsSnapshot'
  <2> SUFFICES ASSUME NEW v \in DOMAIN recs' PROVE <<recs'[v].m, v>> \in snaps
    BY <1>1 DEF EveryRecordHasItsSnapshot
  <2>dom. DOMAIN recs' = 1 .. Len(recs') /\ Len(recs') \in Nat
    BY <1>longer
  <2>1. CASE v \in DOMAIN recs
    BY <1>5, <2>1, <1>longer DEF EveryRecordHasItsSnapshot
  <2>2. CASE v = Len(recs')
    <3>1. <<g, Len(TrackedRecs(formal)) + 1>> \in snaps
      BY <1>know DEF NewSnaps
    <3> QED
      BY <3>1, <2>2, <1>longer
  <2>3. CASE v \notin DOMAIN recs /\ v # Len(recs')
    <3>1. CASE Untracked(formal)
      <4>1. v = Len(recs) + 1
        BY <3>1, <2>3, <2>dom, <1>longer, <1>know
      <4>2. <<formal, Len(recs) + 1>> \in snaps
        BY <3>1, <1>know DEF NewSnaps
      <4> QED
        BY SMTT(30), <4>1, <4>2, <3>1, <1>longer
    <3>2. CASE ~ Untracked(formal)
      BY <3>2, <2>3, <2>dom, <1>longer, <1>know
    <3> QED
      BY <3>1, <3>2
  <2> QED
    BY <2>1, <2>2, <2>3
<1> QED
  BY <1>2, <1>3, <1>4, <1>5

\* A rollback leads back to what its actor remembers.
LEMMA UndoneIsWhole ==
  ASSUME MediaInv, NEW a \in Actors, UndoVersions(a)
  PROVE  /\ damage' = {} => FileOf(formal, cur)' /\ EntryOf(manifest, cur)'
         /\ "rollback" \notin damage' /\ EveryRecordHasItsSnapshot => EveryRecordHasItsSnapshot'
         /\ "rollback" \notin damage' => cur' = mem[a].prev /\ (cur' # 0 => recs'[cur'] = recs[cur'])
<1>know. /\ ChangeStands(a) /\ UploadStands(a) /\ Len(recs) \in Nat /\ DOMAIN recs = 1 .. Len(recs)
         /\ recs \in Seq(Versions) /\ mem[a].prev \in Nat /\ mem[a].len \in Nat
  BY HolderKnows
<1>1. /\ pc[a] = "undo_versions" /\ formal' = formal /\ manifest' = manifest
      /\ \/ cur' = mem[a].prev /\ damage' = damage
            /\ recs' = IF a \in Uploads THEN SubSeq(recs, 1, mem[a].len) ELSE recs
         \/ damage' = damage \cup {"rollback"}
  BY DEF UndoVersions
<1>2. mem[a].prev <= Len(recs) /\ (damage = {} => formal = mem[a].backup)
      /\ (damage = {} => FileOf(mem[a].backup, mem[a].prev) /\ EntryOf(manifest, mem[a].prev))
      /\ (a \in Uploads => mem[a].prev <= mem[a].len /\ mem[a].len <= Len(recs))
  BY <1>1, <1>know DEF ChangeStands, UploadStands, Changing
<1>cut. a \in Uploads => /\ DOMAIN SubSeq(recs, 1, mem[a].len) = 1 .. mem[a].len
                         /\ \A v \in 1 .. mem[a].len : SubSeq(recs, 1, mem[a].len)[v] = recs[v]
  <2> DEFINE n == mem[a].len
  <2>1. a \in Uploads => n \in 0 .. Len(recs)
    BY <1>know, <1>2
  <2> HIDE DEF n
  <2>2. n \in 0 .. Len(recs) => DOMAIN SubSeq(recs, 1, n) = 1 .. n /\ \A v \in 1 .. n : SubSeq(recs, 1, n)[v] = recs[v]
    BY <1>know
  <2> QED
    BY <2>1, <2>2 DEF n
<1>3. ASSUME cur' = mem[a].prev, damage' = damage,
             recs' = IF a \in Uploads THEN SubSeq(recs, 1, mem[a].len) ELSE recs
      PROVE  cur' # 0 => recs'[cur'] = recs[cur']
  <2>1. a \in Uploads /\ mem[a].prev # 0 => mem[a].prev \in 1 .. mem[a].len
    BY <1>2, <1>know
  <2> QED
    BY <1>3, <2>1, <1>cut
<1>grows. damage' = damage \cup {"rollback"} => "rollback" \in damage'
  OBVIOUS
<1>4. ASSUME damage' = {} PROVE FileOf(formal, cur)' /\ EntryOf(manifest, cur)'
  <2>1. /\ damage = {} /\ cur' = mem[a].prev /\ (cur' # 0 => recs'[cur'] = recs[cur'])
    BY <1>4, <1>1, <1>3, <1>grows
  <2>2. cur' = 0 \/ cur' > 0
    BY <2>1, <1>know
  <2> QED
    BY <2>1, <2>2, <1>1, <1>2, <1>know DEF FileOf, EntryOf
<1>5. ASSUME "rollback" \notin damage', EveryRecordHasItsSnapshot PROVE EveryRecordHasItsSnapshot'
  <2>1. /\ damage' = damage /\ recs' = IF a \in Uploads THEN SubSeq(recs, 1, mem[a].len) ELSE recs
        /\ snaps' = IF a \in Uploads
                    THEN {s \in snaps : s[2] <= mem[a].len \/ s[1] \notin {a, mem[a].backup}}
                    ELSE snaps
    BY <1>5, <1>1, <1>grows DEF UndoVersions
  <2>2. CASE a \in Uploads
    <3> DEFINE S == snaps'
               r == recs'
    <3>1. ASSUME NEW v \in DOMAIN r PROVE <<r[v].m, v>> \in S
      <4>1. v \in 1 .. mem[a].len /\ recs'[v] = recs[v]
        BY <2>1, <2>2, <1>cut
      <4>2. v \in DOMAIN recs /\ v <= mem[a].len
        BY <4>1, <1>know, <1>2, <2>2
      <4>3. <<recs[v].m, v>> \in snaps
        BY <4>2, <1>5, <2>1 DEF EveryRecordHasItsSnapshot
      <4> QED
        BY <4>1, <4>2, <4>3, <2>1, <2>2
    <3> HIDE DEF S, r
    <3>2. \A v \in DOMAIN r : <<r[v].m, v>> \in S
      BY <3>1
    <3> QED
      BY Zenon, <3>2 DEF S, r, EveryRecordHasItsSnapshot
  <2>3. CASE a \notin Uploads
    BY <2>1, <2>3, <1>5 DEF EveryRecordHasItsSnapshot
  <2> QED
    BY <2>2, <2>3
<1>6. ASSUME "rollback" \notin damage' PROVE cur' = mem[a].prev /\ (cur' # 0 => recs'[cur'] = recs[cur'])
  BY <1>6, <1>1, <1>3, <1>grows
<1> QED
  BY <1>4, <1>5, <1>6

LEMMA WholeKept ==
  ASSUME MediaInv, NEW a \in Actors, Act(a)
  PROVE  FormalIsSelected' /\ ManifestIsSelected'
<1> SUFFICES ASSUME ver' = Free, damage' = {}
             PROVE  FileOf(formal, cur)' /\ EntryOf(manifest, cur)'
  <2>1. cur' \in Nat
    <3>1. cur' \in 0 .. Len(recs') /\ recs' \in Seq(Versions)
      BY SelectionTyped, HistoryKept
    <3> QED
      BY <3>1
  <2> QED
    BY <2>1 DEF FormalIsSelected, ManifestIsSelected, FileOf, EntryOf
<1>know. /\ TypeOK /\ PlacesStand /\ LocksStand /\ FormalIsSelected /\ ManifestIsSelected /\ a # Free
         /\ cur \in Nat /\ damage \subseteq {"crash", "rollback"}
  <2>1. cur \in 0 .. Len(recs) /\ Len(recs) \in Nat
    BY HolderKnows
  <2>2. cur \in Nat
    BY <2>1
  <2> QED
    BY <2>2, Names DEF MediaInv, TypeOK
<1>1. CASE ver # a
  <2>1. UNCHANGED Guarded /\ ver' = ver
    BY <1>1, <1>know, LockGuards
  <2>2. FileOf(formal, cur) /\ EntryOf(manifest, cur)
    BY <2>1, <1>know DEF Guarded, ghost, FormalIsSelected, ManifestIsSelected, FileOf, EntryOf
  <2> QED
    BY <2>1, <2>2 DEF Guarded, FileOf, EntryOf
<1>2. CASE ver = a
  <2>know. /\ ChangeStands(a) /\ CopyStands(a) /\ OwnStands(a) /\ RejectionStands(a)
           /\ UploadStands(a)
           /\ DOMAIN recs = 1 .. Len(recs) /\ Len(recs) \in Nat
           /\ mem[a].prev \in Nat /\ mem[a].own \in Nat
    BY HolderKnows
  <2>register. ASSUME Register(a), a \in Gens \cup Restores PROVE FileOf(formal, cur)' /\ EntryOf(manifest, cur)'
    <3>1. pc[a] = "pointed" /\ manifest' = recs[cur].basis /\ UNCHANGED <<formal, recs, cur>>
      BY <2>register DEF Register
    <3>2. cur = mem[a].own /\ mem[a].own \in DOMAIN recs /\ formal = recs[mem[a].own].m
      BY <2>register, <3>1, <2>know, Names DEF ChangeStands, OwnStands, Changing, Kept
    <3>3. cur > 0
      BY <3>2, <2>know
    <3> QED
      BY <3>1, <3>2, <3>3 DEF FileOf, EntryOf
  <2>gens. ASSUME a \in Gens, HistoryFails(a) PROVE FileOf(formal, cur)' /\ EntryOf(manifest, cur)'
    <3>1. pc[a] = "copied" /\ UNCHANGED <<formal, recs, cur, manifest, damage>>
      BY <2>gens DEF HistoryFails, ghost
    <3> QED
      BY <3>1, <2>know DEF CopyStands, FileOf, EntryOf
  <2>rejectManifest. ASSUME a \in Gens, RejectManifest(a) PROVE FileOf(formal, cur)' /\ EntryOf(manifest, cur)'
    <3>1. /\ pc[a] = "repointed" /\ UNCHANGED <<formal, recs, cur>> /\ manifest' = mem[a].entry
          /\ damage = {} /\ mem[a].damage = {}
      <4>1. damage' = damage \cup mem[a].damage
        BY <2>rejectManifest DEF RejectManifest
      <4> QED
        BY <2>rejectManifest, <4>1 DEF RejectManifest
    <3> QED
      BY <3>1, <2>know DEF RejectionStands, Ending, Refusing, FileOf, EntryOf
  <2>compensationFails. ASSUME a \in Gens, CompensationFails(a) PROVE FileOf(formal, cur)' /\ EntryOf(manifest, cur)'
    <3>1. /\ pc[a] \in Refusing /\ UNCHANGED <<recs, manifest, damage>> /\ formal' = a /\ cur' = mem[a].own
      BY <2>compensationFails DEF CompensationFails, Refusing
    <3>2. recs[mem[a].own].m = a /\ EntryOf(manifest, mem[a].own) /\ mem[a].own \in DOMAIN recs
      BY <2>compensationFails, <3>1, <2>know DEF RejectionStands, OwnStands, Ending, Kept
    <3>3. mem[a].own > 0
      BY <3>2, <2>know
    <3> QED
      BY <3>1, <3>2, <3>3 DEF FileOf, EntryOf
  <2>archives. ASSUME Archives(a) PROVE FileOf(formal, cur)' /\ EntryOf(manifest, cur)'
    <3>1. a \in Gens /\ SaveHistory(a) /\ damage = {}
      BY <2>archives DEF Archives, SaveHistory, ghost
    <3> QED
      BY <3>1, SavedIsWhole
  <2>uploads. ASSUME a \in Uploads, UploadClaim(a) PROVE FileOf(formal, cur)' /\ EntryOf(manifest, cur)'
    <3>1. pc[a] = "recorded" /\ manifest' \in {a, None} /\ UNCHANGED <<formal, recs, cur>>
      BY <2>uploads DEF UploadClaim
    <3>2. formal = a /\ cur > 0 /\ recs[cur].m = a /\ recs[cur].basis = None
      BY <2>uploads, <3>1, <2>know, Names DEF ChangeStands, UploadStands, Changing
    <3> QED
      BY <3>1, <3>2 DEF FileOf, EntryOf
  <2>undoVersions. ASSUME UndoVersions(a) PROVE FileOf(formal, cur)' /\ EntryOf(manifest, cur)'
    BY <2>undoVersions, UndoneIsWhole
  <2> QED
    BY <1>2, LettingGo, <2>register, <2>gens, <2>rejectManifest, <2>compensationFails, <2>archives,
       <2>uploads, <2>undoVersions DEF Commits, Restored, Leaves
<1> QED
  BY <1>1, <1>2

LEMMA SnapshotsKept ==
  ASSUME MediaInv, NEW a \in Actors, Act(a)
  PROVE  EveryRecordHasItsSnapshot'
<1>know. /\ EveryRecordHasItsSnapshot /\ damage \subseteq {"crash", "rollback"}
         /\ CopyStands(a) /\ UploadStands(a) /\ ChangeStands(a)
         /\ DOMAIN recs = 1 .. Len(recs) /\ Len(recs) \in Nat
  BY HolderKnows DEF MediaInv, TypeOK
<1>same. ASSUME recs' = recs, snaps \subseteq snaps', "rollback" \in damage => "rollback" \in damage'
         PROVE  EveryRecordHasItsSnapshot'
  BY <1>same, <1>know DEF EveryRecordHasItsSnapshot
<1>1. ASSUME Prepares(a) \/ Takes(a) PROVE EveryRecordHasItsSnapshot'
  <2>1. UNCHANGED <<recs, damage>> /\ snaps \subseteq snaps'
    BY <1>1 DEF Prepares, FreezeBasis, Checkpoint, PrepareFails, Guard, GuardFails, FinalizeFails,
       WithdrawAssets, AskRestore, Admit, WriteScript, ActivationFails, disk, ghost, Takes, CopySnapshot,
       RejectFile, StartCopy, UploadSnapshot
  <2> QED
    BY <2>1, <1>same
<1>2. ASSUME a \in Gens, SaveHistory(a) PROVE EveryRecordHasItsSnapshot'
  <2>1. damage' = damage
    BY <1>2 DEF SaveHistory, ghost
  <2>2. CASE "rollback" \in damage
    BY <2>1, <2>2 DEF EveryRecordHasItsSnapshot
  <2>3. CASE "rollback" \notin damage
    BY <1>2, <2>3, <1>know, SavedIsWhole
  <2> QED
    BY <2>2, <2>3
<1>3. ASSUME UploadVersions(a) PROVE EveryRecordHasItsSnapshot'
  <2>uploads. /\ a \in Uploads /\ pc[a] = "installed" /\ UNCHANGED <<snaps, damage>>
              /\ recs' = Append(TrackedRecs(mem[a].backup), Record(mem[a].backup, a, None))
    BY <1>3 DEF UploadVersions, Goto
  <2>newSnaps. NewSnaps(mem[a].backup, a) \subseteq snaps
    BY <1>3, <2>uploads, <1>know DEF UploadStands, Changing
  <2>backup. PICK none \in Bases \cup {None}, f \in Files : none = None /\ f = mem[a].backup
    BY HolderKnows
  <2>typeOK. TypeOK /\ PlacesStand /\ a \in Media /\ recs' = Append(TrackedRecs(f), Record(f, a, none))
    BY <2>uploads, <2>backup, HolderKnows DEF Media
  <2>versions. /\ recs' \in Seq(Versions) /\ Len(recs') = Len(TrackedRecs(f)) + 1
               /\ \A v \in DOMAIN recs : recs'[v] = recs[v]
    BY <2>typeOK, LongerHistory
  <2>recs. recs'[Len(recs')].m = a
    BY <2>typeOK, LongerHistory
  <2>untracked. /\ Untracked(f) => /\ Len(recs') = Len(recs) + 2
                                   /\ recs'[Len(recs) + 1] = [m |-> f, basis |-> None, prev |-> 0]
                /\ ~ Untracked(f) => Len(recs') = Len(recs) + 1
    BY <2>typeOK, LongerHistory
  <2> SUFFICES ASSUME "rollback" \notin damage, NEW v \in DOMAIN recs' PROVE <<recs'[v].m, v>> \in snaps
    BY <2>uploads DEF EveryRecordHasItsSnapshot
  <2>dom. DOMAIN recs' = 1 .. Len(recs') /\ Len(recs') \in Nat
    BY <2>versions
  <2>cASE. CASE v \in DOMAIN recs
    BY <2>cASE, <2>versions, <1>know DEF EveryRecordHasItsSnapshot
  <2>len. CASE v = Len(recs')
    <3>1. <<a, Len(TrackedRecs(f)) + 1>> \in snaps
      BY <2>newSnaps, <2>backup DEF NewSnaps
    <3> QED
      BY <3>1, <2>len, <2>versions, <2>recs
  <2>dOMAIN. CASE v \notin DOMAIN recs /\ v # Len(recs')
    <3>1. Untracked(f) /\ v = Len(recs) + 1
      <4>1. v \in 1 .. Len(recs') /\ v \notin 1 .. Len(recs)
        BY <2>dOMAIN, <2>dom, <1>know
      <4>2. (Untracked(f) => Len(recs') = Len(recs) + 2) /\ (~ Untracked(f) => Len(recs') = Len(recs) + 1)
        BY <2>untracked
      <4> QED
        BY <4>1, <4>2, <2>dOMAIN, <1>know
    <3>2. <<f, Len(recs) + 1>> \in snaps
      BY <3>1, <2>newSnaps, <2>backup DEF NewSnaps
    <3> QED
      BY <3>1, <3>2, <2>untracked
  <2> QED
    BY <2>cASE, <2>len, <2>dOMAIN
<1>4. ASSUME HistoryFails(a) PROVE EveryRecordHasItsSnapshot'
  <2>1. recs' = recs /\ damage' = damage /\ snaps' = snaps \ NewSnaps(formal, a)
    BY <1>4 DEF HistoryFails, ghost
  <2>2. TrackedRecs(formal) \in Seq(Versions) /\ Len(TrackedRecs(formal)) \in Nat /\ Len(recs) <= Len(TrackedRecs(formal))
    <3>1. /\ TrackedRecs(formal) \in Seq(Versions)
          /\ ~ Untracked(formal) => TrackedRecs(formal) = recs
          /\ Untracked(formal) => Len(TrackedRecs(formal)) = Len(recs) + 1
      BY HolderKnows, TrackedHistory
    <3>2. CASE Untracked(formal)
      BY <3>1, <3>2, <1>know
    <3>3. CASE ~ Untracked(formal)
      <4>1. TrackedRecs(formal) = recs
        BY <3>1, <3>3
      <4>2. Len(TrackedRecs(formal)) = Len(recs)
        BY <4>1
      <4>3. Len(recs) \in Nat
        BY <1>know
      <4> QED
        BY <4>2, <4>3, <3>1
    <3> QED
      BY <3>2, <3>3
  <2>3. ASSUME NEW v \in DOMAIN recs PROVE <<recs[v].m, v>> \notin NewSnaps(formal, a)
    <3>1. v # Len(TrackedRecs(formal)) + 1 /\ v # Len(recs) + 1
      BY <2>2, <1>know
    <3> QED
      BY <3>1 DEF NewSnaps
  <2> QED
    BY <2>1, <2>3, <1>know DEF EveryRecordHasItsSnapshot
<1>5. ASSUME UndoVersions(a) PROVE EveryRecordHasItsSnapshot'
  <2>1. CASE "rollback" \in damage'
    BY <2>1 DEF EveryRecordHasItsSnapshot
  <2> QED
    BY <2>1, <1>5, <1>know, UndoneIsWhole
<1>6. ASSUME Commits(a) \/ Writes(a), ~ Chooses(a), ~ UploadVersions(a) PROVE EveryRecordHasItsSnapshot'
  <2>1. UNCHANGED <<recs, snaps>> /\ ("rollback" \in damage => "rollback" \in damage')
    BY <1>6 DEF Commits, Register, Writes, Install, RejectPointer, FinishCopy, UploadFile, Point,
       UndoFile, ghost
  <2> QED
    BY <2>1, <1>same
<1>7. ASSUME Leaves(a), ~ Archives(a), ~ HistoryFails(a), ~ UndoVersions(a) PROVE EveryRecordHasItsSnapshot'
  <2>1. UNCHANGED <<recs, snaps>> /\ ("rollback" \in damage => "rollback" \in damage')
    BY <1>7 DEF Leaves, Restored, Register, Finalize, SelectionChanged, RejectManifest, CompensationFails,
       UploadClaim, disk, ghost
  <2> QED
    BY <2>1, <1>same
<1> QED
  BY <1>1, <1>2, <1>3, <1>4, <1>5, <1>6, <1>7, StepKinds DEF Chooses, Archives

-----------------------------------------------------------------------------
(* Paid results, damage and the maker of the selection.                    *)

\* What comes to be the formal file was it, is put back, or is a version that stays.
LEMMA FormalComesFrom ==
  ASSUME MediaInv, NEW a \in Actors, Act(a), NEW g \in Gens, formal' = g
  PROVE  \/ formal = g \/ (pc[a] \in Changing /\ mem[a].backup = g)
         \/ \E v \in DOMAIN recs : Kept(v) /\ recs[v].m = g
<1> DEFINE Goal == \/ formal = g \/ (pc[a] \in Changing /\ mem[a].backup = g)
                   \/ \E v \in DOMAIN recs : Kept(v) /\ recs[v].m = g
<1>know. OwnStands(a) /\ TypeOK /\ PlacesStand
  BY HolderKnows
<1>own. a \in Gens /\ pc[a] \in Changing \cup Ending =>
          mem[a].own \in DOMAIN recs /\ Kept(mem[a].own) /\ recs[mem[a].own].m = a
  BY <1>know DEF OwnStands, Kept
<1>1. ASSUME a \in Gens, Install(a) PROVE Goal
  BY <1>1, <1>own DEF Install, Goto, Changing
<1>2. ASSUME a \in Gens, CompensationFails(a) PROVE Goal
  BY <1>2, <1>own DEF CompensationFails, Ending, Refusing
<1>3. ASSUME UndoFile(a) PROVE Goal
  <2>1. pc[a] \in Changing
    BY <1>3 DEF UndoFile, Goto, Changing
  <2>2. formal' = mem[a].backup \/ formal' = formal
    BY <1>3 DEF UndoFile
  <2> QED
    BY <2>1, <2>2
<1>4. ASSUME a \in Gens, RejectFile(a) PROVE Goal
  <2>1. pc[a] \in Ending /\ cur = mem[a].own
    BY <1>4 DEF RejectFile, Goto, Ending
  <2>2. recs[cur].prev # 0 /\ recs[recs[cur].prev].m = g
    BY <1>4, Names DEF RejectFile
  <2>3. Kept(recs[cur].prev)
    BY <1>4, <1>know, <1>own, <2>1, <2>2, EarlierKept
  <2> QED
    BY <2>2, <2>3 DEF Kept
<1>5. ASSUME a \in Restores, FinishCopy(a) PROVE Goal
  <2>1. pc[a] \in Changing /\ formal' = recs[mem[a].own].m
    BY <1>5 DEF FinishCopy, Goto, Changing
  <2>2. Kept(mem[a].own)
    BY <1>5, <1>know, <2>1 DEF OwnStands
  <2> QED
    BY <2>1, <2>2 DEF Kept
<1>6. ~ StartCopy(a) /\ ~ (a \in Uploads /\ UploadFile(a))
  BY Names DEF StartCopy, UploadFile
<1>7. ASSUME Prepares(a) \/ Commits(a) PROVE formal' = formal
  BY <1>7 DEF Prepares, FreezeBasis, Checkpoint, PrepareFails, Guard, GuardFails, FinalizeFails,
     WithdrawAssets, AskRestore, Admit, WriteScript, ActivationFails, Commits, Register, disk
<1>8. ASSUME Takes(a), ~ RejectFile(a), ~ StartCopy(a) PROVE formal' = formal
  BY <1>8 DEF Takes, CopySnapshot, UploadSnapshot
<1>9. ASSUME Chooses(a) \/ RejectPointer(a) \/ UploadVersions(a) \/ Point(a) PROVE formal' = formal
  BY <1>9 DEF Chooses, SaveHistory, RejectPointer, UploadVersions, Point
<1>10. ASSUME Leaves(a), ~ CompensationFails(a) PROVE formal' = formal
  BY <1>10 DEF Leaves, Archives, Restored, SaveHistory, Register, Finalize, SelectionChanged,
     HistoryFails, RejectManifest, UploadClaim, UndoVersions, disk
<1>same. formal' = formal => Goal
  OBVIOUS
<1> HIDE DEF Goal
<1>11. Writes(a) => Goal
  BY <1>1, <1>3, <1>5, <1>6, <1>9, <1>same DEF Writes
<1>12. Takes(a) => Goal
  BY <1>4, <1>6, <1>8, <1>same, Names DEF Takes, CopySnapshot, UploadSnapshot
<1>13. Leaves(a) => Goal
  <2>1. CompensationFails(a) => a \in Gens
    BY HolderKnows, Names DEF CompensationFails, PlacesStand, RestorePlaces, UploadPlaces
  <2> QED
    BY <1>2, <1>10, <1>same, <2>1
<1> QED
  <2>1. Goal
    BY <1>7, <1>11, <1>12, <1>13, <1>same, StepKinds
  <2> QED
    BY <2>1 DEF Goal

\* What is kept for a rollback was the formal file.
LEMMA BackupComesFrom ==
  ASSUME MediaInv, NEW a \in Actors, Act(a), NEW g, pc'[a] \in Changing, mem'[a].backup = g
  PROVE  formal = g \/ (pc[a] \in Changing /\ mem[a].backup = g)
<1>know. DOMAIN pc = Actors /\ mem \in [Actors -> Locals]
  BY HolderKnows
<1> USE DEF Changing
<1>1. ASSUME Prepares(a) PROVE pc[a] \in Changing /\ mem'[a].backup = mem[a].backup
  <2>1. pc[a] \in Changing
    BY <1>1, <1>know DEF Prepares, FreezeBasis, Checkpoint, PrepareFails, Guard, GuardFails, FinalizeFails,
       WithdrawAssets, AskRestore, Admit, WriteScript, ActivationFails, Goto
  <2>2. ~ StartCopy(a) /\ ~ UploadSnapshot(a) /\ ~ Chooses(a)
    BY <2>1 DEF StartCopy, UploadSnapshot, Chooses, SaveHistory, Goto
  <2> QED
    BY <1>1, <1>know, <2>1, <2>2, FieldsStay
<1>2. ASSUME Takes(a) PROVE mem'[a].backup = formal
  <2>1. StartCopy(a) \/ UploadSnapshot(a)
    BY <1>2, <1>know DEF Takes, CopySnapshot, RejectFile, Goto
  <2> QED
    BY <1>know, <2>1, Memory
<1>3. ASSUME Writes(a), ~ Chooses(a) PROVE pc[a] \in Changing /\ mem'[a].backup = mem[a].backup
  <2>1. pc[a] \in Changing
    BY <1>3, <1>know DEF Writes, Install, RejectPointer, FinishCopy, UploadFile, UploadVersions, Point,
       UndoFile, Goto
  <2>2. ~ StartCopy(a) /\ ~ UploadSnapshot(a)
    BY <2>1 DEF StartCopy, UploadSnapshot, Goto
  <2> QED
    BY <1>3, <1>know, <2>1, <2>2, FieldsStay
<1>4. ASSUME Chooses(a) PROVE mem'[a].backup = formal
  BY <1>4, <1>know, Memory
<1>5. ~ Commits(a)
  BY <1>know, Names DEF Commits, Register
<1>6. ~ Leaves(a)
  <2>1. Leaves(a) => \E p \in {"done", "failed"} : End(a, p)
    BY HolderKnows, LeavingEnds
  <2> QED
    BY <2>1, <1>know DEF End
<1> HIDE DEF Changing
<1> QED
  BY <1>1, <1>2, <1>3, <1>4, <1>5, <1>6, StepKinds

LEMMA PaidKept ==
  ASSUME MediaInv, NEW a \in Actors, Act(a)
  PROVE  PaidIsKept'
<1> SUFFICES ASSUME NEW g \in Gens,
                    formal' = g \/ \E b \in Actors : pc'[b] \in Changing /\ mem'[b].backup = g
             PROVE  \E v \in DOMAIN recs' : Kept(v)' /\ recs'[v].m = g
  BY DEF PaidIsKept
<1>1. \E v \in DOMAIN recs : Kept(v) /\ recs[v].m = g
  <2>paid. formal = g \/ (\E b \in Actors : pc[b] \in Changing /\ mem[b].backup = g)
           => \E v \in DOMAIN recs : Kept(v) /\ recs[v].m = g
    BY DEF MediaInv, PaidIsKept
  <2>1. CASE formal' = g
    BY <2>1, <2>paid, FormalComesFrom
  <2>2. ASSUME NEW b \in Actors, pc'[b] \in Changing, mem'[b].backup = g
        PROVE  formal = g \/ (pc[b] \in Changing /\ mem[b].backup = g)
    <3>1. CASE b = a
      BY <2>2, <3>1, BackupComesFrom
    <3>2. CASE b # a
      BY <2>2, <3>2, HolderKnows, ActsAlone
    <3> QED
      BY <3>1, <3>2
  <2> QED
    BY <2>1, <2>2, <2>paid
<1>2. PICK v \in DOMAIN recs : Kept(v) /\ recs[v].m = g
  BY <1>1
<1>3. Kept(v)' /\ recs'[v] = recs[v]
  BY <1>2, HistoryKept
<1> QED
  BY <1>2, <1>3 DEF Kept

\* What a step adds to the damage: the failed write of a rollback, or what a
\* compensation puts back.
LEMMA DamageGrows ==
  ASSUME MediaInv, NEW a \in Actors, Act(a)
  PROVE  /\ crashes' = crashes /\ damage \ {"crash"} \subseteq damage'
         /\ damage' \subseteq damage \cup {"rollback"} \cup mem[a].damage
<1>1. ASSUME Prepares(a) \/ Takes(a) PROVE crashes' = crashes /\ damage' = damage
  BY <1>1 DEF Prepares, FreezeBasis, Checkpoint, PrepareFails, Guard, GuardFails, FinalizeFails,
     WithdrawAssets, AskRestore, Admit, WriteScript, ActivationFails, Takes, CopySnapshot,
     RejectFile, StartCopy, UploadSnapshot, env, ghost, Fault
<1>2. ASSUME Writes(a), ~ UndoFile(a) PROVE crashes' = crashes /\ damage' = damage
  BY <1>2 DEF Writes, Chooses, SaveHistory, Install, RejectPointer, FinishCopy, UploadFile, UploadVersions,
     Point, env, ghost
<1>3. ASSUME UndoFile(a) \/ UndoVersions(a) PROVE crashes' = crashes /\ damage' \in {damage, damage \cup {"rollback"}}
  BY <1>3 DEF UndoFile, UndoVersions, env, Fault
<1>4. ASSUME Commits(a) \/ Restored(a) \/ UploadClaim(a) PROVE crashes' = crashes /\ damage' = damage \ {"crash"}
  BY <1>4 DEF Commits, Restored, Register, UploadClaim, env
<1>5. ASSUME RejectManifest(a) PROVE crashes' = crashes /\ damage' = damage \cup mem[a].damage
  BY <1>5 DEF RejectManifest, env
<1>6. ASSUME Finalize(a) \/ SelectionChanged(a) \/ HistoryFails(a) \/ CompensationFails(a) \/ Archives(a)
      PROVE  crashes' = crashes /\ damage' = damage
  BY <1>6 DEF Finalize, SelectionChanged, HistoryFails, CompensationFails, Archives, SaveHistory, env,
     ghost, Fault
<1> DEFINE Goal == /\ crashes' = crashes /\ damage \ {"crash"} \subseteq damage'
                   /\ damage' \subseteq damage \cup {"rollback"} \cup mem[a].damage
<1>7. /\ crashes' = crashes /\ damage' = damage => Goal
      /\ crashes' = crashes /\ damage' \in {damage, damage \cup {"rollback"}} => Goal
      /\ crashes' = crashes /\ damage' = damage \ {"crash"} => Goal
      /\ crashes' = crashes /\ damage' = damage \cup mem[a].damage => Goal
  OBVIOUS
<1> HIDE DEF Goal
<1>8. Leaves(a) => Goal
  BY <1>3, <1>4, <1>5, <1>6, <1>7 DEF Leaves
<1>9. Writes(a) => Goal
  BY <1>2, <1>3, <1>7
<1>10. Prepares(a) \/ Takes(a) \/ Commits(a) => Goal
  BY <1>1, <1>4, <1>7
<1>11. Goal
  BY <1>8, <1>9, <1>10, StepKinds
<1> QED
  BY <1>11 DEF Goal

LEMMA DamageKept ==
  ASSUME MediaInv, NEW a \in Actors, Act(a)
  PROVE  DamageStands'
<1>know. DamageStands /\ mem \in [Actors -> Locals]
  BY HolderKnows DEF MediaInv
<1>1. "crash" \in damage' => crashes' > 0
  BY <1>know, DamageGrows DEF DamageStands
<1>2. ASSUME NEW b \in Actors, "crash" \in mem'[b].damage PROVE crashes' > 0
  <2>1. CASE b # a
    BY <2>1, <1>2, <1>know, HolderKnows, ActsAlone, DamageGrows DEF DamageStands
  <2>2. CASE b = a
    <3>1. mem'[a].damage \in {mem[a].damage, damage, {}}
      <4>1. CASE Leaves(a)
        <5>1. \E p \in {"done", "failed"} : End(a, p)
          BY <4>1, HolderKnows, LeavingEnds
        <5> QED
          BY <5>1, <1>know, BlankLocals DEF End
      <4>2. CASE Commits(a)
        BY <4>2, <1>know, Memory
      <4>3. CASE ~ Leaves(a) /\ ~ Commits(a)
        BY <4>3, <1>know, FieldsStay, StepKinds
      <4> QED
        BY <4>1, <4>2, <4>3
    <3> QED
      BY <3>1, <2>2, <1>2, <1>know, DamageGrows DEF DamageStands
  <2> QED
    BY <2>1, <2>2
<1>3. crashes' \in Nat
  BY <1>know, DamageGrows DEF DamageStands
<1> QED
  BY <1>1, <1>2, <1>3 DEF DamageStands

\* Whoever changes the selection is its maker, or leaves it to nobody.
LEMMA SelectionHasMaker ==
  ASSUME MediaInv, NEW a \in Actors, Act(a), damage' = {}
  PROVE  /\ selector' \in {selector, a, None}
         /\ stuck \subseteq stuck'
         /\ cur' = cur \/ (selector' \in {a, None}) \/ (cur = 0 /\ SaveHistory(a))
         /\ selector' = a /\ a \in Gens => selector = a \/ Point(a) \/ a \in stuck'
<1> DEFINE Goal == /\ selector' \in {selector, a, None} /\ stuck \subseteq stuck'
                   /\ cur' = cur \/ (selector' \in {a, None}) \/ (cur = 0 /\ SaveHistory(a))
                   /\ selector' = a /\ a \in Gens => selector = a \/ Point(a) \/ a \in stuck'
<1>same. UNCHANGED <<cur, selector, stuck>> => Goal
  OBVIOUS
<1>1. ASSUME Prepares(a) \/ Takes(a) \/ Commits(a) PROVE UNCHANGED <<cur, selector, stuck>>
  BY <1>1 DEF Prepares, FreezeBasis, Checkpoint, PrepareFails, Guard, GuardFails, FinalizeFails,
     WithdrawAssets, AskRestore, Admit, WriteScript, ActivationFails, Takes, CopySnapshot,
     RejectFile, StartCopy, UploadSnapshot, Commits, Register, disk, ghost
<1>2. ASSUME Writes(a), ~ Chooses(a), ~ RejectPointer(a), ~ UploadVersions(a), ~ Point(a)
      PROVE  UNCHANGED <<cur, selector, stuck>>
  BY <1>2 DEF Writes, Install, FinishCopy, UploadFile, UndoFile, ghost
<1>3. ASSUME SaveHistory(a) PROVE Goal
  <2>1. UNCHANGED <<selector, stuck>> /\ cur' = TrackedCur(formal)
    BY <1>3 DEF SaveHistory, ghost
  <2>2. cur # 0 => cur' = cur
    BY <2>1 DEF TrackedCur, Untracked
  <2> QED
    BY <1>3, <2>1, <2>2
<1>4. ASSUME RejectPointer(a) \/ Point(a) PROVE Goal
  <2>1. RejectPointer(a) => selector' = None /\ stuck' = stuck
    BY DEF RejectPointer
  <2>2. Point(a) => selector' = a /\ stuck' = stuck
    BY DEF Point
  <2> QED
    BY <1>4, <2>1, <2>2, Names
<1>5. ASSUME UploadVersions(a) PROVE Goal
  BY <1>5, Names DEF UploadVersions
<1>6. ASSUME CompensationFails(a) PROVE Goal
  BY <1>6 DEF CompensationFails
<1>7. ASSUME UndoVersions(a) PROVE Goal
  <2>1. cur' = mem[a].prev /\ selector' = (IF selector = a THEN None ELSE selector) /\ stuck' = stuck
    BY <1>7 DEF UndoVersions
  <2>2. cur = mem[a].prev \/ selector = a
    BY <1>7, HolderKnows DEF UndoVersions, ChangeStands, Changing
  <2> QED
    BY <2>1, <2>2, Names
<1>8. ASSUME Leaves(a), ~ Archives(a), ~ CompensationFails(a), ~ UndoVersions(a)
      PROVE  UNCHANGED <<cur, selector, stuck>>
  BY <1>8 DEF Leaves, Restored, Register, Finalize, SelectionChanged, HistoryFails, RejectManifest,
     UploadClaim,
     disk, ghost
<1>9. Archives(a) \/ Chooses(a) => SaveHistory(a)
  BY DEF Archives, Chooses
<1> HIDE DEF Goal
<1>10. Goal
  BY <1>same, <1>1, <1>2, <1>3, <1>4, <1>5, <1>6, <1>7, <1>8, <1>9, StepKinds
<1> QED
  BY <1>10 DEF Goal

LEMMA SelectorKept ==
  ASSUME MediaInv, NEW a \in Actors, Act(a)
  PROVE  SelectorStands'
<1> DEFINE Known(p) == p \in {"pointed", "undo_file", "undo_versions", "done"} \cup (Ending \ {"repointed"})
<1> SUFFICES ASSUME damage' = {}, crashes' = 0, NEW g \in Gens, g \notin stuck', selector' = g
             PROVE  Known(pc'[g]) /\ (pc'[g] \in Ending => cur' = mem'[g].own)
  BY DEF SelectorStands
<1>know. /\ SelectorStands /\ DamageStands /\ damage \subseteq {"crash", "rollback"}
         /\ PlacesStand /\ TypeOK /\ DOMAIN pc = Actors /\ mem \in [Actors -> Locals]
  BY HolderKnows DEF MediaInv, TypeOK
<1>maker. /\ selector' \in {selector, a, None} /\ stuck \subseteq stuck'
          /\ cur' = cur \/ (selector' \in {a, None}) \/ (cur = 0 /\ SaveHistory(a))
          /\ selector' = a /\ a \in Gens => selector = a \/ Point(a) \/ a \in stuck'
  BY SelectionHasMaker
<1>clean. damage = {} /\ crashes = 0
  BY <1>know, DamageGrows DEF DamageStands
<1>old. selector = g => Known(pc[g]) /\ (pc[g] \in Ending => cur = mem[g].own)
  <2>1. g \notin stuck
    BY <1>maker
  <2> QED
    BY <2>1, <1>clean, <1>know DEF SelectorStands
<1>gen. g \in Actors /\ g # None
  BY Names
<1>1. CASE g # a
  <2>1. pc'[g] = pc[g] /\ mem'[g] = mem[g] /\ selector = g
    BY <1>1, <1>know, <1>maker, <1>gen, ActsAlone
  <2>2. ASSUME pc[g] \in Ending PROVE cur' = cur
    <3>1. Kept(mem[g].own) /\ cur = mem[g].own
      BY <2>1, <2>2, <1>old, <1>gen, HolderKnows DEF OwnStands
    <3>2. cur # 0
      BY <3>1, HolderKnows DEF Kept
    <3> QED
      BY <3>2, <1>1, <1>maker, <1>gen
  <2> QED
    BY <2>1, <2>2, <1>old
<1>2. CASE g = a
  <2>a. a \in Gens /\ a \notin Uploads /\ a \notin Restores
    BY <1>2, Names
  <2>1. CASE Point(a)
    BY <2>1, <1>2, <1>know DEF Point, Goto, Ending, Refusing
  <2>2. CASE ~ Point(a)
    <3>1. selector = a /\ Known(pc[a]) /\ (pc[a] \in Ending => cur = mem[a].own)
      BY <2>2, <1>2, <1>maker, <1>old, <2>a
    <3>kept. ~ Chooses(a) /\ ~ AskRestore(a) /\ ~ Leaves(a) => mem'[a].own = mem[a].own
      BY <1>know, FieldsStay, StepKinds
    <3> USE DEF Ending, Refusing
    <3>2. ASSUME Prepares(a) PROVE Known(pc'[a]) /\ (pc'[a] \in Ending => cur' = mem'[a].own)
      <4>1. FinalizeFails(a) \/ WithdrawAssets(a) \/ ActivationFails(a)
        BY <3>1, <3>2, <2>a, <1>know DEF Prepares, FreezeBasis, Checkpoint, PrepareFails, Guard,
           GuardFails, AskRestore,
           Admit, WriteScript, Goto
      <4>2. ~ Leaves(a)
        <5>1. pc'[a] \notin {"done", "failed"}
          BY <4>1, <1>know DEF FinalizeFails, WithdrawAssets, ActivationFails, Goto
        <5>2. Leaves(a) => \E p \in {"done", "failed"} : End(a, p)
          BY <1>know, LeavingEnds
        <5> QED
          BY <5>1, <5>2, <1>know DEF End
      <4>3. mem'[a].own = mem[a].own
        BY <3>kept, <4>2, <3>1, <2>a DEF Chooses, SaveHistory, AskRestore
      <4> QED
        BY <4>1, <4>3, <3>1, <1>know DEF FinalizeFails, WithdrawAssets, ActivationFails, Goto, disk
    <3>3. ASSUME Takes(a) PROVE Known(pc'[a]) /\ (pc'[a] \in Ending => cur' = mem'[a].own)
      <4>1. RejectFile(a)
        BY <3>1, <3>3, <2>a DEF Takes, CopySnapshot, Goto
      <4> QED
        BY <4>1, <3>1, <1>know DEF RejectFile, Goto
    <3>4. ASSUME Commits(a) PROVE Known(pc'[a]) /\ (pc'[a] \in Ending => cur' = mem'[a].own)
      <4>1. pc[a] = "pointed" /\ pc'[a] = "committed" /\ cur' = cur
        BY <3>4, <1>know, <2>a DEF Commits, Register
      <4>2. cur = mem[a].own
        BY <4>1, HolderKnows DEF ChangeStands, Changing
      <4>3. mem'[a].own = mem[a].own
        <5>1. Remembers(a, {"entry", "damage"})
          BY <3>4, <1>know, Memory
        <5> QED
          BY <5>1, Recall
      <4> QED
        BY <4>1, <4>2, <4>3
    <3>5. ASSUME Writes(a) PROVE Known(pc'[a]) /\ (pc'[a] \in Ending => cur' = mem'[a].own)
      <4>1. ~ RejectPointer(a)
        BY <1>2, <1>gen DEF RejectPointer
      <4>2. UndoFile(a)
        BY <3>1, <3>5, <2>2, <2>a, <4>1 DEF Writes, Chooses, SaveHistory, Install, Goto
      <4> QED
        BY <4>2, <1>know DEF UndoFile, Goto
    <3>6. ASSUME Leaves(a) PROVE Known(pc'[a]) /\ (pc'[a] \in Ending => cur' = mem'[a].own)
      <4>1. ~ SelectionChanged(a)
        BY <3>1 DEF SelectionChanged
      <4>2. ~ CompensationFails(a)
        BY <1>2 DEF CompensationFails
      <4>3. ~ HistoryFails(a) /\ ~ RejectManifest(a) /\ ~ Archives(a)
        BY <3>1 DEF HistoryFails, RejectManifest, Archives, SaveHistory
      <4>4. ~ UndoVersions(a)
        BY <3>1, <1>2, <1>gen DEF UndoVersions
      <4>5. Finalize(a)
        BY <3>6, <4>1, <4>2, <4>3, <4>4, <2>a DEF Leaves, Restored
      <4> QED
        BY <4>5, <1>know, <2>a DEF Finalize, End
    <3> QED
      BY <1>2, <3>2, <3>3, <3>4, <3>5, <3>6, StepKinds
  <2> QED
    BY <2>1, <2>2
<1> QED
  BY <1>1, <1>2

-----------------------------------------------------------------------------
(* The address in the script.                                              *)

\* Whoever has begun is not idle again.
LEMMA NobodyIsIdleAgain ==
  ASSUME MediaInv, NEW a \in Actors, Act(a)
  PROVE  pc'[a] # "idle"
<1>know. DOMAIN pc = Actors
  BY HolderKnows
<1>1. Prepares(a) \/ Takes(a) => pc'[a] # "idle"
  BY <1>know DEF Prepares, FreezeBasis, Checkpoint, PrepareFails, Guard, GuardFails, FinalizeFails,
     WithdrawAssets, AskRestore, Admit, WriteScript, ActivationFails, Takes, CopySnapshot,
     RejectFile, StartCopy, UploadSnapshot, Goto
<1>2. Writes(a) \/ Commits(a) => pc'[a] # "idle"
  BY <1>know, Names DEF Writes, Chooses, SaveHistory, Install, RejectPointer, FinishCopy, UploadFile,
     UploadVersions, Point, UndoFile, Commits, Register, Goto
<1>3. Leaves(a) => pc'[a] # "idle"
  <2>1. Leaves(a) => \E p \in {"done", "failed"} : End(a, p)
    BY HolderKnows, LeavingEnds
  <2> QED
    BY <2>1, <1>know DEF End
<1> QED
  BY <1>1, <1>2, <1>3, StepKinds

\* The steps that change the address or the pointer, and who may take them.
LEMMA AddressSteps ==
  ASSUME MediaInv, NEW a \in Actors, Act(a), a \notin Uploads
  PROVE  /\ \/ uri' = uri \/ WriteScript(a) \/ (a \in Restores /\ UndoVersions(a))
            \/ a \in Gens /\ (Finalize(a) \/ WithdrawAssets(a) \/ SelectionChanged(a) \/ CompensationFails(a))
         /\ \/ cur' = cur \/ Point(a) \/ UndoVersions(a)
            \/ a \in Gens /\ (SaveHistory(a) \/ RejectPointer(a) \/ CompensationFails(a))
         /\ uri' # uri => adm = a
         /\ cur' # cur => adm = a \/ (cur = 0 /\ SaveHistory(a))
<1>know. /\ Locked(a) /\ DOMAIN pc = Actors /\ PlacesStand
         /\ a \in Gens \cup Restores /\ a \notin Gens \cap Restores
  BY HolderKnows, Names
<1>uri. \/ uri' = uri \/ WriteScript(a) \/ (a \in Restores /\ UndoVersions(a))
        \/ a \in Gens /\ (Finalize(a) \/ WithdrawAssets(a) \/ SelectionChanged(a) \/ CompensationFails(a))
  <2>prepares. ASSUME Prepares(a), ~ WriteScript(a), ~ WithdrawAssets(a) PROVE uri' = uri
    BY <2>prepares DEF Prepares, FreezeBasis, Checkpoint, PrepareFails, Guard, GuardFails, FinalizeFails,
       AskRestore, Admit, ActivationFails
  <2>takes. ASSUME Takes(a) \/ Commits(a) PROVE uri' = uri
    BY <2>takes DEF Takes, CopySnapshot, RejectFile, StartCopy, UploadSnapshot, Commits, Register
  <2>writes. ASSUME Writes(a) PROVE uri' = uri
    BY <2>writes DEF Writes, Chooses, SaveHistory, Install, RejectPointer, FinishCopy, UploadFile,
       UploadVersions, Point, UndoFile
  <2>leaves. ASSUME Leaves(a), ~ UndoVersions(a), ~ Finalize(a), ~ SelectionChanged(a), ~ CompensationFails(a)
             PROVE  uri' = uri
    BY <2>leaves, <1>know DEF Leaves, Archives, Restored, SaveHistory, Register, HistoryFails,
       RejectManifest, UploadClaim
  <2>undoVersions. ASSUME UndoVersions(a), a \in Gens PROVE uri' = uri
    BY <2>undoVersions DEF UndoVersions
  <2>finalize. Leaves(a) /\ (Finalize(a) \/ SelectionChanged(a) \/ CompensationFails(a)) => a \in Gens
    BY <1>know DEF PlacesStand, RestorePlaces, Finalize, SelectionChanged, CompensationFails
  <2>withdrawAssets. WithdrawAssets(a) => a \in Gens
    BY <1>know DEF PlacesStand, RestorePlaces, WithdrawAssets, Goto
  <2> QED
    BY <2>prepares, <2>takes, <2>writes, <2>leaves, <2>undoVersions, <2>finalize, <2>withdrawAssets,
       <1>know, StepKinds
<1>cur. \/ cur' = cur \/ Point(a) \/ UndoVersions(a)
        \/ a \in Gens /\ (SaveHistory(a) \/ RejectPointer(a) \/ CompensationFails(a))
  <2>1. ASSUME Prepares(a) \/ Takes(a) \/ Commits(a) PROVE cur' = cur
    BY <2>1 DEF Prepares, FreezeBasis, Checkpoint, PrepareFails, Guard, GuardFails, FinalizeFails,
       WithdrawAssets, AskRestore, Admit, WriteScript, ActivationFails, Takes, CopySnapshot,
       RejectFile, StartCopy, UploadSnapshot, Commits, Register, disk
  <2>2. ASSUME Writes(a), ~ Chooses(a), ~ (a \in Gens /\ RejectPointer(a)), ~ Point(a) PROVE cur' = cur
    BY <2>2 DEF Writes, Install, FinishCopy, UploadFile, UndoFile
  <2>3. ASSUME Leaves(a), ~ Archives(a), ~ (a \in Gens /\ CompensationFails(a)), ~ UndoVersions(a)
        PROVE  cur' = cur
    BY <2>3 DEF Leaves, Restored, Register, Finalize, SelectionChanged, HistoryFails, RejectManifest,
       UploadClaim,
       disk
  <2> QED
    BY StepKinds, <2>1, <2>2, <2>3 DEF Chooses, Archives
<1>adm. \/ a \in Gens /\ pc[a] \in UnderDoc \cup Ending
        \/ a \in Restores /\ pc[a] \in UnderDoc
        \/ pc[a] = "admitted"
        => adm = a
  BY <1>know DEF Locked
<1>holder. /\ WriteScript(a) \/ UndoVersions(a) \/ Point(a) => adm = a
           /\ a \in Gens /\ (Finalize(a) \/ WithdrawAssets(a) \/ SelectionChanged(a) \/ CompensationFails(a)
                             \/ RejectPointer(a)) => adm = a
  <2>1. WriteScript(a) => pc[a] = "admitted"
    BY DEF WriteScript, Goto
  <2>2. UndoVersions(a) \/ Point(a) => pc[a] \in UnderDoc
    BY DEF UndoVersions, Point, Goto, UnderDoc, Changing
  <2>3. Finalize(a) \/ WithdrawAssets(a) \/ SelectionChanged(a) \/ CompensationFails(a) \/ RejectPointer(a)
        => pc[a] \in Ending
    BY DEF Finalize, WithdrawAssets, SelectionChanged, CompensationFails, RejectPointer, Goto, Ending,
       Refusing
  <2> QED
    BY <1>adm, <1>know, <2>1, <2>2, <2>3
<1>save. SaveHistory(a) /\ cur # 0 => cur' = cur
  BY DEF SaveHistory, TrackedCur, Untracked
<1> QED
  BY <1>uri, <1>cur, <1>holder, <1>save

\* Where there are no uploads, versions stay.
LEMMA AloneBefore ==
  ASSUME MediaInv, NEW a \in Actors, Act(a), Alone'
  PROVE  /\ Alone /\ a \notin Uploads /\ ~ CompensationFails(a)
         /\ UndoVersions(a) => cur' = mem[a].prev
         /\ \A v \in DOMAIN recs : Kept(v) /\ v \in DOMAIN recs' /\ recs'[v] = recs[v]
<1>1. a \notin Uploads
  BY NobodyIsIdleAgain DEF Alone
<1>2. damage = {} /\ crashes = 0
  <2>1. DamageStands /\ damage \subseteq {"crash", "rollback"}
    BY DEF MediaInv, TypeOK
  <2> QED
    BY <2>1, DamageGrows DEF DamageStands, Alone
<1>3. stuck = {}
  BY SelectionHasMaker DEF Alone
<1>4. ASSUME NEW u \in Uploads PROVE pc[u] = "idle" /\ ver # u
  <2>1. u \in Actors /\ pc'[u] = pc[u]
    BY <1>1, Names, HolderKnows, ActsAlone
  <2>2. pc[u] = "idle"
    BY <2>1 DEF Alone
  <2>3. Locked(u)
    BY <2>1, HolderKnows
  <2> QED
    BY <2>2, <2>3 DEF Locked, UnderVer, Changing, Refusing
<1>5. ~ CompensationFails(a)
  BY DEF CompensationFails, Alone
<1>6. UndoVersions(a) => cur' = mem[a].prev
  BY DEF UndoVersions, Alone
<1>7. \A v \in DOMAIN recs : Kept(v)
  BY <1>4 DEF Kept
<1>8. \A v \in DOMAIN recs : v \in DOMAIN recs' /\ recs'[v] = recs[v]
  BY <1>7, HistoryKept DEF Kept
<1> QED
  BY <1>1, <1>2, <1>3, <1>4, <1>5, <1>6, <1>7, <1>8 DEF Alone

\* What an actor goes back to is in the history.
LEMMA EarlierIsThere ==
  ASSUME MediaInv, NEW b \in Actors,
         pc[b] \in Changing \/ (b \in Gens /\ pc[b] \in Ending)
  PROVE  mem[b].prev \in 0 .. Len(recs)
<1>know. /\ ChangeStands(b) /\ OwnStands(b) /\ PlacesStand /\ mem[b].prev \in Nat /\ Len(recs) \in Nat
         /\ DOMAIN recs = 1 .. Len(recs)
  BY HolderKnows
<1>1. CASE pc[b] \in Changing
  BY <1>1, <1>know DEF ChangeStands
<1>2. CASE b \in Gens /\ pc[b] \in Ending
  <2>1. mem[b].own \in DOMAIN recs /\ recs[mem[b].own].prev = mem[b].prev
    BY <1>2, <1>know DEF OwnStands, Kept
  <2>2. mem[b].prev < mem[b].own
    BY <2>1, <1>know DEF PlacesStand
  <2> QED
    BY <2>1, <2>2, <1>know
<1> QED
  BY <1>1, <1>2

\* The address of a version stays the address of that version.
LEMMA AddressOfVersion ==
  ASSUME MediaInv, NEW a \in Actors, Act(a), Alone', NEW w, NEW v \in 0 .. Len(recs), Addresses(w, v)
  PROVE  w = None \/ (v > 0 /\ w = recs'[v].m)
<1>1. DOMAIN recs = 1 .. Len(recs) /\ Len(recs) \in Nat
  BY HolderKnows
<1>2. v > 0 => v \in DOMAIN recs
  BY <1>1
<1> QED
  BY <1>2, AloneBefore DEF Addresses

LEMMA OthersAddressed ==
  ASSUME MediaInv, NEW a \in Actors, Act(a), Alone', NEW b \in Actors, b # a
  PROVE  Addressed(b)'
<1>know. /\ Locked(b) /\ OwnStands(b) /\ PlacesStand /\ DOMAIN recs = 1 .. Len(recs) /\ Len(recs) \in Nat
         /\ cur \in 0 .. Len(recs)
  BY HolderKnows
<1>alone. Alone /\ a \notin Uploads
  BY AloneBefore
<1>old. Addressed(b)
  BY <1>alone DEF MediaInv, AddressStands
<1>same. pc'[b] = pc[b] /\ mem'[b] = mem[b]
  BY HolderKnows, ActsAlone
<1>step. /\ adm = b => uri' = uri
         /\ adm = b /\ cur # 0 => cur' = cur
         /\ adm = b => cur' = cur \/ cur = 0
  BY <1>alone, AddressSteps
<1>1. CASE b \in Uploads
  <2>1. pc[b] = "idle" /\ b \notin Gens /\ b \notin Restores
    BY <1>1, <1>alone, Names DEF Alone
  <2> QED
    BY <2>1, <1>same DEF Addressed
<1>2. CASE b \notin Uploads
  <2>adm. /\ b \in Gens /\ (mem[b].guarded \/ pc[b] \in Changing \cup Ending) => adm = b
          /\ b \in Restores /\ pc[b] \in UnderDoc => adm = b
    BY <1>know DEF Locked, UnderDoc
  <2>script. pc[b] = "scripted" => b \in Restores /\ pc[b] \in UnderDoc
    BY <1>2, <1>know, Names DEF PlacesStand, GenPlaces, UnderDoc
  <2>gens. (b \in Gens /\ mem[b].guarded => uri = mem[b].uri)'
    BY <1>old, <1>same, <1>step, <2>adm DEF Addressed
  <2>restores. (b \in Restores /\ pc[b] \in UnderDoc => uri = None)'
    BY <1>old, <1>same, <1>step, <2>adm DEF Addressed
  <2>own. (b \in Gens /\ pc[b] \in Ending \ {"repointed"} => cur = mem[b].own)'
    <3> SUFFICES ASSUME b \in Gens, pc[b] \in Ending \ {"repointed"} PROVE cur' = mem[b].own
      BY <1>same
    <3>1. cur = mem[b].own /\ mem[b].own \in DOMAIN recs
      BY <1>old, <1>know DEF Addressed, OwnStands, Kept
    <3>2. cur # 0
      BY <3>1, <1>know
    <3> QED
      BY <3>1, <3>2, <1>step, <2>adm
  <2>prev. (b \in Gens /\ pc[b] \in Changing \cup Ending => Addresses(uri, mem[b].prev))'
    <3> SUFFICES ASSUME b \in Gens, pc[b] \in Changing \cup Ending
                 PROVE  uri' = None \/ (mem[b].prev > 0 /\ uri' = recs'[mem[b].prev].m)
      BY <1>same DEF Addresses
    <3>1. uri' = uri /\ Addresses(uri, mem[b].prev) /\ mem[b].prev \in 0 .. Len(recs)
      BY <1>old, <1>step, <2>adm, EarlierIsThere DEF Addressed
    <3> QED
      BY <3>1, AddressOfVersion
  <2>uri. (pc[b] = "scripted" => Addresses(mem[b].uri, cur))'
    <3> SUFFICES ASSUME pc[b] = "scripted"
                 PROVE  mem[b].uri = None \/ (cur' > 0 /\ mem[b].uri = recs'[cur'].m)
      BY <1>same DEF Addresses
    <3>1. Addresses(mem[b].uri, cur) /\ (cur' = cur \/ cur = 0)
      BY <1>old, <1>step, <2>adm, <2>script DEF Addressed
    <3>2. mem[b].uri = None \/ (cur > 0 /\ mem[b].uri = recs'[cur].m)
      BY <3>1, <1>know, AddressOfVersion
    <3> QED
      BY <3>1, <3>2
  <2>changing. (b \in Restores /\ pc[b] \in Changing => Addresses(mem[b].uri, mem[b].prev))'
    <3> SUFFICES ASSUME b \in Restores, pc[b] \in Changing
                 PROVE  mem[b].uri = None \/ (mem[b].prev > 0 /\ mem[b].uri = recs'[mem[b].prev].m)
      BY <1>same DEF Addresses
    <3>1. Addresses(mem[b].uri, mem[b].prev) /\ mem[b].prev \in 0 .. Len(recs)
      BY <1>old, EarlierIsThere DEF Addressed
    <3> QED
      BY <3>1, AddressOfVersion
  <2> QED
    BY <2>gens, <2>restores, <2>own, <2>prev, <2>uri, <2>changing DEF Addressed
<1> QED
  BY <1>1, <1>2

\* The address is that of the selection whenever the holder of the admission
\* lock replaces nothing.
LEMMA AddressNow ==
  ASSUME MediaInv, Alone, NEW a \in Actors, adm = a, ~ Replacing(a)
  PROVE  Addresses(uri, cur)
<1>1. ASSUME NEW b \in Actors, Replacing(b) PROVE b = a
  BY <1>1, HolderKnows DEF Replacing, Locked, UnderDoc
<1> QED
  BY <1>1 DEF MediaInv, AddressStands

LEMMA GenerationAddressed ==
  ASSUME MediaInv, NEW a \in Gens, Act(a), Alone'
  PROVE  Addressed(a)'
<1>a. a \in Actors /\ a \notin Restores /\ a \notin Uploads
  BY Names
<1>know. /\ Locked(a) /\ OwnStands(a) /\ ChangeStands(a) /\ PlacesStand /\ DOMAIN recs = 1 .. Len(recs)
         /\ Len(recs) \in Nat /\ cur \in 0 .. Len(recs) /\ DOMAIN pc = Actors /\ mem \in [Actors -> Locals]
         /\ pc[a] \in GenPlaces
  BY <1>a, HolderKnows DEF PlacesStand
<1>old. Alone /\ Addressed(a) /\ ~ CompensationFails(a)
  BY <1>a, AloneBefore DEF MediaInv, AddressStands
<1>script. pc'[a] # "scripted"
  BY <1>a, PlacesKept, HolderKnows DEF GenPlaces
<1>1. CASE Leaves(a)
  <2>1. mem'[a].guarded = FALSE /\ pc'[a] \in {"done", "failed"}
    <3>1. \E p \in {"done", "failed"} : End(a, p)
      BY <1>1, <1>a, HolderKnows, LeavingEnds
    <3> QED
      BY <3>1, <1>a, <1>know, BlankLocals DEF End
  <2> QED
    BY <2>1, <1>a DEF Addressed, Changing, Ending, Refusing
<1>2. CASE ~ Leaves(a)
  <2>kinds. Prepares(a) \/ Takes(a) \/ Writes(a) \/ Commits(a)
    BY <1>2, <1>a, StepKinds
  <2>noscript. ~ WriteScript(a) /\ ~ AskRestore(a) /\ ~ StartCopy(a) /\ ~ UploadSnapshot(a)
    BY <1>a DEF WriteScript, AskRestore, StartCopy, UploadSnapshot
  <2>uri. uri' = uri \/ WithdrawAssets(a)
    BY <1>a, <1>2, <2>noscript, AddressSteps DEF Leaves
  <2>fields. /\ Guard(a) \/ mem'[a].guarded = mem[a].guarded
             /\ Chooses(a) \/ (mem'[a].own = mem[a].own /\ mem'[a].prev = mem[a].prev)
             /\ Guard(a) \/ WithdrawAssets(a) \/ mem'[a].uri = mem[a].uri
    BY <1>a, <1>know, <2>kinds, <2>noscript, FieldsStay
  <2>withdraw. WithdrawAssets(a) => uri' = uri /\ mem'[a].uri = uri /\ uri' = mem[a].uri
    <3>1. WithdrawAssets(a) => /\ pc[a] \in Ending /\ uri' = mem[a].uri /\ mem'[a].uri = uri
      BY <1>a, <1>know, Memory DEF WithdrawAssets, Goto, Ending
    <3>2. pc[a] \in Ending => uri = mem[a].uri
      BY <1>know, <1>old DEF Locked, Addressed
    <3> QED
      BY <3>1, <3>2
  <2>guard. Guard(a) => uri' = uri /\ mem'[a].uri = uri /\ pc'[a] = "guarded"
    <3>1. Guard(a) => mem'[a].uri = uri
      BY <1>a, <1>know, Memory
    <3>2. Guard(a) => uri' = uri /\ pc'[a] = "guarded"
      BY <1>a, <1>know DEF Guard, Goto
    <3> QED
      BY <3>1, <3>2
  <2>1. a \in Gens /\ mem'[a].guarded => uri' = mem'[a].uri
    BY <1>old, <2>uri, <2>fields, <2>withdraw, <2>guard DEF Addressed
  <2>places. pc'[a] \in Changing \cup Ending => Chooses(a) \/ pc[a] \in Changing \cup Ending
    <3> USE DEF Changing, Ending, Refusing
    <3>1. Prepares(a) => (pc'[a] \in Changing \cup Ending => pc[a] \in Changing \cup Ending)
      BY <1>a, <1>know, <2>noscript DEF Prepares, FreezeBasis, Checkpoint, PrepareFails, Guard,
         GuardFails, FinalizeFails,
         WithdrawAssets, Admit, ActivationFails, Goto
    <3>2. Takes(a) => (pc'[a] \in Changing \cup Ending => pc[a] \in Changing \cup Ending)
      BY <1>a, <1>know DEF Takes, CopySnapshot, RejectFile, Goto
    <3>3. Commits(a) => pc[a] \in Changing
      BY DEF Commits, Register
    <3>4. Writes(a) => Chooses(a) \/ pc[a] \in Changing \cup Ending
      BY <1>a DEF Writes, Install, RejectPointer, Point, UndoFile, Goto
    <3> HIDE DEF Changing, Ending, Refusing
    <3> QED
      BY <2>kinds, <3>1, <3>2, <3>3, <3>4
  <2>3. pc'[a] \in Ending \ {"repointed"} => cur' = mem'[a].own
    <3> SUFFICES ASSUME pc'[a] \in Ending \ {"repointed"} PROVE cur' = mem'[a].own
      OBVIOUS
    <3>1. ~ Writes(a)
      BY <1>a, <1>know, Names DEF Writes, Chooses, SaveHistory, Install, RejectPointer, Point, UndoFile,
         Goto, Ending, Refusing
    <3>2. cur' = cur /\ mem'[a].own = mem[a].own
      <4>1. ~ Chooses(a)
        BY <3>1 DEF Writes
      <4>2. Prepares(a) \/ Takes(a) \/ Commits(a) => cur' = cur
        BY DEF Prepares, FreezeBasis, Checkpoint, PrepareFails, Guard, GuardFails, FinalizeFails,
           WithdrawAssets, AskRestore, Admit, WriteScript, ActivationFails, Takes, CopySnapshot,
           RejectFile, StartCopy, UploadSnapshot, Commits, Register, disk
      <4> QED
        BY <3>1, <4>1, <4>2, <2>kinds, <2>fields
    <3>3. CASE Commits(a)
      BY <3>2, <3>3, <1>know DEF Commits, Register, ChangeStands, Changing
    <3>4. CASE ~ Commits(a)
      <4>1. pc[a] \in Ending \ {"repointed"}
        <5>1. Prepares(a) => pc[a] \in Ending \ {"repointed"}
          BY <1>a, <1>know, <2>noscript DEF Prepares, FreezeBasis, Checkpoint, PrepareFails, Guard,
             GuardFails, FinalizeFails,
             WithdrawAssets, Admit, ActivationFails, Goto, Ending, Refusing
        <5>2. Takes(a) => pc[a] \in Ending \ {"repointed"}
          BY <1>a, <1>know DEF Takes, CopySnapshot, RejectFile, Goto, Ending, Refusing
        <5> QED
          BY <3>1, <3>4, <5>1, <5>2, <2>kinds
      <4> QED
        BY <4>1, <3>2, <1>old DEF Addressed
    <3> QED
      BY <3>3, <3>4
  <2>4. pc'[a] \in Changing \cup Ending => Addresses(uri, mem[a].prev)'
    <3> SUFFICES ASSUME pc'[a] \in Changing \cup Ending
                 PROVE  uri' = None \/ (mem'[a].prev > 0 /\ uri' = recs'[mem'[a].prev].m)
      BY DEF Addresses
    <3>uri. uri' = uri
      BY <2>uri, <2>withdraw
    <3>1. CASE Chooses(a)
      <4>1. adm = a /\ ~ Replacing(a)
        BY <3>1, <1>know DEF Chooses, Selectable, SaveHistory, Locked, Replacing, Changing, Ending, Refusing
      <4>2. Addresses(uri, cur)
        BY <4>1, <1>a, <1>old, AddressNow
      <4>3. uri = None \/ (cur > 0 /\ uri = recs'[cur].m)
        BY <4>2, <1>a, <1>know, AddressOfVersion
      <4>4. mem'[a].prev = TrackedCur(formal)
        BY <3>1, <1>a, <1>know, Memory
      <4>5. cur > 0 => TrackedCur(formal) = cur
        BY <1>know DEF TrackedCur, Untracked
      <4> QED
        BY <3>uri, <4>3, <4>4, <4>5
    <3>2. CASE ~ Chooses(a)
      <4>1. Addresses(uri, mem[a].prev) /\ mem[a].prev \in 0 .. Len(recs) /\ mem'[a].prev = mem[a].prev
        BY <3>2, <2>places, <2>fields, <1>a, <1>old, EarlierIsThere DEF Addressed
      <4> QED
        BY <3>uri, <4>1, <1>a, AddressOfVersion
    <3> QED
      BY <3>1, <3>2
  <2> QED
    BY <2>1, <2>3, <2>4, <1>script, <1>a DEF Addressed
<1> QED
  BY <1>1, <1>2

LEMMA RestoreAddressed ==
  ASSUME MediaInv, NEW a \in Restores, Act(a), Alone'
  PROVE  Addressed(a)'
<1>a. a \in Actors /\ a \notin Gens /\ a \notin Uploads
  BY Names
<1>know. /\ Locked(a) /\ PlacesStand /\ Len(recs) \in Nat /\ cur \in 0 .. Len(recs) /\ DOMAIN pc = Actors
         /\ mem \in [Actors -> Locals] /\ pc[a] \in RestorePlaces
  BY <1>a, HolderKnows DEF PlacesStand
<1>old. Alone /\ Addressed(a)
  BY <1>a, AloneBefore DEF MediaInv, AddressStands
<1>1. CASE Leaves(a)
  <2>1. pc'[a] \in {"done", "failed"}
    <3>1. \E p \in {"done", "failed"} : End(a, p)
      BY <1>1, <1>a, HolderKnows, LeavingEnds
    <3> QED
      BY <3>1, <1>a, <1>know DEF End
  <2> QED
    BY <2>1, <1>a DEF Addressed, UnderDoc, Changing, Refusing
<1>2. CASE WriteScript(a)
  <2>1. pc[a] = "admitted" /\ pc'[a] = "scripted" /\ uri' = None /\ UNCHANGED <<recs, cur>>
    BY <1>2, <1>a, <1>know DEF WriteScript, Goto, disk
  <2>2. mem'[a].uri = uri
    BY <1>2, <1>a, <1>know, Memory
  <2>3. Addresses(uri, cur)
    BY <2>1, <1>a, <1>old, <1>know, AddressNow DEF Locked, Replacing
  <2> QED
    BY <1>a, <2>1, <2>2, <2>3 DEF Addressed, Addresses, Changing
<1>3. CASE ~ Leaves(a) /\ ~ WriteScript(a)
  <2>kinds. Prepares(a) \/ Takes(a) \/ Writes(a)
    BY <1>3, <1>a, StepKinds DEF Commits
  <2>uri. uri' = uri
    BY <1>3, <1>a, AddressSteps DEF Leaves
  <2>mem. mem'[a].uri = mem[a].uri
    <3>1. ~ Guard(a) /\ ~ WithdrawAssets(a)
      BY <1>a, <1>know DEF Guard, WithdrawAssets, Goto, RestorePlaces
    <3> QED
      BY <3>1, <2>kinds, <1>3, <1>a, <1>know, FieldsStay
  <2>places. /\ pc'[a] # "scripted"
             /\ pc'[a] \in Changing => pc[a] \in Changing \/ StartCopy(a)
             /\ pc'[a] \in UnderDoc => pc[a] \in UnderDoc
    <3> USE DEF UnderDoc, Changing, Refusing
    <3> DEFINE Goal == /\ pc'[a] # "scripted"
                       /\ pc'[a] \in Changing => pc[a] \in Changing \/ StartCopy(a)
                       /\ pc'[a] \in UnderDoc => pc[a] \in UnderDoc
    <3>1. ASSUME Prepares(a) PROVE Goal
      BY <3>1, <1>3, <1>a, <1>know DEF Prepares, AskRestore, Admit, ActivationFails, Goto
    <3>2. ASSUME Takes(a) PROVE Goal
      BY <3>2, <1>a, <1>know DEF Takes, StartCopy, Goto
    <3>3. ASSUME Writes(a) PROVE Goal
      BY <3>3, <1>a, <1>know DEF Writes, Chooses, FinishCopy, Point, UndoFile, Goto
    <3> QED
      BY <3>1, <3>2, <3>3, <2>kinds
  <2>1. pc'[a] \in UnderDoc => uri' = None
    BY <2>uri, <2>places, <1>old DEF Addressed
  <2>2. pc'[a] \in Changing => Addresses(mem[a].uri, mem[a].prev)'
    <3> SUFFICES ASSUME pc'[a] \in Changing
                 PROVE  mem[a].uri = None \/ (mem'[a].prev > 0 /\ mem[a].uri = recs'[mem'[a].prev].m)
      BY <2>mem DEF Addresses
    <3>1. CASE StartCopy(a)
      <4>1. pc[a] = "scripted"
        BY <3>1 DEF StartCopy, Goto
      <4>2. Addresses(mem[a].uri, cur)
        BY <4>1, <1>old DEF Addressed
      <4>3. mem'[a].prev = cur
        BY <3>1, <1>a, <1>know, Memory
      <4> QED
        BY <4>2, <4>3, <1>a, <1>know, AddressOfVersion
    <3>2. CASE ~ StartCopy(a)
      <4>1. pc[a] \in Changing
        BY <3>2, <2>places
      <4>2. Addresses(mem[a].uri, mem[a].prev) /\ mem[a].prev \in 0 .. Len(recs)
        BY <4>1, <1>a, <1>old, EarlierIsThere DEF Addressed
      <4>3. mem'[a].prev = mem[a].prev
        <5>1. ~ Chooses(a) /\ ~ UploadSnapshot(a)
          BY <1>a DEF Chooses, UploadSnapshot
        <5> QED
          BY <5>1, <3>2, <2>kinds, <1>a, <1>know, FieldsStay
      <4> QED
        BY <4>2, <4>3, <1>a, AddressOfVersion
    <3> QED
      BY <3>1, <3>2
  <2> QED
    BY <2>1, <2>2, <2>places, <1>a DEF Addressed
<1> QED
  BY <1>1, <1>2, <1>3

\* A generation that stops replacing leaves the address of the selection.
LEMMA ReplacingEnds ==
  ASSUME MediaInv, NEW a \in Actors, Act(a), Alone', Replacing(a)
  PROVE  Replacing(a)' \/ Addresses(uri, cur)'
<1>know. /\ Locked(a) /\ OwnStands(a) /\ RejectionStands(a) /\ DOMAIN recs = 1 .. Len(recs)
         /\ Len(recs) \in Nat /\ DOMAIN pc = Actors
         /\ a \in Gens /\ a \notin Restores /\ a \notin Uploads /\ pc[a] \in Changing \cup Ending
  BY HolderKnows, Names DEF Replacing
<1>old. Addressed(a) /\ ~ CompensationFails(a) /\ (UndoVersions(a) => cur' = mem[a].prev)
  BY AloneBefore DEF MediaInv, AddressStands
<1>prev. mem[a].prev \in 0 .. Len(recs) /\ (uri = None \/ (mem[a].prev > 0 /\ uri = recs'[mem[a].prev].m))
  <2>1. mem[a].prev \in 0 .. Len(recs) /\ Addresses(uri, mem[a].prev)
    BY <1>know, <1>old, EarlierIsThere DEF Addressed
  <2> QED
    BY <2>1, AddressOfVersion
<1>1. ASSUME Prepares(a) \/ Takes(a) \/ Writes(a) \/ Commits(a) PROVE Replacing(a)'
  <2> USE DEF Changing, Ending, Refusing
  <2>prepares. Prepares(a) => pc'[a] \in Changing \cup Ending
    BY <1>know DEF Prepares, FreezeBasis, Checkpoint, PrepareFails, Guard, GuardFails, FinalizeFails,
       WithdrawAssets, Admit, WriteScript, ActivationFails, Goto
  <2>takes. Takes(a) => pc'[a] \in Changing \cup Ending
    BY <1>know DEF Takes, CopySnapshot, RejectFile, Goto
  <2>writes. Writes(a) => pc'[a] \in Changing \cup Ending
    BY <1>know DEF Writes, Chooses, SaveHistory, Install, RejectPointer, Point, UndoFile, Goto
  <2>commits. Commits(a) => pc'[a] \in Changing \cup Ending
    BY <1>know DEF Commits, Register
  <2> QED
    BY <1>1, <1>know, <2>prepares, <2>takes, <2>writes, <2>commits DEF Replacing
<1>2. ASSUME UndoVersions(a) PROVE Addresses(uri, cur)'
  <2>1. uri' = uri
    BY <1>2, <1>know DEF UndoVersions
  <2> QED
    BY <2>1, <1>2, <1>old, <1>prev DEF Addresses
<1>3. ASSUME Finalize(a) PROVE Addresses(uri, cur)'
  <2>1. pc[a] = "committed" /\ uri' \in {a, None} /\ UNCHANGED <<recs, cur>>
    BY <1>3 DEF Finalize, disk
  <2>2. cur = mem[a].own /\ cur \in DOMAIN recs /\ recs[cur].m = a
    BY <2>1, <1>know, <1>old DEF Addressed, OwnStands, Kept, Ending
  <2> QED
    BY <2>1, <2>2, <1>know DEF Addresses
<1>4. ~ SelectionChanged(a)
  BY <1>know, <1>old DEF SelectionChanged, Addressed, Ending
<1>5. ASSUME RejectManifest(a) PROVE Addresses(uri, cur)'
  <2>1. pc[a] = "repointed" /\ UNCHANGED <<uri, recs, cur>>
    BY <1>5 DEF RejectManifest
  <2>2. cur = mem[a].prev
    BY <2>1, <1>know DEF RejectionStands, Refusing
  <2> QED
    BY <2>1, <2>2, <1>prev DEF Addresses
<1>6. ~ HistoryFails(a) /\ ~ Archives(a)
  BY <1>know DEF HistoryFails, Archives, SaveHistory, Changing, Ending, Refusing
<1>7. Leaves(a) => Addresses(uri, cur)'
  BY <1>2, <1>3, <1>4, <1>5, <1>6, <1>old, <1>know DEF Leaves, Restored
<1> QED
  BY <1>1, <1>7, StepKinds

LEMMA AddressKept ==
  ASSUME MediaInv, NEW a \in Actors, Act(a)
  PROVE  AddressStands'
<1> SUFFICES ASSUME Alone'
             PROVE  /\ \A b \in Actors : Addressed(b)'
                    /\ Addresses(uri, cur)' \/ \E b \in Actors : Replacing(b)'
  BY DEF AddressStands
<1>old. /\ Alone /\ a \notin Uploads /\ ~ CompensationFails(a)
        /\ UndoVersions(a) => cur' = mem[a].prev
        /\ Addressed(a) /\ (Addresses(uri, cur) \/ \E b \in Actors : Replacing(b))
  BY AloneBefore DEF MediaInv, AddressStands
<1>1. ASSUME NEW b \in Actors PROVE Addressed(b)'
  BY <1>old, OthersAddressed, GenerationAddressed, RestoreAddressed DEF Actors
<1>2. ASSUME NEW b \in Actors, Replacing(b) PROVE Replacing(b)' \/ Addresses(uri, cur)'
  <2>1. CASE b = a
    BY <1>2, <2>1, ReplacingEnds
  <2>2. CASE b # a
    BY <1>2, <2>2, HolderKnows, ActsAlone DEF Replacing
  <2> QED
    BY <2>1, <2>2
<1>3. ASSUME Addresses(uri, cur), ~ Replacing(a) PROVE Replacing(a)' \/ Addresses(uri, cur)'
  <2>know. /\ cur \in 0 .. Len(recs) /\ DOMAIN pc = Actors /\ PlacesStand /\ cur \in Nat
    <3>1. cur \in 0 .. Len(recs) /\ Len(recs) \in Nat
      BY HolderKnows
    <3> QED
      BY <3>1, HolderKnows
  <2>now. uri = None \/ (cur > 0 /\ uri = recs'[cur].m)
    BY <1>3, <2>know, AddressOfVersion
  <2>uri. CASE uri' = uri /\ cur' = cur
    BY <2>uri, <2>now DEF Addresses
  <2>writeScript. CASE WriteScript(a)
    BY <2>writeScript DEF WriteScript, Addresses
  <2>restores. CASE a \in Restores /\ UndoVersions(a)
    <3>1. pc[a] \in Changing /\ uri' = mem[a].uri /\ cur' = mem[a].prev
      BY <2>restores, <1>old, Names DEF UndoVersions, Changing
    <3>2. Addresses(mem[a].uri, mem[a].prev) /\ mem[a].prev \in 0 .. Len(recs)
      BY <3>1, <2>restores, <1>old, EarlierIsThere DEF Addressed
    <3> QED
      BY <3>1, <3>2, AddressOfVersion DEF Addresses
  <2>gens. CASE a \in Gens /\ SaveHistory(a)
    <3>1. uri' = uri /\ (cur # 0 => cur' = cur)
      BY <2>gens DEF SaveHistory, TrackedCur, Untracked
    <3>2. cur = 0 => uri = None
      BY <2>now, <2>know
    <3> QED
      BY <3>1, <3>2, <2>now DEF Addresses
  <2>point. CASE Point(a) /\ a \in Restores
    <3>1. uri' = uri /\ pc[a] \in UnderDoc
      BY <2>point DEF Point, Goto, UnderDoc, Changing
    <3> QED
      BY <3>1, <2>point, <1>old DEF Addressed, Addresses
  <2>undoVersions. a \in Gens => /\ ~ Point(a) /\ ~ UndoVersions(a) /\ ~ Finalize(a) /\ ~ WithdrawAssets(a)
                                 /\ ~ SelectionChanged(a) /\ ~ RejectPointer(a)
    BY <1>3 DEF Replacing, Changing, Ending, Refusing, Point, UndoVersions, Finalize, WithdrawAssets,
       SelectionChanged, RejectPointer, Goto
  <2>kinds. a \in Gens \/ a \in Restores
    BY <1>old, Names
  <2>step. /\ \/ uri' = uri \/ WriteScript(a) \/ (a \in Restores /\ UndoVersions(a))
              \/ a \in Gens /\ (Finalize(a) \/ WithdrawAssets(a) \/ SelectionChanged(a) \/ CompensationFails(a))
           /\ \/ cur' = cur \/ Point(a) \/ UndoVersions(a)
              \/ a \in Gens /\ (SaveHistory(a) \/ RejectPointer(a) \/ CompensationFails(a))
    BY <1>old, AddressSteps
  <2> QED
    BY <1>old, <2>uri, <2>writeScript, <2>restores, <2>gens, <2>point, <2>undoVersions, <2>kinds, <2>step
<1>4. Addresses(uri, cur)' \/ \E b \in Actors : Replacing(b)'
  <2>1. CASE \E b \in Actors : Replacing(b)
    BY <2>1, <1>2
  <2>2. CASE ~ \E b \in Actors : Replacing(b)
    BY <2>2, <1>3, <1>old
  <2> QED
    BY <2>1, <2>2
<1> QED
  BY <1>1, <1>4

-----------------------------------------------------------------------------
(* The inductive invariant.                                                *)

LEMMA MediaInvAtFirst ==
  ASSUME Init
  PROVE  MediaInv
<1>1. /\ \A a \in Actors : pc[a] = "idle" /\ mem[a] = Blank
      /\ DOMAIN pc = Actors /\ DOMAIN mem = Actors /\ mem \in [Actors -> Locals]
      /\ recs = <<>> /\ cur = 0 /\ formal \in {None, Old} /\ snaps = {} /\ manifest = None /\ uri = None
      /\ want \in Bases /\ adm = Free /\ doc = Free /\ ver = Free /\ crashes = 0
      /\ damage = {} /\ selector = None /\ stuck = {}
  BY BlankLocals DEF Init
<1>2. recs \in Seq(Versions) /\ Len(recs) = 0 /\ DOMAIN recs = {}
  BY <1>1
<1> HIDE DEF Init
<1>3. TypeOK
  BY <1>1, <1>2 DEF TypeOK, Versions, Media, Entries
<1>4. PlacesStand
  BY <1>1, <1>2, Names DEF PlacesStand, GenPlaces, RestorePlaces, UploadPlaces
<1>5. LocksStand
  BY <1>1, BlankLocals, Names DEF LocksStand, Locked, UnderVer, UnderDoc, Ending, Refusing, Changing
<1>6. FormalIsSelected /\ ManifestIsSelected /\ EveryRecordHasItsSnapshot
  BY <1>1, <1>2 DEF FormalIsSelected, ManifestIsSelected, EveryRecordHasItsSnapshot
<1>7. \A a \in Actors : ActorStands(a)
  BY <1>1 DEF ActorStands, ChangeStands, CopyStands, OwnStands, RejectionStands, UploadStands, ChoiceStands,
     Ending, Refusing, Changing
<1>8. PaidIsKept
  BY <1>1, Names DEF PaidIsKept, Changing
<1>9. DamageStands
  BY <1>1, BlankLocals DEF DamageStands
<1>10. SelectorStands
  BY <1>1, Names DEF SelectorStands
<1>11. AddressStands
  BY <1>1, BlankLocals DEF AddressStands, Addressed, Addresses, UnderDoc, Ending, Refusing, Changing
<1> QED
  BY <1>3, <1>4, <1>5, <1>6, <1>7, <1>8, <1>9, <1>10, <1>11 DEF MediaInv

\* An edit finds the locks of script and project free: nobody has chosen.
LEMMA EditKeeps ==
  ASSUME MediaInv, Edit
  PROVE  MediaInv'
<1>1. /\ UNCHANGED <<formal, recs, cur, snaps, manifest, uri, adm, doc, ver, pc, mem, damage, selector, stuck, crashes>>
      /\ doc = Free /\ want' \in Bases
  BY DEF Edit, disk, locks, ghost
<1>2. TypeOK'
  BY <1>1 DEF MediaInv, TypeOK
<1>3. PlacesStand' /\ LocksStand'
  BY <1>1 DEF MediaInv, PlacesStand, LocksStand, Locked
<1>4. FormalIsSelected' /\ ManifestIsSelected' /\ EveryRecordHasItsSnapshot'
  BY <1>1 DEF MediaInv, FormalIsSelected, ManifestIsSelected, EveryRecordHasItsSnapshot
<1>5. ASSUME NEW a \in Actors PROVE ActorStands(a)'
  <2>actorStands. ActorStands(a) /\ Locked(a) /\ a # Free
    BY HolderKnows, Names DEF MediaInv
  <2>choiceStands. ChoiceStands(a)'
    BY <1>1, <2>actorStands DEF ChoiceStands, Locked, UnderDoc, Changing
  <2>changeStands. ChangeStands(a)'
    BY <1>1, <2>actorStands DEF ActorStands, ChangeStands, FileOf, EntryOf
  <2>copyStands. CopyStands(a)'
    BY <1>1, <2>actorStands DEF ActorStands, CopyStands, FileOf, EntryOf, NewSnaps, TrackedRecs, Untracked
  <2>ownStands. OwnStands(a)' /\ RejectionStands(a)'
    BY <1>1, <2>actorStands DEF ActorStands, OwnStands, RejectionStands, Kept, FileOf, EntryOf
  <2>uploadStands. UploadStands(a)'
    BY <1>1, <2>actorStands DEF ActorStands, UploadStands, NewSnaps, TrackedRecs, Untracked
  <2> QED
    BY <2>choiceStands, <2>changeStands, <2>copyStands, <2>ownStands, <2>uploadStands DEF ActorStands
<1>6. PaidIsKept' /\ DamageStands' /\ SelectorStands'
  BY <1>1 DEF MediaInv, PaidIsKept, Kept, DamageStands, SelectorStands
<1>7. AddressStands'
  BY <1>1 DEF MediaInv, AddressStands, Alone, Addressed, Addresses, Replacing
<1> QED
  BY <1>2, <1>3, <1>4, <1>5, <1>6, <1>7 DEF MediaInv

\* What the end of the process leaves of the control and the locals.
LEMMA CrashLeaves ==
  ASSUME Crash
  PROVE  /\ UNCHANGED <<formal, recs, cur, snaps, manifest, uri, selector, stuck, want>>
         /\ adm' = Free /\ doc' = Free /\ ver' = Free /\ crashes' = crashes + 1
         /\ damage' = damage \cup (IF ver = Free THEN {} ELSE {"crash"})
         /\ DOMAIN pc' = Actors /\ mem' = [a \in Actors |-> mem'[a]]
         /\ \A a \in Actors : pc'[a] \in {"idle", "done", "failed"} \/ (pc'[a] = "paid" /\ a \in Gens)
         /\ \A a \in Actors : \/ mem'[a] = Blank
                              \/ mem'[a] = [Blank EXCEPT !.basis = mem[a].basis, !.parent = mem[a].parent]
<1> DEFINE Place(a) == IF a \in Gens /\ Resumed(a) THEN "paid"
                       ELSE IF pc[a] \in {"idle", "done"} THEN pc[a] ELSE "failed"
           Left(a) == IF a \in Gens /\ Resumed(a)
                      THEN [Blank EXCEPT !.basis = mem[a].basis, !.parent = mem[a].parent]
                      ELSE Blank
<1>1. pc' = [a \in Actors |-> Place(a)] /\ mem' = [a \in Actors |-> Left(a)]
  BY Zenon DEF Crash
<1>2. /\ UNCHANGED <<disk, uri, selector, stuck, want>>
      /\ adm' = Free /\ doc' = Free /\ ver' = Free /\ crashes' = crashes + 1
      /\ damage' = damage \cup (IF ver = Free THEN {} ELSE {"crash"})
  BY Zenon DEF Crash
<1>3. \A a \in Actors : Place(a) \in {"idle", "done", "failed"} \/ (Place(a) = "paid" /\ a \in Gens)
  OBVIOUS
<1>4. \A a \in Actors : \/ Left(a) = Blank
                         \/ Left(a) = [Blank EXCEPT !.basis = mem[a].basis, !.parent = mem[a].parent]
  BY Zenon
<1> HIDE DEF Place, Left
<1>5. DOMAIN pc' = Actors /\ \A a \in Actors : pc'[a] = Place(a)
  BY <1>1
<1>6. mem' = [a \in Actors |-> mem'[a]] /\ \A a \in Actors : mem'[a] = Left(a)
  BY <1>1
<1>7. UNCHANGED <<formal, recs, cur, snaps, manifest, uri, selector, stuck, want>>
  BY <1>2 DEF disk
<1> QED
  BY <1>2, <1>3, <1>4, <1>5, <1>6, <1>7, Zenon

\* The end of the process lets every lock go and forgets every local, but what
\* the checkpoint of a submitted generation says.
LEMMA CrashKeeps ==
  ASSUME MediaInv, Crash
  PROVE  MediaInv'
<1>know. /\ TypeOK /\ PlacesStand /\ FormalIsSelected /\ ManifestIsSelected /\ EveryRecordHasItsSnapshot
         /\ PaidIsKept /\ DamageStands
  BY DEF MediaInv
<1>1. /\ UNCHANGED <<formal, recs, cur, snaps, manifest, uri, selector, stuck, want>>
      /\ adm' = Free /\ doc' = Free /\ ver' = Free /\ crashes' = crashes + 1
      /\ damage' = damage \cup (IF ver = Free THEN {} ELSE {"crash"})
  BY CrashLeaves, Zenon
<1>pc. /\ DOMAIN pc' = Actors
       /\ \A a \in Actors : pc'[a] \in {"idle", "done", "failed"} \/ (pc'[a] = "paid" /\ a \in Gens)
  BY CrashLeaves, Zenon
<1>mem. /\ mem' \in [Actors -> Locals]
        /\ \A a \in Actors : mem'[a].guarded = FALSE /\ mem'[a].damage = {}
  <2>1. ASSUME NEW a \in Actors
        PROVE  mem'[a] \in Locals /\ mem'[a].guarded = FALSE /\ mem'[a].damage = {}
    <3>1. CASE mem'[a] = [Blank EXCEPT !.basis = mem[a].basis, !.parent = mem[a].parent]
      <4>1. PICK x \in Bases \cup {None}, y \in Nat : x = mem[a].basis /\ y = mem[a].parent
        BY HolderKnows
      <4>2. [Blank EXCEPT !.basis = x] \in Locals
        BY BlankLocals, LocalsKept, Zenon
      <4>3. [[Blank EXCEPT !.basis = x] EXCEPT !.parent = y] \in Locals
        BY <4>2, LocalsKept, Zenon
      <4>4. mem'[a] = [[Blank EXCEPT !.basis = x] EXCEPT !.parent = y]
        BY <3>1, <4>1, Zenon
      <4>5. mem'[a].guarded = FALSE /\ mem'[a].damage = {}
        BY <4>4 DEF Blank
      <4> QED
        BY <4>3, <4>4, <4>5
    <3>2. CASE mem'[a] = Blank
      BY <3>2, BlankLocals
    <3> QED
      BY <3>1, <3>2, CrashLeaves, Zenon
  <2>2. mem' = [a \in Actors |-> mem'[a]]
    BY CrashLeaves, Zenon
  <2> QED
    BY <2>1, <2>2
<1>2. TypeOK'
  BY <1>know, <1>1, <1>pc, <1>mem DEF TypeOK
<1>3. PlacesStand'
  BY <1>know, <1>1, <1>pc, <1>mem, Names DEF PlacesStand, GenPlaces, RestorePlaces, UploadPlaces
<1>quiet. \A a \in Actors : pc'[a] \notin Changing \cup Ending \cup {"copied", "asked", "admitted", "scripted", "guarded"}
  BY <1>pc DEF Changing, Ending, Refusing
<1>4. LocksStand'
  BY <1>1, <1>quiet, <1>mem, Names DEF LocksStand, Locked, UnderVer, UnderDoc, Ending, Refusing
<1>5. FormalIsSelected' /\ ManifestIsSelected' /\ EveryRecordHasItsSnapshot'
  <2>1. damage \subseteq damage' /\ (damage' = {} => ver = Free)
    BY <1>1
  <2> QED
    BY <2>1, <1>1, <1>know DEF FormalIsSelected, ManifestIsSelected, EveryRecordHasItsSnapshot
<1>6. \A a \in Actors : ActorStands(a)'
  BY <1>quiet DEF ActorStands, ChangeStands, CopyStands, OwnStands, RejectionStands, UploadStands,
     ChoiceStands,
     Ending, Changing
<1>7. PaidIsKept'
  <2>1. \A v : Kept(v) => Kept(v)'
    BY <1>1, Names DEF Kept
  <2> QED
    BY <2>1, <1>1, <1>quiet, <1>know DEF PaidIsKept
<1>8. DamageStands'
  BY <1>1, <1>mem, <1>know DEF DamageStands
<1>9. SelectorStands' /\ AddressStands'
  <2>1. crashes' # 0
    BY <1>1, <1>know DEF DamageStands
  <2> QED
    BY <2>1 DEF SelectorStands, AddressStands, Alone
<1> QED
  BY <1>2, <1>3, <1>4, <1>5, <1>6, <1>7, <1>8, <1>9 DEF MediaInv

LEMMA StutterKeeps ==
  ASSUME MediaInv, UNCHANGED vars
  PROVE  MediaInv'
<1> USE DEF vars, disk, locks, ghost, env
<1>1. TypeOK' /\ PlacesStand' /\ LocksStand'
  BY DEF MediaInv, TypeOK, PlacesStand, LocksStand, Locked
<1>2. FormalIsSelected' /\ ManifestIsSelected' /\ EveryRecordHasItsSnapshot'
  BY DEF MediaInv, FormalIsSelected, ManifestIsSelected, EveryRecordHasItsSnapshot
<1>3. ASSUME NEW a \in Actors PROVE ActorStands(a)'
  <2>1. ActorStands(a)
    BY DEF MediaInv
  <2> QED
    BY <2>1 DEF ActorStands, ChangeStands, CopyStands, OwnStands, RejectionStands, UploadStands, ChoiceStands,
       Kept, FileOf, EntryOf, NewSnaps, TrackedRecs, Untracked
<1>4. PaidIsKept' /\ DamageStands' /\ SelectorStands'
  BY DEF MediaInv, PaidIsKept, Kept, DamageStands, SelectorStands
<1>5. AddressStands'
  BY DEF MediaInv, AddressStands, Alone, Addressed, Addresses, Replacing
<1> QED
  BY <1>1, <1>2, <1>3, <1>4, <1>5 DEF MediaInv

LEMMA ActKeeps ==
  ASSUME MediaInv, NEW a \in Actors, Act(a)
  PROVE  MediaInv'
<1>1. LocksStand'
  BY HolderKnows, LocksKept
<1> QED
  BY <1>1, TypesKept, WholeKept, SnapshotsKept, ActorsStand, PaidKept, DamageKept, SelectorKept, AddressKept
     DEF MediaInv

\* The invariant holds of every behaviour.
THEOREM MediaInvariant == Spec => []MediaInv
<1>1. Init => MediaInv
  BY MediaInvAtFirst
<1>2. MediaInv /\ [Next]_vars => MediaInv'
  BY ActKeeps, EditKeeps, CrashKeeps, StutterKeeps DEF Next, Finished
<1> QED
  BY <1>1, <1>2, PTL DEF Spec

-----------------------------------------------------------------------------
(* What it means for the unit.                                             *)

\* After every behaviour file, history, snapshots, manifest entry and script
\* speak of one selection, and a task that failed has left none of its own
\* behind: what media_generator and the commit, restore and upload handlers of
\* the project promise of a unit together.
THEOREM SelectionHolds == Spec => []SelectionAgrees
<1>1. ASSUME MediaInv PROVE UriFollowsSelection
  <2> SUFFICES ASSUME doc = Free, damage = {}, crashes = 0, stuck = {}, \A u \in Uploads : pc[u] = "idle",
                      ~ \E g \in Gens : Finalizing(g)
               PROVE  Addresses(uri, cur)
    BY DEF UriFollowsSelection, Addresses
  <2>1. Alone
    BY DEF Alone
  <2>2. ASSUME NEW b \in Actors, Replacing(b) PROVE FALSE
    <3>1. Locked(b) /\ b # Free
      BY <1>1, HolderKnows, Names
    <3>2. pc[b] \notin Changing
      BY <3>1 DEF Locked, UnderDoc
    <3>3. pc[b] \notin Ending
      BY <2>2 DEF Replacing, Finalizing, Ending, Refusing
    <3> QED
      BY <2>2, <3>2, <3>3 DEF Replacing
  <2> QED
    BY <1>1, <2>1, <2>2 DEF MediaInv, AddressStands
<1>2. ASSUME MediaInv PROVE FailedLeavesNoSelection
  <2> SUFFICES ASSUME NEW g \in Gens, pc[g] = "failed", selector = g, g \notin stuck, damage = {}, ~ crashes > 0
               PROVE  FALSE
    BY DEF FailedLeavesNoSelection
  <2>1. SelectorStands /\ crashes = 0
    BY <1>2 DEF MediaInv, DamageStands
  <2> QED
    BY <2>1 DEF SelectorStands, Ending, Refusing
<1>3. MediaInv => SelectionAgrees
  BY <1>1, <1>2 DEF MediaInv, SelectionAgrees
<1> QED
  BY <1>3, MediaInvariant, PTL

\* The version of a paid result that an upload may take back again is never
\* the only one.
LEMMA PaidResultIsKept ==
  ASSUME MediaInv, NEW g \in Gens, InHistory(g)
  PROVE  \E v \in DOMAIN recs : Kept(v) /\ recs[v].m = g
<1>1. PICK v \in DOMAIN recs : recs[v].m = g
  BY DEF InHistory
<1>2. CASE Kept(v)
  BY <1>1, <1>2
<1>3. CASE ~ Kept(v)
  <2>uploads. PICK u \in Uploads : ver = u /\ ~ v <= mem[u].len
    BY <1>3 DEF Kept
  <2>actors. u \in Actors /\ u \notin Gens
    BY Names
  <2>changing. pc[u] \in Changing
    <3>1. pc[u] \in UnderVer /\ pc[u] \in UploadPlaces
      BY <2>uploads, <2>actors, HolderKnows DEF Locked, PlacesStand
    <3> QED
      BY <3>1 DEF UnderVer, UploadPlaces, Refusing
  <2>len. v > mem[u].len
    <3>1. mem[u].len \in Nat /\ DOMAIN recs = 1 .. Len(recs) /\ Len(recs) \in Nat
      BY <2>actors, HolderKnows
    <3> QED
      BY <2>uploads, <3>1
  <2>backup. recs[v].m \in {u, mem[u].backup}
    <3>1. UploadStands(u)
      BY <2>actors, HolderKnows
    <3> QED
      BY <2>changing, <2>len, <3>1 DEF UploadStands
  <2>taken. mem[u].backup = g
    BY <1>1, <2>actors, <2>backup
  <2> QED
    BY <2>actors, <2>changing, <2>taken DEF MediaInv, PaidIsKept
<1> QED
  BY <1>2, <1>3

\* A result that was paid for never leaves the history of versions.json again:
\* neither a rollback nor a compensation, an upload or a crash takes it away.
THEOREM PaidStays == Spec => PaidResultStays
<1>1. ASSUME MediaInv, [Next]_vars, NEW g \in Gens, InHistory(g) PROVE InHistory(g)'
  <2>1. CASE recs' = recs
    BY <2>1, <1>1 DEF InHistory
  <2>2. ASSUME NEW a \in Actors, Act(a) PROVE InHistory(g)'
    <3>1. PICK v \in DOMAIN recs : Kept(v) /\ recs[v].m = g
      BY <1>1, PaidResultIsKept
    <3>2. Kept(v)' /\ recs'[v] = recs[v]
      BY <1>1, <2>2, <3>1, HistoryKept
    <3> QED
      BY <3>1, <3>2 DEF Kept, InHistory
  <2>crash. Crash => recs' = recs
    BY CrashLeaves, Zenon
  <2>3. Edit \/ Crash \/ Finished \/ UNCHANGED vars => recs' = recs
    BY <2>crash DEF Edit, Finished, vars, disk
  <2> QED
    BY <1>1, <2>1, <2>2, <2>3 DEF Next
<1>2. MediaInv /\ [Next]_vars => [\A g \in Gens : InHistory(g) => InHistory(g)']_vars
  BY <1>1
<1> QED
  BY <1>2, MediaInvariant, PTL DEF Spec, PaidResultStays

\* A generation is selected only over the version it regenerates, and only while
\* the basis it was paid for is the basis of the unit, although the commit
\* compares them two writes before it sets the pointer.
THEOREM OnlyCurrent == Spec => SelectsOnlyCurrent
<1> DEFINE Current == \A g \in Gens :
             selector' = g /\ cur' # cur /\ pc'[g] = "pointed" =>
               /\ mem[g].basis = want
               /\ cur = mem[g].parent \/ (mem[g].parent = 0 /\ recs[cur].basis = None)
<1>1. ASSUME MediaInv, [Next]_vars, NEW g \in Gens, selector' = g, cur' # cur, pc'[g] = "pointed"
      PROVE  /\ mem[g].basis = want
             /\ cur = mem[g].parent \/ (mem[g].parent = 0 /\ recs[cur].basis = None)
  <2>1. PICK a \in Actors : Act(a)
    <3>crash. Crash => cur' = cur
      BY CrashLeaves, Zenon
    <3>1. Edit \/ Crash \/ Finished \/ UNCHANGED vars => cur' = cur
      BY <3>crash DEF Edit, Finished, vars, disk
    <3> QED
      BY <1>1, <3>1 DEF Next
  <2>g. g \in Actors /\ g \notin Restores /\ g \notin Uploads
    BY Names
  <2>know. /\ TypeOK /\ PlacesStand /\ LocksStand /\ DOMAIN pc = Actors /\ ChoiceStands(g) /\ Locked(g)
           /\ g # Free
    BY <1>1, <2>g, HolderKnows, Names
  <2>2. CASE a # g
    <3>1. ver = g
      BY <1>1, <2>1, <2>2, <2>g, <2>know, ActsAlone DEF Locked, UnderVer, Changing
    <3>2. UNCHANGED Guarded
      BY <2>1, <2>2, <3>1, <2>know, LockGuards
    <3> QED
      BY <1>1, <3>2 DEF Guarded
  <2>3. CASE a = g
    <3>1. ASSUME Prepares(g) \/ Takes(g) \/ Commits(g) PROVE FALSE
      <4>1. cur' = cur
        BY <3>1 DEF Prepares, FreezeBasis, Checkpoint, PrepareFails, Guard, GuardFails, FinalizeFails,
           WithdrawAssets, AskRestore, Admit, WriteScript, ActivationFails, Takes, CopySnapshot,
           RejectFile, StartCopy, UploadSnapshot, Commits, Register, disk
      <4> QED
        BY <4>1, <1>1
    <3>2. ~ Leaves(g)
      <4>1. Leaves(g) => \E p \in {"done", "failed"} : End(g, p)
        BY <2>g, <2>know, LeavingEnds
      <4> QED
        BY <1>1, <4>1, <2>g, <2>know DEF End
    <3>3. Writes(g)
      BY <2>1, <2>3, <3>1, <3>2, <2>g, StepKinds
    <3>4. Point(g)
      BY <1>1, <3>3, <2>g, <2>know DEF Writes, Chooses, SaveHistory, End, Install, RejectPointer,
         UndoFile, Goto
    <3> QED
      BY <3>4, <2>know DEF Point, Goto, ChoiceStands
  <2> QED
    BY <2>2, <2>3
<1>2. MediaInv /\ [Next]_vars => [Current]_vars
  BY <1>1
<1> QED
  BY <1>2, MediaInvariant, PTL DEF Spec, SelectsOnlyCurrent
=============================================================================
