----------------------------- MODULE SourceFiles -----------------------------
(***************************************************************************)
(* The files of the source text of a project, the episodes cut out of them, *)
(* and the commands that change a file: edit, delete, insert, move, and the *)
(* acceptance of a change that was made behind the back of the service      *)
(* (lib/episode/source_file_changes.py, lib/episode/episode_sources.py).    *)
(*                                                                         *)
(* A command runs under the lock of the project: it works out what it would *)
(* do to the episodes, and unless that is nothing, or is what the user has  *)
(* been shown, it writes nothing and shows it. A command is one step here.  *)
(* A fingerprint is the text it was taken of.                               *)
(***************************************************************************)
EXTENDS SourceRemap

CONSTANTS
    File,           \* the names of files
    Starts,         \* the projects a behaviour may begin with
    NoDialog,       \* the user has no list in front of them
    Commands,       \* the kinds of commands that occur
    Outside,        \* the files that may be changed outside the service
    MaxChanges      \* how many changes of files are begun

VARIABLES
    order,      \* whole_source_files: the files in their order
    disk,       \* what is in them
    fps,        \* source_fingerprints: of the files that have one recorded
    snap,       \* source/snapshots: of the files that have one
    ledger,     \* the episodes in play order: id, span (NoSpan: not cut), stale
    derived,    \* source/episode_N.txt of the cut episodes
    products,   \* the episodes that something has been made of
    made,       \* of what text it was made (the text when it was)
    dialog,     \* the command the user was asked to confirm, and what was shown
    changes
sourceVars == <<order, disk, fps, snap, ledger, derived, products, made, dialog, changes>>

-----------------------------------------------------------------------------
(* The episodes and where they are.                                         *)

IdsOf(l)    == [k \in DOMAIN l |-> l[k].id]
CutsOf(l)   == {e \in Range(l) : e.span # NoSpan}
EntryOf(l, id) == CHOOSE e \in Range(l) : e.id = id

DocsOf(o, t) == [order |-> o, text |-> t]
docs == DocsOf(order, disk)

Earlier(p, q) == p[1] < q[1] \/ (p[1] = q[1] /\ p[2] < q[2])

StartOf(d, s) == <<Place(d, s.file), s.start>>
EndOf(d, s)   == <<Place(d, s.endFile), s.end>>

(* The cut episodes that find a place in the text: an end beyond the file is *)
(* cut off, one that overlaps an earlier one finds none.                     *)
Placements(l, d) ==
    LET fits == {e \in CutsOf(l) :
                    /\ {e.span.file, e.span.endFile} \subseteq Range(d.order)
                    /\ Place(d, e.span.file) <= Place(d, e.span.endFile)
                    /\ e.span.start <= Len(d.text[e.span.file])
                    /\ e.span.file = e.span.endFile => e.span.start <= e.span.end}
        Short(e) == [e.span EXCEPT !.end = Min({@, Len(d.text[e.span.endFile])})]
        sorted == SetToSortSeq({[id |-> e.id, span |-> Short(e)] : e \in fits},
                    LAMBDA x, y :
                        \/ Earlier(StartOf(d, x.span), StartOf(d, y.span))
                        \/ /\ StartOf(d, x.span) = StartOf(d, y.span)
                           /\ Earlier(EndOf(d, x.span), EndOf(d, y.span)))
        Take(acc, x) == IF Earlier(StartOf(d, x.span), acc.to)
                        THEN acc
                        ELSE [placed |-> acc.placed \cup {x}, to |-> EndOf(d, x.span)]
        placed == FoldLeft(Take, [placed |-> {}, to |-> <<0, 0>>], sorted).placed
    IN  [i \in {x.id : x \in placed} |-> (CHOOSE x \in placed : x.id = i).span]

-----------------------------------------------------------------------------
(* Fingerprints and snapshots.                                              *)

ChangedOutsideIn(prints, shots, f, text) ==
    \/ f \in DOMAIN prints /\ prints[f] # text
    \/ f \in DOMAIN shots /\ shots[f] # text

ChangedOutside(f) == ChangedOutsideIn(fps, snap, f, disk[f])

\* The files an episode goes through, also those that are no longer listed.
CutFiles(l, o) ==
    LET At(f) == CHOOSE k \in DOMAIN o : o[k] = f
        Through(s) == IF {s.file, s.endFile} \subseteq Range(o)
                      THEN {s.file} \cup {o[k] : k \in At(s.file) .. At(s.endFile)}
                      ELSE {s.file, s.endFile}
    IN  UNION {Through(e.span) : e \in CutsOf(l)}

(* Snapshots follow the ledger. One that differs from its file because the   *)
(* file was changed outside is kept, unless the file is among the refreshed. *)
Synced(l, o, prints, texts, refreshed) ==
    LET Writes(f) == /\ f \in DOMAIN texts
                     /\ f \in refreshed \/ ~ChangedOutsideIn(prints, snap, f, texts[f])
    IN  [f \in {f \in CutFiles(l, o) : f \in DOMAIN snap \/ Writes(f)} |->
            IF Writes(f) THEN texts[f] ELSE snap[f]]

-----------------------------------------------------------------------------
(* The commands. An effect is what a command would do, before it is known    *)
(* whether the user must be asked.                                          *)

Spans == Placements(ledger, docs)

EditEffect(op) ==
    [docs |-> Edited(docs, op.file, op.text),
     remaps |-> RemapForEdit(docs, Spans, op.file, op.text),
     before |-> Spans, touched |-> {op.file}, reorder |-> FALSE]

DeleteEffect(op) ==
    [docs |-> DocsOf(SelectSeq(order, LAMBDA f : f # op.file),
                     [f \in DOMAIN disk \ {op.file} |-> disk[f]]),
     remaps |-> RemapForDelete(docs, Spans, op.file),
     before |-> Spans, touched |-> {op.file}, reorder |-> FALSE]

InsertEffect(op) ==
    [docs |-> Inserted(docs, op.file, op.index, op.text),
     remaps |-> RemapForInsert(docs, Spans, op.index),
     before |-> Spans, touched |-> {}, reorder |-> FALSE]

\* A file changes places with the one behind it.
MoveEffect(op) ==
    LET i == Place(docs, op.file)
        to == [order EXCEPT ![i] = order[i + 1], ![i + 1] = order[i]]
    IN  [docs |-> Moved(docs, to),
         remaps |-> RemapForMove(docs, Spans, to),
         before |-> Spans, touched |-> {}, reorder |-> TRUE]

\* The snapshot is the text before the change, what is on disk the one after.
AcceptEffect(op) ==
    LET old == Edited(docs, op.file,
                      IF op.file \in DOMAIN snap THEN snap[op.file] ELSE disk[op.file])
        spans == Placements(ledger, old)
    IN  [docs |-> docs,
         remaps |-> RemapForEdit(old, spans, op.file, disk[op.file]),
         before |-> spans, touched |-> {op.file}, reorder |-> FALSE]

Effect(op) ==
    CASE op.kind = "edit"   -> EditEffect(op)
      [] op.kind = "delete" -> DeleteEffect(op)
      [] op.kind = "insert" -> InsertEffect(op)
      [] op.kind = "move"   -> MoveEffect(op)
      [] op.kind = "accept" -> AcceptEffect(op)

\* What a command demands of the files; a file changed outside may be deleted.
Legal(op) ==
    CASE op.kind = "edit"   -> op.file \in Range(order) /\ ~ChangedOutside(op.file)
      [] op.kind = "delete" -> op.file \in Range(order)
      [] op.kind = "insert" -> op.file \notin DOMAIN disk /\ op.index <= Len(order) + 1
      [] op.kind = "move"   ->
            /\ op.file \in Range(order) /\ Place(docs, op.file) < Len(order)
            /\ ~ChangedOutside(op.file)
            /\ ~ChangedOutside(order[Place(docs, op.file) + 1])
      [] op.kind = "accept" ->
            /\ op.file \in Range(order) /\ op.text = disk[op.file]
            /\ ChangedOutside(op.file)
            /\ op.file \in DOMAIN snap \/ op.file \notin CutFiles(ledger, order)

Gone(e) == {i \in DOMAIN e.remaps : e.remaps[i].after = NoSpan}
Changed(e) == {i \in DOMAIN e.remaps : e.remaps[i].changed} \ Gone(e)

\* Mutant: the play order does not follow the file.
OrderAfterMove(e) ==
    LET stay == SelectSeq(IdsOf(ledger), LAMBDA i : i \notin Gone(e))
        Anchors(k) == {j \in 1 .. k : stay[j] \in DOMAIN e.remaps}
        Group(j) == SelectSeq([k \in DOMAIN stay |-> k],
                        LAMBDA k : IF j = 0 THEN Anchors(k) = {}
                                   ELSE Anchors(k) # {} /\ Max(Anchors(k)) = j)
        Names(ks) == [n \in DOMAIN ks |-> stay[ks[n]]]
        Begins(j) == StartOf(e.docs, e.remaps[stay[j]].after)
        heads == SetToSortSeq({j \in DOMAIN stay : stay[j] \in DOMAIN e.remaps},
                    LAMBDA i, j : Earlier(Begins(i), Begins(j)))
    IN  IF FALSE
        THEN Names(Group(0)) \o FlattenSeq([n \in DOMAIN heads |-> Names(Group(heads[n]))])
        ELSE stay
\* Mutant: episodes without text go to the end.
OrderAfterLoose(e) ==
    LET stay == SelectSeq(IdsOf(ledger), LAMBDA i : i \notin Gone(e))
        Anchors(k) == {j \in 1 .. k : stay[j] \in DOMAIN e.remaps}
        Group(j) == SelectSeq([k \in DOMAIN stay |-> k],
                        LAMBDA k : IF j = 0 THEN Anchors(k) = {}
                                   ELSE Anchors(k) # {} /\ Max(Anchors(k)) = j)
        Names(ks) == [n \in DOMAIN ks |-> stay[ks[n]]]
        Begins(j) == StartOf(e.docs, e.remaps[stay[j]].after)
        heads == SetToSortSeq({j \in DOMAIN stay : stay[j] \in DOMAIN e.remaps},
                    LAMBDA i, j : Earlier(Begins(i), Begins(j)))
    IN  IF e.reorder
        THEN Names(heads) \o SelectSeq(stay, LAMBDA i : i \notin DOMAIN e.remaps)
        ELSE stay
OrderAfter(e) ==
    LET stay == SelectSeq(IdsOf(ledger), LAMBDA i : i \notin Gone(e))
        Anchors(k) == {j \in 1 .. k : stay[j] \in DOMAIN e.remaps}
        Group(j) == SelectSeq([k \in DOMAIN stay |-> k],
                        LAMBDA k : IF j = 0 THEN Anchors(k) = {}
                                   ELSE Anchors(k) # {} /\ Max(Anchors(k)) = j)
        Names(ks) == [n \in DOMAIN ks |-> stay[ks[n]]]
        Begins(j) == StartOf(e.docs, e.remaps[stay[j]].after)
        heads == SetToSortSeq({j \in DOMAIN stay : stay[j] \in DOMAIN e.remaps},
                    LAMBDA i, j : Earlier(Begins(i), Begins(j)))
    IN  IF e.reorder
        THEN Names(Group(0)) \o FlattenSeq([n \in DOMAIN heads |-> Names(Group(heads[n]))])
        ELSE stay

(* The play order after the command. When the cut episodes are put in the    *)
(* order of the text again the others go with the one in front of them.      *)
InFront(seq, i) == {seq[k] : k \in 1 .. (CHOOSE k \in DOMAIN seq : seq[k] = i) - 1}

Shifted(e) ==
    LET after == OrderAfter(e)
        before == SelectSeq(IdsOf(ledger), LAMBDA i : i \in Range(after))
    IN  {i \in Range(after) \ Changed(e) :
            \/ i \in DOMAIN e.remaps /\ e.remaps[i].after # e.before[i]
            \/ InFront(after, i) # InFront(before, i)}

Impact(e) ==
    LET Listed(S) == SelectSeq(IdsOf(ledger), LAMBDA i : i \in S)
    IN  [shifted |-> Listed(Shifted(e)),
         changed |-> Listed(Changed(e) \cap products),
         rewritten |-> Listed(Changed(e) \ products),
         retired |-> Listed(Gone(e) \cap products),
         removed |-> Listed(Gone(e) \ products)]

Nothing(impact) == \A k \in DOMAIN impact : impact[k] = <<>>

\* Entries of a ledger rewritten: a new span for an episode that has one.
Respan(l, spans, stale) ==
    [k \in DOMAIN l |->
        [l[k] EXCEPT !.span = IF l[k].id \in DOMAIN spans THEN spans[l[k].id] ELSE @,
                     !.stale = @ \/ l[k].id \in stale]]

\* The entries of the episodes in a list, as they are in a ledger.
Pick(l, ids) == [k \in DOMAIN ids |-> EntryOf(l, ids[k])]

\* An episode without text, made stale, at the end of the play order.
Retired(l, ids) ==
    [k \in DOMAIN ids |-> [EntryOf(l, ids[k]) EXCEPT !.span = NoSpan, !.stale = TRUE]]

\* What an effect makes of the project, in one transaction.
Apply(e) ==
    LET impact == Impact(e)
        kept == {i \in DOMAIN e.remaps : e.remaps[i].after \notin {NoSpan, e.before[i]}}
        spanned == Respan(ledger, [i \in kept |-> e.remaps[i].after], Changed(e))
        l == Pick(spanned, OrderAfter(e)) \o Retired(ledger, impact.retired)
        recorded == DOMAIN fps \ (e.touched \ Range(e.docs.order))
    IN  /\ order' = e.docs.order
        /\ disk' = e.docs.text
        /\ ledger' = l
        /\ derived' = [i \in DOMAIN derived \ Gone(e) |->
                           IF i \in Changed(e) THEN SpanText(e.docs, e.remaps[i].after)
                                               ELSE derived[i]]
        /\ snap' = Synced(l, e.docs.order, fps, e.docs.text, e.touched)
        /\ fps' = [f \in recorded |-> IF f \in e.touched THEN e.docs.text[f] ELSE fps[f]]
        /\ UNCHANGED <<products, made>>

Untouched == UNCHANGED <<order, disk, fps, snap, ledger, derived, products, made>>

-----------------------------------------------------------------------------
(* What the user does. Cells that are new get a number never used before.    *)

Fresh == 100 + changes

\* A piece of a text is replaced by a new cell or by nothing.
Rewrites(text) ==
    {SubSeq(text, 1, i) \o x \o SubSeq(text, j + 1, Len(text)) :
        <<i, j, x>> \in {<<i, j, x>> \in (0 .. Len(text)) \X (0 .. Len(text)) \X {<<>>, <<Fresh>>} :
                            i <= j /\ (i < j \/ x # <<>>) /\ (i > 0 \/ j < Len(text) \/ x # <<>>)}}

Requests ==
    LET Of(kind) == IF kind \in Commands THEN Range(order) ELSE {}
    IN  UNION {{[kind |-> "edit", file |-> f, text |-> t] : t \in Rewrites(disk[f])} : f \in Of("edit")}
        \cup [kind : {"delete"}, file : Of("delete")]
        \cup [kind : {"move"}, file : Of("move")]
        \cup {[kind |-> "accept", file |-> f, text |-> disk[f]] : f \in Of("accept")}
        \cup IF "insert" \in Commands
             THEN [kind : {"insert"}, file : File \ DOMAIN disk,
                   index : 1 .. Len(order) + 1, text : {<<Fresh>>}]
             ELSE {}

\* A command that changes no episode is executed at once.
RunAtOnce(e, impact) ==
    /\ Nothing(impact)
    /\ Apply(e)
    /\ UNCHANGED dialog

\* Any other only says what it would do.
AskFirst(op, impact) ==
    /\ dialog = NoDialog
    /\ ~Nothing(impact)
    /\ dialog' = [op |-> op, seen |-> impact]
    /\ Untouched

Command ==
    /\ changes < MaxChanges
    /\ changes' = changes + 1
    /\ \E op \in {op \in Requests : Legal(op)} :
           \E e \in {Effect(op)} :
               \E impact \in {Impact(e)} : RunAtOnce(e, impact) \/ AskFirst(op, impact)

(* The user agrees. The command is worked out again; if it does anything else *)
(* by now the user is asked again.                                          *)
Confirm ==
    /\ dialog # NoDialog
    /\ Legal(dialog.op)
    /\ \E e \in {Effect(dialog.op)} :
          \E impact \in {Impact(e)} :
             \/ /\ impact = dialog.seen \/ Nothing(impact)
                /\ Apply(e)
                /\ dialog' = NoDialog
             \/ /\ impact # dialog.seen /\ ~Nothing(impact)
                /\ dialog' = [dialog EXCEPT !.seen = impact]
                /\ Untouched
    /\ UNCHANGED changes

\* The user does not agree, or the command is refused by now.
GiveUp == /\ dialog # NoDialog
          /\ dialog' = NoDialog
          /\ Untouched /\ UNCHANGED changes

\* A file is changed outside the service, or put back.
OutsideChange(f) ==
    /\ changes < MaxChanges
    /\ f \in Outside \cap Range(order)
    /\ \E text \in Rewrites(disk[f]) \cup {snap[g] : g \in {f} \cap DOMAIN snap} :
            /\ text # disk[f]
            /\ disk' = [disk EXCEPT ![f] = text]
    /\ changes' = changes + 1
    /\ UNCHANGED <<order, fps, snap, ledger, derived, products, made, dialog>>

\* Something is made of an episode as it is, which is what stale asks for.
Make(i) ==
    /\ i \in DOMAIN derived
    /\ products' = products \cup {i}
    /\ made' = (i :> derived[i]) @@ made
    /\ ledger' = [k \in DOMAIN ledger |->
                     [ledger[k] EXCEPT !.stale = @ /\ ledger[k].id # i]]
    /\ UNCHANGED <<order, disk, fps, snap, derived, dialog, changes>>

-----------------------------------------------------------------------------
(* The specification.                                                       *)

\* A project whose episodes have just been planned out of its files.
Init ==
    /\ \E p \in Starts :
            LET l == [k \in DOMAIN p.spans |-> [id |-> k, span |-> p.spans[k], stale |-> FALSE]]
                d == DocsOf(p.order, p.text)
            IN  /\ order = p.order
                /\ disk = p.text
                /\ ledger = l
                /\ derived = [i \in {k \in DOMAIN l : l[k].span # NoSpan} |-> SpanText(d, l[i].span)]
                /\ fps = [f \in p.recorded |-> p.text[f]]
                /\ snap = [f \in CutFiles(l, p.order) |-> p.text[f]]
                /\ products = p.products
                /\ made = [i \in p.products \cap DOMAIN derived |-> derived[i]]
    /\ dialog = NoDialog
    /\ changes = 0

Next == \/ Command \/ Confirm \/ GiveUp
        \/ \E f \in File : OutsideChange(f)
        \/ \E i \in DOMAIN derived : Make(i)

Spec == Init /\ [][Next]_sourceVars

=============================================================================
