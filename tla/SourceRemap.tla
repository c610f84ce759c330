----------------------------- MODULE SourceRemap -----------------------------
(***************************************************************************)
(* What becomes of the ranges that the episodes have cut out of the source  *)
(* text when one of its files is edited, deleted, inserted or moved         *)
(* (lib/episode/source_remap.py).                                           *)
(*                                                                         *)
(* The documents are a record: order is the sequence of the files, text     *)
(* gives each file its cells. A cell is a number of its own, so that it can *)
(* be followed through a change: above 0 a cell of ink, below 0 a blank     *)
(* one. A span [file, start, endFile, end] has offsets from 0 within its    *)
(* first and its last file, the end excluded; the files between the two are *)
(* wholly in it. A remap of a span is what is left of it (after, NoSpan     *)
(* when nothing is) and whether its text has changed.                       *)
(***************************************************************************)
EXTENDS Integers, FiniteSets, SequencesExt

CONSTANT NoSpan

-----------------------------------------------------------------------------
(* The documents.                                                          *)

HasInk(text) == \E k \in DOMAIN text : text[k] > 0

Place(d, f) == CHOOSE i \in DOMAIN d.order : d.order[i] = f

FileText(d, i) == d.text[d.order[i]]

Whole(d) == FlattenSeq([i \in DOMAIN d.order |-> FileText(d, i)])

Base(d, i) ==
    SumFunctionOnSet([k \in DOMAIN d.order |-> Len(FileText(d, k))], 1 .. i - 1)

GlobalStart(d, s) == Base(d, Place(d, s.file)) + s.start

GlobalEnd(d, s) == Base(d, Place(d, s.endFile)) + s.end

\* The files of a well-formed span come one after the other, so that its text
\* is one piece of the whole.
SpanText(d, s) == SubSeq(Whole(d), GlobalStart(d, s) + 1, GlobalEnd(d, s))

(* A start at the end of a file is moved to the file after it, an end at the *)
(* beginning of a file to the one before.                                   *)
Normalized(d, s) ==
    LET first == Place(d, s.file)
        last  == Place(d, s.endFile)
        Start(k) == IF k = first THEN s.start ELSE 0
        End(k)   == IF k = last THEN s.end ELSE Len(FileText(d, k))
        from == Min({k \in first .. last :
                        k = last \/ Start(k) < Len(FileText(d, k))})
        to   == Max({k \in from .. last : k = from \/ End(k) > 0})
    IN  [file |-> d.order[from], start |-> Start(from),
         endFile |-> d.order[to], end |-> End(to)]

-----------------------------------------------------------------------------
(* The alignment of the text of a file with its new text: equal cells, and   *)
(* between them blocks that were inserted (i1 = i2), deleted (j1 = j2) or    *)
(* replaced. Which cells are equal is what identifies them here.             *)

Alignment(old, new) ==
    LET matches == {m \in (1 .. Len(old)) \X (1 .. Len(new)) :
                        old[m[1]] = new[m[2]]}
        last    == <<Len(old) + 1, Len(new) + 1>>
        anchors == matches \cup {<<0, 0>>, last}
        After(a) == CHOOSE b \in anchors :
                        /\ b[1] > a[1]
                        /\ \A c \in anchors : c[1] > a[1] => b[1] <= c[1]
        blocks == {[equal |-> FALSE, i1 |-> a[1], i2 |-> After(a)[1] - 1,
                    j1 |-> a[2], j2 |-> After(a)[2] - 1] : a \in anchors \ {last}}
    IN  {[equal |-> TRUE, i1 |-> m[1] - 1, i2 |-> m[1],
          j1 |-> m[2] - 1, j2 |-> m[2]] : m \in matches}
        \cup {b \in blocks : b.i1 < b.i2 \/ b.j1 < b.j2}

(* Where a position of the old text is in the new one: before or after what  *)
(* was inserted there, in proportion within what was replaced (of which      *)
(* equal and deleted text are the cases of width one and width nought).      *)
MapPosition(ops, newLength, p, afterInsertions) ==
    LET here == {o \in ops : o.i1 = o.i2 /\ o.i1 = p}
        over == {o \in ops : o.i1 <= p /\ p < o.i2}
    IN  CASE here # {} -> LET o == CHOOSE o \in here : TRUE
                          IN  IF afterInsertions THEN o.j2 ELSE o.j1
          [] here = {} /\ over # {} ->
                LET o == CHOOSE o \in over : TRUE
                IN  o.j1 + ((p - o.i1) * (o.j2 - o.j1)) \div (o.i2 - o.i1)
          [] here = {} /\ over = {} -> newLength

ChangedBetween(ops, low, high, atStart, atEnd) ==
    \E o \in ops :
        /\ ~o.equal
        /\ IF o.i1 = o.i2
           THEN \/ low < o.i1 /\ o.i1 < high
                \/ o.i1 = low /\ atStart
                \/ o.i1 = high /\ atEnd
           ELSE o.i1 < high /\ o.i2 > low

-----------------------------------------------------------------------------
(* The remaps.                                                              *)

Unchanged(s) == [after |-> s, changed |-> FALSE]

Removed == [after |-> NoSpan, changed |-> TRUE]

Finish(d, s, changed) ==
    LET n == Normalized(d, s)
    IN  IF GlobalStart(d, n) < GlobalEnd(d, n) /\ HasInk(SpanText(d, n))
        THEN [after |-> n, changed |-> changed]
        ELSE Removed

Edited(d, f, new) == [d EXCEPT !.text[f] = new]

\* New text on the boundary of two episodes goes to the first of them; what
\* follows the end of an episode with nothing of another behind it does not.
IncludesEnd(d, spans, f, s) ==
    \/ s.endFile # f
    \/ \E e \in DOMAIN spans : GlobalStart(d, spans[e]) = GlobalEnd(d, s)

\* Mutant: the start takes in what is inserted there.
NewStartBefore(ops, newLength, f, s) ==
    IF s.file = f THEN MapPosition(ops, newLength, s.start, FALSE) ELSE s.start

NewStart(ops, newLength, f, s) ==
    IF s.file = f THEN MapPosition(ops, newLength, s.start, TRUE) ELSE s.start

RemapForEdit(d, spans, f, new) ==
    LET ops == Alignment(d.text[f], new)
        Touches(s) == Place(d, f) \in Place(d, s.file) .. Place(d, s.endFile)
        Remap(s) ==
            LET includeEnd == IncludesEnd(d, spans, f, s)
                low  == IF s.file = f THEN s.start ELSE 0
                high == IF s.endFile = f THEN s.end ELSE Len(d.text[f])
                newEnd == IF s.endFile = f
                          THEN MapPosition(ops, Len(new), high, includeEnd)
                          ELSE s.end
            IN  Finish(Edited(d, f, new),
                       [s EXCEPT !.start = NewStart(ops, Len(new), f, s),
                                 !.end = newEnd],
                       ChangedBetween(ops, low, high, s.file # f, includeEnd))
    IN  [e \in DOMAIN spans |->
            IF Touches(spans[e]) THEN Remap(spans[e]) ELSE Unchanged(spans[e])]

Deleted(d, f) == [d EXCEPT !.order = SelectSeq(@, LAMBDA g : g # f)]

\* What an episode that goes on beyond the deleted file has left.
WithoutFile(d, f, s) ==
    LET target == Place(d, f)
    IN  [file    |-> IF s.file = f THEN d.order[target + 1] ELSE s.file,
         start   |-> IF s.file = f THEN 0 ELSE s.start,
         endFile |-> IF s.endFile = f THEN d.order[target - 1] ELSE s.endFile,
         end     |-> IF s.endFile = f THEN Len(FileText(d, target - 1)) ELSE s.end]

RemapForDelete(d, spans, f) ==
    LET Touches(s) == Place(d, f) \in Place(d, s.file) .. Place(d, s.endFile)
        Remap(s) == IF s.file = s.endFile
                    THEN Removed
                    ELSE Finish(Deleted(d, f), WithoutFile(d, f, s), TRUE)
    IN  [e \in DOMAIN spans |->
            IF Touches(spans[e]) THEN Remap(spans[e]) ELSE Unchanged(spans[e])]

(* A file inserted in front of the i-th one; i may be one past the last.     *)
Inserted(d, f, i, new) ==
    [order |-> InsertAt(d.order, i, f),
     text  |-> [g \in DOMAIN d.text \cup {f} |-> IF g = f THEN new ELSE d.text[g]]]

RemapForInsert(d, spans, i) ==
    [e \in DOMAIN spans |->
        [after   |-> spans[e],
         changed |-> /\ GlobalStart(d, spans[e]) < Base(d, i)
                     /\ Base(d, i) < GlobalEnd(d, spans[e])]]

Moved(d, order) == [d EXCEPT !.order = order]

(* An episode keeps what is still joined to the file it begins in: the files  *)
(* that follow it in the new order as they did in the old one.              *)
KeptFile(d, order, s) ==
    LET first == Place(d, s.file)
        at    == Place(Moved(d, order), s.file)
    IN  Max({k \in first .. Place(d, s.endFile) :
                \A m \in first + 1 .. k :
                    /\ at + (m - first) <= Len(order)
                    /\ order[at + (m - first)] = d.order[m]})

RemapForMove(d, spans, order) ==
    LET Remap(s) ==
            LET kept == KeptFile(d, order, s)
            IN  IF kept = Place(d, s.endFile)
                THEN Unchanged(s)
                ELSE Finish(Moved(d, order),
                        [s EXCEPT !.endFile = d.order[kept],
                                  !.end = Len(FileText(d, kept))],
                        TRUE)
    IN  [e \in DOMAIN spans |-> Remap(spans[e])]

=============================================================================
