--------------------------- MODULE MCSourceFiles ---------------------------
(***************************************************************************)
(* Small projects of two or three files for the model checker, and what the *)
(* commands on their files promise. Two projects are changed again and      *)
(* again; of many more, cut into two episodes in every way, only the first  *)
(* change is looked at, but every one there is.                             *)
(***************************************************************************)
EXTENDS SourceFiles

CONSTANTS f1, f2, f3

Span(f, a, g, b) == [file |-> f, start |-> a, endFile |-> g, end |-> b]

\* Two files; the first episode goes across, an episode of its own follows it.
Across == [order |-> <<f1, f2>>,
           text |-> (f1 :> <<1>>) @@ (f2 :> <<2, 3>>),
           spans |-> <<Span(f1, 0, f2, 1), NoSpan, Span(f2, 1, f2, 2)>>,
           recorded |-> {f1, f2}, products |-> {1}]

\* The second file is recorded but not cut yet.
Rest == [order |-> <<f1, f2>>,
         text |-> (f1 :> <<1, -2, 3>>) @@ (f2 :> <<4>>),
         spans |-> <<Span(f1, 0, f1, 2), Span(f1, 2, f1, 3)>>,
         recorded |-> {f1, f2}, products |-> {1}]

\* The cells of the k-th file: numbers of their own, some blank, some ink.
Cells(k, n) == {[c \in 1 .. n |-> IF c \in blanks THEN -(10 * k + c) ELSE 10 * k + c] :
                    blanks \in (SUBSET (1 .. n)) \ {1 .. n}}

\* The files with so many cells each.
Texts(files, lengths) ==
    {[order |-> files, text |-> [f \in Range(files) |-> t[CHOOSE k \in DOMAIN files : files[k] = f]]] :
        t \in {t \in [DOMAIN files -> UNION {Cells(k, lengths[k]) : k \in DOMAIN files}] :
                    \A k \in DOMAIN files : t[k] \in Cells(k, lengths[k])}}

\* The span of the cells from the (a+1)-th to the b-th of the whole text.
SpanOf(d, a, b) ==
    LET first == Max({i \in DOMAIN d.order : Base(d, i) <= a})
        last  == Max({i \in DOMAIN d.order : Base(d, i) < b})
    IN  Span(d.order[first], a - Base(d, first), d.order[last], b - Base(d, last))

\* Two episodes one after the other, with or without text around and between them.
Cuts(d) ==
    LET n == Len(Whole(d))
        Inked(a, b) == HasInk(SubSeq(Whole(d), a + 1, b))
    IN  {<<SpanOf(d, p[1], p[2]), SpanOf(d, p[3], p[4])>> :
            p \in {p \in [1 .. 4 -> 0 .. n] :
                    /\ p[1] < p[2] /\ p[2] <= p[3] /\ p[3] < p[4]
                    /\ Inked(p[1], p[2]) /\ Inked(p[3], p[4])}}

Planned(d) == {[order |-> d.order, text |-> d.text, spans |-> c, recorded |-> {}, products |-> {}] :
                  c \in Cuts(d)}

Projects == {Across, Rest}
            \cup UNION {Planned(d) : d \in Texts(<<f1, f2>>, <<2, 2>>) \cup Texts(<<f1, f2, f3>>, <<2, 1, 1>>)}

\* Nothing has been made yet in the many projects.
OnlyLooked == products = {}
GoOn == ~OnlyLooked

\* So much is made.
FewProducts == Cardinality(products) <= 2

\* While the user is asked about one file no other one is changed outside,
\* unless it is about accepting such a change.
AskedInPeace ==
    dialog # NoDialog /\ dialog.op.kind # "accept" =>
        \A f \in Range(order) \ {dialog.op.file} : ~ChangedOutside(f)

-----------------------------------------------------------------------------
(* What is promised.                                                        *)

\* The cut episodes whose files are still listed.
Cut(e) == e.span # NoSpan /\ {e.span.file, e.span.endFile} \subseteq Range(order)
Unplaced == {e \in Range(ledger) : Cut(e) /\ e.id \notin DOMAIN Spans}

\* An episode all of whose files are as the service knows them.
Known(e) == /\ {e.span.file, e.span.endFile} \subseteq Range(order)
            /\ \A f \in CutFiles(<<e>>, order) : ~ChangedOutside(f)

TypeOK ==
    /\ order \in Seq(File) /\ IsInjective(order)
    /\ DOMAIN disk = Range(order)
    /\ DOMAIN fps \subseteq File /\ DOMAIN snap \subseteq File
    /\ IsInjective(IdsOf(ledger))
    /\ DOMAIN derived = {e.id : e \in CutsOf(ledger)}
    /\ changes \in 0 .. MaxChanges

\* The text of an episode on disk is what its range says, as long as none of its
\* files has been changed outside (source_file_changes.py:377).
DerivedIsSlice ==
    \A e \in CutsOf(ledger) : Known(e) => derived[e.id] = SpanText(docs, e.span)

\* What has been made of an episode was made of its present text, or the episode
\* is stale: no change of a file passes a product by (script_review.py:213).
FreshProductsMatch ==
    \A e \in CutsOf(ledger) :
        e.id \in products /\ ~e.stale => made[e.id] = derived[e.id]

\* The cut episodes are in the order of the text and nothing of it belongs to
\* two of them, whatever files were moved, deleted or edited, and whatever
\* episodes without text stand between them, as long as their files are listed.
CutsInSourceOrder ==
    (\A f \in DOMAIN disk : ~ChangedOutside(f)) =>
        /\ Unplaced = {}
        /\ LET cuts == SelectSeq(ledger, Cut)
           IN  \A j, k \in DOMAIN cuts : j < k =>
                  GlobalEnd(docs, cuts[j].span) <= GlobalStart(docs, cuts[k].span)

\* No text of an episode that has products is changed or lost that the user has
\* not been shown, though products come to be while the list is read
\* (source_file_changes.py:_run).
NothingLostUnseen ==
    [][\A i \in products \cap DOMAIN derived :
            i \notin DOMAIN derived' \/ derived'[i] # derived[i] =>
                dialog # NoDialog /\ i \in Range(dialog.seen.changed) \cup Range(dialog.seen.retired)
      ]_sourceVars

\* When a file moves, an episode without text of its own goes with the cut
\* episode that is in front of it (source_file_changes.py:209).
OwnTextKeepsItsAnchor ==
    [][\A k \in DOMAIN ledger :
            ledger[k].span = NoSpan /\ k > 1 /\ order' # order /\ Range(order') = Range(order)
            /\ ledger[k - 1].id \in {e.id : e \in CutsOf(ledger')} =>
                \E n \in 1 .. Len(ledger') - 1 :
                    ledger'[n].id = ledger[k - 1].id /\ ledger'[n + 1].id = ledger[k].id
      ]_sourceVars

-----------------------------------------------------------------------------
(* What a command promises of the cells of the text, for every command the  *)
(* many projects admit, before it is executed.                              *)

\* What may become of a text: some cells stay, new ones come in between.
Revisions(text) ==
    LET Insert(t, i, x) == SubSeq(t, 1, i) \o x \o SubSeq(t, i + 1, Len(t))
        kept == {SelectSeq(text, LAMBDA c : c \in keep) : keep \in SUBSET Range(text)}
        once == UNION {{Insert(t, i, x) : i \in 0 .. Len(t), x \in {<<>>, <<100>>, <<-100>>}} : t \in kept}
        twice == UNION {{Insert(t, i, x) : i \in 0 .. Len(t), x \in {<<>>, <<101>>}} : t \in once}
    IN  {t \in twice : HasInk(t) /\ t # text}

\* The effects of all commands, with the file that is edited.
Looked ==
    IF OnlyLooked
    THEN {Effect(op) : op \in {op \in Requests : op.kind # "edit" /\ Legal(op)}}
         \cup UNION {{EditEffect([file |-> f, text |-> t]) : t \in Revisions(disk[f])} : f \in Range(order)}
    ELSE {}
Edits(e) == e.touched # {} /\ e.touched \subseteq Range(e.docs.order)

\* The episodes an effect leaves some text, and what they have before and after it.
Left(e) == DOMAIN e.remaps \ Gone(e)
Before(e, i) == Range(SpanText(docs, e.before[i]))
Now(e, i) == Range(SpanText(e.docs, e.remaps[i].after))
Surviving(e) == Range(Whole(docs)) \cap Range(Whole(e.docs))
Owners(e, c) == {i \in DOMAIN e.remaps : c \in Before(e, i)}

\* Every range left is a proper one: between two positions of the text, in the
\* normal form, with ink in it (source_remap.py:193-199).
SpansAreWellFormed ==
    \A e \in Looked :
        \A i \in Left(e) :
            LET s == e.remaps[i].after
            IN  /\ HasInk(SpanText(e.docs, s))
                /\ s = SpanOf(e.docs, GlobalStart(e.docs, s), GlobalEnd(e.docs, s))

\* No change makes two episodes share text, whatever was inserted, replaced or
\* moved where they meet, and one of the text alone leaves them in their order
\* (remap_for_edit and its three siblings).
EpisodesStayApart ==
    \A e \in Looked :
        \A i, j \in Left(e) : i < j =>
            /\ Now(e, i) \cap Now(e, j) = {}
            /\ ~e.reorder => GlobalEnd(e.docs, e.remaps[i].after) <= GlobalStart(e.docs, e.remaps[j].after)

\* A cell that is still there is in the episode it was in, or in none when the
\* episode has lost it: only an edit that leaves nothing but blanks, and a move
\* that tears an episode apart, may lose it.
TextKeepsItsEpisode ==
    \A e \in Looked :
        \A c \in Surviving(e) :
            LET is == {i \in Left(e) : c \in Now(e, i)}
            IN  /\ is \subseteq Owners(e, c)
                /\ Owners(e, c) \subseteq Left(e) /\ ~e.reorder => is = Owners(e, c)

\* An episode is called changed exactly when its text is another one: the rest
\* of the system drops what was made of the text of a changed episode.
ChangesAreTold ==
    \A e \in Looked :
        \A i \in DOMAIN e.remaps :
            e.remaps[i].changed <=> \/ i \in Gone(e)
                                   \/ SpanText(e.docs, e.remaps[i].after) # SpanText(docs, e.before[i])

\* Text that is inserted in an episode is that episode's, on the boundary of
\* two it is the first one's, and outside of all it is nobody's. Where it
\* stands in the beginning of a file this says nothing of the boundary.
InsertionsFindTheirEpisode ==
    \A e \in Looked :
        LET w == Whole(e.docs)
            old == {k \in DOMAIN w : w[k] \in Surviving(e)}
        IN
        Edits(e) /\ Range(Whole(docs)) \subseteq Range(w) =>
            \A k \in DOMAIN w \ old :
                LET left == {i \in old : i < k}
                    right == {i \in old : i > k}
                    is == {i \in Left(e) : w[k] \in Now(e, i)}
                    l == IF left = {} THEN {} ELSE Owners(e, w[Max(left)])
                    r == IF right = {} THEN {} ELSE Owners(e, w[Min(right)])
                IN  /\ l = r => is = l
                    /\ l = {} \/ r = {} => is = {}
                    /\ l # {} /\ r # {} /\ w[Max(left)] \in Range(disk[CHOOSE f \in e.touched : TRUE]) => is = l

\* What the service keeps of an episode says the same: derived text, products
\* and place in the play order.
EpisodesAgree == TypeOK /\ DerivedIsSlice /\ FreshProductsMatch /\ CutsInSourceOrder

\* A change of the text is carried over to every episode, cell by cell.
TextChangesNoHands ==
    /\ SpansAreWellFormed /\ EpisodesStayApart /\ TextKeepsItsEpisode
    /\ ChangesAreTold /\ InsertionsFindTheirEpisode

\* A command takes from the user only what it has shown, and moves what has no
\* text of its own with what it follows.
NothingGoesUnseen == NothingLostUnseen /\ OwnTextKeepsItsAnchor
=============================================================================
