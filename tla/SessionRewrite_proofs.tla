------------------------ MODULE SessionRewrite_proofs ------------------------
(***************************************************************************)
(* What rewrites promise, for every number of attempts, rewrites,          *)
(* messages, deletions and old sessions, and every number of failures and  *)
(* stops of the server.                                                    *)
(*                                                                         *)
(* First the places: an id is given to one rewrite only, no page knows the *)
(* branch of a rewrite under way, and nothing is known of an id that was   *)
(* not given out (BaseInv).  From what one step may do to a request, a     *)
(* row, a queue, a transcript and an agent (the Moves) follow, in turn:    *)
(*   - SilenceInv: who holds the admission lock of which session, and that *)
(*     the row of a branch is its rewrite's: HiddenIsSilent;               *)
(*   - KeyInv: where the message of the attempts with one key can be:      *)
(*     KeyOnce and RetryFindsItsBranch;                                    *)
(*   - BranchIsQuiet and PointerInv: what is left of a branch while it is  *)
(*     built and withdrawn: WithdrawalIsComplete, without deletions;       *)
(*   - TimelineInv: pointers lead to younger sessions that are there, and  *)
(*     an origin is hidden once its branch has work: OneConversation,      *)
(*     without deletions.                                                  *)
(***************************************************************************)
EXTENDS SessionRewrite, FiniteSetTheorems, WellFoundedInduction, TLAPS

(* Where a rewrite stands: it holds the session it branches from, its      *)
(* branch is published, or it is being withdrawn.                          *)
Holding == {"interrupt", "settle", "copy", "create", "mark"}
Published == {"meta", "connect", "send"}
Withdrawing == {"close", "unlog", "find", "clear", "untext", "read", "unrow"}
Branched == {"create", "mark"} \cup Published \cup Withdrawing

(* Session ids are given out in order, one to a rewrite.                   *)
IdsInOrder ==
    /\ Origins <= used
    /\ used <= Origins + Cardinality({r \in Rewrites : req[r].new # None})
    /\ \A r \in Rewrites : req[r].new # None => Origins < req[r].new /\ req[r].new <= used
BranchStands ==
    \A r \in Rewrites : /\ req[r].pc \in Branched \cup {"accepted"} => req[r].new # None
                        /\ req[r].pc \notin Branched \cup Over => req[r].new = None
(* Only a retry that was answered with the branch shares it.               *)
BranchIsOwn ==
    \A r, q \in Rewrites : r # q /\ req[r].new = req[q].new /\ req[r].new # None =>
        req[r].pc = "accepted" /\ req[q].pc = "accepted"
(* A request is about a session a page may know.                           *)
AddressIsKnown ==
    \A q \in Requests : /\ req[q].at # None => req[q].at \in Known
                        /\ req[q].pc \in Steps => req[q].at # None
PlacesStand ==
    /\ \A q \in Sends : req[q].pc \in {"new", "connect", "send"} \cup Over
    /\ \A d \in Deletes : req[d].pc \in {"new", "find", "unlog", "read", "unrow"} \cup Over
    /\ \A k \in Keyed : req[k].at \in {None, 1}
(* Nothing is known of an id that was not given out.                       *)
NothingBeyond ==
    \A s \in Sessions : s > used =>
        row[s] = NoRow /\ s \notin text /\ log[s] = {} /\ tray[s] = {} /\ turn[s] = "off"
PointersStand ==
    /\ \A s \in Sessions : row[s].next # None => Origins < row[s].next /\ row[s].next <= used
    /\ \A q \in Requests : req[q].heir # None => Origins < req[q].heir /\ req[q].heir <= used

PlaceInv == IdsInOrder /\ BranchStands /\ BranchIsOwn /\ AddressIsKnown /\ PlacesStand
            /\ NothingBeyond /\ PointersStand

(* A message of a rewrite is in the session that replaced the old one.     *)
MessagesStand ==
    \A s \in Sessions : \A r \in Rewrites :
        r \in tray[s] \cup log[s] => req[r].pc = "accepted" /\ req[r].new = s

BaseInv == TypeOK /\ PlaceInv /\ MessagesStand

(* Nobody can delete a branch nobody has heard of, or hide it.             *)
RowOfBranch ==
    \A r \in Rewrites :
        /\ req[r].pc \in {"mark", "close", "unlog", "find"} \cup Published => row[req[r].new].there
        /\ req[r].pc \in {"clear", "untext", "read", "unrow"} => req[r].placed
        /\ req[r].pc \in Branched => row[req[r].new].next = None

(* From the look at its queue to the pointer a session is its rewrite's;   *)
(* a message that was admitted has a session that is not hidden.           *)
RewriteHolds ==
    \A r \in Rewrites : req[r].pc \in Holding => admission[req[r].at] = r /\ tray[req[r].at] = {}
SendHolds ==
    \A q \in Sends : req[q].pc \in Steps => admission[req[q].at] = q /\ row[req[q].at].next = None

SilenceInv == RowOfBranch /\ RewriteHolds /\ SendHolds /\ HiddenIsSilent

-----------------------------------------------------------------------------
(* The branch of a rewrite under way is not known to any page. *)
LEMMA BranchIsUnknown ==
  ASSUME TypeOK, PlaceInv, NEW r \in Rewrites, req[r].pc \in Branched
  PROVE  req[r].new # None /\ req[r].new \notin Known
<1>1. req[r].new # None
  BY DEF PlaceInv, BranchStands
<1>2. ~(req[r].new <= Origins)
  <2>1. req[r].new \in Nat
    BY RewriteAssumption DEF TypeOK, Sessions, Requests, None
  <2> QED
    BY <1>1, <2>1, RewriteAssumption DEF PlaceInv, IdsInOrder
<1>3. ASSUME NEW q \in Rewrites, req[q].pc = "accepted", req[q].new = req[r].new PROVE FALSE
  BY <1>1, <1>3 DEF PlaceInv, BranchIsOwn, Branched, Published, Withdrawing
<1> QED
  BY <1>1, <1>2, <1>3 DEF Known

(* There is an id left for the branch of a rewrite that has none.          *)
LEMMA IdIsLeft ==
  ASSUME TypeOK, PlaceInv, NEW r \in Rewrites, req[r].new = None
  PROVE  used + 1 \in Sessions
<1> DEFINE Had == {q \in Rewrites : req[q].new # None}
<1>finite. IsFiniteSet(Rewrites)
  BY RewriteAssumption, FS_Subset DEF Requests
<1>1. IsFiniteSet(Had) /\ Cardinality(Had) <= Cardinality(Rewrites) - 1
  <2>1. Had \subseteq Rewrites \ {r}
    OBVIOUS
  <2>2. IsFiniteSet(Rewrites \ {r}) /\ Cardinality(Rewrites \ {r}) = Cardinality(Rewrites) - 1
    BY <1>finite, FS_RemoveElement
  <2> QED
    BY <2>1, <2>2, FS_Subset
<1>2. Cardinality(Had) \in Nat /\ Cardinality(Rewrites) \in Nat
  BY <1>finite, <1>1, FS_CardinalityType
<1> QED
  BY <1>1, <1>2, RewriteAssumption DEF PlaceInv, IdsInOrder, Sessions, TypeOK

LEMMA RewriteStarts == Init => BaseInv /\ SilenceInv
<1> SUFFICES ASSUME Init PROVE BaseInv /\ SilenceInv
  OBVIOUS
<1>new. NewRequest.anchor \in Anchors
  <2> DEFINE pick == CHOOSE a \in Anchors : TRUE
  <2>1. \E a \in Anchors : TRUE
    BY RewriteAssumption
  <2>2. pick \in Anchors
    BY <2>1, Zenon
  <2>3. NewRequest.anchor = pick
    BY DEF NewRequest
  <2> QED
    BY <2>2, <2>3
<1>fields. /\ NewRequest.pc = "new" /\ NewRequest.at = None /\ NewRequest.new = None
           /\ NewRequest.heir = None
  BY DEF NewRequest
<1>req. \A q \in Requests : req[q] = NewRequest
  BY DEF Init
<1> USE RewriteAssumption DEF NoRow, None
<1>card. IsFiniteSet(Rewrites) /\ Cardinality(Rewrites) \in Nat /\ Rewrites \subseteq Requests
  BY FS_Subset, FS_CardinalityType DEF Requests
<1>sessions. Sessions = 1..(Origins + Cardinality(Rewrites)) /\ Origins \in Sessions /\ 1..Origins \subseteq Sessions
  BY <1>card DEF Sessions
<1>type. TypeOK
  <2>1. row \in [Sessions -> [there : BOOLEAN, next : {None} \cup Sessions, parent : {None} \cup Sessions]]
    <3> DEFINE Old(s) == [NoRow EXCEPT !.there = s <= Origins]
    <3>1. \A s \in Sessions : Old(s) = [there |-> s <= Origins, next |-> None, parent |-> None]
      OBVIOUS
    <3>2. \A s \in Sessions : (s <= Origins) \in BOOLEAN
      BY <1>sessions
    <3>3. \A s \in Sessions : Old(s) \in [there : BOOLEAN, next : {None} \cup Sessions, parent : {None} \cup Sessions]
      BY <3>1, <3>2
    <3>4. row = [s \in Sessions |-> Old(s)]
      BY DEF Init
    <3> HIDE DEF Old
    <3> QED
      BY <3>3, <3>4
  <2>2. text \subseteq Sessions /\ used \in Sessions /\ failures \in 0..MaxFailures /\ crashes \in 0..MaxCrashes
    BY <1>sessions DEF Init
  <2>3. /\ log \in [Sessions -> SUBSET Requests] /\ tray \in [Sessions -> SUBSET Requests]
        /\ admission \in [Sessions -> {Nobody} \cup Requests] /\ asking \subseteq Sessions
    BY DEF Init
  <2>turn. turn \in [Sessions -> {"off", "idle", "running", "error"}]
    <3> DEFINE Statuses == [Sessions -> {"off", "idle", "running"}]
               Quiet(t) == \A s \in Sessions : s > Origins => t[s] = "off"
    <3>any. turn \in {t \in Statuses : Quiet(t)}
      BY DEF Init
    <3> HIDE DEF Statuses, Quiet
    <3>1. turn \in Statuses
      BY <3>any
    <3> USE DEF Statuses
    <3> QED
      BY <3>1
  <2>4. NewRequest \in [pc : Waiting \cup Over \cup Steps, at : {None} \cup Sessions,
                             new : {None} \cup Sessions, anchor : Anchors, heir : {None} \cup Sessions,
                             placed : BOOLEAN, why : {"none", "gone", "superseded", "questions", "queued",
                                                      "timeout", "anchor", "failed"}]
    BY <1>new DEF NewRequest, Waiting
  <2>5. req = [q \in Requests |-> NewRequest]
    BY DEF Init
  <2> QED
    BY <2>1, <2>2, <2>3, <2>turn, <2>4, <2>5 DEF TypeOK
<1>ids. IdsInOrder
  <2>1. {r \in Rewrites : req[r].new # None} = {}
    BY <1>req, <1>fields, <1>card
  <2>2. Cardinality({r \in Rewrites : req[r].new # None}) = 0
    BY <2>1, FS_EmptySet
  <2>3. used = Origins
    BY DEF Init
  <2> QED
    BY <2>1, <2>2, <2>3 DEF IdsInOrder
<1>places. BranchStands /\ BranchIsOwn /\ AddressIsKnown /\ PlacesStand
  BY <1>req, <1>fields, <1>card DEF BranchStands, BranchIsOwn, AddressIsKnown, PlacesStand,
     Branched, Published, Withdrawing, Over, Steps, Requests, Rewrites
<1>rest. NothingBeyond /\ PointersStand
  <2>1. PointersStand
    BY <1>req, <1>fields DEF Init, PointersStand
  <2>2. ASSUME NEW s \in Sessions, s > used
        PROVE  row[s] = NoRow /\ s \notin text /\ log[s] = {} /\ tray[s] = {} /\ turn[s] = "off"
    <3>1. ~(s <= Origins) /\ s \notin 1..Origins
      BY <2>2, <1>sessions DEF Init
    <3>2. row[s] = [NoRow EXCEPT !.there = s <= Origins] /\ (s <= Origins) = FALSE
      BY <3>1 DEF Init
    <3>3. turn[s] = "off"
      BY <3>1, <1>sessions DEF Init
    <3> QED
      BY <3>1, <3>2, <3>3 DEF Init
  <2> QED
    BY <2>1, <2>2 DEF NothingBeyond
<1>messages. MessagesStand
  BY DEF Init, MessagesStand
<1>silence. SilenceInv
  <2>1. RowOfBranch /\ RewriteHolds /\ SendHolds
    BY <1>req, <1>fields, <1>card DEF RowOfBranch, RewriteHolds, SendHolds, Branched, Published,
       Withdrawing, Steps, Holding, Requests
  <2>2. HiddenIsSilent
    BY DEF Init, HiddenIsSilent
  <2> QED
    BY <2>1, <2>2 DEF SilenceInv
<1> QED
  BY <1>type, <1>ids, <1>places, <1>rest, <1>messages, <1>silence DEF BaseInv, PlaceInv

-----------------------------------------------------------------------------
Places == Waiting \cup Over \cup Steps
Reasons == {"none", "gone", "superseded", "questions", "queued", "timeout", "anchor", "failed"}
Rows == [there : BOOLEAN, next : {None} \cup Sessions, parent : {None} \cup Sessions]
RequestType == [pc : Places, at : {None} \cup Sessions, new : {None} \cup Sessions, anchor : Anchors,
                heir : {None} \cup Sessions, placed : BOOLEAN, why : Reasons]

LEMMA PlaceTyped ==
  ASSUME NEW x \in RequestType, NEW pc \in Places
  PROVE  [x EXCEPT !.pc = pc] \in RequestType
BY DEF RequestType

LEMMA OneTyped ==
  ASSUME req \in [Requests -> RequestType], NEW q \in Requests, NEW x \in RequestType,
         req' = [req EXCEPT ![q] = x]
  PROVE  req' \in [Requests -> RequestType]
OBVIOUS

LEMMA Ending ==
  ASSUME req \in [Requests -> RequestType], admission \in [Sessions -> {Nobody} \cup Requests],
         NEW q \in Requests, NEW pc \in Places, NEW why \in Reasons, End(q, pc, why)
  PROVE  req' \in [Requests -> RequestType] /\ admission' \in [Sessions -> {Nobody} \cup Requests]
<1>1. [req[q] EXCEPT !.pc = pc, !.why = why] \in RequestType
  <2>1. req[q] \in RequestType
    OBVIOUS
  <2> QED
    BY <2>1 DEF RequestType
<1>2. req' = [req EXCEPT ![q] = [req[q] EXCEPT !.pc = pc, !.why = why]]
  BY DEF End
<1>3. admission' = [s \in Sessions |-> IF admission[s] = q THEN Nobody ELSE admission[s]]
  BY DEF End
<1>4. req' \in [Requests -> RequestType]
  BY <1>1, <1>2
<1>5. admission' \in [Sessions -> {Nobody} \cup Requests]
  BY <1>3
<1> QED
  BY <1>4, <1>5

LEMMA Going ==
  ASSUME req \in [Requests -> RequestType], NEW q \in Requests, NEW pc \in Places, Goto(q, pc)
  PROVE  req' \in [Requests -> RequestType]
<1>1. [req[q] EXCEPT !.pc = pc] \in RequestType
  <2>1. req[q] \in RequestType
    OBVIOUS
  <2> QED
    BY <2>1, PlaceTyped
<1>2. req' = [req EXCEPT ![q] = [req[q] EXCEPT !.pc = pc]]
  BY DEF Goto
<1> QED
  BY <1>1, <1>2

LEMMA TypeKeeps == ASSUME BaseInv, [Next]_vars PROVE TypeOK'
<1> DEFINE Typed == /\ row \in [Sessions -> Rows] /\ req \in [Requests -> RequestType]
                    /\ text \subseteq Sessions /\ asking \subseteq Sessions /\ used \in Sessions
                    /\ log \in [Sessions -> SUBSET Requests] /\ tray \in [Sessions -> SUBSET Requests]
                    /\ turn \in [Sessions -> {"off", "idle", "running", "error"}]
                    /\ admission \in [Sessions -> {Nobody} \cup Requests]
                    /\ failures \in 0..MaxFailures /\ crashes \in 0..MaxCrashes
<1>old. Typed
  BY DEF BaseInv, TypeOK, Rows, RequestType, Places, Reasons
<1>new. Typed' => TypeOK'
  BY DEF TypeOK, Rows, RequestType, Places, Reasons
<1>places. Waiting \subseteq Places /\ Over \subseteq Places /\ Steps \subseteq Places
  BY DEF Places
<1>req. ASSUME NEW q \in Requests
        PROVE  /\ req[q] \in RequestType
               /\ req[q].at \in {None} \cup Sessions /\ req[q].new \in {None} \cup Sessions
               /\ req[q].heir \in {None} \cup Sessions /\ req[q].why \in Reasons
               /\ req[q].pc \in Steps => req[q].at \in Sessions
               /\ q \in Rewrites /\ req[q].pc \in Branched => req[q].new \in Sessions
  BY <1>old DEF RequestType, BaseInv, PlaceInv, AddressIsKnown, BranchStands
<1>row. \A s \in Sessions : row[s].there \in BOOLEAN /\ row[s].next \in {None} \cup Sessions
  BY <1>old DEF Rows
<1>steps. /\ {"look", "check", "admit", "interrupt", "settle", "copy", "create", "mark", "meta", "connect",
               "send", "close", "unlog", "find", "clear", "untext", "read", "unrow"} \subseteq Steps
          /\ {"new", "accepted", "refused", "lost"} \subseteq Places /\ Steps \subseteq Places
          /\ {"none", "gone", "superseded", "questions", "queued", "timeout", "anchor", "failed"} \subseteq Reasons
  BY DEF Steps, Places, Reasons, Waiting, Over
<1>fails. Fails => failures' \in 0..MaxFailures
  BY <1>old, RewriteAssumption DEF Fails
<1>origins. Origins \in Nat /\ Known \subseteq Sessions
  <2>1. ASSUME NEW q \in Rewrites, req[q].pc = "accepted" PROVE req[q].new \in Sessions
    <3>1. q \in Requests /\ req[q].new # None
      BY <2>1 DEF BaseInv, PlaceInv, BranchStands, Requests
    <3> QED
      BY <1>req, <3>1
  <2> QED
    BY <2>1, RewriteAssumption DEF Known
<1>delete. ASSUME NEW q \in Requests, ReadHeir(q) \/ Unrow(q) PROVE Typed'
  <2>1. req[q] \in RequestType /\ Doomed(q) \in Sessions
    <3>1. q \in Rewrites => req[q].new \in Sessions
      BY <1>req, <1>delete DEF ReadHeir, Unrow, Branched, Withdrawing
    <3>2. req[q].at \in Sessions
      BY <1>req, <1>steps, <1>delete DEF ReadHeir, Unrow
    <3> QED
      BY <1>req, <3>1, <3>2 DEF Doomed
  <2> USE <1>old, <1>steps, <2>1 DEF db, memory, bounds
  <2>read. CASE ReadHeir(q)
    <3>1. [req[q] EXCEPT !.pc = "unrow", !.heir = row[Doomed(q)].next] \in RequestType
      BY <1>row DEF RequestType
    <3>2. req' = [req EXCEPT ![q] = [req[q] EXCEPT !.pc = "unrow", !.heir = row[Doomed(q)].next]]
      BY <2>read DEF ReadHeir
    <3>3. req' \in [Requests -> RequestType]
      BY <3>1, <3>2
    <3> QED
      BY <2>read, <3>3 DEF ReadHeir
  <2>unrow. CASE Unrow(q)
    <3>1. req' \in [Requests -> RequestType] /\ admission' \in [Sessions -> {Nobody} \cup Requests]
      <4>1. \/ End(q, "refused", req[q].why)
            \/ End(q, "accepted", "none")
        BY <2>unrow DEF Unrow, Refuse
      <4>2. CASE End(q, "refused", req[q].why)
        BY <4>2, <1>req, Ending
      <4>3. CASE End(q, "accepted", "none")
        BY <4>3, Ending
      <4> QED
        BY <4>1, <4>2, <4>3
    <3>2. row' \in [Sessions -> Rows]
      <4> DEFINE After(s) == IF s = Doomed(q) THEN NoRow
                             ELSE IF row[s].there /\ row[s].next = Doomed(q) THEN [row[s] EXCEPT !.next = req[q].heir]
                             ELSE row[s]
      <4>1. row' = [s \in Sessions |-> After(s)]
        BY <2>unrow DEF Unrow
      <4>2. ASSUME NEW s \in Sessions PROVE After(s) \in Rows
        BY <1>req DEF Rows, NoRow
      <4> HIDE DEF After
      <4> QED
        BY <4>1, <4>2
    <3> QED
      BY <2>unrow, <3>1, <3>2 DEF Unrow
  <2> QED
    BY <1>delete, <2>read, <2>unrow
<1>rewrite. ASSUME NEW r \in Rewrites, Rewrite(r) PROVE Typed'
  <2>r. r \in Requests /\ req[r] \in RequestType
    BY <1>req DEF Requests
  <2> USE <1>old, <1>steps, <2>r DEF db, memory, bounds
  <2>begin. CASE Begin(r)
    <3>1. PICK s \in Known, a \in Anchors : req' = [req EXCEPT ![r].pc = "look", ![r].at = s, ![r].anchor = a]
      BY <2>begin DEF Begin
    <3>2. [req[r] EXCEPT !.pc = "look", !.at = s, !.anchor = a] \in RequestType
      BY <1>origins DEF RequestType
    <3>3. req' \in [Requests -> RequestType]
      BY <3>1, <3>2
    <3> QED
      BY <2>begin, <3>3 DEF Begin
  <2>look. CASE Look(r)
    <3>1. \/ Refuse(r, "gone") \/ Refuse(r, "superseded")
          \/ Goto(r, "check") /\ UNCHANGED admission
          \/ /\ req' = [req EXCEPT ![r].pc = "accepted", ![r].new = row[req[r].at].next]
             /\ UNCHANGED admission
      BY <2>look DEF Look
    <3>2. row[req[r].at].next \in {None} \cup Sessions
      BY <1>req, <1>row, <2>look DEF Look
    <3>3. [req[r] EXCEPT !.pc = "accepted", !.new = row[req[r].at].next] \in RequestType
      BY <3>2 DEF RequestType
    <3>4. req' \in [Requests -> RequestType] /\ admission' \in [Sessions -> {Nobody} \cup Requests]
      <4>1. CASE Refuse(r, "gone") \/ Refuse(r, "superseded")
        BY <4>1, Ending DEF Refuse
      <4>2. CASE Goto(r, "check") /\ UNCHANGED admission
        BY <4>2, Going
      <4>3. CASE req' = [req EXCEPT ![r].pc = "accepted", ![r].new = row[req[r].at].next] /\ UNCHANGED admission
        BY <4>3, <3>3
      <4> QED
        BY <3>1, <4>1, <4>2, <4>3
    <3> QED
      BY <2>look, <3>4 DEF Look
  <2>check. CASE Check(r)
    <3>1. req' \in [Requests -> RequestType] /\ admission' \in [Sessions -> {Nobody} \cup Requests]
      BY <2>check, Ending, Going DEF Check, Refuse
    <3> QED
      BY <2>check, <3>1 DEF Check
  <2>admit. CASE Admit(r)
    <3>1. req' \in [Requests -> RequestType] /\ admission' \in [Sessions -> {Nobody} \cup Requests]
      BY <2>admit, Ending, Going DEF Admit, Refuse
    <3> QED
      BY <2>admit, <3>1 DEF Admit
  <2>interrupt. CASE Interrupt(r)
    <3>1. req' \in [Requests -> RequestType] /\ admission' \in [Sessions -> {Nobody} \cup Requests]
      BY <2>interrupt, Ending, Going DEF Interrupt, Refuse
    <3> QED
      BY <2>interrupt, <3>1, <1>fails DEF Interrupt
  <2>settle. CASE Settle(r)
    <3>1. req' \in [Requests -> RequestType] /\ admission' \in [Sessions -> {Nobody} \cup Requests]
      BY <2>settle, Ending, Going DEF Settle, Refuse
    <3> QED
      BY <2>settle, <3>1 DEF Settle
  <2>copy. CASE Copy(r)
    <3>1. used + 1 \in Sessions
      <4>1. req[r].new = None
        BY <2>copy DEF Copy, BaseInv, PlaceInv, BranchStands, Branched, Published, Withdrawing, Over
      <4> QED
        BY <4>1, IdIsLeft DEF BaseInv
    <3>2. \/ (Refuse(r, "gone") \/ Refuse(r, "anchor")) /\ UNCHANGED <<text, used, bounds>>
          \/ /\ req' = [req EXCEPT ![r].pc = "create", ![r].new = used + 1]
             /\ UNCHANGED <<bounds, admission>> /\ used' = used + 1 /\ text' \subseteq text \cup {used + 1}
          \/ /\ req' = [req EXCEPT ![r].pc = "clear", ![r].new = used + 1, ![r].placed = TRUE, ![r].why = "failed"]
             /\ Fails /\ UNCHANGED <<crashes, admission>> /\ used' = used + 1 /\ text' \subseteq text \cup {used + 1}
      BY <2>copy DEF Copy
    <3>3. /\ [req[r] EXCEPT !.pc = "create", !.new = used + 1] \in RequestType
          /\ [req[r] EXCEPT !.pc = "clear", !.new = used + 1, !.placed = TRUE, !.why = "failed"] \in RequestType
      BY <3>1 DEF RequestType
    <3>4. req' \in [Requests -> RequestType] /\ admission' \in [Sessions -> {Nobody} \cup Requests]
      <4>1. CASE Refuse(r, "gone") \/ Refuse(r, "anchor")
        BY <4>1, Ending DEF Refuse
      <4>2. CASE ~(Refuse(r, "gone") \/ Refuse(r, "anchor"))
        <5> DEFINE Made == [req[r] EXCEPT !.pc = "create", !.new = used + 1]
                   Broken == [req[r] EXCEPT !.pc = "clear", !.new = used + 1, !.placed = TRUE, !.why = "failed"]
        <5>1. /\ UNCHANGED admission
              /\ req' = [req EXCEPT ![r] = Made] \/ req' = [req EXCEPT ![r] = Broken]
          BY ZenonT(40), <4>2, <3>2
        <5>2. Made \in RequestType /\ Broken \in RequestType
          BY <3>3
        <5> HIDE DEF Made, Broken
        <5> QED
          BY <5>1, <5>2
      <4> QED
        BY <4>1, <4>2
    <3> QED
      BY <2>copy, <3>1, <3>2, <3>4, <1>fails DEF Copy
  <2>create. CASE Create(r)
    <3>1. /\ [req[r] EXCEPT !.pc = "clear", !.placed = TRUE, !.why = "failed"] \in RequestType
          /\ [there |-> TRUE, next |-> None, parent |-> req[r].at] \in Rows
      BY <1>req DEF RequestType, Rows
    <3>2. req' \in [Requests -> RequestType]
      <4>1. Goto(r, "mark") \/ req' = [req EXCEPT ![r].pc = "clear", ![r].placed = TRUE, ![r].why = "failed"]
        BY <2>create DEF Create
      <4>2. CASE Goto(r, "mark")
        BY <4>2, <1>places, Going
      <4>3. CASE req' = [req EXCEPT ![r].pc = "clear", ![r].placed = TRUE, ![r].why = "failed"]
        <5>1. req' = [req EXCEPT ![r] = [req[r] EXCEPT !.pc = "clear", !.placed = TRUE, !.why = "failed"]]
          BY <4>3
        <5> QED
          BY <5>1, <3>1, OneTyped
      <4> QED
        BY <4>1, <4>2, <4>3
    <3>3. row' \in [Sessions -> Rows]
      BY <2>create, <3>1 DEF Create
    <3> QED
      BY <2>create, <3>2, <3>3, <1>fails DEF Create
  <2>mark. CASE Mark(r)
    <3>1. [req[r] EXCEPT !.pc = "clear", !.placed = TRUE, !.why = "superseded"] \in RequestType
      BY DEF RequestType
    <3>2. req' \in [Requests -> RequestType]
      BY <2>mark, <3>1, Going DEF Mark
    <3>3. req[r].new \in Sessions
      BY <2>mark, <1>req DEF Mark, Branched
    <3>4. row' \in [Sessions -> Rows]
      BY <2>mark, <3>3 DEF Mark, Rows
    <3> QED
      BY <2>mark, <3>2, <3>4 DEF Mark
  <2>find. CASE FindRow(r) \/ UnlogBranch(r) \/ CloseBranch(r) \/ Untext(r)
    <3>1. req' \in [Requests -> RequestType]
      BY <2>find, Going DEF FindRow, UnlogBranch, CloseBranch, Untext
    <3> QED
      BY <2>find, <3>1 DEF FindRow, UnlogBranch, CloseBranch, Untext
  <2>branch. CASE FindBranch(r)
    <3>1. row[req[r].new].there \in BOOLEAN
      BY <2>branch, <1>req, <1>row DEF FindBranch, Branched, Withdrawing
    <3>2. [req[r] EXCEPT !.pc = "clear", !.placed = row[req[r].new].there, !.why = "failed"] \in RequestType
      BY <3>1 DEF RequestType
    <3>3. req' \in [Requests -> RequestType]
      BY <2>branch, <3>2 DEF FindBranch
    <3> QED
      BY <2>branch, <3>3 DEF FindBranch
  <2>reach. CASE Reach(r)
    <3>1. req' \in [Requests -> RequestType]
      BY <2>reach, Going DEF Reach, Connect
    <3> QED
      BY <2>reach, <3>1, <1>fails DEF Reach, Connect
  <2>send. CASE Dispatch(r)
    <3>1. \/ Goto(r, "close") /\ UNCHANGED admission
          \/ /\ req' = [req EXCEPT ![r].pc = "accepted"]
             /\ admission' = [t \in Sessions |-> IF admission[t] = r THEN Nobody ELSE admission[t]]
      BY <2>send DEF Dispatch, Deliver
    <3>2. req' \in [Requests -> RequestType] /\ admission' \in [Sessions -> {Nobody} \cup Requests]
      BY <3>1, Going DEF Goto
    <3> QED
      BY <2>send, <3>2, <1>fails DEF Dispatch, Deliver
  <2>clear. CASE Clear(r)
    <3>1. req' \in [Requests -> RequestType]
      BY <2>clear, Going DEF Clear
    <3>2. row' \in [Sessions -> Rows]
      <4>1. row' \in {row, [row EXCEPT ![req[r].at].next = None]}
        BY <2>clear DEF Clear
      <4>2. [row[req[r].at] EXCEPT !.next = None] \in Rows
        <5>1. row[req[r].at] \in Rows
          BY <2>clear, <1>req DEF Clear
        <5> QED
          BY <5>1 DEF Rows
      <4> QED
        BY <4>1, <4>2
    <3> QED
      BY <2>clear, <3>1, <3>2 DEF Clear
  <2>read. CASE ReadHeir(r) \/ Unrow(r)
    BY <2>read, <1>delete
  <2> QED
    BY <1>rewrite, <2>begin, <2>look, <2>check, <2>admit, <2>interrupt, <2>settle, <2>copy, <2>create, <2>mark,
       <2>find, <2>branch, <2>reach, <2>send, <2>clear, <2>read DEF Rewrite
<1>deletion. ASSUME NEW d \in Deletes, Delete(d) PROVE Typed'
  <2>d. d \in Requests /\ req[d] \in RequestType /\ d \notin Rewrites
    BY <1>req, RewriteAssumption DEF Requests
  <2> USE <1>old, <1>steps, <2>d DEF db, memory, bounds
  <2>close. CASE CloseDeleted(d)
    <3>1. PICK s \in Known : /\ req' = [req EXCEPT ![d].pc = "find", ![d].at = s]
                             /\ turn' = [turn EXCEPT ![s] = "off"] /\ tray' = [tray EXCEPT ![s] = {}]
                             /\ asking' = asking \ {s}
      BY <2>close DEF CloseDeleted
    <3>2. [req[d] EXCEPT !.pc = "find", !.at = s] \in RequestType
      BY <1>origins DEF RequestType
    <3>3. req' \in [Requests -> RequestType]
      BY <3>1, <3>2
    <3> QED
      BY <2>close, <3>1, <3>3 DEF CloseDeleted
  <2>text. CASE DeleteText(d) \/ DeleteLog(d)
    <3>1. req' \in [Requests -> RequestType]
      BY <2>text, Going DEF DeleteText, DeleteLog
    <3> QED
      BY <2>text, <3>1 DEF DeleteText, DeleteLog
  <2>read. CASE ReadHeir(d) \/ Unrow(d)
    BY <2>read, <1>delete
  <2> QED
    BY <1>deletion, <2>close, <2>text, <2>read DEF Delete
<1>sending. ASSUME NEW q \in Sends, Send(q) PROVE Typed'
  <2>q. q \in Requests /\ req[q] \in RequestType
    BY <1>req DEF Requests
  <2> USE <1>old, <1>steps, <2>q DEF db, memory, bounds
  <2>admit. CASE AdmitSend(q)
    <3>1. PICK s \in Known :
             \/ /\ req' = [req EXCEPT ![q].pc = "connect", ![q].at = s]
                /\ admission' = [admission EXCEPT ![s] = q]
             \/ /\ req' = [req EXCEPT ![q].pc = "refused", ![q].at = s, ![q].why = "superseded"]
                /\ UNCHANGED admission
      BY <2>admit DEF AdmitSend
    <3>2. /\ [req[q] EXCEPT !.pc = "connect", !.at = s] \in RequestType
          /\ [req[q] EXCEPT !.pc = "refused", !.at = s, !.why = "superseded"] \in RequestType
      BY <1>origins DEF RequestType
    <3> DEFINE In == [req[q] EXCEPT !.pc = "connect", !.at = s]
               Out == [req[q] EXCEPT !.pc = "refused", !.at = s, !.why = "superseded"]
    <3>3. \/ req' = [req EXCEPT ![q] = In] /\ admission' = [admission EXCEPT ![s] = q]
          \/ req' = [req EXCEPT ![q] = Out] /\ UNCHANGED admission
      BY <3>1
    <3>typed. In \in RequestType /\ Out \in RequestType
      BY <3>2
    <3> HIDE DEF In, Out
    <3>4. req' \in [Requests -> RequestType] /\ admission' \in [Sessions -> {Nobody} \cup Requests]
      BY <3>typed, <3>3
    <3> QED
      BY <2>admit, <3>4 DEF AdmitSend
  <2>connect. CASE ConnectSend(q)
    <3>1. req' \in [Requests -> RequestType] /\ admission' \in [Sessions -> {Nobody} \cup Requests]
      BY <2>connect, Going, Ending DEF ConnectSend, Connect, Refuse
    <3> QED
      BY <2>connect, <3>1, <1>fails DEF ConnectSend, Connect
  <2>send. CASE DeliverSend(q)
    <3>1. \/ Refuse(q, "failed")
          \/ /\ req' = [req EXCEPT ![q].pc = "accepted"]
             /\ admission' = [t \in Sessions |-> IF admission[t] = q THEN Nobody ELSE admission[t]]
      BY <2>send DEF DeliverSend, Deliver
    <3>2. req' \in [Requests -> RequestType] /\ admission' \in [Sessions -> {Nobody} \cup Requests]
      <4>1. CASE Refuse(q, "failed")
        BY <4>1, Ending DEF Refuse
      <4>2. CASE ~ Refuse(q, "failed")
        BY <3>1, <4>2, Going DEF Goto
      <4> QED
        BY <4>1, <4>2
    <3> QED
      BY <2>send, <3>2, <1>fails DEF DeliverSend, Deliver
  <2> QED
    BY <1>sending, <2>admit, <2>connect, <2>send DEF Send
<1>agent. ASSUME NEW s \in Sessions, Agent(s) PROVE Typed'
  BY <1>agent, <1>old DEF Agent, Take, TurnEnds, Ask, Answer, Evict, db, bounds
<1>crash. ASSUME Crash PROVE Typed'
  <2>1. req' \in [Requests -> RequestType]
    <3> DEFINE After(q) == IF req[q].pc \in Steps THEN [req[q] EXCEPT !.pc = "lost"] ELSE req[q]
    <3>1. req' = [q \in Requests |-> After(q)]
      BY <1>crash DEF Crash
    <3>2. ASSUME NEW q \in Requests PROVE After(q) \in RequestType
      BY <1>req, <1>steps, PlaceTyped
    <3> HIDE DEF After
    <3> QED
      BY <3>1, <3>2
  <2> QED
    BY <1>crash, <2>1, <1>old, RewriteAssumption DEF Crash, db
<1>same. ASSUME UNCHANGED vars PROVE Typed'
  BY <1>same, <1>old DEF vars
<1> QED
  BY <1>new, <1>rewrite, <1>deletion, <1>sending, <1>agent, <1>crash, <1>same DEF Next, Done

-----------------------------------------------------------------------------
(* How a request moves. *)
Alone(q) == \A other \in Requests : other # q => req'[other] = req[other]
Stays(q) == req'[q].at = req[q].at /\ req'[q].new = req[q].new /\ req'[q].anchor = req[q].anchor

Starts(r) == req[r].pc = "new" /\ req'[r].pc = "look" /\ req'[r].at \in Known /\ req'[r].new = req[r].new
             /\ req'[r].heir = req[r].heir /\ used' = used
             /\ (r \in Keyed => req'[r].at = 1 /\ \A k \in Keyed : req[k].pc \notin Steps)
JoinsBranch(r) == req[r].pc = "look" /\ req'[r].pc = "accepted" /\ req'[r].at = req[r].at
             /\ req'[r].new = row[req[r].at].next /\ req'[r].new # None /\ HasKey(req'[r].new)
             /\ req'[r].heir = req[r].heir /\ used' = used
Copies(r) == req[r].pc = "copy" /\ req'[r].pc \in {"create", "clear"} /\ req'[r].at = req[r].at
             /\ req'[r].new = used + 1 /\ req'[r].heir = req[r].heir /\ used' = used + 1
Goes(r) == /\ req[r].pc \in Steps /\ Stays(r) /\ used' = used
           /\ req'[r].heir = req[r].heir \/ (req[r].pc = "read" /\ req'[r].heir = row[Doomed(r)].next)
           /\ \/ req'[r].pc = "refused"
              \/ req'[r].pc = "accepted" /\ req[r].pc = "send"
              \/ req[r].pc \in Branched /\ req'[r].pc \in Branched
              \/ req[r].pc \notin Branched /\ req'[r].pc \in Steps \ Branched

(* What one step may change of one request. *)
OnlyPlace(q, pc) == /\ Alone(q) /\ Stays(q) /\ req'[q].heir = req[q].heir /\ req'[q].pc = pc
LEMMA Going1 ==
  ASSUME TypeOK, NEW q \in Requests
  PROVE  /\ \A pc : Goto(q, pc) => OnlyPlace(q, pc) /\ req'[q].placed = req[q].placed
         /\ \A pc, why : End(q, pc, why) => OnlyPlace(q, pc)
         /\ \A why : Refuse(q, why) => OnlyPlace(q, "refused")
<1>req. req \in [Requests -> RequestType] /\ req[q] \in RequestType
  BY DEF TypeOK, RequestType, Places, Reasons
<1>go. ASSUME NEW pc, Goto(q, pc) PROVE OnlyPlace(q, pc) /\ req'[q].placed = req[q].placed
  BY <1>req, <1>go DEF Goto, OnlyPlace, Alone, Stays, RequestType
<1>end. ASSUME NEW pc, NEW why, End(q, pc, why) PROVE OnlyPlace(q, pc)
  BY <1>req, <1>end DEF End, OnlyPlace, Alone, Stays, RequestType
<1> QED
  BY <1>go, <1>end DEF Refuse

LEMMA RewriteMoves ==
  ASSUME BaseInv, NEW r \in Rewrites, Rewrite(r)
  PROVE  Alone(r) /\ (Starts(r) \/ JoinsBranch(r) \/ Copies(r) \/ Goes(r))
<1>r. r \in Requests /\ r \notin Sends /\ r \notin Deletes
  BY RewriteAssumption DEF Requests
<1>req. req \in [Requests -> RequestType]
  BY DEF BaseInv, TypeOK, RequestType, Places, Reasons
<1>rec. req[r] \in RequestType
  BY <1>r, <1>req
<1>none. req[r].new = None \/ req[r].pc # "copy"
  BY DEF BaseInv, PlaceInv, BranchStands, Branched, Published, Withdrawing, Over
<1> USE <1>r, <1>req DEF Alone, bounds, Steps, Branched, Published, Withdrawing
<1>begin. CASE Begin(r)
  <2>1. PICK s \in Known, a \in Anchors : /\ req' = [req EXCEPT ![r].pc = "look", ![r].at = s, ![r].anchor = a]
                                         /\ r \in Keyed => s = 1
    BY <1>begin DEF Begin
  <2>2. r \in Keyed => \A k \in Keyed : req[k].pc \notin Steps
    BY <1>begin DEF Begin, Waiting, Over
  <2> QED
    BY <1>begin, <2>1, <2>2 DEF Begin, Starts
<1>go. /\ \A pc : Goto(r, pc) => OnlyPlace(r, pc)
       /\ \A why : Refuse(r, why) => OnlyPlace(r, "refused")
  BY Going1 DEF BaseInv
<1>ahead. ASSUME NEW pc, OnlyPlace(r, pc), used' = used,
                 \/ pc = "refused" /\ req[r].pc \in Steps
                 \/ pc = "accepted" /\ req[r].pc = "send"
                 \/ req[r].pc \in Branched /\ pc \in Branched
                 \/ req[r].pc \in Steps \ Branched /\ pc \in Steps \ Branched
          PROVE  Alone(r) /\ Goes(r)
  BY <1>ahead DEF OnlyPlace, Goes
<1>look. CASE Look(r)
  <2>1. CASE Refuse(r, "gone") \/ Refuse(r, "superseded") \/ Goto(r, "check")
    BY <2>1, <1>look, <1>go, <1>ahead DEF Look
  <2>2. CASE ~(Refuse(r, "gone") \/ Refuse(r, "superseded") \/ Goto(r, "check"))
    <3>1. /\ req' = [req EXCEPT ![r].pc = "accepted", ![r].new = row[req[r].at].next]
          /\ row[req[r].at].next # None /\ HasKey(row[req[r].at].next) /\ used' = used /\ UNCHANGED <<tray, log>>
          /\ req[r].pc = "look"
      BY <2>2, <1>look DEF Look, db, memory
    <3>2. req'[r].pc = "accepted" /\ req'[r].new = row[req[r].at].next /\ Alone(r)
          /\ req'[r].at = req[r].at /\ req'[r].heir = req[r].heir
      BY <3>1, <1>rec DEF RequestType
    <3> QED
      BY <3>1, <3>2 DEF JoinsBranch
  <2> QED
    BY <2>1, <2>2
<1>check. CASE Check(r) \/ Admit(r) \/ Settle(r)
  BY <1>check, <1>go, <1>ahead DEF Check, Admit, Settle
<1>interrupt. CASE Interrupt(r)
  BY <1>interrupt, <1>go, <1>ahead DEF Interrupt
<1>copy. CASE Copy(r)
  <2>1. CASE (Refuse(r, "gone") \/ Refuse(r, "anchor")) /\ used' = used
    BY <2>1, <1>copy, <1>go, <1>ahead DEF Copy
  <2>2. CASE ~((Refuse(r, "gone") \/ Refuse(r, "anchor")) /\ used' = used)
    <3>1. /\ \/ req' = [req EXCEPT ![r].pc = "create", ![r].new = used + 1]
             \/ req' = [req EXCEPT ![r].pc = "clear", ![r].new = used + 1, ![r].placed = TRUE, ![r].why = "failed"]
          /\ used' = used + 1 /\ req[r].pc = "copy"
      BY <2>2, <1>copy DEF Copy
    <3>2. req'[r].pc \in {"create", "clear"} /\ req'[r].new = used + 1 /\ Alone(r)
          /\ req'[r].at = req[r].at /\ req'[r].heir = req[r].heir
      BY <3>1, <1>rec DEF RequestType
    <3> QED
      BY <3>1, <3>2 DEF Copies
  <2> QED
    BY <2>1, <2>2
<1>create. CASE Create(r) \/ Mark(r)
  <2>1. \/ Goto(r, "mark") \/ Goto(r, "meta")
        \/ req' = [req EXCEPT ![r].pc = "clear", ![r].placed = TRUE, ![r].why = "failed"]
        \/ req' = [req EXCEPT ![r].pc = "clear", ![r].placed = TRUE, ![r].why = "superseded"]
    BY <1>create DEF Create, Mark
  <2>2. OnlyPlace(r, "mark") \/ OnlyPlace(r, "meta") \/ OnlyPlace(r, "clear")
    <3>1. CASE Goto(r, "mark") \/ Goto(r, "meta")
      BY <3>1, <1>go
    <3>2. CASE ~(Goto(r, "mark") \/ Goto(r, "meta"))
      BY <2>1, <3>2, <1>rec DEF OnlyPlace, Stays, RequestType
    <3> QED
      BY <3>1, <3>2
  <2> QED
    BY <1>create, <2>2, <1>ahead DEF Create, Mark
<1>reach. CASE FindRow(r) \/ Reach(r)
  BY <1>reach, <1>go, <1>ahead DEF FindRow, Reach, Connect
<1>send. CASE Dispatch(r)
  <2>1. Goto(r, "close") \/ Goto(r, "accepted")
    BY <1>send DEF Dispatch, Deliver, Goto
  <2> QED
    BY <2>1, <1>send, <1>go, <1>ahead DEF Dispatch
<1>withdraw. CASE CloseBranch(r) \/ UnlogBranch(r) \/ Clear(r) \/ Untext(r)
  BY <1>withdraw, <1>go, <1>ahead DEF CloseBranch, UnlogBranch, Clear, Untext
<1>find. CASE FindBranch(r)
  BY <1>find DEF FindBranch, Goes, Stays
<1>read. CASE ReadHeir(r)
  BY <1>read DEF ReadHeir, Goes, Stays
<1>unrow. CASE Unrow(r)
  BY <1>unrow, <1>go, <1>ahead DEF Unrow
<1> QED
  BY <1>begin, <1>look, <1>check, <1>interrupt, <1>copy, <1>create, <1>reach, <1>send, <1>withdraw,
     <1>find, <1>read, <1>unrow DEF Rewrite

DeleteStarts(d) == req[d].pc = "new" /\ req'[d].pc = "find" /\ req'[d].at \in Known /\ req'[d].heir = req[d].heir
DeleteGoes(d) == /\ req[d].pc \in Steps /\ Stays(d)
                 /\ req'[d].heir = req[d].heir \/ (req[d].pc = "read" /\ req'[d].heir = row[Doomed(d)].next)
                 /\ req'[d].pc \in {"unlog", "read", "unrow", "accepted"}

LEMMA DeleteMoves ==
  ASSUME BaseInv, NEW d \in Deletes, Delete(d)
  PROVE  Alone(d) /\ used' = used /\ (DeleteStarts(d) \/ DeleteGoes(d))
<1>d. d \in Requests /\ d \notin Rewrites
  BY RewriteAssumption DEF Requests
<1>req. req \in [Requests -> RequestType]
  BY DEF BaseInv, TypeOK, RequestType, Places, Reasons
<1> USE <1>d, <1>req DEF Alone, Steps, Stays
<1>close. CASE CloseDeleted(d)
  <2>1. PICK s \in Known : req' = [req EXCEPT ![d].pc = "find", ![d].at = s]
    BY <1>close DEF CloseDeleted
  <2> QED
    BY <1>close, <2>1 DEF CloseDeleted, DeleteStarts
<1>go. /\ \A pc : Goto(d, pc) => OnlyPlace(d, pc)
       /\ \A pc, why : End(d, pc, why) => OnlyPlace(d, pc)
  BY Going1 DEF BaseInv
<1>text. CASE DeleteText(d) \/ DeleteLog(d)
  BY <1>text, <1>go DEF DeleteText, DeleteLog, DeleteGoes, OnlyPlace
<1>read. CASE ReadHeir(d)
  BY <1>read DEF ReadHeir, DeleteGoes
<1>unrow. CASE Unrow(d)
  BY <1>unrow, <1>go DEF Unrow, DeleteGoes, OnlyPlace
<1> QED
  BY <1>close, <1>text, <1>read, <1>unrow DEF Delete

SendStarts(q) == /\ req[q].pc = "new" /\ req'[q].pc \in {"connect", "refused"} /\ req'[q].at \in Known
                 /\ req'[q].heir = req[q].heir
SendGoes(q) == /\ req[q].pc \in {"connect", "send"} /\ Stays(q) /\ req'[q].heir = req[q].heir
               /\ req'[q].pc \in {"send", "refused", "accepted"}

LEMMA SendMoves ==
  ASSUME BaseInv, NEW q \in Sends, Send(q)
  PROVE  Alone(q) /\ used' = used /\ (SendStarts(q) \/ SendGoes(q))
<1>q. q \in Requests
  BY DEF Requests
<1>req. req \in [Requests -> RequestType]
  BY DEF BaseInv, TypeOK, RequestType, Places, Reasons
<1>rec. req[q] \in RequestType
  BY <1>q, <1>req
<1> USE <1>q, <1>req DEF Alone, Stays
<1>admit. CASE AdmitSend(q)
  <2>1. PICK s \in Known : \/ req' = [req EXCEPT ![q].pc = "connect", ![q].at = s]
                           \/ req' = [req EXCEPT ![q].pc = "refused", ![q].at = s, ![q].why = "superseded"]
    BY <1>admit DEF AdmitSend
  <2> QED
    <3>1. req'[q].pc \in {"connect", "refused"} /\ req'[q].at = s /\ req'[q].heir = req[q].heir /\ Alone(q)
      BY <2>1, <1>rec DEF RequestType
    <3> QED
      BY <1>admit, <3>1 DEF AdmitSend, SendStarts
<1>go. /\ \A pc : Goto(q, pc) => OnlyPlace(q, pc)
       /\ \A why : Refuse(q, why) => OnlyPlace(q, "refused")
  BY Going1 DEF BaseInv
<1>connect. CASE ConnectSend(q)
  BY <1>connect, <1>go DEF ConnectSend, Connect, SendGoes, OnlyPlace
<1>send. CASE DeliverSend(q)
  <2>1. Refuse(q, "failed") \/ Goto(q, "accepted")
    BY <1>send DEF DeliverSend, Deliver, Goto
  <2> QED
    BY <2>1, <1>send, <1>go DEF DeliverSend, SendGoes, OnlyPlace
<1> QED
  BY <1>admit, <1>connect, <1>send DEF Send

LEMMA CrashMoves ==
  ASSUME BaseInv, Crash, NEW q \in Requests
  PROVE  /\ used' = used
         /\ req[q].pc \notin Steps => req'[q] = req[q]
         /\ req[q].pc \in Steps => Stays(q) /\ req'[q].heir = req[q].heir /\ req'[q].pc = "lost"
<1>1. req' = [p \in Requests |-> IF req[p].pc \in Steps THEN [req[p] EXCEPT !.pc = "lost"] ELSE req[p]]
  BY DEF Crash
<1>2. req'[q] = IF req[q].pc \in Steps THEN [req[q] EXCEPT !.pc = "lost"] ELSE req[q]
  BY <1>1
<1>3. req[q] \in RequestType
  BY DEF BaseInv, TypeOK, RequestType, Places, Reasons
<1> QED
  BY <1>2, <1>3 DEF Stays, RequestType, Crash

Lost(q) == req[q].pc \in Steps /\ Stays(q) /\ req'[q].heir = req[q].heir /\ req'[q].pc = "lost"
Moves(q) ==
    \/ req'[q] = req[q]
    \/ q \in Rewrites /\ (Starts(q) \/ JoinsBranch(q) \/ Copies(q) \/ Goes(q))
    \/ q \in Deletes /\ (DeleteStarts(q) \/ DeleteGoes(q))
    \/ q \in Sends /\ (SendStarts(q) \/ SendGoes(q))
    \/ Lost(q)

LEMMA EveryoneMoves ==
  ASSUME BaseInv, [Next]_vars
  PROVE  /\ \A q \in Requests : Moves(q)
         /\ used' = used \/ \E r \in Rewrites : Copies(r) /\ Alone(r)
         /\ \A q \in Requests : Alone(q) \/ Lost(q) \/ req'[q] = req[q]
<1> USE DEF Alone, Moves
<1>kinds. Rewrites \subseteq Requests /\ Deletes \subseteq Requests /\ Sends \subseteq Requests
  BY DEF Requests
<1>rewrite. ASSUME NEW r \in Rewrites, Rewrite(r) PROVE
       /\ \A q \in Requests : Moves(q)
       /\ used' = used \/ \E x \in Rewrites : Copies(x) /\ Alone(x)
       /\ \A q \in Requests : Alone(q) \/ Lost(q) \/ req'[q] = req[q]
  <2>1. Alone(r) /\ (Starts(r) \/ JoinsBranch(r) \/ Copies(r) \/ Goes(r))
    BY <1>rewrite, RewriteMoves
  <2>2. used' = used \/ Copies(r)
    BY <2>1 DEF Starts, JoinsBranch, Goes
  <2> QED
    BY <2>1, <2>2, <1>kinds
<1>delete. ASSUME NEW d \in Deletes, Delete(d) PROVE
       /\ \A q \in Requests : Moves(q)
       /\ used' = used
       /\ \A q \in Requests : Alone(q) \/ Lost(q) \/ req'[q] = req[q]
  BY <1>delete, <1>kinds, DeleteMoves
<1>send. ASSUME NEW m \in Sends, Send(m) PROVE
       /\ \A q \in Requests : Moves(q)
       /\ used' = used
       /\ \A q \in Requests : Alone(q) \/ Lost(q) \/ req'[q] = req[q]
  BY <1>send, <1>kinds, SendMoves
<1>crash. ASSUME Crash PROVE used' = used /\ \A q \in Requests : Lost(q) \/ req'[q] = req[q]
  BY <1>crash, CrashMoves DEF Lost, Crash
<1>quiet. ASSUME UNCHANGED vars \/ \E s \in Sessions : Agent(s) PROVE UNCHANGED <<req, used>>
  BY <1>quiet DEF vars, Agent, Take, TurnEnds, Ask, Answer, Evict
<1> QED
  BY <1>rewrite, <1>delete, <1>send, <1>crash, <1>quiet DEF Next, Done

(* How the stores of a session change. *)
TrayMoves(s) ==
    \/ tray'[s] \subseteq tray[s]
    \/ \E r \in Rewrites : /\ s = req[r].new /\ req[r].pc = "send" /\ req'[r].pc = "accepted" /\ Stays(r) /\ Alone(r)
                           /\ tray'[s] = tray[s] \cup {r}
    \/ \E q \in Sends : /\ s = req[q].at /\ req[q].pc = "send" /\ req'[q].pc = "accepted" /\ Stays(q) /\ Alone(q)
                        /\ tray'[s] = tray[s] \cup {q}
RowMoves(s) ==
    \/ row'[s] = row[s]
    \/ \E r \in Rewrites : /\ Create(r) /\ s = req[r].new /\ row'[s].there /\ row'[s].next = None
    \/ \E r \in Rewrites : /\ Mark(r) /\ s = req[r].at /\ row[s].there /\ row[s].next = None /\ req'[r].pc = "meta"
                           /\ row'[s].there /\ row'[s].next = req[r].new
    \/ \E r \in Rewrites : /\ Clear(r) /\ s = req[r].at /\ row[s].next = req[r].new /\ row'[s].next = None
                           /\ row'[s].there = row[s].there
    \/ \E q \in Requests : Unrow(q) /\ s = Doomed(q) /\ row'[s] = NoRow
    \/ \E q \in Requests : /\ Unrow(q) /\ row[s].there /\ row[s].next = Doomed(q) /\ row'[s].there
                           /\ row'[s].next = req[q].heir

LEMMA TrayKnown ==
  ASSUME BaseInv, [Next]_vars, NEW s \in Sessions
  PROVE  TrayMoves(s) /\ log'[s] \subseteq log[s] \cup tray[s]
<1>old. /\ log \in [Sessions -> SUBSET Requests] /\ tray \in [Sessions -> SUBSET Requests]
  BY DEF BaseInv, TypeOK
<1> USE <1>old DEF TrayMoves, db, memory
<1>rewrite. ASSUME NEW r \in Rewrites, Rewrite(r) PROVE TrayMoves(s) /\ log'[s] \subseteq log[s] \cup tray[s]
  <2>early. CASE Begin(r) \/ Look(r) \/ Check(r) \/ Admit(r) \/ Interrupt(r) \/ Settle(r)
    BY <2>early DEF Begin, Look, Check, Admit, Interrupt, Settle
  <2>copy. CASE Copy(r) \/ Create(r) \/ Mark(r) \/ FindRow(r) \/ Reach(r)
    BY <2>copy DEF Copy, Create, Mark, FindRow, Reach
  <2>late. CASE CloseBranch(r) \/ UnlogBranch(r) \/ FindBranch(r) \/ Clear(r) \/ Untext(r) \/ ReadHeir(r) \/ Unrow(r)
    BY <2>late DEF CloseBranch, UnlogBranch, FindBranch, Clear, Untext, ReadHeir, Unrow
  <2>send. CASE Dispatch(r)
    <3>1. CASE tray' = [tray EXCEPT ![req[r].new] = @ \cup {r}] /\ req' = [req EXCEPT ![r].pc = "accepted"]
      <4>1. OnlyPlace(r, "accepted")
        BY <3>1, Going1 DEF Goto, BaseInv, Requests
      <4> QED
        BY <3>1, <4>1, <2>send DEF Dispatch, OnlyPlace
    <3>2. CASE UNCHANGED tray
      BY <3>2, <2>send DEF Dispatch
    <3> QED
      BY <2>send, <3>1, <3>2 DEF Dispatch, Deliver
  <2> QED
    BY SMTT(30), <1>rewrite, <2>early, <2>copy, <2>late, <2>send DEF Rewrite
<1>delete. ASSUME NEW d \in Deletes, Delete(d) PROVE TrayMoves(s) /\ log'[s] \subseteq log[s] \cup tray[s]
  BY <1>delete DEF Delete, CloseDeleted, DeleteText, DeleteLog, ReadHeir, Unrow
<1>send. ASSUME NEW q \in Sends, Send(q) PROVE TrayMoves(s) /\ log'[s] \subseteq log[s] \cup tray[s]
  <2>early. CASE AdmitSend(q) \/ ConnectSend(q)
    BY <2>early DEF AdmitSend, ConnectSend
  <2>send. CASE DeliverSend(q)
    <3>1. CASE tray' = [tray EXCEPT ![req[q].at] = @ \cup {q}] /\ req' = [req EXCEPT ![q].pc = "accepted"]
      <4>1. OnlyPlace(q, "accepted")
        BY <3>1, Going1 DEF Goto, BaseInv, Requests
      <4> QED
        BY <3>1, <4>1, <2>send DEF DeliverSend, OnlyPlace
    <3>2. CASE UNCHANGED tray
      BY <3>2, <2>send DEF DeliverSend
    <3> QED
      BY <2>send, <3>1, <3>2 DEF DeliverSend, Deliver
  <2> QED
    BY <1>send, <2>early, <2>send DEF Send
<1>agent. ASSUME NEW t \in Sessions, Agent(t) PROVE TrayMoves(s) /\ log'[s] \subseteq log[s] \cup tray[s]
  BY <1>agent DEF Agent, Take, TurnEnds, Ask, Answer, Evict
<1>crash. ASSUME Crash PROVE TrayMoves(s) /\ log'[s] \subseteq log[s] \cup tray[s]
  BY <1>crash DEF Crash
<1>same. ASSUME UNCHANGED vars PROVE TrayMoves(s) /\ log'[s] \subseteq log[s] \cup tray[s]
  BY <1>same DEF vars
<1> QED
  BY <1>rewrite, <1>delete, <1>send, <1>agent, <1>crash, <1>same DEF Next, Done

LEMMA RowKnown ==
  ASSUME BaseInv, [Next]_vars, NEW s \in Sessions
  PROVE  RowMoves(s)
<1>old. row \in [Sessions -> Rows]
  BY DEF BaseInv, TypeOK, Rows
<1>s. row[s] = [there |-> row[s].there, next |-> row[s].next, parent |-> row[s].parent]
  BY <1>old DEF Rows
<1> USE <1>old DEF db
<1>same. row' = row => RowMoves(s)
  BY DEF RowMoves
<1>unrow. ASSUME NEW q \in Requests, Unrow(q) PROVE RowMoves(s)
  <2>1. row'[s] = IF s = Doomed(q) THEN NoRow
                  ELSE IF row[s].there /\ row[s].next = Doomed(q) THEN [row[s] EXCEPT !.next = req[q].heir]
                  ELSE row[s]
    BY <1>unrow DEF Unrow
  <2>2. LET r == [row[s] EXCEPT !.next = req[q].heir] IN r.there = row[s].there /\ r.next = req[q].heir
    BY <1>s
  <2> QED
    BY <2>1, <2>2, <1>unrow DEF RowMoves
<1>rewrite. ASSUME NEW r \in Rewrites, Rewrite(r) PROVE RowMoves(s)
  <2>quiet. CASE \/ Begin(r) \/ Look(r) \/ Check(r) \/ Admit(r) \/ Interrupt(r) \/ Settle(r)
                 \/ Copy(r) \/ FindRow(r) \/ Reach(r) \/ Dispatch(r)
                 \/ CloseBranch(r) \/ UnlogBranch(r) \/ FindBranch(r) \/ Untext(r) \/ ReadHeir(r)
    <3>begin. Begin(r) => row' = row
      BY DEF Begin
    <3>look. Look(r) \/ Check(r) \/ Admit(r) \/ Interrupt(r) \/ Settle(r) => row' = row
      BY DEF Look, Check, Admit, Interrupt, Settle
    <3>copy. Copy(r) \/ FindRow(r) \/ Reach(r) \/ Dispatch(r) => row' = row
      BY DEF Copy, FindRow, Reach, Dispatch
    <3>close. CloseBranch(r) \/ UnlogBranch(r) \/ FindBranch(r) \/ Untext(r) \/ ReadHeir(r) => row' = row
      BY DEF CloseBranch, UnlogBranch, FindBranch, Untext, ReadHeir
    <3> QED
      BY <2>quiet, <3>begin, <3>look, <3>copy, <3>close, <1>same
  <2>create. CASE Create(r)
    <3> DEFINE branch == [there |-> TRUE, next |-> None, parent |-> req[r].at]
    <3>1. row' = [row EXCEPT ![req[r].new] = branch] \/ row' = row
      BY <2>create DEF Create
    <3>2. branch.there /\ branch.next = None
      OBVIOUS
    <3> HIDE DEF branch
    <3>3. row'[s] = row[s] \/ (s = req[r].new /\ row'[s] = branch)
      BY <3>1
    <3> QED
      BY <2>create, <3>2, <3>3 DEF RowMoves
  <2>mark. CASE Mark(r)
    <3>1. CASE row' = [row EXCEPT ![req[r].at].next = req[r].new] /\ Goto(r, "meta")
                /\ row[req[r].at].there /\ row[req[r].at].next = None
      <4>1. req'[r].pc = "meta"
        BY <3>1, Going1 DEF BaseInv, Requests, OnlyPlace
      <4> QED
        <5>1. row'[s] = row[s] \/ (s = req[r].at /\ row'[s].there = row[s].there /\ row'[s].next = req[r].new)
          BY <3>1, <1>s
        <5> QED
          BY <2>mark, <3>1, <4>1, <5>1 DEF RowMoves
    <3>2. CASE row' = row
      BY <3>2, <1>same
    <3> QED
      BY <2>mark, <3>1, <3>2 DEF Mark
  <2>clear. CASE Clear(r)
    <3>1. CASE row[req[r].at].next = req[r].new /\ row' = [row EXCEPT ![req[r].at].next = None]
      <4>1. row'[s] = row[s] \/ (s = req[r].at /\ row'[s].there = row[s].there /\ row'[s].next = None)
        BY <3>1, <1>s
      <4> QED
        BY <2>clear, <3>1, <4>1 DEF RowMoves
    <3>2. CASE row' = row
      BY <3>2, <1>same
    <3> QED
      BY <2>clear, <3>1, <3>2 DEF Clear
  <2>unrow. CASE Unrow(r)
    BY <2>unrow, <1>unrow DEF Requests
  <2> QED
    BY <1>rewrite, <2>quiet, <2>create, <2>mark, <2>clear, <2>unrow DEF Rewrite
<1>delete. ASSUME NEW d \in Deletes, Delete(d) PROVE RowMoves(s)
  <2>1. CASE Unrow(d)
    BY <2>1, <1>unrow DEF Requests
  <2>2. CASE ~Unrow(d)
    <3>1. row' = row
      BY <2>2, <1>delete DEF Delete, CloseDeleted, DeleteText, DeleteLog, ReadHeir
    <3> QED
      BY <3>1, <1>same
  <2> QED
    BY <2>1, <2>2
<1>send. ASSUME NEW q \in Sends, Send(q) PROVE RowMoves(s)
  <2>1. row' = row
    BY <1>send DEF Send, AdmitSend, ConnectSend, DeliverSend
  <2> QED
    BY <2>1, <1>same
<1>agent. ASSUME NEW t \in Sessions, Agent(t) PROVE RowMoves(s)
  <2>1. row' = row
    BY <1>agent DEF Agent, Take, TurnEnds, Ask, Answer, Evict
  <2> QED
    BY <2>1, <1>same
<1>rest. Crash \/ UNCHANGED vars => RowMoves(s)
  BY <1>same DEF Crash, vars
<1> QED
  BY <1>rewrite, <1>delete, <1>send, <1>agent, <1>rest DEF Next, Done

TurnMoves(s) ==
    \/ turn'[s] \in {turn[s], "off"} \/ turn[s] # "off"
    \/ \E r \in Rewrites : /\ s = req[r].new /\ req[r].pc \in {"connect", "send"}
                           /\ req'[r].pc \in {"send", "close", "accepted"} /\ Alone(r) /\ Stays(r)
    \/ \E q \in Sends : s = req[q].at /\ req[q].pc \in {"connect", "send"}
TextMoves(s) ==
    s \in text' => \/ s \in text
                   \/ tray[s] # {}
                   \/ s = used + 1 /\ \E r \in Rewrites : Copies(r) /\ Alone(r)

LEMMA TurnKnown ==
  ASSUME BaseInv, [Next]_vars, NEW s \in Sessions
  PROVE  TurnMoves(s)
<1>old. turn \in [Sessions -> {"off", "idle", "running", "error"}]
  BY DEF BaseInv, TypeOK
<1> USE <1>old DEF TurnMoves, db, memory
<1>rewrite. ASSUME NEW r \in Rewrites, Rewrite(r) PROVE TurnMoves(s)
  <2>quiet. CASE \/ Begin(r) \/ Look(r) \/ Check(r) \/ Admit(r) \/ Settle(r)
                 \/ Copy(r) \/ Create(r) \/ Mark(r) \/ FindRow(r)
                 \/ UnlogBranch(r) \/ FindBranch(r) \/ Clear(r) \/ Untext(r) \/ ReadHeir(r) \/ Unrow(r)
    <3>begin. Begin(r) => turn' = turn
      BY DEF Begin
    <3>look. Look(r) \/ Check(r) \/ Admit(r) \/ Settle(r) => turn' = turn
      BY DEF Look, Check, Admit, Settle
    <3>copy. Copy(r) \/ Create(r) \/ Mark(r) \/ FindRow(r) => turn' = turn
      BY DEF Copy, Create, Mark, FindRow
    <3>close. UnlogBranch(r) \/ FindBranch(r) \/ Clear(r) \/ Untext(r) \/ ReadHeir(r) => turn' = turn
      BY DEF UnlogBranch, FindBranch, Clear, Untext, ReadHeir
    <3>unrow. Unrow(r) => turn' = turn
      BY DEF Unrow
    <3> QED
      BY <2>quiet, <3>begin, <3>look, <3>copy, <3>close, <3>unrow
  <2>stop. CASE Interrupt(r) \/ CloseBranch(r)
    BY <2>stop DEF Interrupt, CloseBranch
  <2>reach. CASE Reach(r) \/ Dispatch(r)
    <3>1. Goto(r, "send") \/ Goto(r, "close") \/ Goto(r, "accepted")
      BY <2>reach DEF Reach, Connect, Dispatch, Deliver, Goto
    <3>2. req'[r].pc \in {"send", "close", "accepted"} /\ Alone(r) /\ Stays(r)
      BY <3>1, Going1 DEF BaseInv, Requests, OnlyPlace
    <3>3. turn'[s] = turn[s] \/ s = req[r].new
      BY <2>reach DEF Reach, Connect, Dispatch, Deliver
    <3>4. req[r].pc \in {"connect", "send"}
      BY <2>reach DEF Reach, Dispatch
    <3> QED
      BY <3>2, <3>3, <3>4
  <2> QED
    BY <1>rewrite, <2>quiet, <2>stop, <2>reach DEF Rewrite
<1>delete. ASSUME NEW d \in Deletes, Delete(d) PROVE TurnMoves(s)
  BY <1>delete DEF Delete, CloseDeleted, DeleteText, DeleteLog, ReadHeir, Unrow
<1>send. ASSUME NEW q \in Sends, Send(q) PROVE TurnMoves(s)
  <2>1. CASE AdmitSend(q)
    BY <2>1 DEF AdmitSend
  <2>2. CASE ConnectSend(q)
    BY <2>2 DEF ConnectSend, Connect
  <2>3. CASE DeliverSend(q)
    BY <2>3 DEF DeliverSend, Deliver
  <2> QED
    BY <1>send, <2>1, <2>2, <2>3 DEF Send
<1>agent. ASSUME NEW t \in Sessions, Agent(t) PROVE TurnMoves(s)
  BY <1>agent DEF Agent, Take, TurnEnds, Ask, Answer, Evict
<1>crash. ASSUME Crash PROVE TurnMoves(s)
  BY <1>crash DEF Crash
<1>same. ASSUME UNCHANGED vars PROVE TurnMoves(s)
  BY <1>same DEF vars
<1> QED
  BY <1>rewrite, <1>delete, <1>send, <1>agent, <1>crash, <1>same DEF Next, Done

LEMMA TextKnown ==
  ASSUME BaseInv, [Next]_vars, NEW s \in Sessions
  PROVE  TextMoves(s)
<1>old. text \subseteq Sessions
  BY DEF BaseInv, TypeOK
<1> USE <1>old DEF db
<1>grows. text' \subseteq text => TextMoves(s)
  BY DEF TextMoves
<1>rewrite. ASSUME NEW r \in Rewrites, Rewrite(r) PROVE TextMoves(s)
  <2>copy. CASE Copy(r)
    <3>1. text' \subseteq text \/ (text' \subseteq text \cup {used + 1} /\ req'[r].pc \in {"create", "clear"})
      <4>1. CASE text' = text
        BY <4>1
      <4>2. CASE text' # text
        <5>1. /\ \/ req' = [req EXCEPT ![r].pc = "create", ![r].new = used + 1]
                 \/ req' = [req EXCEPT ![r].pc = "clear", ![r].new = used + 1, ![r].placed = TRUE, ![r].why = "failed"]
              /\ text' \subseteq text \cup {used + 1}
          BY <2>copy, <4>2 DEF Copy
        <5>2. req \in [Requests -> RequestType] /\ r \in Requests /\ req[r] \in RequestType
          BY DEF BaseInv, TypeOK, RequestType, Places, Reasons, Requests
        <5>3. req'[r].pc \in {"create", "clear"}
          BY <5>1, <5>2 DEF RequestType
        <5> QED
          BY <5>1, <5>3
      <4> QED
        BY <4>1, <4>2
    <3>2. Alone(r) /\ (Starts(r) \/ JoinsBranch(r) \/ Copies(r) \/ Goes(r))
      BY <1>rewrite, RewriteMoves
    <3>3. req[r].pc = "copy"
      BY <2>copy DEF Copy
    <3>4. Copies(r) \/ req'[r].pc \notin {"create", "clear"}
      BY <3>2, <3>3 DEF Starts, JoinsBranch, Goes, Branched, Published, Withdrawing, Steps
    <3> QED
      BY <3>1, <3>2, <3>4, <1>grows DEF TextMoves
  <2>other. CASE ~Copy(r)
    <3>1. text' \subseteq text
      <4>1. CASE \/ Begin(r) \/ Look(r) \/ Check(r) \/ Admit(r) \/ Settle(r) \/ FindRow(r) \/ FindBranch(r) \/ ReadHeir(r)
        <5>1. UNCHANGED text
          <6>1. CASE Begin(r)
            BY <6>1 DEF Begin
          <6>look. CASE Look(r)
            BY <6>look DEF Look
          <6>2. CASE Check(r) \/ Admit(r) \/ Settle(r) \/ FindRow(r)
            BY <6>2 DEF Check, Admit, Settle, FindRow
          <6>3. CASE FindBranch(r) \/ ReadHeir(r)
            BY <6>3 DEF FindBranch, ReadHeir
          <6> QED
            BY <4>1, <6>1, <6>look, <6>2, <6>3
        <5> QED
          BY <5>1
      <4>3. CASE Interrupt(r) \/ Reach(r) \/ Dispatch(r)
        <5>1. UNCHANGED db
          BY <4>3 DEF Interrupt, Reach, Dispatch
        <5> QED
          BY <5>1
      <4>2. CASE \/ Create(r) \/ Mark(r) \/ CloseBranch(r) \/ UnlogBranch(r) \/ Clear(r) \/ Untext(r) \/ Unrow(r)
        BY <4>2 DEF Create, Mark, CloseBranch, UnlogBranch, Clear, Untext, Unrow
      <4> QED
        BY <2>other, <1>rewrite, <4>1, <4>2, <4>3 DEF Rewrite
    <3> QED
      BY <3>1, <1>grows
  <2> QED
    BY <2>copy, <2>other
<1>delete. ASSUME NEW d \in Deletes, Delete(d) PROVE TextMoves(s)
  <2>1. text' \subseteq text
    BY <1>delete DEF Delete, CloseDeleted, DeleteText, DeleteLog, ReadHeir, Unrow
  <2> QED
    BY <2>1, <1>grows
<1>send. ASSUME NEW q \in Sends, Send(q) PROVE TextMoves(s)
  <2>1. UNCHANGED text
    <3>1. CASE AdmitSend(q)
      BY <3>1 DEF AdmitSend
    <3>2. CASE ConnectSend(q) \/ DeliverSend(q)
      BY <3>2 DEF ConnectSend, DeliverSend
    <3> QED
      BY <1>send, <3>1, <3>2 DEF Send
  <2> QED
    BY <2>1, <1>grows
<1>rest. ASSUME (\E t \in Sessions : Agent(t)) \/ Crash \/ UNCHANGED vars PROVE TextMoves(s)
  <2>1. CASE \E t \in Sessions : Take(t)
    BY <2>1 DEF Take, TextMoves
  <2>2. CASE ~(\E t \in Sessions : Take(t))
    BY <2>2, <1>rest, <1>grows DEF Agent, TurnEnds, Ask, Answer, Evict, Crash, vars
  <2> QED
    BY <2>1, <2>2
<1> QED
  BY <1>rewrite, <1>delete, <1>send, <1>rest DEF Next, Done

-----------------------------------------------------------------------------
(* What is over stays so, hence a page forgets no session. *)
LEMMA KnownStays ==
  ASSUME BaseInv, [Next]_vars
  PROVE  /\ \A q \in Requests : req[q].pc \in Over => req'[q] = req[q]
         /\ \A s \in Known : s \in Known'
<1>1. ASSUME NEW q \in Requests, req[q].pc \in Over PROVE req'[q] = req[q]
  BY <1>1, EveryoneMoves DEF Moves, Starts, JoinsBranch, Copies, Goes, DeleteStarts, DeleteGoes, SendStarts, SendGoes,
     Lost, Over, Steps
<1> QED
  BY <1>1 DEF Known, Over, Requests

LEMMA PlacesKeep == ASSUME BaseInv, [Next]_vars, TypeOK' PROVE PlaceInv'
<1> USE DEF BaseInv
<1>kinds. /\ Rewrites \subseteq Requests /\ Deletes \subseteq Requests /\ Sends \subseteq Requests
          /\ Deletes \cap Rewrites = {} /\ Sends \cap Rewrites = {} /\ Sends \cap Deletes = {}
          /\ Keyed \subseteq Rewrites /\ Requests = Rewrites \cup Sends \cup Deletes
  BY RewriteAssumption DEF Requests, Rewrites
<1>move. \A q \in Requests : Moves(q)
  BY EveryoneMoves
<1>used. used' = used \/ \E r \in Rewrites : Copies(r) /\ Alone(r)
  BY EveryoneMoves
<1>over. \A q \in Requests : req[q].pc \in Over => req'[q] = req[q]
  BY KnownStays
<1>known. \A s \in Known : s \in Known'
  BY KnownStays
<1>type. /\ used \in Nat /\ Origins \in Nat /\ Origins # 0 /\ used' \in Nat
         /\ \A q \in Requests : req[q].new \in Nat /\ req[q].heir \in Nat /\ req[q].at \in {None} \cup Sessions
         /\ \A s \in Sessions : row[s].next \in Nat /\ s \in Nat
  BY RewriteAssumption DEF TypeOK, Sessions, None
<1>at. ASSUME NEW q \in Requests, req[q].pc \in Steps
       PROVE  req[q].at \in Sessions /\ req[q].at \in Known /\ req[q].at # None
  BY <1>at, <1>type DEF PlaceInv, AddressIsKnown
<1>joins. ASSUME NEW r \in Rewrites, JoinsBranch(r)
          PROVE  /\ Origins < req'[r].new /\ req'[r].new <= used /\ req'[r].new # None
                 /\ \E k \in Rewrites : req[k].pc = "accepted" /\ req[k].new = req'[r].new
  <2>1. req[r].at \in Sessions
    BY <1>at, <1>joins, <1>kinds DEF JoinsBranch, Steps
  <2>2. row[req[r].at].next # None /\ req'[r].new = row[req[r].at].next
    BY <1>joins DEF JoinsBranch
  <2>3. req'[r].new \in Sessions
    BY <2>1, <2>2 DEF TypeOK
  <2>4. PICK k \in Keyed : k \in tray[req'[r].new] \cup log[req'[r].new]
    BY <1>joins DEF JoinsBranch, HasKey
  <2>5. req[k].pc = "accepted" /\ req[k].new = req'[r].new
    BY <2>3, <2>4, <1>kinds DEF MessagesStand
  <2> QED
    BY <2>1, <2>2, <2>4, <2>5, <1>kinds DEF PlaceInv, PointersStand
<1>ids. IdsInOrder'
  <2> DEFINE Had == {r \in Rewrites : req[r].new # None}
  <2>finite. IsFiniteSet(Rewrites) /\ IsFiniteSet(Had) /\ IsFiniteSet(Had') /\ Cardinality(Had) \in Nat
             /\ Cardinality(Had') \in Nat
    <3>1. IsFiniteSet(Rewrites)
      BY RewriteAssumption, FS_Subset DEF Requests
    <3> QED
      BY <3>1, FS_Subset, FS_CardinalityType
  <2>1. Had \subseteq Had'
    BY <1>move, <1>kinds, <1>joins, <1>type DEF Moves, Starts, Copies, Goes, Stays, Lost, None
  <2>2. CASE used' = used
    <3>1. Cardinality(Had) <= Cardinality(Had')
      BY <2>1, <2>finite, FS_Subset
    <3>2. ASSUME NEW r \in Rewrites, req'[r].new # None PROVE Origins < req'[r].new /\ req'[r].new <= used
      <4>1. CASE JoinsBranch(r)
        BY <4>1, <1>joins
      <4>2. ~Copies(r)
        BY <2>2, <1>type DEF Copies
      <4>3. CASE ~JoinsBranch(r)
        BY <3>2, <4>2, <4>3, <1>move, <1>kinds DEF Moves, Starts, Goes, Stays, Lost, PlaceInv, IdsInOrder
      <4> QED
        BY <4>1, <4>3
    <3> QED
      BY <2>2, <3>1, <3>2, <2>finite, <1>type DEF PlaceInv, IdsInOrder
  <2>3. ASSUME NEW r \in Rewrites, Copies(r), Alone(r) PROVE IdsInOrder'
    <3>1. r \notin Had /\ used' = used + 1 /\ req'[r].new = used + 1
      BY <2>3 DEF Copies, PlaceInv, BranchStands, Branched, Published, Withdrawing, Over
    <3>2. Had' = Had \cup {r}
      BY <2>1, <2>3, <3>1, <1>kinds, <1>type DEF Alone, None
    <3>3. Cardinality(Had') = Cardinality(Had) + 1
      BY <3>1, <3>2, <2>finite, FS_AddElement
    <3>4. ASSUME NEW q \in Rewrites, req'[q].new # None PROVE Origins < req'[q].new /\ req'[q].new <= used + 1
      BY <2>3, <3>1, <3>4, <1>kinds, <1>type DEF Alone, PlaceInv, IdsInOrder
    <3> QED
      BY <3>1, <3>3, <3>4, <2>finite, <1>type DEF PlaceInv, IdsInOrder
  <2> QED
    BY <1>used, <2>2, <2>3
<1>branch. BranchStands'
  <2> SUFFICES ASSUME NEW r \in Rewrites
               PROVE  /\ req'[r].pc \in Branched \cup {"accepted"} => req'[r].new # None
                      /\ req'[r].pc \notin Branched \cup Over => req'[r].new = None
    BY DEF BranchStands
  <2> QED
    BY <1>move, <1>kinds, <1>joins, <1>type DEF Moves, Starts, JoinsBranch, Copies, Goes, Stays, Lost, PlaceInv, BranchStands,
       Branched, Published, Withdrawing, Over, Steps, None
<1>own. BranchIsOwn'
  <2> SUFFICES ASSUME NEW r \in Rewrites, NEW q \in Rewrites, r # q, req'[r].new = req'[q].new, req'[r].new # None
               PROVE  req'[r].pc = "accepted"
    BY DEF BranchIsOwn
  <2>bound. \A x \in Rewrites : req[x].new <= used
    BY <1>type DEF PlaceInv, IdsInOrder, None
  <2>1. CASE req'[q].new = req[q].new
    <3>1. CASE Copies(r)
      BY <2>1, <3>1, <2>bound, <1>type, <1>kinds DEF Copies
    <3>2. CASE JoinsBranch(r)
      BY <3>2 DEF JoinsBranch
    <3>3. CASE ~Copies(r) /\ ~JoinsBranch(r)
      <4>1. req'[r].new = req[r].new
        BY <3>3, <1>move, <1>kinds DEF Moves, Starts, Goes, Stays, Lost
      <4>2. req[r].pc = "accepted"
        BY <2>1, <4>1 DEF PlaceInv, BranchIsOwn
      <4> QED
        BY <4>2, <1>over, <1>kinds DEF Over
    <3> QED
      BY <3>1, <3>2, <3>3
  <2>2. CASE Copies(q)
    <3>1. req'[q].new = used + 1
      BY <2>2 DEF Copies
    <3>2. ~Copies(r)
      BY <2>2, EveryoneMoves, <1>kinds DEF Alone, Lost, Copies
    <3>3. req'[r].new <= used
      BY <3>2, <1>move, <1>joins, <1>kinds, <2>bound DEF Moves, Starts, Goes, Stays, Lost
    <3> QED
      BY <3>1, <3>3, <1>type
  <2>3. CASE JoinsBranch(q)
    <3>1. PICK k \in Rewrites : req[k].pc = "accepted" /\ req[k].new = req'[q].new
      BY <2>3, <1>joins
    <3>2. CASE r = k
      BY <3>1, <3>2, <1>over, <1>kinds DEF Over
    <3>3. CASE r # k
      <4>1. CASE Copies(r)
        <5>1. req'[q].new <= used
          BY <2>3, <1>joins
        <5> QED
          BY <4>1, <5>1, <1>type DEF Copies
      <4>2. CASE JoinsBranch(r)
        BY <4>2 DEF JoinsBranch
      <4>3. CASE ~Copies(r) /\ ~JoinsBranch(r)
        <5>1. req'[r].new = req[r].new
          BY <4>3, <1>move, <1>kinds DEF Moves, Starts, Goes, Stays, Lost
        <5>2. req[r].pc = "accepted"
          BY <3>1, <3>3, <5>1 DEF PlaceInv, BranchIsOwn
        <5> QED
          BY <5>2, <1>over, <1>kinds DEF Over
      <4> QED
        BY <4>1, <4>2, <4>3
    <3> QED
      BY <3>2, <3>3
  <2> QED
    BY <2>1, <2>2, <2>3, <1>move, <1>kinds DEF Moves, Starts, Goes, Stays, Lost
<1>address. AddressIsKnown'
  <2> SUFFICES ASSUME NEW q \in Requests
               PROVE  /\ req'[q].at # None => req'[q].at \in Known'
                      /\ req'[q].pc \in Steps => req'[q].at # None
    BY DEF AddressIsKnown
  <2>none. None \notin Known
    BY <1>type, <1>kinds DEF Known, PlaceInv, BranchStands, Sessions, None
  <2>1. \/ req'[q].at = req[q].at /\ (req'[q].pc \in Steps => req[q].pc \in Steps)
        \/ req'[q].at \in Known
    BY <1>move DEF Moves, Starts, JoinsBranch, Copies, Goes, DeleteStarts, DeleteGoes, SendStarts, SendGoes, Stays, Lost, Steps
  <2> QED
    BY <2>1, <2>none, <1>known DEF PlaceInv, AddressIsKnown
<1>places. PlacesStand'
  <2>1. ASSUME NEW q \in Sends PROVE req'[q].pc \in {"new", "connect", "send"} \cup Over
    BY <1>move, <1>kinds DEF Moves, SendStarts, SendGoes, Lost, PlaceInv, PlacesStand, Over
  <2>2. ASSUME NEW d \in Deletes PROVE req'[d].pc \in {"new", "find", "unlog", "read", "unrow"} \cup Over
    BY <1>move, <1>kinds DEF Moves, DeleteStarts, DeleteGoes, Lost, PlaceInv, PlacesStand, Over
  <2>3. ASSUME NEW k \in Keyed PROVE req'[k].at \in {None, 1}
    BY <1>move, <1>kinds DEF Moves, Starts, JoinsBranch, Copies, Goes, Stays, Lost, PlaceInv, PlacesStand
  <2> QED
    BY <2>1, <2>2, <2>3 DEF PlacesStand
<1>within. ASSUME NEW s \in Known PROVE s <= used
  <2>1. CASE s <= Origins
    <3>1. s \in Sessions
      BY DEF Known, PlaceInv, BranchStands, Requests, TypeOK
    <3> QED
      BY <2>1, <3>1, <1>type DEF PlaceInv, IdsInOrder
  <2>2. CASE ~(s <= Origins)
    <3>1. PICK r \in Rewrites : req[r].pc = "accepted" /\ s = req[r].new
      BY <2>2 DEF Known
    <3> QED
      BY <3>1 DEF PlaceInv, IdsInOrder, BranchStands
  <2> QED
    BY <2>1, <2>2
<1>branches. ASSUME NEW r \in Rewrites, req[r].pc \in Branched PROVE req[r].new # None /\ req[r].new <= used /\ Origins < req[r].new
  BY <1>branches DEF PlaceInv, BranchStands, IdsInOrder
<1>doomed. ASSUME NEW q \in Requests, Unrow(q) PROVE Doomed(q) # None /\ req[q].pc \in Steps
  BY <1>doomed, <1>branches, <1>at DEF Unrow, Doomed, Branched, Withdrawing, Steps
<1>beyond. NothingBeyond'
  <2> SUFFICES ASSUME NEW s \in Sessions, s > used'
               PROVE  (row[s] = NoRow /\ s \notin text /\ log[s] = {} /\ tray[s] = {} /\ turn[s] = "off")'
    BY DEF NothingBeyond
  <2>1. s > used /\ ~(\E r \in Rewrites : Copies(r) /\ s = used + 1)
    BY <1>used, <1>type DEF Copies
  <2>2. row[s] = NoRow /\ s \notin text /\ log[s] = {} /\ tray[s] = {} /\ turn[s] = "off"
    BY <2>1 DEF PlaceInv, NothingBeyond
  <2>branch. \A r \in Rewrites : req[r].pc \in Branched => s # req[r].new
    BY <2>1, <1>branches, <1>type, <1>kinds
  <2>at. \A q \in Requests : req[q].pc \in Steps => s # req[q].at
    BY <2>1, <1>at, <1>within, <1>type
  <2>tray. tray'[s] = {} /\ log'[s] = {}
    BY <2>2, <2>branch, <2>at, <1>kinds, TrayKnown DEF TrayMoves, Branched, Published, Steps
  <2>turn. turn'[s] = "off"
    BY <2>2, <2>branch, <2>at, <1>kinds, TurnKnown DEF TurnMoves, Branched, Published, Steps
  <2>text. s \notin text'
    BY <2>1, <2>2, TextKnown DEF TextMoves
  <2>row. row'[s] = NoRow
    <3>1. RowMoves(s)
      BY RowKnown
    <3>2. ~row[s].there /\ row[s].next = None
      BY <2>2 DEF NoRow
    <3>3. ASSUME NEW r \in Rewrites, Create(r), s = req[r].new PROVE FALSE
      BY <3>3, <2>branch DEF Create, Branched
    <3>4. ASSUME NEW r \in Rewrites, Clear(r), row[s].next = req[r].new PROVE FALSE
      BY <3>4, <3>2, <1>branches DEF Clear, Branched, Withdrawing
    <3> QED
      BY <2>2, <3>1, <3>2, <3>3, <3>4 DEF RowMoves
  <2> QED
    BY <2>tray, <2>turn, <2>text, <2>row
<1>pointers. PointersStand'
  <2>more. used <= used'
    BY <1>used, <1>type DEF Copies
  <2>1. ASSUME NEW s \in Sessions, row'[s].next # None PROVE Origins < row'[s].next /\ row'[s].next <= used
    <3>1. RowMoves(s)
      BY RowKnown
    <3>2. ASSUME NEW r \in Rewrites, Mark(r) PROVE Origins < req[r].new /\ req[r].new <= used
      BY <3>2, <1>branches DEF Mark, Branched
    <3> QED
      BY <2>1, <3>1, <3>2 DEF RowMoves, PlaceInv, PointersStand, NoRow
  <2>2. ASSUME NEW q \in Requests, req'[q].heir # None PROVE Origins < req'[q].heir /\ req'[q].heir <= used
    <3>1. CASE req'[q].heir = req[q].heir
      BY <2>2, <3>1 DEF PlaceInv, PointersStand
    <3>2. CASE req[q].pc = "read" /\ req'[q].heir = row[Doomed(q)].next
      <4>1. Doomed(q) \in Sessions
        <5>1. q \in Rewrites => req[q].new \in Sessions
          BY <3>2, <1>branches DEF TypeOK, Branched, Withdrawing, Requests
        <5> QED
          BY <3>2, <5>1, <1>at DEF Doomed, Steps
      <4> QED
        BY <2>2, <3>2, <4>1 DEF PlaceInv, PointersStand
    <3> QED
      BY <3>1, <3>2, <1>move DEF Moves, Starts, JoinsBranch, Copies, Goes, DeleteStarts, DeleteGoes, SendStarts, SendGoes, Lost
  <2> QED
    <3>1. \A s \in Sessions : row'[s].next \in {None} \cup Sessions
      BY DEF TypeOK
    <3>2. \A q \in Requests : req'[q].heir \in {None} \cup Sessions
      BY DEF TypeOK
    <3>3. Sessions \subseteq Nat
      BY DEF Sessions
    <3>4. ASSUME NEW n \in Nat, n <= used PROVE n <= used'
      BY <2>more, <3>4, <1>type
    <3>5. \A s \in Sessions : row'[s].next # None => Origins < row'[s].next /\ row'[s].next <= used'
      BY <2>1, <3>1, <3>3, <3>4
    <3>6. \A q \in Requests : req'[q].heir # None => Origins < req'[q].heir /\ req'[q].heir <= used'
      BY <2>2, <3>2, <3>3, <3>4
    <3> QED
      BY <3>5, <3>6 DEF PointersStand
<1> QED
  BY <1>ids, <1>branch, <1>own, <1>address, <1>places, <1>beyond, <1>pointers DEF PlaceInv

LEMMA MessagesKeep == ASSUME BaseInv, [Next]_vars PROVE MessagesStand'
<1> SUFFICES ASSUME NEW s \in Sessions, NEW r \in Rewrites, r \in tray'[s] \cup log'[s]
             PROVE  req'[r].pc = "accepted" /\ req'[r].new = s
  BY DEF MessagesStand
<1>1. TrayMoves(s) /\ log'[s] \subseteq log[s] \cup tray[s]
  BY TrayKnown
<1>2. CASE r \in tray[s] \cup log[s]
  <2>1. req[r].pc = "accepted" /\ req[r].new = s
    BY <1>2 DEF BaseInv, MessagesStand
  <2> QED
    BY <2>1, KnownStays DEF Over, Requests
<1>3. CASE r \notin tray[s] \cup log[s]
  BY <1>1, <1>3, RewriteAssumption DEF TrayMoves, Stays
<1> QED
  BY <1>2, <1>3

LEMMA BaseKeeps == ASSUME BaseInv, [Next]_vars PROVE BaseInv'
BY TypeKeeps, PlacesKeep, MessagesKeep DEF BaseInv

-----------------------------------------------------------------------------
(* A request moves by an action of its own, or the server stops. *)
LEMMA WhoMoves ==
  ASSUME BaseInv, [Next]_vars, NEW q \in Requests, req'[q] # req[q]
  PROVE  \/ q \in Rewrites /\ Rewrite(q)
         \/ q \in Deletes /\ Delete(q)
         \/ q \in Sends /\ Send(q)
         \/ Lost(q)
<1>alone. ASSUME NEW o \in Requests, Alone(o), o # q PROVE FALSE
  BY <1>alone DEF Alone
<1>rewrite. ASSUME NEW o \in Rewrites, Rewrite(o) PROVE o = q
  BY <1>rewrite, <1>alone, RewriteMoves DEF Requests
<1>delete. ASSUME NEW o \in Deletes, Delete(o) PROVE o = q
  BY <1>delete, <1>alone, DeleteMoves DEF Requests
<1>send. ASSUME NEW o \in Sends, Send(o) PROVE o = q
  BY <1>send, <1>alone, SendMoves DEF Requests
<1>crash. Crash => Lost(q)
  BY CrashMoves DEF Lost
<1>still. ~(\E t \in Sessions : Agent(t)) /\ ~UNCHANGED vars
  BY DEF Agent, Take, TurnEnds, Ask, Answer, Evict, vars
<1> QED
  BY <1>rewrite, <1>delete, <1>send, <1>crash, <1>still DEF Next, Done

(* Only the rewrite itself touches the row of its branch. *)
LEMMA BranchRow ==
  ASSUME BaseInv, RowOfBranch, [Next]_vars, NEW r \in Rewrites, req[r].pc \in Branched
  PROVE  \/ row'[req[r].new] = row[req[r].new]
         \/ row'[req[r].new].there /\ row'[req[r].new].next = None
         \/ req[r].pc = "unrow" /\ row'[req[r].new] = NoRow
<1> DEFINE s == req[r].new
<1>branch. s # None /\ s \notin Known
  BY BranchIsUnknown DEF BaseInv
<1>s. s \in Sessions
  BY <1>branch DEF BaseInv, TypeOK, Requests
<1>moves. RowMoves(s)
  BY <1>s, RowKnown
<1>none. row[s].next = None
  BY DEF RowOfBranch
<1>at. ASSUME NEW q \in Requests, req[q].pc \in Steps PROVE s # req[q].at
  BY <1>at, <1>branch DEF BaseInv, PlaceInv, AddressIsKnown
<1>1. ASSUME NEW q \in Rewrites, Mark(q) \/ Clear(q) PROVE s # req[q].at
  BY <1>1, <1>at DEF Mark, Clear, Steps, Requests
<1>2. ASSUME NEW q \in Requests, Unrow(q), row[s].next = Doomed(q) PROVE FALSE
  <2>1. Doomed(q) # None
    <3>1. req[q].at # None
      BY <1>2 DEF Unrow, BaseInv, PlaceInv, AddressIsKnown, Steps
    <3>2. q \in Rewrites => req[q].new # None
      BY <1>2, BranchIsUnknown DEF Unrow, BaseInv, Branched, Withdrawing
    <3> QED
      BY <3>1, <3>2 DEF Doomed
  <2> QED
    BY <2>1, <1>2, <1>none
<1>3. ASSUME NEW q \in Requests, Unrow(q), s = Doomed(q) PROVE req[r].pc = "unrow"
  <2>1. q \in Rewrites
    BY <1>3, <1>at DEF Doomed, Unrow, Steps
  <2>2. req[q].new = s
    BY <1>3, <2>1 DEF Doomed
  <2>3. q = r \/ req[q].pc = "accepted"
    BY <2>1, <2>2, <1>branch DEF BaseInv, PlaceInv, BranchIsOwn
  <2> QED
    BY <2>3, <1>3 DEF Unrow
<1> HIDE DEF s
<1>4. \/ row'[s] = row[s]
      \/ row'[s].there /\ row'[s].next = None
      \/ req[r].pc = "unrow" /\ row'[s] = NoRow
  BY <1>moves, <1>1, <1>2, <1>3 DEF RowMoves
<1> QED
  BY <1>4 DEF s

(* What a rewrite finds out about its branch. *)
LEMMA BranchLearns ==
  ASSUME BaseInv, RowOfBranch, [Next]_vars, NEW r \in Rewrites
  PROVE  /\ req'[r].pc \in {"mark", "close", "unlog", "find"} \cup Published =>
              \/ row[req[r].new].there /\ req[r].pc \in {"mark", "close", "unlog", "find"} \cup Published
              \/ row'[req[r].new].there /\ req[r].pc = "create"
         /\ req'[r].pc \in {"clear", "untext", "read", "unrow"} => req'[r].placed
<1> DEFINE There == {"mark", "close", "unlog", "find"} \cup Published
           Late == {"clear", "untext", "read", "unrow"}
           Learns == /\ req'[r].pc \in There =>
                          \/ row[req[r].new].there /\ req[r].pc \in There
                          \/ row'[req[r].new].there /\ req[r].pc = "create"
                     /\ req'[r].pc \in Late => req'[r].placed
<1>r. r \in Requests /\ req[r] \in RequestType /\ req \in [Requests -> RequestType]
  BY DEF BaseInv, TypeOK, RequestType, Places, Reasons, Requests
<1>old. /\ req[r].pc \in There => row[req[r].new].there
        /\ req[r].pc \in Late => req[r].placed
  BY DEF RowOfBranch
<1>same. req'[r] = req[r] => Learns
  BY <1>old
<1>over. req'[r].pc \in Over \cup {"look", "check", "admit", "interrupt", "settle", "copy", "create"} => Learns
  BY DEF Over, Published
<1>go. /\ \A pc : Goto(r, pc) => OnlyPlace(r, pc) /\ req'[r].placed = req[r].placed
       /\ \A why : Refuse(r, why) => OnlyPlace(r, "refused")
  BY <1>r, Going1 DEF BaseInv
<1>refuse. ASSUME NEW why, Refuse(r, why) PROVE Learns
  BY <1>refuse, <1>go, <1>over DEF OnlyPlace, Over
<1>further. ASSUME NEW pc, Goto(r, pc), pc \in There => req[r].pc \in There, pc \in Late => req[r].pc \in Late PROVE Learns
  <2>1. req'[r].pc = pc /\ req'[r].placed = req[r].placed
    BY <1>go, <1>further DEF OnlyPlace
  <2> QED
    BY <2>1, <1>further, <1>old
<1>fails. ASSUME NEW why, req' = [req EXCEPT ![r].pc = "clear", ![r].placed = TRUE, ![r].why = why] PROVE Learns
  <2>1. req'[r].pc = "clear" /\ req'[r].placed
    BY <1>fails, <1>r DEF RequestType
  <2> QED
    BY <2>1 DEF Published
<1>rewrite. ASSUME Rewrite(r) PROVE Learns
  <2> HIDE DEF Learns
  <2>early. CASE Begin(r) \/ Look(r)
    <3>1. req'[r].pc \in Over \cup {"look", "check"}
      <4>1. Alone(r) /\ (Starts(r) \/ JoinsBranch(r) \/ Copies(r) \/ Goes(r))
        BY <1>rewrite, RewriteMoves
      <4>2. CASE Begin(r)
        BY <4>1, <4>2 DEF Begin, Starts, JoinsBranch, Copies, Goes, Steps
      <4>3. CASE Look(r)
        <5>1. CASE req' = [req EXCEPT ![r].pc = "accepted", ![r].new = row[req[r].at].next]
          BY <5>1, <1>r DEF RequestType, Over
        <5>2. CASE Refuse(r, "gone") \/ Refuse(r, "superseded") \/ Goto(r, "check")
          BY <5>2, <1>go DEF OnlyPlace, Over
        <5> QED
          BY <4>3, <5>1, <5>2 DEF Look
      <4> QED
        BY <2>early, <4>2, <4>3
    <3> QED
      BY <3>1, <1>over
  <2>check. CASE Check(r) \/ Admit(r) \/ Settle(r) \/ Interrupt(r)
    <3>1. (\E why : Refuse(r, why)) \/ Goto(r, "admit") \/ Goto(r, "interrupt") \/ Goto(r, "settle") \/ Goto(r, "copy")
      BY <2>check DEF Check, Admit, Settle, Interrupt
    <3> QED
      BY <3>1, <1>refuse, <1>further DEF Published
  <2>copy. CASE Copy(r)
    <3>1. \/ Refuse(r, "gone") \/ Refuse(r, "anchor")
          \/ req' = [req EXCEPT ![r].pc = "create", ![r].new = used + 1]
          \/ req' = [req EXCEPT ![r].pc = "clear", ![r].new = used + 1, ![r].placed = TRUE, ![r].why = "failed"]
      BY <2>copy DEF Copy
    <3>2. CASE \/ req' = [req EXCEPT ![r].pc = "create", ![r].new = used + 1]
               \/ req' = [req EXCEPT ![r].pc = "clear", ![r].new = used + 1, ![r].placed = TRUE, ![r].why = "failed"]
      <4>1. req'[r].pc = "create" \/ (req'[r].pc = "clear" /\ req'[r].placed)
        BY <3>2, <1>r DEF RequestType
      <4> QED
        BY <4>1 DEF Learns, Published
    <3> QED
      BY <3>1, <3>2, <1>refuse
  <2>create. CASE Create(r)
    <3>1. CASE Goto(r, "mark") /\ row' = [row EXCEPT ![req[r].new] = [there |-> TRUE, next |-> None, parent |-> req[r].at]]
      <4>1. req[r].new \in Sessions
        BY <1>r, <2>create, BranchIsUnknown DEF Create, Branched, RequestType, BaseInv
      <4>2. row'[req[r].new].there
        BY <3>1, <4>1 DEF BaseInv, TypeOK
      <4>3. req'[r].pc = "mark"
        BY <3>1, <1>go DEF OnlyPlace
      <4> QED
        BY <4>2, <4>3, <2>create DEF Learns, Create
    <3> QED
      BY <2>create, <3>1, <1>fails DEF Create
  <2>mark. CASE Mark(r)
    BY <2>mark, <1>fails, <1>further DEF Mark, Published
  <2>publish. CASE FindRow(r) \/ Reach(r) \/ Dispatch(r)
    <3>1. Goto(r, "connect") \/ Goto(r, "close") \/ Goto(r, "send") \/ Goto(r, "accepted")
      BY <2>publish DEF FindRow, Reach, Connect, Dispatch, Deliver, Goto
    <3>2. req[r].pc \in Published
      BY <2>publish DEF FindRow, Reach, Dispatch, Published
    <3> QED
      BY <3>1, <3>2, <1>further DEF Published
  <2>withdraw. CASE CloseBranch(r) \/ UnlogBranch(r) \/ Clear(r) \/ Untext(r)
    BY <2>withdraw, <1>further DEF CloseBranch, UnlogBranch, Clear, Untext, Published
  <2>find. CASE FindBranch(r)
    <3>1. row[req[r].new].there
      BY <2>find DEF FindBranch, RowOfBranch
    <3>2. req'[r].pc = "clear" /\ req'[r].placed = row[req[r].new].there
      BY <2>find, <1>r DEF FindBranch, RequestType
    <3> QED
      BY <3>1, <3>2 DEF Learns, Published
  <2>read. CASE ReadHeir(r)
    <3>1. req'[r].pc = "unrow" /\ req'[r].placed = req[r].placed /\ req[r].pc = "read"
      BY <2>read, <1>r DEF ReadHeir, RequestType
    <3> QED
      BY <3>1 DEF Learns, RowOfBranch, Published
  <2>unrow. CASE Unrow(r)
    BY <2>unrow, <1>refuse DEF Unrow
  <2> QED
    BY <1>rewrite, <2>early, <2>check, <2>copy, <2>create, <2>mark, <2>publish, <2>withdraw, <2>find, <2>read, <2>unrow
       DEF Rewrite
<1>others. ~Rewrite(r) => req'[r] = req[r] \/ Lost(r)
  BY <1>r, WhoMoves, RewriteAssumption
<1>lost. Lost(r) => Learns
  BY <1>over DEF Lost, Over
<1> QED
  BY <1>rewrite, <1>others, <1>same, <1>lost

LEMMA AdmissionKnown ==
  ASSUME BaseInv, RewriteHolds, [Next]_vars, NEW s \in Sessions
  PROVE  \/ admission'[s] = admission[s] \/ admission[s] = Nobody \/ Crash
         \/ \E q \in Requests : admission[s] = q /\ req'[q].pc \in Over \cup {"meta"}
<1> DEFINE Fine == \/ admission'[s] = admission[s] \/ admission[s] = Nobody \/ Crash
                   \/ \E q \in Requests : admission[s] = q /\ req'[q].pc \in Over \cup {"meta"}
<1>old. admission \in [Sessions -> {Nobody} \cup Requests]
  BY DEF BaseInv, TypeOK
<1>go. ASSUME NEW q \in Requests
       PROVE  /\ \A pc : Goto(q, pc) => OnlyPlace(q, pc)
              /\ \A pc, why : End(q, pc, why) => OnlyPlace(q, pc)
  BY Going1 DEF BaseInv
<1>end. ASSUME NEW q \in Requests, NEW pc \in Over, NEW why, End(q, pc, why) PROVE Fine
  <2>1. req'[q].pc = pc
    BY <1>go, <1>end DEF OnlyPlace
  <2>2. admission'[s] = IF admission[s] = q THEN Nobody ELSE admission[s]
    BY <1>end DEF End
  <2> QED
    BY <2>1, <2>2
<1>same. UNCHANGED admission => Fine
  OBVIOUS
<1>refuse. ASSUME NEW q \in Requests, NEW why, Refuse(q, why) PROVE Fine
  BY <1>refuse, <1>end DEF Refuse, Over
<1>sent. ASSUME NEW q \in Requests, req' = [req EXCEPT ![q].pc = "accepted"],
                admission' = [t \in Sessions |-> IF admission[t] = q THEN Nobody ELSE admission[t]]
         PROVE  Fine
  <2>1. req'[q].pc = "accepted"
    BY <1>sent, <1>go DEF Goto, OnlyPlace
  <2>2. admission'[s] = IF admission[s] = q THEN Nobody ELSE admission[s]
    BY <1>sent
  <2> QED
    BY <2>1, <2>2 DEF Over
<1>rewrite. ASSUME NEW r \in Rewrites, Rewrite(r) PROVE Fine
  <2>r. r \in Requests
    BY DEF Requests
  <2> HIDE DEF Fine
  <2>look. CASE Look(r) \/ Check(r) \/ Settle(r) \/ Copy(r)
    BY <2>look, <2>r, <1>refuse, <1>same DEF Look, Check, Settle, Copy
  <2>interrupt. CASE Interrupt(r)
    BY <2>interrupt, <2>r, <1>refuse, <1>same DEF Interrupt
  <2>admit. CASE Admit(r)
    <3>1. Refuse(r, "queued") \/ (admission[req[r].at] = Nobody /\ admission' = [admission EXCEPT ![req[r].at] = r])
      BY <2>admit DEF Admit
    <3> QED
      BY <3>1, <2>r, <1>refuse, <1>old DEF Fine
  <2>mark. CASE Mark(r)
    <3>1. UNCHANGED admission \/ (Goto(r, "meta") /\ admission' = [admission EXCEPT ![req[r].at] = Nobody])
      BY <2>mark DEF Mark
    <3>2. admission[req[r].at] = r
      BY <2>mark DEF Mark, RewriteHolds, Holding
    <3>3. CASE Goto(r, "meta") /\ admission' = [admission EXCEPT ![req[r].at] = Nobody]
      <4>1. req'[r].pc = "meta"
        BY <3>3, <2>r, <1>go DEF OnlyPlace
      <4> QED
        BY <3>2, <3>3, <4>1, <2>r, <1>old DEF Fine
    <3> QED
      BY <3>1, <3>3, <1>same
  <2>send. CASE Dispatch(r)
    BY <2>send, <2>r, <1>sent, <1>same DEF Dispatch, Deliver
  <2>unrow. CASE Unrow(r)
    BY <2>unrow, <2>r, <1>refuse DEF Unrow
  <2>rest. CASE \/ Begin(r) \/ Create(r) \/ FindRow(r) \/ CloseBranch(r) \/ UnlogBranch(r)
                \/ FindBranch(r) \/ Clear(r) \/ Untext(r) \/ ReadHeir(r)
    <3>1. UNCHANGED admission
      <4>begin. Begin(r) => UNCHANGED admission
        BY DEF Begin
      <4>create. Create(r) => UNCHANGED admission
        BY DEF Create
      <4>find. FindRow(r) => UNCHANGED admission
        BY DEF FindRow
      <4>2. CASE CloseBranch(r) \/ UnlogBranch(r) \/ FindBranch(r)
        BY <4>2 DEF CloseBranch, UnlogBranch, FindBranch
      <4>3. CASE Clear(r) \/ Untext(r) \/ ReadHeir(r)
        BY <4>3 DEF Clear, Untext, ReadHeir
      <4> QED
        BY <2>rest, <4>begin, <4>create, <4>find, <4>2, <4>3
    <3> QED
      BY <3>1, <1>same
  <2>reach. CASE Reach(r)
    BY <2>reach, <1>same DEF Reach, Connect
  <2> QED
    BY <1>rewrite, <2>look, <2>interrupt, <2>admit, <2>mark, <2>send, <2>unrow, <2>rest, <2>reach DEF Rewrite
<1>delete. ASSUME NEW d \in Deletes, Delete(d) PROVE Fine
  <2>d. d \in Requests /\ d \notin Rewrites
    BY RewriteAssumption DEF Requests
  <2> HIDE DEF Fine
  <2>1. CASE Unrow(d)
    BY <2>1, <2>d, <1>end DEF Unrow, Over
  <2>2. CASE ~Unrow(d)
    BY <2>2, <1>delete, <1>same DEF Delete, CloseDeleted, DeleteText, DeleteLog, ReadHeir
  <2> QED
    BY <2>1, <2>2
<1>send. ASSUME NEW q \in Sends, Send(q) PROVE Fine
  <2>q. q \in Requests
    BY DEF Requests
  <2>1. CASE AdmitSend(q)
    <3>1. PICK t \in Known : admission[t] = Nobody /\ (UNCHANGED admission \/ admission' = [admission EXCEPT ![t] = q])
      BY <2>1 DEF AdmitSend
    <3> QED
      BY <3>1, <1>old
  <2> HIDE DEF Fine
  <2>2. CASE ConnectSend(q)
    BY <2>2, <2>q, <1>refuse, <1>same DEF ConnectSend, Connect
  <2>3. CASE DeliverSend(q)
    BY <2>3, <2>q, <1>refuse, <1>sent DEF DeliverSend, Deliver
  <2> QED
    BY <1>send, <2>1, <2>2, <2>3 DEF Send
<1>rest. ASSUME \/ \E t \in Sessions : Agent(t)
                \/ UNCHANGED vars
         PROVE  Fine
  BY <1>rest DEF Agent, Take, TurnEnds, Ask, Answer, Evict, vars
<1>crash. Crash => Fine
  BY Zenon
<1> QED
  BY <1>rewrite, <1>delete, <1>send, <1>rest, <1>crash DEF Next, Done

-----------------------------------------------------------------------------
(* Where a rewrite takes each of its steps. *)
LEMMA StepPlaces ==
  ASSUME NEW r \in Rewrites
  PROVE  /\ (Begin(r) => req[r].pc = "new") /\ (Look(r) => req[r].pc = "look")
         /\ (Check(r) => req[r].pc = "check") /\ (Admit(r) => req[r].pc = "admit")
         /\ (Interrupt(r) => req[r].pc = "interrupt") /\ (Settle(r) => req[r].pc = "settle")
         /\ (Copy(r) => req[r].pc = "copy") /\ (Create(r) => req[r].pc = "create")
         /\ (Mark(r) => req[r].pc = "mark") /\ (FindRow(r) => req[r].pc = "meta")
         /\ (Reach(r) => req[r].pc = "connect") /\ (Dispatch(r) => req[r].pc = "send")
         /\ (CloseBranch(r) => req[r].pc = "close") /\ (UnlogBranch(r) => req[r].pc = "unlog")
         /\ (FindBranch(r) => req[r].pc = "find") /\ (Clear(r) => req[r].pc = "clear")
         /\ (Untext(r) => req[r].pc = "untext") /\ (ReadHeir(r) => req[r].pc = "read")
         /\ (Unrow(r) => req[r].pc = "unrow")
<1>begin. Begin(r) => req[r].pc = "new"
  BY DEF Begin
<1>look. (Look(r) => req[r].pc = "look") /\ (Check(r) => req[r].pc = "check")
  BY DEF Look, Check
<1>admit. (Admit(r) => req[r].pc = "admit") /\ (Settle(r) => req[r].pc = "settle") /\ (Copy(r) => req[r].pc = "copy")
  BY DEF Admit, Settle, Copy
<1>interrupt. Interrupt(r) => req[r].pc = "interrupt"
  BY DEF Interrupt
<1>create. (Create(r) => req[r].pc = "create") /\ (Mark(r) => req[r].pc = "mark") /\ (FindRow(r) => req[r].pc = "meta")
  BY DEF Create, Mark, FindRow
<1>reach. (Reach(r) => req[r].pc = "connect") /\ (Dispatch(r) => req[r].pc = "send") /\ (Unrow(r) => req[r].pc = "unrow")
  BY DEF Reach, Dispatch, Unrow
<1>close. (CloseBranch(r) => req[r].pc = "close") /\ (UnlogBranch(r) => req[r].pc = "unlog")
          /\ (FindBranch(r) => req[r].pc = "find")
  BY DEF CloseBranch, UnlogBranch, FindBranch
<1>clear. (Clear(r) => req[r].pc = "clear") /\ (Untext(r) => req[r].pc = "untext") /\ (ReadHeir(r) => req[r].pc = "read")
  BY DEF Clear, Untext, ReadHeir
<1> QED
  BY <1>begin, <1>look, <1>admit, <1>interrupt, <1>create, <1>reach, <1>close, <1>clear

(* Where each of its steps takes a rewrite. *)
LEMMA PlacesAfter ==
  ASSUME BaseInv, NEW r \in Rewrites
  PROVE  /\ (Begin(r) => req'[r].pc = "look") /\ (Look(r) => req'[r].pc \in {"accepted", "refused", "check"})
         /\ (Check(r) => req'[r].pc \in {"refused", "admit"}) /\ (Admit(r) => req'[r].pc \in {"refused", "interrupt"})
         /\ (Interrupt(r) => req'[r].pc \in {"refused", "settle", "copy"})
         /\ (Settle(r) => req'[r].pc \in {"refused", "copy"}) /\ (Copy(r) => req'[r].pc \in {"refused", "create", "clear"})
         /\ (Create(r) => req'[r].pc \in {"mark", "clear"}) /\ (Mark(r) => req'[r].pc \in {"meta", "clear"})
         /\ (FindRow(r) => req'[r].pc \in {"connect", "close"}) /\ (Reach(r) => req'[r].pc \in {"send", "close"})
         /\ (Dispatch(r) => req'[r].pc \in {"accepted", "close"}) /\ (CloseBranch(r) => req'[r].pc = "unlog")
         /\ (UnlogBranch(r) => req'[r].pc = "find") /\ (FindBranch(r) => req'[r].pc = "clear")
         /\ (Clear(r) => req'[r].pc = "untext") /\ (Untext(r) => req'[r].pc = "read")
         /\ (ReadHeir(r) => req'[r].pc = "unrow") /\ (Unrow(r) => req'[r].pc = "refused")
<1>r. r \in Requests /\ req[r] \in RequestType /\ req \in [Requests -> RequestType]
  BY DEF BaseInv, TypeOK, RequestType, Places, Reasons, Requests
<1>go. /\ \A pc : Goto(r, pc) => req'[r].pc = pc
       /\ \A why : Refuse(r, why) => req'[r].pc = "refused"
  BY <1>r, Going1 DEF BaseInv, OnlyPlace
<1>begin. Begin(r) => req'[r].pc = "look"
  <2> SUFFICES ASSUME Begin(r) PROVE req'[r].pc = "look"
    OBVIOUS
  <2>1. PICK s \in Known, a \in Anchors : req' = [req EXCEPT ![r].pc = "look", ![r].at = s, ![r].anchor = a]
    BY Zenon DEF Begin
  <2> QED
    BY <2>1, <1>r
<1>look. Look(r) => req'[r].pc \in {"accepted", "refused", "check"}
  <2>1. ASSUME req' = [req EXCEPT ![r].pc = "accepted", ![r].new = row[req[r].at].next] PROVE req'[r].pc = "accepted"
    BY <2>1, <1>r DEF RequestType
  <2> QED
    BY <2>1, <1>go DEF Look
<1>check. Check(r) => req'[r].pc \in {"refused", "admit"}
  BY <1>go DEF Check
<1>admit. Admit(r) => req'[r].pc \in {"refused", "interrupt"}
  BY <1>go DEF Admit
<1>interrupt. Interrupt(r) => req'[r].pc \in {"refused", "settle", "copy"}
  BY <1>go DEF Interrupt
<1>settle. Settle(r) => req'[r].pc \in {"refused", "copy"}
  BY <1>go DEF Settle
<1>copy. Copy(r) => req'[r].pc \in {"refused", "create", "clear"}
  <2>1. ASSUME req' = [req EXCEPT ![r].pc = "create", ![r].new = used + 1] PROVE req'[r].pc = "create"
    BY <2>1, <1>r DEF RequestType
  <2>2. ASSUME req' = [req EXCEPT ![r].pc = "clear", ![r].new = used + 1, ![r].placed = TRUE, ![r].why = "failed"]
        PROVE  req'[r].pc = "clear"
    BY <2>2, <1>r DEF RequestType
  <2>3. Copy(r) => \/ Refuse(r, "gone") \/ Refuse(r, "anchor")
                   \/ req' = [req EXCEPT ![r].pc = "create", ![r].new = used + 1]
                   \/ req' = [req EXCEPT ![r].pc = "clear", ![r].new = used + 1, ![r].placed = TRUE, ![r].why = "failed"]
    BY DEF Copy
  <2> QED
    BY <2>1, <2>2, <2>3, <1>go
<1>clear. ASSUME NEW why, req' = [req EXCEPT ![r].pc = "clear", ![r].placed = TRUE, ![r].why = why] PROVE req'[r].pc = "clear"
  BY <1>clear, <1>r DEF RequestType
<1>create. Create(r) => req'[r].pc \in {"mark", "clear"}
  BY <1>go, <1>clear DEF Create
<1>mark. Mark(r) => req'[r].pc \in {"meta", "clear"}
  BY <1>go, <1>clear DEF Mark
<1>find. FindRow(r) => req'[r].pc \in {"connect", "close"}
  BY <1>go DEF FindRow
<1>reach. Reach(r) => req'[r].pc \in {"send", "close"}
  BY <1>go DEF Reach, Connect
<1>send. Dispatch(r) => req'[r].pc \in {"accepted", "close"}
  BY <1>go DEF Dispatch, Deliver, Goto
<1>close. /\ (CloseBranch(r) => req'[r].pc = "unlog") /\ (UnlogBranch(r) => req'[r].pc = "find")
          /\ (Clear(r) => req'[r].pc = "untext") /\ (Untext(r) => req'[r].pc = "read")
  BY <1>go DEF CloseBranch, UnlogBranch, Clear, Untext
<1>branch. FindBranch(r) => req'[r].pc = "clear"
  BY <1>r DEF FindBranch, RequestType
<1>heir. ReadHeir(r) => req'[r].pc = "unrow"
  BY <1>r DEF ReadHeir, RequestType
<1>unrow. Unrow(r) => req'[r].pc = "refused"
  BY <1>go DEF Unrow
<1> QED
  BY <1>begin, <1>look, <1>check, <1>admit, <1>interrupt, <1>settle, <1>copy, <1>create, <1>mark, <1>find, <1>reach,
     <1>send, <1>close, <1>branch, <1>heir, <1>unrow

(* A rewrite gets the session only where it found its queue empty.         *)
LEMMA HoldingStarts ==
  ASSUME BaseInv, [Next]_vars, NEW r \in Rewrites, req'[r].pc \in Holding, req[r].pc \notin Holding
  PROVE  Admit(r) /\ Goto(r, "interrupt")
<1>r. r \in Requests /\ r \notin Deletes /\ r \notin Sends
  BY RewriteAssumption DEF Requests
<1>moved. Rewrite(r)
  BY <1>r, WhoMoves DEF Lost, Holding
<1>go. /\ \A pc : Goto(r, pc) => req'[r].pc = pc
       /\ \A why : Refuse(r, why) => req'[r].pc = "refused"
  BY <1>r, Going1 DEF BaseInv, OnlyPlace
<1>only. \A why : ~Refuse(r, why)
  BY <1>go DEF Holding
<1>admit. Admit(r)
  BY <1>moved, StepPlaces, PlacesAfter DEF Rewrite, Holding
<1> QED
  BY <1>admit, <1>only DEF Admit

-----------------------------------------------------------------------------
(* Whose row goes is somebody's. *)
LEMMA DoomedIsSomeone ==
  ASSUME BaseInv, NEW q \in Requests, req[q].pc \in {"read", "unrow"}, q \notin Sends
  PROVE  Doomed(q) \in Sessions /\ Doomed(q) # None
<1>1. req[q].at # None /\ req[q].at \in Sessions
  BY DEF BaseInv, PlaceInv, AddressIsKnown, TypeOK, Steps
<1>2. q \in Rewrites => req[q].new # None /\ req[q].new \in Sessions
  <2>1. q \in Rewrites => req[q].new # None
    BY DEF BaseInv, PlaceInv, BranchStands, Branched, Withdrawing
  <2> QED
    BY <2>1 DEF BaseInv, TypeOK
<1> QED
  BY <1>1, <1>2 DEF Doomed

LEMMA SilenceKeeps == ASSUME BaseInv, SilenceInv, [Next]_vars PROVE SilenceInv'
<1>base. BaseInv' /\ TypeOK /\ TypeOK' /\ PlaceInv /\ PlaceInv'
  BY BaseKeeps DEF BaseInv
<1>inv. RowOfBranch /\ RewriteHolds /\ SendHolds /\ HiddenIsSilent
  BY DEF SilenceInv
<1>moves. \A q \in Requests : Moves(q)
  BY EveryoneMoves
<1>kinds. ASSUME NEW r \in Rewrites PROVE r \in Requests /\ r \notin Sends /\ r \notin Deletes
  BY RewriteAssumption DEF Requests
<1>unrow. ASSUME NEW q \in Requests, Unrow(q) PROVE Doomed(q) # None /\ UNCHANGED tray
  <2>1. q \notin Sends
    BY <1>unrow DEF Unrow, BaseInv, PlaceInv, PlacesStand, Over
  <2>2. req[q].pc = "unrow" /\ UNCHANGED tray
    BY <1>unrow DEF Unrow, memory
  <2> QED
    BY <2>1, <2>2, DoomedIsSomeone
<1>nobody. Nobody \notin Requests
  BY RewriteAssumption
<1>norow. NoRow.there = FALSE /\ NoRow.next = None
  BY DEF NoRow
<1>type. /\ used \in Nat /\ Sessions \subseteq Nat /\ None \notin Sessions /\ None \in Nat
         /\ \A q \in Requests : req[q].at \in {None} \cup Sessions /\ req[q].new \in {None} \cup Sessions
         /\ \A s \in Sessions : row[s].next \in {None} \cup Sessions
  <2>1. Sessions \subseteq Nat /\ None \notin Sessions /\ None \in Nat
    BY DEF Sessions, None
  <2>2. \A q \in Requests : req[q].at \in {None} \cup Sessions /\ req[q].new \in {None} \cup Sessions
    BY <1>base DEF TypeOK
  <2>3. used \in Sessions /\ \A s \in Sessions : row[s].next \in {None} \cup Sessions
    BY <1>base DEF TypeOK
  <2> QED
    BY <2>1, <2>2, <2>3
<1>known. ASSUME NEW q \in Requests, req[q].pc \in Steps
          PROVE  /\ req[q].at \in Sessions /\ req[q].at \in Known
                 /\ \A r \in Rewrites : req[r].pc \in Branched => req[r].new # req[q].at
  BY <1>base, <1>type, <1>known, BranchIsUnknown DEF PlaceInv, AddressIsKnown
<1>own. ASSUME NEW r \in Rewrites, req[r].pc \in Branched PROVE req'[r].new = req[r].new
  BY <1>own, <1>moves, <1>kinds DEF Moves, Starts, JoinsBranch, Copies, Goes, Stays, Lost, Branched, Published, Withdrawing
<1>row. RowOfBranch'
  <2> SUFFICES ASSUME NEW r \in Rewrites
               PROVE  /\ req'[r].pc \in {"mark", "close", "unlog", "find"} \cup Published => row'[req'[r].new].there
                      /\ req'[r].pc \in {"clear", "untext", "read", "unrow"} => req'[r].placed
                      /\ req'[r].pc \in Branched => row'[req'[r].new].next = None
    BY DEF RowOfBranch
  <2>learns. /\ req'[r].pc \in {"mark", "close", "unlog", "find"} \cup Published =>
                  \/ row[req[r].new].there /\ req[r].pc \in {"mark", "close", "unlog", "find"} \cup Published
                  \/ row'[req[r].new].there /\ req[r].pc = "create"
             /\ req'[r].pc \in {"clear", "untext", "read", "unrow"} => req'[r].placed
    BY <1>inv, BranchLearns
  <2>row. ASSUME req[r].pc \in Branched
          PROVE  \/ row'[req[r].new] = row[req[r].new]
                 \/ row'[req[r].new].there /\ row'[req[r].new].next = None
                 \/ req[r].pc = "unrow" /\ row'[req[r].new] = NoRow
    BY <2>row, <1>inv, BranchRow
  <2>there. ASSUME req'[r].pc \in {"mark", "close", "unlog", "find"} \cup Published PROVE row'[req'[r].new].there
    <3>1. req[r].pc \in Branched
      BY <2>learns, <2>there DEF Branched, Withdrawing
    <3>2. req'[r].new = req[r].new
      BY <3>1, <1>own
    <3>3. req[r].pc # "unrow" \/ row'[req[r].new].there
      BY <2>learns, <2>there DEF Published
    <3> QED
      BY <2>learns, <2>row, <2>there, <3>1, <3>2, <3>3
  <2>next. ASSUME req'[r].pc \in Branched PROVE row'[req'[r].new].next = None
    <3>1. CASE req[r].pc \in Branched
      <4>1. row[req[r].new].next = None
        BY <3>1, <1>inv DEF RowOfBranch
      <4> QED
        BY <2>row, <3>1, <4>1, <1>own DEF NoRow
    <3>2. CASE req[r].pc \notin Branched
      <4>1. Copies(r)
        BY <2>next, <3>2, <1>moves, <1>kinds DEF Moves, Starts, JoinsBranch, Goes, Lost, Branched, Published,
           Withdrawing, Steps
      <4> DEFINE s == req'[r].new
      <4>2. s = used + 1 /\ s \in Sessions
        <5>1. s # None /\ s \in {None} \cup Sessions
          BY <2>next, <1>base, <1>kinds DEF PlaceInv, BranchStands, TypeOK
        <5> QED
          BY <4>1, <5>1 DEF Copies
      <4>3. row[s] = NoRow
        BY <4>2, <1>base, <1>type DEF PlaceInv, NothingBeyond
      <4>4. RowMoves(s)
        BY <4>2, RowKnown
      <4>5. ASSUME NEW q \in Rewrites, Create(q) PROVE s # req[q].new
        <5>1. req[q].new <= used
          BY <4>5, <1>base, <1>kinds DEF Create, PlaceInv, IdsInOrder, BranchStands, Branched
        <5>2. req[q].new \in Nat
          <6>1. q \in Requests
            BY <1>kinds
          <6>2. req[q].new \in {None} \cup Sessions
            BY <6>1, <1>type
          <6> QED
            BY <6>2, <1>type
        <5> QED
          BY <4>2, <5>1, <5>2, <1>type
      <4> HIDE DEF s
      <4> QED
        <5>1. ~row[s].there /\ row[s].next = None
          BY <4>3, <1>norow
        <5>2. row'[s].next = None
          BY <4>4, <4>5, <5>1, <1>norow DEF RowMoves
        <5> QED
          BY <5>2 DEF s
    <3> QED
      BY <3>1, <3>2
  <2> QED
    BY <2>learns, <2>there, <2>next
<1>rewrite. RewriteHolds'
  <2> SUFFICES ASSUME NEW r \in Rewrites, req'[r].pc \in Holding
               PROVE  admission'[req'[r].at] = r /\ tray'[req'[r].at] = {}
    BY DEF RewriteHolds
  <2>1. CASE req[r].pc \notin Holding
    <3>1. Admit(r) /\ Goto(r, "interrupt")
      BY <2>1, HoldingStarts
    <3>2. req'[r].at = req[r].at
      BY <3>1, <1>base, <1>kinds, Going1 DEF OnlyPlace, Stays
    <3>3. tray[req[r].at] = {} /\ UNCHANGED tray
      <4>1. ~Refuse(r, "queued")
        <5>1. ASSUME Refuse(r, "queued") PROVE FALSE
          <6>1. req'[r].pc = "refused"
            BY <5>1, <1>base, <1>kinds, Going1 DEF OnlyPlace
          <6> QED
            BY <6>1 DEF Holding
        <5> QED
          BY <5>1
      <4> QED
        BY <3>1, <4>1 DEF Admit, memory
    <3>4. req[r].at \in Sessions
      BY <3>1, <1>known, <1>kinds DEF Admit, Steps
    <3>5. admission' = [admission EXCEPT ![req[r].at] = r] \/ tray[req[r].at] # {}
      BY <3>1 DEF Admit
    <3> QED
      BY <3>2, <3>3, <3>4, <3>5, <1>base DEF TypeOK
  <2>2. CASE req[r].pc \in Holding
    <3> DEFINE s == req[r].at
    <3>1. s \in Sessions /\ admission[s] = r /\ tray[s] = {}
      BY <2>2, <1>known, <1>kinds, <1>inv DEF RewriteHolds, Holding, Steps
    <3>2. req'[r].at = s
      BY <2>2, <1>moves, <1>kinds DEF Moves, Starts, JoinsBranch, Copies, Goes, Stays, Lost, Holding
    <3>3. admission'[s] = r
      <4>1. \/ admission'[s] = admission[s] \/ admission[s] = Nobody \/ Crash
            \/ \E q \in Requests : admission[s] = q /\ req'[q].pc \in Over \cup {"meta"}
        BY <3>1, <1>inv, AdmissionKnown
      <4>2. ~Crash
        BY <2>2, <1>kinds, CrashMoves DEF Holding, Steps
      <4>3. ~(\E q \in Requests : admission[s] = q /\ req'[q].pc \in Over \cup {"meta"})
        BY <3>1 DEF Holding, Over
      <4> QED
        BY <3>1, <4>1, <4>2, <4>3, <1>nobody, <1>kinds
    <3>4. tray'[s] = {}
      <4>1. TrayMoves(s)
        BY <3>1, TrayKnown
      <4>2. ASSUME NEW q \in Rewrites, req[q].pc = "send" PROVE s # req[q].new
        BY <4>2, <2>2, <1>known, <1>kinds DEF Branched, Published, Holding, Steps
      <4>3. ASSUME NEW q \in Sends, req[q].pc = "send" PROVE s # req[q].at
        BY <4>3, <3>1, <1>inv, <1>kinds DEF SendHolds, Steps
      <4> HIDE DEF s
      <4> QED
        BY <3>1, <4>1, <4>2, <4>3 DEF TrayMoves
    <3> QED
      BY <3>2, <3>3, <3>4
  <2> QED
    BY <2>1, <2>2
<1>send. SendHolds'
  <2> SUFFICES ASSUME NEW q \in Sends, req'[q].pc \in Steps
               PROVE  admission'[req'[q].at] = q /\ row'[req'[q].at].next = None
    BY DEF SendHolds
  <2>q. q \in Requests /\ q \notin Rewrites /\ q \notin Deletes
    BY RewriteAssumption DEF Requests
  <2>1. CASE req[q].pc \notin Steps
    <3>1. Send(q) /\ SendStarts(q)
      <4>1. SendStarts(q)
        BY <2>1, <2>q, <1>moves DEF Moves, SendGoes, Lost, Steps
      <4>2. req'[q] # req[q]
        BY <2>1
      <4> QED
        BY <2>1, <2>q, <4>1, <4>2, WhoMoves DEF Lost
    <3>2. AdmitSend(q)
      BY <2>1, <3>1 DEF Send, ConnectSend, DeliverSend, Steps
    <3>3. PICK s \in Known :
             /\ admission[s] = Nobody
             /\ \/ /\ row[s].there /\ row[s].next = None
                   /\ req' = [req EXCEPT ![q].pc = "connect", ![q].at = s]
                   /\ admission' = [admission EXCEPT ![s] = q]
                \/ req' = [req EXCEPT ![q].pc = "refused", ![q].at = s, ![q].why = "superseded"]
      <4> DEFINE Goes1(s) == req' = [req EXCEPT ![q].pc = "connect", ![q].at = s]
                 Stops(s) == req' = [req EXCEPT ![q].pc = "refused", ![q].at = s, ![q].why = "superseded"]
                 Locks(s) == admission' = [admission EXCEPT ![s] = q]
      <4>1. \E s \in Known : /\ admission[s] = Nobody
                             /\ IF row[s].there /\ row[s].next = None
                                THEN Goes1(s) /\ Locks(s)
                                ELSE Stops(s) /\ UNCHANGED admission
        BY <3>2, Zenon DEF AdmitSend
      <4> HIDE DEF Goes1, Stops, Locks
      <4>2. PICK s \in Known : /\ admission[s] = Nobody
                               /\ (row[s].there /\ row[s].next = None /\ Goes1(s) /\ Locks(s)) \/ Stops(s)
        BY <4>1
      <4> USE DEF Goes1, Stops, Locks
      <4> QED
        BY <4>2, Zenon
    <3>4. UNCHANGED row
      BY <3>2 DEF AdmitSend, db
    <3>5. req' # [req EXCEPT ![q].pc = "refused", ![q].at = s, ![q].why = "superseded"]
      <4>1. ASSUME req' = [req EXCEPT ![q].pc = "refused", ![q].at = s, ![q].why = "superseded"] PROVE FALSE
        <5>1. req'[q].pc = "refused"
          BY <4>1, <2>q, <1>base DEF TypeOK
        <5> QED
          BY <5>1 DEF Steps
      <4> QED
        BY <4>1
    <3>6. req'[q].at = s
      BY <3>3, <3>5, <2>q, <1>base DEF TypeOK
    <3>7. s \in Sessions
      BY <3>1, <3>6, <1>base, <2>q DEF SendStarts, PlaceInv, AddressIsKnown, TypeOK
    <3> QED
      BY <3>3, <3>4, <3>5, <3>6, <3>7, <1>base DEF TypeOK
  <2>2. CASE req[q].pc \in Steps
    <3> DEFINE s == req[q].at
    <3>1. s \in Sessions /\ admission[s] = q /\ row[s].next = None
      BY <2>2, <2>q, <1>known, <1>inv DEF SendHolds
    <3>2. req'[q].at = s
      <4>1. req[q].pc # "new"
        BY <2>2 DEF Steps
      <4> QED
        BY <4>1, <2>q, <1>moves DEF Moves, SendStarts, SendGoes, Stays, Lost
    <3>3. admission'[s] = q
      <4>1. \/ admission'[s] = admission[s] \/ admission[s] = Nobody \/ Crash
            \/ \E o \in Requests : admission[s] = o /\ req'[o].pc \in Over \cup {"meta"}
        BY <3>1, <1>inv, AdmissionKnown
      <4>2. ~Crash
        BY <2>2, <2>q, CrashMoves DEF Steps
      <4>3. req'[q].pc \notin Over \cup {"meta"}
        <5>1. req'[q].pc \in {"new", "connect", "send"} \cup Over
          BY <1>base DEF PlaceInv, PlacesStand
        <5> QED
          BY <5>1 DEF Over, Steps
      <4> QED
        BY <3>1, <4>1, <4>2, <4>3, <1>nobody, <2>q
    <3>4. row'[s].next = None
      <4>1. RowMoves(s)
        BY <3>1, RowKnown
      <4>2. ASSUME NEW r \in Rewrites, Create(r) PROVE s # req[r].new
        BY <4>2, <2>2, <2>q, <1>known DEF Create, Branched
      <4>3. ASSUME NEW r \in Rewrites, Mark(r) PROVE s # req[r].at
        <5>1. admission[req[r].at] = r
          BY <4>3, <1>inv DEF Mark, RewriteHolds, Holding
        <5> QED
          BY <5>1, <3>1, <1>kinds
      <4> HIDE DEF s
      <4> QED
        BY <3>1, <4>1, <4>2, <4>3, <1>unrow DEF RowMoves, NoRow
    <3> QED
      BY <3>2, <3>3, <3>4
  <2> QED
    BY <2>1, <2>2
<1>silent. HiddenIsSilent'
  <2> SUFFICES ASSUME NEW s \in Sessions, row'[s].there, row'[s].next # None PROVE tray'[s] = {}
    BY DEF HiddenIsSilent
  <2>1. RowMoves(s) /\ TrayMoves(s)
    BY RowKnown, TrayKnown
  <2>mark. ASSUME NEW r \in Rewrites, Mark(r), s = req[r].at PROVE tray'[s] = {}
    BY <2>mark, <1>inv DEF Mark, RewriteHolds, Holding, memory
  <2>unrow. ASSUME NEW q \in Requests, Unrow(q), row[s].there, row[s].next = Doomed(q) PROVE tray'[s] = {}
    BY <2>unrow, <1>unrow, <1>inv DEF HiddenIsSilent
  <2>same. ASSUME row'[s] = row[s] PROVE tray'[s] = {}
    <3>1. tray[s] = {} /\ row[s].next # None
      BY <2>same, <1>inv DEF HiddenIsSilent
    <3>2. ASSUME NEW r \in Rewrites, s = req[r].new PROVE req[r].pc # "send"
      BY <3>1, <3>2, <1>inv DEF RowOfBranch, Branched, Published
    <3>3. ASSUME NEW q \in Sends, s = req[q].at PROVE req[q].pc # "send"
      BY <3>1, <3>3, <1>inv DEF SendHolds, Steps
    <3> QED
      BY <2>1, <3>1, <3>2, <3>3 DEF TrayMoves
  <2> QED
    <3>1. ~(row'[s] = NoRow)
      BY <1>norow
    <3>2. \/ row'[s] = row[s]
          \/ \E r \in Rewrites : Mark(r) /\ s = req[r].at
          \/ \E q \in Requests : Unrow(q) /\ row[s].there /\ row[s].next = Doomed(q)
      BY <2>1, <3>1 DEF RowMoves
    <3> QED
      BY <3>2, <2>mark, <2>unrow, <2>same
<1> QED
  BY <1>row, <1>rewrite, <1>send, <1>silent DEF SilenceInv

(* Every value the program keeps has its type. *)
THEOREM RewriteTypeCorrect == Spec => []TypeOK
<1>1. Init => BaseInv
  BY RewriteStarts
<1>2. BaseInv /\ [Next]_vars => BaseInv'
  BY BaseKeeps
<1>3. BaseInv => TypeOK
  BY DEF BaseInv
<1> QED
  BY <1>1, <1>2, <1>3, PTL DEF Spec

(* Nothing the user sent runs on in a session he no longer sees: a session *)
(* hidden behind its branch has no message waiting (service.py:297, 526).  *)
THEOREM HiddenSessionsAreSilent == Spec => []HiddenIsSilent
<1>1. Init => BaseInv /\ SilenceInv
  BY RewriteStarts
<1>2. BaseInv /\ SilenceInv /\ [Next]_vars => BaseInv' /\ SilenceInv'
  BY BaseKeeps, SilenceKeeps
<1>3. SilenceInv => HiddenIsSilent
  BY DEF SilenceInv
<1> QED
  BY <1>1, <1>2, <1>3, PTL DEF Spec

-----------------------------------------------------------------------------
(* The attempts of one rewrite run one at a time.  The first session of a  *)
(* conversation hides behind the branch that has their message, and an     *)
(* attempt that goes beyond its look at the row found none.                *)
AttemptsAreApart == \A k, j \in Keyed : k # j => ~(req[k].pc \in Steps /\ req[j].pc \in Steps)
KeyIsBehindFirst == \A t \in Sessions : HasKey(t) => ~row[1].there \/ row[1].next = t
PublishedIsNext == \A k \in Keyed : req[k].pc \in Published => ~row[1].there \/ row[1].next = req[k].new
NoKeyBeyondLook == \A k \in Keyed : req[k].pc \in Steps \ {"look"} => \A t \in Sessions : ~HasKey(t)
(* The message goes with the session that is deleted.                      *)
DeletedHasNoKey ==
    \A d \in Deletes : /\ req[d].pc \in {"find", "unlog"} => tray[req[d].at] \cap Keyed = {}
                       /\ req[d].pc \in {"read", "unrow"} => ~HasKey(req[d].at)
KeyIsUnique == \A s, t \in Sessions : HasKey(s) /\ HasKey(t) => s = t

KeyInv == AttemptsAreApart /\ KeyIsBehindFirst /\ PublishedIsNext /\ NoKeyBeyondLook /\ DeletedHasNoKey /\ KeyIsUnique

LEMMA KeyStarts == Init => KeyInv
<1> SUFFICES ASSUME Init PROVE KeyInv
  OBVIOUS
<1>req. \A q \in Requests : req[q].pc = "new"
  BY DEF Init, NewRequest
<1>kinds. Keyed \subseteq Requests /\ Deletes \subseteq Requests
  BY DEF Requests, Rewrites
<1>key. \A s \in Sessions : ~HasKey(s)
  BY DEF Init, HasKey
<1> QED
  BY <1>req, <1>kinds, <1>key DEF KeyInv, AttemptsAreApart, KeyIsBehindFirst, PublishedIsNext, NoKeyBeyondLook,
     DeletedHasNoKey, KeyIsUnique, Published, Steps

(* The message comes to a session by the attempt that sends it there.      *)
LEMMA KeyMoves ==
  ASSUME BaseInv, [Next]_vars, NEW s \in Sessions
  PROVE  /\ HasKey(s)' => \/ HasKey(s)
                          \/ \E k \in Keyed : s = req[k].new /\ req[k].pc = "send" /\ req'[k].pc = "accepted"
         /\ tray'[s] \cap Keyed # {} =>
                \/ tray[s] \cap Keyed # {}
                \/ \E k \in Keyed : s = req[k].new /\ req[k].pc = "send" /\ req'[k].pc = "accepted"
<1>1. TrayMoves(s) /\ log'[s] \subseteq log[s] \cup tray[s]
  BY TrayKnown
<1>2. Sends \cap Keyed = {} /\ Keyed \subseteq Rewrites
  BY RewriteAssumption DEF Rewrites
<1>3. ASSUME NEW k \in Keyed, k \in tray'[s]
      PROVE  k \in tray[s] \/ (s = req[k].new /\ req[k].pc = "send" /\ req'[k].pc = "accepted")
  BY <1>1, <1>2, <1>3 DEF TrayMoves
<1>4. ASSUME NEW k \in Keyed, k \in tray'[s] \cup log'[s]
      PROVE  k \in tray[s] \cup log[s] \/ (s = req[k].new /\ req[k].pc = "send" /\ req'[k].pc = "accepted")
  BY <1>1, <1>3, <1>4
<1>5. HasKey(s)' = ((tray'[s] \cup log'[s]) \cap Keyed # {}) /\ HasKey(s) = ((tray[s] \cup log[s]) \cap Keyed # {})
  BY DEF HasKey
<1> QED
  BY <1>3, <1>4, <1>5

(* A deletion forgets the session's queue before it starts, and its log.   *)
LEMMA DeletesForget ==
  ASSUME BaseInv, [Next]_vars, NEW d \in Deletes, req'[d] # req[d]
  PROVE  /\ req'[d].pc = "find" => tray'[req'[d].at] = {}
         /\ req'[d].pc = "unlog" => req[d].pc = "find"
         /\ req'[d].pc = "read" => req[d].pc = "unlog" /\ log'[req[d].at] = {} /\ UNCHANGED tray
         /\ req'[d].pc = "unrow" => req[d].pc = "read"
<1>d. d \in Requests /\ d \notin Rewrites /\ d \notin Sends
  BY RewriteAssumption DEF Requests
<1>type. /\ tray \in [Sessions -> SUBSET Requests] /\ log \in [Sessions -> SUBSET Requests]
         /\ req \in [Requests -> RequestType] /\ Known \subseteq Sessions
  <2>1. req \in [Requests -> RequestType]
    BY DEF BaseInv, TypeOK, RequestType, Places, Reasons
  <2>2. Known \subseteq Sessions
    BY <2>1 DEF Known, BaseInv, PlaceInv, BranchStands, RequestType, Requests
  <2> QED
    BY <2>1, <2>2 DEF BaseInv, TypeOK
<1>go. /\ \A pc : Goto(d, pc) => req'[d].pc = pc
       /\ \A pc, why : End(d, pc, why) => req'[d].pc = pc
  BY <1>d, Going1 DEF BaseInv, OnlyPlace
<1>who. Delete(d) \/ Lost(d)
  BY <1>d, WhoMoves
<1>lost. ASSUME Lost(d) PROVE req'[d].pc = "lost"
  BY <1>lost DEF Lost
<1>close. ASSUME CloseDeleted(d) PROVE req'[d].pc = "find" /\ tray'[req'[d].at] = {}
  <2>1. PICK s \in Known : /\ req' = [req EXCEPT ![d].pc = "find", ![d].at = s]
                           /\ tray' = [tray EXCEPT ![s] = {}]
    BY <1>close DEF CloseDeleted
  <2>2. req'[d].pc = "find" /\ req'[d].at = s
    BY <2>1, <1>d, <1>type DEF RequestType
  <2> QED
    BY <2>1, <2>2, <1>type
<1>text. ASSUME DeleteText(d) PROVE req'[d].pc = "unlog" /\ req[d].pc = "find"
  BY <1>text, <1>go DEF DeleteText
<1>log. ASSUME DeleteLog(d)
        PROVE  req'[d].pc = "read" /\ req[d].pc = "unlog" /\ log'[req[d].at] = {} /\ UNCHANGED tray
  <2>1. req[d].at \in Sessions
    BY <1>log, <1>d, <1>type DEF DeleteLog, BaseInv, PlaceInv, AddressIsKnown, Steps
  <2> QED
    BY <2>1, <1>log, <1>go, <1>type DEF DeleteLog, memory
<1>read. ASSUME ReadHeir(d) PROVE req'[d].pc = "unrow" /\ req[d].pc = "read"
  BY <1>read, <1>d, <1>type DEF ReadHeir, RequestType
<1>unrow. ASSUME Unrow(d) PROVE req'[d].pc = "accepted"
  BY <1>unrow, <1>d, <1>go DEF Unrow
<1> QED
  BY <1>who, <1>lost, <1>close, <1>text, <1>log, <1>read, <1>unrow DEF Delete


(* A branch is published where nobody else had hidden its origin. *)
LEMMA PublishedStarts ==
  ASSUME BaseInv, [Next]_vars, NEW r \in Rewrites, req'[r].pc \in Published, req[r].pc \notin Published
  PROVE  Mark(r) /\ row[req[r].at].there /\ row' = [row EXCEPT ![req[r].at].next = req[r].new]
<1>r. r \in Requests /\ r \notin Deletes /\ r \notin Sends
  BY RewriteAssumption DEF Requests
<1>moved. Rewrite(r)
  BY <1>r, WhoMoves DEF Lost, Published
<1>mark. Mark(r)
  BY <1>moved, StepPlaces, PlacesAfter DEF Rewrite, Published
<1>free. row[req[r].at].there /\ row[req[r].at].next = None
  <2>1. ASSUME req' = [req EXCEPT ![r].pc = "clear", ![r].placed = TRUE, ![r].why = "superseded"] PROVE FALSE
    <3>1. req'[r].pc = "clear"
      BY <2>1, <1>r DEF BaseInv, TypeOK
    <3> QED
      BY <3>1 DEF Published
  <2> QED
    BY <1>mark, <2>1 DEF Mark
<1> QED
  BY <1>mark, <1>free DEF Mark

LEMMA KeyKeeps == ASSUME BaseInv, KeyInv, [Next]_vars PROVE KeyInv'
<1>base. BaseInv' /\ TypeOK /\ PlaceInv /\ MessagesStand
  BY BaseKeeps DEF BaseInv
<1>inv. AttemptsAreApart /\ KeyIsBehindFirst /\ PublishedIsNext /\ NoKeyBeyondLook /\ DeletedHasNoKey /\ KeyIsUnique
  BY DEF KeyInv
<1>kinds. ASSUME NEW k \in Keyed PROVE k \in Rewrites /\ k \in Requests /\ k \notin Sends /\ k \notin Deletes
  BY RewriteAssumption DEF Requests, Rewrites
<1>moves. \A q \in Requests : Moves(q) /\ (Alone(q) \/ Lost(q) \/ req'[q] = req[q])
  BY EveryoneMoves
<1>first. 1 \in Sessions /\ 1 \in Known
  BY RewriteAssumption, FS_CardinalityType, FS_Subset DEF Sessions, Known, Requests
<1>none. None \notin Sessions
  BY DEF Sessions, None
<1>at. ASSUME NEW k \in Keyed, req[k].pc \in Steps PROVE req[k].at = 1
  BY <1>at, <1>base, <1>kinds DEF PlaceInv, PlacesStand, AddressIsKnown
<1>branch. ASSUME NEW r \in Rewrites, req[r].pc \in Branched
           PROVE  /\ req[r].new # None /\ req[r].new \notin Known /\ req[r].new \in Sessions
                  /\ \A q \in Rewrites : req[q].new = req[r].new => q = r
  <2>1. req[r].new # None /\ req[r].new \notin Known
    BY <1>branch, <1>base, BranchIsUnknown
  <2>2. req[r].new \in Sessions
    BY <2>1, <1>base DEF TypeOK, Requests
  <2>3. req[r].pc # "accepted"
    BY <1>branch DEF Branched, Published, Withdrawing
  <2> QED
    BY <2>1, <2>2, <2>3, <1>base DEF PlaceInv, BranchIsOwn
<1>sent. \A t \in Sessions : HasKey(t)' => \/ HasKey(t)
                                          \/ \E k \in Keyed : t = req[k].new /\ req[k].pc = "send" /\ req'[k].pc = "accepted"
  BY KeyMoves
<1>steps. {"look", "send", "mark", "create", "clear", "unrow"} \cup Published \subseteq Steps
  BY DEF Steps, Published
<1>begin. ASSUME NEW k \in Keyed, req'[k].pc \in Steps, req[k].pc \notin Steps
          PROVE  req'[k].pc = "look" /\ Alone(k) /\ \A j \in Keyed : req[j].pc \notin Steps
  <2>1. Starts(k)
    BY <1>begin, <1>moves, <1>kinds, <1>steps DEF Moves, JoinsBranch, Copies, Goes, Lost, Steps
  <2> QED
    BY <2>1, <1>begin, <1>moves, <1>kinds DEF Starts, Lost
<1>apart. AttemptsAreApart'
  <2> SUFFICES ASSUME NEW k \in Keyed, NEW j \in Keyed, k # j, req'[k].pc \in Steps, req'[j].pc \in Steps PROVE FALSE
    BY DEF AttemptsAreApart
  <2>1. CASE req[k].pc \in Steps /\ req[j].pc \in Steps
    BY <2>1, <1>inv DEF AttemptsAreApart
  <2>2. CASE req[k].pc \notin Steps
    BY <2>2, <1>begin, <1>kinds DEF Alone
  <2>3. CASE req[j].pc \notin Steps
    BY <2>3, <1>begin, <1>kinds DEF Alone
  <2> QED
    BY <2>1, <2>2, <2>3
<1>beyond. NoKeyBeyondLook'
  <2> SUFFICES ASSUME NEW k \in Keyed, req'[k].pc \in Steps \ {"look"}, NEW t \in Sessions, HasKey(t)' PROVE FALSE
    BY DEF NoKeyBeyondLook
  <2>1. req[k].pc \in Steps
    BY <1>begin
  <2>2. HasKey(t)
    <3>1. ASSUME NEW j \in Keyed, req[j].pc = "send", req'[j].pc = "accepted" PROVE FALSE
      <4>1. j = k
        BY <2>1, <3>1, <1>inv, <1>steps DEF AttemptsAreApart
      <4> QED
        BY <4>1, <3>1 DEF Steps
    <3> QED
      BY <3>1, <1>sent
  <2>3. CASE req[k].pc # "look"
    BY <2>1, <2>2, <2>3, <1>inv DEF NoKeyBeyondLook
  <2>4. CASE req[k].pc = "look"
    <3>1. Look(k)
      <4>1. Rewrite(k)
        BY <2>4, <1>kinds, WhoMoves DEF Lost, Steps
      <4> QED
        BY <2>4, <4>1, <1>kinds, StepPlaces DEF Rewrite
    <3>2. row[1].there /\ row[1].next = None
      <4>1. ~(\E why : Refuse(k, why))
        <5>1. ASSUME NEW why, Refuse(k, why) PROVE FALSE
          <6>1. req'[k].pc = "refused"
            BY <5>1, <1>base, <1>kinds, Going1 DEF OnlyPlace
          <6> QED
            BY <6>1 DEF Steps
        <5> QED
          BY <5>1
      <4>2. req' # [req EXCEPT ![k].pc = "accepted", ![k].new = row[req[k].at].next]
        <5>1. ASSUME req' = [req EXCEPT ![k].pc = "accepted", ![k].new = row[req[k].at].next] PROVE FALSE
          <6>1. req'[k].pc = "accepted"
            BY <5>1, <1>base, <1>kinds DEF TypeOK
          <6> QED
            BY <6>1 DEF Steps
        <5> QED
          BY <5>1
      <4> QED
        BY <3>1, <4>1, <4>2, <2>1, <1>at DEF Look
    <3> QED
      BY <2>2, <3>2, <1>inv, <1>none DEF KeyIsBehindFirst
  <2> QED
    BY <2>3, <2>4
<1>row. RowMoves(1)
  BY <1>first, RowKnown
<1>norow. ~NoRow.there
  BY DEF NoRow
<1>create. ASSUME NEW q \in Rewrites, Create(q) PROVE req[q].new # 1
  BY <1>create, <1>first, <1>branch DEF Create, Branched
<1>withdrawn. ASSUME NEW t \in Sessions, NEW q \in Requests, Unrow(q), t = Doomed(q), q \in Rewrites
              PROVE  t = req[q].new /\ req[q].pc \in Branched
  BY <1>withdrawn DEF Unrow, Doomed, Branched, Withdrawing
<1>deleted. ASSUME NEW q \in Requests, Unrow(q), q \notin Rewrites
            PROVE  q \in Deletes /\ req[q].pc = "unrow" /\ Doomed(q) = req[q].at /\ req[q].at \in Known
  BY <1>deleted, <1>base DEF Unrow, Doomed, PlaceInv, PlacesStand, AddressIsKnown, Requests, Over, Steps
<1>next. PublishedIsNext'
  <2> SUFFICES ASSUME NEW k \in Keyed, req'[k].pc \in Published PROVE ~row'[1].there \/ row'[1].next = req'[k].new
    BY DEF PublishedIsNext
  <2>1. CASE req[k].pc \notin Published
    <3>1. Mark(k) /\ row' = [row EXCEPT ![req[k].at].next = req[k].new]
      BY <2>1, <1>kinds, PublishedStarts
    <3>2. req[k].at = 1 /\ req'[k].new = req[k].new
      <4>1. req[k].pc = "mark"
        BY <3>1 DEF Mark
      <4> QED
        BY <4>1, <1>at, <1>steps, <1>moves, <1>kinds DEF Moves, Starts, JoinsBranch, Copies, Goes, Stays, Lost
    <3> QED
      BY <3>1, <3>2, <1>first, <1>base DEF TypeOK
  <2>2. CASE req[k].pc \in Published
    <3>1. req'[k].new = req[k].new
      BY <2>2, <1>moves, <1>kinds DEF Moves, Starts, JoinsBranch, Copies, Goes, Stays, Lost, Published
    <3>2. ~row[1].there \/ row[1].next = req[k].new
      BY <2>2, <1>inv DEF PublishedIsNext
    <3>3. req[k].pc \in Branched /\ req[k].new # None
      BY <2>2, <1>branch, <1>kinds DEF Branched
    <3>4. ASSUME NEW q \in Rewrites, Clear(q) PROVE req[q].new # req[k].new
      <4>1. q # k
        BY <2>2, <3>4 DEF Clear, Published
      <4> QED
        BY <4>1, <3>3, <1>branch, <1>kinds
    <3>5. ASSUME NEW q \in Requests, Unrow(q) PROVE Doomed(q) # req[k].new
      <4>1. CASE q \in Rewrites
        <5>1. q # k /\ Doomed(q) = req[q].new
          BY <2>2, <3>5, <4>1 DEF Unrow, Published, Doomed
        <5> QED
          BY <5>1, <3>3, <4>1, <1>branch, <1>kinds
      <4>2. CASE q \notin Rewrites
        BY <3>5, <4>2, <3>3, <1>deleted, <1>branch, <1>kinds
      <4> QED
        BY <4>1, <4>2
    <3>6. ~row'[1].there \/ row'[1].next = req[k].new
      BY <3>2, <3>3, <3>4, <3>5, <1>row, <1>create, <1>norow DEF RowMoves
    <3> QED
      BY <3>1, <3>6
  <2> QED
    BY <2>1, <2>2
<1>behind. KeyIsBehindFirst'
  <2> SUFFICES ASSUME NEW t \in Sessions, HasKey(t)' PROVE ~row'[1].there \/ row'[1].next = t
    BY DEF KeyIsBehindFirst
  <2>1. CASE ~HasKey(t)
    <3>1. PICK k \in Keyed : t = req[k].new /\ req[k].pc = "send" /\ req'[k].pc = "accepted"
      BY <2>1, <1>sent
    <3>2. Dispatch(k)
      <4>1. Rewrite(k)
        BY <3>1, <1>kinds, WhoMoves DEF Lost
      <4> QED
        BY <3>1, <4>1, <1>kinds, StepPlaces DEF Rewrite
    <3> QED
      BY <3>1, <3>2, <1>inv DEF Dispatch, db, PublishedIsNext, Published
  <2>2. CASE HasKey(t)
    <3>1. ~row[1].there \/ row[1].next = t
      BY <2>2, <1>inv DEF KeyIsBehindFirst
    <3>2. PICK k \in Keyed : req[k].pc = "accepted" /\ req[k].new = t
      BY <2>2, <1>base, <1>kinds DEF HasKey, MessagesStand
    <3>3. ASSUME NEW q \in Rewrites, Clear(q) PROVE req[q].new # t
      BY <3>2, <3>3, <1>branch, <1>kinds DEF Clear, Branched, Withdrawing
    <3>4. ASSUME NEW q \in Requests, Unrow(q) PROVE Doomed(q) # t
      <4>1. CASE q \in Rewrites
        BY <3>2, <3>4, <4>1, <1>withdrawn, <1>branch, <1>kinds DEF Unrow
      <4>2. CASE q \notin Rewrites
        BY <2>2, <3>4, <4>2, <1>deleted, <1>inv DEF DeletedHasNoKey
      <4> QED
        BY <4>1, <4>2
    <3> QED
      BY <3>1, <3>3, <3>4, <1>row, <1>create, <1>norow, <1>none DEF RowMoves
  <2> QED
    BY <2>1, <2>2
<1>forgotten. DeletedHasNoKey'
  <2> SUFFICES ASSUME NEW d \in Deletes
               PROVE  /\ req'[d].pc \in {"find", "unlog"} => tray'[req'[d].at] \cap Keyed = {}
                      /\ req'[d].pc \in {"read", "unrow"} => ~HasKey(req[d].at)'
    BY DEF DeletedHasNoKey, HasKey
  <2>d. d \in Requests /\ d \notin Rewrites /\ d \notin Sends
    BY RewriteAssumption DEF Requests
  <2>old. /\ req[d].pc \in {"find", "unlog"} => tray[req[d].at] \cap Keyed = {}
          /\ req[d].pc \in {"read", "unrow"} => ~HasKey(req[d].at)
    BY <1>inv DEF DeletedHasNoKey
  <2>forget. \/ req'[d] = req[d]
             \/ /\ req'[d].pc = "find" => tray'[req'[d].at] = {}
                /\ req'[d].pc = "unlog" => req[d].pc = "find"
                /\ req'[d].pc = "read" => req[d].pc = "unlog" /\ log'[req[d].at] = {} /\ UNCHANGED tray
                /\ req'[d].pc = "unrow" => req[d].pc = "read"
    BY DeletesForget
  <2>at. ASSUME req[d].pc \in Steps
         PROVE  /\ req'[d].at = req[d].at /\ req[d].at \in Sessions
                /\ HasKey(req[d].at)' => HasKey(req[d].at)
                /\ tray'[req[d].at] \cap Keyed # {} => tray[req[d].at] \cap Keyed # {}
    <3>1. req'[d].at = req[d].at
      BY <2>at, <2>d, <1>moves DEF Moves, DeleteStarts, DeleteGoes, Stays, Lost, Steps
    <3>2. req[d].at \in Sessions /\ req[d].at \in Known
      BY <2>at, <2>d, <1>base DEF TypeOK, PlaceInv, AddressIsKnown
    <3>3. ASSUME NEW k \in Keyed, req[k].pc = "send" PROVE req[k].new # req[d].at
      BY <3>2, <3>3, <1>branch, <1>kinds DEF Branched, Published
    <3> QED
      BY <3>1, <3>2, <3>3, KeyMoves
  <2>places. {"find", "unlog", "read", "unrow"} \subseteq Steps
    BY DEF Steps
  <2>1. ASSUME req'[d].pc \in {"find", "unlog"} PROVE tray'[req'[d].at] \cap Keyed = {}
    BY <2>1, <2>old, <2>forget, <2>at, <2>places
  <2>2. ASSUME req'[d].pc \in {"read", "unrow"} PROVE ~HasKey(req[d].at)'
    <3>1. CASE req[d].pc \in {"read", "unrow"}
      BY <3>1, <2>old, <2>at, <2>places DEF HasKey
    <3>2. CASE req[d].pc \notin {"read", "unrow"}
      <4>1. req[d].pc = "unlog" /\ log'[req[d].at] = {} /\ UNCHANGED tray
        BY <2>2, <3>2, <2>forget
      <4> QED
        BY <4>1, <2>old, <2>at, <2>places DEF HasKey
    <3> QED
      BY <3>1, <3>2
  <2> QED
    BY <2>1, <2>2
<1>unique. KeyIsUnique'
  <2> SUFFICES ASSUME NEW s \in Sessions, NEW t \in Sessions, HasKey(s)', HasKey(t)' PROVE s = t
    BY DEF KeyIsUnique, HasKey
  <2>1. CASE HasKey(s) /\ HasKey(t)
    BY <2>1, <1>inv DEF KeyIsUnique
  <2>2. CASE ~HasKey(s) \/ ~HasKey(t)
    <3>1. PICK k \in Keyed : req[k].pc = "send" /\ req[k].new \in {s, t}
      BY <2>2, <1>sent
    <3>2. \A x \in Sessions : ~HasKey(x)
      BY <3>1, <1>inv, <1>steps DEF NoKeyBeyondLook
    <3>3. ASSUME NEW j \in Keyed, req[j].pc = "send" PROVE j = k
      BY <3>1, <3>3, <1>inv, <1>steps DEF AttemptsAreApart
    <3> QED
      BY <3>1, <3>2, <3>3, <1>sent
  <2> QED
    BY <2>1, <2>2
<1> QED
  BY <1>apart, <1>behind, <1>next, <1>beyond, <1>forgotten, <1>unique DEF KeyInv

LEMMA KeyUniqueIsOnce == KeyIsUnique => KeyOnce
<1> SUFFICES ASSUME KeyIsUnique PROVE Cardinality({s \in Sessions : HasKey(s)}) <= 1
  BY DEF KeyOnce
<1>none. CASE \A s \in Sessions : ~HasKey(s)
  <2>1. {s \in Sessions : HasKey(s)} = {}
    BY <1>none
  <2> QED
    BY <2>1, FS_EmptySet
<1>one. ASSUME NEW t \in Sessions, HasKey(t) PROVE Cardinality({s \in Sessions : HasKey(s)}) <= 1
  <2>1. {s \in Sessions : HasKey(s)} = {t}
    BY <1>one DEF KeyIsUnique
  <2>2. Cardinality({t}) = 1
    BY FS_Singleton
  <2> QED
    BY <2>1, <2>2
<1> QED
  BY <1>none, <1>one

(* However often a rewrite is tried, its message is in one session. *)
THEOREM KeyedMessageIsOnce == Spec => []KeyOnce
<1>1. Init => BaseInv /\ KeyInv
  BY RewriteStarts, KeyStarts
<1>2. BaseInv /\ KeyInv /\ [Next]_vars => BaseInv' /\ KeyInv'
  BY BaseKeeps, KeyKeeps
<1>3. KeyInv => KeyOnce
  BY KeyUniqueIsOnce DEF KeyInv
<1> QED
  BY <1>1, <1>2, <1>3, PTL DEF Spec

(* A retry is not told that its session was superseded while a session     *)
(* that is there has the message it retries (service.py:281): at its look  *)
(* that session is what the origin hides behind, and an attempt that is    *)
(* withdrawn because somebody else was faster knows of no such session.    *)
THEOREM RetriesFindTheirBranch == Spec => RetryFindsItsBranch
<1> DEFINE Told(r) == req'[r].pc = "refused" /\ req'[r].why = "superseded" /\ req[r].pc # "refused"
           Right == \A r \in Keyed : Told(r) => ~\E s \in Sessions : HasKey(s) /\ row[s].there
<1>1. Init => BaseInv /\ KeyInv
  BY RewriteStarts, KeyStarts
<1>2. BaseInv /\ KeyInv /\ [Next]_vars => BaseInv' /\ KeyInv'
  BY BaseKeeps, KeyKeeps
<1>3. ASSUME BaseInv, KeyInv, [Next]_vars, NEW r \in Keyed, Told(r), NEW s \in Sessions, HasKey(s), row[s].there PROVE FALSE
  <2>r. r \in Rewrites /\ r \in Requests
    BY DEF Requests, Rewrites
  <2>moved. Rewrite(r)
    BY <1>3, <2>r, WhoMoves, RewriteAssumption DEF Lost
  <2>why. ASSUME NEW why, Refuse(r, why) PROVE req'[r].why = why
    BY <1>3, <2>why, <2>r DEF Refuse, End, BaseInv, TypeOK
  <2>early. req[r].pc \in {"new", "look"}
    <3>1. req[r].pc \in Waiting \cup Over \cup Steps
      <4>1. req \in [Requests -> RequestType]
        BY <1>3 DEF BaseInv, TypeOK, RequestType, Places, Reasons
      <4>2. req[r] \in RequestType
        BY <4>1, <2>r
      <4> QED
        BY <4>2 DEF RequestType, Places
    <3>2. req[r].pc \notin Over
      BY <1>3, <2>r, KnownStays
    <3>3. req[r].pc \notin Steps \ {"look"}
      BY <1>3 DEF KeyInv, NoKeyBeyondLook
    <3> QED
      BY <3>1, <3>2, <3>3 DEF Waiting
  <2>look. Look(r)
    <3>1. ~Begin(r)
      BY <1>3, <2>r, PlacesAfter
    <3> QED
      BY <2>moved, <2>early, <2>r, <3>1, StepPlaces DEF Rewrite
  <2>first. req[r].at = 1
    BY <1>3, <2>r, <2>look DEF Look, BaseInv, PlaceInv, PlacesStand, AddressIsKnown, Steps
  <2>hidden. row[1].there /\ row[1].next # None /\ ~HasKey(row[1].next)
    <3>1. ~Refuse(r, "gone")
      BY <1>3, <2>why
    <3>2. ~Goto(r, "check")
      BY <1>3, <2>r, Going1 DEF BaseInv, OnlyPlace
    <3>3. req' # [req EXCEPT ![r].pc = "accepted", ![r].new = row[req[r].at].next]
      <4>1. ASSUME req' = [req EXCEPT ![r].pc = "accepted", ![r].new = row[req[r].at].next] PROVE FALSE
        <5>1. req'[r].pc = "accepted"
          BY <4>1, <1>3, <2>r DEF BaseInv, TypeOK
        <5> QED
          BY <5>1, <1>3
      <4> QED
        BY <4>1
    <3> QED
      BY <2>look, <2>first, <3>1, <3>2, <3>3 DEF Look
  <2>behind. row[1].next = s
    BY <1>3, <2>hidden DEF KeyInv, KeyIsBehindFirst
  <2> QED
    BY <1>3, <2>hidden, <2>behind
<1>4. BaseInv /\ KeyInv /\ [Next]_vars => [Right]_vars
  BY <1>3
<1> QED
  BY <1>1, <1>2, <1>4, PTL DEF Spec, RetryFindsItsBranch

-----------------------------------------------------------------------------
(* A branch that is not handed out has no message and, but for the moments *)
(* in which it is connected, no agent; what is withdrawn of it does not    *)
(* come back.                                                              *)
Unused(r) == req[r].new # None /\ req[r].pc \in Branched \cup {"refused"}
BranchIsQuiet ==
    \A r \in Rewrites : Unused(r) =>
        /\ tray[req[r].new] = {} /\ log[req[r].new] = {}
        /\ req[r].pc \notin {"connect", "send", "close"} => turn[req[r].new] = "off"
        /\ req[r].pc \in {"read", "unrow", "refused"} => req[r].new \notin text
        /\ req[r].pc = "refused" => ~row[req[r].new].there

(* What a refused rewrite had of a branch. *)
RefusedHasNoBranch ==
    \A r \in Rewrites : req[r].pc = "refused" /\ req[r].new # None =>
        LET t == req[r].new IN
        ~row[t].there /\ t \notin text /\ log[t] = {} /\ tray[t] = {} /\ turn[t] = "off"

LEMMA UnusedIsOwn ==
  ASSUME BaseInv, NEW r \in Rewrites, Unused(r)
  PROVE  /\ req[r].new \in Sessions /\ req[r].new \notin Known /\ req[r].new <= used
         /\ \A q \in Rewrites : req[q].new = req[r].new => q = r
         /\ \A q \in Requests : req[q].pc \in Steps => req[q].at # req[r].new
<1>1. req[r].pc # "accepted"
  BY DEF Unused, Branched, Published, Withdrawing
<1>2. req[r].new \in Sessions
  BY DEF Unused, BaseInv, TypeOK, Requests
<1>3. Origins < req[r].new /\ req[r].new <= used
  BY DEF Unused, BaseInv, PlaceInv, IdsInOrder
<1>4. \A q \in Rewrites : req[q].new = req[r].new => q = r
  BY <1>1 DEF Unused, BaseInv, PlaceInv, BranchIsOwn
<1>5. req[r].new \notin Known
  <2>1. ~(req[r].new <= Origins)
    BY <1>2, <1>3, RewriteAssumption DEF Sessions
  <2>2. ASSUME NEW q \in Rewrites, req[q].pc = "accepted" PROVE req[q].new # req[r].new
    BY <1>1, <1>4, <2>2
  <2> QED
    BY <2>1, <2>2 DEF Known
<1> QED
  BY <1>2, <1>3, <1>4, <1>5 DEF BaseInv, PlaceInv, AddressIsKnown

LEMMA QuietKeeps == ASSUME BaseInv, RowOfBranch, BranchIsQuiet, [Next]_vars PROVE BranchIsQuiet'
<1> SUFFICES ASSUME NEW r \in Rewrites, Unused(r)'
             PROVE  (/\ tray[req[r].new] = {} /\ log[req[r].new] = {}
                     /\ req[r].pc \notin {"connect", "send", "close"} => turn[req[r].new] = "off"
                     /\ req[r].pc \in {"read", "unrow", "refused"} => req[r].new \notin text
                     /\ req[r].pc = "refused" => ~row[req[r].new].there)'
  BY DEF BranchIsQuiet
<1>r. r \in Requests /\ r \notin Sends /\ r \notin Deletes
  BY RewriteAssumption DEF Requests
<1>base. BaseInv' /\ TypeOK /\ PlaceInv
  BY BaseKeeps DEF BaseInv
<1>move. Moves(r)
  BY <1>r, EveryoneMoves
<1>now. req'[r].new # None /\ req'[r].pc \in Branched \cup {"refused"}
  BY DEF Unused
<1>who. req'[r] # req[r] => Rewrite(r)
  BY <1>r, <1>now, WhoMoves DEF Lost, Branched, Published, Withdrawing
<1>copied. CASE Copies(r)
  <2>1. Rewrite(r)
    BY <1>copied, <1>who DEF Copies
  <2>2. Copy(r)
    BY <2>1, <1>copied, StepPlaces DEF Rewrite, Copies
  <2>3. UNCHANGED <<row, log, tray, turn>>
    BY <2>2 DEF Copy, memory
  <2>4. req'[r].new \in Sessions
    BY <1>now, <1>base, <1>r DEF BaseInv, TypeOK
  <2>5. req'[r].new > used
    BY <1>copied, <1>base DEF Copies, TypeOK, Sessions
  <2>6. tray[req'[r].new] = {} /\ log[req'[r].new] = {} /\ turn[req'[r].new] = "off"
    BY <2>4, <2>5, <1>base DEF PlaceInv, NothingBeyond
  <2> QED
    BY <2>3, <2>6, <1>copied DEF Copies
<1>had. CASE ~Copies(r)
  <2> DEFINE s == req[r].new
  <2>new. req'[r].new = s /\ Unused(r)
    <3>1. req'[r].new = s /\ s # None
      BY <1>had, <1>now, <1>move, <1>r DEF Moves, Starts, JoinsBranch, Goes, Stays, Lost, Branched, Published, Withdrawing
    <3>2. req[r].pc \in Branched \cup Over
      BY <3>1, <1>base DEF PlaceInv, BranchStands
    <3>3. req[r].pc \in Over => req[r].pc = "refused"
      BY <1>now, <1>r, KnownStays DEF Over, Branched, Published, Withdrawing
    <3> QED
      BY <3>1, <3>2, <3>3 DEF Unused
  <2>own. /\ s \in Sessions /\ s \notin Known /\ s <= used
          /\ \A q \in Rewrites : req[q].new = s => q = r
          /\ \A q \in Requests : req[q].pc \in Steps => req[q].at # s
    BY <2>new, UnusedIsOwn
  <2>old. /\ tray[s] = {} /\ log[s] = {}
          /\ req[r].pc \notin {"connect", "send", "close"} => turn[s] = "off"
          /\ req[r].pc \in {"read", "unrow", "refused"} => s \notin text
          /\ req[r].pc = "refused" => ~row[s].there
    BY <2>new DEF BranchIsQuiet
  <2>steps. Branched \subseteq Steps
    BY DEF Branched, Published, Withdrawing, Steps
  <2>stay. req'[r] = req[r] \/ (Rewrite(r) /\ req[r].pc \in Branched)
    BY <1>who, <1>r, <2>new, KnownStays DEF Unused, Over
  <2> HIDE DEF s
  <2>tray. tray'[s] = {} /\ log'[s] = {}
    <3>1. TrayMoves(s) /\ log'[s] \subseteq log[s] \cup tray[s]
      BY <2>own, TrayKnown
    <3>2. ASSUME NEW q \in Rewrites, s = req[q].new, req'[q].pc = "accepted" PROVE FALSE
      BY <3>2, <2>own, <1>now DEF Branched, Published, Withdrawing
    <3>3. ASSUME NEW q \in Sends, s = req[q].at, req[q].pc = "send" PROVE FALSE
      BY <3>3, <2>own DEF Steps, Requests
    <3> QED
      BY <3>1, <3>2, <3>3, <2>old DEF TrayMoves
  <2>turn. req'[r].pc \notin {"connect", "send", "close"} => turn'[s] = "off"
    <3> SUFFICES ASSUME req'[r].pc \notin {"connect", "send", "close"} PROVE turn'[s] = "off"
      OBVIOUS
    <3>1. CASE req[r].pc \in {"connect", "send", "close"}
      <4>1. CloseBranch(r)
        <5>1. Rewrite(r)
          BY <3>1, <2>stay
        <5> QED
          BY <5>1, <3>1, <1>now, StepPlaces, PlacesAfter DEF Rewrite, Branched, Published, Withdrawing
      <4> QED
        BY <4>1, <2>own, <1>base DEF CloseBranch, TypeOK, s
    <3>2. CASE req[r].pc \notin {"connect", "send", "close"}
      <4>1. TurnMoves(s)
        BY <2>own, TurnKnown
      <4>2. ASSUME NEW q \in Rewrites, s = req[q].new PROVE req[q].pc \notin {"connect", "send"}
        BY <4>2, <3>2, <2>own
      <4>3. ASSUME NEW q \in Sends, s = req[q].at PROVE req[q].pc \notin {"connect", "send"}
        BY <4>3, <2>own DEF Steps, Requests
      <4> QED
        BY <4>1, <4>2, <4>3, <3>2, <2>old DEF TurnMoves
    <3> QED
      BY <3>1, <3>2
  <2>text. req'[r].pc \in {"read", "unrow", "refused"} => s \notin text'
    <3> SUFFICES ASSUME req'[r].pc \in {"read", "unrow", "refused"} PROVE s \notin text'
      OBVIOUS
    <3>1. CASE req[r].pc \in {"read", "unrow", "refused"}
      <4>1. s # used + 1
        BY <2>own, <1>base DEF TypeOK, Sessions
      <4> QED
        BY <3>1, <4>1, <2>old, <2>own, TextKnown DEF TextMoves
    <3>2. CASE req[r].pc \notin {"read", "unrow", "refused"}
      <4>1. Rewrite(r) /\ req[r].pc \in Branched
        BY <3>2, <2>stay
      <4>2. Untext(r)
        BY <4>1, <3>2, StepPlaces, PlacesAfter DEF Rewrite, Branched, Published, Withdrawing
      <4> QED
        BY <4>2 DEF Untext, RowOfBranch, s
    <3> QED
      BY <3>1, <3>2
  <2>row. req'[r].pc = "refused" => ~row'[s].there
    <3> SUFFICES ASSUME req'[r].pc = "refused" PROVE ~row'[s].there
      OBVIOUS
    <3>1. CASE req[r].pc = "refused"
      <4>1. RowMoves(s)
        BY <2>own, RowKnown
      <4>2. ASSUME NEW q \in Rewrites, Create(q), s = req[q].new PROVE FALSE
        BY <4>2, <3>1, <2>own DEF Create
      <4> QED
        BY <4>1, <4>2, <3>1, <2>old DEF RowMoves, NoRow
    <3>2. CASE req[r].pc # "refused"
      <4>1. Rewrite(r) /\ req[r].pc \in Branched
        BY <3>2, <2>stay
      <4>2. Unrow(r)
        BY <4>1, StepPlaces, PlacesAfter DEF Rewrite, Branched, Published, Withdrawing
      <4>3. row'[s] = NoRow
        BY <4>2, <2>own DEF Unrow, Doomed, s
      <4> QED
        BY <4>3 DEF NoRow
    <3> QED
      BY <3>1, <3>2
  <2> QED
    BY <2>new, <2>tray, <2>turn, <2>text, <2>row
<1> QED
  BY <1>copied, <1>had

(* A refused rewrite leaves no row, no transcript, no message and no agent *)
(* of the branch it had, whatever is sent, deleted or rewritten meanwhile  *)
(* by pages that address a branch once they were answered with it          *)
(* (service.py:544).                                                       *)
THEOREM RefusedBranchIsGone == Spec => []RefusedHasNoBranch
<1>1. Init => BaseInv /\ SilenceInv /\ BranchIsQuiet
  <2>1. ASSUME Init PROVE \A r \in Rewrites : req[r].new = None
    BY <2>1 DEF Init, NewRequest, Requests
  <2> QED
    BY <2>1, RewriteStarts DEF BranchIsQuiet, Unused
<1>2. BaseInv /\ SilenceInv /\ BranchIsQuiet /\ [Next]_vars => BaseInv' /\ SilenceInv' /\ BranchIsQuiet'
  BY BaseKeeps, SilenceKeeps, QuietKeeps DEF SilenceInv
<1>3. BranchIsQuiet => RefusedHasNoBranch
  BY DEF BranchIsQuiet, RefusedHasNoBranch, Unused
<1> QED
  BY <1>1, <1>2, <1>3, PTL DEF Spec

-----------------------------------------------------------------------------
(* Where nobody deletes a session a pointer is what a rewrite wrote: it    *)
(* leads to a branch, and until that is handed out only its origin has it, *)
(* from the publication to the withdrawal.                                 *)
NoHeirs == \A q \in Requests : req[q].heir = None
PointersAreMade == \A s \in Sessions : row[s].next # None => \E r \in Rewrites : req[r].new = row[s].next
PointersAreTheirs ==
    \A r \in Rewrites : req[r].new # None /\ req[r].pc # "accepted" =>
        \A s \in Sessions : row[s].next = req[r].new =>
            s = req[r].at /\ req[r].pc \in Published \cup {"close", "unlog", "find", "clear", "lost"}
PointerInv == NoHeirs /\ PointersAreMade /\ PointersAreTheirs

(* What a pointer is after a step: what it was, or just published.          *)
PointerComes(s) ==
    \/ row'[s].next = row[s].next /\ ~\E r \in Rewrites : Clear(r) /\ s = req[r].at /\ row[s].next = req[r].new
    \/ \E r \in Rewrites : Mark(r) /\ s = req[r].at /\ req'[r].pc = "meta" /\ row'[s].next = req[r].new

LEMMA PointerKnown ==
  ASSUME BaseInv, NoHeirs, [Next]_vars, NEW s \in Sessions, row'[s].next # None
  PROVE  PointerComes(s)
<1>1. RowMoves(s)
  BY RowKnown
<1>norow. NoRow.next = None
  BY DEF NoRow
<1>clear. ASSUME NEW r \in Rewrites, Clear(r), s = req[r].at, row[s].next = req[r].new PROVE FALSE
  BY <1>clear DEF Clear, BaseInv, TypeOK
<1>unrow. ASSUME NEW q \in Requests, row'[s].next = req[q].heir PROVE FALSE
  BY <1>unrow DEF NoHeirs
<1> QED
  BY <1>1, <1>clear, <1>unrow, <1>norow DEF RowMoves, PointerComes

LEMMA PointersKeep ==
  ASSUME Deletes = {}, BaseInv, RowOfBranch, PointerInv, [Next]_vars
  PROVE  PointerInv'
<1>base. BaseInv' /\ TypeOK /\ PlaceInv
  BY BaseKeeps DEF BaseInv
<1>moves. \A q \in Requests : Moves(q)
  BY EveryoneMoves
<1>kinds. ASSUME NEW r \in Rewrites PROVE r \in Requests /\ r \notin Sends /\ r \notin Deletes
  BY RewriteAssumption DEF Requests
<1>inv. NoHeirs /\ PointersAreMade /\ PointersAreTheirs
  BY DEF PointerInv
<1>heirs. NoHeirs'
  <2> SUFFICES ASSUME NEW q \in Requests PROVE req'[q].heir = None
    BY DEF NoHeirs
  <2>1. ASSUME q \in Rewrites, req[q].pc = "read" PROVE row[Doomed(q)].next = None
    BY <2>1 DEF RowOfBranch, Doomed, Branched, Withdrawing
  <2> QED
    BY <2>1, <1>moves, <1>inv DEF NoHeirs, Moves, Starts, JoinsBranch, Copies, Goes, SendStarts, SendGoes, Lost
<1>row. ASSUME NEW s \in Sessions, row'[s].next # None PROVE PointerComes(s)
  BY <1>row, <1>inv, PointerKnown
<1>kept. ASSUME NEW r \in Rewrites, req[r].new # None PROVE req'[r].new = req[r].new
  <2>1. ~Copies(r) /\ ~JoinsBranch(r)
    BY <1>kept, <1>base DEF Copies, JoinsBranch, PlaceInv, BranchStands, Branched, Published, Withdrawing, Over
  <2> QED
    BY <2>1, <1>moves, <1>kinds DEF Moves, Starts, Goes, Stays, Lost
<1>mark. ASSUME NEW r \in Rewrites, Mark(r)
         PROVE  /\ req[r].new # None /\ req'[r].at = req[r].at
                /\ \A q \in Rewrites : req[q].new = req[r].new => q = r
  <2>1. Unused(r)
    BY <1>mark, <1>base DEF Mark, Unused, PlaceInv, BranchStands, Branched
  <2>2. req'[r].at = req[r].at
    BY <1>mark, <1>moves, <1>kinds DEF Mark, Moves, Starts, JoinsBranch, Copies, Goes, Stays, Lost
  <2> QED
    BY <2>1, <2>2, UnusedIsOwn DEF Unused
<1>made. PointersAreMade'
  <2> SUFFICES ASSUME NEW s \in Sessions, row'[s].next # None
               PROVE  \E r \in Rewrites : req'[r].new = row'[s].next
    BY DEF PointersAreMade
  <2>1. CASE row'[s].next = row[s].next
    <3>1. PICK r \in Rewrites : req[r].new = row[s].next
      BY <2>1, <1>inv DEF PointersAreMade
    <3> QED
      BY <2>1, <3>1, <1>kept
  <2>2. ASSUME NEW r \in Rewrites, Mark(r), row'[s].next = req[r].new PROVE req'[r].new = row'[s].next
    BY <2>2, <1>mark, <1>kept
  <2> QED
    BY <2>1, <2>2, <1>row DEF PointerComes
<1>theirs. PointersAreTheirs'
  <2> SUFFICES ASSUME NEW r \in Rewrites, req'[r].new # None, req'[r].pc # "accepted",
                      NEW s \in Sessions, row'[s].next = req'[r].new
               PROVE  s = req'[r].at /\ req'[r].pc \in Published \cup {"close", "unlog", "find", "clear", "lost"}
    BY DEF PointersAreTheirs
  <2>copied. CASE Copies(r)
    <3>1. ~(\E q \in Rewrites : Mark(q) /\ row'[s].next = req[q].new)
      <4>1. ASSUME NEW q \in Rewrites, Mark(q), row'[s].next = req[q].new PROVE FALSE
        <5>1. q # r /\ req'[q].new = req[q].new
          <6>1. req[r].pc = "copy" /\ req[q].pc = "mark"
            BY <2>copied, <4>1 DEF Copies, Mark
          <6>2. req[q].new # None
            BY <4>1, <1>mark
          <6> QED
            BY <6>1, <6>2, <1>kept
        <5>2. BranchIsOwn'
          BY <1>base DEF BaseInv, PlaceInv
        <5> QED
          BY <2>copied, <4>1, <5>1, <5>2 DEF BranchIsOwn, Copies
      <4> QED
        BY <4>1
    <3>2. row[s].next = used + 1
      BY <2>copied, <3>1, <1>row DEF Copies, PointerComes
    <3>3. used \in Nat /\ row[s].next # None
      BY <3>2, <2>copied, <1>base DEF TypeOK, Sessions, Copies
    <3> QED
      BY <3>2, <3>3, <1>base DEF PlaceInv, PointersStand
  <2>had. CASE ~Copies(r)
    <3>r. req[r].pc # "accepted"
      BY <1>kinds, KnownStays DEF Over
    <3>new. req[r].new = req'[r].new
      BY <2>had, <1>moves, <1>kinds DEF Moves, Starts, JoinsBranch, Goes, Stays, Lost
    <3>at. req'[r].at = req[r].at
      <4>1. req[r].pc # "new"
        BY <3>new, <1>base DEF PlaceInv, BranchStands, Branched, Published, Withdrawing, Over
      <4> QED
        BY <4>1, <2>had, <1>moves, <1>kinds DEF Moves, Starts, JoinsBranch, Goes, Stays, Lost
    <3>marked. ASSUME NEW q \in Rewrites, Mark(q), s = req[q].at, req'[q].pc = "meta", row'[s].next = req[q].new
               PROVE  s = req'[r].at /\ req'[r].pc \in Published \cup {"close", "unlog", "find", "clear", "lost"}
      <4>1. r = q
        BY <3>marked, <3>new, <1>mark
      <4> QED
        BY <4>1, <3>marked, <1>mark DEF Published
    <3>old. ASSUME row'[s].next = row[s].next,
                   ~\E q \in Rewrites : Clear(q) /\ s = req[q].at /\ row[s].next = req[q].new
            PROVE  s = req'[r].at /\ req'[r].pc \in Published \cup {"close", "unlog", "find", "clear", "lost"}
      <4>1. s = req[r].at /\ req[r].pc \in Published \cup {"close", "unlog", "find", "clear", "lost"}
        BY <3>old, <3>new, <3>r, <1>inv DEF PointersAreTheirs
      <4>2. ~Clear(r)
        BY <3>old, <3>new, <4>1
      <4>3. \/ req'[r] = req[r]
            \/ Rewrite(r)
            \/ req'[r].pc = "lost"
        BY <1>kinds, WhoMoves DEF Lost
      <4>4. CASE Rewrite(r)
        BY <4>1, <4>2, <4>4, <3>at, StepPlaces, PlacesAfter DEF Rewrite, Published
      <4> QED
        BY <4>1, <4>3, <4>4, <3>at
    <3> QED
      BY <3>marked, <3>old, <1>row DEF PointerComes
  <2> QED
    BY <2>copied, <2>had
<1> QED
  BY <1>heirs, <1>made, <1>theirs DEF PointerInv

(* Where no session is deleted, a refused rewrite leaves nothing of its    *)
(* branch, no pointer either, and a session is hidden only for a branch    *)
(* that was not withdrawn.  With deletions this is false: a deletion may   *)
(* hand on a successor it read before the successor went                   *)
(* (session_repo.py:122).                                                  *)
THEOREM WithdrawnCompletely == Deletes = {} => (Spec => []WithdrawalIsComplete)
<1> SUFFICES ASSUME Deletes = {} PROVE Spec => []WithdrawalIsComplete
  OBVIOUS
<1> DEFINE Inv == BaseInv /\ SilenceInv /\ BranchIsQuiet /\ PointerInv
<1>1. Init => Inv
  <2> SUFFICES ASSUME Init PROVE Inv
    OBVIOUS
  <2>1. \A q \in Requests : req[q].new = None /\ req[q].heir = None
    BY DEF Init, NewRequest
  <2>2. \A s \in Sessions : row[s].next = None
    BY DEF Init, NoRow
  <2>3. PointerInv /\ BranchIsQuiet
    BY <2>1, <2>2 DEF PointerInv, NoHeirs, PointersAreMade, PointersAreTheirs, BranchIsQuiet, Unused, Requests
  <2> QED
    BY <2>3, RewriteStarts
<1>2. Inv /\ [Next]_vars => Inv'
  BY BaseKeeps, SilenceKeeps, QuietKeeps, PointersKeep DEF SilenceInv
<1>3. Inv => WithdrawalIsComplete
  <2> SUFFICES ASSUME Inv PROVE RefusedLeavesNothing /\ HiddenMeansReplaced
    BY DEF WithdrawalIsComplete
  <2>1. RefusedLeavesNothing
    BY DEF RefusedLeavesNothing, BranchIsQuiet, Unused, PointerInv, PointersAreTheirs, Published
  <2>2. HiddenMeansReplaced
    <3> SUFFICES ASSUME NEW s \in Sessions, row[s].next # None
                 PROVE  \E r \in Rewrites : req[r].new = row[s].next /\ req[r].pc # "refused"
      BY DEF HiddenMeansReplaced
    <3>1. PICK r \in Rewrites : req[r].new = row[s].next
      BY DEF PointerInv, PointersAreMade
    <3>2. req[r].pc # "refused"
      BY <3>1 DEF PointerInv, PointersAreTheirs, Published
    <3> QED
      BY <3>1, <3>2
  <2> QED
    BY <2>1, <2>2
<1> HIDE DEF Inv
<1> QED
  BY <1>1, <1>2, <1>3, PTL DEF Spec
-----------------------------------------------------------------------------
(* One conversation, where nobody deletes a session: a branch comes after  *)
(* its origin, what a pointer leads to is there, and until the server      *)
(* stops the origin of a branch that is there is hidden behind it, from    *)
(* the publication to the withdrawal.                                      *)
IdsRise ==
    /\ \A r \in Rewrites : req[r].new # None => req[r].at # None /\ req[r].at < req[r].new
    /\ \A s \in Sessions : row[s].next # None => s < row[s].next
PointersLead == \A s \in Sessions : row[s].next # None => row[row[s].next].there
Unpublished == {"create", "mark", "clear", "untext", "read", "unrow"}
OriginsHide ==
    crashes = 0 => \A r \in Rewrites :
        req[r].new # None /\ row[req[r].new].there /\ req[r].pc \notin Unpublished =>
            row[req[r].at].there /\ row[req[r].at].next = req[r].new
TimelineInv == IdsRise /\ PointersLead /\ OriginsHide

LEMMA KnownIsUsed == ASSUME TypeOK, PlaceInv PROVE \A s \in Known : s <= used
<1>1. Origins \in Nat /\ used \in Nat
  BY RewriteAssumption DEF TypeOK, Sessions
<1>2. \A s \in Sessions : s <= Origins => s <= used
  BY <1>1 DEF PlaceInv, IdsInOrder, Sessions
<1>3. ASSUME NEW r \in Rewrites, req[r].pc = "accepted" PROVE req[r].new <= used
  BY <1>3 DEF PlaceInv, BranchStands, IdsInOrder
<1> QED
  BY <1>2, <1>3 DEF Known

(* A rewrite keeps its branch and its origin from the copy on.             *)
LEMMA BranchIsKept ==
  ASSUME BaseInv, [Next]_vars, NEW r \in Rewrites, req'[r].new # None
  PROVE  Copies(r) \/ JoinsBranch(r) \/ (req'[r].new = req[r].new /\ req'[r].at = req[r].at)
<1>r. r \in Requests /\ r \notin Sends /\ r \notin Deletes
  BY RewriteAssumption DEF Requests
<1>1. Moves(r)
  BY <1>r, EveryoneMoves
<1>2. Starts(r) => req'[r].new = None
  BY DEF Starts, BaseInv, PlaceInv, BranchStands, Branched, Published, Withdrawing, Over
<1> QED
  BY <1>1, <1>2, <1>r DEF Moves, Goes, Stays, Lost

LEMMA IdsKeepRising ==
  ASSUME BaseInv, NoHeirs, IdsRise, [Next]_vars
  PROVE  IdsRise'
<1>base. TypeOK /\ PlaceInv /\ used \in Nat
  BY DEF BaseInv, TypeOK, Sessions
<1>new. ASSUME NEW r \in Rewrites, req'[r].new # None PROVE req'[r].at # None /\ req'[r].at < req'[r].new
  <2>r. r \in Requests
    BY DEF Requests
  <2>known. req[r].pc \in Steps => req[r].at # None /\ req[r].at \in Known
    BY <2>r, <1>base DEF PlaceInv, AddressIsKnown
  <2>sessions. Known \subseteq Sessions /\ \A s \in Sessions : s \in Nat /\ s # None
    <3>1. Known \subseteq Sessions
      BY <1>base DEF Known, TypeOK, PlaceInv, BranchStands, Requests
    <3>2. Origins \in Nat /\ Sessions \subseteq Nat
      BY RewriteAssumption DEF Sessions
    <3> QED
      BY <3>1, <3>2 DEF Sessions, None
  <2>copied. CASE Copies(r)
    <3>1. req[r].at # None /\ req[r].at <= used /\ req[r].at \in Nat
      BY <2>copied, <2>known, <2>sessions, <1>base, KnownIsUsed DEF Copies, Steps
    <3> QED
      BY <2>copied, <3>1, <1>base DEF Copies
  <2>joined. CASE JoinsBranch(r)
    <3>1. req[r].at \in Sessions
      BY <2>joined, <2>known, <2>sessions DEF JoinsBranch, Steps
    <3> QED
      BY <2>joined, <3>1, <2>sessions DEF JoinsBranch, IdsRise
  <2>had. CASE req'[r].new = req[r].new /\ req'[r].at = req[r].at
    BY <2>had, <1>new DEF IdsRise
  <2> QED
    BY <1>new, <2>copied, <2>joined, <2>had, BranchIsKept
<1>next. ASSUME NEW s \in Sessions, row'[s].next # None PROVE s < row'[s].next
  <2>1. ASSUME NEW r \in Rewrites, Mark(r), s = req[r].at, row'[s].next = req[r].new PROVE s < row'[s].next
    BY <2>1, <1>next DEF IdsRise
  <2> QED
    BY <2>1, <1>next, PointerKnown DEF PointerComes, IdsRise
<1> QED
  BY <1>new, <1>next DEF IdsRise

(* Only a deletion of the user, or the rewrite itself, takes a row away.   *)
LEMMA RowGoes ==
  ASSUME Deletes = {}, BaseInv, [Next]_vars, NEW s \in Sessions, row[s].there, ~row'[s].there
  PROVE  \E q \in Rewrites : Unrow(q) /\ s = req[q].new /\ Unused(q)
<1>1. PICK q \in Requests : Unrow(q) /\ s = Doomed(q)
  BY RowKnown DEF RowMoves
<1>2. q \in Rewrites
  BY <1>1 DEF Unrow, Requests, BaseInv, PlaceInv, PlacesStand, Over
<1>3. Unused(q)
  BY <1>1, <1>2 DEF Unrow, Unused, BaseInv, PlaceInv, BranchStands, Branched, Withdrawing
<1> QED
  BY <1>1, <1>2, <1>3 DEF Doomed

LEMMA LeadingKeeps ==
  ASSUME Deletes = {}, BaseInv, RowOfBranch, PointerInv, PointersLead, [Next]_vars
  PROVE  PointersLead'
<1> SUFFICES ASSUME NEW s \in Sessions, row'[s].next # None PROVE row'[row'[s].next].there
  BY DEF PointersLead
<1> DEFINE t == row'[s].next
<1>t. t \in Sessions /\ PointerComes(s)
  BY BaseKeeps, PointerKnown DEF BaseInv, TypeOK, PointerInv
<1> HIDE DEF t
<1>old. CASE t = row[s].next
  <2>1. row[t].there
    BY <1>old DEF PointersLead, t
  <2>2. ASSUME NEW q \in Rewrites, Unrow(q), t = req[q].new, Unused(q) PROVE FALSE
    BY <2>2, <1>old DEF Unused, Unrow, PointerInv, PointersAreTheirs, Published
  <2> QED
    BY <2>1, <2>2, <1>t, RowGoes DEF t
<1>new. ASSUME NEW r \in Rewrites, Mark(r), t = req[r].new PROVE row'[t].there
  <2>1. row[t].there /\ Unused(r)
    BY <1>new DEF Mark, RowOfBranch, Unused, BaseInv, PlaceInv, BranchStands, Branched
  <2>2. ASSUME NEW q \in Rewrites, Unrow(q), t = req[q].new PROVE FALSE
    BY <2>1, <2>2, <1>new, UnusedIsOwn DEF Unrow, Mark
  <2> QED
    BY <2>1, <2>2, <1>t, RowGoes
<1> QED
  BY <1>t, <1>old, <1>new DEF PointerComes, t
LEMMA OriginsKeepHidden ==
  ASSUME Deletes = {}, BaseInv, RowOfBranch, PointerInv, IdsRise, OriginsHide, [Next]_vars
  PROVE  OriginsHide'
<1> SUFFICES ASSUME crashes' = 0, NEW r \in Rewrites, req'[r].new # None, row'[req'[r].new].there,
                    req'[r].pc \notin Unpublished
             PROVE  row'[req'[r].at].there /\ row'[req'[r].at].next = req'[r].new
  BY DEF OriginsHide
<1>r. r \in Requests /\ r \notin Sends /\ r \notin Deletes
  BY RewriteAssumption DEF Requests
<1>base. BaseInv' /\ TypeOK /\ PlaceInv
  BY BaseKeeps DEF BaseInv
<1>up. ~Crash /\ crashes = 0
  <2>1. crashes \in Nat
    BY RewriteAssumption DEF BaseInv, TypeOK
  <2>2. ~Crash
    BY <2>1 DEF Crash
  <2>rewrite. ASSUME NEW q \in Rewrites, Rewrite(q) PROVE crashes' = crashes
    <3>begin. Begin(q) => crashes' = crashes
      BY DEF Begin, bounds
    <3>look. Look(q) \/ Check(q) \/ Admit(q) \/ Settle(q) => crashes' = crashes
      BY DEF Look, Check, Admit, Settle, bounds
    <3>interrupt. Interrupt(q) => crashes' = crashes
      BY DEF Interrupt, bounds
    <3>2. Copy(q) \/ Create(q) \/ Mark(q) \/ FindRow(q) => crashes' = crashes
      BY DEF Copy, Create, Mark, FindRow, bounds
    <3>3. Reach(q) \/ Dispatch(q) => crashes' = crashes
      BY DEF Reach, Dispatch, Connect, Deliver, bounds
    <3>4. CloseBranch(q) \/ UnlogBranch(q) \/ FindBranch(q) \/ Clear(q) \/ Untext(q) => crashes' = crashes
      BY DEF CloseBranch, UnlogBranch, FindBranch, Clear, Untext, bounds
    <3>5. ReadHeir(q) \/ Unrow(q) => crashes' = crashes
      BY DEF ReadHeir, Unrow, bounds
    <3> QED
      BY <2>rewrite, <3>begin, <3>look, <3>interrupt, <3>2, <3>3, <3>4, <3>5 DEF Rewrite
  <2>send. ASSUME NEW q \in Sends, Send(q) PROVE crashes' = crashes
    <3>admit. AdmitSend(q) => crashes' = crashes
      BY DEF AdmitSend, bounds
    <3>deliver. ConnectSend(q) \/ DeliverSend(q) => crashes' = crashes
      BY DEF ConnectSend, DeliverSend, Connect, Deliver, bounds
    <3> QED
      BY <2>send, <3>admit, <3>deliver DEF Send
  <2>agent. ASSUME NEW s \in Sessions, Agent(s) PROVE crashes' = crashes
    BY <2>agent DEF Agent, Take, TurnEnds, Ask, Answer, Evict, bounds
  <2> QED
    BY <2>2, <2>rewrite, <2>send, <2>agent DEF Next, Done, vars
<1>who. req'[r] # req[r] => Rewrite(r)
  <2>1. Lost(r) => req'[r].pc = "lost"
    BY DEF Lost
  <2>2. ASSUME req'[r] # req[r], ~Rewrite(r) PROVE FALSE
    <3>1. ~(\E q \in Rewrites : q # r /\ Rewrite(q)) /\ ~(\E q \in Sends : Send(q))
      BY <2>2, <1>r, RewriteMoves, SendMoves DEF Alone, Requests
    <3>2. ~(\E s \in Sessions : Agent(s)) /\ ~UNCHANGED vars
      BY <2>2 DEF Agent, Take, TurnEnds, Ask, Answer, Evict, vars
    <3> QED
      BY <2>2, <3>1, <3>2, <1>up DEF Next, Done
  <2> QED
    BY <2>2
<1>copied. ~Copies(r)
  BY DEF Copies, Unpublished
<1>joined. CASE JoinsBranch(r)
  <2>1. Look(r)
    <3>1. Rewrite(r)
      BY <1>joined, <1>who DEF JoinsBranch
    <3> QED
      BY <3>1, <1>joined, StepPlaces DEF JoinsBranch, Rewrite
  <2>2. row' = row /\ row[req[r].at].there
    <3>1. ~Refuse(r, "gone")
      BY <1>joined, <1>r, Going1 DEF BaseInv, OnlyPlace, JoinsBranch
    <3> QED
      BY <2>1, <3>1 DEF Look, db
  <2> QED
    BY <2>2, <1>joined DEF JoinsBranch
<1>had. CASE req'[r].new = req[r].new /\ req'[r].at = req[r].at
  <2> DEFINE t == req[r].new
             s == req[r].at
  <2>t. t \in Sessions /\ t # None /\ row'[t].there
    BY <1>had, <1>base, <1>r DEF TypeOK
  <2>theirs. ASSUME NEW q \in Rewrites, Unused(q), req[q].new = t PROVE q = r
    BY <2>theirs, UnusedIsOwn
  <2> HIDE DEF t, s
  <2>there. row[t].there
    <3>1. ASSUME NEW q \in Rewrites, Create(q), t = req[q].new PROVE FALSE
      <4>1. Unused(q)
        BY <2>t, <3>1 DEF Create, Unused, Branched
      <4>2. q = r
        BY <3>1, <4>1, <2>theirs
      <4>3. req'[q].pc \in {"mark", "clear"}
        BY <3>1, PlacesAfter
      <4> QED
        BY <4>2, <4>3 DEF Unpublished
    <3>2. NoRow.there = FALSE
      BY DEF NoRow
    <3> QED
      BY <2>t, <3>1, <3>2, RowKnown DEF RowMoves
  <2>early. CASE req[r].pc \in Unpublished
    <3>1. Rewrite(r)
      BY <2>early, <1>who
    <3>2. Mark(r) \/ Unrow(r)
      BY <3>1, <2>early, StepPlaces, PlacesAfter DEF Rewrite, Unpublished
    <3>3. ~Unrow(r)
      BY <2>t DEF Unrow, Doomed, NoRow, t
    <3>4. Mark(r) /\ ~(req'[r].pc = "clear")
      BY <3>2, <3>3 DEF Unpublished
    <3>5. row[s].there /\ row' = [row EXCEPT ![s].next = t]
      <4>1. ASSUME req' = [req EXCEPT ![r].pc = "clear", ![r].placed = TRUE, ![r].why = "superseded"]
            PROVE  req'[r].pc = "clear"
        BY <4>1, <1>r, <1>base DEF TypeOK
      <4> QED
        BY <3>4, <4>1 DEF Mark, s, t
    <3>6. s \in Sessions
      BY <3>4, <1>r, <1>base DEF Mark, TypeOK, PlaceInv, AddressIsKnown, Steps, s
    <3> QED
      BY <3>5, <3>6, <1>had, <1>base DEF TypeOK, s, t
  <2>late. CASE req[r].pc \notin Unpublished
    <3>1. row[s].there /\ row[s].next = t
      BY <2>late, <2>t, <2>there, <1>up DEF OriginsHide, s, t
    <3>2. s \in Known /\ s \in Sessions
      <4>1. s # None
        BY <2>t DEF IdsRise, s, t
      <4> QED
        BY <4>1, <1>r, <1>base DEF PlaceInv, AddressIsKnown, TypeOK, s
    <3>create. ASSUME NEW q \in Rewrites, Create(q), s = req[q].new PROVE FALSE
      BY <3>create, <3>2, <1>base, BranchIsUnknown DEF Create, Branched
    <3>clear. ASSUME NEW q \in Rewrites, Clear(q), row[s].next = req[q].new PROVE FALSE
      <4>1. Unused(q)
        BY <3>clear, <3>1, <2>t DEF Clear, Unused, Branched, Withdrawing
      <4>2. q = r
        BY <3>clear, <3>1, <4>1, <2>theirs
      <4> QED
        BY <4>2, <3>clear, <2>late DEF Clear, Unpublished
    <3>unrow. ASSUME NEW q \in Requests, Unrow(q), Doomed(q) \in {s, t} PROVE FALSE
      <4>1. q \in Rewrites
        BY <3>unrow DEF Unrow, Requests, BaseInv, PlaceInv, PlacesStand, Over
      <4>2. Unused(q) /\ Doomed(q) = req[q].new
        BY <3>unrow, <4>1, <1>base DEF Unrow, Unused, Doomed, PlaceInv, BranchStands, Branched, Withdrawing
      <4>3. Doomed(q) # s
        BY <4>1, <4>2, <3>2, UnusedIsOwn
      <4>4. q = r
        BY <3>unrow, <4>1, <4>2, <4>3, <2>theirs
      <4> QED
        BY <4>4, <3>unrow, <2>late DEF Unrow, Unpublished
    <3> QED
      BY <3>1, <3>2, <3>create, <3>clear, <3>unrow, <1>had, <2>t, RowKnown DEF RowMoves, s, t
  <2> QED
    BY <2>early, <2>late
<1> QED
  BY <1>copied, <1>joined, <1>had, BranchIsKept
-----------------------------------------------------------------------------
(* A set of numbers has a least one. *)
LEMMA LeastOf ==
  ASSUME NEW T \in SUBSET Nat, T # {}
  PROVE  \E m \in T : \A k \in T : m <= k
<1> DEFINE Less == OpToRel(<, Nat)
<1>1. IsWellFoundedOn(Less, Nat)
  BY NatLessThanWellFounded, Zenon
<1>2. \A x, y \in Nat : y < x => <<y, x>> \in Less
  BY DEF OpToRel
<1> HIDE DEF Less
<1>3. PICK m \in T : \A y \in T : <<y, m>> \notin Less
  BY <1>1, WFMin
<1>4. ASSUME NEW k \in T PROVE m <= k
  <2>1. k \in Nat /\ m \in Nat /\ <<k, m>> \notin Less
    BY <1>3
  <2>2. ~(k < m)
    BY <2>1, <1>2
  <2> QED
    BY <2>1, <2>2
<1> QED
  BY <1>4

(* Where every number but the roots has a smaller parent, the root of each *)
(* is defined by recursion.                                                *)
LEMMA RootsExist ==
  ASSUME NEW n \in Nat, NEW up \in [1..n -> Nat], \A s \in 1..n : up[s] < s
  PROVE  \E f \in [1..n -> 1..n] : \A s \in 1..n : f[s] = IF up[s] # 0 THEN f[up[s]] ELSE s
<1> DEFINE Good(m) == \E f \in [1..m -> 1..n] : \A s \in 1..m : f[s] = IF up[s] # 0 THEN f[up[s]] ELSE s
           Bad == {m \in 0..n : ~Good(m)}
<1>1. ASSUME Bad # {} PROVE FALSE
  <2>1. PICK m \in Bad : \A k \in Bad : m <= k
    <3>1. Bad \in SUBSET Nat
      OBVIOUS
    <3> HIDE DEF Bad
    <3> QED
      BY <1>1, <3>1, LeastOf
  <2>2. m # 0
    <3> DEFINE none == [s \in 1..0 |-> s]
    <3>1. none \in [1..0 -> 1..n] /\ \A s \in 1..0 : FALSE
      OBVIOUS
    <3> HIDE DEF none
    <3>2. Good(0)
      BY <3>1
    <3> QED
      BY <3>2, <2>1
  <2>3. m \in Nat /\ m \in 1..n /\ m - 1 \in 0..n /\ Good(m - 1)
    <3>1. m \in 0..n /\ m - 1 \in 0..n
      BY <2>1, <2>2
    <3> HIDE DEF Good
    <3>2. m - 1 \notin Bad
      <4> HIDE DEF Bad
      <4> QED
        BY <2>1, <3>1
    <3> QED
      BY <2>2, <3>1, <3>2
  <2>4. PICK f \in [1..(m - 1) -> 1..n] : \A s \in 1..(m - 1) : f[s] = IF up[s] # 0 THEN f[up[s]] ELSE s
    BY <2>3
  <2> DEFINE g == [s \in 1..m |-> IF s < m THEN f[s] ELSE IF up[m] # 0 THEN f[up[m]] ELSE m]
  <2>below. /\ f \in [1..(m - 1) -> 1..n] /\ up[m] \in Nat /\ up[m] < m
            /\ \A s \in 1..m : s < m => s \in 1..(m - 1) /\ up[s] \in Nat /\ up[s] < s
    BY <2>3
  <2> HIDE DEF Bad, Good
  <2>5. g \in [1..m -> 1..n]
    <3>1. up[m] # 0 => f[up[m]] \in 1..n
      BY <2>3, <2>below
    <3>2. \A s \in 1..m : s < m => f[s] \in 1..n
      BY <2>below
    <3> QED
      BY <2>3, <3>1, <3>2
  <2>6. ASSUME NEW s \in 1..m PROVE g[s] = IF up[s] # 0 THEN g[up[s]] ELSE s
    <3>1. CASE s = m
      <4>1. g[s] = IF up[m] # 0 THEN f[up[m]] ELSE m
        BY <2>3, <3>1
      <4>2. up[m] # 0 => up[m] \in 1..m /\ g[up[m]] = f[up[m]]
        BY <2>3, <2>below
      <4> QED
        BY <3>1, <4>1, <4>2
    <3>2. CASE s < m
      <4>1. g[s] = f[s] /\ f[s] = IF up[s] # 0 THEN f[up[s]] ELSE s
        BY <2>3, <2>4, <2>below, <3>2
      <4>2. up[s] # 0 => up[s] \in 1..m /\ up[s] < m /\ g[up[s]] = f[up[s]]
        BY SMTT(30), <2>3, <2>below, <3>2
      <4> QED
        BY <4>1, <4>2
    <3> QED
      BY <2>3, <3>1, <3>2
  <2>7. Good(m)
    <3> HIDE DEF g
    <3> QED
      BY <2>5, <2>6 DEF Good
  <2> QED
    BY <2>1, <2>7 DEF Bad
<1>2. n \in 0..n /\ n \notin Bad
  <2> HIDE DEF Bad
  <2> QED
    BY <1>1
<1>3. Good(n)
  <2> HIDE DEF Good
  <2> QED
    BY <1>2
<1> QED
  BY <1>3

(* The origin of a branch; no other session has one.                       *)
IsBranch(s) == \E r \in Rewrites : req[r].new = s
OriginOf(s) == req[CHOOSE r \in Rewrites : req[r].new = s].at

LEMMA BranchHasOrigin ==
  ASSUME TypeOK, IdsRise, NEW s \in Sessions, IsBranch(s)
  PROVE  \E r \in Rewrites : /\ req[r].new = s /\ OriginOf(s) = req[r].at
                             /\ req[r].at \in Sessions /\ req[r].at < s
<1> DEFINE r == CHOOSE q \in Rewrites : req[q].new = s
<1>1. r \in Rewrites /\ req[r].new = s
  BY Zenon DEF IsBranch
<1>2. OriginOf(s) = req[r].at
  BY DEF OriginOf
<1> HIDE DEF r
<1>3. s # None
  BY RewriteAssumption DEF Sessions, None
<1> QED
  BY <1>1, <1>2, <1>3 DEF IdsRise, TypeOK, Requests

(* Root is what its definition says, and lies before.                      *)
LEMMA RootIsDefined ==
  ASSUME TypeOK, IdsRise
  PROVE  \A s \in Sessions : Root[s] = IF IsBranch(s) THEN Root[OriginOf(s)] ELSE s
<1> DEFINE n == Origins + Cardinality(Rewrites)
           Up(s) == IF IsBranch(s) THEN OriginOf(s) ELSE 0
           up == [s \in Sessions |-> Up(s)]
           Step(f) == [s \in Sessions |-> IF IsBranch(s) THEN f[OriginOf(s)] ELSE s]
<1>n. n \in Nat /\ Sessions = 1..n
  BY RewriteAssumption, FS_Subset, FS_CardinalityType DEF Requests, Sessions
<1>up. ASSUME NEW s \in Sessions
       PROVE  Up(s) \in Nat /\ Up(s) < s /\ (Up(s) # 0 <=> IsBranch(s)) /\ (IsBranch(s) => Up(s) = OriginOf(s))
  <2>1. ASSUME IsBranch(s) PROVE OriginOf(s) \in Sessions /\ OriginOf(s) < s
    BY <2>1, BranchHasOrigin
  <2> QED
    BY <2>1, <1>n
<1> HIDE DEF Up, n
<1>1. up \in [1..n -> Nat] /\ \A s \in 1..n : up[s] < s
  BY <1>n, <1>up
<1>2. PICK f \in [Sessions -> Sessions] : \A s \in Sessions : f[s] = IF up[s] # 0 THEN f[up[s]] ELSE s
  <2> HIDE DEF up
  <2> QED
    BY <1>1, <1>n, RootsExist
<1>3. f = Step(f)
  BY <1>2, <1>up
<1>4. Root = CHOOSE g : g = Step(g)
  BY Zenon DEF Root, IsBranch, OriginOf
<1> HIDE DEF Step
<1>5. Root = Step(Root)
  BY <1>3, <1>4, Zenon
<1> QED
  BY <1>5 DEF Step
LEMMA RootIsBefore ==
  ASSUME TypeOK, IdsRise
  PROVE  \A s \in Sessions : Root[s] <= s
<1> DEFINE Bad == {s \in Sessions : ~(Root[s] \in Nat /\ Root[s] <= s)}
<1>nat. Sessions \subseteq Nat
  BY RewriteAssumption DEF Sessions
<1>1. ASSUME Bad # {} PROVE FALSE
  <2>1. PICK s \in Bad : \A t \in Bad : s <= t
    <3>1. Bad \in SUBSET Nat
      BY <1>nat
    <3> HIDE DEF Bad
    <3> QED
      BY <1>1, <3>1, LeastOf
  <2>2. s \in Sessions /\ s \in Nat
    BY <1>nat
  <2>3. Root[s] = IF IsBranch(s) THEN Root[OriginOf(s)] ELSE s
    BY <2>2, RootIsDefined
  <2>4. CASE IsBranch(s)
    <3>1. OriginOf(s) \in Sessions /\ OriginOf(s) < s /\ OriginOf(s) \in Nat
      BY <1>nat, <2>2, <2>4, BranchHasOrigin
    <3>2. OriginOf(s) \notin Bad
      <4> HIDE DEF Bad
      <4> QED
        BY <2>1, <2>2, <3>1, <1>nat
    <3> QED
      BY <2>2, <2>3, <2>4, <3>1, <3>2
  <2>5. CASE ~IsBranch(s)
    BY <2>2, <2>3, <2>5
  <2> QED
    BY <2>4, <2>5
<1> QED
  BY <1>1

(* Where every branch that is there hides its origin, of two sessions of a *)
(* conversation the older one is hidden, behind one no younger than the    *)
(* other: the branch is followed back to where the two stem from one       *)
(* session.                                                                *)
LEMMA OlderIsHidden ==
  ASSUME TypeOK, IdsRise,
         \A r \in Rewrites : req[r].new # None /\ row[req[r].new].there =>
             row[req[r].at].there /\ row[req[r].at].next = req[r].new
  PROVE  \A s, t \in Sessions : row[s].there /\ row[t].there /\ Root[s] = Root[t] /\ s < t =>
             row[s].next # None /\ row[s].next <= t
<1> DEFINE Right(t) == \A s \in Sessions : row[s].there /\ row[t].there /\ Root[s] = Root[t] /\ s < t =>
                           row[s].next # None /\ row[s].next <= t
           Bad == {t \in Sessions : ~Right(t)}
<1>nat. Sessions \subseteq Nat /\ None \notin Sessions
  BY RewriteAssumption DEF Sessions, None
<1>1. ASSUME Bad # {} PROVE FALSE
  <2>1. PICK t \in Bad : \A x \in Bad : t <= x
    <3>1. Bad \in SUBSET Nat
      BY <1>nat
    <3> HIDE DEF Bad
    <3> QED
      BY <1>1, <3>1, LeastOf
  <2>2. PICK s \in Sessions : /\ row[s].there /\ row[t].there /\ Root[s] = Root[t] /\ s < t
                              /\ ~(row[s].next # None /\ row[s].next <= t)
    BY <2>1
  <2>t. t \in Sessions /\ \A x \in Sessions : x < t => Right(x)
    <3>1. \A x \in Sessions : x < t => x \notin Bad
      <4> HIDE DEF Bad
      <4>1. t \in Nat
        BY <1>nat, <2>1 DEF Bad
      <4> QED
        BY <1>nat, <2>1, <4>1
    <3> HIDE DEF Right
    <3> QED
      BY <2>1, <3>1
  <2> HIDE DEF Bad
  <2>branch. IsBranch(t)
    <3>1. Root[s] <= s
      BY RootIsBefore
    <3>2. ~IsBranch(t) => Root[t] = t
      BY <2>t, RootIsDefined
    <3> QED
      BY <2>2, <2>t, <3>1, <3>2, <1>nat
  <2>3. PICK r \in Rewrites : req[r].new = t /\ OriginOf(t) = req[r].at /\ req[r].at \in Sessions /\ req[r].at < t
    BY <2>t, <2>branch, BranchHasOrigin
  <2> DEFINE p == req[r].at
  <2>4. p \in Sessions /\ p < t /\ row[p].there /\ row[p].next = t /\ Root[p] = Root[s]
    BY <2>2, <2>3, <2>t, <2>branch, <1>nat, RootIsDefined
  <2> HIDE DEF p, Right
  <2>same. ASSUME s = p PROVE FALSE
    <3>1. row[s].next = t
      BY <2>4, <2>same
    <3>2. t \in Nat /\ t # None
      BY <2>t, <1>nat
    <3> QED
      BY <2>2, <3>1, <3>2
  <2>before. CASE s < p
    <3>1. row[s].next # None /\ row[s].next <= p
      BY <2>2, <2>4, <2>t, <2>before DEF Right
    <3>2. row[s].next \in Nat /\ p \in Nat /\ t \in Nat
      BY <1>nat, <2>2, <2>4, <2>t, <3>1 DEF TypeOK
    <3> QED
      BY <2>2, <2>4, <3>1, <3>2
  <2>after. CASE p < s
    <3>1. row[p].next <= s
      BY <2>2, <2>4, <2>t, <2>after DEF Right
    <3> QED
      BY <2>2, <2>4, <2>t, <3>1, <1>nat
  <2> QED
    BY <2>2, <2>4, <2>same, <2>before, <2>after, <1>nat
<1> QED
  BY <1>1

(* Where no session is deleted there is one conversation: however many     *)
(* rewrites and failures, when nothing is under way its list shows one     *)
(* session (until the server stops, service.py:388), no session is hidden  *)
(* behind one that is gone, and the message of a rewrite is in one place.  *)
(* With deletions this is false, for the same reason.                      *)
THEOREM ConversationIsOne == Deletes = {} => (Spec => []OneConversation)
<1> SUFFICES ASSUME Deletes = {} PROVE Spec => []OneConversation
  OBVIOUS
<1> DEFINE Inv == BaseInv /\ SilenceInv /\ KeyInv /\ PointerInv /\ TimelineInv
<1>1. Init => Inv
  <2> SUFFICES ASSUME Init PROVE Inv
    OBVIOUS
  <2>1. \A q \in Requests : req[q].new = None /\ req[q].heir = None
    BY DEF Init, NewRequest
  <2>2. \A s \in Sessions : row[s].next = None
    BY DEF Init, NoRow
  <2>3. PointerInv /\ TimelineInv
    BY <2>1, <2>2 DEF PointerInv, NoHeirs, PointersAreMade, PointersAreTheirs, TimelineInv, IdsRise, PointersLead,
       OriginsHide, Requests
  <2> QED
    BY <2>3, RewriteStarts, KeyStarts
<1>2. Inv /\ [Next]_vars => Inv'
  <2> SUFFICES ASSUME Inv, [Next]_vars PROVE Inv'
    OBVIOUS
  <2>1. BaseInv' /\ SilenceInv' /\ KeyInv'
    BY BaseKeeps, SilenceKeeps, KeyKeeps
  <2>2. PointerInv'
    BY PointersKeep DEF SilenceInv
  <2>3. TimelineInv'
    BY IdsKeepRising, LeadingKeeps, OriginsKeepHidden DEF TimelineInv, PointerInv, SilenceInv
  <2> QED
    BY <2>1, <2>2, <2>3
<1>3. Inv => OneConversation
  <2> SUFFICES ASSUME Inv PROVE TypeOK /\ OneTimeline /\ PointersLive /\ KeyOnce
    BY DEF OneConversation
  <2>1. TypeOK /\ PointersLive
    BY DEF BaseInv, TimelineInv, PointersLead, PointersLive
  <2>2. OneTimeline
    <3> SUFFICES ASSUME AtRest, crashes = 0, NEW s \in Sessions, NEW t \in Sessions, Listed(s), Listed(t), Root[s] = Root[t]
                 PROVE  s = t
      BY DEF OneTimeline
    <3>1. \A r \in Rewrites : req[r].new # None /\ row[req[r].new].there =>
              row[req[r].at].there /\ row[req[r].at].next = req[r].new
      BY DEF AtRest, Active, Requests, TimelineInv, OriginsHide, Unpublished, Steps
    <3>2. ~(s < t) /\ ~(t < s)
      BY <2>1, <3>1, OlderIsHidden DEF TimelineInv, Listed
    <3>3. Sessions \subseteq Nat
      BY RewriteAssumption DEF Sessions
    <3> QED
      BY <3>2, <3>3
  <2>3. KeyOnce
    BY KeyUniqueIsOnce DEF KeyInv
  <2> QED
    BY <2>1, <2>2, <2>3
<1> HIDE DEF Inv
<1> QED
  BY <1>1, <1>2, <1>3, PTL DEF Spec
=============================================================================
