---------------------------- MODULE SessionRewrite ----------------------------
(***************************************************************************)
(* Rewriting a message of the assistant                                     *)
(* (server/agent_runtime/service.py, session_branch.py and                 *)
(* lib/db/repositories/session_repo.py).  The prefix before the message is *)
(* copied to a new session, the origin is hidden behind a pointer to it,   *)
(* and the new text is sent to the branch; a failure withdraws the branch. *)
(* Messages are sent to the same sessions, the user deletes sessions, and  *)
(* the server may stop between any two awaits.                             *)
(*                                                                         *)
(* A step is what the event loop runs between two awaits.  A message is    *)
(* named by the request that sends it.                                     *)
(***************************************************************************)
EXTENDS Integers, FiniteSets

CONSTANTS Keyed,       \* attempts of one rewrite: they carry the same client key
          Unkeyed,     \* rewrites without a client key
          Sends,       \* messages to an existing session
          Deletes,     \* deletions of a session
          Origins,     \* the number of sessions before anything is rewritten
          Anchors,     \* what the rewrites point at: "later", "first", "unlinked"
          MaxFailures, \* bound: awaited calls that fail
          MaxCrashes   \* bound: stops of the server

Rewrites == Keyed \cup Unkeyed
Requests == Rewrites \cup Sends \cup Deletes
None == 0
Nobody == "nobody"

ASSUME RewriteAssumption ==
    /\ IsFiniteSet(Requests)
    /\ Keyed \cap Unkeyed = {} /\ Rewrites \cap (Sends \cup Deletes) = {} /\ Sends \cap Deletes = {}
    /\ Nobody \notin Requests
    /\ Anchors \subseteq {"later", "first", "unlinked"} /\ Anchors # {}
    /\ Origins \in Nat \ {0} /\ MaxFailures \in Nat /\ MaxCrashes \in Nat

Sessions == 1..(Origins + Cardinality(Rewrites))

VARIABLES
    row,       \* the session rows: is it there, superseded_by, fork_parent_session_id
    text,      \* the sessions with a transcript in the store
    log,       \* the messages in the event log of each session
    tray,      \* queued_messages of each session
    turn,      \* the status of the resident session, "off" if it is not resident
    asking,    \* the sessions with a pending question
    admission, \* who holds the admission lock of each session
    req,       \* the requests
    used,      \* the session ids given out
    failures, crashes \* used up of the bounds

vars == <<row, text, log, tray, turn, asking, admission, req, used, failures, crashes>>
db == <<row, text, log>>
memory == <<tray, turn, asking>>
bounds == <<failures, crashes>>

Waiting == {"new"}
Over == {"accepted", "refused", "lost"}
Steps == {"look", "check", "admit", "interrupt", "settle", "copy", "create", "mark", "meta", "connect",
          "send", "close", "unlog", "find", "clear", "untext", "read", "unrow"}

TypeOK ==
    /\ row \in [Sessions -> [there : BOOLEAN, next : {None} \cup Sessions, parent : {None} \cup Sessions]]
    /\ text \subseteq Sessions /\ asking \subseteq Sessions
    /\ log \in [Sessions -> SUBSET Requests] /\ tray \in [Sessions -> SUBSET Requests]
    /\ turn \in [Sessions -> {"off", "idle", "running", "error"}]
    /\ admission \in [Sessions -> {Nobody} \cup Requests]
    /\ req \in [Requests -> [pc : Waiting \cup Over \cup Steps, at : {None} \cup Sessions,
                             new : {None} \cup Sessions, anchor : Anchors, heir : {None} \cup Sessions,
                             placed : BOOLEAN, why : {"none", "gone", "superseded", "questions", "queued",
                                                      "timeout", "anchor", "failed"}]]
    /\ used \in Sessions
    /\ failures \in 0..MaxFailures /\ crashes \in 0..MaxCrashes

NoRow == [there |-> FALSE, next |-> None, parent |-> None]
NewRequest == [pc |-> "new", at |-> None, new |-> None, anchor |-> CHOOSE a \in Anchors : TRUE,
               heir |-> None, placed |-> FALSE, why |-> "none"]

Init ==
    /\ row = [s \in Sessions |-> [NoRow EXCEPT !.there = s <= Origins]]
    /\ text = 1..Origins
    /\ log = [s \in Sessions |-> {}] /\ tray = [s \in Sessions |-> {}]
    /\ turn \in {t \in [Sessions -> {"off", "idle", "running"}] : \A s \in Sessions : s > Origins => t[s] = "off"}
    /\ asking = {}
    /\ admission = [s \in Sessions |-> Nobody]
    /\ req = [q \in Requests |-> NewRequest]
    /\ used = Origins
    /\ failures = 0 /\ crashes = 0

\* The sessions a page addresses: the old ones and the ones it was answered with.
Known == {s \in Sessions : s <= Origins}
         \cup {req[r].new : r \in {q \in Rewrites : req[q].pc = "accepted"}}

Goto(q, pc) == req' = [req EXCEPT ![q].pc = pc]

\* The request ends; a lock it holds is released.
End(q, pc, why) == /\ req' = [req EXCEPT ![q].pc = pc, ![q].why = why]
                   /\ admission' = [s \in Sessions |-> IF admission[s] = q THEN Nobody ELSE admission[s]]
Refuse(q, why) == End(q, "refused", why)
\* An awaited call of request q raises.
Fails == failures < MaxFailures /\ failures' = failures + 1

\* The message of the attempts with the client key, in the queue or in the log of a session.
HasKey(s) == (tray[s] \cup log[s]) \cap Keyed # {}

-----------------------------------------------------------------------------
(* _rewrite_message_once *)

\* Mutant: the rewrites of one key do not wait for each other.
BeginAtOnce(r) ==
    /\ req[r].pc = "new"
    /\ \E s \in Known, a \in Anchors :
          /\ r \in Keyed => s = 1
          /\ req' = [req EXCEPT ![r].pc = "look", ![r].at = s, ![r].anchor = a]
    /\ UNCHANGED <<db, memory, admission, used, bounds>>

\* The rewrite lock of the session and the key, then the row.
Begin(r) ==
    /\ req[r].pc = "new"
    /\ r \in Keyed => \A q \in Keyed : req[q].pc \in Waiting \cup Over
    /\ \E s \in Known, a \in Anchors :
          /\ r \in Keyed => s = 1
          /\ req' = [req EXCEPT ![r].pc = "look", ![r].at = s, ![r].anchor = a]
    /\ UNCHANGED <<db, memory, admission, used, bounds>>

\* A hidden origin: the retry of its rewrite gets the branch, everybody else is refused.
Look(r) ==
    LET s == req[r].at
        t == row[s].next IN
    /\ req[r].pc = "look"
    /\ \/ ~row[s].there /\ Refuse(r, "gone")
       \/ /\ row[s].there /\ t # None /\ r \in Keyed /\ HasKey(t)
          /\ req' = [req EXCEPT ![r].pc = "accepted", ![r].new = t] /\ UNCHANGED admission
       \/ row[s].there /\ t # None /\ ~(r \in Keyed /\ HasKey(t)) /\ Refuse(r, "superseded")
       \/ row[s].there /\ t = None /\ Goto(r, "check") /\ UNCHANGED admission
    /\ UNCHANGED <<db, memory, used, bounds>>

\* After the anchor has been resolved: no rewrite while a question is open.
Check(r) ==
    /\ req[r].pc = "check"
    /\ IF req[r].at \in asking THEN Refuse(r, "questions")
                               ELSE Goto(r, "admit") /\ UNCHANGED admission
    /\ UNCHANGED <<db, memory, used, bounds>>

\* From here to the published branch the session admits no message.
Admit(r) ==
    LET s == req[r].at IN
    /\ req[r].pc = "admit" /\ admission[s] = Nobody
    /\ IF tray[s] # {}
       THEN Refuse(r, "queued")
       ELSE Goto(r, "interrupt") /\ admission' = [admission EXCEPT ![s] = r]
    /\ UNCHANGED <<db, memory, used, bounds>>

\* interrupt_session: a running turn is told to stop, its questions are cancelled.
Interrupt(r) ==
    LET s == req[r].at IN
    /\ req[r].pc = "interrupt"
    /\ \/ ~row[s].there /\ Refuse(r, "gone") /\ UNCHANGED <<memory, bounds>>
       \/ /\ row[s].there /\ turn[s] # "running"
          /\ Goto(r, "copy") /\ UNCHANGED <<memory, admission, bounds>>
       \/ /\ row[s].there /\ turn[s] = "running"
          /\ asking' = asking \ {s}
          /\ \/ Goto(r, "settle") /\ UNCHANGED <<turn, bounds>>
             \/ Fails /\ turn' = [turn EXCEPT ![s] = "error"] /\ Goto(r, "copy") /\ UNCHANGED crashes
          /\ UNCHANGED <<tray, admission>>
    /\ UNCHANGED <<db, used>>

\* _settle_running_session polls the status and gives up after thirty seconds.
Settle(r) ==
    /\ req[r].pc = "settle"
    /\ \/ turn[req[r].at] # "running" /\ Goto(r, "copy") /\ UNCHANGED admission
       \/ turn[req[r].at] = "running" /\ Refuse(r, "timeout")
    /\ UNCHANGED <<db, memory, used, bounds>>

-----------------------------------------------------------------------------
(* SessionBranchService.branch, still under the admission lock *)

\* copy_session_prefix: nothing is written for an anchor the transcript does
\* not have, or for the first message; a copy that fails may be half written.
Copy(r) ==
    LET s == req[r].at
        t == used + 1
        forked == IF req[r].anchor = "later" THEN text \cup {t} ELSE text IN
    /\ req[r].pc = "copy"
    /\ \/ ~row[s].there /\ Refuse(r, "gone") /\ UNCHANGED <<text, used, bounds>>
       \/ /\ row[s].there /\ (req[r].anchor = "unlinked" \/ s \notin text)
          /\ Refuse(r, "anchor") /\ UNCHANGED <<text, used, bounds>>
       \/ /\ row[s].there /\ req[r].anchor # "unlinked" /\ s \in text
          /\ text' = forked /\ used' = t
          /\ \/ req' = [req EXCEPT ![r].pc = "create", ![r].new = t] /\ UNCHANGED bounds
             \/ /\ Fails /\ UNCHANGED crashes
                /\ req' = [req EXCEPT ![r].pc = "clear", ![r].new = t, ![r].placed = TRUE, ![r].why = "failed"]
          /\ UNCHANGED admission
    /\ UNCHANGED <<row, log, memory>>

\* The row of the branch comes before the pointer to it.
Create(r) ==
    LET new == [there |-> TRUE, next |-> None, parent |-> req[r].at] IN
    /\ req[r].pc = "create"
    /\ \/ row' = [row EXCEPT ![req[r].new] = new] /\ Goto(r, "mark") /\ UNCHANGED bounds
       \/ /\ Fails /\ UNCHANGED <<row, crashes>>
          /\ req' = [req EXCEPT ![r].pc = "clear", ![r].placed = TRUE, ![r].why = "failed"]
    /\ UNCHANGED <<text, log, memory, admission, used>>

\* Mutant: the pointer is written unconditionally.
MarkOver(r) ==
    LET s == req[r].at IN
    /\ req[r].pc = "mark"
    /\ row' = [row EXCEPT ![s].next = IF row[s].there THEN req[r].new ELSE None]
    /\ admission' = [admission EXCEPT ![s] = Nobody]
    /\ Goto(r, "meta")
    /\ UNCHANGED <<text, log, memory, used, bounds>>

\* mark_superseded: only a session that nobody has superseded yet.
Mark(r) ==
    LET s == req[r].at
        free == row[s].there /\ row[s].next = None IN
    /\ req[r].pc = "mark"
    /\ IF free
       THEN /\ row' = [row EXCEPT ![s].next = req[r].new]
            /\ admission' = [admission EXCEPT ![s] = Nobody]
            /\ Goto(r, "meta")
       ELSE /\ req' = [req EXCEPT ![r].pc = "clear", ![r].placed = TRUE, ![r].why = "superseded"]
            /\ UNCHANGED <<row, admission>>
    /\ UNCHANGED <<text, log, memory, used, bounds>>

-----------------------------------------------------------------------------
(* The message goes to the branch, or the branch is withdrawn. *)

FindRow(r) ==
    /\ req[r].pc = "meta"
    /\ IF row[req[r].new].there THEN Goto(r, "connect") ELSE Goto(r, "close")
    /\ UNCHANGED <<db, memory, admission, used, bounds>>

\* get_or_connect: a session without a transcript cannot be resumed, only
\* the rewrite of a first message starts one afresh.
Connect(q, s, fresh, otherwise) ==
    \/ turn[s] # "off" /\ Goto(q, "send") /\ UNCHANGED <<turn, admission, bounds>>
    \/ /\ turn[s] = "off" /\ (s \in text \/ fresh)
       /\ turn' = [turn EXCEPT ![s] = "idle"] /\ Goto(q, "send") /\ UNCHANGED <<admission, bounds>>
    \/ turn[s] = "off" /\ s \notin text /\ ~fresh /\ otherwise /\ UNCHANGED <<turn, bounds>>
    \/ turn[s] = "off" /\ Fails /\ otherwise /\ UNCHANGED <<turn, crashes>>

\* send_message: the message is queued and the session runs.
Deliver(q, s, otherwise) ==
    \/ /\ turn[s] # "off"
       /\ tray' = [tray EXCEPT ![s] = @ \cup {q}] /\ turn' = [turn EXCEPT ![s] = "running"]
       /\ req' = [req EXCEPT ![q].pc = "accepted"]
       /\ admission' = [t \in Sessions |-> IF admission[t] = q THEN Nobody ELSE admission[t]]
       /\ UNCHANGED bounds
    \/ turn[s] = "off" /\ otherwise /\ UNCHANGED <<tray, turn, bounds>>
    \/ turn[s] # "off" /\ Fails /\ otherwise /\ UNCHANGED <<tray, turn, crashes>>

Reach(r) ==
    /\ req[r].pc = "connect"
    /\ Connect(r, req[r].new, req[r].anchor = "first", Goto(r, "close") /\ UNCHANGED admission)
    /\ UNCHANGED <<db, tray, asking, used>>

Dispatch(r) ==
    /\ req[r].pc = "send" /\ r \in Rewrites
    /\ Deliver(r, req[r].new, Goto(r, "close") /\ UNCHANGED admission)
    /\ UNCHANGED <<db, asking, used>>

\* close_session: the actor ends, what it queued and asked is dropped.
CloseBranch(r) ==
    LET t == req[r].new IN
    /\ req[r].pc = "close" /\ r \in Rewrites
    /\ turn' = [turn EXCEPT ![t] = "off"] /\ tray' = [tray EXCEPT ![t] = {}] /\ asking' = asking \ {t}
    /\ Goto(r, "unlog")
    /\ UNCHANGED <<db, admission, used, bounds>>

UnlogBranch(r) ==
    /\ req[r].pc = "unlog" /\ r \in Rewrites
    /\ log' = [log EXCEPT ![req[r].new] = {}]
    /\ Goto(r, "find")
    /\ UNCHANGED <<row, text, memory, admission, used, bounds>>

\* Mutant: the project of the branch is not known any more.
FindBranchTooLate(r) ==
    /\ req[r].pc = "find"
    /\ req' = [req EXCEPT ![r].pc = "clear", ![r].placed = FALSE, ![r].why = "failed"]
    /\ UNCHANGED <<db, memory, admission, used, bounds>>
\* discard finds the transcript through the row of the branch.
FindBranch(r) ==
    /\ req[r].pc = "find"
    /\ req' = [req EXCEPT ![r].pc = "clear", ![r].placed = row[req[r].new].there, ![r].why = "failed"]
    /\ UNCHANGED <<db, memory, admission, used, bounds>>

\* clear_superseded: only a pointer to this branch.
Clear(r) ==
    LET s == req[r].at IN
    /\ req[r].pc = "clear"
    /\ row' = IF row[s].next = req[r].new THEN [row EXCEPT ![s].next = None] ELSE row
    /\ Goto(r, "untext")
    /\ UNCHANGED <<text, log, memory, admission, used, bounds>>

Untext(r) ==
    /\ req[r].pc = "untext"
    /\ text' = IF req[r].placed THEN text \ {req[r].new} ELSE text
    /\ Goto(r, "read")
    /\ UNCHANGED <<row, log, memory, admission, used, bounds>>

-----------------------------------------------------------------------------
(* SessionRepository.delete, of a branch or for the user *)

Doomed(q) == IF q \in Rewrites THEN req[q].new ELSE req[q].at

\* The successor is read in a statement of its own.
ReadHeir(q) ==
    /\ req[q].pc = "read"
    /\ req' = [req EXCEPT ![q].pc = "unrow", ![q].heir = row[Doomed(q)].next]
    /\ UNCHANGED <<db, memory, admission, used, bounds>>

\* Who pointed at the row points at its successor.
Unrow(q) ==
    LET d == Doomed(q)
        over == IF q \in Rewrites THEN Refuse(q, req[q].why) ELSE End(q, "accepted", "none") IN
    /\ req[q].pc = "unrow"
    /\ row' = [s \in Sessions |->
                  IF s = d THEN NoRow
                  ELSE IF row[s].there /\ row[s].next = d THEN [row[s] EXCEPT !.next = req[q].heir]
                  ELSE row[s]]
    /\ over
    /\ UNCHANGED <<text, log, memory, used, bounds>>

-----------------------------------------------------------------------------
(* delete_session, which takes no lock *)

CloseDeleted(d) ==
    /\ req[d].pc = "new" /\ d \in Deletes
    /\ \E s \in Known :
          /\ req' = [req EXCEPT ![d].pc = "find", ![d].at = s]
          /\ turn' = [turn EXCEPT ![s] = "off"] /\ tray' = [tray EXCEPT ![s] = {}] /\ asking' = asking \ {s}
    /\ UNCHANGED <<db, admission, used, bounds>>

\* The transcript goes, if the row still names its project.
DeleteText(d) ==
    /\ req[d].pc = "find" /\ d \in Deletes
    /\ text' = IF row[req[d].at].there THEN text \ {req[d].at} ELSE text
    /\ Goto(d, "unlog")
    /\ UNCHANGED <<row, log, memory, admission, used, bounds>>

DeleteLog(d) ==
    /\ req[d].pc = "unlog" /\ d \in Deletes
    /\ log' = [log EXCEPT ![req[d].at] = {}]
    /\ Goto(d, "read")
    /\ UNCHANGED <<row, text, memory, admission, used, bounds>>

-----------------------------------------------------------------------------
(* send_or_create to an existing session *)

\* Mutant: the check is made before the lock is taken.
AdmitSendUnlocked(q) ==
    /\ req[q].pc = "new" /\ q \in Sends
    /\ \E s \in Known :
          IF row[s].there /\ row[s].next = None
          THEN req' = [req EXCEPT ![q].pc = "connect", ![q].at = s]
          ELSE req' = [req EXCEPT ![q].pc = "refused", ![q].at = s, ![q].why = "superseded"]
    /\ UNCHANGED <<db, memory, admission, used, bounds>>

\* The admission lock, then the row: a hidden session admits nothing.
AdmitSend(q) ==
    /\ req[q].pc = "new" /\ q \in Sends
    /\ \E s \in Known :
          /\ admission[s] = Nobody
          /\ IF row[s].there /\ row[s].next = None
             THEN /\ req' = [req EXCEPT ![q].pc = "connect", ![q].at = s]
                  /\ admission' = [admission EXCEPT ![s] = q]
             ELSE /\ req' = [req EXCEPT ![q].pc = "refused", ![q].at = s, ![q].why = "superseded"]
                  /\ UNCHANGED admission
    /\ UNCHANGED <<db, memory, used, bounds>>

ConnectSend(q) ==
    /\ req[q].pc = "connect" /\ q \in Sends
    /\ Connect(q, req[q].at, FALSE, Refuse(q, "failed"))
    /\ UNCHANGED <<db, tray, asking, used>>

DeliverSend(q) ==
    /\ req[q].pc = "send" /\ q \in Sends
    /\ Deliver(q, req[q].at, Refuse(q, "failed"))
    /\ UNCHANGED <<db, asking, used>>

-----------------------------------------------------------------------------
(* The resident sessions and the server *)

\* The CLI takes a queued message: it is logged, the transcript grows.
Take(s) ==
    /\ turn[s] # "off"
    /\ \E m \in tray[s] :
          /\ tray' = [tray EXCEPT ![s] = @ \ {m}]
          /\ log' = [log EXCEPT ![s] = @ \cup {m}]
    /\ text' = text \cup {s}
    /\ turn' = [turn EXCEPT ![s] = "running"]
    /\ UNCHANGED <<row, asking, admission, req, used, bounds>>

TurnEnds(s) ==
    /\ turn[s] = "running" /\ tray[s] = {} /\ s \notin asking
    /\ turn' = [turn EXCEPT ![s] = "idle"]
    /\ UNCHANGED <<db, tray, asking, admission, req, used, bounds>>

Ask(s) ==
    /\ turn[s] = "running" /\ s \notin asking
    /\ asking' = asking \cup {s}
    /\ UNCHANGED <<db, tray, turn, admission, req, used, bounds>>

Answer(s) ==
    /\ s \in asking
    /\ asking' = asking \ {s}
    /\ UNCHANGED <<db, tray, turn, admission, req, used, bounds>>

\* Eviction of a session that does not run.
Evict(s) ==
    /\ turn[s] \in {"idle", "error"} /\ tray[s] = {}
    /\ turn' = [turn EXCEPT ![s] = "off"]
    /\ UNCHANGED <<db, tray, asking, admission, req, used, bounds>>

\* The server stops: what is not in the database is gone.
Crash ==
    /\ crashes < MaxCrashes /\ crashes' = crashes + 1
    /\ turn' = [s \in Sessions |-> "off"] /\ tray' = [s \in Sessions |-> {}] /\ asking' = {}
    /\ admission' = [s \in Sessions |-> Nobody]
    /\ req' = [q \in Requests |-> IF req[q].pc \in Steps THEN [req[q] EXCEPT !.pc = "lost"] ELSE req[q]]
    /\ UNCHANGED <<db, used, failures>>

Rewrite(r) ==
    \/ Begin(r) \/ Look(r) \/ Check(r) \/ Admit(r) \/ Interrupt(r) \/ Settle(r)
    \/ Copy(r) \/ Create(r) \/ Mark(r) \/ FindRow(r) \/ Reach(r) \/ Dispatch(r)
    \/ CloseBranch(r) \/ UnlogBranch(r) \/ FindBranch(r) \/ Clear(r) \/ Untext(r)
    \/ ReadHeir(r) \/ Unrow(r)
Delete(d) == CloseDeleted(d) \/ DeleteText(d) \/ DeleteLog(d) \/ ReadHeir(d) \/ Unrow(d)
Send(q) == AdmitSend(q) \/ ConnectSend(q) \/ DeliverSend(q)
Agent(s) == Take(s) \/ TurnEnds(s) \/ Ask(s) \/ Answer(s) \/ Evict(s)

\* No request is under way; further ones may or may not come.
Done == (\A q \in Requests : req[q].pc \notin Steps) /\ UNCHANGED vars

Next ==
    \/ \E r \in Rewrites : Rewrite(r)
    \/ \E d \in Deletes : Delete(d)
    \/ \E q \in Sends : Send(q)
    \/ \E s \in Sessions : Agent(s)
    \/ Crash \/ Done

Spec == Init /\ [][Next]_vars

-----------------------------------------------------------------------------
(* Properties *)

Active(q) == req[q].pc \in Steps
AtRest == \A q \in Requests : ~Active(q)
Listed(s) == row[s].there /\ row[s].next = None

\* The session a branch stems from, through all the branches between.
Root[s \in Sessions] ==
    IF \E r \in Rewrites : req[r].new = s
    THEN Root[req[CHOOSE r \in Rewrites : req[r].new = s].at]
    ELSE s

\* A hidden session has no message waiting: a message is admitted either
\* before its session is looked at for a rewrite, which then gives way, or
\* after the branch is published, where it is refused.  Nothing the user sent
\* runs on in a session he no longer sees (service.py:297, 526).
HiddenIsSilent == \A s \in Sessions : row[s].there /\ row[s].next # None => tray[s] = {}

\* However many rewrites and failures there were: when no request is under
\* way, the list shows at most one session of a conversation, if the server
\* did not stop between the row of a branch and the pointer to it.  With
\* deletions it is claimed only where one deletion meets one rewrite at most.
OneTimeline ==
    AtRest /\ crashes = 0 => \A s, t \in Sessions : Listed(s) /\ Listed(t) /\ Root[s] = Root[t] => s = t

\* When no request is under way, what hides a session is there: no session
\* is hidden for good behind one that was deleted (session_repo.py:119).
PointersLive == AtRest => \A s \in Sessions : row[s].there /\ row[s].next # None => row[row[s].next].there

\* A rewrite that was refused after it had a branch leaves nothing of it: no
\* row, no transcript, no log, no agent, and no session hidden behind it.
RefusedLeavesNothing ==
    \A r \in Rewrites : req[r].pc = "refused" /\ req[r].new # None =>
        LET t == req[r].new IN
        /\ ~row[t].there /\ t \notin text /\ log[t] = {} /\ tray[t] = {} /\ turn[t] = "off"
        /\ \A s \in Sessions : row[s].next # t

\* A session is hidden only behind a branch whose rewrite went through or
\* is still under way, as long as the server does not stop in the middle.
HiddenMeansReplaced ==
    \A s \in Sessions : row[s].there /\ row[s].next # None =>
        \E r \in Rewrites : req[r].new = row[s].next /\ req[r].pc # "refused"

\* The message of a rewrite is in one session, however often it is tried.
KeyOnce == Cardinality({s \in Sessions : HasKey(s)}) <= 1

\* A retry is never told that the session was superseded while a branch holds
\* the very message it retries.
RetryFindsItsBranch ==
    [][\A r \in Keyed : req'[r].pc = "refused" /\ req'[r].why = "superseded" /\ req[r].pc # "refused" =>
          ~\E s \in Sessions : HasKey(s) /\ row[s].there]_vars

(* There is one conversation: one timeline of live sessions, with the       *)
(* rewritten message in it once.                                            *)
OneConversation == TypeOK /\ OneTimeline /\ PointersLive /\ KeyOnce

(* A branch that is refused goes without a trace, and one that stays is     *)
(* what its origin is hidden for.                                           *)
WithdrawalIsComplete == RefusedLeavesNothing /\ HiddenMeansReplaced
=============================================================================
