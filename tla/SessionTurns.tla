---------------------------- MODULE SessionTurns ----------------------------
(***************************************************************************)
(* When a session of the assistant is running                              *)
(* (server/agent_runtime/session_manager.py).  One session id is followed  *)
(* over its connections: messages are delivered to the CLI, the CLI works, *)
(* reports idle or starts a turn of its own, the inbox settles what was    *)
(* read, idle sessions are evicted, and the status in memory is written to *)
(* the database by whoever changes it.                                     *)
(*                                                                         *)
(* A step is what the event loop runs between two awaits.  A write of the  *)
(* database is issued in one step; it is committed, and its coroutine goes *)
(* on, in a later one, so writes of different coroutines commit in any     *)
(* order.  Connecting is one step here (SessionRegistry has its own).      *)
(***************************************************************************)
EXTENDS Integers, Sequences, FiniteSets

CONSTANTS Senders,      \* requests, one message each
          Repeats,      \* requests that repeat one whose message may have been sent
          MaxConns,     \* bound: connections of the session
          Outcomes,     \* what the result of a turn says
          MaxOwnTurns,  \* bound: turns the CLI starts without a message
          MaxCrashes,   \* bound: CLI processes that end by themselves
          MaxFailures,  \* bound: things that go wrong in the server
          Failing       \* what may go wrong: a write of "send", "inbox" or "evict" fails, a
                        \* "write" of the inbox outlasts the wait of the eviction, the
                        \* lookup of a "request" outlasts the eviction

Terminal == {"completed", "interrupted", "error"}

ASSUME TurnsAssumption == Outcomes \subseteq Terminal /\ Repeats \subseteq Senders
                            /\ Failing \subseteq {"send", "inbox", "evict", "write", "request"}
                            /\ {MaxConns, MaxOwnTurns, MaxCrashes, MaxFailures} \subseteq Nat

Conns == 1..MaxConns
Status == {"idle", "running", "closed"} \cup Terminal
Notice == [kind : {"idle"}, epoch : Nat]
          \cup [kind : {"work", "busy", "exit", "crash", "stop"} \cup Terminal]

VARIABLES
    live,     \* sessions: the connection of the id, 0 for none
    db,       \* the status in the database
    conn,     \* ManagedSession of each connection, with its CLI
    inbox,    \* _process_inbox of each connection
    sender,   \* _deliver_queued_message of each request
    evict,    \* _evict_one, one at a time (_disconnecting)
    assumed,  \* history: the connections that are running because the row they came
              \* from said so, and not because of a message or of the CLI
    ownTurns, \* turns the CLI started by itself
    crashes,  \* CLI processes that ended by themselves
    failed    \* what went wrong in the server, each at most once

turnVars == <<live, db, conn, inbox, sender, evict, assumed, ownTurns, crashes, failed>>

Connection ==
    [status : Status, epoch : Nat, idleEpoch : Nat,
     outcome : {"none"} \cup Terminal, queue : Seq(Notice), stopped : BOOLEAN,
     timer : BOOLEAN, actor : {"none", "up", "down"},
     cli : {"idle", "working", "between", "gone"}, held : Nat]

InboxState ==
    [pc : {"get", "settle", "resettle", "resume", "terminal", "last", "done"}, write : Status, epoch : Nat]
SenderState ==
    [pc : {"new", "read", "found", "db", "rewrite", "query", "refused", "errdb", "done"},
     seen : Status, on : {0} \cup Conns, epoch : Nat, joined : BOOLEAN, write : Status]
EvictState == [pc : {"off", "cancel", "sent", "drain", "final"}, on : {0} \cup Conns, write : Status]

TurnsTypeOK ==
    /\ live \in {0} \cup Conns
    /\ db \in Status
    /\ conn \in [Conns -> Connection]
    /\ inbox \in [Conns -> InboxState]
    /\ sender \in [Senders -> SenderState]
    /\ evict \in EvictState
    /\ assumed \subseteq Conns
    /\ ownTurns \in 0..MaxOwnTurns /\ crashes \in 0..MaxCrashes /\ failed \subseteq Failing

TurnsInit ==
    /\ live = 0 /\ db = "completed"
    /\ conn = [g \in Conns |->
         [status |-> "idle", epoch |-> 1, idleEpoch |-> 0, outcome |-> "none", queue |-> <<>>,
          stopped |-> FALSE, timer |-> FALSE, actor |-> "none", cli |-> "idle", held |-> 0]]
    /\ inbox = [g \in Conns |-> [pc |-> "get", write |-> "idle", epoch |-> 0]]
    /\ sender = [s \in Senders |->
         [pc |-> "new", seen |-> "idle", on |-> 0, epoch |-> 0, joined |-> FALSE, write |-> "idle"]]
    /\ evict = [pc |-> "off", on |-> 0, write |-> "idle"]
    /\ assumed = {} /\ ownTurns = 0 /\ crashes = 0 /\ failed = {}

Fails(who) ==
    who \in Failing \ failed /\ Cardinality(failed) < MaxFailures /\ failed' = failed \cup {who}
Push(c, notice) == [c EXCEPT !.queue = Append(@, notice)]
Of(kind) == [kind |-> kind]
IdleOf(e) == [kind |-> "idle", epoch |-> e]

\* enter_running
EnterRunning(c) ==
    [c EXCEPT !.epoch = @ + 1, !.timer = FALSE, !.status = "running",
              !.outcome = IF c.status = "running" THEN @ ELSE "none"]

\* Mutant: an idle that was passed over is not announced again.
AbandonNothing(c, e) == c
\* abandon_running
AbandonRunning(c, e) ==
    IF c.epoch = e + 1 /\ c.idleEpoch \in {e, e + 1}
    THEN Push([c EXCEPT !.idleEpoch = c.epoch], IdleOf(c.epoch))
    ELSE c

\* What a run ends as.
Verdict(c) == IF c.outcome = "none" THEN "interrupted" ELSE c.outcome

\* _schedule_cleanup, for whichever connection the id has.
ScheduleCleanup(cs) ==
    IF live = 0 \/ evict.pc # "off" THEN cs ELSE [cs EXCEPT ![live].timer = TRUE]

-----------------------------------------------------------------------------
(* Requests.  service.py admits one at a time to a session. *)

Admitted(s) ==
    sender[s].pc = "new" /\ \A other \in Senders : sender[other].pc \in {"new", "done"}

\* The session's row is read first; the log is looked after before it is used.
ReadMeta(s) ==
    /\ Admitted(s)
    /\ sender' = [sender EXCEPT ![s].pc = "read", ![s].seen = db]
    /\ UNCHANGED <<live, db, conn, inbox, evict, assumed, ownTurns, crashes, failed>>

\* get_or_connect finds a connection.
Begin(s) ==
    /\ sender[s].pc = "read"
    /\ live # 0 /\ evict.pc = "off" /\ conn[live].actor = "up"
    /\ sender' = [sender EXCEPT ![s].pc = "found", ![s].on = live]
    /\ UNCHANGED <<live, db, conn, inbox, evict, assumed, ownTurns, crashes, failed>>

\* _connect_resumed_session: the status the row had when the request read it, if it
\* is one to resume; an eviction the request waited for may have settled it since.
ConnectResumed(s) ==
    /\ sender[s].pc = "read"
    /\ live = 0
    /\ \E g \in Conns :
           /\ conn[g].actor = "none" /\ \A h \in 1..(g - 1) : conn[h].actor # "none"
           /\ live' = g
           /\ assumed' = IF sender[s].seen = "running" THEN assumed \cup {g} ELSE assumed \ {g}
           /\ conn' = [conn EXCEPT ![g].actor = "up",
                           ![g].status = IF sender[s].seen = "completed" THEN "idle" ELSE sender[s].seen]
           /\ sender' = [sender EXCEPT ![s].pc = "found", ![s].on = g]
    /\ UNCHANGED <<db, inbox, evict, ownTurns, crashes, failed>>

\* The key of the request is that of a message sent before: it is answered, and
\* nothing is delivered.  With the CLI gone nothing is connected for it either.
Repeated(s) ==
    /\ s \in Repeats
    /\ \/ sender[s].pc = "found"
       \/ sender[s].pc = "read" /\ live # 0 /\ conn[live].actor = "down"
    /\ sender' = [sender EXCEPT ![s].pc = "done"]
    /\ UNCHANGED <<live, db, conn, inbox, evict, assumed, ownTurns, crashes, failed>>

\* _deliver_queued_message: running from here on.
Register(s) ==
    LET g == sender[s].on IN
    /\ sender[s].pc = "found"
    /\ sender' = [sender EXCEPT ![s].pc = "db", ![s].epoch = conn[g].epoch,
                      ![s].joined = (conn[g].status = "running"), ![s].write = "running"]
    /\ conn' = [conn EXCEPT ![g] = EnterRunning(@)]
    /\ UNCHANGED <<live, db, inbox, evict, assumed, ownTurns, crashes, failed>>

\* The tail of the delivery that failed; c is the connection at that point.
FailDelivery(s, c, delivering) ==
    LET g == sender[s].on
        inVain == ~sender[s].joined /\ evict.pc = "off" /\ live = g IN
    IF inVain
    THEN /\ conn' = [conn EXCEPT ![g] = [c EXCEPT !.status = "error"]]
         /\ sender' = [sender EXCEPT ![s].pc = "errdb", ![s].write = "error"]
    ELSE /\ conn' = [conn EXCEPT ![g] =
                IF sender[s].joined /\ ~delivering THEN AbandonRunning(c, sender[s].epoch) ELSE c]
         /\ sender' = [sender EXCEPT ![s].pc = "done"]

\* "running" is in the database and the session still there: send_query.
Send(s) ==
    LET g == sender[s].on
        lost == conn[g].actor = "down" \/ (evict.on = g /\ evict.pc \notin {"off", "cancel"}) IN
    /\ sender[s].pc = "db" /\ live = g
    /\ db' = "running"
    /\ conn' = [conn EXCEPT ![g] = EnterRunning(@)]
    /\ assumed' = assumed \ {g}
    /\ sender' = [sender EXCEPT ![s].pc = IF lost THEN "refused" ELSE "query"]
    /\ UNCHANGED <<live, inbox, evict, ownTurns, crashes, failed>>

\* The session was evicted meanwhile: the status of what is there now is written
\* over the "running" that came too late.
TooLate(s) ==
    LET g == sender[s].on IN
    /\ sender[s].pc = "db" /\ live # g
    /\ db' = "running"
    /\ sender' = [sender EXCEPT ![s].pc = "rewrite",
                      ![s].write = conn[IF live = 0 THEN g ELSE live].status]
    /\ UNCHANGED <<live, conn, inbox, evict, assumed, ownTurns, crashes, failed>>

\* The write fails: the message does not go to the CLI.
SendWriteFails(s) ==
    /\ sender[s].pc = "db"
    /\ Fails("send")
    /\ FailDelivery(s, conn[sender[s].on], FALSE)
    /\ UNCHANGED <<live, db, inbox, evict, assumed, ownTurns, crashes>>

\* The truth is in the database again; the delivery has failed.
Rewritten(s) ==
    /\ sender[s].pc = "rewrite"
    /\ db' = sender[s].write
    /\ FailDelivery(s, conn[sender[s].on], FALSE)
    /\ UNCHANGED <<live, inbox, evict, assumed, ownTurns, crashes, failed>>

\* The actor hands the message to the CLI.
Delivered(s) ==
    LET g == sender[s].on IN
    /\ sender[s].pc = "query" /\ conn[g].actor = "up"
    /\ conn' = [conn EXCEPT ![g].held = @ + 1]
    /\ sender' = [sender EXCEPT ![s].pc = "done"]
    /\ UNCHANGED <<live, db, inbox, evict, assumed, ownTurns, crashes, failed>>

\* The command is answered with an error: the actor is gone, or the client
\* raises and takes the actor with it.
Undelivered(s) ==
    LET g == sender[s].on
        c == conn[g]
        breaks == sender[s].pc = "query" /\ c.actor = "up"
        broken == [Push(c, Of("crash")) EXCEPT !.actor = "down", !.cli = "gone", !.held = 0] IN
    /\ breaks \/ (sender[s].pc \in {"query", "refused"} /\ c.actor = "down")
    /\ IF breaks THEN crashes < MaxCrashes /\ crashes' = crashes + 1 ELSE UNCHANGED crashes
    /\ FailDelivery(s, [(IF breaks THEN broken ELSE c) EXCEPT !.status = "error"], TRUE)
    /\ UNCHANGED <<live, db, inbox, evict, assumed, ownTurns, failed>>

\* The error of the delivery is in the database, or could not be written.
ErrorWritten(s) ==
    /\ sender[s].pc = "errdb"
    /\ \/ db' = "error" /\ UNCHANGED failed
       \/ Fails("send") /\ UNCHANGED db
    /\ sender' = [sender EXCEPT ![s].pc = "done"]
    /\ UNCHANGED <<live, conn, inbox, evict, assumed, ownTurns, crashes>>

-----------------------------------------------------------------------------
(* The CLI, and the frames the actor reads from it. *)

\* The first frame of a turn, which a message or the CLI itself began.
Starts(g) ==
    LET c == conn[g]
        read == Push(c, Of("work"))
        resumed == IF c.status = "running" THEN EnterRunning(read) ELSE Push(EnterRunning(read), Of("busy"))
    IN
    /\ c.actor = "up" /\ c.cli \in {"idle", "between"}
    /\ IF c.held > 0 THEN UNCHANGED ownTurns
                     ELSE ownTurns < MaxOwnTurns /\ ownTurns' = ownTurns + 1
    /\ conn' = [conn EXCEPT ![g] =
           [(IF c.stopped THEN read ELSE resumed)
            EXCEPT !.cli = "working", !.held = IF @ > 0 THEN @ - 1 ELSE 0]]
    /\ UNCHANGED <<live, db, inbox, sender, evict, assumed, crashes, failed>>

\* A message is taken into the turn in progress.
Joins(g) ==
    /\ conn[g].actor = "up" /\ conn[g].cli = "working" /\ conn[g].held > 0
    /\ conn' = [conn EXCEPT ![g].held = @ - 1]
    /\ UNCHANGED <<live, db, inbox, sender, evict, assumed, ownTurns, crashes, failed>>

\* The result of the turn.
Result(g) ==
    /\ conn[g].actor = "up" /\ conn[g].cli = "working"
    /\ \E how \in Outcomes :
           conn' = [conn EXCEPT ![g] = [Push(@, Of(how)) EXCEPT !.cli = "between"]]
    /\ UNCHANGED <<live, db, inbox, sender, evict, assumed, ownTurns, crashes, failed>>

\* The CLI has nothing left to do.
Idles(g) ==
    LET c == conn[g] IN
    /\ c.actor = "up" /\ c.cli = "between" /\ c.held = 0
    /\ conn' = [conn EXCEPT ![g] =
           [Push(c, IdleOf(c.epoch)) EXCEPT !.idleEpoch = c.epoch, !.cli = "idle"]]
    /\ UNCHANGED <<live, db, inbox, sender, evict, assumed, ownTurns, crashes, failed>>

\* The process ends by itself.
Exits(g) ==
    /\ conn[g].actor = "up"
    /\ crashes < MaxCrashes /\ crashes' = crashes + 1
    /\ conn' = [conn EXCEPT ![g] =
           [Push(@, Of("crash")) EXCEPT !.actor = "down", !.cli = "gone", !.held = 0]]
    /\ UNCHANGED <<live, db, inbox, sender, evict, assumed, ownTurns, failed>>

-----------------------------------------------------------------------------
(* _process_inbox, in the order in which the frames were read. *)

Issue(g, pc, write, e) == inbox' = [inbox EXCEPT ![g] = [pc |-> pc, write |-> write, epoch |-> e]]
GoOn(g) == inbox' = [inbox EXCEPT ![g].pc = "get"]
Stopping(g) == inbox' = [inbox EXCEPT ![g].pc = "done"]

Taking(g, kinds) ==
    inbox[g].pc = "get" /\ conn[g].queue # <<>> /\ Head(conn[g].queue).kind \in kinds
Rest(g) == [conn[g] EXCEPT !.queue = Tail(@)]

\* Mutant: every idle settles the session.
SettleAnyIdle(g) ==
    /\ Taking(g, {"idle"})
    /\ LET c == Rest(g)
           status == IF c.outcome = "none" THEN "completed" ELSE c.outcome IN
       IF c.status = "running"
       THEN /\ conn' = [conn EXCEPT ![g] = [c EXCEPT !.status = status]]
            /\ Issue(g, "settle", status, Head(conn[g].queue).epoch)
            /\ assumed' = assumed \ {g}
       ELSE conn' = [conn EXCEPT ![g] = c] /\ UNCHANGED <<inbox, assumed>>
    /\ UNCHANGED <<live, db, sender, evict, ownTurns, crashes, failed>>
\* _settle_cli_idle: an idle that nothing has overtaken ends the run.
SettleIdle(g) ==
    /\ Taking(g, {"idle"})
    /\ LET e == Head(conn[g].queue).epoch
           c == Rest(g)
           status == IF c.outcome = "none" THEN "completed" ELSE c.outcome IN
       IF c.status = "running" /\ e = c.epoch
       THEN /\ conn' = [conn EXCEPT ![g] = [c EXCEPT !.status = status]]
            /\ Issue(g, "settle", status, e)
            /\ assumed' = assumed \ {g}
       ELSE conn' = [conn EXCEPT ![g] = c] /\ UNCHANGED <<inbox, assumed>>
    /\ UNCHANGED <<live, db, sender, evict, ownTurns, crashes, failed>>

\* Mutant: the terminal status is left in the database.
SettledForGood(g) ==
    /\ inbox[g].pc = "settle"
    /\ db' = inbox[g].write
    /\ GoOn(g)
    /\ conn' = IF inbox[g].epoch = conn[g].epoch THEN ScheduleCleanup(conn) ELSE conn
    /\ UNCHANGED <<live, sender, evict, assumed, ownTurns, crashes, failed>>
\* The terminal status is written; running again meanwhile, that is written anew.
Settled(g) ==
    /\ inbox[g].pc = "settle"
    /\ db' = inbox[g].write
    /\ IF inbox[g].epoch = conn[g].epoch
       THEN GoOn(g) /\ conn' = ScheduleCleanup(conn)
       ELSE /\ IF conn[g].status = "running" THEN Issue(g, "resettle", "running", 0) ELSE GoOn(g)
            /\ UNCHANGED conn
    /\ UNCHANGED <<live, sender, evict, assumed, ownTurns, crashes, failed>>

\* _persist_cli_resumed
TakeBusy(g) ==
    /\ Taking(g, {"busy"})
    /\ conn' = [conn EXCEPT ![g] = Rest(g)]
    /\ Issue(g, "resume", "running", 0)
    /\ UNCHANGED <<live, db, sender, evict, assumed, ownTurns, crashes, failed>>

\* The second write of an idle, or the one of a turn of the CLI's own.
RunningWritten(g) ==
    /\ inbox[g].pc \in {"resettle", "resume"}
    /\ db' = "running"
    /\ GoOn(g)
    /\ UNCHANGED <<live, conn, sender, evict, assumed, ownTurns, crashes, failed>>

\* A frame of the turn, or its result.
TakeFrame(g) ==
    /\ Taking(g, {"work"} \cup Terminal)
    /\ LET kind == Head(conn[g].queue).kind IN
       conn' = [conn EXCEPT ![g] = [Rest(g) EXCEPT !.outcome = IF kind = "work" THEN "none" ELSE kind]]
    /\ UNCHANGED <<live, db, inbox, sender, evict, assumed, ownTurns, crashes, failed>>

\* _mark_session_terminal, up to its write.
MarkTerminal(g, c, status, pc) ==
    /\ conn' = [conn EXCEPT ![g] = [c EXCEPT !.status = status]]
    /\ Issue(g, pc, status, 0)

\* The actor has ended, or eviction tells the inbox to stop.
TakeExit(g) ==
    /\ Taking(g, {"crash", "exit", "stop"})
    /\ LET kind == Head(conn[g].queue).kind IN
       IF kind = "crash" THEN MarkTerminal(g, Rest(g), "error", "terminal")
       ELSE IF kind = "exit" /\ conn[g].status = "running"
            THEN MarkTerminal(g, Rest(g), Verdict(conn[g]), "terminal")
            ELSE conn' = [conn EXCEPT ![g] = Rest(g)] /\ Stopping(g)
    /\ UNCHANGED <<live, db, sender, evict, assumed, ownTurns, crashes, failed>>

TerminalWritten(g) ==
    /\ inbox[g].pc \in {"terminal", "last"}
    /\ db' = inbox[g].write
    /\ Stopping(g)
    /\ conn' = ScheduleCleanup(conn)
    /\ UNCHANGED <<live, sender, evict, assumed, ownTurns, crashes, failed>>

\* A write fails.  That of a resumed turn is logged; any other ends the inbox,
\* which tries to leave the session in error.
InboxWriteFails(g) ==
    /\ inbox[g].pc \notin {"get", "done"}
    /\ Fails("inbox")
    /\ CASE inbox[g].pc = "resume" -> GoOn(g) /\ UNCHANGED conn
         [] inbox[g].pc = "last" -> Stopping(g) /\ UNCHANGED conn
         [] OTHER -> MarkTerminal(g, [conn[g] EXCEPT !.stopped = TRUE], "error", "last")
    /\ UNCHANGED <<live, db, sender, evict, assumed, ownTurns, crashes>>

-----------------------------------------------------------------------------
(* Eviction: by the timer, by the patrol or for capacity, by a request that *)
(* found the CLI gone, or because the user closes the session.              *)

\* With a timer armed _evict_one first waits for its end.
EvictOne ==
    /\ evict.pc = "off"
    /\ evict' = [evict EXCEPT !.pc = IF conn[live].timer THEN "cancel" ELSE "sent", !.on = live]

\* _cleanup_idle: the delay is over.
TimerFires ==
    /\ live # 0 /\ conn[live].timer
    /\ conn' = [conn EXCEPT ![live].timer = FALSE]
    /\ IF conn[live].status \in {"idle"} \cup Terminal
       THEN evict' = [evict EXCEPT !.pc = "sent", !.on = live]
       ELSE UNCHANGED evict
    /\ evict.pc = "off"
    /\ UNCHANGED <<live, db, inbox, sender, assumed, ownTurns, crashes, failed>>

\* _patrol_once, and _ensure_capacity for another session.
EvictIdle ==
    /\ live # 0
    /\ conn[live].status # "running"
    /\ EvictOne
    /\ UNCHANGED <<live, db, conn, inbox, sender, assumed, ownTurns, crashes, failed>>

\* _retire_exited_session: a request found the actor gone and the inbox at its end.
Retire(s) ==
    /\ sender[s].pc = "read"
    /\ live # 0 /\ conn[live].actor = "down" /\ inbox[live].pc = "done"
    /\ EvictOne
    /\ UNCHANGED <<live, db, conn, inbox, sender, assumed, ownTurns, crashes, failed>>

\* close_session and shutdown_gracefully
Close ==
    /\ live # 0
    /\ EvictOne
    /\ UNCHANGED <<live, db, conn, inbox, sender, assumed, ownTurns, crashes, failed>>

\* send_disconnect reaches the actor's queue.
SendDisconnect ==
    /\ evict.pc = "cancel"
    /\ evict' = [evict EXCEPT !.pc = "sent"]
    /\ conn' = [conn EXCEPT ![evict.on].timer = FALSE]
    /\ UNCHANGED <<live, db, inbox, sender, assumed, ownTurns, crashes, failed>>

Disconnected(c) ==
    IF c.actor = "up" THEN [Push(c, Of("exit")) EXCEPT !.actor = "down", !.cli = "gone", !.held = 0]
                      ELSE c

\* The actor has executed it, after what was in its queue before, or was
\* cancelled at the timeout; the inbox is told to stop.
Disconnect ==
    /\ evict.pc = "sent"
    /\ \/ /\ \A s \in Senders : ~(sender[s].pc = "query" /\ sender[s].on = evict.on)
          /\ conn' = [conn EXCEPT ![evict.on] =
                 Push([Disconnected(@) EXCEPT !.status =
                           IF conn[evict.on].status = "running" THEN "running" ELSE "closed"], Of("stop"))]
       \/ /\ conn[evict.on].actor = "up"
          /\ conn' = [conn EXCEPT ![evict.on] =
                 Push([Disconnected(@) EXCEPT !.status = "interrupted"], Of("stop"))]
    /\ evict' = [evict EXCEPT !.pc = "drain"]
    /\ UNCHANGED <<live, db, inbox, sender, assumed, ownTurns, crashes, failed>>

\* The inbox takes too long with a write and is cancelled; the write may be done.
CancelInbox ==
    LET g == evict.on IN
    /\ evict.pc = "drain" /\ inbox[g].pc \notin {"get", "done", "last"}
    /\ Fails("write")
    /\ db' \in {db, inbox[g].write}
    /\ IF conn[g].status = "running" THEN MarkTerminal(g, conn[g], Verdict(conn[g]), "last")
                                     ELSE Stopping(g) /\ UNCHANGED conn
    /\ UNCHANGED <<live, sender, evict, assumed, ownTurns, crashes>>

\* The lookup of a request outlasts the connection it found, or is over before.
LookupsAreQuick == \A s \in Senders : ~(sender[s].pc = "found" /\ sender[s].on = evict.on)
Overlooked == IF LookupsAreQuick \/ "request" \in failed THEN UNCHANGED failed ELSE Fails("request")

\* The inbox is drained: the status to leave behind.
Drained ==
    LET g == evict.on
        status == IF conn[g].status = "running" THEN Verdict(conn[g]) ELSE conn[g].status IN
    /\ evict.pc = "drain" /\ inbox[g].pc = "done"
    /\ conn' = [conn EXCEPT ![g].status = status]
    /\ IF status \in Terminal
       THEN evict' = [evict EXCEPT !.pc = "final", !.write = status] /\ UNCHANGED live
       ELSE evict' = [evict EXCEPT !.pc = "off", !.on = 0] /\ live' = 0
    /\ Overlooked
    /\ UNCHANGED <<db, inbox, sender, assumed, ownTurns, crashes>>

\* It is written, or its failure ignored; the session is gone.
Gone ==
    /\ evict.pc = "final"
    /\ \/ db' = evict.write /\ Overlooked
       \/ Fails("evict") /\ UNCHANGED db /\ (LookupsAreQuick \/ "request" \in failed)
    /\ live' = 0 /\ evict' = [evict EXCEPT !.pc = "off", !.on = 0]
    /\ UNCHANGED <<conn, inbox, sender, assumed, ownTurns, crashes>>

-----------------------------------------------------------------------------
Request(s) ==
    \/ ReadMeta(s) \/ Begin(s) \/ ConnectResumed(s) \/ Repeated(s) \/ Register(s)
    \/ Send(s) \/ TooLate(s) \/ SendWriteFails(s) \/ Rewritten(s)
    \/ Delivered(s) \/ Undelivered(s) \/ ErrorWritten(s) \/ Retire(s)

Cli(g) == Starts(g) \/ Joins(g) \/ Result(g) \/ Idles(g) \/ Exits(g)

ProcessInbox(g) ==
    \/ SettleIdle(g) \/ Settled(g) \/ TakeBusy(g) \/ RunningWritten(g) \/ TakeFrame(g)
    \/ TakeExit(g) \/ TerminalWritten(g) \/ InboxWriteFails(g)

Eviction == SendDisconnect \/ Disconnect \/ CancelInbox \/ Drained \/ Gone

TurnsNext ==
    \/ \E s \in Senders : Request(s)
    \/ \E g \in Conns : Cli(g) \/ ProcessInbox(g)
    \/ TimerFires \/ EvictIdle \/ Close \/ Eviction

TurnsSpec == TurnsInit /\ [][TurnsNext]_turnVars

\* The event loop runs every coroutine it can; the CLI finishes what it works on.
FairTurns ==
    /\ TurnsSpec
    /\ \A s \in Senders : WF_turnVars(Request(s))
    /\ \A g \in Conns : WF_turnVars(ProcessInbox(g)) /\ WF_turnVars(Joins(g) \/ Result(g) \/ Idles(g))
                        /\ WF_turnVars(conn[g].held > 0 /\ Starts(g))
    /\ WF_turnVars(Eviction)

-----------------------------------------------------------------------------
(* A CLI at work counts as running while its frames are settled: no idle    *)
(* read before, however late it is settled, exposes the turn to the timer,  *)
(* the patrol or the capacity (unless a delivery failed to be written: its  *)
(* error may hit a turn that began meanwhile).                              *)
WorkIsRunning ==
    live # 0 /\ conn[live].actor = "up" /\ ~conn[live].stopped /\ conn[live].cli = "working"
    /\ "send" \notin failed =>
        conn[live].status = "running"

(* When nothing is under way the database says "running" exactly when the   *)
(* session is, whatever the order in which the writes were committed, as    *)
(* long as nothing went wrong.  A connection revived as running from a row  *)
(* that an eviction settled meanwhile is not in the database, until a       *)
(* message is sent over it or an idle settles it.                           *)
AtRest ==
    /\ \A s \in Senders : sender[s].pc \in {"new", "done"}
    /\ evict.pc = "off"
    /\ live # 0 => inbox[live].pc = "done" \/ (inbox[live].pc = "get" /\ conn[live].queue = <<>>)
DatabaseAgrees ==
    AtRest /\ crashes = 0 /\ failed = {} =>
        (db = "running" <=> live # 0 /\ conn[live].status = "running" /\ live \notin assumed)

(* A run ends once the CLI has nothing to do, the delivery that failed in   *)
(* the middle of a turn included: nobody waits for an idle that was passed  *)
(* over (unless a write of the inbox failed and nobody reads any more).     *)
(* Not so the run of a connection revived as running before its CLI ever    *)
(* worked: no idle is to come, and if its request delivers nothing, for a   *)
(* failed write or a repeated key, it stays.  It ends as any other once the *)
(* CLI begins a turn.                                                       *)
NeverWorked(g) == g \in assumed /\ conn[g].cli = "idle" /\ conn[g].idleEpoch = 0
EveryRunEnds ==
    \A g \in Conns : live = g /\ conn[g].status = "running" /\ ~NeverWorked(g)
                         ~> live # g \/ conn[g].status # "running" \/ conn[g].stopped

(* The status kept in two places is one status.                             *)
StatusIsTrue == TurnsTypeOK /\ DatabaseAgrees
=============================================================================
