---------------------------- MODULE SessionRegistry ----------------------------
(***************************************************************************)
(* The resident sessions of the assistant                                  *)
(* (server/agent_runtime/session_manager.py and service.py): which session *)
(* has a CLI process, who may start one, how many there are, and how a new *)
(* session gets its id.  Requests connect to sessions or create them;      *)
(* idle sessions are evicted to make room, by their timer, and by the      *)
(* patrol.                                                                 *)
(*                                                                         *)
(* A step is what the event loop runs between two awaits.  A CLI process   *)
(* is named by the request that started it, a new session by the request   *)
(* that created it; it is evicted under its real id only.  The connection  *)
(* locks are objects: an eviction throws the lock of its session away, and *)
(* a coroutine may still wait for it.                                      *)
(*                                                                         *)
(* Whether a session runs is kept here as its ManagedSession has it in     *)
(* memory, which is what evictions go by; its row in the database is the   *)
(* matter of SessionTurns.                                                 *)
(***************************************************************************)
EXTENDS Integers, FiniteSets

CONSTANTS Old,         \* the sessions there were before
          Connects,    \* requests to an existing session
          News,        \* requests for a new session
          Same,        \* those of them that are attempts with one client key
          Room,        \* agent_max_concurrent_sessions
          MaxPatrols,  \* bound: rounds of the patrol
          MaxExits,    \* bound: CLI processes that end by themselves
          MaxFailures, \* bound: awaited calls that fail
          MaxCrashes   \* bound: stops of the server

Requests == Connects \cup News
Sessions == Old \cup News
None == "none"

ASSUME RegistryAssumption ==
    /\ IsFiniteSet(Requests) /\ Connects \cap News = {} /\ Old \cap News = {} /\ Same \subseteq News
    /\ None \notin Requests \cup Sessions /\ "patrol" \notin Requests /\ "timer" \notin Requests
    /\ Room \in Nat \ {0} /\ {MaxPatrols, MaxExits, MaxFailures, MaxCrashes} \subseteq Nat

VARIABLES
    reg,      \* sessions: the process registered for each session
    temp,     \* the new sessions registered under their temporary id
    proc,     \* the process of each request, and whether its ManagedSession is running
    evicting, \* _disconnecting: who evicts the session
    victim,   \* the process that eviction ends
    strays,   \* history: processes an eviction of another one took from the registry
    lockOf,   \* _connect_locks: the number of the lock of each session, 0 for none
    held,     \* who holds which of the locks
    newLock,  \* who holds the lock of the client key
    logged,   \* the new sessions whose first message is in the event log
    setup,    \* what the inbox of a new session has done: row, log, id known
    req,      \* the requests
    patrol,   \* the sessions the patrol has still to look at, as it found them
    patrols, exits, failures, crashes \* used up of the bounds

vars == <<reg, temp, proc, evicting, victim, strays, lockOf, held, newLock, logged, setup, req,
          patrol, patrols, exits, failures, crashes>>
bounds == <<patrols, exits, failures, crashes>>
locks == <<lockOf, held, newLock>>
evictions == <<evicting, victim, strays>>

Evictors == Requests \cup {"patrol", "timer"}
Steps == {"find", "newlock", "lock", "retire", "capacity", "room", "build", "start", "use",
          "send", "join", "init", "cleanup"}
Over == {"accepted", "refused", "lost"}
LockNumbers == 1..(Cardinality(Requests) + 1)
HeldLocks == {<<q, s, g>> : q \in Requests, s \in Sessions, g \in LockNumbers}
\* "exited": the CLI and its actor are gone, the inbox has still to come to it.
\* "deaf": the inbox has failed and reads no more, whatever the CLI does.
Processes == [state : {"none", "starting", "up", "exited", "dead"}, runs : BOOLEAN, deaf : BOOLEAN]
Places == {"new", "evict"} \cup Steps \cup Over
RequestStates == [pc : Places, at : {None} \cup Sessions,
                  lock : Nat, got : {None} \cup Requests, back : {"build", "retire"}]

TypeOK ==
    /\ reg \in [Sessions -> {None} \cup Requests] /\ temp \subseteq News
    /\ proc \in [Requests -> Processes]
    /\ evicting \in [Sessions -> {None} \cup Evictors]
    /\ victim \in [Sessions -> {None} \cup Requests] /\ strays \subseteq Requests
    /\ lockOf \in [Sessions -> Nat]
    /\ held \subseteq HeldLocks /\ newLock \in {None} \cup Same
    /\ logged \subseteq News
    /\ setup \in [News -> {"none", "row", "log", "done", "failed"}]
    /\ req \in [Requests -> RequestStates]
    /\ patrol \subseteq Sessions \X Requests
    /\ patrols \in 0..MaxPatrols /\ exits \in 0..MaxExits
    /\ failures \in 0..MaxFailures /\ crashes \in 0..MaxCrashes

NoProc == [state |-> "none", runs |-> FALSE, deaf |-> FALSE]
NewRequest == [pc |-> "new", at |-> None, lock |-> 0, got |-> None, back |-> "build"]

Init ==
    /\ reg = [s \in Sessions |-> None] /\ temp = {} /\ proc = [q \in Requests |-> NoProc]
    /\ evicting = [s \in Sessions |-> None] /\ victim = [s \in Sessions |-> None] /\ strays = {}
    /\ lockOf = [s \in Sessions |-> 0] /\ held = {} /\ newLock = None
    /\ logged = {}
    /\ setup = [n \in News |-> "none"]
    /\ req = [q \in Requests |-> NewRequest]
    /\ patrol = {}
    /\ patrols = 0 /\ exits = 0 /\ failures = 0 /\ crashes = 0

Goto(q, pc) == req' = [req EXCEPT ![q].pc = pc]
\* The request ends and releases what it holds.
Finish(q, pc) ==
    /\ Goto(q, pc)
    /\ held' = {h \in held : h[1] # q}
    /\ newLock' = IF newLock = q THEN None ELSE newLock
Fails == failures < MaxFailures /\ failures' = failures + 1

Alive(q) == proc[q].state \in {"starting", "up"}
Running(s) == reg[s] # None /\ proc[reg[s]].runs
Active == {s \in Sessions : reg[s] # None /\ evicting[s] = None}
Residents == Cardinality(Active) + Cardinality(temp)
Locked(s, g) == \E q \in Requests : <<q, s, g>> \in held

\* setdefault of the lock of a session; numbers are not given out twice.
LockFor(s) == IF lockOf[s] # 0 THEN lockOf[s]
              ELSE CHOOSE g \in LockNumbers :
                      ~Locked(s, g) /\ \A q \in Requests : ~(req[q].at = s /\ req[q].lock = g)

\* The sessions a page may address: a new one when its request is over.
Known == Old \cup {req[n].at : n \in {m \in News : req[m].pc = "accepted" /\ req[req[m].at].pc \in Over}}

\* The session a process belongs to.
Session(q) == IF q \in News THEN q ELSE req[q].at

-----------------------------------------------------------------------------
(* get_or_connect *)

\* A resident session is used as it is, without the lock.
Usable(s) == reg[s] # None /\ evicting[s] = None /\ proc[reg[s]].state \notin {"exited", "dead"}

Ask(c) ==
    /\ req[c].pc = "new" /\ c \in Connects
    /\ \E s \in Known :
          IF Usable(s)
          THEN /\ req' = [req EXCEPT ![c].pc = "use", ![c].at = s, ![c].got = reg[s]]
               /\ UNCHANGED lockOf
          ELSE /\ req' = [req EXCEPT ![c].pc = "lock", ![c].at = s, ![c].lock = LockFor(s)]
               /\ lockOf' = [lockOf EXCEPT ![s] = LockFor(s)]
    /\ UNCHANGED <<reg, temp, proc, evictions, held, newLock, logged, setup, patrol, bounds>>

\* A lock an eviction has thrown away meanwhile is given back: wait for the current one.
TakeLock(c) ==
    LET s == req[c].at
        g == req[c].lock IN
    /\ req[c].pc = "lock" /\ ~Locked(s, g)
    /\ IF lockOf[s] = g
       THEN /\ Goto(c, "retire") /\ held' = held \cup {<<c, s, g>>} /\ UNCHANGED lockOf
       ELSE /\ req' = [req EXCEPT ![c].lock = LockFor(s)]
            /\ lockOf' = [lockOf EXCEPT ![s] = LockFor(s)] /\ UNCHANGED held
    /\ UNCHANGED <<reg, temp, proc, evictions, newLock, logged, setup, patrol, bounds>>

\* The start of _evict_one.
BeginEvict(e, s) ==
    /\ evicting' = [evicting EXCEPT ![s] = e] /\ victim' = [victim EXCEPT ![s] = reg[s]]
    /\ UNCHANGED strays

\* _retire_exited_session: wait for an eviction; when the CLI has ended, wait
\* for the inbox to come to its end and evict the session.
Retire(c) ==
    LET s == req[c].at IN
    /\ req[c].pc = "retire"
    /\ \/ /\ reg[s] = None
          /\ Goto(c, "capacity") /\ UNCHANGED <<evictions, held, newLock>>
       \/ /\ Usable(s)
          /\ req' = [req EXCEPT ![c].pc = "use", ![c].got = reg[s]]
          /\ held' = {h \in held : h[1] # c} /\ UNCHANGED <<evictions, newLock>>
       \/ /\ reg[s] # None /\ evicting[s] = None /\ proc[reg[s]].state = "dead"
          /\ BeginEvict(c, s)
          /\ req' = [req EXCEPT ![c].pc = "evict", ![c].back = "retire"] /\ UNCHANGED <<held, newLock>>
    /\ UNCHANGED <<reg, temp, proc, lockOf, logged, setup, patrol, bounds>>

\* _ensure_capacity awaits the limit, then looks once: there is room, or an
\* idle session makes room, or the request is refused.
ReadLimit(q) ==
    /\ req[q].pc = "capacity" /\ Goto(q, "room")
    /\ UNCHANGED <<reg, temp, proc, evictions, locks, logged, setup, patrol, bounds>>

\* Mutant: a running session makes room.
MakeRoomByForce(q) ==
    /\ req[q].pc = "room"
    /\ \/ Residents < Room /\ Goto(q, "build") /\ UNCHANGED <<evictions, held, newLock>>
       \/ /\ Residents >= Room
          /\ \E s \in Active : BeginEvict(q, s)
          /\ req' = [req EXCEPT ![q].pc = "evict", ![q].back = "build"] /\ UNCHANGED <<held, newLock>>
    /\ UNCHANGED <<reg, temp, proc, lockOf, logged, setup, patrol, bounds>>

MakeRoom(q) ==
    /\ req[q].pc = "room"
    /\ \/ Residents < Room /\ Goto(q, "build") /\ UNCHANGED <<evictions, held, newLock>>
       \/ /\ Residents >= Room
          /\ \E s \in Active : ~Running(s) /\ BeginEvict(q, s)
          /\ req' = [req EXCEPT ![q].pc = "evict", ![q].back = "build"] /\ UNCHANGED <<held, newLock>>
       \/ /\ Residents >= Room /\ \A s \in Active : Running(s)
          /\ Finish(q, "refused") /\ UNCHANGED evictions
    /\ UNCHANGED <<reg, temp, proc, lockOf, logged, setup, patrol, bounds>>

\* The options are built, the session is registered, its CLI starts.  A new
\* session runs; a resumed one runs if its row said so when it was read.
Register(q) ==
    /\ req[q].pc = "build"
    /\ \/ /\ IF q \in News THEN temp' = temp \cup {q} /\ UNCHANGED reg
                             ELSE reg' = [reg EXCEPT ![req[q].at] = q] /\ UNCHANGED temp
          /\ \E runs \in BOOLEAN :
                /\ q \in News => runs
                /\ proc' = [proc EXCEPT ![q] = [state |-> "starting", runs |-> runs, deaf |-> FALSE]]
          /\ Goto(q, "start") /\ UNCHANGED <<held, newLock, bounds>>
       \/ Fails /\ Finish(q, "refused") /\ UNCHANGED <<reg, temp, proc, patrols, exits, crashes>>
    /\ UNCHANGED <<evictions, lockOf, logged, setup, patrol>>

\* actor.start returns, for an evicted session as well, or raises.
Started(q) ==
    /\ req[q].pc = "start"
    /\ \/ /\ proc' = [proc EXCEPT ![q].state = IF @ = "starting" THEN "up" ELSE @]
          /\ UNCHANGED <<reg, temp, bounds>>
          /\ IF q \in News
             THEN Goto(q, "init") /\ UNCHANGED <<held, newLock>>
             ELSE /\ req' = [req EXCEPT ![q].pc = "use", ![q].got = q]
                  /\ held' = {h \in held : h[1] # q} /\ UNCHANGED newLock
       \/ /\ Fails /\ UNCHANGED <<patrols, exits, crashes>>
          /\ proc[q].state = "starting" /\ proc' = [proc EXCEPT ![q].state = "dead"]
          /\ IF q \in News THEN temp' = temp \ {q} /\ UNCHANGED reg
                            ELSE reg' = [reg EXCEPT ![req[q].at] = None] /\ UNCHANGED temp
          /\ Finish(q, "refused")
    /\ UNCHANGED <<evictions, lockOf, logged, setup, patrol>>

-----------------------------------------------------------------------------
(* send_message, to the session object the request got, under its send_lock *)

Sending == {"send", "join"}
SendLocked(p) == \E d \in Connects : req[d].pc \in Sending /\ req[d].got = p

\* The session runs from here on, before its row is written; what fails
\* later depends on whether it ran before ("join") or not ("send").
Send(c) ==
    LET p == req[c].got IN
    /\ req[c].pc = "use" /\ ~SendLocked(p)
    /\ Goto(c, IF proc[p].runs THEN "join" ELSE "send")
    /\ proc' = [proc EXCEPT ![p].runs = TRUE]
    /\ UNCHANGED <<reg, temp, evictions, locks, logged, setup, patrol, bounds>>

\* The row is written, the session is still the registered one, and its
\* actor takes the message once it has started.
Delivered(c) ==
    LET p == req[c].got IN
    /\ req[c].pc \in Sending /\ reg[req[c].at] = p /\ proc[p].state = "up"
    /\ Finish(c, "accepted")
    /\ UNCHANGED <<reg, temp, proc, evictions, lockOf, logged, setup, patrol, bounds>>

\* A delivery that fails leaves a turn that was under way to the inbox, and a
\* session that is evicted to the eviction; otherwise it settles the session.
Settles(c) ==
    LET s == req[c].at
        p == req[c].got IN
    proc' = [proc EXCEPT ![p].runs = @ /\ ~(req[c].pc = "send" /\ reg[s] = p /\ evicting[s] = None)]

\* The session was replaced or evicted meanwhile, or its actor ended.
Undelivered(c) ==
    LET s == req[c].at
        p == req[c].got IN
    /\ req[c].pc \in Sending
    /\ \/ reg[s] # p
       \/ proc[p].state # "starting" /\ (evicting[s] # None \/ proc[p].state # "up")
    /\ Settles(c) /\ Finish(c, "refused")
    /\ UNCHANGED <<reg, temp, evictions, lockOf, logged, setup, patrol, bounds>>

\* update_status raises.
WriteFails(c) ==
    /\ req[c].pc \in Sending
    /\ Fails /\ Settles(c) /\ Finish(c, "refused")
    /\ UNCHANGED <<reg, temp, evictions, lockOf, logged, setup, patrol, patrols, exits, crashes>>

-----------------------------------------------------------------------------
(* A new session: send_or_create, send_new_session and the inbox *)

Answered(n) == n \in Same /\ logged \cap Same # {}

\* A request without a client key goes on at once.
BeginNew(n) ==
    /\ req[n].pc = "new" /\ n \in News
    /\ Goto(n, IF n \in Same THEN "find" ELSE "capacity")
    /\ UNCHANGED <<reg, temp, proc, evictions, locks, logged, setup, patrol, bounds>>

\* A session that has the first message with this key is the answer.
Find(n) ==
    /\ req[n].pc = "find"
    /\ IF Answered(n)
       THEN req' = [req EXCEPT ![n].pc = "accepted", ![n].at = CHOOSE m \in logged \cap Same : TRUE]
       ELSE Goto(n, "newlock")
    /\ UNCHANGED <<reg, temp, proc, evictions, locks, logged, setup, patrol, bounds>>

\* Mutant: who waited for the lock of the key does not look again.
TakeNewLockBlindly(n) ==
    /\ req[n].pc = "newlock" /\ newLock = None
    /\ Goto(n, "capacity") /\ newLock' = n
    /\ UNCHANGED <<reg, temp, proc, evictions, lockOf, held, logged, setup, patrol, bounds>>

\* Attempts wait for each other, and look again.
TakeNewLock(n) ==
    /\ req[n].pc = "newlock" /\ newLock = None
    /\ IF Answered(n)
       THEN /\ req' = [req EXCEPT ![n].pc = "accepted", ![n].at = CHOOSE m \in logged \cap Same : TRUE]
            /\ UNCHANGED newLock
       ELSE Goto(n, "capacity") /\ newLock' = n
    /\ UNCHANGED <<reg, temp, proc, evictions, lockOf, held, logged, setup, patrol, bounds>>

\* The session is registered under its real id, whatever is registered there.
Rename(n) == IF n \in temp THEN reg' = [reg EXCEPT ![n] = n] /\ temp' = temp \ {n}
                           ELSE UNCHANGED <<reg, temp>>

\* _on_sdk_session_id_received in the inbox: the row, the first message, and
\* then the waiting request is told.  A message that cannot be written fails it.
CreateRow(n) ==
    /\ setup[n] = "none" /\ proc[n].state \in {"up", "exited"} /\ ~proc[n].deaf /\ req[n].pc \in {"init", "cleanup"}
    /\ setup' = [setup EXCEPT ![n] = "row"]
    /\ UNCHANGED <<reg, temp, proc, evictions, locks, logged, req, patrol, bounds>>

LogFirst(n) ==
    /\ setup[n] = "row" /\ req[n].pc \in {"init", "cleanup"}
    /\ \/ logged' = logged \cup {n} /\ setup' = [setup EXCEPT ![n] = "log"] /\ UNCHANGED <<reg, temp, bounds>>
       \/ Fails /\ setup' = [setup EXCEPT ![n] = "failed"] /\ Rename(n) /\ UNCHANGED <<logged, patrols, exits, crashes>>
    /\ UNCHANGED <<proc, evictions, locks, req, patrol>>

TellId(n) ==
    /\ setup[n] = "log" /\ req[n].pc \in {"init", "cleanup"}
    /\ setup' = [setup EXCEPT ![n] = "done"] /\ Rename(n)
    /\ UNCHANGED <<proc, evictions, locks, logged, req, patrol, bounds>>

\* The request wakes up: accepted, or it cleans up after a failure, the end of
\* the CLI or sdk_id_timeout.
Wake(n) ==
    /\ req[n].pc = "init"
    /\ \/ /\ setup[n] = "done" /\ req' = [req EXCEPT ![n].pc = "accepted", ![n].at = n]
          /\ newLock' = (IF newLock = n THEN None ELSE newLock) /\ UNCHANGED <<reg, temp, proc>>
       \/ /\ setup[n] # "done"
          /\ Goto(n, "cleanup") /\ temp' = temp \ {n}
          /\ reg' = IF setup[n] = "failed" THEN [reg EXCEPT ![n] = None] ELSE reg
          /\ proc' = [proc EXCEPT ![n].runs = @ /\ setup[n] # "failed"]
          /\ UNCHANGED newLock
    /\ UNCHANGED <<evictions, lockOf, held, logged, setup, patrol, bounds>>

\* _cleanup_on_error: the CLI is disconnected and the inbox cancelled.
Cleanup(n) ==
    /\ req[n].pc = "cleanup"
    /\ proc' = [proc EXCEPT ![n].state = "dead", ![n].runs = FALSE]
    /\ Finish(n, "refused")
    /\ UNCHANGED <<reg, temp, evictions, lockOf, logged, setup, patrol, bounds>>

-----------------------------------------------------------------------------
(* Evictions *)

\* The actor executes the disconnect, or is cancelled when that takes too long.
Disconnect(s) ==
    LET p == victim[s] IN
    /\ evicting[s] # None /\ proc[p].state \in {"starting", "up"}
    /\ proc' = [proc EXCEPT ![p].state = "exited"]
    /\ UNCHANGED <<reg, temp, evictions, locks, logged, setup, req, patrol, bounds>>

\* The session leaves the registry, whatever is registered by now, and its
\* lock with it unless somebody holds it.
LeaveRegistry(s) ==
    LET e == evicting[s] IN
    /\ proc' = [proc EXCEPT ![victim[s]].runs = FALSE]
    /\ reg' = [reg EXCEPT ![s] = None]
    /\ strays' = strays \cup ({reg[s]} \ {None, victim[s]})
    /\ lockOf' = IF lockOf[s] # 0 /\ ~Locked(s, lockOf[s]) THEN [lockOf EXCEPT ![s] = 0] ELSE lockOf
    /\ evicting' = [evicting EXCEPT ![s] = None] /\ victim' = [victim EXCEPT ![s] = None]
    /\ req' = IF e \in Requests THEN [req EXCEPT ![e].pc = req[e].back] ELSE req
    /\ UNCHANGED <<temp, held, newLock, logged, setup, patrol, bounds>>

\* Mutant: an eviction does not wait for the end of the CLI.
EndEvictLeavesCli(s) == evicting[s] # None /\ LeaveRegistry(s)
\* The end of _evict_one: the CLI is gone and the inbox at its end, unless
\* the request that starts the session has still to create it.
EndEvict(s) ==
    LET p == victim[s] IN
    /\ evicting[s] # None
    /\ proc[p].state = "dead" \/ (proc[p].state = "exited" /\ req[p].pc = "start")
    /\ LeaveRegistry(s)

\* _cleanup_idle, when the timer of a session that does not run is up.
TimerEvicts(s) ==
    /\ s \in Active /\ ~Running(s) /\ proc[reg[s]].state # "starting"
    /\ BeginEvict("timer", s)
    /\ UNCHANGED <<reg, temp, proc, locks, logged, setup, req, patrol, bounds>>

\* _patrol_once: the resident sessions are listed once ...
PatrolLists ==
    /\ patrol = {} /\ patrols < MaxPatrols /\ patrols' = patrols + 1
    /\ ~\E s \in Sessions : evicting[s] = "patrol"
    /\ patrol' = {<<s, reg[s]>> : s \in {t \in Sessions : reg[t] # None}}
    /\ UNCHANGED <<reg, temp, proc, evictions, locks, logged, setup, req, exits, failures, crashes>>

\* ... and each is looked at when the patrol comes to it: the status is the
\* one of the listed object, the object evicted the one registered now.
PatrolLooks ==
    /\ ~\E s \in Sessions : evicting[s] = "patrol"
    /\ \E e \in patrol :
          LET s == e[1]
              p == e[2] IN
          /\ patrol' = patrol \ {e}
          /\ IF proc[p].runs \/ evicting[s] # None \/ reg[s] = None
             THEN UNCHANGED evictions
             ELSE BeginEvict("patrol", s)
    /\ UNCHANGED <<reg, temp, proc, locks, logged, setup, req, bounds>>

-----------------------------------------------------------------------------
(* The CLI processes and the server *)

\* The CLI is idle, or begins a turn of its own.
TurnEnds(q) ==
    /\ proc[q].state = "up" /\ proc[q].runs /\ ~proc[q].deaf
    /\ reg[Session(q)] = q
    /\ proc' = [proc EXCEPT ![q].runs = FALSE]
    /\ UNCHANGED <<reg, temp, evictions, locks, logged, setup, req, patrol, bounds>>

TurnBegins(q) ==
    /\ proc[q].state = "up" /\ ~proc[q].runs /\ ~proc[q].deaf
    /\ proc' = [proc EXCEPT ![q].runs = TRUE]
    /\ UNCHANGED <<reg, temp, evictions, locks, logged, setup, req, patrol, bounds>>

\* A CLI process ends by itself ...
Exit(q) ==
    /\ exits < MaxExits /\ exits' = exits + 1
    /\ proc[q].state = "up" /\ proc' = [proc EXCEPT ![q].state = "exited"]
    /\ UNCHANGED <<reg, temp, evictions, locks, logged, setup, req, patrol, patrols, failures, crashes>>

\* The inbox fails while the CLI goes on: it writes a terminal status and stops.
InboxFails(q) ==
    /\ Fails /\ UNCHANGED <<patrols, exits, crashes>>
    /\ proc[q].state = "up" /\ ~proc[q].deaf /\ req[q].pc # "start"
    /\ q \in News => setup[q] \notin {"row", "log"}
    /\ proc' = [proc EXCEPT ![q].deaf = TRUE, ![q].runs = FALSE]
    /\ UNCHANGED <<reg, temp, evictions, locks, logged, setup, req, patrol>>

\* Mutant: the inbox ends without a look at the status.
SettleNothing(q) ==
    /\ proc[q].state = "exited" /\ req[q].pc # "start"
    /\ q \in News => setup[q] \notin {"row", "log"}
    /\ proc' = [proc EXCEPT ![q].state = "dead"]
    /\ UNCHANGED <<reg, temp, evictions, locks, logged, setup, req, patrol, bounds>>
\* ... and the inbox, when it has done what came before, settles the status.
Settle(q) ==
    /\ proc[q].state = "exited" /\ req[q].pc # "start"
    /\ q \in News => setup[q] \notin {"row", "log"}
    /\ proc' = [proc EXCEPT ![q].state = "dead", ![q].runs = @ /\ proc[q].deaf]
    /\ UNCHANGED <<reg, temp, evictions, locks, logged, setup, req, patrol, bounds>>

\* The server stops and starts again.
Crash ==
    /\ crashes < MaxCrashes /\ crashes' = crashes + 1
    /\ reg' = [s \in Sessions |-> None] /\ temp' = {}
    /\ evicting' = [s \in Sessions |-> None] /\ victim' = [s \in Sessions |-> None]
    /\ proc' = [q \in Requests |-> IF proc[q].state = "none" THEN proc[q]
                                ELSE [state |-> "dead", runs |-> FALSE, deaf |-> FALSE]]
    /\ lockOf' = [s \in Sessions |-> 0] /\ held' = {} /\ newLock' = None /\ patrol' = {}
    /\ req' = [q \in Requests |-> IF req[q].pc \in {"new"} \cup Over THEN req[q] ELSE [req[q] EXCEPT !.pc = "lost"]]
    /\ UNCHANGED <<strays, logged, setup, patrols, exits, failures>>

Connecting(c) == Ask(c) \/ TakeLock(c) \/ Retire(c)
Delivering(c) == Send(c) \/ Delivered(c) \/ Undelivered(c) \/ WriteFails(c)
Creating(n) == BeginNew(n) \/ Find(n) \/ TakeNewLock(n) \/ Wake(n) \/ Cleanup(n)
Opening(q) == ReadLimit(q) \/ MakeRoom(q) \/ Register(q) \/ Started(q)
Inbox(n) == CreateRow(n) \/ LogFirst(n) \/ TellId(n)
Working(q) == TurnEnds(q) \/ TurnBegins(q) \/ Exit(q) \/ Settle(q) \/ InboxFails(q)

Done == (\A q \in Requests : req[q].pc \in {"new"} \cup Over) /\ UNCHANGED vars

Next ==
    \/ \E c \in Connects : Connecting(c) \/ Delivering(c)
    \/ \E n \in News : Creating(n) \/ Inbox(n)
    \/ \E q \in Requests : Opening(q) \/ Working(q)
    \/ \E s \in Sessions : TimerEvicts(s) \/ Disconnect(s) \/ EndEvict(s)
    \/ PatrolLists \/ PatrolLooks \/ Crash \/ Done

Spec == Init /\ [][Next]_vars

-----------------------------------------------------------------------------
(* Properties *)

\* A session has one CLI process at most: whoever connects, evicts or waits
\* for a lock that is gone, two processes never write one transcript.  Exempt
\* is a process that an eviction of another one took from the registry.
OneProcess ==
    \A q, p \in Requests \ strays :
        Alive(q) /\ Alive(p) /\ Session(q) = Session(p) => q = p

\* A process nobody can reach does not go on: it is registered, or the
\* request that started it is about to end it.
NoLostProcess ==
    \A q \in Requests \ strays :
        Alive(q) => reg[Session(q)] = q \/ q \in temp \/ req[q].pc = "cleanup"

\* The first message with a client key is in one new session, through
\* retries, failures and stops of the server.
LoggedOnce == Cardinality(logged \cap Same) <= 1

\* A request for a new session is accepted only with its message in the log.
AcceptedIsLogged ==
    \A n \in News : req[n].pc = "accepted" => req[n].at \in logged

\* Neither a timer nor a request that needs room evicts a session that runs
\* and has its CLI, although other requests come between choice and deed.
SparesRunning ==
    [][\A s \in Sessions :
          evicting[s] = None /\ evicting'[s] \notin {None, "patrol"} => ~(Running(s) /\ Alive(reg[s]))]_vars

\* A session that runs and whose CLI and inbox are gone is being evicted, or
\* a delivery is about to fail on it and to settle it: no resident session is
\* kept from making room by a turn that nothing will end.  Exempt is a session
\* whose inbox has failed: a message to it runs for good.
RunningIsServed ==
    \A s \in Sessions :
        Running(s) /\ proc[reg[s]].state = "dead" /\ ~proc[reg[s]].deaf =>
            evicting[s] # None \/ \E c \in Connects : req[c].pc = "send" /\ req[c].got = reg[s]

(* A session has one process, and every process is known to the registry.   *)
ProcessesAreKnown == TypeOK /\ OneProcess /\ NoLostProcess

(* What the log and the registry say of a session is so: an accepted        *)
(* message is logged, once, and what counts as running can still end.       *)
RecordsAreTrue == LoggedOnce /\ AcceptedIsLogged /\ RunningIsServed
=============================================================================
