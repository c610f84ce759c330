--------------------------- MODULE QueuedMessages ---------------------------
(***************************************************************************)
(* The queued messages of one session of the assistant                     *)
(* (server/agent_runtime/session_manager.py).  A message sent to the CLI    *)
(* stays in the tray until the CLI takes it into a turn; until then the    *)
(* user may edit, delete or hurry it, the CLI may drop it when a hurried   *)
(* message interrupts its turn, and when the CLI exits it is kept as       *)
(* unsent and may be sent again over a new connection.                     *)
(*                                                                         *)
(* Two coroutines deliver messages under the send lock: the request of the *)
(* user, of which service.py admits one at a time, and the inbox.  Each    *)
(* delivery of a message carries a uuid of its own, the pair of the        *)
(* message and the number of the delivery; the frames of the CLI speak of  *)
(* uuids.  A step is what the event loop runs between two awaits.          *)
(***************************************************************************)
EXTENDS Integers, Sequences, FiniteSets, SequencesExt

CONSTANTS Keys,        \* client keys: a retry of a message has the key of the message
          MaxMessages, \* bound: QueuedMessage objects
          MaxRequests, \* bound: requests of the user
          Requests,    \* what the user asks for, of Operations
          MaxExits,    \* bound: CLI processes that end
          MaxRefusals, \* bound: messages the CLI drops unasked
          MaxFailedWrites  \* bound: writes of the status and connections that fail

Operations == {"send", "edit", "delete", "send_now", "resend"}

ASSUME TrayAssumption ==
    /\ Keys # {}
    /\ Requests \subseteq Operations
    /\ {MaxMessages, MaxRequests, MaxExits, MaxRefusals, MaxFailedWrites} \subseteq Nat

Ids == 1..MaxMessages
Uuids == Ids \X Nat
Procs == {"user", "inbox"}
None == 0
Intents == {"none", "edit", "delete", "send_now"}
Ends == {"started", "cancelled", "refused"}

VARIABLES
    msg,      \* QueuedMessage
    keys,     \* sent_client_keys
    known,    \* the messages in sent_message_entries
    hurried,  \* now_messages_in_flight
    log,      \* the user entries in the event log
    shown,    \* the tray on the page, as the broadcasts leave it
    session,  \* is it in the registry, has its actor exited, is it being evicted
    cli,      \* its queue, what it took into its turn, and the frames it wrote
    commands, \* the queue of the actor
    lock,     \* send_lock: the holder, then who waits
    deliver,  \* _deliver_queued_message of each coroutine
    user,     \* the request under way
    inbox,    \* _process_inbox
    entered,  \* the uuids the CLI ever took into a turn
    told,     \* what the user was told last of each message
    requests, exits, refusals, failures \* used up of the bounds

messageVars == <<msg, keys, known, hurried, log, shown, session, cli, commands, lock, deliver,
                 user, inbox, entered, told, requests, exits, refusals, failures>>
bounds == <<requests, exits, refusals, failures>>

MessageState == [key : Keys, place : {"unused", "tray", "left"}, state : {"queued", "unsent"},
                 n : Nat, intent : Intents, withdrawn : BOOLEAN]
SessionState == [live : BOOLEAN, exited : BOOLEAN, evicting : BOOLEAN]
CliFrame == [uuid : Uuids, kind : Ends]
CliState == [held : SUBSET Uuids, turn : SUBSET Uuids, out : Seq(CliFrame)]
Command == [by : Procs, kind : {"query", "cancel"}, uuid : Uuids]
Delivery == [pc : {"off", "wait", "write", "query", "failed"}, how : {"send", "redeliver", "resend"},
             id : {None} \cup Ids, now : BOOLEAN]
UserState == [pc : {"off", "lookback", "look", "reconnect", "cancel", "asked", "answered", "deliver"},
              op : {"none"} \cup Operations, id : {None} \cup Ids, key : Keys,
              n : Nat, reply : {"none", "cancelled", "kept", "error"}]
InboxNotice == [kind : Ends \cup {"exit"}, uuid : {<<None, 0>>} \cup Uuids, preempted : BOOLEAN]
InboxWork == [pc : {"get", "log", "deliver", "done"}, queue : Seq(InboxNotice), id : {None} \cup Ids]

MessagesTypeOK ==
    /\ msg \in [Ids -> MessageState]
    /\ keys \in [Keys -> {None} \cup Ids]
    /\ known \subseteq Ids /\ shown \subseteq Ids
    /\ hurried \subseteq Uuids /\ entered \subseteq Uuids
    /\ log \in Seq(Ids)
    /\ session \in SessionState
    /\ cli \in CliState
    /\ commands \in Seq(Command)
    /\ lock \in Seq(Procs) /\ Len(lock) <= 2
    /\ deliver \in [Procs -> Delivery]
    /\ user \in UserState
    /\ inbox \in InboxWork
    /\ told \in [Ids -> {"none", "withdrawn", "accepted", "sent"}]
    /\ requests \in 0..MaxRequests /\ exits \in 0..MaxExits
    /\ refusals \in 0..MaxRefusals /\ failures \in 0..MaxFailedWrites

NoUser == [pc |-> "off", op |-> "none", id |-> None, key |-> CHOOSE k \in Keys : TRUE,
           n |-> 0, reply |-> "none"]
NoDelivery == [pc |-> "off", how |-> "send", id |-> None, now |-> FALSE]
Fresh == [held |-> {}, turn |-> {}, out |-> <<>>]

MessagesInit ==
    /\ msg = [o \in Ids |-> [key |-> NoUser.key, place |-> "unused", state |-> "queued", n |-> 0,
                             intent |-> "none", withdrawn |-> FALSE]]
    /\ keys = [k \in Keys |-> None]
    /\ known = {} /\ hurried = {} /\ log = <<>> /\ shown = {}
    /\ session = [live |-> TRUE, exited |-> FALSE, evicting |-> FALSE]
    /\ cli = Fresh
    /\ commands = <<>> /\ lock = <<>>
    /\ deliver = [p \in Procs |-> NoDelivery]
    /\ user = NoUser
    /\ inbox = [pc |-> "get", queue |-> <<>>, id |-> None]
    /\ entered = {}
    /\ told = [o \in Ids |-> "none"]
    /\ requests = 0 /\ exits = 0 /\ refusals = 0 /\ failures = 0

Uuid(o) == <<o, msg[o].n>>
Tray == {o \in Ids : msg[o].place = "tray"}
InLog(k) == \E i \in DOMAIN log : msg[log[i]].key = k

\* discard_queued_message of every message of a set: out of the tray, its key is free.
Discard(gone, ms) ==
    /\ msg' = [o \in Ids |-> IF o \in gone THEN [ms[o] EXCEPT !.place = "left"] ELSE ms[o]]
    /\ keys' = [k \in Keys |-> IF keys[k] \in gone THEN None ELSE keys[k]]
    /\ shown' = shown \ gone

\* withdraw_queued_message of ManagedSession: once, and only out of the tray.
Withdraw(o) ==
    IF o \in Tray THEN Discard({o}, [msg EXCEPT ![o].withdrawn = TRUE])
                  ELSE UNCHANGED <<msg, keys, shown>>

\* mark_queued_messages_unsent
Unsent(ms) ==
    [o \in Ids |-> IF ms[o].place = "tray" /\ ms[o].state = "queued"
                   THEN [ms[o] EXCEPT !.state = "unsent", !.intent = "none"] ELSE ms[o]]

Queue(p) == lock' = Append(lock, p)
Holds(p) == lock # <<>> /\ Head(lock) = p
Release == lock' = Tail(lock)

-----------------------------------------------------------------------------
(* _deliver_queued_message, for either coroutine. *)

\* What the coroutine does when its delivery is over.
Return(p, answer) ==
    IF p = "user"
    THEN user' = NoUser /\ told' = [o \in Ids |-> IF o = user.id THEN answer ELSE told[o]] /\ UNCHANGED inbox
    ELSE inbox' = [inbox EXCEPT !.pc = "get", !.id = None] /\ UNCHANGED <<user, told>>

\* _redeliver_after_cancel: the message gets a new uuid, then the coroutine queues for the lock.
Redelivers(p, o, now) ==
    /\ msg' = [msg EXCEPT ![o].n = @ + 1, ![o].intent = "none"]
    /\ deliver' = [deliver EXCEPT ![p] = [pc |-> "wait", how |-> "redeliver", id |-> o, now |-> now]]
    /\ Queue(p)

\* With the lock: a message of the tray is announced and on its way.
BeginRedelivery(p) ==
    LET d == deliver[p] IN
    /\ d.pc = "wait" /\ d.how = "redeliver" /\ Holds(p)
    /\ IF d.id \in Tray
       THEN /\ hurried' = IF d.now THEN hurried \cup {Uuid(d.id)} ELSE hurried
            /\ shown' = shown \cup {d.id}
            /\ deliver' = [deliver EXCEPT ![p].pc = "write"]
            /\ UNCHANGED <<lock, user, inbox, told>>
       ELSE /\ deliver' = [deliver EXCEPT ![p] = NoDelivery]
            /\ Release /\ Return(p, "sent")
            /\ UNCHANGED <<hurried, shown>>
    /\ UNCHANGED <<msg, keys, known, log, session, cli, commands, entered, bounds>>

\* resend_queued_message, with the lock.
BeginResend(p) ==
    LET d == deliver[p] IN
    /\ d.pc = "wait" /\ d.how = "resend" /\ Holds(p)
    /\ IF d.id \in Tray /\ msg[d.id].state = "unsent"
       THEN /\ msg' = [msg EXCEPT ![d.id].state = "queued", ![d.id].n = @ + 1]
            /\ shown' = shown \cup {d.id}
            /\ known' = known \cup {d.id}
            /\ deliver' = [deliver EXCEPT ![p].pc = "write"]
            /\ UNCHANGED <<lock, user, inbox, told>>
       ELSE /\ deliver' = [deliver EXCEPT ![p] = NoDelivery]
            /\ Release /\ Return(p, told[d.id])
            /\ UNCHANGED <<msg, known, shown>>
    /\ UNCHANGED <<keys, hurried, log, session, cli, commands, entered, bounds>>

\* on_failure: a new message leaves the tray, any other is unsent.
OnFailure(p) ==
    LET d == deliver[p] IN
    /\ IF d.how = "send"
       THEN Discard({d.id} \cap Tray, msg) /\ UNCHANGED hurried
       ELSE /\ msg' = [msg EXCEPT ![d.id].state = "unsent"]
            /\ shown' = shown \cup {d.id}
            /\ hurried' = hurried \ {Uuid(d.id)}
            /\ UNCHANGED keys
    /\ deliver' = [deliver EXCEPT ![p] = NoDelivery]
    /\ Release
    /\ Return(p, "none")

\* "running" is written: the query goes to the actor, which may have exited.  If
\* the session was evicted meanwhile its status is written once more.
Written(p) ==
    LET d == deliver[p] IN
    /\ d.pc = "write"
    /\ IF session.live /\ session.exited
       THEN OnFailure(p) /\ UNCHANGED commands
       ELSE /\ IF session.live
               THEN commands' = Append(commands, [by |-> p, kind |-> "query", uuid |-> Uuid(d.id)])
               ELSE UNCHANGED commands
            /\ deliver' = [deliver EXCEPT ![p].pc = IF session.live THEN "query" ELSE "failed"]
            /\ UNCHANGED <<msg, keys, hurried, shown, lock, user, inbox, told>>
    /\ UNCHANGED <<known, log, session, cli, entered, bounds>>

\* The write fails.
WriteFails(p) ==
    /\ deliver[p].pc = "write"
    /\ failures < MaxFailedWrites /\ failures' = failures + 1
    /\ OnFailure(p)
    /\ UNCHANGED <<known, log, session, cli, commands, entered, requests, exits, refusals>>

\* The query is answered with an error, or the status is written once more.
DeliveryFailed(p) ==
    /\ deliver[p].pc = "failed"
    /\ OnFailure(p)
    /\ UNCHANGED <<known, log, session, cli, commands, entered, bounds>>

-----------------------------------------------------------------------------
(* Requests of the user. *)

Answer(o, answer) == user' = NoUser /\ told' = [told EXCEPT ![o] = answer]

\* send_message: the duplicate is looked for under the send lock.
AskSend(k) ==
    /\ user.pc = "off" /\ "send" \in Requests /\ \E o \in Ids : msg[o].place = "unused"
    /\ requests < MaxRequests /\ requests' = requests + 1
    /\ LET pc == IF session.live /\ session.exited THEN "lookback"
                 ELSE IF session.live /\ ~session.evicting THEN "look" ELSE "reconnect" IN
       /\ user' = [NoUser EXCEPT !.pc = pc, !.op = "send", !.key = k]
       /\ IF pc = "reconnect" THEN UNCHANGED lock ELSE Queue("user")
    /\ UNCHANGED <<msg, keys, known, hurried, log, shown, session, cli, commands, deliver, inbox, entered, told,
                   exits, refusals, failures>>

\* _find_sent_message: in the tray, in the log, or accepted but not recorded.
Accepted(k) == keys[k] # None \/ InLog(k)

\* A message already accepted is not sent again.
Repeated ==
    /\ user.pc \in {"lookback", "look"} /\ Holds("user") /\ Accepted(user.key)
    /\ user' = NoUser /\ Release
    /\ UNCHANGED <<msg, keys, known, hurried, log, shown, session, cli, commands, deliver, inbox, entered, told, bounds>>

\* The actor has exited: the session is connected anew first.
LookFirst ==
    /\ user.pc = "lookback" /\ Holds("user") /\ ~Accepted(user.key)
    /\ user' = [user EXCEPT !.pc = "reconnect"] /\ Release
    /\ UNCHANGED <<msg, keys, known, hurried, log, shown, session, cli, commands, deliver, inbox, entered, told, bounds>>

\* A new message joins the tray.
EnqueueMessage(o) ==
    /\ user.pc = "look" /\ Holds("user") /\ ~Accepted(user.key)
    /\ msg[o].place = "unused" /\ \A older \in 1..(o - 1) : msg[older].place # "unused"
    /\ msg' = [msg EXCEPT ![o].place = "tray", ![o].key = user.key]
    /\ keys' = [keys EXCEPT ![user.key] = o]
    /\ known' = known \cup {o} /\ shown' = shown \cup {o}
    /\ deliver' = [deliver EXCEPT !["user"] = [pc |-> "write", how |-> "send", id |-> o, now |-> FALSE]]
    /\ user' = [user EXCEPT !.pc = "deliver", !.id = o]
    /\ UNCHANGED <<hurried, log, session, cli, commands, lock, inbox, entered, told, bounds>>

\* Mutant: the keys are not adopted.
ReconnectForgets ==
    /\ user.pc = "reconnect" /\ ~session.evicting
    /\ ~session.live \/ (session.exited /\ inbox.pc = "done")
    /\ IF session.live
       THEN msg' = Unsent(msg) /\ keys' = [k \in Keys |-> None] /\ UNCHANGED known
       ELSE keys' = [k \in Keys |-> None] /\ known' = {} /\ UNCHANGED msg
    /\ session' = [live |-> TRUE, exited |-> FALSE, evicting |-> FALSE]
    /\ cli' = Fresh /\ hurried' = {} /\ commands' = <<>>
    /\ inbox' = [pc |-> "get", queue |-> <<>>, id |-> None]
    /\ IF user.op = "send"
       THEN user' = [user EXCEPT !.pc = "look"] /\ UNCHANGED deliver
       ELSE /\ user' = [user EXCEPT !.pc = "deliver"]
            /\ deliver' = [deliver EXCEPT !["user"] =
                               [pc |-> "wait", how |-> "resend", id |-> user.id, now |-> FALSE]]
    /\ Queue("user")
    /\ UNCHANGED <<log, shown, entered, told, bounds>>
\* get_or_connect: what is left in the tray of an actor that exited moves to the
\* new connection; what was evicted is forgotten.
Reconnect ==
    /\ user.pc = "reconnect" /\ ~session.evicting
    /\ ~session.live \/ (session.exited /\ inbox.pc = "done")
    /\ IF session.live
       THEN msg' = Unsent(msg) /\ UNCHANGED <<keys, known>>
       ELSE keys' = [k \in Keys |-> None] /\ known' = {} /\ UNCHANGED msg
    /\ session' = [live |-> TRUE, exited |-> FALSE, evicting |-> FALSE]
    /\ cli' = Fresh /\ hurried' = {} /\ commands' = <<>>
    /\ inbox' = [pc |-> "get", queue |-> <<>>, id |-> None]
    /\ IF user.op = "send"
       THEN user' = [user EXCEPT !.pc = "look"] /\ UNCHANGED deliver
       ELSE /\ user' = [user EXCEPT !.pc = "deliver"]
            /\ deliver' = [deliver EXCEPT !["user"] =
                               [pc |-> "wait", how |-> "resend", id |-> user.id, now |-> FALSE]]
    /\ Queue("user")
    /\ UNCHANGED <<log, shown, entered, told, bounds>>

\* It cannot be made: what was moved out of the old connection leaves the tray.
ReconnectFails ==
    /\ user.pc = "reconnect" /\ ~session.evicting
    /\ ~session.live \/ (session.exited /\ inbox.pc = "done")
    /\ failures < MaxFailedWrites /\ failures' = failures + 1
    /\ Discard(Tray, msg)
    /\ session' = [session EXCEPT !.live = FALSE]
    /\ user' = NoUser
    /\ UNCHANGED <<known, hurried, log, cli, commands, lock, deliver, inbox, entered, told, requests, exits, refusals>>

\* A request about a message the page shows, or showed when it was clicked.
Asks(op, o) ==
    /\ user.pc = "off" /\ op \in Requests
    /\ requests < MaxRequests /\ requests' = requests + 1
    /\ msg[o].place # "unused" /\ session.live

\* _locate_queued_message: it is not in the tray, but was sent.
AskTooLate(op, o) ==
    /\ Asks(op, o) /\ op # "resend" /\ o \in known \ Tray
    /\ told' = [told EXCEPT ![o] = "accepted"]
    /\ UNCHANGED <<msg, keys, known, hurried, log, shown, session, cli, commands, lock, deliver, user, inbox, entered,
                   exits, refusals, failures>>

\* An unsent message is withdrawn without the CLI.
WithdrawUnsent(op, o) ==
    /\ Asks(op, o) /\ op \in {"edit", "delete"} /\ o \in Tray /\ msg[o].state = "unsent"
    /\ Withdraw(o)
    /\ told' = [told EXCEPT ![o] = "withdrawn"]
    /\ UNCHANGED <<known, hurried, log, session, cli, commands, lock, deliver, user, inbox, entered,
                   exits, refusals, failures>>

\* An unsent message is sent again, over a new connection when the actor has exited.
AskResend(op, o) ==
    /\ Asks(op, o) /\ op \in {"resend", "send_now"} /\ o \in Tray /\ msg[o].state = "unsent"
    /\ IF session.exited
       THEN user' = [NoUser EXCEPT !.pc = "reconnect", !.op = "resend", !.id = o] /\ UNCHANGED <<lock, deliver>>
       ELSE /\ user' = [NoUser EXCEPT !.pc = "deliver", !.op = "resend", !.id = o]
            /\ deliver' = [deliver EXCEPT !["user"] = [pc |-> "wait", how |-> "resend", id |-> o, now |-> FALSE]]
            /\ Queue("user")
    /\ UNCHANGED <<msg, keys, known, hurried, log, shown, session, cli, commands, inbox, entered, told,
                   exits, refusals, failures>>

\* _cancel_in_cli: the intent is noted; the CLI is asked, unless it has answered before.
AskCancel(op, o) ==
    /\ Asks(op, o) /\ op \in {"edit", "delete", "send_now"} /\ o \in Tray /\ msg[o].state = "queued"
    /\ msg' = [msg EXCEPT ![o].intent = op]
    /\ IF msg[o].intent = "none"
       THEN /\ user' = [NoUser EXCEPT !.pc = "cancel", !.op = op, !.id = o, !.n = msg[o].n]
            /\ Queue("user") /\ UNCHANGED told
       ELSE UNCHANGED <<user, lock>> /\ told' = [told EXCEPT ![o] = "accepted"]
    /\ UNCHANGED <<keys, known, hurried, log, shown, session, cli, commands, deliver, inbox, entered,
                   exits, refusals, failures>>

\* With the lock, after every delivery before it: the cancel goes to the actor.
EnqueueCancel ==
    /\ user.pc = "cancel" /\ Holds("user")
    /\ Release
    /\ IF session.exited
       THEN user' = [user EXCEPT !.pc = "answered", !.reply = "error"] /\ UNCHANGED commands
       ELSE /\ commands' = Append(commands, [by |-> "user", kind |-> "cancel", uuid |-> Uuid(user.id)])
            /\ user' = [user EXCEPT !.pc = "asked"]
    /\ UNCHANGED <<msg, keys, known, hurried, log, shown, session, cli, deliver, inbox, entered, told, bounds>>

\* The command has failed: the intent is dropped.
CancelFailed ==
    /\ user.pc = "answered" /\ user.reply = "error"
    /\ msg' = [msg EXCEPT ![user.id].intent = "none"]
    /\ user' = NoUser
    /\ UNCHANGED <<keys, known, hurried, log, shown, session, cli, commands, lock, deliver, inbox, entered, told, bounds>>

\* The CLI has let go of the message, or has not.
Withdrawn ==
    LET o == user.id IN
    /\ user.pc = "answered" /\ user.op \in {"edit", "delete"} /\ user.reply # "error"
    /\ IF user.reply = "cancelled" THEN Withdraw(o) ELSE UNCHANGED <<msg, keys, shown>>
    /\ Answer(o, IF user.reply = "cancelled" \/ msg[o].withdrawn THEN "withdrawn" ELSE "accepted")
    /\ UNCHANGED <<known, hurried, log, session, cli, commands, lock, deliver, inbox, entered, bounds>>

\* send_queued_message_now: delivered again, unless the inbox has seen to it.
Hurried ==
    LET o == user.id IN
    /\ user.pc = "answered" /\ user.op = "send_now" /\ user.reply # "error"
    /\ IF user.reply = "cancelled" /\ msg[o].n = user.n /\ o \in Tray
       THEN Redelivers("user", o, TRUE) /\ user' = [user EXCEPT !.pc = "deliver"] /\ UNCHANGED told
       ELSE /\ Answer(o, IF msg[o].n # user.n THEN "sent" ELSE "accepted")
            /\ UNCHANGED <<msg, deliver, lock>>
    /\ UNCHANGED <<keys, known, hurried, log, shown, session, cli, commands, inbox, entered, bounds>>

-----------------------------------------------------------------------------
(* The actor and the CLI. *)

\* The command at the head of the queue is carried out; its caller goes on.
Execute ==
    /\ commands # <<>> /\ ~session.exited
    /\ LET c == Head(commands) IN
       IF c.kind = "query"
       THEN /\ cli' = [cli EXCEPT !.held = @ \cup {c.uuid}]
            /\ deliver' = [deliver EXCEPT ![c.by] = NoDelivery]
            /\ Release
            /\ Return(c.by, IF deliver[c.by].how = "redeliver" THEN "sent" ELSE "none")
       ELSE /\ cli' = IF c.uuid \in cli.held
                      THEN [cli EXCEPT !.held = @ \ {c.uuid},
                                       !.out = Append(@, [uuid |-> c.uuid, kind |-> "cancelled"])]
                      ELSE cli
            /\ user' = [user EXCEPT !.pc = "answered",
                                    !.reply = IF c.uuid \in cli.held THEN "cancelled" ELSE "kept"]
            /\ UNCHANGED <<deliver, lock, inbox, told>>
    /\ commands' = Tail(commands)
    /\ UNCHANGED <<msg, keys, known, hurried, log, shown, session, entered, bounds>>

\* The CLI takes a message into its turn.
Take(u) ==
    /\ ~session.exited /\ u \in cli.held
    /\ cli' = [cli EXCEPT !.held = @ \ {u}, !.turn = @ \cup {u},
                          !.out = Append(@, [uuid |-> u, kind |-> "started"])]
    /\ entered' = entered \cup {u}
    /\ UNCHANGED <<msg, keys, known, hurried, log, shown, session, commands, lock, deliver, user, inbox, told, bounds>>

EndTurn ==
    /\ ~session.exited /\ cli.turn # {}
    /\ cli' = [cli EXCEPT !.turn = {}]
    /\ UNCHANGED <<msg, keys, known, hurried, log, shown, session, commands, lock, deliver, user, inbox, entered,
                   told, bounds>>

\* A hurried message interrupts the turn; messages waiting behind it may go with it.
Interrupt ==
    /\ ~session.exited /\ cli.turn # {} /\ cli.held \cap hurried # {}
    /\ \E dropped \in SUBSET (cli.held \ hurried) :
           cli' = [held |-> cli.held \ dropped, turn |-> {},
                   out |-> cli.out \o [i \in 1..Cardinality(cli.turn \cup dropped) |->
                       [uuid |-> SetToSeq(cli.turn \cup dropped)[i], kind |-> "cancelled"]]]
    /\ UNCHANGED <<msg, keys, known, hurried, log, shown, session, commands, lock, deliver, user, inbox, entered,
                   told, bounds>>

\* The CLI drops a message unasked.
Refuse(u) ==
    /\ ~session.exited /\ u \in cli.held
    /\ refusals < MaxRefusals /\ refusals' = refusals + 1
    /\ cli' = [cli EXCEPT !.held = @ \ {u}, !.out = Append(@, [uuid |-> u, kind |-> "refused"])]
    /\ UNCHANGED <<msg, keys, known, hurried, log, shown, session, commands, lock, deliver, user, inbox, entered,
                   told, requests, exits, failures>>

\* _on_command_lifecycle: a frame of a message in the tray is handed to the inbox.
ReadFrame ==
    /\ ~session.exited /\ cli.out # <<>>
    /\ LET f == Head(cli.out) IN
       /\ cli' = [cli EXCEPT !.out = Tail(@)]
       /\ hurried' = hurried \ {f.uuid}
       /\ inbox' = IF \E o \in Tray : Uuid(o) = f.uuid
                   THEN [inbox EXCEPT !.queue = Append(@, [kind |-> f.kind, uuid |-> f.uuid,
                                                           preempted |-> hurried # {}])]
                   ELSE inbox
    /\ UNCHANGED <<msg, keys, known, log, shown, session, commands, lock, deliver, user, entered, told, bounds>>

\* Mutant: who waits for the actor is not told.
ActorEndsSilently(evicting) ==
    /\ ~session.exited /\ user.pc # "answered" /\ cli.out = <<>>
    /\ session' = [session EXCEPT !.exited = TRUE, !.evicting = evicting]
    /\ cli' = Fresh /\ commands' = <<>>
    /\ UNCHANGED <<deliver, user>>
    /\ inbox' = [inbox EXCEPT !.queue = Append(@, [kind |-> "exit", uuid |-> <<None, 0>>, preempted |-> FALSE])]
    /\ UNCHANGED <<msg, keys, known, hurried, log, shown, lock, entered, told>>
\* The actor ends, having read what there is: who waits for it is told so; a
\* caller already answered goes on first.
ActorEnds(evicting) ==
    /\ ~session.exited /\ user.pc # "answered" /\ cli.out = <<>>
    /\ session' = [session EXCEPT !.exited = TRUE, !.evicting = evicting]
    /\ cli' = Fresh /\ commands' = <<>>
    /\ deliver' = [p \in Procs |-> IF deliver[p].pc = "query" THEN [deliver[p] EXCEPT !.pc = "failed"] ELSE deliver[p]]
    /\ user' = IF user.pc = "asked" THEN [user EXCEPT !.pc = "answered", !.reply = "error"] ELSE user
    /\ inbox' = [inbox EXCEPT !.queue = Append(@, [kind |-> "exit", uuid |-> <<None, 0>>, preempted |-> FALSE])]
    /\ UNCHANGED <<msg, keys, known, hurried, log, shown, lock, entered, told>>

ActorExits ==
    /\ session.live /\ exits < MaxExits /\ exits' = exits + 1
    /\ ActorEnds(FALSE)
    /\ UNCHANGED <<requests, refusals, failures>>

-----------------------------------------------------------------------------
(* _process_inbox. *)

RestOfInbox == [inbox EXCEPT !.queue = Tail(@)]
Comes(kinds) == inbox.pc = "get" /\ inbox.queue # <<>> /\ Head(inbox.queue).kind \in kinds
\* Mutant: a frame of an earlier delivery counts.
SubjectOfAnyDelivery == {o \in Tray : o = Head(inbox.queue).uuid[1]}
Subject == {o \in Tray : Uuid(o) = Head(inbox.queue).uuid}

\* The message has left the tray meanwhile, or has another uuid.
SettleNothing ==
    /\ Comes(Ends) /\ Subject = {}
    /\ inbox' = RestOfInbox
    /\ UNCHANGED <<msg, keys, known, hurried, log, shown, session, cli, commands, lock, deliver, user, entered, told, bounds>>

\* Taken into a turn: it is written to the log, and only then leaves the tray.
Log(o) ==
    /\ Comes({"started"}) /\ o \in Subject
    /\ inbox' = [RestOfInbox EXCEPT !.pc = "log", !.id = o]
    /\ UNCHANGED <<msg, keys, known, hurried, log, shown, session, cli, commands, lock, deliver, user, entered, told, bounds>>

Logged ==
    /\ inbox.pc = "log"
    /\ log' = IF InLog(msg[inbox.id].key) THEN log ELSE Append(log, inbox.id)
    /\ msg' = [msg EXCEPT ![inbox.id].place = "left"]
    /\ shown' = shown \ {inbox.id}
    /\ inbox' = [inbox EXCEPT !.pc = "get", !.id = None]
    /\ UNCHANGED <<keys, known, hurried, session, cli, commands, lock, deliver, user, entered, told, bounds>>

\* Not taken: as the user wished last, behind the message that displaced it, or gone.
SettleDropped(o) ==
    /\ Comes({"cancelled", "refused"}) /\ o \in Subject
    /\ LET displaced == Head(inbox.queue).preempted /\ Head(inbox.queue).kind = "cancelled"
           again == msg[o].intent = "send_now" \/ (msg[o].intent = "none" /\ displaced) IN
       IF again
       THEN /\ Redelivers("inbox", o, msg[o].intent = "send_now")
            /\ inbox' = [RestOfInbox EXCEPT !.pc = "deliver", !.id = o]
            /\ UNCHANGED <<keys, shown>>
       ELSE /\ Discard({o}, IF msg[o].intent = "none" THEN msg ELSE [msg EXCEPT ![o].withdrawn = TRUE])
            /\ inbox' = RestOfInbox
            /\ UNCHANGED <<lock, deliver>>
    /\ UNCHANGED <<known, hurried, log, session, cli, commands, user, entered, told, bounds>>

\* The actor has exited: what is still queued is unsent.
TakeExitNotice ==
    /\ Comes({"exit"})
    /\ msg' = Unsent(msg)
    /\ shown' = shown \cup {o \in Tray : msg[o].state = "queued"}
    /\ inbox' = [RestOfInbox EXCEPT !.pc = "done"]
    /\ UNCHANGED <<keys, known, hurried, log, session, cli, commands, lock, deliver, user, entered, told, bounds>>

-----------------------------------------------------------------------------
(* _evict_one, by the timer, the patrol or for capacity: nothing runs. *)

Idle ==
    IF session.exited THEN inbox.pc = "done"
    ELSE cli.held = {} /\ cli.turn = {} /\ inbox.pc = "get" /\ inbox.queue = <<>>
         /\ \A p \in Procs : deliver[p].pc \in {"off", "wait"}

Evict ==
    /\ session.live /\ ~session.evicting /\ Idle
    /\ exits < MaxExits /\ exits' = exits + 1
    /\ IF session.exited
       THEN /\ session' = [session EXCEPT !.evicting = TRUE]
            /\ UNCHANGED <<msg, keys, known, hurried, log, shown, cli, commands, lock, deliver, user, inbox, entered, told>>
       ELSE ActorEnds(TRUE)
    /\ UNCHANGED <<requests, refusals, failures>>

\* The inbox is drained: whatever is left in the tray is dropped.
Evicted ==
    /\ session.evicting /\ inbox.pc = "done"
    /\ Discard(Tray, msg)
    /\ session' = [session EXCEPT !.live = FALSE, !.evicting = FALSE]
    /\ UNCHANGED <<known, hurried, log, cli, commands, lock, deliver, user, inbox, entered, told, bounds>>

-----------------------------------------------------------------------------
Deliver(p) ==
    BeginRedelivery(p) \/ BeginResend(p) \/ Written(p) \/ WriteFails(p) \/ DeliveryFailed(p)

Continue ==
    \/ Repeated \/ LookFirst \/ (\E o \in Ids : EnqueueMessage(o)) \/ Reconnect \/ ReconnectFails
    \/ EnqueueCancel \/ CancelFailed \/ Withdrawn \/ Hurried

Ask ==
    \/ \E k \in Keys : AskSend(k)
    \/ \E o \in Ids, op \in Requests :
           AskTooLate(op, o) \/ WithdrawUnsent(op, o) \/ AskResend(op, o) \/ AskCancel(op, o)

CliMoves == EndTurn \/ Interrupt \/ (\E u \in cli.held : Take(u) \/ Refuse(u))

InboxMoves == SettleNothing \/ Logged \/ TakeExitNotice \/ (\E o \in Ids : Log(o) \/ SettleDropped(o))

MessagesNext ==
    \/ Ask \/ Continue \/ (\E p \in Procs : Deliver(p))
    \/ Execute \/ ReadFrame \/ ActorExits \/ Evict \/ Evicted \/ CliMoves \/ InboxMoves

MessagesSpec == MessagesInit /\ [][MessagesNext]_messageVars

\* The event loop runs every coroutine it can; the CLI takes what it holds.
FairMessages ==
    /\ MessagesSpec
    /\ WF_messageVars(Continue) /\ \A p \in Procs : WF_messageVars(Deliver(p))
    /\ WF_messageVars(Execute) /\ WF_messageVars(ReadFrame) /\ WF_messageVars(InboxMoves) /\ WF_messageVars(Evicted)
    /\ WF_messageVars(\E u \in cli.held : Take(u))

-----------------------------------------------------------------------------
\* Nothing is under way.
NothingMoves ==
    /\ user.pc = "off" /\ commands = <<>> /\ cli.out = <<>>
    /\ inbox.pc \in {"get", "done"} /\ (inbox.pc = "get" => inbox.queue = <<>>)
    /\ session.live => ~session.evicting

\* The messages one of whose deliveries the CLI took into a turn.
Taken == {u[1] : u \in entered}

(* A message in the tray as queued is with the CLI under the uuid by which  *)
(* its frames will be recognised, and what the CLI holds is in the tray:    *)
(* no message hangs there for good and none is processed unseen.            *)
TrayIsHeld ==
    NothingMoves /\ session.live /\ ~session.exited =>
        cli.held = {Uuid(o) : o \in {o \in Tray : msg[o].state = "queued"}}

(* What the CLI takes is recorded once, and what it does not take is not:   *)
(* redelivered under new uuids, retried under its key, moved to another     *)
(* connection.                                                              *)
TakenIsLogged ==
    NothingMoves => /\ Range(log) = Taken
                    /\ \A i, j \in DOMAIN log : i # j => msg[log[i]].key # msg[log[j]].key

(* No key is processed twice, whatever is retried, hurried or sent again.   *)
KeyTakenOnce ==
    \A u, v \in entered : msg[u[1]].key = msg[v[1]].key => u = v

(* A message the user was told is withdrawn never reaches the conversation, *)
(* not even by a delivery that was already on its way.                      *)
WithdrawnStaysOut == \A o \in Ids : told[o] = "withdrawn" => o \notin Taken \cup Tray

(* The tray on the page, as the broadcasts leave it, is that of the server, *)
(* as long as the CLI lives: a delivery that fails behind an eviction puts  *)
(* its message back on the page only.                                       *)
PageAgrees == NothingMoves /\ exits = 0 => shown = Tray

(* Every request of the user is answered, and the inbox never hangs.        *)
RequestsEnd == user.pc # "off" ~> user.pc = "off"
InboxReturns == inbox.pc \in {"log", "deliver"} ~> inbox.pc \notin {"log", "deliver"}

(* The tray, the CLI and the page agree on what waits.                      *)
TrayIsTrue == MessagesTypeOK /\ TrayIsHeld /\ PageAgrees

(* A message enters a turn once at most, not after it was withdrawn, and    *)
(* never without a trace in the log.                                        *)
TakenOnce == KeyTakenOnce /\ WithdrawnStaysOut /\ TakenIsLogged

(* Neither a request nor the inbox waits for ever.                          *)
NobodyIsStuck == RequestsEnd /\ InboxReturns
=============================================================================
