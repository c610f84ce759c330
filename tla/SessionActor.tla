---------------------------- MODULE SessionActor ----------------------------
(***************************************************************************)
(* The task that owns the SDK client of one agent session                  *)
(* (server/agent_runtime/session_actor.py).  Callers put commands into its *)
(* queue and wait for each to be completed; the actor reads the message    *)
(* stream and dispatches the commands, one at a time, in one task.  It     *)
(* ends by a disconnect, by an error of the client, by the end of the      *)
(* stream, or because eviction cancels it.                                 *)
(*                                                                         *)
(* A step is what the event loop runs between two awaits.  The two tasks   *)
(* the actor waits for, the read of the stream and the get from the queue, *)
(* finish on their own.                                                    *)
(***************************************************************************)
EXTENDS Naturals, Sequences

CONSTANTS Commands,    \* commands of all callers
          Disconnects, \* those that disconnect the session
          Withdrawals, \* those that withdraw a message from the CLI
          MaxFrames    \* bound: frames the CLI writes

ASSUME CommandsAssumption ==
    /\ Disconnects \subseteq Commands
    /\ Withdrawals \subseteq Commands \ Disconnects
    /\ "none" \notin Commands /\ "wait" \notin Commands
    /\ MaxFrames \in Nat

VARIABLES
    pc,        \* where the actor task stands
    cause,     \* what the actor is leaving with, "none" for a disconnect
    fatal,     \* _fatal, set when the error has left the client's context
    queue,     \* _cmd_queue
    getter,    \* cmd_task: "none", "wait", or the command it took
    reader,    \* the pump's task: "none", "reading", "frame" or "closed"
    current,   \* the command _dispatch awaits, "none" otherwise
    outcome,   \* of each command: "new", "waiting", then how it was completed
    order,     \* history: commands in the order they were enqueued
    begun,     \* history: commands in the order they were dispatched
    written,   \* frames the CLI has written
    taken,     \* frames the reader has taken off the stream
    delivered, \* frames handed to on_message
    eof        \* the CLI has ended its stream

vars == <<pc, cause, fatal, queue, getter, reader, current, outcome, order, begun,
          written, taken, delivered, eof>>
stream == <<written, taken, delivered, eof>>

\* How a command can be completed: executed, refused by the CLI without harm to
\* the session, with the actor's own exception, or with _ActorClosed.
Completed == {"ok", "refused", "error", "closed"}
Ended == {"connectFailed", "ended"}
Reasons == {"none", "error", "stream", "cancel"}

TypeOK ==
    /\ pc \in {"connecting", "loop", "waiting", "dispatching", "leaving"} \cup Ended
    /\ cause \in Reasons /\ fatal \in Reasons
    /\ queue \in Seq(Commands)
    /\ getter \in {"none", "wait"} \cup Commands
    /\ reader \in {"none", "reading", "frame", "closed"}
    /\ current \in {"none"} \cup Commands
    /\ outcome \in [Commands -> {"new", "waiting"} \cup Completed]
    /\ order \in Seq(Commands) /\ begun \in Seq(Commands)
    /\ written \in 0..MaxFrames /\ taken \in 0..MaxFrames /\ delivered \in 0..MaxFrames
    /\ eof \in BOOLEAN

Init ==
    /\ pc = "connecting" /\ cause = "none" /\ fatal = "none"
    /\ queue = <<>> /\ getter = "none" /\ reader = "none" /\ current = "none"
    /\ outcome = [c \in Commands |-> "new"] /\ order = <<>> /\ begun = <<>>
    /\ written = 0 /\ taken = 0 /\ delivered = 0 /\ eof = FALSE

Complete(c, how) == outcome' = [outcome EXCEPT ![c] = how]

\* _as_closed_error: the cancellation stays the actor's own.
AsClosedError(reason) == IF reason \in {"error", "stream"} THEN "error" ELSE "closed"

-----------------------------------------------------------------------------
(* Callers. *)

\* enqueue: at once into the queue, or refused because the task is done.
Enqueue(c) ==
    /\ outcome[c] = "new"
    /\ IF pc \in Ended
       THEN Complete(c, AsClosedError(fatal)) /\ UNCHANGED <<queue, order>>
       ELSE Complete(c, "waiting") /\ queue' = Append(queue, c) /\ order' = Append(order, c)
    /\ UNCHANGED <<pc, cause, fatal, getter, reader, current, begun, stream>>

-----------------------------------------------------------------------------
(* The CLI and the two tasks the actor waits for. *)

Write ==
    /\ ~eof /\ written < MaxFrames
    /\ written' = written + 1
    /\ UNCHANGED <<pc, cause, fatal, queue, getter, reader, current, outcome, order, begun,
                   taken, delivered, eof>>

CliExits ==
    /\ ~eof /\ eof' = TRUE
    /\ UNCHANGED <<pc, cause, fatal, queue, getter, reader, current, outcome, order, begun,
                   written, taken, delivered>>

\* _MessagePump._next: the next frame, or the end of the stream.
Read ==
    /\ reader = "reading"
    /\ IF taken < written THEN reader' = "frame" /\ taken' = taken + 1
                          ELSE eof /\ reader' = "closed" /\ UNCHANGED taken
    /\ UNCHANGED <<pc, cause, fatal, queue, getter, current, outcome, order, begun,
                   written, delivered, eof>>

Get ==
    /\ getter = "wait"
    /\ queue # <<>>
    /\ getter' = Head(queue) /\ queue' = Tail(queue)
    /\ UNCHANGED <<pc, cause, fatal, reader, current, outcome, order, begun, stream>>

-----------------------------------------------------------------------------
(* The actor task. *)

\* _run enters the client's context.
Connect ==
    /\ pc = "connecting"
    /\ pc' = "loop"
    /\ UNCHANGED <<cause, fatal, queue, getter, reader, current, outcome, order, begun, stream>>

\* Mutant: what waits in the queue is forgotten.
DrainNothing(reason) == UNCHANGED <<outcome, queue>>
\* _drain_pending_commands
Drain(reason) ==
    /\ queue' = <<>>
    /\ outcome' = [c \in Commands |-> IF \E i \in 1..Len(queue) : queue[i] = c
                                      THEN AsClosedError(reason) ELSE outcome[c]]

\* __aenter__ fails or is cancelled.
ConnectFails(reason) ==
    /\ pc = "connecting"
    /\ pc' = "connectFailed" /\ cause' = reason /\ fatal' = reason
    /\ Drain(reason)
    /\ UNCHANGED <<getter, reader, current, order, begun, stream>>

\* Mutant: each turn begins a read of its own.
ArmAfresh == reader' = "reading"
\* _MessagePump.arm: one read at a time, kept over the turns.
Arm == reader' = IF reader = "none" THEN "reading" ELSE reader

\* The top of _command_loop.
Wait ==
    /\ pc = "loop"
    /\ pc' = "waiting"
    /\ getter' = IF getter = "none" THEN "wait" ELSE getter
    /\ Arm
    /\ UNCHANGED <<cause, fatal, queue, current, outcome, order, begun, stream>>

Got == getter \in Commands

\* Mutant: the command that was taken in the same turn stays with nobody.
LeaveTaken(reason) ==
    /\ pc' = "leaving" /\ cause' = reason
    /\ getter' = "none" /\ reader' = "none" /\ UNCHANGED outcome
\* The finally of _command_loop: a taken command is completed here, and the
\* error is not in _fatal yet.
LeaveLoop(reason) ==
    /\ pc' = "leaving" /\ cause' = reason
    /\ getter' = "none" /\ reader' = "none"
    /\ IF Got THEN Complete(getter, AsClosedError(fatal)) ELSE UNCHANGED outcome

\* asyncio.wait returns: the frame first, the command after it, in one step.
Turn ==
    /\ pc = "waiting"
    /\ reader = "frame" \/ Got
    /\ reader # "closed"
    /\ IF reader = "frame" THEN delivered' = delivered + 1 /\ reader' = "none"
                           ELSE UNCHANGED <<delivered, reader>>
    /\ IF Got THEN /\ pc' = "dispatching" /\ current' = getter
                   /\ begun' = Append(begun, getter) /\ getter' = "none"
              ELSE pc' = "loop" /\ UNCHANGED <<current, begun, getter>>
    /\ UNCHANGED <<cause, fatal, queue, outcome, order, written, taken, eof>>

\* The stream has ended: MessageStreamClosed.
StreamClosed ==
    /\ pc = "waiting"
    /\ reader = "closed"
    /\ LeaveLoop("stream")
    /\ UNCHANGED <<fatal, queue, current, order, begun, stream>>

\* The client returns; a withdrawal the CLI refuses harms nothing.
Dispatched ==
    /\ pc = "dispatching"
    /\ \E how \in {"ok"} \cup (IF current \in Withdrawals THEN {"refused"} ELSE {}) :
           Complete(current, how)
    /\ pc' = IF current \in Disconnects THEN "leaving" ELSE "loop"
    /\ current' = "none"
    /\ UNCHANGED <<cause, fatal, queue, getter, reader, order, begun, stream>>

\* The client raises, or the actor is cancelled while it waits for the client.
DispatchRaises(reason) ==
    /\ pc = "dispatching"
    /\ reason = "error" => current \notin Withdrawals
    /\ Complete(current, AsClosedError(reason))
    /\ pc' = "leaving" /\ cause' = reason /\ current' = "none"
    /\ reader' = "none"
    /\ UNCHANGED <<fatal, queue, getter, order, begun, stream>>

\* cancel_and_wait reaches the actor in asyncio.wait.
CancelWait ==
    /\ pc = "waiting"
    /\ LeaveLoop("cancel")
    /\ UNCHANGED <<fatal, queue, current, order, begun, stream>>

\* __aexit__ returns, raises or is cancelled; then the queue is drained.
Exit(reason) ==
    /\ pc = "leaving"
    /\ pc' = "ended" /\ fatal' = reason /\ cause' = reason
    /\ Drain(reason)
    /\ UNCHANGED <<getter, reader, current, order, begun, stream>>

-----------------------------------------------------------------------------
Actor ==
    \/ Connect \/ ConnectFails("error") \/ Wait \/ Turn \/ StreamClosed
    \/ Dispatched \/ DispatchRaises("error") \/ Exit(cause) \/ Exit("error")

Cancel == ConnectFails("cancel") \/ DispatchRaises("cancel") \/ CancelWait \/ Exit("cancel")

Next ==
    \/ \E c \in Commands : Enqueue(c)
    \/ Write \/ CliExits \/ Read \/ Get
    \/ Actor \/ Cancel

Spec == Init /\ [][Next]_vars

\* The event loop runs the actor and its two tasks; the client answers.
FairSpec == Spec /\ WF_vars(Read) /\ WF_vars(Get) /\ WF_vars(Actor)

-----------------------------------------------------------------------------
InQueue(c) == \E i \in 1..Len(queue) : queue[i] = c
Held(c) == InQueue(c) \/ getter = c \/ current = c

(* A command that waits is always within reach of somebody who completes    *)
(* it: in the queue, with the getter, or with the dispatcher.  Whatever     *)
(* ends the actor, in whatever turn, no caller is left waiting.             *)
NobodyIsForgotten == \A c \in Commands : outcome[c] = "waiting" => Held(c) /\ pc \notin Ended

(* complete() settles a command once: no later path changes what its caller *)
(* was told.                                                                *)
CompletedOnce ==
    [][\A c \in Commands : outcome[c] \in Completed => outcome'[c] = outcome[c]]_vars

(* The commands reach the client in the order in which they were enqueued,  *)
(* none twice: `begun' is the beginning of `order'.                         *)
InOrder ==
    /\ Len(begun) <= Len(order)
    /\ \A i \in 1..Len(begun) : begun[i] = order[i]

(* The frames reach on_message one by one, none lost while the session is   *)
(* alive: a frame off the stream is delivered or with the single reader.    *)
NoFrameIsLost ==
    pc \notin {"leaving"} \cup Ended => taken = delivered + (IF reader = "frame" THEN 1 ELSE 0)

(* Every command is answered while the client answers, and every session    *)
(* that is being left ends.                                                 *)
EveryCommandAnswered == \A c \in Commands : outcome[c] = "waiting" ~> outcome[c] \in Completed

(* Both streams of the one client keep their order: commands go out in the  *)
(* order of the queue, frames come in without a gap.                        *)
StreamsAreKept == TypeOK /\ InOrder /\ NoFrameIsLost

(* Every command is answered, and the answer stays.                         *)
AnsweredOnce == CompletedOnce /\ EveryCommandAnswered
=============================================================================
