-------------------------- MODULE GenerationPromise --------------------------
(***************************************************************************)
(* What the queue and its workers promise the user of a task, without a    *)
(* word on leases, slots, coroutines or ledgers: it costs nothing while it *)
(* waits, it is sent to a provider once, and its verdict stands, except    *)
(* that a failed download of something already paid for may be tried again.*)
(***************************************************************************)
EXTENDS Naturals

CONSTANT Ticket

VARIABLES
  state,  \* where the user sees the task
  sent    \* how often a provider has accepted it

promise == <<state, sent>>

PromiseInit ==
  /\ state = [t \in Ticket |-> "absent"]
  /\ sent = [t \in Ticket |-> 0]

Accept(t) ==
  /\ state[t] = "absent"
  /\ state' = [state EXCEPT ![t] = "queued"]
  /\ UNCHANGED sent

Begin(t) ==
  /\ state[t] = "queued"
  /\ state' = [state EXCEPT ![t] = "running"]
  /\ UNCHANGED sent

(* Back in line, as long as nothing was sent.                              *)
GoBack(t) ==
  /\ state[t] = "running" /\ sent[t] = 0
  /\ state' = [state EXCEPT ![t] = "queued"]
  /\ UNCHANGED sent

(* The one request.  Its sender may have been given up for lost meanwhile, *)
(* but a task that waits, is cancelled or has succeeded is not sent.       *)
Send(t) ==
  /\ state[t] \in {"running", "failed"} /\ sent[t] = 0
  /\ sent' = [sent EXCEPT ![t] = 1]
  /\ UNCHANGED state

Succeed(t) ==
  /\ state[t] = "running"
  /\ state' = [state EXCEPT ![t] = "succeeded"]
  /\ UNCHANGED sent

(* A running task, and whatever waits in line behind it, ends badly ...    *)
EndBadly(t, waiting, end) ==
  /\ state[t] = "running"
  /\ \A u \in waiting : state[u] = "queued"
  /\ state' = [u \in Ticket |-> IF u = t \/ u \in waiting THEN end ELSE state[u]]
  /\ UNCHANGED sent

(* ... or tasks are cancelled while they wait.                             *)
Withdraw(waiting) ==
  /\ \A u \in waiting : state[u] = "queued"
  /\ state' = [u \in Ticket |-> IF u \in waiting THEN "cancelled" ELSE state[u]]
  /\ UNCHANGED sent

Revive(t) ==
  /\ state[t] = "failed" /\ sent[t] = 1
  /\ state' = [state EXCEPT ![t] = "running"]
  /\ UNCHANGED sent

PromiseNext ==
  \/ \E t \in Ticket : \/ Accept(t) \/ Begin(t) \/ GoBack(t) \/ Send(t) \/ Succeed(t) \/ Revive(t)
                     \/ \E waiting \in SUBSET Ticket, end \in {"failed", "cancelled"} :
                          EndBadly(t, waiting, end)
  \/ \E waiting \in SUBSET Ticket : Withdraw(waiting)

PromiseSpec == PromiseInit /\ [][PromiseNext]_promise
=============================================================================
