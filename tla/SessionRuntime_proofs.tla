----------------------- MODULE SessionRuntime_proofs -----------------------
(***************************************************************************)
(* What is proved of the runtime of a session.                             *)
(*                                                                         *)
(* The actor (SessionActor), for every set of commands: each is completed  *)
(* exactly once, in the order of the queue, by whatever path it ends.      *)
(*                                                                         *)
(* The turns (SessionTurns), for any number of messages, connections,      *)
(* crashes and failures: a CLI at work counts as running, and the status   *)
(* in the database is the session's own at rest.  The first follows from   *)
(* WorkInv: an idle in an inbox is never of a turn that is at work.  The   *)
(* second from CalmInv: as long as nothing goes wrong, a wrong status in   *)
(* the database has somebody who is about to write over it.                *)
(***************************************************************************)
EXTENDS SessionActor, SessionTurns, TLAPS

-----------------------------------------------------------------------------
(* The actor. *)

Alive == pc \in {"connecting", "loop", "waiting", "dispatching"}
InHand == IF Got THEN 1 ELSE 0

(* A command is in one place, and waits while it is there. *)
HeldOnce ==
    /\ \A i \in 1..Len(queue) :
           /\ outcome[queue[i]] = "waiting"
           /\ queue[i] # getter /\ queue[i] # current
           /\ \A j \in 1..Len(queue) : queue[i] = queue[j] => i = j
    /\ Got => outcome[getter] = "waiting"
    /\ current # "none" => outcome[current] = "waiting"

(* Who can hold a command in which turn. *)
Hands ==
    /\ current # "none" <=> pc = "dispatching"
    /\ getter # "none" => pc \in {"loop", "waiting"}

(* What was enqueued, split into what was dispatched, what the getter holds *)
(* and what is still in the queue.                                          *)
OrderIsSplit ==
    Alive => /\ Len(order) = Len(begun) + InHand + Len(queue)
             /\ Got => order[Len(begun) + 1] = getter
             /\ \A i \in 1..Len(queue) : order[Len(begun) + InHand + i] = queue[i]

Inv == TypeOK /\ HeldOnce /\ Hands /\ NobodyIsForgotten /\ NoFrameIsLost

OrderInv == InOrder /\ OrderIsSplit

-----------------------------------------------------------------------------
(* The initial state satisfies the invariants. *)
LEMMA InitInv == Init => Inv /\ OrderInv
<1> SUFFICES ASSUME Init PROVE Inv /\ OrderInv
  OBVIOUS
<1> USE CommandsAssumption DEF Init
<1>1. TypeOK
  <2>a. <<>> \in Seq(Commands)
    OBVIOUS
  <2>b. outcome \in [Commands -> {"new", "waiting"} \cup Completed]
    OBVIOUS
  <2>c. queue \in Seq(Commands) /\ order \in Seq(Commands) /\ begun \in Seq(Commands)
    BY <2>a
  <2>d. written \in 0..MaxFrames /\ taken \in 0..MaxFrames /\ delivered \in 0..MaxFrames
    OBVIOUS
  <2>e. QED
    BY <2>b, <2>c, <2>d DEF TypeOK, Reasons
<1>2. HeldOnce /\ Hands
  BY DEF HeldOnce, Hands, Got
<1>3. NobodyIsForgotten /\ NoFrameIsLost
  BY DEF NobodyIsForgotten, NoFrameIsLost
<1>4. InOrder /\ OrderIsSplit
  BY DEF InOrder, OrderIsSplit, Alive, InHand, Got
<1>5. QED
  BY <1>1, <1>2, <1>3, <1>4 DEF Inv, OrderInv

(* The actions one by one, with whatever reason the actor ends. *)
LEMMA Steps ==
  ASSUME TypeOK, [Next]_vars
  PROVE  \/ \E c \in Commands : Enqueue(c)
         \/ Write \/ CliExits \/ Read \/ Get \/ Connect \/ Wait \/ Turn \/ StreamClosed
         \/ Dispatched \/ CancelWait
         \/ \E reason \in Reasons : ConnectFails(reason)
         \/ \E reason \in Reasons : DispatchRaises(reason)
         \/ \E reason \in Reasons : Exit(reason)
         \/ UNCHANGED vars
<1>1. "error" \in Reasons /\ "cancel" \in Reasons /\ cause \in Reasons
  BY DEF TypeOK, Reasons
<1>2. QED
  BY <1>1 DEF Next, Actor, Cancel

(* What AsClosedError returns is a way of being completed. *)
LEMMA ClosedCompletes == \A reason : AsClosedError(reason) \in Completed
BY DEF AsClosedError, Completed

(* Draining completes exactly what is in the queue. *)
LEMMA DrainCompletes ==
  ASSUME TypeOK, NEW reason, Drain(reason)
  PROVE  /\ queue' = <<>>
         /\ outcome' \in [Commands -> {"new", "waiting"} \cup Completed]
         /\ \A c \in Commands :
                /\ InQueue(c) => outcome'[c] \in Completed
                /\ ~InQueue(c) => outcome'[c] = outcome[c]
BY ClosedCompletes DEF Drain, TypeOK, InQueue

(* Completing a command changes what is known of that command only. *)
LEMMA CompleteOne ==
  ASSUME TypeOK, NEW c \in Commands, NEW how \in {"waiting"} \cup Completed, Complete(c, how)
  PROVE  /\ outcome' \in [Commands -> {"new", "waiting"} \cup Completed]
         /\ outcome'[c] = how
         /\ \A d \in Commands \ {c} : outcome'[d] = outcome[d]
BY DEF TypeOK, Complete

(* Every state of the queue, the getter and the dispatcher keeps its type. *)
LEMMA TypeStep == Inv /\ [Next]_vars => TypeOK'
<1> SUFFICES ASSUME Inv, [Next]_vars PROVE TypeOK'
  OBVIOUS
<1>0. TypeOK
  BY DEF Inv
<1> USE <1>0, ClosedCompletes, CommandsAssumption
<1>1. ASSUME NEW c \in Commands, Enqueue(c) PROVE TypeOK'
  <2>a. outcome' \in [Commands -> {"new", "waiting"} \cup Completed]
    BY <1>1, CompleteOne DEF Enqueue
  <2>b. queue' \in Seq(Commands) /\ order' \in Seq(Commands)
    <3>1. CASE pc \in Ended
      BY <1>1, <3>1 DEF Enqueue, TypeOK
    <3>2. CASE pc \notin Ended
      <4>1. queue' = Append(queue, c) /\ order' = Append(order, c)
        BY <1>1, <3>2 DEF Enqueue
      <4>2. queue \in Seq(Commands) /\ order \in Seq(Commands)
        BY DEF TypeOK
      <4>3. QED
        BY <4>1, <4>2
    <3>3. QED
      BY <3>1, <3>2
  <2>c. QED
    BY <1>1, <2>a, <2>b DEF Enqueue, TypeOK, stream
<1>2. CASE Write
  BY <1>2 DEF Write, TypeOK, stream, Ended
<1>3. CASE CliExits
  BY <1>3 DEF CliExits, TypeOK, stream, Ended
<1>4. CASE Read
  BY <1>4 DEF Read, TypeOK, stream, Ended
<1>5. CASE Get
  BY <1>5 DEF Get, TypeOK, stream, Ended
<1>6. CASE Connect
  BY <1>6 DEF Connect, TypeOK, stream, Ended
<1>7. CASE Wait
  BY <1>7 DEF Wait, TypeOK, Arm, stream, Ended
<1>8. CASE Turn
  <2>a. delivered' \in 0..MaxFrames
    BY <1>8 DEF Turn, TypeOK, Inv, NoFrameIsLost, Ended
  <2>b. current' \in {"none"} \cup Commands /\ begun' \in Seq(Commands)
    <3>1. CASE Got
      BY <1>8, <3>1 DEF Turn, Got, TypeOK
    <3>2. CASE ~Got
      BY <1>8, <3>2 DEF Turn, TypeOK
    <3>3. QED
      BY <3>1, <3>2
  <2>c. QED
    BY <1>8, <2>a, <2>b DEF Turn, Got, TypeOK
<1>9. CASE StreamClosed
  <2>a. outcome' \in [Commands -> {"new", "waiting"} \cup Completed]
    BY <1>9, CompleteOne DEF StreamClosed, LeaveLoop, Got, TypeOK
  <2>b. QED
    BY <1>9, <2>a DEF StreamClosed, LeaveLoop, TypeOK, stream, Reasons
<1>10. CASE Dispatched
  BY <1>10 DEF Dispatched, TypeOK, Completed, Complete, stream, Ended
<1>11. CASE CancelWait
  <2>a. outcome' \in [Commands -> {"new", "waiting"} \cup Completed]
    BY <1>11, CompleteOne DEF CancelWait, LeaveLoop, Got, TypeOK
  <2>b. QED
    BY <1>11, <2>a DEF CancelWait, LeaveLoop, TypeOK, stream, Reasons
<1>12. ASSUME NEW reason \in Reasons, ConnectFails(reason) \/ Exit(reason) PROVE TypeOK'
  <2>a. <<>> \in Seq(Commands)
    OBVIOUS
  <2>b. Drain(reason)
    BY <1>12 DEF ConnectFails, Exit
  <2>c. QED
    BY <1>12, <2>a, <2>b, DrainCompletes DEF ConnectFails, Exit, TypeOK, stream, Ended
<1>13. ASSUME NEW reason \in Reasons, DispatchRaises(reason) PROVE TypeOK'
  BY <1>13 DEF DispatchRaises, TypeOK, Complete, stream, Ended
<1>14. CASE UNCHANGED vars
  BY <1>14 DEF vars, TypeOK, stream, Ended
<1>15. QED
  BY Steps, <1>1, <1>2, <1>3, <1>4, <1>5, <1>6, <1>7, <1>8, <1>9, <1>10, <1>11, <1>12, <1>13, <1>14

(* Nobody is forgotten: what a step takes from one hand it completes or puts *)
(* into another.                                                            *)
LEMMA HeldStep == Inv /\ [Next]_vars => (HeldOnce /\ Hands /\ NobodyIsForgotten)'
<1> SUFFICES ASSUME Inv, [Next]_vars PROVE (HeldOnce /\ Hands /\ NobodyIsForgotten)'
  OBVIOUS
<1>0. TypeOK /\ HeldOnce /\ Hands /\ NobodyIsForgotten /\ TypeOK'
  BY TypeStep DEF Inv
<1> USE <1>0, ClosedCompletes, CommandsAssumption
<1>1. ASSUME NEW c \in Commands, Enqueue(c) PROVE (HeldOnce /\ Hands /\ NobodyIsForgotten)'
  <2>a. HeldOnce'
    <3>1. \A d \in Commands \ {c} : outcome'[d] = outcome[d]
      BY <1>1, CompleteOne DEF Enqueue
    <3>2. /\ \A i \in 1..Len(queue) : queue[i] \in Commands \ {c}
          /\ getter # c /\ current # c
      BY <1>1 DEF Enqueue, HeldOnce, Got, TypeOK
    <3>3. getter' = getter /\ current' = current
      BY <1>1 DEF Enqueue
    <3>4. CASE queue' = queue
      BY <3>1, <3>2, <3>3, <3>4 DEF HeldOnce, Got, TypeOK
    <3>5. CASE queue' = Append(queue, c) /\ outcome'[c] = "waiting"
      BY <3>1, <3>2, <3>3, <3>5 DEF HeldOnce, Got, TypeOK
    <3>6. QED
      BY <1>1, CompleteOne, <3>4, <3>5 DEF Enqueue
  <2>b. Hands'
    BY <1>1 DEF Enqueue, Hands, Got, TypeOK, Ended, Completed
  <2>c. NobodyIsForgotten'
    <3>1. CASE pc \in Ended
      BY <1>1, <3>1, CompleteOne DEF Enqueue, NobodyIsForgotten, Completed
    <3>2. CASE pc \notin Ended
      <4>1. /\ queue' = Append(queue, c) /\ pc' = pc
            /\ getter' = getter /\ current' = current
            /\ \A d \in Commands \ {c} : outcome'[d] = outcome[d]
        BY <1>1, <3>2, CompleteOne DEF Enqueue
      <4>2. InQueue(c)'
        <5>1. Len(queue') = Len(queue) + 1 /\ queue'[Len(queue) + 1] = c /\ Len(queue) \in Nat
          BY <4>1 DEF TypeOK
        <5>2. QED
          BY <5>1 DEF InQueue
      <4>3. \A d \in Commands : InQueue(d) => InQueue(d)'
        BY <4>1 DEF InQueue, TypeOK
      <4>4. QED
        BY <3>2, <4>1, <4>2, <4>3 DEF NobodyIsForgotten, Held, Ended
    <3>3. QED
      BY <3>1, <3>2
  <2>d. QED
    BY <2>a, <2>b, <2>c
<1>2. CASE Write \/ CliExits \/ Read
  <2>a. HeldOnce'
    BY <1>2 DEF Write, CliExits, Read, HeldOnce, Got, InQueue, Hands, TypeOK, Ended, Completed
  <2>b. Hands'
    BY <1>2 DEF Write, CliExits, Read, Hands, Got, TypeOK, Ended, Completed
  <2>c. NobodyIsForgotten'
    BY <1>2 DEF Write, CliExits, Read, NobodyIsForgotten, Held, InQueue, Got, HeldOnce, Hands, TypeOK, Ended, Completed
  <2>d. QED
    BY <2>a, <2>b, <2>c
<1>3. CASE Get
  <2>a. HeldOnce'
    BY <1>3 DEF Get, HeldOnce, Got, InQueue, Hands, TypeOK, Ended, Completed
  <2>b. Hands'
    BY <1>3 DEF Get, Hands, Got, TypeOK, Ended, Completed
  <2>c. NobodyIsForgotten'
    <3>1. \A d \in Commands : InQueue(d) => InQueue(d)' \/ getter' = d
      <4> SUFFICES ASSUME NEW d \in Commands, NEW i \in 1..Len(queue), queue[i] = d
                   PROVE  InQueue(d)' \/ getter' = d
        BY DEF InQueue
      <4>1. CASE i = 1
        BY <1>3, <4>1 DEF Get
      <4>2. CASE i # 1
        <5>1. i - 1 \in 1..Len(queue') /\ queue'[i - 1] = d
          BY <1>3, <4>2 DEF Get, TypeOK
        <5>2. QED
          BY <5>1 DEF InQueue
      <4>3. QED
        BY <4>1, <4>2
    <3>2. \A d \in Commands : getter # d /\ outcome' = outcome /\ current' = current /\ pc' = pc
      BY <1>3, CommandsAssumption DEF Get
    <3>3. QED
      BY <3>1, <3>2 DEF NobodyIsForgotten, Held, Ended
  <2>d. QED
    BY <2>a, <2>b, <2>c
<1>4. CASE Connect \/ Wait
  <2>a. HeldOnce'
    BY <1>4 DEF Connect, Wait, HeldOnce, Got, InQueue, Hands, TypeOK, Ended, Completed
  <2>b. Hands'
    BY <1>4 DEF Connect, Wait, Hands, Got, TypeOK, Ended, Completed
  <2>c. NobodyIsForgotten'
    BY <1>4 DEF Connect, Wait, NobodyIsForgotten, Held, InQueue, Got, HeldOnce, Hands, TypeOK, Ended, Completed
  <2>d. QED
    BY <2>a, <2>b, <2>c
<1>5. CASE Turn
  <2>a. HeldOnce'
    BY <1>5 DEF Turn, HeldOnce, Got, InQueue, Hands, TypeOK, Ended, Completed
  <2>b. Hands'
    BY <1>5 DEF Turn, Hands, Got, TypeOK, Ended, Completed
  <2>c. NobodyIsForgotten'
    BY <1>5 DEF Turn, NobodyIsForgotten, Held, InQueue, Got, HeldOnce, Hands, TypeOK, Ended, Completed
  <2>d. QED
    BY <2>a, <2>b, <2>c
<1>6. CASE StreamClosed \/ CancelWait
  <2>a. HeldOnce'
    <3>1. queue' = queue /\ getter' = "none" /\ current' = "none"
      BY <1>6 DEF StreamClosed, CancelWait, LeaveLoop, Hands
    <3>2. \A i \in 1..Len(queue) : queue[i] \in Commands /\ outcome'[queue[i]] = "waiting"
      <4>1. \A d \in Commands : d # getter => outcome'[d] = outcome[d]
        BY <1>6, CompleteOne DEF StreamClosed, CancelWait, LeaveLoop, Got
      <4>2. QED
        BY <4>1 DEF HeldOnce, TypeOK
    <3>3. QED
      BY <3>1, <3>2 DEF HeldOnce, Got
  <2>b. Hands'
    BY <1>6 DEF StreamClosed, CancelWait, LeaveLoop, Hands, Got, TypeOK, Ended, Completed
  <2>c. NobodyIsForgotten'
    BY SMTT(30), <1>6, CompleteOne DEF StreamClosed, CancelWait, LeaveLoop, NobodyIsForgotten, Held, InQueue, Got, HeldOnce, Hands, TypeOK, Ended, Completed
  <2>d. QED
    BY <2>a, <2>b, <2>c
<1>7. CASE Dispatched
  <2>a. HeldOnce'
    BY <1>7, CompleteOne DEF Dispatched, HeldOnce, Got, InQueue, Hands, TypeOK, Ended, Completed
  <2>b. Hands'
    BY <1>7 DEF Dispatched, Hands, Got, TypeOK, Ended, Completed
  <2>c. NobodyIsForgotten'
    <3>1. /\ queue' = queue /\ getter' = getter /\ pc' \notin Ended
          /\ outcome'[current] # "waiting"
          /\ \A d \in Commands \ {current} : outcome'[d] = outcome[d]
      BY <1>7, CompleteOne DEF Dispatched, Hands, TypeOK, Ended, Completed
    <3>2. QED
      BY <3>1 DEF NobodyIsForgotten, Held, InQueue
  <2>d. QED
    BY <2>a, <2>b, <2>c
<1>8. ASSUME NEW reason \in Reasons, ConnectFails(reason) \/ Exit(reason) PROVE (HeldOnce /\ Hands /\ NobodyIsForgotten)'
  <2>0. Drain(reason)
    BY <1>8 DEF ConnectFails, Exit
  <2>a. HeldOnce'
    BY <1>8, <2>0, DrainCompletes DEF ConnectFails, Exit, HeldOnce, Got, InQueue, Hands, TypeOK, Ended, Completed
  <2>b. Hands'
    BY <1>8, <2>0, DrainCompletes DEF ConnectFails, Exit, Hands, Got, TypeOK, Ended, Completed
  <2>c. NobodyIsForgotten'
    <3>1. getter = "none" /\ current = "none"
      BY <1>8 DEF ConnectFails, Exit, Hands
    <3>2. \A c \in Commands : outcome[c] = "waiting" => InQueue(c)
      BY <3>1 DEF NobodyIsForgotten, Held
    <3>3. \A c \in Commands : outcome'[c] # "waiting"
      BY <2>0, <3>2, DrainCompletes DEF Completed
    <3>4. QED
      BY <3>3 DEF NobodyIsForgotten
  <2>d. QED
    BY <2>a, <2>b, <2>c
<1>9. ASSUME NEW reason \in Reasons, DispatchRaises(reason) PROVE (HeldOnce /\ Hands /\ NobodyIsForgotten)'
  <2>a. HeldOnce'
    <3>1. /\ queue' = queue /\ getter' = getter /\ getter = "none" /\ current' = "none"
          /\ \A d \in Commands \ {current} : outcome'[d] = outcome[d]
      BY <1>9, CompleteOne DEF DispatchRaises, Hands, TypeOK
    <3>2. \A i \in 1..Len(queue) : queue[i] \in Commands \ {current}
      BY DEF HeldOnce, TypeOK
    <3>3. QED
      BY <3>1, <3>2 DEF HeldOnce, Got
  <2>b. Hands'
    BY <1>9 DEF DispatchRaises, Hands, Got, TypeOK, Ended, Completed
  <2>c. NobodyIsForgotten'
    BY <1>9, CompleteOne DEF DispatchRaises, NobodyIsForgotten, Held, InQueue, Got, HeldOnce, Hands, TypeOK, Ended, Completed
  <2>d. QED
    BY <2>a, <2>b, <2>c
<1>10. CASE UNCHANGED vars
  <2>a. HeldOnce'
    BY <1>10 DEF vars, stream, HeldOnce, Got, InQueue, Hands, TypeOK, Ended, Completed
  <2>b. Hands'
    BY <1>10 DEF vars, stream, Hands, Got, TypeOK, Ended, Completed
  <2>c. NobodyIsForgotten'
    BY <1>10 DEF vars, stream, NobodyIsForgotten, Held, InQueue, Got, HeldOnce, Hands, TypeOK, Ended, Completed
  <2>d. QED
    BY <2>a, <2>b, <2>c
<1>11. QED
  BY Steps, <1>1, <1>2, <1>3, <1>4, <1>5, <1>6, <1>7, <1>8, <1>9, <1>10

(* A frame off the stream stays with the reader until it is delivered. *)
LEMMA FrameStep == Inv /\ [Next]_vars => NoFrameIsLost'
<1> SUFFICES ASSUME Inv, [Next]_vars PROVE NoFrameIsLost'
  OBVIOUS
<1>0. TypeOK /\ NoFrameIsLost
  BY DEF Inv
<1> USE <1>0 DEF NoFrameIsLost, TypeOK, Ended
<1>1. CASE \E c \in Commands : Enqueue(c)
  BY <1>1 DEF Enqueue, stream
<1>2. CASE Write \/ CliExits \/ Read
  BY <1>2 DEF Write, CliExits, Read
<1>3. CASE Get \/ Connect \/ Wait
  BY <1>3 DEF Get, Connect, Wait, Arm, stream
<1>4. CASE Turn
  <2>a. CASE reader = "frame"
    BY <1>4, <2>a DEF Turn
  <2>b. CASE reader # "frame"
    BY <1>4, <2>b DEF Turn
  <2>c. QED
    BY <2>a, <2>b
<1>5. CASE StreamClosed \/ CancelWait
  BY <1>5 DEF StreamClosed, CancelWait, LeaveLoop
<1>6. CASE Dispatched
  BY <1>6 DEF Dispatched, stream
<1>7. CASE \E reason \in Reasons : ConnectFails(reason) \/ Exit(reason) \/ DispatchRaises(reason)
  BY <1>7 DEF ConnectFails, Exit, DispatchRaises
<1>8. CASE UNCHANGED vars
  BY <1>8 DEF vars, stream
<1>9. QED
  BY Steps, <1>1, <1>2, <1>3, <1>4, <1>5, <1>6, <1>7, <1>8

LEMMA InvStep == Inv /\ [Next]_vars => Inv'
BY TypeStep, HeldStep, FrameStep DEF Inv

(* The order of the commands survives each step. *)
LEMMA OrderStep == Inv /\ OrderInv /\ [Next]_vars => OrderInv'
<1> SUFFICES ASSUME Inv, OrderInv, [Next]_vars PROVE OrderInv'
  OBVIOUS
<1>0. TypeOK /\ Hands /\ InOrder /\ OrderIsSplit /\ TypeOK'
  BY TypeStep DEF Inv, OrderInv
<1> USE <1>0, CommandsAssumption DEF OrderInv
<1>1. ASSUME NEW c \in Commands, Enqueue(c) PROVE OrderInv'
  <2>0. UNCHANGED <<pc, getter, begun>>
    BY <1>1 DEF Enqueue
  <2>a. CASE UNCHANGED <<queue, order>>
    BY <2>0, <2>a DEF InOrder, OrderIsSplit, Alive, InHand, Got
  <2>b. CASE queue' = Append(queue, c) /\ order' = Append(order, c)
    <3>1. InOrder'
      BY <2>0, <2>b DEF InOrder, TypeOK
    <3>2. OrderIsSplit'
      <4>1. (Alive' <=> Alive) /\ InHand' = InHand /\ (Got' <=> Got) /\ InHand \in 0..1
        BY <2>0 DEF Alive, InHand, Got
      <4>2. /\ Len(queue') = Len(queue) + 1 /\ queue'[Len(queue) + 1] = c
            /\ \A i \in 1..Len(queue) : queue'[i] = queue[i]
            /\ Len(order') = Len(order) + 1 /\ order'[Len(order) + 1] = c
            /\ \A i \in 1..Len(order) : order'[i] = order[i]
            /\ Len(queue) \in Nat /\ Len(order) \in Nat /\ Len(begun) \in Nat
        BY <2>b DEF TypeOK
      <4>3. CASE Alive
        <5>1. Len(order') = (Len(begun) + InHand + Len(queue'))
          BY <4>1, <4>2, <4>3 DEF OrderIsSplit
        <5>2. Got => order'[Len(begun) + 1] = getter
          BY <4>1, <4>2, <4>3 DEF OrderIsSplit, InHand
        <5>3. \A i \in 1..Len(queue') : order'[Len(begun) + InHand + i] = queue'[i]
          <6>0. /\ Len(order) = Len(begun) + InHand + Len(queue)
                /\ \A i \in 1..Len(queue) : order[Len(begun) + InHand + i] = queue[i]
            BY <4>3 DEF OrderIsSplit
          <6> TAKE i \in 1..Len(queue')
          <6>1. CASE i = Len(queue) + 1
            <7>1. Len(begun) + InHand + i = Len(order) + 1
              BY <4>1, <4>2, <6>0, <6>1
            <7>2. QED
              BY <4>2, <6>1, <7>1
          <6>2. CASE i # Len(queue) + 1
            <7>1. i \in 1..Len(queue) /\ Len(begun) + InHand + i \in 1..Len(order)
              BY <4>1, <4>2, <6>0, <6>2
            <7>2. QED
              BY <4>2, <6>0, <7>1
          <6>3. QED
            BY <6>1, <6>2
        <5>4. QED
          BY <2>0, <4>1, <5>1, <5>2, <5>3 DEF OrderIsSplit
      <4>4. QED
        BY <4>1, <4>3 DEF OrderIsSplit
    <3>3. QED
      BY <3>1, <3>2
  <2>c. QED
    BY <1>1, <2>a, <2>b DEF Enqueue
<1>2. CASE Write \/ CliExits \/ Read
  BY <1>2 DEF Write, CliExits, Read, InOrder, OrderIsSplit, Alive, InHand, Got
<1>3. CASE Get
  <2>a. InOrder'
    BY <1>3 DEF Get, InOrder
  <2>b. OrderIsSplit'
    <3>1. /\ pc' = pc /\ order' = order /\ begun' = begun
          /\ queue # <<>> /\ getter' = queue[1] /\ ~Got /\ Got'
          /\ Len(queue') = Len(queue) - 1
          /\ \A i \in 1..Len(queue') : queue'[i] = queue[i + 1]
      BY <1>3 DEF Get, Got, TypeOK
    <3>2. QED
      <4>1. (Alive' <=> Alive) /\ InHand = 0 /\ InHand' = 1
        BY <3>1 DEF Alive, InHand
      <4>2. Len(queue) \in Nat /\ Len(queue) > 0 /\ Len(begun) \in Nat
        BY <3>1 DEF TypeOK
      <4>3. CASE Alive
        <5>1. /\ Len(order) = Len(begun) + Len(queue)
              /\ \A i \in 1..Len(queue) : order[Len(begun) + i] = queue[i]
          BY <4>1, <4>2, <4>3 DEF OrderIsSplit
        <5>2. Len(order) = Len(begun) + 1 + Len(queue')
          BY <3>1, <4>2, <5>1
        <5>3. order[Len(begun) + 1] = getter'
          BY <3>1, <4>2, <5>1
        <5>4. \A i \in 1..Len(queue') : order[Len(begun) + 1 + i] = queue'[i]
          <6> TAKE i \in 1..Len(queue')
          <6>1. i + 1 \in 1..Len(queue) /\ Len(begun) + 1 + i = Len(begun) + (i + 1)
            BY <3>1, <4>2
          <6>2. QED
            BY <3>1, <5>1, <6>1
        <5>5. QED
          BY <3>1, <4>1, <5>2, <5>3, <5>4 DEF OrderIsSplit
      <4>4. QED
        BY <4>1, <4>3 DEF OrderIsSplit
  <2>c. QED
    BY <2>a, <2>b
<1>4. CASE Connect \/ Wait
  <2>a. InOrder'
    BY <1>4 DEF Connect, Wait, InOrder
  <2>b. /\ UNCHANGED <<order, begun, queue>> /\ Alive
        /\ Got' <=> Got
        /\ Got => getter' = getter
    BY <1>4 DEF Connect, Wait, Alive, Got
  <2>c. OrderIsSplit'
    BY <2>b DEF OrderIsSplit, InHand
  <2>d. QED
    BY <2>a, <2>c
<1>5. CASE Turn
  <2>0. pc = "waiting" /\ UNCHANGED <<order, queue>>
    BY <1>5 DEF Turn
  <2>a. CASE Got
    <3>1. begun' = Append(begun, getter) /\ getter' = "none" /\ ~Got'
      BY <1>5, <2>a DEF Turn, Got
    <3>2. InOrder'
      BY <2>0, <2>a, <3>1 DEF InOrder, OrderIsSplit, Alive, InHand, TypeOK
    <3>3. OrderIsSplit'
      BY <2>0, <2>a, <3>1 DEF OrderIsSplit, Alive, InHand, TypeOK
    <3>4. QED
      BY <3>2, <3>3
  <2>b. CASE ~Got
    <3>1. UNCHANGED <<begun, getter>>
      BY <1>5, <2>b DEF Turn
    <3>2. QED
      BY <2>0, <3>1 DEF InOrder, OrderIsSplit, Alive, InHand, Got
  <2>c. QED
    BY <2>a, <2>b
<1>6. CASE Dispatched
  BY <1>6 DEF Dispatched, InOrder, OrderIsSplit, Alive, InHand, Got
<1>7. CASE \/ StreamClosed \/ CancelWait
           \/ \E reason \in Reasons : ConnectFails(reason) \/ Exit(reason) \/ DispatchRaises(reason)
  BY <1>7 DEF StreamClosed, CancelWait, LeaveLoop, ConnectFails, Exit, DispatchRaises,
              InOrder, OrderIsSplit, Alive
<1>8. CASE UNCHANGED vars
  BY <1>8 DEF vars, InOrder, OrderIsSplit, Alive, InHand, Got
<1>9. QED
  BY Steps, <1>1, <1>2, <1>3, <1>4, <1>5, <1>6, <1>7, <1>8

-----------------------------------------------------------------------------
(* The actor keeps its state well typed, its invariants and its order. *)
THEOREM Invariance == Spec => [](Inv /\ OrderInv)
<1>1. Inv /\ OrderInv /\ [Next]_vars => (Inv /\ OrderInv)'
  BY InvStep, OrderStep
<1>2. QED
  BY InitInv, <1>1, PTL DEF Spec

(* The state is well typed; the frames delivered never exceed those written. *)
THEOREM TypeCorrect == Spec => []TypeOK
BY Invariance, PTL DEF Inv

(* Whatever ends the actor, in whatever turn, a command that waits is with   *)
(* somebody who will complete it.                                            *)
THEOREM NobodyForgotten == Spec => []NobodyIsForgotten
BY Invariance, PTL DEF Inv

(* Commands reach the client in the order of the queue, none twice. *)
THEOREM CommandOrder == Spec => []InOrder
BY Invariance, PTL DEF OrderInv

(* The single reader hands every frame to on_message while the session lives. *)
THEOREM FramesDelivered == Spec => []NoFrameIsLost
BY Invariance, PTL DEF Inv

(* Neither of the two streams between a session and its CLI loses its order.  *)
THEOREM StreamsKept == Spec => []StreamsAreKept
BY TypeCorrect, CommandOrder, FramesDelivered, PTL DEF StreamsAreKept

(* What a caller was told is never changed: every path that completes a      *)
(* command finds it waiting.                                                 *)
THEOREM SettledOnce == Spec => CompletedOnce
<1>1. Inv /\ [Next]_vars =>
          [\A c \in Commands : outcome[c] \in Completed => outcome'[c] = outcome[c]]_vars
  <2> SUFFICES ASSUME Inv, [Next]_vars, NEW c \in Commands, outcome[c] \in Completed
               PROVE  outcome'[c] = outcome[c]
    OBVIOUS
  <2>0. TypeOK /\ HeldOnce /\ outcome[c] # "waiting" /\ outcome[c] # "new"
    BY DEF Inv, Completed
  <2> USE <2>0, CommandsAssumption, ClosedCompletes
  <2>a. ASSUME NEW d \in Commands, Enqueue(d) PROVE outcome'[c] = outcome[c]
    BY <2>a, CompleteOne DEF Enqueue
  <2>b. CASE Write \/ CliExits \/ Read \/ Get \/ Connect \/ Wait \/ Turn
    BY <2>b DEF Write, CliExits, Read, Get, Connect, Wait, Turn
  <2>c. CASE StreamClosed \/ CancelWait
    BY <2>c, CompleteOne DEF StreamClosed, CancelWait, LeaveLoop, Got, HeldOnce
  <2>d. CASE Dispatched \/ \E reason \in Reasons : DispatchRaises(reason)
    BY <2>d, CompleteOne DEF Dispatched, DispatchRaises, Inv, Hands, HeldOnce, TypeOK, Completed
  <2>e. ASSUME NEW reason \in Reasons, ConnectFails(reason) \/ Exit(reason)
        PROVE  outcome'[c] = outcome[c]
    BY <2>e, DrainCompletes DEF ConnectFails, Exit, InQueue, HeldOnce
  <2>f. CASE UNCHANGED vars
    BY <2>f DEF vars
  <2>g. QED
    BY Steps, <2>a, <2>b, <2>c, <2>d, <2>e, <2>f
<1>2. QED
  BY Invariance, <1>1, PTL DEF Spec, CompletedOnce

-----------------------------------------------------------------------------
(* The turns. *)

(* The notices the actor leaves in the inbox, and their kinds. *)
LEMMA Notices ==
  /\ \A k \in {"work", "busy", "exit", "crash", "stop"} \cup Terminal : Of(k) \in Notice /\ Of(k).kind = k
  /\ \A e \in Nat : IdleOf(e) \in Notice /\ IdleOf(e).kind = "idle" /\ IdleOf(e).epoch = e
  /\ \A n \in Notice : n.kind = "idle" => n.epoch \in Nat
  /\ \A n \in Notice : n.kind \in {"idle", "work", "busy", "exit", "crash", "stop"} \cup Terminal
BY DEF Of, IdleOf, Notice, Terminal

(* A notice more in the inbox of a connection, and nothing else. *)
LEMMA Pushed ==
  ASSUME NEW c \in Connection, NEW n \in Notice
  PROVE  /\ Push(c, n) \in Connection
         /\ Push(c, n) = [c EXCEPT !.queue = Append(c.queue, n)]
         /\ Push(c, n).queue = Append(c.queue, n) /\ Push(c, n).status = c.status
         /\ Push(c, n).epoch = c.epoch /\ Push(c, n).idleEpoch = c.idleEpoch
         /\ Push(c, n).stopped = c.stopped /\ Push(c, n).actor = c.actor
         /\ Push(c, n).cli = c.cli /\ Push(c, n).held = c.held
<1>1. c.queue \in Seq(Notice) /\ Append(c.queue, n) \in Seq(Notice)
  BY DEF Connection
<1> DEFINE q == Append(c.queue, n)
<1> HIDE DEF q
<1>2. Push(c, n) = [c EXCEPT !.queue = q]
  BY DEF Push, q
<1>3. q \in Seq(Notice)
  BY <1>1 DEF q
<1>4. [c EXCEPT !.queue = q] \in Connection
  BY <1>3 DEF Connection
<1>5. LET d == [c EXCEPT !.queue = q]
      IN  /\ d.queue = q /\ d.status = c.status /\ d.epoch = c.epoch /\ d.idleEpoch = c.idleEpoch
          /\ d.stopped = c.stopped /\ d.actor = c.actor /\ d.cli = c.cli /\ d.held = c.held
  BY DEF Connection
<1> QED
  BY <1>2, <1>4, <1>5 DEF q

(* enter_running leaves the inbox and the CLI alone. *)
LEMMA Entered ==
  ASSUME NEW c \in Connection
  PROVE  /\ EnterRunning(c) \in Connection
         /\ EnterRunning(c).queue = c.queue /\ EnterRunning(c).status = "running"
         /\ EnterRunning(c).epoch = c.epoch + 1 /\ EnterRunning(c).idleEpoch = c.idleEpoch
         /\ EnterRunning(c).stopped = c.stopped /\ EnterRunning(c).actor = c.actor
         /\ EnterRunning(c).cli = c.cli /\ EnterRunning(c).held = c.held
<1> DEFINE o == IF c.status = "running" THEN c.outcome ELSE "none"
           d == [c EXCEPT !.epoch = c.epoch + 1, !.timer = FALSE, !.status = "running", !.outcome = o]
<1>1. EnterRunning(c) = d
  BY DEF EnterRunning, Connection
<1>2. o \in {"none"} \cup Terminal /\ c.epoch + 1 \in Nat /\ "running" \in Status
  BY DEF Connection, Status
<1> HIDE DEF o
<1>3. d \in Connection
  BY <1>2 DEF Connection
<1>4. /\ d.queue = c.queue /\ d.status = "running" /\ d.epoch = c.epoch + 1 /\ d.idleEpoch = c.idleEpoch
      /\ d.stopped = c.stopped /\ d.actor = c.actor /\ d.cli = c.cli /\ d.held = c.held
  BY DEF Connection
<1> QED
  BY <1>1, <1>3, <1>4

(* abandon_running announces at most one idle again, of the present epoch. *)
LEMMA Abandoned ==
  ASSUME NEW c \in Connection, NEW e \in Nat
  PROVE  /\ AbandonRunning(c, e) \in Connection
         /\ AbandonRunning(c, e).queue \in {c.queue, Append(c.queue, IdleOf(c.epoch))}
         /\ AbandonRunning(c, e).status = c.status
         /\ AbandonRunning(c, e).epoch = c.epoch
         /\ AbandonRunning(c, e).stopped = c.stopped /\ AbandonRunning(c, e).actor = c.actor
         /\ AbandonRunning(c, e).cli = c.cli
<1>1. c.epoch \in Nat
  BY DEF Connection
<1>2. [c EXCEPT !.idleEpoch = c.epoch] \in Connection
  BY <1>1 DEF Connection
<1> DEFINE d == [c EXCEPT !.idleEpoch = c.epoch]
<1>3. d.queue = c.queue /\ d.status = c.status /\ d.epoch = c.epoch /\ d.stopped = c.stopped
      /\ d.actor = c.actor /\ d.cli = c.cli
  BY DEF Connection
<1>4. IdleOf(c.epoch) \in Notice
  BY <1>1, Notices
<1> HIDE DEF d
<1>5. Push(d, IdleOf(c.epoch)) \in Connection
      /\ Push(d, IdleOf(c.epoch)).queue = Append(c.queue, IdleOf(c.epoch))
      /\ Push(d, IdleOf(c.epoch)).status = c.status /\ Push(d, IdleOf(c.epoch)).epoch = c.epoch
      /\ Push(d, IdleOf(c.epoch)).stopped = c.stopped /\ Push(d, IdleOf(c.epoch)).actor = c.actor
      /\ Push(d, IdleOf(c.epoch)).cli = c.cli
  BY <1>2, <1>3, <1>4, Pushed DEF d
<1> QED
  BY <1>5 DEF AbandonRunning, d

-----------------------------------------------------------------------------
(* What waits in an inbox. *)
HasIn(q, kinds) == \E i \in 1..Len(q) : q[i].kind \in kinds
IdlesBelow(q, e) == \A i \in 1..Len(q) : q[i].kind = "idle" => q[i].epoch < e
BusyBehind(q, e) ==
    \A i, j \in 1..Len(q) : i < j /\ q[i].kind = "idle" /\ q[j].kind = "busy" => q[i].epoch < e

(* What a notice more means for what waits. *)
LEMMA Appended ==
  ASSUME NEW q \in Seq(Notice), NEW n \in Notice, NEW e \in Nat
  PROVE  /\ \A k : HasIn(Append(q, n), k) <=> HasIn(q, k) \/ n.kind \in k
         /\ IdlesBelow(Append(q, n), e) <=> IdlesBelow(q, e) /\ (n.kind = "idle" => n.epoch < e)
         /\ BusyBehind(q, e) /\ (n.kind = "busy" => IdlesBelow(q, e)) => BusyBehind(Append(q, n), e)
<1> DEFINE r == Append(q, n)
<1>1. Len(r) = Len(q) + 1 /\ Len(q) \in Nat /\ r[Len(q) + 1] = n /\ \A i \in 1..Len(q) : r[i] = q[i]
  OBVIOUS
<1> HIDE DEF r
<1>2. \A i : i \in 1..Len(r) <=> i \in 1..Len(q) \/ i = Len(q) + 1
  BY <1>1
<1>3. \A k : HasIn(r, k) <=> HasIn(q, k) \/ n.kind \in k
  BY <1>1, <1>2 DEF HasIn
<1>4. IdlesBelow(r, e) <=> IdlesBelow(q, e) /\ (n.kind = "idle" => n.epoch < e)
  BY <1>1, <1>2 DEF IdlesBelow
<1>5. BusyBehind(q, e) /\ (n.kind = "busy" => IdlesBelow(q, e)) => BusyBehind(r, e)
  BY <1>1, <1>2 DEF BusyBehind, IdlesBelow
<1> QED
  BY <1>3, <1>4, <1>5 DEF r

(* What the first notice leaves behind. *)
LEMMA Taken ==
  ASSUME NEW q \in Seq(Notice), q # <<>>, NEW e \in Nat
  PROVE  /\ Head(q) \in Notice /\ Tail(q) \in Seq(Notice)
         /\ \A k : HasIn(q, k) <=> Head(q).kind \in k \/ HasIn(Tail(q), k)
         /\ IdlesBelow(q, e) <=> IdlesBelow(Tail(q), e) /\ (Head(q).kind = "idle" => Head(q).epoch < e)
         /\ BusyBehind(q, e) =>
              /\ BusyBehind(Tail(q), e)
              /\ Head(q).kind = "idle" /\ HasIn(Tail(q), {"busy"}) => Head(q).epoch < e
<1> DEFINE r == Tail(q)
<1>1. Len(q) = Len(r) + 1 /\ Len(r) \in Nat /\ Head(q) = q[1] /\ Head(q) \in Notice /\ r \in Seq(Notice)
      /\ \A i \in 1..Len(r) : r[i] = q[i + 1]
  OBVIOUS
<1> HIDE DEF r
<1>2. \A i : i \in 1..Len(q) => i = 1 \/ (i - 1 \in 1..Len(r) /\ q[i] = r[i - 1])
  BY <1>1
<1>3. \A i \in 1..Len(r) : i + 1 \in 1..Len(q) /\ r[i] = q[i + 1]
  BY <1>1
<1>4. 1 \in 1..Len(q)
  BY <1>1
<1>5. \A k : HasIn(q, k) <=> Head(q).kind \in k \/ HasIn(r, k)
  BY <1>1, <1>2, <1>3, <1>4 DEF HasIn
<1>6. IdlesBelow(q, e) <=> IdlesBelow(r, e) /\ (Head(q).kind = "idle" => Head(q).epoch < e)
  BY <1>1, <1>2, <1>3, <1>4 DEF IdlesBelow
<1>7. BusyBehind(q, e) => BusyBehind(r, e)
  BY <1>1, <1>3 DEF BusyBehind
<1>8. BusyBehind(q, e) /\ Head(q).kind = "idle" /\ HasIn(r, {"busy"}) => Head(q).epoch < e
  BY <1>1, <1>3, <1>4 DEF BusyBehind, HasIn
<1> QED
  BY <1>1, <1>5, <1>6, <1>7, <1>8 DEF r

(* An idle below an epoch is below every later one. *)
LEMMA Later ==
  ASSUME NEW q \in Seq(Notice), NEW e \in Nat, NEW f \in Nat, e <= f
  PROVE  /\ IdlesBelow(q, e) => IdlesBelow(q, f) /\ BusyBehind(q, f)
         /\ BusyBehind(q, e) => BusyBehind(q, f)
<1>1. \A i \in 1..Len(q) : q[i].kind = "idle" => q[i].epoch \in Nat
  BY Notices
<1> QED
  BY <1>1 DEF IdlesBelow, BusyBehind

-----------------------------------------------------------------------------
(* What becomes of a connection, and of the others. *)
Becomes(g, status, epoch, waiting, stopped, actor, cli) ==
    /\ conn' \in [Conns -> Connection]
    /\ \A h \in Conns \ {g} : conn'[h] = conn[h]
    /\ conn'[g].status = status /\ conn'[g].epoch = epoch /\ conn'[g].queue = waiting
    /\ conn'[g].stopped = stopped /\ conn'[g].actor = actor /\ conn'[g].cli = cli
Stays == conn' \in [Conns -> Connection]
         /\ \A g \in Conns : /\ conn'[g].status = conn[g].status /\ conn'[g].epoch = conn[g].epoch
                             /\ conn'[g].queue = conn[g].queue /\ conn'[g].stopped = conn[g].stopped
                             /\ conn'[g].actor = conn[g].actor /\ conn'[g].cli = conn[g].cli

(* A connection for another, and the other connections stay. *)
LEMMA Replaced ==
  ASSUME conn \in [Conns -> Connection], NEW g \in Conns, NEW c \in Connection, conn' = [conn EXCEPT ![g] = c]
  PROVE  Becomes(g, c.status, c.epoch, c.queue, c.stopped, c.actor, c.cli)
BY DEF Becomes

(* The type invariant and the connection, action by action. *)

LEMMA Unmoved ==
  ASSUME TurnsTypeOK, UNCHANGED conn
  PROVE  Stays
BY DEF Stays, TurnsTypeOK

(* A request reads the row, or is answered as the one before it. *)
LEMMA ReadMoves ==
  ASSUME TurnsTypeOK, NEW s \in Senders, ReadMeta(s) \/ Repeated(s)
  PROVE  TurnsTypeOK' /\ Stays
<1>1. sender' \in [Senders -> SenderState]
  BY DEF TurnsTypeOK, SenderState, ReadMeta, Repeated
<1> QED
  BY <1>1, Unmoved DEF TurnsTypeOK, ReadMeta, Repeated

(* A request finds the connection, finds it ended, or comes too late. *)
LEMMA BeginMoves ==
  ASSUME TurnsTypeOK, NEW s \in Senders, Begin(s) \/ Retire(s) \/ TooLate(s)
  PROVE  TurnsTypeOK' /\ Stays
<1>1. CASE Begin(s)
  <2>1. sender' \in [Senders -> SenderState]
    <3>1. sender' = [sender EXCEPT ![s].pc = "found", ![s].on = live] /\ live \in {0} \cup Conns
      BY <1>1 DEF TurnsTypeOK, Begin
    <3> HIDE <1>1
    <3> QED
      BY <3>1 DEF TurnsTypeOK, SenderState
  <2> QED
    BY <1>1, <2>1, Unmoved DEF TurnsTypeOK, Begin
<1>2. CASE Retire(s)
  <2>1. evict' \in EvictState
    BY <1>2 DEF TurnsTypeOK, EvictState, Retire, EvictOne
  <2> QED
    BY <1>2, <2>1, Unmoved DEF TurnsTypeOK, Retire
<1>3. CASE TooLate(s)
  <2>1. conn[IF live = 0 THEN sender[s].on ELSE live].status \in Status
    <3>1. live # 0 => conn[live].status \in Status
      BY DEF TurnsTypeOK, Connection
    <3>2. sender[s].on # 0 => conn[sender[s].on].status \in Status
      BY DEF TurnsTypeOK, SenderState, Connection
    <3> QED
      BY <1>3, <3>1, <3>2 DEF TurnsTypeOK, TooLate
  <2>2. sender' \in [Senders -> SenderState]
    <3> DEFINE w == conn[IF live = 0 THEN sender[s].on ELSE live].status
    <3>1. sender' = [sender EXCEPT ![s].pc = "rewrite", ![s].write = w] /\ w \in Status
      BY <1>3, <2>1 DEF TooLate
    <3> HIDE <1>3 DEF w
    <3> QED
      BY <3>1 DEF TurnsTypeOK, SenderState
  <2> QED
    BY <1>3, <2>2, Unmoved DEF TurnsTypeOK, TooLate, Status
<1> QED
  BY <1>1, <1>2, <1>3

(* A request connects the session anew. *)
LEMMA ConnectMoves ==
  ASSUME TurnsTypeOK, NEW s \in Senders, ConnectResumed(s)
  PROVE  TurnsTypeOK' /\ \E g \in Conns :
           /\ conn[g].actor = "none" /\ live' = g /\ sender'[s].on = g
           /\ IF sender[s].seen = "running" THEN assumed' = assumed \cup {g} ELSE assumed' = assumed \ {g}
           /\ Becomes(g, IF sender[s].seen = "completed" THEN "idle" ELSE sender[s].seen, conn[g].epoch, conn[g].queue,
                      conn[g].stopped, "up", conn[g].cli)
<1>1. PICK g \in Conns :
        /\ conn[g].actor = "none" /\ live' = g
        /\ assumed' = IF sender[s].seen = "running" THEN assumed \cup {g} ELSE assumed \ {g}
        /\ conn' = [conn EXCEPT ![g].actor = "up", ![g].status = IF sender[s].seen = "completed" THEN "idle" ELSE sender[s].seen]
        /\ sender' = [sender EXCEPT ![s].pc = "found", ![s].on = g]
  BY Zenon DEF ConnectResumed
<1> DEFINE c == [conn[g] EXCEPT !.actor = "up", !.status = IF sender[s].seen = "completed" THEN "idle" ELSE sender[s].seen]
<1>2. conn[g] \in Connection /\ (IF sender[s].seen = "completed" THEN "idle" ELSE sender[s].seen) \in Status
  BY DEF TurnsTypeOK, SenderState, Status
<1>3. c \in Connection
  BY <1>2 DEF Connection
<1>4. /\ c.status = (IF sender[s].seen = "completed" THEN "idle" ELSE sender[s].seen) /\ c.epoch = conn[g].epoch
      /\ c.queue = conn[g].queue /\ c.stopped = conn[g].stopped /\ c.actor = "up" /\ c.cli = conn[g].cli
  BY <1>2 DEF Connection
<1>5. conn' = [conn EXCEPT ![g] = c]
  BY <1>1
<1> HIDE DEF c
<1>6. conn \in [Conns -> Connection]
  BY DEF TurnsTypeOK
<1>7. Becomes(g, c.status, c.epoch, c.queue, c.stopped, c.actor, c.cli)
  BY <1>3, <1>5, <1>6, Replaced
<1>8. UNCHANGED <<db, inbox, evict, ownTurns, crashes, failed>>
  BY Zenon DEF ConnectResumed
<1>9. TurnsTypeOK' /\ sender'[s].on = g
  <2>1. sender' \in [Senders -> SenderState] /\ sender'[s].on = g
    BY <1>1 DEF TurnsTypeOK, SenderState
  <2> QED
    BY <1>1, <1>7, <1>8, <2>1 DEF TurnsTypeOK, Becomes
<1> QED
  BY <1>1, <1>4, <1>7, <1>9 DEF TurnsTypeOK

(* A request enters the run, before its write and after it. *)
LEMMA RegisterMoves ==
  ASSUME TurnsTypeOK, NEW s \in Senders, Register(s) \/ Send(s), sender[s].on # 0
  PROVE  LET g == sender[s].on IN
         /\ TurnsTypeOK'
         /\ Becomes(g, "running", conn[g].epoch + 1, conn[g].queue, conn[g].stopped, conn[g].actor, conn[g].cli)
<1> DEFINE g == sender[s].on
           c == EnterRunning(conn[g])
<1>1. g \in Conns /\ conn[g] \in Connection /\ conn \in [Conns -> Connection]
  BY DEF TurnsTypeOK, SenderState
<1>2. c \in Connection /\ conn' = [conn EXCEPT ![g] = c]
  BY <1>1, Entered DEF Register, Send
<1>3. /\ c.status = "running" /\ c.epoch = conn[g].epoch + 1 /\ c.queue = conn[g].queue
      /\ c.stopped = conn[g].stopped /\ c.actor = conn[g].actor /\ c.cli = conn[g].cli
  BY <1>1, Entered
<1>4. conn[g].epoch \in Nat
  BY <1>1 DEF Connection
<1> HIDE DEF c
<1>5. Becomes(g, c.status, c.epoch, c.queue, c.stopped, c.actor, c.cli)
  BY <1>1, <1>2, Replaced
<1>6. TurnsTypeOK'
  <2>1. conn' \in [Conns -> Connection]
    BY <1>5 DEF Becomes
  <2>2. CASE Register(s)
    <3>1. sender' \in [Senders -> SenderState]
      <4>1. (conn[g].status = "running") \in BOOLEAN /\ "running" \in Status
        BY DEF Status
      <4> DEFINE joined == (conn[g].status = "running")
                 e == conn[g].epoch
      <4>2. sender' = [sender EXCEPT ![s].pc = "db", ![s].epoch = e, ![s].joined = joined, ![s].write = "running"]
        BY <2>2 DEF Register
      <4>3. e \in Nat /\ joined \in BOOLEAN
        BY <1>4
      <4> DEFINE r == [sender[s] EXCEPT !.pc = "db", !.epoch = e, !.joined = joined, !.write = "running"]
      <4>4. sender' = [sender EXCEPT ![s] = r] /\ sender \in [Senders -> SenderState]
        BY <4>2 DEF TurnsTypeOK
      <4> HIDE <2>2 DEF joined, e
      <4>5. r \in SenderState
        BY <4>1, <4>3, <4>4 DEF SenderState
      <4> HIDE DEF r
      <4> QED
        BY <4>4, <4>5
    <3> QED
      BY <2>1, <2>2, <3>1 DEF TurnsTypeOK, Register
  <2>3. CASE Send(s)
    <3>1. \E at \in {"refused", "query"} : sender' = [sender EXCEPT ![s].pc = at]
      BY <2>3 DEF Send
    <3>2. sender' \in [Senders -> SenderState]
      BY <3>1 DEF TurnsTypeOK, SenderState
    <3> QED
      BY <2>1, <2>3, <3>2 DEF TurnsTypeOK, Send, Status
  <2> QED
    BY <2>2, <2>3
<1> QED
  BY <1>3, <1>5, <1>6

(* The error of a delivery is written, or not. *)
LEMMA ErrorMoves ==
  ASSUME TurnsTypeOK, TurnsAssumption, NEW s \in Senders, ErrorWritten(s)
  PROVE  TurnsTypeOK' /\ Stays
<1>1. failed' \subseteq Failing
  BY DEF ErrorWritten, Fails, TurnsTypeOK
<1>2. sender' \in [Senders -> SenderState]
  BY DEF TurnsTypeOK, SenderState, ErrorWritten
<1>3. db' \in Status
  BY DEF TurnsTypeOK, ErrorWritten, Status, Terminal
<1> QED
  BY <1>1, <1>2, <1>3, Unmoved DEF TurnsTypeOK, ErrorWritten

(* The tail of a delivery: an error, an idle announced again, or nothing. *)
LEMMA FailMoves ==
  ASSUME TurnsTypeOK, NEW s \in Senders, sender[s].on # 0, NEW c \in Connection, NEW delivering \in BOOLEAN,
         FailDelivery(s, c, delivering)
  PROVE  LET g == sender[s].on IN
         \E st, q :
           /\ Becomes(g, st, c.epoch, q, c.stopped, c.actor, c.cli)
           /\ sender' \in [Senders -> SenderState]
           /\ \A t \in Senders \ {s} : sender'[t] = sender[t]
           /\ sender'[s].on = g /\ sender'[s].pc \in {"errdb", "done"}
           /\ q \in {c.queue, Append(c.queue, IdleOf(c.epoch))} /\ (delivering => q = c.queue)
           /\ \/ sender'[s].pc = "done" /\ st = c.status
              \/ evict.pc = "off" /\ live = g /\ st = "error" /\ q = c.queue
<1> DEFINE g == sender[s].on
           e == sender[s].epoch
           error == [c EXCEPT !.status = "error"]
           left == IF sender[s].joined /\ ~delivering THEN AbandonRunning(c, e) ELSE c
<1>1. g \in Conns /\ e \in Nat /\ conn \in [Conns -> Connection]
  BY DEF TurnsTypeOK, SenderState
<1>2. CASE evict.pc = "off" /\ live = g /\ conn' = [conn EXCEPT ![g] = error]
           /\ sender' = [sender EXCEPT ![s].pc = "errdb", ![s].write = "error"]
  <2>1. error \in Connection
    BY DEF Connection, Status, Terminal
  <2>2. error.status = "error" /\ error.epoch = c.epoch /\ error.queue = c.queue
        /\ error.stopped = c.stopped /\ error.actor = c.actor /\ error.cli = c.cli
    BY DEF Connection
  <2> HIDE DEF error
  <2>3. Becomes(g, "error", c.epoch, c.queue, c.stopped, c.actor, c.cli)
    BY <1>1, <1>2, <2>1, <2>2, Replaced
  <2>4. /\ sender' \in [Senders -> SenderState] /\ sender'[s].on = g /\ sender'[s].pc = "errdb"
        /\ \A t \in Senders \ {s} : sender'[t] = sender[t]
    BY <1>2 DEF TurnsTypeOK, SenderState, Status, Terminal
  <2> QED
    BY <1>2, <2>3, <2>4
<1>3. CASE conn' = [conn EXCEPT ![g] = left] /\ sender' = [sender EXCEPT ![s].pc = "done"]
  <2>1. /\ left \in Connection /\ left.queue \in {c.queue, Append(c.queue, IdleOf(c.epoch))}
        /\ delivering => left.queue = c.queue
        /\ left.status = c.status /\ left.epoch = c.epoch /\ left.stopped = c.stopped
        /\ left.actor = c.actor /\ left.cli = c.cli
    BY <1>1, Abandoned
  <2> HIDE DEF left
  <2>2. Becomes(g, c.status, c.epoch, left.queue, c.stopped, c.actor, c.cli)
    BY <1>1, <1>3, <2>1, Replaced
  <2>3. /\ sender' \in [Senders -> SenderState] /\ sender'[s].on = g /\ sender'[s].pc = "done"
        /\ \A t \in Senders \ {s} : sender'[t] = sender[t]
    BY <1>3 DEF TurnsTypeOK, SenderState
  <2> QED
    BY <2>1, <2>2, <2>3
<1>4. \/ evict.pc = "off" /\ live = g /\ conn' = [conn EXCEPT ![g] = error]
         /\ sender' = [sender EXCEPT ![s].pc = "errdb", ![s].write = "error"]
      \/ conn' = [conn EXCEPT ![g] = left] /\ sender' = [sender EXCEPT ![s].pc = "done"]
  BY Zenon DEF FailDelivery
<1> QED
  BY <1>2, <1>3, <1>4

(* The write of running fails, or has been overwritten with the truth. *)
LEMMA WriteFailMoves ==
  ASSUME TurnsTypeOK, NEW s \in Senders, SendWriteFails(s) \/ Rewritten(s), sender[s].on # 0
  PROVE  LET g == sender[s].on IN
         /\ TurnsTypeOK'
         /\ \A t \in Senders \ {s} : sender'[t] = sender[t]
         /\ sender'[s].on = g /\ sender'[s].pc \in {"errdb", "done"}
         /\ \E st, q :
              /\ Becomes(g, st, conn[g].epoch, q, conn[g].stopped, conn[g].actor, conn[g].cli)
              /\ q \in {conn[g].queue, Append(conn[g].queue, IdleOf(conn[g].epoch))}
              /\ \/ sender'[s].pc = "done" /\ st = conn[g].status
                 \/ evict.pc = "off" /\ live = g
<1> DEFINE g == sender[s].on
<1>1. FailDelivery(s, conn[g], FALSE)
  BY DEF SendWriteFails, Rewritten
<1>2. conn[g] \in Connection
  BY DEF TurnsTypeOK, SenderState
<1>3. PICK st, q :
        /\ Becomes(g, st, conn[g].epoch, q, conn[g].stopped, conn[g].actor, conn[g].cli)
        /\ sender' \in [Senders -> SenderState]
        /\ \A t \in Senders \ {s} : sender'[t] = sender[t]
        /\ sender'[s].on = g /\ sender'[s].pc \in {"errdb", "done"}
        /\ q \in {conn[g].queue, Append(conn[g].queue, IdleOf(conn[g].epoch))}
        /\ \/ sender'[s].pc = "done" /\ st = conn[g].status
           \/ evict.pc = "off" /\ live = g
  BY <1>1, <1>2, FailMoves
<1>4. TurnsTypeOK'
  <2>1. CASE SendWriteFails(s)
    BY <1>3, <2>1 DEF SendWriteFails, Fails, TurnsTypeOK, Becomes
  <2>2. CASE Rewritten(s)
    BY <1>3, <2>2 DEF Rewritten, TurnsTypeOK, Becomes, SenderState
  <2> QED
    BY <2>1, <2>2
<1> QED
  BY <1>3, <1>4

(* The command is answered with an error. *)
LEMMA UndeliveredMoves ==
  ASSUME TurnsTypeOK, TurnsAssumption, NEW s \in Senders, Undelivered(s), sender[s].on # 0
  PROVE  LET g == sender[s].on IN
         /\ TurnsTypeOK'
         /\ \A t \in Senders \ {s} : sender'[t] = sender[t]
         /\ sender'[s].on = g /\ sender[s].pc \in {"query", "refused"}
         /\ sender'[s].pc = "done" \/ (sender'[s].pc = "errdb" /\ evict.pc = "off" /\ live = g)
         /\ \/ /\ conn[g].actor = "down" /\ UNCHANGED crashes
               /\ Becomes(g, "error", conn[g].epoch, conn[g].queue, conn[g].stopped, "down", conn[g].cli)
            \/ /\ conn[g].actor = "up" /\ crashes' = crashes + 1
               /\ Becomes(g, "error", conn[g].epoch, Append(conn[g].queue, Of("crash")), conn[g].stopped,
                          "down", "gone")
<1> DEFINE g == sender[s].on
           breaks == sender[s].pc = "query" /\ conn[g].actor = "up"
           sent == Push(conn[g], Of("crash"))
           broken == [sent EXCEPT !.actor = "down", !.cli = "gone", !.held = 0]
           d == [(IF breaks THEN broken ELSE conn[g]) EXCEPT !.status = "error"]
<1>1. conn[g] \in Connection /\ "error" \in Status
  BY DEF TurnsTypeOK, SenderState, Status, Terminal
<1>2. /\ breaks \/ (sender[s].pc \in {"query", "refused"} /\ conn[g].actor = "down")
      /\ IF breaks THEN crashes < MaxCrashes /\ crashes' = crashes + 1 ELSE UNCHANGED crashes
      /\ FailDelivery(s, d, TRUE)
      /\ UNCHANGED <<live, db, inbox, evict, assumed, ownTurns, failed>>
  BY Zenon DEF Undelivered
<1>crash. Of("crash") \in Notice
  BY Notices
<1>3. /\ sent \in Connection /\ sent.queue = Append(conn[g].queue, Of("crash"))
      /\ sent.epoch = conn[g].epoch /\ sent.stopped = conn[g].stopped
  BY <1>1, <1>crash, Pushed
<1> HIDE DEF sent
<1>4. /\ broken \in Connection /\ broken.queue = Append(conn[g].queue, Of("crash"))
      /\ broken.epoch = conn[g].epoch /\ broken.stopped = conn[g].stopped
      /\ broken.actor = "down" /\ broken.cli = "gone"
  BY <1>3 DEF Connection
<1> HIDE DEF broken
<1> DEFINE b == IF breaks THEN broken ELSE conn[g]
<1>5. b \in Connection
  BY <1>1, <1>4
<1>6. d = [b EXCEPT !.status = "error"]
  OBVIOUS
<1> HIDE DEF b, d
<1>7. /\ d \in Connection /\ d.status = "error" /\ d.queue = b.queue /\ d.epoch = b.epoch
      /\ d.stopped = b.stopped /\ d.actor = b.actor /\ d.cli = b.cli
  BY <1>1, <1>5, <1>6 DEF Connection
<1>8. PICK st, q :
        /\ Becomes(g, st, d.epoch, q, d.stopped, d.actor, d.cli)
        /\ sender' \in [Senders -> SenderState]
        /\ \A t \in Senders \ {s} : sender'[t] = sender[t]
        /\ sender'[s].on = g /\ sender'[s].pc \in {"errdb", "done"}
        /\ q \in {d.queue, Append(d.queue, IdleOf(d.epoch))} /\ (TRUE => q = d.queue)
        /\ \/ sender'[s].pc = "done" /\ st = d.status
           \/ evict.pc = "off" /\ live = g /\ st = "error" /\ q = d.queue
  <2>1. d \in Connection /\ FailDelivery(s, d, TRUE) /\ TRUE \in BOOLEAN
    BY <1>2, <1>7
  <2> QED
    BY <2>1, FailMoves
<1>9. Becomes(g, "error", b.epoch, b.queue, b.stopped, b.actor, b.cli)
  BY <1>7, <1>8
<1>10. TurnsTypeOK'
  BY <1>2, <1>8 DEF TurnsTypeOK, TurnsAssumption, Becomes
<1>11. sender'[s].pc = "done" \/ (sender'[s].pc = "errdb" /\ evict.pc = "off" /\ live = g)
  BY <1>8
<1> QED
  BY <1>2, <1>4, <1>8, <1>9, <1>10, <1>11 DEF b

(* The CLI has the message. *)
LEMMA DeliveredMoves ==
  ASSUME TurnsTypeOK, NEW s \in Senders, Delivered(s), sender[s].on # 0
  PROVE  TurnsTypeOK' /\ Stays
<1> DEFINE g == sender[s].on
           held == conn[g].held + 1
           d == [conn[g] EXCEPT !.held = held]
<1>1. g \in Conns /\ conn[g] \in Connection /\ conn \in [Conns -> Connection]
  BY DEF TurnsTypeOK, SenderState
<1>held. held \in Nat
  BY <1>1 DEF Connection
<1>2. conn' = [conn EXCEPT ![g] = d]
  BY <1>1 DEF Delivered
<1> HIDE DEF held
<1>3. /\ d \in Connection /\ d.status = conn[g].status /\ d.queue = conn[g].queue /\ d.epoch = conn[g].epoch
      /\ d.stopped = conn[g].stopped /\ d.actor = conn[g].actor /\ d.cli = conn[g].cli
  BY <1>1, <1>held DEF Connection
<1> HIDE DEF d
<1>4. Stays
  BY <1>1, <1>2, <1>3 DEF Stays
<1>5. sender' \in [Senders -> SenderState]
  BY DEF TurnsTypeOK, SenderState, Delivered
<1> QED
  BY <1>4, <1>5 DEF TurnsTypeOK, Delivered, Stays

-----------------------------------------------------------------------------
(* What the actor reads from a CLI that starts no turn. *)
LEMMA CliMoves ==
  ASSUME TurnsTypeOK, TurnsAssumption, NEW g \in Conns, Joins(g) \/ Result(g) \/ Idles(g) \/ Exits(g)
  PROVE  /\ TurnsTypeOK'
         /\ conn[g].actor = "up"
         /\ \/ Joins(g) /\ Stays
            \/ /\ Result(g)
               /\ \E how \in Terminal :
                    Becomes(g, conn[g].status, conn[g].epoch, Append(conn[g].queue, Of(how)), conn[g].stopped,
                            "up", "between")
            \/ /\ Idles(g)
               /\ Becomes(g, conn[g].status, conn[g].epoch, Append(conn[g].queue, IdleOf(conn[g].epoch)),
                          conn[g].stopped, "up", "idle")
            \/ /\ Exits(g) /\ crashes' = crashes + 1
               /\ Becomes(g, conn[g].status, conn[g].epoch, Append(conn[g].queue, Of("crash")),
                          conn[g].stopped, "down", "gone")
<1>1. conn[g] \in Connection /\ conn \in [Conns -> Connection] /\ conn[g].epoch \in Nat
  BY DEF TurnsTypeOK, Connection
<1>joins. CASE Joins(g)
  <2> DEFINE held == conn[g].held - 1
             d == [conn[g] EXCEPT !.held = held]
  <2>1. conn' = [conn EXCEPT ![g] = d]
    BY <1>joins DEF Joins
  <2>4. held \in Nat
    <3>1. conn[g].held \in Nat /\ conn[g].held > 0
      BY <1>1, <1>joins DEF Connection, Joins
    <3> QED
      BY <3>1
  <2> HIDE DEF held
  <2>2. /\ d \in Connection /\ d.status = conn[g].status /\ d.queue = conn[g].queue /\ d.epoch = conn[g].epoch
        /\ d.stopped = conn[g].stopped /\ d.actor = conn[g].actor /\ d.cli = conn[g].cli
    BY <1>1, <2>4 DEF Connection
  <2> HIDE DEF d
  <2>3. Stays
    BY <1>1, <2>1, <2>2 DEF Stays
  <2> QED
    BY <1>joins, <2>3 DEF TurnsTypeOK, Joins, Stays
<1>result. CASE Result(g)
  <2>1. PICK how \in Outcomes : conn' = [conn EXCEPT ![g] = [Push(@, Of(how)) EXCEPT !.cli = "between"]]
    BY <1>result, Zenon DEF Result
  <2>2. how \in Terminal /\ Of(how) \in Notice
    BY Notices DEF TurnsAssumption
  <2> DEFINE c == Push(conn[g], Of(how))
             d == [c EXCEPT !.cli = "between"]
  <2>3. /\ c \in Connection /\ c.queue = Append(conn[g].queue, Of(how)) /\ c.status = conn[g].status
        /\ c.epoch = conn[g].epoch /\ c.stopped = conn[g].stopped /\ c.actor = conn[g].actor
    BY <1>1, <2>2, Pushed
  <2>4. conn' = [conn EXCEPT ![g] = d]
    BY <2>1
  <2> HIDE DEF c
  <2>5. /\ d \in Connection /\ d.status = c.status /\ d.queue = c.queue /\ d.epoch = c.epoch
        /\ d.stopped = c.stopped /\ d.actor = c.actor /\ d.cli = "between"
    BY <2>3 DEF Connection
  <2> HIDE DEF d
  <2>6. Becomes(g, conn[g].status, conn[g].epoch, Append(conn[g].queue, Of(how)), conn[g].stopped, "up", "between")
    <3>1. Becomes(g, d.status, d.epoch, d.queue, d.stopped, d.actor, d.cli)
      BY <1>1, <2>4, <2>5, Replaced
    <3>2. conn[g].actor = "up"
      BY <1>result DEF Result
    <3> QED
      BY <2>3, <2>5, <3>1, <3>2
  <2>7. TurnsTypeOK' /\ conn[g].actor = "up"
    BY <1>result, <2>6 DEF TurnsTypeOK, Result, Becomes
  <2> QED
    BY <1>result, <2>2, <2>6, <2>7
<1>idles. CASE Idles(g)
  <2> DEFINE c == Push(conn[g], IdleOf(conn[g].epoch))
             d == [c EXCEPT !.idleEpoch = conn[g].epoch, !.cli = "idle"]
  <2>1. /\ c \in Connection /\ c.queue = Append(conn[g].queue, IdleOf(conn[g].epoch)) /\ c.status = conn[g].status
        /\ c.epoch = conn[g].epoch /\ c.stopped = conn[g].stopped /\ c.actor = conn[g].actor
    <3>1. IdleOf(conn[g].epoch) \in Notice
      BY <1>1, Notices
    <3> QED
      BY <1>1, <3>1, Pushed
  <2>2. conn' = [conn EXCEPT ![g] = d] /\ conn[g].actor = "up"
    BY <1>idles DEF Idles
  <2> HIDE DEF c
  <2>3. /\ d \in Connection /\ d.status = c.status /\ d.queue = c.queue /\ d.epoch = c.epoch
        /\ d.stopped = c.stopped /\ d.actor = c.actor /\ d.cli = "idle"
    BY <1>1, <2>1 DEF Connection
  <2> HIDE DEF d
  <2>4. Becomes(g, conn[g].status, conn[g].epoch, Append(conn[g].queue, IdleOf(conn[g].epoch)),
                conn[g].stopped, "up", "idle")
    <3>1. Becomes(g, d.status, d.epoch, d.queue, d.stopped, d.actor, d.cli)
      BY <1>1, <2>2, <2>3, Replaced
    <3> QED
      BY <2>1, <2>2, <2>3, <3>1
  <2>5. TurnsTypeOK'
    BY <1>idles, <2>4 DEF TurnsTypeOK, Idles, Becomes
  <2> QED
    BY <1>idles, <2>2, <2>4, <2>5
<1>exits. CASE Exits(g)
  <2> DEFINE c == Push(conn[g], Of("crash"))
             d == [c EXCEPT !.actor = "down", !.cli = "gone", !.held = 0]
  <2>1. /\ c \in Connection /\ c.queue = Append(conn[g].queue, Of("crash")) /\ c.status = conn[g].status
        /\ c.epoch = conn[g].epoch /\ c.stopped = conn[g].stopped
    <3>1. Of("crash") \in Notice
      BY Notices
    <3> QED
      BY <1>1, <3>1, Pushed
  <2>2. conn' = [conn EXCEPT ![g] = d] /\ conn[g].actor = "up"
    BY <1>exits DEF Exits
  <2> HIDE DEF c
  <2>3. /\ d \in Connection /\ d.status = c.status /\ d.queue = c.queue /\ d.epoch = c.epoch
        /\ d.stopped = c.stopped /\ d.actor = "down" /\ d.cli = "gone"
    BY <1>1, <2>1 DEF Connection
  <2> HIDE DEF d
  <2>4. Becomes(g, conn[g].status, conn[g].epoch, Append(conn[g].queue, Of("crash")),
                conn[g].stopped, "down", "gone")
    <3>1. Becomes(g, d.status, d.epoch, d.queue, d.stopped, d.actor, d.cli)
      BY <1>1, <2>2, <2>3, Replaced
    <3> QED
      BY <2>1, <2>3, <3>1
  <2>5. TurnsTypeOK' /\ crashes' = crashes + 1
    BY <1>exits, <2>4 DEF TurnsTypeOK, TurnsAssumption, Exits, Becomes
  <2> QED
    BY <1>exits, <2>2, <2>4, <2>5
<1> QED
  BY <1>joins, <1>result, <1>idles, <1>exits

(* The first frame of a turn. *)
LEMMA StartsMoves ==
  ASSUME TurnsTypeOK, TurnsAssumption, NEW g \in Conns, Starts(g)
  PROVE  /\ TurnsTypeOK'
         /\ conn[g].actor = "up"
         /\ LET q == Append(conn[g].queue, Of("work"))
            IN  \/ /\ conn[g].stopped
                   /\ Becomes(g, conn[g].status, conn[g].epoch, q, conn[g].stopped, "up", "working")
                \/ /\ ~conn[g].stopped
                   /\ Becomes(g, "running", conn[g].epoch + 1,
                              IF conn[g].status = "running" THEN q ELSE Append(q, Of("busy")),
                              conn[g].stopped, "up", "working")
<1>1. conn[g] \in Connection /\ conn \in [Conns -> Connection] /\ conn[g].epoch \in Nat /\ conn[g].held \in Nat
  BY DEF TurnsTypeOK, Connection
<1>2. Of("work") \in Notice /\ Of("busy") \in Notice
  BY Notices
<1> DEFINE read == Push(conn[g], Of("work"))
           entered == EnterRunning(read)
           resumed == IF conn[g].status = "running" THEN entered ELSE Push(entered, Of("busy"))
           b == IF conn[g].stopped THEN read ELSE resumed
           held == IF b.held > 0 THEN b.held - 1 ELSE 0
           d == [b EXCEPT !.cli = "working", !.held = held]
<1>3. conn' = [conn EXCEPT ![g] = d] /\ conn[g].actor = "up"
  BY DEF Starts
<1>4. /\ read \in Connection /\ read.queue = Append(conn[g].queue, Of("work")) /\ read.status = conn[g].status
      /\ read.epoch = conn[g].epoch /\ read.stopped = conn[g].stopped /\ read.actor = conn[g].actor
  BY <1>1, <1>2, Pushed
<1> HIDE DEF read
<1>5. /\ entered \in Connection /\ entered.queue = read.queue /\ entered.status = "running"
      /\ entered.epoch = read.epoch + 1 /\ entered.stopped = read.stopped /\ entered.actor = read.actor
  BY <1>4, Entered
<1> HIDE DEF entered
<1>6. /\ resumed \in Connection /\ resumed.status = "running"
      /\ resumed.queue = (IF conn[g].status = "running" THEN read.queue ELSE Append(read.queue, Of("busy")))
      /\ resumed.epoch = read.epoch + 1 /\ resumed.stopped = read.stopped /\ resumed.actor = read.actor
  <2>1. LET p == Push(entered, Of("busy"))
        IN  /\ p \in Connection /\ p.queue = Append(entered.queue, Of("busy")) /\ p.status = entered.status
            /\ p.epoch = entered.epoch /\ p.stopped = entered.stopped /\ p.actor = entered.actor
    BY <1>2, <1>5, Pushed
  <2> QED
    BY <1>5, <2>1
<1> HIDE DEF resumed
<1>7. b \in Connection /\ held \in Nat
  <2>1. b \in Connection
    BY <1>4, <1>6
  <2>2. b.held \in Nat
    BY <2>1 DEF Connection
  <2> HIDE DEF b
  <2> QED
    BY <2>1, <2>2
<1> HIDE DEF b, held
<1>8. /\ d \in Connection /\ d.status = b.status /\ d.queue = b.queue /\ d.epoch = b.epoch
      /\ d.stopped = b.stopped /\ d.actor = b.actor /\ d.cli = "working"
  BY <1>7 DEF Connection
<1> HIDE DEF d
<1>9. Becomes(g, b.status, b.epoch, b.queue, b.stopped, b.actor, "working")
  <2>1. Becomes(g, d.status, d.epoch, d.queue, d.stopped, d.actor, d.cli)
    BY <1>1, <1>3, <1>8, Replaced
  <2> QED
    BY <1>8, <2>1
<1>10. TurnsTypeOK'
  <2>1. ownTurns' \in 0..MaxOwnTurns
    BY DEF TurnsTypeOK, TurnsAssumption, Starts
  <2> QED
    BY <1>9, <2>1 DEF TurnsTypeOK, Starts, Becomes
<1> QED
  BY <1>3, <1>4, <1>6, <1>9, <1>10 DEF b

(* What becomes of the inbox of a connection. *)
Reads(g, at) ==
    /\ inbox' \in [Conns -> InboxState]
    /\ \A h \in Conns \ {g} : inbox'[h] = inbox[h]
    /\ inbox'[g].pc = at

(* A write of the inbox is issued, is over, or was its last. *)
LEMMA Issued ==
  ASSUME inbox \in [Conns -> InboxState], NEW g \in Conns
  PROVE  /\ \A at \in {"settle", "resettle", "resume", "terminal", "last"}, w \in Status, e \in Nat :
              Issue(g, at, w, e) => Reads(g, at) /\ inbox'[g].write = w /\ inbox'[g].epoch = e
         /\ GoOn(g) => Reads(g, "get")
         /\ Stopping(g) => Reads(g, "done")
         /\ UNCHANGED inbox => Reads(g, inbox[g].pc)
<1>1. ASSUME NEW at \in {"settle", "resettle", "resume", "terminal", "last"}, NEW w \in Status, NEW e \in Nat,
             Issue(g, at, w, e)
      PROVE  Reads(g, at) /\ inbox'[g].write = w /\ inbox'[g].epoch = e
  <2> DEFINE r == [pc |-> at, write |-> w, epoch |-> e]
  <2>1. inbox' = [inbox EXCEPT ![g] = r]
    BY <1>1 DEF Issue
  <2>2. r \in InboxState /\ r.pc = at /\ r.write = w /\ r.epoch = e
    BY DEF InboxState
  <2> HIDE DEF r
  <2> QED
    BY <2>1, <2>2 DEF Reads
<1>2. GoOn(g) => Reads(g, "get")
  BY DEF GoOn, Reads, InboxState
<1>3. Stopping(g) => Reads(g, "done")
  BY DEF Stopping, Reads, InboxState
<1> QED
  BY <1>1, <1>2, <1>3 DEF Reads

(* A run ends in a terminal status. *)
LEMMA Verdicts ==
  ASSUME NEW c \in Connection
  PROVE  Verdict(c) \in Terminal
BY DEF Verdict, Connection, Terminal

(* The connection without the notice that is taken. *)
LEMMA Rests ==
  ASSUME TurnsTypeOK, NEW g \in Conns, conn[g].queue # <<>>
  PROVE  /\ conn[g] \in Connection /\ Rest(g) \in Connection
         /\ Rest(g).queue = Tail(conn[g].queue) /\ Rest(g).status = conn[g].status
         /\ Rest(g).epoch = conn[g].epoch /\ Rest(g).stopped = conn[g].stopped
         /\ Rest(g).actor = conn[g].actor /\ Rest(g).cli = conn[g].cli /\ Rest(g).outcome = conn[g].outcome
<1> DEFINE q == Tail(conn[g].queue)
<1>1. conn[g] \in Connection
  BY DEF TurnsTypeOK
<1>2. conn[g].queue \in Seq(Notice)
  BY <1>1 DEF Connection
<1>3. q \in Seq(Notice)
  BY <1>2
<1>4. Rest(g) = [conn[g] EXCEPT !.queue = q]
  BY DEF Rest
<1> HIDE DEF q
<1>5. /\ Rest(g) \in Connection
      /\ Rest(g).queue = q /\ Rest(g).status = conn[g].status
      /\ Rest(g).epoch = conn[g].epoch /\ Rest(g).stopped = conn[g].stopped
      /\ Rest(g).actor = conn[g].actor /\ Rest(g).cli = conn[g].cli /\ Rest(g).outcome = conn[g].outcome
  BY <1>1, <1>3, <1>4 DEF Connection
<1> QED
  BY <1>1, <1>5 DEF q

(* A connection whose status, and perhaps outcome or stopped, is set. *)
LEMMA Marked ==
  ASSUME conn \in [Conns -> Connection], NEW g \in Conns, NEW c \in Connection, NEW st \in Status,
         conn' = [conn EXCEPT ![g] = [c EXCEPT !.status = st]]
  PROVE  Becomes(g, st, c.epoch, c.queue, c.stopped, c.actor, c.cli)
<1> DEFINE d == [c EXCEPT !.status = st]
<1>1. d \in Connection /\ d.status = st /\ d.epoch = c.epoch /\ d.queue = c.queue
      /\ d.stopped = c.stopped /\ d.actor = c.actor /\ d.cli = c.cli
  BY DEF Connection
<1> HIDE DEF d
<1>2. Becomes(g, d.status, d.epoch, d.queue, d.stopped, d.actor, d.cli)
  BY <1>1, Replaced DEF d
<1> QED
  BY <1>1, <1>2

(* A timer is no move. *)
LEMMA Scheduled ==
  ASSUME TurnsTypeOK, conn' = ScheduleCleanup(conn) \/ UNCHANGED conn
  PROVE  Stays
<1>1. CASE UNCHANGED conn
  BY <1>1, Unmoved
<1>2. CASE live # 0 /\ conn' = [conn EXCEPT ![live].timer = TRUE]
  <2> DEFINE d == [conn[live] EXCEPT !.timer = TRUE]
  <2>1. live \in Conns /\ conn[live] \in Connection /\ conn \in [Conns -> Connection]
    BY <1>2 DEF TurnsTypeOK
  <2>2. /\ d \in Connection /\ d.status = conn[live].status /\ d.epoch = conn[live].epoch
        /\ d.queue = conn[live].queue /\ d.stopped = conn[live].stopped
        /\ d.actor = conn[live].actor /\ d.cli = conn[live].cli
    BY <2>1 DEF Connection
  <2>3. conn' = [conn EXCEPT ![live] = d]
    BY <1>2
  <2> HIDE DEF d
  <2> QED
    BY <2>1, <2>2, <2>3 DEF Stays
<1> QED
  BY <1>1, <1>2 DEF ScheduleCleanup

-----------------------------------------------------------------------------
(* The moves of the inbox. *)
LEMMA SettleMoves ==
  ASSUME TurnsTypeOK, NEW g \in Conns, SettleIdle(g)
  PROVE  /\ TurnsTypeOK' /\ UNCHANGED <<live, db, sender, evict, ownTurns, crashes, failed>>
         /\ inbox[g].pc = "get" /\ conn[g].queue # <<>> /\ Head(conn[g].queue).kind = "idle"
         /\ \/ /\ conn[g].status = "running" /\ Head(conn[g].queue).epoch = conn[g].epoch
               /\ \E st \in Terminal :
                    /\ Becomes(g, st, conn[g].epoch, Tail(conn[g].queue), conn[g].stopped, conn[g].actor, conn[g].cli)
                    /\ Reads(g, "settle") /\ inbox'[g].write = st /\ inbox'[g].epoch = conn[g].epoch
               /\ assumed' = assumed \ {g}
            \/ /\ conn[g].status # "running" \/ Head(conn[g].queue).epoch # conn[g].epoch
               /\ Becomes(g, conn[g].status, conn[g].epoch, Tail(conn[g].queue), conn[g].stopped, conn[g].actor,
                          conn[g].cli)
               /\ UNCHANGED <<inbox, assumed>>
<1> DEFINE c == Rest(g)
           e == Head(conn[g].queue).epoch
           st == IF c.outcome = "none" THEN "completed" ELSE c.outcome
<1>1. inbox[g].pc = "get" /\ conn[g].queue # <<>> /\ Head(conn[g].queue).kind = "idle"
  BY DEF SettleIdle, Taking
<1>2. /\ c \in Connection /\ conn[g] \in Connection
      /\ c.queue = Tail(conn[g].queue) /\ c.status = conn[g].status
      /\ c.epoch = conn[g].epoch /\ c.stopped = conn[g].stopped
      /\ c.actor = conn[g].actor /\ c.cli = conn[g].cli
  BY <1>1, Rests
<1>3. st \in Terminal /\ st \in Status
  BY <1>2 DEF Connection, Terminal, Status
<1>4. conn \in [Conns -> Connection] /\ inbox \in [Conns -> InboxState]
  BY DEF TurnsTypeOK
<1>5. /\ IF c.status = "running" /\ e = c.epoch
         THEN conn' = [conn EXCEPT ![g] = [c EXCEPT !.status = st]] /\ Issue(g, "settle", st, e)
              /\ assumed' = assumed \ {g}
         ELSE conn' = [conn EXCEPT ![g] = c] /\ UNCHANGED <<inbox, assumed>>
      /\ UNCHANGED <<live, db, sender, evict, ownTurns, crashes, failed>>
  BY DEF SettleIdle
<1> HIDE DEF c, st
<1>6. CASE c.status = "running" /\ e = c.epoch
  <2>1. Becomes(g, st, c.epoch, c.queue, c.stopped, c.actor, c.cli)
    BY <1>2, <1>3, <1>4, <1>5, <1>6, Marked
  <2>2. c.epoch \in Nat
    BY <1>2 DEF Connection
  <2>3. Reads(g, "settle") /\ inbox'[g].write = st /\ inbox'[g].epoch = c.epoch
    BY <1>3, <1>4, <1>5, <1>6, <2>2, Issued
  <2>4. TurnsTypeOK'
    BY <1>5, <2>1, <2>3 DEF TurnsTypeOK, Becomes, Reads
  <2> QED
    BY <1>1, <1>2, <1>3, <1>5, <1>6, <2>1, <2>3, <2>4
<1>7. CASE ~(c.status = "running" /\ e = c.epoch)
  <2>1. Becomes(g, c.status, c.epoch, c.queue, c.stopped, c.actor, c.cli)
    BY <1>2, <1>4, <1>5, <1>7, Replaced
  <2>2. TurnsTypeOK'
    BY <1>5, <1>7, <2>1 DEF TurnsTypeOK, Becomes
  <2> QED
    BY <1>1, <1>2, <1>5, <1>7, <2>1, <2>2
<1> QED
  BY <1>6, <1>7

(* The write of a terminal status is over. *)
LEMMA SettledMoves ==
  ASSUME TurnsTypeOK, NEW g \in Conns, Settled(g)
  PROVE  /\ TurnsTypeOK' /\ Stays /\ UNCHANGED <<live, sender, evict, assumed, ownTurns, crashes, failed>>
         /\ inbox[g].pc = "settle" /\ db' = inbox[g].write
         /\ \/ Reads(g, "get") /\ (conn[g].status # "running" \/ inbox[g].epoch = conn[g].epoch)
            \/ Reads(g, "resettle") /\ conn[g].status = "running"
<1>1. inbox \in [Conns -> InboxState] /\ "running" \in Status /\ 0 \in Nat
  BY DEF TurnsTypeOK, Status
<1>2. Stays
  BY Scheduled DEF Settled
<1>3. \/ Reads(g, "get") /\ (conn[g].status # "running" \/ inbox[g].epoch = conn[g].epoch)
      \/ Reads(g, "resettle") /\ conn[g].status = "running"
  <2>1. \/ GoOn(g) /\ (conn[g].status # "running" \/ inbox[g].epoch = conn[g].epoch)
        \/ Issue(g, "resettle", "running", 0) /\ conn[g].status = "running"
    BY DEF Settled
  <2> QED
    BY <1>1, <2>1, Issued
<1>4. inbox' \in [Conns -> InboxState]
  BY <1>3 DEF Reads
<1>5. inbox[g].write \in Status
  BY <1>1 DEF InboxState
<1>6. /\ inbox[g].pc = "settle" /\ db' = inbox[g].write
      /\ UNCHANGED <<live, sender, evict, assumed, ownTurns, crashes, failed>>
  BY DEF Settled
<1> QED
  BY <1>2, <1>3, <1>4, <1>5, <1>6 DEF TurnsTypeOK, Stays

(* A turn the CLI began is to be written. *)
LEMMA BusyMoves ==
  ASSUME TurnsTypeOK, NEW g \in Conns, TakeBusy(g)
  PROVE  /\ TurnsTypeOK' /\ UNCHANGED <<live, db, sender, evict, assumed, ownTurns, crashes, failed>>
         /\ inbox[g].pc = "get" /\ conn[g].queue # <<>> /\ Head(conn[g].queue).kind = "busy"
         /\ Becomes(g, conn[g].status, conn[g].epoch, Tail(conn[g].queue), conn[g].stopped, conn[g].actor,
                    conn[g].cli)
         /\ Reads(g, "resume")
<1> DEFINE c == Rest(g)
<1>1. inbox[g].pc = "get" /\ conn[g].queue # <<>> /\ Head(conn[g].queue).kind = "busy"
  BY DEF TakeBusy, Taking
<1>2. /\ c \in Connection /\ c.queue = Tail(conn[g].queue) /\ c.status = conn[g].status
      /\ c.epoch = conn[g].epoch /\ c.stopped = conn[g].stopped
      /\ c.actor = conn[g].actor /\ c.cli = conn[g].cli
  BY <1>1, Rests
<1>3. conn \in [Conns -> Connection] /\ inbox \in [Conns -> InboxState] /\ "running" \in Status /\ 0 \in Nat
  BY DEF TurnsTypeOK, Status
<1>4. /\ conn' = [conn EXCEPT ![g] = c] /\ Issue(g, "resume", "running", 0)
      /\ UNCHANGED <<live, db, sender, evict, assumed, ownTurns, crashes, failed>>
  BY DEF TakeBusy
<1> HIDE DEF c
<1>5. Becomes(g, c.status, c.epoch, c.queue, c.stopped, c.actor, c.cli)
  BY <1>2, <1>3, <1>4, Replaced
<1>6. Reads(g, "resume")
  BY <1>3, <1>4, Issued
<1>7. TurnsTypeOK'
  BY <1>4, <1>5, <1>6 DEF TurnsTypeOK, Becomes, Reads
<1> QED
  BY <1>1, <1>2, <1>4, <1>5, <1>6, <1>7

(* A frame or a result is taken. *)
LEMMA FrameMoves ==
  ASSUME TurnsTypeOK, NEW g \in Conns, TakeFrame(g)
  PROVE  /\ TurnsTypeOK' /\ UNCHANGED <<live, db, inbox, sender, evict, assumed, ownTurns, crashes, failed>>
         /\ inbox[g].pc = "get" /\ conn[g].queue # <<>> /\ Head(conn[g].queue).kind \in {"work"} \cup Terminal
         /\ Becomes(g, conn[g].status, conn[g].epoch, Tail(conn[g].queue), conn[g].stopped, conn[g].actor,
                    conn[g].cli)
<1> DEFINE c == Rest(g)
           kind == Head(conn[g].queue).kind
           o == IF kind = "work" THEN "none" ELSE kind
           d == [c EXCEPT !.outcome = o]
<1>1. inbox[g].pc = "get" /\ conn[g].queue # <<>> /\ kind \in {"work"} \cup Terminal
  BY DEF TakeFrame, Taking
<1>2. /\ c \in Connection /\ c.queue = Tail(conn[g].queue) /\ c.status = conn[g].status
      /\ c.epoch = conn[g].epoch /\ c.stopped = conn[g].stopped
      /\ c.actor = conn[g].actor /\ c.cli = conn[g].cli
  BY <1>1, Rests
<1>3. o \in {"none"} \cup Terminal
  BY <1>1 DEF Terminal
<1>4. /\ conn' = [conn EXCEPT ![g] = d]
      /\ UNCHANGED <<live, db, inbox, sender, evict, assumed, ownTurns, crashes, failed>>
  BY DEF TakeFrame
<1> HIDE DEF c, o
<1>5. /\ d \in Connection /\ d.queue = c.queue /\ d.status = c.status /\ d.epoch = c.epoch
      /\ d.stopped = c.stopped /\ d.actor = c.actor /\ d.cli = c.cli
  BY <1>2, <1>3 DEF Connection
<1> HIDE DEF d
<1>6. Becomes(g, d.status, d.epoch, d.queue, d.stopped, d.actor, d.cli)
  BY <1>4, <1>5, Replaced DEF TurnsTypeOK
<1>7. TurnsTypeOK'
  BY <1>4, <1>6 DEF TurnsTypeOK, Becomes
<1> QED
  BY <1>1, <1>2, <1>4, <1>5, <1>6, <1>7

(* The end of the actor, or the stop of the eviction, is taken. *)
LEMMA ExitMoves ==
  ASSUME TurnsTypeOK, NEW g \in Conns, TakeExit(g)
  PROVE  /\ TurnsTypeOK' /\ UNCHANGED <<live, db, sender, evict, assumed, ownTurns, crashes, failed>>
         /\ inbox[g].pc = "get" /\ conn[g].queue # <<>> /\ Head(conn[g].queue).kind \in {"crash", "exit", "stop"}
         /\ \E st \in Status :
              /\ Becomes(g, st, conn[g].epoch, Tail(conn[g].queue), conn[g].stopped, conn[g].actor, conn[g].cli)
              /\ \/ /\ st \in Terminal /\ Reads(g, "terminal") /\ inbox'[g].write = st
                    /\ Head(conn[g].queue).kind = "crash" \/ conn[g].status = "running"
                 \/ /\ st = conn[g].status /\ Reads(g, "done")
                    /\ Head(conn[g].queue).kind = "stop" \/ conn[g].status # "running"
<1> DEFINE c == Rest(g)
           kind == Head(conn[g].queue).kind
<1>1. inbox[g].pc = "get" /\ conn[g].queue # <<>> /\ kind \in {"crash", "exit", "stop"}
  BY DEF TakeExit, Taking
<1>2. /\ c \in Connection /\ conn[g] \in Connection
      /\ c.queue = Tail(conn[g].queue) /\ c.status = conn[g].status
      /\ c.epoch = conn[g].epoch /\ c.stopped = conn[g].stopped
      /\ c.actor = conn[g].actor /\ c.cli = conn[g].cli
  BY <1>1, Rests
<1>3. conn \in [Conns -> Connection] /\ inbox \in [Conns -> InboxState] /\ 0 \in Nat
  BY DEF TurnsTypeOK
<1>4. UNCHANGED <<live, db, sender, evict, assumed, ownTurns, crashes, failed>>
  BY DEF TakeExit
<1>5. \/ kind = "crash" /\ MarkTerminal(g, c, "error", "terminal")
      \/ kind # "crash" /\ conn[g].status = "running" /\ MarkTerminal(g, c, Verdict(conn[g]), "terminal")
      \/ /\ kind = "stop" \/ conn[g].status # "running"
         /\ conn' = [conn EXCEPT ![g] = c] /\ Stopping(g)
  BY <1>1 DEF TakeExit
<1> HIDE DEF c, kind
<1>6. ASSUME NEW st \in Terminal, MarkTerminal(g, c, st, "terminal")
      PROVE  /\ st \in Status
             /\ Becomes(g, st, c.epoch, c.queue, c.stopped, c.actor, c.cli)
             /\ Reads(g, "terminal") /\ inbox'[g].write = st
  <2>1. st \in Status
    BY DEF Status
  <2>2. Becomes(g, st, c.epoch, c.queue, c.stopped, c.actor, c.cli)
    BY <1>2, <1>3, <1>6, <2>1, Marked DEF MarkTerminal
  <2>3. Reads(g, "terminal") /\ inbox'[g].write = st
    BY <1>3, <1>6, <2>1, Issued DEF MarkTerminal
  <2> QED
    BY <2>1, <2>2, <2>3
<1>7. \E st \in Status :
        /\ Becomes(g, st, c.epoch, c.queue, c.stopped, c.actor, c.cli)
        /\ \/ /\ st \in Terminal /\ Reads(g, "terminal") /\ inbox'[g].write = st
              /\ kind = "crash" \/ conn[g].status = "running"
           \/ /\ st = conn[g].status /\ Reads(g, "done")
              /\ kind = "stop" \/ conn[g].status # "running"
  <2>1. CASE kind = "crash" /\ MarkTerminal(g, c, "error", "terminal")
    <3>1. "error" \in Terminal
      BY DEF Terminal
    <3> QED
      BY <1>6, <2>1, <3>1
  <2>2. CASE kind # "crash" /\ conn[g].status = "running" /\ MarkTerminal(g, c, Verdict(conn[g]), "terminal")
    <3>1. Verdict(conn[g]) \in Terminal
      BY <1>2, Verdicts
    <3> QED
      BY <1>6, <2>2, <3>1
  <2>3. CASE /\ kind = "stop" \/ conn[g].status # "running"
             /\ conn' = [conn EXCEPT ![g] = c] /\ Stopping(g)
    <3>1. Becomes(g, c.status, c.epoch, c.queue, c.stopped, c.actor, c.cli)
      BY <1>2, <1>3, <2>3, Replaced
    <3>2. Reads(g, "done")
      BY <1>3, <2>3, Issued
    <3>3. conn[g].status \in Status
      BY <1>2 DEF Connection
    <3> QED
      BY <1>2, <2>3, <3>1, <3>2, <3>3
  <2> QED
    BY <1>5, <2>1, <2>2, <2>3
<1>8. TurnsTypeOK'
  BY <1>4, <1>7 DEF TurnsTypeOK, Becomes, Reads
<1> QED
  BY <1>1, <1>2, <1>4, <1>7, <1>8 DEF kind

(* The other writes of the inbox are over. *)
LEMMA WriteMoves ==
  ASSUME TurnsTypeOK, NEW g \in Conns, RunningWritten(g) \/ TerminalWritten(g)
  PROVE  /\ TurnsTypeOK' /\ Stays /\ UNCHANGED <<live, sender, evict, assumed, ownTurns, crashes, failed>>
         /\ \/ RunningWritten(g) /\ inbox[g].pc \in {"resettle", "resume"} /\ db' = "running" /\ Reads(g, "get")
            \/ TerminalWritten(g) /\ inbox[g].pc \in {"terminal", "last"} /\ db' = inbox[g].write /\ Reads(g, "done")
<1>1. inbox \in [Conns -> InboxState] /\ inbox[g].write \in Status /\ "running" \in Status
  BY DEF TurnsTypeOK, InboxState, Status
<1>2. Stays /\ UNCHANGED <<live, sender, evict, assumed, ownTurns, crashes, failed>>
  BY Scheduled DEF RunningWritten, TerminalWritten
<1>3. \/ RunningWritten(g) /\ inbox[g].pc \in {"resettle", "resume"} /\ db' = "running" /\ Reads(g, "get")
      \/ TerminalWritten(g) /\ inbox[g].pc \in {"terminal", "last"} /\ db' = inbox[g].write /\ Reads(g, "done")
  BY <1>1, Issued DEF RunningWritten, TerminalWritten
<1>4. TurnsTypeOK'
  BY <1>1, <1>2, <1>3 DEF TurnsTypeOK, Stays, Reads
<1> QED
  BY <1>2, <1>3, <1>4

(* A write of the inbox fails. *)
LEMMA InboxFailMoves ==
  ASSUME TurnsTypeOK, NEW g \in Conns, InboxWriteFails(g)
  PROVE  /\ TurnsTypeOK' /\ UNCHANGED <<live, db, sender, evict, assumed, ownTurns, crashes>>
         /\ inbox[g].pc \notin {"get", "done"} /\ failed' = failed \cup {"inbox"} /\ "inbox" \in failed'
         /\ \/ Stays /\ inbox[g].pc = "resume" /\ Reads(g, "get")
            \/ Stays /\ inbox[g].pc = "last" /\ Reads(g, "done")
            \/ /\ Becomes(g, "error", conn[g].epoch, conn[g].queue, TRUE, conn[g].actor, conn[g].cli)
               /\ Reads(g, "last")
<1> DEFINE c == [conn[g] EXCEPT !.stopped = TRUE]
<1>1. /\ inbox \in [Conns -> InboxState] /\ conn \in [Conns -> Connection] /\ conn[g] \in Connection
      /\ "error" \in Status /\ 0 \in Nat
  BY DEF TurnsTypeOK, Status, Terminal
<1>2. /\ c \in Connection /\ c.epoch = conn[g].epoch /\ c.queue = conn[g].queue /\ c.stopped = TRUE
      /\ c.actor = conn[g].actor /\ c.cli = conn[g].cli
  BY <1>1 DEF Connection
<1>3. /\ UNCHANGED <<live, db, sender, evict, assumed, ownTurns, crashes>>
      /\ inbox[g].pc \notin {"get", "done"} /\ failed' = failed \cup {"inbox"} /\ "inbox" \in Failing
  BY DEF InboxWriteFails, Fails
<1>4. \/ inbox[g].pc = "resume" /\ GoOn(g) /\ UNCHANGED conn
      \/ inbox[g].pc = "last" /\ Stopping(g) /\ UNCHANGED conn
      \/ MarkTerminal(g, c, "error", "last")
  <2>1. CASE inbox[g].pc = "resume" \/ inbox[g].pc = "last"
    BY <2>1, Zenon DEF InboxWriteFails
  <2>2. CASE ~(inbox[g].pc = "resume" \/ inbox[g].pc = "last")
    BY <2>2, Zenon DEF InboxWriteFails
  <2> QED
    BY <2>1, <2>2
<1> HIDE DEF c
<1>5. \/ Stays /\ inbox[g].pc = "resume" /\ Reads(g, "get")
      \/ Stays /\ inbox[g].pc = "last" /\ Reads(g, "done")
      \/ /\ Becomes(g, "error", conn[g].epoch, conn[g].queue, TRUE, conn[g].actor, conn[g].cli)
         /\ Reads(g, "last")
  <2>1. CASE inbox[g].pc \in {"resume", "last"} /\ UNCHANGED conn
             /\ (inbox[g].pc = "resume" => GoOn(g)) /\ (inbox[g].pc = "last" => Stopping(g))
    BY <1>1, <2>1, Unmoved, Issued
  <2>2. CASE MarkTerminal(g, c, "error", "last")
    <3>1. Becomes(g, "error", c.epoch, c.queue, c.stopped, c.actor, c.cli)
      BY <1>1, <1>2, <2>2, Marked DEF MarkTerminal
    <3>2. Reads(g, "last")
      BY <1>1, <2>2, Issued DEF MarkTerminal
    <3> QED
      BY <1>2, <3>1, <3>2
  <2> QED
    BY <1>4, <2>1, <2>2
<1>6. TurnsTypeOK'
  BY <1>3, <1>5 DEF TurnsTypeOK, Stays, Becomes, Reads
<1> QED
  BY <1>3, <1>5, <1>6

(* The moves of the eviction: it begins, or the timer finds the session running. *)
LEMMA EvictMoves ==
  ASSUME TurnsTypeOK, TimerFires \/ EvictIdle \/ Close \/ (\E s \in Senders : Retire(s))
  PROVE  /\ TurnsTypeOK' /\ Stays /\ UNCHANGED <<live, db, inbox, sender, assumed, ownTurns, crashes, failed>>
         /\ live # 0 /\ evict.pc = "off"
         /\ (UNCHANGED evict) \/ (evict'.pc \in {"cancel", "sent"} /\ evict'.on = live)
<1>1. CASE TimerFires
  <2> DEFINE d == [conn[live] EXCEPT !.timer = FALSE]
  <2>1. live \in Conns /\ conn[live] \in Connection /\ conn \in [Conns -> Connection]
    BY <1>1 DEF TurnsTypeOK, TimerFires
  <2>2. /\ d \in Connection /\ d.status = conn[live].status /\ d.epoch = conn[live].epoch
        /\ d.queue = conn[live].queue /\ d.stopped = conn[live].stopped
        /\ d.actor = conn[live].actor /\ d.cli = conn[live].cli
    BY <2>1 DEF Connection
  <2>3. conn' = [conn EXCEPT ![live] = d]
    BY <1>1 DEF TimerFires
  <2> HIDE DEF d
  <2>4. Stays
    BY <2>1, <2>2, <2>3 DEF Stays
  <2>5. evict' \in EvictState /\ ((UNCHANGED evict) \/ (evict'.pc \in {"cancel", "sent"} /\ evict'.on = live))
    BY <1>1, <2>1 DEF TimerFires, EvictState, TurnsTypeOK
  <2> QED
    BY <1>1, <2>4, <2>5 DEF TimerFires, TurnsTypeOK, Stays
<1>2. CASE EvictIdle \/ Close \/ (\E s \in Senders : Retire(s))
  <2>1. EvictOne /\ UNCHANGED <<live, db, conn, inbox, sender, assumed, ownTurns, crashes, failed>> /\ live # 0
    BY <1>2 DEF EvictIdle, Close, Retire
  <2>2. evict.pc = "off" /\ evict' \in EvictState /\ evict'.pc \in {"cancel", "sent"} /\ evict'.on = live
    BY <2>1 DEF EvictOne, EvictState, TurnsTypeOK
  <2> QED
    BY <2>1, <2>2, Unmoved DEF TurnsTypeOK
<1> QED
  BY <1>1, <1>2

(* The end of the timer has been awaited. *)
LEMMA SendDisconnectMoves ==
  ASSUME TurnsTypeOK, SendDisconnect, evict.on # 0
  PROVE  /\ TurnsTypeOK' /\ Stays /\ UNCHANGED <<live, db, inbox, sender, assumed, ownTurns, crashes, failed>>
         /\ evict.pc = "cancel" /\ evict'.pc = "sent" /\ evict'.on = evict.on
<1> DEFINE g == evict.on
           d == [conn[g] EXCEPT !.timer = FALSE]
<1>1. g \in Conns /\ conn[g] \in Connection /\ conn \in [Conns -> Connection]
  BY DEF TurnsTypeOK, EvictState
<1>2. /\ d \in Connection /\ d.status = conn[g].status /\ d.epoch = conn[g].epoch
      /\ d.queue = conn[g].queue /\ d.stopped = conn[g].stopped
      /\ d.actor = conn[g].actor /\ d.cli = conn[g].cli
  BY <1>1 DEF Connection
<1>3. conn' = [conn EXCEPT ![g] = d]
  BY DEF SendDisconnect
<1> HIDE DEF d
<1>4. Stays
  BY <1>1, <1>2, <1>3 DEF Stays
<1>5. evict' \in EvictState /\ evict'.pc = "sent" /\ evict'.on = evict.on
  BY DEF SendDisconnect, EvictState, TurnsTypeOK
<1> QED
  BY <1>4, <1>5 DEF SendDisconnect, TurnsTypeOK, Stays

(* The actor is gone; the inbox has the stop behind all it read. *)
LEMMA DisconnectMoves ==
  ASSUME TurnsTypeOK, Disconnect, evict.on # 0
  PROVE  LET g == evict.on IN
         /\ TurnsTypeOK' /\ UNCHANGED <<live, db, inbox, sender, assumed, ownTurns, crashes, failed>>
         /\ evict.pc = "sent" /\ evict'.pc = "drain" /\ evict'.on = g
         /\ \E st \in Status :
              /\ st = "interrupted" \/ st = IF conn[g].status = "running" THEN "running" ELSE "closed"
              /\ \/ /\ conn[g].actor = "up"
                    /\ Becomes(g, st, conn[g].epoch, Append(Append(conn[g].queue, Of("exit")), Of("stop")),
                               conn[g].stopped, "down", "gone")
                 \/ /\ conn[g].actor # "up"
                    /\ Becomes(g, st, conn[g].epoch, Append(conn[g].queue, Of("stop")),
                               conn[g].stopped, conn[g].actor, conn[g].cli)
<1> DEFINE g == evict.on
           p == Push(conn[g], Of("exit"))
           c == Disconnected(conn[g])
<1>1. g \in Conns /\ conn[g] \in Connection /\ conn \in [Conns -> Connection]
  BY DEF TurnsTypeOK, EvictState
<1>2. Of("exit") \in Notice /\ Of("stop") \in Notice
  BY Notices
<1>3. /\ p \in Connection /\ p.queue = Append(conn[g].queue, Of("exit")) /\ p.status = conn[g].status
      /\ p.epoch = conn[g].epoch /\ p.stopped = conn[g].stopped
  BY <1>1, <1>2, Pushed
<1>4. c = IF conn[g].actor = "up" THEN [p EXCEPT !.actor = "down", !.cli = "gone", !.held = 0] ELSE conn[g]
  BY DEF Disconnected
<1> HIDE DEF p, c
<1>5. /\ c \in Connection /\ c.status = conn[g].status /\ c.epoch = conn[g].epoch /\ c.stopped = conn[g].stopped
      /\ conn[g].actor = "up" => /\ c.queue = Append(conn[g].queue, Of("exit"))
                                 /\ c.actor = "down" /\ c.cli = "gone"
      /\ conn[g].actor # "up" => c = conn[g]
  BY <1>1, <1>3, <1>4 DEF Connection
<1>6. \E st \in Status :
        /\ st = "interrupted" \/ st = IF conn[g].status = "running" THEN "running" ELSE "closed"
        /\ conn' = [conn EXCEPT ![g] = Push([c EXCEPT !.status = st], Of("stop"))]
  <2> DEFINE kept == IF c.status = "running" THEN c.status ELSE "closed"
  <2>1. kept \in Status /\ kept = (IF conn[g].status = "running" THEN "running" ELSE "closed")
        /\ "interrupted" \in Status
    BY <1>5 DEF Status, Terminal
  <2>2. \/ conn' = [conn EXCEPT ![g] = Push([c EXCEPT !.status = kept], Of("stop"))]
        \/ conn' = [conn EXCEPT ![g] = Push([c EXCEPT !.status = "interrupted"], Of("stop"))]
    <3>1. kept = IF conn[g].status = "running" THEN "running" ELSE "closed"
      BY <1>5
    <3> HIDE DEF kept
    <3> QED
      BY <3>1 DEF Disconnect, c
  <2> HIDE DEF kept
  <2> QED
    BY <2>1, <2>2
<1>7. PICK st \in Status :
        /\ st = "interrupted" \/ st = IF conn[g].status = "running" THEN "running" ELSE "closed"
        /\ conn' = [conn EXCEPT ![g] = Push([c EXCEPT !.status = st], Of("stop"))]
  BY <1>6
<1> DEFINE d == [c EXCEPT !.status = st]
           f == Push(d, Of("stop"))
<1>8. /\ d \in Connection /\ d.status = st /\ d.epoch = c.epoch /\ d.queue = c.queue /\ d.stopped = c.stopped
      /\ d.actor = c.actor /\ d.cli = c.cli
  BY <1>5 DEF Connection
<1> HIDE DEF d
<1>9. /\ f \in Connection /\ f.status = st /\ f.epoch = c.epoch /\ f.queue = Append(c.queue, Of("stop"))
      /\ f.stopped = c.stopped /\ f.actor = c.actor /\ f.cli = c.cli
  <2> DEFINE n == Of("stop")
  <2>1. d \in Connection /\ n \in Notice
    BY <1>2, <1>8
  <2> HIDE DEF n
  <2>2. LET k == Push(d, n)
        IN  /\ k \in Connection /\ k.queue = Append(d.queue, n) /\ k.status = d.status /\ k.epoch = d.epoch
            /\ k.stopped = d.stopped /\ k.actor = d.actor /\ k.cli = d.cli
    BY <2>1, Pushed
  <2> QED
    BY <1>8, <2>2 DEF n
<1>10. conn' = [conn EXCEPT ![g] = f]
  BY <1>7 DEF d
<1> HIDE DEF f
<1>11. Becomes(g, st, c.epoch, Append(c.queue, Of("stop")), c.stopped, c.actor, c.cli)
  <2>1. Becomes(g, f.status, f.epoch, f.queue, f.stopped, f.actor, f.cli)
    BY <1>1, <1>9, <1>10, Replaced
  <2> QED
    BY <1>9, <2>1
<1>12. evict' \in EvictState /\ evict.pc = "sent" /\ evict'.pc = "drain" /\ evict'.on = g
  BY DEF Disconnect, EvictState, TurnsTypeOK
<1>13. UNCHANGED <<live, db, inbox, sender, assumed, ownTurns, crashes, failed>>
  BY DEF Disconnect
<1>14. TurnsTypeOK'
  BY <1>11, <1>12, <1>13 DEF TurnsTypeOK, Becomes
<1>15. \/ /\ conn[g].actor = "up"
          /\ Becomes(g, st, conn[g].epoch, Append(Append(conn[g].queue, Of("exit")), Of("stop")),
                     conn[g].stopped, "down", "gone")
       \/ /\ conn[g].actor # "up"
          /\ Becomes(g, st, conn[g].epoch, Append(conn[g].queue, Of("stop")),
                     conn[g].stopped, conn[g].actor, conn[g].cli)
  BY <1>5, <1>11
<1> QED
  BY <1>7, <1>12, <1>13, <1>14, <1>15

(* The inbox is cancelled in the middle of a write. *)
LEMMA CancelMoves ==
  ASSUME TurnsTypeOK, CancelInbox, evict.on # 0
  PROVE  LET g == evict.on IN
         /\ TurnsTypeOK' /\ UNCHANGED <<live, sender, evict, assumed, ownTurns, crashes>>
         /\ evict.pc = "drain" /\ failed' = failed \cup {"write"}
         /\ inbox[g].pc \notin {"get", "done", "last"}
         /\ \E at \in {"last", "done"} : \E st :
              /\ Reads(g, at)
              /\ Becomes(g, st, conn[g].epoch, conn[g].queue, conn[g].stopped, conn[g].actor, conn[g].cli)
<1> DEFINE g == evict.on
<1>1. /\ g \in Conns /\ conn[g] \in Connection /\ conn \in [Conns -> Connection]
      /\ inbox \in [Conns -> InboxState] /\ inbox[g].write \in Status /\ 0 \in Nat
  BY DEF TurnsTypeOK, EvictState, InboxState
<1>2. /\ evict.pc = "drain" /\ inbox[g].pc \notin {"get", "done", "last"}
      /\ failed' = failed \cup {"write"} /\ "write" \in Failing
      /\ db' \in {db, inbox[g].write}
      /\ UNCHANGED <<live, sender, evict, assumed, ownTurns, crashes>>
      /\ MarkTerminal(g, conn[g], Verdict(conn[g]), "last") \/ (Stopping(g) /\ UNCHANGED conn)
  BY DEF CancelInbox, Fails
<1>3. CASE MarkTerminal(g, conn[g], Verdict(conn[g]), "last")
  <2> DEFINE st == Verdict(conn[g])
  <2>1. st \in Status
    BY <1>1, Verdicts DEF Status
  <2>2. conn' = [conn EXCEPT ![g] = [conn[g] EXCEPT !.status = st]] /\ Issue(g, "last", st, 0)
    BY <1>3 DEF MarkTerminal
  <2> HIDE DEF st
  <2>3. Becomes(g, st, conn[g].epoch, conn[g].queue, conn[g].stopped, conn[g].actor, conn[g].cli)
    BY <1>1, <2>1, <2>2, Marked
  <2>4. Reads(g, "last")
    BY <1>1, <2>1, <2>2, Issued
  <2>5. TurnsTypeOK'
    BY <1>1, <1>2, <2>3, <2>4 DEF TurnsTypeOK, Becomes, Reads
  <2> QED
    BY <1>2, <2>3, <2>4, <2>5
<1>4. CASE Stopping(g) /\ UNCHANGED conn
  <2>1. Reads(g, "done")
    BY <1>1, <1>4, Issued
  <2>2. Becomes(g, conn[g].status, conn[g].epoch, conn[g].queue, conn[g].stopped, conn[g].actor, conn[g].cli)
    BY <1>1, <1>4 DEF Becomes
  <2>3. TurnsTypeOK'
    BY <1>1, <1>2, <2>1, <2>2 DEF TurnsTypeOK, Becomes, Reads
  <2> QED
    BY <1>2, <2>1, <2>2, <2>3
<1> QED
  BY <1>2, <1>3, <1>4

(* A lookup that lasts too long is something that goes wrong. *)
LEMMA OverlookedMoves ==
  ASSUME TurnsTypeOK, Overlooked
  PROVE  /\ failed' \subseteq Failing
         /\ failed \subseteq failed' /\ ("send" \in failed' => "send" \in failed)
         /\ failed' = {} => LookupsAreQuick /\ failed = {}
BY DEF TurnsTypeOK, Overlooked, Fails

(* The status to leave behind. *)
LEMMA DrainedMoves ==
  ASSUME TurnsTypeOK, Drained, evict.on # 0
  PROVE  LET g == evict.on IN
         /\ TurnsTypeOK' /\ UNCHANGED <<db, inbox, sender, assumed, ownTurns, crashes>>
         /\ evict.pc = "drain" /\ inbox[g].pc = "done" /\ Overlooked
         /\ \E st \in Status :
              /\ IF conn[g].status = "running" THEN st \in Terminal ELSE st = conn[g].status
              /\ Becomes(g, st, conn[g].epoch, conn[g].queue, conn[g].stopped, conn[g].actor, conn[g].cli)
              /\ \/ /\ st \in Terminal /\ evict'.pc = "final" /\ evict'.on = g /\ evict'.write = st /\ UNCHANGED live
                 \/ st \notin Terminal /\ evict'.pc = "off" /\ live' = 0
<1> DEFINE g == evict.on
           st == IF conn[g].status = "running" THEN Verdict(conn[g]) ELSE conn[g].status
<1>1. g \in Conns /\ conn[g] \in Connection /\ conn \in [Conns -> Connection]
  BY DEF TurnsTypeOK, EvictState
<1>2. st \in Status /\ (IF conn[g].status = "running" THEN st \in Terminal ELSE st = conn[g].status)
  BY <1>1, Verdicts DEF Status, Connection
<1>3. /\ evict.pc = "drain" /\ inbox[g].pc = "done" /\ Overlooked
      /\ conn' = [conn EXCEPT ![g].status = st]
      /\ UNCHANGED <<db, inbox, sender, assumed, ownTurns, crashes>>
      /\ IF st \in Terminal
         THEN evict' = [evict EXCEPT !.pc = "final", !.write = st] /\ UNCHANGED live
         ELSE evict' = [evict EXCEPT !.pc = "off", !.on = 0] /\ live' = 0
  BY DEF Drained
<1> HIDE DEF st
<1>4. Becomes(g, st, conn[g].epoch, conn[g].queue, conn[g].stopped, conn[g].actor, conn[g].cli)
  <2>1. conn' = [conn EXCEPT ![g] = [conn[g] EXCEPT !.status = st]]
    BY <1>3
  <2> QED
    BY <1>1, <1>2, <2>1, Marked
<1>5. /\ evict' \in EvictState
      /\ \/ /\ st \in Terminal /\ evict'.pc = "final" /\ evict'.on = g /\ evict'.write = st /\ UNCHANGED live
         \/ st \notin Terminal /\ evict'.pc = "off" /\ live' = 0
  BY <1>2, <1>3 DEF EvictState, TurnsTypeOK
<1>6. TurnsTypeOK'
  BY <1>3, <1>4, <1>5, OverlookedMoves DEF TurnsTypeOK, Becomes
<1> QED
  BY <1>2, <1>3, <1>4, <1>5, <1>6

(* The session is gone. *)
LEMMA GoneMoves ==
  ASSUME TurnsTypeOK, Gone
  PROVE  /\ TurnsTypeOK' /\ Stays /\ UNCHANGED <<conn, inbox, sender, assumed, ownTurns, crashes>>
         /\ evict.pc = "final" /\ evict'.pc = "off" /\ live' = 0
         /\ failed \subseteq failed' /\ ("send" \in failed' => "send" \in failed)
         /\ failed' = {} => db' = evict.write /\ LookupsAreQuick /\ failed = {}
<1>1. evict' \in EvictState /\ evict.write \in Status
  BY DEF Gone, EvictState, TurnsTypeOK
<1>2. \/ db' = evict.write /\ Overlooked
      \/ UNCHANGED db /\ failed' = failed \cup {"evict"} /\ "evict" \in Failing
  BY DEF Gone, Fails
<1>3. /\ failed' \subseteq Failing
      /\ failed \subseteq failed' /\ ("send" \in failed' => "send" \in failed)
      /\ failed' = {} => db' = evict.write /\ LookupsAreQuick /\ failed = {}
  BY <1>2, OverlookedMoves DEF TurnsTypeOK
<1> QED
  BY <1>1, <1>2, <1>3, Unmoved DEF Gone, TurnsTypeOK, EvictState

Underway(s) == sender[s].pc \notin {"new", "done"}
Busy(s) == Underway(s) /\ sender[s].pc # "read"
Leaving == evict.pc \in {"drain", "final"}
EndedOnRecord == {"terminal", "last", "done"}

Places ==
    /\ live # 0 => conn[live].actor # "none"
    /\ \A g \in Conns : g # live => conn[g].actor # "up"
    /\ evict.pc # "off" => live # 0 /\ evict.on = live
    /\ Leaving => conn[live].actor = "down"
    /\ \A s \in Senders : Busy(s) =>
           /\ sender[s].on # 0 /\ conn[sender[s].on].actor # "none"
           /\ sender[s].pc = "rewrite" => sender[s].on # live
    /\ \A s, t \in Senders : Underway(s) /\ Underway(t) => s = t

Orderly(g) ==
    /\ conn[g].actor = "none" => conn[g].queue = <<>> /\ conn[g].cli = "idle" /\ inbox[g].pc = "get"
    /\ conn[g].actor = "up" => /\ ~HasIn(conn[g].queue, {"crash", "exit", "stop"})
                               /\ inbox[g].pc \in EndedOnRecord => conn[g].stopped
    /\ IdlesBelow(conn[g].queue, conn[g].epoch + 1)
    /\ conn[g].actor = "up" /\ ~conn[g].stopped /\ conn[g].cli = "working" /\ "send" \notin failed =>
           conn[g].status = "running" /\ IdlesBelow(conn[g].queue, conn[g].epoch)

WorkInv == TurnsTypeOK /\ Places /\ \A g \in Conns : Orderly(g)

(* Actors only go down. *)
Weaker == \A g \in Conns : conn'[g].actor = conn[g].actor \/ (conn[g].actor = "up" /\ conn'[g].actor = "down")

(* Places are kept by what neither a request nor the eviction does. *)
LEMMA PlacesStand ==
  ASSUME TurnsTypeOK, Places, Weaker, UNCHANGED <<live, sender, evict>>
  PROVE  Places'
BY DEF Places, Weaker, TurnsTypeOK, EvictState, SenderState, Busy, Underway, Leaving

(* Places are kept by a step of the request under way. *)
LEMMA PlacesDelivered ==
  ASSUME TurnsTypeOK, Places, Weaker, UNCHANGED <<live, evict>>, NEW s \in Senders, Busy(s),
         \A t \in Senders \ {s} : sender'[t] = sender[t],
         \/ sender'[s].pc = "done"
         \/ sender'[s].on = sender[s].on /\ (sender'[s].pc = "rewrite" => sender[s].on # live)
  PROVE  Places'
<1>1. /\ live' # 0 => conn'[live'].actor # "none"
      /\ \A g \in Conns : g # live' => conn'[g].actor # "up"
      /\ evict'.pc # "off" => live' # 0 /\ evict'.on = live'
      /\ Leaving' => conn'[live'].actor = "down"
  BY DEF Places, Weaker, TurnsTypeOK, EvictState, Leaving
<1>2. ASSUME NEW t \in Senders, Busy(t)'
      PROVE  /\ sender'[t].on # 0 /\ conn'[sender'[t].on].actor # "none"
             /\ sender'[t].pc = "rewrite" => sender'[t].on # live'
  <2>1. Busy(t) /\ sender'[t].on = sender[t].on /\ (sender'[t].pc = "rewrite" => sender[t].on # live)
    BY <1>2 DEF Busy, Underway, Places
  <2>2. sender[t].on \in Conns
    BY <2>1 DEF Places, TurnsTypeOK, SenderState
  <2> QED
    BY <2>1, <2>2 DEF Places, Weaker
<1>3. \A t \in Senders : Underway(t)' => Underway(t)
  BY DEF Busy, Underway
<1> QED
  BY <1>1, <1>2, <1>3 DEF Places

(* Places are kept by a step of the eviction. *)
LEMMA PlacesEvicted ==
  ASSUME TurnsTypeOK, Places, Weaker, UNCHANGED sender, live' \in {live, 0},
         \/ UNCHANGED live /\ live # 0 /\ evict'.on = live /\ (Leaving' => conn'[live].actor = "down")
         \/ live' = 0 /\ Leaving /\ evict'.pc = "off"
  PROVE  Places'
<1>1. /\ live' # 0 => conn'[live'].actor # "none"
      /\ \A g \in Conns : g # live' => conn'[g].actor # "up"
      /\ evict'.pc # "off" => live' # 0 /\ evict'.on = live'
      /\ Leaving' => conn'[live'].actor = "down"
  BY DEF Places, Weaker, TurnsTypeOK, EvictState, Leaving
<1>2. ASSUME NEW t \in Senders, Busy(t)'
      PROVE  /\ Busy(t) /\ sender'[t].on # 0 /\ conn'[sender'[t].on].actor # "none"
             /\ sender'[t].pc = "rewrite" => sender'[t].on # live'
  <2>1. Busy(t) /\ sender'[t] = sender[t] /\ sender[t].on \in Conns
    BY <1>2 DEF Busy, Underway, Places, TurnsTypeOK, SenderState
  <2> QED
    BY <2>1 DEF Places, Weaker
<1>3. \A t \in Senders : Underway(t)' => Underway(t)
  BY DEF Underway
<1> QED
  BY <1>1, <1>2, <1>3 DEF Places

(* One connection changes, or none. *)
LEMMA OrderlyBut ==
  ASSUME \A h \in Conns : Orderly(h), NEW g \in Conns, "send" \in failed => "send" \in failed',
         \A h \in Conns \ {g} : conn'[h] = conn[h] /\ inbox'[h] = inbox[h], Orderly(g)'
  PROVE  \A h \in Conns : Orderly(h)'
<1> SUFFICES ASSUME NEW h \in Conns, h # g
             PROVE  Orderly(h)'
  OBVIOUS
<1> QED
  BY DEF Orderly

(* No connection changes, but for timers and what was written. *)
LEMMA OrderlyStays ==
  ASSUME \A h \in Conns : Orderly(h), Stays, "send" \in failed => "send" \in failed',
         \A h \in Conns : inbox'[h] # inbox[h] =>
             /\ conn[h].actor # "none"
             /\ inbox'[h].pc \in EndedOnRecord => inbox[h].pc \in EndedOnRecord
  PROVE  \A h \in Conns : Orderly(h)'
<1> SUFFICES ASSUME NEW h \in Conns
             PROVE  Orderly(h)'
  OBVIOUS
<1> QED
  BY DEF Orderly, Stays

-----------------------------------------------------------------------------
(* Requests. *)
LEMMA OneLater ==
  ASSUME NEW q \in Seq(Notice), NEW e \in Nat, IdlesBelow(q, e)
  PROVE  IdlesBelow(q, e + 1)
<1>1. e + 1 \in Nat /\ e <= e + 1
  OBVIOUS
<1> QED
  BY <1>1, Later

(* The requests keep the invariant. *)
LEMMA WorkRequests ==
  ASSUME TurnsAssumption, WorkInv, NEW s \in Senders, Request(s)
  PROVE  WorkInv'
<1> USE DEF WorkInv
<1>on. Busy(s) => sender[s].on \in Conns /\ conn[sender[s].on].actor # "none"
  BY DEF Places, TurnsTypeOK, SenderState
<1>others. Underway(s) => \A t \in Senders \ {s} : ~Underway(t) /\ ~Busy(t)
  BY DEF Places, Busy
<1>read. CASE ReadMeta(s) \/ Repeated(s)
  <2>1. TurnsTypeOK' /\ Stays
    BY <1>read, ReadMoves
  <2>2. /\ UNCHANGED <<live, conn, inbox, evict, failed>>
        /\ \A t \in Senders \ {s} : sender'[t] = sender[t] /\ ~Underway(t)
        /\ sender'[s].pc \in {"read", "done"}
    <3>1. CASE ReadMeta(s)
      BY <3>1 DEF ReadMeta, Admitted, Underway, TurnsTypeOK, SenderState
    <3>2. CASE Repeated(s)
      BY <3>2, <1>others DEF Repeated, Underway, TurnsTypeOK, SenderState
    <3> QED
      BY <1>read, <3>1, <3>2
  <2>3. \A t \in Senders : (Underway(t)' => t = s) /\ ~Busy(t)'
    BY <2>2 DEF Busy, Underway
  <2>4. Places'
    BY <2>2, <2>3 DEF Places, Leaving
  <2>5. \A h \in Conns : Orderly(h)'
    BY <2>1, <2>2, OrderlyStays
  <2> QED
    BY <2>1, <2>4, <2>5
<1>begin. CASE Begin(s)
  <2>1. TurnsTypeOK' /\ Stays
    BY <1>begin, BeginMoves
  <2>2. /\ live # 0 /\ conn[live].actor = "up" /\ sender'[s].pc = "found" /\ sender'[s].on = live
        /\ \A t \in Senders \ {s} : sender'[t] = sender[t] /\ ~Underway(t)
        /\ UNCHANGED <<live, conn, inbox, evict, failed>>
    BY <1>begin, <1>others DEF Begin, Underway, TurnsTypeOK, SenderState
  <2>5. \A t \in Senders : Underway(t)' => t = s
    BY <2>2 DEF Underway
  <2>3. Places'
    BY <2>2, <2>5 DEF Places, Busy, Leaving
  <2>4. \A h \in Conns : Orderly(h)'
    BY <2>1, <2>2, OrderlyStays
  <2> QED
    BY <2>1, <2>3, <2>4
<1>connect. CASE ConnectResumed(s)
  <2>1. PICK g \in Conns :
          /\ conn[g].actor = "none" /\ live' = g /\ sender'[s].on = g
          /\ Becomes(g, IF sender[s].seen = "completed" THEN "idle" ELSE sender[s].seen, conn[g].epoch,
                     conn[g].queue, conn[g].stopped, "up", conn[g].cli)
    BY <1>connect, ConnectMoves
  <2>2. TurnsTypeOK'
    BY <1>connect, ConnectMoves
  <2>3. /\ live = 0 /\ sender'[s].pc = "found"
        /\ \A t \in Senders \ {s} : sender'[t] = sender[t] /\ ~Underway(t)
        /\ UNCHANGED <<inbox, evict, failed>>
    <3>1. PICK k \in Conns : sender' = [sender EXCEPT ![s].pc = "found", ![s].on = k]
      BY <1>connect, Zenon DEF ConnectResumed
    <3>2. live = 0 /\ sender[s].pc = "read" /\ UNCHANGED <<inbox, evict, failed>>
      BY <1>connect, Zenon DEF ConnectResumed
    <3> QED
      BY <3>1, <3>2, <1>others DEF Underway, TurnsTypeOK, SenderState
  <2>4. g # 0
    BY DEF Conns
  <2>5. Places'
    <3>1. evict'.pc = "off" /\ live' = g /\ live' # 0 /\ ~Leaving'
      BY <2>1, <2>3, <2>4 DEF Places, Leaving
    <3>2. conn'[g].actor = "up" /\ \A h \in Conns : h # g => conn'[h] = conn[h]
      BY <2>1 DEF Becomes
    <3>3. \A h \in Conns : h # g => conn'[h].actor # "up"
      BY <2>3, <3>2 DEF Places, Conns
    <3>4. \A t \in Senders : Underway(t)' => t = s
      BY <2>3 DEF Underway
    <3> QED
      BY <2>1, <2>3, <2>4, <3>1, <3>2, <3>3, <3>4 DEF Places, Busy
  <2>6. Orderly(g)'
    BY <2>1, <2>3 DEF Orderly, Becomes, HasIn, IdlesBelow, EndedOnRecord
  <2>7. \A h \in Conns : Orderly(h)'
    BY <2>1, <2>3, <2>6, OrderlyBut DEF Becomes
  <2> QED
    BY <2>2, <2>5, <2>7
<1>retire. CASE Retire(s)
  <2>1. /\ TurnsTypeOK' /\ Stays /\ UNCHANGED <<live, db, inbox, sender, assumed, ownTurns, crashes, failed>>
        /\ live # 0 /\ evict.pc = "off"
        /\ (UNCHANGED evict) \/ (evict'.pc \in {"cancel", "sent"} /\ evict'.on = live)
    BY <1>retire, EvictMoves
  <2>2. Weaker
    BY <2>1 DEF Stays, Weaker
  <2>3. Places'
    BY <2>1, <2>2, PlacesEvicted, PlacesStand DEF Leaving
  <2>4. \A h \in Conns : Orderly(h)'
    BY <2>1, OrderlyStays
  <2> QED
    BY <2>1, <2>3, <2>4
<1>late. CASE TooLate(s)
  <2>1. TurnsTypeOK' /\ Stays
    BY <1>late, BeginMoves
  <2>2. /\ Busy(s) /\ sender'[s].on = sender[s].on /\ sender[s].on # live
        /\ \A t \in Senders \ {s} : sender'[t] = sender[t]
        /\ UNCHANGED <<live, conn, inbox, evict, failed>>
    BY <1>late DEF TooLate, Busy, Underway, TurnsTypeOK, SenderState
  <2>3. Weaker
    BY <2>1 DEF Stays, Weaker
  <2>4. Places'
    BY <2>2, <2>3, PlacesDelivered
  <2>5. \A h \in Conns : Orderly(h)'
    BY <2>1, <2>2, OrderlyStays
  <2> QED
    BY <2>1, <2>4, <2>5
<1>enter. CASE Register(s) \/ Send(s)
  <2>g. PICK g \in Conns : g = sender[s].on
    BY <1>enter, <1>on DEF Register, Send, Busy, Underway
  <2>1. /\ Busy(s) /\ sender'[s].on = g /\ sender'[s].pc # "rewrite"
        /\ \A t \in Senders \ {s} : sender'[t] = sender[t]
        /\ UNCHANGED <<live, inbox, evict, failed>>
    BY <2>g, <1>enter DEF Register, Send, Busy, Underway, TurnsTypeOK, SenderState
  <2>2. /\ g \in Conns /\ conn[g].actor # "none" /\ conn[g].epoch \in Nat
        /\ conn[g].queue \in Seq(Notice)
    BY <2>g, <1>on, <2>1 DEF TurnsTypeOK, Connection
  <2>3. /\ TurnsTypeOK'
        /\ Becomes(g, "running", conn[g].epoch + 1, conn[g].queue, conn[g].stopped, conn[g].actor, conn[g].cli)
    <3>1. g # 0
      BY <2>g, <2>2 DEF Conns
    <3> QED
      BY <2>g, <1>enter, <3>1, RegisterMoves
  <2>4. Weaker
    BY <2>g, <2>2, <2>3 DEF Weaker, Becomes
  <2>5. Places'
    BY <2>g, <2>1, <2>4, PlacesDelivered
  <2>6. Orderly(g)'
    <3>1. IdlesBelow(conn[g].queue, conn[g].epoch + 1)
      BY <2>g, <2>2 DEF Orderly
    <3>2. IdlesBelow(conn[g].queue, (conn[g].epoch + 1) + 1)
      <4> DEFINE e == conn[g].epoch + 1
      <4>1. e \in Nat
        BY <2>2
      <4>2. IdlesBelow(conn[g].queue, e)
        BY <3>1
      <4> HIDE DEF e
      <4>3. IdlesBelow(conn[g].queue, e + 1)
        BY <2>2, <4>1, <4>2, OneLater
      <4> QED
        BY <4>3 DEF e
    <3> QED
      BY <2>g, <2>1, <2>2, <2>3, <3>1, <3>2 DEF Orderly, Becomes
  <2>7. \A h \in Conns : Orderly(h)'
    BY <2>g, <2>1, <2>2, <2>3, <2>6, OrderlyBut DEF Becomes
  <2> QED
    BY <2>g, <2>3, <2>5, <2>7
<1>fail. CASE SendWriteFails(s) \/ Rewritten(s)
  <2>g. PICK g \in Conns : g = sender[s].on
    BY <1>fail, <1>on DEF SendWriteFails, Rewritten, Busy, Underway
  <2>1. /\ Busy(s) /\ UNCHANGED <<live, inbox, evict>> /\ ("send" \in failed => "send" \in failed')
        /\ (SendWriteFails(s) /\ "send" \in failed') \/ (Rewritten(s) /\ sender[s].pc = "rewrite")
    BY <2>g, <1>fail DEF SendWriteFails, Rewritten, Fails, Busy, Underway
  <2>2. /\ g \in Conns /\ g # 0 /\ conn[g].actor # "none" /\ conn[g].epoch \in Nat
        /\ conn[g].queue \in Seq(Notice)
    BY <2>g, <1>on, <2>1 DEF TurnsTypeOK, Connection, Conns
  <2>3. /\ TurnsTypeOK'
        /\ \A t \in Senders \ {s} : sender'[t] = sender[t]
        /\ sender'[s].on = g /\ sender'[s].pc \in {"errdb", "done"}
        /\ \E st, q :
             /\ Becomes(g, st, conn[g].epoch, q, conn[g].stopped, conn[g].actor, conn[g].cli)
             /\ q \in {conn[g].queue, Append(conn[g].queue, IdleOf(conn[g].epoch))}
             /\ \/ sender'[s].pc = "done" /\ st = conn[g].status
                \/ evict.pc = "off" /\ live = g
    BY <2>g, <1>fail, <2>2, WriteFailMoves
  <2>4. PICK st, q :
             /\ Becomes(g, st, conn[g].epoch, q, conn[g].stopped, conn[g].actor, conn[g].cli)
             /\ q \in {conn[g].queue, Append(conn[g].queue, IdleOf(conn[g].epoch))}
    BY <2>g, <2>3
  <2>5. Weaker
    BY <2>g, <2>2, <2>4 DEF Weaker, Becomes
  <2>6. Places'
    BY <2>g, <2>1, <2>3, <2>5, PlacesDelivered
  <2>7. "send" \in failed' \/ conn[g].actor # "up"
    BY <2>g, <2>1, <2>2 DEF Places, Rewritten
  <2>8. /\ ~HasIn(conn[g].queue, {"crash", "exit", "stop"}) => ~HasIn(q, {"crash", "exit", "stop"})
        /\ IdlesBelow(q, conn[g].epoch + 1)
    <3>1. IdlesBelow(conn[g].queue, conn[g].epoch + 1)
      BY <2>g, <2>2 DEF Orderly
    <3> DEFINE n == IdleOf(conn[g].epoch)
               e == conn[g].epoch + 1
               k == {"crash", "exit", "stop"}
    <3>2. n \in Notice /\ n.kind = "idle" /\ n.epoch < e /\ e \in Nat /\ n.kind \notin k
      BY <2>g, <2>2, Notices
    <3>3. IdlesBelow(conn[g].queue, e)
      BY <3>1
    <3> HIDE DEF n, e, k
    <3>4. (HasIn(Append(conn[g].queue, n), k) => HasIn(conn[g].queue, k)) /\ IdlesBelow(Append(conn[g].queue, n), e)
      BY <2>g, <2>2, <3>2, <3>3, Appended
    <3>5. q = conn[g].queue \/ q = Append(conn[g].queue, n)
      BY <2>g, <2>4 DEF n
    <3>6. (HasIn(q, k) => HasIn(conn[g].queue, k)) /\ IdlesBelow(q, e)
      BY <3>3, <3>4, <3>5
    <3> QED
      BY <3>6 DEF k, e
  <2>9. Orderly(g)'
    BY <2>g, <2>1, <2>2, <2>4, <2>7, <2>8 DEF Orderly, Becomes
  <2>10. \A h \in Conns : Orderly(h)'
    BY <2>g, <2>1, <2>2, <2>4, <2>9, OrderlyBut DEF Becomes
  <2> QED
    BY <2>g, <2>3, <2>6, <2>10
<1>delivered. CASE Delivered(s)
  <2>1. /\ Busy(s) /\ sender'[s].pc = "done" /\ \A t \in Senders \ {s} : sender'[t] = sender[t]
        /\ UNCHANGED <<live, inbox, evict, failed>>
    BY <1>delivered DEF Delivered, Busy, Underway, TurnsTypeOK, SenderState
  <2>2. sender[s].on # 0
    BY <1>on, <2>1 DEF Conns
  <2>3. TurnsTypeOK' /\ Stays
    BY <1>delivered, <2>2, DeliveredMoves
  <2>4. Weaker
    BY <2>3 DEF Stays, Weaker
  <2>5. Places'
    BY <2>1, <2>4, PlacesDelivered
  <2>6. \A h \in Conns : Orderly(h)'
    BY <2>1, <2>3, OrderlyStays
  <2> QED
    BY <2>3, <2>5, <2>6
<1>undelivered. CASE Undelivered(s)
  <2>g. PICK g \in Conns : g = sender[s].on
    BY <1>undelivered, <1>on DEF Undelivered, Busy, Underway
  <2>1. Busy(s) /\ UNCHANGED <<live, inbox, evict, failed>>
    BY <2>g, <1>undelivered DEF Undelivered, Busy, Underway
  <2>2. /\ g \in Conns /\ g # 0 /\ conn[g].actor # "none" /\ conn[g].epoch \in Nat
        /\ conn[g].queue \in Seq(Notice)
    BY <2>g, <1>on, <2>1 DEF TurnsTypeOK, Connection, Conns
  <2>3. /\ TurnsTypeOK'
        /\ \A t \in Senders \ {s} : sender'[t] = sender[t]
        /\ sender'[s].on = g
        /\ sender'[s].pc = "done" \/ (sender'[s].pc = "errdb" /\ evict.pc = "off" /\ live = g)
    BY <2>g, <1>undelivered, <2>2, UndeliveredMoves
  <2>4. \/ /\ conn[g].actor = "down" /\ UNCHANGED crashes
           /\ Becomes(g, "error", conn[g].epoch, conn[g].queue, conn[g].stopped, "down", conn[g].cli)
        \/ /\ conn[g].actor = "up" /\ crashes' = crashes + 1
           /\ Becomes(g, "error", conn[g].epoch, Append(conn[g].queue, Of("crash")), conn[g].stopped,
                      "down", "gone")
    BY <2>g, <1>undelivered, <2>2, UndeliveredMoves
  <2>5. Weaker
    BY <2>g, <2>2, <2>4 DEF Weaker, Becomes
  <2>6. Places'
    BY <2>g, <2>1, <2>3, <2>5, PlacesDelivered
  <2>7. Orderly(g)'
    <3>1. IdlesBelow(conn[g].queue, conn[g].epoch + 1)
      BY <2>g, <2>2 DEF Orderly
    <3> DEFINE n == Of("crash")
               e == conn[g].epoch + 1
    <3>2. n \in Notice /\ n.kind # "idle" /\ e \in Nat
      BY <2>g, <2>2, Notices
    <3> HIDE DEF n
    <3>3. IdlesBelow(Append(conn[g].queue, n), e)
      BY <2>g, <2>2, <3>1, <3>2, Appended
    <3>4. conn'[g].actor = "down" /\ IdlesBelow(conn'[g].queue, conn'[g].epoch + 1)
      BY <2>g, <2>4, <3>1, <3>3 DEF Becomes, n
    <3> QED
      BY <3>4 DEF Orderly
  <2>8. \A h \in Conns \ {g} : conn'[h] = conn[h] /\ inbox'[h] = inbox[h]
    BY <2>g, <2>1, <2>4 DEF Becomes
  <2>9. \A h \in Conns : Orderly(h)'
    BY <2>g, <2>1, <2>2, <2>7, <2>8, OrderlyBut
  <2> QED
    BY <2>g, <2>3, <2>6, <2>9
<1>error. CASE ErrorWritten(s)
  <2>1. /\ Busy(s) /\ sender'[s].pc = "done" /\ \A t \in Senders \ {s} : sender'[t] = sender[t]
        /\ UNCHANGED <<live, inbox, evict>> /\ ("send" \in failed => "send" \in failed')
    BY <1>error DEF ErrorWritten, Fails, Busy, Underway, TurnsTypeOK, SenderState
  <2>2. TurnsTypeOK' /\ Stays
    BY <1>error, ErrorMoves
  <2>3. Weaker
    BY <2>2 DEF Stays, Weaker
  <2>4. Places'
    BY <2>1, <2>3, PlacesDelivered
  <2>5. \A h \in Conns : Orderly(h)'
    BY <2>1, <2>2, OrderlyStays
  <2> QED
    BY <2>2, <2>4, <2>5
<1> QED
  BY <1>read, <1>begin, <1>connect, <1>retire, <1>late, <1>enter, <1>fail, <1>delivered, <1>undelivered, <1>error
     DEF Request

(* The CLI. *)
LEMMA WorkCli ==
  ASSUME TurnsAssumption, WorkInv, NEW g \in Conns, Cli(g)
  PROVE  WorkInv'
<1>1. TurnsTypeOK /\ Places /\ (\A h \in Conns : Orderly(h)) /\ Orderly(g)
  BY DEF WorkInv
<1>2. /\ conn[g] \in Connection /\ conn[g].queue \in Seq(Notice) /\ conn[g].epoch \in Nat
      /\ UNCHANGED <<live, sender, evict, inbox, failed>>
  BY <1>1 DEF TurnsTypeOK, Connection, Cli, Starts, Joins, Result, Idles, Exits
<1> DEFINE e == conn[g].epoch + 1
           q == conn[g].queue
           ends == {"crash", "exit", "stop"}
<1>3. /\ e \in Nat /\ e # conn[g].epoch /\ conn[g].epoch < e /\ q \in Seq(Notice)
      /\ IdlesBelow(q, e)
  BY <1>1, <1>2 DEF Orderly
<1>4. conn[g].actor = "up" => ~HasIn(q, ends)
  BY <1>1 DEF Orderly
<1> HIDE DEF e, q, ends
<1>starts. CASE Starts(g)
  <2> DEFINE r == Append(q, Of("work"))
             b == Append(r, Of("busy"))
  <2>1. /\ TurnsTypeOK' /\ conn[g].actor = "up"
        /\ \/ /\ conn[g].stopped
              /\ Becomes(g, conn[g].status, conn[g].epoch, r, conn[g].stopped, "up", "working")
           \/ /\ ~conn[g].stopped
              /\ \/ Becomes(g, "running", e, r, conn[g].stopped, "up", "working")
                 \/ Becomes(g, "running", e, b, conn[g].stopped, "up", "working")
    BY <1>1, <1>starts, StartsMoves DEF e, q
  <2>2. r \in Seq(Notice) /\ IdlesBelow(r, e) /\ (conn[g].actor = "up" => ~HasIn(r, ends))
    <3> DEFINE n == Of("work")
    <3>1. n \in Notice /\ n.kind = "work" /\ n.kind \notin ends
      BY Notices DEF ends
    <3> HIDE DEF n
    <3>2. Append(q, n) \in Seq(Notice)
      BY <1>3, <3>1
    <3>3. IdlesBelow(Append(q, n), e) /\ (HasIn(Append(q, n), ends) => HasIn(q, ends))
      BY <1>3, <3>1, Appended
    <3> QED
      BY <1>4, <3>2, <3>3 DEF n
  <2> HIDE DEF r
  <2>3. b \in Seq(Notice) /\ IdlesBelow(b, e) /\ (conn[g].actor = "up" => ~HasIn(b, ends))
    <3> DEFINE n == Of("busy")
    <3>1. n \in Notice /\ n.kind = "busy" /\ n.kind \notin ends
      BY Notices DEF ends
    <3> HIDE DEF n
    <3>2. Append(r, n) \in Seq(Notice)
      BY <2>2, <3>1
    <3>3. IdlesBelow(Append(r, n), e) /\ (HasIn(Append(r, n), ends) => HasIn(r, ends))
      BY <1>3, <2>2, <3>1, Appended
    <3> QED
      BY <2>2, <3>2, <3>3 DEF n
  <2> HIDE DEF b
  <2>4. IdlesBelow(r, e + 1) /\ IdlesBelow(b, e + 1)
    BY <1>3, <2>2, <2>3, OneLater
  <2>5. Weaker /\ \A h \in Conns \ {g} : conn'[h] = conn[h] /\ inbox'[h] = inbox[h]
    BY <1>2, <2>1 DEF Weaker, Becomes
  <2>6. Places'
    BY <1>1, <1>2, <2>5, PlacesStand
  <2>7. Orderly(g)'
    <3>1. CASE conn[g].stopped /\ Becomes(g, conn[g].status, conn[g].epoch, r, conn[g].stopped, "up", "working")
      <4>1. /\ conn'[g].actor = "up" /\ conn'[g].stopped /\ conn'[g].queue = r
            /\ IdlesBelow(r, conn'[g].epoch + 1) /\ inbox'[g] = inbox[g] /\ ~HasIn(r, ends)
        BY <1>2, <2>1, <2>2, <3>1 DEF Becomes, e
      <4> QED
        BY <4>1 DEF Orderly, ends
    <3>2. CASE ~conn[g].stopped /\ \E k \in {r, b} : Becomes(g, "running", e, k, conn[g].stopped, "up", "working")
      <4>1. PICK k \in {r, b} : Becomes(g, "running", e, k, conn[g].stopped, "up", "working")
        BY <3>2
      <4>2. /\ conn'[g].actor = "up" /\ ~conn'[g].stopped /\ conn'[g].queue = k /\ conn'[g].epoch = e
            /\ conn'[g].status = "running" /\ inbox'[g] = inbox[g] /\ ~HasIn(k, ends)
            /\ IdlesBelow(k, e) /\ IdlesBelow(k, e + 1)
        BY <1>2, <2>1, <2>2, <2>3, <2>4, <3>2, <4>1 DEF Becomes
      <4>3. inbox[g].pc \notin EndedOnRecord
        BY <1>1, <2>1, <3>2 DEF Orderly
      <4> QED
        BY <4>2, <4>3 DEF Orderly, ends
    <3> QED
      BY <2>1, <3>1, <3>2
  <2>8. \A h \in Conns : Orderly(h)'
    BY <1>1, <1>2, <2>5, <2>7, OrderlyBut
  <2> QED
    BY <2>1, <2>6, <2>8 DEF WorkInv
<1>joins. CASE Joins(g) /\ Stays
  <2>1. TurnsTypeOK'
    BY <1>1, <1>joins, CliMoves
  <2>2. Weaker
    BY <1>joins DEF Stays, Weaker
  <2>3. Places'
    BY <1>1, <1>2, <2>2, PlacesStand
  <2>4. \A h \in Conns : Orderly(h)'
    BY <1>1, <1>2, <1>joins, OrderlyStays
  <2> QED
    BY <2>1, <2>3, <2>4 DEF WorkInv
<1>reads. ASSUME NEW n \in Notice, n.kind = "idle" => n.epoch = conn[g].epoch, NEW a, NEW c, conn[g].actor = "up",
                 TurnsTypeOK',
                 Becomes(g, conn[g].status, conn[g].epoch, Append(q, n), conn[g].stopped, a, c),
                 a = "down" \/ (a = "up" /\ n.kind \notin ends /\ c # "working")
          PROVE  WorkInv'
  <2>1. IdlesBelow(Append(q, n), e) /\ (HasIn(Append(q, n), ends) <=> HasIn(q, ends) \/ n.kind \in ends)
    BY <1>3, <1>reads, Appended
  <2>2. Weaker /\ \A h \in Conns \ {g} : conn'[h] = conn[h] /\ inbox'[h] = inbox[h]
    BY <1>2, <1>reads DEF Weaker, Becomes
  <2>3. Places'
    BY <1>1, <1>2, <2>2, PlacesStand
  <2>4. /\ conn'[g].actor = a /\ conn'[g].cli = c /\ conn'[g].queue = Append(q, n) /\ conn'[g].epoch = conn[g].epoch
        /\ conn'[g].stopped = conn[g].stopped /\ inbox'[g] = inbox[g] /\ IdlesBelow(Append(q, n), conn[g].epoch + 1)
    BY <1>2, <1>reads, <2>1 DEF Becomes, e
  <2>5. a = "up" => ~HasIn(Append(q, n), ends) /\ c # "working"
    BY <1>4, <1>reads, <2>1
  <2>6. inbox[g].pc \in EndedOnRecord => conn[g].stopped
    BY <1>1, <1>reads DEF Orderly
  <2>7. Orderly(g)'
    BY <1>reads, <2>4, <2>5, <2>6 DEF Orderly, ends
  <2>8. \A h \in Conns : Orderly(h)'
    BY <1>1, <1>2, <2>2, <2>7, OrderlyBut
  <2> QED
    BY <1>reads, <2>3, <2>8 DEF WorkInv
<1>result. CASE Result(g) /\ conn[g].actor = "up" /\ TurnsTypeOK' /\ \E how \in Terminal :
             Becomes(g, conn[g].status, conn[g].epoch, Append(q, Of(how)), conn[g].stopped, "up", "between")
  <2>1. PICK how \in Terminal :
             Becomes(g, conn[g].status, conn[g].epoch, Append(q, Of(how)), conn[g].stopped, "up", "between")
    BY <1>result
  <2> DEFINE n == Of(how)
  <2>2. n \in Notice /\ n.kind # "idle" /\ n.kind \notin ends
    BY Notices DEF Terminal, ends
  <2> HIDE DEF n
  <2> QED
    BY <1>reads, <1>result, <2>1, <2>2 DEF n
<1>idles. CASE Idles(g) /\ conn[g].actor = "up" /\ TurnsTypeOK' /\
            Becomes(g, conn[g].status, conn[g].epoch, Append(q, IdleOf(conn[g].epoch)), conn[g].stopped, "up", "idle")
  <2> DEFINE n == IdleOf(conn[g].epoch)
  <2>1. n \in Notice /\ n.epoch = conn[g].epoch /\ n.kind \notin ends
    BY <1>2, Notices DEF ends
  <2> HIDE DEF n
  <2> QED
    BY <1>reads, <1>idles, <2>1 DEF n
<1>exits. CASE Exits(g) /\ conn[g].actor = "up" /\ TurnsTypeOK' /\
            Becomes(g, conn[g].status, conn[g].epoch, Append(q, Of("crash")), conn[g].stopped, "down", "gone")
  <2> DEFINE n == Of("crash")
  <2>1. n \in Notice /\ n.kind # "idle"
    BY Notices
  <2> HIDE DEF n
  <2> QED
    BY <1>reads, <1>exits, <2>1 DEF n
<1>5. CASE Joins(g) \/ Result(g) \/ Idles(g) \/ Exits(g)
  BY <1>1, <1>5, <1>joins, <1>result, <1>idles, <1>exits, CliMoves DEF q
<1> QED
  BY <1>starts, <1>5 DEF Cli

-----------------------------------------------------------------------------
(* The inbox takes what is first. *)
LEMMA WorkTakes ==
  ASSUME WorkInv, TurnsTypeOK', NEW g \in Conns, conn[g].queue # <<>>, NEW st,
         Becomes(g, st, conn[g].epoch, Tail(conn[g].queue), conn[g].stopped, conn[g].actor, conn[g].cli),
         st = conn[g].status \/ conn[g].actor # "up" \/ ~IdlesBelow(conn[g].queue, conn[g].epoch),
         UNCHANGED <<live, sender, evict, failed>>,
         \A h \in Conns \ {g} : inbox'[h] = inbox[h], inbox'[g].pc \in EndedOnRecord => conn[g].actor # "up"
  PROVE  WorkInv'
<1>1. TurnsTypeOK /\ Places /\ (\A h \in Conns : Orderly(h)) /\ Orderly(g)
  BY DEF WorkInv
<1> DEFINE e == conn[g].epoch + 1
           q == conn[g].queue
           r == Tail(q)
           ends == {"crash", "exit", "stop"}
<1>2. q \in Seq(Notice) /\ q # <<>> /\ conn[g].epoch \in Nat /\ e \in Nat
  BY <1>1 DEF TurnsTypeOK, Connection
<1>3. IdlesBelow(q, e) /\ (conn[g].actor = "up" => ~HasIn(q, ends)) /\ conn[g].actor # "none"
  BY <1>1 DEF Orderly
<1> HIDE DEF e, q, ends
<1>4. /\ IdlesBelow(q, e) => IdlesBelow(r, e)
      /\ IdlesBelow(q, conn[g].epoch) => IdlesBelow(r, conn[g].epoch)
      /\ HasIn(r, ends) => HasIn(q, ends)
  BY <1>2, Taken
<1>5. Weaker /\ \A h \in Conns \ {g} : conn'[h] = conn[h] /\ inbox'[h] = inbox[h]
  BY DEF Weaker, Becomes
<1>6. Places'
  BY <1>1, <1>5, PlacesStand
<1>7. /\ conn'[g].status = st /\ conn'[g].epoch = conn[g].epoch /\ conn'[g].queue = r
      /\ conn'[g].stopped = conn[g].stopped /\ conn'[g].actor = conn[g].actor /\ conn'[g].cli = conn[g].cli
  BY DEF Becomes, q
<1> HIDE DEF r
<1>8. /\ IdlesBelow(r, conn[g].epoch + 1) /\ (conn[g].actor = "up" => ~HasIn(r, ends))
      /\ (st = conn[g].status /\ IdlesBelow(q, conn[g].epoch) => IdlesBelow(r, conn[g].epoch))
  BY <1>3, <1>4 DEF e
<1>9. conn[g].actor = "up" /\ ~conn[g].stopped /\ conn[g].cli = "working" /\ "send" \notin failed =>
           conn[g].status = "running" /\ IdlesBelow(q, conn[g].epoch)
  BY <1>1 DEF Orderly, q
<1>10. Orderly(g)'
  BY <1>3, <1>7, <1>8, <1>9 DEF Orderly, ends, q
<1>11. \A h \in Conns : Orderly(h)'
  BY <1>1, <1>5, <1>10, OrderlyBut
<1> QED
  BY <1>6, <1>11 DEF WorkInv

(* The inbox keeps the invariant: no idle it settles is of a turn at work. *)
LEMMA WorkInbox ==
  ASSUME TurnsAssumption, WorkInv, NEW g \in Conns, ProcessInbox(g)
  PROVE  WorkInv'
<1>1. TurnsTypeOK /\ Places /\ (\A h \in Conns : Orderly(h)) /\ Orderly(g)
  BY DEF WorkInv
<1>2. conn[g].queue \in Seq(Notice) /\ conn[g].epoch \in Nat
  BY <1>1 DEF TurnsTypeOK, Connection
<1>settle. CASE SettleIdle(g)
  <2>1. /\ TurnsTypeOK' /\ UNCHANGED <<live, sender, evict, failed>>
        /\ conn[g].queue # <<>> /\ Head(conn[g].queue).kind = "idle"
        /\ \A h \in Conns \ {g} : inbox'[h] = inbox[h]
        /\ inbox'[g].pc \notin EndedOnRecord
        /\ \E st : /\ Becomes(g, st, conn[g].epoch, Tail(conn[g].queue), conn[g].stopped, conn[g].actor, conn[g].cli)
                   /\ st = conn[g].status \/ Head(conn[g].queue).epoch = conn[g].epoch
    BY <1>1, <1>settle, SettleMoves DEF Reads, EndedOnRecord
  <2>2. Head(conn[g].queue).epoch = conn[g].epoch => ~IdlesBelow(conn[g].queue, conn[g].epoch)
    <3> DEFINE q == conn[g].queue
               e == conn[g].epoch
    <3>1. q \in Seq(Notice) /\ q # <<>> /\ e \in Nat /\ Head(q).kind = "idle"
      BY <1>2, <2>1
    <3> HIDE DEF q, e
    <3>2. IdlesBelow(q, e) => Head(q).epoch < e
      BY <3>1, Taken
    <3> QED
      BY <3>1, <3>2 DEF q, e
  <2> QED
    BY <2>1, <2>2, WorkTakes
<1>takes. CASE TakeBusy(g) \/ TakeFrame(g)
  <2>1. /\ TurnsTypeOK' /\ UNCHANGED <<live, sender, evict, failed>>
        /\ conn[g].queue # <<>>
        /\ \A h \in Conns \ {g} : inbox'[h] = inbox[h]
        /\ inbox'[g].pc \notin EndedOnRecord
        /\ Becomes(g, conn[g].status, conn[g].epoch, Tail(conn[g].queue), conn[g].stopped, conn[g].actor, conn[g].cli)
    BY <1>1, <1>takes, BusyMoves, FrameMoves DEF Reads, EndedOnRecord
  <2> QED
    BY <2>1, WorkTakes
<1>exit. CASE TakeExit(g)
  <2>1. /\ TurnsTypeOK' /\ UNCHANGED <<live, sender, evict, failed>>
        /\ conn[g].queue # <<>> /\ Head(conn[g].queue).kind \in {"crash", "exit", "stop"}
        /\ \A h \in Conns \ {g} : inbox'[h] = inbox[h]
        /\ \E st : Becomes(g, st, conn[g].epoch, Tail(conn[g].queue), conn[g].stopped, conn[g].actor, conn[g].cli)
    BY <1>1, <1>exit, ExitMoves DEF Reads
  <2>2. conn[g].actor # "up"
    <3>1. HasIn(conn[g].queue, {"crash", "exit", "stop"})
      BY <1>2, <2>1, Taken
    <3> QED
      BY <1>1, <3>1 DEF Orderly
  <2> QED
    BY <2>1, <2>2, WorkTakes
<1>writes. CASE Settled(g) \/ RunningWritten(g) \/ TerminalWritten(g)
  <2>1. /\ TurnsTypeOK' /\ Stays /\ UNCHANGED <<live, sender, evict, failed>> /\ inbox[g].pc # "get"
        /\ \A h \in Conns \ {g} : inbox'[h] = inbox[h]
        /\ inbox'[g].pc \in EndedOnRecord => inbox[g].pc \in EndedOnRecord
    BY <1>1, <1>writes, SettledMoves, WriteMoves DEF Reads, EndedOnRecord
  <2>2. conn[g].actor # "none"
    BY <1>1, <2>1 DEF Orderly
  <2>3. Weaker
    BY <2>1 DEF Stays, Weaker
  <2>4. Places'
    BY <1>1, <2>1, <2>3, PlacesStand
  <2>5. \A h \in Conns : Orderly(h)'
    BY <1>1, <2>1, <2>2, OrderlyStays
  <2> QED
    BY <2>1, <2>4, <2>5 DEF WorkInv
<1>fails. CASE InboxWriteFails(g)
  <2>1. /\ TurnsTypeOK' /\ UNCHANGED <<live, sender, evict>> /\ inbox[g].pc # "get"
        /\ "send" \in failed => "send" \in failed'
        /\ \A h \in Conns \ {g} : inbox'[h] = inbox[h]
        /\ \/ Stays /\ (inbox'[g].pc \in EndedOnRecord => inbox[g].pc \in EndedOnRecord)
           \/ Becomes(g, "error", conn[g].epoch, conn[g].queue, TRUE, conn[g].actor, conn[g].cli)
    BY <1>1, <1>fails, InboxFailMoves DEF Reads, EndedOnRecord
  <2>2. conn[g].actor # "none"
    BY <1>1, <2>1 DEF Orderly
  <2>3. Weaker
    BY <2>1 DEF Stays, Weaker, Becomes
  <2>4. Places'
    BY <1>1, <2>1, <2>3, PlacesStand
  <2>5. CASE Stays /\ (inbox'[g].pc \in EndedOnRecord => inbox[g].pc \in EndedOnRecord)
    BY <1>1, <2>1, <2>2, <2>4, <2>5, OrderlyStays DEF WorkInv
  <2>6. CASE Becomes(g, "error", conn[g].epoch, conn[g].queue, TRUE, conn[g].actor, conn[g].cli)
    <3>1. Orderly(g)'
      BY <1>1, <2>2, <2>6 DEF Orderly, Becomes
    <3>2. \A h \in Conns : Orderly(h)'
      BY <1>1, <2>1, <2>6, <3>1, OrderlyBut DEF Becomes
    <3> QED
      BY <2>1, <2>4, <3>2 DEF WorkInv
  <2> QED
    BY <2>1, <2>5, <2>6
<1> QED
  BY <1>settle, <1>takes, <1>exit, <1>writes, <1>fails DEF ProcessInbox

-----------------------------------------------------------------------------
(* The eviction. *)
LEMMA WorkEviction ==
  ASSUME TurnsAssumption, WorkInv, TimerFires \/ EvictIdle \/ Close \/ Eviction
  PROVE  WorkInv'
<1>1. TurnsTypeOK /\ Places /\ (\A h \in Conns : Orderly(h))
  BY DEF WorkInv
<1>2. evict.pc # "off" => evict.on = live /\ evict.on # 0 /\ evict.on \in Conns /\ conn[evict.on].actor # "none"
  BY <1>1 DEF Places, TurnsTypeOK
<1>begins. CASE TimerFires \/ EvictIdle \/ Close
  <2>1. /\ TurnsTypeOK' /\ Stays /\ UNCHANGED <<live, db, inbox, sender, assumed, ownTurns, crashes, failed>>
        /\ live # 0 /\ evict.pc = "off"
        /\ (UNCHANGED evict) \/ (evict'.pc \in {"cancel", "sent"} /\ evict'.on = live)
    BY <1>1, <1>begins, EvictMoves
  <2>2. Weaker
    BY <2>1 DEF Stays, Weaker
  <2>3. Places'
    BY <1>1, <2>1, <2>2, PlacesEvicted, PlacesStand DEF Leaving
  <2>4. \A h \in Conns : Orderly(h)'
    BY <1>1, <2>1, OrderlyStays
  <2> QED
    BY <2>1, <2>3, <2>4 DEF WorkInv
<1>send. CASE SendDisconnect
  <2>1. evict.pc # "off"
    BY <1>send DEF SendDisconnect
  <2>2. /\ TurnsTypeOK' /\ Stays /\ UNCHANGED <<live, db, inbox, sender, assumed, ownTurns, crashes, failed>>
        /\ evict'.pc = "sent" /\ evict'.on = evict.on
    BY <1>1, <1>2, <1>send, <2>1, SendDisconnectMoves
  <2>3. Weaker
    BY <2>2 DEF Stays, Weaker
  <2>4. Places'
    BY <1>1, <1>2, <2>1, <2>2, <2>3, PlacesEvicted DEF Leaving
  <2>5. \A h \in Conns : Orderly(h)'
    BY <1>1, <2>2, OrderlyStays
  <2> QED
    BY <2>2, <2>4, <2>5 DEF WorkInv
<1>disconnect. CASE Disconnect
  <2>g. PICK g \in Conns : g = evict.on
    BY <1>2, <1>disconnect DEF Disconnect
  <2>1. g = live /\ evict.on # 0 /\ live # 0 /\ conn[g].actor # "none"
    BY <1>2, <1>disconnect, <2>g DEF Disconnect
  <2>2. /\ TurnsTypeOK' /\ UNCHANGED <<live, db, inbox, sender, assumed, ownTurns, crashes, failed>>
        /\ evict'.pc = "drain" /\ evict'.on = g
        /\ \E st :
             \/ /\ conn[g].actor = "up"
                /\ Becomes(g, st, conn[g].epoch, Append(Append(conn[g].queue, Of("exit")), Of("stop")),
                           conn[g].stopped, "down", "gone")
             \/ /\ conn[g].actor # "up"
                /\ Becomes(g, st, conn[g].epoch, Append(conn[g].queue, Of("stop")),
                           conn[g].stopped, conn[g].actor, conn[g].cli)
    BY <1>1, <1>disconnect, <2>g, <2>1, DisconnectMoves
  <2>3. conn[g].actor \in {"up", "down"} /\ conn[g].queue \in Seq(Notice) /\ conn[g].epoch \in Nat
    BY <1>1, <2>1 DEF TurnsTypeOK, Connection
  <2>4. /\ Weaker /\ conn'[g].actor = "down" /\ conn'[g].epoch = conn[g].epoch
        /\ \A h \in Conns \ {g} : conn'[h] = conn[h] /\ inbox'[h] = inbox[h]
    BY <2>2, <2>3 DEF Weaker, Becomes
  <2>5. Places'
    BY <1>1, <2>1, <2>2, <2>4, PlacesEvicted DEF Leaving
  <2>6. Orderly(g)'
    <3> DEFINE e == conn[g].epoch + 1
               q == conn[g].queue
               m == Of("exit")
               n == Of("stop")
    <3>1. e \in Nat /\ q \in Seq(Notice) /\ IdlesBelow(q, e)
      BY <1>1, <2>3 DEF Orderly
    <3>2. m \in Notice /\ m.kind # "idle" /\ n \in Notice /\ n.kind # "idle"
      BY Notices
    <3> HIDE DEF e, q, m, n
    <3>3. IdlesBelow(Append(q, m), e) /\ IdlesBelow(Append(q, n), e) /\ Append(q, m) \in Seq(Notice)
      BY <3>1, <3>2, Appended
    <3>4. IdlesBelow(Append(Append(q, m), n), e)
      BY <3>1, <3>2, <3>3, Appended
    <3>5. conn'[g].queue \in {Append(q, n), Append(Append(q, m), n)}
      BY <2>2 DEF Becomes, q, m, n
    <3>6. IdlesBelow(conn'[g].queue, conn'[g].epoch + 1)
      BY <2>4, <3>3, <3>4, <3>5 DEF e
    <3> QED
      BY <2>4, <3>6 DEF Orderly
  <2>7. \A h \in Conns : Orderly(h)'
    BY <1>1, <2>2, <2>4, <2>6, OrderlyBut
  <2> QED
    BY <2>2, <2>5, <2>7 DEF WorkInv
<1>cancel. CASE CancelInbox
  <2>g. PICK g \in Conns : g = evict.on
    BY <1>2, <1>cancel DEF CancelInbox
  <2>1. g = live /\ evict.on # 0 /\ conn[g].actor = "down" /\ ("send" \in failed => "send" \in failed')
    BY <1>1, <1>2, <1>cancel, <2>g DEF CancelInbox, Places, Leaving, Fails
  <2>2. /\ TurnsTypeOK' /\ UNCHANGED <<live, sender, evict>>
        /\ \E at, st :
             /\ Reads(g, at)
             /\ Becomes(g, st, conn[g].epoch, conn[g].queue, conn[g].stopped, conn[g].actor, conn[g].cli)
    BY <1>1, <1>cancel, <2>g, <2>1, CancelMoves
  <2>3. /\ Weaker /\ \A h \in Conns \ {g} : conn'[h] = conn[h] /\ inbox'[h] = inbox[h]
    BY <2>2 DEF Weaker, Becomes, Reads
  <2>4. Places'
    BY <1>1, <2>2, <2>3, PlacesStand
  <2>5. Orderly(g)'
    BY <1>1, <2>1, <2>2 DEF Orderly, Becomes
  <2>6. \A h \in Conns : Orderly(h)'
    BY <1>1, <2>1, <2>3, <2>5, OrderlyBut
  <2> QED
    BY <2>2, <2>4, <2>6 DEF WorkInv
<1>drained. CASE Drained
  <2>g. PICK g \in Conns : g = evict.on
    BY <1>2, <1>drained DEF Drained
  <2>1. g = live /\ evict.on # 0 /\ live # 0 /\ conn[g].actor = "down" /\ Leaving
    BY <1>1, <1>2, <1>drained, <2>g DEF Drained, Places, Leaving
  <2>2. /\ TurnsTypeOK' /\ UNCHANGED <<inbox, sender>> /\ ("send" \in failed => "send" \in failed')
        /\ \E st : Becomes(g, st, conn[g].epoch, conn[g].queue, conn[g].stopped, conn[g].actor, conn[g].cli)
        /\ (UNCHANGED live /\ evict'.on = live) \/ (live' = 0 /\ evict'.pc = "off")
    BY <1>1, <1>drained, <2>g, <2>1, DrainedMoves, OverlookedMoves
  <2>3. /\ Weaker /\ (\A h \in Conns \ {g} : conn'[h] = conn[h] /\ inbox'[h] = inbox[h]) /\ conn'[g].actor = "down"
    BY <2>1, <2>2 DEF Weaker, Becomes
  <2>4. Places'
    BY <1>1, <2>1, <2>2, <2>3, PlacesEvicted
  <2>5. Orderly(g)'
    BY <1>1, <2>1, <2>2 DEF Orderly, Becomes
  <2>6. \A h \in Conns : Orderly(h)'
    BY <1>1, <2>2, <2>3, <2>5, OrderlyBut
  <2> QED
    BY <2>2, <2>4, <2>6 DEF WorkInv
<1>gone. CASE Gone
  <2>1. /\ TurnsTypeOK' /\ Stays /\ UNCHANGED <<inbox, sender>>
        /\ evict.pc = "final" /\ evict'.pc = "off" /\ live' = 0
        /\ failed \subseteq failed'
    BY <1>1, <1>gone, GoneMoves
  <2>2. Weaker
    BY <2>1 DEF Stays, Weaker
  <2>3. Places'
    BY <1>1, <2>1, <2>2, PlacesEvicted DEF Leaving
  <2>4. \A h \in Conns : Orderly(h)'
    BY <1>1, <2>1, OrderlyStays
  <2> QED
    BY <2>1, <2>3, <2>4 DEF WorkInv
<1> QED
  BY <1>begins, <1>send, <1>disconnect, <1>cancel, <1>drained, <1>gone DEF Eviction

-----------------------------------------------------------------------------
(* Initially nothing is connected. *)
LEMMA WorkBegins ==
  ASSUME TurnsAssumption, TurnsInit
  PROVE  WorkInv
<1> DEFINE r == [status |-> "idle", epoch |-> 1, idleEpoch |-> 0, outcome |-> "none", queue |-> <<>>,
                 stopped |-> FALSE, timer |-> FALSE, actor |-> "none", cli |-> "idle", held |-> 0]
<1>1. r \in Connection
  <2>1. <<>> \in Seq(Notice)
    OBVIOUS
  <2> QED
    BY <2>1 DEF Connection, Status
<1>2. r.epoch = 1 /\ r.queue = <<>> /\ r.actor = "none" /\ r.cli = "idle"
  OBVIOUS
<1>3. conn = [g \in Conns |-> r]
  BY DEF TurnsInit
<1> HIDE DEF r
<1>4. /\ inbox \in [Conns -> InboxState] /\ sender \in [Senders -> SenderState] /\ evict \in EvictState
      /\ \A g \in Conns : inbox[g].pc = "get"
      /\ \A s \in Senders : sender[s].pc = "new"
      /\ evict.pc = "off"
  BY DEF TurnsInit, InboxState, SenderState, EvictState, Status
<1>5. TurnsTypeOK
  <2>1. conn \in [Conns -> Connection]
    BY <1>1, <1>3
  <2>2. ownTurns \in 0..MaxOwnTurns /\ crashes \in 0..MaxCrashes /\ failed \subseteq Failing
    BY DEF TurnsInit, TurnsAssumption
  <2>3. live \in {0} \cup Conns /\ db \in Status /\ assumed \subseteq Conns
    BY DEF TurnsInit, Status, Terminal
  <2> QED
    BY <1>4, <2>1, <2>2, <2>3 DEF TurnsTypeOK
<1>6. Places
  BY <1>2, <1>3, <1>4 DEF TurnsInit, Places, Busy, Underway, Leaving
<1>7. ASSUME NEW g \in Conns
      PROVE  Orderly(g)
  <2>1. conn[g] = r
    BY <1>3
  <2> QED
    BY <1>2, <1>4, <2>1 DEF Orderly, IdlesBelow
<1> QED
  BY <1>5, <1>6, <1>7 DEF WorkInv

(* Every step keeps the invariant. *)
LEMMA WorkSteps ==
  ASSUME TurnsAssumption, WorkInv, [TurnsNext]_turnVars
  PROVE  WorkInv'
<1>1. CASE UNCHANGED turnVars
  BY <1>1 DEF WorkInv, turnVars, TurnsTypeOK, Places, Orderly, Busy, Underway, Leaving
<1>2. CASE TurnsNext
  BY <1>2, WorkRequests, WorkCli, WorkInbox, WorkEviction DEF TurnsNext
<1> QED
  BY <1>1, <1>2

(* The places, the order of the inboxes and the epochs hold in every state  *)
(* of session_manager.py, whatever crashes, fails or outlasts another.       *)
THEOREM WorkInvHolds == TurnsSpec => []WorkInv
<1>1. TurnsInit => WorkInv
  BY WorkBegins, TurnsAssumption
<1>2. WorkInv /\ [TurnsNext]_turnVars => WorkInv'
  BY WorkSteps, TurnsAssumption
<1> QED
  BY <1>1, <1>2, PTL DEF TurnsSpec

(* The sessions, inboxes, deliveries and evictions are well typed. *)
THEOREM TurnsTypeCorrect == TurnsSpec => []TurnsTypeOK
<1>1. WorkInv => TurnsTypeOK
  BY DEF WorkInv
<1> QED
  BY <1>1, WorkInvHolds, PTL

(* A CLI at work counts as running while its inbox is read: _settle_cli_idle *)
(* never settles a turn by an idle read before it.                           *)
THEOREM WorkRunning == TurnsSpec => []WorkIsRunning
<1>1. WorkInv => WorkIsRunning
  BY DEF WorkInv, Orderly, WorkIsRunning, TurnsTypeOK
<1> QED
  BY <1>1, WorkInvHolds, PTL

Calm == crashes = 0 /\ failed = {}
Parting(g) == Leaving /\ conn[g].status \in Terminal
BusyIn(g) == HasIn(conn[g].queue, {"busy"})
Writing == \E s \in Senders : sender[s].pc = "db"

Quiet(g) ==
    /\ ~conn[g].stopped /\ ~HasIn(conn[g].queue, {"crash"}) /\ inbox[g].pc # "last"
    /\ conn[g].actor = "down" /\ (g # live \/ evict.pc = "final") => inbox[g].pc = "done"
    /\ inbox[g].pc \in {"settle", "terminal"} => inbox[g].write \in Terminal
    /\ inbox[g].pc = "settle" =>
         inbox[g].epoch <= conn[g].epoch /\ (conn[g].status = "running" => inbox[g].epoch < conn[g].epoch)

Served(s) ==
    /\ sender[s].pc # "errdb"
    /\ live # 0 => sender[s].on = live
    /\ sender[s].pc = "found" => live # 0 /\ evict.pc # "final"
    /\ sender[s].pc = "rewrite" => live = 0 /\ sender[s].write # "running"
    /\ sender[s].pc = "db" /\ (live = 0 \/ evict.pc = "final") => conn[sender[s].on].status # "running"

Lively(g) ==
    /\ conn[g].actor # "up" => Leaving
    /\ inbox[g].pc \in {"resettle", "resume"} \/ BusyIn(g) => conn[g].status = "running" \/ Parting(g)
    /\ BusyBehind(conn[g].queue, conn[g].epoch)
    /\ evict.pc = "off" /\ conn[g].status = "running" /\ g \notin assumed /\ db # "running" =>
         inbox[g].pc \in {"settle", "resettle", "resume"} \/ BusyIn(g) \/ Writing
    /\ db = "running" /\ conn[g].status # "running" => inbox[g].pc \in {"settle", "terminal"} \/ Parting(g)
    /\ g \in assumed => /\ db # "running" /\ ~BusyIn(g) /\ inbox[g].pc \in {"get", "terminal", "done"}
                        /\ conn[g].status = "running" \/ Leaving

CalmState ==
    /\ \A g \in Conns : Quiet(g)
    /\ \A s \in Senders : Busy(s) => Served(s)
    /\ evict.pc = "final" => evict.write \in Terminal
    /\ live # 0 => Lively(live)
    /\ live = 0 /\ db = "running" => \E s \in Senders : sender[s].pc = "rewrite"

CalmInv == Calm => CalmState

(* Who acts is there. *)
LEMMA Acting ==
  ASSUME WorkInv, CalmState, NEW g \in Conns, conn[g].actor # "none", inbox[g].pc # "done" \/ conn[g].actor = "up"
  PROVE  g = live /\ evict.pc # "final" /\ Lively(g) /\ Quiet(g) /\ Orderly(g)
<1>1. conn[g].actor \in {"up", "down"}
  BY DEF WorkInv, TurnsTypeOK, Connection
<1>2. g = live /\ evict.pc # "final"
  BY <1>1 DEF WorkInv, Places, CalmState, Quiet, Leaving
<1>3. live # 0
  BY <1>2 DEF Conns
<1> QED
  BY <1>2, <1>3 DEF WorkInv, CalmState

(* The connections that are not there stay quiet. *)
LEMMA QuietBut ==
  ASSUME CalmState, NEW g \in Conns, live = g \/ live = 0,
         \A h \in Conns \ {g} : conn'[h] = conn[h] /\ inbox'[h] = inbox[h], Quiet(g)'
  PROVE  \A h \in Conns : Quiet(h)'
<1> SUFFICES ASSUME NEW h \in Conns, h # g
             PROVE  Quiet(h)'
  OBVIOUS
<1>1. h # live /\ Quiet(h)
  BY DEF CalmState, Conns
<1> QED
  BY <1>1 DEF Quiet

(* The session there moves, its requests do not. *)
LEMMA CalmMoves ==
  ASSUME WorkInv, CalmState, NEW g \in Conns, g = live, UNCHANGED <<live, sender>>,
         evict'.pc # "final",
         \A h \in Conns \ {g} : conn'[h] = conn[h] /\ inbox'[h] = inbox[h], Quiet(g)', Lively(g)'
  PROVE  CalmState'
<1>1. live # 0 /\ live' # 0
  BY DEF Conns
<1>2. \A h \in Conns : Quiet(h)'
  BY QuietBut
<1>3. \A s \in Senders : Busy(s)' => Served(s)'
  BY <1>1 DEF CalmState, Busy, Underway, Served
<1> QED
  BY <1>1, <1>2, <1>3 DEF CalmState

(* One request moves, the only one under way. *)
LEMMA CalmServes ==
  ASSUME WorkInv, CalmState, NEW s \in Senders, UNCHANGED evict,
         \A t \in Senders \ {s} : sender'[t] = sender[t] /\ ~Busy(t), Busy(s)' => Served(s)',
         \A g \in Conns : Quiet(g)', live' # 0 => Lively(live)',
         live' = 0 /\ db' = "running" => \E t \in Senders : sender'[t].pc = "rewrite"
  PROVE  CalmState'
<1>1. \A t \in Senders : Busy(t)' => Served(t)'
  <2> SUFFICES ASSUME NEW t \in Senders, Busy(t)'
               PROVE  t = s
    OBVIOUS
  <2> QED
    BY DEF Busy, Underway
<1> QED
  BY <1>1 DEF CalmState

(* Nothing of a connection is changed by the step. *)
LEMMA LivelyStays ==
  ASSUME NEW g \in Conns, Lively(g), Stays, inbox'[g] = inbox[g], UNCHANGED <<db, evict, assumed>>, Writing => Writing'
  PROVE  Lively(g)'
BY DEF Lively, Stays, BusyIn, Parting, Leaving

LEMMA QuietStays ==
  ASSUME CalmState, Stays, UNCHANGED <<inbox, live>>, evict'.pc = "final" => evict.pc = "final"
  PROVE  \A g \in Conns : Quiet(g)'
BY DEF CalmState, Quiet, Stays

-----------------------------------------------------------------------------
(* While nothing goes wrong: the requests. *)
LEMMA CalmRequests ==
  ASSUME TurnsAssumption, WorkInv, WorkInv', Calm, Calm', CalmState, NEW s \in Senders, Request(s)
  PROVE  CalmState'
<1>1. TurnsTypeOK /\ Places /\ (\A h \in Conns : Orderly(h))
  BY DEF WorkInv
<1>2. /\ \A g \in Conns : Quiet(g)
      /\ \A t \in Senders : Busy(t) => Served(t)
      /\ live # 0 => Lively(live)
      /\ live = 0 /\ db = "running" => \E t \in Senders : sender[t].pc = "rewrite"
  BY DEF CalmState
<1>3. Busy(s) => /\ sender[s].on \in Conns /\ sender[s].on # 0 /\ conn[sender[s].on].actor # "none"
                 /\ \A t \in Senders \ {s} : ~Busy(t)
  BY <1>1 DEF Places, TurnsTypeOK, SenderState, Busy
<1>others. Underway(s) => \A t \in Senders \ {s} : ~Busy(t)
  BY <1>1 DEF Places, Busy
<1>read. CASE ReadMeta(s) \/ Repeated(s)
  <2>1. /\ UNCHANGED <<live, db, conn, inbox, evict, assumed>> /\ sender'[s].pc \in {"read", "done"}
        /\ sender[s].pc \in {"new", "read", "found"}
        /\ \A t \in Senders \ {s} : sender'[t] = sender[t] /\ ~Busy(t)
    <3>1. CASE ReadMeta(s)
      BY <1>1, <3>1 DEF ReadMeta, Admitted, Busy, Underway, TurnsTypeOK, SenderState
    <3>2. CASE Repeated(s)
      BY <1>1, <1>others, <3>2 DEF Repeated, Underway, TurnsTypeOK, SenderState
    <3> QED
      BY <1>read, <3>1, <3>2
  <2>2. Stays
    BY <1>1, <2>1, Unmoved
  <2>3. \A g \in Conns : Quiet(g)'
    BY <2>1, <2>2, QuietStays
  <2>4. ~Busy(s)' /\ ~Writing /\ \A t \in Senders : sender[t].pc # "rewrite"
    BY <2>1 DEF Writing, Busy, Underway
  <2>5. live # 0 => Lively(live)'
    <3> SUFFICES ASSUME NEW g \in Conns, g = live, live # 0
                 PROVE  Lively(g)'
      BY <1>1, <2>1 DEF TurnsTypeOK
    <3> QED
      BY <1>2, <2>1, <2>2, <2>4, LivelyStays
  <2> QED
    BY <1>2, <2>1, <2>3, <2>4, <2>5, CalmServes
<1>begin. CASE Begin(s)
  <2>1. /\ live # 0 /\ evict.pc = "off" /\ sender'[s].pc = "found" /\ sender'[s].on = live
        /\ \A t \in Senders \ {s} : sender'[t] = sender[t] /\ ~Busy(t)
        /\ ~Busy(s) /\ UNCHANGED <<live, db, conn, inbox, evict, assumed>>
    BY <1>1, <1>begin, <1>others DEF Begin, Busy, Underway, TurnsTypeOK, SenderState
  <2>2. Stays
    BY <1>1, <2>1, Unmoved
  <2>3. \A g \in Conns : Quiet(g)'
    BY <2>1, <2>2, QuietStays
  <2>4. Served(s)'
    BY <2>1 DEF Served
  <2>5. ~Writing
    BY <2>1 DEF Writing, Busy, Underway
  <2>6. Lively(live)'
    BY <1>2, <2>1, <2>5 DEF Lively, BusyIn, Parting, Leaving
  <2> QED
    BY <2>1, <2>3, <2>4, <2>6, CalmServes
<1>connect. CASE ConnectResumed(s)
  <2>1. PICK g \in Conns :
          /\ conn[g].actor = "none" /\ live' = g /\ sender'[s].on = g
          /\ IF sender[s].seen = "running" THEN assumed' = assumed \cup {g} ELSE assumed' = assumed \ {g}
          /\ Becomes(g, IF sender[s].seen = "completed" THEN "idle" ELSE sender[s].seen, conn[g].epoch,
                     conn[g].queue, conn[g].stopped, "up", conn[g].cli)
    BY <1>1, <1>connect, ConnectMoves
  <2>2. /\ live = 0 /\ sender'[s].pc = "found" /\ \A t \in Senders : ~Busy(t)
        /\ \A t \in Senders \ {s} : sender'[t] = sender[t]
        /\ UNCHANGED <<db, inbox, evict, failed>>
    <3>1. PICK k \in Conns : sender' = [sender EXCEPT ![s].pc = "found", ![s].on = k]
      BY <1>connect, Zenon DEF ConnectResumed
    <3>2. live = 0 /\ sender[s].pc = "read" /\ UNCHANGED <<db, inbox, evict, failed>>
      BY <1>connect, Zenon DEF ConnectResumed
    <3> QED
      BY <1>1, <1>others, <3>1, <3>2 DEF Busy, Underway, TurnsTypeOK, SenderState
  <2>3. db # "running"
    BY <1>2, <2>2 DEF Busy, Underway
  <2>4. evict.pc = "off" /\ g # 0
    BY <1>1, <2>2 DEF Places, Conns
  <2>5. conn[g].queue = <<>> /\ inbox[g].pc = "get" /\ Quiet(g)
    BY <1>1, <1>2, <2>1 DEF Orderly
  <2>6. /\ g \in assumed' <=> conn'[g].status = "running"
        /\ conn'[g].epoch = conn[g].epoch /\ conn'[g].queue = <<>>
        /\ conn'[g].stopped = conn[g].stopped /\ conn'[g].actor = "up"
        /\ \A h \in Conns \ {g} : conn'[h] = conn[h] /\ inbox'[h] = inbox[h]
    BY <2>1, <2>2, <2>3, <2>5 DEF Becomes
  <2>7. Quiet(g)'
    BY <2>1, <2>2, <2>5, <2>6 DEF Quiet
  <2>8. \A h \in Conns : Quiet(h)'
    BY <2>2, <2>6, <2>7, QuietBut
  <2>9. Lively(g)'
    BY <2>2, <2>3, <2>5, <2>6 DEF Lively, BusyIn, HasIn, BusyBehind
  <2>10. Served(s)'
    BY <2>1, <2>2, <2>4 DEF Served
  <2> QED
    BY <2>1, <2>2, <2>4, <2>8, <2>9, <2>10, CalmServes
<1>retire. CASE Retire(s)
  <2>1. live # 0 /\ conn[live].actor = "down" /\ evict.pc = "off"
    BY <1>retire DEF Retire, EvictOne
  <2> QED
    BY <1>2, <2>1 DEF Lively, Leaving
<1>late. CASE TooLate(s)
  <2>1. /\ Busy(s) /\ sender[s].pc = "db" /\ sender[s].on # live
        /\ UNCHANGED <<live, conn, inbox, evict, assumed>>
    BY <1>late DEF TooLate, Busy, Underway
  <2>2. live = 0 /\ conn[sender[s].on].status # "running"
    BY <1>2, <2>1 DEF Served
  <2>3. /\ sender'[s].pc = "rewrite" /\ sender'[s].write = conn[sender[s].on].status
        /\ \A t \in Senders \ {s} : sender'[t] = sender[t]
    <3>1. sender' = [sender EXCEPT ![s].pc = "rewrite", ![s].write = conn[sender[s].on].status]
      BY <1>late, <2>2 DEF TooLate
    <3> QED
      BY <1>1, <3>1 DEF TurnsTypeOK, SenderState
  <2>4. Stays
    BY <1>1, <2>1, Unmoved
  <2>5. \A g \in Conns : Quiet(g)'
    BY <2>1, <2>4, QuietStays
  <2>6. Served(s)'
    BY <2>1, <2>2, <2>3 DEF Served
  <2> QED
    BY <1>3, <2>1, <2>2, <2>3, <2>5, <2>6, CalmServes
<1>enter. CASE Register(s) \/ Send(s)
  <2>1. /\ Busy(s) /\ UNCHANGED <<live, inbox, evict>>
        /\ \/ Register(s) /\ sender[s].pc = "found" /\ sender'[s].pc = "db" /\ UNCHANGED <<db, assumed>>
           \/ Send(s) /\ live = sender[s].on /\ sender'[s].pc \in {"refused", "query"} /\ db' = "running"
              /\ assumed' = assumed \ {sender[s].on}
        /\ sender'[s].on = sender[s].on
        /\ \A t \in Senders \ {s} : sender'[t] = sender[t]
    BY <1>1, <1>enter DEF Register, Send, Busy, Underway, TurnsTypeOK, SenderState
  <2>g. PICK g \in Conns : g = sender[s].on
    BY <1>3, <2>1
  <2>2. g = live /\ live # 0 /\ (Register(s) => evict.pc # "final")
    BY <1>2, <1>3, <2>1, <2>g DEF Served, Register
  <2>3. Becomes(g, "running", conn[g].epoch + 1, conn[g].queue, conn[g].stopped, conn[g].actor, conn[g].cli)
    BY <1>1, <1>enter, <2>g, <2>2, RegisterMoves
  <2>4. /\ conn'[g].status = "running" /\ conn'[g].epoch = conn[g].epoch + 1 /\ conn'[g].queue = conn[g].queue
        /\ conn'[g].stopped = conn[g].stopped /\ conn'[g].actor = conn[g].actor /\ inbox'[g] = inbox[g]
        /\ \A h \in Conns \ {g} : conn'[h] = conn[h] /\ inbox'[h] = inbox[h]
    BY <2>1, <2>3 DEF Becomes
  <2>5. conn[g].epoch \in Nat /\ inbox[g].epoch \in Nat /\ conn[g].queue \in Seq(Notice) /\ Quiet(g) /\ Lively(g)
    BY <1>1, <1>2, <2>2 DEF TurnsTypeOK, Connection, InboxState
  <2>6. Quiet(g)'
    BY <2>1, <2>2, <2>4, <2>5 DEF Quiet
  <2>7. \A h \in Conns : Quiet(h)'
    BY <2>2, <2>4, <2>6, QuietBut
  <2>8. Lively(g)'
    <3>1. BusyBehind(conn[g].queue, conn[g].epoch + 1)
      <4> DEFINE e == conn[g].epoch
                 f == e + 1
                 q == conn[g].queue
      <4>1. e \in Nat /\ f \in Nat /\ e <= f /\ q \in Seq(Notice)
        BY <2>5
      <4>2. BusyBehind(q, e)
        BY <2>5 DEF Lively
      <4> HIDE DEF e, f, q
      <4>3. BusyBehind(q, f)
        BY <4>1, <4>2, Later
      <4> QED
        BY <4>3 DEF e, f, q
    <3>2. db' = "running" \/ Writing'
      BY <2>1 DEF Writing
    <3>5. g \in assumed' => db' # "running" /\ ~BusyIn(g) /\ inbox[g].pc \in {"get", "terminal", "done"}
      BY <2>1, <2>g, <2>5 DEF Lively
    <3>3. evict' = evict
      BY <2>1
    <3>4. conn[g].actor # "up" => Leaving'
      BY <2>5, <3>3 DEF Lively, Leaving
    <3> QED
      BY <2>4, <3>1, <3>2, <3>4, <3>5 DEF Lively, BusyIn
  <2>9. Served(s)'
    BY <2>1, <2>g, <2>2 DEF Served
  <2> QED
    BY <1>3, <2>1, <2>2, <2>7, <2>8, <2>9, CalmServes
<1>fail. CASE SendWriteFails(s)
  BY <1>fail DEF SendWriteFails, Fails, Calm
<1>rewritten. CASE Rewritten(s)
  <2>1. /\ Busy(s) /\ sender[s].pc = "rewrite" /\ UNCHANGED <<live, inbox, evict>> /\ db' = sender[s].write
    BY <1>rewritten DEF Rewritten, Busy, Underway
  <2>g. PICK g \in Conns : g = sender[s].on
    BY <1>3, <2>1
  <2>2. live = 0 /\ db' # "running" /\ g # 0
    BY <1>2, <2>1 DEF Served, Conns
  <2>3. /\ \A t \in Senders \ {s} : sender'[t] = sender[t]
        /\ \E st, q :
             /\ Becomes(g, st, conn[g].epoch, q, conn[g].stopped, conn[g].actor, conn[g].cli)
             /\ q \in {conn[g].queue, Append(conn[g].queue, IdleOf(conn[g].epoch))}
             /\ \/ sender'[s].pc = "done" /\ st = conn[g].status
                \/ evict.pc = "off" /\ live = g
    BY <1>1, <1>rewritten, <2>g, <2>2, WriteFailMoves
  <2>4. PICK q :
          /\ Becomes(g, conn[g].status, conn[g].epoch, q, conn[g].stopped, conn[g].actor, conn[g].cli)
          /\ q \in {conn[g].queue, Append(conn[g].queue, IdleOf(conn[g].epoch))}
          /\ sender'[s].pc = "done"
    BY <2>2, <2>3
  <2>5. HasIn(q, {"crash"}) => HasIn(conn[g].queue, {"crash"})
    <3> DEFINE n == IdleOf(conn[g].epoch)
    <3>1. conn[g].epoch \in Nat /\ conn[g].queue \in Seq(Notice)
      BY <1>1 DEF TurnsTypeOK, Connection
    <3>2. n \in Notice /\ n.kind \notin {"crash"}
      BY <3>1, Notices
    <3> HIDE DEF n
    <3>3. HasIn(Append(conn[g].queue, n), {"crash"}) => HasIn(conn[g].queue, {"crash"})
      BY <3>1, <3>2, Appended
    <3> QED
      BY <2>4, <3>3 DEF n
  <2>6. Quiet(g)'
    BY <1>2, <2>1, <2>4, <2>5 DEF Quiet, Becomes
  <2>7. \A h \in Conns : Quiet(h)'
    BY <2>1, <2>2, <2>4, <2>6, QuietBut DEF Becomes
  <2> QED
    BY <1>3, <2>7, <2>4, <2>3, <2>2, <2>1, CalmServes DEF Busy, Underway
<1>delivered. CASE Delivered(s)
  <2>1. /\ Busy(s) /\ sender[s].pc = "query" /\ sender'[s].pc = "done"
        /\ \A t \in Senders \ {s} : sender'[t] = sender[t]
        /\ UNCHANGED <<live, inbox, evict, db, assumed>>
    BY <1>1, <1>delivered DEF Delivered, Busy, Underway, TurnsTypeOK, SenderState
  <2>2. Stays
    BY <1>1, <1>3, <1>delivered, <2>1, DeliveredMoves
  <2>3. \A g \in Conns : Quiet(g)'
    BY <2>1, <2>2, QuietStays
  <2>4. Writing => Writing'
    BY <1>3, <2>1 DEF Writing, Busy, Underway
  <2>5. live # 0 => Lively(live)'
    <3> SUFFICES ASSUME NEW g \in Conns, g = live, live # 0
                 PROVE  Lively(g)'
      BY <1>1, <2>1 DEF TurnsTypeOK
    <3> QED
      BY <1>2, <2>1, <2>2, <2>4, LivelyStays
  <2>6. live = 0 => db # "running"
    BY <1>2, <1>3, <2>1 DEF Busy, Underway
  <2> QED
    BY <1>3, <2>1, <2>3, <2>5, <2>6, CalmServes DEF Busy, Underway
<1>undelivered. CASE Undelivered(s)
  <2>1. /\ Busy(s) /\ UNCHANGED <<live, inbox, evict, db, assumed>>
    BY <1>undelivered DEF Undelivered, Busy, Underway
  <2>g. PICK g \in Conns : g = sender[s].on
    BY <1>3, <2>1
  <2>2. /\ \A t \in Senders \ {s} : sender'[t] = sender[t]
        /\ sender[s].pc \in {"query", "refused"}
        /\ sender'[s].pc = "done" \/ (sender'[s].pc = "errdb" /\ evict.pc = "off" /\ live = g)
        /\ \/ /\ conn[g].actor = "down" /\ UNCHANGED crashes
              /\ Becomes(g, "error", conn[g].epoch, conn[g].queue, conn[g].stopped, "down", conn[g].cli)
           \/ /\ conn[g].actor = "up" /\ crashes' = crashes + 1
              /\ Becomes(g, "error", conn[g].epoch, Append(conn[g].queue, Of("crash")), conn[g].stopped,
                         "down", "gone")
    BY <1>1, <1>3, <1>undelivered, <2>1, <2>g, UndeliveredMoves
  <2>3. /\ conn[g].actor = "down"
        /\ Becomes(g, "error", conn[g].epoch, conn[g].queue, conn[g].stopped, "down", conn[g].cli)
    BY <2>2 DEF Calm
  <2>4. (live = g \/ live = 0) /\ (live = g => Leaving /\ Lively(g)) /\ Quiet(g) /\ g # 0
    BY <1>2, <1>3, <2>1, <2>g, <2>3 DEF Served, Lively
  <2>5. sender'[s].pc = "done"
    BY <2>2, <2>4 DEF Leaving
  <2>6. /\ conn'[g].status = "error" /\ conn'[g].epoch = conn[g].epoch /\ conn'[g].queue = conn[g].queue
        /\ conn'[g].stopped = conn[g].stopped /\ conn'[g].actor = conn[g].actor /\ inbox'[g] = inbox[g]
        /\ \A h \in Conns \ {g} : conn'[h] = conn[h] /\ inbox'[h] = inbox[h]
    BY <2>1, <2>3 DEF Becomes
  <2>7. Quiet(g)'
    BY <2>1, <2>4, <2>6 DEF Quiet
  <2>8. \A h \in Conns : Quiet(h)'
    BY <2>4, <2>6, <2>7, QuietBut
  <2>9. live = g => Lively(g)'
    <3>1. live = g => Leaving' /\ BusyBehind(conn[g].queue, conn[g].epoch)
      BY <2>1, <2>4 DEF Lively, Leaving
    <3>2. live = g /\ g \in assumed => db # "running" /\ ~BusyIn(g) /\ inbox[g].pc \in {"get", "terminal", "done"}
      BY <2>4 DEF Lively
    <3> QED
      BY <2>1, <2>6, <3>1, <3>2 DEF Lively, BusyIn, Parting, Leaving, Terminal
  <2>10. live = 0 => db # "running"
    BY <1>2, <1>3, <2>1, <2>2 DEF Busy, Underway
  <2> QED
    BY <1>3, <2>1, <2>2, <2>4, <2>5, <2>8, <2>9, <2>10, CalmServes DEF Busy, Underway
<1>error. CASE ErrorWritten(s)
  <2>1. Busy(s) /\ sender[s].pc = "errdb"
    BY <1>error DEF ErrorWritten, Busy, Underway
  <2> QED
    BY <1>2, <2>1 DEF Served
<1> QED
  BY <1>read, <1>begin, <1>connect, <1>retire, <1>late, <1>enter, <1>fail, <1>rewritten, <1>delivered, <1>undelivered,
     <1>error DEF Request

(* The same, where the connections stay as they are but for their timers. *)
LEMMA CalmStays ==
  ASSUME WorkInv, CalmState, NEW g \in Conns, g = live, UNCHANGED <<live, sender>>, Stays,
         evict'.pc # "final",
         \A h \in Conns \ {g} : inbox'[h] = inbox[h], Quiet(g)', Lively(g)'
  PROVE  CalmState'
<1>1. live # 0 /\ live' # 0
  BY DEF Conns
<1>2. ASSUME NEW h \in Conns, h # g
      PROVE  Quiet(h)'
  <2>1. Quiet(h) /\ inbox'[h] = inbox[h]
    BY <1>2 DEF CalmState
  <2> QED
    BY <1>2, <2>1 DEF Quiet, Stays
<1>3. \A s \in Senders : Busy(s)' => Served(s)'
  BY <1>1 DEF CalmState, Busy, Underway, Served
<1> QED
  BY <1>1, <1>2, <1>3 DEF CalmState

(* The CLI. *)
LEMMA CalmCli ==
  ASSUME TurnsAssumption, WorkInv, Calm, Calm', CalmState, NEW g \in Conns, Cli(g)
  PROVE  CalmState'
<1>1. TurnsTypeOK /\ conn[g].actor = "up"
  BY DEF WorkInv, Cli, Starts, Joins, Result, Idles, Exits
<1>2. g = live /\ evict.pc # "final" /\ Lively(g) /\ Quiet(g) /\ Orderly(g)
  BY <1>1, Acting
<1>3. UNCHANGED <<live, db, sender, evict, inbox, assumed>>
  BY DEF Cli, Starts, Joins, Result, Idles, Exits
<1> DEFINE e == conn[g].epoch
           q == conn[g].queue
<1>4. e \in Nat /\ q \in Seq(Notice) /\ inbox[g].epoch \in Nat
  BY <1>1 DEF TurnsTypeOK, Connection, InboxState
<1>5. ~conn[g].stopped /\ ~HasIn(q, {"crash"}) /\ IdlesBelow(q, e + 1) /\ BusyBehind(q, e)
  BY <1>2 DEF Quiet, Orderly, Lively
<1> HIDE DEF q
<1>starts. CASE Starts(g)
  <2> DEFINE r == Append(q, Of("work"))
             b == Append(r, Of("busy"))
             k == IF conn[g].status = "running" THEN r ELSE b
             f == e + 1
  <2>1. Becomes(g, "running", f, k, conn[g].stopped, "up", "working")
    BY <1>1, <1>5, <1>starts, StartsMoves DEF q
  <2>2. f \in Nat /\ e <= f /\ e < f
    BY <1>4
  <2>3. IdlesBelow(q, f) /\ BusyBehind(q, f)
    <3>1. IdlesBelow(q, f)
      BY <1>5
    <3> HIDE DEF f, e
    <3> QED
      BY <1>4, <1>5, <2>2, <3>1, Later
  <2> HIDE DEF f
  <2>4. /\ r \in Seq(Notice) /\ IdlesBelow(r, f) /\ BusyBehind(r, f) /\ ~HasIn(r, {"crash"})
        /\ HasIn(r, {"busy"}) <=> HasIn(q, {"busy"})
    <3> DEFINE n == Of("work")
    <3>1. n \in Notice /\ n.kind = "work"
      BY Notices
    <3> HIDE DEF n
    <3>2. Append(q, n) \in Seq(Notice)
      BY <1>4, <3>1
    <3>3. IdlesBelow(Append(q, n), f) /\ BusyBehind(Append(q, n), f)
      BY <1>4, <2>2, <2>3, <3>1, Appended
    <3>4. /\ HasIn(Append(q, n), {"crash"}) => HasIn(q, {"crash"})
          /\ HasIn(Append(q, n), {"busy"}) <=> HasIn(q, {"busy"})
      BY <1>4, <2>2, <3>1, Appended
    <3> QED
      BY <1>5, <3>2, <3>3, <3>4 DEF n
  <2> HIDE DEF r
  <2>5. BusyBehind(b, f) /\ ~HasIn(b, {"crash"}) /\ HasIn(b, {"busy"})
    <3> DEFINE n == Of("busy")
    <3>1. n \in Notice /\ n.kind = "busy"
      BY Notices
    <3> HIDE DEF n
    <3>2. BusyBehind(Append(r, n), f)
      BY <2>2, <2>4, <3>1, Appended
    <3>3. /\ HasIn(Append(r, n), {"crash"}) => HasIn(r, {"crash"})
          /\ HasIn(Append(r, n), {"busy"})
      BY <2>2, <2>4, <3>1, Appended
    <3> QED
      BY <2>4, <3>2, <3>3 DEF n
  <2> HIDE DEF b
  <2>6. /\ BusyBehind(k, f) /\ ~HasIn(k, {"crash"})
        /\ IF conn[g].status = "running" THEN HasIn(k, {"busy"}) <=> HasIn(q, {"busy"}) ELSE HasIn(k, {"busy"})
    BY <2>4, <2>5
  <2> HIDE DEF k
  <2>7. /\ conn'[g].status = "running" /\ conn'[g].epoch = f /\ conn'[g].queue = k
        /\ conn'[g].stopped = conn[g].stopped /\ conn'[g].actor = "up" /\ inbox'[g] = inbox[g]
        /\ \A h \in Conns \ {g} : conn'[h] = conn[h] /\ inbox'[h] = inbox[h]
    BY <1>3, <2>1 DEF Becomes
  <2>8. Quiet(g)'
    BY <1>2, <1>3, <1>4, <2>2, <2>6, <2>7 DEF Quiet, e
  <2>9. Lively(g)'
    <3>1. ~Leaving
      BY <1>1, <1>2 DEF WorkInv, Places
    <3>2. g \in assumed => ~HasIn(k, {"busy"})
      BY <1>2, <2>6, <3>1 DEF Lively, BusyIn, q
    <3> QED
      BY <1>2, <1>3, <2>6, <2>7, <3>2 DEF Lively, BusyIn, Writing, q
  <2> QED
    BY <1>2, <1>3, <2>7, <2>8, <2>9, CalmMoves
<1>joins. CASE Joins(g) /\ Stays
  <2>1. Writing => Writing'
    BY <1>3 DEF Writing
  <2>2. Lively(g)'
    BY <1>2, <1>3, <1>joins, <2>1, LivelyStays
  <2>3. \A h \in Conns : Quiet(h)'
    BY <1>3, <1>joins, QuietStays
  <2>4. \A s \in Senders : Busy(s)' => Served(s)'
    BY <1>2, <1>3 DEF CalmState, Busy, Underway, Served, Conns
  <2> QED
    BY <1>2, <1>3, <2>2, <2>3, <2>4 DEF CalmState, Conns
<1>reads. ASSUME NEW n \in Notice, n.kind \notin {"crash", "busy"}, NEW c,
                 Becomes(g, conn[g].status, e, Append(q, n), conn[g].stopped, "up", c)
          PROVE  CalmState'
  <2>1. BusyBehind(Append(q, n), e)
    BY <1>4, <1>5, <1>reads, Appended
  <2>2. /\ HasIn(Append(q, n), {"crash"}) => HasIn(q, {"crash"})
        /\ HasIn(Append(q, n), {"busy"}) <=> HasIn(q, {"busy"})
    BY <1>4, <1>reads, Appended
  <2>3. /\ conn'[g].status = conn[g].status /\ conn'[g].epoch = conn[g].epoch /\ conn'[g].queue = Append(q, n)
        /\ conn'[g].stopped = conn[g].stopped /\ conn'[g].actor = "up" /\ inbox'[g] = inbox[g]
        /\ \A h \in Conns \ {g} : conn'[h] = conn[h] /\ inbox'[h] = inbox[h]
    BY <1>3, <1>reads DEF Becomes
  <2>4. Quiet(g)'
    BY <1>2, <1>3, <1>5, <2>2, <2>3 DEF Quiet
  <2>5. Lively(g)'
    BY <1>2, <1>3, <2>1, <2>2, <2>3 DEF Lively, BusyIn, Writing, Parting, Leaving, q
  <2> QED
    BY <1>2, <1>3, <2>3, <2>4, <2>5, CalmMoves
<1>result. CASE \E how \in Terminal :
             Becomes(g, conn[g].status, e, Append(q, Of(how)), conn[g].stopped, "up", "between")
  <2>1. PICK how \in Terminal :
             Becomes(g, conn[g].status, e, Append(q, Of(how)), conn[g].stopped, "up", "between")
    BY <1>result
  <2> DEFINE n == Of(how)
  <2>2. n \in Notice /\ n.kind \notin {"crash", "busy"}
    BY Notices DEF Terminal
  <2> HIDE DEF n
  <2> QED
    BY <1>reads, <2>1, <2>2 DEF n
<1>idles. CASE Becomes(g, conn[g].status, e, Append(q, IdleOf(e)), conn[g].stopped, "up", "idle")
  <2> DEFINE n == IdleOf(e)
  <2>1. n \in Notice /\ n.kind \notin {"crash", "busy"}
    BY <1>4, Notices
  <2> HIDE DEF n
  <2> QED
    BY <1>reads, <1>idles, <2>1 DEF n
<1>6. CASE Joins(g) \/ Result(g) \/ Idles(g) \/ Exits(g)
  <2>1. crashes' # crashes + 1
    BY DEF Calm
  <2> QED
    BY <1>1, <1>6, <1>joins, <1>result, <1>idles, <2>1, CliMoves DEF q
<1> QED
  BY <1>starts, <1>6 DEF Cli

-----------------------------------------------------------------------------
(* A notice that is taken without more. *)
LEMMA CalmTail ==
  ASSUME TurnsTypeOK, NEW g \in Conns, conn[g].queue # <<>>
  PROVE  LET q == conn[g].queue IN
         /\ \A k : HasIn(q, k) <=> Head(q).kind \in k \/ HasIn(Tail(q), k)
         /\ BusyBehind(q, conn[g].epoch) =>
              /\ BusyBehind(Tail(q), conn[g].epoch)
              /\ Head(q).kind = "idle" /\ HasIn(Tail(q), {"busy"}) => Head(q).epoch < conn[g].epoch
<1> DEFINE q == conn[g].queue
           e == conn[g].epoch
<1>1. q \in Seq(Notice) /\ q # <<>> /\ e \in Nat
  BY DEF TurnsTypeOK, Connection
<1> HIDE DEF q, e
<1>2. \A k : HasIn(q, k) <=> Head(q).kind \in k \/ HasIn(Tail(q), k)
  BY <1>1, Taken
<1>3. BusyBehind(q, e) =>
        /\ BusyBehind(Tail(q), e)
        /\ Head(q).kind = "idle" /\ HasIn(Tail(q), {"busy"}) => Head(q).epoch < e
  BY <1>1, Taken
<1> QED
  BY <1>2, <1>3 DEF q, e

(* The inbox: whoever commits, somebody puts the status right after him. *)
LEMMA CalmInbox ==
  ASSUME TurnsAssumption, WorkInv, Calm, Calm', CalmState, NEW g \in Conns, ProcessInbox(g)
  PROVE  CalmState'
<1>1. TurnsTypeOK /\ Orderly(g)
  BY DEF WorkInv
<1>2. inbox[g].pc # "done" /\ conn[g].actor # "none"
  BY <1>1 DEF ProcessInbox, SettleIdle, Settled, TakeBusy, RunningWritten, TakeFrame, TakeExit, TerminalWritten,
              InboxWriteFails, Taking, Orderly
<1>3. g = live /\ evict.pc # "final" /\ Lively(g) /\ Quiet(g)
  BY <1>2, Acting
<1>4. conn[g].epoch \in Nat /\ inbox[g].epoch \in Nat
  BY <1>1 DEF TurnsTypeOK, Connection, InboxState
<1>settle. CASE SettleIdle(g)
  <2>1. /\ UNCHANGED <<live, db, sender, evict>>
        /\ inbox[g].pc = "get" /\ conn[g].queue # <<>> /\ Head(conn[g].queue).kind = "idle"
        /\ \/ /\ conn[g].status = "running" /\ Head(conn[g].queue).epoch = conn[g].epoch
              /\ \E st \in Terminal :
                   /\ Becomes(g, st, conn[g].epoch, Tail(conn[g].queue), conn[g].stopped, conn[g].actor, conn[g].cli)
                   /\ Reads(g, "settle") /\ inbox'[g].write = st /\ inbox'[g].epoch = conn[g].epoch
              /\ assumed' = assumed \ {g}
           \/ /\ Becomes(g, conn[g].status, conn[g].epoch, Tail(conn[g].queue), conn[g].stopped, conn[g].actor,
                         conn[g].cli)
              /\ UNCHANGED <<inbox, assumed>>
    BY <1>1, <1>settle, SettleMoves
  <2> DEFINE q == conn[g].queue
             r == Tail(q)
  <2>2. /\ HasIn(r, {"crash"}) => HasIn(q, {"crash"})
        /\ HasIn(q, {"busy"}) <=> HasIn(r, {"busy"})
    BY <1>1, <2>1, CalmTail
  <2>3. /\ BusyBehind(r, conn[g].epoch)
        /\ HasIn(r, {"busy"}) => Head(q).epoch < conn[g].epoch
    BY <1>1, <1>3, <2>1, CalmTail DEF Lively
  <2> HIDE DEF q, r
  <2>4. CASE /\ conn[g].status = "running" /\ Head(q).epoch = conn[g].epoch
             /\ \E st \in Terminal :
                   /\ Becomes(g, st, conn[g].epoch, r, conn[g].stopped, conn[g].actor, conn[g].cli)
                   /\ Reads(g, "settle") /\ inbox'[g].write = st /\ inbox'[g].epoch = conn[g].epoch
             /\ assumed' = assumed \ {g}
    <3>1. PICK st \in Terminal :
            /\ Becomes(g, st, conn[g].epoch, r, conn[g].stopped, conn[g].actor, conn[g].cli)
            /\ Reads(g, "settle") /\ inbox'[g].write = st /\ inbox'[g].epoch = conn[g].epoch
      BY <2>4
    <3>2. st # "running"
      BY DEF Terminal
    <3>3. /\ conn'[g].status = st /\ conn'[g].epoch = conn[g].epoch /\ conn'[g].queue = r
          /\ conn'[g].stopped = conn[g].stopped /\ conn'[g].actor = conn[g].actor
          /\ inbox'[g].pc = "settle" /\ inbox'[g].write = st /\ inbox'[g].epoch = conn[g].epoch
          /\ \A h \in Conns \ {g} : conn'[h] = conn[h] /\ inbox'[h] = inbox[h]
      BY <3>1 DEF Becomes, Reads
    <3>4. ~HasIn(r, {"busy"})
      BY <1>4, <2>3, <2>4
    <3>5. Quiet(g)'
      BY <1>3, <1>4, <2>1, <2>2, <3>2, <3>3 DEF Quiet, q
    <3>6. Lively(g)'
      BY <1>3, <2>1, <2>3, <2>4, <3>2, <3>3, <3>4 DEF Lively, BusyIn, Leaving
    <3> QED
      BY <1>3, <2>1, <3>3, <3>5, <3>6, CalmMoves
  <2>5. CASE /\ Becomes(g, conn[g].status, conn[g].epoch, r, conn[g].stopped, conn[g].actor, conn[g].cli)
             /\ UNCHANGED <<inbox, assumed>>
    <3>1. /\ conn'[g].status = conn[g].status /\ conn'[g].epoch = conn[g].epoch /\ conn'[g].queue = r
          /\ conn'[g].stopped = conn[g].stopped /\ conn'[g].actor = conn[g].actor /\ inbox'[g] = inbox[g]
          /\ \A h \in Conns \ {g} : conn'[h] = conn[h] /\ inbox'[h] = inbox[h]
      BY <2>5 DEF Becomes
    <3>2. Quiet(g)'
      BY <1>3, <2>1, <2>2, <3>1 DEF Quiet, q
    <3>3. Lively(g)'
      BY <1>3, <2>1, <2>2, <2>3, <2>5, <3>1 DEF Lively, BusyIn, Writing, Parting, Leaving, q
    <3> QED
      BY <1>3, <2>1, <3>1, <3>2, <3>3, CalmMoves
  <2> QED
    BY <2>1, <2>4, <2>5 DEF q, r
<1>takes. CASE TakeBusy(g) \/ TakeFrame(g)
  <2>1. /\ UNCHANGED <<live, db, sender, evict, assumed>>
        /\ inbox[g].pc = "get" /\ conn[g].queue # <<>>
        /\ Becomes(g, conn[g].status, conn[g].epoch, Tail(conn[g].queue), conn[g].stopped, conn[g].actor,
                   conn[g].cli)
        /\ \/ Head(conn[g].queue).kind = "busy" /\ Reads(g, "resume")
           \/ Head(conn[g].queue).kind \in {"work"} \cup Terminal /\ UNCHANGED inbox
    BY <1>1, <1>takes, BusyMoves, FrameMoves
  <2> DEFINE q == conn[g].queue
             r == Tail(q)
  <2>2. /\ HasIn(r, {"crash"}) => HasIn(q, {"crash"})
        /\ HasIn(q, {"busy"}) <=> HasIn(r, {"busy"}) \/ Head(q).kind = "busy"
    BY <1>1, <2>1, CalmTail
  <2>3. BusyBehind(r, conn[g].epoch)
    BY <1>1, <1>3, <2>1, CalmTail DEF Lively
  <2> HIDE DEF q, r
  <2>4. /\ conn'[g].status = conn[g].status /\ conn'[g].epoch = conn[g].epoch /\ conn'[g].queue = r
        /\ conn'[g].stopped = conn[g].stopped /\ conn'[g].actor = conn[g].actor
        /\ inbox'[g].pc = "resume" \/ (inbox'[g].pc = "get" /\ Head(q).kind # "busy")
        /\ Head(q).kind = "busy" => inbox'[g].pc = "resume"
        /\ inbox'[g].pc = "resume" => Head(q).kind = "busy"
        /\ \A h \in Conns \ {g} : conn'[h] = conn[h] /\ inbox'[h] = inbox[h]
    BY <2>1 DEF Becomes, Reads, Terminal, q, r
  <2>5. Quiet(g)'
    BY <1>3, <2>1, <2>2, <2>4 DEF Quiet, q
  <2>6. Lively(g)'
    BY <1>3, <2>1, <2>2, <2>3, <2>4 DEF Lively, BusyIn, Writing, Parting, Leaving, q
  <2> QED
    BY <1>3, <2>1, <2>4, <2>5, <2>6, CalmMoves
<1>exit. CASE TakeExit(g)
  <2>1. /\ UNCHANGED <<live, db, sender, evict, assumed>>
        /\ inbox[g].pc = "get" /\ conn[g].queue # <<>> /\ Head(conn[g].queue).kind \in {"crash", "exit", "stop"}
        /\ \E st \in Status :
              /\ Becomes(g, st, conn[g].epoch, Tail(conn[g].queue), conn[g].stopped, conn[g].actor, conn[g].cli)
              /\ \/ /\ st \in Terminal /\ Reads(g, "terminal") /\ inbox'[g].write = st
                    /\ Head(conn[g].queue).kind = "crash" \/ conn[g].status = "running"
                 \/ /\ st = conn[g].status /\ Reads(g, "done")
    BY <1>1, <1>exit, ExitMoves
  <2> DEFINE q == conn[g].queue
             r == Tail(q)
  <2>2. /\ HasIn(r, {"crash"}) => HasIn(q, {"crash"})
        /\ HasIn(r, {"busy"}) => HasIn(q, {"busy"})
        /\ HasIn(q, {"crash", "exit", "stop"})
        /\ Head(q).kind = "crash" => HasIn(q, {"crash"})
    BY <1>1, <2>1, CalmTail
  <2>3. BusyBehind(r, conn[g].epoch)
    BY <1>1, <1>3, <2>1, CalmTail DEF Lively
  <2>4. Leaving /\ evict.pc # "off" /\ Head(q).kind # "crash"
    BY <1>1, <1>3, <2>2 DEF Orderly, Lively, Leaving, Quiet
  <2> HIDE DEF q, r
  <2>5. PICK st \in Status :
              /\ Becomes(g, st, conn[g].epoch, r, conn[g].stopped, conn[g].actor, conn[g].cli)
              /\ \/ st \in Terminal /\ Reads(g, "terminal") /\ inbox'[g].write = st
                 \/ st = conn[g].status /\ Reads(g, "done")
    BY <2>1 DEF q, r
  <2>6. /\ conn'[g].status = st /\ conn'[g].epoch = conn[g].epoch /\ conn'[g].queue = r
        /\ conn'[g].stopped = conn[g].stopped /\ conn'[g].actor = conn[g].actor
        /\ \A h \in Conns \ {g} : conn'[h] = conn[h] /\ inbox'[h] = inbox[h]
        /\ \/ st \in Terminal /\ st # "running" /\ inbox'[g].pc = "terminal" /\ inbox'[g].write = st
           \/ st = conn[g].status /\ inbox'[g].pc = "done"
    BY <2>5 DEF Becomes, Reads, Terminal
  <2>7. Quiet(g)'
    BY <1>3, <2>1, <2>2, <2>6 DEF Quiet, q
  <2>8. Leaving' /\ evict'.pc # "off" /\ UNCHANGED evict
    BY <2>1, <2>4 DEF Leaving
  <2>9. Lively(g)'
    <3>3. g \in assumed' => db' # "running" /\ ~BusyIn(g)' /\ inbox'[g].pc \in {"get", "terminal", "done"}
      BY <1>3, <2>1, <2>2, <2>6 DEF Lively, BusyIn, q
    <3>1. CASE st \in Terminal
      BY <2>3, <2>6, <2>8, <3>1, <3>3 DEF Lively, Parting
    <3>2. CASE st = conn[g].status /\ inbox'[g].pc = "done"
      <4>1. HasIn(r, {"busy"}) => st = "running" \/ st \in Terminal
        BY <1>3, <2>2, <3>2 DEF Lively, BusyIn, Parting, q
      <4>2. db = "running" /\ st # "running" => st \in Terminal
        BY <1>3, <2>1, <3>2 DEF Lively, Parting
      <4> QED
        BY <2>1, <2>3, <2>6, <2>8, <3>2, <3>3, <4>1, <4>2 DEF Lively, BusyIn, Parting
    <3> QED
      BY <2>6, <3>1, <3>2
  <2> QED
    BY <1>3, <2>1, <2>6, <2>7, <2>9, CalmMoves
<1>settled. CASE Settled(g)
  <2>1. /\ Stays /\ UNCHANGED <<live, sender, evict, assumed>>
        /\ inbox[g].pc = "settle" /\ db' = inbox[g].write
        /\ \/ Reads(g, "get") /\ (conn[g].status # "running" \/ inbox[g].epoch = conn[g].epoch)
           \/ Reads(g, "resettle") /\ conn[g].status = "running"
    BY <1>1, <1>settled, SettledMoves
  <2>2. db' # "running"
    BY <1>3, <2>1 DEF Quiet, Terminal
  <2>3. Reads(g, "get") => conn[g].status # "running"
    BY <1>3, <1>4, <2>1 DEF Quiet, Reads
  <2>4. (inbox'[g].pc = "get" /\ conn[g].status # "running") \/ (inbox'[g].pc = "resettle" /\ conn[g].status = "running")
    BY <2>1, <2>3 DEF Reads
  <2>5. \A h \in Conns \ {g} : inbox'[h] = inbox[h]
    BY <2>1 DEF Reads
  <2>6. Quiet(g)'
    BY <1>3, <2>1, <2>4 DEF Quiet, Stays
  <2>7. Lively(g)'
    BY <1>3, <2>1, <2>2, <2>4 DEF Lively, Stays, BusyIn, Parting, Leaving
  <2> QED
    BY <1>3, <2>1, <2>5, <2>6, <2>7, CalmStays
<1>writes. CASE RunningWritten(g) \/ TerminalWritten(g)
  <2>1. /\ Stays /\ UNCHANGED <<live, sender, evict, assumed>>
        /\ \/ inbox[g].pc \in {"resettle", "resume"} /\ db' = "running" /\ Reads(g, "get")
           \/ inbox[g].pc \in {"terminal", "last"} /\ db' = inbox[g].write /\ Reads(g, "done")
    BY <1>1, <1>writes, WriteMoves
  <2>2. \/ inbox[g].pc \in {"resettle", "resume"} /\ db' = "running" /\ inbox'[g].pc = "get"
        \/ inbox[g].pc = "terminal" /\ db' # "running" /\ inbox'[g].pc = "done"
    BY <1>3, <2>1 DEF Reads, Quiet, Terminal
  <2>3. inbox[g].pc = "terminal" => Leaving
    BY <1>1, <1>3 DEF Orderly, Quiet, Lively, EndedOnRecord
  <2>4. \A h \in Conns \ {g} : inbox'[h] = inbox[h]
    BY <2>1 DEF Reads
  <2>5. Quiet(g)'
    BY <1>3, <2>1, <2>2 DEF Quiet, Stays
  <2>6. Lively(g)'
    BY <1>3, <2>1, <2>2, <2>3 DEF Lively, Stays, BusyIn, Parting, Leaving
  <2> QED
    BY <1>3, <2>1, <2>4, <2>5, <2>6, CalmStays
<1>fails. CASE InboxWriteFails(g)
  BY <1>fails DEF InboxWriteFails, Fails, Calm
<1> QED
  BY <1>settle, <1>takes, <1>exit, <1>settled, <1>writes, <1>fails DEF ProcessInbox

(* The eviction. *)
LEMMA CalmEviction ==
  ASSUME TurnsAssumption, WorkInv, Calm, Calm', CalmState, TimerFires \/ EvictIdle \/ Close \/ Eviction
  PROVE  CalmState'
<1>1. TurnsTypeOK /\ Places /\ (\A h \in Conns : Orderly(h))
  BY DEF WorkInv
<1>2. evict.pc # "off" => live # 0 /\ evict.on = live /\ evict.on # 0 /\ evict.on \in Conns
  BY <1>1 DEF Places, TurnsTypeOK
<1>3. live # 0 => Lively(live) /\ Quiet(live)
  BY <1>1 DEF CalmState, TurnsTypeOK
<1>begins. CASE TimerFires \/ EvictIdle \/ Close \/ SendDisconnect
  <2>1. /\ Stays /\ UNCHANGED <<live, db, inbox, sender, assumed>> /\ live # 0
        /\ ~Leaving /\ ~Leaving' /\ (UNCHANGED evict \/ evict'.pc # "off") /\ evict'.pc # "final"
    <3>1. CASE TimerFires \/ EvictIdle \/ Close
      <4>1. /\ Stays /\ UNCHANGED <<live, db, inbox, sender, assumed>> /\ live # 0 /\ evict.pc = "off"
            /\ (UNCHANGED evict) \/ (evict'.pc \in {"cancel", "sent"} /\ evict'.on = live)
        BY <1>1, <3>1, EvictMoves
      <4> QED
        BY <4>1 DEF Leaving
    <3>2. CASE SendDisconnect
      <4>1. evict.pc = "cancel"
        BY <3>2 DEF SendDisconnect
      <4>2. /\ Stays /\ UNCHANGED <<live, db, inbox, sender, assumed>> /\ evict'.pc = "sent"
        BY <1>1, <1>2, <3>2, <4>1, SendDisconnectMoves
      <4> QED
        BY <1>2, <4>1, <4>2 DEF Leaving
    <3> QED
      BY <1>begins, <3>1, <3>2
  <2>g. PICK g \in Conns : g = live
    BY <1>1, <2>1 DEF TurnsTypeOK
  <2>2. Lively(g) /\ Quiet(g)
    BY <1>3, <2>1, <2>g
  <2>3. Quiet(g)'
    BY <2>1, <2>g, <2>2 DEF Quiet, Stays
  <2>4. Lively(g)'
    <3>1. conn[g].actor = "up"
      BY <2>1, <2>2 DEF Lively
    <3>2. evict'.pc = "off" => evict.pc = "off"
      BY <2>1
    <3>3. ~Parting(g) /\ Writing = Writing'
      BY <2>1 DEF Parting, Writing
    <3> QED
      BY <2>1, <2>2, <3>1, <3>2, <3>3 DEF Lively, Stays, BusyIn
  <2> QED
    BY <2>1, <2>g, <2>3, <2>4, CalmStays
<1>disconnect. CASE Disconnect
  <2>g. PICK g \in Conns : g = evict.on
    BY <1>2, <1>disconnect DEF Disconnect
  <2>1. g = live /\ evict.on # 0 /\ evict.pc = "sent" /\ Lively(g) /\ Quiet(g)
    BY <1>2, <1>3, <1>disconnect, <2>g DEF Disconnect
  <2>2. conn[g].actor = "up" /\ ~Leaving
    BY <2>1 DEF Lively, Leaving
  <2>3. /\ UNCHANGED <<live, db, inbox, sender, assumed>>
        /\ evict'.pc = "drain"
        /\ \E st \in Status :
             /\ st = "interrupted" \/ st = IF conn[g].status = "running" THEN "running" ELSE "closed"
             /\ Becomes(g, st, conn[g].epoch, Append(Append(conn[g].queue, Of("exit")), Of("stop")),
                        conn[g].stopped, "down", "gone")
    BY <1>1, <1>disconnect, <2>g, <2>1, <2>2, DisconnectMoves
  <2> DEFINE e == conn[g].epoch
             q == conn[g].queue
             m == Of("exit")
             n == Of("stop")
             p == Append(q, m)
             r == Append(p, n)
  <2>4. PICK st \in Status :
          /\ st = "interrupted" \/ st = IF conn[g].status = "running" THEN "running" ELSE "closed"
          /\ Becomes(g, st, e, r, conn[g].stopped, "down", "gone")
    BY <2>3
  <2>5. e \in Nat /\ q \in Seq(Notice) /\ BusyBehind(q, e)
    BY <1>1, <2>1 DEF TurnsTypeOK, Connection, Lively
  <2>6. m \in Notice /\ m.kind = "exit" /\ n \in Notice /\ n.kind = "stop"
    BY Notices
  <2> HIDE DEF e, q, m, n
  <2>7. /\ BusyBehind(p, e) /\ p \in Seq(Notice)
        /\ HasIn(p, {"busy"}) <=> HasIn(q, {"busy"})
        /\ HasIn(p, {"crash"}) <=> HasIn(q, {"crash"})
    <3>1. p \in Seq(Notice)
      BY <2>5, <2>6
    <3>2. BusyBehind(p, e)
      BY <2>5, <2>6, Appended
    <3>3. /\ HasIn(p, {"busy"}) <=> HasIn(q, {"busy"})
          /\ HasIn(p, {"crash"}) <=> HasIn(q, {"crash"})
      BY <2>5, <2>6, Appended
    <3> QED
      BY <3>1, <3>2, <3>3
  <2> HIDE DEF p
  <2>8. /\ BusyBehind(r, e)
        /\ HasIn(r, {"busy"}) <=> HasIn(p, {"busy"})
        /\ HasIn(r, {"crash"}) <=> HasIn(p, {"crash"})
    <3>1. BusyBehind(r, e)
      BY <2>5, <2>6, <2>7, Appended
    <3>2. /\ HasIn(r, {"busy"}) <=> HasIn(p, {"busy"})
          /\ HasIn(r, {"crash"}) <=> HasIn(p, {"crash"})
      BY <2>5, <2>6, <2>7, Appended
    <3> QED
      BY <3>1, <3>2
  <2> HIDE DEF r
  <2>9. /\ conn'[g].status = st /\ conn'[g].epoch = e /\ conn'[g].queue = r
        /\ conn'[g].stopped = conn[g].stopped /\ conn'[g].actor = "down" /\ inbox'[g] = inbox[g]
        /\ \A h \in Conns \ {g} : conn'[h] = conn[h] /\ inbox'[h] = inbox[h]
    BY <2>3, <2>4 DEF Becomes
  <2>10. Quiet(g)'
    BY <2>1, <2>3, <2>4, <2>7, <2>8, <2>9 DEF Quiet, q, e
  <2>11. Lively(g)'
    <3>1. Leaving' /\ evict'.pc # "off"
      BY <2>3 DEF Leaving
    <3>2. ~Parting(g)
      BY <2>2 DEF Parting
    <3>3. inbox[g].pc \in {"resettle", "resume"} \/ HasIn(r, {"busy"}) => st = "running" \/ st \in Terminal
      BY <2>1, <2>4, <2>7, <2>8, <3>2 DEF Lively, BusyIn, Terminal, q
    <3>4. db = "running" /\ st # "running" => inbox[g].pc \in {"settle", "terminal"} \/ st \in Terminal
      BY <2>1, <2>4, <3>2 DEF Lively, Terminal
    <3>5. g \in assumed => db # "running" /\ ~HasIn(r, {"busy"}) /\ inbox[g].pc \in {"get", "terminal", "done"}
      BY <2>1, <2>7, <2>8 DEF Lively, BusyIn, q
    <3> QED
      BY <2>3, <2>8, <2>9, <3>1, <3>3, <3>4, <3>5 DEF Lively, BusyIn, Parting
  <2> QED
    BY <2>1, <2>3, <2>9, <2>10, <2>11, CalmMoves
<1>cancel. CASE CancelInbox
  BY <1>cancel DEF CancelInbox, Fails, Calm
<1>drained. CASE Drained
  <2>g. PICK g \in Conns : g = evict.on
    BY <1>2, <1>drained DEF Drained
  <2>1. g = live /\ evict.on # 0 /\ live # 0 /\ evict.pc = "drain" /\ Leaving /\ Lively(g) /\ Quiet(g)
    BY <1>2, <1>3, <1>drained, <2>g DEF Drained, Leaving
  <2>2. /\ UNCHANGED <<db, inbox, sender, assumed>> /\ inbox[g].pc = "done" /\ Overlooked
        /\ \E st \in Status :
             /\ IF conn[g].status = "running" THEN st \in Terminal ELSE st = conn[g].status
             /\ Becomes(g, st, conn[g].epoch, conn[g].queue, conn[g].stopped, conn[g].actor, conn[g].cli)
             /\ \/ /\ st \in Terminal /\ evict'.pc = "final" /\ evict'.on = g /\ evict'.write = st /\ UNCHANGED live
                \/ st \notin Terminal /\ evict'.pc = "off" /\ live' = 0
    BY <1>1, <1>drained, <2>g, <2>1, DrainedMoves
  <2>3. LookupsAreQuick
    BY <1>1, <2>2, OverlookedMoves DEF Calm
  <2>4. PICK st \in Status :
             /\ IF conn[g].status = "running" THEN st \in Terminal ELSE st = conn[g].status
             /\ Becomes(g, st, conn[g].epoch, conn[g].queue, conn[g].stopped, conn[g].actor, conn[g].cli)
             /\ \/ /\ st \in Terminal /\ evict'.pc = "final" /\ evict'.on = g /\ evict'.write = st /\ UNCHANGED live
                \/ st \notin Terminal /\ evict'.pc = "off" /\ live' = 0
    BY <2>2
  <2>5. /\ conn'[g].status = st /\ conn'[g].epoch = conn[g].epoch /\ conn'[g].queue = conn[g].queue
        /\ conn'[g].stopped = conn[g].stopped /\ conn'[g].actor = conn[g].actor /\ inbox'[g] = inbox[g]
        /\ st # "running"
        /\ \A h \in Conns \ {g} : conn'[h] = conn[h] /\ inbox'[h] = inbox[h]
    BY <2>2, <2>4 DEF Becomes, Terminal
  <2>6. Quiet(g)'
    BY <2>1, <2>2, <2>5 DEF Quiet
  <2>7. \A h \in Conns : Quiet(h)'
    BY <2>1, <2>5, <2>6, QuietBut
  <2>8. ASSUME NEW s \in Senders, Busy(s)'
        PROVE  Served(s)'
    <3>1. Busy(s) /\ Served(s) /\ sender'[s] = sender[s] /\ sender[s].on = g
      BY <2>1, <2>2, <2>8 DEF Busy, Underway, CalmState, Served
    <3>2. sender[s].pc \notin {"found", "rewrite"}
      BY <2>1, <2>3, <2>g, <3>1 DEF Served, LookupsAreQuick
    <3> QED
      BY <2>1, <2>4, <2>5, <3>1, <3>2 DEF Served
  <2>9. CASE st \in Terminal /\ evict'.pc = "final" /\ evict'.write = st /\ UNCHANGED live
    <3>1. Lively(g)'
      BY <1>1, <2>1, <2>2, <2>5, <2>9 DEF Lively, BusyIn, Parting, Leaving
    <3> QED
      BY <2>1, <2>7, <2>8, <2>9, <3>1 DEF CalmState
  <2>10. CASE st \notin Terminal /\ evict'.pc = "off" /\ live' = 0
    <3>1. db # "running"
      BY <2>1, <2>2, <2>4, <2>10 DEF Lively, Parting
    <3> QED
      BY <2>2, <2>7, <2>8, <2>10, <3>1 DEF CalmState
  <2> QED
    BY <2>4, <2>9, <2>10
<1>gone. CASE Gone
  <2>1. /\ UNCHANGED <<conn, inbox, sender>>
        /\ evict.pc = "final" /\ evict'.pc = "off" /\ live' = 0
        /\ db' = evict.write /\ LookupsAreQuick
    BY <1>1, <1>gone, GoneMoves DEF Calm
  <2>2. db' # "running"
    BY <2>1 DEF CalmState, Terminal
  <2>3. ASSUME NEW h \in Conns
        PROVE  Quiet(h)'
    <3>1. Quiet(h) /\ (conn[h].actor = "down" => inbox[h].pc = "done")
      BY <2>1 DEF CalmState, Quiet
    <3> QED
      BY <2>1, <3>1 DEF Quiet
  <2>4. ASSUME NEW s \in Senders, Busy(s)'
        PROVE  Served(s)'
    <3>1. Busy(s) /\ Served(s) /\ sender'[s] = sender[s]
      BY <2>1, <2>4 DEF Busy, Underway, CalmState
    <3>2. live # 0
      BY <1>2, <2>1
    <3> QED
      BY <2>1, <3>1, <3>2 DEF Served
  <2> QED
    BY <2>1, <2>2, <2>3, <2>4 DEF CalmState
<1> QED
  BY <1>begins, <1>disconnect, <1>cancel, <1>drained, <1>gone DEF Eviction

-----------------------------------------------------------------------------
(* Initially the database knows a completed session, and nothing runs. *)
LEMMA CalmBegins ==
  ASSUME TurnsAssumption, TurnsInit
  PROVE  CalmInv
<1>1. ASSUME NEW g \in Conns
      PROVE  Quiet(g)
  <2> DEFINE r == [status |-> "idle", epoch |-> 1, idleEpoch |-> 0, outcome |-> "none", queue |-> <<>>,
                   stopped |-> FALSE, timer |-> FALSE, actor |-> "none", cli |-> "idle", held |-> 0]
  <2>1. conn[g] = r /\ inbox[g].pc = "get"
    BY DEF TurnsInit
  <2>2. r.queue = <<>> /\ r.actor = "none" /\ ~r.stopped
    OBVIOUS
  <2> HIDE DEF r
  <2> QED
    BY <2>1, <2>2 DEF Quiet, HasIn
<1>2. \A s \in Senders : ~Busy(s)
  BY DEF TurnsInit, Busy, Underway
<1> QED
  BY <1>1, <1>2 DEF TurnsInit, CalmInv, CalmState

(* Every step keeps it: what went wrong stays wrong. *)
LEMMA CalmSteps ==
  ASSUME TurnsAssumption, WorkInv, WorkInv', CalmInv, [TurnsNext]_turnVars
  PROVE  CalmInv'
<1>1. CASE UNCHANGED turnVars
  BY <1>1 DEF CalmInv, Calm, CalmState, Quiet, Served, Lively, Busy, Underway, BusyIn, Parting, Leaving, Writing,
              turnVars
<1>2. CASE TurnsNext
  <2> SUFFICES ASSUME Calm'
               PROVE  CalmState'
    BY DEF CalmInv
  <2>1. Calm
    <3>1. crashes \in Nat
      BY DEF WorkInv, TurnsTypeOK, TurnsAssumption
    <3> DEFINE Adds == (crashes' = crashes \/ crashes' = crashes + 1) /\ failed \subseteq failed'
    <3>request. ASSUME NEW s \in Senders, Request(s)
                PROVE  Adds
      BY <3>request DEF Request, ReadMeta, Begin, ConnectResumed, Repeated, Register, Send, TooLate,
                        SendWriteFails, Rewritten, Delivered, Undelivered, ErrorWritten, Retire, Fails
    <3>session. ASSUME NEW g \in Conns, Cli(g) \/ ProcessInbox(g)
                PROVE  Adds
      BY <3>session DEF Cli, Starts, Joins, Result, Idles, Exits, ProcessInbox, SettleIdle, Settled, TakeBusy,
                        RunningWritten, TakeFrame, TakeExit, TerminalWritten, InboxWriteFails, Fails
    <3>evict. ASSUME TimerFires \/ EvictIdle \/ Close \/ Eviction
              PROVE  Adds
      BY <3>evict DEF TimerFires, EvictIdle, Close, Eviction, SendDisconnect, Disconnect, CancelInbox, Drained, Gone,
                      Overlooked, Fails
    <3> QED
      BY <1>2, <3>1, <3>request, <3>session, <3>evict DEF Calm, TurnsNext
  <2>2. CalmState
    BY <2>1 DEF CalmInv
  <2> QED
    BY <1>2, <2>1, <2>2, CalmRequests, CalmCli, CalmInbox, CalmEviction DEF TurnsNext
<1> QED
  BY <1>1, <1>2

(* While nothing goes wrong, every status in the database that is not the   *)
(* session's own is still to be written over.                               *)
THEOREM CalmInvHolds == TurnsSpec => []CalmInv
<1>1. TurnsInit => CalmInv
  BY CalmBegins, TurnsAssumption
<1>2. WorkInv /\ WorkInv' /\ CalmInv /\ [TurnsNext]_turnVars => CalmInv'
  BY CalmSteps, TurnsAssumption
<1> QED
  BY <1>1, <1>2, WorkInvHolds, PTL DEF TurnsSpec

(* The status in memory and the one in the database are one status when      *)
(* nothing is under way, in whatever order the writes were committed.        *)
THEOREM StatusTrue == TurnsSpec => []StatusIsTrue
<1>1. WorkInv /\ CalmInv => StatusIsTrue
  <2> SUFFICES ASSUME WorkInv, CalmInv, AtRest, Calm
               PROVE  db = "running" <=> live # 0 /\ conn[live].status = "running" /\ live \notin assumed
    BY DEF StatusIsTrue, DatabaseAgrees, Calm, WorkInv
  <2>1. CalmState /\ evict.pc = "off" /\ \A s \in Senders : sender[s].pc \in {"new", "done"}
    BY DEF CalmInv, AtRest
  <2>2. CASE live = 0
    BY <2>1, <2>2 DEF CalmState
  <2>3. CASE live # 0
    <3>1. Lively(live) /\ ~Leaving /\ ~Writing
      BY <2>1, <2>3 DEF CalmState, Leaving, Writing
    <3>2. conn[live].actor = "up" /\ live \in Conns
      BY <2>3, <3>1 DEF Lively, WorkInv, TurnsTypeOK
    <3>3. inbox[live].pc # "done"
      BY <2>1, <3>2 DEF WorkInv, Orderly, CalmState, Quiet, EndedOnRecord
    <3>4. inbox[live].pc = "get" /\ conn[live].queue = <<>>
      BY <2>3, <3>3 DEF AtRest
    <3>5. ~BusyIn(live) /\ ~Parting(live)
      BY <3>1, <3>4 DEF BusyIn, HasIn, Parting
    <3> QED
      BY <2>1, <2>3, <3>1, <3>4, <3>5 DEF Lively
  <2> QED
    BY <2>2, <2>3
<1> QED
  BY <1>1, WorkInvHolds, CalmInvHolds, PTL
=============================================================================
