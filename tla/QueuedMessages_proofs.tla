----------------------- MODULE QueuedMessages_proofs -----------------------
(***************************************************************************)
(* What is proved of the messages that wait before a busy session, for any *)
(* number of messages, keys, requests, exits, refusals and failing writes. *)
(*                                                                         *)
(* A delivery has one place: it is in the hands of the coroutine that      *)
(* holds the send lock, held by the CLI, in a frame on its way back, or in *)
(* a turn (Flows, Placed), and its uuid tells it from the earlier          *)
(* deliveries of the same message.  The tray is true when nothing moves,   *)
(* because only the first of those places is then left.  That a withdrawal *)
(* is final takes more: while the CLI is asked, nobody but the asking      *)
(* request may give the message a new delivery (Wished, Paired, Commanded, *)
(* Locked), whatever ends the actor meanwhile (Closed).                    *)
(***************************************************************************)
EXTENDS QueuedMessages, FiniteSetTheorems, TLAPS

(* What the frames of the CLI on their way say of a delivery: that there is *)
(* one, that one says it was started, and that the first of them does.      *)
Has(q, u) == \E i \in 1..Len(q) : q[i].uuid = u
SaysStarted(q, u) == \E i \in 1..Len(q) : q[i].uuid = u /\ q[i].kind = "started"
Opens(q, u) == \E i \in 1..Len(q) : /\ q[i].uuid = u /\ q[i].kind = "started"
                                    /\ \A j \in 1..(i - 1) : q[j].uuid # u

LEMMA FrameAppended ==
  ASSUME NEW S, NEW q \in Seq(S), NEW f \in S, NEW u
  PROVE  /\ Append(q, f) \in Seq(S)
         /\ Has(Append(q, f), u) <=> Has(q, u) \/ f.uuid = u
         /\ SaysStarted(Append(q, f), u) <=> SaysStarted(q, u) \/ (f.uuid = u /\ f.kind = "started")
         /\ Opens(q, u) => Opens(Append(q, f), u)
         /\ ~Has(q, u) /\ f.uuid = u /\ f.kind = "started" => Opens(Append(q, f), u)
<1> DEFINE r == Append(q, f)
<1>1. /\ r \in Seq(S) /\ Len(r) = Len(q) + 1 /\ Len(q) \in Nat /\ r[Len(q) + 1] = f
      /\ \A i \in 1..Len(q) : r[i] = q[i]
  OBVIOUS
<1> HIDE DEF r
<1>2. Has(r, u) <=> Has(q, u) \/ f.uuid = u
  BY <1>1 DEF Has
<1>3. SaysStarted(r, u) <=> SaysStarted(q, u) \/ (f.uuid = u /\ f.kind = "started")
  BY <1>1 DEF SaysStarted
<1>4. Opens(q, u) => Opens(r, u)
  BY <1>1 DEF Opens
<1>5. ~Has(q, u) /\ f.uuid = u /\ f.kind = "started" => Opens(r, u)
  BY <1>1 DEF Opens, Has
<1> QED
  BY <1>1, <1>2, <1>3, <1>5, <1>4 DEF r

LEMMA FrameTaken ==
  ASSUME NEW S, NEW q \in Seq(S), q # <<>>, NEW u
  PROVE  /\ Tail(q) \in Seq(S) /\ Head(q) \in S
         /\ Has(q, u) <=> Has(Tail(q), u) \/ Head(q).uuid = u
         /\ SaysStarted(q, u) <=> SaysStarted(Tail(q), u) \/ (Head(q).uuid = u /\ Head(q).kind = "started")
         /\ Opens(q, u) /\ Head(q).uuid # u => Opens(Tail(q), u)
         /\ Opens(q, u) /\ Head(q).uuid = u => Head(q).kind = "started"
<1> DEFINE r == Tail(q)
<1>1. /\ r \in Seq(S) /\ Head(q) \in S /\ Len(q) = Len(r) + 1 /\ Len(r) \in Nat /\ Head(q) = q[1]
      /\ \A i \in 1..Len(r) : r[i] = q[i + 1]
  OBVIOUS
<1> HIDE DEF r
<1>2. \A i \in 2..Len(q) : i - 1 \in 1..Len(r) /\ q[i] = r[i - 1]
  BY <1>1
<1>3. 1 \in 1..Len(q) /\ \A i \in 1..Len(r) : i + 1 \in 1..Len(q)
  BY <1>1
<1>4. Has(q, u) <=> Has(r, u) \/ Head(q).uuid = u
  <2>1. ASSUME NEW i \in 1..Len(q), q[i].uuid = u PROVE Has(r, u) \/ Head(q).uuid = u
    <3>1. CASE i = 1
      BY <1>1, <2>1, <3>1
    <3>2. CASE i # 1
      BY <1>2, <2>1, <3>2 DEF Has
    <3> QED
      BY <3>1, <3>2
  <2>2. ASSUME NEW i \in 1..Len(r), r[i].uuid = u PROVE Has(q, u)
    BY <1>1, <1>3, <2>2 DEF Has
  <2> QED
    BY <1>1, <1>3, <2>1, <2>2 DEF Has
<1>5. SaysStarted(q, u) <=> SaysStarted(r, u) \/ (Head(q).uuid = u /\ Head(q).kind = "started")
  <2>1. ASSUME NEW i \in 1..Len(q), q[i].uuid = u, q[i].kind = "started"
        PROVE  SaysStarted(r, u) \/ (Head(q).uuid = u /\ Head(q).kind = "started")
    <3>1. CASE i = 1
      BY <1>1, <2>1, <3>1
    <3>2. CASE i # 1
      BY <1>2, <2>1, <3>2 DEF SaysStarted
    <3> QED
      BY <3>1, <3>2
  <2>2. ASSUME NEW i \in 1..Len(r), r[i].uuid = u, r[i].kind = "started" PROVE SaysStarted(q, u)
    BY <1>1, <1>3, <2>2 DEF SaysStarted
  <2> QED
    BY <1>1, <1>3, <2>1, <2>2 DEF SaysStarted
<1>6. ASSUME Opens(q, u), Head(q).uuid # u PROVE Opens(r, u)
  <2>1. PICK i \in 1..Len(q) : /\ q[i].uuid = u /\ q[i].kind = "started"
                               /\ \A j \in 1..(i - 1) : q[j].uuid # u
    BY <1>6 DEF Opens
  <2>2. i - 1 \in 1..Len(r) /\ r[i - 1] = q[i]
    BY <1>6, <1>1, <1>2, <2>1
  <2>3. ASSUME NEW j \in 1..(i - 2) PROVE r[j].uuid # u
    BY <1>1, <2>1, <2>2
  <2> QED
    BY <2>1, <2>2, <2>3 DEF Opens
<1>7. Opens(q, u) /\ Head(q).uuid = u => Head(q).kind = "started"
  BY <1>1, <1>3 DEF Opens
<1> QED
  BY <1>1, <1>4, <1>5, <1>6, <1>7 DEF r

(* A finite set of deliveries is dropped with a frame for each. *)
LEMMA FramesDropped ==
  ASSUME NEW S, IsFiniteSet(S), S \subseteq Uuids, NEW q \in Seq(CliFrame), NEW u
  PROVE  LET r == q \o [i \in 1..Cardinality(S) |-> [uuid |-> SetToSeq(S)[i], kind |-> "cancelled"]]
         IN  /\ r \in Seq(CliFrame)
             /\ Has(r, u) <=> Has(q, u) \/ u \in S
             /\ SaysStarted(r, u) <=> SaysStarted(q, u)
             /\ Opens(q, u) => Opens(r, u)
<1> DEFINE n == Cardinality(S)
           f == SetToSeq(S)
           s == [i \in 1..n |-> [uuid |-> f[i], kind |-> "cancelled"]]
           r == q \o s
<1>1. n \in Nat /\ \E b : b \in Bijection(1..n, S)
  <2>1. n \in Nat /\ IsFiniteSet(1..n) /\ Cardinality(1..n) = n
    BY FS_CardinalityType, FS_Interval
  <2> QED
    BY <2>1, FS_SameCardinalityBij DEF ExistsBijection
<1>2. f \in [1..n -> S] /\ IsInjective(f)
  <2>1. \E b \in [1..n -> S] : IsInjective(b)
    BY <1>1 DEF Bijection, Injection
  <2> QED
    BY <2>1 DEF SetToSeq
<1> HIDE DEF f, n
<1>3. \A x \in S : \E i \in 1..n : f[i] = x
  <2>1. f \in Injection(1..n, S)
    BY <1>2 DEF Injection
  <2>2. IsFiniteSet(1..n) /\ Cardinality(1..n) = n
    BY <1>1, FS_Interval
  <2>3. f \in Surjection(1..n, S)
    BY <2>1, <2>2, FS_Injection DEF n
  <2> QED
    BY <2>3 DEF Surjection
<1>4. s \in Seq(CliFrame) /\ Len(s) = n /\ \A i \in 1..n : s[i].uuid = f[i] /\ s[i].kind = "cancelled"
  BY <1>1, <1>2 DEF CliFrame, Ends
<1> HIDE DEF s
<1>5. /\ r \in Seq(CliFrame) /\ Len(r) = Len(q) + n /\ Len(q) \in Nat
      /\ \A i \in 1..Len(q) : r[i] = q[i]
      /\ \A i \in 1..n : r[Len(q) + i] = s[i]
  BY <1>1, <1>4
<1> HIDE DEF r
<1>6. \A i \in 1..Len(r) : i \in 1..Len(q) \/ (i - Len(q) \in 1..n /\ r[i] = s[i - Len(q)])
  BY <1>1, <1>5
<1>7. Has(r, u) <=> Has(q, u) \/ u \in S
  <2>1. Has(r, u) => Has(q, u) \/ u \in S
    <3> SUFFICES ASSUME NEW i \in 1..Len(r), r[i].uuid = u
                 PROVE  Has(q, u) \/ u \in S
      BY DEF Has
    <3>1. CASE i \in 1..Len(q)
      BY <1>5, <3>1 DEF Has
    <3>2. CASE i - Len(q) \in 1..n /\ r[i] = s[i - Len(q)]
      BY <1>2, <1>4, <3>2
    <3> QED
      BY <1>6, <3>1, <3>2
  <2>2. Has(q, u) => Has(r, u)
    BY <1>1, <1>5 DEF Has
  <2>3. ASSUME u \in S PROVE Has(r, u)
    <3>1. PICK i \in 1..n : f[i] = u
      BY <1>3, <2>3
    <3>2. Len(q) + i \in 1..Len(r) /\ r[Len(q) + i].uuid = u
      BY <1>1, <1>4, <1>5, <3>1
    <3> QED
      BY <3>2 DEF Has
  <2> QED
    BY <2>1, <2>2, <2>3
<1>8. SaysStarted(r, u) <=> SaysStarted(q, u)
  <2>1. ASSUME NEW i \in 1..Len(r), r[i].uuid = u, r[i].kind = "started"
        PROVE  SaysStarted(q, u)
    <3>1. CASE i \in 1..Len(q)
      BY <1>5, <2>1, <3>1 DEF SaysStarted
    <3>2. CASE i - Len(q) \in 1..n /\ r[i] = s[i - Len(q)]
      BY <1>4, <2>1, <3>2
    <3> QED
      BY <1>6, <3>1, <3>2
  <2>2. ASSUME NEW i \in 1..Len(q), q[i].uuid = u, q[i].kind = "started"
        PROVE  SaysStarted(r, u)
    BY <1>1, <1>5, <2>2 DEF SaysStarted
  <2> QED
    BY <2>1, <2>2 DEF SaysStarted
<1>9. ASSUME Opens(q, u) PROVE Opens(r, u)
  <2>1. PICK i \in 1..Len(q) : /\ q[i].uuid = u /\ q[i].kind = "started"
                               /\ \A j \in 1..(i - 1) : q[j].uuid # u
    BY <1>9 DEF Opens
  <2>2. i \in 1..Len(r) /\ r[i] = q[i]
    BY <1>1, <1>5, <2>1
  <2>3. \A j \in 1..(i - 1) : r[j].uuid # u
    BY <1>5, <2>1
  <2> QED
    BY <2>1, <2>2, <2>3 DEF Opens
<1> QED
  BY <1>5, <1>7, <1>8, <1>9 DEF r, s, f, n

(***************************************************************************)
(* The queued messages: the inductive invariant.                           *)
(***************************************************************************)
Framed(u) == Has(inbox.queue, u) \/ Has(cli.out, u)
Started(u) == SaysStarted(inbox.queue, u) \/ SaysStarted(cli.out, u)
Heralded(u) == Opens(inbox.queue, u) \/ (~Has(inbox.queue, u) /\ Opens(cli.out, u))
Away(u) == u \notin cli.held /\ u \notin entered /\ ~Framed(u)
Logging(o) == inbox.pc = "log" /\ inbox.id = o

Queued(o) == msg[o].place = "tray" /\ msg[o].state = "queued"
Delivers(p, o) == /\ deliver[p].id = o
                  /\ \/ deliver[p].pc \in {"write", "query", "failed"}
                     \/ deliver[p].pc = "wait" /\ deliver[p].how = "redeliver"
Asking == user.pc \in {"cancel", "asked", "answered"}
Wants(p) == deliver[p].pc # "off" \/ (p = "user" /\ user.pc \in {"lookback", "look", "cancel"})

LockStates == {l \in Seq(Procs) : Len(l) <= 2 /\ (Len(l) = 2 => l[1] # l[2])}
InLock(l, p) == l # <<>> /\ (l[1] = p \/ (Len(l) = 2 /\ l[2] = p))

(* Who waits for the send lock is in its queue, who delivers holds it. *)
Locked ==
    /\ lock \in LockStates
    /\ \A p \in Procs : Wants(p) <=> InLock(lock, p)
    /\ \A p \in Procs : deliver[p].pc \in {"write", "query", "failed"} => Holds(p)

(* A coroutine and its delivery, a request and its message. *)
Paired ==
    /\ user.pc = "deliver" <=> deliver["user"].pc # "off"
    /\ inbox.pc = "deliver" <=> deliver["inbox"].pc # "off"
    /\ deliver["user"].pc # "off" => deliver["user"].id = user.id
    /\ deliver["inbox"].pc # "off" => deliver["inbox"].id \in Ids /\ deliver["inbox"].how = "redeliver"
    /\ \A p \in Procs : deliver[p].pc = "wait" => deliver[p].how # "send"
    /\ user.pc \in {"lookback", "look"} => user.op = "send"
    /\ Asking \/ user.pc = "deliver" => user.id \in Ids /\ msg[user.id].place # "unused"
    /\ user.pc = "reconnect" /\ user.op # "send" => user.id \in Ids /\ msg[user.id].place # "unused"
    /\ Asking => user.op \in {"edit", "delete", "send_now"} /\ user.n <= msg[user.id].n

(* What is before the actor: one query at most and one cancel. *)
Commanded ==
    /\ \A i \in 1..Len(commands) :
         /\ commands[i].kind = "query" =>
              LET p == commands[i].by IN deliver[p].pc = "query" /\ commands[i].uuid = Uuid(deliver[p].id)
         /\ commands[i].kind = "cancel" =>
              user.pc = "asked" /\ commands[i].uuid[1] = user.id /\ commands[i].uuid[2] <= msg[user.id].n
    /\ \A i, j \in 1..Len(commands) : commands[i].kind = commands[j].kind => i = j

(* The end of the actor and of the session. *)
Closed ==
    /\ ~session.live => session.exited /\ inbox.pc = "done" /\ ~session.evicting
    /\ session.evicting => session.exited
    /\ session.exited => /\ cli = Fresh /\ commands = <<>> /\ user.pc # "asked"
                         /\ user.pc = "answered" => user.reply = "error"
                         /\ \A p \in Procs : deliver[p].pc # "query"
    /\ inbox.pc = "done" => inbox.queue = <<>> /\ session.exited
    /\ \A i \in 1..Len(inbox.queue) : inbox.queue[i].kind = "exit" =>
           i = Len(inbox.queue) /\ session.exited /\ inbox.queue[i].uuid = <<None, 0>>
    /\ \A i \in 1..Len(inbox.queue) : inbox.queue[i].kind # "exit" => inbox.queue[i].uuid \in Uuids
    /\ ~session.live => \A o \in Ids : msg[o].place = "tray" =>
           deliver["user"].id = o /\ deliver["user"].how = "send" /\ deliver["user"].pc # "off"

(* Where a delivery is: held by the CLI, taken into a turn, or on its way back. *)
Flows ==
    /\ \A u \in Uuids : u \in cli.held \/ u \in entered \/ Framed(u) =>
           msg[u[1]].place # "unused" /\ u[2] <= msg[u[1]].n
    /\ \A u \in cli.held : Queued(u[1]) /\ u[2] = msg[u[1]].n /\ u \notin entered /\ ~Framed(u)
    /\ \A u \in entered : u[2] = msg[u[1]].n
    /\ \A u \in Uuids : Started(u) => u \in entered
    /\ \A u \in entered : msg[u[1]].place = "tray" => Heralded(u) \/ Logging(u[1])
    /\ inbox.pc = "log" => inbox.id \in Ids /\ msg[inbox.id].place = "tray" /\ Uuid(inbox.id) \in entered
    /\ cli.turn \subseteq entered /\ IsFiniteSet(cli.held) /\ IsFiniteSet(cli.turn)

(* Where a message is. *)
Placed(o) ==
    /\ msg[o].place = "unused" => msg[o].state = "queued"
    /\ \A p \in Procs : Delivers(p, o) => Away(Uuid(o))
    /\ msg[o].place = "tray" /\ msg[o].state = "unsent" => Away(Uuid(o))
    /\ Delivers("inbox", o) => Queued(o)
    /\ Delivers("user", o) /\ ~session.exited => Queued(o)
    /\ ~(Delivers("user", o) /\ Delivers("inbox", o))
    /\ ~session.exited /\ Queued(o) =>
           Uuid(o) \in cli.held \/ Framed(Uuid(o)) \/ (\E p \in Procs : Delivers(p, o)) \/ Logging(o)

(* The keys, and the log. *)
Keyed ==
    /\ \A o \in Ids : msg[o].place = "tray" => keys[msg[o].key] = o /\ ~InLog(msg[o].key)
    /\ \A u \in entered : msg[u[1]].place = "tray" \/ \E i \in 1..Len(log) : log[i] = u[1]
    /\ \A i \in 1..Len(log) : Uuid(log[i]) \in entered /\ msg[log[i]].place # "tray"
    /\ \A i, j \in 1..Len(log) : msg[log[i]].key = msg[log[j]].key => i = j

(* What was withdrawn, and what is being asked of the CLI. *)
Out(o) == msg[o].place = "left" /\ Uuid(o) \notin entered
Wished ==
    /\ \A o \in Ids : told[o] = "withdrawn" \/ msg[o].withdrawn => Out(o)
    /\ Asking /\ user.op \in {"edit", "delete"} =>
           msg[user.id].n = user.n /\ (Queued(user.id) => msg[user.id].intent = user.op)
    /\ Asking /\ msg[user.id].n = user.n /\ Delivers("inbox", user.id) => user.pc = "cancel" /\ Holds("inbox")
    /\ user.pc = "answered" /\ user.reply = "cancelled" /\ msg[user.id].n = user.n =>
           Uuid(user.id) \notin cli.held /\ Uuid(user.id) \notin entered /\ msg[user.id].state = "queued"

(* The page, as long as no actor has ended. *)
Paged ==
    exits = 0 => /\ shown = Tray /\ session.live /\ ~session.exited /\ ~session.evicting
                 /\ user.pc \notin {"lookback", "reconnect"}

MessagesInv ==
    /\ MessagesTypeOK /\ Locked /\ Paired /\ Commanded /\ Closed /\ Flows /\ (\A o \in Ids : Placed(o))
    /\ Keyed /\ Wished /\ Paged

-----------------------------------------------------------------------------
LEMMA LockIsQueue ==
  /\ LockStates \subseteq Seq(Procs) /\ \A l \in LockStates : Len(l) <= 2
  /\ \A l \in LockStates, p \in Procs : ~InLock(l, p) =>
       /\ Append(l, p) \in LockStates /\ Append(l, p) # <<>>
       /\ \A q \in Procs : InLock(Append(l, p), q) <=> q = p \/ InLock(l, q)
       /\ l # <<>> => Head(Append(l, p)) = Head(l)
       /\ l = <<>> => Head(Append(l, p)) = p
  /\ \A l \in LockStates, p \in Procs : l # <<>> /\ Head(l) = p =>
       /\ Tail(l) \in LockStates /\ InLock(l, p)
       /\ \A q \in Procs : InLock(Tail(l), q) <=> q # p /\ InLock(l, q)
  /\ \A l \in LockStates, p \in Procs : InLock(l, p) /\ (\A q \in Procs : q # p => ~InLock(l, q)) => l # <<>> /\ Head(l) = p
<1>1. LockStates \subseteq Seq(Procs) /\ \A l \in LockStates : Len(l) <= 2
  BY DEF LockStates, Procs
<1>2. ASSUME NEW l \in LockStates, NEW p \in Procs, ~InLock(l, p)
      PROVE  /\ Append(l, p) \in LockStates /\ Append(l, p) # <<>>
             /\ \A q \in Procs : InLock(Append(l, p), q) <=> q = p \/ InLock(l, q)
             /\ l # <<>> => Head(Append(l, p)) = Head(l)
             /\ l = <<>> => Head(Append(l, p)) = p
  <2> DEFINE r == Append(l, p)
  <2>1. /\ l \in Seq(Procs) /\ Len(l) \in Nat /\ Len(l) <= 2 /\ r \in Seq(Procs) /\ r # <<>>
        /\ Len(r) = Len(l) + 1 /\ r[Len(l) + 1] = p /\ \A i \in 1..Len(l) : r[i] = l[i]
        /\ Head(r) = r[1] /\ (l = <<>> <=> Len(l) = 0) /\ (l # <<>> => Head(l) = l[1])
    <3>1. l \in Seq(Procs) /\ Len(l) \in Nat /\ Len(l) <= 2
      BY DEF LockStates
    <3>2. l = <<>> <=> Len(l) = 0
      BY <3>1
    <3>3. /\ r \in Seq(Procs) /\ Len(r) = Len(l) + 1 /\ r[Len(l) + 1] = p
          /\ \A i \in 1..Len(l) : r[i] = l[i]
      BY <3>1
    <3>4. r # <<>> /\ Head(r) = r[1] /\ (l # <<>> => Head(l) = l[1])
      BY <3>1, <3>2, <3>3
    <3> QED
      BY <3>1, <3>2, <3>3, <3>4
  <2> HIDE DEF r
  <2>2. Len(l) < 2
    <3>1. CASE Len(l) = 2
      <4>1. l[1] \in Procs /\ l[2] \in Procs /\ l[1] # l[2] /\ l # <<>>
        BY <2>1, <3>1 DEF LockStates
      <4> QED
        BY <1>2, <3>1, <4>1 DEF Procs, InLock
    <3>2. PICK m \in Nat : m = Len(l)
      BY <2>1
    <3>3. m <= 2 /\ m # 2
      BY <2>1, <3>1, <3>2
    <3> QED
      BY <3>2, <3>3
  <2>3. r \in LockStates
    BY <1>2, <2>1, <2>2 DEF LockStates, InLock
  <2>4. \A q \in Procs : InLock(r, q) <=> q = p \/ InLock(l, q)
    <3>1. CASE Len(l) = 0
      BY <2>1, <3>1 DEF InLock
    <3>2. CASE Len(l) = 1
      BY <2>1, <3>2 DEF InLock
    <3> QED
      <4>1. PICK m \in Nat : m = Len(l)
        BY <2>1
      <4>2. m < 2
        BY <2>2, <4>1
      <4> QED
        BY <3>1, <3>2, <4>1, <4>2
  <2>5. /\ l # <<>> => Head(r) = Head(l)
        /\ l = <<>> => Head(r) = p
    BY <2>1
  <2> QED
    BY <2>1, <2>3, <2>4, <2>5 DEF r
<1>3. ASSUME NEW l \in LockStates, NEW p \in Procs, l # <<>>, Head(l) = p
      PROVE  /\ Tail(l) \in LockStates /\ InLock(l, p)
             /\ \A q \in Procs : InLock(Tail(l), q) <=> q # p /\ InLock(l, q)
  <2> DEFINE r == Tail(l)
  <2>1. /\ l \in Seq(Procs) /\ Len(l) \in 1..2 /\ r \in Seq(Procs) /\ l[1] = p /\ (Len(l) = 2 => l[1] # l[2])
        /\ Len(r) = Len(l) - 1 /\ (Len(l) = 2 => r[1] = l[2]) /\ (r = <<>> <=> Len(r) = 0)
    <3>1. l \in Seq(Procs) /\ Len(l) \in Nat /\ Len(l) <= 2 /\ (Len(l) = 2 => l[1] # l[2])
      BY DEF LockStates
    <3>2. Len(l) # 0 /\ l[1] = p
      BY <1>3, <3>1
    <3>3. r \in Seq(Procs) /\ Len(r) = Len(l) - 1 /\ \A i \in 1..Len(r) : r[i] = l[i + 1]
      BY <3>1, <1>3
    <3>4. r = <<>> <=> Len(r) = 0
      BY <3>3
    <3> QED
      BY <3>1, <3>2, <3>3, <3>4
  <2> HIDE DEF r
  <2>2. r \in LockStates /\ InLock(l, p)
    BY <1>3, <2>1 DEF LockStates, InLock
  <2>3. \A q \in Procs : InLock(r, q) <=> q # p /\ InLock(l, q)
    BY <1>3, <2>1 DEF InLock
  <2> QED
    BY <2>2, <2>3 DEF r
<1>4. ASSUME NEW l \in LockStates, NEW p \in Procs, InLock(l, p), \A q \in Procs : q # p => ~InLock(l, q)
      PROVE  l # <<>> /\ Head(l) = p
  BY <1>4 DEF LockStates, Procs, InLock
<1> QED
  BY <1>1, <1>2, <1>3, <1>4

(* One message changes. *)
Changes(o, place, state, n, intent, withdrawn) ==
    /\ msg' \in [Ids -> MessageState]
    /\ \A x \in Ids \ {o} : msg'[x] = msg[x]
    /\ msg'[o].key = msg[o].key /\ msg'[o].place = place /\ msg'[o].state = state
    /\ msg'[o].n = n /\ msg'[o].intent = intent /\ msg'[o].withdrawn = withdrawn

(* A coroutine and its delivery go on; the other's stays. *)
Goes(p, stand, how, id) ==
    /\ deliver' \in [Procs -> Delivery]
    /\ \A q \in Procs \ {p} : deliver'[q] = deliver[q]
    /\ deliver'[p].pc = stand /\ deliver'[p].how = how /\ deliver'[p].id = id

(* The request under way. *)
Requested(stand, op, id, n, reply) ==
    /\ user' \in UserState
    /\ user'.pc = stand /\ user'.op = op /\ user'.id = id /\ user'.n = n /\ user'.reply = reply

LEMMA Nobody ==
  /\ NoUser \in UserState /\ NoUser.pc = "off" /\ NoUser.op = "none" /\ NoUser.id = None
  /\ NoUser.n = 0 /\ NoUser.reply = "none"
  /\ NoDelivery \in Delivery /\ NoDelivery.pc = "off"
  /\ \A p \in Procs : p = "user" \/ p = "inbox"
  /\ "user" \in Procs /\ "inbox" \in Procs
BY TrayAssumption DEF NoUser, UserState, NoDelivery, Delivery, Procs

LEMMA Named ==
  ASSUME MessagesTypeOK
  PROVE  /\ \A o \in Ids : Uuid(o) \in Uuids /\ Uuid(o)[1] = o /\ Uuid(o)[2] = msg[o].n
         /\ \A u \in Uuids : u[1] \in Ids /\ u[2] \in Nat /\ (u[2] = msg[u[1]].n => u = Uuid(u[1]))
         /\ None \notin Ids /\ <<None, 0>> \notin Uuids
         /\ \A o \in Ids : msg[o] \in MessageState /\ msg[o].n \in Nat
<1>1. \A o \in Ids : msg[o] \in MessageState /\ msg[o].n \in Nat
  BY DEF MessagesTypeOK, MessageState
<1>2. None \notin Ids /\ <<None, 0>> \notin Uuids
  BY DEF Ids, None, Uuids
<1>3. \A o \in Ids : Uuid(o) \in Uuids /\ Uuid(o)[1] = o /\ Uuid(o)[2] = msg[o].n
  BY <1>1 DEF Uuids, Uuid
<1>4. ASSUME NEW u \in Uuids PROVE u[1] \in Ids /\ u[2] \in Nat /\ (u[2] = msg[u[1]].n => u = Uuid(u[1]))
  <2>1. PICK o \in Ids, n \in Nat : u = <<o, n>>
    BY DEF Uuids
  <2> QED
    BY <2>1 DEF Uuid
<1> QED
  BY <1>1, <1>2, <1>3, <1>4

(* What each action does to the request, the lock, the deliveries and the messages. *)

LEMMA AskSendMoves ==
  ASSUME MessagesInv, NEW k \in Keys, AskSend(k)
  PROVE  /\ user.pc = "off" /\ requests' \in 0..MaxRequests
         /\ \E stand \in {"lookback", "look", "reconnect"} :
              /\ Requested(stand, "send", None, 0, "none")
              /\ lock' = IF stand = "reconnect" THEN lock ELSE Append(lock, "user")
              /\ stand \in {"lookback", "reconnect"} => session.exited \/ ~session.live \/ session.evicting
<1> DEFINE stand == IF session.live /\ session.exited THEN "lookback"
                 ELSE IF session.live /\ ~session.evicting THEN "look" ELSE "reconnect"
<1>1. /\ user.pc = "off" /\ "send" \in Requests /\ requests < MaxRequests /\ requests' = requests + 1
      /\ user' = [NoUser EXCEPT !.pc = stand, !.op = "send", !.key = k]
      /\ IF stand = "reconnect" THEN lock' = lock ELSE lock' = Append(lock, "user")
  BY DEF AskSend, Queue
<1>2. stand \in {"lookback", "look", "reconnect"}
      /\ (stand \in {"lookback", "reconnect"} => session.exited \/ ~session.live \/ session.evicting)
  OBVIOUS
<1> HIDE DEF stand
<1>3. Requested(stand, "send", None, 0, "none")
  BY <1>1, <1>2, Nobody DEF Requested, UserState, Operations
<1>4. requests' \in 0..MaxRequests
  BY <1>1, TrayAssumption DEF MessagesInv, MessagesTypeOK
<1> QED
  BY <1>1, <1>2, <1>3, <1>4

LEMMA LookMoves ==
  ASSUME MessagesInv
  PROVE  /\ Repeated => /\ user.pc \in {"lookback", "look"} /\ Holds("user") /\ lock' = Tail(lock)
                        /\ Requested("off", "none", None, 0, "none")
         /\ LookFirst => /\ user.pc = "lookback" /\ Holds("user") /\ lock' = Tail(lock)
                         /\ Requested("reconnect", user.op, user.id, user.n, user.reply)
<1>1. Repeated => /\ user.pc \in {"lookback", "look"} /\ Holds("user") /\ lock' = Tail(lock)
                  /\ Requested("off", "none", None, 0, "none")
  BY Nobody DEF Repeated, Requested, Release
<1>2. LookFirst => /\ user.pc = "lookback" /\ Holds("user") /\ lock' = Tail(lock)
                   /\ Requested("reconnect", user.op, user.id, user.n, user.reply)
  BY DEF LookFirst, Requested, Release, MessagesInv, MessagesTypeOK, UserState
<1> QED
  BY <1>1, <1>2

LEMMA EnqueueMoves ==
  ASSUME MessagesInv, NEW o \in Ids, EnqueueMessage(o)
  PROVE  /\ user.pc = "look" /\ Holds("user") /\ msg[o].place = "unused"
         /\ keys[user.key] = None /\ ~InLog(user.key) /\ user.key \in Keys
         /\ msg' \in [Ids -> MessageState] /\ \A x \in Ids \ {o} : msg'[x] = msg[x]
         /\ msg'[o].place = "tray" /\ msg'[o].key = user.key /\ msg'[o].state = msg[o].state
         /\ msg'[o].n = msg[o].n /\ msg'[o].withdrawn = msg[o].withdrawn /\ msg'[o].intent = msg[o].intent
         /\ keys' \in [Keys -> {None} \cup Ids] /\ keys'[user.key] = o
         /\ \A k \in Keys \ {user.key} : keys'[k] = keys[k]
         /\ Goes("user", "write", "send", o) /\ Requested("deliver", user.op, o, user.n, user.reply)
         /\ shown' = shown \cup {o}
<1>1. /\ user.pc = "look" /\ Holds("user") /\ msg[o].place = "unused"
      /\ keys[user.key] = None /\ ~InLog(user.key)
      /\ shown' = shown \cup {o}
  BY DEF EnqueueMessage, Accepted
<1>2. user.key \in Keys
  BY DEF MessagesInv, MessagesTypeOK, UserState
<1>3. /\ keys' \in [Keys -> {None} \cup Ids] /\ keys'[user.key] = o
      /\ \A k \in Keys \ {user.key} : keys'[k] = keys[k]
  <2>1. keys' = [keys EXCEPT ![user.key] = o]
    BY DEF EnqueueMessage
  <2> QED
    BY <1>2, <2>1 DEF MessagesInv, MessagesTypeOK
<1>4. Goes("user", "write", "send", o)
  <2>1. deliver' = [deliver EXCEPT !["user"] = [pc |-> "write", how |-> "send", id |-> o, now |-> FALSE]]
    BY DEF EnqueueMessage
  <2> QED
    BY <2>1, Nobody DEF MessagesInv, MessagesTypeOK, Goes, Delivery
<1>5. Requested("deliver", user.op, o, user.n, user.reply)
  BY DEF EnqueueMessage, Requested, MessagesInv, MessagesTypeOK, UserState
<1>6. /\ msg' \in [Ids -> MessageState] /\ \A x \in Ids \ {o} : msg'[x] = msg[x]
      /\ msg'[o].place = "tray" /\ msg'[o].key = user.key /\ msg'[o].state = msg[o].state
      /\ msg'[o].n = msg[o].n /\ msg'[o].withdrawn = msg[o].withdrawn /\ msg'[o].intent = msg[o].intent
  <2> DEFINE m == [msg[o] EXCEPT !.place = "tray", !.key = user.key]
  <2>1. msg' = [msg EXCEPT ![o].place = "tray", ![o].key = user.key]
    BY DEF EnqueueMessage
  <2>2. msg \in [Ids -> MessageState] /\ msg[o] \in MessageState
    BY DEF MessagesInv, MessagesTypeOK
  <2>3. /\ m \in MessageState /\ m.place = "tray" /\ m.key = user.key /\ m.state = msg[o].state
        /\ m.n = msg[o].n /\ m.withdrawn = msg[o].withdrawn /\ m.intent = msg[o].intent
    BY <1>2, <2>2 DEF MessageState
  <2>4. msg' = [msg EXCEPT ![o] = m]
    BY <2>1, <2>2
  <2> HIDE DEF m
  <2> QED
    BY <2>2, <2>3, <2>4
<1> QED
  BY <1>1, <1>2, <1>3, <1>5, <1>4, <1>6

(* A message leaves the tray, or the tray is emptied. *)
LEMMA DiscardMoves ==
  ASSUME MessagesTypeOK, NEW gone \in SUBSET Ids, NEW ms \in [Ids -> MessageState], Discard(gone, ms)
  PROVE  /\ msg' \in [Ids -> MessageState] /\ \A x \in Ids \ gone : msg'[x] = ms[x]
         /\ \A x \in gone : /\ msg'[x].place = "left" /\ msg'[x].key = ms[x].key /\ msg'[x].state = ms[x].state
                            /\ msg'[x].n = ms[x].n /\ msg'[x].intent = ms[x].intent
                            /\ msg'[x].withdrawn = ms[x].withdrawn
         /\ keys' \in [Keys -> {None} \cup Ids]
         /\ \A k \in Keys : keys'[k] = IF keys[k] \in gone THEN None ELSE keys[k]
         /\ shown' = shown \ gone
<1>1. /\ msg' = [o \in Ids |-> IF o \in gone THEN [ms[o] EXCEPT !.place = "left"] ELSE ms[o]]
      /\ keys' = [k \in Keys |-> IF keys[k] \in gone THEN None ELSE keys[k]]
      /\ shown' = shown \ gone
  BY DEF Discard
<1>2. ASSUME NEW x \in Ids
      PROVE  LET m == [ms[x] EXCEPT !.place = "left"]
             IN  /\ m \in MessageState /\ m.place = "left" /\ m.key = ms[x].key /\ m.state = ms[x].state
                 /\ m.n = ms[x].n /\ m.intent = ms[x].intent /\ m.withdrawn = ms[x].withdrawn
  BY DEF MessageState
<1>3. msg' \in [Ids -> MessageState]
  BY <1>1, <1>2
<1>4. keys' \in [Keys -> {None} \cup Ids]
  BY <1>1 DEF MessagesTypeOK
<1> QED
  BY <1>1, <1>2, <1>3, <1>4

(* One field of one message. *)
LEMMA MessageMoves ==
  ASSUME msg \in [Ids -> MessageState], NEW o \in Ids, NEW m \in MessageState, m.key = msg[o].key,
         msg' = [msg EXCEPT ![o] = m]
  PROVE  Changes(o, m.place, m.state, m.n, m.intent, m.withdrawn)
BY DEF Changes

(* One message leaves the tray. *)
Leaves(o, withdrawn) ==
    /\ Changes(o, "left", msg[o].state, msg[o].n, msg[o].intent, withdrawn)
    /\ keys' \in [Keys -> {None} \cup Ids]
    /\ \A k \in Keys : keys'[k] = IF keys[k] = o THEN None ELSE keys[k]
    /\ shown' = shown \ {o}

LEMMA OneDiscarded ==
  ASSUME MessagesTypeOK, NEW o \in Ids, NEW ms \in [Ids -> MessageState], Discard({o}, ms),
         \A x \in Ids \ {o} : ms[x] = msg[x],
         ms[o].key = msg[o].key, ms[o].state = msg[o].state, ms[o].n = msg[o].n, ms[o].intent = msg[o].intent
  PROVE  Leaves(o, ms[o].withdrawn)
<1>1. {o} \in SUBSET Ids /\ o \in {o}
  OBVIOUS
<1>2. /\ msg' \in [Ids -> MessageState] /\ \A x \in Ids \ {o} : msg'[x] = ms[x]
      /\ \A x \in {o} : /\ msg'[x].place = "left" /\ msg'[x].key = ms[x].key /\ msg'[x].state = ms[x].state
                        /\ msg'[x].n = ms[x].n /\ msg'[x].intent = ms[x].intent
                        /\ msg'[x].withdrawn = ms[x].withdrawn
      /\ keys' \in [Keys -> {None} \cup Ids]
      /\ \A k \in Keys : keys'[k] = IF keys[k] \in {o} THEN None ELSE keys[k]
      /\ shown' = shown \ {o}
  BY <1>1, DiscardMoves
<1> QED
  BY <1>2 DEF Leaves, Changes

LEMMA WithdrawMoves ==
  ASSUME MessagesTypeOK, NEW o \in Ids, Withdraw(o)
  PROVE  \/ msg[o].place = "tray" /\ Leaves(o, TRUE)
         \/ msg[o].place # "tray" /\ UNCHANGED <<msg, keys, shown>>
<1>1. CASE msg[o].place = "tray"
  <2> DEFINE m == [msg[o] EXCEPT !.withdrawn = TRUE]
             ms == [msg EXCEPT ![o] = m]
  <2>1. Discard({o}, ms)
    BY <1>1 DEF Withdraw, Tray, MessagesTypeOK
  <2>2. /\ m \in MessageState /\ m.key = msg[o].key /\ m.state = msg[o].state /\ m.n = msg[o].n
        /\ m.intent = msg[o].intent /\ m.withdrawn = TRUE
    BY DEF MessagesTypeOK, MessageState
  <2> HIDE DEF m
  <2>3. ms \in [Ids -> MessageState] /\ ms[o] = m /\ \A x \in Ids \ {o} : ms[x] = msg[x]
    BY <2>2 DEF MessagesTypeOK
  <2> HIDE DEF ms
  <2>4. Leaves(o, ms[o].withdrawn)
    BY <2>1, <2>2, <2>3, OneDiscarded
  <2> QED
    BY <1>1, <2>2, <2>3, <2>4
<1>2. CASE msg[o].place # "tray"
  BY <1>2 DEF Withdraw, Tray, MessagesTypeOK
<1> QED
  BY <1>1, <1>2

LEMMA AskedMoves ==
  ASSUME MessagesInv, NEW op \in Requests, NEW o \in Ids, Asks(op, o)
  PROVE  user.pc = "off" /\ msg[o].place # "unused" /\ session.live /\ requests' \in 0..MaxRequests
BY TrayAssumption DEF Asks, MessagesInv, MessagesTypeOK

LEMMA AskResendMoves ==
  ASSUME MessagesInv, NEW op \in Requests, NEW o \in Ids, AskResend(op, o)
  PROVE  /\ msg[o].place = "tray" /\ msg[o].state = "unsent"
         /\ \/ session.exited /\ Requested("reconnect", "resend", o, 0, "none") /\ UNCHANGED <<lock, deliver>>
            \/ /\ ~session.exited /\ Requested("deliver", "resend", o, 0, "none")
               /\ Goes("user", "wait", "resend", o) /\ lock' = Append(lock, "user")
<1>1. msg[o].place = "tray" /\ msg[o].state = "unsent"
  BY DEF AskResend, Tray
<1>2. CASE session.exited
  BY <1>1, <1>2, Nobody DEF AskResend, Requested, UserState, Operations
<1>3. CASE ~session.exited
  <2>1. /\ user' = [NoUser EXCEPT !.pc = "deliver", !.op = "resend", !.id = o]
        /\ deliver' = [deliver EXCEPT !["user"] = [pc |-> "wait", how |-> "resend", id |-> o, now |-> FALSE]]
        /\ lock' = Append(lock, "user")
    BY <1>3 DEF AskResend, Queue
  <2>2. Requested("deliver", "resend", o, 0, "none")
    BY <2>1, Nobody DEF Requested, UserState, Operations
  <2>3. Goes("user", "wait", "resend", o)
    BY <2>1, Nobody DEF Goes, MessagesInv, MessagesTypeOK, Delivery
  <2> QED
    BY <1>1, <1>3, <2>1, <2>2, <2>3
<1> QED
  BY <1>2, <1>3

LEMMA AskCancelMoves ==
  ASSUME MessagesInv, NEW op \in Requests, NEW o \in Ids, AskCancel(op, o)
  PROVE  /\ msg[o].place = "tray" /\ msg[o].state = "queued" /\ op \in {"edit", "delete", "send_now"}
         /\ Changes(o, "tray", "queued", msg[o].n, op, msg[o].withdrawn)
         /\ \/ /\ msg[o].intent = "none" /\ Requested("cancel", op, o, msg[o].n, "none")
               /\ lock' = Append(lock, "user") /\ UNCHANGED told
            \/ UNCHANGED <<user, lock>> /\ told' = [told EXCEPT ![o] = "accepted"]
<1>1. /\ o \in Tray /\ msg[o].state = "queued" /\ op \in {"edit", "delete", "send_now"}
      /\ msg' = [msg EXCEPT ![o].intent = op]
      /\ \/ /\ msg[o].intent = "none" /\ lock' = Append(lock, "user") /\ UNCHANGED told
            /\ user' = [NoUser EXCEPT !.pc = "cancel", !.op = op, !.id = o, !.n = msg[o].n]
         \/ UNCHANGED <<user, lock>> /\ told' = [told EXCEPT ![o] = "accepted"]
  BY DEF AskCancel, Queue
<1>2. msg \in [Ids -> MessageState] /\ msg[o] \in MessageState /\ msg[o].place = "tray"
  BY <1>1 DEF MessagesInv, MessagesTypeOK, Tray
<1>3. Changes(o, "tray", "queued", msg[o].n, op, msg[o].withdrawn)
  <2> DEFINE m == [msg[o] EXCEPT !.intent = op]
  <2>1. msg' = [msg EXCEPT ![o] = m]
    BY <1>1, <1>2
  <2>2. /\ m \in MessageState /\ m.key = msg[o].key /\ m.place = msg[o].place /\ m.state = msg[o].state
        /\ m.n = msg[o].n /\ m.intent = op /\ m.withdrawn = msg[o].withdrawn
    BY <1>1, <1>2 DEF MessageState, Intents
  <2> HIDE DEF m
  <2> QED
    BY <1>1, <1>2, <2>1, <2>2 DEF Changes
<1>4. user' = [NoUser EXCEPT !.pc = "cancel", !.op = op, !.id = o, !.n = msg[o].n]
      => Requested("cancel", op, o, msg[o].n, "none")
  BY <1>1, <1>2, Nobody DEF Requested, UserState, Operations, MessageState
<1> QED
  BY <1>1, <1>2, <1>3, <1>4

LEMMA EnqueueCancelMoves ==
  ASSUME MessagesInv, EnqueueCancel
  PROVE  /\ user.pc = "cancel" /\ Holds("user") /\ lock' = Tail(lock)
         /\ \/ /\ session.exited /\ UNCHANGED commands
               /\ Requested("answered", user.op, user.id, user.n, "error")
            \/ /\ ~session.exited /\ Requested("asked", user.op, user.id, user.n, user.reply)
               /\ commands' = Append(commands, [by |-> "user", kind |-> "cancel", uuid |-> Uuid(user.id)])
<1>1. user \in UserState
  BY DEF MessagesInv, MessagesTypeOK
<1> QED
  BY <1>1 DEF EnqueueCancel, Requested, UserState, Release

LEMMA CancelFailedMoves ==
  ASSUME MessagesInv, CancelFailed
  PROVE  /\ user.pc = "answered" /\ user.reply = "error" /\ user.id \in Ids
         /\ Changes(user.id, msg[user.id].place, msg[user.id].state, msg[user.id].n, "none",
                    msg[user.id].withdrawn)
         /\ Requested("off", "none", None, 0, "none")
<1> DEFINE o == user.id
<1>1. /\ user.pc = "answered" /\ user.reply = "error" /\ o \in Ids
      /\ msg' = [msg EXCEPT ![o].intent = "none"] /\ user' = NoUser
  BY DEF CancelFailed, MessagesInv, Paired, Asking
<1> HIDE DEF o
<1>2. msg \in [Ids -> MessageState] /\ msg[o] \in MessageState
  BY <1>1 DEF MessagesInv, MessagesTypeOK
<1>3. Changes(o, msg[o].place, msg[o].state, msg[o].n, "none", msg[o].withdrawn)
  <2> DEFINE m == [msg[o] EXCEPT !.intent = "none"]
  <2>1. msg' = [msg EXCEPT ![o] = m]
    BY <1>1, <1>2
  <2>2. /\ m \in MessageState /\ m.key = msg[o].key /\ m.place = msg[o].place /\ m.state = msg[o].state
        /\ m.n = msg[o].n /\ m.intent = "none" /\ m.withdrawn = msg[o].withdrawn
    BY <1>1, <1>2 DEF MessageState, Intents
  <2> HIDE DEF m
  <2> QED
    BY <1>1, <1>2, <2>1, <2>2 DEF Changes
<1>4. Requested("off", "none", None, 0, "none")
  BY <1>1, Nobody DEF Requested
<1> QED
  BY <1>1, <1>3, <1>4 DEF o

(* A message is delivered anew. *)
LEMMA RedeliversMoves ==
  ASSUME MessagesTypeOK, NEW p \in Procs, NEW o \in Ids, NEW now \in BOOLEAN, Redelivers(p, o, now)
  PROVE  /\ Changes(o, msg[o].place, msg[o].state, msg[o].n + 1, "none", msg[o].withdrawn)
         /\ Goes(p, "wait", "redeliver", o) /\ lock' = Append(lock, p)
<1>1. msg' = [msg EXCEPT ![o].n = @ + 1, ![o].intent = "none"]
      /\ deliver' = [deliver EXCEPT ![p] = [pc |-> "wait", how |-> "redeliver", id |-> o, now |-> now]]
      /\ lock' = Append(lock, p)
  BY DEF Redelivers, Queue
<1>2. msg \in [Ids -> MessageState] /\ msg[o] \in MessageState /\ deliver \in [Procs -> Delivery]
  BY DEF MessagesTypeOK
<1>3. Changes(o, msg[o].place, msg[o].state, msg[o].n + 1, "none", msg[o].withdrawn)
  <2>a. PICK next \in Nat : next = msg[o].n + 1
    BY <1>2 DEF MessageState
  <2> DEFINE m == [msg[o] EXCEPT !.n = next, !.intent = "none"]
  <2>1. msg' = [msg EXCEPT ![o] = m]
    BY <1>1, <1>2, <2>a
  <2>2. /\ m \in MessageState /\ m.key = msg[o].key /\ m.place = msg[o].place /\ m.state = msg[o].state
        /\ m.n = msg[o].n + 1 /\ m.intent = "none" /\ m.withdrawn = msg[o].withdrawn
    BY <1>1, <1>2, <2>a DEF MessageState, Intents
  <2> HIDE DEF m
  <2> QED
    BY <1>1, <1>2, <2>1, <2>2 DEF Changes
<1>4. Goes(p, "wait", "redeliver", o)
  BY <1>1, <1>2 DEF Goes, Delivery
<1> QED
  BY <1>1, <1>3, <1>4

(* A delivery is over. *)
Finished(p) ==
    /\ Goes(p, "off", "send", None) /\ lock' = Tail(lock)
    /\ inbox' \in InboxWork /\ inbox'.queue = inbox.queue
    /\ told' \in [Ids -> {"none", "withdrawn", "accepted", "sent"}]
    /\ \A o \in Ids : told'[o] = "withdrawn" => told[o] = "withdrawn"
    /\ IF p = "user" THEN Requested("off", "none", None, 0, "none") /\ inbox' = inbox
                     ELSE user' = user /\ inbox'.pc = "get" /\ inbox'.id = None

LEMMA Finishing ==
  ASSUME MessagesTypeOK, NEW p \in Procs, deliver' = [deliver EXCEPT ![p] = NoDelivery], Release,
         NEW answer \in {"none", "withdrawn", "accepted", "sent"}, Return(p, answer),
         answer = "withdrawn" /\ user.id \in Ids => told[user.id] = "withdrawn"
  PROVE  Finished(p)
<1>1. Goes(p, "off", "send", None) /\ lock' = Tail(lock)
  BY Nobody DEF MessagesTypeOK, Goes, NoDelivery, Release, Delivery
<1>2. inbox \in InboxWork /\ told \in [Ids -> {"none", "withdrawn", "accepted", "sent"}]
  BY DEF MessagesTypeOK
<1>3. CASE p = "user"
  <2>1. user' = NoUser /\ told' = [o \in Ids |-> IF o = user.id THEN answer ELSE told[o]] /\ inbox' = inbox
    BY <1>3 DEF Return
  <2>2. Requested("off", "none", None, 0, "none")
    BY <2>1, Nobody DEF Requested
  <2> QED
    BY <1>1, <1>2, <1>3, <2>1, <2>2 DEF Finished
<1>4. CASE p # "user"
  <2>1. inbox' = [inbox EXCEPT !.pc = "get", !.id = None] /\ user' = user /\ told' = told
    BY <1>4 DEF Return
  <2>2. inbox' \in InboxWork /\ inbox'.queue = inbox.queue /\ inbox'.pc = "get" /\ inbox'.id = None
    BY <1>2, <2>1 DEF InboxWork
  <2> QED
    BY <1>1, <1>2, <1>4, <2>1, <2>2 DEF Finished
<1> QED
  BY <1>3, <1>4

LEMMA HurriedMoves ==
  ASSUME MessagesInv, Hurried
  PROVE  /\ user.pc = "answered" /\ user.op = "send_now" /\ user.reply # "error" /\ user.id \in Ids
         /\ \/ /\ user.reply = "cancelled" /\ msg[user.id].n = user.n /\ msg[user.id].place = "tray"
               /\ Changes(user.id, "tray", msg[user.id].state, msg[user.id].n + 1, "none", msg[user.id].withdrawn)
               /\ Goes("user", "wait", "redeliver", user.id) /\ lock' = Append(lock, "user") /\ UNCHANGED told
               /\ Requested("deliver", user.op, user.id, user.n, user.reply)
            \/ /\ UNCHANGED <<msg, deliver, lock>> /\ Requested("off", "none", None, 0, "none")
               /\ told' \in [Ids -> {"none", "withdrawn", "accepted", "sent"}]
               /\ \A x \in Ids : told'[x] = "withdrawn" => told[x] = "withdrawn"
<1> DEFINE o == user.id
<1>1. /\ user.pc = "answered" /\ user.op = "send_now" /\ user.reply # "error" /\ o \in Ids
      /\ \/ /\ user.reply = "cancelled" /\ msg[o].n = user.n /\ o \in Tray
            /\ Redelivers("user", o, TRUE) /\ user' = [user EXCEPT !.pc = "deliver"] /\ UNCHANGED told
         \/ /\ Answer(o, IF msg[o].n # user.n THEN "sent" ELSE "accepted")
            /\ UNCHANGED <<msg, deliver, lock>>
  BY DEF Hurried, MessagesInv, Paired, Asking
<1>2. MessagesTypeOK
  BY DEF MessagesInv
<1>3. CASE /\ user.reply = "cancelled" /\ msg[o].n = user.n /\ o \in Tray
           /\ Redelivers("user", o, TRUE) /\ user' = [user EXCEPT !.pc = "deliver"] /\ UNCHANGED told
  <2>1. msg[o].place = "tray"
    BY <1>3 DEF Tray
  <2>2. Requested("deliver", user.op, user.id, user.n, user.reply)
    BY <1>2, <1>3 DEF Requested, MessagesTypeOK, UserState
  <2> QED
    BY <1>1, <1>2, <1>3, <2>1, <2>2, RedeliversMoves, Nobody
<1>4. CASE /\ Answer(o, IF msg[o].n # user.n THEN "sent" ELSE "accepted")
           /\ UNCHANGED <<msg, deliver, lock>>
  <2>1. Requested("off", "none", None, 0, "none")
    BY <1>4, Nobody DEF Answer, Requested
  <2>2. /\ told' \in [Ids -> {"none", "withdrawn", "accepted", "sent"}]
        /\ \A x \in Ids : told'[x] = "withdrawn" => told[x] = "withdrawn"
    BY <1>1, <1>2, <1>4 DEF Answer, MessagesTypeOK
  <2> QED
    BY <1>1, <1>4, <2>1, <2>2
<1> QED
  BY <1>1, <1>3, <1>4

(* What a delivery is of. *)
LEMMA DeliveryStands ==
  ASSUME MessagesInv, NEW p \in Procs, deliver[p].pc # "off"
  PROVE  /\ deliver[p].id \in Ids /\ deliver[p] \in Delivery /\ msg[deliver[p].id].place # "unused"
         /\ p = "user" => user.pc = "deliver" /\ user.id = deliver[p].id
         /\ p = "inbox" => inbox.pc = "deliver" /\ deliver[p].how = "redeliver"
         /\ Delivers(p, deliver[p].id) \/ (deliver[p].pc = "wait" /\ deliver[p].how = "resend" /\ p = "user")
<1>1. deliver[p] \in Delivery /\ (p = "user" \/ p = "inbox")
  BY Nobody DEF MessagesInv, MessagesTypeOK
<1>2. /\ p = "user" => user.pc = "deliver" /\ user.id = deliver[p].id /\ user.id \in Ids
                       /\ msg[user.id].place # "unused"
      /\ p = "inbox" => inbox.pc = "deliver" /\ deliver[p].how = "redeliver" /\ deliver[p].id \in Ids
      /\ deliver[p].pc = "wait" => deliver[p].how # "send"
  BY DEF MessagesInv, Paired
<1>3. Delivers(p, deliver[p].id) \/ (deliver[p].pc = "wait" /\ deliver[p].how = "resend" /\ p = "user")
  BY <1>1, <1>2 DEF Delivers, Delivery
<1>4. p = "inbox" => msg[deliver[p].id].place = "tray"
  BY <1>1, <1>2, <1>3 DEF MessagesInv, Placed, Queued
<1> QED
  BY <1>1, <1>2, <1>3, <1>4

LEMMA FailureMoves ==
  ASSUME MessagesInv, NEW p \in Procs, deliver[p].pc \in {"write", "query", "failed"}, OnFailure(p)
  PROVE  /\ Finished(p)
         /\ LET o == deliver[p].id IN
            \/ deliver[p].how = "send" /\ msg[o].place = "tray" /\ Leaves(o, msg[o].withdrawn)
            \/ deliver[p].how = "send" /\ msg[o].place # "tray" /\ UNCHANGED <<msg, keys, shown>>
            \/ /\ deliver[p].how # "send" /\ UNCHANGED keys /\ shown' = shown \cup {o}
               /\ Changes(o, msg[o].place, "unsent", msg[o].n, msg[o].intent, msg[o].withdrawn)
<1> DEFINE o == deliver[p].id
<1>1. MessagesTypeOK /\ o \in Ids /\ msg \in [Ids -> MessageState] /\ msg[o] \in MessageState
      /\ keys \in [Keys -> {None} \cup Ids]
  BY DeliveryStands DEF MessagesInv, MessagesTypeOK
<1>2. /\ \/ deliver[p].how = "send" /\ Discard({o} \cap Tray, msg)
         \/ /\ deliver[p].how # "send" /\ msg' = [msg EXCEPT ![o].state = "unsent"]
            /\ shown' = shown \cup {o} /\ UNCHANGED keys
      /\ deliver' = [deliver EXCEPT ![p] = NoDelivery] /\ Release /\ Return(p, "none")
  BY DEF OnFailure
<1> HIDE DEF o
<1>3. Finished(p)
  BY <1>1, <1>2, Finishing
<1>4. CASE deliver[p].how = "send" /\ msg[o].place = "tray"
  <2>1. {o} \cap Tray = {o}
    BY <1>1, <1>4 DEF Tray
  <2>2. Discard({o}, msg)
    BY <1>2, <1>4, <2>1
  <2> QED
    BY <1>1, <1>3, <1>4, <2>2, OneDiscarded DEF o
<1>5. CASE deliver[p].how = "send" /\ msg[o].place # "tray"
  <2>1. {o} \cap Tray = {}
    BY <1>1, <1>5 DEF Tray
  <2>2. Discard({}, msg)
    BY <1>2, <1>5, <2>1
  <2>3. /\ msg' = [x \in Ids |-> msg[x]] /\ keys' = [k \in Keys |-> keys[k]] /\ shown' = shown
    BY <2>2 DEF Discard
  <2> QED
    BY <1>1, <1>3, <1>5, <2>3 DEF o
<1>6. CASE deliver[p].how # "send"
  <2> DEFINE m == [msg[o] EXCEPT !.state = "unsent"]
  <2>1. msg' = [msg EXCEPT ![o] = m]
    BY <1>1, <1>2, <1>6
  <2>2. /\ m \in MessageState /\ m.key = msg[o].key /\ m.place = msg[o].place /\ m.state = "unsent"
        /\ m.n = msg[o].n /\ m.intent = msg[o].intent /\ m.withdrawn = msg[o].withdrawn
    BY <1>1 DEF MessageState
  <2> HIDE DEF m
  <2>3. Changes(o, msg[o].place, "unsent", msg[o].n, msg[o].intent, msg[o].withdrawn)
    BY <1>1, <2>1, <2>2 DEF Changes
  <2> QED
    BY <1>2, <1>3, <1>6, <2>3 DEF o
<1> QED
  BY <1>4, <1>5, <1>6

LEMMA BeginRedeliveryMoves ==
  ASSUME MessagesInv, NEW p \in Procs, BeginRedelivery(p)
  PROVE  /\ deliver[p].pc = "wait" /\ deliver[p].how = "redeliver" /\ Holds(p)
         /\ hurried' \subseteq Uuids
         /\ \/ /\ msg[deliver[p].id].place = "tray" /\ Goes(p, "write", "redeliver", deliver[p].id)
               /\ shown' = shown \cup {deliver[p].id} /\ UNCHANGED <<lock, user, inbox, told>>
            \/ msg[deliver[p].id].place # "tray" /\ Finished(p) /\ UNCHANGED shown
<1>1. deliver[p].pc = "wait" /\ deliver[p].how = "redeliver" /\ Holds(p)
  BY DEF BeginRedelivery
<1>2. deliver[p].id \in Ids /\ deliver[p] \in Delivery
  BY <1>1, DeliveryStands
<1>3. /\ \/ hurried' = hurried
         \/ hurried' = hurried \cup {Uuid(deliver[p].id)}
      /\ MessagesTypeOK
  BY DEF BeginRedelivery, MessagesInv
<1>4. hurried' \subseteq Uuids
  BY <1>2, <1>3, Named DEF MessagesTypeOK
<1>5. CASE msg[deliver[p].id].place = "tray"
  <2>1. /\ deliver' = [deliver EXCEPT ![p].pc = "write"] /\ shown' = shown \cup {deliver[p].id}
        /\ UNCHANGED <<lock, user, inbox, told>>
    BY <1>2, <1>5 DEF BeginRedelivery, Tray
  <2>2. Goes(p, "write", "redeliver", deliver[p].id)
    BY <1>1, <1>2, <1>3, <2>1 DEF Goes, MessagesTypeOK, Delivery
  <2> QED
    BY <1>1, <1>4, <1>5, <2>1, <2>2
<1>6. CASE msg[deliver[p].id].place # "tray"
  <2>1. /\ deliver' = [deliver EXCEPT ![p] = NoDelivery] /\ Release /\ Return(p, "sent") /\ UNCHANGED shown
    BY <1>2, <1>6 DEF BeginRedelivery, Tray
  <2> QED
    BY <1>1, <1>3, <1>4, <1>6, <2>1, Finishing
<1> QED
  BY <1>5, <1>6

LEMMA BeginResendMoves ==
  ASSUME MessagesInv, NEW p \in Procs, BeginResend(p)
  PROVE  /\ p = "user" /\ deliver[p].pc = "wait" /\ deliver[p].how = "resend" /\ Holds(p)
         /\ \/ /\ msg[deliver[p].id].place = "tray" /\ msg[deliver[p].id].state = "unsent"
               /\ Changes(deliver[p].id, "tray", "queued", msg[deliver[p].id].n + 1,
                          msg[deliver[p].id].intent, msg[deliver[p].id].withdrawn)
               /\ Goes(p, "write", "resend", deliver[p].id)
               /\ shown' = shown \cup {deliver[p].id} /\ known' = known \cup {deliver[p].id}
               /\ UNCHANGED <<lock, user, inbox, told>>
            \/ Finished(p) /\ UNCHANGED <<msg, known, shown>>
<1> DEFINE o == deliver[p].id
<1>1. deliver[p].pc = "wait" /\ deliver[p].how = "resend" /\ Holds(p)
  BY DEF BeginResend
<1>2. /\ o \in Ids /\ deliver[p] \in Delivery /\ user.id = o /\ p = "user" /\ MessagesTypeOK
      /\ msg \in [Ids -> MessageState] /\ msg[o] \in MessageState
      /\ told[o] \in {"none", "withdrawn", "accepted", "sent"}
  BY <1>1, DeliveryStands, Nobody DEF MessagesInv, MessagesTypeOK
<1>3. CASE o \in Tray /\ msg[o].state = "unsent"
  <2>1. /\ deliver' = [deliver EXCEPT ![p].pc = "write"] /\ shown' = shown \cup {o} /\ known' = known \cup {o}
        /\ msg' = [msg EXCEPT ![o].state = "queued", ![o].n = @ + 1]
        /\ UNCHANGED <<lock, user, inbox, told>>
    BY <1>3 DEF BeginResend
  <2>2. Goes(p, "write", "resend", o)
    BY <1>1, <1>2, <2>1 DEF Goes, MessagesTypeOK, Delivery
  <2> HIDE DEF o
  <2>3. PICK next \in Nat : next = msg[o].n + 1
    BY <1>2 DEF MessageState
  <2> DEFINE m == [msg[o] EXCEPT !.state = "queued", !.n = next]
  <2>4. msg' = [msg EXCEPT ![o] = m]
    BY <1>2, <2>1, <2>3
  <2>5. /\ m \in MessageState /\ m.key = msg[o].key /\ m.place = msg[o].place /\ m.state = "queued"
        /\ m.n = msg[o].n + 1 /\ m.intent = msg[o].intent /\ m.withdrawn = msg[o].withdrawn
    BY <1>2, <2>3 DEF MessageState
  <2> HIDE DEF m
  <2>6. Changes(o, "tray", "queued", msg[o].n + 1, msg[o].intent, msg[o].withdrawn) /\ msg[o].place = "tray"
    BY <1>2, <1>3, <2>4, <2>5 DEF Changes, Tray
  <2> QED
    BY <1>1, <1>2, <1>3, <2>1, <2>2, <2>6 DEF o
<1>4. CASE ~(o \in Tray /\ msg[o].state = "unsent")
  <2>1. /\ deliver' = [deliver EXCEPT ![p] = NoDelivery] /\ Release /\ Return(p, told[o])
        /\ UNCHANGED <<msg, known, shown>>
    BY <1>4 DEF BeginResend
  <2>2. Finished(p)
    BY <1>2, <2>1, Finishing
  <2> QED
    BY <1>1, <1>2, <2>1, <2>2
<1> QED
  BY <1>3, <1>4

LEMMA WrittenMoves ==
  ASSUME MessagesInv, NEW p \in Procs, Written(p)
  PROVE  /\ deliver[p].pc = "write"
         /\ \/ OnFailure(p) /\ UNCHANGED commands
            \/ /\ session.live /\ ~session.exited /\ Goes(p, "query", deliver[p].how, deliver[p].id)
               /\ commands' = Append(commands, [by |-> p, kind |-> "query", uuid |-> Uuid(deliver[p].id)])
               /\ UNCHANGED <<msg, keys, hurried, shown, lock, user, inbox, told>>
            \/ /\ ~session.live /\ Goes(p, "failed", deliver[p].how, deliver[p].id) /\ UNCHANGED commands
               /\ UNCHANGED <<msg, keys, hurried, shown, lock, user, inbox, told>>
<1>1. deliver[p].pc = "write" /\ deliver[p] \in Delivery /\ deliver \in [Procs -> Delivery]
  BY DeliveryStands DEF Written, MessagesInv, MessagesTypeOK
<1>2. CASE session.live /\ session.exited
  BY <1>1, <1>2 DEF Written
<1>3. CASE session.live /\ ~session.exited
  <2>1. deliver' = [deliver EXCEPT ![p].pc = "query"]
    BY <1>3 DEF Written
  <2>2. Goes(p, "query", deliver[p].how, deliver[p].id)
    BY <1>1, <2>1 DEF Goes, Delivery
  <2> QED
    BY <1>1, <1>3, <2>2 DEF Written
<1>4. CASE ~session.live
  <2>1. deliver' = [deliver EXCEPT ![p].pc = "failed"]
    BY <1>4 DEF Written
  <2>2. Goes(p, "failed", deliver[p].how, deliver[p].id)
    BY <1>1, <2>1 DEF Goes, Delivery
  <2> QED
    BY <1>1, <1>4, <2>2 DEF Written
<1> QED
  BY <1>2, <1>3, <1>4

LEMMA LockedKept ==
  ASSUME Locked, NEW p \in Procs,
         \A q \in Procs \ {p} : deliver'[q] = deliver[q] /\ (Wants(q)' <=> Wants(q)),
         \/ /\ lock' = lock /\ (Wants(p)' <=> Wants(p))
            /\ deliver'[p].pc \in {"write", "query", "failed"} => Holds(p)
         \/ /\ lock' = Append(lock, p) /\ ~Wants(p) /\ Wants(p)'
            /\ deliver'[p].pc \notin {"write", "query", "failed"}
         \/ /\ lock' = Tail(lock) /\ Holds(p) /\ ~Wants(p)'
  PROVE  Locked'
<1>1. /\ lock \in LockStates /\ \A q \in Procs : Wants(q) <=> InLock(lock, q)
      /\ \A q \in Procs : deliver[q].pc \in {"write", "query", "failed"} => Holds(q)
  BY DEF Locked
<1>2. deliver'[p].pc \in {"write", "query", "failed"} => Wants(p)'
  BY DEF Wants
<1>3. CASE /\ lock' = lock /\ (Wants(p)' <=> Wants(p))
           /\ deliver'[p].pc \in {"write", "query", "failed"} => Holds(p)
  <2>1. \A q \in Procs : Wants(q)' <=> InLock(lock', q)
    BY <1>1, <1>3
  <2>2. \A q \in Procs : deliver'[q].pc \in {"write", "query", "failed"} => Holds(q)'
    BY <1>1, <1>3 DEF Holds
  <2> QED
    BY <1>1, <1>3, <2>1, <2>2 DEF Locked
<1>4. CASE /\ lock' = Append(lock, p) /\ ~Wants(p) /\ Wants(p)'
           /\ deliver'[p].pc \notin {"write", "query", "failed"}
  <2>1. /\ lock' \in LockStates /\ lock' # <<>> /\ \A q \in Procs : InLock(lock', q) <=> q = p \/ InLock(lock, q)
        /\ lock # <<>> => Head(lock') = Head(lock)
    BY <1>1, <1>4, LockIsQueue
  <2>2. \A q \in Procs : Wants(q)' <=> InLock(lock', q)
    BY <1>1, <1>4, <2>1
  <2>3. \A q \in Procs : deliver'[q].pc \in {"write", "query", "failed"} => Holds(q)'
    BY <1>1, <1>4, <2>1 DEF Holds
  <2> QED
    BY <2>1, <2>2, <2>3 DEF Locked
<1>5. CASE lock' = Tail(lock) /\ Holds(p) /\ ~Wants(p)'
  <2>1. /\ lock' \in LockStates /\ \A q \in Procs : InLock(lock', q) <=> q # p /\ InLock(lock, q)
    BY <1>1, <1>5, LockIsQueue DEF Holds
  <2>2. \A q \in Procs : Wants(q)' <=> InLock(lock', q)
    BY <1>1, <1>5, <2>1
  <2>3. \A q \in Procs : deliver'[q].pc \in {"write", "query", "failed"} => Holds(q)'
    BY <1>1, <1>2, <1>5 DEF Holds
  <2> QED
    BY <2>1, <2>2, <2>3 DEF Locked
<1> QED
  BY <1>3, <1>4, <1>5

(* The frames on their way stay, but for those of one delivery. *)
OnlyFrame(v) ==
    \A u \in Uuids : /\ Framed(u)' => Framed(u)
                     /\ Started(u)' => Started(u)
                     /\ u # v => (Framed(u) => Framed(u)') /\ (Heralded(u) => Heralded(u)')

LEMMA FramesStay ==
  ASSUME cli' = cli, inbox'.queue = inbox.queue
  PROVE  /\ \A v : OnlyFrame(v)
         /\ \A u : Framed(u)' <=> Framed(u)
BY DEF OnlyFrame, Framed, Started, Heralded

LEMMA FrameSettled ==
  ASSUME MessagesTypeOK, cli' = cli, inbox.queue # <<>>, inbox'.queue = Tail(inbox.queue)
  PROVE  OnlyFrame(Head(inbox.queue).uuid)
<1>1. inbox.queue \in Seq(InboxNotice)
  BY DEF MessagesTypeOK, InboxWork
<1>2. ASSUME NEW u \in Uuids
      PROVE  /\ Framed(u)' => Framed(u)
             /\ Started(u)' => Started(u)
             /\ u # Head(inbox.queue).uuid => (Framed(u) => Framed(u)') /\ (Heralded(u) => Heralded(u)')
  <2>1. /\ Has(inbox.queue, u) <=> Has(inbox'.queue, u) \/ Head(inbox.queue).uuid = u
        /\ SaysStarted(inbox'.queue, u) => SaysStarted(inbox.queue, u)
        /\ Opens(inbox.queue, u) /\ Head(inbox.queue).uuid # u => Opens(inbox'.queue, u)
    BY <1>1, FrameTaken
  <2> QED
    BY <2>1 DEF Framed, Started, Heralded
<1> QED
  BY <1>2 DEF OnlyFrame

(* The inbox goes on writing to the log what it began to. *)
LogsOn ==
    /\ inbox.pc = "log" => inbox'.pc = "log" /\ inbox'.id = inbox.id
    /\ inbox'.pc = "log" => inbox'.id \in Ids /\ msg'[inbox'.id].place = "tray" /\ Uuid(inbox'.id) \in entered

LEMMA FlowsKept ==
  ASSUME MessagesTypeOK, Flows, UNCHANGED <<cli, entered>>, NEW v, OnlyFrame(v), LogsOn,
         v \in entered => msg'[v[1]].place # "tray" \/ Logging(v[1])',
         \A o \in Ids : /\ msg[o].place # "unused" => msg'[o].place # "unused"
                        /\ msg'[o].n \in Nat
                        /\ \/ msg'[o].n = msg[o].n
                           \/ msg'[o].n = msg[o].n + 1 /\ Uuid(o) \notin cli.held /\ Uuid(o) \notin entered
                        /\ msg'[o].place = "tray" => msg[o].place = "tray" \/ \A u \in entered : u[1] # o,
         \A u \in cli.held : Queued(u[1])'
  PROVE  Flows'
<1>1. \A u \in Uuids : /\ Framed(u)' => Framed(u)
                       /\ Started(u)' => Started(u)
                       /\ u # v /\ Heralded(u) => Heralded(u)'
  BY DEF OnlyFrame
<1>2. \A u \in Uuids : /\ u[1] \in Ids /\ u[2] \in Nat /\ msg[u[1]].n \in Nat
                       /\ (u[2] = msg[u[1]].n => u = Uuid(u[1]))
  BY Named
<1>3. cli.held \subseteq Uuids /\ entered \subseteq Uuids
  BY DEF MessagesTypeOK, CliState
<1>4. \A u \in Uuids : u \in cli.held \/ u \in entered \/ Framed(u) => msg'[u[1]].place # "unused" /\ u[2] <= msg'[u[1]].n
  <2> SUFFICES ASSUME NEW u \in Uuids, u \in cli.held \/ u \in entered \/ Framed(u)
               PROVE  msg'[u[1]].place # "unused" /\ u[2] <= msg'[u[1]].n
    OBVIOUS
  <2>1. msg[u[1]].place # "unused" /\ u[2] <= msg[u[1]].n
    BY DEF Flows
  <2>2. PICK o \in Ids : o = u[1]
    BY <1>2
  <2>3. msg'[o].place # "unused" /\ (msg'[o].n = msg[o].n \/ msg'[o].n = msg[o].n + 1)
    BY <2>1, <2>2
  <2>4. u[2] <= msg'[o].n
    BY <1>2, <2>1, <2>2, <2>3
  <2> QED
    BY <2>2, <2>3, <2>4
<1>5. \A u \in cli.held \cup entered : u[2] = msg[u[1]].n /\ u = Uuid(u[1]) /\ u[1] \in Ids
  BY <1>2, <1>3 DEF Flows
<1>6. \A u \in cli.held \cup entered : u[2] = msg'[u[1]].n
  BY <1>5
<1>7. \A u \in entered : msg'[u[1]].place = "tray" => Heralded(u)' \/ Logging(u[1])'
  <2> SUFFICES ASSUME NEW u \in entered, msg'[u[1]].place = "tray" PROVE Heralded(u)' \/ Logging(u[1])'
    OBVIOUS
  <2>1. msg[u[1]].place = "tray"
    BY <1>5
  <2>2. Heralded(u) \/ Logging(u[1])
    BY <2>1 DEF Flows
  <2>3. Logging(u[1]) => Logging(u[1])'
    BY DEF Logging, LogsOn
  <2> QED
    BY <1>1, <1>3, <2>2, <2>3
<1>8. inbox'.pc = "log" => inbox'.id \in Ids /\ msg'[inbox'.id].place = "tray" /\ Uuid(inbox.id)' \in entered
  <2> SUFFICES ASSUME inbox'.pc = "log"
               PROVE  inbox'.id \in Ids /\ msg'[inbox'.id].place = "tray" /\ Uuid(inbox.id)' \in entered
    OBVIOUS
  <2>1. inbox'.id \in Ids /\ msg'[inbox'.id].place = "tray" /\ Uuid(inbox'.id) \in entered
    BY DEF LogsOn
  <2>2. msg'[inbox'.id].n = msg[inbox'.id].n
    BY <2>1
  <2> QED
    BY <2>1, <2>2 DEF Uuid
<1>9. /\ \A u \in cli.held : Queued(u[1])' /\ u \notin entered /\ ~Framed(u)'
      /\ \A u \in Uuids : Started(u)' => u \in entered
      /\ \A u \in Uuids : Framed(u)' => Framed(u)
  BY <1>1, <1>3 DEF Flows
<1> QED
  BY <1>3, <1>4, <1>6, <1>7, <1>8, <1>9 DEF Flows

LEMMA PlacedKept ==
  ASSUME NEW o \in Ids, Placed(o), msg'[o].place = msg[o].place, msg'[o].state = msg[o].state,
         msg'[o].n = msg[o].n, session'.exited = session.exited, \A p \in Procs : Delivers(p, o)' <=> Delivers(p, o),
         Uuid(o) \in cli'.held <=> Uuid(o) \in cli.held, Uuid(o) \in entered' <=> Uuid(o) \in entered,
         Framed(Uuid(o))' <=> Framed(Uuid(o)), Logging(o)' <=> Logging(o)
  PROVE  Placed(o)'
<1>1. Uuid(o)' = Uuid(o) /\ (Queued(o)' <=> Queued(o))
  BY DEF Uuid, Queued
<1>2. Away(Uuid(o))' <=> Away(Uuid(o))
  BY <1>1 DEF Away
<1> QED
  BY <1>1, <1>2, Nobody DEF Placed

LEMMA KeyedKept ==
  ASSUME MessagesTypeOK, Keyed, Flows, UNCHANGED <<log, entered>>,
         \A o \in Ids : /\ msg'[o].key = msg[o].key /\ (msg[o].place = "left" => msg'[o].place = "left")
                        /\ msg'[o].n = msg[o].n \/ Uuid(o) \notin entered
                        /\ msg'[o].place = "tray" => msg[o].place = "tray" /\ keys'[msg[o].key] = keys[msg[o].key],
         \A u \in entered : msg[u[1]].place = "tray" => msg'[u[1]].place = "tray"
  PROVE  Keyed'
<1>1. log \in Seq(Ids) /\ \A i \in 1..Len(log) : log[i] \in Ids
  BY DEF MessagesTypeOK
<1>2. \A k : InLog(k)' <=> InLog(k)
  BY <1>1 DEF InLog
<1>3. \A u \in entered : u[1] \in Ids
  BY Named DEF MessagesTypeOK
<1>4. \A o \in Ids : msg'[o].place = "tray" => keys'[msg'[o].key] = o /\ ~InLog(msg[o].key)'
  BY <1>2 DEF Keyed
<1>5. \A u \in entered : msg'[u[1]].place = "tray" \/ \E i \in 1..Len(log) : log[i] = u[1]
  BY DEF Keyed
<1>6. \A i \in 1..Len(log) : Uuid(log[i])' \in entered /\ msg'[log[i]].place # "tray"
  BY <1>1 DEF Keyed, Uuid
<1>7. \A i, j \in 1..Len(log) : msg'[log[i]].key = msg'[log[j]].key => i = j
  BY <1>1 DEF Keyed
<1> QED
  BY <1>4, <1>5, <1>6, <1>7 DEF Keyed

(* Where the messages are does not change. *)
Steady ==
    /\ msg' \in [Ids -> MessageState]
    /\ \A o \in Ids : /\ msg'[o].key = msg[o].key /\ msg'[o].place = msg[o].place /\ msg'[o].state = msg[o].state
                      /\ msg'[o].n = msg[o].n /\ msg'[o].withdrawn = msg[o].withdrawn

LEMMA StayPut ==
  ASSUME MessagesInv, Steady, UNCHANGED <<keys, log, cli, entered, session, inbox>>,
         \A p \in Procs, o \in Ids : Delivers(p, o)' <=> Delivers(p, o)
  PROVE  Flows' /\ (\A o \in Ids : Placed(o)') /\ Keyed'
<1>1. /\ MessagesTypeOK /\ Flows /\ Keyed /\ (\A o \in Ids : Placed(o))
      /\ \A u \in entered \cup cli.held : u[1] \in Ids
      /\ \A o \in Ids : msg[o].n \in Nat
  BY Named DEF MessagesInv, MessagesTypeOK, CliState
<1>2. Flows'
  <2>1. \A u \in cli.held : Queued(u[1])'
    BY <1>1 DEF Flows, Queued, Steady
  <2>2. LogsOn
    BY <1>1 DEF Flows, Steady, LogsOn
  <2>3. OnlyFrame(<<None, 0>>) /\ <<None, 0>> \notin entered
    BY <1>1, FramesStay, Named DEF MessagesTypeOK
  <2> QED
    BY <1>1, <2>1, <2>2, <2>3, FlowsKept DEF Steady
<1>3. \A o \in Ids : Placed(o)'
  <2> TAKE o \in Ids
  <2>1. Framed(Uuid(o))' <=> Framed(Uuid(o))
    <3>1. Uuid(o)' = Uuid(o)
      BY DEF Steady, Uuid
    <3> QED
      BY <3>1, FramesStay DEF Framed
  <2> QED
    BY <1>1, <2>1, PlacedKept DEF Steady, Logging
<1>4. Keyed'
  BY <1>1, KeyedKept DEF Steady
<1> QED
  BY <1>2, <1>3, <1>4

LEMMA AskSendKeeps ==
  ASSUME MessagesInv, NEW k \in Keys, AskSend(k)
  PROVE  MessagesInv'
<1>1. PICK stand \in {"lookback", "look", "reconnect"} :
         /\ Requested(stand, "send", None, 0, "none")
         /\ lock' = IF stand = "reconnect" THEN lock ELSE Append(lock, "user")
         /\ stand \in {"lookback", "reconnect"} => session.exited \/ ~session.live \/ session.evicting
  BY AskSendMoves
<1>2. user.pc = "off" /\ requests' \in 0..MaxRequests
  BY AskSendMoves
<1>3. UNCHANGED <<msg, keys, known, hurried, log, shown, session, cli, commands, deliver, inbox, entered, told,
                  exits, refusals, failures>>
  BY DEF AskSend
<1>4. MessagesTypeOK /\ Locked /\ Paired /\ Commanded /\ Closed /\ Wished /\ Paged
  BY DEF MessagesInv
<1>lock. Locked'
  <2>1. deliver["user"].pc = "off" /\ ~Wants("user")
    BY <1>2, <1>4 DEF Paired, Wants
  <2>2. Wants("user")' <=> stand \in {"lookback", "look"}
    BY <1>1, <1>3, <2>1 DEF Wants, Requested
  <2>3. \A q \in Procs \ {"user"} : Wants(q)' <=> Wants(q)
    BY <1>3 DEF Wants
  <2>4. \/ lock' = lock /\ (Wants("user")' <=> Wants("user"))
        \/ lock' = Append(lock, "user") /\ ~Wants("user") /\ Wants("user")'
    BY <1>1, <2>1, <2>2
  <2> QED
    BY <1>3, <1>4, <2>1, <2>3, <2>4, LockedKept, Nobody
<1>types. MessagesTypeOK'
  BY <1>1, <1>2, <1>3, <1>4, <1>lock DEF MessagesTypeOK, Requested, Locked, LockStates
<1>paired. Paired'
  BY <1>1, <1>2, <1>3, <1>4 DEF Paired, Requested, Asking
<1>commanded. Commanded'
  BY <1>1, <1>2, <1>3, <1>4 DEF Commanded, Requested, Uuid
<1>closed. Closed'
  BY <1>1, <1>2, <1>3, <1>4 DEF Closed, Requested
<1>rest. Flows' /\ (\A o \in Ids : Placed(o)') /\ Keyed'
  <2>1. \A p \in Procs, o \in Ids : Delivers(p, o)' <=> Delivers(p, o)
    BY <1>3 DEF Delivers
  <2>2. Steady
    BY <1>3, <1>4 DEF Steady, MessagesTypeOK
  <2> QED
    BY <1>3, <2>1, <2>2, StayPut
<1>wished. Wished'
  BY <1>1, <1>3, <1>4 DEF Wished, Requested, Asking, Out, Uuid
<1>paged. Paged'
  BY <1>1, <1>3, <1>4 DEF Paged, Requested, Tray
<1> QED
  BY <1>lock, <1>types, <1>paired, <1>commanded, <1>closed, <1>rest, <1>wished, <1>paged DEF MessagesInv

LEMMA Ordered ==
  ASSUME MessagesTypeOK
  PROVE  \A i \in 1..Len(commands) : /\ commands[i] \in Command /\ commands[i].by \in Procs
                                     /\ commands[i].kind = "query" \/ commands[i].kind = "cancel"
<1>1. \A i \in 1..Len(commands) : commands[i] \in Command
  BY DEF MessagesTypeOK
<1>2. \A c \in Command : c.by \in Procs /\ (c.kind = "query" \/ c.kind = "cancel")
  BY DEF Command
<1> QED
  BY <1>1, <1>2

LEMMA LookKeeps ==
  ASSUME MessagesInv, Repeated \/ LookFirst
  PROVE  MessagesInv'
<1>1. PICK stand \in {"off", "reconnect"} :
         /\ user.pc \in {"lookback", "look"} /\ Holds("user") /\ lock' = Tail(lock)
         /\ user' \in UserState /\ user'.pc = stand
         /\ stand = "reconnect" => user.pc = "lookback" /\ user'.op = user.op /\ user'.id = user.id
  BY LookMoves DEF Requested
<1>2. UNCHANGED <<msg, keys, known, hurried, log, shown, session, cli, commands, deliver, inbox, entered, told, bounds>>
  BY DEF Repeated, LookFirst
<1>3. /\ MessagesTypeOK /\ Locked /\ Paired /\ Commanded /\ Closed /\ Wished /\ Paged
      /\ deliver["user"].pc = "off"
  BY <1>1 DEF MessagesInv, Paired
<1>lock. Locked'
  <2>1. ~Wants("user")'
    BY <1>1, <1>2, <1>3 DEF Wants
  <2>2. \A q \in Procs \ {"user"} : Wants(q)' <=> Wants(q)
    BY <1>2 DEF Wants
  <2> QED
    BY <1>1, <1>2, <1>3, <2>1, <2>2, LockedKept, Nobody
<1>types. MessagesTypeOK'
  BY <1>1, <1>2, <1>3, <1>lock DEF MessagesTypeOK, Locked, LockStates, bounds
<1>op. user'.pc = "reconnect" /\ user'.op # "send" => user'.id \in Ids /\ msg[user'.id].place # "unused"
  <2>1. user.op = "send"
    BY <1>1, <1>3 DEF Paired
  <2> QED
    BY <1>1, <2>1
<1>paired. Paired'
  BY <1>1, <1>2, <1>3, <1>op DEF Paired, Asking
<1>commanded. Commanded'
  BY <1>1, <1>2, <1>3 DEF Commanded, Uuid
<1>closed. Closed'
  BY <1>1, <1>2, <1>3 DEF Closed
<1>rest. Flows' /\ (\A o \in Ids : Placed(o)') /\ Keyed'
  <2>1. \A p \in Procs, o \in Ids : Delivers(p, o)' <=> Delivers(p, o)
    BY <1>2 DEF Delivers
  <2>2. Steady
    BY <1>2, <1>3 DEF Steady, MessagesTypeOK
  <2> QED
    BY <1>2, <2>1, <2>2, StayPut
<1>wished. Wished'
  BY <1>1, <1>2, <1>3 DEF Wished, Asking, Out, Uuid
<1>paged. Paged'
  BY <1>1, <1>2, <1>3 DEF Paged, Tray, bounds
<1> QED
  BY <1>lock, <1>types, <1>paired, <1>commanded, <1>closed, <1>rest, <1>wished, <1>paged DEF MessagesInv

LEMMA AskTooLateKeeps ==
  ASSUME MessagesInv, NEW op \in Requests, NEW o \in Ids, AskTooLate(op, o)
  PROVE  MessagesInv'
<1>1. /\ requests' \in 0..MaxRequests /\ told' = [told EXCEPT ![o] = "accepted"]
      /\ UNCHANGED <<msg, keys, known, hurried, log, shown, session, cli, commands, lock, deliver, user, inbox, entered,
                     exits, refusals, failures>>
  BY AskedMoves DEF AskTooLate
<1>2. MessagesTypeOK /\ Locked /\ Paired /\ Commanded /\ Closed /\ Wished /\ Paged
  BY DEF MessagesInv
<1>3. /\ told' \in [Ids -> {"none", "withdrawn", "accepted", "sent"}]
      /\ \A x \in Ids : told'[x] = "withdrawn" => told[x] = "withdrawn"
  BY <1>1, <1>2 DEF MessagesTypeOK
<1>types. MessagesTypeOK'
  BY <1>1, <1>2, <1>3 DEF MessagesTypeOK
<1>same. Locked' /\ Paired' /\ Commanded' /\ Closed' /\ Paged'
  <2>1. Locked'
    BY <1>1, <1>2 DEF Locked, Holds, Wants
  <2>2. Paired'
    BY <1>1, <1>2 DEF Paired, Asking
  <2>3. Commanded'
    BY <1>1, <1>2 DEF Commanded, Uuid
  <2>4. Closed'
    BY <1>1, <1>2 DEF Closed
  <2>5. Paged'
    BY <1>1, <1>2 DEF Paged, Tray
  <2> QED
    BY <2>1, <2>2, <2>3, <2>5, <2>4
<1>rest. Flows' /\ (\A x \in Ids : Placed(x)') /\ Keyed'
  <2>1. \A p \in Procs, x \in Ids : Delivers(p, x)' <=> Delivers(p, x)
    BY <1>1 DEF Delivers
  <2>2. Steady
    BY <1>1, <1>2 DEF Steady, MessagesTypeOK
  <2> QED
    BY <1>1, <2>1, <2>2, StayPut
<1>wished. Wished'
  <2>1. \A x \in Ids : told'[x] = "withdrawn" \/ msg'[x].withdrawn => Out(x)'
    BY <1>1, <1>2, <1>3 DEF Wished, Out, Uuid
  <2>2. /\ Asking' <=> Asking
        /\ Delivers("inbox", user.id)' <=> Delivers("inbox", user.id)
        /\ Holds("inbox")' <=> Holds("inbox")
    BY <1>1 DEF Asking, Delivers, Holds
  <2> QED
    BY <1>1, <1>2, <2>1, <2>2 DEF Wished, Queued, Uuid
<1> QED
  BY <1>types, <1>same, <1>rest, <1>wished DEF MessagesInv

LEMMA CommandAppended ==
  ASSUME NEW S, NEW s \in Seq(S), NEW c \in S
  PROVE  /\ Append(s, c) \in Seq(S)
         /\ \A i \in 1..Len(Append(s, c)) :
              \/ i \in 1..Len(s) /\ Append(s, c)[i] = s[i]
              \/ i = Len(s) + 1 /\ Append(s, c)[i] = c
OBVIOUS

LEMMA AskResendKeeps ==
  ASSUME MessagesInv, NEW op \in Requests, NEW o \in Ids, AskResend(op, o)
  PROVE  MessagesInv'
<1>1. /\ user.pc = "off" /\ requests' \in 0..MaxRequests /\ session.live
      /\ msg[o].place = "tray" /\ msg[o].state = "unsent"
      /\ \/ session.exited /\ Requested("reconnect", "resend", o, 0, "none") /\ UNCHANGED <<lock, deliver>>
         \/ /\ ~session.exited /\ Requested("deliver", "resend", o, 0, "none")
            /\ Goes("user", "wait", "resend", o) /\ lock' = Append(lock, "user")
  BY AskedMoves, AskResendMoves DEF AskResend
<1>2. UNCHANGED <<msg, keys, known, hurried, log, shown, session, cli, commands, inbox, entered, told,
                  exits, refusals, failures>>
  BY DEF AskResend
<1>3. /\ MessagesTypeOK /\ Locked /\ Paired /\ Commanded /\ Closed /\ Wished /\ Paged
      /\ deliver["user"].pc = "off"
  BY <1>1 DEF MessagesInv, Paired
<1>4. /\ user'.id = o /\ user'.op = "resend" /\ user' \in UserState /\ user'.pc \in {"reconnect", "deliver"}
      /\ user'.pc = "deliver" <=> deliver'["user"].pc # "off"
      /\ deliver'["user"].pc \in {"off", "wait"} /\ (deliver'["user"].pc = "wait" => deliver'["user"].how = "resend")
      /\ deliver'["user"].pc # "off" => deliver'["user"].id = o
      /\ deliver'["inbox"] = deliver["inbox"]
      /\ deliver' \in [Procs -> Delivery]
      /\ user'.pc = "reconnect" => session.exited
  BY <1>1, <1>3, Nobody DEF Requested, Goes, MessagesTypeOK
<1>lock. Locked'
  <2>1. \A q \in Procs \ {"user"} : deliver'[q] = deliver[q] /\ (Wants(q)' <=> Wants(q))
    BY <1>4, Nobody DEF Wants
  <2>2. ~Wants("user") /\ (Wants("user")' <=> deliver'["user"].pc # "off")
    BY <1>1, <1>3, <1>4 DEF Wants
  <2>3. \/ lock' = lock /\ ~Wants("user")'
        \/ lock' = Append(lock, "user") /\ Wants("user")'
    BY <1>1, <1>3, <1>4, <2>2 DEF Requested, Goes
  <2> QED
    BY <1>3, <1>4, <2>1, <2>2, <2>3, LockedKept, Nobody
<1>types. MessagesTypeOK'
  BY <1>1, <1>2, <1>3, <1>4, <1>lock DEF MessagesTypeOK, Locked, LockStates
<1>paired. Paired'
  BY <1>1, <1>2, <1>3, <1>4, Nobody DEF Paired, Asking
<1>commanded. Commanded'
  <2>1. \A i \in 1..Len(commands) : /\ commands[i].kind = "cancel" => FALSE
                                    /\ commands[i].kind = "query" => commands[i].by = "inbox"
    BY <1>1, <1>3, Ordered, Nobody DEF Commanded
  <2> QED
    BY <1>2, <1>3, <1>4, <2>1 DEF Commanded, Uuid
<1>closed. Closed'
  BY <1>1, <1>2, <1>3, <1>4, Nobody DEF Closed
<1>rest. Flows' /\ (\A x \in Ids : Placed(x)') /\ Keyed'
  <2>1. \A p \in Procs, x \in Ids : Delivers(p, x)' <=> Delivers(p, x)
    BY <1>3, <1>4, Nobody DEF Delivers
  <2>2. Steady
    BY <1>2, <1>3 DEF Steady, MessagesTypeOK
  <2> QED
    BY <1>2, <2>1, <2>2, StayPut
<1>wished. Wished'
  <2>1. ~Asking' /\ user'.pc # "answered"
    BY <1>4 DEF Asking
  <2>2. \A x \in Ids : told'[x] = "withdrawn" \/ msg'[x].withdrawn => Out(x)'
    BY <1>2, <1>3 DEF Wished, Out, Uuid
  <2> QED
    BY <2>1, <2>2 DEF Wished
<1>paged. Paged'
  BY <1>2, <1>3, <1>4 DEF Paged, Tray
<1> QED
  BY <1>lock, <1>types, <1>paired, <1>commanded, <1>closed, <1>rest, <1>wished, <1>paged DEF MessagesInv

LEMMA EnqueueCancelKeeps ==
  ASSUME MessagesInv, EnqueueCancel
  PROVE  MessagesInv'
<1> DEFINE c == [by |-> "user", kind |-> "cancel", uuid |-> Uuid(user.id)]
<1>1. /\ user.pc = "cancel" /\ Holds("user") /\ lock' = Tail(lock)
      /\ \/ /\ session.exited /\ UNCHANGED commands
            /\ Requested("answered", user.op, user.id, user.n, "error")
         \/ /\ ~session.exited /\ Requested("asked", user.op, user.id, user.n, user.reply)
            /\ commands' = Append(commands, c)
  BY EnqueueCancelMoves
<1>2. UNCHANGED <<msg, keys, known, hurried, log, shown, session, cli, deliver, inbox, entered, told, bounds>>
  BY DEF EnqueueCancel
<1>3. /\ MessagesTypeOK /\ Locked /\ Paired /\ Commanded /\ Closed /\ Wished /\ Paged
      /\ deliver["user"].pc = "off" /\ user.id \in Ids
  BY <1>1 DEF MessagesInv, Paired, Asking
<1>4. /\ user' \in UserState /\ user'.id = user.id /\ user'.op = user.op /\ user'.n = user.n
      /\ user'.pc = IF session.exited THEN "answered" ELSE "asked"
      /\ user'.pc = "answered" => user'.reply = "error"
  BY <1>1 DEF Requested
<1>5. c \in Command /\ c.kind = "cancel" /\ c.uuid[1] = user.id /\ c.uuid[2] = msg[user.id].n
  BY <1>3, Named, Nobody DEF Command
<1> HIDE DEF c
<1>lock. Locked'
  <2>1. ~Wants("user")'
    BY <1>2, <1>3, <1>4 DEF Wants
  <2>2. \A q \in Procs \ {"user"} : Wants(q)' <=> Wants(q)
    BY <1>2 DEF Wants
  <2> QED
    BY <1>1, <1>2, <1>3, <2>1, <2>2, LockedKept, Nobody
<1>queue. /\ commands' \in Seq(Command)
          /\ \A i \in 1..Len(commands') : \/ i \in 1..Len(commands) /\ commands'[i] = commands[i]
                                          \/ i = Len(commands) + 1 /\ commands'[i] = c /\ user'.pc = "asked"
          /\ session.exited => commands' = commands
  <2>1. CASE session.exited
    BY <1>1, <1>3, <2>1 DEF MessagesTypeOK
  <2>2. CASE ~session.exited
    <3>1. commands \in Seq(Command) /\ commands' = Append(commands, c)
      BY <1>1, <1>3, <2>2 DEF MessagesTypeOK
    <3>2. /\ Append(commands, c) \in Seq(Command)
          /\ \A i \in 1..Len(Append(commands, c)) :
               \/ i \in 1..Len(commands) /\ Append(commands, c)[i] = commands[i]
               \/ i = Len(commands) + 1 /\ Append(commands, c)[i] = c
      BY <1>5, <3>1, CommandAppended
    <3> QED
      BY <1>4, <2>2, <3>1, <3>2
  <2> QED
    BY <2>1, <2>2
<1>types. MessagesTypeOK'
  BY <1>2, <1>3, <1>4, <1>lock, <1>queue DEF MessagesTypeOK, Locked, LockStates, bounds
<1>paired. Paired'
  BY <1>1, <1>2, <1>3, <1>4 DEF Paired, Asking
<1>commanded. Commanded'
  <2>1. \A i \in 1..Len(commands) : commands[i].kind = "query"
    BY <1>1, <1>3, Ordered DEF Commanded
  <2>2. \A i \in 1..Len(commands') :
         /\ commands'[i].kind = "query" =>
              deliver[commands'[i].by].pc = "query" /\ commands'[i].uuid = Uuid(deliver[commands'[i].by].id)
         /\ commands'[i].kind = "cancel" =>
              user'.pc = "asked" /\ commands'[i].uuid[1] = user.id /\ commands'[i].uuid[2] <= msg[user.id].n
    <3>1. msg[user.id].n <= msg[user.id].n
      BY <1>3, Named
    <3> QED
      BY <1>3, <1>5, <1>queue, <2>1, <3>1 DEF Commanded
  <2>3. \A i, j \in 1..Len(commands') : commands'[i].kind = commands'[j].kind => i = j
    BY <1>3, <1>5, <1>queue, <2>1 DEF Commanded
  <2> QED
    BY <1>2, <1>4, <2>2, <2>3 DEF Commanded, Uuid
<1>closed. Closed'
  BY <1>2, <1>3, <1>4, <1>queue DEF Closed
<1>rest. Flows' /\ (\A x \in Ids : Placed(x)') /\ Keyed'
  <2>1. \A p \in Procs, x \in Ids : Delivers(p, x)' <=> Delivers(p, x)
    BY <1>2 DEF Delivers
  <2>2. Steady
    BY <1>2, <1>3 DEF Steady, MessagesTypeOK
  <2> QED
    BY <1>2, <2>1, <2>2, StayPut
<1>wished. Wished'
  <2>1. ~Holds("inbox")
    BY <1>1 DEF Holds
  <2>2. /\ \A x \in Ids : Out(x)' <=> Out(x)
        /\ Queued(user.id)' <=> Queued(user.id)
        /\ Delivers("inbox", user.id)' <=> Delivers("inbox", user.id)
        /\ Asking /\ Asking'
    BY <1>1, <1>2, <1>4 DEF Out, Uuid, Queued, Delivers, Asking
  <2> QED
    BY <1>2, <1>3, <1>4, <2>1, <2>2 DEF Wished
<1>paged. Paged'
  BY <1>2, <1>3, <1>4 DEF Paged, Tray, bounds
<1> QED
  BY <1>lock, <1>types, <1>paired, <1>commanded, <1>closed, <1>rest, <1>wished, <1>paged DEF MessagesInv

(* The inbox alone is in the lock while the user is not. *)
LEMMA InboxHolds ==
  ASSUME Locked, ~Wants("user"), deliver["inbox"].pc # "off"
  PROVE  Holds("inbox")
<1>1. /\ lock \in LockStates /\ InLock(lock, "inbox") /\ ~InLock(lock, "user")
  BY Nobody DEF Locked, Wants
<1>2. \A q \in Procs : q # "inbox" => ~InLock(lock, q)
  BY <1>1, Nobody
<1> QED
  BY <1>1, <1>2, LockIsQueue, Nobody DEF Holds

LEMMA AskCancelKeeps ==
  ASSUME MessagesInv, NEW op \in Requests, NEW o \in Ids, AskCancel(op, o)
  PROVE  MessagesInv'
<1>1. /\ user.pc = "off" /\ requests' \in 0..MaxRequests /\ session.live
      /\ msg[o].place = "tray" /\ msg[o].state = "queued" /\ op \in {"edit", "delete", "send_now"}
      /\ Changes(o, "tray", "queued", msg[o].n, op, msg[o].withdrawn)
  BY AskedMoves, AskCancelMoves DEF AskCancel
<1>2. UNCHANGED <<keys, known, hurried, log, shown, session, cli, commands, deliver, inbox, entered,
                  exits, refusals, failures>>
  BY DEF AskCancel
<1>3. /\ MessagesTypeOK /\ Locked /\ Paired /\ Commanded /\ Closed /\ Wished /\ Paged
      /\ deliver["user"].pc = "off" /\ ~Wants("user")
  BY <1>1 DEF MessagesInv, Paired, Wants
<1>4. \/ /\ Requested("cancel", op, o, msg[o].n, "none")
         /\ lock' = Append(lock, "user") /\ UNCHANGED told
      \/ UNCHANGED <<user, lock>> /\ told' = [told EXCEPT ![o] = "accepted"]
  BY AskCancelMoves
<1>5. /\ user' \in UserState /\ user'.pc \in {"off", "cancel"}
      /\ user'.pc = "cancel" => user'.id = o /\ user'.op = op /\ user'.n = msg[o].n
      /\ \/ user'.pc = "cancel" /\ lock' = Append(lock, "user")
         \/ user'.pc = "off" /\ lock' = lock
      /\ told' \in [Ids -> {"none", "withdrawn", "accepted", "sent"}]
      /\ \A x \in Ids : told'[x] = "withdrawn" => told[x] = "withdrawn"
  BY <1>1, <1>3, <1>4 DEF Requested, MessagesTypeOK
<1>6. Steady
  BY <1>1 DEF Changes, Steady
<1>lock. Locked'
  <2>1. \A q \in Procs \ {"user"} : Wants(q)' <=> Wants(q)
    BY <1>2 DEF Wants
  <2>2. Wants("user")' <=> user'.pc = "cancel"
    BY <1>2, <1>3, <1>5 DEF Wants
  <2> QED
    BY <1>2, <1>3, <1>5, <2>1, <2>2, LockedKept, Nobody
<1>types. MessagesTypeOK'
  BY <1>1, <1>2, <1>3, <1>5, <1>6, <1>lock DEF MessagesTypeOK, Locked, LockStates, Steady
<1>paired. Paired'
  BY <1>1, <1>2, <1>3, <1>5, <1>6, Named DEF Paired, Asking, Steady
<1>commanded. Commanded'
  <2>1. \A i \in 1..Len(commands) : commands[i].kind = "query" /\ commands[i].by \in Procs
    BY <1>1, <1>3, Ordered DEF Commanded
  <2>2. \A p \in Procs : deliver[p].pc = "query" => Uuid(deliver[p].id)' = Uuid(deliver[p].id)
    BY <1>2, <1>6, DeliveryStands DEF Uuid, Steady
  <2> QED
    BY <1>2, <1>3, <2>1, <2>2 DEF Commanded
<1>closed. Closed'
  BY <1>2, <1>3, <1>5, <1>6 DEF Closed, Steady
<1>rest. Flows' /\ (\A x \in Ids : Placed(x)') /\ Keyed'
  <2>1. \A p \in Procs, x \in Ids : Delivers(p, x)' <=> Delivers(p, x)
    BY <1>2 DEF Delivers
  <2> QED
    BY <1>2, <1>6, <2>1, StayPut
<1>wished. Wished'
  <2>1. \A x \in Ids : told'[x] = "withdrawn" \/ msg'[x].withdrawn => Out(x)'
    BY <1>2, <1>3, <1>5, <1>6 DEF Wished, Out, Uuid, Steady
  <2>2. CASE user'.pc = "cancel"
    <3>1. msg'[o].n = user'.n /\ msg'[o].intent = op
      BY <1>1, <1>5, <2>2 DEF Changes
    <3>2. Delivers("inbox", o)' => Holds("inbox")'
      <4> SUFFICES ASSUME Delivers("inbox", o)' PROVE Holds("inbox")'
        OBVIOUS
      <4>1. Holds("inbox") /\ deliver["inbox"].pc # "off"
        BY <1>2, <1>3, InboxHolds DEF Delivers
      <4>2. lock \in LockStates /\ ~InLock(lock, "user")
        BY <1>3, Nobody DEF Locked
      <4>3. Append(lock, "user") # <<>> /\ Head(Append(lock, "user")) = Head(lock)
        BY <4>1, <4>2, LockIsQueue, Nobody DEF Holds
      <4>4. lock' = Append(lock, "user")
        BY <1>5, <2>2
      <4> QED
        BY <4>1, <4>3, <4>4 DEF Holds
    <3> QED
      BY <1>5, <2>1, <2>2, <3>1, <3>2 DEF Wished
  <2>3. CASE user'.pc = "off"
    BY <2>1, <2>3 DEF Wished, Asking
  <2> QED
    BY <1>5, <2>2, <2>3
<1>paged. Paged'
  BY <1>2, <1>3, <1>5, <1>6 DEF Paged, Tray, Steady
<1> QED
  BY <1>lock, <1>types, <1>paired, <1>commanded, <1>closed, <1>rest, <1>wished, <1>paged DEF MessagesInv

LEMMA CancelFailedKeeps ==
  ASSUME MessagesInv, CancelFailed
  PROVE  MessagesInv'
<1>1. /\ user.pc = "answered" /\ user.id \in Ids /\ user' \in UserState /\ user'.pc = "off"
      /\ Changes(user.id, msg[user.id].place, msg[user.id].state, msg[user.id].n, "none",
                 msg[user.id].withdrawn)
  BY CancelFailedMoves DEF Requested
<1>2. UNCHANGED <<keys, known, hurried, log, shown, session, cli, commands, lock, deliver, inbox, entered, told, bounds>>
  BY DEF CancelFailed
<1>3. /\ MessagesTypeOK /\ Locked /\ Paired /\ Commanded /\ Closed /\ Wished /\ Paged
      /\ deliver["user"].pc = "off"
  BY <1>1 DEF MessagesInv, Paired
<1>6. Steady
  BY <1>1 DEF Changes, Steady
<1>lock. Locked'
  <2>1. \A q \in Procs : Wants(q)' <=> Wants(q)
    BY <1>1, <1>2 DEF Wants
  <2> QED
    BY <1>2, <1>3, <2>1 DEF Locked, Holds
<1>types. MessagesTypeOK'
  BY <1>1, <1>2, <1>3, <1>6 DEF MessagesTypeOK, Steady, bounds
<1>paired. Paired'
  BY <1>1, <1>2, <1>3, <1>6 DEF Paired, Asking, Steady
<1>commanded. Commanded'
  <2>1. \A i \in 1..Len(commands) : commands[i].kind = "query" /\ commands[i].by \in Procs
    BY <1>1, <1>3, Ordered DEF Commanded
  <2>2. \A p \in Procs : deliver[p].pc = "query" => Uuid(deliver[p].id)' = Uuid(deliver[p].id)
    BY <1>2, <1>6, DeliveryStands DEF Uuid, Steady
  <2> QED
    BY <1>2, <1>3, <2>1, <2>2 DEF Commanded
<1>closed. Closed'
  BY <1>1, <1>2, <1>3, <1>6 DEF Closed, Steady
<1>rest. Flows' /\ (\A x \in Ids : Placed(x)') /\ Keyed'
  <2>1. \A p \in Procs, x \in Ids : Delivers(p, x)' <=> Delivers(p, x)
    BY <1>2 DEF Delivers
  <2> QED
    BY <1>2, <1>6, <2>1, StayPut
<1>wished. Wished'
  BY <1>1, <1>2, <1>3, <1>6 DEF Wished, Out, Uuid, Steady, Asking
<1>paged. Paged'
  BY <1>1, <1>2, <1>3, <1>6 DEF Paged, Tray, Steady, bounds
<1> QED
  BY <1>lock, <1>types, <1>paired, <1>commanded, <1>closed, <1>rest, <1>wished, <1>paged DEF MessagesInv

LEMMA LeavingTray ==
  ASSUME MessagesInv, NEW o \in Ids, NEW w, Leaves(o, w), Uuid(o) \notin cli.held, Uuid(o) \notin entered,
         UNCHANGED <<log, cli, entered, session>>, NEW v \in {Uuid(o), <<None, 0>>}, OnlyFrame(v), LogsOn,
         inbox'.pc = "log" => inbox.pc = "log",
         \A p \in Procs, x \in Ids \ {o} : Delivers(p, x)' <=> Delivers(p, x),
         \A p \in Procs : Delivers(p, o)' => Delivers(p, o),
         ~Delivers("inbox", o)', Delivers("user", o)' => session.exited,
         \A x \in Ids \ {o} : told'[x] = "withdrawn" => told[x] = "withdrawn"
  PROVE  /\ Flows' /\ (\A x \in Ids : Placed(x)') /\ Keyed'
         /\ \A x \in Ids : told'[x] = "withdrawn" \/ msg'[x].withdrawn => Out(x)'
<1>1. /\ MessagesTypeOK /\ Flows /\ Keyed /\ Wished /\ (\A x \in Ids : Placed(x))
      /\ \A u \in entered \cup cli.held : u \in Uuids /\ u[1] \in Ids /\ u = Uuid(u[1])
      /\ \A x \in Ids : msg[x].n \in Nat /\ Uuid(x) \in Uuids /\ Uuid(x)[1] = x
      /\ <<None, 0>> \notin Uuids
  <2>1. MessagesTypeOK /\ Flows /\ Keyed /\ Wished /\ (\A x \in Ids : Placed(x))
    BY DEF MessagesInv
  <2>2. \A u \in entered \cup cli.held : u \in Uuids /\ u[2] = msg[u[1]].n
    BY <2>1 DEF Flows, MessagesTypeOK, CliState
  <2> QED
    BY <2>1, <2>2, Named
<1>2. /\ msg' \in [Ids -> MessageState] /\ \A x \in Ids \ {o} : msg'[x] = msg[x]
      /\ msg'[o].key = msg[o].key /\ msg'[o].place = "left" /\ msg'[o].state = msg[o].state
      /\ msg'[o].n = msg[o].n /\ \A k \in Keys : keys'[k] = IF keys[k] = o THEN None ELSE keys[k]
  BY DEF Leaves, Changes
<1>3. /\ v \notin entered /\ \A u \in cli.held \cup entered : u[1] # o
      /\ \A x \in Ids : msg'[x].n = msg[x].n /\ msg'[x].key = msg[x].key
  BY <1>1, <1>2
<1>4. Flows'
  <2>1. \A u \in cli.held : Queued(u[1])'
    BY <1>1, <1>2, <1>3 DEF Flows, Queued
  <2>2. \A x \in Ids : /\ msg[x].place # "unused" => msg'[x].place # "unused"
                       /\ msg'[x].n \in Nat /\ msg'[x].n = msg[x].n
                       /\ msg'[x].place = "tray" => msg[x].place = "tray"
    BY <1>1, <1>2
  <2> QED
    BY <1>1, <1>3, <2>1, <2>2, FlowsKept
<1>5. \A x \in Ids : Placed(x)'
  <2> TAKE x \in Ids
  <2>1. CASE x # o
    <3>1. Uuid(x)' = Uuid(x) /\ Uuid(x) # v
      BY <1>1, <1>2, <2>1 DEF Uuid
    <3>2. Framed(Uuid(x))' <=> Framed(Uuid(x))
      BY <1>1, <3>1 DEF OnlyFrame, Framed
    <3>3. Logging(x)' <=> Logging(x)
      BY DEF Logging, LogsOn
    <3> QED
      BY <1>1, <1>2, <2>1, <3>2, <3>3, PlacedKept
  <2>2. CASE x = o
    <3>1. Uuid(x)' = Uuid(x)
      BY <1>2, <2>2 DEF Uuid
    <3>2. Framed(Uuid(x))' => Framed(Uuid(x))
      BY <1>1, <3>1 DEF OnlyFrame, Framed
    <3>3. \A p \in Procs : Delivers(p, x)' => Away(Uuid(x))'
      BY <1>1, <2>2, <3>1, <3>2 DEF Placed, Away
    <3>4. ~Queued(x)' /\ msg'[x].place = "left"
      BY <1>2, <2>2 DEF Queued
    <3> QED
      BY <2>2, <3>3, <3>4 DEF Placed
  <2> QED
    BY <2>1, <2>2
<1>6. Keyed'
  <2>1. \A x \in Ids : msg'[x].place = "tray" => msg[x].place = "tray" /\ keys'[msg[x].key] = keys[msg[x].key]
    <3> SUFFICES ASSUME NEW x \in Ids, msg'[x].place = "tray"
                 PROVE  msg[x].place = "tray" /\ keys'[msg[x].key] = keys[msg[x].key]
      OBVIOUS
    <3>1. x # o /\ msg[x].place = "tray"
      BY <1>2
    <3>2. keys[msg[x].key] = x /\ msg[x].key \in Keys
      BY <1>1, <3>1 DEF Keyed, MessagesTypeOK, MessageState
    <3> QED
      BY <1>2, <3>1, <3>2
  <2>2. \A x \in Ids : msg[x].place = "left" => msg'[x].place = "left"
    BY <1>2
  <2>3. \A u \in entered : msg[u[1]].place = "tray" => msg'[u[1]].place = "tray"
    BY <1>1, <1>2, <1>3
  <2> QED
    BY <1>1, <1>3, <2>1, <2>2, <2>3, KeyedKept
<1>7. \A x \in Ids : told'[x] = "withdrawn" \/ msg'[x].withdrawn => Out(x)'
  <2> TAKE x \in Ids
  <2>1. CASE x # o
    BY <1>1, <1>2, <2>1 DEF Wished, Out, Uuid
  <2>2. CASE x = o
    BY <1>2, <2>2 DEF Out, Uuid
  <2> QED
    BY <2>1, <2>2
<1> QED
  BY <1>4, <1>5, <1>6, <1>7

LEMMA WithdrawUnsentKeeps ==
  ASSUME MessagesInv, NEW op \in Requests, NEW o \in Ids, WithdrawUnsent(op, o)
  PROVE  MessagesInv'
<1>1. /\ user.pc = "off" /\ requests' \in 0..MaxRequests /\ session.live
      /\ msg[o].place = "tray" /\ msg[o].state = "unsent" /\ Withdraw(o)
      /\ told' = [told EXCEPT ![o] = "withdrawn"]
  BY AskedMoves DEF WithdrawUnsent, Tray
<1>2. UNCHANGED <<known, hurried, log, session, cli, commands, lock, deliver, user, inbox, entered,
                  exits, refusals, failures>>
  BY DEF WithdrawUnsent
<1>3. /\ MessagesTypeOK /\ Locked /\ Paired /\ Commanded /\ Closed /\ Wished /\ Paged /\ Flows
      /\ deliver["user"].pc = "off" /\ Placed(o)
  BY <1>1 DEF MessagesInv, Paired
<1>4. Leaves(o, TRUE)
  BY <1>1, <1>3, WithdrawMoves
<1>5. /\ msg' \in [Ids -> MessageState] /\ \A x \in Ids \ {o} : msg'[x] = msg[x]
      /\ msg'[o].place = "left" /\ msg'[o].n = msg[o].n
      /\ keys' \in [Keys -> {None} \cup Ids] /\ shown' = shown \ {o}
      /\ told' \in [Ids -> {"none", "withdrawn", "accepted", "sent"}]
      /\ \A x \in Ids \ {o} : told'[x] = told[x]
  BY <1>1, <1>3, <1>4 DEF Leaves, Changes, MessagesTypeOK
<1>6. Away(Uuid(o)) /\ ~Delivers("inbox", o)
  BY <1>1, <1>3, Nobody DEF Placed, Queued
<1>types. MessagesTypeOK'
  BY <1>1, <1>2, <1>3, <1>5 DEF MessagesTypeOK
<1>lock. Locked'
  BY <1>2, <1>3 DEF Locked, Wants, Holds
<1>paired. Paired'
  BY <1>1, <1>2, <1>3, <1>5 DEF Paired, Asking
<1>commanded. Commanded'
  <2>1. \A x \in Ids : Uuid(x)' = Uuid(x)
    BY <1>5 DEF Uuid
  <2>2. \A i \in 1..Len(commands) : commands[i].kind = "query" /\ commands[i].by \in Procs
    BY <1>1, <1>3, Ordered DEF Commanded
  <2> QED
    BY <1>2, <1>3, <2>1, <2>2, DeliveryStands DEF Commanded
<1>closed. Closed'
  BY <1>1, <1>2, <1>3 DEF Closed
<1>rest. /\ Flows' /\ (\A x \in Ids : Placed(x)') /\ Keyed'
         /\ \A x \in Ids : told'[x] = "withdrawn" \/ msg'[x].withdrawn => Out(x)'
  <2>1. \A p \in Procs, x \in Ids : Delivers(p, x)' <=> Delivers(p, x)
    BY <1>2 DEF Delivers
  <2>2. OnlyFrame(<<None, 0>>)
    BY <1>2, FramesStay
  <2>3. LogsOn
    <3>1. inbox.pc = "log" => inbox.id # o
      BY <1>6 DEF MessagesInv, Flows, Away
    <3> QED
      BY <1>2, <1>3, <1>5, <3>1 DEF LogsOn, Flows
  <2>4. ~Delivers("user", o)
    BY <1>3 DEF Delivers
  <2> QED
    BY <1>2, <1>4, <1>5, <1>6, <2>1, <2>2, <2>3, <2>4, LeavingTray, Nobody DEF Away
<1>wished. Wished'
  BY <1>1, <1>2, <1>rest DEF Wished, Asking
<1>paged. Paged'
  <2>1. Tray' = Tray \ {o}
    BY <1>5 DEF Tray
  <2> QED
    BY <1>1, <1>2, <1>3, <1>5, <2>1 DEF Paged
<1> QED
  BY <1>lock, <1>types, <1>paired, <1>commanded, <1>closed, <1>rest, <1>wished, <1>paged DEF MessagesInv

LEMMA WithdrawnKeeps ==
  ASSUME MessagesInv, Withdrawn
  PROVE  MessagesInv'
<1> DEFINE o == user.id
<1>1. /\ user.pc = "answered" /\ user.op \in {"edit", "delete"} /\ user.reply # "error" /\ user' = NoUser
      /\ IF user.reply = "cancelled" THEN Withdraw(o) ELSE UNCHANGED <<msg, keys, shown>>
      /\ told' = [told EXCEPT ![o] = IF user.reply = "cancelled" \/ msg[o].withdrawn THEN "withdrawn" ELSE "accepted"]
  BY DEF Withdrawn, Answer
<1>2. UNCHANGED <<known, hurried, log, session, cli, commands, lock, deliver, inbox, entered, bounds>>
  BY DEF Withdrawn
<1>3. /\ MessagesTypeOK /\ Locked /\ Paired /\ Commanded /\ Closed /\ Wished /\ Paged /\ Flows
      /\ deliver["user"].pc = "off" /\ o \in Ids /\ msg[o].place # "unused" /\ Placed(o) /\ Asking
      /\ ~session.exited /\ session.live
  BY <1>1 DEF MessagesInv, Paired, Asking, Closed
<1>4. user' \in UserState /\ user'.pc = "off"
  BY <1>1, Nobody
<1>5. /\ user.reply = "cancelled" => Uuid(o) \notin cli.held /\ Uuid(o) \notin entered
      /\ ~Delivers("inbox", o) /\ ~Delivers("user", o)
  <2>1. msg[o].n = user.n
    BY <1>1, <1>3 DEF Wished
  <2> QED
    BY <1>1, <1>3, <2>1 DEF Wished, Delivers
<1> HIDE DEF o
<1>6. \/ user.reply = "cancelled" /\ msg[o].place = "tray" /\ Leaves(o, TRUE)
      \/ UNCHANGED <<msg, keys, shown>> /\ (user.reply = "cancelled" => msg[o].place # "tray")
  BY <1>1, <1>3, WithdrawMoves
<1>7. /\ told' \in [Ids -> {"none", "withdrawn", "accepted", "sent"}]
      /\ \A x \in Ids \ {o} : told'[x] = told[x]
      /\ told'[o] = "withdrawn" => user.reply = "cancelled" \/ msg[o].withdrawn
  BY <1>1, <1>3 DEF MessagesTypeOK
<1>8. /\ msg' \in [Ids -> MessageState] /\ \A x \in Ids \ {o} : msg'[x] = msg[x]
      /\ msg'[o].n = msg[o].n /\ msg'[o].place # "unused" /\ (msg'[o].place = "tray" => msg[o].place = "tray")
      /\ keys' \in [Keys -> {None} \cup Ids] /\ shown' \subseteq Ids
      /\ exits = 0 => shown' = Tray'
  <2>1. CASE Leaves(o, TRUE)
    <3>1. /\ msg' \in [Ids -> MessageState] /\ \A x \in Ids \ {o} : msg'[x] = msg[x]
          /\ msg'[o].n = msg[o].n /\ msg'[o].place = "left"
          /\ keys' \in [Keys -> {None} \cup Ids] /\ shown' = shown \ {o}
      BY <2>1 DEF Leaves, Changes
    <3>2. Tray' = Tray \ {o}
      BY <3>1 DEF Tray
    <3> QED
      BY <1>3, <3>1, <3>2 DEF MessagesTypeOK, Paged
  <2>2. CASE UNCHANGED <<msg, keys, shown>>
    BY <1>3, <2>2 DEF MessagesTypeOK, Paged, Tray
  <2> QED
    BY <1>6, <2>1, <2>2
<1>types. MessagesTypeOK'
  BY <1>2, <1>3, <1>4, <1>7, <1>8 DEF MessagesTypeOK, bounds
<1>lock. Locked'
  <2>1. \A q \in Procs : Wants(q)' <=> Wants(q)
    BY <1>1, <1>2, <1>4 DEF Wants
  <2> QED
    BY <1>2, <1>3, <2>1 DEF Locked, Holds
<1>paired. Paired'
  BY <1>1, <1>2, <1>3, <1>4 DEF Paired, Asking
<1>commanded. Commanded'
  <2>1. \A x \in Ids : Uuid(x)' = Uuid(x)
    BY <1>8 DEF Uuid
  <2>2. \A i \in 1..Len(commands) : commands[i].kind = "query" /\ commands[i].by \in Procs
    BY <1>1, <1>3, Ordered DEF Commanded
  <2> QED
    BY <1>2, <1>3, <2>1, <2>2, DeliveryStands DEF Commanded
<1>closed. Closed'
  BY <1>1, <1>2, <1>3, <1>4 DEF Closed
<1>rest. /\ Flows' /\ (\A x \in Ids : Placed(x)') /\ Keyed'
         /\ \A x \in Ids : told'[x] = "withdrawn" \/ msg'[x].withdrawn => Out(x)'
  <2>1. \A p \in Procs, x \in Ids : Delivers(p, x)' <=> Delivers(p, x)
    BY <1>2 DEF Delivers
  <2>2. CASE user.reply = "cancelled" /\ msg[o].place = "tray" /\ Leaves(o, TRUE)
    <3>1. OnlyFrame(<<None, 0>>)
      BY <1>2, FramesStay
    <3>2. LogsOn
      <4>1. inbox.pc = "log" => inbox.id # o
        BY <1>5, <2>2 DEF MessagesInv, Flows
      <4> QED
        BY <1>2, <1>3, <1>8, <4>1 DEF LogsOn, Flows
    <3> QED
      BY <1>2, <1>3, <1>5, <1>7, <2>1, <2>2, <3>1, <3>2, LeavingTray, Nobody
  <2>3. CASE UNCHANGED <<msg, keys, shown>> /\ (user.reply = "cancelled" => msg[o].place # "tray")
    <3>1. Steady
      BY <1>3, <2>3 DEF Steady, MessagesTypeOK
    <3>2. told'[o] = "withdrawn" => Out(o)
      <4>1. msg[o].place \in {"unused", "tray", "left"}
        BY <1>3, Named DEF MessageState
      <4> QED
        BY <1>3, <1>5, <1>7, <2>3, <4>1 DEF Wished, Out
    <3>3. \A x \in Ids : Out(x)' <=> Out(x)
      BY <1>2, <2>3 DEF Out, Uuid
    <3>4. \A x \in Ids : told'[x] = "withdrawn" \/ msg'[x].withdrawn => Out(x)'
      BY <1>3, <1>7, <2>3, <3>2, <3>3 DEF Wished
    <3> QED
      BY <1>2, <2>1, <2>3, <3>1, <3>4, StayPut
  <2> QED
    BY <1>6, <2>2, <2>3
<1>wished. Wished'
  BY <1>4, <1>rest DEF Wished, Asking
<1>paged. Paged'
  BY <1>2, <1>3, <1>4, <1>8 DEF Paged, bounds
<1> QED
  BY <1>lock, <1>types, <1>paired, <1>commanded, <1>closed, <1>rest, <1>wished, <1>paged DEF MessagesInv

(* What a delivery that is over leaves to be true. *)
LEMMA FinishedPairs ==
  ASSUME MessagesInv, NEW p \in Procs, deliver[p].pc # "off", Holds(p), Finished(p),
         \A x \in Ids : msg'[x].n = msg[x].n /\ (msg[x].place # "unused" => msg'[x].place # "unused")
  PROVE  Locked' /\ Paired'
<1>1. MessagesTypeOK /\ Locked /\ Paired
  BY DEF MessagesInv
<1>2. /\ deliver' \in [Procs -> Delivery] /\ lock' = Tail(lock) /\ deliver'[p].pc = "off"
      /\ \A q \in Procs \ {p} : deliver'[q] = deliver[q]
      /\ p = "user" => user'.pc = "off" /\ inbox' = inbox
      /\ p = "inbox" => user' = user /\ inbox'.pc = "get"
  BY DEF Finished, Goes, Requested
<1>3. Locked'
  <2>1. ~Wants(p)'
    BY <1>2 DEF Wants
  <2>2. \A q \in Procs \ {p} : Wants(q)' <=> Wants(q)
    BY <1>1, <1>2, Nobody DEF Wants
  <2> QED
    BY <1>1, <1>2, <2>1, <2>2, LockedKept
<1>4. Paired'
  <2>1. CASE p = "user"
    BY <1>1, <1>2, <2>1, Nobody DEF Paired, Asking
  <2>2. CASE p = "inbox"
    BY <1>1, <1>2, <2>2, Nobody DEF Paired, Asking
  <2> QED
    BY <2>1, <2>2, Nobody
<1> QED
  BY <1>3, <1>4

LEMMA FinishedCommands ==
  ASSUME MessagesInv, NEW p \in Procs, deliver[p].pc \notin {"off", "query"}, Finished(p),
         UNCHANGED <<commands, session, cli>>,
         \A x \in Ids : /\ msg'[x].n = msg[x].n
                        /\ msg'[x].place = "tray" =>
                             /\ msg[x].place = "tray"
                             /\ session.live \/ deliver[p].how # "send" \/ x # deliver[p].id
  PROVE  Commanded' /\ Closed'
<1>1. MessagesTypeOK /\ Commanded /\ Closed /\ Paired
  BY DEF MessagesInv
<1>2. /\ deliver'[p].pc = "off" /\ \A q \in Procs \ {p} : deliver'[q] = deliver[q]
      /\ p = "user" => user'.pc = "off" /\ inbox' = inbox
      /\ p = "inbox" => user' = user /\ inbox'.pc = "get" /\ inbox'.queue = inbox.queue
  BY DEF Finished, Goes, Requested
<1>3. /\ p = "user" => user.pc = "deliver"
      /\ p = "inbox" => inbox.pc = "deliver"
      /\ user.pc = "asked" => user.id \in Ids
  BY <1>1 DEF Paired, Asking
<1>4. Commanded'
  <2>1. \A x \in Ids : Uuid(x)' = Uuid(x)
    BY DEF Uuid
  <2>2. \A i \in 1..Len(commands) :
         /\ commands[i].kind = "query" =>
              LET q == commands[i].by IN deliver'[q].pc = "query" /\ commands[i].uuid = Uuid(deliver[q].id)' 
         /\ commands[i].kind = "cancel" =>
              user'.pc = "asked" /\ commands[i].uuid[1] = user'.id /\ commands[i].uuid[2] <= msg'[user'.id].n
    <3> TAKE i \in 1..Len(commands)
    <3>1. commands[i].kind = "query" =>
            LET q == commands[i].by IN deliver'[q].pc = "query" /\ commands[i].uuid = Uuid(deliver[q].id)'
      <4> SUFFICES ASSUME commands[i].kind = "query"
                   PROVE  LET q == commands[i].by IN deliver'[q].pc = "query" /\ commands[i].uuid = Uuid(deliver[q].id)'
        OBVIOUS
      <4>1. PICK q \in Procs : q = commands[i].by
        BY <1>1, Ordered
      <4>2. deliver[q].pc = "query" /\ commands[i].uuid = Uuid(deliver[q].id) /\ q # p
        BY <1>1, <4>1 DEF Commanded
      <4>3. deliver'[q] = deliver[q] /\ deliver[q].id \in Ids
        BY <1>2, <4>2, DeliveryStands
      <4>4. Uuid(deliver[q].id)' = Uuid(deliver[q].id)
        BY <4>3 DEF Uuid
      <4> QED
        BY <4>1, <4>2, <4>3, <4>4
    <3>2. commands[i].kind = "cancel" =>
              user'.pc = "asked" /\ commands[i].uuid[1] = user'.id /\ commands[i].uuid[2] <= msg'[user'.id].n
      BY <1>1, <1>2, <1>3, Nobody DEF Commanded
    <3> QED
      BY <3>1, <3>2
  <2> QED
    BY <1>1, <2>2 DEF Commanded
<1>5. Closed'
  <2>1. CASE p = "inbox"
    BY <1>1, <1>2, <1>3, <2>1, Nobody DEF Closed
  <2>2. CASE p = "user"
    <3>1. ~session.live => \A x \in Ids : msg'[x].place # "tray"
      BY <1>1, <2>2 DEF Closed
    <3> QED
      BY <1>1, <1>2, <1>3, <2>2, <3>1, Nobody DEF Closed
  <2> QED
    BY <2>1, <2>2, Nobody
<1> QED
  BY <1>4, <1>5

LEMMA FinishedWishes ==
  ASSUME MessagesInv, NEW p \in Procs, deliver[p].pc # "off", Finished(p), entered' = entered,
         \A u \in cli'.held : u \in cli.held \/ u = Uuid(deliver[p].id),
         \A x \in Ids : /\ msg'[x].n = msg[x].n /\ (Queued(x)' => Queued(x) /\ msg'[x].intent = msg[x].intent)
                        /\ x # deliver[p].id => msg'[x].state = msg[x].state,
         \A x \in Ids : told'[x] = "withdrawn" \/ msg'[x].withdrawn => Out(x)'
  PROVE  Wished'
<1>1. /\ MessagesTypeOK /\ Wished /\ Paired
      /\ Asking => user.id \in Ids
  BY DEF MessagesInv, Paired
<1>2. /\ p = "user" => user'.pc = "off"
      /\ p = "inbox" => user' = user /\ deliver'[p].pc = "off" /\ Delivers(p, deliver[p].id) /\ deliver[p].id \in Ids
  BY DeliveryStands DEF Finished, Goes, Requested
<1>3. CASE p = "user"
  BY <1>2, <1>3 DEF Wished, Asking
<1>4. CASE p = "inbox"
  <2>1. \A x : ~Delivers("inbox", x)'
    BY <1>2, <1>4 DEF Delivers
  <2>2. Asking' <=> Asking
    BY <1>2, <1>4 DEF Asking
  <2>3. Asking /\ user.op \in {"edit", "delete"} =>
          msg'[user.id].n = user.n /\ (Queued(user.id)' => msg'[user.id].intent = user.op)
    BY <1>1, <1>2, <1>4 DEF Wished
  <2>4. user.pc = "answered" /\ user.reply = "cancelled" /\ msg'[user.id].n = user.n =>
           Uuid(user.id)' \notin cli'.held /\ Uuid(user.id)' \notin entered' /\ msg'[user.id].state = "queued"
    <3> SUFFICES ASSUME user.pc = "answered" /\ user.reply = "cancelled" /\ msg'[user.id].n = user.n
                 PROVE  Uuid(user.id)' \notin cli'.held /\ Uuid(user.id)' \notin entered' /\ msg'[user.id].state = "queued"
      OBVIOUS
    <3>1. user.id \in Ids /\ Asking /\ msg[user.id].n = user.n
      BY <1>1 DEF Asking
    <3>2. deliver[p].id # user.id
      BY <1>1, <1>2, <1>4, <3>1 DEF Wished
    <3>3. Uuid(user.id)' = Uuid(user.id) /\ Uuid(user.id) # Uuid(deliver[p].id)
      BY <1>2, <1>4, <3>1, <3>2 DEF Uuid
    <3> QED
      BY <1>1, <3>1, <3>3 DEF Wished
  <2> QED
    BY <1>2, <1>4, <2>1, <2>2, <2>3, <2>4 DEF Wished
<1> QED
  BY <1>3, <1>4, Nobody

LEMMA DeliveryOver ==
  ASSUME MessagesInv, NEW p \in Procs, deliver[p].pc # "off", Finished(p), NEW o \in Ids, deliver[p].id = o,
         UNCHANGED <<keys, log, cli, entered, session>>, msg' \in [Ids -> MessageState],
         \A x \in Ids : /\ msg'[x].key = msg[x].key /\ msg'[x].place = msg[x].place
                        /\ msg'[x].n = msg[x].n /\ msg'[x].withdrawn = msg[x].withdrawn
                        /\ x # o => msg'[x].state = msg[x].state,
         \/ msg'[o].state = msg[o].state /\ (~Delivers(p, o) \/ msg[o].place # "tray")
         \/ msg'[o].state = "unsent" /\ Away(Uuid(o)) /\ Delivers(p, o)
  PROVE  /\ Flows' /\ (\A x \in Ids : Placed(x)') /\ Keyed'
         /\ \A x \in Ids : told'[x] = "withdrawn" \/ msg'[x].withdrawn => Out(x)'
<1>1. /\ MessagesTypeOK /\ Flows /\ Keyed /\ Wished /\ (\A x \in Ids : Placed(x))
      /\ \A u \in cli.held \cup entered : u \in Uuids /\ u[1] \in Ids /\ u = Uuid(u[1])
  <2>1. MessagesTypeOK /\ Flows /\ Keyed /\ Wished /\ (\A x \in Ids : Placed(x))
    BY DEF MessagesInv
  <2>2. \A u \in cli.held \cup entered : u \in Uuids /\ u[2] = msg[u[1]].n
    BY <2>1 DEF Flows, MessagesTypeOK, CliState
  <2> QED
    BY <2>1, <2>2, Named
<1>2. /\ deliver'[p].pc = "off" /\ \A q \in Procs \ {p} : deliver'[q] = deliver[q]
      /\ inbox'.queue = inbox.queue
      /\ p = "user" => inbox' = inbox
      /\ p = "inbox" => inbox.pc = "deliver" /\ inbox'.pc = "get"
      /\ \A x \in Ids : told'[x] = "withdrawn" => told[x] = "withdrawn"
  BY DeliveryStands DEF Finished, Goes
<1>3. OnlyFrame(<<None, 0>>) /\ <<None, 0>> \notin entered /\ \A u : Framed(u)' <=> Framed(u)
  BY <1>1, <1>2, FramesStay, Named DEF MessagesTypeOK
<1>4. LogsOn /\ \A x : Logging(x)' <=> Logging(x)
  <2>1. CASE p = "user"
    BY <1>1, <1>2, <2>1 DEF LogsOn, Logging, Flows
  <2>2. CASE p = "inbox"
    BY <1>2, <2>2 DEF LogsOn, Logging
  <2> QED
    BY <2>1, <2>2, Nobody
<1>5. Flows'
  <2>1. \A u \in cli.held : Queued(u[1])'
    BY <1>1 DEF Flows, Queued, Away
  <2>2. \A x \in Ids : msg'[x].n \in Nat
    BY <1>1, Named
  <2> QED
    BY <1>1, <1>3, <1>4, <2>1, <2>2, FlowsKept
<1>6. \A x \in Ids : Placed(x)'
  <2> TAKE x \in Ids
  <2>1. Uuid(x)' = Uuid(x) /\ (Framed(Uuid(x))' <=> Framed(Uuid(x)))
    <3>1. Uuid(x)' = Uuid(x)
      BY DEF Uuid
    <3> QED
      BY <1>3, <3>1 DEF Framed
  <2>2. CASE x # o
    <3>1. \A q \in Procs : Delivers(q, x)' <=> Delivers(q, x)
      BY <1>2, <2>2 DEF Delivers
    <3> QED
      BY <1>1, <1>4, <2>1, <2>2, <3>1, PlacedKept
  <2>3. CASE x = o
    <3>1. /\ \A q \in Procs : Delivers(q, x)' => Delivers(q, x) /\ q # p
          /\ \A q \in Procs \ {p} : Delivers(q, x) => Delivers(q, x)'
      BY <1>2 DEF Delivers
    <3>2. Away(Uuid(x))' <=> Away(Uuid(x))
      BY <2>1 DEF Away
    <3>3. CASE msg'[o].state = msg[o].state /\ (~Delivers(p, o) \/ msg[o].place # "tray")
      <4>1. Queued(x)' <=> Queued(x)
        BY <2>3, <3>3 DEF Queued
      <4>2. Queued(x) => \A q \in Procs : Delivers(q, x)' <=> Delivers(q, x)
        BY <2>3, <3>1, <3>3 DEF Queued
      <4>3. \A q \in Procs : Delivers(q, x)' => Delivers(q, x)
        BY <3>1
      <4>4. Placed(x)
        BY <1>1
      <4>5. \A q \in Procs : Delivers(q, x)' => Away(Uuid(x))'
        BY <3>2, <4>3, <4>4 DEF Placed
      <4>6. /\ msg'[x].place = "tray" /\ msg'[x].state = "unsent" => Away(Uuid(x))'
            /\ Delivers("inbox", x)' => Queued(x)'
            /\ Delivers("user", x)' /\ ~session'.exited => Queued(x)'
            /\ ~(Delivers("user", x)' /\ Delivers("inbox", x)')
            /\ msg'[x].place = "unused" => msg'[x].state = "queued"
        BY <2>3, <3>2, <3>3, <4>1, <4>3, <4>4, Nobody DEF Placed
      <4>7. ~session'.exited /\ Queued(x)' =>
              Uuid(x)' \in cli'.held \/ Framed(Uuid(x))' \/ (\E q \in Procs : Delivers(q, x)') \/ Logging(x)'
        BY <1>4, <2>1, <4>1, <4>2, <4>4 DEF Placed
      <4> QED
        BY <4>5, <4>6, <4>7 DEF Placed
    <3>4. CASE msg'[o].state = "unsent" /\ Away(Uuid(o)) /\ Delivers(p, o)
      <4>1. ~Queued(x)' /\ Away(Uuid(x))' /\ msg'[x].place # "unused"
        BY <2>3, <3>2, <3>4, DeliveryStands DEF Queued
      <4>2. \A q \in Procs : ~Delivers(q, x)'
        BY <1>1, <2>3, <3>1, <3>4, Nobody DEF Placed
      <4> QED
        BY <4>1, <4>2, Nobody DEF Placed
    <3> QED
      BY <3>3, <3>4
  <2> QED
    BY <2>2, <2>3
<1>7. Keyed'
  BY <1>1, KeyedKept
<1>8. \A x \in Ids : told'[x] = "withdrawn" \/ msg'[x].withdrawn => Out(x)'
  BY <1>1, <1>2 DEF Wished, Out, Uuid
<1> QED
  BY <1>5, <1>6, <1>7, <1>8

(* The deliveries of a message: Delivers, less who is in it. *)
LEMMA FailureKeeps ==
  ASSUME MessagesInv, NEW p \in Procs, deliver[p].pc \in {"write", "failed"}, OnFailure(p),
         UNCHANGED <<known, log, session, cli, commands, entered, requests, exits, refusals>>,
         failures' \in 0..MaxFailedWrites
  PROVE  MessagesInv'
<1>0. deliver[p].pc # "off" /\ deliver[p].id \in Ids
  BY DeliveryStands
<1>o. PICK o \in Ids : o = deliver[p].id
  BY <1>0
<1>1. /\ Finished(p) /\ o \in Ids /\ Holds(p) /\ deliver[p].pc # "off" /\ Delivers(p, o)
  BY <1>0, <1>o, FailureMoves, DeliveryStands DEF MessagesInv, Locked
<1>2. \/ deliver[p].how = "send" /\ msg[o].place = "tray" /\ Leaves(o, msg[o].withdrawn)
      \/ deliver[p].how = "send" /\ msg[o].place # "tray" /\ UNCHANGED <<msg, keys, shown>>
      \/ /\ deliver[p].how # "send" /\ UNCHANGED keys /\ shown' = shown \cup {o}
         /\ Changes(o, msg[o].place, "unsent", msg[o].n, msg[o].intent, msg[o].withdrawn)
  BY <1>o, FailureMoves
<1>3. /\ MessagesTypeOK /\ Locked /\ Paired /\ Wished /\ Paged /\ Closed /\ Flows
      /\ (\A x \in Ids : Placed(x)) /\ Away(Uuid(o))
  BY <1>1 DEF MessagesInv, Placed
<1>4. /\ deliver' \in [Procs -> Delivery] /\ deliver'[p].pc = "off" /\ deliver'[p].id = None
      /\ \A q \in Procs \ {p} : deliver'[q] = deliver[q]
      /\ user' \in UserState /\ inbox' \in InboxWork /\ inbox'.queue = inbox.queue
      /\ told' \in [Ids -> {"none", "withdrawn", "accepted", "sent"}]
      /\ \A x \in Ids : told'[x] = "withdrawn" => told[x] = "withdrawn"
      /\ p = "user" => user'.pc = "off" /\ inbox' = inbox
      /\ p = "inbox" => user' = user /\ inbox'.pc = "get" /\ inbox.pc = "deliver"
      /\ \A u \in hurried' : u \in hurried
  BY <1>1, <1>3, DeliveryStands DEF Finished, Goes, Requested, MessagesTypeOK, OnFailure
<1>5. p = "inbox" => deliver[p].how # "send"
  BY <1>1, DeliveryStands
<1>6. /\ msg' \in [Ids -> MessageState] /\ \A x \in Ids \ {o} : msg'[x] = msg[x]
      /\ msg'[o].n = msg[o].n /\ msg'[o].key = msg[o].key /\ msg'[o].intent = msg[o].intent
      /\ msg'[o].withdrawn = msg[o].withdrawn
      /\ msg'[o].place = "unused" <=> msg[o].place = "unused"
      /\ msg'[o].place = "tray" => msg[o].place = "tray" /\ deliver[p].how # "send"
      /\ Queued(o)' => Queued(o)
      /\ keys' \in [Keys -> {None} \cup Ids] /\ shown' \subseteq Ids
      /\ exits = 0 => shown' = Tray'
  <2>1. CASE deliver[p].how = "send" /\ msg[o].place = "tray" /\ Leaves(o, msg[o].withdrawn)
    <3>1. /\ msg' \in [Ids -> MessageState] /\ \A x \in Ids \ {o} : msg'[x] = msg[x]
          /\ msg'[o].n = msg[o].n /\ msg'[o].place = "left" /\ msg'[o].key = msg[o].key
          /\ msg'[o].intent = msg[o].intent /\ msg'[o].withdrawn = msg[o].withdrawn
          /\ keys' \in [Keys -> {None} \cup Ids] /\ shown' = shown \ {o}
      BY <2>1 DEF Leaves, Changes
    <3>2. Tray' = Tray \ {o}
      BY <3>1 DEF Tray
    <3> QED
      BY <1>3, <2>1, <3>1, <3>2 DEF MessagesTypeOK, Paged, Queued
  <2>2. CASE deliver[p].how = "send" /\ msg[o].place # "tray" /\ UNCHANGED <<msg, keys, shown>>
    BY <1>3, <2>2 DEF MessagesTypeOK, Paged, Tray, Queued
  <2>3. CASE /\ deliver[p].how # "send" /\ UNCHANGED keys /\ shown' = shown \cup {o}
             /\ Changes(o, msg[o].place, "unsent", msg[o].n, msg[o].intent, msg[o].withdrawn)
    <3>1. /\ msg' \in [Ids -> MessageState] /\ \A x \in Ids \ {o} : msg'[x] = msg[x]
          /\ msg'[o].n = msg[o].n /\ msg'[o].place = msg[o].place /\ msg'[o].key = msg[o].key
          /\ msg'[o].state = "unsent"
          /\ msg'[o].intent = msg[o].intent /\ msg'[o].withdrawn = msg[o].withdrawn
      BY <2>3 DEF Changes
    <3>2. Tray' = Tray
      BY <3>1 DEF Tray
    <3>3. exits = 0 => o \in Tray
      BY <1>1, <1>3, Nobody DEF Placed, Queued, Tray, Paged
    <3> QED
      BY <1>1, <1>3, <2>3, <3>1, <3>2, <3>3 DEF MessagesTypeOK, Paged, Queued
  <2> QED
    BY <1>2, <2>1, <2>2, <2>3
<1>types. MessagesTypeOK'
  <2>1. Locked'
    BY <1>1, <1>6, FinishedPairs
  <2> QED
    BY <1>3, <1>4, <1>6, <2>1 DEF MessagesTypeOK, Locked, LockStates
<1>paired. Locked' /\ Paired'
  BY <1>1, <1>6, FinishedPairs
<1>commanded. Commanded' /\ Closed'
  BY <1>1, <1>6, <1>o, FinishedCommands
<1>rest. /\ Flows' /\ (\A x \in Ids : Placed(x)') /\ Keyed'
         /\ \A x \in Ids : told'[x] = "withdrawn" \/ msg'[x].withdrawn => Out(x)'
  <2>1. CASE deliver[p].how = "send" /\ msg[o].place = "tray" /\ Leaves(o, msg[o].withdrawn)
    <3>1. OnlyFrame(<<None, 0>>)
      BY <1>4, FramesStay
    <3>2. p = "user" /\ inbox' = inbox
      BY <1>4, <1>5, <2>1, Nobody
    <3>3. LogsOn
      <4>1. inbox.pc = "log" => inbox.id # o
        BY <1>3 DEF Flows, Away
      <4> QED
        BY <1>3, <1>6, <3>2, <4>1 DEF LogsOn, Flows
    <3>4. \A q \in Procs, x \in Ids \ {o} : Delivers(q, x)' <=> Delivers(q, x)
      BY <1>1, <1>4, <1>o DEF Delivers
    <3>5. ~Delivers("inbox", o)' /\ ~Delivers("user", o)'
      <4>1. ~Delivers("inbox", o)
        BY <1>1, <1>3, <3>2 DEF Placed
      <4> QED
        BY <1>4, <3>2, <4>1, Nobody DEF Delivers
    <3> QED
      BY <1>1, <1>3, <1>4, <2>1, <3>1, <3>2, <3>3, <3>5, <3>4, LeavingTray, Nobody DEF Away
  <2>2. CASE deliver[p].how = "send" /\ msg[o].place # "tray" /\ UNCHANGED <<msg, keys, shown>>
    BY <1>1, <1>3, <1>6, <2>2, <1>o, DeliveryOver
  <2>3. CASE /\ deliver[p].how # "send" /\ UNCHANGED keys /\ shown' = shown \cup {o}
             /\ Changes(o, msg[o].place, "unsent", msg[o].n, msg[o].intent, msg[o].withdrawn)
    BY <1>1, <1>3, <1>6, <2>3, <1>o, DeliveryOver DEF Changes
  <2> QED
    BY <1>2, <2>1, <2>2, <2>3
<1>wished. Wished'
  <2>1. \A x \in Ids : Queued(x)' => Queued(x) /\ msg'[x].intent = msg[x].intent
    BY <1>6 DEF Queued
  <2> QED
    BY <1>1, <1>6, <1>rest, <2>1, <1>o, FinishedWishes
<1>paged. Paged'
  <2>1. CASE p = "user"
    BY <1>3, <1>4, <1>6, <2>1 DEF Paged
  <2>2. CASE p = "inbox"
    BY <1>3, <1>4, <1>6, <2>2 DEF Paged
  <2> QED
    BY <2>1, <2>2, Nobody
<1> QED
  BY <1>types, <1>paired, <1>commanded, <1>rest, <1>wished, <1>paged DEF MessagesInv

LEMMA WriteFailsKeeps ==
  ASSUME MessagesInv, NEW p \in Procs, WriteFails(p) \/ DeliveryFailed(p)
  PROVE  MessagesInv'
<1>1. /\ deliver[p].pc \in {"write", "failed"} /\ OnFailure(p)
      /\ UNCHANGED <<known, log, session, cli, commands, entered, requests, exits, refusals>>
      /\ failures' = failures \/ (failures < MaxFailedWrites /\ failures' = failures + 1)
  BY DEF WriteFails, DeliveryFailed, bounds
<1>2. failures' \in 0..MaxFailedWrites
  BY <1>1, TrayAssumption DEF MessagesInv, MessagesTypeOK
<1> QED
  BY <1>1, <1>2, FailureKeeps

(* A delivery goes on: nothing but the page changes. *)
LEMMA DeliveryGoesOn ==
  ASSUME MessagesInv, NEW p \in Procs, deliver[p].pc \in {"wait", "write"}, Delivers(p, deliver[p].id), Holds(p),
         NEW stand \in {"write", "failed"}, Goes(p, stand, deliver[p].how, deliver[p].id),
         stand = "failed" => ~session.live,
         UNCHANGED <<msg, keys, known, log, session, cli, commands, lock, user, inbox, entered, told, bounds>>,
         hurried' \subseteq Uuids, shown' \subseteq Ids, exits = 0 => shown' = shown
  PROVE  MessagesInv'
<1>1. /\ MessagesTypeOK /\ Locked /\ Paired /\ Commanded /\ Closed /\ Wished /\ Paged
      /\ deliver' \in [Procs -> Delivery] /\ deliver'[p].pc = stand /\ deliver'[p].how = deliver[p].how
      /\ deliver'[p].id = deliver[p].id /\ \A q \in Procs \ {p} : deliver'[q] = deliver[q]
      /\ deliver[p].pc # "off" /\ deliver[p].pc # "query"
  BY DEF MessagesInv, Goes
<1>2. \A q \in Procs, x \in Ids : Delivers(q, x)' <=> Delivers(q, x)
  BY <1>1 DEF Delivers
<1>types. MessagesTypeOK'
  BY <1>1 DEF MessagesTypeOK, bounds
<1>lock. Locked'
  <2>1. \A q \in Procs : Wants(q)' <=> Wants(q)
    BY <1>1 DEF Wants
  <2> QED
    BY <1>1, <2>1 DEF Locked, Holds
<1>paired. Paired'
  BY <1>1, Nobody DEF Paired, Asking
<1>commanded. Commanded'
  <2>1. \A x \in Ids : Uuid(x)' = Uuid(x)
    BY DEF Uuid
  <2>2. \A i \in 1..Len(commands) : commands[i].kind = "query" =>
           LET q == commands[i].by IN deliver'[q].pc = "query" /\ commands[i].uuid = Uuid(deliver'[q].id)
    <3> SUFFICES ASSUME NEW i \in 1..Len(commands), commands[i].kind = "query"
                 PROVE  LET q == commands[i].by IN deliver'[q].pc = "query" /\ commands[i].uuid = Uuid(deliver'[q].id)
      OBVIOUS
    <3>1. PICK q \in Procs : q = commands[i].by
      BY <1>1, Ordered
    <3>2. deliver[q].pc = "query" /\ commands[i].uuid = Uuid(deliver[q].id) /\ q # p
      BY <1>1, <3>1 DEF Commanded
    <3> QED
      BY <1>1, <3>1, <3>2
  <2> QED
    BY <1>1, <2>2 DEF Commanded, Uuid
<1>closed. Closed'
  BY <1>1, Nobody DEF Closed
<1>rest. Flows' /\ (\A x \in Ids : Placed(x)') /\ Keyed'
  <2>1. Steady
    BY <1>1 DEF Steady, MessagesTypeOK
  <2> QED
    BY <1>2, <2>1, StayPut
<1>wished. Wished'
  <2>1. /\ \A x : Out(x)' <=> Out(x)
        /\ Asking' <=> Asking
        /\ Holds("inbox")' <=> Holds("inbox")
        /\ \A x : Uuid(x)' = Uuid(x)
        /\ \A x : Queued(x)' <=> Queued(x)
    BY DEF Out, Asking, Holds, Uuid, Queued
  <2>2. Delivers("inbox", user.id)' <=> Delivers("inbox", user.id)
    BY <1>1, Nobody DEF Delivers
  <2> QED
    BY <1>1, <2>1, <2>2 DEF Wished
<1>paged. Paged'
  BY <1>1 DEF Paged, Tray, bounds
<1> QED
  BY <1>types, <1>lock, <1>paired, <1>commanded, <1>closed, <1>rest, <1>wished, <1>paged DEF MessagesInv

(* A delivery is over before it began: its message has left the tray. *)
LEMMA DeliveryDropped ==
  ASSUME MessagesInv, NEW p \in Procs, deliver[p].pc = "wait", Holds(p), Finished(p),
         ~Delivers(p, deliver[p].id) \/ msg[deliver[p].id].place # "tray",
         UNCHANGED <<msg, keys, known, log, shown, session, cli, commands, entered, bounds>>,
         hurried' \subseteq Uuids
  PROVE  MessagesInv'
<1>1. /\ MessagesTypeOK /\ Paged /\ deliver[p].pc \notin {"off", "query"} /\ deliver[p].how # "send"
      /\ deliver[p].id \in Ids
  BY DeliveryStands DEF MessagesInv, Paired
<1>2. /\ deliver' \in [Procs -> Delivery] /\ user' \in UserState /\ inbox' \in InboxWork
      /\ told' \in [Ids -> {"none", "withdrawn", "accepted", "sent"}]
      /\ user'.pc = "off" \/ user' = user
  <2>1. user \in UserState /\ inbox \in InboxWork
    BY <1>1 DEF MessagesTypeOK
  <2> QED
    BY <2>1 DEF Finished, Goes, Requested
<1>paired. Locked' /\ Paired'
  BY <1>1, FinishedPairs
<1>types. MessagesTypeOK'
  BY <1>1, <1>2, <1>paired DEF MessagesTypeOK, Locked, LockStates, bounds
<1>commanded. Commanded' /\ Closed'
  BY <1>1, FinishedCommands
<1>rest. /\ Flows' /\ (\A x \in Ids : Placed(x)') /\ Keyed'
         /\ \A x \in Ids : told'[x] = "withdrawn" \/ msg'[x].withdrawn => Out(x)'
  <2>1. msg' \in [Ids -> MessageState]
    BY <1>1 DEF MessagesTypeOK
  <2> QED
    BY <1>1, <2>1, DeliveryOver
<1>wished. Wished'
  <2>1. \A x : Queued(x)' <=> Queued(x)
    BY DEF Queued
  <2> QED
    BY <1>1, <1>rest, <2>1, FinishedWishes
<1>paged. Paged'
  BY <1>1, <1>2 DEF Paged, Tray, bounds
<1> QED
  BY <1>types, <1>paired, <1>commanded, <1>rest, <1>wished, <1>paged DEF MessagesInv

LEMMA BeginRedeliveryKeeps ==
  ASSUME MessagesInv, NEW p \in Procs, BeginRedelivery(p)
  PROVE  MessagesInv'
<1>1. /\ deliver[p].pc = "wait" /\ deliver[p].how = "redeliver" /\ Holds(p) /\ hurried' \subseteq Uuids
      /\ deliver[p].id \in Ids /\ Delivers(p, deliver[p].id)
  BY BeginRedeliveryMoves, DeliveryStands DEF Delivers
<1>2. UNCHANGED <<msg, keys, known, log, session, cli, commands, entered, bounds>>
  BY DEF BeginRedelivery
<1>3. CASE /\ msg[deliver[p].id].place = "tray" /\ Goes(p, "write", "redeliver", deliver[p].id)
           /\ shown' = shown \cup {deliver[p].id} /\ UNCHANGED <<lock, user, inbox, told>>
  <2>1. shown' \subseteq Ids /\ (exits = 0 => shown' = shown)
    BY <1>1, <1>3 DEF MessagesInv, MessagesTypeOK, Paged, Tray
  <2> QED
    BY <1>1, <1>2, <1>3, <2>1, DeliveryGoesOn
<1>4. CASE msg[deliver[p].id].place # "tray" /\ Finished(p) /\ UNCHANGED shown
  BY <1>1, <1>2, <1>4, DeliveryDropped
<1> QED
  BY <1>3, <1>4, BeginRedeliveryMoves

(* A message is given a new uuid. *)
LEMMA NewDelivery ==
  ASSUME MessagesInv, NEW p \in Procs, NEW o \in Ids, NEW intent, msg[o].place = "tray",
         Changes(o, "tray", "queued", msg[o].n + 1, intent, msg[o].withdrawn),
         Uuid(o) \notin cli.held, Uuid(o) \notin entered,
         UNCHANGED <<keys, log, cli, entered, session>>, NEW v \in {Uuid(o), <<None, 0>>}, OnlyFrame(v), LogsOn,
         inbox'.pc = "log" => inbox.pc = "log",
         \A q \in Procs, x \in Ids \ {o} : Delivers(q, x)' <=> Delivers(q, x),
         Delivers(p, o)', \A q \in Procs \ {p} : ~Delivers(q, o)',
         \A x \in Ids : told'[x] = "withdrawn" => told[x] = "withdrawn"
  PROVE  /\ Flows' /\ (\A x \in Ids : Placed(x)') /\ Keyed'
         /\ \A x \in Ids : told'[x] = "withdrawn" \/ msg'[x].withdrawn => Out(x)'
<1>1. /\ MessagesTypeOK /\ Flows /\ Keyed /\ Wished /\ (\A x \in Ids : Placed(x))
      /\ \A u \in entered \cup cli.held : u \in Uuids /\ u[1] \in Ids /\ u = Uuid(u[1])
      /\ \A x \in Ids : msg[x].n \in Nat /\ Uuid(x) \in Uuids /\ Uuid(x)[1] = x /\ Uuid(x)[2] = msg[x].n
      /\ <<None, 0>> \notin Uuids
  <2>1. MessagesTypeOK /\ Flows /\ Keyed /\ Wished /\ (\A x \in Ids : Placed(x))
    BY DEF MessagesInv
  <2>2. \A u \in entered \cup cli.held : u \in Uuids /\ u[2] = msg[u[1]].n
    BY <2>1 DEF Flows, MessagesTypeOK, CliState
  <2> QED
    BY <2>1, <2>2, Named
<1>2. /\ msg' \in [Ids -> MessageState] /\ \A x \in Ids \ {o} : msg'[x] = msg[x]
      /\ msg'[o].key = msg[o].key /\ msg'[o].place = "tray" /\ msg'[o].state = "queued"
      /\ msg'[o].n = msg[o].n + 1 /\ msg'[o].withdrawn = msg[o].withdrawn
  BY DEF Changes
<1>3. v \notin entered /\ \A u \in cli.held \cup entered : u[1] # o
  BY <1>1
<1>4. Flows'
  <2>1. \A u \in cli.held : Queued(u[1])'
    BY <1>1, <1>2, <1>3 DEF Flows, Queued
  <2>2. \A x \in Ids : /\ msg[x].place # "unused" => msg'[x].place # "unused"
                       /\ msg'[x].n \in Nat
                       /\ \/ msg'[x].n = msg[x].n
                          \/ msg'[x].n = msg[x].n + 1 /\ Uuid(x) \notin cli.held /\ Uuid(x) \notin entered
                       /\ msg'[x].place = "tray" => msg[x].place = "tray"
    <3> TAKE x \in Ids
    <3>1. CASE x = o
      BY <1>1, <1>2, <3>1
    <3>2. CASE x # o
      BY <1>1, <1>2, <3>2
    <3> QED
      BY <3>1, <3>2
  <2> QED
    BY <1>1, <1>3, <2>1, <2>2, FlowsKept
<1>5. Away(Uuid(o))'
  <2>a. PICK next \in Nat : next = msg[o].n + 1
    BY <1>1
  <2>1. PICK u \in Uuids : u = <<o, next>>
    BY DEF Uuids
  <2>2. u[1] = o /\ u[2] = msg[o].n + 1 /\ Uuid(o)' = u
    BY <1>2, <2>a, <2>1 DEF Uuid
  <2>3. ~(u[2] <= msg[u[1]].n)
    BY <1>1, <2>2
  <2>4. u \notin cli.held /\ u \notin entered /\ ~Framed(u)
    BY <1>1, <2>3 DEF Flows
  <2> QED
    BY <2>2, <2>4 DEF Away, OnlyFrame, Framed
<1>6. \A x \in Ids : Placed(x)'
  <2> TAKE x \in Ids
  <2>1. CASE x # o
    <3>1. Uuid(x)' = Uuid(x) /\ Uuid(x) # v
      BY <1>1, <1>2, <2>1 DEF Uuid
    <3>2. Framed(Uuid(x))' <=> Framed(Uuid(x))
      BY <1>1, <3>1 DEF OnlyFrame, Framed
    <3>3. Logging(x)' <=> Logging(x)
      BY DEF Logging, LogsOn
    <3> QED
      BY <1>1, <1>2, <2>1, <3>2, <3>3, PlacedKept
  <2>2. CASE x = o
    <3>1. Queued(x)'
      BY <1>2, <2>2 DEF Queued
    <3> QED
      BY <1>2, <1>5, <2>2, <3>1, Nobody DEF Placed
  <2> QED
    BY <2>1, <2>2
<1>7. Keyed'
  <2>1. \A x \in Ids : /\ msg'[x].key = msg[x].key /\ (msg[x].place = "left" => msg'[x].place = "left")
                       /\ msg'[x].n = msg[x].n \/ Uuid(x) \notin entered
                       /\ msg'[x].place = "tray" => msg[x].place = "tray" /\ keys'[msg[x].key] = keys[msg[x].key]
    BY <1>2
  <2>2. \A u \in entered : msg[u[1]].place = "tray" => msg'[u[1]].place = "tray"
    BY <1>1, <1>2
  <2> QED
    BY <1>1, <2>1, <2>2, KeyedKept
<1>8. \A x \in Ids : told'[x] = "withdrawn" \/ msg'[x].withdrawn => Out(x)'
  <2> TAKE x \in Ids
  <2>1. CASE x # o
    BY <1>1, <1>2, <2>1 DEF Wished, Out, Uuid
  <2>2. CASE x = o
    BY <1>1, <1>2, <2>2 DEF Wished, Out
  <2> QED
    BY <2>1, <2>2
<1> QED
  BY <1>4, <1>6, <1>7, <1>8

LEMMA BeginResendKeeps ==
  ASSUME MessagesInv, NEW p \in Procs, BeginResend(p)
  PROVE  MessagesInv'
<1>1. /\ p = "user" /\ deliver[p].pc = "wait" /\ deliver[p].how = "resend" /\ Holds(p)
      /\ deliver[p].id \in Ids /\ ~Delivers(p, deliver[p].id)
      /\ user.pc = "deliver" /\ user.id = deliver[p].id
  BY BeginResendMoves, DeliveryStands DEF Delivers
<1>2. UNCHANGED <<keys, hurried, log, session, cli, commands, entered, bounds>>
  BY DEF BeginResend
<1>3. CASE Finished(p) /\ UNCHANGED <<msg, known, shown>>
  <2>1. hurried' \subseteq Uuids
    BY <1>2 DEF MessagesInv, MessagesTypeOK
  <2> QED
    BY <1>1, <1>2, <1>3, <2>1, DeliveryDropped
<1>4. CASE /\ msg[deliver[p].id].place = "tray" /\ msg[deliver[p].id].state = "unsent"
           /\ Changes(deliver[p].id, "tray", "queued", msg[deliver[p].id].n + 1,
                      msg[deliver[p].id].intent, msg[deliver[p].id].withdrawn)
           /\ Goes(p, "write", "resend", deliver[p].id)
           /\ shown' = shown \cup {deliver[p].id} /\ known' = known \cup {deliver[p].id}
           /\ UNCHANGED <<lock, user, inbox, told>>
  <2>0. PICK o \in Ids : o = deliver[p].id
    BY <1>1
  <2>1. /\ MessagesTypeOK /\ Locked /\ Paired /\ Commanded /\ Closed /\ Wished /\ Paged /\ Flows /\ Placed(o)
        /\ msg[o].place = "tray" /\ msg[o].state = "unsent" /\ user.id = o /\ user.pc = "deliver"
    BY <1>1, <1>4, <2>0 DEF MessagesInv
  <2>2. /\ Changes(o, "tray", "queued", msg[o].n + 1, msg[o].intent, msg[o].withdrawn)
        /\ shown' = shown \cup {o} /\ known' = known \cup {o}
        /\ UNCHANGED <<lock, user, inbox, told>>
        /\ deliver' \in [Procs -> Delivery] /\ deliver'["inbox"] = deliver["inbox"]
        /\ deliver'["user"].pc = "write" /\ deliver'["user"].how = "resend" /\ deliver'["user"].id = o
    BY <1>1, <1>4, <2>0, Nobody DEF Goes
  <2>3. /\ msg' \in [Ids -> MessageState] /\ \A x \in Ids \ {o} : msg'[x] = msg[x]
        /\ msg'[o].place = "tray" /\ msg'[o].n = msg[o].n + 1
    BY <2>2 DEF Changes
  <2>4. Away(Uuid(o)) /\ ~Delivers("inbox", o) /\ session.live
    <3>1. Away(Uuid(o)) /\ ~Delivers("inbox", o)
      BY <2>1 DEF Placed, Queued
    <3>2. session.live
      BY <1>1, <2>0, <2>1 DEF Closed
    <3> QED
      BY <3>1, <3>2
  <2>types. MessagesTypeOK'
    BY <1>2, <2>1, <2>2, <2>3 DEF MessagesTypeOK, bounds
  <2>lock. Locked'
    <3>1. \A q \in Procs : Wants(q)' <=> Wants(q)
      BY <1>1, <2>2, Nobody DEF Wants
    <3> QED
      BY <1>1, <2>1, <2>2, <3>1, Nobody DEF Locked, Holds
  <2>paired. Paired'
    BY <1>1, <2>1, <2>2, <2>3, Nobody DEF Paired, Asking
  <2>commanded. Commanded'
    <3>1. \A i \in 1..Len(commands) : commands[i].kind = "query" =>
             /\ commands[i].by = "inbox" /\ deliver["inbox"].pc = "query"
             /\ commands[i].uuid = Uuid(deliver["inbox"].id)
      BY <1>1, <2>1, Ordered, Nobody DEF Commanded
    <3>2. deliver["inbox"].pc = "query" => deliver["inbox"].id \in Ids /\ deliver["inbox"].id # o
      BY <2>1, <2>4, DeliveryStands, Nobody DEF Delivers
    <3>3. deliver["inbox"].pc = "query" => Uuid(deliver["inbox"].id)' = Uuid(deliver["inbox"].id)
      BY <2>2, <2>3, <3>2 DEF Uuid
    <3>4. \A i \in 1..Len(commands) : commands[i].kind # "cancel"
      BY <1>1, <2>1 DEF Commanded
    <3> QED
      BY <1>2, <2>1, <2>2, <3>1, <3>3, <3>4 DEF Commanded
  <2>closed. Closed'
    BY <1>2, <2>1, <2>2, <2>4, Nobody DEF Closed
  <2>rest. /\ Flows' /\ (\A x \in Ids : Placed(x)') /\ Keyed'
           /\ \A x \in Ids : told'[x] = "withdrawn" \/ msg'[x].withdrawn => Out(x)'
    <3>1. OnlyFrame(<<None, 0>>)
      BY <1>2, <2>2, FramesStay
    <3>2. LogsOn
      BY <2>1, <2>2, <2>3 DEF LogsOn, Flows
    <3>3. \A q \in Procs, x \in Ids \ {o} : Delivers(q, x)' <=> Delivers(q, x)
      BY <2>1, <2>2, <1>1, <2>0, Nobody DEF Delivers
    <3>4. Delivers("user", o)' /\ ~Delivers("inbox", o)'
      BY <2>2, <2>4 DEF Delivers
    <3>5. \A q \in Procs \ {"user"} : ~Delivers(q, o)'
      BY <3>4, Nobody
    <3> QED
      BY <1>2, <2>1, <2>2, <2>4, <3>1, <3>2, <3>3, <3>5, <3>4, NewDelivery, Nobody DEF Away
  <2>wished. Wished'
    BY <1>1, <2>2, <2>rest DEF Wished, Asking
  <2>paged. Paged'
    <3>1. Tray' = Tray /\ o \in Tray
      BY <2>1, <2>3 DEF Tray
    <3> QED
      BY <1>2, <2>1, <2>2, <3>1 DEF Paged, bounds
  <2> QED
    BY <2>types, <2>lock, <2>paired, <2>commanded, <2>closed, <2>rest, <2>wished, <2>paged DEF MessagesInv
<1> QED
  BY <1>3, <1>4, BeginResendMoves

LEMMA WrittenKeeps ==
  ASSUME MessagesInv, NEW p \in Procs, Written(p)
  PROVE  MessagesInv'
<1>1. /\ deliver[p].pc = "write" /\ Holds(p) /\ Delivers(p, deliver[p].id) /\ deliver[p].id \in Ids
      /\ deliver[p].pc # "off"
  BY WrittenMoves, DeliveryStands DEF MessagesInv, Locked
<1>2. UNCHANGED <<known, log, session, cli, entered, bounds>>
  BY DEF Written
<1>3. CASE OnFailure(p) /\ UNCHANGED commands
  BY <1>1, <1>2, <1>3, FailureKeeps DEF bounds, MessagesInv, MessagesTypeOK
<1>4. CASE /\ ~session.live /\ Goes(p, "failed", deliver[p].how, deliver[p].id) /\ UNCHANGED commands
           /\ UNCHANGED <<msg, keys, hurried, shown, lock, user, inbox, told>>
  <2>1. hurried' \subseteq Uuids /\ shown' \subseteq Ids
    BY <1>4 DEF MessagesInv, MessagesTypeOK
  <2> QED
    BY <1>1, <1>2, <1>4, <2>1, DeliveryGoesOn
<1>5. CASE /\ session.live /\ ~session.exited /\ Goes(p, "query", deliver[p].how, deliver[p].id)
           /\ commands' = Append(commands, [by |-> p, kind |-> "query", uuid |-> Uuid(deliver[p].id)])
           /\ UNCHANGED <<msg, keys, hurried, shown, lock, user, inbox, told>>
  <2> DEFINE c == [by |-> p, kind |-> "query", uuid |-> Uuid(deliver[p].id)]
  <2>1. /\ MessagesTypeOK /\ Locked /\ Paired /\ Commanded /\ Closed /\ Wished /\ Paged
        /\ deliver' \in [Procs -> Delivery] /\ deliver'[p].pc = "query" /\ deliver'[p].how = deliver[p].how
        /\ deliver'[p].id = deliver[p].id /\ \A q \in Procs \ {p} : deliver'[q] = deliver[q]
    BY <1>5 DEF MessagesInv, Goes
  <2>2. c \in Command /\ c.kind = "query" /\ c.by = p /\ c.uuid = Uuid(deliver[p].id)
    BY <1>1, <2>1, Named DEF Command
  <2> HIDE DEF c
  <2>3. /\ commands' \in Seq(Command)
        /\ \A i \in 1..Len(commands') : \/ i \in 1..Len(commands) /\ commands'[i] = commands[i]
                                        \/ i = Len(commands) + 1 /\ commands'[i] = c
    <3>1. commands \in Seq(Command) /\ commands' = Append(commands, c)
      BY <1>5, <2>1 DEF MessagesTypeOK, c
    <3>2. /\ Append(commands, c) \in Seq(Command)
          /\ \A i \in 1..Len(Append(commands, c)) :
               \/ i \in 1..Len(commands) /\ Append(commands, c)[i] = commands[i]
               \/ i = Len(commands) + 1 /\ Append(commands, c)[i] = c
      BY <2>2, <3>1, CommandAppended
    <3> QED
      BY <3>1, <3>2
  <2>4. \A i \in 1..Len(commands) : commands[i].kind = "cancel"
    <3> SUFFICES ASSUME NEW i \in 1..Len(commands), commands[i].kind # "cancel" PROVE FALSE
      OBVIOUS
    <3>1. PICK q \in Procs : q = commands[i].by
      BY <2>1, Ordered
    <3>2. deliver[q].pc = "query"
      BY <2>1, <3>1, Ordered DEF Commanded
    <3>3. Holds(q)
      BY <2>1, <3>2 DEF Locked
    <3> QED
      BY <1>1, <3>2, <3>3 DEF Holds
  <2>types. MessagesTypeOK'
    BY <1>2, <1>5, <2>1, <2>3 DEF MessagesTypeOK, bounds
  <2>lock. Locked'
    <3>1. \A q \in Procs : Wants(q)' <=> Wants(q)
      BY <1>1, <1>5, <2>1 DEF Wants
    <3> QED
      BY <1>1, <1>5, <2>1, <3>1 DEF Locked, Holds
  <2>paired. Paired'
    BY <1>1, <1>5, <2>1, Nobody DEF Paired, Asking
  <2>commanded. Commanded'
    <3>1. \A x : Uuid(x)' = Uuid(x)
      BY <1>5 DEF Uuid
    <3>2. \A i \in 1..Len(commands') :
         /\ commands'[i].kind = "query" =>
              /\ deliver'[commands'[i].by].pc = "query"
              /\ commands'[i].uuid = <<deliver'[commands'[i].by].id, msg'[deliver'[commands'[i].by].id].n>>
         /\ commands'[i].kind = "cancel" =>
              user.pc = "asked" /\ commands'[i].uuid[1] = user.id /\ commands'[i].uuid[2] <= msg[user.id].n
      <4>1. ASSUME NEW i \in 1..Len(commands), commands'[i] = commands[i]
            PROVE  /\ commands'[i].kind = "cancel" /\ user.pc = "asked"
                   /\ commands'[i].uuid[1] = user.id /\ commands'[i].uuid[2] <= msg[user.id].n
        BY <2>1, <2>4, <4>1 DEF Commanded
      <4>2. c.kind = "query" /\ c.uuid = <<deliver'[c.by].id, msg'[deliver'[c.by].id].n>> /\ deliver'[c.by].pc = "query"
        BY <1>5, <2>1, <2>2 DEF Uuid
      <4> QED
        BY <2>3, <4>1, <4>2
    <3>3. \A i, j \in 1..Len(commands') : commands'[i].kind = commands'[j].kind => i = j
      BY <2>1, <2>2, <2>3, <2>4 DEF Commanded
    <3> QED
      BY <1>5, <3>1, <3>2, <3>3 DEF Commanded, Uuid
  <2>closed. Closed'
    BY <1>2, <1>5, <2>1, Nobody DEF Closed
  <2>deliver. \A q \in Procs, x \in Ids : Delivers(q, x)' <=> Delivers(q, x)
    BY <1>1, <2>1 DEF Delivers
  <2>rest. Flows' /\ (\A x \in Ids : Placed(x)') /\ Keyed'
    <3>1. Steady
      BY <1>5, <2>1 DEF Steady, MessagesTypeOK
    <3> QED
      BY <1>2, <1>5, <2>deliver, <3>1, StayPut
  <2>wished. Wished'
    <3>1. /\ \A x : Out(x)' <=> Out(x)
          /\ Asking' <=> Asking
          /\ Holds("inbox")' <=> Holds("inbox")
          /\ \A x : Uuid(x)' = Uuid(x)
          /\ \A x : Queued(x)' <=> Queued(x)
      BY <1>2, <1>5 DEF Out, Asking, Holds, Uuid, Queued
    <3>2. Delivers("inbox", user.id)' <=> Delivers("inbox", user.id)
      BY <1>1, <1>5, <2>1, Nobody DEF Delivers
    <3> QED
      BY <1>2, <1>5, <2>1, <3>1, <3>2 DEF Wished
  <2>paged. Paged'
    BY <1>2, <1>5, <2>1 DEF Paged, Tray, bounds
  <2> QED
    BY <2>types, <2>lock, <2>paired, <2>commanded, <2>closed, <2>rest, <2>wished, <2>paged DEF MessagesInv
<1> QED
  BY <1>3, <1>4, <1>5, WrittenMoves

LEMMA HurriedKeeps ==
  ASSUME MessagesInv, Hurried
  PROVE  MessagesInv'
<1>1. /\ user.pc = "answered" /\ user.reply # "error" /\ user.id \in Ids
      /\ UNCHANGED <<keys, known, hurried, log, shown, session, cli, commands, inbox, entered, bounds>>
  BY HurriedMoves DEF Hurried
<1>2. /\ MessagesTypeOK /\ Locked /\ Paired /\ Commanded /\ Closed /\ Wished /\ Paged /\ Flows
      /\ deliver["user"].pc = "off" /\ ~Wants("user") /\ ~session.exited /\ session.live /\ Asking
      /\ Placed(user.id)
  BY <1>1 DEF MessagesInv, Paired, Closed, Wants, Asking
<1>queries. \A i \in 1..Len(commands) : /\ commands[i].kind = "query" /\ commands[i].by = "inbox"
                                        /\ deliver["inbox"].pc = "query" /\ commands[i].uuid = Uuid(deliver["inbox"].id)
  BY <1>1, <1>2, Ordered, Nobody DEF Commanded
<1>3. CASE /\ user.reply = "cancelled" /\ msg[user.id].n = user.n /\ msg[user.id].place = "tray"
           /\ Changes(user.id, "tray", msg[user.id].state, msg[user.id].n + 1, "none", msg[user.id].withdrawn)
           /\ Goes("user", "wait", "redeliver", user.id) /\ lock' = Append(lock, "user") /\ UNCHANGED told
           /\ Requested("deliver", user.op, user.id, user.n, user.reply)
  <2>0. PICK o \in Ids : o = user.id
    BY <1>1
  <2>1. /\ msg[o].place = "tray" /\ msg[o].state = "queued" /\ Uuid(o) \notin cli.held /\ Uuid(o) \notin entered
        /\ ~Delivers("inbox", o)
    BY <1>1, <1>2, <1>3, <2>0 DEF Wished
  <2>2. /\ Changes(o, "tray", "queued", msg[o].n + 1, "none", msg[o].withdrawn)
        /\ msg' \in [Ids -> MessageState] /\ \A x \in Ids \ {o} : msg'[x] = msg[x]
        /\ msg'[o].place = "tray" /\ msg'[o].n = msg[o].n + 1
    BY <1>3, <2>0, <2>1 DEF Changes
  <2>3. /\ user' \in UserState /\ user'.pc = "deliver" /\ user'.id = o /\ lock' = Append(lock, "user") /\ told' = told
        /\ deliver' \in [Procs -> Delivery] /\ deliver'["inbox"] = deliver["inbox"]
        /\ deliver'["user"].pc = "wait" /\ deliver'["user"].how = "redeliver" /\ deliver'["user"].id = o
    BY <1>3, <2>0, Nobody DEF Requested, Goes
  <2>lock. Locked'
    <3>1. \A q \in Procs \ {"user"} : deliver'[q] = deliver[q] /\ (Wants(q)' <=> Wants(q))
      BY <2>3, Nobody DEF Wants
    <3>2. Wants("user")'
      BY <2>3 DEF Wants
    <3> QED
      BY <1>2, <2>3, <3>1, <3>2, LockedKept, Nobody
  <2>types. MessagesTypeOK'
    BY <1>1, <1>2, <2>2, <2>3, <2>lock DEF MessagesTypeOK, bounds, Locked, LockStates
  <2>paired. Paired'
    BY <1>1, <1>2, <2>2, <2>3, Nobody DEF Paired, Asking
  <2>commanded. Commanded'
    <3>1. deliver["inbox"].pc = "query" => deliver["inbox"].id \in Ids /\ deliver["inbox"].id # o
      BY <2>1, DeliveryStands, Nobody DEF Delivers
    <3>2. deliver["inbox"].pc = "query" => Uuid(deliver["inbox"].id)' = Uuid(deliver["inbox"].id)
      BY <2>2, <2>3, <3>1 DEF Uuid
    <3> QED
      BY <1>1, <1>2, <1>queries, <2>3, <3>2 DEF Commanded
  <2>closed. Closed'
    BY <1>1, <1>2, <2>3, Nobody DEF Closed
  <2>rest. /\ Flows' /\ (\A x \in Ids : Placed(x)') /\ Keyed'
           /\ \A x \in Ids : told'[x] = "withdrawn" \/ msg'[x].withdrawn => Out(x)'
    <3>1. OnlyFrame(<<None, 0>>)
      BY <1>1, FramesStay
    <3>2. LogsOn
      BY <1>1, <1>2, <2>2 DEF LogsOn, Flows
    <3>3. \A q \in Procs, x \in Ids \ {o} : Delivers(q, x)' <=> Delivers(q, x)
      BY <1>2, <2>3, Nobody DEF Delivers
    <3>4. Delivers("user", o)' /\ ~Delivers("inbox", o)'
      BY <2>1, <2>3 DEF Delivers
    <3>5. \A q \in Procs \ {"user"} : ~Delivers(q, o)'
      BY <3>4, Nobody
    <3>6. /\ UNCHANGED <<keys, log, cli, entered, session>> /\ (inbox'.pc = "log" => inbox.pc = "log")
          /\ \A x \in Ids : told'[x] = "withdrawn" => told[x] = "withdrawn"
      BY <1>1, <2>3
    <3> QED
      BY <2>1, <2>2, <3>1, <3>2, <3>3, <3>5, <3>4, <3>6, NewDelivery, Nobody
  <2>wished. Wished'
    BY <2>3, <2>rest DEF Wished, Asking
  <2>paged. Paged'
    <3>1. Tray' = Tray
      BY <2>1, <2>2 DEF Tray
    <3> QED
      BY <1>1, <1>2, <2>3, <3>1 DEF Paged, bounds
  <2> QED
    BY <2>types, <2>lock, <2>paired, <2>commanded, <2>closed, <2>rest, <2>wished, <2>paged DEF MessagesInv
<1>4. CASE /\ UNCHANGED <<msg, deliver, lock>> /\ Requested("off", "none", None, 0, "none")
           /\ told' \in [Ids -> {"none", "withdrawn", "accepted", "sent"}]
           /\ \A x \in Ids : told'[x] = "withdrawn" => told[x] = "withdrawn"
  <2>1. user' \in UserState /\ user'.pc = "off"
    BY <1>4 DEF Requested
  <2>lock. Locked'
    <3>1. \A q \in Procs : Wants(q)' <=> Wants(q)
      BY <1>1, <1>4, <2>1 DEF Wants
    <3> QED
      BY <1>2, <1>4, <3>1 DEF Locked, Holds
  <2>types. MessagesTypeOK'
    BY <1>1, <1>2, <1>4, <2>1 DEF MessagesTypeOK, bounds
  <2>paired. Paired'
    BY <1>1, <1>2, <1>4, <2>1, Nobody DEF Paired, Asking
  <2>commanded. Commanded'
    BY <1>1, <1>2, <1>4, <1>queries DEF Commanded, Uuid
  <2>closed. Closed'
    BY <1>1, <1>2, <1>4, <2>1, Nobody DEF Closed
  <2>rest. Flows' /\ (\A x \in Ids : Placed(x)') /\ Keyed'
    <3>1. Steady
      BY <1>2, <1>4 DEF Steady, MessagesTypeOK
    <3>2. \A p \in Procs, x \in Ids : Delivers(p, x)' <=> Delivers(p, x)
      BY <1>4 DEF Delivers
    <3> QED
      BY <1>1, <3>1, <3>2, StayPut
  <2>wished. Wished'
    BY <1>1, <1>2, <1>4, <2>1 DEF Wished, Asking, Out, Uuid
  <2>paged. Paged'
    BY <1>1, <1>2, <1>4, <2>1 DEF Paged, bounds, Tray
  <2> QED
    BY <2>types, <2>lock, <2>paired, <2>commanded, <2>closed, <2>rest, <2>wished, <2>paged DEF MessagesInv
<1> QED
  BY <1>3, <1>4, HurriedMoves

LEMMA EnqueueKeeps ==
  ASSUME MessagesInv, NEW o \in Ids, EnqueueMessage(o)
  PROVE  MessagesInv'
<1>1. /\ user.pc = "look" /\ Holds("user") /\ msg[o].place = "unused"
      /\ keys[user.key] = None /\ ~InLog(user.key) /\ user.key \in Keys
      /\ msg' \in [Ids -> MessageState] /\ \A x \in Ids \ {o} : msg'[x] = msg[x]
      /\ msg'[o].place = "tray" /\ msg'[o].key = user.key /\ msg'[o].state = msg[o].state
      /\ msg'[o].n = msg[o].n /\ msg'[o].withdrawn = msg[o].withdrawn /\ msg'[o].intent = msg[o].intent
      /\ keys' \in [Keys -> {None} \cup Ids] /\ keys'[user.key] = o
      /\ \A k \in Keys \ {user.key} : keys'[k] = keys[k]
      /\ shown' = shown \cup {o}
  BY EnqueueMoves
<1>2. /\ deliver' \in [Procs -> Delivery] /\ deliver'["inbox"] = deliver["inbox"]
      /\ deliver'["user"].pc = "write" /\ deliver'["user"].how = "send" /\ deliver'["user"].id = o
      /\ user' \in UserState /\ user'.pc = "deliver" /\ user'.id = o
  BY EnqueueMoves, Nobody DEF Goes, Requested
<1>3. /\ known' = known \cup {o}
      /\ UNCHANGED <<hurried, log, session, cli, commands, lock, inbox, entered, told, bounds>>
  BY DEF EnqueueMessage
<1>4. /\ MessagesTypeOK /\ Locked /\ Paired /\ Commanded /\ Closed /\ Wished /\ Paged /\ Flows /\ Keyed
      /\ deliver["user"].pc = "off" /\ \A x \in Ids : Placed(x)
  BY <1>1 DEF MessagesInv, Paired
<1>5. /\ \A x \in Ids : Uuid(x)' = Uuid(x)
      /\ \A x \in Ids \ {o} : Queued(x)' <=> Queued(x)
      /\ Away(Uuid(o)) /\ ~Delivers("inbox", o) /\ msg[o].state = "queued"
      /\ \A u \in entered \cup cli.held : u \in Uuids /\ u[1] \in Ids /\ u[1] # o
  <2>1. \A x \in Ids : Uuid(x)' = Uuid(x)
    BY <1>1 DEF Uuid
  <2>2. \A x \in Ids \ {o} : Queued(x)' <=> Queued(x)
    BY <1>1 DEF Queued
  <2>3. Away(Uuid(o))
    <3>1. Uuid(o) \in Uuids /\ Uuid(o)[1] = o
      BY <1>4, Named
    <3> QED
      BY <1>1, <1>4, <3>1 DEF Flows, Away
  <2>4. ~Delivers("inbox", o) /\ msg[o].state = "queued"
    BY <1>1, <1>4 DEF Placed, Queued
  <2>5. \A u \in entered \cup cli.held : u \in Uuids /\ u[1] \in Ids /\ u[1] # o
    <3>1. \A u \in entered \cup cli.held : u \in Uuids /\ msg[u[1]].place # "unused"
      BY <1>4 DEF MessagesTypeOK, CliState, Flows
    <3> QED
      BY <1>1, <1>4, <3>1, Named
  <2> QED
    BY <2>1, <2>2, <2>3, <2>5, <2>4
<1>types. MessagesTypeOK'
  BY <1>1, <1>2, <1>3, <1>4 DEF MessagesTypeOK, bounds
<1>lock. Locked'
  <2>1. \A q \in Procs : Wants(q)' <=> Wants(q)
    BY <1>1, <1>2, Nobody DEF Wants
  <2>2. \A q \in Procs : deliver'[q].pc \in {"write", "query", "failed"} => Holds(q)'
    BY <1>1, <1>2, <1>3, <1>4, Nobody DEF Locked, Holds
  <2> QED
    BY <1>3, <1>4, <2>1, <2>2 DEF Locked
<1>paired. Paired'
  BY <1>1, <1>2, <1>3, <1>4, Nobody DEF Paired, Asking
<1>commanded. Commanded'
  <2>1. \A i \in 1..Len(commands) : /\ commands[i].kind = "query" /\ commands[i].by = "inbox"
                                    /\ deliver["inbox"].pc = "query" /\ commands[i].uuid = Uuid(deliver["inbox"].id)
    BY <1>1, <1>4, Ordered, Nobody DEF Commanded
  <2>2. deliver["inbox"].pc = "query" => Uuid(deliver["inbox"].id)' = Uuid(deliver["inbox"].id)
    BY <1>2, <1>5, DeliveryStands, Nobody DEF Uuid
  <2> QED
    BY <1>2, <1>3, <1>4, <2>1, <2>2 DEF Commanded
<1>closed. Closed'
  <2>1. ~session.live => \A x \in Ids : msg'[x].place = "tray" => x = o
    BY <1>1, <1>4 DEF Closed
  <2> QED
    BY <1>1, <1>2, <1>3, <1>4, <2>1, Nobody DEF Closed
<1>frames. OnlyFrame(<<None, 0>>) /\ <<None, 0>> \notin entered /\ \A u : Framed(u)' <=> Framed(u)
  BY <1>3, <1>4, FramesStay, Named DEF MessagesTypeOK
<1>flows. Flows'
  <2>1. LogsOn
    BY <1>1, <1>3, <1>4 DEF LogsOn, Flows
  <2>2. \A u \in cli.held : Queued(u[1])'
    BY <1>4, <1>5 DEF Flows
  <2>3. \A x \in Ids : /\ msg[x].place # "unused" => msg'[x].place # "unused"
                       /\ msg'[x].n \in Nat /\ msg'[x].n = msg[x].n
                       /\ msg'[x].place = "tray" => msg[x].place = "tray" \/ \A u \in entered : u[1] # x
    BY <1>1, <1>4, <1>5, Named
  <2> QED
    BY <1>3, <1>4, <1>frames, <2>1, <2>2, <2>3, FlowsKept
<1>placed. \A x \in Ids : Placed(x)'
  <2> TAKE x \in Ids
  <2>0. Framed(Uuid(x))' <=> Framed(Uuid(x))
    BY <1>5, <1>frames DEF Framed
  <2>1. CASE x # o
    <3>1. \A q \in Procs : Delivers(q, x)' <=> Delivers(q, x)
      BY <1>2, <1>4, <2>1, Nobody DEF Delivers
    <3> QED
      BY <1>1, <1>3, <1>4, <2>0, <2>1, <3>1, PlacedKept DEF Logging
  <2>2. CASE x = o
    <3>1. Delivers("user", o)' /\ ~Delivers("inbox", o)'
      BY <1>2, <1>5 DEF Delivers
    <3>2. Away(Uuid(x))' /\ Queued(x)'
      BY <1>1, <1>3, <1>5, <2>0, <2>2 DEF Away, Queued
    <3> QED
      BY <1>1, <2>2, <3>1, <3>2, Nobody DEF Placed, Queued
  <2> QED
    BY <2>1, <2>2
<1>keyed. Keyed'
  <2>1. log \in Seq(Ids) /\ \A i \in 1..Len(log) : log[i] \in Ids /\ log[i] # o
    <3>1. log \in Seq(Ids) /\ \A i \in 1..Len(log) : log[i] \in Ids
      BY <1>4 DEF MessagesTypeOK
    <3>2. \A i \in 1..Len(log) : Uuid(log[i]) \in entered
      BY <1>4 DEF Keyed
    <3> QED
      BY <1>4, <1>5, <3>1, <3>2, Named
  <2>2. \A k : InLog(k)' <=> InLog(k)
    BY <1>1, <1>3, <2>1 DEF InLog
  <2>3. \A x \in Ids : msg'[x].place = "tray" => keys'[msg'[x].key] = x /\ ~InLog(msg[x].key)'
    <3> TAKE x \in Ids
    <3>1. CASE x = o
      BY <1>1, <2>2, <3>1
    <3>2. CASE x # o
      <4>1. msg[x].place = "tray" => keys[msg[x].key] = x /\ ~InLog(msg[x].key) /\ msg[x].key \in Keys /\ x # None
        BY <1>4, Named DEF Keyed, MessageState
      <4>2. msg[x].place = "tray" => msg[x].key # user.key
        BY <1>1, <4>1
      <4> QED
        BY <1>1, <2>2, <3>2, <4>1, <4>2
    <3> QED
      BY <3>1, <3>2
  <2>4. \A u \in entered : msg'[u[1]].place = "tray" \/ \E i \in 1..Len(log) : log[i] = u[1]
    BY <1>1, <1>4, <1>5 DEF Keyed
  <2>5. \A i \in 1..Len(log) : Uuid(log[i])' \in entered /\ msg'[log[i]].place # "tray"
    BY <1>1, <1>3, <1>4, <1>5, <2>1 DEF Keyed, Uuid
  <2>6. \A i, j \in 1..Len(log) : msg'[log[i]].key = msg'[log[j]].key => i = j
    BY <1>1, <1>4, <2>1 DEF Keyed
  <2> QED
    BY <1>3, <2>3, <2>4, <2>5, <2>6 DEF Keyed
<1>wished. Wished'
  <2>1. \A x \in Ids : told'[x] = "withdrawn" \/ msg'[x].withdrawn => Out(x)'
    <3> TAKE x \in Ids
    <3>1. CASE x = o
      BY <1>1, <1>3, <1>4, <3>1 DEF Wished, Out
    <3>2. CASE x # o
      BY <1>1, <1>3, <1>4, <3>2 DEF Wished, Out, Uuid
    <3> QED
      BY <3>1, <3>2
  <2> QED
    BY <1>2, <2>1 DEF Wished, Asking
<1>paged. Paged'
  <2>1. Tray' = Tray \cup {o}
    BY <1>1 DEF Tray
  <2> QED
    BY <1>1, <1>2, <1>3, <1>4, <2>1 DEF Paged, bounds
<1> QED
  BY <1>types, <1>lock, <1>paired, <1>commanded, <1>closed, <1>flows, <1>placed, <1>keyed, <1>wished, <1>paged DEF MessagesInv

(* Where the actor has ended and the inbox is empty, nothing is on its way. *)
LEMMA AllQuiet ==
  ASSUME MessagesInv, session.exited, inbox.pc # "log", \A u \in Uuids : ~Has(inbox.queue, u)
  PROVE  /\ cli = Fresh /\ cli.held = {} /\ cli.turn = {} /\ cli.out = <<>> /\ \A u \in Uuids : ~Framed(u)
         /\ \A u \in entered : u \in Uuids /\ u[1] \in Ids /\ u = Uuid(u[1]) /\ msg[u[1]].place # "tray"
         /\ \A o \in Ids : msg[o].place = "tray" => Away(Uuid(o))
<1>1. MessagesTypeOK /\ Flows /\ Closed
  BY DEF MessagesInv
<1>2. cli = Fresh /\ cli.held = {} /\ cli.turn = {} /\ cli.out = <<>>
  BY <1>1 DEF Closed, Fresh
<1>3. \A u : ~Has(cli.out, u) /\ ~Opens(cli.out, u)
  BY <1>2 DEF Has, Opens
<1>4. \A u \in Uuids : ~Framed(u)
  BY <1>3 DEF Framed
<1>5. \A u \in entered : u \in Uuids /\ u[1] \in Ids /\ u = Uuid(u[1])
  <2>1. \A u \in entered : u \in Uuids /\ u[2] = msg[u[1]].n
    BY <1>1 DEF MessagesTypeOK, Flows
  <2> QED
    BY <1>1, <2>1, Named
<1>6. \A u \in Uuids : ~Opens(inbox.queue, u)
  BY DEF Opens, Has
<1>7. \A u \in entered : msg[u[1]].place # "tray"
  BY <1>1, <1>3, <1>5, <1>6 DEF Flows, Heralded, Logging
<1>8. \A o \in Ids : msg[o].place = "tray" => Away(Uuid(o))
  BY <1>1, <1>2, <1>4, <1>7, Named DEF Away
<1> QED
  BY <1>2, <1>4, <1>5, <1>7, <1>8

LEMMA NoFrames == ASSUME NEW q, q = <<>>, NEW u PROVE ~Has(q, u) /\ ~SaysStarted(q, u) /\ ~Opens(q, u)
BY DEF Has, SaysStarted, Opens

LEMMA TrayDiscarded ==
  ASSUME MessagesTypeOK, Discard(Tray, msg)
  PROVE  /\ msg' \in [Ids -> MessageState] /\ \A x \in Ids \ Tray : msg'[x] = msg[x]
         /\ \A x \in Tray : /\ msg'[x].place = "left" /\ msg'[x].key = msg[x].key /\ msg'[x].state = msg[x].state
                            /\ msg'[x].n = msg[x].n /\ msg'[x].intent = msg[x].intent
                            /\ msg'[x].withdrawn = msg[x].withdrawn
         /\ keys' \in [Keys -> {None} \cup Ids] /\ shown' = shown \ Tray
<1>1. PICK gone \in SUBSET Ids, ms \in [Ids -> MessageState] : gone = Tray /\ ms = msg
  BY DEF Tray, MessagesTypeOK
<1>2. Discard(gone, ms)
  BY <1>1
<1>3. /\ msg' \in [Ids -> MessageState] /\ \A x \in Ids \ gone : msg'[x] = ms[x]
      /\ \A x \in gone : /\ msg'[x].place = "left" /\ msg'[x].key = ms[x].key /\ msg'[x].state = ms[x].state
                         /\ msg'[x].n = ms[x].n /\ msg'[x].intent = ms[x].intent
                         /\ msg'[x].withdrawn = ms[x].withdrawn
      /\ keys' \in [Keys -> {None} \cup Ids]
      /\ \A k \in Keys : keys'[k] = IF keys[k] \in gone THEN None ELSE keys[k]
      /\ shown' = shown \ gone
  BY <1>2, DiscardMoves
<1> QED
  BY <1>1, <1>3

(* The tray is emptied, and the session ends. *)
LEMMA TrayEmptied ==
  ASSUME MessagesInv, session.exited, inbox.pc = "done", Discard(Tray, msg),
         UNCHANGED <<known, hurried, log, cli, commands, lock, deliver, inbox, entered, told, requests, exits, refusals>>,
         failures' \in 0..MaxFailedWrites,
         session' \in SessionState, ~session'.live, ~session'.evicting, session'.exited,
         user' = user \/ (user.pc = "reconnect" /\ user' = NoUser)
  PROVE  MessagesInv'
<1>1. /\ MessagesTypeOK /\ Locked /\ Paired /\ Commanded /\ Closed /\ Wished /\ Paged /\ Flows /\ Keyed
      /\ \A x \in Ids : Placed(x)
      /\ inbox.queue = <<>> /\ deliver["inbox"].pc = "off" /\ exits # 0
      /\ user.pc = "reconnect" => deliver["user"].pc = "off"
  BY DEF MessagesInv, Closed, Paired, Paged
<1>2. /\ cli = Fresh /\ cli.held = {} /\ cli.turn = {} /\ cli.out = <<>> /\ \A u \in Uuids : ~Framed(u)
      /\ \A u \in entered : u \in Uuids /\ u[1] \in Ids /\ u = Uuid(u[1]) /\ msg[u[1]].place # "tray"
  <2>1. \A u \in Uuids : ~Has(inbox.queue, u)
    BY <1>1, NoFrames
  <2> QED
    BY <2>1, AllQuiet
<1>3. /\ msg' \in [Ids -> MessageState] /\ \A x \in Ids \ Tray : msg'[x] = msg[x]
      /\ \A x \in Tray : /\ msg'[x].place = "left" /\ msg'[x].key = msg[x].key /\ msg'[x].state = msg[x].state
                         /\ msg'[x].n = msg[x].n /\ msg'[x].intent = msg[x].intent
                         /\ msg'[x].withdrawn = msg[x].withdrawn
      /\ keys' \in [Keys -> {None} \cup Ids] /\ shown' = shown \ Tray
  BY <1>1, TrayDiscarded
<1>4. \A x \in Ids : /\ msg'[x].key = msg[x].key /\ msg'[x].n = msg[x].n /\ msg'[x].withdrawn = msg[x].withdrawn
                     /\ msg'[x].state = msg[x].state
                     /\ msg'[x].place # "tray" /\ (msg[x].place # "tray" => msg'[x] = msg[x])
                     /\ (msg'[x].place = "unused" <=> msg[x].place = "unused")
                     /\ Uuid(x)' = Uuid(x) /\ ~Queued(x)' /\ msg'[x].intent = msg[x].intent
  <2> TAKE x \in Ids
  <2>1. CASE x \in Tray
    BY <1>3, <2>1 DEF Tray, Uuid, Queued
  <2>2. CASE x \notin Tray
    BY <1>3, <2>2 DEF Tray, Uuid, Queued
  <2> QED
    BY <2>1, <2>2
<1>5. user' \in UserState /\ (user' = user \/ (user.pc = "reconnect" /\ user'.pc = "off"))
  BY <1>1, Nobody DEF MessagesTypeOK
<1>types. MessagesTypeOK'
  BY <1>1, <1>3, <1>5 DEF MessagesTypeOK
<1>lock. Locked'
  <2>1. \A q \in Procs : Wants(q)' <=> Wants(q)
    BY <1>1, <1>5 DEF Wants
  <2> QED
    BY <1>1, <2>1 DEF Locked, Holds
<1>paired. Paired'
  BY <1>1, <1>4, <1>5 DEF Paired, Asking
<1>commanded. Commanded'
  <2>1. Len(commands) = 0
    BY <1>1 DEF Closed
  <2> QED
    BY <2>1 DEF Commanded
<1>closed. Closed'
  BY <1>1, <1>2, <1>4, <1>5 DEF Closed
<1>frames. \A u \in Uuids : ~Framed(u)' /\ ~Started(u)'
  BY <1>1, <1>2, NoFrames DEF Framed, Started
<1>flows. Flows'
  BY <1>1, <1>2, <1>4, <1>frames, Named DEF Flows
<1>placed. \A x \in Ids : Placed(x)'
  <2> TAKE x \in Ids
  <2>1. \A q \in Procs : Delivers(q, x)' <=> Delivers(q, x)
    BY DEF Delivers
  <2>2. ~Delivers("inbox", x)
    BY <1>1 DEF Delivers
  <2>3. Away(Uuid(x)) => Away(Uuid(x))'
    BY <1>4, <1>frames, Named, <1>1 DEF Away
  <2> QED
    BY <1>1, <1>4, <2>1, <2>2, <2>3, Nobody DEF Placed
<1>keyed. Keyed'
  BY <1>1, <1>2, <1>4, KeyedKept
<1>wished. Wished'
  <2>1. \A x \in Ids : told'[x] = "withdrawn" \/ msg'[x].withdrawn => Out(x)'
    BY <1>1, <1>4 DEF Wished, Out
  <2>2. CASE user' = user
    <3>1. user.pc = "answered" => user.reply = "error"
      BY <1>1 DEF Closed
    <3>2. ~Delivers("inbox", user.id)'
      BY <1>1 DEF Delivers
    <3>3. Asking => user.id \in Ids
      BY <1>1 DEF Paired
    <3>4. Asking' <=> Asking
      BY <2>2 DEF Asking
    <3> QED
      BY <1>1, <1>4, <2>1, <2>2, <3>1, <3>2, <3>3, <3>4 DEF Wished
  <2>3. CASE user'.pc = "off"
    BY <2>1, <2>3 DEF Wished, Asking
  <2> QED
    BY <1>5, <2>2, <2>3
<1>paged. Paged'
  BY <1>1 DEF Paged
<1> QED
  BY <1>types, <1>lock, <1>paired, <1>commanded, <1>closed, <1>flows, <1>placed, <1>keyed, <1>wished, <1>paged DEF MessagesInv

LEMMA EvictedKeeps ==
  ASSUME MessagesInv, Evicted \/ ReconnectFails
  PROVE  MessagesInv'
<1>1. MessagesTypeOK /\ Closed /\ session \in SessionState
  BY DEF MessagesInv, MessagesTypeOK
<1>2. CASE Evicted
  <2>1. session' \in SessionState /\ ~session'.live /\ ~session'.evicting /\ session'.exited
    BY <1>1, <1>2 DEF Evicted, SessionState, Closed
  <2>2. failures' \in 0..MaxFailedWrites
    BY <1>1, <1>2 DEF Evicted, bounds, MessagesTypeOK
  <2> QED
    BY <1>1, <1>2, <2>1, <2>2, TrayEmptied DEF Evicted, Closed, bounds
<1>3. CASE ReconnectFails
  <2>1. session' \in SessionState /\ ~session'.live /\ ~session'.evicting /\ session'.exited
        /\ session.exited /\ inbox.pc = "done"
    BY <1>1, <1>3 DEF ReconnectFails, SessionState, Closed
  <2>2. failures' \in 0..MaxFailedWrites
    BY <1>1, <1>3, TrayAssumption DEF ReconnectFails, MessagesTypeOK
  <2> QED
    BY <1>1, <1>3, <2>1, <2>2, TrayEmptied DEF ReconnectFails
<1> QED
  BY <1>2, <1>3

LEMMA UnsentMoves ==
  ASSUME MessagesTypeOK, msg' = Unsent(msg)
  PROVE  /\ msg' \in [Ids -> MessageState]
         /\ \A x \in Ids : /\ msg'[x].key = msg[x].key /\ msg'[x].place = msg[x].place /\ msg'[x].n = msg[x].n
                           /\ msg'[x].withdrawn = msg[x].withdrawn /\ ~Queued(x)'
                           /\ ~Queued(x) => msg'[x] = msg[x]
<1>1. msg \in [Ids -> MessageState]
  BY DEF MessagesTypeOK
<1>2. ASSUME NEW x \in Ids
      PROVE  LET m == [msg[x] EXCEPT !.state = "unsent", !.intent = "none"]
             IN  /\ m \in MessageState /\ m.place = msg[x].place /\ m.key = msg[x].key /\ m.state = "unsent"
                 /\ m.n = msg[x].n /\ m.withdrawn = msg[x].withdrawn
  BY <1>1 DEF MessageState, Intents
<1>3. msg' = [x \in Ids |-> IF Queued(x) THEN [msg[x] EXCEPT !.state = "unsent", !.intent = "none"] ELSE msg[x]]
  BY DEF Unsent, Queued
<1>4. msg' \in [Ids -> MessageState]
  BY <1>1, <1>2, <1>3
<1>5. ASSUME NEW x \in Ids
      PROVE  /\ msg'[x].key = msg[x].key /\ msg'[x].place = msg[x].place /\ msg'[x].n = msg[x].n
             /\ msg'[x].withdrawn = msg[x].withdrawn /\ ~Queued(x)'
             /\ ~Queued(x) => msg'[x] = msg[x]
  <2>1. CASE Queued(x)
    BY <1>2, <1>3, <2>1 DEF Queued
  <2>2. CASE ~Queued(x)
    <3>1. msg'[x] = msg[x]
      BY <1>3, <2>2
    <3> QED
      BY <2>2, <3>1 DEF Queued
  <2> QED
    BY <2>1, <2>2
<1> QED
  BY <1>4, <1>5

(* The first notice of the inbox is taken. *)
LEMMA RestMoves ==
  ASSUME MessagesTypeOK, inbox.queue # <<>>
  PROVE  /\ RestOfInbox \in InboxWork /\ RestOfInbox.queue = Tail(inbox.queue)
         /\ RestOfInbox.pc = inbox.pc /\ RestOfInbox.id = inbox.id
<1>1. inbox \in InboxWork /\ Tail(inbox.queue) \in Seq(InboxNotice)
  BY DEF MessagesTypeOK, InboxWork
<1> QED
  BY <1>1 DEF RestOfInbox, InboxWork

LEMMA TakeExitNoticeKeeps ==
  ASSUME MessagesInv, TakeExitNotice
  PROVE  MessagesInv'
<1>1. /\ inbox.pc = "get" /\ inbox.queue # <<>> /\ Head(inbox.queue).kind = "exit"
      /\ msg' = Unsent(msg) /\ shown' = shown \cup {o \in Tray : msg[o].state = "queued"}
      /\ inbox' = [RestOfInbox EXCEPT !.pc = "done"]
      /\ UNCHANGED <<keys, known, hurried, log, session, cli, commands, lock, deliver, user, entered, told, bounds>>
  BY DEF TakeExitNotice, Comes
<1>2. /\ MessagesTypeOK /\ Locked /\ Paired /\ Commanded /\ Closed /\ Wished /\ Paged /\ Flows /\ Keyed
      /\ deliver["inbox"].pc = "off" /\ \A x \in Ids : Placed(x)
  BY <1>1 DEF MessagesInv, Paired
<1>3. inbox.queue \in Seq(InboxNotice) /\ inbox \in InboxWork
  BY <1>2 DEF MessagesTypeOK, InboxWork
<1>4. Len(inbox.queue) = 1 /\ inbox.queue[1].uuid = <<None, 0>> /\ session.exited
  <2>1. 1 \in 1..Len(inbox.queue) /\ inbox.queue[1].kind = "exit"
    BY <1>1, <1>3
  <2> QED
    BY <1>2, <2>1 DEF Closed
<1>5. /\ inbox' \in InboxWork /\ inbox'.pc = "done" /\ inbox'.queue = <<>>
  <2>1. PICK q \in Seq(InboxNotice) : q = inbox.queue
    BY <1>3
  <2>2. Len(q) = 1
    BY <1>4, <2>1
  <2>3. Tail(q) = <<>>
    <3>1. Tail(q) \in Seq(InboxNotice) /\ Len(Tail(q)) = 0
      BY <2>1, <2>2
    <3>2. PICK r \in Seq(InboxNotice) : r = Tail(q) /\ Len(r) = 0
      BY <3>1
    <3>3. r = <<>>
      BY <3>2
    <3> QED
      BY <3>2, <3>3
  <2>4. RestOfInbox \in InboxWork /\ RestOfInbox.queue = <<>>
    BY <1>1, <1>2, <2>1, <2>3, RestMoves
  <2> QED
    BY <1>1, <2>4 DEF InboxWork
<1>6. /\ cli = Fresh /\ cli.held = {} /\ cli.turn = {} /\ cli.out = <<>>
      /\ \A u \in entered : u \in Uuids /\ u[1] \in Ids /\ u = Uuid(u[1]) /\ msg[u[1]].place # "tray"
      /\ \A o \in Ids : msg[o].place = "tray" => Away(Uuid(o))
  <2>1. \A u \in Uuids : ~Has(inbox.queue, u)
    BY <1>2, <1>4, Named DEF Has
  <2> QED
    BY <1>1, <1>4, <2>1, AllQuiet
<1>7. /\ msg' \in [Ids -> MessageState]
      /\ \A x \in Ids : /\ msg'[x].key = msg[x].key /\ msg'[x].place = msg[x].place /\ msg'[x].n = msg[x].n
                        /\ msg'[x].withdrawn = msg[x].withdrawn /\ ~Queued(x)' /\ Uuid(x)' = Uuid(x)
                        /\ ~Queued(x) => msg'[x] = msg[x]
  BY <1>1, <1>2, UnsentMoves DEF Uuid
<1>types. MessagesTypeOK'
  <2>1. shown' \subseteq Ids
    BY <1>1, <1>2 DEF MessagesTypeOK, Tray
  <2> QED
    BY <1>1, <1>2, <1>5, <1>7, <2>1 DEF MessagesTypeOK, bounds
<1>lock. Locked'
  BY <1>1, <1>2 DEF Locked, Wants, Holds
<1>paired. Paired'
  BY <1>1, <1>2, <1>5, <1>7 DEF Paired, Asking
<1>commanded. Commanded'
  <2>1. Len(commands) = 0
    BY <1>2, <1>4 DEF Closed
  <2> QED
    BY <1>1, <2>1 DEF Commanded
<1>closed. Closed'
  BY <1>1, <1>2, <1>4, <1>5, <1>7 DEF Closed
<1>frames. \A u \in Uuids : ~Framed(u)' /\ ~Started(u)'
  BY <1>1, <1>5, <1>6, NoFrames DEF Framed, Started
<1>flows. Flows'
  BY <1>1, <1>2, <1>5, <1>6, <1>7, <1>frames, Named DEF Flows
<1>placed. \A x \in Ids : Placed(x)'
  <2> TAKE x \in Ids
  <2>1. \A q \in Procs : Delivers(q, x)' <=> Delivers(q, x)
    BY <1>1 DEF Delivers
  <2>2. ~Delivers("inbox", x)
    BY <1>2 DEF Delivers
  <2>3. Away(Uuid(x)) => Away(Uuid(x))'
    BY <1>1, <1>7, <1>frames, Named, <1>2 DEF Away
  <2>4. msg'[x].place = "unused" => msg'[x].state = "queued"
    BY <1>2, <1>7 DEF Placed, Queued
  <2> QED
    BY <1>1, <1>2, <1>4, <1>6, <1>7, <2>1, <2>2, <2>3, <2>4, Nobody DEF Placed
<1>keyed. Keyed'
  BY <1>1, <1>2, <1>6, <1>7, KeyedKept
<1>wished. Wished'
  <2>1. \A x \in Ids : told'[x] = "withdrawn" \/ msg'[x].withdrawn => Out(x)'
    BY <1>1, <1>2, <1>7 DEF Wished, Out
  <2>2. /\ user.pc = "answered" => user.reply = "error"
        /\ Asking => user.id \in Ids
        /\ Asking' <=> Asking
        /\ ~Delivers("inbox", user.id)'
    BY <1>1, <1>2, <1>4 DEF Closed, Paired, Asking, Delivers
  <2> QED
    BY <1>1, <1>2, <1>7, <2>1, <2>2 DEF Wished
<1>paged. Paged'
  BY <1>1, <1>2, <1>4 DEF Paged, bounds
<1> QED
  BY <1>types, <1>lock, <1>paired, <1>commanded, <1>closed, <1>flows, <1>placed, <1>keyed, <1>wished, <1>paged DEF MessagesInv

LEMMA ReconnectMoves ==
  ASSUME MessagesInv, Reconnect
  PROVE  /\ user.pc = "reconnect" /\ session.exited /\ inbox.pc = "done" /\ inbox.queue = <<>> /\ exits # 0
         /\ deliver["inbox"].pc = "off" /\ deliver["user"].pc = "off" /\ lock' = Append(lock, "user")
         /\ msg' \in [Ids -> MessageState] /\ keys' \in [Keys -> {None} \cup Ids] /\ known' \subseteq Ids
         /\ \A x \in Ids : /\ msg'[x].key = msg[x].key /\ msg'[x].place = msg[x].place /\ msg'[x].n = msg[x].n
                           /\ msg'[x].withdrawn = msg[x].withdrawn /\ ~Queued(x)' /\ Uuid(x)' = Uuid(x)
                           /\ ~Queued(x) => msg'[x] = msg[x]
                           /\ msg'[x].place = "tray" => keys' = keys
         /\ user' \in UserState /\ user'.pc \in {"look", "deliver"}
         /\ user'.pc = "look" => user'.op = "send"
         /\ user'.pc = "deliver" => user'.id \in Ids /\ msg[user'.id].place # "unused"
         /\ deliver' \in [Procs -> Delivery] /\ deliver'["inbox"] = deliver["inbox"]
         /\ user'.pc = "look" => deliver'["user"].pc = "off"
         /\ user'.pc = "deliver" => /\ deliver'["user"].pc = "wait" /\ deliver'["user"].how = "resend"
                                    /\ deliver'["user"].id = user'.id
<1>1. /\ user.pc = "reconnect" /\ (~session.live \/ (session.exited /\ inbox.pc = "done"))
      /\ lock' = Append(lock, "user")
      /\ IF session.live THEN msg' = Unsent(msg) /\ UNCHANGED <<keys, known>>
                         ELSE keys' = [k \in Keys |-> None] /\ known' = {} /\ UNCHANGED msg
  BY DEF Reconnect, Queue
<1>2. /\ MessagesTypeOK /\ Paired /\ Closed /\ Paged /\ user \in UserState /\ deliver \in [Procs -> Delivery]
  BY DEF MessagesInv, MessagesTypeOK
<1>3. session.exited /\ inbox.pc = "done" /\ inbox.queue = <<>> /\ exits # 0
  BY <1>1, <1>2 DEF Closed, Paged
<1>4. deliver["inbox"].pc = "off" /\ deliver["user"].pc = "off"
  BY <1>1, <1>2, <1>3 DEF Paired
<1>5. /\ msg' \in [Ids -> MessageState] /\ keys' \in [Keys -> {None} \cup Ids] /\ known' \subseteq Ids
      /\ \A x \in Ids : /\ msg'[x].key = msg[x].key /\ msg'[x].place = msg[x].place /\ msg'[x].n = msg[x].n
                        /\ msg'[x].withdrawn = msg[x].withdrawn /\ ~Queued(x)'
                        /\ ~Queued(x) => msg'[x] = msg[x]
                        /\ msg'[x].place = "tray" => keys' = keys
  <2>1. CASE session.live
    BY <1>1, <1>2, <2>1, UnsentMoves DEF MessagesTypeOK
  <2>2. CASE ~session.live
    <3>1. \A x \in Ids : msg[x].place # "tray"
      BY <1>2, <1>4, <2>2 DEF Closed
    <3> QED
      BY <1>1, <1>2, <2>2, <3>1 DEF MessagesTypeOK, Queued
  <2> QED
    BY <2>1, <2>2
<1>6. \A x \in Ids : Uuid(x)' = Uuid(x)
  BY <1>5 DEF Uuid
<1>7. CASE user.op = "send"
  <2>1. user' = [user EXCEPT !.pc = "look"] /\ deliver' = deliver
    BY <1>7 DEF Reconnect
  <2>2. user' \in UserState /\ user'.pc = "look" /\ user'.op = "send"
    BY <1>2, <1>7, <2>1 DEF UserState
  <2> QED
    BY <1>1, <1>2, <1>3, <1>5, <1>4, <1>6, <2>1, <2>2
<1>8. CASE user.op # "send"
  <2>1. /\ user' = [user EXCEPT !.pc = "deliver"]
        /\ deliver' = [deliver EXCEPT !["user"] = [pc |-> "wait", how |-> "resend", id |-> user.id, now |-> FALSE]]
    BY <1>8 DEF Reconnect
  <2>2. user.id \in Ids /\ msg[user.id].place # "unused"
    BY <1>1, <1>2, <1>8 DEF Paired
  <2>3. user' \in UserState /\ user'.pc = "deliver" /\ user'.id = user.id
    BY <1>2, <2>1 DEF UserState
  <2>4. /\ deliver' \in [Procs -> Delivery] /\ deliver'["inbox"] = deliver["inbox"]
        /\ deliver'["user"].pc = "wait" /\ deliver'["user"].how = "resend" /\ deliver'["user"].id = user.id
    BY <1>2, <2>1, <2>2, Nobody DEF Delivery
  <2> QED
    BY <1>1, <1>3, <1>4, <1>5, <1>6, <2>2, <2>3, <2>4
<1> QED
  BY <1>7, <1>8

LEMMA ReconnectKeeps ==
  ASSUME MessagesInv, Reconnect
  PROVE  MessagesInv'
<1>1. /\ user.pc = "reconnect" /\ session.exited /\ inbox.pc = "done" /\ inbox.queue = <<>> /\ exits # 0
      /\ deliver["inbox"].pc = "off" /\ deliver["user"].pc = "off" /\ lock' = Append(lock, "user")
      /\ msg' \in [Ids -> MessageState] /\ keys' \in [Keys -> {None} \cup Ids] /\ known' \subseteq Ids
      /\ \A x \in Ids : /\ msg'[x].key = msg[x].key /\ msg'[x].place = msg[x].place /\ msg'[x].n = msg[x].n
                        /\ msg'[x].withdrawn = msg[x].withdrawn /\ ~Queued(x)' /\ Uuid(x)' = Uuid(x)
                        /\ ~Queued(x) => msg'[x] = msg[x]
                        /\ msg'[x].place = "tray" => keys' = keys
  BY ReconnectMoves
<1>2. /\ user' \in UserState /\ user'.pc \in {"look", "deliver"}
      /\ user'.pc = "look" => user'.op = "send"
      /\ user'.pc = "deliver" => user'.id \in Ids /\ msg[user'.id].place # "unused"
      /\ deliver' \in [Procs -> Delivery] /\ deliver'["inbox"] = deliver["inbox"]
      /\ user'.pc = "look" => deliver'["user"].pc = "off"
      /\ user'.pc = "deliver" => /\ deliver'["user"].pc = "wait" /\ deliver'["user"].how = "resend"
                                 /\ deliver'["user"].id = user'.id
  BY ReconnectMoves
<1>3. /\ session' = [live |-> TRUE, exited |-> FALSE, evicting |-> FALSE]
      /\ cli' = Fresh /\ hurried' = {} /\ commands' = <<>>
      /\ inbox' = [pc |-> "get", queue |-> <<>>, id |-> None]
      /\ UNCHANGED <<log, shown, entered, told, bounds>>
  BY DEF Reconnect
<1>4. /\ MessagesTypeOK /\ Locked /\ Paired /\ Commanded /\ Closed /\ Wished /\ Paged /\ Flows /\ Keyed
      /\ \A x \in Ids : Placed(x)
  BY DEF MessagesInv
<1>5. /\ \A u \in entered : u \in Uuids /\ u[1] \in Ids /\ u = Uuid(u[1]) /\ msg[u[1]].place # "tray"
      /\ \A o \in Ids : msg[o].place = "tray" => Away(Uuid(o))
  <2>1. \A u \in Uuids : ~Has(inbox.queue, u)
    BY <1>1, NoFrames
  <2> QED
    BY <1>1, <2>1, AllQuiet
<1>6. /\ cli'.held = {} /\ cli'.turn = {} /\ cli'.out = <<>> /\ cli' \in CliState
      /\ session' \in SessionState /\ session'.live /\ ~session'.exited /\ ~session'.evicting
      /\ inbox' \in InboxWork /\ inbox'.pc = "get" /\ inbox'.queue = <<>>
  BY <1>3 DEF Fresh, CliState, SessionState, InboxWork
<1>lock. Locked'
  <2>1. ~Wants("user") /\ Wants("user")' /\ deliver'["user"].pc \notin {"write", "query", "failed"}
    BY <1>1, <1>2 DEF Wants
  <2>2. \A q \in Procs \ {"user"} : deliver'[q] = deliver[q] /\ (Wants(q)' <=> Wants(q))
    BY <1>2, Nobody DEF Wants
  <2> QED
    BY <1>1, <1>4, <2>1, <2>2, LockedKept, Nobody
<1>types. MessagesTypeOK'
  BY <1>1, <1>2, <1>3, <1>4, <1>6, <1>lock DEF MessagesTypeOK, Locked, LockStates, bounds
<1>paired. Paired'
  BY <1>1, <1>2, <1>6, Nobody DEF Paired, Asking
<1>commanded. Commanded'
  <2>1. Len(commands') = 0
    BY <1>3
  <2> QED
    BY <2>1 DEF Commanded
<1>closed. Closed'
  BY <1>6 DEF Closed
<1>frames. \A u \in Uuids : ~Framed(u)' /\ ~Started(u)'
  BY <1>6, NoFrames DEF Framed, Started
<1>flows. Flows'
  <2>1. IsFiniteSet(cli'.held) /\ IsFiniteSet(cli'.turn)
    BY <1>6, FS_EmptySet
  <2>2. \A u \in entered : u[2] = msg'[u[1]].n /\ msg'[u[1]].place # "tray" /\ msg'[u[1]].place # "unused"
    BY <1>1, <1>4, <1>5 DEF Flows
  <2>3. \A u \in entered : u[2] <= msg'[u[1]].n
    BY <1>4, <1>5, <2>2, Named
  <2> QED
    BY <1>3, <1>6, <1>frames, <2>1, <2>2, <2>3 DEF Flows
<1>placed. \A x \in Ids : Placed(x)'
  <2> TAKE x \in Ids
  <2>1. \A q \in Procs : ~Delivers(q, x)'
    BY <1>1, <1>2, Nobody DEF Delivers
  <2>2. Away(Uuid(x)) => Away(Uuid(x))'
    BY <1>1, <1>3, <1>4, <1>6, <1>frames, Named DEF Away
  <2>3. msg'[x].place = "unused" => msg'[x].state = "queued"
    BY <1>1, <1>4 DEF Placed, Queued
  <2> QED
    BY <1>1, <1>5, <2>1, <2>2, <2>3, Nobody DEF Placed
<1>keyed. Keyed'
  BY <1>1, <1>3, <1>4, <1>5, KeyedKept
<1>wished. Wished'
  <2>1. \A x \in Ids : told'[x] = "withdrawn" \/ msg'[x].withdrawn => Out(x)'
    BY <1>1, <1>3, <1>4 DEF Wished, Out
  <2> QED
    BY <1>2, <2>1 DEF Wished, Asking
<1>paged. Paged'
  BY <1>1, <1>3 DEF Paged, bounds
<1> QED
  BY <1>types, <1>lock, <1>paired, <1>commanded, <1>closed, <1>flows, <1>placed, <1>keyed, <1>wished, <1>paged DEF MessagesInv

(* The actor ends: a notice of it is behind the frames it has read. *)
LEMMA ActorEndsMoves ==
  ASSUME MessagesInv, NEW evicting \in BOOLEAN, ActorEnds(evicting)
  PROVE  /\ ~session.exited /\ user.pc # "answered" /\ cli.out = <<>> /\ cli' = Fresh /\ commands' = <<>>
         /\ session' \in SessionState /\ session'.live = session.live /\ session'.exited /\ session'.evicting = evicting
         /\ user' \in UserState /\ user'.op = user.op /\ user'.id = user.id /\ user'.n = user.n
         /\ IF user.pc = "asked" THEN user'.pc = "answered" /\ user'.reply = "error" ELSE user' = user
         /\ deliver' \in [Procs -> Delivery]
         /\ \A p \in Procs : /\ deliver'[p].id = deliver[p].id /\ deliver'[p].how = deliver[p].how
                             /\ deliver'[p].pc = IF deliver[p].pc = "query" THEN "failed" ELSE deliver[p].pc
         /\ inbox' \in InboxWork /\ inbox'.pc = inbox.pc /\ inbox'.id = inbox.id
         /\ inbox'.queue = Append(inbox.queue, [kind |-> "exit", uuid |-> <<None, 0>>, preempted |-> FALSE])
         /\ UNCHANGED <<msg, keys, known, hurried, log, shown, lock, entered, told>>
<1> DEFINE notice == [kind |-> "exit", uuid |-> <<None, 0>>, preempted |-> FALSE]
<1>1. /\ ~session.exited /\ user.pc # "answered" /\ cli.out = <<>> /\ cli' = Fresh /\ commands' = <<>>
      /\ session' = [session EXCEPT !.exited = TRUE, !.evicting = evicting]
      /\ user' = IF user.pc = "asked" THEN [user EXCEPT !.pc = "answered", !.reply = "error"] ELSE user
      /\ deliver' = [p \in Procs |-> IF deliver[p].pc = "query" THEN [deliver[p] EXCEPT !.pc = "failed"] ELSE deliver[p]]
      /\ inbox' = [inbox EXCEPT !.queue = Append(inbox.queue, notice)]
      /\ UNCHANGED <<msg, keys, known, hurried, log, shown, lock, entered, told>>
  BY DEF ActorEnds
<1>2. session \in SessionState /\ user \in UserState /\ deliver \in [Procs -> Delivery] /\ inbox \in InboxWork
  BY DEF MessagesInv, MessagesTypeOK
<1>3. notice \in InboxNotice
  BY DEF InboxNotice, None
<1> HIDE DEF notice
<1>4. session' \in SessionState /\ session'.live = session.live /\ session'.exited /\ session'.evicting = evicting
  BY <1>1, <1>2 DEF SessionState
<1>5. /\ user' \in UserState /\ user'.op = user.op /\ user'.id = user.id /\ user'.n = user.n
      /\ IF user.pc = "asked" THEN user'.pc = "answered" /\ user'.reply = "error" ELSE user' = user
  BY <1>1, <1>2 DEF UserState
<1>6. /\ deliver' \in [Procs -> Delivery]
      /\ \A p \in Procs : /\ deliver'[p].id = deliver[p].id /\ deliver'[p].how = deliver[p].how
                          /\ deliver'[p].pc = IF deliver[p].pc = "query" THEN "failed" ELSE deliver[p].pc
  BY <1>1, <1>2 DEF Delivery
<1>7. /\ inbox' \in InboxWork /\ inbox'.pc = inbox.pc /\ inbox'.id = inbox.id
      /\ inbox'.queue = Append(inbox.queue, notice)
  <2>1. Append(inbox.queue, notice) \in Seq(InboxNotice)
    BY <1>2, <1>3 DEF InboxWork
  <2> QED
    BY <1>1, <1>2, <2>1 DEF InboxWork
<1> QED
  BY <1>1, <1>4, <1>5, <1>6, <1>7 DEF notice

LEMMA ActorEndsKeeps ==
  ASSUME MessagesInv, NEW evicting \in BOOLEAN, ActorEnds(evicting), session.live,
         exits' \in 1..MaxExits, UNCHANGED <<requests, refusals, failures>>
  PROVE  MessagesInv'
<1> DEFINE notice == [kind |-> "exit", uuid |-> <<None, 0>>, preempted |-> FALSE]
<1>1. /\ ~session.exited /\ user.pc # "answered" /\ cli.out = <<>> /\ cli' = Fresh /\ commands' = <<>>
      /\ session' \in SessionState /\ session'.live /\ session'.exited
      /\ user' \in UserState /\ user'.op = user.op /\ user'.id = user.id /\ user'.n = user.n
      /\ IF user.pc = "asked" THEN user'.pc = "answered" /\ user'.reply = "error" ELSE user' = user
      /\ UNCHANGED <<msg, keys, known, hurried, log, shown, lock, entered, told>>
  BY ActorEndsMoves
<1>2. /\ deliver' \in [Procs -> Delivery]
      /\ \A p \in Procs : /\ deliver'[p].id = deliver[p].id /\ deliver'[p].how = deliver[p].how
                          /\ deliver'[p].pc = IF deliver[p].pc = "query" THEN "failed" ELSE deliver[p].pc
      /\ inbox' \in InboxWork /\ inbox'.pc = inbox.pc /\ inbox'.id = inbox.id
      /\ inbox'.queue = Append(inbox.queue, notice)
  BY ActorEndsMoves
<1>3. notice \in InboxNotice /\ notice.kind = "exit" /\ notice.uuid = <<None, 0>>
  BY DEF InboxNotice, None
<1> HIDE DEF notice
<1>4. /\ MessagesTypeOK /\ Locked /\ Paired /\ Commanded /\ Closed /\ Wished /\ Paged /\ Flows /\ Keyed
      /\ inbox.queue \in Seq(InboxNotice) /\ \A x \in Ids : Placed(x)
  BY DEF MessagesInv, MessagesTypeOK, InboxWork
<1>5. /\ cli'.held = {} /\ cli'.turn = {} /\ cli'.out = <<>> /\ cli' \in CliState
      /\ \A x : Uuid(x)' = Uuid(x) /\ (Queued(x)' <=> Queued(x)) /\ (Logging(x)' <=> Logging(x))
      /\ \A p \in Procs : \A x : Delivers(p, x)' <=> Delivers(p, x)
      /\ Asking' <=> Asking
  <2>1. cli'.held = {} /\ cli'.turn = {} /\ cli'.out = <<>> /\ cli' \in CliState
    BY <1>1 DEF Fresh, CliState
  <2>2. \A x : Uuid(x)' = Uuid(x) /\ (Queued(x)' <=> Queued(x)) /\ (Logging(x)' <=> Logging(x))
    BY <1>1, <1>2 DEF Uuid, Queued, Logging
  <2>3. \A p \in Procs : \A x : Delivers(p, x)' <=> Delivers(p, x)
    BY <1>2 DEF Delivers
  <2>4. Asking' <=> Asking
    BY <1>1 DEF Asking
  <2> QED
    BY <2>1, <2>2, <2>3, <2>4
<1>frames. \A u \in Uuids : /\ Framed(u)' <=> Framed(u)
                            /\ Started(u)' <=> Started(u)
                            /\ Heralded(u) => Heralded(u)'
  <2> TAKE u \in Uuids
  <2>1. ~Has(cli.out, u) /\ ~SaysStarted(cli.out, u) /\ ~Opens(cli.out, u)
    BY <1>1, NoFrames
  <2>2. ~Has(cli'.out, u) /\ ~SaysStarted(cli'.out, u)
    BY <1>5, NoFrames
  <2>3. notice.uuid # u
    BY <1>3, <1>4, Named
  <2>4. /\ Has(inbox'.queue, u) <=> Has(inbox.queue, u)
        /\ SaysStarted(inbox'.queue, u) <=> SaysStarted(inbox.queue, u)
        /\ Opens(inbox.queue, u) => Opens(inbox'.queue, u)
    <3>1. PICK q \in Seq(InboxNotice), r \in {inbox'.queue} : q = inbox.queue /\ r = inbox'.queue /\ r = Append(q, notice)
      BY <1>2, <1>4
    <3>2. /\ Has(Append(q, notice), u) <=> Has(q, u) \/ notice.uuid = u
          /\ SaysStarted(Append(q, notice), u) <=> SaysStarted(q, u) \/ (notice.uuid = u /\ notice.kind = "started")
          /\ Opens(q, u) => Opens(Append(q, notice), u)
      BY <1>3, FrameAppended
    <3> QED
      BY <1>3, <2>3, <3>1, <3>2
  <2> QED
    BY <2>1, <2>2, <2>4 DEF Framed, Started, Heralded
<1>lock. Locked'
  <2>1. \A q \in Procs : Wants(q)' <=> Wants(q)
    BY <1>1, <1>2 DEF Wants
  <2>2. \A q \in Procs : deliver'[q].pc \in {"write", "query", "failed"} => Holds(q)'
    BY <1>1, <1>2, <1>4 DEF Locked, Holds
  <2> QED
    BY <1>1, <1>4, <2>1, <2>2 DEF Locked
<1>types. MessagesTypeOK'
  BY <1>1, <1>2, <1>4, <1>5 DEF MessagesTypeOK
<1>paired. Paired'
  BY <1>1, <1>2, <1>4, <1>5, Nobody DEF Paired
<1>commanded. Commanded'
  <2>1. Len(commands') = 0
    BY <1>1
  <2> QED
    BY <2>1 DEF Commanded
<1>closed. Closed'
  <2>1. \A i \in 1..Len(inbox'.queue) : \/ i \in 1..Len(inbox.queue) /\ inbox'.queue[i] = inbox.queue[i]
                                        \/ i = Len(inbox'.queue) /\ inbox'.queue[i] = notice
    BY <1>2, <1>3, <1>4
  <2>2. \A i \in 1..Len(inbox.queue) : inbox.queue[i].kind # "exit"
    BY <1>1, <1>4 DEF Closed
  <2>3. \A i \in 1..Len(inbox'.queue) :
          /\ inbox'.queue[i].kind = "exit" => i = Len(inbox'.queue) /\ inbox'.queue[i].uuid = <<None, 0>>
          /\ inbox'.queue[i].kind # "exit" => inbox'.queue[i].uuid \in Uuids
    BY <1>3, <1>4, <2>1, <2>2 DEF Closed
  <2>4. inbox'.pc # "done"
    BY <1>1, <1>2, <1>4 DEF Closed
  <2>5. /\ user'.pc # "asked" /\ (user'.pc = "answered" => user'.reply = "error")
        /\ \A p \in Procs : deliver'[p].pc # "query"
    BY <1>1, <1>2
  <2> QED
    BY <1>1, <2>3, <2>4, <2>5 DEF Closed
<1>flows. Flows'
  <2>1. IsFiniteSet(cli'.held) /\ IsFiniteSet(cli'.turn)
    BY <1>5, FS_EmptySet
  <2>2. entered \subseteq Uuids
    BY <1>4 DEF MessagesTypeOK
  <2>3. \A u \in Uuids : u \in cli'.held \/ u \in entered \/ Framed(u)' => msg[u[1]].place # "unused" /\ u[2] <= msg[u[1]].n
    BY <1>4, <1>5, <1>frames DEF Flows
  <2>4. \A u \in entered : /\ u[2] = msg[u[1]].n
                           /\ msg[u[1]].place = "tray" => Heralded(u)' \/ Logging(u[1])'
    BY <1>4, <1>5, <1>frames, <2>2 DEF Flows
  <2>5. \A u \in Uuids : Started(u)' => u \in entered
    BY <1>4, <1>frames DEF Flows
  <2>6. inbox'.pc = "log" => inbox'.id \in Ids /\ msg[inbox'.id].place = "tray" /\ Uuid(inbox.id)' \in entered
    BY <1>2, <1>4, <1>5 DEF Flows
  <2> QED
    BY <1>1, <1>2, <1>5, <2>1, <2>3, <2>4, <2>5, <2>6 DEF Flows
<1>placed. \A x \in Ids : Placed(x)'
  <2> TAKE x \in Ids
  <2>1. Away(Uuid(x)) => Away(Uuid(x))'
    BY <1>1, <1>4, <1>5, <1>frames, Named DEF Away
  <2> QED
    BY <1>1, <1>4, <1>5, <2>1, Nobody DEF Placed
<1>keyed. Keyed'
  BY <1>1, <1>4, KeyedKept
<1>wished. Wished'
  <2>1. \A x \in Ids : told'[x] = "withdrawn" \/ msg'[x].withdrawn => Out(x)'
    BY <1>1, <1>4 DEF Wished, Out, Uuid
  <2>a. /\ Queued(user.id)' <=> Queued(user.id)
        /\ Delivers("inbox", user.id)' <=> Delivers("inbox", user.id)
        /\ Holds("inbox")' <=> Holds("inbox")
    BY <1>1, <1>2, Nobody DEF Queued, Delivers, Holds
  <2>2. Asking' /\ user'.op \in {"edit", "delete"} =>
           msg'[user'.id].n = user'.n /\ (Queued(user.id)' => msg'[user'.id].intent = user'.op)
    BY <1>1, <1>4, <1>5, <2>a DEF Wished
  <2>3. Asking' /\ msg'[user'.id].n = user'.n /\ Delivers("inbox", user.id)' => user'.pc = "cancel" /\ Holds("inbox")'
    BY <1>1, <1>4, <1>5, <2>a DEF Wished
  <2>4. user'.pc = "answered" => user'.reply = "error"
    BY <1>1
  <2> QED
    BY <2>1, <2>2, <2>3, <2>4 DEF Wished
<1>paged. Paged'
  BY DEF Paged
<1> QED
  BY <1>types, <1>lock, <1>paired, <1>commanded, <1>closed, <1>flows, <1>placed, <1>keyed, <1>wished, <1>paged DEF MessagesInv

LEMMA ActorExitsKeeps ==
  ASSUME MessagesInv, ActorExits \/ Evict
  PROVE  MessagesInv'
<1>1. exits \in 0..MaxExits /\ MaxExits \in Nat /\ MessagesTypeOK
  BY TrayAssumption DEF MessagesInv, MessagesTypeOK
<1>2. CASE ActorExits
  <2>1. exits' \in 1..MaxExits
    BY <1>1, <1>2 DEF ActorExits
  <2> QED
    BY <1>2, <2>1, ActorEndsKeeps DEF ActorExits
<1>3. CASE Evict /\ ~session.exited
  <2>1. exits' \in 1..MaxExits
    BY <1>1, <1>3 DEF Evict
  <2> QED
    BY <1>3, <2>1, ActorEndsKeeps DEF Evict
<1>4. CASE Evict /\ session.exited
  <2>1. /\ session.live /\ exits' \in 1..MaxExits /\ session' = [session EXCEPT !.evicting = TRUE]
        /\ UNCHANGED <<msg, keys, known, hurried, log, shown, cli, commands, lock, deliver, user, inbox, entered, told,
                       requests, refusals, failures>>
    BY <1>1, <1>4 DEF Evict
  <2>2. /\ MessagesTypeOK /\ Locked /\ Paired /\ Commanded /\ Closed /\ Wished /\ Paged /\ Flows /\ Keyed
        /\ \A x \in Ids : Placed(x)
    BY DEF MessagesInv
  <2>3. session' \in SessionState /\ session'.live /\ session'.exited
    BY <1>4, <2>1, <2>2 DEF MessagesTypeOK, SessionState
  <2>types. MessagesTypeOK'
    BY <2>1, <2>2, <2>3 DEF MessagesTypeOK
  <2>lock. Locked'
    BY <2>1, <2>2 DEF Locked, Wants, Holds
  <2>paired. Paired'
    BY <2>1, <2>2 DEF Paired, Asking
  <2>commanded. Commanded'
    BY <2>1, <2>2 DEF Commanded, Uuid
  <2>closed. Closed'
    BY <1>4, <2>1, <2>2, <2>3 DEF Closed
  <2>frames. \A u \in Uuids : /\ Framed(u)' <=> Framed(u)
                              /\ Started(u)' <=> Started(u)
                              /\ Heralded(u)' <=> Heralded(u)
    BY <2>1 DEF Framed, Started, Heralded
  <2>flows. Flows'
    <3>1. LogsOn
      BY <2>1, <2>2 DEF LogsOn, Flows
    <3>2. OnlyFrame(<<None, 0>>) /\ <<None, 0>> \notin entered
      BY <2>1, <2>2, FramesStay, Named DEF MessagesTypeOK
    <3>3. \A u \in cli.held : Queued(u[1])'
      BY <2>1, <2>2 DEF Flows, Queued
    <3>4. \A x \in Ids : msg'[x].n \in Nat
      BY <2>1, <2>2, Named
    <3> QED
      BY <2>1, <2>2, <3>1, <3>2, <3>3, <3>4, FlowsKept
  <2>placed. \A x \in Ids : Placed(x)'
    <3> TAKE x \in Ids
    <3>1. Uuid(x)' = Uuid(x) /\ (Framed(Uuid(x))' <=> Framed(Uuid(x)))
      <4>1. Uuid(x)' = Uuid(x)
        BY <2>1 DEF Uuid
      <4> QED
        BY <2>1, <4>1 DEF Framed
    <3>2. \A q \in Procs : Delivers(q, x)' <=> Delivers(q, x)
      BY <2>1 DEF Delivers
    <3> QED
      BY <1>4, <2>1, <2>2, <2>3, <3>1, <3>2, PlacedKept DEF Logging
  <2>keyed. Keyed'
    BY <2>1, <2>2, KeyedKept
  <2>wished. Wished'
    <3>1. /\ \A x : Out(x)' <=> Out(x)
          /\ Asking' <=> Asking
          /\ Holds("inbox")' <=> Holds("inbox")
          /\ \A x : Uuid(x)' = Uuid(x)
          /\ \A x : Queued(x)' <=> Queued(x)
      BY <2>1 DEF Out, Asking, Holds, Uuid, Queued
    <3>2. Delivers("inbox", user.id)' <=> Delivers("inbox", user.id)
      BY <2>1 DEF Delivers
    <3> QED
      BY <2>1, <2>2, <3>1, <3>2 DEF Wished
  <2>paged. Paged'
    BY <2>1 DEF Paged
  <2> QED
    BY <2>types, <2>lock, <2>paired, <2>commanded, <2>closed, <2>flows, <2>placed, <2>keyed, <2>wished, <2>paged DEF MessagesInv
<1> QED
  BY <1>2, <1>3, <1>4

(* Frames are written for some of what the CLI holds, and of what it took before. *)
FramesWritten(S) ==
    \A u \in Uuids : /\ Framed(u)' <=> Framed(u) \/ u \in S
                     /\ Started(u)' <=> Started(u)
                     /\ Heralded(u) => Heralded(u)'

LEMMA FrameWritten ==
  ASSUME MessagesInv, NEW u \in cli.held, NEW kind \in Ends, inbox' = inbox,
         cli'.out = Append(cli.out, [uuid |-> u, kind |-> kind])
  PROVE  /\ cli'.out \in Seq(CliFrame)
         /\ \A w \in Uuids : /\ Framed(w)' <=> Framed(w) \/ w = u
                             /\ Started(w)' <=> Started(w) \/ (w = u /\ kind = "started")
                             /\ Heralded(w) => Heralded(w)'
         /\ kind = "started" => Heralded(u)'
<1> DEFINE f == [uuid |-> u, kind |-> kind]
<1>1. u \in Uuids /\ ~Framed(u) /\ cli.out \in Seq(CliFrame)
  BY DEF MessagesInv, MessagesTypeOK, CliState, Flows
<1>2. f \in CliFrame /\ f.uuid = u /\ f.kind = kind
  BY <1>1 DEF CliFrame
<1> HIDE DEF f
<1>3. PICK q \in Seq(CliFrame) : q = cli.out
  BY <1>1
<1>4. \A w : /\ Append(q, f) \in Seq(CliFrame)
             /\ Has(Append(q, f), w) <=> Has(q, w) \/ f.uuid = w
             /\ SaysStarted(Append(q, f), w) <=> SaysStarted(q, w) \/ (f.uuid = w /\ f.kind = "started")
             /\ Opens(q, w) => Opens(Append(q, f), w)
             /\ ~Has(q, w) /\ f.uuid = w /\ f.kind = "started" => Opens(Append(q, f), w)
  BY <1>2, FrameAppended
<1>5. cli'.out = Append(q, f)
  BY <1>3 DEF f
<1>6. \A w \in Uuids : /\ Framed(w)' <=> Framed(w) \/ w = u
                       /\ Started(w)' <=> Started(w) \/ (w = u /\ kind = "started")
                       /\ Heralded(w) => Heralded(w)'
  BY <1>2, <1>3, <1>4, <1>5 DEF Framed, Started, Heralded
<1>7. kind = "started" => Heralded(u)'
  BY <1>1, <1>2, <1>3, <1>5, <1>4 DEF Framed, Heralded
<1> QED
  BY <1>4, <1>5, <1>6, <1>7

LEMMA HeldGo ==
  ASSUME MessagesInv, NEW S, \A u \in S : u \in cli.held \/ u \in entered, FramesWritten(S),
         cli'.held = cli.held \ S, cli'.turn \subseteq cli.turn,
         UNCHANGED <<msg, session, deliver, inbox, entered>>
  PROVE  Flows' /\ (\A x \in Ids : Placed(x)')
<1>1. /\ MessagesTypeOK /\ Flows /\ (\A x \in Ids : Placed(x)) /\ entered \subseteq Uuids /\ cli.held \subseteq Uuids
      /\ \A x \in Ids : Uuid(x) \in Uuids
  BY Named DEF MessagesInv, MessagesTypeOK, CliState
<1>2. /\ \A x : Uuid(x)' = Uuid(x) /\ (Queued(x)' <=> Queued(x)) /\ (Logging(x)' <=> Logging(x))
      /\ \A p \in Procs : \A x : Delivers(p, x)' <=> Delivers(p, x)
  BY DEF Uuid, Queued, Logging, Delivers
<1>3. \A u \in Uuids : /\ Framed(u)' <=> Framed(u) \/ u \in S
                       /\ Started(u)' <=> Started(u)
                       /\ Heralded(u) => Heralded(u)'
  BY DEF FramesWritten
<1>4. Flows'
  <2>1. IsFiniteSet(cli'.held) /\ IsFiniteSet(cli'.turn)
    BY <1>1, FS_Subset DEF Flows
  <2>2. \A u \in Uuids : u \in cli'.held \/ u \in entered \/ Framed(u)' => msg[u[1]].place # "unused" /\ u[2] <= msg[u[1]].n
    BY <1>1, <1>3 DEF Flows
  <2>3. \A u \in cli'.held : Queued(u[1])' /\ u[2] = msg[u[1]].n /\ u \notin entered /\ ~Framed(u)'
    BY <1>1, <1>2, <1>3 DEF Flows
  <2>4. \A u \in entered : /\ u[2] = msg[u[1]].n
                           /\ msg[u[1]].place = "tray" => Heralded(u)' \/ Logging(u[1])'
    BY <1>1, <1>2, <1>3 DEF Flows
  <2>5. \A u \in Uuids : Started(u)' => u \in entered
    BY <1>1, <1>3 DEF Flows
  <2>6. inbox.pc = "log" => inbox.id \in Ids /\ msg[inbox.id].place = "tray" /\ Uuid(inbox.id)' \in entered
    BY <1>1 DEF Flows, Uuid
  <2>7. cli'.turn \subseteq entered
    BY <1>1 DEF Flows
  <2> QED
    BY <2>1, <2>2, <2>3, <2>5, <2>4, <2>6, <2>7 DEF Flows
<1>5. \A x \in Ids : Placed(x)'
  <2> TAKE x \in Ids
  <2>1. Away(Uuid(x)) => Away(Uuid(x))'
    BY <1>1, <1>2, <1>3 DEF Away
  <2>2. Uuid(x) \in cli.held \/ Framed(Uuid(x)) => Uuid(x)' \in cli'.held \/ Framed(Uuid(x))'
    BY <1>1, <1>2, <1>3
  <2> QED
    BY <1>1, <1>2, <2>1, <2>2, Nobody DEF Placed
<1> QED
  BY <1>4, <1>5

LEMMA CliOnly ==
  ASSUME MessagesInv, ~session.exited, NEW S, \A u \in S : u \in cli.held \/ u \in entered, FramesWritten(S),
         cli' \in CliState, cli'.held = cli.held \ S, cli'.turn \subseteq cli.turn, refusals' \in 0..MaxRefusals,
         UNCHANGED <<msg, keys, known, hurried, log, shown, session, commands, lock, deliver, user, inbox, entered,
                     told, requests, exits, failures>>
  PROVE  MessagesInv'
<1>1. /\ MessagesTypeOK /\ Locked /\ Paired /\ Commanded /\ Closed /\ Wished /\ Paged /\ Flows /\ Keyed
  BY DEF MessagesInv
<1>types. MessagesTypeOK'
  BY <1>1 DEF MessagesTypeOK
<1>lock. Locked'
  BY <1>1 DEF Locked, Wants, Holds
<1>paired. Paired'
  BY <1>1 DEF Paired, Asking
<1>commanded. Commanded'
  BY <1>1 DEF Commanded, Uuid
<1>closed. Closed'
  BY <1>1 DEF Closed
<1>flows. Flows' /\ (\A x \in Ids : Placed(x)')
  BY HeldGo
<1>keyed. Keyed'
  BY <1>1, KeyedKept
<1>wished. Wished'
  <2>1. /\ \A x : Out(x)' <=> Out(x)
        /\ Asking' <=> Asking
        /\ Holds("inbox")' <=> Holds("inbox")
        /\ \A x : Uuid(x)' = Uuid(x)
        /\ \A x : Queued(x)' <=> Queued(x)
    BY DEF Out, Asking, Holds, Uuid, Queued
  <2>2. /\ Delivers("inbox", user.id)' <=> Delivers("inbox", user.id)
        /\ Uuid(user.id)' = Uuid(user.id)
    BY DEF Delivers, Uuid
  <2> QED
    BY <1>1, <2>1, <2>2 DEF Wished
<1>paged. Paged'
  BY <1>1 DEF Paged, Tray
<1> QED
  BY <1>types, <1>lock, <1>paired, <1>commanded, <1>closed, <1>flows, <1>keyed, <1>wished, <1>paged DEF MessagesInv

LEMMA RefuseKeeps ==
  ASSUME MessagesInv, NEW u \in cli.held, Refuse(u)
  PROVE  MessagesInv'
<1>1. /\ ~session.exited /\ refusals < MaxRefusals /\ refusals' = refusals + 1
      /\ cli' = [cli EXCEPT !.held = cli.held \ {u}, !.out = Append(cli.out, [uuid |-> u, kind |-> "refused"])]
      /\ UNCHANGED <<msg, keys, known, hurried, log, shown, session, commands, lock, deliver, user, inbox, entered,
                     told, requests, exits, failures>>
  BY DEF Refuse
<1>2. cli \in CliState /\ refusals' \in 0..MaxRefusals
  BY <1>1, TrayAssumption DEF MessagesInv, MessagesTypeOK
<1>3. cli'.held = cli.held \ {u} /\ cli'.turn = cli.turn /\ cli'.out = Append(cli.out, [uuid |-> u, kind |-> "refused"])
  BY <1>1, <1>2 DEF CliState
<1>4. FramesWritten({u}) /\ cli'.out \in Seq(CliFrame)
  BY <1>1, <1>3, FrameWritten DEF FramesWritten, Ends
<1>5. cli' \in CliState
  BY <1>1, <1>2, <1>3, <1>4 DEF CliState
<1> QED
  BY <1>1, <1>2, <1>3, <1>5, <1>4, CliOnly

LEMMA EndTurnKeeps ==
  ASSUME MessagesInv, EndTurn
  PROVE  MessagesInv'
<1>1. /\ ~session.exited /\ cli' = [cli EXCEPT !.turn = {}]
      /\ UNCHANGED <<msg, keys, known, hurried, log, shown, session, commands, lock, deliver, user, inbox, entered,
                     told, bounds>>
  BY DEF EndTurn
<1>2. cli \in CliState /\ refusals \in 0..MaxRefusals
  BY DEF MessagesInv, MessagesTypeOK
<1>3. cli' \in CliState /\ cli'.held = cli.held \ {} /\ cli'.turn = {} /\ cli'.out = cli.out
  BY <1>1, <1>2 DEF CliState
<1>4. FramesWritten({})
  BY <1>1, <1>3 DEF FramesWritten, Framed, Started, Heralded
<1> QED
  BY <1>1, <1>2, <1>3, <1>4, CliOnly DEF bounds

LEMMA InterruptKeeps ==
  ASSUME MessagesInv, Interrupt
  PROVE  MessagesInv'
<1>1. /\ ~session.exited
      /\ UNCHANGED <<msg, keys, known, hurried, log, shown, session, commands, lock, deliver, user, inbox, entered,
                     told, bounds>>
  BY DEF Interrupt
<1>2. PICK dropped \in SUBSET (cli.held \ hurried) :
           cli' = [held |-> cli.held \ dropped, turn |-> {},
                   out |-> cli.out \o [i \in 1..Cardinality(cli.turn \cup dropped) |->
                       [uuid |-> SetToSeq(cli.turn \cup dropped)[i], kind |-> "cancelled"]]]
  BY DEF Interrupt
<1>3. /\ cli \in CliState /\ refusals \in 0..MaxRefusals /\ Flows
  BY DEF MessagesInv, MessagesTypeOK
<1>4. PICK S \in SUBSET Uuids : S = cli.turn \cup dropped
  BY <1>3 DEF CliState
<1>5. IsFiniteSet(S)
  <2>1. IsFiniteSet(cli.turn) /\ IsFiniteSet(dropped)
    BY <1>3, FS_Subset DEF Flows
  <2> QED
    BY <1>4, <2>1, FS_Union
<1>6. PICK q \in Seq(CliFrame) : q = cli.out
  BY <1>3 DEF CliState
<1> DEFINE r == q \o [i \in 1..Cardinality(S) |-> [uuid |-> SetToSeq(S)[i], kind |-> "cancelled"]]
<1>7. cli'.held = cli.held \ dropped /\ cli'.turn = {} /\ cli'.out = r /\ cli' = [held |-> cli.held \ dropped, turn |-> {}, out |-> r]
  BY <1>2, <1>4, <1>6
<1>8. \A u : /\ r \in Seq(CliFrame)
             /\ Has(r, u) <=> Has(q, u) \/ u \in S
             /\ SaysStarted(r, u) <=> SaysStarted(q, u)
             /\ Opens(q, u) => Opens(r, u)
  BY <1>5, FramesDropped
<1> HIDE DEF r
<1>9. FramesWritten(S)
  BY <1>1, <1>6, <1>7, <1>8 DEF FramesWritten, Framed, Started, Heralded
<1>10. cli' \in CliState
  BY <1>3, <1>7, <1>8 DEF CliState
<1>11. /\ \A u \in S : u \in cli.held \/ u \in entered
       /\ cli'.held = cli.held \ S
  BY <1>3, <1>4, <1>7 DEF Flows
<1> QED
  BY <1>1, <1>3, <1>7, <1>9, <1>10, <1>11, CliOnly DEF bounds

LEMMA TakeKeeps ==
  ASSUME MessagesInv, NEW u \in cli.held, Take(u)
  PROVE  MessagesInv'
<1>1. /\ ~session.exited /\ entered' = entered \cup {u}
      /\ cli' = [cli EXCEPT !.held = cli.held \ {u}, !.turn = cli.turn \cup {u},
                            !.out = Append(cli.out, [uuid |-> u, kind |-> "started"])]
      /\ UNCHANGED <<msg, keys, known, hurried, log, shown, session, commands, lock, deliver, user, inbox, told, bounds>>
  BY DEF Take
<1>2. /\ MessagesTypeOK /\ Locked /\ Paired /\ Commanded /\ Closed /\ Wished /\ Paged /\ Flows /\ Keyed
      /\ cli \in CliState /\ u \in Uuids /\ cli.held \subseteq Uuids /\ entered \subseteq Uuids
      /\ \A x \in Ids : Placed(x)
  BY DEF MessagesInv, MessagesTypeOK, CliState
<1>3. cli'.held = cli.held \ {u} /\ cli'.turn = cli.turn \cup {u} /\ cli'.out = Append(cli.out, [uuid |-> u, kind |-> "started"])
  BY <1>1, <1>2 DEF CliState
<1>4. /\ cli'.out \in Seq(CliFrame)
      /\ \A w \in Uuids : /\ Framed(w)' <=> Framed(w) \/ w = u
                          /\ Started(w)' <=> Started(w) \/ w = u
                          /\ Heralded(w) => Heralded(w)'
      /\ Heralded(u)'
  BY <1>1, <1>3, FrameWritten DEF Ends
<1>5. cli' \in CliState
  BY <1>1, <1>2, <1>3, <1>4 DEF CliState
<1>6. /\ u[1] \in Ids /\ u[2] = msg[u[1]].n /\ u = Uuid(u[1]) /\ u \notin entered /\ ~Framed(u)
      /\ msg[u[1]].place = "tray" /\ msg[u[1]].state = "queued"
      /\ msg[u[1]].place # "unused" /\ u[2] <= msg[u[1]].n
  BY <1>2, Named DEF Flows, Queued
<1>7. /\ \A x : Uuid(x)' = Uuid(x) /\ (Queued(x)' <=> Queued(x)) /\ (Logging(x)' <=> Logging(x))
      /\ \A p \in Procs : \A x : Delivers(p, x)' <=> Delivers(p, x)
  BY <1>1 DEF Uuid, Queued, Logging, Delivers
<1>types. MessagesTypeOK'
  BY <1>1, <1>2, <1>5 DEF MessagesTypeOK, bounds
<1>lock. Locked'
  BY <1>1, <1>2 DEF Locked, Wants, Holds
<1>paired. Paired'
  BY <1>1, <1>2 DEF Paired, Asking
<1>commanded. Commanded'
  BY <1>1, <1>2 DEF Commanded, Uuid
<1>closed. Closed'
  BY <1>1, <1>2 DEF Closed
<1>flows. Flows'
  <2>1. IsFiniteSet(cli'.held) /\ IsFiniteSet(cli'.turn)
    BY <1>2, <1>3, FS_Subset, FS_AddElement DEF Flows
  <2>2. \A w \in Uuids : w \in cli'.held \/ w \in entered' \/ Framed(w)' => msg[w[1]].place # "unused" /\ w[2] <= msg[w[1]].n
    BY <1>1, <1>2, <1>3, <1>4, <1>6 DEF Flows
  <2>3. \A w \in cli'.held : Queued(w[1])' /\ w[2] = msg[w[1]].n /\ w \notin entered' /\ ~Framed(w)'
    BY <1>1, <1>2, <1>3, <1>4, <1>7 DEF Flows
  <2>4. \A w \in entered' : /\ w[2] = msg[w[1]].n
                            /\ msg[w[1]].place = "tray" => Heralded(w)' \/ Logging(w[1])'
    <3> TAKE w \in entered'
    <3>1. CASE w = u
      BY <1>4, <1>6, <3>1
    <3>2. CASE w \in entered
      BY <1>2, <1>4, <1>7, <3>2 DEF Flows
    <3> QED
      BY <1>1, <3>1, <3>2
  <2>5. \A w \in Uuids : Started(w)' => w \in entered'
    BY <1>1, <1>2, <1>4 DEF Flows
  <2>6. inbox.pc = "log" => inbox.id \in Ids /\ msg[inbox.id].place = "tray" /\ Uuid(inbox.id)' \in entered'
    BY <1>1, <1>2 DEF Flows, Uuid
  <2>7. cli'.turn \subseteq entered'
    BY <1>1, <1>2, <1>3 DEF Flows
  <2> QED
    BY <1>1, <2>1, <2>2, <2>3, <2>5, <2>4, <2>6, <2>7 DEF Flows
<1>placed. \A x \in Ids : Placed(x)'
  <2> TAKE x \in Ids
  <2>0. Uuid(x) \in Uuids
    BY <1>2, Named
  <2>1. Away(Uuid(x)) => Away(Uuid(x))'
    BY <1>1, <1>2, <1>3, <1>4, <1>7, <2>0 DEF Away
  <2>2. Uuid(x) \in cli.held \/ Framed(Uuid(x)) => Uuid(x)' \in cli'.held \/ Framed(Uuid(x))'
    BY <1>3, <1>4, <1>7, <2>0
  <2> QED
    BY <1>1, <1>2, <1>7, <2>1, <2>2, Nobody DEF Placed
<1>keyed. Keyed'
  <2>1. log \in Seq(Ids) /\ \A i \in 1..Len(log) : log[i] \in Ids
    BY <1>2 DEF MessagesTypeOK
  <2>2. \A k : InLog(k)' <=> InLog(k)
    BY <1>1 DEF InLog
  <2>3. \A w \in entered' : msg[w[1]].place = "tray" \/ \E i \in 1..Len(log) : log[i] = w[1]
    BY <1>1, <1>2, <1>6 DEF Keyed
  <2>4. \A i \in 1..Len(log) : Uuid(log[i])' \in entered'
    BY <1>1, <1>2, <2>1 DEF Keyed, Uuid
  <2> QED
    BY <1>1, <1>2, <2>1, <2>2, <2>3, <2>4 DEF Keyed
<1>wished. Wished'
  <2>1. \A x \in Ids : told'[x] = "withdrawn" \/ msg'[x].withdrawn => Out(x)'
    <3> TAKE x \in Ids
    <3>1. Out(x) => Uuid(x) # u
      BY <1>2, <1>6, Named DEF Out
    <3> QED
      BY <1>1, <1>2, <1>7, <3>1 DEF Wished, Out
  <2>2. /\ Delivers("inbox", user.id)' <=> Delivers("inbox", user.id)
        /\ Uuid(user.id)' = Uuid(user.id)
        /\ Queued(user.id)' <=> Queued(user.id)
        /\ Asking' <=> Asking
        /\ Holds("inbox")' <=> Holds("inbox")
    BY <1>1 DEF Delivers, Uuid, Queued, Asking, Holds
  <2> QED
    BY <1>1, <1>2, <1>3, <2>1, <2>2 DEF Wished
<1>paged. Paged'
  BY <1>1, <1>2 DEF Paged, Tray, bounds
<1> QED
  BY <1>types, <1>lock, <1>paired, <1>commanded, <1>closed, <1>flows, <1>placed, <1>keyed, <1>wished, <1>paged DEF MessagesInv

(* A frame is handed to the inbox, or is of a message no longer in the tray. *)
LEMMA ReadFrameMoves ==
  ASSUME MessagesInv, ReadFrame
  PROVE  /\ ~session.exited /\ hurried' \subseteq Uuids
         /\ cli' \in CliState /\ cli'.held = cli.held /\ cli'.turn = cli.turn
         /\ inbox' \in InboxWork /\ inbox'.pc = inbox.pc /\ inbox'.id = inbox.id
         /\ \A i \in 1..Len(inbox'.queue) : inbox'.queue[i].kind # "exit" /\ inbox'.queue[i].uuid \in Uuids
         /\ \A u \in Uuids : (Framed(u)' => Framed(u)) /\ (Started(u)' => Started(u))
         /\ \A o \in Tray : /\ Framed(Uuid(o))' <=> Framed(Uuid(o))
                            /\ \A u \in Uuids : u = Uuid(o) /\ Heralded(u) => Heralded(u)'
<1>1. PICK f : /\ f = Head(cli.out) /\ ~session.exited /\ cli.out # <<>>
               /\ cli' = [cli EXCEPT !.out = Tail(cli.out)] /\ hurried' = hurried \ {f.uuid}
               /\ inbox' = IF \E o \in Tray : Uuid(o) = f.uuid
                           THEN [inbox EXCEPT !.queue = Append(inbox.queue, [kind |-> f.kind, uuid |-> f.uuid,
                                                                             preempted |-> hurried # {}])]
                           ELSE inbox
  BY DEF ReadFrame
<1>2. /\ cli \in CliState /\ cli.out \in Seq(CliFrame) /\ inbox \in InboxWork /\ inbox.queue \in Seq(InboxNotice)
      /\ hurried \subseteq Uuids /\ Closed /\ MessagesTypeOK
  BY DEF MessagesInv, MessagesTypeOK, CliState, InboxWork
<1> DEFINE notice == [kind |-> f.kind, uuid |-> f.uuid, preempted |-> hurried # {}]
<1>3. PICK a \in Seq(CliFrame), q \in Seq(InboxNotice) : a = cli.out /\ q = inbox.queue
  BY <1>2
<1>4. /\ Tail(a) \in Seq(CliFrame) /\ f \in CliFrame
      /\ \A u : /\ Has(a, u) <=> Has(Tail(a), u) \/ f.uuid = u
                /\ SaysStarted(a, u) <=> SaysStarted(Tail(a), u) \/ (f.uuid = u /\ f.kind = "started")
                /\ Opens(a, u) /\ f.uuid # u => Opens(Tail(a), u)
                /\ Opens(a, u) /\ f.uuid = u => f.kind = "started"
  <2>1. a # <<>> /\ f = Head(a)
    BY <1>1, <1>3
  <2>2. f \in CliFrame
    BY <2>1
  <2> QED
    BY <2>1, <2>2, FrameTaken
<1>5. f.uuid \in Uuids /\ f.kind \in Ends /\ notice \in InboxNotice /\ notice.uuid = f.uuid /\ notice.kind = f.kind
      /\ f.kind # "exit"
  BY <1>4 DEF CliFrame, InboxNotice, Ends
<1> HIDE DEF notice
<1>6. cli' \in CliState /\ cli'.held = cli.held /\ cli'.turn = cli.turn /\ cli'.out = Tail(a)
  BY <1>1, <1>2, <1>3, <1>4 DEF CliState
<1>7. \A i \in 1..Len(q) : q[i].kind # "exit" /\ q[i].uuid \in Uuids
  BY <1>1, <1>2, <1>3 DEF Closed
<1>8. CASE \E o \in Tray : Uuid(o) = f.uuid
  <2>1. inbox' = [inbox EXCEPT !.queue = Append(q, notice)]
    BY <1>1, <1>3, <1>8 DEF notice
  <2>2. /\ Append(q, notice) \in Seq(InboxNotice)
        /\ \A i \in 1..Len(Append(q, notice)) : \/ i \in 1..Len(q) /\ Append(q, notice)[i] = q[i]
                                                \/ i = Len(q) + 1 /\ Append(q, notice)[i] = notice
    BY <1>5, CommandAppended
  <2>3. inbox' \in InboxWork /\ inbox'.pc = inbox.pc /\ inbox'.id = inbox.id /\ inbox'.queue = Append(q, notice)
    BY <1>2, <2>1, <2>2 DEF InboxWork
  <2>4. \A u : /\ Has(Append(q, notice), u) <=> Has(q, u) \/ notice.uuid = u
               /\ SaysStarted(Append(q, notice), u) <=> SaysStarted(q, u) \/ (notice.uuid = u /\ notice.kind = "started")
               /\ Opens(q, u) => Opens(Append(q, notice), u)
               /\ ~Has(q, u) /\ notice.uuid = u /\ notice.kind = "started" => Opens(Append(q, notice), u)
    BY <1>5, FrameAppended
  <2>5. \A u \in Uuids : /\ Framed(u)' <=> Framed(u)
                         /\ Started(u)' <=> Started(u)
    BY <1>3, <1>4, <1>5, <1>6, <2>3, <2>4 DEF Framed, Started
  <2>6. \A u \in Uuids : Heralded(u) => Heralded(u)'
    BY <1>3, <1>4, <1>5, <1>6, <2>3, <2>4 DEF Heralded
  <2>7. \A i \in 1..Len(inbox'.queue) : inbox'.queue[i].kind # "exit" /\ inbox'.queue[i].uuid \in Uuids
    BY <1>5, <1>7, <2>2, <2>3
  <2>8. \A o \in Tray : Framed(Uuid(o))' <=> Framed(Uuid(o))
    <3> TAKE o \in Tray
    <3>1. PICK u \in Uuids : u = Uuid(o)
      BY <1>2, Named DEF Tray
    <3>2. Uuid(o)' = Uuid(o)
      BY DEF ReadFrame, Uuid
    <3> QED
      BY <2>5, <3>1, <3>2 DEF Framed
  <2> QED
    BY <1>1, <1>2, <1>6, <2>3, <2>5, <2>6, <2>7, <2>8
<1>9. CASE ~\E o \in Tray : Uuid(o) = f.uuid
  <2>1. inbox' = inbox
    BY <1>1, <1>9
  <2>2. \A u \in Uuids : (Framed(u)' => Framed(u)) /\ (Started(u)' => Started(u))
    BY <1>3, <1>4, <1>6, <2>1 DEF Framed, Started
  <2>3. \A u \in Uuids : u # f.uuid => (Framed(u) => Framed(u)') /\ (Heralded(u) => Heralded(u)')
    BY <1>3, <1>4, <1>6, <2>1 DEF Framed, Heralded
  <2>4. \A i \in 1..Len(inbox'.queue) : inbox'.queue[i].kind # "exit" /\ inbox'.queue[i].uuid \in Uuids
    BY <1>3, <1>7, <2>1
  <2>5. \A o \in Tray : /\ Framed(Uuid(o))' <=> Framed(Uuid(o))
                        /\ \A u \in Uuids : u = Uuid(o) /\ Heralded(u) => Heralded(u)'
    <3> TAKE o \in Tray
    <3>1. PICK u \in Uuids : u = Uuid(o)
      BY <1>2, Named DEF Tray
    <3>2. Uuid(o)' = Uuid(o) /\ u # f.uuid
      BY <1>9, <3>1 DEF ReadFrame, Uuid
    <3>3. (Framed(u)' <=> Framed(u)) /\ (Heralded(u) => Heralded(u)')
      BY <2>2, <2>3, <3>2
    <3> QED
      BY <3>1, <3>2, <3>3 DEF Framed
  <2> QED
    BY <1>1, <1>2, <1>6, <2>1, <2>2, <2>4, <2>5
<1> QED
  BY <1>8, <1>9

LEMMA ReadFrameKeeps ==
  ASSUME MessagesInv, ReadFrame
  PROVE  MessagesInv'
<1>1. /\ ~session.exited /\ hurried' \subseteq Uuids
      /\ cli' \in CliState /\ cli'.held = cli.held /\ cli'.turn = cli.turn
      /\ inbox' \in InboxWork /\ inbox'.pc = inbox.pc /\ inbox'.id = inbox.id
      /\ \A i \in 1..Len(inbox'.queue) : inbox'.queue[i].kind # "exit" /\ inbox'.queue[i].uuid \in Uuids
  BY ReadFrameMoves
<1>2. /\ \A u \in Uuids : (Framed(u)' => Framed(u)) /\ (Started(u)' => Started(u))
      /\ \A o \in Tray : /\ Framed(Uuid(o))' <=> Framed(Uuid(o))
                         /\ \A u \in Uuids : u = Uuid(o) /\ Heralded(u) => Heralded(u)'
  BY ReadFrameMoves
<1>3. UNCHANGED <<msg, keys, known, log, shown, session, commands, lock, deliver, user, entered, told, bounds>>
  BY DEF ReadFrame
<1>4. /\ MessagesTypeOK /\ Locked /\ Paired /\ Commanded /\ Closed /\ Wished /\ Paged /\ Flows /\ Keyed
      /\ cli.held \subseteq Uuids /\ entered \subseteq Uuids /\ \A x \in Ids : Placed(x)
  BY DEF MessagesInv, MessagesTypeOK, CliState
<1>5. /\ \A x : Uuid(x)' = Uuid(x) /\ (Queued(x)' <=> Queued(x)) /\ (Logging(x)' <=> Logging(x))
      /\ \A p \in Procs : \A x : Delivers(p, x)' <=> Delivers(p, x)
  BY <1>1, <1>3 DEF Uuid, Queued, Logging, Delivers
<1>types. MessagesTypeOK'
  BY <1>1, <1>3, <1>4 DEF MessagesTypeOK, bounds
<1>lock. Locked'
  BY <1>3, <1>4 DEF Locked, Wants, Holds
<1>paired. Paired'
  BY <1>1, <1>3, <1>4 DEF Paired, Asking
<1>commanded. Commanded'
  BY <1>3, <1>4 DEF Commanded, Uuid
<1>closed. Closed'
  BY <1>1, <1>3, <1>4 DEF Closed
<1>flows. Flows'
  <2>1. \A u \in Uuids : u \in cli'.held \/ u \in entered' \/ Framed(u)' => msg[u[1]].place # "unused" /\ u[2] <= msg[u[1]].n
    BY <1>1, <1>2, <1>3, <1>4 DEF Flows
  <2>2. \A u \in cli'.held : Queued(u[1])' /\ u[2] = msg[u[1]].n /\ u \notin entered' /\ ~Framed(u)'
    BY <1>1, <1>2, <1>3, <1>5, <1>4 DEF Flows
  <2>3. \A u \in entered : /\ u[2] = msg[u[1]].n
                           /\ msg[u[1]].place = "tray" => Heralded(u)' \/ Logging(u[1])'
    <3> TAKE u \in entered
    <3>1. /\ u[2] = msg[u[1]].n /\ u \in Uuids /\ u[1] \in Ids /\ u = Uuid(u[1])
          /\ msg[u[1]].place = "tray" => Heralded(u) \/ Logging(u[1])
      <4>1. u \in Uuids /\ u[2] = msg[u[1]].n /\ (msg[u[1]].place = "tray" => Heralded(u) \/ Logging(u[1]))
        BY <1>4 DEF Flows
      <4> QED
        BY <1>4, <4>1, Named
    <3>2. PICK o \in Ids : o = u[1]
      BY <3>1
    <3>3. msg[o].place = "tray" => o \in Tray
      BY DEF Tray
    <3> QED
      BY <1>2, <1>5, <3>1, <3>2, <3>3
  <2>4. \A u \in Uuids : Started(u)' => u \in entered'
    BY <1>2, <1>3, <1>4 DEF Flows
  <2>5. inbox'.pc = "log" => inbox'.id \in Ids /\ msg[inbox'.id].place = "tray" /\ Uuid(inbox.id)' \in entered'
    BY <1>1, <1>3, <1>4 DEF Flows, Uuid
  <2> QED
    BY <1>1, <1>3, <1>4, <2>1, <2>2, <2>3, <2>5, <2>4 DEF Flows
<1>placed. \A x \in Ids : Placed(x)'
  <2> TAKE x \in Ids
  <2>1. Away(Uuid(x)) => Away(Uuid(x))'
    <3>1. PICK u \in Uuids : u = Uuid(x) /\ u = Uuid(x)'
      BY <1>4, <1>5, Named
    <3> QED
      BY <1>1, <1>2, <1>3, <3>1 DEF Away, Framed
  <2>2. Queued(x) /\ (Uuid(x) \in cli.held \/ Framed(Uuid(x))) => Uuid(x)' \in cli'.held \/ Framed(Uuid(x))'
    <3>1. Queued(x) => x \in Tray
      BY DEF Queued, Tray
    <3> QED
      BY <1>1, <1>2, <1>5, <3>1
  <2>3. Placed(x)
    BY <1>4
  <2> QED
    BY <1>1, <1>3, <1>5, <2>1, <2>2, <2>3, Nobody DEF Placed
<1>keyed. Keyed'
  BY <1>3, <1>4, KeyedKept
<1>wished. Wished'
  <2>1. /\ \A x : Out(x)' <=> Out(x)
        /\ Asking' <=> Asking
        /\ Holds("inbox")' <=> Holds("inbox")
        /\ Queued(user.id)' <=> Queued(user.id)
        /\ Delivers("inbox", user.id)' <=> Delivers("inbox", user.id)
        /\ Uuid(user.id)' = Uuid(user.id)
    BY <1>3 DEF Out, Asking, Holds, Uuid, Queued, Delivers
  <2> QED
    BY <1>1, <1>3, <1>4, <2>1 DEF Wished
<1>paged. Paged'
  BY <1>3, <1>4 DEF Paged, Tray, bounds
<1> QED
  BY <1>types, <1>lock, <1>paired, <1>commanded, <1>closed, <1>flows, <1>placed, <1>keyed, <1>wished, <1>paged DEF MessagesInv

(* The first command is carried out: what is behind it. *)
LEMMA CommandsBehind ==
  ASSUME MessagesInv, commands # <<>>, commands' = Tail(commands)
  PROVE  /\ Head(commands) \in Command /\ commands' \in Seq(Command)
         /\ Head(commands).kind = "query" =>
              /\ \A i \in 1..Len(commands') : commands'[i].kind = "cancel"
              /\ deliver[Head(commands).by].pc = "query" /\ Head(commands).uuid = Uuid(deliver[Head(commands).by].id)
         /\ Head(commands).kind = "cancel" =>
              /\ \A i \in 1..Len(commands') : commands'[i].kind = "query"
              /\ user.pc = "asked" /\ Head(commands).uuid[1] = user.id /\ Head(commands).uuid[2] <= msg[user.id].n
         /\ \A i \in 1..Len(commands') : \E j \in 1..Len(commands) : commands'[i] = commands[j]
         /\ \A i, j \in 1..Len(commands') : commands'[i].kind = commands'[j].kind => i = j
<1>1. /\ MessagesTypeOK /\ Commanded /\ commands \in Seq(Command)
  BY DEF MessagesInv, MessagesTypeOK
<1>2. PICK c \in Seq(Command), r \in Seq(Command) : c = commands /\ r = commands' /\ r = Tail(c) /\ c # <<>>
  BY <1>1
<1>3. /\ Head(c) = c[1] /\ Head(c) \in Command /\ 1 \in 1..Len(c) /\ Len(c) \in Nat
      /\ \A i \in 1..Len(r) : i + 1 \in 1..Len(c) /\ r[i] = c[i + 1] /\ i + 1 # 1
  BY <1>2
<1>4. \A i \in 1..Len(c) : c[i].kind = "query" \/ c[i].kind = "cancel"
  BY <1>1, <1>2, Ordered
<1>5. \A i \in 1..Len(r) : r[i].kind # Head(c).kind
  <2> SUFFICES ASSUME NEW i \in 1..Len(r) PROVE r[i].kind # Head(c).kind
    OBVIOUS
  <2>1. i + 1 \in 1..Len(c) /\ i + 1 # 1 /\ r[i] = c[i + 1]
    BY <1>3
  <2> QED
    BY <1>1, <1>2, <1>3, <2>1 DEF Commanded
<1>6. /\ Head(c).kind = "query" => deliver[Head(c).by].pc = "query" /\ Head(c).uuid = Uuid(deliver[Head(c).by].id)
      /\ Head(c).kind = "cancel" => user.pc = "asked" /\ Head(c).uuid[1] = user.id /\ Head(c).uuid[2] <= msg[user.id].n
  BY <1>1, <1>2, <1>3 DEF Commanded
<1>7. \A i \in 1..Len(r) : (r[i].kind = "query" \/ r[i].kind = "cancel") /\ \E j \in 1..Len(c) : r[i] = c[j]
  BY <1>3, <1>4
<1>8. \A i, j \in 1..Len(r) : r[i].kind = r[j].kind => i = j
  <2> SUFFICES ASSUME NEW i \in 1..Len(r), NEW j \in 1..Len(r), r[i].kind = r[j].kind PROVE i = j
    OBVIOUS
  <2>1. PICK a \in 1..Len(c), b \in 1..Len(c) : a = i + 1 /\ b = j + 1 /\ r[i] = c[a] /\ r[j] = c[b]
    BY <1>3
  <2>2. a = b
    BY <1>1, <1>2, <2>1 DEF Commanded
  <2> QED
    BY <2>1, <2>2
<1> QED
  BY <1>2, <1>3, <1>5, <1>6, <1>7, <1>8

(* A query reaches the CLI: the delivery is over. *)
LEMMA QueryKeeps ==
  ASSUME MessagesInv, Execute, Head(commands).kind = "query"
  PROVE  MessagesInv'
<1>1. /\ commands # <<>> /\ ~session.exited /\ commands' = Tail(commands)
      /\ UNCHANGED <<msg, keys, known, hurried, log, shown, session, entered, bounds>>
  BY DEF Execute
<1>2. /\ MessagesTypeOK /\ Locked /\ Paired /\ Commanded /\ Closed /\ Wished /\ Paged /\ Flows /\ Keyed
      /\ cli \in CliState /\ cli.held \subseteq Uuids /\ entered \subseteq Uuids /\ \A x \in Ids : Placed(x)
  BY DEF MessagesInv, MessagesTypeOK, CliState
<1>3. /\ Head(commands) \in Command /\ commands' \in Seq(Command)
      /\ \A i \in 1..Len(commands') : commands'[i].kind = "cancel"
      /\ deliver[Head(commands).by].pc = "query" /\ Head(commands).uuid = Uuid(deliver[Head(commands).by].id)
      /\ \A i \in 1..Len(commands') : \E j \in 1..Len(commands) : commands'[i] = commands[j]
      /\ \A i, j \in 1..Len(commands') : commands'[i].kind = commands'[j].kind => i = j
  BY <1>1, CommandsBehind
<1>4. PICK p \in Procs : p = Head(commands).by /\ deliver[p].pc = "query"
  BY <1>3 DEF Command
<1>5. PICK o \in Ids : o = deliver[p].id /\ Delivers(p, o) /\ Head(commands).uuid = Uuid(o)
  BY <1>3, <1>4, DeliveryStands
<1>6. Finished(p) /\ cli' = [cli EXCEPT !.held = cli.held \cup {Uuid(o)}]
  <2>1. /\ cli' = [cli EXCEPT !.held = cli.held \cup {Uuid(o)}]
        /\ deliver' = [deliver EXCEPT ![p] = NoDelivery] /\ Release
        /\ Return(p, IF deliver[p].how = "redeliver" THEN "sent" ELSE "none")
    BY <1>4, <1>5 DEF Execute
  <2>2. PICK answer \in {"none", "sent"} : Return(p, answer)
    BY <2>1
  <2> QED
    BY <1>2, <2>1, <2>2, Finishing
<1>7. /\ cli' \in CliState /\ cli'.held = cli.held \cup {Uuid(o)} /\ cli'.turn = cli.turn /\ cli'.out = cli.out
      /\ Uuid(o) \in Uuids /\ Uuid(o)[1] = o /\ Uuid(o)[2] = msg[o].n
  <2>1. Uuid(o) \in Uuids /\ Uuid(o)[1] = o /\ Uuid(o)[2] = msg[o].n
    BY <1>2, Named
  <2> QED
    BY <1>2, <1>6, <2>1 DEF CliState
<1>8. /\ deliver' \in [Procs -> Delivery] /\ deliver'[p].pc = "off"
      /\ \A q \in Procs \ {p} : deliver'[q] = deliver[q]
      /\ user' \in UserState /\ inbox' \in InboxWork /\ inbox'.queue = inbox.queue
      /\ told' \in [Ids -> {"none", "withdrawn", "accepted", "sent"}]
      /\ \A x \in Ids : told'[x] = "withdrawn" => told[x] = "withdrawn"
      /\ p = "user" => user'.pc = "off" /\ inbox' = inbox /\ user.pc = "deliver"
      /\ p = "inbox" => user' = user /\ inbox'.pc = "get" /\ inbox.pc = "deliver"
      /\ inbox'.pc = "done" => inbox.pc = "done"
  BY <1>2, <1>4, <1>6, DeliveryStands, Nobody DEF Finished, Goes, Requested, MessagesTypeOK
<1>9. Queued(o) /\ Away(Uuid(o)) /\ \A q \in Procs : q # p => ~Delivers(q, o)
  BY <1>1, <1>2, <1>5, Nobody DEF Placed
<1>10. /\ \A x : Uuid(x)' = Uuid(x) /\ (Queued(x)' <=> Queued(x))
       /\ \A x : Logging(x)' <=> Logging(x)
       /\ \A u \in Uuids : (Framed(u)' <=> Framed(u)) /\ (Started(u)' <=> Started(u)) /\ (Heralded(u)' <=> Heralded(u))
  <2>1. \A x : Uuid(x)' = Uuid(x) /\ (Queued(x)' <=> Queued(x))
    BY <1>1 DEF Uuid, Queued
  <2>2. \A x : Logging(x)' <=> Logging(x)
    BY <1>8, Nobody DEF Logging
  <2>3. \A u \in Uuids : (Framed(u)' <=> Framed(u)) /\ (Started(u)' <=> Started(u)) /\ (Heralded(u)' <=> Heralded(u))
    BY <1>7, <1>8 DEF Framed, Started, Heralded
  <2> QED
    BY <2>1, <2>2, <2>3
<1>paired. Locked' /\ Paired'
  <2>1. Holds(p)
    BY <1>2, <1>4 DEF Locked
  <2> QED
    BY <1>1, <1>4, <1>6, <2>1, FinishedPairs
<1>types. MessagesTypeOK'
  BY <1>1, <1>2, <1>3, <1>7, <1>8, <1>paired DEF MessagesTypeOK, Locked, LockStates, bounds
<1>commanded. Commanded'
  <2>1. \A i \in 1..Len(commands') : user.pc = "asked" /\ commands'[i].uuid[1] = user.id /\ commands'[i].uuid[2] <= msg[user.id].n
    <3> TAKE i \in 1..Len(commands')
    <3>1. PICK j \in 1..Len(commands) : commands'[i] = commands[j]
      BY <1>3
    <3>2. commands[j].kind = "cancel"
      BY <1>3, <3>1
    <3> QED
      BY <1>2, <3>1, <3>2 DEF Commanded
  <2>2. \A i \in 1..Len(commands') : p = "inbox" /\ user' = user
    BY <1>8, <2>1, Nobody
  <2> QED
    BY <1>1, <1>3, <2>1, <2>2 DEF Commanded
<1>closed. Closed'
  BY <1>1, <1>2, <1>8 DEF Closed
<1>flows. Flows'
  <2>1. IsFiniteSet(cli'.held) /\ IsFiniteSet(cli'.turn)
    BY <1>2, <1>7, FS_AddElement DEF Flows
  <2>2. msg[o].place # "unused" /\ Uuid(o)[2] <= msg[o].n
    BY <1>2, <1>7, <1>9, Named DEF Queued
  <2>3. \A u \in Uuids : u \in cli'.held \/ u \in entered \/ Framed(u)' => msg[u[1]].place # "unused" /\ u[2] <= msg[u[1]].n
    BY <1>2, <1>7, <1>10, <2>2 DEF Flows
  <2>4. \A u \in cli'.held : Queued(u[1])' /\ u[2] = msg[u[1]].n /\ u \notin entered /\ ~Framed(u)'
    BY <1>2, <1>7, <1>9, <1>10 DEF Flows, Away
  <2>5. \A u \in entered : /\ u[2] = msg[u[1]].n
                           /\ msg[u[1]].place = "tray" => Heralded(u)' \/ Logging(u[1])'
    BY <1>2, <1>10 DEF Flows
  <2>6. \A u \in Uuids : Started(u)' => u \in entered
    BY <1>2, <1>10 DEF Flows
  <2>7. inbox'.pc = "log" => inbox'.id \in Ids /\ msg[inbox'.id].place = "tray" /\ Uuid(inbox.id)' \in entered
    <3>1. inbox'.pc = "log" => inbox' = inbox
      BY <1>8, Nobody
    <3> QED
      BY <1>1, <1>2, <3>1 DEF Flows, Uuid
  <2> QED
    BY <1>1, <1>2, <1>7, <2>1, <2>3, <2>4, <2>5, <2>6, <2>7 DEF Flows
<1>placed. \A x \in Ids : Placed(x)'
  <2> TAKE x \in Ids
  <2>0. Uuid(x) \in Uuids /\ (x # o => Uuid(x) # Uuid(o)) /\ (Framed(Uuid(x))' <=> Framed(Uuid(x)))
    <3>1. Uuid(x) \in Uuids /\ Uuid(x)[1] = x
      BY <1>2, Named
    <3>2. PICK u \in Uuids : u = Uuid(x) /\ u = Uuid(x)'
      BY <1>10, <3>1
    <3>3. Framed(Uuid(x))' <=> Framed(Uuid(x))
      BY <1>10, <3>2 DEF Framed
    <3> QED
      BY <1>7, <3>1, <3>3
  <2>1. CASE x # o
    <3>1. \A q \in Procs : Delivers(q, x)' <=> Delivers(q, x)
      BY <1>5, <1>8, <2>1 DEF Delivers
    <3> QED
      BY <1>1, <1>2, <1>7, <1>10, <2>0, <2>1, <3>1, PlacedKept
  <2>2. CASE x = o
    <3>1. \A q \in Procs : ~Delivers(q, x)'
      BY <1>8, <1>9, <2>2 DEF Delivers
    <3>2. Uuid(x)' \in cli'.held /\ msg'[x].place # "unused" /\ msg'[x].state = "queued"
      BY <1>1, <1>7, <1>9, <1>10, <2>2 DEF Queued
    <3> QED
      BY <3>1, <3>2, Nobody DEF Placed
  <2> QED
    BY <2>1, <2>2
<1>keyed. Keyed'
  BY <1>1, <1>2, KeyedKept
<1>wished. Wished'
  <2>1. \A x \in Ids : told'[x] = "withdrawn" \/ msg'[x].withdrawn => Out(x)'
    BY <1>1, <1>2, <1>8 DEF Wished, Out, Uuid
  <2>2. \A u \in cli'.held : u \in cli.held \/ u = Uuid(deliver[p].id)
    BY <1>5, <1>7
  <2> QED
    BY <1>1, <1>4, <1>6, <1>10, <2>1, <2>2, FinishedWishes
<1>paged. Paged'
  BY <1>1, <1>2, <1>8, Nobody DEF Paged, Tray, bounds
<1> QED
  BY <1>types, <1>paired, <1>commanded, <1>closed, <1>flows, <1>placed, <1>keyed, <1>wished, <1>paged DEF MessagesInv

(* A cancel reaches the CLI, which holds the message still or does not. *)
LEMMA CancelKeeps ==
  ASSUME MessagesInv, Execute, Head(commands).kind = "cancel"
  PROVE  MessagesInv'
<1>1. /\ commands # <<>> /\ ~session.exited /\ commands' = Tail(commands)
      /\ UNCHANGED <<msg, keys, known, hurried, log, shown, session, entered, deliver, lock, inbox, told, bounds>>
  BY DEF Execute
<1>2. /\ MessagesTypeOK /\ Locked /\ Paired /\ Commanded /\ Closed /\ Wished /\ Paged /\ Flows /\ Keyed
      /\ cli \in CliState /\ cli.held \subseteq Uuids /\ user \in UserState
  BY DEF MessagesInv, MessagesTypeOK, CliState
<1>3. /\ Head(commands) \in Command /\ commands' \in Seq(Command)
      /\ \A i \in 1..Len(commands') : commands'[i].kind = "query"
      /\ user.pc = "asked" /\ Head(commands).uuid[1] = user.id /\ Head(commands).uuid[2] <= msg[user.id].n
      /\ \A i \in 1..Len(commands') : \E j \in 1..Len(commands) : commands'[i] = commands[j]
      /\ \A i, j \in 1..Len(commands') : commands'[i].kind = commands'[j].kind => i = j
  BY <1>1, CommandsBehind
<1>4. PICK u \in Uuids : u = Head(commands).uuid
  BY <1>3 DEF Command
<1>5. /\ user' = [user EXCEPT !.pc = "answered", !.reply = IF u \in cli.held THEN "cancelled" ELSE "kept"]
      /\ u \in cli.held => cli' = [cli EXCEPT !.held = cli.held \ {u},
                                              !.out = Append(cli.out, [uuid |-> u, kind |-> "cancelled"])]
      /\ u \notin cli.held => cli' = cli
  BY <1>3, <1>4 DEF Execute
<1>6. /\ user' \in UserState /\ user'.pc = "answered" /\ user'.op = user.op /\ user'.id = user.id /\ user'.n = user.n
      /\ user'.reply = "cancelled" => u \in cli.held
  BY <1>2, <1>5 DEF UserState
<1>7. \E S \in SUBSET {u} : /\ cli' \in CliState /\ cli'.held = cli.held \ S /\ cli'.turn = cli.turn /\ FramesWritten(S)
                            /\ \A w \in S : w \in cli.held
                            /\ u \notin cli'.held
  <2>1. CASE u \in cli.held
    <3>1. /\ cli'.held = cli.held \ {u} /\ cli'.turn = cli.turn
          /\ cli'.out = Append(cli.out, [uuid |-> u, kind |-> "cancelled"])
      BY <1>2, <1>5, <2>1 DEF CliState
    <3>2. FramesWritten({u}) /\ cli'.out \in Seq(CliFrame)
      BY <1>1, <2>1, <3>1, FrameWritten DEF FramesWritten, Ends
    <3>3. cli' \in CliState
      BY <1>2, <1>5, <2>1, <3>1, <3>2 DEF CliState
    <3> WITNESS {u} \in SUBSET {u}
    <3> QED
      BY <2>1, <3>1, <3>2, <3>3
  <2>2. CASE u \notin cli.held
    <3>1. FramesWritten({})
      BY <1>1, <1>5, <2>2 DEF FramesWritten, Framed, Started, Heralded
    <3> WITNESS {} \in SUBSET {u}
    <3> QED
      BY <1>2, <1>5, <2>2, <3>1
  <2> QED
    BY <2>1, <2>2
<1>8. Asking /\ Asking' /\ user.id \in Ids /\ ~Wants("user") /\ ~Wants("user")'
  <2>1. deliver["user"].pc = "off"
    BY <1>2, <1>3 DEF Paired
  <2> QED
    BY <1>1, <1>2, <1>3, <1>6, <2>1 DEF Asking, Paired, Wants
<1>types. MessagesTypeOK'
  BY <1>1, <1>2, <1>3, <1>6, <1>7 DEF MessagesTypeOK, bounds
<1>lock. Locked'
  <2>1. \A q \in Procs : Wants(q)' <=> Wants(q)
    BY <1>1, <1>8 DEF Wants
  <2> QED
    BY <1>1, <1>2, <2>1 DEF Locked, Holds
<1>paired. Paired'
  BY <1>1, <1>2, <1>3, <1>6, <1>8 DEF Paired
<1>commanded. Commanded'
  <2>1. \A i \in 1..Len(commands') :
          LET q == commands'[i].by IN deliver[q].pc = "query" /\ commands'[i].uuid = Uuid(deliver[q].id)
    BY <1>2, <1>3 DEF Commanded
  <2> QED
    BY <1>1, <1>3, <2>1 DEF Commanded, Uuid
<1>closed. Closed'
  BY <1>1, <1>2, <1>6 DEF Closed
<1>flows. Flows' /\ (\A x \in Ids : Placed(x)')
  BY <1>1, <1>7, HeldGo
<1>keyed. Keyed'
  BY <1>1, <1>2, KeyedKept
<1>wished. Wished'
  <2>1. /\ \A x : Out(x)' <=> Out(x)
        /\ Holds("inbox")' <=> Holds("inbox")
        /\ Queued(user.id)' <=> Queued(user.id)
        /\ Delivers("inbox", user.id)' <=> Delivers("inbox", user.id)
        /\ Uuid(user.id)' = Uuid(user.id)
    BY <1>1, <1>6 DEF Out, Holds, Uuid, Queued, Delivers
  <2>2. user'.reply = "cancelled" =>
          /\ Uuid(user.id) = u /\ u \notin cli'.held /\ u \notin entered /\ msg[user.id].state = "queued"
    <3> SUFFICES ASSUME user'.reply = "cancelled"
                 PROVE  Uuid(user.id) = u /\ u \notin cli'.held /\ u \notin entered /\ msg[user.id].state = "queued"
      OBVIOUS
    <3>1. u \in cli.held /\ u[1] = user.id /\ u \notin cli'.held
      BY <1>3, <1>4, <1>6, <1>7
    <3>2. u = Uuid(u[1]) /\ u \notin entered /\ msg[u[1]].state = "queued"
      BY <1>2, <3>1, Named DEF Flows, Queued
    <3> QED
      BY <3>1, <3>2
  <2>3. ~(msg[user.id].n = user.n /\ Delivers("inbox", user.id))
    BY <1>2, <1>3, <1>8 DEF Wished
  <2>4. \A x \in Ids : told'[x] = "withdrawn" \/ msg'[x].withdrawn => Out(x)'
    BY <1>1, <1>2, <2>1 DEF Wished
  <2>5. user.op \in {"edit", "delete"} =>
           msg[user.id].n = user.n /\ (Queued(user.id) => msg[user.id].intent = user.op)
    BY <1>2, <1>8 DEF Wished
  <2> QED
    BY <1>1, <1>6, <1>8, <2>1, <2>2, <2>3, <2>5, <2>4 DEF Wished
<1>paged. Paged'
  BY <1>1, <1>2, <1>6 DEF Paged, Tray, bounds
<1> QED
  BY <1>types, <1>lock, <1>paired, <1>commanded, <1>closed, <1>flows, <1>keyed, <1>wished, <1>paged DEF MessagesInv

(* The inbox takes a frame of a delivery from its queue. *)
LEMMA NoticeTaken ==
  ASSUME MessagesInv, Comes(Ends), cli' = cli, inbox'.queue = Tail(inbox.queue), session' = session
  PROVE  /\ inbox.pc = "get" /\ inbox.queue # <<>> /\ session.live /\ deliver["inbox"].pc = "off"
         /\ Head(inbox.queue).uuid \in Uuids /\ OnlyFrame(Head(inbox.queue).uuid) /\ Framed(Head(inbox.queue).uuid)
         /\ Head(inbox.queue).kind = "started" => Head(inbox.queue).uuid \in entered
         /\ Heralded(Head(inbox.queue).uuid) => Head(inbox.queue).kind = "started"
         /\ \A i \in 1..Len(inbox'.queue) : inbox'.queue[i].kind = "exit" =>
                i = Len(inbox'.queue) /\ session'.exited /\ inbox'.queue[i].uuid = <<None, 0>>
         /\ \A i \in 1..Len(inbox'.queue) : inbox'.queue[i].kind # "exit" => inbox'.queue[i].uuid \in Uuids
<1>1. /\ MessagesTypeOK /\ Paired /\ Closed /\ Flows
      /\ inbox.pc = "get" /\ inbox.queue # <<>> /\ Head(inbox.queue).kind \in Ends
  BY DEF MessagesInv, Comes
<1>2. PICK q \in Seq(InboxNotice) : q = inbox.queue
  BY <1>1 DEF MessagesTypeOK, InboxWork
<1>3. PICK r \in Seq(InboxNotice) : r = Tail(q) /\ r = inbox'.queue
  <2>1. q # <<>> /\ inbox'.queue = Tail(q)
    BY <1>1, <1>2
  <2>2. Tail(q) \in Seq(InboxNotice)
    BY <2>1
  <2> QED
    BY <2>1, <2>2
<1>4. /\ Head(q) = q[1] /\ 1 \in 1..Len(q) /\ Len(q) = Len(r) + 1 /\ Len(r) \in Nat
      /\ \A i \in 1..Len(r) : i + 1 \in 1..Len(q) /\ r[i] = q[i + 1]
  <2>1. q # <<>>
    BY <1>1, <1>2
  <2>2. /\ Head(q) = q[1] /\ Len(q) = Len(Tail(q)) + 1 /\ Len(Tail(q)) \in Nat
        /\ \A i \in 1..Len(Tail(q)) : Tail(q)[i] = q[i + 1]
    BY <2>1
  <2>3. /\ Head(q) = q[1] /\ Len(q) = Len(r) + 1 /\ Len(r) \in Nat
        /\ \A i \in 1..Len(r) : r[i] = q[i + 1]
    BY <1>3, <2>2
  <2> QED
    BY <2>3
<1>5. q[1].kind # "exit" /\ q[1].uuid \in Uuids
  BY <1>1, <1>2, <1>4 DEF Closed, Ends
<1>6. PICK v \in Uuids : v = Head(inbox.queue).uuid
  BY <1>2, <1>4, <1>5
<1>7. Has(inbox.queue, v) /\ (Head(inbox.queue).kind = "started" => SaysStarted(inbox.queue, v))
      /\ (Opens(inbox.queue, v) => Head(inbox.queue).kind = "started")
  BY <1>1, <1>2, <1>6, FrameTaken
<1>8. /\ Framed(v) /\ (Head(inbox.queue).kind = "started" => v \in entered)
      /\ Heralded(v) => Head(inbox.queue).kind = "started"
  BY <1>1, <1>7 DEF Framed, Started, Heralded, Flows
<1>9. OnlyFrame(Head(inbox.queue).uuid)
  BY <1>1, FrameSettled
<1>10. /\ \A i \in 1..Len(r) : r[i].kind = "exit" => i = Len(r) /\ session.exited /\ r[i].uuid = <<None, 0>>
       /\ \A i \in 1..Len(r) : r[i].kind # "exit" => r[i].uuid \in Uuids
  <2> SUFFICES ASSUME NEW i \in 1..Len(r)
               PROVE  /\ r[i].kind = "exit" => i = Len(r) /\ session.exited /\ r[i].uuid = <<None, 0>>
                      /\ r[i].kind # "exit" => r[i].uuid \in Uuids
    OBVIOUS
  <2>1. PICK j \in 1..Len(q) : j = i + 1 /\ r[i] = q[j]
    BY <1>4
  <2>2. /\ q[j].kind = "exit" => j = Len(q) /\ session.exited /\ q[j].uuid = <<None, 0>>
        /\ q[j].kind # "exit" => q[j].uuid \in Uuids
    BY <1>1, <1>2 DEF Closed
  <2> QED
    BY <1>4, <2>1, <2>2
<1> QED
  BY <1>1, <1>3, <1>6, <1>8, <1>9, <1>10 DEF Closed, Paired

(* A frame of no message of the tray, or of one that is now being logged. *)
LEMMA SettleNothingKeeps ==
  ASSUME MessagesInv, SettleNothing \/ \E o \in Ids : Log(o)
  PROVE  MessagesInv'
<1>1. /\ Comes(Ends) /\ inbox.queue # <<>>
      /\ UNCHANGED <<msg, keys, known, hurried, log, shown, session, cli, commands, lock, deliver, user, entered, told, bounds>>
  BY DEF SettleNothing, Log, Comes, Ends
<1>2. /\ MessagesTypeOK /\ Locked /\ Paired /\ Commanded /\ Closed /\ Wished /\ Paged /\ Flows /\ Keyed
      /\ inbox \in InboxWork /\ \A x \in Ids : Placed(x)
  BY DEF MessagesInv, MessagesTypeOK
<1>3. /\ RestOfInbox \in InboxWork /\ RestOfInbox.queue = Tail(inbox.queue)
      /\ RestOfInbox.pc = inbox.pc /\ RestOfInbox.id = inbox.id
  BY <1>1, <1>2, RestMoves
<1>4. PICK v \in {Head(inbox.queue).uuid} : TRUE
  OBVIOUS
<1>5. /\ inbox' \in InboxWork /\ inbox'.queue = Tail(inbox.queue)
      /\ \/ inbox'.pc = inbox.pc /\ \A o \in Tray : Uuid(o) # v
         \/ inbox'.pc = "log" /\ inbox'.id \in Tray /\ Uuid(inbox'.id) = v /\ Head(inbox.queue).kind = "started"
  <2>1. CASE SettleNothing
    BY <1>3, <1>4, <2>1 DEF SettleNothing, Subject
  <2>2. CASE \E o \in Ids : Log(o)
    <3>1. PICK o \in Ids : Log(o)
      BY <2>2
    <3>2. inbox' = [RestOfInbox EXCEPT !.pc = "log", !.id = o] /\ o \in Subject /\ Head(inbox.queue).kind = "started"
      BY <3>1 DEF Log, Comes
    <3> QED
      BY <1>3, <1>4, <3>2 DEF Subject, InboxWork
  <2> QED
    BY <2>1, <2>2
<1>6. /\ inbox.pc = "get" /\ session.live /\ deliver["inbox"].pc = "off"
      /\ v \in Uuids /\ OnlyFrame(v)
      /\ Head(inbox.queue).kind = "started" => v \in entered
      /\ \A i \in 1..Len(inbox'.queue) : inbox'.queue[i].kind = "exit" =>
             i = Len(inbox'.queue) /\ session'.exited /\ inbox'.queue[i].uuid = <<None, 0>>
      /\ \A i \in 1..Len(inbox'.queue) : inbox'.queue[i].kind # "exit" => inbox'.queue[i].uuid \in Uuids
  BY <1>1, <1>4, <1>5, NoticeTaken
<1>7. LogsOn /\ \A o \in Tray : Uuid(o) = v => Logging(o)' /\ inbox'.id = o
  <2>1. \A o \in Tray : Uuid(o) = v => inbox'.pc = "log" /\ inbox'.id = o
    BY <1>2, <1>5, Named DEF Tray
  <2>2. inbox'.pc = "log" => inbox'.id \in Ids /\ msg'[inbox'.id].place = "tray" /\ Uuid(inbox'.id) \in entered
    BY <1>1, <1>5, <1>6 DEF Tray
  <2> QED
    BY <1>6, <2>1, <2>2 DEF LogsOn, Logging
<1>types. MessagesTypeOK'
  BY <1>1, <1>2, <1>5 DEF MessagesTypeOK, bounds
<1>lock. Locked'
  BY <1>1, <1>2 DEF Locked, Wants, Holds
<1>paired. Paired'
  BY <1>1, <1>2, <1>5, <1>6 DEF Paired, Asking
<1>commanded. Commanded'
  BY <1>1, <1>2 DEF Commanded, Uuid
<1>closed. Closed'
  BY <1>1, <1>2, <1>5, <1>6 DEF Closed
<1>flows. Flows'
  <2>1. v \in entered => msg'[v[1]].place # "tray" \/ Logging(v[1])'
    <3> SUFFICES ASSUME v \in entered, msg[v[1]].place = "tray" PROVE Logging(v[1])'
      BY <1>1
    <3>1. v = Uuid(v[1]) /\ v[1] \in Tray
      BY <1>2, <1>6, Named DEF Flows, Tray
    <3> QED
      BY <1>7, <3>1
  <2>2. \A u \in cli.held : Queued(u[1])'
    BY <1>1, <1>2 DEF Flows, Queued
  <2>3. \A o \in Ids : msg'[o] = msg[o] /\ msg[o].n \in Nat
    BY <1>1, <1>2, Named
  <2> QED
    BY <1>1, <1>2, <1>6, <1>7, <2>1, <2>2, <2>3, FlowsKept
<1>placed. \A x \in Ids : Placed(x)'
  <2> TAKE x \in Ids
  <2>0. /\ Uuid(x) \in Uuids /\ Uuid(x)' = Uuid(x) /\ (Queued(x)' <=> Queued(x))
        /\ \A q \in Procs : Delivers(q, x)' <=> Delivers(q, x)
    BY <1>1, <1>2, Named DEF Uuid, Queued, Delivers
  <2>1. PICK u \in Uuids : u = Uuid(x) /\ u = Uuid(x)'
    BY <2>0
  <2>2. Framed(u)' => Framed(u)
    BY <1>6 DEF OnlyFrame
  <2>3. Away(Uuid(x)) => Away(Uuid(x))'
    <3>1. Away(u) => Away(u)'
      BY <1>1, <2>2 DEF Away
    <3>2. Away(Uuid(x)) <=> Away(u)
      BY <2>1
    <3>3. Away(Uuid(x))' <=> Away(u)'
      BY <2>1 DEF Away, Framed
    <3> QED
      BY <3>1, <3>2, <3>3
  <2>4. ~session.exited /\ Queued(x) =>
           \/ Uuid(x) \in cli.held \/ Framed(Uuid(x))' \/ Logging(x)'
           \/ \E p \in Procs : Delivers(p, x)
    <3> SUFFICES ASSUME ~session.exited, Queued(x), Uuid(x) \notin cli.held, \A p \in Procs : ~Delivers(p, x)
                 PROVE  Framed(Uuid(x))' \/ Logging(x)'
      OBVIOUS
    <3>1. Framed(u)
      BY <1>2, <1>6, <2>1 DEF Placed, Logging
    <3>2. u # v => Framed(u)'
      BY <1>6, <3>1 DEF OnlyFrame
    <3>3. u = v => Logging(x)'
      BY <1>7, <2>1 DEF Queued, Tray
    <3>4. Framed(Uuid(x))' <=> Framed(u)'
      BY <2>1 DEF Framed
    <3> QED
      BY <3>2, <3>3, <3>4
  <2>5. Placed(x)
    BY <1>2
  <2>6. \A p \in Procs : Delivers(p, x) => Away(Uuid(x))'
    BY <2>3, <2>5 DEF Placed
  <2>7. msg[x].place = "tray" /\ msg[x].state = "unsent" => Away(Uuid(x))'
    BY <2>3, <2>5 DEF Placed
  <2> QED
    BY <1>1, <2>0, <2>4, <2>5, <2>6, <2>7, Nobody DEF Placed
<1>keyed. Keyed'
  BY <1>1, <1>2, KeyedKept
<1>wished. Wished'
  <2>1. /\ \A x : (Out(x)' <=> Out(x)) /\ (Queued(x)' <=> Queued(x)) /\ (Delivers("inbox", x)' <=> Delivers("inbox", x))
        /\ Holds("inbox")' <=> Holds("inbox")
        /\ Uuid(user.id)' = Uuid(user.id)
        /\ Asking' <=> Asking
    BY <1>1 DEF Out, Queued, Delivers, Holds, Asking, Uuid
  <2>2. /\ Queued(user.id)' <=> Queued(user.id)
        /\ Delivers("inbox", user.id)' <=> Delivers("inbox", user.id)
    BY <1>1 DEF Queued, Delivers
  <2> QED
    BY <1>1, <1>2, <2>1, <2>2 DEF Wished
<1>paged. Paged'
  BY <1>1, <1>2 DEF Paged, Tray, bounds
<1> QED
  BY <1>types, <1>lock, <1>paired, <1>commanded, <1>closed, <1>flows, <1>placed, <1>keyed, <1>wished, <1>paged DEF MessagesInv

(* The message is in the log, and leaves the tray. *)
LEMMA LoggedKeeps ==
  ASSUME MessagesInv, Logged
  PROVE  MessagesInv'
<1>1. /\ inbox.pc = "log"
      /\ UNCHANGED <<keys, known, hurried, session, cli, commands, lock, deliver, user, entered, told, bounds>>
  BY DEF Logged
<1>2. /\ MessagesTypeOK /\ Locked /\ Paired /\ Commanded /\ Closed /\ Wished /\ Paged /\ Flows /\ Keyed
      /\ inbox \in InboxWork /\ msg \in [Ids -> MessageState] /\ log \in Seq(Ids) /\ \A x \in Ids : Placed(x)
  BY DEF MessagesInv, MessagesTypeOK
<1>3. PICK o \in Ids : o = inbox.id /\ msg[o].place = "tray" /\ Uuid(o) \in entered
  BY <1>1, <1>2 DEF Flows
<1>4. Changes(o, "left", msg[o].state, msg[o].n, msg[o].intent, msg[o].withdrawn)
  <2>1. PICK m \in {[msg[o] EXCEPT !.place = "left"]} : TRUE
    OBVIOUS
  <2>2. /\ m \in MessageState /\ m.key = msg[o].key /\ m.place = "left" /\ m.state = msg[o].state
        /\ m.n = msg[o].n /\ m.intent = msg[o].intent /\ m.withdrawn = msg[o].withdrawn
    BY <1>2, <2>1 DEF MessageState
  <2>3. msg' = [msg EXCEPT ![o] = m]
    BY <1>2, <1>3, <2>1 DEF Logged
  <2> QED
    BY <1>2, <2>2, <2>3, MessageMoves
<1>5. /\ inbox' \in InboxWork /\ inbox'.pc = "get" /\ inbox'.queue = inbox.queue
      /\ shown' = shown \ {o} /\ log' = Append(log, o)
  <2>1. inbox' = [inbox EXCEPT !.pc = "get", !.id = None] /\ shown' = shown \ {o}
    BY <1>3 DEF Logged
  <2>2. ~InLog(msg[o].key)
    BY <1>2, <1>3 DEF Keyed
  <2>3. log' = Append(log, o)
    BY <1>3, <2>2 DEF Logged
  <2> QED
    BY <1>2, <2>1, <2>3 DEF InboxWork
<1>6. /\ log' \in Seq(Ids) /\ Len(log') = Len(log) + 1 /\ log'[Len(log) + 1] = o /\ Len(log) \in Nat
      /\ \A i \in 1..Len(log) : log'[i] = log[i] /\ log[i] \in Ids
  BY <1>2, <1>5
<1>7. /\ \A x \in Ids : /\ msg'[x].key = msg[x].key /\ msg'[x].n = msg[x].n /\ msg'[x].withdrawn = msg[x].withdrawn
                        /\ msg'[x].state = msg[x].state /\ msg'[x].intent = msg[x].intent /\ Uuid(x)' = Uuid(x)
                        /\ (x # o => msg'[x] = msg[x] /\ (Queued(x)' <=> Queued(x)))
      /\ msg'[o].place = "left" /\ ~Queued(o)' /\ msg' \in [Ids -> MessageState]
  <2>1. msg'[o].place = "left" /\ ~Queued(o)' /\ msg' \in [Ids -> MessageState]
    BY <1>4 DEF Changes, Queued
  <2> SUFFICES ASSUME NEW x \in Ids
               PROVE  /\ msg'[x].key = msg[x].key /\ msg'[x].n = msg[x].n /\ msg'[x].withdrawn = msg[x].withdrawn
                      /\ msg'[x].state = msg[x].state /\ msg'[x].intent = msg[x].intent /\ Uuid(x)' = Uuid(x)
                      /\ (x # o => msg'[x] = msg[x] /\ (Queued(x)' <=> Queued(x)))
    BY <2>1
  <2>2. CASE x = o
    BY <1>4, <2>2 DEF Changes, Uuid
  <2>3. CASE x # o
    BY <1>4, <2>3 DEF Changes, Uuid, Queued
  <2> QED
    BY <2>2, <2>3
<1>8. /\ \A q \in Procs : ~Delivers(q, o)
      /\ Uuid(o) \notin cli.held
      /\ \A x : \A q \in Procs : Delivers(q, x)' <=> Delivers(q, x)
      /\ OnlyFrame(<<None, 0>>) /\ \A u : Framed(u)' <=> Framed(u)
      /\ \A u \in Uuids : (Started(u)' => Started(u)) /\ (Heralded(u) => Heralded(u)')
  <2>1. \A q \in Procs : ~Delivers(q, o)
    BY <1>2, <1>3 DEF Placed, Away
  <2>2. Uuid(o) \notin cli.held
    BY <1>2, <1>3 DEF Flows
  <2>3. OnlyFrame(<<None, 0>>) /\ \A u : Framed(u)' <=> Framed(u)
    BY <1>1, <1>5, FramesStay
  <2>4. \A u \in Uuids : (Started(u)' => Started(u)) /\ (Heralded(u) => Heralded(u)')
    BY <1>2, <2>3, Named DEF OnlyFrame
  <2> QED
    BY <1>1, <2>1, <2>2, <2>3, <2>4 DEF Delivers
<1>types. MessagesTypeOK'
  BY <1>1, <1>2, <1>5, <1>6, <1>7 DEF MessagesTypeOK, bounds
<1>lock. Locked'
  BY <1>1, <1>2 DEF Locked, Wants, Holds
<1>paired. Paired'
  BY <1>1, <1>2, <1>5, <1>7 DEF Paired, Asking
<1>commanded. Commanded'
  <2>1. \A q \in Procs : deliver[q].pc = "query" => deliver[q].id \in Ids /\ Uuid(deliver[q].id)' = Uuid(deliver[q].id)
    <3> TAKE q \in Procs
    <3> SUFFICES ASSUME deliver[q].pc = "query" PROVE deliver[q].id \in Ids /\ Uuid(deliver[q].id)' = Uuid(deliver[q].id)
      OBVIOUS
    <3>1. PICK x \in Ids : x = deliver[q].id
      BY DeliveryStands
    <3>2. deliver'[q].id = x
      BY <1>1, <3>1
    <3> QED
      BY <1>1, <1>7, <3>1, <3>2 DEF Uuid
  <2>2. \A i \in 1..Len(commands) : commands[i].by \in Procs
    BY <1>2, Ordered
  <2>3. user.pc = "asked" => user.id \in Ids
    BY <1>2 DEF Paired, Asking
  <2> QED
    BY <1>1, <1>2, <1>7, <2>1, <2>2, <2>3 DEF Commanded
<1>closed. Closed'
  BY <1>1, <1>2, <1>5 DEF Closed
<1>flows. Flows'
  <2>1. \A u \in Uuids : u \in cli.held \/ u \in entered \/ Framed(u)' => msg'[u[1]].place # "unused" /\ u[2] <= msg'[u[1]].n
    BY <1>2, <1>7, <1>8, Named DEF Flows
  <2>2. \A u \in cli.held : Queued(u[1])' /\ u[2] = msg'[u[1]].n /\ u \notin entered /\ ~Framed(u)'
    <3> TAKE u \in cli.held
    <3>1. u \in Uuids /\ u[1] \in Ids /\ u = Uuid(u[1]) /\ Queued(u[1]) /\ u[2] = msg[u[1]].n /\ u \notin entered /\ ~Framed(u)
      BY <1>2, Named DEF Flows, MessagesTypeOK, CliState
    <3>2. u[1] # o
      BY <1>8, <3>1
    <3> QED
      BY <1>7, <1>8, <3>1, <3>2
  <2>3. \A u \in entered : u[2] = msg'[u[1]].n /\ (msg'[u[1]].place = "tray" => Heralded(u)')
    <3> TAKE u \in entered
    <3>1. u \in Uuids /\ u[1] \in Ids /\ u[2] = msg[u[1]].n
      BY <1>2, Named DEF Flows, MessagesTypeOK
    <3>2. msg'[u[1]].place = "tray" => u[1] # o /\ msg[u[1]].place = "tray"
      BY <1>7, <3>1
    <3>3. msg'[u[1]].place = "tray" => Heralded(u)
      BY <1>2, <1>3, <3>2 DEF Flows, Logging
    <3> QED
      BY <1>7, <1>8, <3>1, <3>3
  <2>4. \A u \in Uuids : Started(u)' => u \in entered
    BY <1>2, <1>8 DEF Flows
  <2> QED
    BY <1>1, <1>2, <1>5, <2>1, <2>2, <2>3, <2>4 DEF Flows
<1>placed. \A x \in Ids : Placed(x)'
  <2> TAKE x \in Ids
  <2>1. CASE x # o
    <3>1. Framed(Uuid(x))' <=> Framed(Uuid(x))
      BY <1>7, <1>8 DEF Framed
    <3>2. Logging(x)' <=> Logging(x)
      BY <1>3, <1>5, <2>1 DEF Logging
    <3> QED
      BY <1>1, <1>2, <1>7, <1>8, <2>1, <3>1, <3>2, PlacedKept
  <2>2. CASE x = o
    BY <1>7, <1>8, <2>2, Nobody DEF Placed
  <2> QED
    BY <2>1, <2>2
<1>keyed. Keyed'
  <2>1. \A x \in Ids : (msg[x].place = "tray" => keys[msg[x].key] = x /\ ~InLog(msg[x].key))'
    <3> SUFFICES ASSUME NEW x \in Ids, msg'[x].place = "tray"
                 PROVE  keys'[msg'[x].key] = x /\ ~(InLog(msg[x].key)')
      OBVIOUS
    <3>1. x # o /\ msg[x].place = "tray" /\ msg'[x].key = msg[x].key
      BY <1>7
    <3>2. keys[msg[x].key] = x /\ ~InLog(msg[x].key) /\ keys[msg[o].key] = o
      BY <1>2, <1>3, <3>1 DEF Keyed
    <3>3. \A i \in 1..Len(log') : msg'[log'[i]].key # msg[x].key
      <4> TAKE i \in 1..Len(log')
      <4>1. CASE i \in 1..Len(log)
        BY <1>6, <1>7, <3>2, <4>1 DEF InLog
      <4>2. CASE i = Len(log) + 1
        BY <1>6, <1>7, <3>1, <3>2, <4>2
      <4> QED
        BY <1>6, <4>1, <4>2
    <3>4. DOMAIN log' = 1..Len(log')
      BY <1>6
    <3> QED
      BY <1>1, <3>1, <3>2, <3>3, <3>4 DEF InLog
  <2>2. \A u \in entered : msg'[u[1]].place = "tray" \/ \E i \in 1..Len(log') : log'[i] = u[1]
    <3> TAKE u \in entered
    <3>1. u[1] \in Ids
      BY <1>2, Named DEF MessagesTypeOK
    <3>2. CASE u[1] = o
      BY <1>6, <3>2
    <3>3. CASE u[1] # o
      <4>1. msg[u[1]].place = "tray" \/ \E i \in 1..Len(log) : log[i] = u[1]
        BY <1>2 DEF Keyed
      <4>2. msg'[u[1]] = msg[u[1]]
        BY <1>7, <3>1, <3>3
      <4>3. \A i \in 1..Len(log) : i \in 1..Len(log') /\ log'[i] = log[i]
        BY <1>6
      <4> QED
        BY <4>1, <4>2, <4>3
    <3> QED
      BY <3>2, <3>3
  <2>3. \A i \in 1..Len(log') : Uuid(log[i])' \in entered /\ msg'[log'[i]].place # "tray"
    <3> TAKE i \in 1..Len(log')
    <3>1. CASE i \in 1..Len(log)
      <4>1. log'[i] = log[i] /\ log[i] \in Ids /\ Uuid(log[i]) \in entered /\ msg[log[i]].place # "tray"
        BY <1>2, <1>6, <3>1 DEF Keyed
      <4>2. PICK x \in Ids : x = log[i]
        BY <4>1
      <4>3. x # o
        BY <1>3, <4>1, <4>2
      <4> QED
        BY <1>7, <4>1, <4>2, <4>3 DEF Uuid
    <3>2. CASE i = Len(log) + 1
      <4>1. log'[i] = o
        BY <1>6, <3>2
      <4> QED
        BY <1>3, <1>7, <4>1 DEF Uuid
    <3> QED
      BY <1>6, <3>1, <3>2
  <2>4. \A i, j \in 1..Len(log') : msg'[log'[i]].key = msg'[log'[j]].key => i = j
    <3>1. \A i \in 1..Len(log) : msg[log[i]].key # msg[o].key
      BY <1>2, <1>3 DEF Keyed, InLog
    <3>2. \A i \in 1..Len(log) : msg'[log'[i]].key = msg[log[i]].key
      BY <1>6, <1>7
    <3>3. msg'[log'[Len(log) + 1]].key = msg[o].key
      BY <1>6, <1>7
    <3>4. \A i \in 1..Len(log') : i \in 1..Len(log) \/ i = Len(log) + 1
      BY <1>6
    <3>5. \A i, j \in 1..Len(log) : msg[log[i]].key = msg[log[j]].key => i = j
      BY <1>2 DEF Keyed
    <3> QED
      BY <3>1, <3>2, <3>3, <3>5, <3>4
  <2> QED
    BY <1>1, <2>1, <2>2, <2>3, <2>4 DEF Keyed
<1>wished. Wished'
  <2>1. \A x \in Ids : told'[x] = "withdrawn" \/ msg'[x].withdrawn => Out(x)'
    <3> TAKE x \in Ids
    <3>1. told'[x] = "withdrawn" \/ msg'[x].withdrawn => Out(x)
      BY <1>1, <1>2, <1>7 DEF Wished
    <3>2. Out(x) => x # o
      BY <1>3 DEF Out
    <3> QED
      BY <1>1, <1>7, <3>1, <3>2 DEF Out
  <2>2. /\ Asking => user.id \in Ids
        /\ Asking' <=> Asking
        /\ Holds("inbox")' <=> Holds("inbox")
    BY <1>1, <1>2 DEF Paired, Asking, Holds
  <2>3. Asking => /\ msg'[user.id].n = msg[user.id].n /\ msg'[user.id].intent = msg[user.id].intent
                  /\ msg'[user.id].state = msg[user.id].state
                  /\ (Queued(user.id)' => Queued(user.id)) /\ Uuid(user.id)' = Uuid(user.id)
                  /\ (Delivers("inbox", user.id)' <=> Delivers("inbox", user.id))
    <3> SUFFICES ASSUME Asking
                 PROVE  /\ msg'[user.id].n = msg[user.id].n /\ msg'[user.id].intent = msg[user.id].intent
                        /\ msg'[user.id].state = msg[user.id].state
                        /\ (Queued(user.id)' => Queued(user.id)) /\ Uuid(user.id)' = Uuid(user.id)
                        /\ (Delivers("inbox", user.id)' <=> Delivers("inbox", user.id))
      OBVIOUS
    <3>1. PICK x \in Ids : x = user.id /\ x = user'.id
      BY <1>1, <2>2
    <3>2. (Queued(x)' => Queued(x)) /\ (Queued(user.id)' <=> Queued(x)')
      BY <1>7, <3>1 DEF Queued
    <3>3. Uuid(user.id)' = Uuid(user.id)
      BY <1>7, <3>1 DEF Uuid
    <3> QED
      BY <1>1, <1>7, <3>1, <3>2, <3>3 DEF Delivers
  <2>4. user.pc = "answered" => Asking
    BY DEF Asking
  <2> QED
    BY <1>1, <1>2, <2>1, <2>2, <2>3, <2>4 DEF Wished
<1>paged. Paged'
  <2>1. Tray' = Tray \ {o}
    BY <1>7 DEF Tray
  <2> QED
    BY <1>1, <1>2, <1>5, <2>1 DEF Paged, bounds
<1> QED
  BY <1>types, <1>lock, <1>paired, <1>commanded, <1>closed, <1>flows, <1>placed, <1>keyed, <1>wished, <1>paged DEF MessagesInv

(* The frame says that a message of the tray was not taken. *)
LEMMA DroppedMoves ==
  ASSUME MessagesInv, NEW o \in Ids, SettleDropped(o)
  PROVE  /\ Comes(Ends) /\ cli' = cli /\ session' = session /\ inbox'.queue = Tail(inbox.queue)
         /\ inbox' \in InboxWork /\ Head(inbox.queue).uuid = Uuid(o)
         /\ Queued(o) /\ Uuid(o) \notin cli.held /\ Uuid(o) \notin entered /\ \A q \in Procs : ~Delivers(q, o)
         /\ UNCHANGED <<known, hurried, log, cli, session, commands, user, entered, told, bounds>>
         /\ \/ /\ inbox'.pc = "deliver" /\ msg[o].intent \in {"none", "send_now"}
               /\ Changes(o, "tray", "queued", msg[o].n + 1, "none", msg[o].withdrawn)
               /\ Goes("inbox", "wait", "redeliver", o) /\ lock' = Append(lock, "inbox") /\ UNCHANGED <<keys, shown>>
            \/ /\ inbox'.pc = "get" /\ UNCHANGED <<lock, deliver>>
               /\ \E w \in BOOLEAN : Leaves(o, w)
<1>1. /\ Comes(Ends) /\ inbox.queue # <<>> /\ Head(inbox.queue).kind # "started" /\ inbox.pc = "get"
      /\ msg[o].place = "tray" /\ Uuid(o) = Head(inbox.queue).uuid
      /\ UNCHANGED <<known, hurried, log, cli, session, commands, user, entered, told, bounds>>
  BY DEF SettleDropped, Comes, Ends, Subject, Tray
<1>2. MessagesTypeOK /\ Flows /\ Placed(o) /\ msg \in [Ids -> MessageState] /\ msg[o] \in MessageState
  BY DEF MessagesInv, MessagesTypeOK
<1>3. /\ RestOfInbox \in InboxWork /\ RestOfInbox.queue = Tail(inbox.queue)
      /\ RestOfInbox.pc = inbox.pc /\ RestOfInbox.id = inbox.id
  BY <1>1, <1>2, RestMoves
<1> DEFINE displaced == Head(inbox.queue).preempted /\ Head(inbox.queue).kind = "cancelled"
           again == msg[o].intent = "send_now" \/ (msg[o].intent = "none" /\ displaced)
<1>4. /\ again => /\ Redelivers("inbox", o, msg[o].intent = "send_now")
                  /\ inbox' = [RestOfInbox EXCEPT !.pc = "deliver", !.id = o]
                  /\ UNCHANGED <<keys, shown>>
      /\ ~again => /\ Discard({o}, IF msg[o].intent = "none" THEN msg ELSE [msg EXCEPT ![o].withdrawn = TRUE])
                   /\ inbox' = RestOfInbox
                   /\ UNCHANGED <<lock, deliver>>
  BY DEF SettleDropped
<1>5. again => msg[o].intent \in {"none", "send_now"}
  OBVIOUS
<1> HIDE DEF again
<1>6. /\ inbox' \in InboxWork /\ inbox'.queue = Tail(inbox.queue)
      /\ inbox'.pc = IF again THEN "deliver" ELSE "get"
  <2>1. CASE again
    BY <1>3, <1>4, <2>1 DEF InboxWork
  <2>2. CASE ~again
    BY <1>1, <1>3, <1>4, <2>2
  <2> QED
    BY <2>1, <2>2
<1>7. /\ Framed(Uuid(o))
      /\ Heralded(Uuid(o)) => Head(inbox.queue).kind = "started"
  BY <1>1, <1>6, NoticeTaken
<1>8. /\ Queued(o) /\ Uuid(o) \notin cli.held /\ Uuid(o) \notin entered /\ \A q \in Procs : ~Delivers(q, o)
  <2>1. ~Away(Uuid(o))
    BY <1>7 DEF Away
  <2>2. \A q \in Procs : ~Delivers(q, o)
    BY <1>2, <2>1 DEF Placed
  <2>3. Queued(o)
    BY <1>1, <1>2, <2>1 DEF Placed, Queued, MessageState
  <2>4. Uuid(o) \notin cli.held
    BY <1>2, <1>7 DEF Flows
  <2>5. Uuid(o)[1] = o
    BY DEF Uuid
  <2>6. Uuid(o) \notin entered
    BY <1>1, <1>2, <1>7, <2>5 DEF Flows, Logging
  <2> QED
    BY <2>2, <2>3, <2>4, <2>6
<1>9. CASE again
  <2>1. PICK now \in BOOLEAN : Redelivers("inbox", o, now)
    BY <1>4, <1>9
  <2>2. /\ Changes(o, msg[o].place, msg[o].state, msg[o].n + 1, "none", msg[o].withdrawn)
        /\ Goes("inbox", "wait", "redeliver", o) /\ lock' = Append(lock, "inbox")
    BY <1>2, <2>1, RedeliversMoves, Nobody
  <2> QED
    BY <1>1, <1>4, <1>5, <1>6, <1>8, <1>9, <2>2 DEF Queued
<1>10. CASE ~again
  <2>1. PICK ms \in [Ids -> MessageState] : ms = IF msg[o].intent = "none" THEN msg ELSE [msg EXCEPT ![o].withdrawn = TRUE]
    BY <1>2 DEF MessageState
  <2>2. /\ \A x \in Ids \ {o} : ms[x] = msg[x]
        /\ ms[o].key = msg[o].key /\ ms[o].state = msg[o].state /\ ms[o].n = msg[o].n /\ ms[o].intent = msg[o].intent
        /\ ms[o].withdrawn \in BOOLEAN
    BY <1>2, <2>1 DEF MessageState
  <2>3. Discard({o}, ms)
    BY <1>4, <1>10, <2>1
  <2>4. Leaves(o, ms[o].withdrawn)
    BY <1>2, <2>2, <2>3, OneDiscarded
  <2> QED
    BY <1>1, <1>4, <1>6, <1>8, <1>10, <2>2, <2>4
<1> QED
  BY <1>9, <1>10

(* DeliveryStands again, behind the message that displaced it. *)
LEMMA DroppedAgainKeeps ==
  ASSUME MessagesInv, NEW o \in Ids, SettleDropped(o), inbox'.pc = "deliver"
  PROVE  MessagesInv'
<1>1. /\ Comes(Ends) /\ cli' = cli /\ session' = session /\ inbox'.queue = Tail(inbox.queue)
      /\ inbox' \in InboxWork /\ Head(inbox.queue).uuid = Uuid(o)
      /\ Queued(o) /\ Uuid(o) \notin cli.held /\ Uuid(o) \notin entered /\ \A q \in Procs : ~Delivers(q, o)
      /\ UNCHANGED <<known, hurried, log, cli, session, commands, user, entered, told, bounds>>
      /\ msg[o].intent \in {"none", "send_now"}
      /\ Changes(o, "tray", "queued", msg[o].n + 1, "none", msg[o].withdrawn)
      /\ Goes("inbox", "wait", "redeliver", o) /\ lock' = Append(lock, "inbox") /\ UNCHANGED <<keys, shown>>
  BY DroppedMoves
<1>2. /\ MessagesTypeOK /\ Locked /\ Paired /\ Commanded /\ Closed /\ Wished /\ Paged /\ Flows /\ Keyed
      /\ \A x \in Ids : Placed(x)
  BY DEF MessagesInv
<1>3. /\ inbox.pc = "get" /\ session.live /\ deliver["inbox"].pc = "off" /\ OnlyFrame(Uuid(o))
      /\ \A i \in 1..Len(inbox'.queue) : inbox'.queue[i].kind = "exit" =>
             i = Len(inbox'.queue) /\ session'.exited /\ inbox'.queue[i].uuid = <<None, 0>>
      /\ \A i \in 1..Len(inbox'.queue) : inbox'.queue[i].kind # "exit" => inbox'.queue[i].uuid \in Uuids
  BY <1>1, NoticeTaken
<1>4. /\ msg' \in [Ids -> MessageState] /\ msg[o].n \in Nat /\ msg'[o].n = msg[o].n + 1 /\ msg'[o].place = "tray"
      /\ \A x \in Ids \ {o} : msg'[x] = msg[x] /\ Uuid(x)' = Uuid(x) /\ (Queued(x)' <=> Queued(x))
  BY <1>1, <1>2, Named DEF Changes, Uuid, Queued
<1>5. /\ deliver' \in [Procs -> Delivery] /\ deliver'["user"] = deliver["user"]
      /\ deliver'["inbox"].pc = "wait" /\ deliver'["inbox"].how = "redeliver" /\ deliver'["inbox"].id = o
  BY <1>1, Nobody DEF Goes
<1>lock. Locked'
  <2>1. ~Wants("inbox") /\ Wants("inbox")' /\ deliver'["inbox"].pc \notin {"write", "query", "failed"}
    BY <1>3, <1>5 DEF Wants
  <2>2. \A q \in Procs \ {"inbox"} : deliver'[q] = deliver[q] /\ (Wants(q)' <=> Wants(q))
    BY <1>1, <1>5, Nobody DEF Wants
  <2> QED
    BY <1>1, <1>2, <2>1, <2>2, LockedKept, Nobody
<1>types. MessagesTypeOK'
  BY <1>1, <1>2, <1>4, <1>5, <1>lock DEF MessagesTypeOK, Locked, LockStates, bounds
<1>paired. Paired'
  <2>1. \A x \in Ids : (msg[x].place # "unused" => msg'[x].place # "unused") /\ msg[x].n <= msg'[x].n
    BY <1>2, <1>4, Named
  <2>2. Asking /\ user.id \in Ids => (user.n <= msg[user.id].n => user.n <= msg'[user.id].n)
    <3> SUFFICES ASSUME user.id \in Ids, user.n <= msg[user.id].n PROVE user.n <= msg'[user.id].n
      OBVIOUS
    <3>1. PICK a, b, c \in Int : a = user.n /\ b = msg[user.id].n /\ c = msg'[user.id].n
      BY <1>2, <1>4 DEF MessagesTypeOK, UserState, MessageState
    <3>2. a <= b /\ b <= c
      BY <2>1, <3>1
    <3> QED
      BY <3>1, <3>2
  <2>3. Asking' <=> Asking
    BY <1>1 DEF Asking
  <2>mine. /\ deliver'["inbox"].pc # "off" /\ deliver'["inbox"].id \in Ids /\ deliver'["inbox"].how = "redeliver"
           /\ \A p \in Procs : deliver'[p].pc = "wait" => deliver'[p].how # "send"
    BY <1>2, <1>5, Nobody DEF Paired
  <2>asks. /\ Asking \/ user.pc = "deliver" => user.id \in Ids /\ msg'[user.id].place # "unused"
           /\ user.pc = "reconnect" /\ user.op # "send" => user.id \in Ids /\ msg'[user.id].place # "unused"
           /\ Asking => user.op \in {"edit", "delete", "send_now"} /\ user.n <= msg'[user.id].n
    BY <1>2, <2>1, <2>2 DEF Paired
  <2>user. /\ user.pc = "deliver" <=> deliver["user"].pc # "off"
           /\ deliver["user"].pc # "off" => deliver["user"].id = user.id
           /\ user.pc \in {"lookback", "look"} => user.op = "send"
    BY <1>2 DEF Paired
  <2> QED
    BY <1>1, <1>5, <2>3, <2>mine, <2>asks, <2>user DEF Paired
<1>commanded. Commanded'
  <2>1. \A q \in Procs : deliver[q].pc = "query" => deliver'[q] = deliver[q] /\ Uuid(deliver[q].id)' = Uuid(deliver[q].id)
    <3> SUFFICES ASSUME NEW q \in Procs, deliver[q].pc = "query"
                 PROVE  deliver'[q] = deliver[q] /\ Uuid(deliver[q].id)' = Uuid(deliver[q].id)
      OBVIOUS
    <3>1. q = "user" /\ deliver'[q] = deliver[q]
      BY <1>3, <1>5, Nobody
    <3>2. PICK x \in Ids : x = deliver[q].id /\ Delivers(q, x)
      BY DeliveryStands
    <3>3. x # o /\ x = deliver'[q].id
      BY <1>1, <3>1, <3>2
    <3> QED
      BY <1>4, <3>1, <3>2, <3>3 DEF Uuid
  <2>2. \A i \in 1..Len(commands) : commands[i].by \in Procs /\ (commands[i].kind = "cancel" => commands[i].uuid[2] \in Nat)
    BY <1>2, Ordered DEF Command, Uuids
  <2>3. user.pc = "asked" => user.id \in Ids /\ msg[user.id].n \in Nat /\ msg'[user.id].n \in Nat /\ msg[user.id].n <= msg'[user.id].n
    BY <1>2, <1>4, Named DEF Paired, Asking
  <2>4. \A i \in 1..Len(commands) : commands[i].kind = "cancel" => commands[i].uuid[2] <= msg'[user.id].n
    <3> SUFFICES ASSUME NEW i \in 1..Len(commands), commands[i].kind = "cancel" PROVE commands[i].uuid[2] <= msg'[user.id].n
      OBVIOUS
    <3>1. user.pc = "asked" /\ commands[i].uuid[2] <= msg[user.id].n
      BY <1>2 DEF Commanded
    <3>2. PICK a, b, c \in Nat : a = commands[i].uuid[2] /\ b = msg[user.id].n /\ c = msg'[user.id].n
      BY <2>2, <2>3, <3>1
    <3>3. a <= b /\ b <= c
      BY <2>3, <3>1, <3>2
    <3> QED
      BY <3>2, <3>3
  <2> QED
    BY <1>1, <1>2, <2>1, <2>2, <2>4 DEF Commanded
<1>closed. Closed'
  BY <1>1, <1>2, <1>3, <1>5, Nobody DEF Closed
<1>goes. \A q \in Procs, x \in Ids \ {o} : Delivers(q, x)' <=> Delivers(q, x)
  BY <1>3, <1>5, Nobody DEF Delivers
<1>to. Delivers("inbox", o)' /\ \A q \in Procs \ {"inbox"} : ~Delivers(q, o)'
  BY <1>1, <1>5, Nobody DEF Delivers
<1>flows. /\ Flows' /\ (\A x \in Ids : Placed(x)') /\ Keyed'
          /\ \A x \in Ids : told'[x] = "withdrawn" \/ msg'[x].withdrawn => Out(x)'
  <2>1. LogsOn /\ (inbox'.pc = "log" => inbox.pc = "log")
    BY <1>3 DEF LogsOn
  <2>2. \A x \in Ids : told'[x] = "withdrawn" => told[x] = "withdrawn"
    BY <1>1
  <2>3. msg[o].place = "tray" /\ UNCHANGED <<keys, log, cli, entered, session>>
    BY <1>1 DEF Queued
  <2> QED
    BY <1>1, <1>3, <1>goes, <1>to, <2>1, <2>2, <2>3, NewDelivery, Nobody
<1>wished. Wished'
  <2>1. Asking => user.id \in Ids
    BY <1>2 DEF Paired
  <2>2. Asking' <=> Asking
    BY <1>1 DEF Asking
  <2>3. Asking /\ user.op \in {"edit", "delete"} => user.id # o
    BY <1>1, <1>2 DEF Wished
  <2>4. Asking /\ user.id = o => msg'[o].n # user.n
    <3> SUFFICES ASSUME Asking, user.id = o PROVE msg'[o].n # user.n
      OBVIOUS
    <3>1. user.n <= msg[o].n /\ user.n \in Nat
      BY <1>2 DEF Paired, MessagesTypeOK, UserState
    <3> QED
      BY <1>4, <3>1
  <2>5. ASSUME Asking, user.id # o
        PROVE  /\ msg'[user.id] = msg[user.id] /\ Uuid(user.id)' = Uuid(user.id)
               /\ (Queued(user.id)' <=> Queued(user.id)) /\ ~Delivers("inbox", user.id)'
    <3>1. PICK x \in Ids : x = user.id /\ x = user'.id /\ x # o
      BY <1>1, <2>1, <2>5
    <3>2. msg'[x] = msg[x] /\ (Queued(user.id)' <=> Queued(x)')
      BY <1>4, <3>1 DEF Queued
    <3>3. Uuid(user.id)' = Uuid(user.id)
      BY <1>4, <3>1 DEF Uuid
    <3>4. ~Delivers("inbox", user.id)'
      BY <1>5, <3>1 DEF Delivers
    <3> QED
      BY <1>4, <3>1, <3>2, <3>3, <3>4
  <2>6. user.pc = "answered" => Asking
    BY DEF Asking
  <2>7. CASE ~Asking
    BY <1>1, <1>flows, <2>2, <2>6, <2>7 DEF Wished
  <2>8. CASE Asking /\ user.id = o
    BY <1>1, <1>flows, <2>2, <2>3, <2>4, <2>8 DEF Wished
  <2>9. CASE Asking /\ user.id # o
    BY <1>1, <1>2, <1>flows, <2>2, <2>5, <2>9 DEF Wished
  <2> QED
    BY <2>7, <2>8, <2>9
<1>paged. Paged'
  <2>1. Tray' = Tray
    BY <1>1, <1>4 DEF Tray, Queued
  <2> QED
    BY <1>1, <1>2, <2>1 DEF Paged, bounds
<1> QED
  BY <1>types, <1>lock, <1>paired, <1>commanded, <1>closed, <1>flows, <1>wished, <1>paged DEF MessagesInv

(* Gone, as the user wished. *)
LEMMA DroppedGoneKeeps ==
  ASSUME MessagesInv, NEW o \in Ids, SettleDropped(o), inbox'.pc = "get"
  PROVE  MessagesInv'
<1>1. /\ Comes(Ends) /\ cli' = cli /\ session' = session /\ inbox'.queue = Tail(inbox.queue)
      /\ inbox' \in InboxWork /\ Head(inbox.queue).uuid = Uuid(o)
      /\ Queued(o) /\ Uuid(o) \notin cli.held /\ Uuid(o) \notin entered /\ \A q \in Procs : ~Delivers(q, o)
      /\ UNCHANGED <<known, hurried, log, cli, session, commands, user, entered, told, bounds, lock, deliver>>
      /\ \E w \in BOOLEAN : Leaves(o, w)
  BY DroppedMoves
<1>2. /\ MessagesTypeOK /\ Locked /\ Paired /\ Commanded /\ Closed /\ Wished /\ Paged /\ Flows /\ Keyed
      /\ \A x \in Ids : Placed(x)
  BY DEF MessagesInv
<1>3. /\ inbox.pc = "get" /\ session.live /\ deliver["inbox"].pc = "off" /\ OnlyFrame(Uuid(o))
      /\ \A i \in 1..Len(inbox'.queue) : inbox'.queue[i].kind = "exit" =>
             i = Len(inbox'.queue) /\ session'.exited /\ inbox'.queue[i].uuid = <<None, 0>>
      /\ \A i \in 1..Len(inbox'.queue) : inbox'.queue[i].kind # "exit" => inbox'.queue[i].uuid \in Uuids
  BY <1>1, NoticeTaken
<1>4. PICK w \in BOOLEAN : Leaves(o, w)
  BY <1>1
<1>5. /\ msg' \in [Ids -> MessageState] /\ keys' \in [Keys -> {None} \cup Ids] /\ shown' = shown \ {o}
      /\ msg'[o].place = "left" /\ ~Queued(o)'
      /\ \A x \in Ids : /\ msg'[x].n = msg[x].n /\ msg'[x].intent = msg[x].intent /\ msg'[x].state = msg[x].state
                        /\ Uuid(x)' = Uuid(x)
                        /\ (x # o => msg'[x] = msg[x] /\ (Queued(x)' <=> Queued(x)))
  <2>1. /\ msg' \in [Ids -> MessageState] /\ keys' \in [Keys -> {None} \cup Ids] /\ shown' = shown \ {o}
        /\ msg'[o].place = "left" /\ ~Queued(o)'
    BY <1>4 DEF Leaves, Changes, Queued
  <2> SUFFICES ASSUME NEW x \in Ids
               PROVE  /\ msg'[x].n = msg[x].n /\ msg'[x].intent = msg[x].intent /\ msg'[x].state = msg[x].state
                      /\ Uuid(x)' = Uuid(x)
                      /\ (x # o => msg'[x] = msg[x] /\ (Queued(x)' <=> Queued(x)))
    BY <2>1
  <2>2. CASE x = o
    BY <1>4, <2>2 DEF Leaves, Changes, Uuid
  <2>3. CASE x # o
    BY <1>4, <2>3 DEF Leaves, Changes, Uuid, Queued
  <2> QED
    BY <2>2, <2>3
<1>types. MessagesTypeOK'
  BY <1>1, <1>2, <1>5 DEF MessagesTypeOK, bounds
<1>lock. Locked'
  BY <1>1, <1>2 DEF Locked, Wants, Holds
<1>paired. Paired'
  BY <1>1, <1>2, <1>3, <1>5 DEF Paired, Asking
<1>commanded. Commanded'
  <2>1. \A q \in Procs : deliver[q].pc = "query" => deliver[q].id \in Ids /\ Uuid(deliver[q].id)' = Uuid(deliver[q].id)
    <3> SUFFICES ASSUME NEW q \in Procs, deliver[q].pc = "query"
                 PROVE  deliver[q].id \in Ids /\ Uuid(deliver[q].id)' = Uuid(deliver[q].id)
      OBVIOUS
    <3>1. PICK x \in Ids : x = deliver[q].id
      BY DeliveryStands
    <3>2. deliver'[q].id = x
      BY <1>1, <3>1
    <3> QED
      BY <1>1, <1>5, <3>1, <3>2 DEF Uuid
  <2>2. \A i \in 1..Len(commands) : commands[i].by \in Procs
    BY <1>2, Ordered
  <2>3. user.pc = "asked" => user.id \in Ids
    BY <1>2 DEF Paired, Asking
  <2> QED
    BY <1>1, <1>2, <1>5, <2>1, <2>2, <2>3 DEF Commanded
<1>closed. Closed'
  BY <1>1, <1>2, <1>3 DEF Closed
<1>flows. /\ Flows' /\ (\A x \in Ids : Placed(x)') /\ Keyed'
          /\ \A x \in Ids : told'[x] = "withdrawn" \/ msg'[x].withdrawn => Out(x)'
  <2>1. LogsOn /\ (inbox'.pc = "log" => inbox.pc = "log")
    BY <1>3 DEF LogsOn
  <2>2. /\ \A q \in Procs, x \in Ids \ {o} : Delivers(q, x)' <=> Delivers(q, x)
        /\ \A q \in Procs : ~Delivers(q, o)'
    BY <1>1 DEF Delivers
  <2>3. \A x \in Ids \ {o} : told'[x] = "withdrawn" => told[x] = "withdrawn"
    BY <1>1
  <2>4. UNCHANGED <<log, cli, entered, session>>
    BY <1>1
  <2> QED
    BY <1>1, <1>3, <1>4, <2>1, <2>2, <2>3, <2>4, LeavingTray, Nobody
<1>wished. Wished'
  <2>1. /\ Asking => user.id \in Ids
        /\ Asking' <=> Asking
        /\ Holds("inbox")' <=> Holds("inbox")
        /\ user.pc = "answered" => Asking
    BY <1>1, <1>2 DEF Paired, Asking, Holds
  <2>2. ASSUME Asking
        PROVE  /\ msg'[user.id].n = msg[user.id].n /\ msg'[user.id].intent = msg[user.id].intent
               /\ msg'[user.id].state = msg[user.id].state
               /\ (Queued(user.id)' => Queued(user.id)) /\ Uuid(user.id)' = Uuid(user.id)
               /\ (Delivers("inbox", user.id)' <=> Delivers("inbox", user.id))
    <3>1. PICK x \in Ids : x = user.id /\ x = user'.id
      BY <1>1, <2>1, <2>2
    <3>2. (Queued(x)' => Queued(x)) /\ (Queued(user.id)' <=> Queued(x)')
      BY <1>5, <3>1 DEF Queued
    <3>3. Uuid(user.id)' = Uuid(user.id)
      BY <1>5, <3>1 DEF Uuid
    <3> QED
      BY <1>1, <1>5, <3>1, <3>2, <3>3 DEF Delivers
  <2> QED
    BY <1>1, <1>2, <1>flows, <2>1, <2>2 DEF Wished
<1>paged. Paged'
  <2>1. Tray' = Tray \ {o}
    BY <1>5 DEF Tray
  <2> QED
    BY <1>1, <1>2, <1>5, <2>1 DEF Paged, bounds
<1> QED
  BY <1>types, <1>lock, <1>paired, <1>commanded, <1>closed, <1>flows, <1>wished, <1>paged DEF MessagesInv

LEMMA SettleDroppedKeeps ==
  ASSUME MessagesInv, NEW o \in Ids, SettleDropped(o)
  PROVE  MessagesInv'
BY DroppedMoves, DroppedAgainKeeps, DroppedGoneKeeps

LEMMA MessagesInitInv ==
  ASSUME MessagesInit
  PROVE  MessagesInv
<1>1. /\ lock = <<>> /\ log = <<>> /\ commands = <<>> /\ inbox.queue = <<>> /\ cli.out = <<>> /\ cli.held = {} /\ cli.turn = {}
      /\ entered = {} /\ hurried = {} /\ known = {} /\ shown = {}
      /\ inbox.pc = "get" /\ inbox.id = None /\ user.pc = "off" /\ exits = 0
      /\ session.live /\ ~session.exited /\ ~session.evicting
  BY Nobody DEF MessagesInit, Fresh
<1>2. \A p \in Procs : deliver[p] = NoDelivery /\ deliver[p].pc = "off"
  BY Nobody DEF MessagesInit
<1>3. \A o \in Ids : msg[o].place = "unused" /\ msg[o].state = "queued" /\ ~msg[o].withdrawn /\ told[o] = "none"
  BY DEF MessagesInit
<1>4. Len(lock) = 0 /\ Len(log) = 0 /\ Len(commands) = 0 /\ Len(inbox.queue) = 0
  BY <1>1
<1>5. \A u : ~Framed(u) /\ ~Started(u)
  BY <1>1, NoFrames DEF Framed, Started
<1>types. MessagesTypeOK
  <2>1. NoUser.key \in Keys
    BY Nobody DEF UserState
  <2>2. msg \in [Ids -> MessageState]
    BY <2>1 DEF MessagesInit, MessageState, Intents
  <2>3. keys \in [Keys -> {None} \cup Ids] /\ told \in [Ids -> {"none", "withdrawn", "accepted", "sent"}]
    BY DEF MessagesInit
  <2>4. session \in SessionState /\ cli \in CliState /\ inbox \in InboxWork /\ user \in UserState
    BY Nobody DEF MessagesInit, SessionState, CliState, InboxWork, Fresh
  <2>5. deliver \in [Procs -> Delivery]
    BY Nobody DEF MessagesInit
  <2>6. /\ requests \in 0..MaxRequests /\ exits \in 0..MaxExits
        /\ refusals \in 0..MaxRefusals /\ failures \in 0..MaxFailedWrites
    BY TrayAssumption DEF MessagesInit
  <2> QED
    BY <1>1, <1>4, <2>2, <2>3, <2>4, <2>5, <2>6 DEF MessagesTypeOK
<1>lock. Locked
  <2>1. lock \in LockStates
    BY <1>1, <1>4 DEF LockStates
  <2> QED
    BY <1>1, <1>2, <2>1 DEF Locked, Wants, InLock
<1>paired. Paired
  BY <1>1, <1>2, Nobody DEF Paired, Asking
<1>commanded. Commanded
  BY <1>4 DEF Commanded
<1>closed. Closed
  BY <1>1, <1>4 DEF Closed
<1>flows. Flows
  BY <1>1, <1>5, FS_EmptySet DEF Flows
<1>placed. \A o \in Ids : Placed(o)
  BY <1>2, <1>3, Nobody DEF Placed, Delivers, Queued
<1>keyed. Keyed
  BY <1>1, <1>3, <1>4 DEF Keyed
<1>wished. Wished
  BY <1>1, <1>3 DEF Wished, Asking
<1>paged. Paged
  BY <1>1, <1>3 DEF Paged, Tray
<1> QED
  BY <1>types, <1>lock, <1>paired, <1>commanded, <1>closed, <1>flows, <1>placed, <1>keyed, <1>wished, <1>paged DEF MessagesInv

LEMMA MessagesStill ==
  ASSUME MessagesInv, UNCHANGED messageVars
  PROVE  MessagesInv'
<1>1. /\ UNCHANGED <<msg, keys, known, hurried, log, shown, session, cli, commands, lock, deliver>>
      /\ UNCHANGED <<user, inbox, entered, told, requests, exits, refusals, failures>>
  BY DEF messageVars
<1>2. MessagesTypeOK'
  BY <1>1 DEF MessagesInv, MessagesTypeOK
<1>3. Locked' /\ Paired'
  BY <1>1 DEF MessagesInv, Locked, Paired, Wants, Holds, Asking
<1>4. Commanded' /\ Closed'
  BY <1>1 DEF MessagesInv, Commanded, Closed, Uuid
<1>5. Flows'
  BY <1>1 DEF MessagesInv, Flows, Framed, Started, Heralded, Logging, Queued, Uuid
<1>6. \A o \in Ids : Placed(o)'
  BY <1>1 DEF MessagesInv, Placed, Delivers, Away, Framed, Logging, Queued, Uuid
<1>7. Keyed'
  BY <1>1 DEF MessagesInv, Keyed, InLog, Uuid
<1>8. Wished' /\ Paged'
  BY <1>1 DEF MessagesInv, Wished, Paged, Out, Asking, Queued, Delivers, Holds, Uuid, Tray
<1> QED
  BY <1>2, <1>3, <1>4, <1>5, <1>6, <1>7, <1>8 DEF MessagesInv

LEMMA MessagesStep ==
  ASSUME MessagesInv, [MessagesNext]_messageVars
  PROVE  MessagesInv'
<1>ask. CASE Ask
  <2>1. CASE \E k \in Keys : AskSend(k)
    BY <2>1, AskSendKeeps
  <2>2. CASE \E o \in Ids, op \in Requests :
                AskTooLate(op, o) \/ WithdrawUnsent(op, o) \/ AskResend(op, o) \/ AskCancel(op, o)
    BY <2>2, AskTooLateKeeps, WithdrawUnsentKeeps, AskResendKeeps, AskCancelKeeps
  <2> QED
    BY <1>ask, <2>1, <2>2 DEF Ask
<1>continue. CASE Continue
  BY <1>continue, LookKeeps, EnqueueKeeps, ReconnectKeeps, EvictedKeeps, EnqueueCancelKeeps, CancelFailedKeeps,
     WithdrawnKeeps, HurriedKeeps DEF Continue
<1>deliver. CASE \E p \in Procs : Deliver(p)
  BY <1>deliver, BeginRedeliveryKeeps, BeginResendKeeps, WrittenKeeps, WriteFailsKeeps DEF Deliver
<1>execute. CASE Execute
  <2>1. MessagesTypeOK /\ commands # <<>>
    BY <1>execute DEF MessagesInv, Execute
  <2>2. Head(commands) \in Command
    BY <2>1 DEF MessagesTypeOK
  <2> QED
    BY <1>execute, <2>2, QueryKeeps, CancelKeeps DEF Command
<1>read. CASE ReadFrame
  BY <1>read, ReadFrameKeeps
<1>exit. CASE ActorExits \/ Evict
  BY <1>exit, ActorExitsKeeps
<1>evicted. CASE Evicted
  BY <1>evicted, EvictedKeeps
<1>cli. CASE CliMoves
  BY <1>cli, EndTurnKeeps, InterruptKeeps, TakeKeeps, RefuseKeeps DEF CliMoves
<1>inbox. CASE InboxMoves
  BY <1>inbox, SettleNothingKeeps, LoggedKeeps, TakeExitNoticeKeeps, SettleDroppedKeeps DEF InboxMoves
<1>still. CASE UNCHANGED messageVars
  BY <1>still, MessagesStill
<1> QED
  BY <1>ask, <1>continue, <1>deliver, <1>execute, <1>read, <1>exit, <1>evicted, <1>cli, <1>inbox, <1>still DEF MessagesNext

(* Every state the queue of messages reaches is one of the invariant: the   *)
(* lock, the deliveries, the commands before the actor, the frames on their *)
(* way back and the tray belong together (session_manager.py).              *)
THEOREM MessagesInvHolds == MessagesSpec => []MessagesInv
BY MessagesInitInv, MessagesStep, PTL DEF MessagesSpec

(* The state has its types: in particular no more than two coroutines ever  *)
(* wait for the send lock.                                                  *)
THEOREM MessagesTypeCorrect == MessagesSpec => []MessagesTypeOK
<1>1. MessagesInv => MessagesTypeOK
  BY DEF MessagesInv
<1> QED
  BY <1>1, MessagesInvHolds, PTL

(* Nothing is under way, and the session lives: what the CLI holds is what  *)
(* the tray shows as queued.                                                *)
LEMMA TrayIsTrueIn == MessagesInv => TrayIsTrue
<1> SUFFICES ASSUME MessagesInv PROVE TrayIsTrue
  OBVIOUS
<1>1. /\ MessagesTypeOK /\ Paired /\ Closed /\ Flows /\ Paged /\ \A o \in Ids : Placed(o)
  BY DEF MessagesInv
<1>2. ASSUME NothingMoves, session.live, ~session.exited
      PROVE  cli.held = {Uuid(o) : o \in {o \in Tray : msg[o].state = "queued"}}
  <2>1. inbox.pc = "get" /\ inbox.queue = <<>> /\ cli.out = <<>> /\ user.pc = "off"
    BY <1>1, <1>2 DEF NothingMoves, Closed
  <2>2. \A o : \A p \in Procs : ~Delivers(p, o)
    BY <1>1, <2>1, Nobody DEF Paired, Delivers
  <2>3. \A u : ~Framed(u)
    BY <2>1, NoFrames DEF Framed
  <2>4. \A o \in Ids : Queued(o) => Uuid(o) \in cli.held
    BY <1>1, <1>2, <2>1, <2>2, <2>3 DEF Placed, Logging
  <2>5. \A u \in cli.held : u[1] \in Ids /\ Queued(u[1]) /\ u = Uuid(u[1])
    BY <1>1, Named DEF Flows, MessagesTypeOK, CliState
  <2> QED
    BY <2>4, <2>5 DEF Queued, Tray
<1>3. NothingMoves /\ exits = 0 => shown = Tray
  BY <1>1 DEF Paged
<1> QED
  BY <1>1, <1>2, <1>3 DEF TrayIsTrue, TrayIsHeld, PageAgrees

LEMMA TakenOnceIn == MessagesInv => TakenOnce
<1> SUFFICES ASSUME MessagesInv PROVE TakenOnce
  OBVIOUS
<1>1. /\ MessagesTypeOK /\ Paired /\ Closed /\ Flows /\ Keyed /\ Wished /\ log \in Seq(Ids)
  BY DEF MessagesInv, MessagesTypeOK
<1>2. \A u \in entered : u \in Uuids /\ u[1] \in Ids /\ u = Uuid(u[1])
  BY <1>1, Named DEF Flows, MessagesTypeOK
<1>3. KeyTakenOnce
  <2> SUFFICES ASSUME NEW u \in entered, NEW v \in entered, msg[u[1]].key = msg[v[1]].key
               PROVE  u[1] = v[1]
    BY <1>2 DEF KeyTakenOnce
  <2>1. PICK x \in Ids, y \in Ids : x = u[1] /\ y = v[1] /\ msg[x].key = msg[y].key
    BY <1>2
  <2>2. msg[x].place = "tray" => keys[msg[x].key] = x /\ \A i \in 1..Len(log) : msg[log[i]].key # msg[x].key
    BY <1>1 DEF Keyed, InLog
  <2>3. msg[y].place = "tray" => keys[msg[y].key] = y /\ \A i \in 1..Len(log) : msg[log[i]].key # msg[y].key
    BY <1>1 DEF Keyed, InLog
  <2>4. msg[x].place = "tray" \/ \E i \in 1..Len(log) : log[i] = x
    BY <1>1, <2>1 DEF Keyed
  <2>5. msg[y].place = "tray" \/ \E i \in 1..Len(log) : log[i] = y
    BY <1>1, <2>1 DEF Keyed
  <2>6. \A i, j \in 1..Len(log) : msg[log[i]].key = msg[log[j]].key => i = j
    BY <1>1 DEF Keyed
  <2> QED
    BY <2>1, <2>2, <2>3, <2>5, <2>4, <2>6
<1>4. WithdrawnStaysOut
  <2> SUFFICES ASSUME NEW o \in Ids, told[o] = "withdrawn" PROVE o \notin Taken \cup Tray
    BY DEF WithdrawnStaysOut
  <2>1. Out(o)
    BY <1>1 DEF Wished
  <2>2. o \notin Taken
    BY <1>2, <2>1 DEF Out, Taken
  <2> QED
    BY <2>1, <2>2 DEF Out, Tray
<1>5. ASSUME NothingMoves
      PROVE  Range(log) = Taken /\ \A i, j \in DOMAIN log : i # j => msg[log[i]].key # msg[log[j]].key
  <2>1. inbox.queue = <<>> /\ cli.out = <<>> /\ inbox.pc # "log"
    BY <1>1, <1>5 DEF NothingMoves, Closed
  <2>2. \A u : ~Heralded(u)
    BY <2>1, NoFrames DEF Heralded
  <2>3. \A u \in entered : msg[u[1]].place # "tray"
    BY <1>1, <2>1, <2>2 DEF Flows, Logging
  <2>4. \A u \in entered : \E i \in 1..Len(log) : log[i] = u[1]
    BY <1>1, <2>3 DEF Keyed
  <2>5. \A i \in 1..Len(log) : Uuid(log[i]) \in entered /\ Uuid(log[i])[1] = log[i]
    BY <1>1 DEF Keyed, Uuid
  <2>6. DOMAIN log = 1..Len(log) /\ Range(log) = {log[i] : i \in 1..Len(log)}
    BY <1>1 DEF Range
  <2>7. Range(log) = Taken
    BY <2>4, <2>5, <2>6 DEF Taken
  <2>8. \A i, j \in 1..Len(log) : msg[log[i]].key = msg[log[j]].key => i = j
    BY <1>1 DEF Keyed
  <2> QED
    BY <2>6, <2>7, <2>8
<1> QED
  BY <1>3, <1>4, <1>5 DEF TakenOnce, TakenIsLogged

(* The tray, the CLI and the page agree on what waits: no message hangs in  *)
(* the tray for good and none is processed unseen, whatever is hurried,     *)
(* withdrawn, dropped by the CLI or moved to another connection.            *)
THEOREM TrayTrue == MessagesSpec => []TrayIsTrue
BY TrayIsTrueIn, MessagesInvHolds, PTL

(* No key enters a turn twice, no message the user was told is withdrawn    *)
(* enters one, and what did is in the log, once.                            *)
THEOREM TakenOnlyOnce == MessagesSpec => []TakenOnce
BY TakenOnceIn, MessagesInvHolds, PTL
=============================================================================
