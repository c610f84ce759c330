---------------------- MODULE SessionRegistry_proofs ----------------------
(***************************************************************************)
(* The resident sessions of the assistant, for any number of sessions,     *)
(* requests, client keys, patrols, exits, failures and stops of the        *)
(* server, and whatever the limit of resident sessions is.                 *)
(*                                                                         *)
(* The connection locks are thrown away and made anew.  What makes them    *)
(* exclude all the same is that a lock is thrown away only while nobody    *)
(* holds it, so that who holds one holds the current one (LocksStand);     *)
(* behind it a session has no process until the holder has registered its  *)
(* own (LockedSessionStands).                                              *)
(***************************************************************************)
EXTENDS SessionRegistry, FiniteSetTheorems, TLAPS

(* Who can be where. *)
PlacesStand ==
  /\ \A c \in Connects : req[c].pc \notin {"find", "newlock", "init", "cleanup"}
  /\ \A n \in News : /\ req[n].pc \notin {"lock", "retire", "use", "send", "join"}
                     /\ req[n].pc \in {"find", "newlock"} => n \in Same
                     /\ req[n].pc = "evict" => req[n].back = "build"

(* Where the inbox of a new session is, and what it has written. *)
Begun == {"init", "cleanup", "accepted", "refused", "lost"}
InboxStands ==
  \A n \in News :
    /\ setup[n] # "none" => req[n].pc \in Begun
    /\ setup[n] \in {"log", "done"} => n \in logged
    /\ n \in temp => req[n].pc \in {"start", "init"} /\ setup[n] \notin {"done", "failed"}

(* A session is connected to when the request that created it is over. *)
AddressStands ==
  \A c \in Connects :
    /\ req[c].pc = "new" => proc[c].state = "none"
    /\ req[c].pc # "new" => \/ req[c].at \in Old
                            \/ req[c].at \in logged /\ req[req[c].at].pc \in Over

(* The lock of the client key covers the whole creation. *)
KeyIsHeld ==
  /\ \A n \in Same : req[n].pc \in {"capacity", "room", "build", "evict", "start", "init", "cleanup"} => newLock = n
  /\ newLock # None => logged \cap Same \subseteq {newLock}
  /\ \A n, m \in logged \cap Same : n = m

RequestInv == PlacesStand /\ InboxStands /\ AddressStands /\ KeyIsHeld /\ AcceptedIsLogged

(* A connection holds the current lock of its session from the moment it    *)
(* takes it until the process has started.                                  *)
Holding == {"retire", "capacity", "room", "build", "evict", "start"}
LocksStand ==
  /\ \A s \in Sessions : lockOf[s] \in {0} \cup LockNumbers
  /\ \A q \in Requests : req[q].pc = "lock" => req[q].lock \in LockNumbers
  /\ \A h \in held : /\ h[1] \in Connects /\ req[h[1]].pc \in Holding
                     /\ h[2] = req[h[1]].at /\ h[3] = req[h[1]].lock /\ lockOf[h[2]] = h[3]
  /\ \A c \in Connects : req[c].pc \in Holding => <<c, req[c].at, req[c].lock>> \in held
  /\ \A h, k \in held : h[2] = k[2] => h[1] = k[1]

(* Who evicts waits for the end of it. *)
EvictionsStand ==
  /\ \A s \in Sessions : evicting[s] \in Requests => req[evicting[s]].pc = "evict"
  /\ \A s, t \in Sessions : evicting[s] = evicting[t] /\ evicting[s] \in Requests => s = t

(* Behind the lock the session has no process, or the one being started. *)
Opens(c) == req[c].pc \in {"capacity", "room", "build"} \/ (req[c].pc = "evict" /\ req[c].back = "build")
LockedSessionStands ==
  \A c \in Connects :
    /\ Opens(c) => reg[req[c].at] = None
    /\ req[c].pc = "start" => reg[req[c].at] \in {None, c}

LockInv == LocksStand /\ EvictionsStand /\ LockedSessionStands

(* What is registered is a process of that session; the inbox of a session   *)
(* under its temporary id does not end between its row and its real id.      *)
RegisteredStands ==
  /\ \A s \in Sessions : reg[s] # None => Session(reg[s]) = s /\ proc[reg[s]].state # "none"
  /\ \A n \in temp : /\ proc[n].state # "none"
                     /\ setup[n] \in {"row", "log"} => proc[n].state # "dead"
  /\ \A n \in News : reg[n] # None => req[n].pc \in Begun

(* A message goes to a process of the session it is for, one at a time. *)
DeliveriesStand ==
  /\ \A q \in Requests : req[q].pc = "start" => proc[q].state # "none"
  /\ \A c \in Connects :
       req[c].pc \in {"use"} \cup Sending =>
         req[c].got \in Requests /\ proc[req[c].got].state # "none" /\ Session(req[c].got) = req[c].at
  /\ \A c, d \in Connects :
       req[c].pc \in Sending /\ req[d].pc \in Sending /\ req[c].got = req[d].got => c = d

ProcessInv == RegisteredStands /\ NoLostProcess /\ DeliveriesStand /\ RunningIsServed

RegistryInv == TypeOK /\ RequestInv /\ LockInv /\ ProcessInv

-----------------------------------------------------------------------------
LEMMA RegistryStarts == Init => RegistryInv
<1> SUFFICES ASSUME Init PROVE RegistryInv
  OBVIOUS
<1> USE RegistryAssumption DEF Init, NoProc, NewRequest, Requests, Sessions, None
<1>type. TypeOK
  BY DEF TypeOK, HeldLocks, Processes, RequestStates, Places, Evictors, Steps, Over
<1>request. RequestInv
  BY DEF RequestInv, PlacesStand, InboxStands, AddressStands, KeyIsHeld,
     AcceptedIsLogged, Begun
<1>lock. LockInv
  BY DEF LockInv, LocksStand, EvictionsStand, LockedSessionStands, Opens, Holding, LockNumbers
<1>process. ProcessInv
  BY DEF ProcessInv, RegisteredStands, NoLostProcess, DeliveriesStand, RunningIsServed, Sending,
     Running, Alive
<1> QED
  BY <1>type, <1>request, <1>lock, <1>process DEF RegistryInv

(* There is always a number for a new lock: fewer are in use than requests. *)
LEMMA NumberIsFree ==
  ASSUME TypeOK, LocksStand, NEW s \in Sessions
  PROVE  LockFor(s) \in LockNumbers /\ (lockOf[s] # 0 => LockFor(s) = lockOf[s])
<1>old. CASE lockOf[s] # 0
  BY <1>old DEF LockFor, LocksStand
<1>new. CASE lockOf[s] = 0
  <2> DEFINE Used(g) == \E q \in Requests : req[q].at = s /\ req[q].lock = g
  <2>held. \A g \in LockNumbers : Locked(s, g) => Used(g)
    BY DEF Locked, LocksStand, Requests
  <2>free. \E g \in LockNumbers : ~Used(g)
    <3> SUFFICES ASSUME \A g \in LockNumbers : Used(g) PROVE FALSE
      OBVIOUS
    <3> DEFINE f == [g \in LockNumbers |-> CHOOSE q \in Requests : req[q].lock = g]
    <3>f. f \in [LockNumbers -> Requests] /\ \A g \in LockNumbers : req[f[g]].lock = g
      OBVIOUS
    <3>cards. /\ IsFiniteSet(Requests) /\ Cardinality(Requests) \in Nat
              /\ IsFiniteSet(LockNumbers) /\ Cardinality(LockNumbers) = Cardinality(Requests) + 1
      <4>1. IsFiniteSet(Requests) /\ Cardinality(Requests) \in Nat
        BY RegistryAssumption, FS_CardinalityType
      <4>2. Cardinality(Requests) + 1 \in Int /\ 1 \in Int
        BY <4>1
      <4>3. /\ IsFiniteSet(1..(Cardinality(Requests) + 1))
            /\ Cardinality(1..(Cardinality(Requests) + 1)) =
                 IF 1 > Cardinality(Requests) + 1 THEN 0 ELSE (Cardinality(Requests) + 1) - 1 + 1
        BY <4>2, FS_Interval
      <4> QED
        BY <4>1, <4>3 DEF LockNumbers
    <3>same. \E g, h \in LockNumbers : g # h /\ f[g] = f[h]
      <4> HIDE DEF f
      <4>1. Cardinality(Requests) < Cardinality(LockNumbers)
        BY <3>cards
      <4> QED
        BY <3>f, <3>cards, <4>1, FS_PigeonHole
    <3> QED
      BY <3>f, <3>same
  <2>some. \E g \in LockNumbers : ~Locked(s, g) /\ \A q \in Requests : ~(req[q].at = s /\ req[q].lock = g)
    BY <2>held, <2>free
  <2> QED
    BY <1>new, <2>some DEF LockFor, LockNumbers
<1> QED
  BY <1>old, <1>new

-----------------------------------------------------------------------------
(* What a step writes.  A request writes nothing but its own record.         *)
Written(q, pc, at, lock, got, back) ==
  /\ req' \in [Requests -> RequestStates]
  /\ \A x \in Requests \ {q} : req'[x] = req[x]
  /\ req'[q].pc = pc /\ req'[q].at = at /\ req'[q].lock = lock
  /\ req'[q].got = got /\ req'[q].back = back

Moved(q, pc) == Written(q, pc, req[q].at, req[q].lock, req[q].got, req[q].back)

LEMMA Writing ==
  ASSUME req \in [Requests -> RequestStates], NEW q \in Requests, NEW r \in RequestStates,
         req' = [req EXCEPT ![q] = r]
  PROVE  Written(q, r.pc, r.at, r.lock, r.got, r.back)
BY DEF Written

LEMMA Going ==
  ASSUME req \in [Requests -> RequestStates], NEW q \in Requests, NEW pc \in Places, Goto(q, pc)
  PROVE  Moved(q, pc)
<1> DEFINE r == [req[q] EXCEPT !.pc = pc]
<1>how. req' = [req EXCEPT ![q] = r]
  BY DEF Goto
<1>what. /\ r \in RequestStates /\ r.pc = pc /\ r.at = req[q].at /\ r.lock = req[q].lock
         /\ r.got = req[q].got /\ r.back = req[q].back
  BY DEF RequestStates
<1> HIDE DEF r
<1> QED
  BY <1>how, <1>what, Writing DEF Moved

(* The parts that a step does not touch. *)
LEMMA RequestsUntouched ==
  ASSUME RequestInv, UNCHANGED <<req, setup, logged, temp, newLock>>,
         \A q \in Requests : proc[q].state = "none" => proc'[q].state = "none"
  PROVE  RequestInv'
BY DEF RequestInv, PlacesStand, InboxStands, AddressStands, KeyIsHeld,
   AcceptedIsLogged, Requests

LEMMA LocksUntouched ==
  ASSUME LockInv, UNCHANGED <<req, lockOf, held, evicting, victim, strays, reg>>
  PROVE  LockInv'
BY DEF LockInv, LocksStand, EvictionsStand, LockedSessionStands, Opens

LEMMA SessionOfConnect ==
  ASSUME RegistryInv, NEW c \in Connects, req[c].pc # "new"
  PROVE  req[c].at \in Sessions
BY DEF RegistryInv, TypeOK, RequestInv, AddressStands, Sessions

LEMMA SessionOfProcess ==
  ASSUME RegistryInv, NEW q \in Requests, proc[q].state # "none"
  PROVE  Session(q) \in Sessions
<1>1. q \in Connects => req[q].pc # "new"
  BY DEF RegistryInv, RequestInv, AddressStands
<1> QED
  BY <1>1, SessionOfConnect DEF Session, Requests, Sessions
(* A request that moves on keeps the lock it holds, or gives it up. *)
LEMMA HoldersStand ==
  ASSUME LocksStand, UNCHANGED lockOf, NEW q \in Requests,
         \A x \in Requests \ {q} : req'[x] = req[x],
         req'[q].pc # "lock",
         q \in Connects => /\ req'[q].at = req[q].at /\ req'[q].lock = req[q].lock
                           /\ \/ held' = held /\ (req[q].pc \in Holding <=> req'[q].pc \in Holding)
                              \/ held' = {h \in held : h[1] # q} /\ req'[q].pc \notin Holding,
         q \notin Connects => held' = held \/ held' = {h \in held : h[1] # q}
  PROVE  LocksStand'
<1>less. \A h \in held' : h \in held /\ (h[1] = q => held' = held)
  OBVIOUS
<1>more. \A h \in held : h[1] # q => h \in held'
  OBVIOUS
<1>1. \A p \in Requests : req'[p].pc = "lock" => req'[p].lock \in LockNumbers
  BY DEF LocksStand
<1>2. \A h \in held' : /\ h[1] \in Connects /\ req'[h[1]].pc \in Holding
                       /\ h[2] = req'[h[1]].at /\ h[3] = req'[h[1]].lock /\ lockOf'[h[2]] = h[3]
  <2> TAKE h \in held'
  <2>old. /\ h[1] \in Connects /\ h[1] \in Requests /\ req[h[1]].pc \in Holding
          /\ h[2] = req[h[1]].at /\ h[3] = req[h[1]].lock /\ lockOf[h[2]] = h[3]
    BY <1>less DEF LocksStand, Requests
  <2>other. CASE h[1] # q
    BY <2>old, <2>other
  <2>own. CASE h[1] = q
    <3>1. q \in Connects
      BY <2>old, <2>own
    <3>2. held' = held /\ h \in held
      BY <1>less, <2>own
    <3>3. req'[q].pc \in Holding
      BY <2>old, <2>own, <3>1
    <3> QED
      BY <2>old, <2>own, <3>1, <3>3
  <2> QED
    BY <2>other, <2>own
<1>3. \A c \in Connects : req'[c].pc \in Holding => <<c, req'[c].at, req'[c].lock>> \in held'
  <2> TAKE c \in Connects
  <2> HAVE req'[c].pc \in Holding
  <2>1. c \in Requests
    BY DEF Requests
  <2>other. CASE c # q
    <3>1. <<c, req[c].at, req[c].lock>> \in held /\ <<c, req[c].at, req[c].lock>>[1] # q
      BY <2>1, <2>other DEF LocksStand
    <3> QED
      BY <1>more, <2>1, <2>other, <3>1
  <2>own. CASE c = q
    BY <2>own DEF LocksStand
  <2> QED
    BY <2>other, <2>own
<1> QED
  BY <1>less, <1>1, <1>2, <1>3 DEF LocksStand

LEMMA EvictorsStand ==
  ASSUME EvictionsStand, UNCHANGED <<evicting, victim, strays>>, NEW q \in Requests,
         \A x \in Requests \ {q} : req'[x] = req[x],
         req[q].pc # "evict"
  PROVE  EvictionsStand'
BY DEF EvictionsStand

(* The record of a request that connects is not what says whose process is whose. *)
LEMMA SessionStays ==
  ASSUME NEW q \in Requests, \A x \in Requests \ {q} : req'[x] = req[x],
         q \in Connects => req'[q].at = req[q].at
  PROVE  \A x \in Requests : Session(x)' = Session(x)
BY DEF Session, Requests

(* What a step keeps that delivers nothing: a process a message is for stays *)
(* one of that session, and no process comes to be dead and running.         *)
LEMMA DeliveriesStay ==
  ASSUME DeliveriesStand, RunningIsServed,
         \A x \in Requests :
           /\ proc[x].state # "none" => proc'[x].state # "none"
           /\ req'[x].pc = "start" => req[x].pc = "start" \/ proc'[x].state # "none",
         \A x \in Connects :
           /\ proc[x].state # "none" => req'[x].at = req[x].at
           /\ req[x].pc \in Sending => req'[x] = req[x]
           /\ req'[x].pc \in {"use"} \cup Sending => \/ req'[x] = req[x]
                                                     \/ /\ req'[x].pc = "use" /\ req'[x].got \in Requests
                                                        /\ proc[req'[x].got].state # "none"
                                                        /\ Session(req'[x].got) = req'[x].at,
         \A s \in Sessions :
           reg'[s] # None /\ proc'[reg'[s]].state = "dead" /\ proc'[reg'[s]].runs /\ ~proc'[reg'[s]].deaf =>
             /\ reg'[s] = reg[s] /\ proc[reg[s]].state = "dead" /\ proc[reg[s]].runs /\ ~proc[reg[s]].deaf
             /\ evicting[s] # None => evicting'[s] # None
  PROVE  DeliveriesStand' /\ RunningIsServed'
<1>start. \A x \in Requests : req'[x].pc = "start" => proc'[x].state # "none"
  BY DEF DeliveriesStand
<1>got. ASSUME NEW c \in Connects, req'[c].pc \in {"use"} \cup Sending
        PROVE  /\ req'[c].got \in Requests /\ proc'[req'[c].got].state # "none"
               /\ Session(req[c].got)' = req'[c].at
  <2>1. /\ req'[c].got \in Requests /\ proc[req'[c].got].state # "none"
        /\ Session(req'[c].got) = req'[c].at
    BY <1>got DEF DeliveriesStand
  <2>2. req'[c].got \notin News => req'[req'[c].got].at = req[req'[c].got].at
    BY <2>1 DEF Requests
  <2> QED
    BY <2>1, <2>2 DEF Session
<1>one. \A c, d \in Connects :
          req'[c].pc \in Sending /\ req'[d].pc \in Sending /\ req'[c].got = req'[d].got => c = d
  <2>1. \A c \in Connects : req'[c].pc \in Sending => req'[c] = req[c]
    BY DEF Sending
  <2> QED
    BY <2>1 DEF DeliveriesStand
<1>served. RunningIsServed'
  <2> SUFFICES ASSUME NEW s \in Sessions, Running(s)', proc'[reg'[s]].state = "dead", ~proc'[reg'[s]].deaf
               PROVE  evicting'[s] # None \/ \E c \in Connects : req'[c].pc = "send" /\ req'[c].got = reg'[s]
    BY DEF RunningIsServed
  <2>1. /\ reg'[s] = reg[s] /\ proc[reg[s]].state = "dead" /\ Running(s) /\ ~proc[reg[s]].deaf
        /\ evicting[s] # None => evicting'[s] # None
    BY DEF Running
  <2> QED
    BY <2>1 DEF RunningIsServed, Sending
<1> QED
  BY <1>start, <1>got, <1>one, <1>served DEF DeliveriesStand

-----------------------------------------------------------------------------
(* get_or_connect *)
LEMMA AskKeeps ==
  ASSUME RegistryInv, NEW c \in Connects, Ask(c)
  PROVE  RegistryInv'
<1>inv. TypeOK /\ RequestInv /\ LockInv /\ ProcessInv /\ c \in Requests /\ c \notin News
  BY RegistryAssumption DEF RegistryInv, Requests
<1>same. UNCHANGED <<reg, temp, proc, evicting, victim, strays, held, newLock, logged, setup, patrol, bounds>> /\ req[c].pc = "new"
  BY DEF Ask, evictions
<1>what. PICK s \in Known :
           \/ /\ Usable(s) /\ lockOf' = lockOf
              /\ req' = [req EXCEPT ![c].pc = "use", ![c].at = s, ![c].got = reg[s]]
           \/ /\ lockOf' = [lockOf EXCEPT ![s] = LockFor(s)]
              /\ req' = [req EXCEPT ![c].pc = "lock", ![c].at = s, ![c].lock = LockFor(s)]
  BY DEF Ask, evictions
<1>known. s \in Sessions /\ (s \in Old \/ (s \in logged /\ req[s].pc \in Over))
  BY <1>inv DEF Known, TypeOK, RequestInv, AcceptedIsLogged, Sessions
<1>number. LockFor(s) \in LockNumbers /\ LockFor(s) \in Nat /\ (lockOf[s] # 0 => LockFor(s) = lockOf[s])
  <2>1. LockNumbers \subseteq Nat
    BY RegistryAssumption, FS_CardinalityType DEF LockNumbers
  <2> QED
    BY <1>inv, <1>known, <2>1, NumberIsFree DEF LockInv
<1>got. Usable(s) => reg[s] \in Requests
  BY <1>inv, <1>known DEF Usable, TypeOK
<1>lock. /\ lockOf' \in [Sessions -> Nat]
         /\ \A t \in Sessions : lockOf'[t] = lockOf[t] \/ (lockOf[t] = 0 /\ lockOf'[t] \in LockNumbers)
  BY <1>inv, <1>what, <1>known, <1>number DEF TypeOK
<1>req. \/ reg[s] \in Requests /\ Written(c, "use", s, req[c].lock, reg[s], req[c].back)
        \/ Written(c, "lock", s, LockFor(s), req[c].got, req[c].back)
  <2>place. {"use", "lock"} \subseteq Places
    BY DEF Places, Steps
  <2>old. req \in [Requests -> RequestStates] /\ req[c] \in RequestStates
    BY <1>inv DEF TypeOK
  <2>use. CASE Usable(s) /\ req' = [req EXCEPT ![c].pc = "use", ![c].at = s, ![c].got = reg[s]]
    <3> DEFINE p == reg[s]
               r == [req[c] EXCEPT !.pc = "use", !.at = s, !.got = p]
    <3>got. p \in Requests
      BY <1>got, <2>use
    <3>how. req' = [req EXCEPT ![c] = r]
      BY <2>old, <2>use
    <3> HIDE DEF p
    <3>what. /\ r \in RequestStates /\ r.pc = "use" /\ r.at = s /\ r.lock = req[c].lock
             /\ r.got = p /\ r.back = req[c].back
      BY <1>known, <2>old, <2>place, <3>got DEF RequestStates
    <3> HIDE DEF r
    <3>written. Written(c, r.pc, r.at, r.lock, r.got, r.back)
      BY <1>inv, <2>old, <3>how, <3>what, Writing
    <3> QED
      BY <3>got, <3>what, <3>written DEF p
  <2>lock. CASE req' = [req EXCEPT ![c].pc = "lock", ![c].at = s, ![c].lock = LockFor(s)]
    <3> DEFINE g == LockFor(s)
               r == [req[c] EXCEPT !.pc = "lock", !.at = s, !.lock = g]
    <3> HIDE DEF g
    <3>how. req' = [req EXCEPT ![c] = r]
      BY <2>old, <2>lock DEF g
    <3>number. g \in Nat
      BY <1>number DEF g
    <3>what. /\ r \in RequestStates /\ r.pc = "lock" /\ r.at = s /\ r.lock = g
             /\ r.got = req[c].got /\ r.back = req[c].back
      BY <1>known, <2>old, <2>place, <3>number DEF RequestStates
    <3> HIDE DEF r
    <3>written. Written(c, r.pc, r.at, r.lock, r.got, r.back)
      BY <1>inv, <2>old, <3>how, <3>what, Writing
    <3> QED
      BY <3>what, <3>written DEF g
  <2> QED
    BY <1>what, <2>use, <2>lock
<1>new. /\ req'[c].pc \in {"use", "lock"} /\ req'[c].at = s
        /\ req'[c].pc = "use" => req'[c].got \in Requests /\ req'[c].got = reg[s]
        /\ req'[c].pc = "lock" => req'[c].lock \in LockNumbers
        /\ req' \in [Requests -> RequestStates]
        /\ \A x \in Requests \ {c} : req'[x] = req[x]
  BY <1>req, <1>number DEF Written
<1>type. TypeOK'
  BY <1>inv, <1>same, <1>lock, <1>new DEF TypeOK, bounds
<1>request. RequestInv'
  BY SMTT(30), <1>inv, <1>same, <1>known, <1>new, RegistryAssumption
     DEF RequestInv, PlacesStand, InboxStands, AddressStands, KeyIsHeld,
     AcceptedIsLogged, Requests, TypeOK, Over
<1>locks. LockInv'
  <2>holders. LocksStand'
    <3>old. LocksStand
      BY <1>inv DEF LockInv
    <3>current. \A t \in Sessions : lockOf'[t] \in {0} \cup LockNumbers
      BY <1>lock, <3>old DEF LocksStand
    <3>waiting. \A q \in Requests : req'[q].pc = "lock" => req'[q].lock \in LockNumbers
      BY <1>new, <3>old DEF LocksStand
    <3>held. \A h \in held' : /\ h[1] \in Connects /\ req'[h[1]].pc \in Holding
                          /\ h[2] = req'[h[1]].at /\ h[3] = req'[h[1]].lock /\ lockOf'[h[2]] = h[3]
      <4> TAKE h \in held'
      <4>1. h \in held /\ h[1] # c /\ h[1] \in Requests
        BY <1>same, <3>old DEF LocksStand, Holding, Requests
      <4>2. h[2] \in Sessions /\ h[3] \in LockNumbers /\ h[3] # 0
        BY <1>inv, <4>1 DEF TypeOK, HeldLocks, LockNumbers
      <4> QED
        BY <1>lock, <1>new, <3>old, <4>1, <4>2 DEF LocksStand
    <3>holding. \A d \in Connects : req'[d].pc \in Holding => <<d, req'[d].at, req'[d].lock>> \in held'
      BY <1>same, <1>new, <3>old DEF LocksStand, Holding, Requests
    <3> QED
      BY <1>same, <3>old, <3>current, <3>waiting, <3>held, <3>holding DEF LocksStand
  <2>evictors. EvictionsStand'
    BY <1>inv, <1>same, <1>new DEF LockInv, EvictionsStand
  <2>opens. LockedSessionStands'
    BY <1>inv, <1>same, <1>new DEF LockInv, LockedSessionStands, Opens, Requests
  <2> QED
    BY <2>holders, <2>evictors, <2>opens DEF LockInv
<1>process. ProcessInv'
  <2>idle. proc[c].state = "none" /\ c \notin temp
    BY <1>inv, <1>same DEF RequestInv, AddressStands, TypeOK
  <2>session. \A q \in Requests : q # c => Session(q)' = Session(q)
    BY <1>new DEF Session
  <2>registered. RegisteredStands'
    BY <1>inv, <1>same, <1>new, <2>idle, <2>session
       DEF ProcessInv, RegisteredStands, TypeOK, Requests
  <2>lost. NoLostProcess'
    BY <1>inv, <1>same, <1>new, <2>idle, <2>session DEF ProcessInv, NoLostProcess, Alive
  <2>deliveries. DeliveriesStand' /\ RunningIsServed'
    <3>1. req'[c].pc = "use" => proc[req'[c].got].state # "none" /\ Session(req'[c].got) = req'[c].at
      BY <1>inv, <1>known, <1>new, RegistryAssumption DEF ProcessInv, RegisteredStands
    <3> QED
      BY <1>inv, <1>same, <1>new, <2>idle, <3>1, DeliveriesStay DEF ProcessInv, Requests, Sending
  <2> QED
    BY <2>registered, <2>lost, <2>deliveries DEF ProcessInv
<1> QED
  BY <1>type, <1>request, <1>locks, <1>process DEF RegistryInv

LEMMA TakeLockKeeps ==
  ASSUME RegistryInv, NEW c \in Connects, TakeLock(c)
  PROVE  RegistryInv'
<1>inv. TypeOK /\ RequestInv /\ LockInv /\ ProcessInv /\ c \in Requests /\ c \notin News
  BY RegistryAssumption DEF RegistryInv, Requests
<1>old. req \in [Requests -> RequestStates] /\ req[c] \in RequestStates /\ LocksStand
  BY <1>inv DEF TypeOK, LockInv
<1>same. UNCHANGED <<reg, temp, proc, evicting, victim, strays, newLock, logged, setup, patrol, bounds>> /\ req[c].pc = "lock"
  BY DEF TakeLock, evictions
<1>at. req[c].at \in Sessions /\ req[c].lock \in LockNumbers
  BY <1>old, <1>same, SessionOfConnect DEF LocksStand, Requests
<1>take. ASSUME lockOf[req[c].at] = req[c].lock, Goto(c, "retire"), ~Locked(req[c].at, req[c].lock),
                held' = held \cup {<<c, req[c].at, req[c].lock>>}, UNCHANGED lockOf
         PROVE  TypeOK' /\ LocksStand' /\ Moved(c, "retire")
  <2>moved. Moved(c, "retire")
    <3>1. "retire" \in Places
      BY DEF Places, Steps
    <3> QED
      BY <1>inv, <1>old, <1>take, <3>1, Going
  <2>type. TypeOK'
    BY <1>inv, <1>same, <1>at, <1>take, <2>moved DEF TypeOK, Moved, Written, HeldLocks, bounds
  <2>free. \A h \in held : h[2] # req[c].at
    <3> SUFFICES ASSUME NEW h \in held, h[2] = req[c].at PROVE FALSE
      OBVIOUS
    <3>1. h[1] \in Requests /\ h[3] = req[c].lock
      BY <1>old, <1>take DEF LocksStand, Requests
    <3>2. h = <<h[1], h[2], h[3]>>
      BY <1>inv DEF TypeOK, HeldLocks
    <3> QED
      BY <1>take, <3>1, <3>2 DEF Locked
  <2>none. \A h \in held : h[1] # c
    BY <1>old, <1>same DEF LocksStand, Holding
  <2>waiting. \A q \in Requests : req'[q].pc = "lock" => req'[q].lock \in LockNumbers
    BY <1>old, <2>moved DEF LocksStand, Moved, Written
  <2>held. \A h \in held' : /\ h[1] \in Connects /\ req'[h[1]].pc \in Holding
                         /\ h[2] = req'[h[1]].at /\ h[3] = req'[h[1]].lock /\ lockOf'[h[2]] = h[3]
    BY <1>old, <1>inv, <1>take, <2>moved, <2>none DEF LocksStand, Moved, Written, Holding, Requests
  <2>holding. \A d \in Connects : req'[d].pc \in Holding => <<d, req'[d].at, req'[d].lock>> \in held'
    BY <1>old, <1>take, <2>moved DEF LocksStand, Moved, Written, Requests
  <2>alone. \A h, k \in held' : h[2] = k[2] => h[1] = k[1]
    BY <1>old, <1>take, <2>free DEF LocksStand
  <2>locks. LocksStand'
    BY <1>old, <1>take, <2>waiting, <2>held, <2>holding, <2>alone DEF LocksStand
  <2> QED
    BY <2>type, <2>locks, <2>moved
<1>again. ASSUME lockOf[req[c].at] # req[c].lock, req' = [req EXCEPT ![c].lock = LockFor(req[c].at)],
                 lockOf' = [lockOf EXCEPT ![req[c].at] = LockFor(req[c].at)], UNCHANGED held
          PROVE  TypeOK' /\ LocksStand' /\ Written(c, "lock", req[c].at, LockFor(req[c].at), req[c].got, req[c].back)
  <2> DEFINE g == LockFor(req[c].at)
             r == [req[c] EXCEPT !.lock = g]
  <2>number. g \in LockNumbers /\ g \in Nat /\ (lockOf[req[c].at] # 0 => g = lockOf[req[c].at])
    <3>1. LockNumbers \subseteq Nat
      BY RegistryAssumption, FS_CardinalityType DEF LockNumbers
    <3> QED
      BY <1>inv, <1>old, <1>at, <3>1, NumberIsFree
  <2> HIDE DEF g
  <2>how. req' = [req EXCEPT ![c] = r]
    BY <1>old, <1>again DEF g
  <2>what. /\ r \in RequestStates /\ r.pc = "lock" /\ r.at = req[c].at /\ r.lock = g
           /\ r.got = req[c].got /\ r.back = req[c].back
    BY <1>old, <1>same, <2>number DEF RequestStates
  <2> HIDE DEF r
  <2>written. Written(c, "lock", req[c].at, g, req[c].got, req[c].back)
    <3>1. Written(c, r.pc, r.at, r.lock, r.got, r.back)
      BY <1>inv, <1>old, <2>how, <2>what, Writing
    <3> QED
      BY <2>what, <3>1
  <2>lock. /\ lockOf' \in [Sessions -> Nat]
           /\ \A t \in Sessions : lockOf'[t] = lockOf[t] \/ (lockOf[t] = 0 /\ lockOf'[t] \in LockNumbers)
    BY <1>inv, <1>again, <1>at, <2>number DEF TypeOK, g
  <2>type. TypeOK'
    BY <1>inv, <1>same, <1>again, <2>lock, <2>written DEF TypeOK, Written, bounds
  <2>current. \A t \in Sessions : lockOf'[t] \in {0} \cup LockNumbers
    BY <1>old, <2>lock DEF LocksStand
  <2>waiting. \A q \in Requests : req'[q].pc = "lock" => req'[q].lock \in LockNumbers
    BY <1>old, <2>written, <2>number DEF LocksStand, Written
  <2>held. \A h \in held' : /\ h[1] \in Connects /\ req'[h[1]].pc \in Holding
                         /\ h[2] = req'[h[1]].at /\ h[3] = req'[h[1]].lock /\ lockOf'[h[2]] = h[3]
    <3> TAKE h \in held'
    <3>1. h \in held /\ h[1] # c /\ h[1] \in Requests
      BY <1>old, <1>same, <1>again DEF LocksStand, Holding, Requests
    <3>2. h[2] \in Sessions /\ h[3] \in LockNumbers /\ h[3] # 0
      BY <1>inv, <3>1 DEF TypeOK, HeldLocks, LockNumbers
    <3> QED
      BY <1>old, <2>lock, <2>written, <3>1, <3>2 DEF LocksStand, Written
  <2>holding. \A d \in Connects : req'[d].pc \in Holding => <<d, req'[d].at, req'[d].lock>> \in held'
    BY <1>old, <1>again, <2>written DEF LocksStand, Written, Holding, Requests
  <2>locks. LocksStand'
    BY <1>old, <1>again, <2>current, <2>waiting, <2>held, <2>holding DEF LocksStand
  <2> QED
    BY <2>type, <2>locks, <2>written DEF g
<1>new. /\ TypeOK' /\ LocksStand' /\ req'[c].pc \in {"retire", "lock"} /\ req'[c].at = req[c].at
        /\ \A x \in Requests \ {c} : req'[x] = req[x]
  BY <1>take, <1>again DEF TakeLock, Moved, Written
<1>request. RequestInv'
  BY SMTT(30), <1>inv, <1>same, <1>new, RegistryAssumption
     DEF RequestInv, PlacesStand, InboxStands, AddressStands, KeyIsHeld,
     AcceptedIsLogged, Requests, TypeOK, Over
<1>locks. LockInv'
  <2>evictors. EvictionsStand'
    BY <1>inv, <1>same, <1>new, EvictorsStand DEF LockInv
  <2>opens. LockedSessionStands'
    BY <1>inv, <1>same, <1>new DEF LockInv, LockedSessionStands, Opens, Requests
  <2> QED
    BY <1>new, <2>evictors, <2>opens DEF LockInv
<1>process. ProcessInv'
  <2>session. \A q \in Requests : Session(q)' = Session(q)
    BY <1>inv, <1>new, SessionStays
  <2>registered. RegisteredStands'
    BY <1>inv, <1>same, <1>new, <2>session DEF ProcessInv, RegisteredStands, TypeOK, Requests
  <2>lost. NoLostProcess'
    BY <1>inv, <1>same, <1>new, <2>session DEF ProcessInv, NoLostProcess, Alive
  <2>deliveries. DeliveriesStand' /\ RunningIsServed'
    BY <1>inv, <1>same, <1>new, DeliveriesStay DEF ProcessInv, Requests, Sending
  <2> QED
    BY <2>registered, <2>lost, <2>deliveries DEF ProcessInv
<1> QED
  BY <1>new, <1>request, <1>locks, <1>process DEF RegistryInv

LEMMA RetireKeeps ==
  ASSUME RegistryInv, NEW c \in Connects, Retire(c)
  PROVE  RegistryInv'
<1>inv. TypeOK /\ RequestInv /\ LockInv /\ ProcessInv /\ c \in Requests /\ c \notin News
  BY RegistryAssumption DEF RegistryInv, Requests
<1>old. req \in [Requests -> RequestStates] /\ req[c] \in RequestStates /\ LocksStand /\ EvictionsStand
  BY <1>inv DEF TypeOK, LockInv
<1>same. UNCHANGED <<reg, temp, proc, lockOf, newLock, logged, setup, patrol, bounds>> /\ req[c].pc = "retire"
  BY DEF Retire
<1>at. req[c].at \in Sessions
  BY <1>same, SessionOfConnect
<1>places. {"capacity", "use", "evict"} \subseteq Places
  BY DEF Places, Steps
<1>none. ASSUME reg[req[c].at] = None, Goto(c, "capacity"), UNCHANGED <<evicting, victim, strays, held>>
         PROVE  Moved(c, "capacity")
  BY <1>inv, <1>old, <1>none, <1>places, Going
<1>use. ASSUME Usable(req[c].at), req' = [req EXCEPT ![c].pc = "use", ![c].got = reg[req[c].at]]
        PROVE  reg[req[c].at] \in Requests /\ Written(c, "use", req[c].at, req[c].lock, reg[req[c].at], req[c].back)
  <2> DEFINE p == reg[req[c].at]
             r == [req[c] EXCEPT !.pc = "use", !.got = p]
  <2>got. p \in Requests
    BY <1>inv, <1>at, <1>use DEF TypeOK, Usable
  <2>how. req' = [req EXCEPT ![c] = r]
    BY <1>old, <1>use
  <2> HIDE DEF p
  <2>what. /\ r \in RequestStates /\ r.pc = "use" /\ r.at = req[c].at /\ r.lock = req[c].lock
           /\ r.got = p /\ r.back = req[c].back
    BY <1>old, <1>places, <2>got DEF RequestStates
  <2> HIDE DEF r
  <2>written. Written(c, r.pc, r.at, r.lock, r.got, r.back)
    BY <1>inv, <1>old, <2>how, <2>what, Writing
  <2> QED
    BY <2>got, <2>what, <2>written DEF p
<1>evict. ASSUME req' = [req EXCEPT ![c].pc = "evict", ![c].back = "retire"]
          PROVE  Written(c, "evict", req[c].at, req[c].lock, req[c].got, "retire")
  <2> DEFINE r == [req[c] EXCEPT !.pc = "evict", !.back = "retire"]
  <2>how. req' = [req EXCEPT ![c] = r]
    BY <1>old, <1>evict
  <2>what. /\ r \in RequestStates /\ r.pc = "evict" /\ r.at = req[c].at /\ r.lock = req[c].lock
           /\ r.got = req[c].got /\ r.back = "retire"
    BY <1>old, <1>places DEF RequestStates
  <2> HIDE DEF r
  <2>written. Written(c, r.pc, r.at, r.lock, r.got, r.back)
    BY <1>inv, <1>old, <2>how, <2>what, Writing
  <2> QED
    BY <2>what, <2>written
<1>how. \/ /\ reg[req[c].at] = None /\ Moved(c, "capacity") /\ UNCHANGED <<evicting, victim, strays, held>>
        \/ /\ reg[req[c].at] \in Requests /\ Written(c, "use", req[c].at, req[c].lock, reg[req[c].at], req[c].back)
           /\ held' = {h \in held : h[1] # c} /\ UNCHANGED <<evicting, victim, strays>>
        \/ /\ evicting[req[c].at] = None /\ evicting' = [evicting EXCEPT ![req[c].at] = c]
           /\ victim' = [victim EXCEPT ![req[c].at] = reg[req[c].at]] /\ UNCHANGED strays
           /\ Written(c, "evict", req[c].at, req[c].lock, req[c].got, "retire") /\ UNCHANGED held
  BY <1>none, <1>use, <1>evict DEF Retire, BeginEvict, evictions
<1>new. /\ req' \in [Requests -> RequestStates] /\ \A x \in Requests \ {c} : req'[x] = req[x]
        /\ req'[c].pc \in {"capacity", "use", "evict"} /\ req'[c].at = req[c].at /\ req'[c].lock = req[c].lock
        /\ req'[c].pc = "use" => req'[c].got \in Requests /\ req'[c].got = reg[req[c].at]
        /\ req'[c].pc = "capacity" => reg[req[c].at] = None
        /\ req'[c].pc = "evict" => req'[c].back = "retire"
  BY <1>how DEF Moved, Written
<1>held. \/ held' = held /\ req'[c].pc \in {"capacity", "evict"}
         \/ held' = {h \in held : h[1] # c} /\ req'[c].pc = "use"
  BY <1>how DEF Moved, Written
<1>type. TypeOK'
  <2>1. held' \subseteq HeldLocks
    BY <1>inv, <1>held DEF TypeOK
  <2>2. /\ evicting' \in [Sessions -> {None} \cup Evictors]
        /\ victim' \in [Sessions -> {None} \cup Requests] /\ strays' = strays
    BY <1>inv, <1>at, <1>how DEF TypeOK, Evictors
  <2> QED
    BY <1>inv, <1>same, <1>new, <2>1, <2>2 DEF TypeOK, bounds
<1>request. RequestInv'
  BY <1>inv, <1>same, <1>new, RegistryAssumption
     DEF RequestInv, PlacesStand, InboxStands, AddressStands, KeyIsHeld,
     AcceptedIsLogged, Requests, TypeOK, Over
<1>locks. LockInv'
  <2>holders. LocksStand'
    BY <1>inv, <1>old, <1>same, <1>new, <1>held, HoldersStand DEF Holding
  <2>evictors. EvictionsStand'
    BY <1>inv, <1>old, <1>same, <1>at, <1>how, RegistryAssumption
       DEF TypeOK, EvictionsStand, Moved, Written, None
  <2>opens. LockedSessionStands'
    BY <1>inv, <1>same, <1>new DEF LockInv, LockedSessionStands, Opens, Requests
  <2> QED
    BY <2>holders, <2>evictors, <2>opens DEF LockInv
<1>process. ProcessInv'
  <2>session. \A q \in Requests : Session(q)' = Session(q)
    BY <1>inv, <1>new, SessionStays
  <2>registered. RegisteredStands'
    BY <1>inv, <1>same, <1>new, <2>session DEF ProcessInv, RegisteredStands, TypeOK, Requests
  <2>lost. NoLostProcess'
    BY <1>inv, <1>same, <1>how, <1>new, <2>session DEF ProcessInv, NoLostProcess, Alive
  <2>deliveries. DeliveriesStand' /\ RunningIsServed'
    <3>1. req'[c].pc = "use" => /\ req'[c].got \in Requests /\ proc[req'[c].got].state # "none"
                               /\ Session(req'[c].got) = req'[c].at
      BY <1>inv, <1>at, <1>new, RegistryAssumption DEF ProcessInv, RegisteredStands
    <3>2. \A t \in Sessions : evicting[t] # None => evicting'[t] # None
      BY <1>inv, <1>at, <1>how, RegistryAssumption DEF TypeOK
    <3> QED
      BY <1>inv, <1>same, <1>new, <3>1, <3>2, DeliveriesStay DEF ProcessInv, Requests, Sending
  <2> QED
    BY <2>registered, <2>lost, <2>deliveries DEF ProcessInv
<1> QED
  BY <1>type, <1>request, <1>locks, <1>process DEF RegistryInv

LEMMA SendKeeps ==
  ASSUME RegistryInv, NEW c \in Connects, Send(c)
  PROVE  RegistryInv'
<1>inv. TypeOK /\ RequestInv /\ LockInv /\ ProcessInv /\ c \in Requests /\ c \notin News
  BY RegistryAssumption DEF RegistryInv, Requests
<1>old. req \in [Requests -> RequestStates] /\ LocksStand /\ EvictionsStand /\ proc \in [Requests -> Processes]
  BY <1>inv DEF TypeOK, LockInv
<1> DEFINE p == req[c].got
<1>same. UNCHANGED <<reg, temp, evicting, victim, strays, lockOf, held, newLock, logged, setup, patrol, bounds>>
         /\ req[c].pc = "use" /\ ~SendLocked(p) /\ proc' = [proc EXCEPT ![p].runs = TRUE]
  BY DEF Send, evictions, locks
<1>req. \/ Moved(c, "join") /\ proc[p].runs
        \/ Moved(c, "send") /\ ~proc[p].runs
  <2>1. {"join", "send"} \subseteq Places
    BY DEF Places, Steps
  <2>2. \A pc \in {"join", "send"} : Goto(c, pc) => Moved(c, pc)
    BY <1>inv, <1>old, <2>1, Going
  <2> QED
    BY <2>2 DEF Send
<1>new. /\ req' \in [Requests -> RequestStates] /\ \A x \in Requests \ {c} : req'[x] = req[x]
        /\ req'[c].pc \in {"send", "join"} /\ req'[c].at = req[c].at /\ req'[c].lock = req[c].lock
        /\ req'[c].got = p
        /\ req'[c].pc = "join" => proc[p].runs
  BY <1>req DEF Moved, Written
<1>got. p \in Requests /\ proc[p].state # "none" /\ Session(p) = req[c].at
  BY <1>inv, <1>same DEF ProcessInv, DeliveriesStand
<1>states. /\ proc' \in [Requests -> Processes]
           /\ \A q \in Requests : proc'[q].state = proc[q].state /\ proc'[q].deaf = proc[q].deaf
           /\ \A q \in Requests : q # p => proc'[q] = proc[q]
  <2> HIDE DEF p
  <2> QED
    BY <1>old, <1>same, <1>got DEF Processes
<1> HIDE DEF p
<1>type. TypeOK'
  BY <1>inv, <1>same, <1>new, <1>states DEF TypeOK, bounds
<1>request. RequestInv'
  <2>places. PlacesStand'
    BY <1>inv, <1>new DEF RequestInv, PlacesStand, Requests
  <2>inbox. InboxStands'
    BY <1>inv, <1>same, <1>new DEF RequestInv, InboxStands, Requests, TypeOK
  <2>address. AddressStands'
    BY <1>inv, <1>same, <1>new, <1>states DEF RequestInv, AddressStands, Requests, TypeOK, Over
  <2>key. KeyIsHeld' /\ AcceptedIsLogged'
    BY <1>inv, <1>same, <1>new, RegistryAssumption
       DEF RequestInv, KeyIsHeld, AcceptedIsLogged, Requests
  <2> QED
    BY <2>places, <2>inbox, <2>address, <2>key DEF RequestInv
<1>locks. LockInv'
  <2>holders. LocksStand'
    BY <1>inv, <1>old, <1>same, <1>new, HoldersStand DEF Holding
  <2>evictors. EvictionsStand'
    BY <1>inv, <1>old, <1>same, <1>new, EvictorsStand
  <2>opens. LockedSessionStands'
    BY <1>inv, <1>same, <1>new DEF LockInv, LockedSessionStands, Opens, Requests
  <2> QED
    BY <2>holders, <2>evictors, <2>opens DEF LockInv
<1>process. ProcessInv'
  <2>session. \A q \in Requests : Session(q)' = Session(q)
    BY <1>inv, <1>new, SessionStays
  <2>registered. RegisteredStands'
    BY SMTT(30), <1>inv, <1>same, <1>new, <1>states, <2>session
       DEF ProcessInv, RegisteredStands, TypeOK, Requests, Begun
  <2>lost. NoLostProcess'
    BY <1>inv, <1>same, <1>new, <1>states, <2>session DEF ProcessInv, NoLostProcess, Alive
  <2>deliveries. DeliveriesStand'
    <3>got. ASSUME NEW d \in Connects, req'[d].pc \in {"use"} \cup Sending
            PROVE  /\ req'[d].got \in Requests /\ proc'[req'[d].got].state # "none"
                   /\ Session(req[d].got)' = req'[d].at
      <4>1. d \in Requests /\ req'[d].at = req[d].at /\ req'[d].got = req[d].got
        BY <1>new DEF p, Requests
      <4>2. req[d].got \in Requests /\ proc[req[d].got].state # "none" /\ Session(req[d].got) = req[d].at
        BY <1>inv, <1>same, <1>new, <3>got, <4>1 DEF ProcessInv, DeliveriesStand
      <4>3. \A x \in Requests : req'[x].at = req[x].at
        BY <1>new
      <4> QED
        BY <1>states, <4>1, <4>2, <4>3 DEF Session
    <3>one. \A d, f \in Connects :
              req'[d].pc \in Sending /\ req'[f].pc \in Sending /\ req'[d].got = req'[f].got => d = f
      <4>1. \A d \in Connects \ {c} : req'[d] = req[d] /\ ~(req[d].pc \in Sending /\ req[d].got = p)
        BY <1>same, <1>new DEF SendLocked, Requests
      <4> QED
        BY <1>inv, <1>new, <4>1 DEF ProcessInv, DeliveriesStand
    <3>start. \A x \in Requests : req'[x].pc = "start" => proc'[x].state # "none"
      BY <1>inv, <1>new, <1>states DEF ProcessInv, DeliveriesStand, Sending
    <3> QED
      BY <3>start, <3>got, <3>one DEF DeliveriesStand
  <2>served. RunningIsServed'
    <3> SUFFICES ASSUME NEW s \in Sessions, Running(s)', proc'[reg[s]].state = "dead", ~proc'[reg[s]].deaf,
                        evicting[s] = None
                 PROVE  \E d \in Connects : req'[d].pc = "send" /\ req'[d].got = reg[s]
      BY <1>same DEF RunningIsServed
    <3>1. reg[s] \in Requests /\ proc[reg[s]].state = "dead" /\ proc'[reg[s]].runs /\ ~proc[reg[s]].deaf
      BY <1>inv, <1>same, <1>states DEF TypeOK, Running
    <3>2. \A d \in Connects : req[d].pc = "send" => req'[d] = req[d] /\ req[d].got # p
      BY <1>same, <1>new DEF SendLocked, Sending, Requests
    <3>ran. CASE proc[reg[s]].runs
      <4>1. PICK d \in Connects : req[d].pc = "send" /\ req[d].got = reg[s]
        BY <1>inv, <3>1, <3>ran, RegistryAssumption DEF ProcessInv, RunningIsServed, Running
      <4> QED
        BY <3>2, <4>1
    <3>runs. CASE ~proc[reg[s]].runs
      <4>1. reg[s] = p
        BY <1>states, <3>1, <3>runs
      <4> QED
        BY <1>new, <3>runs, <4>1
    <3> QED
      BY <3>ran, <3>runs
  <2> QED
    BY <2>registered, <2>lost, <2>deliveries, <2>served DEF ProcessInv
<1> QED
  BY <1>type, <1>request, <1>locks, <1>process DEF RegistryInv

(* What settles the session of a message that is not delivered. *)
LEMMA SettlesRunning ==
  ASSUME TypeOK, NEW c \in Connects, req[c].got \in Requests, Settles(c)
  PROVE  /\ proc' \in [Requests -> Processes]
         /\ \A q \in Requests : /\ proc'[q].state = proc[q].state /\ proc'[q].deaf = proc[q].deaf
                                /\ proc'[q].runs => proc[q].runs
         /\ proc'[req[c].got].runs => ~(/\ req[c].pc = "send" /\ reg[req[c].at] = req[c].got
                                       /\ evicting[req[c].at] = None)
<1> DEFINE p == req[c].got
           settled == req[c].pc = "send" /\ reg[req[c].at] = req[c].got /\ evicting[req[c].at] = None
           runs == proc[p].runs /\ ~settled
<1>1. proc \in [Requests -> Processes] /\ proc[p].runs \in BOOLEAN
  BY DEF TypeOK, Processes
<1>2. proc' = [proc EXCEPT ![p].runs = runs]
  BY DEF Settles
<1>3. runs \in BOOLEAN /\ (runs => proc[p].runs) /\ (runs => ~settled)
  BY <1>1
<1> HIDE DEF p, runs, settled
<1>4. p \in Requests
  BY DEF p
<1>5. /\ proc' \in [Requests -> Processes]
      /\ \A q \in Requests : proc'[q].state = proc[q].state /\ proc'[q].deaf = proc[q].deaf
      /\ \A q \in Requests : q # p => proc'[q] = proc[q]
      /\ proc'[p].runs = runs
  BY <1>1, <1>2, <1>3, <1>4 DEF Processes
<1>6. \A q \in Requests : proc'[q].runs => proc[q].runs
  BY <1>3, <1>5
<1>7. proc'[p].runs => ~settled
  BY <1>3, <1>5
<1> QED
  BY <1>5, <1>6, <1>7 DEF p, settled

LEMMA DeliveryKeeps ==
  ASSUME RegistryInv, NEW c \in Connects, Delivered(c) \/ Undelivered(c) \/ WriteFails(c)
  PROVE  RegistryInv'
<1>inv. TypeOK /\ RequestInv /\ LockInv /\ ProcessInv /\ c \in Requests /\ c \notin News
  BY RegistryAssumption DEF RegistryInv, Requests
<1>old. req \in [Requests -> RequestStates] /\ LocksStand /\ EvictionsStand /\ proc \in [Requests -> Processes]
  BY <1>inv DEF TypeOK, LockInv
<1> DEFINE p == req[c].got
<1>same. /\ UNCHANGED <<reg, temp, evicting, victim, strays, lockOf, logged, setup, patrol>> /\ req[c].pc \in Sending
         /\ Finish(c, "accepted") \/ Finish(c, "refused")
  BY DEF Delivered, Undelivered, WriteFails, evictions
<1>bounds. UNCHANGED <<patrols, exits, crashes>> /\ failures' \in 0..MaxFailures
  BY <1>inv, RegistryAssumption DEF Delivered, Undelivered, WriteFails, Fails, bounds, TypeOK
<1>req. Moved(c, "accepted") \/ Moved(c, "refused")
  <2>1. {"accepted", "refused"} \subseteq Places
    BY DEF Places, Over
  <2> QED
    BY <1>inv, <1>old, <1>same, <2>1, Going DEF Finish
<1>new. /\ req' \in [Requests -> RequestStates] /\ \A x \in Requests \ {c} : req'[x] = req[x]
        /\ req'[c].pc \in {"accepted", "refused"} /\ req'[c].at = req[c].at /\ req'[c].lock = req[c].lock
        /\ held' = {h \in held : h[1] # c} /\ newLock' = newLock
  <2>1. newLock # c
    BY <1>inv, RegistryAssumption DEF TypeOK
  <2> QED
    BY <1>same, <1>req, <2>1 DEF Moved, Written, Finish
<1>got. p \in Requests /\ proc[p].state # "none" /\ Session(p) = req[c].at
  BY <1>inv, <1>same DEF ProcessInv, DeliveriesStand
<1>states. /\ proc' \in [Requests -> Processes]
           /\ \A q \in Requests : /\ proc'[q].state = proc[q].state /\ proc'[q].deaf = proc[q].deaf
                                  /\ proc'[q].runs => proc[q].runs
           /\ \/ proc[p].state = "up"
              \/ proc'[p].runs => ~(req[c].pc = "send" /\ reg[req[c].at] = p /\ evicting[req[c].at] = None)
  <2>1. Settles(c) \/ (proc' = proc /\ proc[p].state = "up")
    BY DEF Delivered, Undelivered, WriteFails
  <2> QED
    BY <1>inv, <1>old, <1>got, <2>1, SettlesRunning
<1> HIDE DEF p
<1>type. TypeOK'
  <2>1. held' \subseteq HeldLocks
    BY <1>inv, <1>new DEF TypeOK
  <2> QED
    BY <1>inv, <1>same, <1>bounds, <1>new, <1>states, <2>1 DEF TypeOK
<1>request. RequestInv'
  <2>places. PlacesStand'
    BY <1>inv, <1>new DEF RequestInv, PlacesStand, Requests
  <2>inbox. InboxStands'
    BY <1>inv, <1>same, <1>new DEF RequestInv, InboxStands, Requests, TypeOK
  <2>address. AddressStands'
    BY <1>inv, <1>same, <1>new, <1>states DEF RequestInv, AddressStands, Requests, TypeOK, Over, Sending
  <2>key. KeyIsHeld' /\ AcceptedIsLogged'
    BY <1>inv, <1>same, <1>new, RegistryAssumption
       DEF RequestInv, KeyIsHeld, AcceptedIsLogged, Requests
  <2> QED
    BY <2>places, <2>inbox, <2>address, <2>key DEF RequestInv
<1>locks. LockInv'
  <2>holders. LocksStand'
    BY <1>inv, <1>old, <1>same, <1>new, HoldersStand DEF Holding, Sending
  <2>evictors. EvictionsStand'
    BY <1>inv, <1>old, <1>same, <1>new, EvictorsStand DEF Sending
  <2>opens. LockedSessionStands'
    BY <1>inv, <1>same, <1>new DEF LockInv, LockedSessionStands, Opens, Requests
  <2> QED
    BY <2>holders, <2>evictors, <2>opens DEF LockInv
<1>process. ProcessInv'
  <2>session. \A q \in Requests : Session(q)' = Session(q)
    BY <1>inv, <1>new, SessionStays
  <2>registered. RegisteredStands'
    BY SMTT(30), <1>inv, <1>same, <1>new, <1>states, <2>session
       DEF ProcessInv, RegisteredStands, TypeOK, Requests, Begun
  <2>lost. NoLostProcess'
    BY <1>inv, <1>same, <1>new, <1>states, <2>session DEF ProcessInv, NoLostProcess, Alive, Sending
  <2>deliveries. DeliveriesStand'
    <3>got. ASSUME NEW d \in Connects, req'[d].pc \in {"use"} \cup Sending
            PROVE  /\ req'[d] = req[d] /\ d # c
                   /\ req'[d].got \in Requests /\ proc'[req'[d].got].state # "none"
                   /\ Session(req[d].got)' = req'[d].at
      <4>1. d # c /\ d \in Requests /\ req'[d] = req[d]
        BY <1>new, <3>got DEF Requests, Sending
      <4>2. req[d].got \in Requests /\ proc[req[d].got].state # "none" /\ Session(req[d].got) = req[d].at
        BY <1>inv, <3>got, <4>1 DEF ProcessInv, DeliveriesStand
      <4>3. \A x \in Requests : req'[x].at = req[x].at
        BY <1>new
      <4> QED
        BY <1>states, <4>1, <4>2, <4>3 DEF Session
    <3>one. \A d, f \in Connects :
              req'[d].pc \in Sending /\ req'[f].pc \in Sending /\ req'[d].got = req'[f].got => d = f
      BY <1>inv, <3>got DEF ProcessInv, DeliveriesStand
    <3>start. \A x \in Requests : req'[x].pc = "start" => proc'[x].state # "none"
      BY <1>inv, <1>new, <1>states DEF ProcessInv, DeliveriesStand, Sending
    <3> QED
      BY <3>start, <3>got, <3>one DEF DeliveriesStand
  <2>served. RunningIsServed'
    <3> SUFFICES ASSUME NEW s \in Sessions, Running(s)', proc'[reg[s]].state = "dead", ~proc'[reg[s]].deaf,
                        evicting[s] = None
                 PROVE  \E d \in Connects : req'[d].pc = "send" /\ req'[d].got = reg[s]
      BY <1>same DEF RunningIsServed
    <3>1. reg[s] \in Requests /\ proc[reg[s]].state = "dead" /\ proc'[reg[s]].runs /\ Running(s)
           /\ ~proc[reg[s]].deaf
      BY <1>inv, <1>same, <1>states DEF TypeOK, Running
    <3>2. PICK d \in Connects : req[d].pc = "send" /\ req[d].got = reg[s]
      BY <1>inv, <3>1 DEF ProcessInv, RunningIsServed
    <3>3. d # c
      <4> SUFFICES ASSUME d = c PROVE FALSE
        OBVIOUS
      <4>1. reg[s] = p /\ req[c].pc = "send"
        BY <3>2 DEF p
      <4>2. Session(p) = s
        BY <1>inv, <1>got, <3>1, <4>1, RegistryAssumption DEF ProcessInv, RegisteredStands
      <4> QED
        BY <1>got, <1>states, <3>1, <4>1, <4>2
    <3> QED
      BY <1>new, <3>2, <3>3 DEF Requests
  <2> QED
    BY <2>registered, <2>lost, <2>deliveries, <2>served DEF ProcessInv
<1> QED
  BY <1>type, <1>request, <1>locks, <1>process DEF RegistryInv

-----------------------------------------------------------------------------
(* A new session: send_or_create, send_new_session and the inbox *)

(* Nobody but its creator has to do with a session before the request is over. *)
LEMMA NewIsUnaddressed ==
  ASSUME RegistryInv, NEW n \in News, req[n].pc \notin Over
  PROVE  /\ \A c \in Connects : req[c].pc # "new" => req[c].at # n
         /\ \A q \in Requests : q # n /\ proc[q].state # "none" => Session(q) # n
         /\ reg[n] \in {None, n}
<1>inv. TypeOK /\ RequestInv /\ ProcessInv /\ n \in Sessions
  BY DEF RegistryInv, Sessions
<1>1. \A c \in Connects : req[c].pc # "new" => req[c].at # n
  BY <1>inv, RegistryAssumption DEF RequestInv, AddressStands
<1>2. \A q \in Requests : q # n /\ proc[q].state # "none" => Session(q) # n
  BY <1>inv, <1>1 DEF RequestInv, AddressStands, Session, Requests
<1>3. reg[n] \in {None, n}
  BY <1>inv, <1>2 DEF TypeOK, ProcessInv, RegisteredStands
<1> QED
  BY <1>1, <1>2, <1>3

(* The locks of the sessions do not concern a request for a new one. *)
LEMMA NewHoldsNothing ==
  ASSUME RegistryInv, NEW n \in News, UNCHANGED <<lockOf, evicting, victim, strays>>,
         \A x \in Requests \ {n} : req'[x] = req[x],
         req'[n].pc # "lock", req[n].pc # "evict",
         held' = held \/ held' = {h \in held : h[1] # n},
         \A s \in Sessions : reg'[s] = reg[s] \/ reg'[s] = None \/ (s = n /\ req[n].pc \notin Over)
  PROVE  LockInv'
<1>inv. TypeOK /\ RequestInv /\ LockInv /\ n \in Requests /\ n \notin Connects /\ Connects \subseteq Requests
  BY RegistryAssumption DEF RegistryInv, Requests
<1>holders. LocksStand'
  BY <1>inv, HoldersStand DEF LockInv
<1>evictors. EvictionsStand'
  BY <1>inv, EvictorsStand DEF LockInv
<1>opens. LockedSessionStands'
  <2> SUFFICES ASSUME NEW c \in Connects
               PROVE  /\ Opens(c)' => reg'[req'[c].at] = None
                      /\ req'[c].pc = "start" => reg'[req'[c].at] \in {None, c}
    BY DEF LockedSessionStands
  <2>1. req'[c] = req[c] /\ Opens(c)' = Opens(c)
    BY <1>inv DEF Opens
  <2> SUFFICES ASSUME req[c].pc # "new" PROVE /\ Opens(c) => reg'[req[c].at] = None
                                              /\ req[c].pc = "start" => reg'[req[c].at] \in {None, c}
    BY <2>1 DEF Opens
  <2>2. req[c].at \in Sessions
    BY SessionOfConnect
  <2>3. req[n].pc \notin Over => req[c].at # n
    BY NewIsUnaddressed
  <2> QED
    BY <1>inv, <2>2, <2>3 DEF LockInv, LockedSessionStands
<1> QED
  BY <1>holders, <1>evictors, <1>opens DEF LockInv

LEMMA ProcessesUntouched ==
  ASSUME ProcessInv, TypeOK, NEW n \in News, UNCHANGED <<reg, temp, proc, evicting, strays, setup>>,
         \A x \in Requests \ {n} : req'[x] = req[x],
         req[n].pc \in Begun => req'[n].pc \in Begun, req[n].pc # "cleanup", req'[n].pc # "start"
  PROVE  ProcessInv'
<1>session. n \in Requests /\ \A q \in Requests : Session(q)' = Session(q)
  BY SessionStays, RegistryAssumption DEF Requests
<1>registered. RegisteredStands'
  BY <1>session DEF ProcessInv, RegisteredStands, TypeOK, Requests
<1>lost. NoLostProcess'
  BY <1>session DEF ProcessInv, NoLostProcess, Alive
<1>deliveries. DeliveriesStand' /\ RunningIsServed'
  <2>1. \A c \in Connects : req'[c] = req[c]
    BY RegistryAssumption DEF Requests
  <2> QED
    BY <2>1, <1>session, DeliveriesStay DEF ProcessInv, Sending
<1> QED
  BY <1>registered, <1>lost, <1>deliveries DEF ProcessInv

(* The step of a request for a new session that waits or is answered: *)
(* BeginNew, Find, TakeNewLock.                                       *)
LEMMA WaitKeeps ==
  ASSUME RegistryInv, NEW n \in News, BeginNew(n) \/ Find(n) \/ TakeNewLock(n)
  PROVE  RegistryInv'
<1>inv. TypeOK /\ RequestInv /\ LockInv /\ ProcessInv /\ n \in Requests /\ n \notin Connects
  BY RegistryAssumption DEF RegistryInv, Requests
<1>old. req \in [Requests -> RequestStates] /\ req[n] \in RequestStates
  BY <1>inv DEF TypeOK
<1>same. /\ UNCHANGED <<reg, temp, proc, evicting, victim, strays, lockOf, held, logged, setup, patrol, bounds>>
         /\ req[n].pc \in {"new", "find", "newlock"} /\ (req[n].pc # "new" => n \in Same)
  BY <1>inv DEF BeginNew, Find, TakeNewLock, locks, evictions, RequestInv, PlacesStand
<1>answer. ASSUME Answered(n), req' = [req EXCEPT ![n].pc = "accepted", ![n].at = CHOOSE m \in logged \cap Same : TRUE]
           PROVE  \E m \in logged \cap Same : Written(n, "accepted", m, req[n].lock, req[n].got, req[n].back)
  <2> DEFINE m == CHOOSE m \in logged \cap Same : TRUE
             r == [req[n] EXCEPT !.pc = "accepted", !.at = m]
  <2>1. m \in logged \cap Same
    BY <1>answer DEF Answered
  <2>2. m \in Sessions /\ "accepted" \in Places
    BY <2>1, RegistryAssumption DEF Sessions, Places, Over
  <2> HIDE DEF m
  <2>3. req' = [req EXCEPT ![n].pc = "accepted", ![n].at = m]
    BY <1>answer DEF m
  <2>how. req' = [req EXCEPT ![n] = r]
    BY <1>old, <2>3
  <2>what. /\ r \in RequestStates /\ r.pc = "accepted" /\ r.at = m /\ r.lock = req[n].lock
           /\ r.got = req[n].got /\ r.back = req[n].back
    BY <1>old, <2>2 DEF RequestStates
  <2> HIDE DEF r
  <2>4. Written(n, r.pc, r.at, r.lock, r.got, r.back)
    BY <1>inv, <1>old, <2>how, <2>what, Writing
  <2> QED
    BY <2>1, <2>what, <2>4
<1>goes. \A pc \in {"find", "newlock", "capacity"} : Goto(n, pc) => Moved(n, pc)
  <2>1. {"find", "newlock", "capacity"} \subseteq Places
    BY DEF Places, Steps
  <2> QED
    BY <1>inv, <1>old, <2>1, Going
<1>how. \/ newLock' = newLock /\ \E m \in logged \cap Same : Written(n, "accepted", m, req[n].lock, req[n].got, req[n].back)
        \/ newLock' = newLock /\ n \in Same /\ (Moved(n, "find") \/ Moved(n, "newlock"))
        \/ newLock' = newLock /\ n \notin Same /\ Moved(n, "capacity")
        \/ newLock = None /\ newLock' = n /\ n \in Same /\ logged \cap Same = {} /\ Moved(n, "capacity")
  <2>1. BeginNew(n) => newLock' = newLock /\ Goto(n, IF n \in Same THEN "find" ELSE "capacity")
    BY DEF BeginNew, locks
  <2>2. Find(n) => newLock' = newLock /\ n \in Same
    BY <1>same DEF Find, locks
  <2>3. TakeNewLock(n) => newLock = None /\ n \in Same
    BY <1>same DEF TakeNewLock
  <2> QED
    BY <1>answer, <1>goes, <2>1, <2>2, <2>3 DEF Find, TakeNewLock, Answered
<1>new. /\ req' \in [Requests -> RequestStates] /\ \A x \in Requests \ {n} : req'[x] = req[x]
        /\ req'[n].pc \in {"accepted", "find", "newlock", "capacity"}
        /\ req'[n].pc = "accepted" => req'[n].at \in logged
        /\ req'[n].pc \in {"find", "newlock"} => n \in Same
        /\ newLock' \in {newLock, n}
        /\ newLock' # newLock => logged \cap Same = {} /\ newLock = None /\ n \in Same
        /\ n \in Same /\ req'[n].pc = "capacity" => newLock' = n
  BY <1>how DEF Moved, Written
<1>type. TypeOK'
  BY <1>inv, <1>same, <1>new DEF TypeOK, bounds
<1>request. RequestInv'
  <2>places. PlacesStand'
    BY <1>inv, <1>new DEF RequestInv, PlacesStand, Requests
  <2>inbox. InboxStands'
    BY <1>inv, <1>same, <1>new DEF RequestInv, InboxStands, Requests, TypeOK, Begun
  <2>address. AddressStands'
    BY <1>inv, <1>same, <1>new, RegistryAssumption
       DEF RequestInv, AddressStands, Requests, TypeOK, Over
  <2>key. KeyIsHeld'
    BY <1>inv, <1>same, <1>new, RegistryAssumption DEF RequestInv, KeyIsHeld, Requests
  <2>accepted. AcceptedIsLogged'
    BY <1>inv, <1>same, <1>new DEF RequestInv, AcceptedIsLogged, Requests
  <2> QED
    BY <2>places, <2>inbox, <2>address, <2>key, <2>accepted DEF RequestInv
<1>locks. LockInv'
  BY <1>same, <1>new, NewHoldsNothing
<1>process. ProcessInv'
  BY <1>inv, <1>same, <1>new, ProcessesUntouched DEF Begun
<1> QED
  BY <1>type, <1>request, <1>locks, <1>process DEF RegistryInv

LEMMA WakeKeeps ==
  ASSUME RegistryInv, NEW n \in News, Wake(n)
  PROVE  RegistryInv'
<1>inv. TypeOK /\ RequestInv /\ LockInv /\ ProcessInv /\ n \in Requests /\ n \in Sessions /\ n \notin Connects /\ n \notin Old /\ n # None
  BY RegistryAssumption DEF RegistryInv, Requests, Sessions
<1>old. req \in [Requests -> RequestStates] /\ req[n] \in RequestStates /\ proc \in [Requests -> Processes]
  BY <1>inv DEF TypeOK
<1>same. UNCHANGED <<evicting, victim, strays, lockOf, held, logged, setup, patrol, bounds>> /\ req[n].pc = "init"
  BY DEF Wake, evictions
<1>alone. /\ \A q \in Requests : q # n /\ proc[q].state # "none" => Session(q) # n
          /\ reg[n] \in {None, n}
  BY <1>same, NewIsUnaddressed DEF Over
<1>told. ASSUME req' = [req EXCEPT ![n].pc = "accepted", ![n].at = n]
         PROVE  Written(n, "accepted", n, req[n].lock, req[n].got, req[n].back)
  <2> DEFINE r == [req[n] EXCEPT !.pc = "accepted", !.at = n]
  <2>how. req' = [req EXCEPT ![n] = r]
    BY <1>old, <1>told
  <2>place. "accepted" \in Places
    BY DEF Places, Over
  <2>what. /\ r \in RequestStates /\ r.pc = "accepted" /\ r.at = n /\ r.lock = req[n].lock
           /\ r.got = req[n].got /\ r.back = req[n].back
    BY <1>inv, <1>old, <2>place DEF RequestStates
  <2> HIDE DEF r
  <2>written. Written(n, r.pc, r.at, r.lock, r.got, r.back)
    BY <1>inv, <1>old, <2>how, <2>what, Writing
  <2> QED
    BY <2>what, <2>written
<1>fails. ASSUME Goto(n, "cleanup") PROVE Moved(n, "cleanup")
  <2>1. "cleanup" \in Places
    BY DEF Places, Steps
  <2> QED
    BY <1>inv, <1>old, <1>fails, <2>1, Going
<1>proc. ASSUME proc' = [proc EXCEPT ![n].runs = @ /\ setup[n] # "failed"]
         PROVE  /\ proc' \in [Requests -> Processes] /\ \A q \in Requests \ {n} : proc'[q] = proc[q]
                /\ proc'[n].state = proc[n].state /\ proc'[n].deaf = proc[n].deaf /\ (proc'[n].runs => proc[n].runs)
  <2> DEFINE runs == proc[n].runs /\ setup[n] # "failed"
  <2>1. runs \in BOOLEAN /\ (runs => proc[n].runs)
    BY <1>inv, <1>old DEF Processes
  <2>2. proc' = [proc EXCEPT ![n].runs = runs]
    BY <1>proc
  <2> HIDE DEF runs
  <2>3. /\ proc' \in [Requests -> Processes] /\ \A q \in Requests \ {n} : proc'[q] = proc[q]
        /\ proc'[n].state = proc[n].state /\ proc'[n].deaf = proc[n].deaf /\ proc'[n].runs = runs
    BY <1>inv, <1>old, <2>1, <2>2 DEF Processes
  <2> QED
    BY <2>1, <2>3
<1>how. \/ /\ setup[n] = "done" /\ Written(n, "accepted", n, req[n].lock, req[n].got, req[n].back)
           /\ newLock' = (IF newLock = n THEN None ELSE newLock) /\ UNCHANGED <<reg, temp, proc>>
        \/ /\ setup[n] # "done" /\ Moved(n, "cleanup") /\ temp' = temp \ {n} /\ UNCHANGED newLock
           /\ reg' = reg \/ reg' = [reg EXCEPT ![n] = None]
           /\ proc' = [proc EXCEPT ![n].runs = @ /\ setup[n] # "failed"]
  BY <1>told, <1>fails DEF Wake
<1>new. /\ req' \in [Requests -> RequestStates] /\ \A x \in Requests \ {n} : req'[x] = req[x]
        /\ \/ /\ setup[n] = "done" /\ req'[n].pc = "accepted" /\ req'[n].at = n
              /\ newLock' = (IF newLock = n THEN None ELSE newLock)
           \/ req'[n].pc = "cleanup" /\ newLock' = newLock
        /\ temp' \subseteq temp
        /\ req'[n].pc = "cleanup" => n \notin temp'
        /\ temp' = temp \/ (temp' = temp \ {n} /\ req'[n].pc = "cleanup")
  BY <1>how DEF Moved, Written
<1>reg. /\ \A s \in Sessions : s # n => reg'[s] = reg[s]
        /\ reg'[n] = reg[n] \/ (reg'[n] = None /\ req'[n].pc = "cleanup")
        /\ reg' \in [Sessions -> {None} \cup Requests]
  BY <1>inv, <1>how DEF TypeOK, Moved, Written
<1>states. /\ proc' \in [Requests -> Processes] /\ \A q \in Requests \ {n} : proc'[q] = proc[q]
           /\ proc'[n].state = proc[n].state /\ proc'[n].deaf = proc[n].deaf /\ (proc'[n].runs => proc[n].runs)
  BY <1>old, <1>how, <1>proc
<1>type. TypeOK'
  <2>1. temp' \subseteq News /\ newLock' \in {None} \cup Same
    BY <1>inv, <1>new DEF TypeOK
  <2> QED
    BY <1>inv, <1>same, <1>new, <1>reg, <1>states, <2>1 DEF TypeOK, bounds
<1>request. RequestInv'
  <2>places. PlacesStand'
    BY <1>inv, <1>new DEF RequestInv, PlacesStand, Requests
  <2>inbox. InboxStands'
    BY <1>inv, <1>same, <1>new DEF RequestInv, InboxStands, Requests, TypeOK, Begun
  <2>address. AddressStands'
    BY <1>inv, <1>same, <1>new, <1>states, RegistryAssumption
       DEF RequestInv, AddressStands, Requests, TypeOK, Over
  <2>key. KeyIsHeld'
    BY <1>inv, <1>same, <1>new, RegistryAssumption DEF RequestInv, KeyIsHeld, Requests
  <2>accepted. AcceptedIsLogged'
    BY <1>inv, <1>same, <1>new DEF RequestInv, AcceptedIsLogged, InboxStands, Requests
  <2> QED
    BY <2>places, <2>inbox, <2>address, <2>key, <2>accepted DEF RequestInv
<1>locks. LockInv'
  BY <1>inv, <1>same, <1>new, <1>reg, NewHoldsNothing
<1>process. ProcessInv'
  <2>session. \A q \in Requests : Session(q)' = Session(q)
    BY <1>inv, <1>new, SessionStays
  <2>registered. RegisteredStands'
    <3>kept. ASSUME NEW s \in Sessions, reg'[s] # None
          PROVE  /\ reg[s] = reg'[s] /\ reg[s] \in Requests /\ Session(reg[s]) = s /\ proc[reg[s]].state # "none"
      <4>1. reg[s] = reg'[s]
        BY <1>reg, <3>kept
      <4> QED
        BY <1>inv, <3>kept, <4>1 DEF ProcessInv, RegisteredStands, TypeOK
    <3>session. \A s \in Sessions : reg'[s] # None => Session(reg[s])' = s
      BY <1>inv, <1>new, <3>kept DEF Session, Requests
    <3>begun. \A s \in Sessions : reg'[s] # None => proc'[reg'[s]].state # "none"
      BY <1>states, <3>kept
    <3>fresh. \A m \in temp' : proc'[m].state # "none" /\ (setup'[m] \in {"row", "log"} => proc'[m].state # "dead")
      BY <1>inv, <1>same, <1>new, <1>states DEF ProcessInv, RegisteredStands, TypeOK, Requests
    <3>places. \A m \in News : reg'[m] # None => req'[m].pc \in Begun
      BY <1>inv, <1>new, <3>kept DEF ProcessInv, RegisteredStands, Requests, Sessions, Begun
    <3> QED
      BY <3>session, <3>fresh, <3>places, <3>begun DEF RegisteredStands
  <2>lost. NoLostProcess'
    <3> SUFFICES ASSUME NEW q \in Requests \ strays, Alive(q)'
                 PROVE  reg'[Session(q)'] = q \/ q \in temp' \/ req'[q].pc = "cleanup"
      BY <1>same DEF NoLostProcess
    <3>1. Alive(q) /\ proc[q].state # "none"
      BY <1>states DEF Alive
    <3>other. CASE q # n
      <4>1. Session(q) \in Sessions /\ Session(q) # n
        BY <1>alone, <3>1, <3>other, SessionOfProcess
      <4>2. reg[Session(q)] = q \/ q \in temp \/ req[q].pc = "cleanup"
        BY <1>inv, <3>1 DEF ProcessInv, NoLostProcess
      <4> QED
        BY <1>new, <1>reg, <2>session, <3>other, <4>1, <4>2
    <3>own. CASE q = n
      <4>1. Session(n) = n
        BY DEF Session
      <4> QED
        BY <1>inv, <1>same, <1>new, <1>reg, <2>session, <3>1, <3>own, <4>1
           DEF ProcessInv, NoLostProcess
    <3> QED
      BY <3>other, <3>own
  <2>deliveries. DeliveriesStand' /\ RunningIsServed'
    <3>1. \A x \in Connects : req'[x] = req[x]
      BY <1>inv, <1>new DEF Requests
    <3>2. \A s \in Sessions : reg'[s] # None => reg'[s] = reg[s] /\ reg[s] \in Requests
      BY <1>inv, <1>reg DEF TypeOK
    <3> QED
      BY <1>inv, <1>same, <1>new, <1>states, <3>1, <3>2, DeliveriesStay DEF ProcessInv
  <2> QED
    BY <2>registered, <2>lost, <2>deliveries DEF ProcessInv
<1> QED
  BY <1>type, <1>request, <1>locks, <1>process DEF RegistryInv

LEMMA CleanupKeeps ==
  ASSUME RegistryInv, NEW n \in News, Cleanup(n)
  PROVE  RegistryInv'
<1>inv. TypeOK /\ RequestInv /\ LockInv /\ ProcessInv /\ n \in Requests /\ n \in Sessions /\ n \notin Connects /\ n \notin Old /\ n # None
  BY RegistryAssumption DEF RegistryInv, Requests, Sessions
<1>old. req \in [Requests -> RequestStates] /\ req[n] \in RequestStates /\ proc \in [Requests -> Processes]
  BY <1>inv DEF TypeOK
<1>same. UNCHANGED <<reg, temp, evicting, victim, strays, lockOf, logged, setup, patrol, bounds>> /\ req[n].pc = "cleanup"
  BY DEF Cleanup, evictions
<1>req. Moved(n, "refused")
  <2>1. "refused" \in Places
    BY DEF Places, Over
  <2> QED
    BY <1>inv, <1>old, <2>1, Going DEF Cleanup, Finish
<1>new. /\ req' \in [Requests -> RequestStates] /\ \A x \in Requests \ {n} : req'[x] = req[x]
        /\ req'[n].pc = "refused" /\ newLock' = (IF newLock = n THEN None ELSE newLock)
        /\ held' = {h \in held : h[1] # n}
  BY <1>req DEF Moved, Written, Cleanup, Finish
<1>states. /\ proc' \in [Requests -> Processes] /\ \A q \in Requests \ {n} : proc'[q] = proc[q]
           /\ proc'[n].state = "dead" /\ ~proc'[n].runs
  BY <1>inv, <1>old DEF Cleanup, Processes
<1>type. TypeOK'
  <2>1. held' \subseteq HeldLocks /\ newLock' \in {None} \cup Same
    BY <1>inv, <1>new DEF TypeOK
  <2> QED
    BY <1>inv, <1>same, <1>new, <1>states, <2>1 DEF TypeOK, bounds
<1>request. RequestInv'
  <2>places. PlacesStand'
    BY <1>inv, <1>new DEF RequestInv, PlacesStand, Requests
  <2>inbox. InboxStands'
    BY <1>inv, <1>same, <1>new DEF RequestInv, InboxStands, Requests, TypeOK, Begun
  <2>address. AddressStands'
    BY <1>inv, <1>same, <1>new, <1>states, RegistryAssumption
       DEF RequestInv, AddressStands, Requests, TypeOK, Over
  <2>key. KeyIsHeld'
    BY <1>inv, <1>same, <1>new, RegistryAssumption DEF RequestInv, KeyIsHeld, Requests
  <2>accepted. AcceptedIsLogged'
    BY <1>inv, <1>same, <1>new DEF RequestInv, AcceptedIsLogged, Requests
  <2> QED
    BY <2>places, <2>inbox, <2>address, <2>key, <2>accepted DEF RequestInv
<1>locks. LockInv'
  BY <1>inv, <1>same, <1>new, NewHoldsNothing
<1>process. ProcessInv'
  <2>session. \A q \in Requests : Session(q)' = Session(q)
    BY <1>inv, <1>new, SessionStays
  <2>registered. RegisteredStands'
    <3>1. n \notin temp
      BY <1>inv, <1>same DEF RequestInv, InboxStands
    <3> QED
      BY <1>inv, <1>same, <1>new, <1>states, <2>session, <3>1
         DEF ProcessInv, RegisteredStands, TypeOK, Requests, Begun
  <2>lost. NoLostProcess'
    BY <1>inv, <1>same, <1>new, <1>states, <2>session DEF ProcessInv, NoLostProcess, Alive
  <2>deliveries. DeliveriesStand' /\ RunningIsServed'
    <3>1. \A x \in Connects : req'[x] = req[x]
      BY <1>inv, <1>new DEF Requests
    <3>2. \A s \in Sessions : reg[s] # None => reg[s] \in Requests
      BY <1>inv DEF TypeOK
    <3> QED
      BY <1>inv, <1>same, <1>new, <1>states, <3>1, <3>2, DeliveriesStay DEF ProcessInv
  <2> QED
    BY <2>registered, <2>lost, <2>deliveries DEF ProcessInv
<1> QED
  BY <1>type, <1>request, <1>locks, <1>process DEF RegistryInv

(* The inbox: CreateRow, LogFirst and TellId write the log and the registry *)
(* of the new session and nothing else.                                     *)
LEMMA InboxKeeps ==
  ASSUME RegistryInv, NEW n \in News, Inbox(n)
  PROVE  RegistryInv'
<1>inv. TypeOK /\ RequestInv /\ LockInv /\ ProcessInv /\ n \in Requests /\ n \in Sessions /\ n \notin Connects /\ n \notin Old /\ n # None
  BY RegistryAssumption DEF RegistryInv, Requests, Sessions
<1>same. UNCHANGED <<proc, evicting, victim, strays, locks, req, patrol>> /\ req[n].pc \in {"init", "cleanup"}
  BY DEF Inbox, CreateRow, LogFirst, TellId, evictions
<1>alone. /\ \A q \in Requests : q # n /\ proc[q].state # "none" => Session(q) # n
          /\ reg[n] \in {None, n}
  BY <1>same, NewIsUnaddressed DEF Over
<1>setup. /\ setup' \in [News -> {"none", "row", "log", "done", "failed"}]
          /\ \A m \in News : m # n => setup'[m] = setup[m]
          /\ setup'[n] # "none"
          /\ setup'[n] \in {"log", "done"} => n \in logged'
          /\ logged' = logged \/ logged' = logged \cup {n}
          /\ setup[n] \in {"row", "log"} \/ proc[n].state # "dead"
  BY <1>inv DEF Inbox, CreateRow, LogFirst, TellId, TypeOK, RequestInv, InboxStands
<1>rename. \/ UNCHANGED <<reg, temp>> /\ setup'[n] \notin {"done", "failed"}
           \/ n \notin temp /\ UNCHANGED <<reg, temp>>
           \/ n \in temp /\ reg' = [reg EXCEPT ![n] = n] /\ temp' = temp \ {n} /\ setup[n] \in {"row", "log"}
  BY <1>inv DEF Inbox, CreateRow, LogFirst, TellId, Rename, TypeOK
<1>reg. /\ reg' \in [Sessions -> {None} \cup Requests] /\ \A s \in Sessions : s # n => reg'[s] = reg[s]
        /\ reg'[n] = reg[n] \/ (reg'[n] = n /\ n \in temp /\ setup[n] \in {"row", "log"})
        /\ temp' \subseteq temp
        /\ temp' = temp \/ (temp' = temp \ {n} /\ reg'[n] = n)
        /\ n \in temp' => setup'[n] \notin {"done", "failed"}
  BY <1>inv, <1>rename DEF TypeOK
<1>bounds. UNCHANGED <<patrols, exits, crashes>> /\ failures' \in 0..MaxFailures
  BY <1>inv, RegistryAssumption DEF Inbox, CreateRow, LogFirst, TellId, Fails, bounds, TypeOK
<1>type. TypeOK'
  <2>1. temp' \subseteq News /\ logged' \subseteq News
    BY <1>inv, <1>setup, <1>reg DEF TypeOK
  <2> QED
    BY <1>inv, <1>same, <1>setup, <1>reg, <1>bounds, <2>1 DEF TypeOK, locks
<1>request. RequestInv'
  <2>places. PlacesStand'
    BY <1>inv, <1>same DEF RequestInv, PlacesStand
  <2>inbox. InboxStands'
    BY <1>inv, <1>same, <1>setup, <1>reg DEF RequestInv, InboxStands, TypeOK, Begun
  <2>address. AddressStands'
    BY <1>inv, <1>same, <1>setup DEF RequestInv, AddressStands
  <2>key. KeyIsHeld'
    BY <1>inv, <1>same, <1>setup, RegistryAssumption DEF RequestInv, KeyIsHeld, locks
  <2>accepted. AcceptedIsLogged'
    BY <1>inv, <1>same, <1>setup DEF RequestInv, AcceptedIsLogged
  <2> QED
    BY <2>places, <2>inbox, <2>address, <2>key, <2>accepted DEF RequestInv
<1>locks. LockInv'
  BY <1>inv, <1>same, <1>reg, NewHoldsNothing DEF locks, Over
<1>process. ProcessInv'
  <2>session. \A q \in Requests : Session(q)' = Session(q)
    BY <1>same DEF Session
  <2>own. Session(n) = n
    BY DEF Session
  <2>open. n \in temp => proc[n].state \notin {"none", "dead"}
    BY <1>inv, <1>setup DEF ProcessInv, RegisteredStands
  <2>registered. RegisteredStands'
    <3>own. ASSUME NEW s \in Sessions, reg'[s] # None
          PROVE  Session(reg'[s]) = s /\ proc[reg'[s]].state # "none"
      BY <1>inv, <1>reg, <2>own, <3>own DEF ProcessInv, RegisteredStands
    <3>session. \A s \in Sessions : reg'[s] # None => Session(reg[s])' = s
      BY <1>same, <3>own DEF Session
    <3>fresh. \A m \in temp' : proc[m].state # "none" /\ (setup'[m] \in {"row", "log"} => proc[m].state # "dead")
      BY <1>inv, <1>setup, <1>reg, <2>open DEF ProcessInv, RegisteredStands, TypeOK
    <3>begun. \A m \in News : reg'[m] # None => req[m].pc \in Begun
      BY <1>inv, <1>same, <1>reg DEF ProcessInv, RegisteredStands, Sessions, Begun
    <3> QED
      BY <1>same, <3>own, <3>session, <3>fresh, <3>begun DEF RegisteredStands
  <2>lost. NoLostProcess'
    <3> SUFFICES ASSUME NEW q \in Requests \ strays, Alive(q)
                 PROVE  reg'[Session(q)] = q \/ q \in temp' \/ req[q].pc = "cleanup"
      BY <1>same, <2>session DEF NoLostProcess, Alive
    <3>1. proc[q].state # "none"
      BY DEF Alive
    <3>other. CASE q # n
      <4>1. Session(q) \in Sessions /\ Session(q) # n
        BY <1>alone, <3>1, <3>other, SessionOfProcess
      <4> QED
        BY <1>inv, <1>reg, <3>other, <4>1 DEF ProcessInv, NoLostProcess
    <3>mine. CASE q = n
      BY <1>inv, <1>reg, <2>own, <3>mine DEF ProcessInv, NoLostProcess
    <3> QED
      BY <3>other, <3>mine
  <2>deliveries. DeliveriesStand' /\ RunningIsServed'
    BY <1>inv, <1>same, <1>reg, <2>open, DeliveriesStay DEF ProcessInv
  <2> QED
    BY <2>registered, <2>lost, <2>deliveries DEF ProcessInv
<1> QED
  BY <1>type, <1>request, <1>locks, <1>process DEF RegistryInv

-----------------------------------------------------------------------------
(* Room and the start of a CLI process, for connections and new sessions alike *)

(* What a request does that only moves towards its process, or gives up. *)
LEMMA RoomKeeps ==
  ASSUME RegistryInv, NEW q \in Requests, ReadLimit(q) \/ MakeRoom(q)
  PROVE  RegistryInv'
<1>inv. TypeOK /\ RequestInv /\ LockInv /\ ProcessInv
  BY DEF RegistryInv
<1>old. req \in [Requests -> RequestStates] /\ req[q] \in RequestStates /\ LocksStand
  BY <1>inv DEF TypeOK, LockInv
<1>same. UNCHANGED <<reg, temp, proc, lockOf, logged, setup, patrol, bounds>> /\ req[q].pc \in {"capacity", "room"}
  BY DEF ReadLimit, MakeRoom, locks
<1>places. {"room", "build", "evict", "refused"} \subseteq Places
  BY DEF Places, Steps, Over
<1>goes. \A pc \in {"room", "build", "refused"} : Goto(q, pc) => Moved(q, pc)
  BY <1>inv, <1>old, <1>places, Going
<1>evicts. ASSUME req' = [req EXCEPT ![q].pc = "evict", ![q].back = "build"]
           PROVE  Written(q, "evict", req[q].at, req[q].lock, req[q].got, "build")
  <2> DEFINE r == [req[q] EXCEPT !.pc = "evict", !.back = "build"]
  <2>how. req' = [req EXCEPT ![q] = r]
    BY <1>old, <1>evicts
  <2>what. /\ r \in RequestStates /\ r.pc = "evict" /\ r.at = req[q].at /\ r.lock = req[q].lock
           /\ r.got = req[q].got /\ r.back = "build"
    BY <1>old, <1>places DEF RequestStates
  <2> HIDE DEF r
  <2>written. Written(q, r.pc, r.at, r.lock, r.got, r.back)
    BY <1>inv, <1>old, <2>how, <2>what, Writing
  <2> QED
    BY <2>what, <2>written
<1>how. \/ (Moved(q, "room") \/ Moved(q, "build")) /\ UNCHANGED <<evicting, victim, strays, held, newLock>>
        \/ /\ Written(q, "evict", req[q].at, req[q].lock, req[q].got, "build") /\ UNCHANGED <<held, newLock>>
           /\ \E s \in Active : /\ evicting' = [evicting EXCEPT ![s] = q]
                               /\ victim' = [victim EXCEPT ![s] = reg[s]] /\ UNCHANGED strays
        \/ /\ Moved(q, "refused") /\ held' = {h \in held : h[1] # q} /\ UNCHANGED <<evicting, victim, strays>>
           /\ newLock' = (IF newLock = q THEN None ELSE newLock)
  <2>1. ReadLimit(q) => Goto(q, "room") /\ UNCHANGED <<evicting, victim, strays, held, newLock>>
    BY DEF ReadLimit, locks, evictions
  <2>2. MakeRoom(q) =>
          \/ Goto(q, "build") /\ UNCHANGED <<evicting, victim, strays, held, newLock>>
          \/ /\ \E s \in Active : /\ evicting' = [evicting EXCEPT ![s] = q]
                                 /\ victim' = [victim EXCEPT ![s] = reg[s]] /\ UNCHANGED strays
             /\ req' = [req EXCEPT ![q].pc = "evict", ![q].back = "build"] /\ UNCHANGED <<held, newLock>>
          \/ /\ Goto(q, "refused") /\ held' = {h \in held : h[1] # q} /\ UNCHANGED <<evicting, victim, strays>>
             /\ newLock' = (IF newLock = q THEN None ELSE newLock)
    BY DEF MakeRoom, Finish, BeginEvict, evictions
  <2> QED
    BY <1>goes, <1>evicts, <2>1, <2>2
<1>new. /\ req' \in [Requests -> RequestStates] /\ \A x \in Requests \ {q} : req'[x] = req[x]
        /\ req'[q].at = req[q].at /\ req'[q].lock = req[q].lock
        /\ \/ req'[q].pc \in {"room", "build", "evict"} /\ UNCHANGED <<held, newLock>>
           \/ /\ req'[q].pc = "refused" /\ held' = {h \in held : h[1] # q}
              /\ newLock' = (IF newLock = q THEN None ELSE newLock)
        /\ req'[q].pc = "evict" => req'[q].back = "build"
  BY <1>how DEF Moved, Written
<1>evicting. \/ UNCHANGED <<evicting, victim, strays>>
             \/ /\ req'[q].pc = "evict"
                /\ \E s \in Sessions : /\ evicting[s] = None /\ evicting' = [evicting EXCEPT ![s] = q]
                                      /\ victim' = [victim EXCEPT ![s] = reg[s]] /\ UNCHANGED strays
  BY <1>how DEF Written, Active
<1>type. TypeOK'
  <2>1. held' \subseteq HeldLocks /\ newLock' \in {None} \cup Same
    BY <1>inv, <1>new DEF TypeOK
  <2>2. /\ evicting' \in [Sessions -> {None} \cup Evictors]
        /\ victim' \in [Sessions -> {None} \cup Requests] /\ strays' = strays
    BY <1>inv, <1>evicting DEF TypeOK, Evictors
  <2> QED
    BY <1>inv, <1>same, <1>new, <2>1, <2>2 DEF TypeOK, bounds
<1>request. RequestInv'
  <2>places. PlacesStand'
    BY <1>inv, <1>new DEF RequestInv, PlacesStand, Requests
  <2>inbox. InboxStands'
    BY <1>inv, <1>same, <1>new DEF RequestInv, InboxStands, Requests, TypeOK, Begun
  <2>address. AddressStands'
    BY <1>inv, <1>same, <1>new, RegistryAssumption
       DEF RequestInv, AddressStands, Requests, TypeOK, Over
  <2>key. KeyIsHeld'
    BY <1>inv, <1>same, <1>new, RegistryAssumption DEF RequestInv, KeyIsHeld, Requests
  <2>accepted. AcceptedIsLogged'
    BY <1>inv, <1>same, <1>new DEF RequestInv, AcceptedIsLogged, Requests
  <2> QED
    BY <2>places, <2>inbox, <2>address, <2>key, <2>accepted DEF RequestInv
<1>locks. LockInv'
  <2>holders. LocksStand'
    BY <1>old, <1>same, <1>new, HoldersStand DEF Holding
  <2>evictors. EvictionsStand'
    <3>1. \A s \in Sessions : evicting[s] # q
      BY <1>inv, <1>same DEF LockInv, EvictionsStand
    <3> QED
      BY <1>inv, <1>new, <1>evicting, <3>1, RegistryAssumption DEF LockInv, EvictionsStand, TypeOK
  <2>opens. LockedSessionStands'
    BY <1>inv, <1>same, <1>new DEF LockInv, LockedSessionStands, Opens, Requests
  <2> QED
    BY <2>holders, <2>evictors, <2>opens DEF LockInv
<1>process. ProcessInv'
  <2>session. \A x \in Requests : Session(x)' = Session(x)
    BY <1>new, SessionStays
  <2>registered. RegisteredStands'
    BY <1>inv, <1>same, <1>new, <2>session DEF ProcessInv, RegisteredStands, TypeOK, Requests, Begun
  <2>lost. NoLostProcess'
    BY <1>inv, <1>same, <1>new, <1>evicting, <2>session DEF ProcessInv, NoLostProcess, Alive
  <2>deliveries. DeliveriesStand' /\ RunningIsServed'
    <3>1. \A s \in Sessions : evicting[s] # None => evicting'[s] # None
      BY <1>inv, <1>evicting, RegistryAssumption DEF TypeOK
    <3> QED
      BY <1>inv, <1>same, <1>new, <3>1, DeliveriesStay DEF ProcessInv, Requests, Sending
  <2> QED
    BY <2>registered, <2>lost, <2>deliveries DEF ProcessInv
<1> QED
  BY <1>type, <1>request, <1>locks, <1>process DEF RegistryInv

(* A request that gives up before it has a process. *)
LEMMA RefusalKeeps ==
  ASSUME RegistryInv, NEW q \in Requests, req[q].pc = "build", Fails, Finish(q, "refused"),
         UNCHANGED <<reg, temp, proc, patrols, exits, crashes, evicting, victim, strays, lockOf, logged, setup, patrol>>
  PROVE  RegistryInv'
<1>inv. TypeOK /\ RequestInv /\ LockInv /\ ProcessInv
  BY DEF RegistryInv
<1>old. req \in [Requests -> RequestStates] /\ LocksStand
  BY <1>inv DEF TypeOK, LockInv
<1>req. Moved(q, "refused")
  <2>1. "refused" \in Places
    BY DEF Places, Over
  <2> QED
    BY <1>inv, <1>old, <2>1, Going DEF Finish
<1>new. /\ req' \in [Requests -> RequestStates] /\ \A x \in Requests \ {q} : req'[x] = req[x]
        /\ req'[q].at = req[q].at /\ req'[q].lock = req[q].lock /\ req'[q].pc = "refused"
        /\ held' = {h \in held : h[1] # q} /\ newLock' = (IF newLock = q THEN None ELSE newLock)
  BY <1>req DEF Moved, Written, Finish
<1>type. TypeOK'
  <2>1. held' \subseteq HeldLocks /\ newLock' \in {None} \cup Same
    BY <1>inv, <1>new DEF TypeOK
  <2>2. failures' \in 0..MaxFailures
    BY <1>inv, RegistryAssumption DEF Fails, TypeOK
  <2> QED
    BY <1>inv, <1>new, <2>1, <2>2 DEF TypeOK
<1>request. RequestInv'
  <2>places. PlacesStand'
    BY <1>inv, <1>new DEF RequestInv, PlacesStand, Requests
  <2>inbox. InboxStands'
    BY <1>inv, <1>new DEF RequestInv, InboxStands, Requests, TypeOK, Begun
  <2>address. AddressStands'
    BY <1>inv, <1>new, RegistryAssumption DEF RequestInv, AddressStands, Requests, TypeOK, Over
  <2>key. KeyIsHeld'
    BY <1>inv, <1>new, RegistryAssumption DEF RequestInv, KeyIsHeld, Requests
  <2>accepted. AcceptedIsLogged'
    BY <1>inv, <1>new DEF RequestInv, AcceptedIsLogged, Requests
  <2> QED
    BY <2>places, <2>inbox, <2>address, <2>key, <2>accepted DEF RequestInv
<1>locks. LockInv'
  <2>holders. LocksStand'
    BY <1>old, <1>new, HoldersStand DEF Holding
  <2>evictors. EvictionsStand'
    BY <1>inv, <1>new, EvictorsStand DEF LockInv
  <2>opens. LockedSessionStands'
    BY <1>inv, <1>new DEF LockInv, LockedSessionStands, Opens, Requests
  <2> QED
    BY <2>holders, <2>evictors, <2>opens DEF LockInv
<1>process. ProcessInv'
  <2>session. \A x \in Requests : Session(x)' = Session(x)
    BY <1>new, SessionStays
  <2>registered. RegisteredStands'
    BY <1>inv, <1>new, <2>session DEF ProcessInv, RegisteredStands, TypeOK, Requests, Begun
  <2>lost. NoLostProcess'
    BY <1>inv, <1>new, <2>session DEF ProcessInv, NoLostProcess, Alive
  <2>deliveries. DeliveriesStand' /\ RunningIsServed'
    BY <1>inv, <1>new, DeliveriesStay DEF ProcessInv, Requests, Sending
  <2> QED
    BY <2>registered, <2>lost, <2>deliveries DEF ProcessInv
<1> QED
  BY <1>type, <1>request, <1>locks, <1>process DEF RegistryInv

LEMMA RegisterKeeps ==
  ASSUME RegistryInv, NEW q \in Requests, Register(q)
  PROVE  RegistryInv'
<1>inv. TypeOK /\ RequestInv /\ LockInv /\ ProcessInv
  BY DEF RegistryInv
<1>old. req \in [Requests -> RequestStates] /\ LocksStand /\ proc \in [Requests -> Processes]
  BY <1>inv DEF TypeOK, LockInv
<1>build. req[q].pc = "build"
  BY DEF Register
<1>refused. CASE Fails /\ Finish(q, "refused") /\ UNCHANGED <<reg, temp, proc, patrols, exits, crashes>>
  BY <1>refused, <1>build, RefusalKeeps DEF Register, evictions
<1>starts. ASSUME ~(Fails /\ Finish(q, "refused") /\ UNCHANGED <<reg, temp, proc, patrols, exits, crashes>>)
           PROVE  RegistryInv'
  <2> DEFINE s == req[q].at
  <2>same. UNCHANGED <<held, newLock, bounds, evicting, victim, strays, lockOf, logged, setup, patrol>> /\ Goto(q, "start")
    BY <1>starts DEF Register, evictions
  <2>reg. /\ q \in News => temp' = temp \cup {q} /\ UNCHANGED reg
          /\ q \notin News => reg' = [reg EXCEPT ![s] = q] /\ UNCHANGED temp
    BY <1>starts DEF Register
  <2>at. q \notin News => q \in Connects /\ s \in Sessions /\ reg[s] = None
    <3>1. q \notin News => q \in Connects /\ s \in Sessions
      BY <1>build, SessionOfConnect DEF Requests
    <3> QED
      BY <1>inv, <1>build, <3>1
         DEF RequestInv, AddressStands, InboxStands, LockInv, LockedSessionStands,
         Opens, TypeOK
  <2>states. /\ proc' \in [Requests -> Processes] /\ \A x \in Requests \ {q} : proc'[x] = proc[x]
             /\ proc'[q].state = "starting"
    <3>1. PICK runs \in BOOLEAN : proc' = [proc EXCEPT ![q] = [state |-> "starting", runs |-> runs, deaf |-> FALSE]]
      BY <1>starts DEF Register
    <3>2. [state |-> "starting", runs |-> runs, deaf |-> FALSE] \in Processes
      BY DEF Processes
    <3> QED
      BY <1>old, <3>1, <3>2
  <2>req. Moved(q, "start")
    <3>1. "start" \in Places
      BY DEF Places, Steps
    <3> QED
      BY <1>inv, <1>old, <2>same, <3>1, Going
  <2>new. /\ req' \in [Requests -> RequestStates] /\ \A x \in Requests \ {q} : req'[x] = req[x]
          /\ req'[q].at = req[q].at /\ req'[q].lock = req[q].lock /\ req'[q].pc = "start"
    BY <2>req DEF Moved, Written
  <2>type. TypeOK'
    <3>1. temp' \subseteq News /\ reg' \in [Sessions -> {None} \cup Requests]
      BY <1>inv, <2>reg DEF TypeOK
    <3> QED
      BY <1>inv, <2>same, <2>new, <2>states, <3>1 DEF TypeOK, bounds
  <2>request. RequestInv'
    <3>places. PlacesStand'
      BY <1>inv, <2>new DEF RequestInv, PlacesStand, Requests
    <3>inbox. InboxStands'
      <4>1. q \in News => setup[q] = "none"
        BY <1>inv, <1>build DEF RequestInv, InboxStands, Begun
      <4> QED
        BY <1>inv, <1>build, <2>same, <2>reg, <2>new, <4>1
           DEF RequestInv, InboxStands, Requests, TypeOK, Begun
    <3>address. AddressStands'
      BY <1>inv, <1>build, <2>same, <2>new, <2>states, RegistryAssumption
         DEF RequestInv, AddressStands, Requests, TypeOK, Over
    <3>key. KeyIsHeld'
      BY <1>inv, <1>build, <2>same, <2>new, RegistryAssumption DEF RequestInv, KeyIsHeld, Requests
    <3>accepted. AcceptedIsLogged'
      BY <1>inv, <2>same, <2>new DEF RequestInv, AcceptedIsLogged, Requests
    <3> QED
      BY <3>places, <3>inbox, <3>address, <3>key, <3>accepted DEF RequestInv
  <2>locks. LockInv'
    <3>holders. LocksStand'
      BY <1>old, <1>build, <2>same, <2>new, HoldersStand DEF Holding
    <3>evictors. EvictionsStand'
      BY <1>inv, <1>build, <2>same, <2>new, EvictorsStand DEF LockInv
    <3>opens. LockedSessionStands'
      <4> SUFFICES ASSUME NEW c \in Connects
                   PROVE  /\ Opens(c)' => reg'[req'[c].at] = None
                          /\ req'[c].pc = "start" => reg'[req'[c].at] \in {None, c}
        BY DEF LockedSessionStands
      <4>own. CASE c = q
        <5>1. q \notin News
          BY <4>own, RegistryAssumption
        <5> QED
          BY <1>inv, <2>reg, <2>new, <2>at, <4>own, <5>1 DEF Opens, TypeOK
      <4>other. CASE c # q
        <5>1. c \in Requests /\ req'[c] = req[c] /\ (Opens(c)' <=> Opens(c))
          BY <2>new, <4>other DEF Opens, Requests
        <5>2. Opens(c) \/ req[c].pc = "start" => /\ req[c].at \in Sessions
                                                 /\ req[c].pc \in Holding
          BY SessionOfConnect DEF Opens, Holding
        <5>3. q \notin News /\ req[c].pc \in Holding => req[c].at # s
          <6> SUFFICES ASSUME q \notin News, req[c].pc \in Holding, req[c].at = s PROVE FALSE
            OBVIOUS
          <6>1. <<c, s, req[c].lock>> \in held /\ <<q, s, req[q].lock>> \in held
            BY <1>old, <1>build, <2>at DEF LocksStand, Holding
          <6>2. <<c, s, req[c].lock>>[1] = <<q, s, req[q].lock>>[1]
            BY <1>old, <6>1 DEF LocksStand
          <6> QED
            BY <4>other, <6>2
        <5>4. Opens(c) \/ req[c].pc = "start" => reg'[req[c].at] = reg[req[c].at]
          BY <1>inv, <2>reg, <2>at, <5>2, <5>3 DEF TypeOK
        <5>5. /\ Opens(c) => reg[req[c].at] = None
              /\ req[c].pc = "start" => reg[req[c].at] \in {None, c}
          BY <1>inv DEF LockInv, LockedSessionStands
        <5> QED
          BY <5>1, <5>4, <5>5
      <4> QED
        BY <4>own, <4>other
    <3> QED
      BY <3>holders, <3>evictors, <3>opens DEF LockInv
  <2>process. ProcessInv'
    <3>session. \A x \in Requests : Session(x)' = Session(x)
      BY <2>new, SessionStays
    <3>mine. Session(q) \in Sessions /\ (q \notin News => Session(q) = s)
      BY <2>at DEF Session, Sessions
    <3>regs. /\ \A t \in Sessions : reg'[t] = reg[t] \/ (reg[t] = None /\ reg'[t] = q /\ t = Session(q))
             /\ temp' = temp \/ (q \in News /\ temp' = temp \cup {q})
             /\ reg'[Session(q)] = q \/ q \in temp'
      BY <1>inv, <2>reg, <2>at, <3>mine DEF TypeOK
    <3>registered. RegisteredStands'
      <4>1. ASSUME NEW t \in Sessions, reg'[t] # None
            PROVE  /\ Session(reg[t])' = t
                   /\ proc'[reg'[t]].state # "none"
        <5>own. CASE reg'[t] = q
          <6>1. Session(q) = t
            BY <1>inv, <3>regs, <4>1, <5>own DEF ProcessInv, RegisteredStands
          <6> QED
            BY <2>new, <2>states, <5>own, <6>1 DEF Session
        <5>other. CASE reg'[t] # q
          <6>1. reg'[t] = reg[t] /\ reg[t] \in Requests \ {q}
            BY <1>inv, <3>regs, <4>1, <5>other DEF TypeOK
          <6> QED
            BY <1>inv, <2>new, <2>states, <4>1, <6>1
               DEF ProcessInv, RegisteredStands, Session, Requests
        <5> QED
          BY <5>own, <5>other
      <4>2. \A m \in temp' : proc'[m].state # "none" /\ (setup'[m] \in {"row", "log"} => proc'[m].state # "dead")
        BY <1>inv, <2>same, <2>states, <3>regs DEF ProcessInv, RegisteredStands, TypeOK, Requests
      <4>3. \A m \in News : reg'[m] # None => req'[m].pc \in Begun
        <5> SUFFICES ASSUME NEW m \in News, reg'[m] # None PROVE req'[m].pc \in Begun
          OBVIOUS
        <5>1. m \in Sessions /\ m \in Requests
          BY DEF Sessions, Requests
        <5>2. CASE reg[m] # None
          <6>1. req[m].pc \in Begun
            BY <1>inv, <5>2 DEF ProcessInv, RegisteredStands
          <6> QED
            BY <1>build, <2>new, <5>1, <6>1 DEF Begun
        <5>3. CASE reg[m] = None
          <6>1. reg'[m] = q /\ m = Session(q) /\ q \notin News
            BY <2>reg, <3>regs, <5>1, <5>3
          <6>2. req[m].pc \in Over
            BY <1>inv, <1>build, <2>at, <3>mine, <6>1, RegistryAssumption
               DEF RequestInv, AddressStands
          <6> QED
            BY <1>build, <2>new, <5>1, <6>2 DEF Begun, Over
        <5> QED
          BY <5>2, <5>3
      <4> QED
        BY <4>1, <4>2, <4>3 DEF RegisteredStands
    <3>lost. NoLostProcess'
      <4> SUFFICES ASSUME NEW x \in Requests \ strays, Alive(x)'
                   PROVE  reg'[Session(x)] = x \/ x \in temp' \/ req'[x].pc = "cleanup"
        BY <2>same, <3>session DEF NoLostProcess
      <4>own. CASE x = q
        BY <3>regs, <4>own
      <4>other. CASE x # q
        <5>1. Alive(x) /\ proc[x].state # "none"
          BY <2>states, <4>other DEF Alive
        <5>2. Session(x) \in Sessions
          BY <5>1, SessionOfProcess
        <5>3. reg[Session(x)] = x \/ x \in temp \/ req[x].pc = "cleanup"
          BY <1>inv, <5>1 DEF ProcessInv, NoLostProcess
        <5> QED
          BY <2>new, <3>regs, <4>other, <5>2, <5>3, RegistryAssumption
      <4> QED
        BY <4>own, <4>other
    <3>deliveries. DeliveriesStand' /\ RunningIsServed'
      <4>1. \A x \in Connects : req'[x].at = req[x].at /\ (req'[x] = req[x] \/ req'[x].pc = "start")
        BY <2>new DEF Requests
      <4>2. \A t \in Sessions : reg'[t] # None => reg'[t] = q \/ (reg'[t] = reg[t] /\ reg[t] \in Requests)
        BY <1>inv, <3>regs DEF TypeOK
      <4>3. \A x \in Connects : req[x].pc \in Sending => req'[x] = req[x]
        BY <1>build, <2>new DEF Requests, Sending
      <4> QED
        BY <1>inv, <2>same, <2>new, <2>states, <4>1, <4>2, <4>3, DeliveriesStay DEF ProcessInv, Sending
    <3> QED
      BY <3>registered, <3>lost, <3>deliveries DEF ProcessInv
  <2> QED
    BY <2>type, <2>request, <2>locks, <2>process DEF RegistryInv
<1> QED
  BY <1>refused, <1>starts

LEMMA StartedKeeps ==
  ASSUME RegistryInv, NEW q \in Requests, Started(q)
  PROVE  RegistryInv'
<1>inv. TypeOK /\ RequestInv /\ LockInv /\ ProcessInv
  BY DEF RegistryInv
<1>old. req \in [Requests -> RequestStates] /\ req[q] \in RequestStates /\ LocksStand /\ proc \in [Requests -> Processes]
  BY <1>inv DEF TypeOK, LockInv
<1> DEFINE s == req[q].at
           up == IF proc[q].state = "starting" THEN "up" ELSE proc[q].state
<1>start. req[q].pc = "start" /\ UNCHANGED <<evicting, victim, strays, lockOf, logged, setup, patrol>>
  BY DEF Started, evictions
<1>at. q \notin News => q \in Connects /\ s \in Sessions /\ reg[s] \in {None, q}
  <2>1. q \notin News => q \in Connects /\ s \in Sessions
    BY <1>start, SessionOfConnect DEF Requests
  <2> QED
    BY <1>inv, <1>start, <2>1 DEF LockInv, LockedSessionStands
<1>unnamed. q \in News => reg[q] = None
  BY <1>inv, <1>start DEF ProcessInv, RegisteredStands, Begun
<1>cases. \/ /\ proc' = [proc EXCEPT ![q].state = up] /\ UNCHANGED <<reg, temp, newLock, bounds>>
             /\ \/ q \in News /\ Goto(q, "init") /\ UNCHANGED held
                \/ /\ q \notin News /\ req' = [req EXCEPT ![q].pc = "use", ![q].got = q]
                   /\ held' = {h \in held : h[1] # q}
          \/ /\ Fails /\ UNCHANGED <<patrols, exits, crashes>> /\ proc' = [proc EXCEPT ![q].state = "dead"]
             /\ q \in News => temp' = temp \ {q} /\ UNCHANGED reg
             /\ q \notin News => reg' = [reg EXCEPT ![s] = None] /\ UNCHANGED temp
             /\ Finish(q, "refused")
  BY DEF Started
<1>uses. ASSUME req' = [req EXCEPT ![q].pc = "use", ![q].got = q]
         PROVE  Written(q, "use", req[q].at, req[q].lock, q, req[q].back)
  <2> DEFINE r == [req[q] EXCEPT !.pc = "use", !.got = q]
  <2>how. req' = [req EXCEPT ![q] = r]
    BY <1>old, <1>uses
  <2>place. "use" \in Places
    BY DEF Places, Steps
  <2>what. /\ r \in RequestStates /\ r.pc = "use" /\ r.at = req[q].at /\ r.lock = req[q].lock
           /\ r.got = q /\ r.back = req[q].back
    BY <1>old, <2>place DEF RequestStates
  <2> HIDE DEF r
  <2>written. Written(q, r.pc, r.at, r.lock, r.got, r.back)
    BY <1>inv, <1>old, <2>how, <2>what, Writing
  <2> QED
    BY <2>what, <2>written
<1>goes. \A pc \in {"init", "refused"} : Goto(q, pc) => Moved(q, pc)
  <2>1. {"init", "refused"} \subseteq Places
    BY DEF Places, Steps, Over
  <2> QED
    BY <1>inv, <1>old, <2>1, Going
<1>how. \/ /\ proc' = [proc EXCEPT ![q].state = up] /\ UNCHANGED <<reg, temp, newLock, bounds>>
           /\ \/ q \in News /\ Moved(q, "init") /\ UNCHANGED held
              \/ /\ q \notin News /\ Written(q, "use", req[q].at, req[q].lock, q, req[q].back)
                 /\ held' = {h \in held : h[1] # q}
        \/ /\ Fails /\ UNCHANGED <<patrols, exits, crashes>> /\ proc' = [proc EXCEPT ![q].state = "dead"]
           /\ q \in News => temp' = temp \ {q} /\ UNCHANGED reg
           /\ q \notin News => reg' = [reg EXCEPT ![s] = None] /\ UNCHANGED temp
           /\ Moved(q, "refused") /\ held' = {h \in held : h[1] # q}
           /\ newLock' = (IF newLock = q THEN None ELSE newLock)
  BY <1>cases, <1>uses, <1>goes DEF Finish
<1>states. /\ proc' \in [Requests -> Processes] /\ \A x \in Requests \ {q} : proc'[x] = proc[x]
           /\ proc'[q].runs = proc[q].runs /\ proc'[q].deaf = proc[q].deaf
           /\ \/ proc'[q].state = up
              \/ proc'[q].state = "dead" /\ req'[q].pc = "refused"
  <2>1. up \in {"none", "starting", "up", "exited", "dead"}
    BY <1>old DEF Processes
  <2>2. proc' = [proc EXCEPT ![q].state = up] \/ (proc' = [proc EXCEPT ![q].state = "dead"] /\ req'[q].pc = "refused")
    BY <1>how DEF Moved, Written
  <2> HIDE DEF up
  <2> QED
    BY <1>old, <2>1, <2>2 DEF Processes
<1>new. /\ req' \in [Requests -> RequestStates] /\ \A x \in Requests \ {q} : req'[x] = req[x]
        /\ req'[q].at = req[q].at /\ req'[q].lock = req[q].lock
        /\ \/ q \in News /\ req'[q].pc = "init" /\ UNCHANGED <<held, newLock, reg, temp>> /\ proc'[q].state = up
           \/ /\ q \notin News /\ req'[q].pc = "use" /\ req'[q].got = q /\ held' = {h \in held : h[1] # q}
              /\ UNCHANGED <<newLock, reg, temp>> /\ proc'[q].state = up
           \/ /\ req'[q].pc = "refused" /\ held' = {h \in held : h[1] # q}
              /\ newLock' = (IF newLock = q THEN None ELSE newLock) /\ proc'[q].state = "dead"
              /\ q \in News => temp' = temp \ {q} /\ UNCHANGED reg
              /\ q \notin News => reg' = [reg EXCEPT ![s] = None] /\ UNCHANGED temp
  <2>1. proc' = [proc EXCEPT ![q].state = up] => proc'[q].state = up
    <3> HIDE DEF up
    <3> QED
      BY <1>old DEF Processes
  <2>2. proc' = [proc EXCEPT ![q].state = "dead"] => proc'[q].state = "dead"
    BY <1>old DEF Processes
  <2> HIDE DEF up
  <2> QED
    BY <1>how, <2>1, <2>2 DEF Moved, Written
<1>reg. /\ reg' \in [Sessions -> {None} \cup Requests] /\ temp' \subseteq temp
        /\ \A t \in Sessions : reg'[t] = reg[t] \/ (reg'[t] = None /\ reg[t] \in {None, q})
        /\ req'[q].pc = "refused" => q \notin temp' /\ \A t \in Sessions : reg'[t] # q
        /\ req'[q].pc # "refused" => reg' = reg
        /\ \A x \in temp : x = q \/ x \in temp'
        /\ req'[q].pc # "refused" => temp' = temp
  <2>1. \A t \in Sessions : reg[t] = q => t = Session(q)
    BY <1>inv, RegistryAssumption DEF ProcessInv, RegisteredStands
  <2>2. q \notin News => Session(q) = s /\ q \notin temp
    BY <1>inv DEF Session, TypeOK
  <2>3. q \in News => Session(q) = q /\ \A t \in Sessions : reg[t] # q
    BY <1>unnamed, <2>1, RegistryAssumption DEF Session
  <2> HIDE DEF up
  <2> QED
    BY <1>inv, <1>new, <1>at, <2>1, <2>2, <2>3, RegistryAssumption DEF TypeOK
<1>bounds. UNCHANGED <<patrols, exits, crashes>> /\ failures' \in 0..MaxFailures
  BY <1>inv, <1>how, RegistryAssumption DEF TypeOK, Fails, bounds
<1>type. TypeOK'
  <2>1. temp' \subseteq News /\ held' \subseteq HeldLocks /\ newLock' \in {None} \cup Same
    BY <1>inv, <1>new, <1>reg DEF TypeOK
  <2> QED
    BY <1>inv, <1>start, <1>states, <1>new, <1>reg, <1>bounds, <2>1 DEF TypeOK
<1>pc. /\ req'[q].pc \in {"init", "use", "refused"}
       /\ req'[q].pc = "init" => q \in News
       /\ req'[q].pc = "use" => q \in Connects /\ req'[q].got = q
  BY <1>new, <1>at
<1>request. RequestInv'
  <2>places. PlacesStand'
    BY <1>inv, <1>new, <1>pc, RegistryAssumption DEF RequestInv, PlacesStand, Requests
  <2>inbox. InboxStands'
    <3>1. q \in News => setup[q] = "none"
      BY <1>inv, <1>start DEF RequestInv, InboxStands, Begun
    <3> QED
      BY <1>inv, <1>start, <1>new, <1>pc, <1>reg, <3>1
         DEF RequestInv, InboxStands, Requests, TypeOK, Begun
  <2>address. AddressStands'
    BY <1>inv, <1>start, <1>new, <1>pc, <1>states, RegistryAssumption
       DEF RequestInv, AddressStands, Requests, TypeOK, Over
  <2>key. KeyIsHeld'
    BY <1>inv, <1>start, <1>new, RegistryAssumption DEF RequestInv, KeyIsHeld, Requests
  <2>accepted. AcceptedIsLogged'
    BY <1>inv, <1>start, <1>new, <1>pc DEF RequestInv, AcceptedIsLogged, Requests
  <2> QED
    BY <2>places, <2>inbox, <2>address, <2>key, <2>accepted DEF RequestInv
<1>locks. LockInv'
  <2>holders. LocksStand'
    BY <1>old, <1>start, <1>new, <1>pc, HoldersStand, RegistryAssumption DEF Holding
  <2>evictors. EvictionsStand'
    BY <1>inv, <1>start, <1>new, EvictorsStand DEF LockInv
  <2>opens. LockedSessionStands'
    <3> SUFFICES ASSUME NEW c \in Connects
                 PROVE  /\ Opens(c)' => reg'[req'[c].at] = None
                        /\ req'[c].pc = "start" => reg'[req'[c].at] \in {None, c}
      BY DEF LockedSessionStands
    <3>own. CASE c = q
      BY <1>pc, <3>own DEF Opens
    <3>other. CASE c # q
      <4>1. c \in Requests /\ req'[c] = req[c] /\ (Opens(c)' <=> Opens(c))
        BY <1>new, <3>other DEF Opens, Requests
      <4>2. Opens(c) \/ req[c].pc = "start" => req[c].at \in Sessions
        BY SessionOfConnect DEF Opens
      <4>3. /\ Opens(c) => reg[req[c].at] = None
            /\ req[c].pc = "start" => reg[req[c].at] \in {None, c}
        BY <1>inv DEF LockInv, LockedSessionStands
      <4> QED
        BY <1>reg, <4>1, <4>2, <4>3
    <3> QED
      BY <3>own, <3>other
  <2> QED
    BY <2>holders, <2>evictors, <2>opens DEF LockInv
<1>process. ProcessInv'
  <2>session. \A x \in Requests : Session(x)' = Session(x)
    BY <1>new, SessionStays
  <2>registered. RegisteredStands'
    <3>1. ASSUME NEW t \in Sessions, reg'[t] # None
          PROVE  /\ Session(reg[t])' = t
                 /\ proc'[reg'[t]].state # "none"
      <4>1. /\ reg'[t] = reg[t] /\ reg[t] \in Requests /\ Session(reg[t]) = t
            /\ proc[reg[t]].state # "none"
        BY <1>inv, <1>reg, <3>1 DEF ProcessInv, RegisteredStands, TypeOK
      <4>2. reg[t] = q => proc'[q].state = up
        BY <1>states, <1>reg, <4>1
      <4>3. Session(reg[t])' = t
        BY <1>new, <4>1 DEF Session
      <4> QED
        BY <1>states, <4>1, <4>2, <4>3
    <3>2. \A m \in temp' : proc'[m].state # "none" /\ (setup'[m] \in {"row", "log"} => proc'[m].state # "dead")
      <4> SUFFICES ASSUME NEW m \in temp'
                   PROVE  proc'[m].state # "none" /\ (setup'[m] \in {"row", "log"} => proc'[m].state # "dead")
        OBVIOUS
      <4>1. /\ m \in Requests /\ proc[m].state # "none"
            /\ setup'[m] \in {"row", "log"} => proc[m].state # "dead"
        BY <1>inv, <1>start, <1>reg DEF ProcessInv, RegisteredStands, TypeOK, Requests
      <4>2. m = q => proc'[q].state = up
        BY <1>states, <1>reg
      <4> QED
        BY <1>states, <4>1, <4>2
    <3>3. \A m \in News : reg'[m] # None => req'[m].pc \in Begun
      BY <1>inv, <1>start, <1>new, <1>pc, <1>reg
         DEF ProcessInv, RegisteredStands, Requests, Sessions, Begun
    <3> QED
      BY <3>1, <3>2, <3>3 DEF RegisteredStands
  <2>lost. NoLostProcess'
    <3> SUFFICES ASSUME NEW x \in Requests \ strays, Alive(x)'
                 PROVE  reg'[Session(x)] = x \/ x \in temp' \/ req'[x].pc = "cleanup"
      BY <1>start, <2>session DEF NoLostProcess
    <3>alive. Alive(x) /\ proc[x].state # "none" /\ (x = q => req'[q].pc # "refused")
      <4>1. x = q => proc'[q].state # "dead"
        BY DEF Alive
      <4> QED
        BY <1>new, <1>states, <4>1 DEF Alive
    <3>at. Session(x) \in Sessions
      BY <3>alive, SessionOfProcess
    <3>known. reg[Session(x)] = x \/ x \in temp \/ req[x].pc = "cleanup"
      BY <1>inv, <3>alive DEF ProcessInv, NoLostProcess
    <3>cleanup. req[x].pc = "cleanup" => req'[x].pc = "cleanup"
      BY <1>start, <1>new
    <3>none. x # None
      BY RegistryAssumption
    <3> QED
      BY <1>reg, <3>alive, <3>at, <3>known, <3>cleanup, <3>none
  <2>deliveries. DeliveriesStand' /\ RunningIsServed'
    <3>1. \A x \in Connects : req'[x].at = req[x].at /\ (req[x].pc \in Sending => req'[x] = req[x])
      BY <1>start, <1>new DEF Requests, Sending
    <3>2. \A x \in Connects : req'[x].pc \in {"use"} \cup Sending =>
            req'[x] = req[x] \/ (x = q /\ req'[x].pc = "use" /\ req'[x].got = q)
      BY <1>new, <1>pc DEF Requests, Sending
    <3>3. q \in Connects /\ req'[q].pc = "use" => proc[q].state # "none" /\ Session(q) = req'[q].at
      <4>1. up # "none" => proc[q].state # "none"
        OBVIOUS
      <4> QED
        BY <1>inv, <1>start, <1>new, RegistryAssumption DEF Session, ProcessInv, DeliveriesStand
    <3>4. \A t \in Sessions : reg'[t] # None => reg'[t] = reg[t] /\ reg[t] \in Requests
      BY <1>inv, <1>reg DEF TypeOK
    <3>5. \A t \in Sessions : reg'[t] # None /\ proc'[reg'[t]].state = "dead" => proc[reg[t]].state = "dead"
      <4> SUFFICES ASSUME NEW t \in Sessions, reg'[t] # None, proc'[reg'[t]].state = "dead"
                   PROVE  proc[reg[t]].state = "dead"
        OBVIOUS
      <4>1. reg[t] = q => proc'[q].state = up
        BY <1>states, <1>reg, <3>4
      <4> QED
        BY <1>states, <3>4, <4>1
    <3>6. \A x \in Requests : proc'[x].runs = proc[x].runs /\ proc'[x].deaf = proc[x].deaf /\ (proc[x].state # "none" => proc'[x].state # "none")
      BY <1>states
    <3> QED
      BY <1>inv, <1>start, <1>new, <1>pc, <3>1, <3>2, <3>3, <3>4, <3>5, <3>6, DeliveriesStay DEF ProcessInv
  <2> QED
    BY <2>registered, <2>lost, <2>deliveries DEF ProcessInv
<1> QED
  BY <1>type, <1>request, <1>locks, <1>process DEF RegistryInv

-----------------------------------------------------------------------------
(* The processes, the evictions and the server *)

(* Processes end, begin turns and end them, and none comes to be. *)
LEMMA ProcessesMove ==
  ASSUME RegistryInv, exits' \in 0..MaxExits, failures' \in 0..MaxFailures,
         UNCHANGED <<reg, temp, evicting, victim, strays, lockOf, held, newLock, logged, setup, req,
                     patrol, patrols, crashes>>,
         proc' \in [Requests -> Processes],
         \A x \in Requests :
           \/ proc'[x] = proc[x]
           \/ /\ proc[x].state \notin {"none", "dead"} /\ proc'[x].state # "none"
              /\ proc'[x].state = "dead" => (proc'[x].runs => proc'[x].deaf) /\ (x \in News => setup[x] \notin {"row", "log"})
              /\ proc'[x].state \in {"starting", "up"} => proc[x].state \in {"starting", "up"}
  PROVE  RegistryInv'
<1>inv. TypeOK /\ RequestInv /\ LockInv /\ ProcessInv
  BY DEF RegistryInv
<1>type. TypeOK'
  BY <1>inv DEF TypeOK
<1>request. RequestInv'
  BY <1>inv, RequestsUntouched
<1>locks. LockInv'
  BY <1>inv, LocksUntouched
<1>process. ProcessInv'
  <2>session. \A x \in Requests : Session(x)' = Session(x)
    BY DEF Session
  <2>registered. RegisteredStands'
    BY <1>inv, <2>session DEF ProcessInv, RegisteredStands, TypeOK, Requests
  <2>lost. NoLostProcess'
    BY <1>inv, <2>session DEF ProcessInv, NoLostProcess, Alive
  <2>deliveries. DeliveriesStand' /\ RunningIsServed'
    <3>1. \A t \in Sessions : reg[t] # None => reg[t] \in Requests
      BY <1>inv DEF TypeOK
    <3> QED
      BY <1>inv, <3>1, DeliveriesStay DEF ProcessInv, Requests
  <2> QED
    BY <2>registered, <2>lost, <2>deliveries DEF ProcessInv
<1> QED
  BY <1>type, <1>request, <1>locks, <1>process DEF RegistryInv

(* The CLI begins and ends its turns, it ends, and the inbox settles it. *)
LEMMA ProcessKeeps ==
  ASSUME RegistryInv, NEW q \in Requests, Working(q)
  PROVE  RegistryInv'
<1>old. TypeOK /\ proc \in [Requests -> Processes] /\ proc[q] \in Processes
  BY DEF RegistryInv, TypeOK
<1>same. UNCHANGED <<reg, temp, evicting, victim, strays, lockOf, held, newLock, logged, setup, req,
                     patrol, patrols, crashes>>
  BY DEF Working, TurnEnds, TurnBegins, Exit, Settle, InboxFails, bounds, evictions, locks
<1>bounds. exits' \in 0..MaxExits /\ failures' \in 0..MaxFailures
  BY <1>old, RegistryAssumption
     DEF Working, TurnEnds, TurnBegins, Exit, Settle, InboxFails, Fails, TypeOK, bounds
<1>how. /\ proc' \in [Requests -> Processes] /\ \A x \in Requests \ {q} : proc'[x] = proc[x]
        /\ proc[q].state \notin {"none", "dead"} /\ proc'[q].state # "none"
        /\ proc'[q].state = "dead" =>
              (proc'[q].runs => proc'[q].deaf) /\ (q \in News => setup[q] \notin {"row", "log"})
        /\ proc'[q].state \in {"starting", "up"} => proc[q].state \in {"starting", "up"}
  <2>turn. ASSUME NEW b \in BOOLEAN, proc[q].state = "up", proc' = [proc EXCEPT ![q].runs = b]
           PROVE  /\ proc' \in [Requests -> Processes] /\ \A x \in Requests \ {q} : proc'[x] = proc[x]
                  /\ proc[q].state = "up" /\ proc'[q].state = "up"
    BY <1>old, <2>turn DEF Processes
  <2>1. TurnEnds(q) \/ TurnBegins(q) =>
          \E b \in BOOLEAN : proc[q].state = "up" /\ proc' = [proc EXCEPT ![q].runs = b]
    BY DEF TurnEnds, TurnBegins
  <2>exit. Exit(q) => /\ proc' \in [Requests -> Processes] /\ \A x \in Requests \ {q} : proc'[x] = proc[x]
                      /\ proc[q].state = "up" /\ proc'[q].state = "exited"
    BY <1>old DEF Processes, Exit
  <2>settle. ASSUME Settle(q)
             PROVE  /\ proc' \in [Requests -> Processes] /\ \A x \in Requests \ {q} : proc'[x] = proc[x]
                    /\ proc[q].state = "exited" /\ proc'[q].state = "dead"
                    /\ proc'[q].runs => proc'[q].deaf
                    /\ q \in News => setup[q] \notin {"row", "log"}
    <3> DEFINE runs == proc[q].runs /\ proc[q].deaf
    <3>1. runs \in BOOLEAN /\ (runs => proc[q].deaf)
      BY <1>old DEF Processes
    <3>2. proc' = [proc EXCEPT ![q].state = "dead", ![q].runs = runs]
      BY <2>settle DEF Settle
    <3> HIDE DEF runs
    <3>3. /\ proc' \in [Requests -> Processes] /\ \A x \in Requests \ {q} : proc'[x] = proc[x]
          /\ proc'[q].state = "dead" /\ proc'[q].runs = runs /\ proc'[q].deaf = proc[q].deaf
      BY <1>old, <3>1, <3>2 DEF Processes
    <3>4. proc'[q].runs => proc'[q].deaf
      BY <3>1, <3>3
    <3> QED
      BY <2>settle, <3>3, <3>4 DEF Settle
  <2>fails. InboxFails(q) => /\ proc' \in [Requests -> Processes] /\ \A x \in Requests \ {q} : proc'[x] = proc[x]
                             /\ proc[q].state = "up" /\ proc'[q].state = "up"
    <3>1. proc[q] \in Processes
      BY <1>old
    <3>2. ASSUME proc' = [proc EXCEPT ![q].deaf = TRUE, ![q].runs = FALSE]
          PROVE  /\ proc' \in [Requests -> Processes] /\ \A x \in Requests \ {q} : proc'[x] = proc[x]
                 /\ proc'[q].state = proc[q].state
      <4>1. proc'[q] = [proc[q] EXCEPT !.deaf = TRUE, !.runs = FALSE]
        BY <1>old, <3>2
      <4>2. proc'[q] \in Processes /\ proc'[q].state = proc[q].state
        BY <3>1, <4>1 DEF Processes
      <4> QED
        BY <1>old, <3>2, <4>2
    <3> QED
      BY <3>2 DEF InboxFails
  <2> QED
    BY <2>turn, <2>1, <2>exit, <2>settle, <2>fails DEF Working
<1> QED
  BY <1>same, <1>bounds, <1>how, ProcessesMove

(* An eviction has the CLI of its session end. *)
LEMMA DisconnectKeeps ==
  ASSUME RegistryInv, NEW s \in Sessions, Disconnect(s)
  PROVE  RegistryInv'
<1> DEFINE p == victim[s]
<1>old. TypeOK /\ proc \in [Requests -> Processes] /\ p \in {None} \cup Requests /\ None \notin Requests
  BY RegistryAssumption DEF RegistryInv, TypeOK
<1>same. UNCHANGED <<reg, temp, evicting, victim, strays, lockOf, held, newLock, logged, setup, req,
                     patrol, patrols, exits, failures, crashes>>
  BY DEF Disconnect, bounds, evictions, locks
<1>exits. exits' \in 0..MaxExits /\ failures' \in 0..MaxFailures
  BY <1>old, <1>same DEF TypeOK
<1>how. proc[p].state \in {"starting", "up"} /\ proc' = [proc EXCEPT ![p].state = "exited"]
  BY DEF Disconnect
<1> HIDE DEF p
<1>states. /\ proc' \in [Requests -> Processes]
           /\ \A x \in Requests : x # p => proc'[x] = proc[x]
           /\ p \in Requests => proc'[p].state = "exited"
  BY <1>old, <1>how DEF Processes
<1> QED
  BY <1>how, <1>states, <1>same, <1>exits, ProcessesMove

LEMMA EndEvictKeeps ==
  ASSUME RegistryInv, NEW s \in Sessions, EndEvict(s)
  PROVE  RegistryInv'
<1>inv. TypeOK /\ RequestInv /\ LockInv /\ ProcessInv
  BY DEF RegistryInv
<1>old. req \in [Requests -> RequestStates] /\ proc \in [Requests -> Processes] /\ LocksStand /\ EvictionsStand
  BY <1>inv DEF TypeOK, LockInv
<1> DEFINE e == evicting[s]
           p == victim[s]
<1>same. UNCHANGED <<temp, held, newLock, logged, setup, patrol, bounds>> /\ proc[p].state \in {"exited", "dead"}
  BY DEF EndEvict, LeaveRegistry
<1>reg. /\ reg' \in [Sessions -> {None} \cup Requests] /\ reg'[s] = None
        /\ \A t \in Sessions : t # s => reg'[t] = reg[t]
        /\ evicting' \in [Sessions -> {None} \cup Evictors] /\ evicting'[s] = None
        /\ \A t \in Sessions : t # s => evicting'[t] = evicting[t]
        /\ victim' \in [Sessions -> {None} \cup Requests]
        /\ strays' \subseteq Requests /\ strays \subseteq strays'
        /\ reg[s] \in strays' \cup {None, p}
  BY <1>inv DEF EndEvict, LeaveRegistry, TypeOK
<1>proc. /\ proc' \in [Requests -> Processes]
         /\ \A x \in Requests : /\ proc'[x].state = proc[x].state /\ proc'[x].deaf = proc[x].deaf
                                /\ proc'[x].runs => proc[x].runs
  <2>1. proc' = [proc EXCEPT ![p].runs = FALSE]
    BY DEF EndEvict, LeaveRegistry
  <2> HIDE DEF p
  <2> QED
    BY <1>old, <2>1 DEF Processes
<1>req. \/ req' = req /\ e \notin Requests
        \/ e \in Requests /\ Moved(e, req[e].back)
  <2>1. e \notin Requests => req' = req
    BY DEF EndEvict, LeaveRegistry
  <2>2. e \in Requests => Goto(e, req[e].back)
    BY DEF EndEvict, LeaveRegistry, Goto
  <2>3. e \in Requests => req[e].back \in Places
    BY <1>old DEF RequestStates, Places, Steps
  <2> HIDE DEF e
  <2> QED
    BY <1>old, <2>1, <2>2, <2>3, Going
<1>new. /\ req' \in [Requests -> RequestStates]
        /\ \A x \in Requests : /\ req'[x].at = req[x].at /\ req'[x].lock = req[x].lock
                               /\ req'[x].got = req[x].got /\ req'[x].back = req[x].back
                               /\ \/ req'[x].pc = req[x].pc
                                  \/ x = e /\ req[x].pc = "evict" /\ req'[x].pc = req[x].back
        /\ \A x \in Requests : req'[x].pc = req[x].pc => req'[x] = req[x] \/ x = e
        /\ \A x \in Requests : x # e => req'[x] = req[x]
        /\ e \in Requests => req'[e].pc = req[e].back /\ req[e].pc = "evict"
  <2>1. e \in Requests => req[e].pc = "evict"
    BY <1>old DEF EvictionsStand
  <2> HIDE DEF e
  <2> QED
    BY <1>old, <1>req, <2>1 DEF Moved, Written
<1>back. \A x \in Requests : req[x].back \in {"build", "retire"}
  BY <1>old DEF RequestStates
<1> HIDE DEF e, p
<1>lock. /\ lockOf' \in [Sessions -> Nat]
         /\ \A t \in Sessions : lockOf'[t] = lockOf[t] \/ (lockOf'[t] = 0 /\ t = s /\ ~Locked(s, lockOf[s]))
  BY <1>inv DEF EndEvict, LeaveRegistry, TypeOK
<1>type. TypeOK'
  BY <1>inv, <1>same, <1>reg, <1>proc, <1>new, <1>lock DEF TypeOK, bounds
<1>request. RequestInv'
  <2>places. PlacesStand'
    BY <1>inv, <1>new, <1>back, RegistryAssumption DEF RequestInv, PlacesStand, Requests
  <2>inbox. InboxStands'
    BY <1>inv, <1>same, <1>new, <1>back DEF RequestInv, InboxStands, Requests, TypeOK, Begun
  <2>address. AddressStands'
    <3>1. \A c \in Connects : c \in Requests /\ req'[c].at = req[c].at /\ (req'[c].pc = "new" => req[c].pc = "new")
      BY <1>new, <1>back DEF Requests
    <3>2. \A c \in Connects : req'[c].pc = "new" => proc'[c].state = "none"
      BY <1>inv, <1>proc, <3>1 DEF RequestInv, AddressStands
    <3>4. \A c \in Connects : req'[c].pc # "new" => \/ req'[c].at \in Old
                                                    \/ req'[c].at \in logged' /\ req'[req'[c].at].pc \in Over
      <4> SUFFICES ASSUME NEW c \in Connects, req'[c].pc # "new", req[c].at \notin Old
                   PROVE  req[c].at \in logged /\ req'[req[c].at].pc \in Over
        BY <1>same, <1>new, <3>1
      <4>1. req[c].pc # "new"
        BY <1>new, <3>1
      <4>2. req[c].at \in logged /\ req[c].at \in Requests /\ req[req[c].at].pc \in Over
        BY <1>inv, <4>1 DEF RequestInv, AddressStands, TypeOK, Requests
      <4> QED
        BY <1>new, <4>2 DEF Over
    <3> QED
      BY <3>2, <3>4 DEF AddressStands
  <2>key. KeyIsHeld'
    <3>1. \A n \in Same : n \in News /\ n \in Requests
      BY RegistryAssumption DEF Requests
    <3>2. \A n \in Same : req'[n].pc \in {"capacity", "room", "build", "evict", "start", "init", "cleanup"} => newLock = n
      BY <1>inv, <1>new, <3>1 DEF RequestInv, KeyIsHeld
    <3> QED
      BY <1>inv, <1>same, <3>2 DEF RequestInv, KeyIsHeld
  <2>accepted. AcceptedIsLogged'
    BY <1>inv, <1>same, <1>new, <1>back DEF RequestInv, AcceptedIsLogged, Requests
  <2> QED
    BY <2>places, <2>inbox, <2>address, <2>key, <2>accepted DEF RequestInv
<1>locks. LockInv'
  <2>holders. LocksStand'
    <3>current. \A t \in Sessions : lockOf'[t] \in {0} \cup LockNumbers
      BY <1>old, <1>lock DEF LocksStand
    <3>waiting. \A q \in Requests : req'[q].pc = "lock" => req'[q].lock \in LockNumbers
      BY <1>old, <1>new, <1>back DEF LocksStand
    <3>held. ASSUME NEW h \in held
          PROVE  /\ h[1] \in Connects /\ req'[h[1]].pc \in Holding
                 /\ h[2] = req'[h[1]].at /\ h[3] = req'[h[1]].lock /\ lockOf'[h[2]] = h[3]
      <4>1. /\ h[1] \in Connects /\ h[1] \in Requests /\ req[h[1]].pc \in Holding
            /\ h[2] = req[h[1]].at /\ h[3] = req[h[1]].lock /\ lockOf[h[2]] = h[3]
        BY <1>old DEF LocksStand, Requests
      <4>2. h = <<h[1], h[2], h[3]>> /\ h[2] \in Sessions
        BY <1>inv DEF TypeOK, HeldLocks
      <4>3. Locked(h[2], lockOf[h[2]])
        BY <4>1, <4>2 DEF Locked
      <4>4. lockOf'[h[2]] = lockOf[h[2]]
        BY <1>lock, <4>2, <4>3
      <4> QED
        BY <1>new, <1>back, <4>1, <4>4 DEF Holding
    <3>holding. \A c \in Connects : req'[c].pc \in Holding => <<c, req'[c].at, req'[c].lock>> \in held'
      <4> SUFFICES ASSUME NEW c \in Connects, req'[c].pc \in Holding
                   PROVE  <<c, req[c].at, req[c].lock>> \in held
        BY <1>same, <1>new DEF Requests
      <4>1. req[c].pc \in Holding
        BY <1>new DEF Requests, Holding
      <4> QED
        BY <1>old, <4>1 DEF LocksStand
    <3> QED
      BY <1>old, <1>same, <3>current, <3>waiting, <3>held, <3>holding DEF LocksStand
  <2>evictors. EvictionsStand'
    <3>1. ASSUME NEW t \in Sessions, evicting'[t] \in Requests
          PROVE  t # s /\ evicting'[t] = evicting[t] /\ evicting[t] # e /\ req'[evicting'[t]].pc = "evict"
      <4>1. t # s /\ evicting'[t] = evicting[t]
        BY <1>reg, <3>1, RegistryAssumption
      <4>2. evicting[t] # e
        BY <1>old, <3>1, <4>1 DEF EvictionsStand, e
      <4>3. req[evicting[t]].pc = "evict"
        BY <1>old, <3>1, <4>1 DEF EvictionsStand
      <4> QED
        BY <1>new, <3>1, <4>1, <4>2, <4>3
    <3> QED
      BY <1>old, <3>1 DEF EvictionsStand
  <2>opens. LockedSessionStands'
    <3> SUFFICES ASSUME NEW c \in Connects
                 PROVE  /\ Opens(c)' => reg'[req'[c].at] = None
                        /\ req'[c].pc = "start" => reg'[req'[c].at] \in {None, c}
      BY DEF LockedSessionStands
    <3>1. c \in Requests /\ (Opens(c)' => Opens(c)) /\ (req'[c].pc = "start" => req[c].pc = "start") /\ req'[c].at = req[c].at
      BY <1>new, <1>back DEF Opens, Requests
    <3>2. Opens(c) \/ req[c].pc = "start" => req[c].at \in Sessions
      BY SessionOfConnect DEF Opens
    <3>3. /\ Opens(c) => reg[req[c].at] = None
          /\ req[c].pc = "start" => reg[req[c].at] \in {None, c}
      BY <1>inv DEF LockInv, LockedSessionStands
    <3> QED
      BY <1>reg, <3>1, <3>2, <3>3
  <2> QED
    BY <2>holders, <2>evictors, <2>opens DEF LockInv
<1>process. ProcessInv'
  <2>session. \A x \in Requests : Session(x)' = Session(x)
    BY <1>new DEF Session
  <2>kept. \A t \in Sessions :
             reg'[t] # None =>
               t # s /\ reg'[t] = reg[t] /\ reg[t] \in Requests /\ evicting'[t] = evicting[t]
    BY <1>inv, <1>reg DEF TypeOK
  <2>registered. RegisteredStands'
    <3>1. ASSUME NEW t \in Sessions, reg'[t] # None
          PROVE  Session(reg[t])' = t /\ proc'[reg'[t]].state # "none"
      <4>1. reg'[t] = reg[t] /\ reg[t] \in Requests /\ Session(reg[t]) = t /\ proc[reg[t]].state # "none"
        BY <1>inv, <2>kept, <3>1 DEF ProcessInv, RegisteredStands
      <4>2. Session(reg[t])' = t
        BY <1>new, <4>1 DEF Session
      <4> QED
        BY <1>proc, <4>1, <4>2
    <3>2. \A m \in temp' : proc'[m].state # "none" /\ (setup'[m] \in {"row", "log"} => proc'[m].state # "dead")
      BY <1>inv, <1>same, <1>proc DEF ProcessInv, RegisteredStands, TypeOK, Requests
    <3>3. \A m \in News : reg'[m] # None => req'[m].pc \in Begun
      <4> SUFFICES ASSUME NEW m \in News, reg'[m] # None PROVE req'[m].pc \in Begun
        OBVIOUS
      <4>1. req[m].pc \in Begun /\ m \in Requests
        BY <1>inv, <2>kept DEF ProcessInv, RegisteredStands, Sessions, Requests
      <4> QED
        BY <1>new, <4>1 DEF Begun
    <3> QED
      BY <2>kept, <3>1, <3>2, <3>3 DEF RegisteredStands
  (* What is registered goes: it is the process that was to end, or a stray. *)
  <2>lost. NoLostProcess'
    <3> SUFFICES ASSUME NEW x \in Requests \ strays', Alive(x)'
                 PROVE  reg'[Session(x)] = x \/ x \in temp' \/ req'[x].pc = "cleanup"
      BY <2>session DEF NoLostProcess
    <3>alive. Alive(x) /\ proc[x].state # "none" /\ x \notin strays
      BY <1>proc, <1>reg DEF Alive
    <3>victim. x # p
      BY <1>same, <3>alive DEF Alive
    <3>at. Session(x) \in Sessions
      BY <3>alive, SessionOfProcess
    <3>known. reg[Session(x)] = x \/ x \in temp \/ req[x].pc = "cleanup"
      BY <1>inv, <3>alive DEF ProcessInv, NoLostProcess
    <3>cleanup. req[x].pc = "cleanup" => req'[x].pc = "cleanup"
      BY <1>new
    <3>other. reg[Session(x)] = x => Session(x) # s
      BY <1>reg, <3>victim, RegistryAssumption
    <3> QED
      BY <1>same, <1>reg, <3>at, <3>known, <3>cleanup, <3>other
  <2>deliveries. DeliveriesStand' /\ RunningIsServed'
    <3>1. \A x \in Connects :
            /\ x \in Requests /\ req'[x].at = req[x].at
            /\ req[x].pc \in Sending => req'[x] = req[x]
            /\ req'[x].pc \in {"use"} \cup Sending => req'[x] = req[x]
      BY <1>new, <1>back DEF Requests, Sending
    <3>2. \A x \in Requests : req'[x].pc = "start" => req[x].pc = "start"
      BY <1>new, <1>back
    <3> QED
      BY <1>inv, <1>proc, <2>kept, <3>1, <3>2, DeliveriesStay DEF ProcessInv
  <2> QED
    BY <2>registered, <2>lost, <2>deliveries DEF ProcessInv
<1> QED
  BY <1>type, <1>request, <1>locks, <1>process DEF RegistryInv

(* A timer or the patrol picks a session: nothing but evicting and the list changes. *)
LEMMA PickKeeps ==
  ASSUME RegistryInv, (\E s \in Sessions : TimerEvicts(s)) \/ PatrolLists \/ PatrolLooks
  PROVE  RegistryInv'
<1>inv. TypeOK /\ RequestInv /\ LockInv /\ ProcessInv
  BY DEF RegistryInv
<1>same. UNCHANGED <<reg, temp, proc, locks, logged, setup, req, exits, failures, crashes>>
  BY DEF TimerEvicts, PatrolLists, PatrolLooks, bounds
<1>evicting. /\ evicting' \in [Sessions -> {None} \cup Evictors]
             /\ \A s \in Sessions : evicting'[s] = evicting[s] \/ evicting'[s] \in {"timer", "patrol"}
             /\ victim' \in [Sessions -> {None} \cup Requests] /\ strays' = strays
  <2>1. evicting \in [Sessions -> {None} \cup Evictors] /\ {"timer", "patrol"} \subseteq Evictors
    BY <1>inv DEF TypeOK, Evictors
  <2>2. \/ UNCHANGED <<evicting, victim, strays>>
        \/ \E s \in Sessions, e \in {"timer", "patrol"} :
             /\ evicting' = [evicting EXCEPT ![s] = e] /\ victim' = [victim EXCEPT ![s] = reg[s]]
             /\ UNCHANGED strays
    BY <1>inv DEF TimerEvicts, PatrolLists, PatrolLooks, BeginEvict, TypeOK, evictions
  <2> QED
    BY <1>inv, <2>1, <2>2 DEF TypeOK
<1>patrol. patrol' \subseteq Sessions \X Requests /\ patrols' \in 0..MaxPatrols
  <2>1. (\E s \in Sessions : TimerEvicts(s)) => UNCHANGED <<patrol, patrols>>
    BY DEF TimerEvicts, bounds
  <2>2. PatrolLooks => patrol' \subseteq patrol /\ patrols' = patrols
    BY DEF PatrolLooks, bounds
  <2>3. PatrolLists => patrol' \subseteq Sessions \X Requests /\ patrols' \in 0..MaxPatrols
    BY <1>inv, RegistryAssumption DEF PatrolLists, TypeOK
  <2> QED
    BY <1>inv, <2>1, <2>2, <2>3 DEF TypeOK
<1>type. TypeOK'
  BY <1>inv, <1>same, <1>evicting, <1>patrol DEF TypeOK, locks
<1>request. RequestInv'
  BY <1>inv, <1>same, RequestsUntouched DEF locks
<1>lock. LockInv'
  <2>holders. LocksStand' /\ LockedSessionStands'
    BY <1>inv, <1>same DEF LockInv, LocksStand, LockedSessionStands, Opens, locks
  <2>evictors. EvictionsStand'
    <3>1. \A s \in Sessions : evicting'[s] \in Requests => evicting'[s] = evicting[s]
      BY <1>evicting, RegistryAssumption
    <3> QED
      BY <1>inv, <1>same, <3>1 DEF LockInv, EvictionsStand
  <2> QED
    BY <2>holders, <2>evictors DEF LockInv
<1>process. ProcessInv'
  <2>1. RegisteredStands' /\ NoLostProcess'
    BY <1>inv, <1>same, <1>evicting DEF ProcessInv, RegisteredStands, NoLostProcess, Alive, Session
  <2>2. \A s \in Sessions : evicting[s] # None => evicting'[s] # None
    BY <1>evicting, RegistryAssumption DEF None
  <2>3. DeliveriesStand' /\ RunningIsServed'
    BY <1>inv, <1>same, <2>2, DeliveriesStay DEF ProcessInv
  <2> QED
    BY <2>1, <2>3 DEF ProcessInv
<1> QED
  BY <1>type, <1>request, <1>lock, <1>process DEF RegistryInv

LEMMA CrashKeeps ==
  ASSUME RegistryInv, Crash
  PROVE  RegistryInv'
<1>inv. TypeOK /\ RequestInv /\ LockInv /\ ProcessInv
  BY DEF RegistryInv
<1>none. /\ reg' = [s \in Sessions |-> None] /\ temp' = {} /\ evicting' = [s \in Sessions |-> None]
         /\ victim' = [s \in Sessions |-> None] /\ strays' = strays
         /\ lockOf' = [s \in Sessions |-> 0] /\ held' = {} /\ newLock' = None /\ patrol' = {}
         /\ UNCHANGED <<logged, setup, patrols, exits, failures>>
  BY DEF Crash
<1>req. /\ req' \in [Requests -> RequestStates]
        /\ \A q \in Requests : /\ req'[q].at = req[q].at
                               /\ req[q].pc \in {"new"} \cup Over => req'[q].pc = req[q].pc
                               /\ req[q].pc \notin {"new"} \cup Over => req'[q].pc = "lost"
  <2>how. req' = [q \in Requests |-> IF req[q].pc \in {"new"} \cup Over THEN req[q] ELSE [req[q] EXCEPT !.pc = "lost"]]
    BY DEF Crash
  <2>old. \A q \in Requests : req[q] \in RequestStates
    BY <1>inv DEF TypeOK
  <2>change. ASSUME NEW r \in RequestStates
        PROVE  /\ [r EXCEPT !.pc = "lost"] \in RequestStates
               /\ [r EXCEPT !.pc = "lost"].pc = "lost" /\ [r EXCEPT !.pc = "lost"].at = r.at
    BY DEF RequestStates, Places, Over
  <2>each. \A q \in Requests : req'[q] \in RequestStates
    BY <2>how, <2>old, <2>change
  <2>type. req' \in [Requests -> RequestStates]
    BY <2>how, <2>each
  <2>over. \A q \in Requests : req[q].pc \in {"new"} \cup Over => req'[q] = req[q]
    BY <2>how
  <2>lost. \A q \in Requests : req[q].pc \notin {"new"} \cup Over => req'[q].pc = "lost" /\ req'[q].at = req[q].at
    BY <2>how, <2>old, <2>change
  <2> QED
    BY <2>type, <2>over, <2>lost
<1>proc. /\ proc' \in [Requests -> Processes]
         /\ \A q \in Requests : /\ proc[q].state = "none" => proc'[q] = proc[q]
                                /\ proc[q].state # "none" => proc'[q].state = "dead"
  <2>1. proc' = [q \in Requests |-> IF proc[q].state = "none" THEN proc[q] ELSE [state |-> "dead", runs |-> FALSE, deaf |-> FALSE]]
    BY DEF Crash
  <2>2. [state |-> "dead", runs |-> FALSE, deaf |-> FALSE] \in Processes /\ \A q \in Requests : proc[q] \in Processes
    BY <1>inv DEF TypeOK, Processes
  <2> QED
    BY <2>1, <2>2
<1>type. TypeOK'
  <2>1. crashes' \in 0..MaxCrashes
    BY <1>inv, RegistryAssumption DEF Crash, TypeOK
  <2> QED
    BY <1>inv, <1>none, <1>req, <1>proc, <2>1 DEF TypeOK
<1>request. RequestInv'
  <2>places. PlacesStand'
    BY <1>inv, <1>req DEF RequestInv, PlacesStand, Requests, Over
  <2>inbox. InboxStands'
    BY <1>inv, <1>none, <1>req DEF RequestInv, InboxStands, Requests, Begun, Over
  <2>address. AddressStands'
    BY <1>inv, <1>none, <1>req, <1>proc DEF RequestInv, AddressStands, Requests, TypeOK, Over
  <2>key. KeyIsHeld'
    BY <1>inv, <1>none, <1>req, RegistryAssumption DEF RequestInv, KeyIsHeld, Requests, Over
  <2>accepted. AcceptedIsLogged'
    BY <1>inv, <1>none, <1>req DEF RequestInv, AcceptedIsLogged, Requests
  <2> QED
    BY <2>places, <2>inbox, <2>address, <2>key, <2>accepted DEF RequestInv
<1>lock. LockInv'
  <2>holders. LocksStand'
    BY <1>inv, <1>none, <1>req DEF LocksStand, Requests, Holding, Over
  <2>evictors. EvictionsStand'
    BY <1>none, RegistryAssumption DEF EvictionsStand
  <2>opens. LockedSessionStands'
    BY <1>req DEF LockedSessionStands, Opens, Requests, Over
  <2> QED
    BY <2>holders, <2>evictors, <2>opens DEF LockInv
<1>process. ProcessInv'
  <2>1. RegisteredStands' /\ NoLostProcess' /\ RunningIsServed'
    BY <1>none, <1>proc
       DEF RegisteredStands, NoLostProcess, RunningIsServed, Running, Alive, Sessions, Requests
  <2>2. DeliveriesStand'
    BY <1>inv, <1>req DEF DeliveriesStand, Sending, Requests, Over
  <2> QED
    BY <2>1, <2>2 DEF ProcessInv
<1> QED
  BY <1>type, <1>request, <1>lock, <1>process DEF RegistryInv

-----------------------------------------------------------------------------
LEMMA RegistryStep == RegistryInv /\ [Next]_vars => RegistryInv'
<1> SUFFICES ASSUME RegistryInv, [Next]_vars PROVE RegistryInv'
  OBVIOUS
<1>connect. ASSUME NEW c \in Connects, Connecting(c) PROVE RegistryInv'
  BY <1>connect, AskKeeps, TakeLockKeeps, RetireKeeps DEF Connecting
<1>deliver. ASSUME NEW c \in Connects, Delivering(c) PROVE RegistryInv'
  BY <1>deliver, SendKeeps, DeliveryKeeps DEF Delivering
<1>create. ASSUME NEW n \in News, Creating(n) \/ Inbox(n) PROVE RegistryInv'
  BY <1>create, WaitKeeps, WakeKeeps, CleanupKeeps, InboxKeeps DEF Creating
<1>open. ASSUME NEW q \in Requests, Opening(q) \/ Working(q) PROVE RegistryInv'
  BY <1>open, RoomKeeps, RegisterKeeps, StartedKeeps, ProcessKeeps DEF Opening
<1>evict. ASSUME NEW s \in Sessions, TimerEvicts(s) \/ Disconnect(s) \/ EndEvict(s) PROVE RegistryInv'
  BY <1>evict, PickKeeps, DisconnectKeeps, EndEvictKeeps
<1>server. ASSUME PatrolLists \/ PatrolLooks \/ Crash PROVE RegistryInv'
  BY <1>server, PickKeeps, CrashKeeps
<1>idle. ASSUME UNCHANGED vars PROVE RegistryInv'
  <2>same. UNCHANGED <<reg, temp, proc, evicting, victim, strays, lockOf, held, newLock, logged, setup, req, patrol,
                       patrols, exits, failures, crashes>>
    BY <1>idle DEF vars
  <2>type. TypeOK'
    BY <2>same DEF RegistryInv, TypeOK
  <2>request. RequestInv'
    BY <2>same, RequestsUntouched DEF RegistryInv
  <2>lock. LockInv'
    BY <2>same, LocksUntouched DEF RegistryInv
  <2>process. ProcessInv'
    BY <2>same
       DEF RegistryInv, ProcessInv, RegisteredStands, NoLostProcess, DeliveriesStand, RunningIsServed,
           Running, Alive, Session
  <2> QED
    BY <2>type, <2>request, <2>lock, <2>process DEF RegistryInv
<1> QED
  BY <1>connect, <1>deliver, <1>create, <1>open, <1>evict, <1>server, <1>idle DEF Next, Done

LEMMA RegistryHolds == Spec => []RegistryInv
<1> QED
  BY RegistryStarts, RegistryStep, PTL DEF Spec

(* A session has one CLI process at most, whoever connects, evicts, waits    *)
(* for a lock that is gone or creates it: two processes would write one      *)
(* transcript.  And every process is registered or about to be ended, but    *)
(* one that the eviction of another one took from the registry.              *)
THEOREM ProcessesKnown == Spec => []ProcessesAreKnown
<1>one. RegistryInv => OneProcess
  <2> SUFFICES ASSUME RegistryInv, NEW q \in Requests, NEW p \in Requests,
                      q \notin strays, p \notin strays,
                      Alive(q), Alive(p), Session(q) = Session(p)
               PROVE  q = p
    BY DEF OneProcess
  <2>inv. TypeOK /\ PlacesStand /\ InboxStands /\ AddressStands /\ RegisteredStands /\ NoLostProcess
    BY DEF RegistryInv, RequestInv, ProcessInv
  (* A process that is not registered is that of a new session, which nobody addresses. *)
  <2>new. ASSUME NEW x \in Requests \ strays, NEW y \in Requests, Alive(x), Alive(y), Session(x) = Session(y),
                 reg[Session(x)] # x
          PROVE  x = y
    <3>1. x \in temp \/ req[x].pc = "cleanup"
      BY <2>inv, <2>new DEF NoLostProcess
    <3>2. x \in News /\ Session(x) = x /\ req[x].pc \notin Over
      <4>1. x \in temp => x \in News /\ req[x].pc \in {"start", "init"}
        BY <2>inv DEF TypeOK, InboxStands
      <4>2. req[x].pc = "cleanup" => x \in News
        BY <2>inv DEF PlacesStand, Requests
      <4> QED
        BY <3>1, <4>1, <4>2 DEF Session, Over
    <3>3. \A z \in Requests : z # x /\ proc[z].state # "none" => Session(z) # x
      BY <3>2, NewIsUnaddressed
    <3> QED
      BY <2>new, <3>2, <3>3 DEF Alive
  <2>both. CASE reg[Session(q)] = q /\ reg[Session(p)] = p
    BY <2>both
  <2> QED
    BY <2>both, <2>new
<1>all. RegistryInv => ProcessesAreKnown
  BY <1>one DEF ProcessesAreKnown, RegistryInv, ProcessInv
<1> QED
  BY <1>all, RegistryHolds, PTL

(* The first message of a client key is in one new session, an accepted      *)
(* request has its message in the log, and a session that runs although its  *)
(* CLI and its inbox are gone is about to be settled or is being evicted:    *)
(* whatever fails, none is left that nobody may evict.                       *)
THEOREM RecordsTrue == Spec => []RecordsAreTrue
<1>once. RegistryInv => LoggedOnce
  <2> SUFFICES ASSUME RegistryInv PROVE LoggedOnce
    OBVIOUS
  <2>1. \A n, m \in logged \cap Same : n = m
    BY DEF RegistryInv, RequestInv, KeyIsHeld
  <2>none. CASE logged \cap Same = {}
    BY <2>none, FS_EmptySet DEF LoggedOnce
  <2>some. CASE logged \cap Same # {}
    <3> PICK n \in logged \cap Same : TRUE
      BY <2>some
    <3>1. logged \cap Same = {n}
      BY <2>1
    <3>2. Cardinality(logged \cap Same) = 1
      BY <3>1, FS_Singleton
    <3> QED
      BY <3>2 DEF LoggedOnce
  <2> QED
    BY <2>none, <2>some
<1>all. RegistryInv => RecordsAreTrue
  BY <1>once DEF RecordsAreTrue, RegistryInv, RequestInv, ProcessInv
<1> QED
  BY <1>all, RegistryHolds, PTL

(* No timer and no request evicts a session that runs and has its CLI: at    *)
(* the step that begins the eviction, not at the one that chose the session. *)
THEOREM RunningSpared == Spec => SparesRunning
<1> DEFINE Busy(s) == Running(s) /\ Alive(reg[s])
           Spared == \A s \in Sessions : evicting[s] = None /\ evicting'[s] \notin {None, "patrol"} => ~Busy(s)
<1>step. RegistryInv /\ Next => Spared
  <2> SUFFICES ASSUME RegistryInv, Next, NEW s \in Sessions,
                      evicting[s] = None, evicting'[s] \notin {None, "patrol"}
               PROVE  ~Busy(s)
    OBVIOUS
  <2>inv. TypeOK
    BY DEF RegistryInv
  <2>moved. evicting'[s] # evicting[s]
    OBVIOUS
  <2>connect. ASSUME NEW c \in Connects, Connecting(c) PROVE ~Busy(s)
    <3>1. ~(Ask(c) \/ TakeLock(c))
      BY <2>moved DEF Ask, TakeLock, evictions
    <3>2. Retire(c)
      BY <2>connect, <3>1 DEF Connecting
    <3>3. proc[reg[req[c].at]].state = "dead" /\ evicting' = [evicting EXCEPT ![req[c].at] = c]
      BY <2>moved, <3>2 DEF Retire, BeginEvict, evictions
    <3>4. s = req[c].at
      BY <2>inv, <2>moved, <3>3 DEF TypeOK
    <3> QED
      BY <3>3, <3>4 DEF Alive
  <2>deliver. ASSUME NEW c \in Connects, Delivering(c) PROVE FALSE
    BY <2>moved, <2>deliver DEF Delivering, Send, Delivered, Undelivered, WriteFails, evictions
  <2>create. ASSUME NEW n \in News, Creating(n) \/ Inbox(n) PROVE FALSE
    BY <2>moved, <2>create
       DEF Creating, Inbox, BeginNew, Find, TakeNewLock, Wake, Cleanup, CreateRow, LogFirst,
       TellId, evictions
  <2>open. ASSUME NEW q \in Requests, Opening(q) PROVE ~Busy(s)
    <3>1. ~(ReadLimit(q) \/ Register(q) \/ Started(q))
      BY <2>moved DEF ReadLimit, Register, Started, evictions
    <3>2. MakeRoom(q)
      BY <2>open, <3>1 DEF Opening
    <3> PICK t \in Active : ~Running(t) /\ evicting' = [evicting EXCEPT ![t] = q]
      BY <2>moved, <3>2 DEF MakeRoom, BeginEvict, evictions
    <3>3. s = t
      BY <2>inv, <2>moved DEF TypeOK
    <3> QED
      BY <3>3
  <2>process. ASSUME NEW q \in Requests, Working(q) PROVE FALSE
    BY <2>moved, <2>process DEF Working, TurnEnds, TurnBegins, Exit, Settle, InboxFails, evictions
  <2>ends. ASSUME NEW t \in Sessions, Disconnect(t) \/ EndEvict(t) PROVE FALSE
    BY <2>inv, <2>moved, <2>ends DEF Disconnect, EndEvict, LeaveRegistry, TypeOK, evictions
  <2>timer. ASSUME NEW t \in Sessions, TimerEvicts(t) PROVE ~Busy(s)
    <3>1. ~Running(t) /\ evicting' = [evicting EXCEPT ![t] = "timer"]
      BY <2>timer DEF TimerEvicts, BeginEvict
    <3>2. s = t
      BY <2>inv, <2>moved, <3>1 DEF TypeOK
    <3> QED
      BY <3>1, <3>2
  <2>patrol. ~(PatrolLists \/ PatrolLooks)
    <3>1. ~PatrolLists
      BY <2>moved DEF PatrolLists, evictions
    <3>2. PatrolLooks => evicting' = evicting \/ \E t \in Sessions : evicting' = [evicting EXCEPT ![t] = "patrol"]
      BY <2>inv DEF PatrolLooks, BeginEvict, TypeOK, evictions
    <3> QED
      BY <2>inv, <2>moved, <3>1, <3>2 DEF TypeOK
  <2>crash. ~Crash /\ ~Done
    BY <2>moved DEF Crash, Done, vars
  <2> QED
    BY <2>connect, <2>deliver, <2>create, <2>open, <2>process, <2>ends, <2>timer, <2>patrol, <2>crash DEF Next
<1>stays. UNCHANGED vars => Spared
  BY DEF vars
<1>all. RegistryInv /\ [Next]_vars => [Spared]_vars
  BY <1>step, <1>stays
<1> HIDE DEF Spared
<1>1. Spec => [][Spared]_vars
  BY <1>all, RegistryHolds, PTL DEF Spec
<1> QED
  BY <1>1 DEF SparesRunning, Spared
=============================================================================
