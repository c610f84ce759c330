------------------------- MODULE ProjectTasks_proofs -------------------------
(***************************************************************************)
(* The tasks of a project, from the batch that enqueues them to the end of *)
(* the project.                                                            *)
(*                                                                         *)
(* What a batch promises (GenerationBatch), for every set of batches,      *)
(* whatever they request, and every queue: the rows stay sound, the units  *)
(* of a batch keep their order, a cancellation is thorough, and what a     *)
(* caller is told is true.  The invariant says where the rows of a batch   *)
(* stand while its caller is at unit at[b]: exactly the units before it    *)
(* are accounted for, each with one member if it reached the queue         *)
(* (Accounted, OneTaskPerUnit), and a task created behind a unit depends   *)
(* on the very task that unit has (BehindItsUnit).  The order then follows *)
(* from the order of the queue.                                            *)
(*                                                                         *)
(* What the end of a project does to its tasks (ProjectRetirement), for    *)
(* every number of tasks, directories, failures, drifts and crashes, and   *)
(* for requests that overlap as they like.  The claims live in memory and  *)
(* the records in the database.  What keeps them together is the           *)
(* transaction of the retirement: from its start to its end no row changes *)
(* its status, so the tasks revoked at its start are those whose rows its  *)
(* end moves, or returns (OpenRetirement).                                 *)
(***************************************************************************)
EXTENDS GenerationBatch, ProjectRetirement, TaskQueue_proofs

-----------------------------------------------------------------------------
(* The batches. *)

(* One member of a batch for each of its units. *)
OneTaskPerUnit ==
  \A m, n \in members : m.batch = n.batch /\ m.unit = n.unit => m = n

(* A member's task is enqueued, and its unit was reached. *)
MembersArePlaced ==
  \A m \in members :
    /\ m.batch \in rows
    /\ status[m.task] # "absent"

(* What is known of a unit says on which side of at[b] it is, and whether  *)
(* it reached the queue.                                                   *)
Accounted ==
  \A b \in Batch : \A i \in DOMAIN SpecsOf[b] :
    LET u == SpecsOf[b][i].unit
    IN /\ report[b][u] = "open" <=> at[b] <= i
       /\ report[b][u] \in {"open", "unqueued"} <=> ~Queued(b, u)
       /\ \A m \in MemberOf(b) :
            m.unit = u /\ report[b][u] \in Terminal => status[m.task] = report[b][u]

(* A task created behind a unit of its batch depends on that unit's task. *)
BehindItsUnit ==
  \A m \in members : \A a \in Afters(m.batch, m.unit) :
    ~m.deduped /\ a \in Units(m.batch) =>
      \E n \in MemberOf(m.batch) : n.unit = a /\ dep[m.task] = n.task

(* Where a caller is says how far the enqueue has come. *)
CallersArePlaced ==
  \A b \in Batch :
    /\ at[b] >= 1
    /\ phase[b] \in {"enqueue", "wait", "answered"} => b \in rows
    /\ phase[b] \in {"wait", "answered"} => at[b] > Len(SpecsOf[b])
    /\ phase[b] = "raised" /\ MemberOf(b) = {} => b \notin rows

(* What a cancellation found is still to be done, was refused, or ended.   *)
CancelInv ==
  \A b \in Batch :
    /\ \A t \in cancel[b].found :
         t \in cancel[b].todo \/ t \in cancel[b].refused \/ status[t] \in Terminal
    /\ cancel[b].state = "done" => cancel[b].todo = {}

(* A wait that looks whether the worker is online looks for a queued unit. *)
LooksAreOpen ==
  \A w \in open : w[2] \in Units(w[1]) /\ report[w[1]][w[2]] = "queued"

BatchInv == /\ OneTaskPerUnit
            /\ MembersArePlaced
            /\ Accounted
            /\ LooksAreOpen
            /\ BehindItsUnit
            /\ CallersArePlaced

-----------------------------------------------------------------------------
(* What a batch requests: a finite sequence of units, each a dedupe key.   *)
LEMMA RequestLength ==
  ASSUME NEW b \in Batch
  PROVE  Len(SpecsOf[b]) \in Nat /\ DOMAIN SpecsOf[b] = 1..Len(SpecsOf[b])
<1> DEFINE Request == [unit : Key, after : Key \cup {NoUnit}]
<1>1. SpecsOf[b] \in Seq(Request)
  BY BatchConstants
<1> HIDE DEF Request
<1> QED
  BY <1>1

LEMMA UnitsAreKeys ==
  ASSUME NEW b \in Batch
  PROVE  Units(b) \subseteq Key
<1> DEFINE Request == [unit : Key, after : Key \cup {NoUnit}]
<1>1. SpecsOf[b] \in Seq(Request)
  BY BatchConstants
<1> HIDE DEF Request
<1>2. \A i \in DOMAIN SpecsOf[b] : SpecsOf[b][i] \in Request
  BY <1>1
<1> QED
  BY <1>2 DEF Units, Request

(* The next unit of a batch is one of its units. *)
LEMMA NextUnit ==
  ASSUME TypeOK, CallersArePlaced, NEW b \in Batch, Enqueuing(b)
  PROVE  /\ at[b] \in DOMAIN SpecsOf[b]
         /\ Unit(b) = SpecsOf[b][at[b]]
         /\ Unit(b).unit \in Key /\ Unit(b).unit \in Units(b)
         /\ Unit(b).after \in Key \cup {NoUnit}
<1> DEFINE Request == [unit : Key, after : Key \cup {NoUnit}]
<1>1. SpecsOf[b] \in Seq(Request)
  BY BatchConstants
<1> HIDE DEF Request
<1>2. at[b] \in 1..Len(SpecsOf[b])
  BY <1>1 DEF TypeOK, CallersArePlaced, Enqueuing
<1>3. SpecsOf[b][at[b]] \in Request /\ at[b] \in DOMAIN SpecsOf[b]
  BY <1>1, <1>2
<1> QED
  BY <1>3 DEF Request, Unit, Units

(* The task of a unit is the task of the one member it has. *)
LEMMA TaskOfMember ==
  ASSUME TypeOK, OneTaskPerUnit, NEW m \in members
  PROVE  TaskOfUnit(m.batch, m.unit) = m.task /\ m.task \in TaskId
<1> DEFINE Good(t) == \E n \in MemberOf(m.batch) : n.unit = m.unit /\ n.task = t
<1>1. m.task \in TaskId /\ Good(m.task)
  BY DEF TypeOK, MemberOf
<1>2. \A t \in TaskId : Good(t) => t = m.task
  BY DEF OneTaskPerUnit, MemberOf
<1> HIDE DEF Good
<1>3. (CHOOSE t \in TaskId : Good(t)) = m.task
  BY <1>1, <1>2
<1> QED
  BY <1>1, <1>3 DEF Good, TaskOfUnit

(* What a unit is made to wait for is a task, or nothing. *)
LEMMA DependencyIsTask ==
  ASSUME TypeOK, OneTaskPerUnit, NEW b \in Batch
  PROVE  DependencyTask(b) \in TaskId \cup {NoDep}
<1>1. ASSUME Queued(b, Unit(b).after) PROVE TaskOfUnit(b, Unit(b).after) \in TaskId
  BY <1>1, TaskOfMember DEF Queued, MemberOf
<1> QED
  BY <1>1 DEF DependencyTask

-----------------------------------------------------------------------------
(* Every step of a batch is a step of the queue, or leaves its rows alone. *)
LEMMA StepIsQueue ==
  ASSUME TypeOK, OneTaskPerUnit, CallersArePlaced, [Next]_vars
  PROVE  [QueueNext]_queueVars
<1>enqueue. ASSUME NEW b \in Batch, EnqueueUnit(b) PROVE QueueNext
  BY <1>enqueue, NextUnit, DependencyIsTask DEF EnqueueUnit, QueueNext
<1>claim. ASSUME NEW t \in TaskId, Claim(t) PROVE QueueNext
  <2>1. "image" \in Lanes /\ {} \in SUBSET Provider
    BY DEF Lanes
  <2> QED
    BY <1>claim, <2>1 DEF Claim, QueueNext
<1>finish. ASSUME NEW t \in TaskId, Finish(t) PROVE QueueNext
  <2>1. "error" \in FailReasons
    BY DEF FailReasons
  <2> QED
    BY <1>finish, <2>1 DEF Finish, QueueNext
<1>putback. ASSUME NEW t \in TaskId, PutBack(t) PROVE QueueNext
  BY <1>putback DEF PutBack, QueueNext
<1>cancel. ASSUME NEW b \in Batch, NEW t \in TaskId, CancelMember(b, t)
           PROVE  QueueNext \/ UNCHANGED queueVars
  BY <1>cancel DEF CancelMember, QueueNext
<1>submit. ASSUME NEW b \in Batch,
                  Create(b) \/ SkipDependent(b) \/ JoinActive(b) \/ EnqueueFails(b) \/ EnqueueEnds(b)
           PROVE  UNCHANGED queueVars
  BY <1>submit DEF Create, SkipDependent, JoinActive, EnqueueFails, EnqueueEnds
<1>caller. ASSUME NEW b \in Batch, Leave(b) \/ WaitEnds(b) \/ BeginCancel(b) \/ EndCancel(b)
           PROVE  UNCHANGED queueVars
  BY <1>caller DEF Leave, WaitEnds, BeginCancel, EndCancel
<1>wait. ASSUME NEW b \in Batch, NEW u \in Units(b), Waiting(b, u)
         PROVE  UNCHANGED queueVars
  BY <1>wait DEF Waiting, ReadEnd, TimeOut, ReadOpen, LookOnline, ReadFails
<1>rest. ASSUME Lease \/ Crash \/ UNCHANGED vars PROVE UNCHANGED queueVars
  BY <1>rest DEF Lease, Crash, vars
<1> QED
  BY <1>enqueue, <1>claim, <1>finish, <1>putback, <1>cancel, <1>submit, <1>caller, <1>wait, <1>rest
     DEF Next, Submission

-----------------------------------------------------------------------------
(* Every step keeps every variable in its domain. *)
LEMMA BatchTypeStep ==
  ASSUME TypeOK, OneTaskPerUnit, CallersArePlaced, [Next]_vars
  PROVE  TypeOK'
<1>rows. QueueTypeOK /\ QueueTypeOK'
  BY StepIsQueue, TypeStep DEF TypeOK
<1>told. ASSUME NEW b \in Batch, NEW u \in Units(b), NEW outcome \in Outcomes,
                report' = [report EXCEPT ![b][u] = outcome]
         PROVE  DOMAIN report' = Batch /\ \A c \in Batch : report'[c] \in [Units(c) -> Outcomes]
  BY <1>told DEF TypeOK
<1>step. ASSUME NEW b \in Batch, Enqueuing(b), NEW outcome \in Outcomes, Step(b, outcome)
         PROVE  /\ DOMAIN report' = Batch /\ \A c \in Batch : report'[c] \in [Units(c) -> Outcomes]
                /\ at' \in [Batch -> Nat]
  BY <1>step, <1>told, NextUnit DEF Step, TypeOK
<1>join. ASSUME NEW b \in Batch, Enqueuing(b), NEW t \in TaskId, NEW d \in BOOLEAN, Join(b, t, d)
         PROVE  members' \subseteq [batch : Batch, unit : Key, task : TaskId, deduped : BOOLEAN]
  BY <1>join, NextUnit DEF Join, TypeOK
<1> USE <1>rows DEF TypeOK, Phases, Outcomes, Terminal
<1>skip. ASSUME NEW b \in Batch, SkipDependent(b) PROVE TypeOK'
  BY <1>skip, <1>step DEF SkipDependent, envVars
<1>enqueue. ASSUME NEW b \in Batch, EnqueueUnit(b) PROVE TypeOK'
  BY <1>enqueue, <1>step, <1>join DEF EnqueueUnit, envVars
<1>joinactive. ASSUME NEW b \in Batch, JoinActive(b) PROVE TypeOK'
  BY <1>joinactive, <1>step, <1>join DEF JoinActive, envVars, Holding
<1>fails. ASSUME NEW b \in Batch, EnqueueFails(b) PROVE TypeOK'
  <2>stops. CASE b \in Stops
    <3> DEFINE GivenTo(u) == IF \E i \in at[b]..Len(SpecsOf[b]) : SpecsOf[b][i].unit = u
                             THEN "unqueued" ELSE report[b][u]
               R == [u \in Units(b) |-> GivenTo(u)]
    <3>len. Len(SpecsOf[b]) \in Nat
      BY RequestLength
    <3>rep. R \in [Units(b) -> Outcomes]
      <4>1. \A u \in Units(b) : report[b][u] \in Outcomes
        OBVIOUS
      <4>2. \A u \in Units(b) : GivenTo(u) \in Outcomes
        BY <4>1
      <4> HIDE DEF GivenTo
      <4> QED
        BY <4>2
    <3>eq. report' = [report EXCEPT ![b] = R] /\ at' = [at EXCEPT ![b] = Len(SpecsOf[b]) + 1]
      BY <1>fails, <2>stops DEF EnqueueFails
    <3> HIDE DEF R, GivenTo
    <3>dom. DOMAIN report' = Batch /\ \A c \in Batch : report'[c] \in [Units(c) -> Outcomes]
      BY <3>rep, <3>eq
    <3>at. at' \in [Batch -> Nat]
      BY <3>len, <3>eq
    <3> QED
      BY <1>fails, <3>dom, <3>at DEF EnqueueFails, envVars
  <2>goes. CASE b \notin Stops
    BY <1>fails, <2>goes, <1>step DEF EnqueueFails, envVars
  <2> QED
    BY <2>stops, <2>goes
<1>create. ASSUME NEW b \in Batch, Create(b) \/ EnqueueEnds(b) \/ Leave(b) \/ WaitEnds(b) PROVE TypeOK'
  BY <1>create DEF Create, EnqueueEnds, Leave, WaitEnds, envVars
<1>begincancel. ASSUME NEW b \in Batch, BeginCancel(b) PROVE TypeOK'
  <2>1. {t \in TasksOf(b) : status[t] \notin Terminal} \subseteq TaskId
    BY DEF TasksOf, MemberOf
  <2> QED
    BY <1>begincancel, <2>1 DEF BeginCancel, envVars
<1>cancel. ASSUME NEW b \in Batch, NEW t \in TaskId, CancelMember(b, t) PROVE TypeOK'
  BY SMTT(30), <1>cancel DEF CancelMember, Done, envVars
<1>endcancel. ASSUME NEW b \in Batch, EndCancel(b) PROVE TypeOK'
  BY SMTT(30), <1>endcancel DEF EndCancel, envVars
<1>read. ASSUME NEW b \in Batch, NEW u \in Units(b), ReadEnd(b, u) \/ TimeOut(b, u) PROVE TypeOK'
  BY SMTT(30), <1>read, <1>told DEF ReadEnd, TimeOut, Told, envVars
<1>look. ASSUME NEW b \in Batch, NEW u \in Units(b), ReadOpen(b, u) \/ LookOnline(b, u) PROVE TypeOK'
  <2>1. Units(b) \subseteq Key
    BY UnitsAreKeys
  <2> QED
    BY SMTT(30), <1>look, <2>1, <1>told DEF ReadOpen, LookOnline, Told, envVars
<1>unread. ASSUME NEW b \in Batch, NEW u \in Units(b), ReadFails(b, u) PROVE TypeOK'
  BY SMTT(30), <1>unread, <1>told DEF ReadFails, Told, envVars
<1>worker. ASSUME NEW t \in TaskId, Claim(t) \/ Finish(t) \/ PutBack(t) PROVE TypeOK'
  BY <1>worker DEF Claim, Finish, PutBack, batchVars, envVars
<1>lease. CASE Lease \/ UNCHANGED vars
  BY <1>lease DEF Lease, vars, batchVars, envVars
<1>crash. CASE Crash
  BY <1>crash DEF Crash, NoCancel
<1> QED
  BY <1>skip, <1>enqueue, <1>joinactive, <1>fails, <1>create, <1>begincancel, <1>cancel, <1>endcancel,
     <1>read, <1>look, <1>unread, <1>worker, <1>lease, <1>crash DEF Next, Submission, Waiting

-----------------------------------------------------------------------------
(* What a step may do to the row of a task: an end is kept, and a row that *)
(* is there stays, with its dependency.                                    *)
LEMMA RowsMove ==
  ASSUME TypeOK, OneTaskPerUnit, CallersArePlaced, [Next]_vars, NEW t \in TaskId
  PROVE  /\ status[t] \in Terminal => status'[t] = status[t]
         /\ status[t] # "absent" => status'[t] # "absent" /\ dep'[t] = dep[t]
<1> USE DEF TypeOK, QueueTypeOK, Terminal, Status, Active
<1>enqueue. ASSUME NEW b \in Batch, EnqueueUnit(b)
            PROVE  status[t] # "absent" => status'[t] = status[t] /\ dep'[t] = dep[t]
  BY <1>enqueue DEF EnqueueUnit, Enqueue
<1>cascade. ASSUME NEW u \in TaskId, CancelTask(u) \/ MarkFailed(u, "error")
            PROVE  /\ status[t] \in Terminal \cup {"absent"} => status'[t] = status[t]
                   /\ status[t] # "absent" => status'[t] # "absent"
                   /\ dep'[t] = dep[t]
  BY <1>cascade, BehindIsQueued DEF CancelTask, MarkFailed, EndWithCascade
<1>worker. ASSUME NEW u \in TaskId, Claim(u) \/ MarkSucceeded(u) \/ PutBack(u)
           PROVE  /\ status[t] \in Terminal => status'[t] = status[t]
                  /\ status[t] # "absent" => status'[t] # "absent"
                  /\ dep'[t] = dep[t]
  BY <1>worker DEF Claim, MarkSucceeded, PutBack, ClaimNext, Claimable, Requeue
<1>same. ASSUME UNCHANGED queueVars PROVE status'[t] = status[t] /\ dep'[t] = dep[t]
  BY <1>same DEF queueVars, rowVars
<1>submit. ASSUME NEW b \in Batch,
                  Create(b) \/ SkipDependent(b) \/ JoinActive(b) \/ EnqueueFails(b) \/ EnqueueEnds(b)
           PROVE  UNCHANGED queueVars
  BY <1>submit DEF Create, SkipDependent, JoinActive, EnqueueFails, EnqueueEnds
<1>caller. ASSUME NEW b \in Batch, Leave(b) \/ WaitEnds(b) \/ BeginCancel(b) \/ EndCancel(b)
           PROVE  UNCHANGED queueVars
  BY <1>caller DEF Leave, WaitEnds, BeginCancel, EndCancel
<1>wait. ASSUME NEW b \in Batch, NEW u \in Units(b), Waiting(b, u)
         PROVE  UNCHANGED queueVars
  BY <1>wait DEF Waiting, ReadEnd, TimeOut, ReadOpen, LookOnline, ReadFails
<1>rest. ASSUME Lease \/ Crash \/ UNCHANGED vars PROVE UNCHANGED queueVars
  BY <1>rest DEF Lease, Crash, vars
<1> QED
  BY <1>enqueue, <1>cascade, <1>worker, <1>same, <1>submit, <1>caller, <1>wait, <1>rest
     DEF Next, Submission, CancelMember, Finish

-----------------------------------------------------------------------------
(* A batch names a unit once. *)
LEMMA PlaceOfUnit ==
  ASSUME NEW b \in Batch, NEW i \in DOMAIN SpecsOf[b], NEW j \in DOMAIN SpecsOf[b],
         SpecsOf[b][i].unit = SpecsOf[b][j].unit
  PROVE  i = j
BY BatchOrder

(* The members stay, or the next unit of one batch gets one. *)
LEMMA MembersGrow ==
  ASSUME TypeOK, BatchInv, [Next]_vars
  PROVE  \/ members' = members
         \/ \E b \in Batch, t \in TaskId, d \in BOOLEAN :
              /\ Enqueuing(b) /\ ~BehindFailure(b) /\ Join(b, t, d)
              /\ rows' = rows /\ status'[t] # "absent"
              /\ ~d => dep'[t] = DependencyTask(b)
<1>enqueue. ASSUME NEW b \in Batch, EnqueueUnit(b)
            PROVE  \E t \in TaskId :
                     /\ Enqueuing(b) /\ ~BehindFailure(b) /\ Join(b, t, FALSE)
                     /\ rows' = rows /\ status'[t] # "absent"
                     /\ dep'[t] = DependencyTask(b)
  <2>pick. PICK t \in TaskId : /\ status[t] = "absent" /\ status'[t] = "queued"
                              /\ Join(b, t, FALSE)
    BY <1>enqueue DEF EnqueueUnit
  <2>dep. dep'[t] = DependencyTask(b)
    BY <1>enqueue, <2>pick DEF EnqueueUnit, Enqueue, TypeOK, QueueTypeOK
  <2> QED
    BY <1>enqueue, <2>pick, <2>dep DEF EnqueueUnit
<1>join. ASSUME NEW b \in Batch, JoinActive(b)
         PROVE  \E t \in TaskId :
                  /\ Enqueuing(b) /\ ~BehindFailure(b) /\ Join(b, t, TRUE)
                  /\ rows' = rows /\ status'[t] # "absent"
  BY <1>join DEF JoinActive, Holding, Active, queueVars, rowVars
<1>submit. ASSUME NEW b \in Batch,
                  Create(b) \/ SkipDependent(b) \/ EnqueueFails(b) \/ EnqueueEnds(b) \/ Leave(b)
           PROVE  members' = members
  BY <1>submit DEF Create, SkipDependent, EnqueueFails, EnqueueEnds, Leave
<1>caller. ASSUME NEW b \in Batch, WaitEnds(b) \/ BeginCancel(b) \/ EndCancel(b)
           PROVE  members' = members
  BY <1>caller DEF WaitEnds, BeginCancel, EndCancel
<1>wait. ASSUME NEW b \in Batch, NEW u \in Units(b), Waiting(b, u)
         PROVE  members' = members
  BY <1>wait DEF Waiting, ReadEnd, TimeOut, ReadOpen, LookOnline, ReadFails
<1>cancel. ASSUME NEW b \in Batch, NEW t \in TaskId, CancelMember(b, t) PROVE members' = members
  BY <1>cancel DEF CancelMember
<1>worker. ASSUME NEW t \in TaskId, Claim(t) \/ Finish(t) \/ PutBack(t) PROVE members' = members
  BY <1>worker DEF Claim, Finish, PutBack, batchVars
<1>rest. ASSUME Lease \/ Crash \/ UNCHANGED vars PROVE members' = members
  BY <1>rest DEF Lease, Crash, vars, batchVars
<1> QED
  BY <1>enqueue, <1>join, <1>submit, <1>caller, <1>wait, <1>cancel, <1>worker, <1>rest
     DEF Next, Submission

(* The next unit of a batch that enqueues has no member yet. *)
LEMMA NextIsNew ==
  ASSUME TypeOK, BatchInv, NEW b \in Batch, Enqueuing(b)
  PROVE  ~Queued(b, Unit(b).unit) /\ report[b][Unit(b).unit] = "open"
BY NextUnit DEF BatchInv, Accounted, TypeOK

LEMMA OneTaskStep ==
  ASSUME TypeOK, BatchInv, [Next]_vars
  PROVE  OneTaskPerUnit'
<1>same. CASE members' = members
  BY <1>same DEF BatchInv, OneTaskPerUnit
<1>grow. ASSUME NEW b \in Batch, NEW t \in TaskId, NEW d \in BOOLEAN,
                Enqueuing(b), Join(b, t, d)
         PROVE  OneTaskPerUnit'
  BY <1>grow, NextIsNew DEF BatchInv, OneTaskPerUnit, Join, Queued, MemberOf
<1> QED
  BY <1>same, <1>grow, MembersGrow

LEMMA MembersStep ==
  ASSUME TypeOK, BatchInv, [Next]_vars
  PROVE  MembersArePlaced'
<1>rows. ASSUME NEW m \in members PROVE m.batch \in rows'
  <2> DEFINE Kept == rows \subseteq rows'
  <2>submit. ASSUME NEW b \in Batch, Submission(b) PROVE Kept
    BY <2>submit DEF Submission, Create, SkipDependent, EnqueueUnit, JoinActive, EnqueueFails,
       EnqueueEnds
  <2>leave. ASSUME NEW b \in Batch, Leave(b) PROVE m.batch \in rows'
    BY <2>leave DEF Leave, BatchInv, MembersArePlaced, MemberOf
  <2>caller. ASSUME NEW b \in Batch, WaitEnds(b) \/ BeginCancel(b) \/ EndCancel(b) PROVE Kept
    BY <2>caller DEF WaitEnds, BeginCancel, EndCancel
  <2>wait. ASSUME NEW b \in Batch, NEW u \in Units(b), Waiting(b, u) PROVE Kept
    BY <2>wait DEF Waiting, ReadEnd, TimeOut, ReadOpen, LookOnline, ReadFails
  <2>cancel. ASSUME NEW b \in Batch, NEW t \in TaskId, CancelMember(b, t) PROVE Kept
    BY <2>cancel DEF CancelMember
  <2>worker. ASSUME NEW t \in TaskId, Claim(t) \/ Finish(t) \/ PutBack(t) PROVE Kept
    BY <2>worker DEF Claim, Finish, PutBack, batchVars
  <2>rest. ASSUME Lease \/ Crash \/ UNCHANGED vars PROVE Kept
    BY <2>rest DEF Lease, Crash, vars, batchVars
  <2>in. m.batch \in rows
    BY DEF BatchInv, MembersArePlaced
  <2> QED
    BY <2>submit, <2>leave, <2>caller, <2>wait, <2>cancel, <2>worker, <2>rest, <2>in DEF Next
<1>there. ASSUME NEW m \in members PROVE status'[m.task] # "absent"
  BY RowsMove DEF BatchInv, MembersArePlaced, TypeOK
<1>same. CASE members' = members
  BY <1>same, <1>rows, <1>there DEF MembersArePlaced
<1>grow. ASSUME NEW b \in Batch, NEW t \in TaskId, NEW d \in BOOLEAN,
                Enqueuing(b), Join(b, t, d), rows' = rows, status'[t] # "absent"
         PROVE  MembersArePlaced'
  BY <1>grow, <1>there DEF BatchInv, MembersArePlaced, CallersArePlaced, Join, Enqueuing
<1> QED
  BY <1>same, <1>grow, MembersGrow

(* What a new task waits for is what its batch has for the unit in front. *)
LEMMA BehindStep ==
  ASSUME TypeOK, BatchInv, [Next]_vars
  PROVE  BehindItsUnit'
<1>old. ASSUME NEW m \in members, NEW a \in Afters(m.batch, m.unit), ~m.deduped, a \in Units(m.batch),
               members \subseteq members'
        PROVE  \E n \in MemberOf(m.batch)' : n.unit = a /\ dep'[m.task] = n.task
  <2>dep. dep'[m.task] = dep[m.task]
    BY RowsMove DEF BatchInv, MembersArePlaced, TypeOK
  <2> QED
    BY <1>old, <2>dep DEF BatchInv, BehindItsUnit, MemberOf
<1>same. CASE members' = members
  BY <1>same, <1>old DEF BehindItsUnit, Afters, Units
<1>grow. ASSUME NEW b \in Batch, NEW t \in TaskId, NEW d \in BOOLEAN,
                Enqueuing(b), ~BehindFailure(b), Join(b, t, d), ~d => dep'[t] = DependencyTask(b)
         PROVE  BehindItsUnit'
  <2>kept. members \subseteq members'
    BY <1>grow DEF Join
  <2>next. /\ at[b] \in DOMAIN SpecsOf[b]
           /\ Unit(b) = SpecsOf[b][at[b]]
    BY <1>grow, NextUnit DEF BatchInv
  <2>new. ASSUME NEW a \in Afters(b, Unit(b).unit), ~d, a \in Units(b)
          PROVE  \E n \in MemberOf(b)' : n.unit = a /\ dep'[t] = n.task
    <3>after. a = Unit(b).after
      BY <2>new, <2>next, PlaceOfUnit DEF Afters
    <3>place. PICK j \in DOMAIN SpecsOf[b] : SpecsOf[b][j].unit = a
      BY <2>new DEF Units
    <3>before. j < at[b]
      BY <3>after, <3>place, <2>next, BatchOrder
    <3>told. report[b][a] # "open" /\ report[b][a] # "unqueued"
      <4>1. ~(at[b] <= j)
        BY <3>before, RequestLength DEF TypeOK
      <4>2. report[b][a] # "open"
        BY <4>1, <3>place DEF BatchInv, Accounted
      <4>3. report[b][a] # "unqueued"
        BY <1>grow, <2>new, <3>after DEF BehindFailure
      <4> QED
        BY <4>2, <4>3
    <3>queued. Queued(b, a)
      BY <3>told, <3>place DEF BatchInv, Accounted
    <3>member. PICK n \in MemberOf(b) : n.unit = a
      BY <3>queued DEF Queued
    <3>task. TaskOfUnit(b, a) = n.task
      BY <3>member, TaskOfMember DEF BatchInv, MemberOf
    <3>key. a # NoUnit
      BY <2>new, UnitsAreKeys, BatchConstants
    <3> QED
      BY <1>grow, <2>new, <2>kept, <3>after, <3>queued, <3>member, <3>task, <3>key
         DEF DependencyTask, MemberOf
  <2>split. ASSUME NEW m \in members'
            PROVE  m \in members \/ m = [batch |-> b, unit |-> Unit(b).unit, task |-> t, deduped |-> d]
    BY <1>grow DEF Join
  <2>each. ASSUME NEW m \in members', NEW a \in Afters(m.batch, m.unit), ~m.deduped, a \in Units(m.batch)
           PROVE  \E n \in MemberOf(m.batch)' : n.unit = a /\ dep'[m.task] = n.task
    <3>in. CASE m \in members
      BY <2>each, <2>kept, <3>in, <1>old
    <3>out. CASE m = [batch |-> b, unit |-> Unit(b).unit, task |-> t, deduped |-> d]
      BY <2>each, <3>out, <2>new
    <3> QED
      BY <3>in, <3>out, <2>split
  <2> QED
    BY <2>each DEF BehindItsUnit, Afters, Units
<1> QED
  BY <1>same, <1>grow, MembersGrow

LEMMA CancelStep ==
  ASSUME TypeOK, BatchInv, CancelInv, [Next]_vars
  PROVE  CancelInv'
<1>same. ASSUME cancel' = cancel PROVE CancelInv'
  BY <1>same, RowsMove DEF BatchInv, CancelInv, TypeOK
<1>submit. ASSUME NEW b \in Batch, Submission(b) \/ Leave(b) \/ WaitEnds(b) PROVE cancel' = cancel
  BY <1>submit DEF Submission, Create, SkipDependent, EnqueueUnit, JoinActive, EnqueueFails,
     EnqueueEnds, Leave, WaitEnds
<1>begin. ASSUME NEW b \in Batch, BeginCancel(b) PROVE CancelInv'
  BY <1>begin DEF BeginCancel, CancelInv, TypeOK, queueVars, rowVars
<1>end. ASSUME NEW b \in Batch, EndCancel(b) PROVE CancelInv'
  BY <1>end DEF EndCancel, CancelInv, TypeOK, queueVars, rowVars
<1>wait. ASSUME NEW b \in Batch, NEW u \in Units(b), Waiting(b, u) PROVE cancel' = cancel
  BY <1>wait DEF Waiting, ReadEnd, TimeOut, ReadOpen, LookOnline, ReadFails
<1>cancel. ASSUME NEW b \in Batch, NEW t \in TaskId, CancelMember(b, t) PROVE CancelInv'
  <2>ends. ASSUME CancelTask(t) PROVE status'[t] \in Terminal
    BY <2>ends DEF CancelTask, EndWithCascade, Terminal
  <2>stay. \A u \in TaskId : status[u] \in Terminal => status'[u] \in Terminal
    BY RowsMove DEF BatchInv
  <2>how. \/ Done(b, t) /\ status'[t] \in Terminal
          \/ cancel' = [cancel EXCEPT ![b].todo = @ \ {t}, ![b].refused = @ \cup {t}]
    BY <1>cancel, <2>ends, <2>stay DEF CancelMember
  <2>going. cancel[b].state = "going"
    BY <1>cancel DEF CancelMember
  <2>rest. \A c \in Batch : c # b => cancel'[c] = cancel[c]
    BY <2>how DEF Done, TypeOK
  <2>self. /\ cancel'[b].state = "going" /\ cancel'[b].found = cancel[b].found
           /\ cancel'[b].todo = cancel[b].todo \ {t}
           /\ cancel[b].refused \subseteq cancel'[b].refused
           /\ t \in cancel'[b].refused \/ status'[t] \in Terminal
    BY <2>how, <2>going DEF Done, TypeOK
  <2>found. \A c \in Batch : cancel[c].found \subseteq TaskId
    BY DEF TypeOK
  <2> QED
    BY <2>stay, <2>rest, <2>self, <2>found DEF CancelInv
<1>worker. ASSUME NEW t \in TaskId, Claim(t) \/ Finish(t) \/ PutBack(t) PROVE cancel' = cancel
  BY <1>worker DEF Claim, Finish, PutBack, batchVars
<1>lease. ASSUME Lease \/ UNCHANGED vars PROVE cancel' = cancel
  BY <1>lease DEF Lease, vars, batchVars
<1>crash. CASE Crash
  BY <1>crash DEF Crash, NoCancel, CancelInv, TypeOK, queueVars, rowVars
<1> QED
  BY <1>same, <1>submit, <1>begin, <1>end, <1>wait, <1>cancel, <1>worker, <1>lease, <1>crash DEF Next

(* Where a caller is, and whether its batch has a row, go together. *)
LEMMA CallersStep ==
  ASSUME TypeOK, BatchInv, [Next]_vars
  PROVE  CallersArePlaced'
<1> USE DEF TypeOK, BatchInv, CallersArePlaced
<1>same. ASSUME UNCHANGED <<rows, members, phase, at>> PROVE CallersArePlaced'
  BY <1>same DEF MemberOf
<1>step. ASSUME NEW b \in Batch, Enqueuing(b), NEW outcome \in Outcomes, Step(b, outcome),
                UNCHANGED <<rows, phase>>, MemberOf(b)' = MemberOf(b) \/ MemberOf(b)' # {},
                \A c \in Batch : c # b => MemberOf(c)' = MemberOf(c)
         PROVE  CallersArePlaced'
  BY <1>step DEF Step, Enqueuing
<1>skip. ASSUME NEW b \in Batch, SkipDependent(b) PROVE CallersArePlaced'
  BY <1>skip, <1>step DEF SkipDependent, MemberOf, Outcomes
<1>join. ASSUME NEW b \in Batch, EnqueueUnit(b) \/ JoinActive(b) PROVE CallersArePlaced'
  <2>in. PICK t \in TaskId, d \in BOOLEAN : Join(b, t, d)
    BY <1>join DEF EnqueueUnit, JoinActive, Holding
  <2>more. MemberOf(b)' # {} /\ \A c \in Batch : c # b => MemberOf(c)' = MemberOf(c)
    <3> DEFINE new == [batch |-> b, unit |-> Unit(b).unit, task |-> t, deduped |-> d]
    <3>1. MemberOf(b)' = MemberOf(b) \cup {new}
      BY <2>in DEF Join, MemberOf
    <3>2. \A c \in Batch : c # b => MemberOf(c)' = MemberOf(c)
      BY <2>in DEF Join, MemberOf
    <3> QED
      BY <3>1, <3>2
  <2> QED
    BY <1>join, <1>step, <2>more DEF EnqueueUnit, JoinActive, Outcomes
<1>fails. ASSUME NEW b \in Batch, EnqueueFails(b) PROVE CallersArePlaced'
  <2>stops. CASE b \in Stops
    BY SMTT(30), <1>fails, <2>stops, RequestLength DEF EnqueueFails, MemberOf, Enqueuing
  <2>goes. CASE b \notin Stops
    BY <1>fails, <2>goes, <1>step DEF EnqueueFails, MemberOf, Outcomes
  <2> QED
    BY <2>stops, <2>goes
<1>create. ASSUME NEW b \in Batch, Create(b) PROVE CallersArePlaced'
  BY <1>create DEF Create, MemberOf
<1>ends. ASSUME NEW b \in Batch, EnqueueEnds(b) PROVE CallersArePlaced'
  BY <1>ends DEF EnqueueEnds, MemberOf
<1>leave. ASSUME NEW b \in Batch, Leave(b) PROVE CallersArePlaced'
  BY <1>leave DEF Leave, MemberOf
<1>waitends. ASSUME NEW b \in Batch, WaitEnds(b) PROVE CallersArePlaced'
  BY <1>waitends DEF WaitEnds, MemberOf
<1>caller. ASSUME NEW b \in Batch, BeginCancel(b) \/ EndCancel(b) PROVE CallersArePlaced'
  BY <1>caller, <1>same DEF BeginCancel, EndCancel
<1>wait. ASSUME NEW b \in Batch, NEW u \in Units(b), Waiting(b, u) PROVE CallersArePlaced'
  BY <1>wait, <1>same DEF Waiting, ReadEnd, TimeOut, ReadOpen, LookOnline, ReadFails
<1>cancel. ASSUME NEW b \in Batch, NEW t \in TaskId, CancelMember(b, t) PROVE CallersArePlaced'
  BY <1>cancel, <1>same DEF CancelMember
<1>worker. ASSUME NEW t \in TaskId, Claim(t) \/ Finish(t) \/ PutBack(t) PROVE CallersArePlaced'
  BY <1>worker, <1>same DEF Claim, Finish, PutBack, batchVars
<1>lease. ASSUME Lease \/ UNCHANGED vars PROVE CallersArePlaced'
  BY <1>lease, <1>same DEF Lease, vars, batchVars
<1>crash. CASE Crash
  BY <1>crash DEF Crash, MemberOf
<1> QED
  BY <1>skip, <1>join, <1>fails, <1>create, <1>ends, <1>leave, <1>waitends, <1>caller, <1>wait,
     <1>cancel, <1>worker, <1>lease, <1>crash DEF Next, Submission

(* What a step tells of the units of a batch: nothing; the next unit is    *)
(* done; all that is left is given up; or the wait of one unit ended.      *)
Still(c) == at'[c] = at[c] /\ report'[c] = report[c] /\ MemberOf(c)' = MemberOf(c)
NextDone(c) ==
  /\ Enqueuing(c) /\ at'[c] = at[c] + 1
  /\ \/ /\ report'[c] = [report[c] EXCEPT ![Unit(c).unit] = "unqueued"]
        /\ MemberOf(c)' = MemberOf(c)
     \/ /\ report'[c] = [report[c] EXCEPT ![Unit(c).unit] = "queued"]
        /\ \E n : n.unit = Unit(c).unit /\ MemberOf(c)' = MemberOf(c) \cup {n}
GivenUp(c) ==
  /\ Enqueuing(c) /\ at'[c] = Len(SpecsOf[c]) + 1 /\ MemberOf(c)' = MemberOf(c)
  /\ report'[c] = [u \in Units(c) |->
                     IF \E i \in at[c]..Len(SpecsOf[c]) : SpecsOf[c][i].unit = u
                     THEN "unqueued" ELSE report[c][u]]
Heard(c, u, outcome) ==
  /\ at'[c] = at[c] /\ MemberOf(c)' = MemberOf(c)
  /\ report[c][u] = "queued" /\ report'[c] = [report[c] EXCEPT ![u] = outcome]
  /\ \/ outcome \in {"interrupted", "unread"}
     \/ outcome = status[TaskOfUnit(c, u)] /\ outcome \in Terminal

LEMMA WhatIsTold ==
  ASSUME TypeOK, BatchInv, [Next]_vars, NEW c \in Batch
  PROVE  \/ Still(c) \/ NextDone(c) \/ GivenUp(c)
         \/ \E u \in Units(c), outcome \in Outcomes : Heard(c, u, outcome)
<1> DEFINE Goal == \/ Still(c) \/ NextDone(c) \/ GivenUp(c)
                   \/ \E u \in Units(c), outcome \in Outcomes : Heard(c, u, outcome)
<1> USE DEF TypeOK
<1>same. ASSUME UNCHANGED <<members, at, report>> PROVE Goal
  BY <1>same DEF Still, MemberOf
<1>skip. ASSUME NEW b \in Batch, SkipDependent(b) PROVE Goal
  BY <1>skip DEF SkipDependent, Step, Still, NextDone, MemberOf
<1>join. ASSUME NEW b \in Batch, EnqueueUnit(b) \/ JoinActive(b) PROVE Goal
  <2>in. PICK t \in TaskId, d \in BOOLEAN : Join(b, t, d)
    BY <1>join DEF EnqueueUnit, JoinActive, Holding
  <2> DEFINE new == [batch |-> b, unit |-> Unit(b).unit, task |-> t, deduped |-> d]
  <2>self. MemberOf(b)' = MemberOf(b) \cup {new} /\ new.unit = Unit(b).unit
    BY <2>in DEF Join, MemberOf
  <2>other. c # b => MemberOf(c)' = MemberOf(c)
    BY <2>in DEF Join, MemberOf
  <2> HIDE DEF new
  <2>step. Enqueuing(b) /\ Step(b, "queued")
    BY <1>join DEF EnqueueUnit, JoinActive
  <2>apart. c # b => Still(c)
    BY <2>step, <2>other DEF Step, Still
  <2>here. NextDone(b)
    BY <2>step, <2>self DEF Step, NextDone
  <2> QED
    BY <2>apart, <2>here
<1>fails. ASSUME NEW b \in Batch, EnqueueFails(b) PROVE Goal
  <2>stops. CASE b \in Stops
    <3> DEFINE GivenTo(u) == IF \E i \in at[b]..Len(SpecsOf[b]) : SpecsOf[b][i].unit = u
                             THEN "unqueued" ELSE report[b][u]
               R == [u \in Units(b) |-> GivenTo(u)]
    <3>eq. /\ report' = [report EXCEPT ![b] = R] /\ at' = [at EXCEPT ![b] = Len(SpecsOf[b]) + 1]
           /\ members' = members /\ Enqueuing(b)
      BY <1>fails, <2>stops DEF EnqueueFails
    <3> HIDE DEF R
    <3>1. c # b => Still(c)
      BY <3>eq DEF Still, MemberOf
    <3>2. report'[b] = R /\ at'[b] = Len(SpecsOf[b]) + 1
      BY <3>eq
    <3>3. GivenUp(b)
      BY <3>eq, <3>2 DEF GivenUp, R, MemberOf
    <3> QED
      BY <3>1, <3>3
  <2>goes. CASE b \notin Stops
    BY <1>fails, <2>goes DEF EnqueueFails, MemberOf, Still, NextDone, Step
  <2> QED
    BY <2>stops, <2>goes
<1>create. ASSUME NEW b \in Batch, Create(b) \/ EnqueueEnds(b) \/ Leave(b) \/ WaitEnds(b) PROVE Goal
  BY <1>create, <1>same DEF Create, EnqueueEnds, Leave, WaitEnds
<1>caller. ASSUME NEW b \in Batch, BeginCancel(b) \/ EndCancel(b) PROVE Goal
  BY <1>caller, <1>same DEF BeginCancel, EndCancel
<1>told. ASSUME NEW b \in Batch, NEW u \in Units(b), NEW outcome \in Outcomes, Told(b, u, outcome),
                UNCHANGED <<members, at>>, report[b][u] = "queued",
                \/ outcome \in {"interrupted", "unread"}
                \/ outcome = status[TaskOfUnit(b, u)] /\ outcome \in Terminal
         PROVE  Goal
  <2>apart. c # b => Still(c)
    BY <1>told DEF Told, Still, MemberOf
  <2>here. Heard(b, u, outcome)
    BY <1>told DEF Told, Heard, MemberOf
  <2> QED
    BY <2>apart, <2>here
<1>readend. ASSUME NEW b \in Batch, NEW u \in Units(b), ReadEnd(b, u) PROVE Goal
  BY <1>readend, <1>told DEF ReadEnd, Polling, Outcomes
<1>timeout. ASSUME NEW b \in Batch, NEW u \in Units(b), TimeOut(b, u) PROVE Goal
  BY <1>timeout, <1>told DEF TimeOut, Polling, Outcomes
<1>readopen. ASSUME NEW b \in Batch, NEW u \in Units(b), ReadOpen(b, u) PROVE Goal
  BY <1>readopen, <1>same DEF ReadOpen
<1>look. ASSUME NEW b \in Batch, NEW u \in Units(b), LookOnline(b, u) PROVE Goal
  <2>1. report[b][u] = "queued"
    BY <1>look DEF LookOnline, BatchInv, LooksAreOpen
  <2> QED
    BY <1>look, <2>1, <1>told, <1>same DEF LookOnline, Outcomes
<1>unread. ASSUME NEW b \in Batch, NEW u \in Units(b), ReadFails(b, u) PROVE Goal
  BY <1>unread, <1>told DEF ReadFails, Polling, Outcomes
<1>cancel. ASSUME NEW b \in Batch, NEW t \in TaskId, CancelMember(b, t) PROVE Goal
  BY <1>cancel, <1>same DEF CancelMember
<1>worker. ASSUME NEW t \in TaskId, Claim(t) \/ Finish(t) \/ PutBack(t) PROVE Goal
  BY <1>worker, <1>same DEF Claim, Finish, PutBack, batchVars
<1>rest. ASSUME Lease \/ Crash \/ UNCHANGED vars PROVE Goal
  BY <1>rest, <1>same DEF Lease, Crash, vars, batchVars
<1> QED
  BY <1>skip, <1>join, <1>fails, <1>create, <1>caller, <1>readend, <1>timeout, <1>readopen, <1>look, <1>unread,
     <1>cancel, <1>worker, <1>rest DEF Next, Submission, Waiting

(* What is known of the units of one batch. *)
AccountOf(b, i, u) ==
  /\ report[b][u] = "open" <=> at[b] <= i
  /\ report[b][u] \in {"open", "unqueued"} <=> ~Queued(b, u)
  /\ \A m \in MemberOf(b) :
       m.unit = u /\ report[b][u] \in Terminal => status[m.task] = report[b][u]

LEMMA AccountsStep ==
  ASSUME TypeOK, BatchInv, [Next]_vars
  PROVE  Accounted'
<1>batch. ASSUME NEW c \in Batch, NEW i \in DOMAIN SpecsOf[c], NEW u, u = SpecsOf[c][i].unit
          PROVE  AccountOf(c, i, u)'
  <2>now. AccountOf(c, i, u)
    BY <1>batch DEF BatchInv, Accounted, AccountOf
  <2>unit. u \in Units(c) /\ i \in 1..Len(SpecsOf[c])
    BY <1>batch, RequestLength DEF Units
  <2>nats. i \in Nat /\ at[c] \in Nat /\ Len(SpecsOf[c]) \in Nat
    BY <2>unit, RequestLength DEF TypeOK
  <2>kept. \A m \in MemberOf(c) : status[m.task] \in Terminal => status'[m.task] = status[m.task]
    BY RowsMove DEF BatchInv, MemberOf, TypeOK
  <2>still. CASE Still(c)
    BY <2>still, <2>now, <2>kept DEF Still, AccountOf, Queued
  <2>next. CASE NextDone(c)
    <3>place. /\ at[c] \in DOMAIN SpecsOf[c] /\ Unit(c) = SpecsOf[c][at[c]]
              /\ Unit(c).unit \in Units(c)
      BY <2>next, NextUnit DEF NextDone, BatchInv
    <3>self. u = Unit(c).unit <=> i = at[c]
      BY <1>batch, <3>place, PlaceOfUnit
    <3>new. ~Queued(c, Unit(c).unit)
      BY <2>next, NextIsNew DEF NextDone
    <3>rep. report[c] \in [Units(c) -> Outcomes]
      BY DEF TypeOK
    <3>other. CASE u # Unit(c).unit
      <4>1. report'[c][u] = report[c][u]
        BY <2>next, <2>unit, <3>other, <3>rep DEF NextDone
      <4>2. at'[c] <= i <=> at[c] <= i
        BY <2>next, <2>nats, <3>self, <3>other DEF NextDone
      <4>3. \A m : m.unit = u => (m \in MemberOf(c)' <=> m \in MemberOf(c))
        BY <2>next, <3>other DEF NextDone
      <4> QED
        BY <2>now, <2>kept, <4>1, <4>2, <4>3 DEF AccountOf, Queued
    <3>here. CASE u = Unit(c).unit
      <4>1. ~(at'[c] <= i)
        BY <2>next, <2>nats, <3>self, <3>here DEF NextDone
      <4>2. \/ report'[c][u] = "unqueued" /\ ~Queued(c, u)'
            \/ report'[c][u] = "queued" /\ Queued(c, u)'
        BY <2>next, <2>unit, <3>here, <3>new, <3>rep DEF NextDone, Queued
      <4> QED
        BY <4>1, <4>2 DEF AccountOf, Terminal
    <3> QED
      BY <3>other, <3>here
  <2>given. CASE GivenUp(c)
    <3>1. (\E j \in at[c]..Len(SpecsOf[c]) : SpecsOf[c][j].unit = u) <=> at[c] <= i
      <4>1. ASSUME NEW j \in at[c]..Len(SpecsOf[c]), SpecsOf[c][j].unit = u PROVE at[c] <= i
        <5>1. j \in DOMAIN SpecsOf[c]
          BY <2>nats, RequestLength DEF BatchInv, CallersArePlaced
        <5>2. j = i
          BY <1>batch, <4>1, <5>1, PlaceOfUnit
        <5> QED
          BY <5>2, <2>nats
      <4>2. ASSUME at[c] <= i PROVE i \in at[c]..Len(SpecsOf[c])
        BY <4>2, <2>nats, <2>unit
      <4> QED
        BY <1>batch, <4>1, <4>2
    <3>2. report'[c][u] = IF at[c] <= i THEN "unqueued" ELSE report[c][u]
      BY <2>given, <2>unit, <3>1 DEF GivenUp
    <3>3. ~(at'[c] <= i)
      BY <2>given, <2>nats, <2>unit DEF GivenUp
    <3> QED
      BY <2>given, <2>now, <2>kept, <3>2, <3>3 DEF GivenUp, AccountOf, Queued, Terminal
  <2>heard. ASSUME NEW v \in Units(c), NEW outcome \in Outcomes, Heard(c, v, outcome)
            PROVE  AccountOf(c, i, u)'
    <3>rep. report[c] \in [Units(c) -> Outcomes]
      BY DEF TypeOK
    <3>other. CASE u # v
      <4>1. report'[c][u] = report[c][u]
        BY <2>heard, <2>unit, <3>other, <3>rep DEF Heard
      <4> QED
        BY <2>heard, <2>now, <2>kept, <4>1 DEF AccountOf, Queued, Heard
    <3>here. CASE u = v
      <4>1. report'[c][u] = outcome /\ report[c][u] = "queued" /\ at'[c] = at[c]
        BY <2>heard, <2>unit, <3>here, <3>rep DEF Heard
      <4>2. outcome \notin {"open", "unqueued"}
        BY <2>heard DEF Heard, Terminal
      <4>3. Queued(c, u)' <=> Queued(c, u)
        BY <2>heard DEF Heard, Queued
      <4>4. ASSUME NEW m \in MemberOf(c)', m.unit = u, outcome \in Terminal
            PROVE  status'[m.task] = outcome
        <5>1. m \in MemberOf(c) /\ m \in members /\ m.batch = c
          BY <2>heard, <4>4 DEF Heard, MemberOf
        <5>2. TaskOfUnit(c, u) = m.task
          BY <4>4, <5>1, TaskOfMember DEF BatchInv
        <5>3. outcome = status[TaskOfUnit(c, u)]
          BY <2>heard, <3>here, <4>4 DEF Heard, Terminal
        <5> QED
          BY <2>kept, <4>4, <5>1, <5>2, <5>3
      <4> QED
        BY <2>now, <4>1, <4>2, <4>3, <4>4 DEF AccountOf, Queued
    <3> QED
      BY <3>other, <3>here
  <2> QED
    BY <2>still, <2>next, <2>given, <2>heard, WhatIsTold
<1> QED
  BY <1>batch DEF Accounted, AccountOf

(* A wait looks only while its unit is queued: nothing else is told of it. *)
LEMMA LooksStep ==
  ASSUME TypeOK, BatchInv, [Next]_vars
  PROVE  LooksAreOpen'
<1> DEFINE Held(w) == w[2] \in Units(w[1]) /\ report'[w[1]][w[2]] = "queued"
<1>pairs. \A w \in open : w = <<w[1], w[2]>> /\ w[1] \in Batch
  BY DEF TypeOK
<1>held. \A w \in open : w[2] \in Units(w[1]) /\ report[w[1]][w[2]] = "queued"
  BY DEF BatchInv, LooksAreOpen
<1>reports. DOMAIN report = Batch /\ \A b \in Batch : report[b] \in [Units(b) -> Outcomes]
  BY DEF TypeOK
<1>same. ASSUME open' \subseteq open, UNCHANGED report PROVE LooksAreOpen'
  BY <1>same, <1>held DEF LooksAreOpen, Units
<1>told. ASSUME NEW b \in Batch, NEW u \in Units(b), NEW outcome \in Outcomes,
                Told(b, u, outcome), open' \subseteq open \ {<<b, u>>}
         PROVE  LooksAreOpen'
  <2>1. ASSUME NEW w \in open, w # <<b, u>> PROVE Held(w)
    <3>1. w[1] # b \/ w[2] # u
      BY <2>1, <1>pairs
    <3>2. report'[w[1]][w[2]] = report[w[1]][w[2]]
      BY <1>told, <1>pairs, <1>held, <1>reports, <3>1 DEF Told
    <3> QED
      BY <3>2, <1>held
  <2> QED
    BY <1>told, <2>1 DEF LooksAreOpen, Units
<1>step. ASSUME NEW b \in Batch, Enqueuing(b), NEW outcome \in Outcomes, Step(b, outcome), open' = open
         PROVE  LooksAreOpen'
  <2>1. Unit(b).unit \in Units(b) /\ report[b][Unit(b).unit] = "open"
    BY <1>step, NextUnit, NextIsNew DEF BatchInv
  <2>2. <<b, Unit(b).unit>> \notin open
    BY <2>1, <1>held
  <2>3. Told(b, Unit(b).unit, outcome)
    BY <1>step DEF Step, Told
  <2> QED
    BY <1>step, <1>told, <2>1, <2>2, <2>3
<1>enqueue. ASSUME NEW b \in Batch, SkipDependent(b) \/ EnqueueUnit(b) \/ JoinActive(b)
            PROVE  LooksAreOpen'
  BY <1>enqueue, <1>step DEF SkipDependent, EnqueueUnit, JoinActive, Outcomes
<1>fails. ASSUME NEW b \in Batch, EnqueueFails(b) PROVE LooksAreOpen'
  <2>stops. CASE b \in Stops
    <3> DEFINE Given(u) == IF \E i \in at[b]..Len(SpecsOf[b]) : SpecsOf[b][i].unit = u
                              THEN "unqueued" ELSE report[b][u]
               R == [u \in Units(b) |-> Given(u)]
    <3>eq. report' = [report EXCEPT ![b] = R] /\ open' = open
      BY <1>fails, <2>stops DEF EnqueueFails
    <3>queued. ASSUME NEW u \in Units(b), report[b][u] = "queued" PROVE R[u] = "queued"
      <4>1. ASSUME NEW i \in at[b]..Len(SpecsOf[b]), SpecsOf[b][i].unit = u PROVE FALSE
        <5>1. i \in DOMAIN SpecsOf[b] /\ at[b] <= i
          BY RequestLength DEF BatchInv, CallersArePlaced, TypeOK
        <5> QED
          BY <3>queued, <4>1, <5>1 DEF BatchInv, Accounted
      <4> QED
        BY <3>queued, <4>1
    <3> HIDE DEF R
    <3>each. ASSUME NEW w \in open PROVE Held(w)
      BY <3>eq, <3>queued, <1>held, <1>pairs, <1>reports
    <3> QED
      BY <3>eq, <3>each DEF LooksAreOpen, Units
  <2>goes. CASE b \notin Stops
    BY <1>fails, <2>goes, <1>step DEF EnqueueFails, Outcomes
  <2> QED
    BY <2>stops, <2>goes
<1>caller. ASSUME NEW b \in Batch,
                  \/ Create(b) \/ EnqueueEnds(b) \/ Leave(b) \/ WaitEnds(b)
                  \/ BeginCancel(b) \/ EndCancel(b)
           PROVE  LooksAreOpen'
  BY <1>caller, <1>same DEF Create, EnqueueEnds, Leave, WaitEnds, BeginCancel, EndCancel
<1>read. ASSUME NEW b \in Batch, NEW u \in Units(b), ReadEnd(b, u) \/ TimeOut(b, u)
         PROVE  LooksAreOpen'
  BY <1>read, <1>told DEF ReadEnd, TimeOut, Outcomes
<1>readopen. ASSUME NEW b \in Batch, NEW u \in Units(b), ReadOpen(b, u) PROVE LooksAreOpen'
  BY <1>readopen, <1>held DEF ReadOpen, Polling, LooksAreOpen, Units
<1>look. ASSUME NEW b \in Batch, NEW u \in Units(b), LookOnline(b, u) PROVE LooksAreOpen'
  BY <1>look, <1>same, <1>told DEF LookOnline, Outcomes
<1>unread. ASSUME NEW b \in Batch, NEW u \in Units(b), ReadFails(b, u) PROVE LooksAreOpen'
  BY <1>unread, <1>told DEF ReadFails, Outcomes
<1>cancel. ASSUME NEW b \in Batch, NEW t \in TaskId, CancelMember(b, t) PROVE LooksAreOpen'
  BY <1>cancel, <1>same DEF CancelMember
<1>worker. ASSUME NEW t \in TaskId, Claim(t) \/ Finish(t) \/ PutBack(t) PROVE LooksAreOpen'
  BY <1>worker, <1>same DEF Claim, Finish, PutBack, batchVars
<1>rest. ASSUME Lease \/ Crash \/ UNCHANGED vars PROVE LooksAreOpen'
  BY <1>rest, <1>same DEF Lease, Crash, vars, batchVars
<1> QED
  BY <1>enqueue, <1>fails, <1>caller, <1>read, <1>readopen, <1>look, <1>unread, <1>cancel, <1>worker, <1>rest
     DEF Next, Submission, Waiting

-----------------------------------------------------------------------------
LEMMA BatchStarts == Init => TypeOK /\ BatchInv /\ CancelInv
<1>1. ASSUME Init PROVE TypeOK
  <2>1. ASSUME NEW b \in Batch PROVE [u \in Units(b) |-> "open"] \in [Units(b) -> Outcomes]
    BY DEF Outcomes
  <2> QED
    BY <1>1, <2>1 DEF Init, TypeOK, QueueInit, QueueTypeOK, Phases, NoCancel, Status, Reasons
<1>2. ASSUME Init PROVE BatchInv
  <2>1. Accounted
    <3>1. ASSUME NEW b \in Batch, NEW i \in DOMAIN SpecsOf[b]
          PROVE  report[b][SpecsOf[b][i].unit] = "open" /\ at[b] <= i
      BY <1>2, RequestLength DEF Init, Units
    <3> QED
      BY <1>2, <3>1 DEF Accounted, Init, Queued, MemberOf, Terminal
  <2> QED
    BY <1>2, <2>1 DEF Init, BatchInv, OneTaskPerUnit, MembersArePlaced, BehindItsUnit,
       CallersArePlaced, LooksAreOpen
<1>3. ASSUME Init PROVE CancelInv
  BY <1>3 DEF Init, CancelInv, NoCancel
<1> QED
  BY <1>1, <1>2, <1>3

LEMMA BatchInductive == Spec => [](TypeOK /\ BatchInv /\ CancelInv)
<1>step. TypeOK /\ BatchInv /\ CancelInv /\ [Next]_vars => (TypeOK /\ BatchInv /\ CancelInv)'
  <2> SUFFICES ASSUME TypeOK, BatchInv, CancelInv, [Next]_vars
               PROVE  (TypeOK /\ BatchInv /\ CancelInv)'
    OBVIOUS
  <2>type. TypeOK'
    BY BatchTypeStep DEF BatchInv
  <2>inv. BatchInv'
    BY OneTaskStep, MembersStep, AccountsStep, LooksStep, BehindStep, CallersStep DEF BatchInv
  <2> QED
    BY <2>type, <2>inv, CancelStep
<1> QED
  BY BatchStarts, <1>step, PTL DEF Spec

(* A batch is a client of the queue: every step of its submission, its     *)
(* cancellation and its waits is a transaction of the queue, or none.      *)
THEOREM BatchIsQueue == Spec => QueueSpec
<1>init. Init => QueueInit
  BY DEF Init
<1>step. TypeOK /\ BatchInv /\ [Next]_vars => [QueueNext]_queueVars
  BY StepIsQueue DEF BatchInv
<1> QED
  BY BatchInductive, <1>init, <1>step, PTL DEF Spec, QueueSpec

(* Batches keep the rows sound: no two active rows of a key, nothing ahead *)
(* of its dependency, nothing left behind a dead one (RowsAreSound).       *)
THEOREM BatchKeepsRows == Spec => []RowsAreSound
BY BatchIsQueue, RowsSound, PTL

(* A task a batch created behind one of its units runs only after the task *)
(* of that unit succeeded, whether that was new or joined                  *)
(* (CreatedRunsInOrder: enqueue_batch and claim_next together).            *)
THEOREM OrderKept == Spec => []CreatedRunsInOrder
<1>order. TypeOK /\ BatchInv /\ DependencyRespected => CreatedRunsInOrder
  <2> SUFFICES ASSUME TypeOK, BatchInv, DependencyRespected,
                      NEW m \in members, NEW a \in Afters(m.batch, m.unit),
                      ~m.deduped, a \in Units(m.batch), status[m.task] \in {"running", "succeeded"}
               PROVE  Queued(m.batch, a) /\ status[TaskOfUnit(m.batch, a)] = "succeeded"
    BY DEF CreatedRunsInOrder
  <2>front. PICK n \in MemberOf(m.batch) : n.unit = a /\ dep[m.task] = n.task
    BY DEF BatchInv, BehindItsUnit
  <2>task. TaskOfUnit(m.batch, a) = n.task /\ n.task \in TaskId /\ m.task \in TaskId
    BY <2>front, TaskOfMember DEF BatchInv, MemberOf, TypeOK
  <2>dep. dep[m.task] # NoDep
    BY <2>front, <2>task DEF TaskId, NoDep
  <2> QED
    BY <2>front, <2>task, <2>dep DEF DependencyRespected, Queued
<1>rows. RowsAreSound => DependencyRespected
  BY DEF RowsAreSound
<1> QED
  BY BatchInductive, BatchKeepsRows, <1>order, <1>rows, PTL

(* A cancellation that is over left none of what it found in the queue but *)
(* what it was refused (CancelIsThorough: cancel_batch, cancel_task).      *)
THEOREM CancelThorough == Spec => []CancelIsThorough
<1>thorough. CancelInv => CancelIsThorough
  BY DEF CancelInv, CancelIsThorough, Terminal
<1> QED
  BY BatchInductive, <1>thorough, PTL

(* What a caller is told of each unit is what became of it, and no batch   *)
(* with a task is lost (AnswersAreTrue: enqueue_batch, the waits and       *)
(* delete_if_empty).                                                       *)
THEOREM AnswersTrue == Spec => []AnswersAreTrue
<1>answers. TypeOK /\ BatchInv => AnswersAreTrue
  <2> SUFFICES ASSUME TypeOK, BatchInv PROVE AnswerIsTrue /\ NoEmptyOrLostBatch
    BY DEF AnswersAreTrue
  <2>answer. ASSUME NEW b \in Batch, phase[b] = "answered", NEW u \in Units(b)
             PROVE  /\ report[b][u] # "open"
                    /\ report[b][u] = "unqueued" <=> ~Queued(b, u)
                    /\ report[b][u] \in Terminal => status[TaskOfUnit(b, u)] = report[b][u]
    <3>place. PICK i \in DOMAIN SpecsOf[b] : SpecsOf[b][i].unit = u
      BY DEF Units
    <3>past. ~(at[b] <= i)
      BY <2>answer, RequestLength DEF BatchInv, CallersArePlaced, TypeOK
    <3>account. /\ report[b][u] = "open" <=> at[b] <= i
                /\ report[b][u] \in {"open", "unqueued"} <=> ~Queued(b, u)
                /\ \A m \in MemberOf(b) :
                     m.unit = u /\ report[b][u] \in Terminal => status[m.task] = report[b][u]
      BY <3>place DEF BatchInv, Accounted
    <3>end. ASSUME report[b][u] \in Terminal PROVE status[TaskOfUnit(b, u)] = report[b][u]
      <4>1. Queued(b, u)
        BY <3>end, <3>account DEF Terminal
      <4>2. PICK m \in MemberOf(b) : m.unit = u
        BY <4>1 DEF Queued
      <4>3. TaskOfUnit(b, u) = m.task
        BY <4>2, TaskOfMember DEF BatchInv, MemberOf
      <4> QED
        BY <3>end, <3>account, <4>2, <4>3
    <3> QED
      BY <3>past, <3>account, <3>end
  <2>batches. NoEmptyOrLostBatch
    BY DEF NoEmptyOrLostBatch, BatchInv, MembersArePlaced, CallersArePlaced, MemberOf
  <2> QED
    BY <2>answer, <2>batches DEF AnswerIsTrue
<1> QED
  BY BatchInductive, <1>answers, PTL

-----------------------------------------------------------------------------
(* The end of a project. *)

(* Where each request can stand, and which of them has the transaction. *)
InTransaction == {"moveOld", "moveNew", "commit", "abort"}
RequestsStand ==
  \A o \in Ops :
    /\ op[o] \in InTransaction <=> writer = o
    /\ o = "create" => op[o] \in {"idle", "publish"}
    /\ o = "delete" => op[o] \in {"idle", "commit", "abort", "remove", "removing"}
    /\ o = "import" => op[o] \notin {"publish", "remove", "removing"}
    /\ o = "import" /\ op[o] \in {"moveNew", "commit", "discard", "restore"} => swap.old # 0

(* A coroutine works on a running row until it has failed it. *)
Working == Places \ {"none", "residue", "sweeping"}
RowsOfCoroutines ==
  \A t \in Tasks :
    /\ co[t] \in Working => row[t] = "running"
    /\ co[t] \in {"residue", "sweeping"} => row[t] = "deleted"
    /\ t \in orphans => row[t] = "running" /\ co[t] = "none"

(* An open retirement has revoked what runs under the name, and knows it. *)
OpenRetirement ==
  /\ writer = "none" => ids = {}
  /\ writer # "none" => Running \subseteq revoked
  /\ \A t \in ids : row[t] = "running" /\ t \notin tomb

ClaimInv == /\ RequestsStand
            /\ RowsOfCoroutines
            /\ OpenRetirement
            /\ RetiredIsRevoked
            /\ RevokedIsRetired

RetirementInv == RetirementTypeOK /\ ClaimInv /\ InheritsNothing

-----------------------------------------------------------------------------
LEMMA RetirementStarts == RetirementInit => RetirementInv
<1> SUFFICES ASSUME RetirementInit PROVE RetirementInv
  OBVIOUS
<1> USE DEF RetirementInit, NoSwap
<1>type. RetirementTypeOK
  BY RetirementAssumption DEF RetirementTypeOK, Places, Finished
<1>claims. ClaimInv
  BY RetirementAssumption DEF ClaimInv, RequestsStand, RowsOfCoroutines, OpenRetirement, RetiredIsRevoked,
     RevokedIsRetired, InTransaction, Working, Places
<1>names. InheritsNothing
  BY DEF InheritsNothing
<1> QED
  BY <1>type, <1>claims, <1>names DEF RetirementInv

(* What the coroutine of a task does leaves requests and transaction alone. *)
CoroutineStep(t) ==
  \/ GetProjectPath(t) \/ Drift(t) \/ Stage(t) \/ Raise(t) \/ ProjectMetadataLock(t)
  \/ WriteFormal(t) \/ Judge(t) \/ LookForProject(t) \/ Sweep(t)

RowStep(t) == Ask(t) \/ Insert(t) \/ ClaimTask(t) \/ Settle(t) \/ FailTaskOfDeletedProject(t) \/ Resume(t)

RequestStep(o) == BeginRetirement(o) \/ CommitRetirement(o) \/ CommitFails(o) \/ Rollback(o)

DirectoryStep ==
  \/ RemoveDirectory \/ RemoveRest \/ MoveOldAside \/ MoveNewIn \/ DiscardNew \/ RestoreOld
  \/ ImportNew \/ InstallNew \/ MakeDirectory \/ Publish

LEMMA NextSplits ==
  ASSUME RetirementNext
  PROVE  \/ \E t \in Tasks : CoroutineStep(t) \/ RowStep(t)
         \/ \E o \in Ops : RequestStep(o)
         \/ DirectoryStep \/ ServerStops
<1>task. ASSUME NEW t \in Tasks, Ask(t) \/ Insert(t) \/ ClaimTask(t) \/ Drift(t) \/ TaskStep(t)
         PROVE  CoroutineStep(t) \/ RowStep(t)
  BY <1>task DEF TaskStep, CoroutineStep, RowStep
<1>op. ASSUME OpStep PROVE (\E o \in Ops : RequestStep(o)) \/ DirectoryStep
  BY <1>op DEF OpStep, RequestStep, DirectoryStep
<1> QED
  BY <1>task, <1>op DEF RetirementNext, RequestStep, DirectoryStep

-----------------------------------------------------------------------------
(* The types. *)
LEMMA CoroutineType ==
  ASSUME RetirementTypeOK, RequestsStand, NEW t \in Tasks, CoroutineStep(t)
  PROVE  RetirementTypeOK'
<1> USE RetirementAssumption DEF RetirementTypeOK, Places, Goto, LeaveClaim
<1>look. CASE GetProjectPath(t)
  BY <1>look DEF GetProjectPath, taskRows, dirs, reqs, caps
<1>drift. CASE Drift(t)
  BY <1>drift DEF Drift, taskRows, dirs, reqs
<1>raise. CASE Raise(t)
  BY <1>raise DEF Raise, taskRows, dirs, reqs, caps
<1>lock. CASE ProjectMetadataLock(t)
  BY <1>lock DEF ProjectMetadataLock, taskRows, dirs, reqs, caps
<1>stage. CASE Stage(t)
  BY <1>stage DEF Stage, taskRows, reqs, caps
<1>write. CASE WriteFormal(t)
  <2>named. named = 0 \/ named \in 1..fresh
    OBVIOUS
  <2>held. held' = held \/ (named # 0 /\ held' = held \cup {named})
    BY <1>write DEF WriteFormal
  <2>co. co' \in [Tasks -> Places]
    BY <1>write DEF WriteFormal
  <2> QED
    BY <1>write, <2>named, <2>held, <2>co DEF WriteFormal, taskRows, reqs, caps
<1>judge. CASE Judge(t)
  BY <1>judge DEF Judge, taskRows, dirs, reqs, caps
<1>residue. CASE LookForProject(t)
  BY <1>residue DEF LookForProject, taskRows, dirs, reqs, caps
<1>sweep. CASE Sweep(t)
  BY <1>sweep DEF Sweep, taskRows, reqs, caps
<1> QED
  BY <1>look, <1>drift, <1>raise, <1>lock, <1>stage, <1>write, <1>judge, <1>residue, <1>sweep DEF CoroutineStep

LEMMA RowType ==
  ASSUME RetirementTypeOK, RequestsStand, NEW t \in Tasks, RowStep(t)
  PROVE  RetirementTypeOK'
<1> USE RetirementAssumption DEF RetirementTypeOK, Places, Finished, Goto, LeaveClaim
<1>ask. CASE Ask(t)
  BY <1>ask DEF Ask, dirs, reqs, caps
<1>insert. CASE Insert(t) \/ ClaimTask(t)
  BY <1>insert DEF Insert, ClaimTask, dirs, reqs, caps
<1>settle. CASE Settle(t) \/ FailTaskOfDeletedProject(t) \/ Resume(t)
  BY <1>settle DEF Settle, FailTaskOfDeletedProject, Resume, dirs, reqs, caps
<1> QED
  BY <1>ask, <1>insert, <1>settle DEF RowStep

LEMMA RequestType ==
  ASSUME RetirementTypeOK, RequestsStand, NEW o \in Ops, RequestStep(o)
  PROVE  RetirementTypeOK'
<1> USE RetirementAssumption DEF RetirementTypeOK, Finished, Then, NoSwap
<1>begin. CASE BeginRetirement(o)
  BY <1>begin DEF BeginRetirement, Revoke, Running, taskRows, dirs, caps
<1>commit. CASE CommitRetirement(o)
  <2>taskRows. row' \in [Tasks -> {"absent", "asked", "queued", "running"} \cup Finished] /\ tomb' \subseteq Tasks
    BY <1>commit DEF CommitRetirement, RetireRecords
  <2>old. o # "delete" => swap.old \in 1..fresh
    BY <1>commit DEF CommitRetirement, RequestsStand
  <2>named. named = 0 \/ named \in 1..fresh
    OBVIOUS
  <2>retired. retired' \subseteq 1..fresh
    <3>1. retired' = retired \cup (IF o = "delete" THEN {named} \ {0} ELSE {swap.old})
      BY <1>commit DEF CommitRetirement
    <3> QED
      BY <3>1, <2>old, <2>named
  <2>backup. backup' \subseteq backup
    BY <1>commit DEF CommitRetirement
  <2>swap. swap' \in [old : 0..fresh, new : 0..fresh] /\ backup' \subseteq 1..fresh
    <3>1. swap' = swap \/ swap' = [old |-> 0, new |-> 0]
      BY <1>commit DEF CommitRetirement
    <3>2. 0 \in 0..fresh
      OBVIOUS
    <3> QED
      BY <3>1, <3>2, <2>backup
  <2>op. op'[o] \in {"idle", "remove"} /\ op' = [op EXCEPT ![o] = op'[o]] /\ writer' = "none"
    BY <1>commit DEF CommitRetirement
  <2> QED
    BY <1>commit, <2>taskRows, <2>retired, <2>swap, <2>op DEF CommitRetirement, caps
<1>fails. CASE CommitFails(o)
  BY <1>fails DEF CommitFails, Fault, taskRows, dirs
<1>rollback. CASE Rollback(o)
  BY <1>rollback DEF Rollback, Restore, taskRows, dirs, caps
<1> QED
  BY <1>begin, <1>commit, <1>fails, <1>rollback DEF RequestStep

LEMMA DirectoryType ==
  ASSUME RetirementTypeOK, RequestsStand, DirectoryStep
  PROVE  RetirementTypeOK'
<1> USE RetirementAssumption DEF RetirementTypeOK, Then, NoSwap, Fault
<1>remove. CASE RemoveDirectory
  BY <1>remove DEF RemoveDirectory, taskRows, caps
<1>rest. CASE RemoveRest
  BY <1>rest DEF RemoveRest, taskRows, caps
<1>old. CASE MoveOldAside
  BY <1>old DEF MoveOldAside, taskRows, caps
<1>new. CASE MoveNewIn
  BY <1>new DEF MoveNewIn, Install, taskRows, caps
<1>discard. CASE DiscardNew
  BY <1>discard DEF DiscardNew, taskRows, caps
<1>restore. CASE RestoreOld
  <2>named. named' \in 0..fresh
    BY <1>restore DEF RestoreOld
  <2>backup. backup' \subseteq backup
    BY <1>restore DEF RestoreOld
  <2>restored. restored' \subseteq restored \cup {swap.old} /\ swap.old \in 1..fresh
    BY <1>restore DEF RestoreOld, RequestsStand
  <2>op. op' = [op EXCEPT !["import"] = "idle"]
    BY <1>restore DEF RestoreOld
  <2>swap. swap' \in [old : 0..fresh, new : 0..fresh]
    BY <1>restore DEF RestoreOld
  <2> QED
    BY <1>restore, <2>named, <2>backup, <2>restored, <2>op, <2>swap DEF RestoreOld, taskRows, caps
<1>import. CASE ImportNew
  BY <1>import DEF ImportNew, taskRows, dirs, caps
<1>install. CASE InstallNew
  <2>op. op' = [op EXCEPT !["import"] = "idle"]
    BY <1>install DEF InstallNew
  <2>still. CASE UNCHANGED <<named, fresh, json, held>>
    BY <1>install, <2>op, <2>still DEF InstallNew, taskRows, caps
  <2>new. CASE Install(fresh + 1)
    BY <1>install, <2>op, <2>new DEF InstallNew, Install, taskRows, caps
  <2> QED
    BY <1>install, <2>still, <2>new DEF InstallNew
<1>create. CASE MakeDirectory
  BY <1>create DEF MakeDirectory, taskRows, caps
<1>publish. CASE Publish
  <2>named. named = 0 \/ named \in 1..fresh
    OBVIOUS
  <2>held. (json' = json /\ held' = held) \/ (named # 0 /\ json' = json \cup {named} /\ held' = held \cup {named})
    BY <1>publish DEF Publish
  <2> QED
    BY <1>publish, <2>named, <2>held DEF Publish, taskRows, caps
<1> QED
  BY <1>remove, <1>rest, <1>old, <1>new, <1>discard, <1>restore, <1>import, <1>install, <1>create, <1>publish
     DEF DirectoryStep

LEMMA CrashType ==
  ASSUME RetirementTypeOK, ServerStops
  PROVE  RetirementTypeOK'
BY RetirementAssumption DEF RetirementTypeOK, ServerStops, NoSwap, Places

-----------------------------------------------------------------------------
(* The claims. *)
LEMMA CoroutineClaims ==
  ASSUME RetirementTypeOK, ClaimInv, NEW t \in Tasks, CoroutineStep(t)
  PROVE  ClaimInv'
<1> USE DEF RetirementTypeOK, ClaimInv, Goto
<1>same. /\ UNCHANGED <<taskRows, ids, op, writer, swap>>
         /\ \A u \in Tasks : u # t => co'[u] = co[u] /\ (u \in stale' <=> u \in stale)
                                    /\ (u \in revoked' <=> u \in revoked)
         /\ revoked' \subseteq revoked
  BY DEF CoroutineStep, GetProjectPath, Drift, Stage, Raise, ProjectMetadataLock, WriteFormal, Judge,
     LookForProject, Sweep, LeaveClaim, taskRows, dirs, reqs
<1>self. \/ co[t] \in Working /\ co'[t] \in Working /\ UNCHANGED <<stale, revoked>>
         \/ /\ co[t] \in {"residue", "sweeping"} /\ co'[t] = "sweeping"
            /\ UNCHANGED <<stale, revoked>>
         \/ co[t] \in {"residue", "sweeping"} /\ co'[t] = "none"
  BY DEF CoroutineStep, GetProjectPath, Drift, Stage, Raise, ProjectMetadataLock, WriteFormal, Judge,
     LookForProject, Sweep, LeaveClaim, Working, Places
<1>stand. RequestsStand'
  BY <1>same DEF RequestsStand
<1>taskRows. RowsOfCoroutines'
  BY <1>same, <1>self DEF RowsOfCoroutines, taskRows, Working, Places
<1>open. OpenRetirement'
  BY <1>same, <1>self DEF OpenRetirement, RowsOfCoroutines, taskRows, Running
<1>claims. RetiredIsRevoked' /\ RevokedIsRetired'
  BY <1>same, <1>self DEF RetiredIsRevoked, RevokedIsRetired, taskRows, Working
<1> QED
  BY <1>stand, <1>taskRows, <1>open, <1>claims

LEMMA RowClaims ==
  ASSUME RetirementTypeOK, ClaimInv, NEW t \in Tasks, RowStep(t)
  PROVE  ClaimInv'
<1> USE DEF RetirementTypeOK, ClaimInv, Goto, LeaveClaim
<1>stand. RequestsStand'
  BY DEF RequestsStand, RowStep, Ask, Insert, ClaimTask, Settle, FailTaskOfDeletedProject, Resume, dirs, reqs
<1> USE DEF RowsOfCoroutines, OpenRetirement, RetiredIsRevoked, RevokedIsRetired, Running, Working, Places
<1>ask. CASE Ask(t)
  BY <1>stand, <1>ask DEF Ask, reqs
<1>insert. CASE Insert(t)
  BY <1>stand, <1>insert DEF Insert, reqs
<1>claim. CASE ClaimTask(t)
  BY <1>stand, <1>claim DEF ClaimTask, reqs
<1>settle. CASE Settle(t)
  BY <1>stand, <1>settle DEF Settle, reqs
<1>fail. CASE FailTaskOfDeletedProject(t)
  BY <1>stand, <1>fail DEF FailTaskOfDeletedProject, reqs
<1>resume. CASE Resume(t)
  BY <1>stand, <1>resume DEF Resume, reqs
<1> QED
  BY <1>ask, <1>insert, <1>claim, <1>settle, <1>fail, <1>resume DEF RowStep

LEMMA RequestClaims ==
  ASSUME RetirementTypeOK, ClaimInv, NEW o \in Ops, RequestStep(o)
  PROVE  ClaimInv'
<1> USE RetirementAssumption DEF RetirementTypeOK, ClaimInv, Then, InTransaction
<1>begin. CASE BeginRetirement(o)
  <2>stand. RequestsStand'
    BY <1>begin DEF BeginRetirement, RequestsStand, dirs
  <2> QED
    BY <1>begin, <2>stand DEF BeginRetirement, RowsOfCoroutines, OpenRetirement, RetiredIsRevoked,
       RevokedIsRetired, Running, Revoke, taskRows
<1>commit. CASE CommitRetirement(o)
  <2>open. writer = o /\ o # "none" /\ o \in {"delete", "import"}
    BY <1>commit DEF CommitRetirement, RequestsStand
  <2>stand. RequestsStand'
    BY <1>commit, <2>open DEF CommitRetirement, RequestsStand, NoSwap
  <2>taskRows. RowsOfCoroutines'
    BY <1>commit DEF CommitRetirement, RowsOfCoroutines, Working, Places
  <2>ids. OpenRetirement' /\ RevokedIsRetired'
    BY <1>commit DEF CommitRetirement, OpenRetirement, RevokedIsRetired, RetireRecords
  <2>revoked. RetiredIsRevoked'
    BY <1>commit, <2>open DEF CommitRetirement, OpenRetirement, RetiredIsRevoked, Running, RetireRecords
  <2> QED
    BY <2>stand, <2>taskRows, <2>ids, <2>revoked
<1>fails. CASE CommitFails(o)
  <2>stand. RequestsStand'
    BY <1>fails DEF CommitFails, RequestsStand, dirs
  <2> QED
    BY <1>fails, <2>stand DEF CommitFails, RowsOfCoroutines, OpenRetirement, RetiredIsRevoked,
       RevokedIsRetired, Running, taskRows
<1>rollback. CASE Rollback(o)
  <2>stand. RequestsStand'
    BY <1>rollback DEF Rollback, RequestsStand, dirs
  <2> QED
    BY <1>rollback, <2>stand DEF Rollback, RowsOfCoroutines, OpenRetirement, RetiredIsRevoked,
       RevokedIsRetired, Running, Restore, taskRows
<1> QED
  BY <1>begin, <1>commit, <1>fails, <1>rollback DEF RequestStep

LEMMA DirectoryClaims ==
  ASSUME RetirementTypeOK, ClaimInv, DirectoryStep
  PROVE  ClaimInv'
<1>same. UNCHANGED <<taskRows, co, stale, revoked, ids, writer>>
  BY DEF DirectoryStep, RemoveDirectory, RemoveRest, MoveOldAside, MoveNewIn, DiscardNew, RestoreOld,
     ImportNew, InstallNew, MakeDirectory, Publish, reqs
<1>stand. RequestsStand'
  <2> USE RetirementAssumption DEF RetirementTypeOK, ClaimInv, RequestsStand, InTransaction, Then, NoSwap
  <2>remove. CASE RemoveDirectory \/ RemoveRest
    BY <2>remove DEF RemoveDirectory, RemoveRest
  <2>old. CASE MoveOldAside
    BY <2>old DEF MoveOldAside
  <2>new. CASE MoveNewIn
    BY <2>new DEF MoveNewIn
  <2>discard. CASE DiscardNew \/ RestoreOld
    BY <2>discard DEF DiscardNew, RestoreOld
  <2>import. CASE ImportNew
    BY <2>import DEF ImportNew, dirs
  <2>install. CASE InstallNew
    BY <2>install DEF InstallNew
  <2>create. CASE MakeDirectory \/ Publish
    BY <2>create DEF MakeDirectory, Publish
  <2> QED
    BY <2>remove, <2>old, <2>new, <2>discard, <2>import, <2>install, <2>create DEF DirectoryStep
<1> QED
  BY <1>same, <1>stand DEF ClaimInv, RowsOfCoroutines, OpenRetirement, RetiredIsRevoked, RevokedIsRetired,
     Running, taskRows

LEMMA CrashClaims ==
  ASSUME RetirementTypeOK, ClaimInv, ServerStops
  PROVE  ClaimInv'
BY RetirementAssumption DEF RetirementTypeOK, ClaimInv, ServerStops, NoSwap, RequestsStand, InTransaction,
   RowsOfCoroutines, OpenRetirement, RetiredIsRevoked, RevokedIsRetired, Running, Working, Places

-----------------------------------------------------------------------------
(* A retirement moves every row there is, and a row inserted later is late. *)
LEMMA NamesStep ==
  ASSUME RetirementTypeOK, ClaimInv, InheritsNothing, [RetirementNext]_retirementVars
  PROVE  InheritsNothing'
<1> USE DEF RetirementTypeOK, InheritsNothing
<1>claims. RowsOfCoroutines
  BY DEF ClaimInv
<1>coroutine. ASSUME NEW t \in Tasks, CoroutineStep(t) PROVE InheritsNothing'
  BY <1>coroutine DEF CoroutineStep, GetProjectPath, Drift, Stage, Raise, ProjectMetadataLock,
     WriteFormal, Judge, LookForProject, Sweep, taskRows, dirs
<1>row. ASSUME NEW t \in Tasks, RowStep(t) PROVE InheritsNothing'
  <2>ask. CASE Ask(t)
    BY <2>ask DEF Ask, dirs
  <2>insert. CASE Insert(t)
    BY <2>insert DEF Insert, dirs
  <2>claim. CASE ClaimTask(t)
    BY <2>claim DEF ClaimTask, dirs
  <2>settle. CASE Settle(t) \/ FailTaskOfDeletedProject(t) \/ Resume(t)
    <3>old. /\ UNCHANGED <<tomb, born, belated, dirs>>
            /\ \A u \in Tasks : row[u] \in {"absent", "asked"} => row'[u] = row[u]
      BY <1>claims, <2>settle DEF Settle, FailTaskOfDeletedProject, Resume, RowsOfCoroutines, Working, Places
    <3> QED
      BY <3>old DEF dirs
  <2> QED
    BY <1>row, <2>ask, <2>insert, <2>claim, <2>settle DEF RowStep
<1>commit. ASSUME NEW o \in Ops, CommitRetirement(o) PROVE InheritsNothing'
  BY <1>commit DEF CommitRetirement, RetireRecords, Finished
<1>request. ASSUME NEW o \in Ops, BeginRetirement(o) \/ CommitFails(o) \/ Rollback(o)
            PROVE  InheritsNothing'
  BY <1>request DEF BeginRetirement, CommitFails, Rollback, taskRows, dirs
<1>directory. ASSUME DirectoryStep PROVE InheritsNothing'
  BY <1>directory DEF DirectoryStep, RemoveDirectory, RemoveRest, MoveOldAside, MoveNewIn, DiscardNew,
     RestoreOld, ImportNew, InstallNew, MakeDirectory, Publish, taskRows, dirs
<1>rest. ASSUME ServerStops \/ UNCHANGED retirementVars PROVE InheritsNothing'
  BY <1>rest DEF ServerStops, retirementVars, taskRows, dirs
<1> QED
  BY <1>coroutine, <1>row, <1>commit, <1>request, <1>directory, <1>rest, NextSplits DEF RequestStep

LEMMA RetirementStep == RetirementInv /\ [RetirementNext]_retirementVars => RetirementInv'
<1> SUFFICES ASSUME RetirementInv, [RetirementNext]_retirementVars PROVE RetirementInv'
  OBVIOUS
<1>inv. RetirementTypeOK /\ ClaimInv /\ InheritsNothing /\ RequestsStand
  BY DEF RetirementInv, ClaimInv
<1>names. InheritsNothing'
  BY <1>inv, NamesStep
<1>coroutine. ASSUME NEW t \in Tasks, CoroutineStep(t) PROVE RetirementTypeOK' /\ ClaimInv'
  BY <1>inv, <1>coroutine, CoroutineType, CoroutineClaims
<1>row. ASSUME NEW t \in Tasks, RowStep(t) PROVE RetirementTypeOK' /\ ClaimInv'
  BY <1>inv, <1>row, RowType, RowClaims
<1>request. ASSUME NEW o \in Ops, RequestStep(o) PROVE RetirementTypeOK' /\ ClaimInv'
  BY <1>inv, <1>request, RequestType, RequestClaims
<1>directory. ASSUME DirectoryStep PROVE RetirementTypeOK' /\ ClaimInv'
  BY <1>inv, <1>directory, DirectoryType, DirectoryClaims
<1>crash. ASSUME ServerStops PROVE RetirementTypeOK' /\ ClaimInv'
  BY <1>inv, <1>crash, CrashType, CrashClaims
<1>still. ASSUME UNCHANGED retirementVars PROVE RetirementTypeOK' /\ ClaimInv'
  <2>type. RetirementTypeOK'
    BY <1>inv, <1>still DEF retirementVars, taskRows, dirs, reqs, caps, RetirementTypeOK
  <2>claims. ClaimInv'
    BY <1>inv, <1>still DEF retirementVars, taskRows, dirs, reqs, ClaimInv, RequestsStand, RowsOfCoroutines,
       OpenRetirement, RetiredIsRevoked, RevokedIsRetired, Running
  <2> QED
    BY <2>type, <2>claims
<1> QED
  BY <1>names, <1>still, <1>coroutine, <1>row, <1>request, <1>directory, <1>crash, NextSplits
     DEF RetirementInv

LEMMA RetirementHolds == RetirementSpec => []RetirementInv
BY RetirementStarts, RetirementStep, PTL DEF RetirementSpec

(* The claims in memory and the records in the database go and come back   *)
(* together (ClaimsFollowRecords: revoke_task_project_claims,              *)
(* restore_task_project_claims and retire_project_records).                *)
THEOREM ClaimsAgree == RetirementSpec => []ClaimsFollowRecords
<1>1. RetirementInv => ClaimsFollowRecords
  BY DEF RetirementInv, ClaimInv, ClaimsFollowRecords
<1> QED
  BY RetirementHolds, <1>1, PTL

(* A project that takes a name over inherits no record of the former one   *)
(* (InheritsNothing: retire_project_records).                              *)
THEOREM NothingInherited == RetirementSpec => []InheritsNothing
<1>1. RetirementInv => InheritsNothing
  BY DEF RetirementInv
<1> QED
  BY RetirementHolds, <1>1, PTL

(* A task of a retired project never gets past project_metadata_lock       *)
(* (GivesUp), whoever has the name by then.                                *)
THEOREM RetiredTasksGiveUp == RetirementSpec => GivesUp
<1> DEFINE Refused == \A t \in Tasks : co[t] = "staged" /\ co'[t] = "checked" => t \notin tomb
<1>1. RetirementInv /\ [RetirementNext]_retirementVars => [Refused]_retirementVars
  <2> SUFFICES ASSUME RetirementInv, RetirementNext, NEW t \in Tasks, co[t] = "staged", co'[t] = "checked"
               PROVE  t \notin tomb
    OBVIOUS
  <2> USE DEF RetirementInv, RetirementTypeOK
  <2>lock. ASSUME NEW u \in Tasks, CoroutineStep(u) PROVE ProjectMetadataLock(t)
    BY <2>lock DEF CoroutineStep, GetProjectPath, Drift, Stage, Raise, ProjectMetadataLock, WriteFormal,
       Judge, LookForProject, Sweep, Goto, LeaveClaim
  <2>row. ASSUME NEW u \in Tasks, RowStep(u) PROVE FALSE
    BY <2>row DEF RowStep, Ask, Insert, ClaimTask, Settle, FailTaskOfDeletedProject, Resume, Goto, LeaveClaim
  <2>request. ASSUME NEW o \in Ops, RequestStep(o) PROVE FALSE
    BY <2>request DEF RequestStep, BeginRetirement, CommitRetirement, CommitFails, Rollback
  <2>directory. ASSUME DirectoryStep PROVE FALSE
    BY <2>directory DEF DirectoryStep, RemoveDirectory, RemoveRest, MoveOldAside, MoveNewIn, DiscardNew,
       RestoreOld, ImportNew, InstallNew, MakeDirectory, Publish
  <2>crash. ASSUME ServerStops PROVE FALSE
    BY <2>crash DEF ServerStops
  <2>locked. ProjectMetadataLock(t)
    BY <2>lock, <2>row, <2>request, <2>directory, <2>crash, NextSplits
  <2>ensured. t \notin revoked /\ t \notin stale
    BY <2>locked DEF ProjectMetadataLock, MayCommit, Ensured, Goto
  <2> QED
    BY <2>ensured DEF ClaimInv, RowsOfCoroutines, RetiredIsRevoked, Working, Places
<1> QED
  BY RetirementHolds, <1>1, PTL DEF RetirementSpec, GivesUp

-----------------------------------------------------------------------------
(***************************************************************************)
(* One request at a time.  A second user who deletes or imports in the     *)
(* middle of a deletion can have a project removed that nobody retired, so *)
(* what follows assumes the user waits for an answer (OneRequest).         *)
(***************************************************************************)
(* Of a request that may not run at all nothing can be said. *)
Stands(o, places) == o \in Ops /\ op[o] \in places

(* Where the directories of a deletion and of an overwrite are. *)
DirectoriesStand ==
  /\ json \subseteq held
  /\ named \notin backup
  /\ Stands("delete", {"remove"}) /\ named \in json => named \in retired
  /\ Stands("delete", {"removing"}) => named \notin json
  /\ Stands("import", {"moveNew", "restore"}) => named \notin json
  /\ Stands("import", {"moveNew"}) => swap.new = 0
  /\ Stands("import", {"commit"}) => named \in json /\ named = swap.new
  /\ Stands("import", {"abort", "discard"}) /\ swap.old # 0 /\ named \in json => named = swap.new
  /\ Stands("import", {"discard", "restore"}) => swap.old # 0
  /\ swap.old # 0 => /\ swap.old \in backup
                     /\ Stands("import", {"moveNew", "commit", "abort", "discard", "restore"})

(* A task enqueued behind a retirement, a crash or a failed overwrite. *)
Excused == belated # {} \/ stops # 0 \/ restored # {} \/ backup \ {swap.old} # {}

(* What a task was asked for is there, retired, or part of an overwrite. *)
AskedOfSomething ==
  \A t \in Tasks : row[t] = "asked" =>
    \/ born[t] \in retired
    \/ born[t] = named /\ named \in json
    \/ swap.old # 0 /\ born[t] \in {swap.old, swap.new} \ {0}

(* Between the commit of a deletion and its end every row is retired. *)
EveryRowRetired ==
  Stands("delete", {"remove"}) => \A t \in Tasks : row[t] \in {"absent", "asked"} \/ t \in tomb

(* Who works without a project is retired, or in the middle of an overwrite. *)
PathWithoutProject ==
  \A t \in Tasks : co[t] = "path" /\ named \notin json => t \in tomb \/ swap.old # 0

(* A skeleton has somebody who will fill it or sweep it. *)
Sweeper(t) ==
  /\ t \in tomb \ stale
  /\ co[t] \in {"staged", "checked", "returned", "error", "failing", "residue", "sweeping"}

SkeletonIsOwed ==
  named \notin held \cup {0} =>
    Stands("create", {"publish"}) \/ swap.old # 0 \/ \E t \in Tasks : Sweeper(t)

SerialInv ==
  /\ DirectoriesStand
  /\ \A t \in Tasks : co[t] = "path" => t \notin stale
  /\ Excused \/ (AskedOfSomething /\ EveryRowRetired /\ PathWithoutProject /\ SkeletonIsOwed)

Serial == RetirementInv /\ SerialInv

LEMMA SerialStarts == RetirementInit => Serial
<1> SUFFICES ASSUME RetirementInit PROVE SerialInv
  BY RetirementStarts DEF Serial
<1>dirs. DirectoriesStand
  BY DEF RetirementInit, NoSwap, DirectoriesStand, Stands
<1>owed. AskedOfSomething /\ EveryRowRetired /\ PathWithoutProject /\ SkeletonIsOwed
  BY DEF RetirementInit, AskedOfSomething, EveryRowRetired, PathWithoutProject, SkeletonIsOwed, Stands
<1> QED
  BY <1>dirs, <1>owed DEF SerialInv, RetirementInit

(* What a coroutine does to the directory: nothing, or it makes a skeleton, *)
(* writes into what is there, or sweeps what is empty.                      *)
MakesSkeleton(t) == /\ co[t] = "path" /\ co'[t] = "staged"
                    /\ named = 0 /\ fresh < MaxDirs /\ fresh' = fresh + 1 /\ named' = fresh + 1
                    /\ held' = held
Writes(t) == co[t] = "checked" /\ named # 0 /\ named' = named /\ held' = held \cup {named}
Sweeps(t) == co[t] = "sweeping" /\ co'[t] = "none" /\ named' = (IF named \in held THEN named ELSE 0) /\ held' = held

LEMMA CoroutineDirectories ==
  ASSUME RetirementTypeOK, NEW t \in Tasks, CoroutineStep(t)
  PROVE  /\ UNCHANGED <<taskRows, op, swap, json, backup, retired, restored, stops>>
         /\ \A u \in Tasks : u # t => co'[u] = co[u]
         /\ stale' \subseteq stale
         /\ \/ UNCHANGED <<named, held>>
            \/ MakesSkeleton(t)
            \/ Writes(t)
            \/ Sweeps(t)
<1> USE DEF RetirementTypeOK, Goto, LeaveClaim
<1>look. CASE GetProjectPath(t) \/ Drift(t) \/ Raise(t) \/ ProjectMetadataLock(t) \/ Judge(t) \/ LookForProject(t)
  BY <1>look DEF GetProjectPath, Drift, Raise, ProjectMetadataLock, Judge, LookForProject, taskRows, dirs, reqs, caps
<1>stage. CASE Stage(t)
  BY <1>stage DEF Stage, taskRows, reqs, caps, MakesSkeleton
<1>write. CASE WriteFormal(t)
  BY <1>write DEF WriteFormal, taskRows, reqs, caps, Writes
<1>sweep. CASE Sweep(t)
  BY <1>sweep DEF Sweep, taskRows, reqs, caps, Sweeps
<1> QED
  BY <1>look, <1>stage, <1>write, <1>sweep DEF CoroutineStep

LEMMA CoroutineSerial ==
  ASSUME RetirementInv, SerialInv, NEW t \in Tasks, CoroutineStep(t)
  PROVE  SerialInv'
<1>type. RetirementTypeOK /\ RowsOfCoroutines /\ RetiredIsRevoked
  BY DEF RetirementInv, ClaimInv
<1>same. /\ UNCHANGED <<taskRows, op, swap, json, backup, retired, restored, stops>>
         /\ \A u \in Tasks : u # t => co'[u] = co[u]
         /\ stale' \subseteq stale
  BY <1>type, CoroutineDirectories
<1>how. UNCHANGED <<named, held>> \/ MakesSkeleton(t) \/ Writes(t) \/ Sweeps(t)
  BY <1>type, CoroutineDirectories
<1>bounds. fresh \in Nat /\ json \subseteq 1..fresh /\ backup \subseteq 1..fresh /\ swap.new \in 0..fresh
  BY <1>type DEF RetirementTypeOK
<1>named. /\ held \subseteq held'
          /\ named' = named \/ named' = 0 \/ (named = 0 /\ named' \notin json \cup backup)
          /\ named \in json => named' = named
  <2>sub. json \subseteq held /\ 0 \notin json /\ fresh + 1 \notin json \cup backup
    BY <1>bounds DEF SerialInv, DirectoriesStand
  <2>made. CASE MakesSkeleton(t)
    BY <2>made, <2>sub DEF MakesSkeleton
  <2>swept. CASE Sweeps(t)
    BY <2>swept, <2>sub DEF Sweeps
  <2>else. CASE UNCHANGED <<named, held>> \/ Writes(t)
    BY <2>else DEF Writes
  <2> QED
    BY <1>how, <2>made, <2>swept, <2>else
<1>dirs. DirectoriesStand'
  BY <1>same, <1>named, <1>bounds DEF SerialInv, DirectoriesStand, Stands
<1>path. \A u \in Tasks : co'[u] = "path" => u \notin stale' /\ (co[u] = "path" \/ named \in json)
  <2>1. co'[t] = "path" => t \notin stale /\ (co[t] = "path" \/ named \in json)
    BY <1>type DEF RetirementTypeOK, CoroutineStep, GetProjectPath, Drift, Stage, Raise, ProjectMetadataLock, WriteFormal, Judge,
       LookForProject, Sweep, Goto, LeaveClaim, Ensured
  <2> QED
    BY <1>same, <2>1 DEF SerialInv
<1>excused. Excused => Excused'
  BY <1>same DEF Excused, taskRows
<1>owed. CASE AskedOfSomething /\ EveryRowRetired /\ PathWithoutProject /\ SkeletonIsOwed
  <2>asked. AskedOfSomething'
    BY <1>owed, <1>same, <1>named DEF AskedOfSomething, taskRows
  <2>every. EveryRowRetired'
    BY <1>owed, <1>same DEF EveryRowRetired, Stands, taskRows
  <2>path. PathWithoutProject'
    BY <1>owed, <1>same, <1>path, <1>named DEF PathWithoutProject, taskRows
  <2>sweeper. ASSUME NEW u \in Tasks, Sweeper(u) PROVE Sweeper(u)' \/ named' \in held' \cup {0}
    <3>other. CASE u # t
      BY <2>sweeper, <3>other, <1>same DEF Sweeper, taskRows
    <3>self. CASE u = t
      <4>1. t \in revoked \/ co[t] \notin Working
        BY <1>type, <2>sweeper, <3>self DEF RowsOfCoroutines, RetiredIsRevoked, Sweeper, Working, Places, RetirementTypeOK
      <4>tomb. t \in tomb' \ stale'
        BY <2>sweeper, <3>self, <1>same DEF Sweeper, taskRows
      <4> USE <2>sweeper, <3>self, <1>type, <4>1, <4>tomb DEF RetirementTypeOK, Sweeper, Goto, LeaveClaim, Working, Places
      <4>work. CASE Raise(t) \/ ProjectMetadataLock(t) \/ Judge(t)
        BY <4>work DEF Raise, ProjectMetadataLock, Judge
      <4>none. CASE GetProjectPath(t) \/ Drift(t) \/ Stage(t)
        BY <4>none DEF GetProjectPath, Drift, Stage
      <4>write. CASE WriteFormal(t)
        BY <4>write DEF WriteFormal
      <4>look. CASE LookForProject(t)
        <5>1. json \subseteq held /\ named' = named /\ held' = held
          BY <4>look DEF LookForProject, dirs, SerialInv, DirectoriesStand
        <5> QED
          BY <4>look, <5>1 DEF LookForProject
      <4>sweep. CASE Sweep(t)
        BY <4>sweep DEF Sweep
      <4> QED
        BY <4>work, <4>none, <4>write, <4>look, <4>sweep DEF CoroutineStep
    <3> QED
      BY <3>other, <3>self
  <2>owed. SkeletonIsOwed'
    <3>made. CASE MakesSkeleton(t)
      <4>1. t \in tomb \ stale \/ swap.old # 0
        BY <1>owed, <1>bounds, <3>made DEF MakesSkeleton, PathWithoutProject, SerialInv
      <4>2. stale' = stale
        BY <3>made, <1>type DEF MakesSkeleton, RetirementTypeOK, CoroutineStep, GetProjectPath, Drift, Stage, Raise,
           ProjectMetadataLock, WriteFormal, Judge, LookForProject, Sweep, Goto, LeaveClaim
      <4> QED
        BY <4>1, <4>2, <1>same, <3>made DEF MakesSkeleton, SkeletonIsOwed, Sweeper, taskRows
    <3>kept. CASE ~MakesSkeleton(t)
      <4>1. named' \notin held' \cup {0} => named \notin held \cup {0}
        BY <1>how, <3>kept DEF Writes, Sweeps
      <4> QED
        BY <1>owed, <4>1, <2>sweeper, <1>same DEF SkeletonIsOwed, Stands
    <3> QED
      BY <3>made, <3>kept
  <2> QED
    BY <1>dirs, <1>path, <2>asked, <2>every, <2>path, <2>owed DEF SerialInv
<1> QED
  BY <1>dirs, <1>path, <1>excused, <1>owed DEF SerialInv

LEMMA RowSerial ==
  ASSUME RetirementInv, SerialInv, OneRequest, NEW t \in Tasks, RowStep(t)
  PROVE  SerialInv'
<1>type. RetirementTypeOK /\ RowsOfCoroutines
  BY DEF RetirementInv, ClaimInv
<1>same. /\ UNCHANGED <<dirs, reqs, caps, tomb>> /\ belated \subseteq belated'
         /\ \A u \in Tasks : u # t => co'[u] = co[u] /\ row'[u] = row[u] /\ born'[u] = born[u]
                                      /\ (u \in stale' <=> u \in stale)
  BY <1>type DEF RetirementTypeOK, RowStep, Ask, Insert, ClaimTask, Settle, FailTaskOfDeletedProject, Resume, Goto, LeaveClaim, dirs, reqs, caps
<1>self. /\ co'[t] = "path" => co[t] = "path" /\ (t \in stale' <=> t \in stale)
         /\ Sweeper(t) => Sweeper(t)'
         /\ row'[t] = "asked" => (row[t] = "asked" /\ born'[t] = born[t]) \/ (born'[t] = named /\ named \in json)
         /\ row'[t] \in {"absent", "asked"} \/ row[t] \notin {"absent", "asked"} \/ Insert(t)
  <2> USE <1>type DEF RetirementTypeOK, Sweeper, Goto, LeaveClaim
  <2>ask. CASE Ask(t)
    BY <2>ask DEF Ask
  <2>insert. CASE Insert(t)
    BY <2>insert DEF Insert
  <2>claim. CASE ClaimTask(t)
    BY <2>claim DEF ClaimTask
  <2>settle. CASE Settle(t) \/ FailTaskOfDeletedProject(t) \/ Resume(t)
    BY <2>settle DEF Settle, FailTaskOfDeletedProject, Resume, RowsOfCoroutines, Working, Places
  <2> QED
    BY <2>ask, <2>insert, <2>claim, <2>settle DEF RowStep
<1>dirs. DirectoriesStand'
  BY <1>same DEF SerialInv, DirectoriesStand, Stands, dirs, reqs
<1>path. \A u \in Tasks : co'[u] = "path" => co[u] = "path" /\ u \notin stale'
  BY <1>same, <1>self DEF SerialInv
<1>excused. Excused => Excused'
  BY <1>same DEF Excused, dirs, caps
<1>owed. CASE AskedOfSomething /\ EveryRowRetired /\ PathWithoutProject /\ SkeletonIsOwed
  <2>asked. AskedOfSomething'
    BY <1>owed, <1>same, <1>self DEF AskedOfSomething, dirs
  <2>path. PathWithoutProject'
    BY <1>owed, <1>same, <1>path DEF PathWithoutProject, dirs
  <2>owed. SkeletonIsOwed'
    <3>1. \A u \in Tasks : Sweeper(u) => Sweeper(u)'
      BY <1>same, <1>self DEF Sweeper
    <3> QED
      BY <1>owed, <1>same, <3>1 DEF SkeletonIsOwed, Stands, dirs, reqs
  <2>every. EveryRowRetired' \/ Excused'
    <3>insert. ASSUME Insert(t), Stands("delete", {"remove"}) PROVE Excused'
      <4>1. born[t] \in retired
        BY <3>insert, <1>owed DEF Insert, AskedOfSomething, OneRequest, Stands, SerialInv, DirectoriesStand
      <4> QED
        BY <3>insert, <4>1 DEF Insert, Excused
    <3> QED
      BY <3>insert, <1>owed, <1>same, <1>self DEF EveryRowRetired, Stands, reqs
  <2> QED
    BY <1>dirs, <1>path, <2>asked, <2>every, <2>path, <2>owed DEF SerialInv
<1> QED
  BY <1>dirs, <1>path, <1>excused, <1>owed DEF SerialInv

LEMMA RequestSerial ==
  ASSUME RetirementInv, SerialInv, OneRequest, NEW o \in Ops, RequestStep(o)
  PROVE  SerialInv'
<1>type. RetirementTypeOK /\ RequestsStand /\ RowsOfCoroutines /\ o \in {"delete", "import"} /\ 0 \notin backup
  <2>inv. RetirementTypeOK /\ RequestsStand /\ RowsOfCoroutines
    BY DEF RetirementInv, ClaimInv
  <2>backup. 0 \notin backup
    BY <2>inv DEF RetirementTypeOK
  <2>begun. BeginRetirement(o) \/ op[o] \in {"commit", "abort"}
    BY DEF RequestStep, CommitRetirement, CommitFails, Rollback
  <2>which. o \in {"delete", "import"}
    BY <2>inv, <2>begun, RetirementAssumption DEF BeginRetirement, RequestsStand
  <2> QED
    BY <2>inv, <2>backup, <2>which
<1>inv. DirectoriesStand
  BY DEF SerialInv
<1>same. /\ UNCHANGED <<born, belated, orphans, co, stale, named, fresh, json, held, restored, stops>>
         /\ tomb \subseteq tomb' /\ retired \subseteq retired'
         /\ \A p \in Ops : p # o => op'[p] = op[p]
         /\ \A u \in Tasks : (row'[u] = "asked" <=> row[u] = "asked") /\ (row'[u] = "absent" <=> row[u] = "absent")
  BY <1>type DEF RetirementTypeOK, RequestStep, BeginRetirement, CommitRetirement, CommitFails, Rollback, RetireRecords,
     Then, Fault, taskRows, dirs, caps
<1>how. \/ /\ UNCHANGED <<tomb, retired, backup, swap>>
           /\ \/ op[o] = "idle" /\ op'[o] \in {"moveOld", "commit"} /\ (o = "delete" <=> op'[o] = "commit")
              \/ op[o] = "commit" /\ op'[o] = "abort"
              \/ op[o] = "abort" /\ op'[o] = "idle" /\ (o = "delete" \/ swap.old = 0)
              \/ op[o] = "abort" /\ op'[o] = "discard" /\ o = "import" /\ swap.old # 0
        \/ CommitRetirement(o)
  BY <1>type DEF RetirementTypeOK, RequestStep, BeginRetirement, CommitFails, Rollback, Then, taskRows, dirs
<1>commit. ASSUME CommitRetirement(o)
           PROVE  /\ op[o] = "commit"
                  /\ o = "delete" => /\ swap' = swap /\ backup' = backup /\ op'[o] = "remove"
                                     /\ retired' = retired \cup ({named} \ {0})
                                     /\ \A u \in Tasks : row[u] \in {"absent", "asked"} \/ u \in tomb'
                  /\ o = "import" => /\ swap' = NoSwap /\ backup' = backup \ {swap.old} /\ op'[o] = "idle"
                                     /\ retired' = retired \cup {swap.old}
  BY <1>commit, <1>type DEF RetirementTypeOK, CommitRetirement, RetireRecords, Then, Finished
<1>dirs. DirectoriesStand'
  <2>delete. CASE o = "delete"
    <3>1. UNCHANGED <<backup, swap>> /\ op'[o] \in {"idle", "commit", "abort", "remove"}
      BY <2>delete, <1>how, <1>commit
    <3>2. op'[o] = "remove" => retired' = retired \cup ({named} \ {0})
      BY <2>delete, <1>how, <1>commit
    <3>3. 0 \notin json
      BY <1>type DEF RetirementTypeOK
    <3> QED
      BY <2>delete, <1>same, <1>inv, <3>1, <3>2, <3>3 DEF DirectoriesStand, Stands
  <2>import. CASE o = "import" /\ ~CommitRetirement(o)
    BY <2>import, <1>how, <1>same, <1>inv DEF DirectoriesStand, Stands
  <2>over. CASE o = "import" /\ CommitRetirement(o)
    BY <2>over, <1>commit, <1>same, <1>inv DEF DirectoriesStand, Stands, NoSwap
  <2> QED
    BY <2>delete, <2>import, <2>over, <1>type
<1>excused. Excused => Excused'
  BY <1>how, <1>commit, <1>same, <1>type DEF Excused, NoSwap
<1>path. \A u \in Tasks : co'[u] = "path" => u \notin stale'
  BY <1>same DEF SerialInv
<1>installed. CommitRetirement(o) /\ o = "import" => named \in json /\ named \in held /\ named = swap.new
  BY <1>commit, <1>inv DEF DirectoriesStand, Stands
<1>swap. swap' = swap \/ (CommitRetirement(o) /\ o = "import")
  BY <1>how, <1>commit, <1>type
<1>owed. CASE AskedOfSomething /\ EveryRowRetired /\ PathWithoutProject /\ SkeletonIsOwed
  <2>asked. AskedOfSomething'
    BY <1>owed, <1>same, <1>swap, <1>commit, <1>installed DEF AskedOfSomething
  <2>every. EveryRowRetired'
    BY <1>owed, <1>same, <1>how, <1>commit, <1>type DEF EveryRowRetired, Stands
  <2>path. PathWithoutProject'
    BY <1>owed, <1>same, <1>swap, <1>installed DEF PathWithoutProject
  <2>owed. SkeletonIsOwed'
    <3>1. \A u \in Tasks : Sweeper(u) => Sweeper(u)'
      BY <1>same DEF Sweeper
    <3>2. Stands("create", {"publish"}) => Stands("create", {"publish"})'
      BY <1>same, <1>type DEF Stands
    <3> QED
      BY <1>owed, <1>same, <1>swap, <1>installed, <3>1, <3>2 DEF SkeletonIsOwed
  <2> QED
    BY <1>dirs, <1>path, <2>asked, <2>every, <2>path, <2>owed DEF SerialInv
<1> QED
  BY <1>dirs, <1>path, <1>excused, <1>owed DEF SerialInv

(* The directory work of a deletion. *)
LEMMA DeletionSerial ==
  ASSUME RetirementInv, SerialInv, OneRequest, RemoveDirectory \/ RemoveRest
  PROVE  SerialInv'
<1>type. RetirementTypeOK /\ RowsOfCoroutines
  BY DEF RetirementInv, ClaimInv
<1>inv. DirectoriesStand /\ 0 \notin json /\ 0 \notin backup /\ swap.old = 0
  <2>1. 0 \notin json /\ 0 \notin backup /\ DirectoriesStand
    BY <1>type DEF RetirementTypeOK, SerialInv
  <2> QED
    BY <2>1 DEF DirectoriesStand, Stands, RemoveDirectory, RemoveRest, OneRequest
<1>same. /\ UNCHANGED <<taskRows, co, stale, held, backup, swap, retired, restored, stops>>
         /\ named' = named \/ named' = 0
         /\ json' \subseteq json
         /\ \A o \in Ops : o # "delete" => op'[o] = op[o] /\ op[o] = "idle"
         /\ named' # named => named \notin json /\ Stands("delete", {"removing"})
         /\ named' \notin json'
         /\ op' = [op EXCEPT !["delete"] = op'["delete"]] /\ op'["delete"] \in {"idle", "removing"}
  BY <1>type, <1>inv DEF RetirementTypeOK, RemoveDirectory, RemoveRest, Fault, Then, caps, taskRows, dirs, OneRequest,
     DirectoriesStand, Stands
<1>dirs. DirectoriesStand'
  BY <1>same, <1>inv, <1>type DEF DirectoriesStand, Stands, RetirementTypeOK
<1>excused. Excused => Excused'
  BY <1>same DEF Excused, taskRows
<1>owed. CASE AskedOfSomething /\ EveryRowRetired /\ PathWithoutProject /\ SkeletonIsOwed
  <2>asked. AskedOfSomething'
    <3>1. named \in json => named \in retired
      BY <1>inv DEF RemoveDirectory, RemoveRest, DirectoriesStand, Stands
    <3> QED
      BY <1>owed, <1>same, <1>inv, <3>1 DEF AskedOfSomething, taskRows
  <2>every. EveryRowRetired'
    BY <1>same, <1>type DEF EveryRowRetired, Stands, RetirementTypeOK
  <2>path. PathWithoutProject'
    <3>1. ASSUME NEW u \in Tasks, co[u] = "path" PROVE u \in tomb
      <4>1. row[u] = "running"
        BY <1>type, <3>1 DEF RowsOfCoroutines, Working, Places
      <4>2. named \in json => Stands("delete", {"remove"})
        BY <1>inv DEF RemoveDirectory, RemoveRest, DirectoriesStand, Stands
      <4> QED
        BY <1>owed, <3>1, <4>1, <4>2, <1>inv DEF EveryRowRetired, PathWithoutProject
    <3> QED
      BY <3>1, <1>same DEF PathWithoutProject, taskRows
  <2>owed. SkeletonIsOwed'
    BY <1>owed, <1>same, <1>inv DEF SkeletonIsOwed, Stands, Sweeper, taskRows
  <2> QED
    BY <1>dirs, <1>same, <2>asked, <2>every, <2>path, <2>owed DEF SerialInv
<1> QED
  BY <1>dirs, <1>same, <1>excused, <1>owed DEF SerialInv

(* The directory work of an overwrite. *)
OverwriteStep == MoveOldAside \/ MoveNewIn \/ DiscardNew \/ RestoreOld

LEMMA OverwriteSerial ==
  ASSUME RetirementInv, SerialInv, OneRequest, OverwriteStep
  PROVE  SerialInv'
<1>type. RetirementTypeOK /\ RowsOfCoroutines
  BY DEF RetirementInv, ClaimInv
<1>inv. DirectoriesStand /\ 0 \notin json /\ 0 \notin backup /\ fresh + 1 \notin json \cup backup \cup {0}
  BY <1>type DEF RetirementTypeOK, SerialInv
<1>same. /\ UNCHANGED <<taskRows, co, stale, retired, stops>>
         /\ \A o \in Ops : o # "import" => op'[o] = op[o] /\ op[o] = "idle"
         /\ op' = [op EXCEPT !["import"] = op'["import"]]
         /\ "import" \in Ops
  BY <1>type DEF RetirementTypeOK, OverwriteStep, MoveOldAside, MoveNewIn, DiscardNew, RestoreOld, Then, taskRows, caps,
     Fault, OneRequest
<1> USE <1>type DEF RetirementTypeOK, Stands
<1>idle. ~Stands("delete", {"remove", "removing"}) /\ ~Stands("delete", {"remove", "removing"})'
  BY <1>same
<1>path. \A u \in Tasks : co'[u] = "path" => u \notin stale'
  BY <1>same DEF SerialInv
<1>every. EveryRowRetired'
  BY <1>idle DEF EveryRowRetired
<1>aside. CASE MoveOldAside
  <2>none. swap.old = 0
    BY <1>inv, <1>aside DEF MoveOldAside, DirectoriesStand
  <2>how. \/ /\ named # 0 /\ backup' = backup \cup {named} /\ swap' = [old |-> named, new |-> 0] /\ named' = 0
             /\ op'["import"] = "moveNew"
          \/ UNCHANGED <<named, backup, swap>> /\ op'["import"] = "abort"
    BY <1>aside DEF MoveOldAside, NoSwap, Then
  <2>rest. UNCHANGED <<json, held, restored>>
    BY <1>aside DEF MoveOldAside
  <2>dirs. DirectoriesStand'
    BY <1>idle, <1>inv, <1>same, <2>none, <2>how, <2>rest DEF DirectoriesStand
  <2>excused. Excused => Excused'
    BY <1>same, <1>inv, <2>none, <2>how, <2>rest DEF Excused, DirectoriesStand, taskRows
  <2>owed. CASE AskedOfSomething /\ PathWithoutProject /\ SkeletonIsOwed
    <3>1. AskedOfSomething'
      BY <2>owed, <1>same, <2>none, <2>how, <2>rest DEF AskedOfSomething, taskRows
    <3>2. PathWithoutProject' /\ SkeletonIsOwed'
      BY <2>owed, <1>same, <2>none, <2>how, <2>rest DEF PathWithoutProject, SkeletonIsOwed, Sweeper, taskRows
    <3> QED
      BY <1>path, <1>every, <2>dirs, <3>1, <3>2 DEF SerialInv
  <2> QED
    BY <1>path, <2>dirs, <2>excused, <2>owed DEF SerialInv
<1>new. CASE MoveNewIn
  <2>old. swap.old # 0 /\ swap.new = 0 /\ named \notin json /\ swap.old \in backup
    BY <1>inv, <1>new DEF MoveNewIn, DirectoriesStand, ClaimInv, RetirementInv, RequestsStand
  <2>how. \/ /\ named = 0 /\ named' = fresh + 1 /\ json' = json \cup {fresh + 1} /\ held' = held \cup {fresh + 1}
             /\ swap' = [old |-> swap.old, new |-> fresh + 1] /\ op'["import"] = "commit"
          \/ UNCHANGED <<named, json, held, swap>> /\ op'["import"] = "abort"
    BY <1>new DEF MoveNewIn, Install, Then
  <2>rest. UNCHANGED <<backup, restored>>
    BY <1>new DEF MoveNewIn
  <2>keeps. swap'.old = swap.old /\ (swap'.new = swap.new \/ swap.new = 0)
    BY <2>old, <2>how
  <2>dirs. DirectoriesStand'
    <3>installed. CASE op'["import"] = "commit"
      <4>1. named' \in json' /\ named' = swap'.new /\ json' \subseteq held' /\ named' \notin backup'
        <5>1. /\ named' = fresh + 1 /\ swap'.new = fresh + 1
              /\ json' = json \cup {fresh + 1} /\ held' = held \cup {fresh + 1}
          BY <3>installed, <2>how
        <5>2. json \subseteq held /\ fresh + 1 \notin backup
          BY <1>inv DEF DirectoriesStand
        <5> QED
          BY <5>1, <5>2, <2>rest
      <4> QED
        BY <3>installed, <1>idle, <1>same, <4>1, <2>old, <2>keeps, <2>rest DEF DirectoriesStand
    <3>failed. CASE op'["import"] = "abort"
      BY <3>failed, <1>idle, <1>inv, <1>same, <2>old, <2>how, <2>rest DEF DirectoriesStand
    <3> QED
      BY <3>installed, <3>failed, <2>how
  <2>excused. Excused => Excused'
    BY <1>same, <2>keeps, <2>rest DEF Excused, taskRows
  <2>owed. CASE AskedOfSomething /\ PathWithoutProject /\ SkeletonIsOwed
    <3>1. AskedOfSomething'
      BY <2>owed, <1>same, <2>old, <2>keeps DEF AskedOfSomething, taskRows
    <3>2. PathWithoutProject' /\ SkeletonIsOwed'
      BY <2>old, <2>keeps DEF PathWithoutProject, SkeletonIsOwed
    <3> QED
      BY <1>path, <1>every, <2>dirs, <3>1, <3>2 DEF SerialInv
  <2> QED
    BY <1>path, <2>dirs, <2>excused, <2>owed DEF SerialInv
<1>discard. CASE DiscardNew
  <2>old. swap.old # 0 /\ (named \in json => named = swap.new)
    BY <1>inv, <1>discard DEF DiscardNew, DirectoriesStand
  <2>how. /\ named' = 0 /\ json' = json \ {named} /\ UNCHANGED <<held, backup, swap, restored>>
          /\ op'["import"] = "restore"
    BY <1>discard DEF DiscardNew, Then
  <2>dirs. DirectoriesStand'
    BY <1>idle, <1>inv, <1>same, <2>old, <2>how DEF DirectoriesStand
  <2>excused. Excused => Excused'
    BY <1>same, <2>how DEF Excused, taskRows
  <2>owed. CASE AskedOfSomething /\ PathWithoutProject /\ SkeletonIsOwed
    <3>1. AskedOfSomething'
      BY <2>owed, <1>same, <1>inv, <2>old, <2>how DEF AskedOfSomething, taskRows
    <3>2. PathWithoutProject' /\ SkeletonIsOwed'
      BY <2>old, <2>how DEF PathWithoutProject, SkeletonIsOwed
    <3> QED
      BY <1>path, <1>every, <2>dirs, <3>1, <3>2 DEF SerialInv
  <2> QED
    BY <1>path, <2>dirs, <2>excused, <2>owed DEF SerialInv
<1>restore. CASE RestoreOld
  <2>old. swap.old # 0 /\ swap.old \in backup
    BY <1>inv, <1>restore DEF RestoreOld, DirectoriesStand
  <2>how. /\ swap' = [old |-> 0, new |-> 0] /\ UNCHANGED <<json, held>> /\ op'["import"] = "idle"
          /\ \/ /\ named' = swap.old /\ backup' = backup \ {swap.old} /\ restored' = restored \cup {swap.old}
             \/ UNCHANGED <<named, backup, restored>>
    BY <1>restore DEF RestoreOld, NoSwap, Then
  <2>dirs. DirectoriesStand'
    BY <1>idle, <1>inv, <1>same, <2>old, <2>how DEF DirectoriesStand
  <2>excused. Excused'
    BY <1>inv, <2>old, <2>how DEF Excused
  <2> QED
    BY <1>path, <2>dirs, <2>excused DEF SerialInv
<1> QED
  BY <1>aside, <1>new, <1>discard, <1>restore DEF OverwriteStep

(* A new directory under a free name: create_project, or an import that *)
(* replaces nothing.                                                    *)
CreationStep == ImportNew \/ InstallNew \/ MakeDirectory \/ Publish

LEMMA CreationSerial ==
  ASSUME RetirementInv, SerialInv, OneRequest, OneRequest', CreationStep
  PROVE  SerialInv'
<1>type. RetirementTypeOK
  BY DEF RetirementInv
<1>inv. DirectoriesStand /\ 0 \notin json /\ 0 \notin backup /\ fresh + 1 \notin json \cup backup \cup {0}
  BY <1>type DEF RetirementTypeOK, SerialInv
<1> USE <1>type DEF RetirementTypeOK, Stands
<1>same. UNCHANGED <<taskRows, co, stale, backup, swap, retired, restored, stops>>
  BY DEF CreationStep, ImportNew, InstallNew, MakeDirectory, Publish, dirs, caps
<1>how. \/ UNCHANGED <<named, json, held>>
        \/ named = 0 /\ named' = fresh + 1 /\ json' = json \cup {named'} /\ held' = held \cup {named'}
        \/ /\ named = 0 /\ named' = fresh + 1 /\ UNCHANGED <<json, held>>
           /\ Stands("create", {"publish"})'
        \/ named # 0 /\ named' = named /\ json' = json \cup {named} /\ held' = held \cup {named}
  BY DEF CreationStep, ImportNew, InstallNew, Install, MakeDirectory, Publish, Then, dirs
<1>idle. /\ ~Stands("delete", {"remove", "removing"}) /\ ~Stands("delete", {"remove", "removing"})'
         /\ ~Stands("import", {"moveNew", "commit", "abort", "discard", "restore"})
         /\ ~Stands("import", {"moveNew", "commit", "abort", "discard", "restore"})'
  BY DEF CreationStep, ImportNew, InstallNew, MakeDirectory, Publish, Then, OneRequest
<1>keeps. Stands("create", {"publish"}) => Stands("create", {"publish"})' \/ named' \in held' \cup {0}
  BY DEF CreationStep, ImportNew, InstallNew, MakeDirectory, Publish, Then, OneRequest
<1>dirs. DirectoriesStand'
  <2>1. json' \subseteq held' /\ named' \notin backup' /\ swap'.old = 0
    BY <1>inv, <1>idle, <1>how, <1>same DEF DirectoriesStand
  <2> QED
    BY <2>1, <1>idle DEF DirectoriesStand
<1>path. \A u \in Tasks : co'[u] = "path" => u \notin stale'
  BY <1>same DEF SerialInv
<1>excused. Excused => Excused'
  BY <1>same DEF Excused, taskRows
<1>owed. CASE AskedOfSomething /\ PathWithoutProject /\ SkeletonIsOwed
  <2>asked. AskedOfSomething'
    BY <1>owed, <1>same, <1>inv, <1>how DEF AskedOfSomething, taskRows
  <2>every. EveryRowRetired'
    BY <1>idle DEF EveryRowRetired
  <2>path. PathWithoutProject'
    BY <1>owed, <1>same, <1>inv, <1>how DEF PathWithoutProject, taskRows
  <2>sweepers. \A u \in Tasks : Sweeper(u) => Sweeper(u)'
    BY <1>same DEF Sweeper, taskRows
  <2>owed. SkeletonIsOwed'
    BY <1>owed, <1>same, <1>how, <1>keeps, <2>sweepers DEF SkeletonIsOwed
  <2> QED
    BY <1>dirs, <1>path, <2>asked, <2>every, <2>path, <2>owed DEF SerialInv
<1> QED
  BY <1>dirs, <1>path, <1>excused, <1>owed DEF SerialInv

LEMMA CrashSerial ==
  ASSUME RetirementInv, SerialInv, ServerStops
  PROVE  SerialInv'
<1>1. DirectoriesStand'
  BY DEF SerialInv, DirectoriesStand, Stands, ServerStops, NoSwap
<1>2. Excused'
  BY DEF RetirementInv, RetirementTypeOK, Excused, ServerStops
<1> QED
  BY <1>1, <1>2 DEF SerialInv, ServerStops

LEMMA SerialStep == Serial /\ OneRequest /\ OneRequest' /\ [RetirementNext]_retirementVars => Serial'
<1> SUFFICES ASSUME RetirementInv, SerialInv, OneRequest, OneRequest', [RetirementNext]_retirementVars PROVE SerialInv'
  BY RetirementStep DEF Serial
<1>still. ASSUME UNCHANGED retirementVars PROVE SerialInv'
  BY <1>still DEF retirementVars, taskRows, dirs, reqs, caps, SerialInv, DirectoriesStand, Excused, AskedOfSomething, EveryRowRetired,
     PathWithoutProject, SkeletonIsOwed, Sweeper, Stands
<1>directory. ASSUME DirectoryStep PROVE SerialInv'
  BY <1>directory, DeletionSerial, OverwriteSerial, CreationSerial DEF DirectoryStep, OverwriteStep, CreationStep
<1> QED
  BY <1>still, <1>directory, NextSplits, CoroutineSerial, RowSerial, RequestSerial, CrashSerial

LEMMA SerialHolds == RetirementSpec /\ []OneRequest => []Serial
BY SerialStarts, SerialStep, PTL DEF RetirementSpec

(* A project that takes the name over finds no record and no directory of  *)
(* the former one (NameIsFree: retire_project_records and                  *)
(* fail_task_of_deleted_project), while requests follow one another.       *)
THEOREM NamesAreFree == RetirementSpec /\ []OneRequest => []NameIsFree
<1>1. Serial => NameIsFree
  <2> SUFFICES ASSUME RetirementInv, SerialInv PROVE InheritsNothing /\ DeletedNameIsFree
    BY DEF Serial, NameIsFree
  <2>1. InheritsNothing
    BY DEF RetirementInv
  <2>2. ASSUME \A t \in Tasks : co[t] = "none",
               \A o \in Ops : op[o] = "idle",
               belated = {}, stops = 0, backup = {}, restored = {}
        PROVE  named \in held \cup {0}
    BY <2>2 DEF SerialInv, Excused, SkeletonIsOwed, DirectoriesStand, Stands, Sweeper
  <2> QED
    BY <2>1, <2>2 DEF DeletedNameIsFree
<1> QED
  BY SerialHolds, <1>1, PTL

(* A failed deletion or overwrite keeps the project, and what belonged to a *)
(* retired one commits nothing any more (RetirementDecides: delete_project, *)
(* _replace_project_dir and project_metadata_lock).                         *)
THEOREM RetirementsDecide == RetirementSpec /\ []OneRequest => RetirementDecides
<1> DEFINE Ends == \A d \in json \ json' : d \in retired \cup {swap.new}
<1>1. Serial /\ OneRequest /\ [RetirementNext]_retirementVars => [Ends]_retirementVars
  <2> SUFFICES ASSUME RetirementInv, SerialInv, OneRequest, RetirementNext, NEW d \in json \ json'
               PROVE  d \in retired \cup {swap.new}
    BY DEF Serial
  <2>inv. DirectoriesStand /\ RetirementTypeOK
    BY DEF SerialInv, RetirementInv
  <2>coroutine. ASSUME NEW t \in Tasks, CoroutineStep(t) PROVE FALSE
    BY <2>inv, <2>coroutine, CoroutineDirectories
  <2>row. ASSUME NEW t \in Tasks, RowStep(t) PROVE FALSE
    BY <2>row DEF RowStep, Ask, Insert, ClaimTask, Settle, FailTaskOfDeletedProject, Resume, dirs
  <2>request. ASSUME NEW o \in Ops, RequestStep(o) PROVE FALSE
    BY <2>request DEF RequestStep, BeginRetirement, CommitRetirement, CommitFails, Rollback, dirs
  <2>crash. ASSUME ServerStops PROVE FALSE
    BY <2>crash DEF ServerStops
  <2>directory. ASSUME DirectoryStep PROVE RemoveDirectory \/ DiscardNew
    BY <2>directory DEF DirectoryStep, RemoveRest, MoveOldAside, MoveNewIn, RestoreOld, ImportNew, InstallNew,
       Install, MakeDirectory, Publish, dirs
  <2>removed. RemoveDirectory \/ DiscardNew
    BY <2>coroutine, <2>row, <2>request, <2>crash, <2>directory, NextSplits
  <2> QED
    BY <2>removed, <2>inv DEF RemoveDirectory, DiscardNew, DirectoriesStand, Stands
<1> QED
  BY SerialHolds, RetiredTasksGiveUp, <1>1, PTL DEF RetirementSpec, RetirementDecides, OnlyRetiredProjectsEnd
==============================================================================
