--------------------------- MODULE RouteGatesProofs ---------------------------
(***************************************************************************)
(* Proofs about RouteGates, for any nodes, ports, names and requests:      *)
(* active rows are served, services were approved and those without a row  *)
(* have a known cause, and every success gets its row.                     *)
(*                                                                         *)
(* None of these is inductive.  What carries them is on the host: a port   *)
(* has one unit at most, the worker holds one outcome at a time, and the   *)
(* port of a creation in its hands has the unit and no row.                *)
(***************************************************************************)
EXTENDS RouteGates, TLAPS

OneInHand ==
  \A c, d \in Ids :
    commands[c].status \in InHand /\ commands[d].status \in InHand => c = d

OneUnitPerPort == \A u, v \in unit : u.port = v.port => u = v

CreatedIsServed ==
  \A c \in Ids :
    commands[c].status = "executed" /\ commands[c].plan \in Creation =>
      /\ ForwardOf(commands[c].plan) \in unit
      /\ \A r \in route : r.port # commands[c].plan.port

HostInv == OneInHand /\ OneUnitPerPort /\ CreatedIsServed /\ ActiveRowIsServed

\* What the gate of a creation saw holds for good.
Approved(p) ==
  /\ p \in RealRun => DryRunSucceeded(p)
  /\ p \in Execute => Preflighted(p)

CreationsWereApproved ==
  /\ \A c \in Ids : Approved(commands[c].plan)
  /\ \A h \in Request : txn[h] # None => Approved(txn[h])

ApprovalInv == CreationsWereApproved /\ UnitWasApproved

NodesExist ==
  /\ \A c \in Ids : node[commands[c].plan.node] # "absent"
  /\ \A h \in Request : txn[h] # None => node[txn[h].node] # "absent"
  /\ \A u \in unit : node[u.node] # "absent"

CauseInv == NodesExist /\ UnknownServiceHasCause

-----------------------------------------------------------------------------
(***************************************************************************)
(* Plans, and how the list of commands changes.                            *)
(***************************************************************************)

Status == Unfinished \cup {"succeeded", "failed"}

\* A plan is of one kind, and its forward is one that can be on the host.
LEMMA PlanFacts ==
  ASSUME NEW p \in Plan
  PROVE  /\ p.node \in Node /\ p.port \in Port /\ p.method \in Method
         /\ ForwardOf(p) \in Forward
         /\ ForwardOf(p).node = p.node /\ ForwardOf(p).port = p.port
         /\ ForwardOf(p).method = p.method
         /\ p \in DryRun \/ p \in Creation
         /\ ~(p \in DryRun /\ p \in Creation)
         /\ p \in Creation => p \in RealRun \/ p \in Execute
         /\ p \in RealRun => p.method = "haproxy_tcp"
         /\ p \in DryRun => p.method = "haproxy_tcp"
         /\ p \in Execute => p.node \in ApprovedTarget /\ p.port = ApprovedPort
  BY GatesAssumption
  DEF Plan, DryRun, Creation, RealRun, Execute, Method, ForwardOf, Forward

\* Become changes the status of one command and nothing else of any.
LEMMA BecomeFacts ==
  ASSUME TypeOK, NEW c \in Ids, NEW s \in Status, Become(c, s)
  PROVE  /\ commands' \in Seq(CommandRow)
         /\ Ids' = Ids
         /\ commands'[c].status = s
         /\ \A d \in Ids : commands'[d].plan = commands[d].plan
         /\ \A d \in Ids : d # c => commands'[d].status = commands[d].status
<1>1. commands[c] \in CommandRow
  BY DEF TypeOK, Ids
<1>2. [commands[c] EXCEPT !.status = s] \in CommandRow
  BY <1>1 DEF CommandRow, Status
<1>3. commands' = [commands EXCEPT ![c] = [commands[c] EXCEPT !.status = s]]
  BY DEF Become
<1>4. commands' \in Seq(CommandRow)
  BY <1>2, <1>3 DEF TypeOK, Ids
<1>5. QED
  BY <1>1, <1>3, <1>4 DEF TypeOK, Ids, CommandRow

\* Issue adds one pending command and leaves the others as they are.
LEMMA IssueFacts ==
  ASSUME TypeOK, NEW p \in Plan, Issue(p)
  PROVE  /\ commands' \in Seq(CommandRow)
         /\ Ids' = Ids \cup {Len(commands) + 1}
         /\ Len(commands) + 1 \notin Ids
         /\ commands'[Len(commands) + 1].plan = p
         /\ commands'[Len(commands) + 1].status = "pending"
         /\ \A d \in Ids : commands'[d] = commands[d]
<1>1. [plan |-> p, status |-> "pending"] \in CommandRow
  BY DEF CommandRow, Unfinished, Due
<1>2. QED
  BY <1>1 DEF TypeOK, Issue, Ids

\* Every command's plan is one, and so is every request's.
LEMMA PlansAreTyped ==
  ASSUME TypeOK
  PROVE  /\ \A c \in Ids : commands[c].plan \in Plan /\ commands[c].status \in Status
         /\ \A h \in Request : txn[h] # None => txn[h] \in Creation /\ txn[h] \in Plan
<1>1. \A c \in Ids : commands[c] \in CommandRow
  BY DEF TypeOK, Ids
<1>2. \A h \in Request : txn[h] \in Creation \cup {None}
  BY DEF TypeOK
<1>3. QED
  BY <1>1, <1>2 DEF CommandRow, Status, Plan

-----------------------------------------------------------------------------
(***************************************************************************)
(* Type correctness.                                                       *)
(***************************************************************************)

LEMMA TypeStep == TypeOK /\ [Next]_vars => TypeOK'
<1>. SUFFICES ASSUME TypeOK, [Next]_vars PROVE TypeOK'
  OBVIOUS
<1>1. CASE Nodes
  BY <1>1 DEF Nodes, CreateNode, RegisterNode, DeleteNode, TypeOK
<1>2. ASSUME NEW n \in ApprovedTarget, NEW m \in Method, PreflightPasses(n, m)
      PROVE  TypeOK'
  BY <1>2 DEF PreflightPasses, TypeOK
<1>3. ASSUME NEW p \in DryRun, CreateDryRun(p)
      PROVE  TypeOK'
  <2>1. p \in Plan /\ Issue(p)
    BY <1>3 DEF Plan, CreateDryRun
  <2>2. commands' \in Seq(CommandRow)
    BY <2>1, IssueFacts
  <2>3. QED
    BY <1>3, <2>2 DEF CreateDryRun, TypeOK
<1>4. ASSUME NEW h \in Request, NEW p \in Creation, BeginCreate(h, p)
      PROVE  TypeOK'
  BY <1>4 DEF BeginCreate, TypeOK
<1>5. ASSUME NEW h \in Request, CommitCreate(h)
      PROVE  TypeOK'
  <2>1. txn[h] \in Plan /\ Issue(txn[h])
    BY <1>5, PlansAreTyped DEF CommitCreate
  <2>2. commands' \in Seq(CommandRow)
    BY <2>1, IssueFacts
  <2>3. QED
    BY <1>5, <2>2 DEF CommitCreate, TypeOK
<1>6. ASSUME NEW c \in Ids, NEW s \in Status, Become(c, s), UNCHANGED <<node, preflight, txn>>,
             unit' \in SUBSET Forward, route' \in SUBSET Forward, orphan' \in SUBSET Forward,
             faults' \in 0 .. MaxFaults
      PROVE  TypeOK'
  BY <1>6, BecomeFacts DEF TypeOK
<1>7. ASSUME NEW c \in Ids,
             ExecuteDryRun(c) \/ ExecuteCreation(c) \/ RefuseCreation(c) \/ Lose(c) \/ LeaseLapses(c)
      PROVE  TypeOK'
  <2>1. \E s \in Status : Become(c, s)
    BY <1>7 DEF ExecuteDryRun, ExecuteCreation, RefuseCreation, Lose, LeaseLapses,
                Status, Unfinished, Due, InHand
  <2>2. ForwardOf(commands[c].plan) \in Forward
    BY PlansAreTyped, PlanFacts
  <2>3. faults' \in 0 .. MaxFaults
    BY <1>7, GatesAssumption DEF ExecuteDryRun, ExecuteCreation, RefuseCreation, Lose, LeaseLapses,
                                 Strike, TypeOK
  <2>4. /\ UNCHANGED <<node, preflight, txn>>
        /\ unit' \in SUBSET Forward /\ route' \in SUBSET Forward /\ orphan' \in SUBSET Forward
    BY <1>7, <2>2 DEF ExecuteDryRun, ExecuteCreation, RefuseCreation, Lose, LeaseLapses, TypeOK
  <2>5. QED
    BY <2>1, <2>3, <2>4, <1>6
<1>8. ASSUME NEW c \in Ids, RecordSuccess(c) \/ RejectSuccess(c) \/ RecordFailure(c)
      PROVE  TypeOK'
  <2>1. \E s \in Status : Become(c, s)
    BY <1>8 DEF RecordSuccess, RejectSuccess, RecordFailure, Status
  <2>2. Recorded(commands[c].plan) \in SUBSET Forward
    BY PlansAreTyped, PlanFacts DEF Recorded
  <2>3. /\ UNCHANGED <<node, preflight, txn>>
        /\ unit' \in SUBSET Forward /\ route' \in SUBSET Forward /\ orphan' \in SUBSET Forward
        /\ faults' \in 0 .. MaxFaults
    BY <1>8, <2>2 DEF RecordSuccess, RejectSuccess, RecordFailure, TypeOK
  <2>4. QED
    BY <2>1, <2>3, <1>6
<1>9. ASSUME NEW r \in route, DeleteRoute(r) \/ CleanUpRoute(r)
      PROVE  TypeOK'
  BY <1>9 DEF DeleteRoute, CleanUpRoute, TypeOK
<1>10. CASE UNCHANGED vars
  BY <1>10 DEF vars, TypeOK
<1>11. QED
  BY <1>1, <1>2, <1>3, <1>4, <1>5, <1>7, <1>8, <1>9, <1>10
  DEF Next, Gates, WorkerSteps, Records

LEMMA TypeInit == Init => TypeOK
  BY GatesAssumption DEF Init, TypeOK

\* The state of the gates, the commands, the host and the records stays typed.
THEOREM TypeCorrect == Spec => []TypeOK
<1>1. QED
  BY TypeInit, TypeStep, PTL DEF Spec

-----------------------------------------------------------------------------
(***************************************************************************)
(* The host and the records.                                               *)
(***************************************************************************)

\* Steps that leave the host, the rows and all outcomes in hand alone.
LEMMA HostKept ==
  ASSUME HostInv, UNCHANGED <<unit, route>>,
         \A c \in Ids' : \/ commands'[c].status \notin InHand
                         \/ /\ c \in Ids
                            /\ commands'[c].plan = commands[c].plan
                            /\ commands'[c].status = commands[c].status
  PROVE  HostInv'
<1>1. OneInHand'
  BY DEF HostInv, OneInHand
<1>2. CreatedIsServed'
  BY DEF HostInv, CreatedIsServed, InHand
<1>3. QED
  BY <1>1, <1>2 DEF HostInv, OneUnitPerPort, ActiveRowIsServed

\* The worker takes up an outcome, with its hands empty.
LEMMA HandTaken ==
  ASSUME TypeOK, NEW c \in Ids, NEW s \in InHand, HandsEmpty, Become(c, s)
  PROVE  /\ OneInHand'
         /\ \A d \in Ids' : commands'[d].status \in InHand => d = c
         /\ Ids' = Ids /\ commands'[c].plan = commands[c].plan
<1>1. /\ Ids' = Ids
      /\ \A d \in Ids : commands'[d].plan = commands[d].plan
      /\ \A d \in Ids : d # c => commands'[d].status = commands[d].status
  BY BecomeFacts DEF Status, Unfinished
<1>2. \A d \in Ids : d # c => commands'[d].status \notin InHand
  BY <1>1 DEF HandsEmpty
<1>3. QED
  BY <1>1, <1>2 DEF OneInHand

LEMMA HostStep == TypeOK /\ HostInv /\ [Next]_vars => HostInv'
<1>. SUFFICES ASSUME TypeOK, HostInv, [Next]_vars PROVE HostInv'
  OBVIOUS
<1>1. ASSUME UNCHANGED <<commands, unit, route>>
      PROVE  HostInv'
  BY <1>1 DEF HostInv, OneInHand, OneUnitPerPort, CreatedIsServed, ActiveRowIsServed, Ids
<1>2. ASSUME NEW p \in Plan, Issue(p), UNCHANGED <<unit, route>>
      PROVE  HostInv'
  <2>1. /\ Ids' = Ids \cup {Len(commands) + 1}
        /\ commands'[Len(commands) + 1].status = "pending"
        /\ \A d \in Ids : commands'[d] = commands[d]
    BY <1>2, IssueFacts
  <2>2. \A c \in Ids' : \/ commands'[c].status \notin InHand
                        \/ /\ c \in Ids
                           /\ commands'[c].plan = commands[c].plan
                           /\ commands'[c].status = commands[c].status
    BY <2>1 DEF InHand
  <2>3. QED
    BY <1>2, <2>2, HostKept
<1>3. ASSUME NEW c \in Ids, NEW s \in Status \ InHand, Become(c, s), UNCHANGED <<unit, route>>
      PROVE  HostInv'
  <2>1. /\ Ids' = Ids /\ commands'[c].status = s
        /\ \A d \in Ids : commands'[d].plan = commands[d].plan
        /\ \A d \in Ids : d # c => commands'[d].status = commands[d].status
    BY <1>3, BecomeFacts
  <2>2. QED
    BY <1>3, <2>1, HostKept
<1>4. ASSUME NEW c \in Ids, NEW s \in InHand, HandsEmpty, Become(c, s), UNCHANGED <<unit, route>>,
             s = "refused" \/ commands[c].plan \in DryRun
      PROVE  HostInv'
  <2>1. /\ OneInHand'
        /\ \A d \in Ids' : commands'[d].status \in InHand => d = c
        /\ Ids' = Ids /\ commands'[c].plan = commands[c].plan
    BY <1>4, HandTaken
  <2>2. commands'[c].status = s
    BY <1>4, BecomeFacts DEF Status, Unfinished
  <2>3. ~(commands'[c].status = "executed" /\ commands'[c].plan \in Creation)
    BY <1>4, <2>1, <2>2, PlansAreTyped, PlanFacts
  <2>4. CreatedIsServed'
    BY <2>1, <2>3 DEF CreatedIsServed, InHand
  <2>5. QED
    BY <1>4, <2>1, <2>4 DEF HostInv, OneUnitPerPort, ActiveRowIsServed
<1>5. ASSUME NEW c \in Ids, ExecuteCreation(c)
      PROVE  HostInv'
  <2>. DEFINE p == commands[c].plan
  <2>1. /\ HandsEmpty /\ Become(c, "executed") /\ "executed" \in InHand
        /\ unit' = unit \cup {ForwardOf(p)} /\ route' = route
        /\ \A u \in unit : u.port # p.port
    BY <1>5 DEF ExecuteCreation, Claimed, HostTakes, Listening, InHand
  <2>2. ForwardOf(p).port = p.port
    BY PlansAreTyped, PlanFacts
  <2>3. /\ OneInHand'
        /\ \A d \in Ids' : commands'[d].status \in InHand => d = c
        /\ commands'[c].plan = p
    BY <2>1, HandTaken
  <2>4. \A r \in route : r.port # p.port
    BY <2>1 DEF HostInv, ActiveRowIsServed
  <2>5. OneUnitPerPort' /\ ActiveRowIsServed'
    BY <2>1, <2>2 DEF HostInv, OneUnitPerPort, ActiveRowIsServed
  <2>6. CreatedIsServed'
    BY <2>1, <2>3, <2>4 DEF CreatedIsServed, InHand
  <2>7. QED
    BY <2>3, <2>5, <2>6 DEF HostInv
<1>6. ASSUME NEW c \in Ids, RecordSuccess(c)
      PROVE  HostInv'
  <2>. DEFINE p == commands[c].plan
  <2>1. /\ commands[c].status = "executed" /\ Become(c, "succeeded")
        /\ unit' = unit /\ route' = route \cup Recorded(p)
    BY <1>6 DEF RecordSuccess
  <2>2. /\ Ids' = Ids /\ commands'[c].status = "succeeded"
        /\ \A d \in Ids : d # c => commands'[d].status = commands[d].status
    BY <2>1, BecomeFacts DEF Status
  <2>3. \A d \in Ids : d # c => commands[d].status \notin InHand
    BY <2>1 DEF HostInv, OneInHand, InHand
  <2>4. \A d \in Ids' : commands'[d].status \notin InHand
    BY <2>2, <2>3 DEF InHand
  <2>5. OneInHand' /\ CreatedIsServed'
    BY <2>4 DEF OneInHand, CreatedIsServed, InHand
  <2>6. Recorded(p) \subseteq unit
    <3>1. CASE p \in DryRun
      BY <3>1 DEF Recorded
    <3>2. CASE p \in Creation
      <4>1. ForwardOf(p) \in unit
        BY <2>1, <3>2 DEF HostInv, CreatedIsServed
      <4>2. QED
        BY <4>1 DEF Recorded
    <3>3. QED
      BY <3>1, <3>2, PlansAreTyped, PlanFacts
  <2>7. QED
    BY <2>1, <2>5, <2>6 DEF HostInv, OneUnitPerPort, ActiveRowIsServed
<1>7. ASSUME NEW r \in route, DeleteRoute(r)
      PROVE  HostInv'
  BY <1>7 DEF DeleteRoute, HostInv, OneInHand, OneUnitPerPort, CreatedIsServed, ActiveRowIsServed, Ids
<1>8. ASSUME NEW r \in route, CleanUpRoute(r)
      PROVE  HostInv'
  <2>1. /\ HandsEmpty /\ UNCHANGED commands /\ route' = route \ {r}
        /\ unit' = {u \in unit : ~(u.method = r.method /\ u.port = r.port)}
    BY <1>8 DEF CleanUpRoute
  <2>2. OneInHand' /\ CreatedIsServed'
    BY <2>1 DEF HandsEmpty, OneInHand, CreatedIsServed, InHand, Ids
  <2>3. \A q \in route : q # r => q \in unit /\ q.port # r.port
    BY DEF HostInv, ActiveRowIsServed, OneUnitPerPort
  <2>4. ActiveRowIsServed'
    BY <2>1, <2>3 DEF ActiveRowIsServed
  <2>5. OneUnitPerPort'
    BY <2>1 DEF HostInv, OneUnitPerPort
  <2>6. QED
    BY <2>2, <2>4, <2>5 DEF HostInv
<1>9. CASE Nodes
  BY <1>1, <1>9 DEF Nodes, CreateNode, RegisterNode, DeleteNode
<1>10. CASE Gates
  <2>1. ASSUME NEW p \in DryRun, CreateDryRun(p) PROVE HostInv'
    BY <2>1, <1>2 DEF CreateDryRun, Plan
  <2>2. ASSUME NEW h \in Request, CommitCreate(h) PROVE HostInv'
    BY <2>2, <1>2, PlansAreTyped DEF CommitCreate
  <2>3. ASSUME NEW h \in Request, NEW p \in Creation, BeginCreate(h, p) PROVE HostInv'
    BY <2>3, <1>1 DEF BeginCreate
  <2>4. ASSUME NEW n \in ApprovedTarget, NEW m \in Method, PreflightPasses(n, m) PROVE HostInv'
    BY <2>4, <1>1 DEF PreflightPasses
  <2>5. QED
    BY <1>10, <2>1, <2>2, <2>3, <2>4 DEF Gates
<1>11. CASE WorkerSteps
  <2>1. ASSUME NEW c \in Ids, ExecuteDryRun(c) PROVE HostInv'
    BY <2>1, <1>4 DEF ExecuteDryRun, Claimed, InHand
  <2>2. ASSUME NEW c \in Ids, RefuseCreation(c) PROVE HostInv'
    BY <2>2, <1>4 DEF RefuseCreation, Claimed, InHand
  <2>3. ASSUME NEW c \in Ids, Lose(c) \/ LeaseLapses(c) PROVE HostInv'
    BY <2>3, <1>3 DEF Lose, LeaseLapses, Status, Unfinished, Due, InHand
  <2>4. QED
    BY <1>5, <1>11, <2>1, <2>2, <2>3 DEF WorkerSteps
<1>12. CASE Records
  <2>1. ASSUME NEW c \in Ids, RejectSuccess(c) \/ RecordFailure(c) PROVE HostInv'
    BY <2>1, <1>3 DEF RejectSuccess, RecordFailure, Status, InHand
  <2>2. QED
    BY <1>6, <1>7, <1>8, <1>12, <2>1 DEF Records
<1>13. CASE UNCHANGED vars
  BY <1>1, <1>13 DEF vars
<1>14. QED
  BY <1>9, <1>10, <1>11, <1>12, <1>13 DEF Next

LEMMA HostInit == Init => HostInv
  BY DEF Init, HostInv, OneInHand, OneUnitPerPort, CreatedIsServed, ActiveRowIsServed, Ids

LEMMA HostInvariant == Spec => []HostInv
  BY HostInit, HostStep, TypeCorrect, PTL DEF Spec

\* Every active row has its service: a row only comes from a report in the
\* worker's hands, whose unit is there, and a cleanup takes a unit only when no
\* report is under way and no other row has its port.
THEOREM RowsAreServed == Spec => []ActiveRowIsServed
<1>1. HostInv => ActiveRowIsServed
  BY DEF HostInv
<1>2. QED
  BY <1>1, HostInvariant, PTL

\* A creation that is recorded as succeeded adds its own row: while it was in
\* the worker's hands, no row can have taken its port.
THEOREM SuccessesAddRows == Spec => SuccessHasItsRow
<1>1. ASSUME TypeOK, HostInv, NEW c \in Ids, commands[c].plan \in Creation, RecordSuccess(c)
      PROVE  ForwardOf(commands[c].plan) \in route' \ route
  <2>. DEFINE p == commands[c].plan
  <2>1. /\ commands[c].status = "executed"
        /\ route' = route \cup Recorded(p)
    BY <1>1 DEF RecordSuccess
  <2>2. \A r \in route : r.port # p.port
    BY <1>1, <2>1 DEF HostInv, CreatedIsServed
  <2>3. p \notin DryRun /\ ForwardOf(p).port = p.port
    BY <1>1, PlansAreTyped, PlanFacts
  <2>4. Recorded(p) = {ForwardOf(p)}
    BY <2>2, <2>3 DEF Recorded
  <2>5. QED
    BY <2>1, <2>2, <2>3, <2>4
<1>2. TypeOK /\ HostInv =>
        [\A c \in Ids : commands[c].plan \in Creation /\ RecordSuccess(c) =>
           ForwardOf(commands[c].plan) \in route' \ route]_vars
  BY <1>1
<1>3. QED
  BY <1>2, TypeCorrect, HostInvariant, PTL DEF SuccessHasItsRow

-----------------------------------------------------------------------------
(***************************************************************************)
(* Approvals.                                                              *)
(***************************************************************************)

\* An approval is not lost in a step that keeps succeeded dry runs and passed
\* preflights, and no plan changes.
LEMMA ApprovalKept ==
  ASSUME NEW p, Approved(p), preflight \subseteq preflight', Ids \subseteq Ids',
         \A d \in Ids : /\ commands'[d].plan = commands[d].plan
                        /\ commands[d].status = "succeeded" => commands'[d].status = "succeeded"
  PROVE  Approved(p)'
  BY DEF Approved, DryRunSucceeded, Preflighted

LEMMA UnitApprovalKept ==
  ASSUME NEW u \in unit, UnitWasApproved, preflight \subseteq preflight', Ids \subseteq Ids',
         \A d \in Ids : /\ commands'[d].plan = commands[d].plan
                        /\ commands[d].status = "succeeded" => commands'[d].status = "succeeded"
  PROVE  IF u.method = "haproxy_tcp"
         THEN \E c \in Ids' : /\ commands'[c].plan \in DryRun
                              /\ ForwardOf(commands'[c].plan) = u
                              /\ commands'[c].status = "succeeded"
         ELSE u.port = ApprovedPort /\ <<u.node, u.method>> \in preflight'
  BY DEF UnitWasApproved, Preflighted

\* A creation the host takes and whose gate has let it through makes a unit
\* that was approved.
LEMMA CreatedIsApproved ==
  ASSUME NEW p \in Plan, p \in Creation, TypeOK, Approved(p), HostTakes(p)
  PROVE  IF p.method = "haproxy_tcp"
         THEN \E c \in Ids : /\ commands[c].plan \in DryRun
                             /\ ForwardOf(commands[c].plan) = ForwardOf(p)
                             /\ commands[c].status = "succeeded"
         ELSE p.port = ApprovedPort /\ Preflighted(p)
<1>1. CASE p \in RealRun
  <2>1. PICK c \in Ids : /\ commands[c].plan \in DryRun /\ SamePlan(commands[c].plan, p)
                         /\ commands[c].status = "succeeded"
    BY <1>1 DEF Approved, DryRunSucceeded
  <2>2. commands[c].plan.method = "haproxy_tcp" /\ p.method = "haproxy_tcp"
    BY <1>1, <2>1, PlanFacts, PlansAreTyped
  <2>3. ForwardOf(commands[c].plan) = ForwardOf(p)
    BY <2>1, <2>2 DEF ForwardOf, SamePlan
  <2>4. QED
    BY <2>1, <2>2, <2>3
<1>2. CASE p \in Execute
  BY <1>2, PlanFacts DEF HostTakes, Approved
<1>3. QED
  BY <1>1, <1>2, PlanFacts

LEMMA ApprovalStep == TypeOK /\ ApprovalInv /\ [Next]_vars => ApprovalInv'
<1>. SUFFICES ASSUME TypeOK, ApprovalInv, [Next]_vars PROVE ApprovalInv'
  OBVIOUS
<1>. DEFINE Monotone ==
       /\ preflight \subseteq preflight' /\ Ids \subseteq Ids'
       /\ \A d \in Ids : /\ commands'[d].plan = commands[d].plan
                         /\ commands[d].status = "succeeded" => commands'[d].status = "succeeded"
\* Nothing new is asked for or made.
<1>1. ASSUME Monotone, Ids' = Ids, txn' = txn, unit' \subseteq unit
      PROVE  ApprovalInv'
  <2>1. CreationsWereApproved'
    BY <1>1, ApprovalKept DEF ApprovalInv, CreationsWereApproved
  <2>2. UnitWasApproved'
    BY <1>1, UnitApprovalKept DEF ApprovalInv, UnitWasApproved, Preflighted
  <2>3. QED
    BY <2>1, <2>2 DEF ApprovalInv
<1>2. ASSUME UNCHANGED <<preflight, commands, txn>>, unit' \subseteq unit
      PROVE  ApprovalInv'
  BY <1>1, <1>2 DEF Ids
<1>3. ASSUME NEW c \in Ids, NEW s \in Status, Become(c, s), UNCHANGED <<preflight, txn>>,
             unit' = unit, commands[c].status # "succeeded"
      PROVE  ApprovalInv'
  <2>1. /\ Ids' = Ids
        /\ \A d \in Ids : commands'[d].plan = commands[d].plan
        /\ \A d \in Ids : d # c => commands'[d].status = commands[d].status
    BY <1>3, BecomeFacts
  <2>2. QED
    BY <1>1, <1>3, <2>1
<1>4. ASSUME NEW p \in Plan, Issue(p), UNCHANGED <<preflight, unit>>, Approved(p),
             \A h \in Request : txn'[h] # None => txn'[h] = txn[h]
      PROVE  ApprovalInv'
  <2>1. /\ Ids' = Ids \cup {Len(commands) + 1}
        /\ commands'[Len(commands) + 1].plan = p
        /\ \A d \in Ids : commands'[d] = commands[d]
    BY <1>4, IssueFacts
  <2>2. Monotone
    BY <1>4, <2>1
  <2>3. \A q : Approved(q) => Approved(q)'
    BY <2>2, ApprovalKept
  <2>4. CreationsWereApproved'
    BY <1>4, <2>1, <2>3 DEF ApprovalInv, CreationsWereApproved
  <2>5. UnitWasApproved'
    BY <1>4, <2>2, UnitApprovalKept DEF ApprovalInv, UnitWasApproved, Preflighted
  <2>6. QED
    BY <2>4, <2>5 DEF ApprovalInv
<1>5. ASSUME NEW h \in Request, NEW p \in Creation, BeginCreate(h, p)
      PROVE  ApprovalInv'
  <2>1. Approved(p)
    <3>1. p \in Plan
      BY DEF Plan
    <3>2. ~(p \in RealRun /\ p \in Execute)
      BY DEF RealRun, Execute
    <3>3. QED
      BY <1>5, <3>2 DEF BeginCreate, RealExecutionReady, ExecuteReady, Approved
  <2>2. /\ UNCHANGED <<preflight, commands, unit>>
        /\ txn' = [txn EXCEPT ![h] = p]
    BY <1>5 DEF BeginCreate
  <2>3. Monotone
    BY <2>2 DEF Ids
  <2>4. \A q : Approved(q) => Approved(q)'
    BY <2>3, ApprovalKept
  <2>5. \A g \in Request : txn'[g] = p \/ txn'[g] = txn[g]
    BY <2>2 DEF TypeOK
  <2>6. CreationsWereApproved'
    BY <2>1, <2>2, <2>4, <2>5 DEF ApprovalInv, CreationsWereApproved, Ids
  <2>7. UnitWasApproved'
    BY <2>2 DEF ApprovalInv, UnitWasApproved, Preflighted, Ids
  <2>8. QED
    BY <2>6, <2>7 DEF ApprovalInv
<1>6. ASSUME NEW c \in Ids, ExecuteCreation(c)
      PROVE  ApprovalInv'
  <2>. DEFINE p == commands[c].plan
  <2>1. /\ Become(c, "executed") /\ commands[c].status # "succeeded" /\ "executed" \in Status
        /\ UNCHANGED <<preflight, txn>> /\ unit' = unit \cup {ForwardOf(p)}
        /\ p \in Creation /\ HostTakes(p)
    BY <1>6 DEF ExecuteCreation, Claimed, Due, Status, Unfinished, InHand
  <2>2. p \in Plan /\ Approved(p)
    BY PlansAreTyped DEF ApprovalInv, CreationsWereApproved
  <2>3. /\ Ids' = Ids
        /\ \A d \in Ids : commands'[d].plan = commands[d].plan
        /\ \A d \in Ids : d # c => commands'[d].status = commands[d].status
    BY <2>1, BecomeFacts
  <2>4. Monotone
    BY <2>1, <2>3
  <2>5. CreationsWereApproved'
    BY <2>1, <2>3, <2>4, ApprovalKept DEF ApprovalInv, CreationsWereApproved
  <2>. DEFINE q == ForwardOf(p)
  <2>6. /\ q.method = p.method /\ q.port = p.port /\ q.node = p.node
    BY <2>2, PlanFacts
  <2>7. IF q.method = "haproxy_tcp"
        THEN \E d \in Ids : /\ commands[d].plan \in DryRun
                            /\ ForwardOf(commands[d].plan) = q
                            /\ commands[d].status = "succeeded"
        ELSE q.port = ApprovedPort /\ <<q.node, q.method>> \in preflight
    BY <2>1, <2>2, <2>6, CreatedIsApproved DEF Preflighted
  <2>8. IF q.method = "haproxy_tcp"
        THEN \E d \in Ids' : /\ commands'[d].plan \in DryRun
                             /\ ForwardOf(commands'[d].plan) = q
                             /\ commands'[d].status = "succeeded"
        ELSE q.port = ApprovedPort /\ <<q.node, q.method>> \in preflight'
    BY <2>4, <2>7
  <2>9. \A u \in unit :
          IF u.method = "haproxy_tcp"
          THEN \E d \in Ids' : /\ commands'[d].plan \in DryRun
                               /\ ForwardOf(commands'[d].plan) = u
                               /\ commands'[d].status = "succeeded"
          ELSE u.port = ApprovedPort /\ <<u.node, u.method>> \in preflight'
    BY <2>4, UnitApprovalKept DEF ApprovalInv
  <2>10. UnitWasApproved'
    BY <2>1, <2>8, <2>9 DEF UnitWasApproved, Preflighted
  <2>11. QED
    BY <2>5, <2>10 DEF ApprovalInv
<1>7. CASE Nodes
  BY <1>2, <1>7 DEF Nodes, CreateNode, RegisterNode, DeleteNode
<1>8. CASE Gates
  <2>1. ASSUME NEW n \in ApprovedTarget, NEW m \in Method, PreflightPasses(n, m) PROVE ApprovalInv'
    BY <2>1, <1>1 DEF PreflightPasses, Ids
  <2>2. ASSUME NEW p \in DryRun, CreateDryRun(p) PROVE ApprovalInv'
    <3>1. p \in Plan /\ Approved(p)
      BY PlanFacts DEF Plan, Creation, Approved
    <3>2. QED
      BY <2>2, <3>1, <1>4 DEF CreateDryRun
  <2>3. ASSUME NEW h \in Request, CommitCreate(h) PROVE ApprovalInv'
    <3>1. txn[h] \in Plan /\ Approved(txn[h])
      BY <2>3, PlansAreTyped DEF CommitCreate, ApprovalInv, CreationsWereApproved
    <3>2. \A g \in Request : txn'[g] # None => txn'[g] = txn[g]
      BY <2>3 DEF CommitCreate, TypeOK
    <3>3. QED
      BY <2>3, <3>1, <3>2, <1>4 DEF CommitCreate
  <2>4. QED
    BY <1>5, <1>8, <2>1, <2>2, <2>3 DEF Gates
<1>9. CASE WorkerSteps
  <2>1. ASSUME NEW c \in Ids, ExecuteDryRun(c) \/ RefuseCreation(c) \/ Lose(c) \/ LeaseLapses(c)
        PROVE  ApprovalInv'
    <3>1. /\ \E s \in Status : Become(c, s)
          /\ UNCHANGED <<preflight, txn, unit>> /\ commands[c].status # "succeeded"
      BY <2>1 DEF ExecuteDryRun, RefuseCreation, Lose, LeaseLapses, Claimed, Due, InHand,
                  Status, Unfinished
    <3>2. QED
      BY <3>1, <1>3
  <2>2. QED
    BY <1>6, <1>9, <2>1 DEF WorkerSteps
<1>10. CASE Records
  <2>1. ASSUME NEW c \in Ids, RecordSuccess(c) \/ RejectSuccess(c) \/ RecordFailure(c)
        PROVE  ApprovalInv'
    <3>1. /\ \E s \in Status : Become(c, s)
          /\ UNCHANGED <<preflight, txn, unit>> /\ commands[c].status # "succeeded"
      BY <2>1 DEF RecordSuccess, RejectSuccess, RecordFailure, Status
    <3>2. QED
      BY <3>1, <1>3
  <2>2. ASSUME NEW r \in route, DeleteRoute(r) \/ CleanUpRoute(r) PROVE ApprovalInv'
    BY <2>2, <1>2 DEF DeleteRoute, CleanUpRoute
  <2>3. QED
    BY <1>10, <2>1, <2>2 DEF Records
<1>11. CASE UNCHANGED vars
  BY <1>2, <1>11 DEF vars
<1>12. QED
  BY <1>7, <1>8, <1>9, <1>10, <1>11 DEF Next

LEMMA ApprovalInit == Init => ApprovalInv
  BY DEF Init, ApprovalInv, CreationsWereApproved, UnitWasApproved, Ids

\* No service without its gate: an HAProxy route has a dry run of the same
\* target and port that succeeded, a socat route a preflight that passed,
\* whatever overlaps, gets lost or is repeated.
THEOREM ServicesWereApproved == Spec => []UnitWasApproved
<1>1. Spec => []ApprovalInv
  BY ApprovalInit, ApprovalStep, TypeCorrect, PTL DEF Spec
<1>2. ApprovalInv => UnitWasApproved
  BY DEF ApprovalInv
<1>3. QED
  BY <1>1, <1>2, PTL

-----------------------------------------------------------------------------
(***************************************************************************)
(* Services without a row.                                                 *)
(***************************************************************************)

\* A node that is in use is never made anew.
LEMMA NodesExistStep == TypeOK /\ NodesExist /\ [Next]_vars => NodesExist'
<1>. SUFFICES ASSUME TypeOK, NodesExist, [Next]_vars PROVE NodesExist'
  OBVIOUS
<1>1. ASSUME \A n \in Node : node[n] # "absent" => node'[n] # "absent", Ids' = Ids,
             \A c \in Ids : commands'[c].plan = commands[c].plan,
             \A h \in Request : txn'[h] # None => txn'[h] = txn[h] \/ node'[txn'[h].node] # "absent",
             \A u \in unit' : u \in unit \/ node'[u.node] # "absent"
      PROVE  NodesExist'
  <2>1. /\ \A c \in Ids : commands[c].plan.node \in Node
        /\ \A h \in Request : txn[h] # None => txn[h].node \in Node
        /\ \A u \in unit : u.node \in Node
    BY PlansAreTyped, PlanFacts DEF TypeOK, Forward
  <2>2. /\ \A c \in Ids : node'[commands[c].plan.node] # "absent"
        /\ \A h \in Request : txn[h] # None => node'[txn[h].node] # "absent"
        /\ \A u \in unit : node'[u.node] # "absent"
    BY <1>1, <2>1 DEF NodesExist
  <2>3. /\ \A c \in Ids' : node'[commands'[c].plan.node] # "absent"
        /\ \A h \in Request : txn'[h] # None => node'[txn'[h].node] # "absent"
        /\ \A u \in unit' : node'[u.node] # "absent"
    BY <1>1, <2>2
  <2>4. QED
    BY <2>3 DEF NodesExist
<1>2. ASSUME NEW p \in Plan, Issue(p), UNCHANGED <<node, unit>>, node[p.node] # "absent",
             \A h \in Request : txn'[h] # None => txn'[h] = txn[h]
      PROVE  NodesExist'
  <2>1. /\ Ids' = Ids \cup {Len(commands) + 1}
        /\ commands'[Len(commands) + 1].plan = p
        /\ \A d \in Ids : commands'[d] = commands[d]
    BY <1>2, IssueFacts
  <2>2. QED
    BY <1>2, <2>1 DEF NodesExist
<1>3. ASSUME NEW c \in Ids, NEW s \in Status, Become(c, s), UNCHANGED <<node, txn>>,
             unit' \subseteq unit \cup {ForwardOf(commands[c].plan)}
      PROVE  NodesExist'
  <2>1. Ids' = Ids /\ \A d \in Ids : commands'[d].plan = commands[d].plan
    BY <1>3, BecomeFacts
  <2>2. ForwardOf(commands[c].plan).node = commands[c].plan.node
    BY PlansAreTyped, PlanFacts
  <2>3. \A u \in unit' : u \in unit \/ node'[u.node] # "absent"
    BY <1>3, <2>2 DEF NodesExist
  <2>4. QED
    BY <1>1, <1>3, <2>1, <2>3
<1>4. CASE Nodes
  <2>1. \A n \in Node : node[n] # "absent" => node'[n] # "absent"
    BY <1>4 DEF Nodes, CreateNode, RegisterNode, DeleteNode, TypeOK
  <2>2. UNCHANGED <<commands, txn, unit>>
    BY <1>4 DEF Nodes, CreateNode, RegisterNode, DeleteNode
  <2>3. QED
    BY <1>1, <2>1, <2>2 DEF Ids
<1>5. CASE Gates
  <2>1. ASSUME NEW n \in ApprovedTarget, NEW m \in Method, PreflightPasses(n, m) PROVE NodesExist'
    BY <2>1, <1>1 DEF PreflightPasses, Ids
  <2>2. ASSUME NEW p \in DryRun, CreateDryRun(p) PROVE NodesExist'
    BY <2>2, <1>2 DEF CreateDryRun, Plan, Live
  <2>3. ASSUME NEW h \in Request, CommitCreate(h) PROVE NodesExist'
    <3>1. txn[h] \in Plan /\ node[txn[h].node] # "absent"
      BY <2>3, PlansAreTyped DEF CommitCreate, NodesExist
    <3>2. \A g \in Request : txn'[g] # None => txn'[g] = txn[g]
      BY <2>3 DEF CommitCreate, TypeOK
    <3>3. QED
      BY <2>3, <3>1, <3>2, <1>2 DEF CommitCreate
  <2>4. ASSUME NEW h \in Request, NEW p \in Creation, BeginCreate(h, p) PROVE NodesExist'
    <3>1. /\ node[p.node] # "absent" /\ UNCHANGED <<node, commands, unit>>
          /\ txn' = [txn EXCEPT ![h] = p]
      BY <2>4 DEF BeginCreate, RealExecutionReady, ExecuteReady, Live
    <3>2. \A g \in Request : txn'[g] = txn[g] \/ txn'[g] = p
      BY <3>1 DEF TypeOK
    <3>3. QED
      BY <3>1, <3>2, <1>1 DEF Ids
  <2>5. QED
    BY <1>5, <2>1, <2>2, <2>3, <2>4 DEF Gates
<1>6. CASE WorkerSteps
  <2>1. ASSUME NEW c \in Ids,
               ExecuteDryRun(c) \/ ExecuteCreation(c) \/ RefuseCreation(c) \/ Lose(c) \/ LeaseLapses(c)
        PROVE  NodesExist'
    <3>1. /\ \E s \in Status : Become(c, s)
          /\ UNCHANGED <<node, txn>> /\ unit' \subseteq unit \cup {ForwardOf(commands[c].plan)}
      BY <2>1 DEF ExecuteDryRun, ExecuteCreation, RefuseCreation, Lose, LeaseLapses,
                  Status, Unfinished, Due, InHand
    <3>2. QED
      BY <3>1, <1>3
  <2>2. QED
    BY <1>6, <2>1 DEF WorkerSteps
<1>7. CASE Records
  <2>1. ASSUME NEW c \in Ids, RecordSuccess(c) \/ RejectSuccess(c) \/ RecordFailure(c)
        PROVE  NodesExist'
    <3>1. /\ \E s \in Status : Become(c, s)
          /\ UNCHANGED <<node, txn>> /\ unit' \subseteq unit \cup {ForwardOf(commands[c].plan)}
      BY <2>1 DEF RecordSuccess, RejectSuccess, RecordFailure, Status
    <3>2. QED
      BY <3>1, <1>3
  <2>2. ASSUME NEW r \in route, DeleteRoute(r) \/ CleanUpRoute(r) PROVE NodesExist'
    BY <2>2, <1>1 DEF DeleteRoute, CleanUpRoute, Ids
  <2>3. QED
    BY <1>7, <2>1, <2>2 DEF Records
<1>8. CASE UNCHANGED vars
  BY <1>8, <1>1 DEF vars, Ids
<1>9. QED
  BY <1>4, <1>5, <1>6, <1>7, <1>8 DEF Next

\* The service is the outcome of a creation the worker is about to report.
ReportUnderWay(u) ==
  \E c \in Ids : /\ commands[c].status = "executed" /\ commands[c].plan \in Creation
                 /\ ForwardOf(commands[c].plan) = u

LEMMA CauseStep ==
  TypeOK /\ HostInv /\ NodesExist /\ UnknownServiceHasCause /\ [Next]_vars
    => UnknownServiceHasCause'
<1>. SUFFICES ASSUME TypeOK, HostInv, NodesExist, UnknownServiceHasCause, [Next]_vars
              PROVE  UnknownServiceHasCause'
  OBVIOUS
<1>. DEFINE Cause(u) == u \in orphan \/ node[u.node] # "shared" \/ ReportUnderWay(u)
<1>1. \A u \in unit \ route : Cause(u)
  BY DEF UnknownServiceHasCause, ReportUnderWay
<1>2. ASSUME \A u \in unit' \ route' : Cause(u)'
      PROVE  UnknownServiceHasCause'
  BY <1>2 DEF UnknownServiceHasCause, ReportUnderWay
\* Reports stay under way when commands are only added.
<1>3. ASSUME Ids \subseteq Ids', \A d \in Ids : commands'[d] = commands[d],
             UNCHANGED <<node, unit, route, orphan>>
      PROVE  UnknownServiceHasCause'
  BY <1>1, <1>2, <1>3 DEF ReportUnderWay
\* Or when another command moves on than the one in hand.
<1>4. ASSUME NEW c \in Ids, NEW s \in Status, Become(c, s),
             commands[c].status # "executed" \/ commands[c].plan \in DryRun
      PROVE  \A u : ReportUnderWay(u) => ReportUnderWay(u)'
  <2>1. /\ Ids' = Ids
        /\ \A d \in Ids : commands'[d].plan = commands[d].plan
        /\ \A d \in Ids : d # c => commands'[d].status = commands[d].status
    BY <1>4, BecomeFacts
  <2>2. ~(commands[c].status = "executed" /\ commands[c].plan \in Creation)
    BY <1>4, PlansAreTyped, PlanFacts
  <2>3. QED
    BY <2>1, <2>2 DEF ReportUnderWay
<1>5. ASSUME NEW c \in Ids, NEW s \in Status, Become(c, s), UNCHANGED <<node, unit>>,
             commands[c].status # "executed" \/ commands[c].plan \in DryRun,
             orphan \subseteq orphan', route \subseteq route'
      PROVE  UnknownServiceHasCause'
  BY <1>1, <1>2, <1>4, <1>5
\* When the outcome in hand goes, its service is accounted for otherwise.
<1>6. ASSUME NEW c \in Ids, NEW s \in Status, Become(c, s), UNCHANGED <<node, unit>>,
             orphan \subseteq orphan', route \subseteq route',
             commands[c].plan \in Creation, commands[c].status = "executed",
             LET u == ForwardOf(commands[c].plan)
             IN  u \in orphan' \/ u \in route' \/ node[u.node] # "shared"
      PROVE  UnknownServiceHasCause'
  <2>1. /\ Ids' = Ids
        /\ \A d \in Ids : commands'[d].plan = commands[d].plan
        /\ \A d \in Ids : d # c => commands'[d].status = commands[d].status
    BY <1>6, BecomeFacts
  <2>2. \A u : ReportUnderWay(u) => ReportUnderWay(u)' \/ u = ForwardOf(commands[c].plan)
    BY <2>1 DEF ReportUnderWay
  <2>3. QED
    BY <1>1, <1>2, <1>6, <2>2
<1>7. CASE Nodes
  <2>1. UNCHANGED <<commands, unit, route, orphan>>
    BY <1>7 DEF Nodes, CreateNode, RegisterNode, DeleteNode
  <2>2. \A u : ReportUnderWay(u) => ReportUnderWay(u)'
    BY <2>1 DEF ReportUnderWay, Ids
  <2>3. \A n \in Node : node[n] \notin {"absent", "shared"} => node'[n] # "shared"
    BY <1>7 DEF Nodes, CreateNode, RegisterNode, DeleteNode, TypeOK
  <2>4. \A u \in unit : u.node \in Node /\ node[u.node] # "absent"
    BY DEF TypeOK, Forward, NodesExist
  <2>5. QED
    BY <1>1, <1>2, <2>1, <2>2, <2>3, <2>4
<1>8. CASE Gates
  <2>1. ASSUME NEW p \in Plan, Issue(p), UNCHANGED <<node, unit, route, orphan>>
        PROVE  UnknownServiceHasCause'
    BY <2>1, IssueFacts, <1>3
  <2>2. ASSUME NEW n \in ApprovedTarget, NEW m \in Method, PreflightPasses(n, m)
        PROVE  UnknownServiceHasCause'
    BY <2>2, <1>3 DEF PreflightPasses, Ids
  <2>3. ASSUME NEW p \in DryRun, CreateDryRun(p) PROVE UnknownServiceHasCause'
    BY <2>3, <2>1 DEF CreateDryRun, Plan
  <2>4. ASSUME NEW h \in Request, CommitCreate(h) PROVE UnknownServiceHasCause'
    BY <2>4, <2>1, PlansAreTyped DEF CommitCreate
  <2>5. ASSUME NEW h \in Request, NEW p \in Creation, BeginCreate(h, p)
        PROVE  UnknownServiceHasCause'
    BY <2>5, <1>3 DEF BeginCreate, Ids
  <2>6. QED
    BY <1>8, <2>2, <2>3, <2>4, <2>5 DEF Gates
<1>9. CASE WorkerSteps
  <2>1. ASSUME NEW c \in Ids, ExecuteDryRun(c) \/ RefuseCreation(c) \/ LeaseLapses(c)
        PROVE  UnknownServiceHasCause'
    <3>1. /\ \E s \in Status : Become(c, s)
          /\ UNCHANGED <<node, unit, route, orphan>> /\ commands[c].status # "executed"
      BY <2>1 DEF ExecuteDryRun, RefuseCreation, LeaseLapses, Claimed, Due,
                  Status, Unfinished, InHand
    <3>2. QED
      BY <3>1, <1>5
  <2>2. ASSUME NEW c \in Ids, ExecuteCreation(c) PROVE UnknownServiceHasCause'
    <3>. DEFINE q == ForwardOf(commands[c].plan)
    <3>1. /\ Become(c, "executed") /\ "executed" \in Status /\ UNCHANGED <<node, route, orphan>>
          /\ unit' = unit \cup {q} /\ commands[c].status # "executed"
          /\ commands[c].plan \in Creation
      BY <2>2 DEF ExecuteCreation, Claimed, Due, Status, Unfinished, InHand
    <3>2. /\ Ids' = Ids /\ commands'[c].status = "executed"
          /\ commands'[c].plan = commands[c].plan
      BY <3>1, BecomeFacts
    <3>3. \A u : u = q => ReportUnderWay(u)'
      BY <3>1, <3>2 DEF ReportUnderWay, ForwardOf
    <3>4. \A u : ReportUnderWay(u) => ReportUnderWay(u)'
      BY <3>1, <1>4
    <3>5. QED
      BY <1>1, <1>2, <3>1, <3>3, <3>4
  <2>3. ASSUME NEW c \in Ids, Lose(c) PROVE UnknownServiceHasCause'
    <3>1. /\ Become(c, "leased") /\ "leased" \in Status
          /\ UNCHANGED <<node, unit, route>> /\ orphan \subseteq orphan'
      BY <2>3 DEF Lose, Status, Unfinished
    <3>2. CASE commands[c].status = "executed" /\ commands[c].plan \in Creation
      <4>1. ForwardOf(commands[c].plan) \in orphan'
        BY <2>3, <3>2 DEF Lose
      <4>2. QED
        BY <3>1, <3>2, <4>1, <1>6
    <3>3. CASE commands[c].status # "executed" \/ commands[c].plan \in DryRun
      BY <3>1, <3>3, <1>5
    <3>4. QED
      BY <3>2, <3>3, PlansAreTyped, PlanFacts
  <2>4. QED
    BY <1>9, <2>1, <2>2, <2>3 DEF WorkerSteps
<1>10. CASE Records
  <2>1. ASSUME NEW c \in Ids, RecordFailure(c) PROVE UnknownServiceHasCause'
    BY <2>1, <1>5 DEF RecordFailure, Status
  <2>2. ASSUME NEW c \in Ids, RejectSuccess(c) PROVE UnknownServiceHasCause'
    <3>1. ForwardOf(commands[c].plan).node = commands[c].plan.node
      BY PlansAreTyped, PlanFacts
    <3>2. QED
      BY <2>2, <3>1, <1>6 DEF RejectSuccess, Status
  <2>3. ASSUME NEW c \in Ids, RecordSuccess(c) PROVE UnknownServiceHasCause'
    <3>1. /\ Become(c, "succeeded") /\ "succeeded" \in Status
          /\ UNCHANGED <<node, unit, orphan>> /\ route \subseteq route'
          /\ commands[c].status = "executed"
      BY <2>3 DEF RecordSuccess, Status
    <3>2. CASE commands[c].plan \in DryRun
      BY <3>1, <3>2, <1>5
    <3>3. CASE commands[c].plan \in Creation
      <4>1. \A r \in route : r.port # commands[c].plan.port
        BY <3>1, <3>3 DEF HostInv, CreatedIsServed
      <4>2. commands[c].plan \notin DryRun
        BY <3>3, PlansAreTyped, PlanFacts
      <4>3. ForwardOf(commands[c].plan) \in route'
        BY <2>3, <4>1, <4>2 DEF RecordSuccess, Recorded
      <4>4. QED
        BY <3>1, <3>3, <4>3, <1>6
    <3>4. QED
      BY <3>2, <3>3, PlansAreTyped, PlanFacts
  <2>4. ASSUME NEW r \in route, DeleteRoute(r) PROVE UnknownServiceHasCause'
    <3>1. /\ UNCHANGED <<node, unit, commands>>
          /\ route' = route \ {r} /\ orphan' = orphan \cup {r}
      BY <2>4 DEF DeleteRoute
    <3>2. \A u : ReportUnderWay(u) => ReportUnderWay(u)'
      BY <3>1 DEF ReportUnderWay, Ids
    <3>3. QED
      BY <1>1, <1>2, <3>1, <3>2
  <2>5. ASSUME NEW r \in route, CleanUpRoute(r) PROVE UnknownServiceHasCause'
    <3>1. /\ UNCHANGED <<node, commands, orphan>> /\ route' = route \ {r}
          /\ unit' = {u \in unit : ~(u.method = r.method /\ u.port = r.port)}
      BY <2>5 DEF CleanUpRoute
    <3>2. \A u : ReportUnderWay(u) => ReportUnderWay(u)'
      BY <3>1 DEF ReportUnderWay, Ids
    <3>3. QED
      BY <1>1, <1>2, <3>1, <3>2
  <2>6. QED
    BY <1>10, <2>1, <2>2, <2>3, <2>4, <2>5 DEF Records
<1>11. CASE UNCHANGED vars
  BY <1>3, <1>11 DEF vars, Ids
<1>12. QED
  BY <1>7, <1>8, <1>9, <1>10, <1>11 DEF Next

\* A service without a row has a known cause: its report is on the way, was lost
\* or was rejected for its node, or its row was deleted on purpose.
THEOREM UnknownServicesHaveCauses == Spec => []UnknownServiceHasCause
<1>1. Init => CauseInv
  BY DEF Init, CauseInv, NodesExist, UnknownServiceHasCause, Ids
<1>2. TypeOK /\ HostInv /\ CauseInv /\ [Next]_vars => CauseInv'
  BY NodesExistStep, CauseStep DEF CauseInv
<1>3. CauseInv => UnknownServiceHasCause
  BY DEF CauseInv
<1>4. QED
  BY <1>1, <1>2, <1>3, TypeCorrect, HostInvariant, PTL DEF Spec
=============================================================================
