------------------------------ MODULE RouteGates ------------------------------
(***************************************************************************)
(* The gates in front of the creation of a transit route                   *)
(* (backend/app/api/routes/transit_routes.py) and the ingestion of its     *)
(* result (backend/app/services/transit_route_create.py), for one transit  *)
(* server with one worker.                                                 *)
(*                                                                         *)
(* There are two ways to a route.  An HAProxy route on any port takes a    *)
(* dry run and then a real execution of the same plan.  The older          *)
(* worker-create-execute makes a socat route on the one approved port to   *)
(* the one approved target port, after a read-only preflight; it lets      *)
(* HAProxy pass too, with an approval stage the worker refuses.            *)
(*                                                                         *)
(* A gate reads and its command is inserted at the commit: requests        *)
(* overlap.  What a gate approved is looked at again by the worker, which  *)
(* knows only its host, and by the ingestion, which knows only the tables. *)
(*                                                                         *)
(* Abstractions.  The confirmations, typed texts and reserved ports of a   *)
(* request are right, and its host and port are those of its node: nothing *)
(* else passes.  The worker is online, able and stays the same, and the    *)
(* server's record usable.  A preflight is one step from request to        *)
(* result, and is not forgotten after twenty more.  So is a remote cleanup *)
(* (see RemoteCleanup), and the work of a creation on the host (see        *)
(* TransitHost, also for what a failing rollback may leave).  Delivery is  *)
(* cut down as in RemoteCleanup.  MaxCommands and MaxFaults bound a        *)
(* behaviour.                                                              *)
(***************************************************************************)
EXTENDS Integers, Sequences, FiniteSets

CONSTANTS
  Node,            \* landing nodes
  ApprovedTarget,  \* those with the approved target port
  Port,            \* listen ports that are not reserved
  ApprovedPort,    \* the one of worker-create-execute
  Name,            \* route names
  Request,         \* slots for requests
  None,
  MaxCommands, MaxFaults

ASSUME GatesAssumption ==
  /\ ApprovedTarget \subseteq Node /\ ApprovedPort \in Port
  /\ None \notin Name
  /\ MaxCommands \in Nat /\ MaxFaults \in Nat

Method == {"haproxy_tcp", "socat"}

DryRun   == [intent : {"dry_run"}, method : {"haproxy_tcp"},
             node : Node, port : Port, name : Name]
RealRun  == [intent : {"real_execution"}, method : {"haproxy_tcp"},
             node : Node, port : Port, name : Name]
\* The name of a worker-create-execute is compared with nothing.
Execute  == [intent : {"worker_create"}, method : Method,
             node : ApprovedTarget, port : {ApprovedPort}, name : {None}]
Creation == RealRun \cup Execute
Plan     == DryRun \cup Creation

\* A unit on the host, and a row of transit_routes, as far as they can differ.
Forward == [method : Method, port : Port, node : Node]
ForwardOf(p) == [method |-> p.method, port |-> p.port, node |-> p.node]

\* "executed" and "refused": the worker has the outcome in its hands; "leased"
\* and "lapsed": execution or report got lost, and the lease holds or has passed.
Due        == {"pending", "lapsed"}
InHand     == {"executed", "refused"}
Unfinished == Due \cup InHand \cup {"leased"}

VARIABLES
  node,      \* landing nodes; "bare": active, without a share_link
  preflight, \* what a preflight of the approved port has passed for
  commands,  \* worker_commands in created_at order
  txn,       \* plans of requests between their reads and their commit
  unit,      \* units on the host
  route,     \* active rows
  orphan,    \* history: units whose report was lost or whose row was deleted
  faults

vars == <<node, preflight, commands, txn, unit, route, orphan, faults>>

CommandRow == [plan : Plan, status : Unfinished \cup {"succeeded", "failed"}]

TypeOK ==
  /\ node \in [Node -> {"absent", "bare", "shared", "deleted"}]
  /\ preflight \in SUBSET (ApprovedTarget \X Method)
  /\ commands \in Seq(CommandRow)
  /\ txn \in [Request -> Creation \cup {None}]
  /\ unit \in SUBSET Forward /\ route \in SUBSET Forward /\ orphan \in SUBSET Forward
  /\ faults \in 0 .. MaxFaults

Init ==
  /\ node = [n \in Node |-> "absent"]
  /\ preflight = {} /\ commands = <<>>
  /\ txn = [h \in Request |-> None]
  /\ unit = {} /\ route = {} /\ orphan = {} /\ faults = 0

Ids     == DOMAIN commands
Live(n) == node[n] \in {"bare", "shared"}

Issue(p) ==
  /\ Len(commands) < MaxCommands
  /\ commands' = Append(commands, [plan |-> p, status |-> "pending"])

Become(c, status) == commands' = [commands EXCEPT ![c].status = status]

-----------------------------------------------------------------------------
(***************************************************************************)
(* Landing nodes.                                                          *)
(***************************************************************************)

\* A node made by a landing creation has a share_link; one that is registered
\* from a dry run whose records are lost has none.
CreateNode(n) ==
  /\ node[n] = "absent"
  /\ node' = [node EXCEPT ![n] = "shared"]
  /\ UNCHANGED <<preflight, commands, txn, unit, route, orphan, faults>>

RegisterNode(n) ==
  /\ node[n] = "absent"
  /\ node' = [node EXCEPT ![n] = "bare"]
  /\ UNCHANGED <<preflight, commands, txn, unit, route, orphan, faults>>

DeleteNode(n) ==
  /\ Live(n)
  /\ node' = [node EXCEPT ![n] = "deleted"]
  /\ UNCHANGED <<preflight, commands, txn, unit, route, orphan, faults>>

-----------------------------------------------------------------------------
(***************************************************************************)
(* Gates.                                                                  *)
(***************************************************************************)

Listening(port) == \E u \in unit : u.port = port

PreflightPasses(n, m) ==
  /\ Live(n) /\ ~Listening(ApprovedPort)
  /\ preflight' = preflight \cup {<<n, m>>}
  /\ UNCHANGED <<node, commands, txn, unit, route, orphan, faults>>

\* haproxy-route-create-dry-run: it asks for nothing but the node, so that the
\* time between its reads and its commit makes no difference.
CreateDryRun(p) ==
  /\ Live(p.node)
  /\ Issue(p)
  /\ UNCHANGED <<node, preflight, txn, unit, route, orphan, faults>>

SamePlan(p, q) == p.node = q.node /\ p.port = q.port /\ p.name = q.name

\* Slip: a dry run that was sent will do.
DryRunSucceeded_Sent(p) ==
  \E c \in Ids : commands[c].plan \in DryRun /\ SamePlan(commands[c].plan, p)

DryRunSucceeded(p) ==
  \E c \in Ids : /\ commands[c].plan \in DryRun /\ SamePlan(commands[c].plan, p)
                 /\ commands[c].status = "succeeded"

\* A succeeded command blocks its plan for good, a failed one does not.
DuplicateRealExecution(p) ==
  \E c \in Ids : /\ commands[c].plan \in RealRun /\ SamePlan(commands[c].plan, p)
                 /\ commands[c].status # "failed"

\* Rows of the other method on the port are not looked for, nor is a share_link.
RealExecutionReady(p) ==
  /\ DryRunSucceeded(p)
  /\ Live(p.node)
  /\ \A r \in route : ~(r.method = "haproxy_tcp" /\ r.port = p.port)
  /\ ~DuplicateRealExecution(p)

CreateInFlight == \E c \in Ids : commands[c].status \in Unfinished

Preflighted(p) == <<p.node, p.method>> \in preflight

\* worker-create-execute: dry runs count as creations in flight.
ExecuteReady(p) ==
  /\ node[p.node] = "shared"
  /\ ~\E r \in route : r.port = p.port
  /\ ~CreateInFlight
  /\ Preflighted(p)

BeginCreate(h, p) ==
  /\ txn[h] = None
  /\ \/ p \in RealRun /\ RealExecutionReady(p)
     \/ p \in Execute /\ ExecuteReady(p)
  /\ txn' = [txn EXCEPT ![h] = p]
  /\ UNCHANGED <<node, preflight, commands, unit, route, orphan, faults>>

CommitCreate(h) ==
  /\ txn[h] # None
  /\ Issue(txn[h])
  /\ txn' = [txn EXCEPT ![h] = None]
  /\ UNCHANGED <<node, preflight, unit, route, orphan, faults>>

-----------------------------------------------------------------------------
(***************************************************************************)
(* The worker.                                                             *)
(***************************************************************************)

HandsEmpty == \A c \in Ids : commands[c].status \notin InHand

\* The oldest command that is due.
Claimed(c) ==
  /\ HandsEmpty
  /\ commands[c].status \in Due
  /\ \A d \in Ids : d < c => commands[d].status \notin Due

\* Slip: the paths are looked at, the port is not.
HostTakes_AnyPort(p) ==
  /\ ~\E u \in unit : u.port = p.port /\ u.method = p.method
  /\ ~(p \in Execute /\ p.method = "haproxy_tcp")

\* The paths of the unit are free and nothing listens on its port.
HostTakes(p) ==
  /\ ~Listening(p.port)
  /\ ~(p \in Execute /\ p.method = "haproxy_tcp")

ExecuteDryRun(c) ==
  /\ Claimed(c) /\ commands[c].plan \in DryRun
  /\ Become(c, "executed")
  /\ UNCHANGED <<node, preflight, txn, unit, route, orphan, faults>>

ExecuteCreation(c) ==
  /\ Claimed(c) /\ commands[c].plan \in Creation
  /\ HostTakes(commands[c].plan)
  /\ Become(c, "executed")
  /\ unit' = unit \cup {ForwardOf(commands[c].plan)}
  /\ UNCHANGED <<node, preflight, txn, route, orphan, faults>>

\* The host does not take it, or it fails and is rolled back.
RefuseCreation(c) ==
  /\ Claimed(c) /\ commands[c].plan \in Creation
  /\ Become(c, "refused")
  /\ UNCHANGED <<node, preflight, txn, unit, route, orphan, faults>>

Strike == faults < MaxFaults /\ faults' = faults + 1

\* The worker dies before it executes a command, or its report is lost.
Lose(c) ==
  /\ Claimed(c) \/ commands[c].status \in InHand
  /\ Strike
  /\ Become(c, "leased")
  /\ orphan' = orphan \cup
       IF commands[c].plan \in Creation /\ commands[c].status = "executed"
       THEN {ForwardOf(commands[c].plan)} ELSE {}
  /\ UNCHANGED <<node, preflight, txn, unit, route>>

LeaseLapses(c) ==
  /\ commands[c].status = "leased"
  /\ Become(c, "lapsed")
  /\ UNCHANGED <<node, preflight, txn, unit, route, orphan, faults>>

-----------------------------------------------------------------------------
(***************************************************************************)
(* Ingestion of results and removal of routes.                             *)
(***************************************************************************)

\* Slip: whatever succeeded is recorded.
Recorded_DryRuns(p) ==
  IF \E r \in route : r.port = p.port THEN {} ELSE {ForwardOf(p)}

\* The row a success adds: none for a dry run, nor beside a row of the port.
Recorded(p) ==
  IF p \in DryRun \/ \E r \in route : r.port = p.port THEN {} ELSE {ForwardOf(p)}

RecordSuccess(c) ==
  /\ commands[c].status = "executed"
  /\ commands[c].plan \in Creation => node[commands[c].plan.node] = "shared"
  /\ Become(c, "succeeded")
  /\ route' = route \cup Recorded(commands[c].plan)
  /\ UNCHANGED <<node, preflight, txn, unit, orphan, faults>>

\* The route was created, and its command fails.
RejectSuccess(c) ==
  /\ commands[c].status = "executed" /\ commands[c].plan \in Creation
  /\ node[commands[c].plan.node] # "shared"
  /\ Become(c, "failed")
  /\ UNCHANGED <<node, preflight, txn, unit, route, orphan, faults>>

RecordFailure(c) ==
  /\ commands[c].status = "refused"
  /\ Become(c, "failed")
  /\ UNCHANGED <<node, preflight, txn, unit, route, orphan, faults>>

\* The row goes, its service stays.
DeleteRoute(r) ==
  /\ r \in route
  /\ route' = route \ {r}
  /\ orphan' = orphan \cup {r}
  /\ UNCHANGED <<node, preflight, commands, txn, unit, faults>>

CleanUpRoute(r) ==
  /\ r \in route
  /\ HandsEmpty
  /\ route' = route \ {r}
  /\ unit' = {u \in unit : ~(u.method = r.method /\ u.port = r.port)}
  /\ UNCHANGED <<node, preflight, commands, txn, orphan, faults>>

-----------------------------------------------------------------------------
Nodes == \E n \in Node : CreateNode(n) \/ RegisterNode(n) \/ DeleteNode(n)

Gates ==
  \/ \E n \in ApprovedTarget, m \in Method : PreflightPasses(n, m)
  \/ \E p \in DryRun : CreateDryRun(p)
  \/ \E h \in Request : CommitCreate(h) \/ \E p \in Creation : BeginCreate(h, p)

WorkerSteps ==
  \E c \in Ids : \/ ExecuteDryRun(c) \/ ExecuteCreation(c) \/ RefuseCreation(c)
                 \/ Lose(c) \/ LeaseLapses(c)

Records ==
  \/ \E c \in Ids : RecordSuccess(c) \/ RejectSuccess(c) \/ RecordFailure(c)
  \/ \E r \in route : DeleteRoute(r) \/ CleanUpRoute(r)

Next == Nodes \/ Gates \/ WorkerSteps \/ Records

Spec == Init /\ [][Next]_vars

-----------------------------------------------------------------------------
(***************************************************************************)
(* Properties.                                                             *)
(***************************************************************************)

\* Every active row has its service: same method, port and target.  No gate
\* sees the host and the worker sees no row; it is the reports that keep the
\* two together.
ActiveRowIsServed == route \subseteq unit

\* Every service was let through by its gate: an HAProxy route by a dry run of
\* the same target and port that succeeded, a socat route by a preflight.
UnitWasApproved ==
  \A u \in unit :
    IF u.method = "haproxy_tcp"
    THEN \E c \in Ids : /\ commands[c].plan \in DryRun
                        /\ ForwardOf(commands[c].plan) = u
                        /\ commands[c].status = "succeeded"
    ELSE u.port = ApprovedPort /\ Preflighted(u)

\* A service the console does not know of has a known cause: its report is on
\* the way, was lost, or was rejected for its node, or its row was deleted on
\* purpose.  Gates that overlap, or miss the other method's routes, are none.
UnknownServiceHasCause ==
  \A u \in unit \ route :
    \/ u \in orphan \/ node[u.node] # "shared"
    \/ \E c \in Ids : /\ commands[c].status = "executed" /\ commands[c].plan \in Creation
                      /\ ForwardOf(commands[c].plan) = u

\* A creation that is recorded as succeeded adds its own row: it is never taken
\* for the one that is already there.
SuccessHasItsRow ==
  [][\A c \in Ids :
       commands[c].plan \in Creation /\ RecordSuccess(c) =>
         ForwardOf(commands[c].plan) \in route' \ route]_vars
=============================================================================
