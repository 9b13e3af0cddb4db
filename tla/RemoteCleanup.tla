---------------------------- MODULE RemoteCleanup ----------------------------
(***************************************************************************)
(* What is on the hosts and what the controller believes is there: the     *)
(* creation of landing nodes and transit routes, and the four ways to get  *)
(* rid of them (backend/app/services/remote_cleanup_delete.py and the      *)
(* delete routes): protected remote cleanup of a node, a route or a whole  *)
(* server, offline local removal, and the plain deletion of a record.      *)
(*                                                                         *)
(* A service is known by its port.  All nodes of a landing host are        *)
(* inbounds of one Xray service, which a cleanup removes as a whole; every *)
(* route of a transit host has a unit of its own.  A row is a node or a    *)
(* route record; rows of one server with the same port stand for records   *)
(* made one after the other.                                               *)
(*                                                                         *)
(* Abstractions.  Delivery is that of CommandChannel cut down to what      *)
(* matters here: a worker executes the oldest command that is due, and the *)
(* report of an execution arrives, turns into a failure, or is lost, which *)
(* makes the command due again when its lease has passed.  There is one    *)
(* worker per server.  The steps of an execution on the host, with their   *)
(* rollback, are not seen: a failed cleanup has removed any part of what   *)
(* was planned.  MaxCommands and MaxFaults bound a behaviour.              *)
(***************************************************************************)
EXTENDS Integers, Sequences, FiniteSets

CONSTANTS
  Landing, Transit,  \* server records and their hosts
  Node, Route,       \* rows of nodes and of transit_routes
  ServerOf,          \* the server of a row
  PortOf,            \* the port a row's service listens on
  TargetOf,          \* the node a route forwards to; None: one outside the model
  Request,           \* slots for two-step requests
  None,
  MaxCommands, MaxFaults

Server == Landing \cup Transit
Item   == Node \cup Route
Port   == {PortOf[i] : i \in Item}

ASSUME RowsAssumption ==
  /\ Landing \cap Transit = {} /\ Node \cap Route = {}
  /\ DOMAIN PortOf = Item
  /\ ServerOf \in [Item -> Server]
  /\ \A n \in Node : ServerOf[n] \in Landing
  /\ \A r \in Route : ServerOf[r] \in Transit
  /\ TargetOf \in [Route -> Node \cup {None}]
  /\ None \notin Server \cup Item

ASSUME BoundsAssumption == MaxCommands \in Nat /\ MaxFaults \in Nat

VARIABLES
  item,      \* how a row stands; a deleted one remembers its delete_mode
  gone,      \* server records that are deleted
  worker,    \* the row of the worker of a server
  agent,     \* the worker process on the host
  service,   \* ports served on a host
  commands,  \* worker_commands in created_at order
  txn,       \* two-step requests between their reads and their commit
  faults

vars == <<item, gone, worker, agent, service, commands, txn, faults>>

Create    == "create"
Cleanup   == {"cleanup_item", "cleanup_server"}
\* "executed", "broken": executed with success or failure, and the report is due;
\* "leased", "lapsed": the execution or report was lost, and the lease holds or
\* has passed.
Due        == {"pending", "lapsed"}
Unfinished == Due \cup {"leased", "executed", "broken"}

CommandRow == [kind : {Create} \cup Cleanup, server : Server,
               item : Item \cup {None}, plan : SUBSET Item,
               status : Unfinished \cup {"succeeded", "failed"}]

RequestRow == [op : {"none", "delete"} \cup Cleanup, server : Server \cup {None},
               item : Item \cup {None}, plan : SUBSET Item]

NoRequest == [op |-> "none", server |-> None, item |-> None, plan |-> {}]

Deleted == {"record_deleted", "offline_removed", "cleaned"}

TypeOK ==
  /\ item     \in [Item -> {"absent", "active"} \cup Deleted]
  /\ gone     \in [Server -> BOOLEAN]
  /\ worker   \in [Server -> {"online", "offline", "cleanup_pending", "deleted"}]
  /\ agent    \in [Server -> {"installed", "uninstalling", "removed"}]
  /\ service  \in [Server -> SUBSET Port]
  /\ commands \in Seq(CommandRow)
  /\ txn      \in [Request -> RequestRow]
  /\ faults   \in 0 .. MaxFaults

Init ==
  /\ item     = [i \in Item |-> "absent"]
  /\ gone     = [s \in Server |-> FALSE]
  /\ worker   = [s \in Server |-> "online"]
  /\ agent    = [s \in Server |-> "installed"]
  /\ service  = [s \in Server |-> {}]
  /\ commands = <<>>
  /\ txn      = [h \in Request |-> NoRequest]
  /\ faults   = 0

Ids          == DOMAIN commands
ActiveOn(s)  == {i \in Item : ServerOf[i] = s /\ item[i] = "active"}
Ports(rows)  == {PortOf[i] : i \in rows}
HasStatus(c, status) == commands[c].status = status

\* Slip: a command that is handed out no longer counts.
InFlight_PendingOnly(s, kinds) ==
  \E c \in Ids : /\ commands[c].server = s /\ commands[c].kind \in kinds
                 /\ commands[c].status = "pending"

\* A command of these kinds is pending or running for the server.
InFlight(s, kinds) ==
  \E c \in Ids : /\ commands[c].server = s /\ commands[c].kind \in kinds
                 /\ commands[c].status \in Unfinished

Issue(kind, s, i, plan) ==
  /\ Len(commands) < MaxCommands
  /\ commands' = Append(commands, [kind |-> kind, server |-> s, item |-> i,
                                   plan |-> plan, status |-> "pending"])

Become(c, status) == commands' = [commands EXCEPT ![c].status = status]

-----------------------------------------------------------------------------
(***************************************************************************)
(* Requests of the operator.                                               *)
(***************************************************************************)

TargetIsActive(r) == TargetOf[r] # None => item[TargetOf[r]] = "active"

\* An active route forwards to this port of the landing server.
TargetPortTaken(n) ==
  \E r \in Route : /\ item[r] = "active" /\ TargetOf[r] # None
                   /\ ServerOf[TargetOf[r]] = ServerOf[n]
                   /\ PortOf[TargetOf[r]] = PortOf[n]

\* landing-node-create and worker-create-execute.
RequestCreate(i) ==
  LET s == ServerOf[i] IN
  /\ item[i] = "absent" /\ \A c \in Ids : commands[c].item # i
  /\ ~gone[s]
  /\ worker[s] = "online"
  /\ PortOf[i] \notin Ports(ActiveOn(s))
  /\ IF i \in Node THEN ~TargetPortTaken(i)
     ELSE TargetIsActive(i) /\ ~InFlight(s, {Create})
  /\ Issue(Create, s, i, {})
  /\ UNCHANGED <<item, gone, worker, agent, service, txn, faults>>

Start(h, request) == txn[h] = NoRequest /\ txn' = [txn EXCEPT ![h] = request]
Finish(h) == txn' = [txn EXCEPT ![h] = NoRequest]

Cleanable(s) == worker[s] = "online" /\ ~InFlight(s, Cleanup)

BeginItemCleanup(h, i) ==
  /\ item[i] = "active"
  /\ Cleanable(ServerOf[i])
  /\ Start(h, [op |-> "cleanup_item", server |-> ServerOf[i], item |-> i, plan |-> {i}])
  /\ UNCHANGED <<item, gone, worker, agent, service, commands, faults>>

\* The plan is made of the rows of this moment.
BeginServerCleanup(h, s) ==
  /\ ~gone[s]
  /\ Cleanable(s)
  /\ Start(h, [op |-> "cleanup_server", server |-> s, item |-> None,
               plan |-> ActiveOn(s)])
  /\ UNCHANGED <<item, gone, worker, agent, service, commands, faults>>

CommitCleanup(h) ==
  LET r == txn[h] IN
  /\ r.op \in Cleanup
  /\ Issue(r.op, r.server, r.item, r.plan)
  /\ worker' = IF r.op = "cleanup_server"
               THEN [worker EXCEPT ![r.server] = "cleanup_pending"] ELSE worker
  /\ Finish(h)
  /\ UNCHANGED <<item, gone, agent, service, faults>>

\* The plain deletion of a row: no look at what is on the host, or, for a
\* node, at the routes that forward to it.
DeleteItem(i) ==
  /\ item[i] = "active"
  /\ item' = [item EXCEPT ![i] = "record_deleted"]
  /\ UNCHANGED <<gone, worker, agent, service, commands, txn, faults>>

\* The plain deletion of a server is for servers without active rows.
BeginDeleteServer(h, s) ==
  /\ ~gone[s] /\ ActiveOn(s) = {}
  /\ Start(h, [NoRequest EXCEPT !.op = "delete", !.server = s])
  /\ UNCHANGED <<item, gone, worker, agent, service, commands, faults>>

CommitDeleteServer(h) ==
  /\ txn[h].op = "delete"
  /\ gone' = [gone EXCEPT ![txn[h].server] = TRUE]
  /\ Finish(h)
  /\ UNCHANGED <<item, worker, agent, service, commands, faults>>

MarkRows(rows, mode) == item' = [i \in Item |-> IF i \in rows THEN mode ELSE item[i]]

RoutesTo(nodes) == {r \in Route : item[r] = "active" /\ TargetOf[r] \in nodes}

OfflineRemoveItem(i) ==
  /\ item[i] = "active"
  /\ worker[ServerOf[i]] # "online"
  /\ MarkRows({i} \cup RoutesTo({i}), "offline_removed")
  /\ UNCHANGED <<gone, worker, agent, service, commands, txn, faults>>

\* The rows that go with a server.  Without an active node these are the
\* routes to any of its nodes, deleted ones included.
Removed(s) ==
  ActiveOn(s) \cup RoutesTo(IF ActiveOn(s) # {} THEN ActiveOn(s)
                            ELSE {n \in Node : ServerOf[n] = s})

OfflineRemoveServer(s) ==
  /\ ~gone[s]
  /\ worker[s] # "online"
  /\ MarkRows(Removed(s), "offline_removed")
  /\ worker' = [worker EXCEPT ![s] = "deleted"]
  /\ gone' = [gone EXCEPT ![s] = TRUE]
  /\ UNCHANGED <<agent, service, commands, txn, faults>>

-----------------------------------------------------------------------------
(***************************************************************************)
(* The worker.                                                             *)
(***************************************************************************)

\* A heartbeat brings a row back to online unless the worker was cleaned up.
Heartbeat(s) ==
  /\ agent[s] # "removed"
  /\ worker[s] \in {"offline", "cleanup_pending"}
  /\ worker' = [worker EXCEPT ![s] = "online"]
  /\ UNCHANGED <<item, gone, agent, service, commands, txn, faults>>

GoesSilent(s) ==
  /\ worker[s] \in {"online", "cleanup_pending"}
  /\ worker' = [worker EXCEPT ![s] = "offline"]
  /\ UNCHANGED <<item, gone, agent, service, commands, txn, faults>>

\* The worker has nothing to report and c is its oldest command that is due.
IsDue(c) ==
  LET s == commands[c].server IN
  /\ commands[c].status \in Due
  /\ agent[s] # "removed"
  /\ \A d \in Ids : commands[d].server = s =>
       /\ commands[d].status \notin {"executed", "broken"}
       /\ d < c => commands[d].status \notin Due

\* A port that is in use is not touched.
ExecuteCreate(c) ==
  LET s == commands[c].server  p == PortOf[commands[c].item] IN
  /\ IsDue(c) /\ commands[c].kind = Create
  /\ \/ /\ p \notin service[s]
        /\ service' = [service EXCEPT ![s] = @ \cup {p}]
        /\ Become(c, "executed")
     \/ UNCHANGED service /\ Become(c, "broken")
  /\ UNCHANGED <<item, gone, worker, agent, txn, faults>>

\* Slip: the services are stopped by the plan but come back.
Left_All(s, plan) == service[s]

\* What a completed plan leaves on the host.
Left(s, plan) ==
  IF s \in Landing /\ plan # {} THEN {} ELSE service[s] \ Ports(plan)

\* What a plan that broke off may leave: a part of it is done.
LeftByFailure(s, plan) ==
  IF s \in Landing THEN {service[s], Left(s, plan)}
  ELSE {service[s] \ removed : removed \in SUBSET Ports(plan)}

\* A service of the plan that is not there is an error.  The cleanup of a
\* server schedules the removal of the worker itself before it reports.
ExecuteCleanup(c) ==
  LET s == commands[c].server  plan == commands[c].plan IN
  /\ IsDue(c) /\ commands[c].kind \in Cleanup
  /\ \/ /\ Ports(plan) \subseteq service[s]
        /\ service' = [service EXCEPT ![s] = Left(s, plan)]
        /\ agent' = IF commands[c].kind = "cleanup_server"
                    THEN [agent EXCEPT ![s] = "uninstalling"] ELSE agent
        /\ Become(c, "executed")
     \/ /\ \E left \in LeftByFailure(s, plan) : service' = [service EXCEPT ![s] = left]
        /\ Become(c, "broken")
        /\ UNCHANGED agent
  /\ UNCHANGED <<item, gone, worker, txn, faults>>

\* systemd-run stops the worker some seconds later and removes its files.
Uninstall(s) ==
  /\ agent[s] = "uninstalling"
  /\ agent' = [agent EXCEPT ![s] = "removed"]
  /\ UNCHANGED <<item, gone, worker, service, commands, txn, faults>>

\* The report is lost with the worker's process, or becomes a failure.
LoseReport(c) ==
  /\ faults < MaxFaults /\ faults' = faults + 1
  /\ \/ commands[c].status \in {"executed", "broken"} /\ Become(c, "leased")
     \/ HasStatus(c, "executed") /\ Become(c, "broken")
  /\ UNCHANGED <<item, gone, worker, agent, service, txn>>

LeaseLapses(c) ==
  /\ HasStatus(c, "leased")
  /\ Become(c, "lapsed")
  /\ UNCHANGED <<item, gone, worker, agent, service, txn, faults>>

-----------------------------------------------------------------------------
(***************************************************************************)
(* Results.                                                                *)
(***************************************************************************)

\* Slip: a failure is taken for a result.
Arrives_AsSuccess(c) ==
  commands[c].status \in {"executed", "broken"} /\ agent[commands[c].server] # "removed"

\* A result gets through while there is a worker to send it.
Arrives(c) == HasStatus(c, "executed") /\ agent[commands[c].server] # "removed"

\* The unique index on nodes allows one row per landing server that is not
\* deleted, whatever its port.
CanRecord(i) ==
  LET s == ServerOf[i] IN
  /\ ~gone[s]
  /\ IF i \in Node THEN ActiveOn(s) = {} ELSE TargetIsActive(i)

\* A route whose port is recorded by now is acknowledged without a row.
RecordCreate(c) ==
  LET i == commands[c].item  s == commands[c].server IN
  /\ Arrives(c) /\ commands[c].kind = Create
  /\ IF CanRecord(i)
     THEN /\ item' = IF PortOf[i] \in Ports(ActiveOn(s)) THEN item
                     ELSE [item EXCEPT ![i] = "active"]
          /\ Become(c, "succeeded")
     ELSE UNCHANGED item /\ Become(c, "failed")
  /\ UNCHANGED <<gone, worker, agent, service, txn, faults>>

RecordItemCleanup(c) ==
  LET i == commands[c].item IN
  /\ Arrives(c) /\ commands[c].kind = "cleanup_item"
  /\ IF item[i] = "active"
     THEN item' = [item EXCEPT ![i] = "cleaned"] /\ Become(c, "succeeded")
     ELSE UNCHANGED item /\ Become(c, "failed")
  /\ UNCHANGED <<gone, worker, agent, service, txn, faults>>

\* Slip: only the planned rows are deleted with their server.
Cascade_Planned(c) == {i \in commands[c].plan : item[i] = "active"}

\* The rows that are deleted with the server are those of the moment of the
\* result, not those of the plan.
Cascade(c) == ActiveOn(commands[c].server)

RecordServerCleanup(c) ==
  LET s == commands[c].server IN
  /\ Arrives(c) /\ commands[c].kind = "cleanup_server"
  /\ IF ~gone[s]
     THEN /\ MarkRows(Cascade(c), "cleaned")
          /\ gone' = [gone EXCEPT ![s] = TRUE]
          /\ worker' = [worker EXCEPT ![s] = "deleted"]
          /\ Become(c, "succeeded")
     ELSE UNCHANGED <<item, gone, worker>> /\ Become(c, "failed")
  /\ UNCHANGED <<agent, service, txn, faults>>

\* A failure changes no record.
RecordFailure(c) ==
  /\ HasStatus(c, "broken") /\ agent[commands[c].server] # "removed"
  /\ Become(c, "failed")
  /\ UNCHANGED <<item, gone, worker, agent, service, txn, faults>>

-----------------------------------------------------------------------------
Operator ==
  \/ \E i \in Item : RequestCreate(i) \/ DeleteItem(i) \/ OfflineRemoveItem(i)
  \/ \E s \in Server : OfflineRemoveServer(s)
  \/ \E h \in Request, i \in Item : BeginItemCleanup(h, i)
  \/ \E h \in Request, s \in Server : BeginServerCleanup(h, s) \/ BeginDeleteServer(h, s)
  \/ \E h \in Request : CommitCleanup(h) \/ CommitDeleteServer(h)

Host ==
  \/ \E s \in Server : Heartbeat(s) \/ GoesSilent(s) \/ Uninstall(s)
  \/ \E c \in Ids : ExecuteCreate(c) \/ ExecuteCleanup(c) \/ LoseReport(c) \/ LeaseLapses(c)

Result ==
  \E c \in Ids : \/ RecordCreate(c) \/ RecordItemCleanup(c)
                 \/ RecordServerCleanup(c) \/ RecordFailure(c)

Next == Operator \/ Host \/ Result

Spec == Init /\ [][Next]_vars

-----------------------------------------------------------------------------
(***************************************************************************)
(* Properties.                                                             *)
(***************************************************************************)

\* The row was in the plan of a cleanup that succeeded.
PlannedAway(i) ==
  \E c \in Ids : /\ commands[c].kind \in Cleanup /\ HasStatus(c, "succeeded")
                 /\ i \in commands[c].plan

\* A creation of this port that did not end in a row of its own.
StrayCreate(s, p) ==
  \E c \in Ids : /\ commands[c].kind = Create /\ commands[c].server = s
                 /\ PortOf[commands[c].item] = p
                 /\ item[commands[c].item] = "absent"
                 /\ commands[c].status # "pending"

\* A service that runs on a host is accounted for: by an active row, by a row
\* deleted without remote action, by a creation that is under way or was
\* refused its row, or by a row that was recorded after a server cleanup made
\* its plan.  No cleanup that succeeds leaves a planned service behind.
ServicesAreAccountedFor ==
  \A s \in Server : \A p \in service[s] :
    \/ StrayCreate(s, p)
    \/ \E i \in Item : /\ ServerOf[i] = s /\ PortOf[i] = p
                       /\ \/ item[i] \in {"active", "record_deleted", "offline_removed"}
                          \/ item[i] = "cleaned" /\ ~PlannedAway(i)

\* A cleanup that can have stopped the service of the row was handed out.
CleanupTried(i) ==
  \E c \in Ids : /\ commands[c].kind \in Cleanup
                 /\ commands[c].server = ServerOf[i]
                 /\ ~HasStatus(c, "pending")
                 /\ commands[c].plan # {}
                 /\ i \in Node \/ PortOf[i] \in Ports(commands[c].plan)

\* An active row describes a service that runs, unless a cleanup aimed at its
\* port was handed out: neither a failed creation nor a repeated or late report
\* makes a row, and removals of other rows do not take the service along.
ActiveRowsAreServed ==
  \A i \in Item : item[i] = "active" =>
    \/ PortOf[i] \in service[ServerOf[i]]
    \/ CleanupTried(i)

\* A server whose record is deleted has no active rows left, except through a
\* plain deletion that looked before the row was recorded: cleanup and offline
\* removal take every row of the moment along.
OnlyDeletionStrandsRows ==
  [][\A s \in Server :
       /\ ~gone[s] /\ gone'[s]
       /\ \E i \in Item : ServerOf[i] = s /\ item'[i] = "active"
       => \E h \in Request : txn[h].op = "delete" /\ txn[h].server = s]_vars

\* At most one remote cleanup is pending, claimed or running for a server.
\* With one request at a time the check at the start of the request is enough.
OneCleanupPerServer ==
  \A c, d \in Ids :
    /\ commands[c].kind \in Cleanup /\ commands[d].kind \in Cleanup
    /\ commands[c].server = commands[d].server
    /\ commands[c].status \in Unfinished /\ commands[d].status \in Unfinished
    => c = d
=============================================================================
