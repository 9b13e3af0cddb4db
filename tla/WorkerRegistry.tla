--------------------------- MODULE WorkerRegistry ---------------------------
(***************************************************************************)
(* Registration of workers: install tokens, POST /workers/register and     *)
(* POST /workers/heartbeat (backend/app/api/routes/workers.py), the        *)
(* binding of workers to server records                                    *)
(* (backend/app/services/worker_binding.py), and what the operator's       *)
(* routes and a finished server cleanup do to the same rows.               *)
(*                                                                         *)
(* A route runs in a thread of its own, in a READ COMMITTED transaction    *)
(* without row locks: it reads its rows, decides, and at its commit writes *)
(* the columns it changed, over whatever was committed in between.  The    *)
(* three routes where that matters (register, heartbeat, the creation of a *)
(* server record) are two steps each, with what they read remembered in    *)
(* between; a slot of Handler holds one such request.  The other routes    *)
(* are single steps that any of the two-step ones may overlap.             *)
(*                                                                         *)
(* Abstractions.  A heartbeat age is the Boolean "fresh" (younger than     *)
(* OFFLINE_THRESHOLD_SECONDS), expires_at is the Boolean "lapsed".  Nodes  *)
(* and routes, which forbid the plain deletion of a server, are the choice *)
(* whether DeleteServer is taken.  Landing servers (vps_servers) are       *)
(* deleted by their status, transit ones (transit_resources) by the column *)
(* deleted_at, which is "gone" here for both.                              *)
(***************************************************************************)
EXTENDS Integers, FiniteSets

CONSTANTS
  Landing, Transit,  \* ids of landing and of transit server records
  Worker,            \* ids of rows of workers
  Token,             \* ids of rows of worker_tokens
  Handler,           \* slots for two-step requests
  Address, IpOf,     \* public addresses, and that of each server
  None

Server == Landing \cup Transit

ASSUME ServersAssumption == /\ Landing \cap Transit = {}
                            /\ Address # {}
                            /\ IpOf \in [Server -> Address]
                            /\ None \notin Server \cup Worker \cup Token

VARIABLES
  server,  \* vps_servers and transit_resources
  token,   \* worker_tokens
  worker,  \* workers
  txn      \* two-step requests between their reads and their commit

vars == <<server, token, worker, txn>>

Role == {"landing", "transit"}
RoleOf(s) == IF s \in Landing THEN "landing" ELSE "transit"

ServerStatus == {"absent", "unconfigured", "active", "disabled",
                 "pending_worker", "worker_online", "worker_offline", "deleted"}

ServerRow == [status : ServerStatus, gone : BOOLEAN]

TokenRow == [status : {"absent", "active", "used", "revoked", "expired"},
             role : Role, server : Server \cup {None}, lapsed : BOOLEAN]

\* "cleanup" says that a server cleanup command is queued for the worker,
\* "cleaned" is metadata_json.cleanup_status, "via" the token it came with.
WorkerRow == [status : {"absent", "online", "cleanup_pending", "deleted"},
              role : Role, server : Server \cup {None}, ip : Address,
              fresh : BOOLEAN, cleanup : BOOLEAN, cleaned : BOOLEAN,
              via : Token \cup {None}]

\* A two-step request and what it read; "bound" if it leaves workers.server_id.
Request == [op : {"none", "register", "heartbeat", "create", "bootstrap"},
            token : Token \cup {None}, worker : Worker \cup {None},
            server : Server \cup {None}, status : ServerStatus,
            seen : {"absent", "online", "cleanup_pending", "deleted"},
            cleaned : BOOLEAN, bound : BOOLEAN]

NoRequest == [op |-> "none", token |-> None, worker |-> None, server |-> None,
              status |-> "absent", seen |-> "absent", cleaned |-> FALSE,
              bound |-> FALSE]

TypeOK ==
  /\ server \in [Server -> ServerRow]
  /\ token  \in [Token -> TokenRow]
  /\ worker \in [Worker -> WorkerRow]
  /\ txn    \in [Handler -> Request]

Init ==
  /\ server = [s \in Server |-> [status |-> "absent", gone |-> FALSE]]
  /\ token  = [t \in Token |-> [status |-> "absent", role |-> "landing",
                                server |-> None, lapsed |-> FALSE]]
  /\ worker = [w \in Worker |-> [status |-> "absent", role |-> "landing",
                                 server |-> None,
                                 ip |-> CHOOSE a \in Address : TRUE,
                                 fresh |-> FALSE, cleanup |-> FALSE,
                                 cleaned |-> FALSE, via |-> None]]
  /\ txn    = [h \in Handler |-> NoRequest]

\* The record is there and not deleted.
Live(s) == server[s].status # "absent" /\ ~server[s].gone

LiveServer == {s \in Server : Live(s)}

StatusOf(s) == IF s = None THEN "absent" ELSE server[s].status

Start(h, request) == txn[h] = NoRequest /\ txn' = [txn EXCEPT ![h] = request]
Finish(h) == txn' = [txn EXCEPT ![h] = NoRequest]

\* A write of the status column.  A landing server is deleted by its status,
\* and any other status brings it back; deleted_at stays.
Written(row, s, status) ==
  [status |-> status, gone |-> IF s \in Landing THEN status = "deleted" ELSE row.gone]

SetStatus(s, status) ==
  server' = [server EXCEPT ![s] = Written(server[s], s, status)]

\* Slip: no test for a deleted record.
SyncBound_Always(s, seen) == IF s = None THEN UNCHANGED server ELSE SetStatus(s, "worker_online")

\* SQLAlchemy writes the column only if it differs from what was read.
SyncBound(s, seen) ==
  IF s = None \/ seen \in {"worker_online", "deleted"}
  THEN UNCHANGED server
  ELSE SetStatus(s, "worker_online")

-----------------------------------------------------------------------------
(***************************************************************************)
(* Server records and tokens.                                              *)
(***************************************************************************)

SameAddress(s) == {x \in Server : RoleOf(x) = RoleOf(s) /\ IpOf[x] = IpOf[s]}

\* create_vps, create_transit_resource and the two worker-bootstrap routes; all
\* but create_transit_resource look for a live record with the same address.
BeginCreate(h, s, op) ==
  /\ server[s].status = "absent"
  /\ \A g \in Handler : txn[g].server # s
  /\ op \in {"create", "bootstrap"}
  /\ (s \in Landing \/ op = "bootstrap") => \A x \in SameAddress(s) : ~Live(x)
  /\ Start(h, [NoRequest EXCEPT !.op = op, !.server = s])
  /\ UNCHANGED <<server, token, worker>>

NewToken(t, role, s) ==
  /\ token[t].status = "absent"
  /\ token' = [token EXCEPT ![t] = [status |-> "active", role |-> role,
                                    server |-> s, lapsed |-> FALSE]]

CommitCreate(h, t) ==
  LET s == txn[h].server IN
  /\ \/ /\ txn[h].op = "create"
        /\ SetStatus(s, IF s \in Landing THEN "unconfigured" ELSE "active")
        /\ UNCHANGED token
     \/ /\ txn[h].op = "bootstrap"
        /\ SetStatus(s, "pending_worker")
        /\ NewToken(t, RoleOf(s), s)
  /\ Finish(h)
  /\ UNCHANGED worker

\* POST /worker-tokens, for a server record or for none.
CreateToken(t, role, s) ==
  /\ s \in {None} \cup {x \in LiveServer : RoleOf(x) = role}
  /\ NewToken(t, role, s)
  /\ UNCHANGED <<server, worker, txn>>

BoundTo(s) == {w \in Worker : /\ worker[w].status # "absent"
                              /\ worker[w].server = s
                              /\ worker[w].role = RoleOf(s)}

ActiveTokens(s) == {t \in Token : /\ token[t].status = "active"
                                  /\ token[t].server = s
                                  /\ token[t].role = RoleOf(s)}

\* The older install commands of a transit server stop working when a new one
\* is generated.
Regenerate(s, t) ==
  /\ s \in Transit /\ Live(s)
  /\ \/ /\ server[s].status = "pending_worker"
        /\ \A w \in BoundTo(s) : ~worker[w].fresh
     \/ server[s].status \in {"pending_worker", "worker_online", "worker_offline"}
  /\ token[t].status = "absent"
  /\ token' = [u \in Token |->
                 IF u = t THEN [status |-> "active", role |-> "transit",
                                server |-> s, lapsed |-> FALSE]
                 ELSE IF u \in ActiveTokens(s) THEN [token[u] EXCEPT !.status = "revoked"]
                 ELSE token[u]]
  /\ UNCHANGED <<server, worker, txn>>

TokenLapses(t) ==
  /\ token[t].status # "absent" /\ ~token[t].lapsed
  /\ token' = [token EXCEPT ![t].lapsed = TRUE]
  /\ UNCHANGED <<server, worker, txn>>

\* enable, disable and PATCH of a transit server.
OperatorSetsStatus(s, status) ==
  /\ s \in Transit /\ Live(s)
  /\ status \in {"active", "disabled", "pending_worker", "worker_online", "worker_offline"}
  /\ SetStatus(s, status)
  /\ UNCHANGED <<token, worker, txn>>

-----------------------------------------------------------------------------
(***************************************************************************)
(* Register and heartbeat.                                                 *)
(***************************************************************************)

BeginRegister(h, t) ==
  LET s == token[t].server IN
  /\ token[t].status = "active" /\ ~token[t].lapsed
  /\ s \in {None} \cup LiveServer
  /\ Start(h, [NoRequest EXCEPT !.op = "register", !.token = t, !.server = s,
                                !.status = StatusOf(s)])
  /\ UNCHANGED <<server, token, worker>>

\* Slip: the token stays active.
SpendToken_Forgotten(t) == UNCHANGED token
SpendToken(t) == token' = [token EXCEPT ![t].status = "used"]

CommitRegister(h, w, a) ==
  LET t == txn[h].token IN
  /\ txn[h].op = "register"
  /\ worker[w].status = "absent"
  /\ worker' = [worker EXCEPT ![w] =
       [status |-> "online", role |-> token[t].role, server |-> txn[h].server,
        ip |-> a, fresh |-> TRUE, cleanup |-> FALSE, cleaned |-> FALSE, via |-> t]]
  /\ SpendToken(t)
  /\ SyncBound(txn[h].server, txn[h].status)
  /\ Finish(h)

\* A registration that comes too late marks its token.
RefuseExpired(t) ==
  /\ token[t].status = "active" /\ token[t].lapsed
  /\ token' = [token EXCEPT ![t].status = "expired"]
  /\ UNCHANGED <<server, worker, txn>>

\* The live records a worker without one could belong to.
Candidates(w) == {s \in LiveServer : /\ RoleOf(s) = worker[w].role
                                     /\ IpOf[s] = worker[w].ip}

\* Slip: the address decides also for a worker that has its record.
Target_ByAddress(w, s) ==
  IF Cardinality(Candidates(w)) = 1 THEN s \in Candidates(w) ELSE s = worker[w].server

\* The record a heartbeat of w is about: its own, or the only candidate.
Target(w, s) ==
  IF worker[w].server # None
  THEN s = worker[w].server
  ELSE IF Cardinality(Candidates(w)) = 1 THEN s \in Candidates(w) ELSE s = None

BeginHeartbeat(h, w, s) ==
  /\ worker[w].status # "absent"
  /\ Target(w, s)
  /\ Start(h, [NoRequest EXCEPT
                 !.op = "heartbeat", !.worker = w, !.server = s,
                 !.status  = IF s \in {None} \cup LiveServer THEN StatusOf(s) ELSE "deleted",
                 !.seen    = worker[w].status,
                 !.cleaned = worker[w].cleaned,
                 !.bound   = worker[w].server = s])
  /\ UNCHANGED <<server, token, worker>>

\* worker_cleanup_expected_offline, of the row as it was read.
ExpectedOffline(request) == request.seen = "deleted" \/ request.cleaned

CommitHeartbeat(h) ==
  LET r == txn[h]  w == r.worker IN
  /\ r.op = "heartbeat"
  /\ IF ExpectedOffline(r)
     THEN /\ worker' = [worker EXCEPT ![w].fresh = TRUE, ![w].cleaned = r.cleaned]
          /\ UNCHANGED server
     ELSE /\ worker' = [worker EXCEPT
               ![w].fresh   = TRUE,
               ![w].cleaned = FALSE,
               ![w].status  = IF r.seen = "online" THEN @ ELSE "online",
               ![w].server  = IF r.bound THEN @ ELSE r.server]
          /\ SyncBound(r.server, r.status)
  /\ Finish(h)
  /\ UNCHANGED token

\* No heartbeat for OFFLINE_THRESHOLD_SECONDS.
GoesSilent(w) ==
  /\ worker[w].fresh
  /\ worker' = [worker EXCEPT ![w].fresh = FALSE]
  /\ UNCHANGED <<server, token, txn>>

-----------------------------------------------------------------------------
(***************************************************************************)
(* Deletion.                                                               *)
(***************************************************************************)

MarkServerDeleted(s) ==
  server' = [server EXCEPT ![s] = [status |-> "deleted", gone |-> TRUE]]

MarkWorkersDeleted(W, s) ==
  /\ worker' = [w \in Worker |->
                  IF w \in W THEN [worker[w] EXCEPT !.status = "deleted",
                                                    !.cleaned = TRUE,
                                                    !.cleanup = FALSE]
                             ELSE worker[w]]
  /\ token' = [t \in Token |->
                 IF W # {} /\ t \in ActiveTokens(s)
                 THEN [token[t] EXCEPT !.status = "expired"] ELSE token[t]]

\* The plain soft deletion leaves tokens and workers alone.
DeleteServer(s) ==
  /\ Live(s)
  /\ MarkServerDeleted(s)
  /\ UNCHANGED <<token, worker, txn>>

\* A server cleanup command is queued for an online worker.
QueueCleanup(w) ==
  /\ worker[w].server \in LiveServer
  /\ worker[w].status = "online" /\ worker[w].fresh
  /\ \A v \in BoundTo(worker[w].server) : ~worker[v].cleanup
  /\ worker' = [worker EXCEPT ![w].status = "cleanup_pending", ![w].cleanup = TRUE]
  /\ UNCHANGED <<server, token, txn>>

\* Its result: refused when the record is deleted by now.
CleanupEnds(w) ==
  LET s == worker[w].server IN
  /\ worker[w].cleanup
  /\ \/ Live(s) /\ MarkServerDeleted(s) /\ MarkWorkersDeleted({w}, s)
     \/ /\ worker' = [worker EXCEPT ![w].cleanup = FALSE]
        /\ UNCHANGED <<server, token>>
  /\ UNCHANGED txn

\* Offline local removal: only without an online worker.
RemoveOffline(s) ==
  /\ Live(s)
  /\ \A w \in BoundTo(s) : ~(worker[w].status = "online" /\ worker[w].fresh)
  /\ MarkServerDeleted(s)
  /\ MarkWorkersDeleted(BoundTo(s), s)
  /\ UNCHANGED txn

-----------------------------------------------------------------------------
Operator ==
  \/ \E h \in Handler, s \in Server, op \in {"create", "bootstrap"} : BeginCreate(h, s, op)
  \/ \E h \in Handler, t \in Token : CommitCreate(h, t)
  \/ \E t \in Token, role \in Role, s \in Server \cup {None} : CreateToken(t, role, s)
  \/ \E s \in Server, t \in Token : Regenerate(s, t)
  \/ \E s \in Server, status \in ServerStatus : OperatorSetsStatus(s, status)
  \/ \E s \in Server : DeleteServer(s) \/ RemoveOffline(s)
  \/ \E w \in Worker : QueueCleanup(w)

Host ==
  \/ \E h \in Handler, t \in Token : BeginRegister(h, t)
  \/ \E h \in Handler, w \in Worker, a \in Address : CommitRegister(h, w, a)
  \/ \E t \in Token : RefuseExpired(t)
  \/ \E h \in Handler, w \in Worker, s \in Server \cup {None} : BeginHeartbeat(h, w, s)
  \/ \E h \in Handler : CommitHeartbeat(h)
  \/ \E w \in Worker : CleanupEnds(w)

Clock == (\E t \in Token : TokenLapses(t)) \/ (\E w \in Worker : GoesSilent(w))

Next == Operator \/ Host \/ Clock

Spec == Init /\ [][Next]_vars
-----------------------------------------------------------------------------
(***************************************************************************)
(* Properties.                                                             *)
(***************************************************************************)

\* Worker tokens are one-time use: no two workers come from one token.
OneTokenOneWorker ==
  \A v, w \in Worker : worker[v].via # None /\ worker[v].via = worker[w].via => v = w

\* A heartbeat of a worker that was cleaned up does not bring it back: the only
\* way from "deleted" to another status is a heartbeat request that read the
\* row before it was marked.
RevivedOnlyByStaleHeartbeat ==
  [][\A w \in Worker :
       worker[w].status = "deleted" /\ worker'[w].status # "deleted" =>
         \E h \in Handler : /\ txn[h].op = "heartbeat" /\ txn[h].worker = w
                             /\ txn[h].seen # "deleted"]_vars

\* A deleted server record comes back only through a register or heartbeat
\* request that read it before its deletion and found it not yet online; a
\* deleted transit server never does.
ServerRevivedOnlyByStaleRequest ==
  [][\A s \in Server :
       server[s].gone /\ ~server'[s].gone =>
         /\ s \in Landing
         /\ \E h \in Handler : /\ txn[h].op \in {"register", "heartbeat"}
                                /\ txn[h].server = s
                                /\ txn[h].status \notin {"deleted", "worker_online"}]_vars

\* With one two-step request at a time, a worker is bound to one server record
\* for good, although the record its address matches may be deleted and created
\* again.
BindingIsFinal ==
  [][\A w \in Worker : worker[w].server # None
                          => worker'[w].server = worker[w].server]_vars

\* Among live landing servers no two have the same address, whatever is
\* deleted, created again or written late by a heartbeat.
OneRecordPerAddress ==
  \A s, x \in Landing : Live(s) /\ Live(x) /\ IpOf[s] = IpOf[x] => s = x

\* With one two-step request at a time, a token serves one worker, and a live
\* landing server has its address to itself.
NothingIsShared == OneTokenOneWorker /\ OneRecordPerAddress
=============================================================================
