------------------------ MODULE WorkerRegistryProofs ------------------------
(***************************************************************************)
(* Proofs about WorkerRegistry.                                            *)
(*                                                                         *)
(* IInv holds whatever requests overlap.  It relates a request between its *)
(* two steps to the rows it is about to write: those of a creation are not *)
(* there yet, those of a registration or a heartbeat are there for good.   *)
(* SerialInv needs one two-step request at a time; it says that what such  *)
(* a request read still holds at its commit, which fails when two overlap. *)
(***************************************************************************)
EXTENDS WorkerRegistry, TLAPS

\* A record being created is not there yet, and one request creates it.
CreationIsFresh ==
  \A h \in Handler : txn[h].op \in {"create", "bootstrap"} =>
    /\ txn[h].server \in Server
    /\ server[txn[h].server].status = "absent"
    /\ \A g \in Handler :
         txn[g].op \in {"create", "bootstrap"} /\ txn[g].server = txn[h].server => g = h

\* The rows a registration or a heartbeat writes are there; a heartbeat that is
\* to bind its worker has a record to bind it to.
RequestHasItsRows ==
  \A h \in Handler :
    /\ txn[h].op = "register" =>
         txn[h].token \in Token /\ token[txn[h].token].status # "absent"
    /\ txn[h].op = "heartbeat" =>
         /\ txn[h].worker \in Worker
         /\ worker[txn[h].worker].status # "absent"
         /\ ~txn[h].bound => txn[h].server # None
    /\ txn[h].op \in {"register", "heartbeat"} /\ txn[h].server # None =>
         server[txn[h].server].status # "absent"

\* The record a worker is bound to is there, if only as deleted; only a bound
\* worker has a cleanup queued.
WorkerHasItsRecord ==
  \A w \in Worker :
    /\ worker[w].status = "absent" => worker[w].server = None
    /\ worker[w].cleanup => worker[w].server # None
    /\ worker[w].server # None => server[worker[w].server].status # "absent"

\* Only a record that was there is marked deleted.
GoneWasThere == \A s \in Server : server[s].gone => server[s].status # "absent"

IInv == TypeOK /\ CreationIsFresh /\ RequestHasItsRows /\ WorkerHasItsRecord /\ GoneWasThere

-----------------------------------------------------------------------------
\* One slot for two-step requests: no two of them overlap.
OneRequestAtATime == \A g, h \in Handler : g = h

\* The token a worker came with is never active again.
TokenIsSpent ==
  \A w \in Worker : worker[w].via # None =>
    token[worker[w].via].status \notin {"absent", "active"}

\* No worker has come with the token of a pending registration.
RegistrationIsFirst ==
  \A h \in Handler : txn[h].op = "register" =>
    \A w \in Worker : worker[w].via # txn[h].token

\* A heartbeat binds only a worker without a server.
BindingIsFirst ==
  \A h \in Handler : txn[h].op = "heartbeat" /\ ~txn[h].bound =>
    worker[txn[h].worker].server = None

\* The request may make the landing record s live.
Claims(h, s) ==
  /\ txn[h].server = s
  /\ \/ txn[h].op \in {"create", "bootstrap"}
     \/ txn[h].op \in {"register", "heartbeat"} /\ txn[h].status # "deleted"

\* Such a record finds its address free.
AddressIsFree ==
  \A h \in Handler : \A s \in Landing : Claims(h, s) =>
    \A x \in Landing : Live(x) /\ IpOf[x] = IpOf[s] => x = s

SerialInv == /\ TokenIsSpent /\ RegistrationIsFirst /\ BindingIsFirst
             /\ AddressIsFree /\ NothingIsShared
-----------------------------------------------------------------------------
\* What the writes do to the tables.

LEMMA StatusIsSet ==
  ASSUME TypeOK, NEW s \in Server, NEW status \in ServerStatus, SetStatus(s, status)
  PROVE  /\ server' \in [Server -> ServerRow]
         /\ server'[s].status = status
         /\ s \in Landing => (server'[s].gone <=> status = "deleted")
         /\ s \notin Landing => (server'[s].gone <=> server[s].gone)
         /\ \A x \in Server : x # s => server'[x] = server[x]
<1>1. Written(server[s], s, status) \in ServerRow
  BY DEF TypeOK, Written, ServerRow
<1>2. server' = [server EXCEPT ![s] = Written(server[s], s, status)]
  BY DEF SetStatus
<1>3. /\ server' \in [Server -> ServerRow]
      /\ server'[s] = Written(server[s], s, status)
      /\ \A x \in Server : x # s => server'[x] = server[x]
  BY <1>1, <1>2 DEF TypeOK
<1>4. server'[s].status = status
  BY <1>3 DEF Written
<1>5. ASSUME s \in Landing
      PROVE  server'[s].gone <=> status = "deleted"
  <2>1. CASE status = "deleted"
    <3>1. Written(server[s], s, status) = [status |-> status, gone |-> TRUE]
      BY <1>5, <2>1 DEF Written
    <3>. QED
      BY <1>3, <2>1, <3>1
  <2>2. CASE status # "deleted"
    <3>1. Written(server[s], s, status) = [status |-> status, gone |-> FALSE]
      BY <1>5, <2>2 DEF Written
    <3>. QED
      BY <1>3, <2>2, <3>1
  <2>. QED
    BY <2>1, <2>2
<1>6. ASSUME s \notin Landing
      PROVE  server'[s].gone <=> server[s].gone
  BY <1>3, <1>6 DEF Written
<1>. QED
  BY <1>3, <1>4, <1>5, <1>6

LEMMA ServerIsMarked ==
  ASSUME TypeOK, NEW s \in Server, MarkServerDeleted(s)
  PROVE  /\ server' \in [Server -> ServerRow]
         /\ server'[s].status = "deleted" /\ server'[s].gone
         /\ \A x \in Server : x # s => server'[x] = server[x]
<1>1. [status |-> "deleted", gone |-> TRUE] \in ServerRow
  BY DEF ServerRow, ServerStatus
<1>2. server' = [server EXCEPT ![s] = [status |-> "deleted", gone |-> TRUE]]
  BY DEF MarkServerDeleted
<1>3. /\ server' \in [Server -> ServerRow]
      /\ server'[s] = [status |-> "deleted", gone |-> TRUE]
      /\ \A x \in Server : x # s => server'[x] = server[x]
  BY <1>1, <1>2 DEF TypeOK
<1>. QED
  BY <1>3

LEMMA ServerIsSynced ==
  ASSUME TypeOK, NEW s \in Server \cup {None}, NEW seen \in ServerStatus,
         SyncBound(s, seen)
  PROVE  /\ server' \in [Server -> ServerRow]
         /\ \/ server' = server
            \/ /\ s \in Server /\ seen \notin {"worker_online", "deleted"}
               /\ server'[s].status = "worker_online"
               /\ s \notin Landing => (server'[s].gone <=> server[s].gone)
               /\ \A x \in Server : x # s => server'[x] = server[x]
<1>1. CASE s = None \/ seen \in {"worker_online", "deleted"}
  BY <1>1 DEF SyncBound, TypeOK
<1>2. CASE ~(s = None \/ seen \in {"worker_online", "deleted"})
  <2>1. s \in Server /\ SetStatus(s, "worker_online")
    BY <1>2 DEF SyncBound
  <2>2. "worker_online" \in ServerStatus
    BY DEF ServerStatus
  <2>. QED
    BY <1>2, <2>1, <2>2, StatusIsSet
<1>. QED
  BY <1>1, <1>2

LEMMA WorkersAreMarked ==
  ASSUME TypeOK, NEW W \in SUBSET Worker, NEW s \in Server, MarkWorkersDeleted(W, s)
  PROVE  /\ worker' \in [Worker -> WorkerRow]
         /\ token' \in [Token -> TokenRow]
         /\ \A w \in Worker : /\ worker'[w].server = worker[w].server
                              /\ worker'[w].via = worker[w].via
                              /\ worker'[w].cleanup => worker[w].cleanup
                              /\ w \in W => worker'[w].status = "deleted"
                              /\ w \notin W => worker'[w] = worker[w]
         /\ \A t \in Token : token'[t].status # token[t].status =>
                               /\ token[t].status = "active"
                               /\ token'[t].status = "expired"
<1>1. /\ worker' = [w \in Worker |->
                     IF w \in W THEN [worker[w] EXCEPT !.status = "deleted", !.cleaned = TRUE,
                                                       !.cleanup = FALSE]
                                ELSE worker[w]]
      /\ token' = [t \in Token |->
                    IF W # {} /\ t \in ActiveTokens(s)
                    THEN [token[t] EXCEPT !.status = "expired"] ELSE token[t]]
  BY DEF MarkWorkersDeleted
<1>2. ASSUME NEW w \in Worker
      PROVE  /\ worker'[w] \in WorkerRow
             /\ worker'[w].server = worker[w].server
             /\ worker'[w].via = worker[w].via
             /\ worker'[w].cleanup => worker[w].cleanup
             /\ w \in W => worker'[w].status = "deleted"
             /\ w \notin W => worker'[w] = worker[w]
  <2>1. worker[w] \in WorkerRow
    BY DEF TypeOK
  <2>2. CASE w \in W
    <3>1. worker'[w] = [worker[w] EXCEPT !.status = "deleted", !.cleaned = TRUE,
                                         !.cleanup = FALSE]
      BY <1>1, <2>2
    <3>. QED
      BY <3>1, <2>1, <2>2 DEF WorkerRow
  <2>3. CASE w \notin W
    BY <1>1, <2>1, <2>3
  <2>. QED
    BY <2>2, <2>3
<1>3. ASSUME NEW t \in Token
      PROVE  /\ token'[t] \in TokenRow
             /\ token'[t].status # token[t].status =>
                  token[t].status = "active" /\ token'[t].status = "expired"
  <2>1. token[t] \in TokenRow
    BY DEF TypeOK
  <2>2. CASE W # {} /\ t \in ActiveTokens(s)
    <3>1. token'[t] = [token[t] EXCEPT !.status = "expired"]
      BY <1>1, <2>2
    <3>2. token[t].status = "active"
      BY <2>2 DEF ActiveTokens
    <3>. QED
      BY <3>1, <3>2, <2>1 DEF TokenRow
  <2>3. CASE ~(W # {} /\ t \in ActiveTokens(s))
    BY <1>1, <2>1, <2>3
  <2>. QED
    BY <2>2, <2>3
<1>4. worker' \in [Worker -> WorkerRow]
  BY <1>1, <1>2
<1>5. token' \in [Token -> TokenRow]
  BY <1>1, <1>3
<1>. QED
  BY <1>2, <1>3, <1>4, <1>5

LEMMA WorkerIsChanged ==
  ASSUME TypeOK, NEW w \in Worker,
         NEW row \in WorkerRow, worker' = [worker EXCEPT ![w] = row]
  PROVE  /\ worker' \in [Worker -> WorkerRow]
         /\ worker'[w] = row
         /\ \A v \in Worker : v # w => worker'[v] = worker[v]
  BY DEF TypeOK

LEMMA TokenIsChanged ==
  ASSUME TypeOK, NEW t \in Token,
         NEW row \in TokenRow, token' = [token EXCEPT ![t] = row]
  PROVE  /\ token' \in [Token -> TokenRow]
         /\ token'[t] = row
         /\ \A u \in Token : u # t => token'[u] = token[u]
  BY DEF TypeOK

LEMMA Finished ==
  ASSUME TypeOK, NEW h \in Handler, Finish(h)
  PROVE  /\ txn' \in [Handler -> Request]
         /\ txn'[h] = NoRequest
         /\ \A g \in Handler : g # h => txn'[g] = txn[g]
<1>1. NoRequest \in Request
  BY DEF NoRequest, Request, ServerStatus
<1>2. txn' = [txn EXCEPT ![h] = NoRequest]
  BY DEF Finish
<1>. QED
  BY <1>1, <1>2 DEF TypeOK

LEMMA Started ==
  ASSUME TypeOK, NEW h \in Handler, NEW request \in Request, Start(h, request)
  PROVE  /\ txn' \in [Handler -> Request]
         /\ txn'[h] = request
         /\ \A g \in Handler : g # h => txn'[g] = txn[g]
<1>1. txn' = [txn EXCEPT ![h] = request]
  BY DEF Start
<1>. QED
  BY <1>1 DEF TypeOK

-----------------------------------------------------------------------------
\* What the longer steps come to.

LEMMA CommitCreateStep ==
  ASSUME IInv, NEW h \in Handler, NEW t \in Token, CommitCreate(h, t)
  PROVE  LET s == txn[h].server IN
         /\ txn[h].op \in {"create", "bootstrap"} /\ s \in Server
         /\ server[s].status = "absent"
         /\ server' \in [Server -> ServerRow]
         /\ server'[s].status \notin {"absent", "deleted"}
         /\ \A x \in Server : x # s => server'[x] = server[x]
         /\ token' \in [Token -> TokenRow]
         /\ \A u \in Token : token[u].status # "absent" => token'[u] = token[u]
         /\ Finish(h)
         /\ worker' = worker
<1>. DEFINE s == txn[h].server
<1>1. /\ s \in Server /\ server[s].status = "absent"
      /\ txn[h].op \in {"create", "bootstrap"}
  BY DEF IInv, CreationIsFresh, CommitCreate
<1>2. Finish(h) /\ worker' = worker
  BY DEF CommitCreate
<1>3. ASSUME NEW status \in ServerStatus \ {"absent", "deleted"}, SetStatus(s, status)
      PROVE  /\ server' \in [Server -> ServerRow]
             /\ server'[s].status \notin {"absent", "deleted"}
             /\ \A x \in Server : x # s => server'[x] = server[x]
  BY <1>1, <1>3, StatusIsSet DEF IInv
<1>4. CASE txn[h].op = "create"
  <2>1. SetStatus(s, IF s \in Landing THEN "unconfigured" ELSE "active") /\ token' = token
    BY <1>4 DEF CommitCreate
  <2>2. (IF s \in Landing THEN "unconfigured" ELSE "active") \in ServerStatus \ {"absent", "deleted"}
    BY DEF ServerStatus
  <2>. QED
    BY <1>1, <1>2, <1>3, <2>1, <2>2 DEF IInv, TypeOK
<1>5. CASE txn[h].op = "bootstrap"
  <2>1. SetStatus(s, "pending_worker") /\ NewToken(t, RoleOf(s), s)
    BY <1>5 DEF CommitCreate
  <2>2. "pending_worker" \in ServerStatus \ {"absent", "deleted"}
    BY DEF ServerStatus
  <2>3. [status |-> "active", role |-> RoleOf(s), server |-> s, lapsed |-> FALSE] \in TokenRow
    BY <1>1 DEF TokenRow, Role, RoleOf
  <2>4. /\ token[t].status = "absent"
        /\ token' = [token EXCEPT ![t] = [status |-> "active", role |-> RoleOf(s),
                                          server |-> s, lapsed |-> FALSE]]
    BY <2>1 DEF NewToken
  <2>5. /\ token' \in [Token -> TokenRow]
        /\ \A u \in Token : token[u].status # "absent" => token'[u] = token[u]
    BY <2>3, <2>4, TokenIsChanged DEF IInv
  <2>. QED
    BY <1>1, <1>2, <1>3, <2>1, <2>2, <2>5
<1>. QED
  BY <1>1, <1>4, <1>5

LEMMA CommitRegisterStep ==
  ASSUME IInv, NEW h \in Handler, NEW w \in Worker, NEW a \in Address,
         CommitRegister(h, w, a)
  PROVE  LET r == txn[h] IN
         /\ r.op = "register" /\ r.token \in Token
         /\ worker[w].status = "absent"
         /\ worker' \in [Worker -> WorkerRow]
         /\ worker'[w].status = "online" /\ ~worker'[w].cleanup
         /\ worker'[w].server = r.server /\ worker'[w].via = r.token
         /\ \A v \in Worker : v # w => worker'[v] = worker[v]
         /\ token' \in [Token -> TokenRow]
         /\ token'[r.token].status = "used"
         /\ \A u \in Token : u # r.token => token'[u] = token[u]
         /\ r.server \in Server \cup {None} /\ r.status \in ServerStatus
         /\ SyncBound(r.server, r.status)
         /\ Finish(h)
<1>. DEFINE r == txn[h]
            row == [status |-> "online", role |-> token[r.token].role, server |-> r.server,
                    ip |-> a, fresh |-> TRUE, cleanup |-> FALSE, cleaned |-> FALSE,
                    via |-> r.token]
<1>1. r.op = "register" /\ worker[w].status = "absent" /\ Finish(h)
  BY DEF CommitRegister
<1>2. r \in Request
  BY DEF IInv, TypeOK
<1>3. r.token \in Token /\ r.server \in Server \cup {None} /\ r.status \in ServerStatus
  BY <1>1, <1>2 DEF IInv, RequestHasItsRows, Request
<1>4. SyncBound(r.server, r.status) /\ SpendToken(r.token)
  BY DEF CommitRegister
<1>5. token[r.token] \in TokenRow
  BY <1>3 DEF IInv, TypeOK
<1>6. row \in WorkerRow
  BY <1>3, <1>5 DEF WorkerRow, TokenRow
<1>7. worker' = [worker EXCEPT ![w] = row]
  BY DEF CommitRegister
<1>8. /\ worker' \in [Worker -> WorkerRow]
      /\ worker'[w] = row
      /\ \A v \in Worker : v # w => worker'[v] = worker[v]
  BY <1>6, <1>7, WorkerIsChanged DEF IInv
<1>9. [token[r.token] EXCEPT !.status = "used"] \in TokenRow
  BY <1>5 DEF TokenRow
<1>10. token' = [token EXCEPT ![r.token] = [token[r.token] EXCEPT !.status = "used"]]
  BY <1>4 DEF SpendToken
<1>11. /\ token' \in [Token -> TokenRow]
       /\ token'[r.token] = [token[r.token] EXCEPT !.status = "used"]
       /\ \A u \in Token : u # r.token => token'[u] = token[u]
  BY <1>3, <1>9, <1>10, TokenIsChanged DEF IInv
<1>12. token'[r.token].status = "used"
  BY <1>5, <1>11 DEF TokenRow
<1>13. /\ worker'[w].status = "online" /\ ~worker'[w].cleanup
       /\ worker'[w].server = r.server /\ worker'[w].via = r.token
  BY <1>8
<1>. QED
  BY <1>1, <1>3, <1>4, <1>8, <1>11, <1>12, <1>13

LEMMA BeginHeartbeatStep ==
  ASSUME IInv, NEW h \in Handler, NEW w \in Worker, NEW s \in Server \cup {None},
         BeginHeartbeat(h, w, s)
  PROVE  /\ txn' \in [Handler -> Request]
         /\ txn'[h].op = "heartbeat" /\ txn'[h].worker = w /\ txn'[h].server = s
         /\ txn'[h].bound <=> worker[w].server = s
         /\ s \in Server /\ txn'[h].status # "deleted" => Live(s)
         /\ \A g \in Handler : g # h => txn'[g] = txn[g]
         /\ worker[w].status # "absent"
         /\ s \in Server => worker[w].server = s \/ Live(s)
         /\ worker[w].server # None => worker[w].server = s
         /\ worker[w].server = None /\ s # None => s \in Server
         /\ UNCHANGED <<server, token, worker>>
<1>. DEFINE status == IF s \in {None} \cup LiveServer THEN StatusOf(s) ELSE "deleted"
            request == [NoRequest EXCEPT
                          !.op = "heartbeat", !.worker = w, !.server = s,
                          !.status  = status,
                          !.seen    = worker[w].status,
                          !.cleaned = worker[w].cleaned,
                          !.bound   = worker[w].server = s]
<1>1. /\ worker[w].status # "absent" /\ Target(w, s) /\ Start(h, request)
      /\ UNCHANGED <<server, token, worker>>
  BY DEF BeginHeartbeat
<1>2. worker[w] \in WorkerRow
  BY DEF IInv, TypeOK
<1>3. status \in ServerStatus
  BY DEF IInv, TypeOK, StatusOf, ServerRow, ServerStatus
<1>4. /\ request \in Request /\ request.op = "heartbeat" /\ request.worker = w
      /\ request.server = s /\ request.status = status
  <2>. HIDE DEF status
  <2>. QED
    BY <1>2, <1>3 DEF NoRequest, Request, WorkerRow
<1>5. request.bound <=> worker[w].server = s
  BY DEF NoRequest
<1>6. /\ txn' \in [Handler -> Request]
      /\ txn'[h] = request
      /\ \A g \in Handler : g # h => txn'[g] = txn[g]
  <2>. HIDE DEF request
  <2>. QED
    BY <1>1, <1>4, Started DEF IInv
<1>7. s \in Server /\ status # "deleted" => Live(s)
  BY ServersAssumption DEF LiveServer
<1>8. /\ s \in Server => worker[w].server = s \/ Live(s)
      /\ worker[w].server # None => worker[w].server = s
  BY <1>1 DEF Target, Candidates, LiveServer
<1>9. txn'[h].bound <=> worker[w].server = s
  <2>. HIDE DEF request
  <2>. QED
    BY <1>5, <1>6
<1>10. /\ txn'[h].op = "heartbeat" /\ txn'[h].worker = w /\ txn'[h].server = s
       /\ txn'[h].status = status
  <2>. HIDE DEF request, status
  <2>. QED
    BY <1>4, <1>6
<1>. HIDE DEF request, status
<1>. QED
  BY <1>1, <1>6, <1>7, <1>8, <1>9, <1>10

LEMMA CommitHeartbeatStep ==
  ASSUME IInv, NEW h \in Handler, CommitHeartbeat(h)
  PROVE  LET r == txn[h]  w == r.worker IN
         /\ r.op = "heartbeat" /\ w \in Worker
         /\ worker[w].status # "absent"
         /\ r.server \in Server \cup {None} /\ r.status \in ServerStatus
         /\ worker' \in [Worker -> WorkerRow]
         /\ worker'[w].via = worker[w].via
         /\ worker'[w].cleanup => worker[w].cleanup
         /\ worker'[w].status # "absent"
         /\ worker'[w].status # worker[w].status =>
              r.seen # "deleted" /\ worker'[w].status = "online"
         /\ worker'[w].server # worker[w].server =>
              ~r.bound /\ worker'[w].server = r.server
         /\ \A v \in Worker : v # w => worker'[v] = worker[v]
         /\ server' = server \/ SyncBound(r.server, r.status)
         /\ Finish(h)
         /\ token' = token
<1>. DEFINE r == txn[h]
            w == r.worker
<1>1. r.op = "heartbeat" /\ Finish(h) /\ token' = token
  BY DEF CommitHeartbeat
<1>2. r \in Request
  BY DEF IInv, TypeOK
<1>3. /\ w \in Worker /\ worker[w].status # "absent"
      /\ r.server \in Server \cup {None} /\ r.status \in ServerStatus
  BY <1>1, <1>2 DEF IInv, RequestHasItsRows, Request
<1>4. worker[w] \in WorkerRow
  BY <1>3 DEF IInv, TypeOK
<1>5. CASE ExpectedOffline(r)
  <2>. DEFINE row == [worker[w] EXCEPT !.fresh = TRUE, !.cleaned = r.cleaned]
  <2>1. worker' = [worker EXCEPT ![w] = row] /\ server' = server
    BY <1>3, <1>5 DEF CommitHeartbeat, IInv, TypeOK
  <2>2. /\ row \in WorkerRow /\ row.via = worker[w].via /\ row.status = worker[w].status
        /\ row.server = worker[w].server /\ row.cleanup = worker[w].cleanup
    BY <1>2, <1>4 DEF WorkerRow, Request
  <2>3. /\ worker' \in [Worker -> WorkerRow]
        /\ worker'[w] = row
        /\ \A v \in Worker : v # w => worker'[v] = worker[v]
    <3>. HIDE DEF row
    <3>. QED
      BY <1>3, <2>1, <2>2, WorkerIsChanged DEF IInv
  <2>. HIDE DEF row
  <2>. QED
    BY <1>1, <1>3, <2>1, <2>2, <2>3
<1>6. CASE ~ExpectedOffline(r)
  <2>. DEFINE status == IF r.seen = "online" THEN worker[w].status ELSE "online"
              bound == IF r.bound THEN worker[w].server ELSE r.server
              row == [worker[w] EXCEPT !.fresh = TRUE, !.cleaned = FALSE,
                                       !.status = status, !.server = bound]
  <2>1. worker' = [worker EXCEPT ![w] = row] /\ SyncBound(r.server, r.status)
    BY <1>3, <1>6 DEF CommitHeartbeat, IInv, TypeOK
  <2>2. r.seen # "deleted"
    BY <1>6 DEF ExpectedOffline
  <2>3. /\ status \in {"online", worker[w].status} \ {"absent"}
        /\ bound \in {worker[w].server, r.server}
        /\ bound # worker[w].server => ~r.bound /\ bound = r.server
    BY <1>3
  <2>4. /\ row \in WorkerRow /\ row.via = worker[w].via /\ row.status = status
        /\ row.server = bound /\ row.cleanup = worker[w].cleanup
    <3>. HIDE DEF status, bound
    <3>. QED
      BY <1>3, <1>4, <2>3 DEF WorkerRow
  <2>5. /\ worker' \in [Worker -> WorkerRow]
        /\ worker'[w] = row
        /\ \A v \in Worker : v # w => worker'[v] = worker[v]
    <3>. HIDE DEF row
    <3>. QED
      BY <1>3, <2>1, <2>4, WorkerIsChanged DEF IInv
  <2>. HIDE DEF row, status, bound
  <2>. QED
    BY <1>1, <1>3, <2>1, <2>2, <2>3, <2>4, <2>5
<1>. QED
  BY <1>5, <1>6

LEMMA CleanupEndsStep ==
  ASSUME IInv, NEW w \in Worker, CleanupEnds(w)
  PROVE  /\ worker[w].server \in Server
         /\ worker' \in [Worker -> WorkerRow]
         /\ token' \in [Token -> TokenRow]
         /\ \A v \in Worker : /\ worker'[v].server = worker[v].server
                              /\ worker'[v].via = worker[v].via
                              /\ worker'[v].cleanup => worker[v].cleanup
                              /\ worker'[v].status \in {worker[v].status, "deleted"}
                              /\ worker[v].status = "absent" => worker'[v].status = "absent"
         /\ \A t \in Token : token'[t].status # token[t].status =>
                               token[t].status = "active" /\ token'[t].status = "expired"
         /\ \/ server' = server
            \/ Live(worker[w].server) /\ MarkServerDeleted(worker[w].server)
         /\ txn' = txn
<1>. DEFINE s == worker[w].server
<1>1. worker[w].cleanup /\ txn' = txn
  BY DEF CleanupEnds
<1>2. worker[w] \in WorkerRow
  BY DEF IInv, TypeOK
<1>3. s \in Server /\ worker[w].status # "absent"
  BY <1>1, <1>2 DEF IInv, WorkerHasItsRecord, WorkerRow
<1>4. CASE Live(s) /\ MarkServerDeleted(s) /\ MarkWorkersDeleted({w}, s)
  <2>1. {w} \in SUBSET Worker
    OBVIOUS
  <2>2. /\ worker' \in [Worker -> WorkerRow]
        /\ token' \in [Token -> TokenRow]
        /\ \A v \in Worker : /\ worker'[v].server = worker[v].server
                             /\ worker'[v].via = worker[v].via
                             /\ worker'[v].cleanup => worker[v].cleanup
                             /\ v \in {w} => worker'[v].status = "deleted"
                             /\ v \notin {w} => worker'[v] = worker[v]
        /\ \A t \in Token : token'[t].status # token[t].status =>
                              token[t].status = "active" /\ token'[t].status = "expired"
    BY <1>3, <1>4, <2>1, WorkersAreMarked DEF IInv
  <2>. QED
    BY <1>1, <1>3, <1>4, <2>2
<1>5. CASE /\ worker' = [worker EXCEPT ![w].cleanup = FALSE]
           /\ UNCHANGED <<server, token>>
  <2>. DEFINE row == [worker[w] EXCEPT !.cleanup = FALSE]
  <2>1. worker' = [worker EXCEPT ![w] = row]
    BY <1>5
  <2>2. /\ row \in WorkerRow /\ row.server = worker[w].server /\ row.via = worker[w].via
        /\ row.status = worker[w].status /\ ~row.cleanup
    BY <1>2 DEF WorkerRow
  <2>3. /\ worker' \in [Worker -> WorkerRow]
        /\ worker'[w] = row
        /\ \A v \in Worker : v # w => worker'[v] = worker[v]
    <3>. HIDE DEF row
    <3>. QED
      BY <2>1, <2>2, WorkerIsChanged DEF IInv
  <2>4. token' \in [Token -> TokenRow]
    BY <1>5 DEF IInv, TypeOK
  <2>. HIDE DEF row
  <2>. QED
    BY <1>1, <1>3, <1>5, <2>2, <2>3, <2>4
<1>. QED
  BY <1>4, <1>5 DEF CleanupEnds

LEMMA RemoveOfflineStep ==
  ASSUME IInv, NEW s \in Server, RemoveOffline(s)
  PROVE  /\ worker' \in [Worker -> WorkerRow]
         /\ token' \in [Token -> TokenRow]
         /\ \A v \in Worker : /\ worker'[v].server = worker[v].server
                              /\ worker'[v].via = worker[v].via
                              /\ worker'[v].cleanup => worker[v].cleanup
                              /\ worker'[v].status \in {worker[v].status, "deleted"}
                              /\ worker[v].status = "absent" => worker'[v].status = "absent"
         /\ \A t \in Token : token'[t].status # token[t].status =>
                               token[t].status = "active" /\ token'[t].status = "expired"
         /\ Live(s) /\ MarkServerDeleted(s)
         /\ txn' = txn
<1>1. /\ Live(s) /\ MarkServerDeleted(s) /\ txn' = txn
      /\ MarkWorkersDeleted(BoundTo(s), s)
  BY DEF RemoveOffline
<1>2. BoundTo(s) \in SUBSET Worker /\ \A v \in BoundTo(s) : worker[v].status # "absent"
  BY DEF BoundTo
<1>3. /\ worker' \in [Worker -> WorkerRow]
      /\ token' \in [Token -> TokenRow]
      /\ \A v \in Worker : /\ worker'[v].server = worker[v].server
                           /\ worker'[v].via = worker[v].via
                           /\ worker'[v].cleanup => worker[v].cleanup
                           /\ v \in BoundTo(s) => worker'[v].status = "deleted"
                           /\ v \notin BoundTo(s) => worker'[v] = worker[v]
      /\ \A t \in Token : token'[t].status # token[t].status =>
                            token[t].status = "active" /\ token'[t].status = "expired"
  BY <1>1, <1>2, WorkersAreMarked DEF IInv
<1>. QED
  BY <1>1, <1>2, <1>3

LEMMA QueueCleanupStep ==
  ASSUME IInv, NEW w \in Worker, QueueCleanup(w)
  PROVE  /\ worker[w].server \in Server /\ worker[w].status = "online"
         /\ worker' \in [Worker -> WorkerRow]
         /\ worker'[w].server = worker[w].server /\ worker'[w].via = worker[w].via
         /\ worker'[w].status = "cleanup_pending"
         /\ \A v \in Worker : v # w => worker'[v] = worker[v]
         /\ UNCHANGED <<server, token, txn>>
<1>. DEFINE row == [worker[w] EXCEPT !.status = "cleanup_pending", !.cleanup = TRUE]
<1>1. /\ worker[w].server \in LiveServer /\ worker[w].status = "online"
      /\ UNCHANGED <<server, token, txn>>
  BY DEF QueueCleanup
<1>2. worker[w] \in WorkerRow
  BY DEF IInv, TypeOK
<1>3. worker' = [worker EXCEPT ![w] = row]
  BY DEF QueueCleanup, IInv, TypeOK
<1>4. /\ row \in WorkerRow /\ row.server = worker[w].server /\ row.via = worker[w].via
      /\ row.status = "cleanup_pending"
  BY <1>2 DEF WorkerRow
<1>5. /\ worker' \in [Worker -> WorkerRow]
      /\ worker'[w] = row
      /\ \A v \in Worker : v # w => worker'[v] = worker[v]
  <2>. HIDE DEF row
  <2>. QED
    BY <1>3, <1>4, WorkerIsChanged DEF IInv
<1>. HIDE DEF row
<1>. QED
  BY <1>1, <1>4, <1>5 DEF LiveServer

LEMMA GoesSilentStep ==
  ASSUME IInv, NEW w \in Worker, GoesSilent(w)
  PROVE  /\ worker' \in [Worker -> WorkerRow]
         /\ \A v \in Worker : /\ worker'[v].server = worker[v].server
                              /\ worker'[v].via = worker[v].via
                              /\ worker'[v].status = worker[v].status
                              /\ worker'[v].cleanup <=> worker[v].cleanup
         /\ UNCHANGED <<server, token, txn>>
<1>. DEFINE row == [worker[w] EXCEPT !.fresh = FALSE]
<1>1. worker[w] \in WorkerRow
  BY DEF IInv, TypeOK
<1>2. worker' = [worker EXCEPT ![w] = row] /\ UNCHANGED <<server, token, txn>>
  BY DEF GoesSilent
<1>3. /\ row \in WorkerRow /\ row.server = worker[w].server /\ row.via = worker[w].via
      /\ row.status = worker[w].status /\ (row.cleanup <=> worker[w].cleanup)
  BY <1>1 DEF WorkerRow
<1>4. /\ worker' \in [Worker -> WorkerRow]
      /\ worker'[w] = row
      /\ \A v \in Worker : v # w => worker'[v] = worker[v]
  <2>. HIDE DEF row
  <2>. QED
    BY <1>2, <1>3, WorkerIsChanged DEF IInv
<1>. HIDE DEF row
<1>. QED
  BY <1>2, <1>3, <1>4

\* The two steps that only touch a token.
LEMMA TokenEnds ==
  ASSUME IInv, NEW t \in Token, RefuseExpired(t) \/ TokenLapses(t)
  PROVE  /\ token' \in [Token -> TokenRow]
         /\ \A u \in Token : token'[u].status # token[u].status =>
                               token[u].status = "active" /\ token'[u].status = "expired"
         /\ UNCHANGED <<server, worker, txn>>
<1>1. token[t] \in TokenRow
  BY DEF IInv, TypeOK
<1>2. CASE RefuseExpired(t)
  <2>. DEFINE row == [token[t] EXCEPT !.status = "expired"]
  <2>1. /\ token[t].status = "active" /\ token' = [token EXCEPT ![t] = row]
        /\ UNCHANGED <<server, worker, txn>>
    BY <1>2 DEF RefuseExpired
  <2>2. row \in TokenRow /\ row.status = "expired"
    BY <1>1 DEF TokenRow
  <2>. HIDE DEF row
  <2>. QED
    BY <2>1, <2>2, TokenIsChanged DEF IInv
<1>3. CASE TokenLapses(t)
  <2>. DEFINE row == [token[t] EXCEPT !.lapsed = TRUE]
  <2>1. token' = [token EXCEPT ![t] = row] /\ UNCHANGED <<server, worker, txn>>
    BY <1>3 DEF TokenLapses
  <2>2. row \in TokenRow /\ row.status = token[t].status
    BY <1>1 DEF TokenRow
  <2>3. /\ token' \in [Token -> TokenRow]
        /\ token'[t] = row
        /\ \A u \in Token : u # t => token'[u] = token[u]
    <3>. HIDE DEF row
    <3>. QED
      BY <2>1, <2>2, TokenIsChanged DEF IInv
  <2>. HIDE DEF row
  <2>. QED
    BY <2>1, <2>2, <2>3
<1>. QED
  BY <1>2, <1>3

-----------------------------------------------------------------------------
\* Each operation keeps IInv.

LEMMA BeginCreateKeeps ==
  ASSUME IInv, NEW h \in Handler, NEW s \in Server, NEW op \in {"create", "bootstrap"},
         BeginCreate(h, s, op)
  PROVE  IInv'
<1>1. TypeOK'
  <2>1. (server \in [Server -> ServerRow])'
    BY DEF IInv, TypeOK, BeginCreate
  <2>2. (token \in [Token -> TokenRow])'
    BY DEF IInv, TypeOK, BeginCreate
  <2>3. (worker \in [Worker -> WorkerRow])'
    BY DEF IInv, TypeOK, BeginCreate
  <2>4. (txn \in [Handler -> Request])'
    BY DEF IInv, TypeOK, Request, BeginCreate, Start, NoRequest
  <2>. QED
    BY <2>1, <2>2, <2>3, <2>4 DEF TypeOK
<1>2. CreationIsFresh'
  BY DEF IInv, TypeOK, CreationIsFresh, BeginCreate, Start, NoRequest
<1>3. RequestHasItsRows'
  BY DEF IInv, TypeOK, RequestHasItsRows, BeginCreate, Start, NoRequest
<1>4. WorkerHasItsRecord'
  BY DEF IInv, WorkerHasItsRecord, BeginCreate
<1>5. GoneWasThere'
  BY DEF IInv, GoneWasThere, BeginCreate
<1>. QED
  BY <1>1, <1>2, <1>3, <1>4, <1>5 DEF IInv

LEMMA CommitCreateKeeps ==
  ASSUME IInv, NEW h \in Handler, NEW t \in Token, CommitCreate(h, t)
  PROVE  IInv'
<1>1. TypeOK'
  BY CommitCreateStep, Finished DEF IInv, TypeOK
<1>2. CreationIsFresh'
  BY CommitCreateStep, Finished DEF IInv, CreationIsFresh, NoRequest
<1>3. RequestHasItsRows'
  BY CommitCreateStep, Finished DEF IInv, Request, RequestHasItsRows, NoRequest
<1>4. WorkerHasItsRecord'
  BY CommitCreateStep, Finished DEF IInv, TypeOK, WorkerRow, WorkerHasItsRecord
<1>5. GoneWasThere'
  BY CommitCreateStep, Finished DEF IInv, GoneWasThere
<1>. QED
  BY <1>1, <1>2, <1>3, <1>4, <1>5 DEF IInv

LEMMA CreateTokenKeeps ==
  ASSUME IInv, NEW t \in Token, NEW role \in Role, NEW s \in Server \cup {None},
         CreateToken(t, role, s)
  PROVE  IInv'
<1>1. TypeOK'
  <2>1. (server \in [Server -> ServerRow])'
    BY DEF IInv, TypeOK, CreateToken
  <2>2. (token \in [Token -> TokenRow])'
    BY DEF IInv, TypeOK, TokenRow, CreateToken, NewToken
  <2>3. (worker \in [Worker -> WorkerRow])'
    BY DEF IInv, TypeOK, CreateToken
  <2>4. (txn \in [Handler -> Request])'
    BY DEF IInv, TypeOK, CreateToken
  <2>. QED
    BY <2>1, <2>2, <2>3, <2>4 DEF TypeOK
<1>2. CreationIsFresh'
  BY DEF IInv, CreationIsFresh, CreateToken
<1>3. RequestHasItsRows'
  BY DEF IInv, TypeOK, RequestHasItsRows, CreateToken, NewToken
<1>4. WorkerHasItsRecord'
  BY DEF IInv, WorkerHasItsRecord, CreateToken
<1>5. GoneWasThere'
  BY DEF IInv, GoneWasThere, CreateToken
<1>. QED
  BY <1>1, <1>2, <1>3, <1>4, <1>5 DEF IInv

LEMMA RegenerateKeeps ==
  ASSUME IInv, NEW s \in Server, NEW t \in Token, Regenerate(s, t)
  PROVE  IInv'
<1>1. TypeOK'
  <2>1. (server \in [Server -> ServerRow])'
    BY DEF IInv, TypeOK, Regenerate
  <2>2. (token \in [Token -> TokenRow])'
    <3>1. ASSUME NEW u \in Token
          PROVE  token'[u] \in TokenRow
      <4>1. token[u] \in TokenRow
        BY DEF IInv, TypeOK
      <4>2. CASE u = t
        <5>1. token'[u] = [status |-> "active", role |-> "transit", server |-> s, lapsed |-> FALSE]
          BY <4>2 DEF Regenerate
        <5>. QED
          BY <5>1 DEF TokenRow, Role
      <4>3. CASE u # t /\ u \in ActiveTokens(s)
        <5>1. token'[u] = [token[u] EXCEPT !.status = "revoked"]
          BY <4>3 DEF Regenerate
        <5>. QED
          BY <4>1, <5>1 DEF TokenRow
      <4>4. CASE u # t /\ u \notin ActiveTokens(s)
        BY <4>1, <4>4 DEF Regenerate
      <4>. QED
        BY <4>2, <4>3, <4>4
    <3>. QED
      BY <3>1 DEF Regenerate
  <2>3. (worker \in [Worker -> WorkerRow])'
    BY DEF IInv, TypeOK, Regenerate
  <2>4. (txn \in [Handler -> Request])'
    BY DEF IInv, TypeOK, TokenRow, Regenerate
  <2>. QED
    BY <2>1, <2>2, <2>3, <2>4 DEF TypeOK
<1>2. CreationIsFresh'
  BY DEF IInv, CreationIsFresh, Regenerate
<1>3. RequestHasItsRows'
  BY DEF IInv, TypeOK, TokenRow, RequestHasItsRows, Regenerate
<1>4. WorkerHasItsRecord'
  BY DEF IInv, WorkerHasItsRecord, Regenerate
<1>5. GoneWasThere'
  BY DEF IInv, GoneWasThere, Regenerate
<1>. QED
  BY <1>1, <1>2, <1>3, <1>4, <1>5 DEF IInv

LEMMA OperatorSetsStatusKeeps ==
  ASSUME IInv, NEW s \in Server, NEW status \in ServerStatus,
         OperatorSetsStatus(s, status)
  PROVE  IInv'
<1>1. TypeOK'
  <2>1. (server \in [Server -> ServerRow])'
    BY DEF IInv, TypeOK, ServerRow, OperatorSetsStatus, SetStatus, Written
  <2>2. (token \in [Token -> TokenRow])'
    BY DEF IInv, TypeOK, OperatorSetsStatus
  <2>3. (worker \in [Worker -> WorkerRow])'
    BY DEF IInv, TypeOK, OperatorSetsStatus
  <2>4. (txn \in [Handler -> Request])'
    BY DEF IInv, TypeOK, OperatorSetsStatus
  <2>. QED
    BY <2>1, <2>2, <2>3, <2>4 DEF TypeOK
<1>2. CreationIsFresh'
  BY DEF IInv, TypeOK, CreationIsFresh, OperatorSetsStatus, SetStatus, Live
<1>3. RequestHasItsRows'
  BY DEF IInv, TypeOK, RequestHasItsRows, OperatorSetsStatus, SetStatus, Written
<1>4. WorkerHasItsRecord'
  BY DEF IInv, TypeOK, WorkerHasItsRecord, OperatorSetsStatus, SetStatus, Written
<1>5. GoneWasThere'
  BY DEF IInv, TypeOK, GoneWasThere, OperatorSetsStatus, SetStatus, Written
<1>. QED
  BY <1>1, <1>2, <1>3, <1>4, <1>5 DEF IInv

LEMMA DeleteServerKeeps ==
  ASSUME IInv, NEW s \in Server, DeleteServer(s)
  PROVE  IInv'
<1>1. TypeOK'
  <2>1. (server \in [Server -> ServerRow])'
    BY DEF IInv, TypeOK, ServerRow, ServerStatus, DeleteServer, MarkServerDeleted
  <2>2. (token \in [Token -> TokenRow])'
    BY DEF IInv, TypeOK, DeleteServer
  <2>3. (worker \in [Worker -> WorkerRow])'
    BY DEF IInv, TypeOK, DeleteServer
  <2>4. (txn \in [Handler -> Request])'
    BY DEF IInv, TypeOK, DeleteServer
  <2>. QED
    BY <2>1, <2>2, <2>3, <2>4 DEF TypeOK
<1>2. CreationIsFresh'
  BY DEF IInv, TypeOK, CreationIsFresh, DeleteServer, MarkServerDeleted, Live
<1>3. RequestHasItsRows'
  BY DEF IInv, TypeOK, RequestHasItsRows, DeleteServer, MarkServerDeleted
<1>4. WorkerHasItsRecord'
  BY DEF IInv, TypeOK, WorkerHasItsRecord, DeleteServer, MarkServerDeleted
<1>5. GoneWasThere'
  BY DEF IInv, TypeOK, GoneWasThere, DeleteServer, MarkServerDeleted
<1>. QED
  BY <1>1, <1>2, <1>3, <1>4, <1>5 DEF IInv

LEMMA RemoveOfflineKeeps ==
  ASSUME IInv, NEW s \in Server, RemoveOffline(s)
  PROVE  IInv'
<1>1. TypeOK'
  BY RemoveOfflineStep, ServerIsMarked DEF IInv, TypeOK
<1>2. CreationIsFresh'
  BY RemoveOfflineStep, ServerIsMarked DEF IInv, CreationIsFresh, Live
<1>3. RequestHasItsRows'
  BY RemoveOfflineStep, ServerIsMarked DEF IInv, TypeOK, Request, RequestHasItsRows
<1>4. WorkerHasItsRecord'
  BY RemoveOfflineStep, ServerIsMarked DEF IInv, WorkerRow, WorkerHasItsRecord
<1>5. GoneWasThere'
  BY RemoveOfflineStep, ServerIsMarked DEF IInv, GoneWasThere
<1>. QED
  BY <1>1, <1>2, <1>3, <1>4, <1>5 DEF IInv

LEMMA QueueCleanupKeeps ==
  ASSUME IInv, NEW w \in Worker, QueueCleanup(w)
  PROVE  IInv'
<1>1. TypeOK'
  BY QueueCleanupStep DEF IInv, TypeOK
<1>2. CreationIsFresh'
  BY QueueCleanupStep DEF IInv, TypeOK, CreationIsFresh
<1>3. RequestHasItsRows'
  BY QueueCleanupStep DEF IInv, TypeOK, RequestHasItsRows
<1>4. WorkerHasItsRecord'
  BY QueueCleanupStep, ServersAssumption DEF IInv, RequestHasItsRows, WorkerHasItsRecord
<1>5. GoneWasThere'
  BY QueueCleanupStep DEF IInv, GoneWasThere
<1>. QED
  BY <1>1, <1>2, <1>3, <1>4, <1>5 DEF IInv

LEMMA BeginRegisterKeeps ==
  ASSUME IInv, NEW h \in Handler, NEW t \in Token, BeginRegister(h, t)
  PROVE  IInv'
<1>1. TypeOK'
  <2>1. (server \in [Server -> ServerRow])'
    BY DEF IInv, TypeOK, BeginRegister
  <2>2. (token \in [Token -> TokenRow])'
    BY DEF IInv, TypeOK, BeginRegister
  <2>3. (worker \in [Worker -> WorkerRow])'
    BY DEF IInv, TypeOK, BeginRegister
  <2>4. (txn \in [Handler -> Request])'
    BY DEF IInv, TypeOK, ServerRow, TokenRow, Request, ServerStatus, BeginRegister,
       Start, NoRequest, StatusOf
  <2>. QED
    BY <2>1, <2>2, <2>3, <2>4 DEF TypeOK
<1>2. CreationIsFresh'
  BY DEF IInv, TypeOK, CreationIsFresh, BeginRegister, Start, NoRequest
<1>3. RequestHasItsRows'
  BY DEF IInv, TypeOK, RequestHasItsRows, BeginRegister, Start, NoRequest, LiveServer,
     Live
<1>4. WorkerHasItsRecord'
  BY DEF IInv, WorkerHasItsRecord, BeginRegister
<1>5. GoneWasThere'
  BY DEF IInv, GoneWasThere, BeginRegister
<1>. QED
  BY <1>1, <1>2, <1>3, <1>4, <1>5 DEF IInv

LEMMA CommitRegisterKeeps ==
  ASSUME IInv, NEW h \in Handler, NEW w \in Worker, NEW a \in Address,
         CommitRegister(h, w, a)
  PROVE  IInv'
<1>1. TypeOK'
  BY CommitRegisterStep, ServerIsSynced, Finished DEF IInv, TypeOK
<1>2. CreationIsFresh'
  <2>1. txn[h].server # None => server[txn[h].server].status # "absent"
    BY CommitRegisterStep DEF IInv, RequestHasItsRows
  <2>. QED
    BY <2>1, CommitRegisterStep, ServerIsSynced, Finished, ServersAssumption DEF IInv,
       CreationIsFresh, NoRequest
<1>3. RequestHasItsRows'
  <2>1. \A x \in Server : server[x].status # "absent" => server'[x].status # "absent"
    BY CommitRegisterStep, ServerIsSynced DEF IInv
  <2>3. \A u \in Token : token[u].status # "absent" => token'[u].status # "absent"
    BY CommitRegisterStep
  <2>4. \A v \in Worker : worker[v].status # "absent" => worker'[v] = worker[v]
    BY CommitRegisterStep
  <2>5. \A g \in Handler : txn'[g].op # "none" => txn'[g] = txn[g]
    BY CommitRegisterStep, Finished DEF IInv, NoRequest
  <2>2. \A g \in Handler : txn[g] \in Request
    BY DEF IInv, TypeOK
  <2>. QED
    BY <2>1, <2>2, <2>3, <2>4, <2>5 DEF IInv, Request, RequestHasItsRows
<1>4. WorkerHasItsRecord'
  BY CommitRegisterStep, ServerIsSynced, Finished, ServersAssumption DEF IInv,
     WorkerRow, RequestHasItsRows, WorkerHasItsRecord
<1>5. GoneWasThere'
  BY CommitRegisterStep, ServerIsSynced, Finished DEF IInv, GoneWasThere
<1>. QED
  BY <1>1, <1>2, <1>3, <1>4, <1>5 DEF IInv

LEMMA RefuseExpiredKeeps ==
  ASSUME IInv, NEW t \in Token, RefuseExpired(t)
  PROVE  IInv'
<1>1. TypeOK'
  BY TokenEnds DEF IInv, TypeOK
<1>2. CreationIsFresh'
  BY TokenEnds DEF IInv, TypeOK, CreationIsFresh
<1>3. RequestHasItsRows'
  BY TokenEnds DEF IInv, TypeOK, RequestHasItsRows
<1>4. WorkerHasItsRecord'
  BY TokenEnds DEF IInv, RequestHasItsRows, WorkerHasItsRecord
<1>5. GoneWasThere'
  BY TokenEnds DEF IInv, GoneWasThere
<1>. QED
  BY <1>1, <1>2, <1>3, <1>4, <1>5 DEF IInv

LEMMA BeginHeartbeatKeeps ==
  ASSUME IInv, NEW h \in Handler, NEW w \in Worker, NEW s \in Server \cup {None},
         BeginHeartbeat(h, w, s)
  PROVE  IInv'
<1>1. TypeOK'
  BY BeginHeartbeatStep DEF IInv, TypeOK
<1>2. CreationIsFresh'
  BY BeginHeartbeatStep DEF IInv, CreationIsFresh, Live
<1>3. RequestHasItsRows'
  BY BeginHeartbeatStep DEF IInv, RequestHasItsRows, WorkerHasItsRecord, Live
<1>4. WorkerHasItsRecord'
  BY BeginHeartbeatStep DEF IInv, WorkerHasItsRecord
<1>5. GoneWasThere'
  BY BeginHeartbeatStep DEF IInv, GoneWasThere
<1>. QED
  BY <1>1, <1>2, <1>3, <1>4, <1>5 DEF IInv

LEMMA CommitHeartbeatKeeps ==
  ASSUME IInv, NEW h \in Handler, CommitHeartbeat(h)
  PROVE  IInv'
<1>1. TypeOK'
  BY CommitHeartbeatStep, ServerIsSynced, Finished DEF IInv, TypeOK
<1>2. CreationIsFresh'
  <2>1. txn[h].server # None => server[txn[h].server].status # "absent"
    BY CommitHeartbeatStep DEF IInv, RequestHasItsRows
  <2>. QED
    BY <2>1, CommitHeartbeatStep, ServerIsSynced, Finished, ServersAssumption DEF IInv,
       CreationIsFresh, NoRequest
<1>3. RequestHasItsRows'
  BY CommitHeartbeatStep, ServerIsSynced, Finished, ServersAssumption DEF IInv, Request,
     RequestHasItsRows, NoRequest
<1>4. WorkerHasItsRecord'
  BY CommitHeartbeatStep, ServerIsSynced, Finished, ServersAssumption DEF IInv,
     WorkerRow, RequestHasItsRows, WorkerHasItsRecord
<1>5. GoneWasThere'
  BY CommitHeartbeatStep, ServerIsSynced, Finished DEF IInv, GoneWasThere
<1>. QED
  BY <1>1, <1>2, <1>3, <1>4, <1>5 DEF IInv

LEMMA CleanupEndsKeeps ==
  ASSUME IInv, NEW w \in Worker, CleanupEnds(w)
  PROVE  IInv'
<1>1. TypeOK'
  BY CleanupEndsStep, ServerIsMarked DEF IInv, TypeOK
<1>2. CreationIsFresh'
  BY CleanupEndsStep, ServerIsMarked DEF IInv, CreationIsFresh, Live
<1>3. RequestHasItsRows'
  BY CleanupEndsStep, ServerIsMarked DEF IInv, TypeOK, Request, RequestHasItsRows
<1>4. WorkerHasItsRecord'
  BY CleanupEndsStep, ServerIsMarked DEF IInv, WorkerRow, WorkerHasItsRecord
<1>5. GoneWasThere'
  BY CleanupEndsStep, ServerIsMarked DEF IInv, GoneWasThere
<1>. QED
  BY <1>1, <1>2, <1>3, <1>4, <1>5 DEF IInv

LEMMA TokenLapsesKeeps ==
  ASSUME IInv, NEW t \in Token, TokenLapses(t)
  PROVE  IInv'
<1>1. TypeOK'
  BY TokenEnds DEF IInv, TypeOK
<1>2. CreationIsFresh'
  BY TokenEnds DEF IInv, TypeOK, CreationIsFresh
<1>3. RequestHasItsRows'
  BY TokenEnds DEF IInv, TypeOK, RequestHasItsRows
<1>4. WorkerHasItsRecord'
  BY TokenEnds DEF IInv, RequestHasItsRows, WorkerHasItsRecord
<1>5. GoneWasThere'
  BY TokenEnds DEF IInv, GoneWasThere
<1>. QED
  BY <1>1, <1>2, <1>3, <1>4, <1>5 DEF IInv

LEMMA GoesSilentKeeps ==
  ASSUME IInv, NEW w \in Worker, GoesSilent(w)
  PROVE  IInv'
<1>1. TypeOK'
  BY GoesSilentStep DEF IInv, TypeOK
<1>2. CreationIsFresh'
  BY GoesSilentStep DEF IInv, TypeOK, CreationIsFresh
<1>3. RequestHasItsRows'
  BY GoesSilentStep DEF IInv, TypeOK, RequestHasItsRows
<1>4. WorkerHasItsRecord'
  BY GoesSilentStep DEF IInv, RequestHasItsRows, WorkerHasItsRecord
<1>5. GoneWasThere'
  BY GoesSilentStep DEF IInv, GoneWasThere
<1>. QED
  BY <1>1, <1>2, <1>3, <1>4, <1>5 DEF IInv

-----------------------------------------------------------------------------
\* Each operation keeps SerialInv, under OneRequestAtATime.

LEMMA BeginCreateKeepsSerial ==
  ASSUME IInv, OneRequestAtATime, SerialInv, NEW h \in Handler, NEW s \in Server,
         NEW op \in {"create", "bootstrap"}, BeginCreate(h, s, op)
  PROVE  SerialInv'
<1>1. TokenIsSpent'
  BY DEF BeginCreate, SerialInv, TokenIsSpent
<1>2. RegistrationIsFirst'
  BY DEF IInv, TypeOK, BeginCreate, Start, NoRequest, SerialInv, RegistrationIsFirst
<1>3. BindingIsFirst'
  BY DEF IInv, TypeOK, BeginCreate, Start, NoRequest, SerialInv, BindingIsFirst
<1>4. AddressIsFree'
  BY DEF IInv, TypeOK, BeginCreate, Start, NoRequest, SameAddress, SerialInv,
     AddressIsFree, Claims, Server, Live, RoleOf
<1>5. OneTokenOneWorker'
  BY DEF BeginCreate, SerialInv, NothingIsShared, OneTokenOneWorker
<1>6. OneRecordPerAddress'
  BY DEF BeginCreate, SerialInv, NothingIsShared, OneRecordPerAddress, Live
<1>. QED
  BY <1>1, <1>2, <1>3, <1>4, <1>5, <1>6 DEF SerialInv, NothingIsShared

LEMMA CommitCreateKeepsSerial ==
  ASSUME IInv, OneRequestAtATime, SerialInv, NEW h \in Handler, NEW t \in Token,
         CommitCreate(h, t)
  PROVE  SerialInv'
<1>1. TokenIsSpent'
  BY CommitCreateStep, Finished DEF IInv, TypeOK, WorkerRow, SerialInv, TokenIsSpent
<1>2. RegistrationIsFirst'
  BY CommitCreateStep, Finished DEF IInv, SerialInv, RegistrationIsFirst, NoRequest
<1>3. BindingIsFirst'
  BY CommitCreateStep, Finished DEF IInv, SerialInv, BindingIsFirst, NoRequest
<1>4. AddressIsFree'
  BY CommitCreateStep, Finished DEF IInv, SerialInv, OneRequestAtATime, AddressIsFree,
     Claims, NoRequest
<1>5. OneTokenOneWorker'
  BY CommitCreateStep, Finished DEF IInv, SerialInv, NothingIsShared, OneTokenOneWorker
<1>6. OneRecordPerAddress'
  BY CommitCreateStep, Finished DEF IInv, SerialInv, AddressIsFree, Claims,
     NothingIsShared, OneRecordPerAddress, Server, Live
<1>. QED
  BY <1>1, <1>2, <1>3, <1>4, <1>5, <1>6 DEF SerialInv, NothingIsShared

LEMMA CreateTokenKeepsSerial ==
  ASSUME IInv, OneRequestAtATime, SerialInv, NEW t \in Token, NEW role \in Role,
         NEW s \in Server \cup {None}, CreateToken(t, role, s)
  PROVE  SerialInv'
<1>1. TokenIsSpent'
  BY DEF IInv, TypeOK, CreateToken, NewToken, SerialInv, TokenIsSpent
<1>2. RegistrationIsFirst'
  BY DEF CreateToken, SerialInv, RegistrationIsFirst
<1>3. BindingIsFirst'
  BY DEF CreateToken, SerialInv, BindingIsFirst
<1>4. AddressIsFree'
  BY DEF CreateToken, SerialInv, AddressIsFree, Claims, Live
<1>5. OneTokenOneWorker'
  BY DEF CreateToken, SerialInv, NothingIsShared, OneTokenOneWorker
<1>6. OneRecordPerAddress'
  BY DEF CreateToken, SerialInv, NothingIsShared, OneRecordPerAddress, Live
<1>. QED
  BY <1>1, <1>2, <1>3, <1>4, <1>5, <1>6 DEF SerialInv, NothingIsShared

LEMMA RegenerateKeepsSerial ==
  ASSUME IInv, OneRequestAtATime, SerialInv, NEW s \in Server, NEW t \in Token,
         Regenerate(s, t)
  PROVE  SerialInv'
<1>1. TokenIsSpent'
  BY DEF IInv, TypeOK, TokenRow, Regenerate, WorkerRow, SerialInv, TokenIsSpent
<1>2. RegistrationIsFirst'
  BY DEF Regenerate, SerialInv, RegistrationIsFirst
<1>3. BindingIsFirst'
  BY DEF Regenerate, SerialInv, BindingIsFirst
<1>4. AddressIsFree'
  BY DEF Regenerate, SerialInv, AddressIsFree, Claims, Live
<1>5. OneTokenOneWorker'
  BY DEF Regenerate, SerialInv, NothingIsShared, OneTokenOneWorker
<1>6. OneRecordPerAddress'
  BY DEF Regenerate, SerialInv, NothingIsShared, OneRecordPerAddress, Live
<1>. QED
  BY <1>1, <1>2, <1>3, <1>4, <1>5, <1>6 DEF SerialInv, NothingIsShared

LEMMA OperatorSetsStatusKeepsSerial ==
  ASSUME IInv, OneRequestAtATime, SerialInv, NEW s \in Server,
         NEW status \in ServerStatus, OperatorSetsStatus(s, status)
  PROVE  SerialInv'
<1>1. TokenIsSpent'
  BY DEF OperatorSetsStatus, SerialInv, TokenIsSpent
<1>2. RegistrationIsFirst'
  BY DEF OperatorSetsStatus, SerialInv, RegistrationIsFirst
<1>3. BindingIsFirst'
  BY DEF OperatorSetsStatus, SerialInv, BindingIsFirst
<1>4. AddressIsFree'
  BY DEF IInv, TypeOK, OperatorSetsStatus, SetStatus, Live, SerialInv, AddressIsFree,
     Claims
<1>5. OneTokenOneWorker'
  BY DEF OperatorSetsStatus, SerialInv, NothingIsShared, OneTokenOneWorker
<1>6. OneRecordPerAddress'
  BY DEF IInv, TypeOK, OperatorSetsStatus, SetStatus, Live, SerialInv, NothingIsShared,
     OneRecordPerAddress
<1>. QED
  BY <1>1, <1>2, <1>3, <1>4, <1>5, <1>6 DEF SerialInv, NothingIsShared

LEMMA DeleteServerKeepsSerial ==
  ASSUME IInv, OneRequestAtATime, SerialInv, NEW s \in Server, DeleteServer(s)
  PROVE  SerialInv'
<1>1. TokenIsSpent'
  BY DEF DeleteServer, SerialInv, TokenIsSpent
<1>2. RegistrationIsFirst'
  BY DEF DeleteServer, SerialInv, RegistrationIsFirst
<1>3. BindingIsFirst'
  BY DEF DeleteServer, SerialInv, BindingIsFirst
<1>4. AddressIsFree'
  BY DEF IInv, TypeOK, DeleteServer, MarkServerDeleted, Live, SerialInv, AddressIsFree,
     Claims
<1>5. OneTokenOneWorker'
  BY DEF DeleteServer, SerialInv, NothingIsShared, OneTokenOneWorker
<1>6. OneRecordPerAddress'
  BY DEF IInv, TypeOK, DeleteServer, MarkServerDeleted, Live, SerialInv,
     NothingIsShared, OneRecordPerAddress
<1>. QED
  BY <1>1, <1>2, <1>3, <1>4, <1>5, <1>6 DEF SerialInv, NothingIsShared

LEMMA RemoveOfflineKeepsSerial ==
  ASSUME IInv, OneRequestAtATime, SerialInv, NEW s \in Server, RemoveOffline(s)
  PROVE  SerialInv'
<1>1. TokenIsSpent'
  BY RemoveOfflineStep, ServerIsMarked DEF IInv, WorkerRow, SerialInv, TokenIsSpent
<1>2. RegistrationIsFirst'
  BY RemoveOfflineStep, ServerIsMarked DEF IInv, SerialInv, RegistrationIsFirst
<1>3. BindingIsFirst'
  BY RemoveOfflineStep, ServerIsMarked DEF IInv, SerialInv, BindingIsFirst,
     RequestHasItsRows
<1>4. AddressIsFree'
  BY RemoveOfflineStep, ServerIsMarked DEF IInv, SerialInv, AddressIsFree, Claims,
     Server, Live
<1>5. OneTokenOneWorker'
  BY RemoveOfflineStep, ServerIsMarked DEF IInv, SerialInv, NothingIsShared,
     OneTokenOneWorker
<1>6. OneRecordPerAddress'
  BY RemoveOfflineStep, ServerIsMarked DEF IInv, SerialInv, NothingIsShared,
     OneRecordPerAddress, Server, Live
<1>. QED
  BY <1>1, <1>2, <1>3, <1>4, <1>5, <1>6 DEF SerialInv, NothingIsShared

LEMMA QueueCleanupKeepsSerial ==
  ASSUME IInv, OneRequestAtATime, SerialInv, NEW w \in Worker, QueueCleanup(w)
  PROVE  SerialInv'
<1>1. TokenIsSpent'
  BY QueueCleanupStep DEF IInv, SerialInv, TokenIsSpent
<1>2. RegistrationIsFirst'
  BY QueueCleanupStep DEF IInv, SerialInv, RegistrationIsFirst
<1>3. BindingIsFirst'
  BY QueueCleanupStep DEF IInv, SerialInv, BindingIsFirst, RequestHasItsRows
<1>4. AddressIsFree'
  BY QueueCleanupStep DEF IInv, SerialInv, AddressIsFree, Claims, Live
<1>5. OneTokenOneWorker'
  BY QueueCleanupStep DEF IInv, SerialInv, NothingIsShared, OneTokenOneWorker
<1>6. OneRecordPerAddress'
  BY QueueCleanupStep DEF IInv, SerialInv, NothingIsShared, OneRecordPerAddress, Live
<1>. QED
  BY <1>1, <1>2, <1>3, <1>4, <1>5, <1>6 DEF SerialInv, NothingIsShared

LEMMA BeginRegisterKeepsSerial ==
  ASSUME IInv, OneRequestAtATime, SerialInv, NEW h \in Handler, NEW t \in Token,
         BeginRegister(h, t)
  PROVE  SerialInv'
<1>1. TokenIsSpent'
  BY DEF BeginRegister, SerialInv, TokenIsSpent
<1>2. RegistrationIsFirst'
  BY ServersAssumption DEF IInv, TypeOK, BeginRegister, Start, NoRequest, SerialInv,
     TokenIsSpent, RegistrationIsFirst
<1>3. BindingIsFirst'
  BY DEF IInv, TypeOK, BeginRegister, Start, NoRequest, SerialInv, BindingIsFirst
<1>4. AddressIsFree'
  BY ServersAssumption DEF IInv, TypeOK, BeginRegister, Start, NoRequest, LiveServer,
     Live, SerialInv, AddressIsFree, Claims, NothingIsShared, OneRecordPerAddress,
     Server
<1>5. OneTokenOneWorker'
  BY DEF BeginRegister, SerialInv, NothingIsShared, OneTokenOneWorker
<1>6. OneRecordPerAddress'
  BY DEF BeginRegister, Live, SerialInv, NothingIsShared, OneRecordPerAddress
<1>. QED
  BY <1>1, <1>2, <1>3, <1>4, <1>5, <1>6 DEF SerialInv, NothingIsShared

LEMMA CommitRegisterKeepsSerial ==
  ASSUME IInv, OneRequestAtATime, SerialInv, NEW h \in Handler, NEW w \in Worker,
         NEW a \in Address, CommitRegister(h, w, a)
  PROVE  SerialInv'
<1>1. TokenIsSpent'
  BY CommitRegisterStep, ServerIsSynced, Finished DEF IInv, WorkerRow, SerialInv,
     TokenIsSpent
<1>2. RegistrationIsFirst'
  BY CommitRegisterStep, ServerIsSynced, Finished DEF IInv, SerialInv,
     OneRequestAtATime, RegistrationIsFirst, NoRequest
<1>3. BindingIsFirst'
  BY CommitRegisterStep, ServerIsSynced, Finished DEF IInv, SerialInv, BindingIsFirst,
     RequestHasItsRows, NoRequest
<1>4. AddressIsFree'
  BY CommitRegisterStep, ServerIsSynced, Finished DEF IInv, SerialInv,
     OneRequestAtATime, AddressIsFree, Claims, NoRequest
<1>5. OneTokenOneWorker'
  BY CommitRegisterStep, ServerIsSynced, Finished DEF IInv, SerialInv,
     RegistrationIsFirst, NothingIsShared, OneTokenOneWorker
<1>6. OneRecordPerAddress'
  BY CommitRegisterStep, ServerIsSynced, Finished DEF IInv, SerialInv, AddressIsFree,
     Claims, NothingIsShared, OneRecordPerAddress, Server, Live
<1>. QED
  BY <1>1, <1>2, <1>3, <1>4, <1>5, <1>6 DEF SerialInv, NothingIsShared

LEMMA RefuseExpiredKeepsSerial ==
  ASSUME IInv, OneRequestAtATime, SerialInv, NEW t \in Token, RefuseExpired(t)
  PROVE  SerialInv'
<1>1. TokenIsSpent'
  BY TokenEnds DEF IInv, TypeOK, WorkerRow, SerialInv, TokenIsSpent
<1>2. RegistrationIsFirst'
  BY TokenEnds DEF IInv, SerialInv, RegistrationIsFirst
<1>3. BindingIsFirst'
  BY TokenEnds DEF IInv, SerialInv, BindingIsFirst
<1>4. AddressIsFree'
  BY TokenEnds DEF IInv, SerialInv, AddressIsFree, Claims, Live
<1>5. OneTokenOneWorker'
  BY TokenEnds DEF IInv, SerialInv, NothingIsShared, OneTokenOneWorker
<1>6. OneRecordPerAddress'
  BY TokenEnds DEF IInv, SerialInv, NothingIsShared, OneRecordPerAddress, Live
<1>. QED
  BY <1>1, <1>2, <1>3, <1>4, <1>5, <1>6 DEF SerialInv, NothingIsShared

LEMMA BeginHeartbeatKeepsSerial ==
  ASSUME IInv, OneRequestAtATime, SerialInv, NEW h \in Handler, NEW w \in Worker,
         NEW s \in Server \cup {None}, BeginHeartbeat(h, w, s)
  PROVE  SerialInv'
<1>1. TokenIsSpent'
  BY BeginHeartbeatStep DEF IInv, SerialInv, TokenIsSpent
<1>2. RegistrationIsFirst'
  BY BeginHeartbeatStep DEF IInv, SerialInv, RegistrationIsFirst
<1>3. BindingIsFirst'
  BY BeginHeartbeatStep DEF IInv, SerialInv, BindingIsFirst
<1>4. AddressIsFree'
  BY BeginHeartbeatStep DEF IInv, SerialInv, AddressIsFree, Claims, NothingIsShared,
     OneRecordPerAddress, Server, Live
<1>5. OneTokenOneWorker'
  BY BeginHeartbeatStep DEF IInv, SerialInv, NothingIsShared, OneTokenOneWorker
<1>6. OneRecordPerAddress'
  BY BeginHeartbeatStep DEF IInv, SerialInv, NothingIsShared, OneRecordPerAddress, Live
<1>. QED
  BY <1>1, <1>2, <1>3, <1>4, <1>5, <1>6 DEF SerialInv, NothingIsShared

LEMMA CommitHeartbeatKeepsSerial ==
  ASSUME IInv, OneRequestAtATime, SerialInv, NEW h \in Handler, CommitHeartbeat(h)
  PROVE  SerialInv'
<1>1. TokenIsSpent'
  BY CommitHeartbeatStep, ServerIsSynced, Finished DEF IInv, SerialInv, TokenIsSpent
<1>2. RegistrationIsFirst'
  BY CommitHeartbeatStep, ServerIsSynced, Finished DEF IInv, SerialInv,
     RegistrationIsFirst, NoRequest
<1>3. BindingIsFirst'
  BY CommitHeartbeatStep, ServerIsSynced, Finished DEF IInv, SerialInv,
     OneRequestAtATime, BindingIsFirst, NoRequest
<1>4. AddressIsFree'
  BY CommitHeartbeatStep, ServerIsSynced, Finished DEF IInv, SerialInv,
     OneRequestAtATime, AddressIsFree, Claims, NoRequest
<1>5. OneTokenOneWorker'
  BY CommitHeartbeatStep, ServerIsSynced, Finished DEF IInv, SerialInv, NothingIsShared,
     OneTokenOneWorker
<1>6. OneRecordPerAddress'
  BY CommitHeartbeatStep, ServerIsSynced, Finished DEF IInv, SerialInv, AddressIsFree,
     Claims, NothingIsShared, OneRecordPerAddress, Server, Live
<1>. QED
  BY <1>1, <1>2, <1>3, <1>4, <1>5, <1>6 DEF SerialInv, NothingIsShared

LEMMA CleanupEndsKeepsSerial ==
  ASSUME IInv, OneRequestAtATime, SerialInv, NEW w \in Worker, CleanupEnds(w)
  PROVE  SerialInv'
<1>1. TokenIsSpent'
  BY CleanupEndsStep, ServerIsMarked DEF IInv, WorkerRow, SerialInv, TokenIsSpent
<1>2. RegistrationIsFirst'
  BY CleanupEndsStep, ServerIsMarked DEF IInv, SerialInv, RegistrationIsFirst
<1>3. BindingIsFirst'
  BY CleanupEndsStep, ServerIsMarked DEF IInv, SerialInv, BindingIsFirst,
     RequestHasItsRows
<1>4. AddressIsFree'
  BY CleanupEndsStep, ServerIsMarked DEF IInv, SerialInv, AddressIsFree, Claims, Server,
     Live
<1>5. OneTokenOneWorker'
  BY CleanupEndsStep, ServerIsMarked DEF IInv, SerialInv, NothingIsShared,
     OneTokenOneWorker
<1>6. OneRecordPerAddress'
  BY CleanupEndsStep, ServerIsMarked DEF IInv, SerialInv, NothingIsShared,
     OneRecordPerAddress, Server, Live
<1>. QED
  BY <1>1, <1>2, <1>3, <1>4, <1>5, <1>6 DEF SerialInv, NothingIsShared

LEMMA TokenLapsesKeepsSerial ==
  ASSUME IInv, OneRequestAtATime, SerialInv, NEW t \in Token, TokenLapses(t)
  PROVE  SerialInv'
<1>1. TokenIsSpent'
  BY TokenEnds DEF IInv, TypeOK, WorkerRow, SerialInv, TokenIsSpent
<1>2. RegistrationIsFirst'
  BY TokenEnds DEF IInv, SerialInv, RegistrationIsFirst
<1>3. BindingIsFirst'
  BY TokenEnds DEF IInv, SerialInv, BindingIsFirst
<1>4. AddressIsFree'
  BY TokenEnds DEF IInv, SerialInv, AddressIsFree, Claims, Live
<1>5. OneTokenOneWorker'
  BY TokenEnds DEF IInv, SerialInv, NothingIsShared, OneTokenOneWorker
<1>6. OneRecordPerAddress'
  BY TokenEnds DEF IInv, SerialInv, NothingIsShared, OneRecordPerAddress, Live
<1>. QED
  BY <1>1, <1>2, <1>3, <1>4, <1>5, <1>6 DEF SerialInv, NothingIsShared

LEMMA GoesSilentKeepsSerial ==
  ASSUME IInv, OneRequestAtATime, SerialInv, NEW w \in Worker, GoesSilent(w)
  PROVE  SerialInv'
<1>1. TokenIsSpent'
  BY GoesSilentStep DEF IInv, SerialInv, TokenIsSpent
<1>2. RegistrationIsFirst'
  BY GoesSilentStep DEF IInv, SerialInv, RegistrationIsFirst
<1>3. BindingIsFirst'
  BY GoesSilentStep DEF IInv, SerialInv, BindingIsFirst, RequestHasItsRows
<1>4. AddressIsFree'
  BY GoesSilentStep DEF IInv, SerialInv, AddressIsFree, Claims, Live
<1>5. OneTokenOneWorker'
  BY GoesSilentStep DEF IInv, SerialInv, NothingIsShared, OneTokenOneWorker
<1>6. OneRecordPerAddress'
  BY GoesSilentStep DEF IInv, SerialInv, NothingIsShared, OneRecordPerAddress, Live
<1>. QED
  BY <1>1, <1>2, <1>3, <1>4, <1>5, <1>6 DEF SerialInv, NothingIsShared

-----------------------------------------------------------------------------
LEMMA Initially == Init => IInv
<1>. SUFFICES ASSUME Init PROVE IInv
  OBVIOUS
<1>1. server \in [Server -> ServerRow] /\ token \in [Token -> TokenRow]
  BY DEF Init, ServerRow, ServerStatus, TokenRow, Role
<1>2. (CHOOSE a \in Address : TRUE) \in Address
  BY ServersAssumption
<1>3. worker \in [Worker -> WorkerRow]
  BY <1>2 DEF Init, WorkerRow, Role
<1>4. txn \in [Handler -> Request]
  BY DEF Init, NoRequest, Request, ServerStatus
<1>5. CreationIsFresh /\ RequestHasItsRows
  BY DEF Init, NoRequest, CreationIsFresh, RequestHasItsRows
<1>6. WorkerHasItsRecord /\ GoneWasThere
  BY DEF Init, WorkerHasItsRecord, GoneWasThere
<1>. QED
  BY <1>1, <1>3, <1>4, <1>5, <1>6 DEF IInv, TypeOK

LEMMA Cases ==
  ASSUME Next
  PROVE  \/ \E h \in Handler, s \in Server, op \in {"create", "bootstrap"} : BeginCreate(h, s, op)
         \/ \E h \in Handler, t \in Token : CommitCreate(h, t)
         \/ \E t \in Token, role \in Role, s \in Server \cup {None} : CreateToken(t, role, s)
         \/ \E s \in Server, t \in Token : Regenerate(s, t)
         \/ \E s \in Server, status \in ServerStatus : OperatorSetsStatus(s, status)
         \/ \E s \in Server : DeleteServer(s)
         \/ \E s \in Server : RemoveOffline(s)
         \/ \E w \in Worker : QueueCleanup(w)
         \/ \E h \in Handler, t \in Token : BeginRegister(h, t)
         \/ \E h \in Handler, w \in Worker, a \in Address : CommitRegister(h, w, a)
         \/ \E t \in Token : RefuseExpired(t)
         \/ \E h \in Handler, w \in Worker, s \in Server \cup {None} : BeginHeartbeat(h, w, s)
         \/ \E h \in Handler : CommitHeartbeat(h)
         \/ \E w \in Worker : CleanupEnds(w)
         \/ \E t \in Token : TokenLapses(t)
         \/ \E w \in Worker : GoesSilent(w)
  BY DEF Next, Operator, Host, Clock

LEMMA OnlyTheseTouchWorkers ==
  ASSUME [Next]_vars
  PROVE  \/ UNCHANGED worker
         \/ \E h \in Handler, w \in Worker, a \in Address : CommitRegister(h, w, a)
         \/ \E h \in Handler : CommitHeartbeat(h)
         \/ \E w \in Worker : QueueCleanup(w)
         \/ \E w \in Worker : GoesSilent(w)
         \/ \E w \in Worker : CleanupEnds(w)
         \/ \E s \in Server : RemoveOffline(s)
  BY Cases DEF vars, BeginCreate, CommitCreate, CreateToken, Regenerate,
     OperatorSetsStatus, DeleteServer, BeginRegister, RefuseExpired, BeginHeartbeat,
     TokenLapses

LEMMA OnlyTheseTouchServers ==
  ASSUME [Next]_vars
  PROVE  \/ UNCHANGED server
         \/ \E h \in Handler, t \in Token : CommitCreate(h, t)
         \/ \E h \in Handler, w \in Worker, a \in Address : CommitRegister(h, w, a)
         \/ \E h \in Handler : CommitHeartbeat(h)
         \/ \E s \in Server, status \in ServerStatus : OperatorSetsStatus(s, status)
         \/ \E s \in Server : DeleteServer(s) \/ RemoveOffline(s)
         \/ \E w \in Worker : CleanupEnds(w)
  BY Cases DEF vars, BeginCreate, CreateToken, Regenerate, BeginRegister, RefuseExpired,
     BeginHeartbeat, TokenLapses, QueueCleanup, GoesSilent

LEMMA StepKeeps ==
  ASSUME IInv, Next
  PROVE  IInv'
<1>1. CASE \E h \in Handler, s \in Server, op \in {"create", "bootstrap"} : BeginCreate(h, s, op)
  BY <1>1, BeginCreateKeeps
<1>2. CASE \E h \in Handler, t \in Token : CommitCreate(h, t)
  BY <1>2, CommitCreateKeeps
<1>3. CASE \E t \in Token, role \in Role, s \in Server \cup {None} : CreateToken(t, role, s)
  BY <1>3, CreateTokenKeeps
<1>4. CASE \E s \in Server, t \in Token : Regenerate(s, t)
  BY <1>4, RegenerateKeeps
<1>5. CASE \E s \in Server, status \in ServerStatus : OperatorSetsStatus(s, status)
  BY <1>5, OperatorSetsStatusKeeps
<1>6. CASE \E s \in Server : DeleteServer(s)
  BY <1>6, DeleteServerKeeps
<1>7. CASE \E s \in Server : RemoveOffline(s)
  BY <1>7, RemoveOfflineKeeps
<1>8. CASE \E w \in Worker : QueueCleanup(w)
  BY <1>8, QueueCleanupKeeps
<1>9. CASE \E h \in Handler, t \in Token : BeginRegister(h, t)
  BY <1>9, BeginRegisterKeeps
<1>10. CASE \E h \in Handler, w \in Worker, a \in Address : CommitRegister(h, w, a)
  BY <1>10, CommitRegisterKeeps
<1>11. CASE \E t \in Token : RefuseExpired(t)
  BY <1>11, RefuseExpiredKeeps
<1>12. CASE \E h \in Handler, w \in Worker, s \in Server \cup {None} : BeginHeartbeat(h, w, s)
  BY <1>12, BeginHeartbeatKeeps
<1>13. CASE \E h \in Handler : CommitHeartbeat(h)
  BY <1>13, CommitHeartbeatKeeps
<1>14. CASE \E w \in Worker : CleanupEnds(w)
  BY <1>14, CleanupEndsKeeps
<1>15. CASE \E t \in Token : TokenLapses(t)
  BY <1>15, TokenLapsesKeeps
<1>16. CASE \E w \in Worker : GoesSilent(w)
  BY <1>16, GoesSilentKeeps
<1>. QED
  BY Cases, <1>1, <1>2, <1>3, <1>4, <1>5, <1>6, <1>7, <1>8, <1>9, <1>10, <1>11, <1>12,
     <1>13, <1>14, <1>15, <1>16

\* Everything the next-state relation does keeps the invariant: see IInv.
THEOREM Invariance == Spec => []IInv
<1>1. Init => IInv
  BY Initially
<1>2. IInv /\ [Next]_vars => IInv'
  <2>1. ASSUME IInv, UNCHANGED vars
        PROVE  IInv'
    BY <2>1 DEF vars, IInv, TypeOK, CreationIsFresh, RequestHasItsRows,
       WorkerHasItsRecord, GoneWasThere
  <2>. QED
    BY <2>1, StepKeeps
<1>. QED
  BY <1>1, <1>2, PTL DEF Spec

\* Type correctness: every row keeps to its columns and every request to what it
\* can have read.
THEOREM TypeCorrect == Spec => []TypeOK
<1>1. IInv => TypeOK
  BY DEF IInv
<1>. QED
  BY <1>1, Invariance, PTL

LEMMA StepKeepsSerial ==
  ASSUME OneRequestAtATime, IInv, SerialInv, Next
  PROVE  SerialInv'
<1>1. CASE \E h \in Handler, s \in Server, op \in {"create", "bootstrap"} : BeginCreate(h, s, op)
  BY <1>1, BeginCreateKeepsSerial
<1>2. CASE \E h \in Handler, t \in Token : CommitCreate(h, t)
  BY <1>2, CommitCreateKeepsSerial
<1>3. CASE \E t \in Token, role \in Role, s \in Server \cup {None} : CreateToken(t, role, s)
  BY <1>3, CreateTokenKeepsSerial
<1>4. CASE \E s \in Server, t \in Token : Regenerate(s, t)
  BY <1>4, RegenerateKeepsSerial
<1>5. CASE \E s \in Server, status \in ServerStatus : OperatorSetsStatus(s, status)
  BY <1>5, OperatorSetsStatusKeepsSerial
<1>6. CASE \E s \in Server : DeleteServer(s)
  BY <1>6, DeleteServerKeepsSerial
<1>7. CASE \E s \in Server : RemoveOffline(s)
  BY <1>7, RemoveOfflineKeepsSerial
<1>8. CASE \E w \in Worker : QueueCleanup(w)
  BY <1>8, QueueCleanupKeepsSerial
<1>9. CASE \E h \in Handler, t \in Token : BeginRegister(h, t)
  BY <1>9, BeginRegisterKeepsSerial
<1>10. CASE \E h \in Handler, w \in Worker, a \in Address : CommitRegister(h, w, a)
  BY <1>10, CommitRegisterKeepsSerial
<1>11. CASE \E t \in Token : RefuseExpired(t)
  BY <1>11, RefuseExpiredKeepsSerial
<1>12. CASE \E h \in Handler, w \in Worker, s \in Server \cup {None} : BeginHeartbeat(h, w, s)
  BY <1>12, BeginHeartbeatKeepsSerial
<1>13. CASE \E h \in Handler : CommitHeartbeat(h)
  BY <1>13, CommitHeartbeatKeepsSerial
<1>14. CASE \E w \in Worker : CleanupEnds(w)
  BY <1>14, CleanupEndsKeepsSerial
<1>15. CASE \E t \in Token : TokenLapses(t)
  BY <1>15, TokenLapsesKeepsSerial
<1>16. CASE \E w \in Worker : GoesSilent(w)
  BY <1>16, GoesSilentKeepsSerial
<1>. QED
  BY Cases, <1>1, <1>2, <1>3, <1>4, <1>5, <1>6, <1>7, <1>8, <1>9, <1>10, <1>11, <1>12,
     <1>13, <1>14, <1>15, <1>16

LEMMA SerialInvariance ==
  ASSUME OneRequestAtATime
  PROVE  Spec => []SerialInv
<1>1. Init => SerialInv
  BY DEF Init, NoRequest, SerialInv, TokenIsSpent, RegistrationIsFirst, BindingIsFirst,
     AddressIsFree, NothingIsShared, OneTokenOneWorker, OneRecordPerAddress, Live,
     Server
<1>2. ASSUME IInv, SerialInv, [Next]_vars
      PROVE  SerialInv'
  <2>1. ASSUME UNCHANGED vars
        PROVE  SerialInv'
    BY <1>2, <2>1 DEF vars, SerialInv, TokenIsSpent, RegistrationIsFirst,
       BindingIsFirst, AddressIsFree, Claims, NothingIsShared, OneTokenOneWorker,
       OneRecordPerAddress, Live
  <2>. QED
    BY <1>2, <2>1, StepKeepsSerial
<1>. QED
  BY <1>1, <1>2, Invariance, PTL DEF Spec

\* With one request at a time no token registers two workers and no two live
\* landing servers have one address.
THEOREM NothingShared ==
  ASSUME OneRequestAtATime
  PROVE  Spec => []NothingIsShared
<1>1. SerialInv => NothingIsShared
  BY DEF SerialInv
<1>. QED
  BY <1>1, SerialInvariance, PTL

\* With one request at a time a worker keeps the server it is bound to.
THEOREM BindingStays ==
  ASSUME OneRequestAtATime
  PROVE  Spec => BindingIsFinal
<1>. DEFINE P == \A w \in Worker : worker[w].server # None
                          => worker'[w].server = worker[w].server
<1>1. ASSUME IInv, SerialInv, [Next]_vars
      PROVE  P
  <2>. SUFFICES ASSUME NEW v \in Worker, worker[v].server # None
                PROVE  worker'[v].server = worker[v].server
    OBVIOUS
  <2>1. CASE UNCHANGED worker
    BY <2>1
  <2>2. CASE \E h \in Handler, w \in Worker, a \in Address : CommitRegister(h, w, a)
    BY <1>1, <2>2, CommitRegisterStep DEF IInv, WorkerHasItsRecord
  <2>3. CASE \E h \in Handler : CommitHeartbeat(h)
    BY <1>1, <2>3, CommitHeartbeatStep DEF SerialInv, BindingIsFirst
  <2>4. CASE (\E w \in Worker : QueueCleanup(w)) \/ (\E w \in Worker : GoesSilent(w))
    BY <1>1, <2>4, QueueCleanupStep, GoesSilentStep
  <2>5. CASE (\E w \in Worker : CleanupEnds(w)) \/ (\E s \in Server : RemoveOffline(s))
    BY <1>1, <2>5, CleanupEndsStep, RemoveOfflineStep
  <2>. QED
    BY <1>1, <2>1, <2>2, <2>3, <2>4, <2>5, OnlyTheseTouchWorkers
<1>. QED
  BY <1>1, Invariance, SerialInvariance, PTL DEF Spec, BindingIsFinal

\* However requests overlap: only a heartbeat that read a worker before it was
\* marked deleted takes the mark away again.
THEOREM WorkersStayDeleted == Spec => RevivedOnlyByStaleHeartbeat
<1>. DEFINE P == \A w \in Worker :
       worker[w].status = "deleted" /\ worker'[w].status # "deleted" =>
         \E h \in Handler : /\ txn[h].op = "heartbeat" /\ txn[h].worker = w
                             /\ txn[h].seen # "deleted"
<1>1. ASSUME IInv, [Next]_vars
      PROVE  P
  <2>. SUFFICES ASSUME NEW v \in Worker,
                       worker[v].status = "deleted", worker'[v].status # "deleted"
                PROVE  \E h \in Handler : /\ txn[h].op = "heartbeat" /\ txn[h].worker = v
                                           /\ txn[h].seen # "deleted"
    OBVIOUS
  <2>1. CASE UNCHANGED worker
    BY <2>1
  <2>2. CASE \E h \in Handler, w \in Worker, a \in Address : CommitRegister(h, w, a)
    BY <1>1, <2>2, CommitRegisterStep
  <2>3. CASE \E h \in Handler : CommitHeartbeat(h)
    BY <1>1, <2>3, CommitHeartbeatStep
  <2>4. CASE (\E w \in Worker : QueueCleanup(w)) \/ (\E w \in Worker : GoesSilent(w))
    BY <1>1, <2>4, QueueCleanupStep, GoesSilentStep
  <2>5. CASE (\E w \in Worker : CleanupEnds(w)) \/ (\E s \in Server : RemoveOffline(s))
    BY <1>1, <2>5, CleanupEndsStep, RemoveOfflineStep
  <2>. QED
    BY <1>1, <2>1, <2>2, <2>3, <2>4, <2>5, OnlyTheseTouchWorkers
<1>. QED
  BY <1>1, Invariance, PTL DEF Spec, RevivedOnlyByStaleHeartbeat

\* However requests overlap: a deleted server record comes back only through a
\* registration or heartbeat that read it before, and a transit one never does.
THEOREM ServersStayDeleted == Spec => ServerRevivedOnlyByStaleRequest
<1>. DEFINE P == \A s \in Server :
       server[s].gone /\ ~server'[s].gone =>
         /\ s \in Landing
         /\ \E h \in Handler : /\ txn[h].op \in {"register", "heartbeat"}
                                /\ txn[h].server = s
                                /\ txn[h].status \notin {"deleted", "worker_online"}
<1>1. ASSUME IInv, [Next]_vars
      PROVE  P
  <2>. SUFFICES ASSUME NEW x \in Server, server[x].gone, ~server'[x].gone
                PROVE  /\ x \in Landing
                       /\ \E h \in Handler : /\ txn[h].op \in {"register", "heartbeat"}
                                              /\ txn[h].server = x
                                              /\ txn[h].status \notin {"deleted", "worker_online"}
    OBVIOUS
  <2>1. CASE UNCHANGED server
    BY <2>1
  <2>2. CASE \E h \in Handler, t \in Token : CommitCreate(h, t)
    BY <1>1, <2>2, CommitCreateStep DEF IInv, GoneWasThere
  <2>3. CASE \E h \in Handler, w \in Worker, a \in Address : CommitRegister(h, w, a)
    BY <1>1, <2>3, CommitRegisterStep, ServerIsSynced DEF IInv
  <2>4. CASE \E h \in Handler : CommitHeartbeat(h)
    BY <1>1, <2>4, CommitHeartbeatStep, ServerIsSynced DEF IInv
  <2>5. CASE \E s \in Server, status \in ServerStatus : OperatorSetsStatus(s, status)
    BY <1>1, <2>5, StatusIsSet DEF IInv, OperatorSetsStatus, Live
  <2>6. CASE \E s \in Server : DeleteServer(s) \/ RemoveOffline(s)
    BY <1>1, <2>6, ServerIsMarked, RemoveOfflineStep DEF IInv, DeleteServer
  <2>7. CASE \E w \in Worker : CleanupEnds(w)
    BY <1>1, <2>7, CleanupEndsStep, ServerIsMarked DEF IInv
  <2>. QED
    BY <1>1, <2>1, <2>2, <2>3, <2>4, <2>5, <2>6, <2>7, OnlyTheseTouchServers
<1>. QED
  BY <1>1, Invariance, PTL DEF Spec, ServerRevivedOnlyByStaleRequest
=============================================================================
