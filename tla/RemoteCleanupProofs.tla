------------------------ MODULE RemoteCleanupProofs ------------------------
(***************************************************************************)
(* Proofs about RemoteCleanup, for any servers, rows, ports, targets and   *)
(* request slots and any number of commands and faults.                    *)
(***************************************************************************)
EXTENDS RemoteCleanup, TLAPS

\* A command is about rows of its own server.
CommandsAreAimed ==
  \A c \in Ids :
    /\ \A i \in commands[c].plan : ServerOf[i] = commands[c].server
    /\ commands[c].kind = Create =>
         /\ commands[c].item \in Item
         /\ commands[c].server = ServerOf[commands[c].item]
    /\ commands[c].kind = "cleanup_item" =>
         commands[c].item \in Item /\ commands[c].plan = {commands[c].item}

\* The same of a request between its reads and its commit.
RequestsAreAimed ==
  \A h \in Request :
    /\ \A i \in txn[h].plan : ServerOf[i] = txn[h].server
    /\ txn[h].op # "none" => txn[h].server \in Server
    /\ txn[h].op = "cleanup_item" =>
         txn[h].item \in Item /\ txn[h].plan = {txn[h].item}

\* A row is created by one command at most, and is there only when that
\* command has succeeded.
RowsFollowTheirCreate ==
  \A c \in Ids : commands[c].kind = Create =>
    /\ ~HasStatus(c, "succeeded") => item[commands[c].item] = "absent"
    /\ \A d \in Ids : commands[d].kind = Create /\ commands[d].item = commands[c].item
                        => d = c

\* A plan is made of rows that were recorded.
PlansAreOfRows ==
  /\ \A c \in Ids : \A i \in commands[c].plan : item[i] # "absent"
  /\ \A h \in Request : \A i \in txn[h].plan : item[i] # "absent"

\* A cleanup of the row was executed with success and its report is due or was
\* accepted.
CarriedOut(i) ==
  \E c \in Ids : /\ commands[c].kind \in Cleanup
                 /\ commands[c].status \in {"executed", "succeeded"}
                 /\ i \in commands[c].plan

\* A creation of the port was handed out, and its row, if there is one, is not
\* one that a cleanup has carried away.
Started(s, p) ==
  \E c \in Ids : /\ commands[c].kind = Create /\ commands[c].server = s
                 /\ PortOf[commands[c].item] = p
                 /\ ~HasStatus(c, "pending")
                 /\ ~CarriedOut(commands[c].item)

ServicesWereStarted == \A s \in Server : \A p \in service[s] : Started(s, p)

\* What a creation put on the host is there until its report is in, unless a
\* cleanup can have stopped it.
Served(i) == PortOf[i] \in service[ServerOf[i]] \/ CleanupTried(i)

CreationsAreServed ==
  \A c \in Ids : commands[c].kind = Create /\ HasStatus(c, "executed")
                   => Served(commands[c].item)

\* What ActiveRowsAreServed says, by Served.
RowsAreServed == \A i \in Item : item[i] = "active" => Served(i)

IInv ==
  /\ TypeOK
  /\ CommandsAreAimed
  /\ RequestsAreAimed
  /\ RowsFollowTheirCreate
  /\ PlansAreOfRows
  /\ ServicesWereStarted
  /\ CreationsAreServed
  /\ RowsAreServed

-----------------------------------------------------------------------------
(***************************************************************************)
(* What the steps of the command table do.                                 *)
(***************************************************************************)

LEMMA RowsAreTyped ==
  ASSUME TypeOK
  PROVE  /\ \A c \in Ids : commands[c] \in CommandRow
         /\ \A h \in Request : txn[h] \in RequestRow
<1>1. commands \in Seq(CommandRow) /\ Ids = 1 .. Len(commands)
  BY DEF TypeOK, Ids
<1>2. QED
  BY <1>1 DEF TypeOK

Statuses == Unfinished \cup {"succeeded", "failed"}

\* A status change changes the status of one command and nothing else.
LEMMA BecomeFacts ==
  ASSUME TypeOK, NEW c \in Ids, NEW st \in Statuses, Become(c, st)
  PROVE  /\ commands' \in Seq(CommandRow)
         /\ Ids' = Ids
         /\ commands'[c].status = st
         /\ \A d \in Ids : /\ commands'[d].kind = commands[d].kind
                           /\ commands'[d].server = commands[d].server
                           /\ commands'[d].item = commands[d].item
                           /\ commands'[d].plan = commands[d].plan
                           /\ d # c => commands'[d].status = commands[d].status
<1>1. commands \in Seq(CommandRow) /\ Ids = 1 .. Len(commands)
  BY DEF TypeOK, Ids
<1>2. commands[c] \in CommandRow
  BY <1>1
<1>3. [commands[c] EXCEPT !.status = st] \in CommandRow
  BY <1>2 DEF CommandRow, Statuses
<1>4. commands' = [commands EXCEPT ![c] = [commands[c] EXCEPT !.status = st]]
  BY DEF Become
<1>5. commands' \in Seq(CommandRow) /\ Ids' = Ids
  BY <1>1, <1>3, <1>4 DEF Ids
<1>6. \A d \in Ids : commands'[d] = IF d = c THEN [commands[c] EXCEPT !.status = st]
                                    ELSE commands[d]
  BY <1>1, <1>4 DEF Ids
<1>7. QED
  BY <1>2, <1>5, <1>6 DEF CommandRow

\* A new command leaves the others as they are.
LEMMA IssueFacts ==
  ASSUME TypeOK, NEW k \in {Create} \cup Cleanup, NEW s \in Server,
         NEW i \in Item \cup {None}, NEW plan \in SUBSET Item,
         Issue(k, s, i, plan)
  PROVE  LET new == Len(commands) + 1 IN
         /\ commands' \in Seq(CommandRow)
         /\ new \notin Ids /\ Ids' = Ids \cup {new}
         /\ \A d \in Ids : commands'[d] = commands[d]
         /\ commands'[new] = [kind |-> k, server |-> s, item |-> i,
                              plan |-> plan, status |-> "pending"]
<1> DEFINE new == [kind |-> k, server |-> s, item |-> i, plan |-> plan,
                   status |-> "pending"]
<1>1. commands \in Seq(CommandRow) /\ Ids = 1 .. Len(commands)
      /\ Len(commands) \in Nat
  BY DEF TypeOK, Ids
<1>2. new \in CommandRow
  BY DEF CommandRow, Unfinished, Due
<1>3. commands' = Append(commands, new)
  BY DEF Issue
<1> HIDE DEF new
<1>4. commands' \in Seq(CommandRow) /\ Len(commands') = Len(commands) + 1
  BY <1>1, <1>2, <1>3
<1>5. Ids' = 1 .. (Len(commands) + 1)
  BY <1>4 DEF Ids
<1>6. \A d \in Ids : commands'[d] = commands[d]
  BY <1>1, <1>3
<1>7. commands'[Len(commands) + 1] = new
  BY <1>1, <1>3
<1>8. QED
  BY <1>1, <1>4, <1>5, <1>6, <1>7 DEF new

\* A cleanup that was tried stays tried when a command moves on.
LEMMA TriedStays ==
  ASSUME IInv, NEW c \in Ids, NEW st \in Statuses \ {"pending"}, Become(c, st),
         NEW i \in Item, CleanupTried(i)
  PROVE  CleanupTried(i)'
<1>1. /\ Ids' = Ids
      /\ commands'[c].status = st
      /\ \A d \in Ids : /\ commands'[d].kind = commands[d].kind
                        /\ commands'[d].server = commands[d].server
                        /\ commands'[d].plan = commands[d].plan
                        /\ d # c => commands'[d].status = commands[d].status
  BY BecomeFacts DEF IInv
<1>2. PICK d \in Ids : /\ commands[d].kind \in Cleanup
                       /\ commands[d].server = ServerOf[i]
                       /\ ~HasStatus(d, "pending")
                       /\ commands[d].plan # {}
                       /\ i \in Node \/ PortOf[i] \in Ports(commands[d].plan)
  BY DEF CleanupTried
<1>3. commands'[d].status # "pending"
  BY <1>1, <1>2 DEF HasStatus
<1>4. QED
  BY <1>1, <1>2, <1>3 DEF CleanupTried, HasStatus, Ports

\* And when a command is issued.
LEMMA TriedStaysIssued ==
  ASSUME Ids \subseteq Ids', \A d \in Ids : commands'[d] = commands[d],
         NEW i \in Item, CleanupTried(i)
  PROVE  CleanupTried(i)'
BY DEF CleanupTried, HasStatus, Ports

-----------------------------------------------------------------------------
(***************************************************************************)
(* The invariant, for the kinds of step there are.                         *)
(***************************************************************************)

LEMMA InitIInv == Init => IInv
<1> SUFFICES ASSUME Init PROVE IInv
  OBVIOUS
<1>1. TypeOK
  <2>1. commands \in Seq(CommandRow) /\ Ids = {}
    BY DEF Init, Ids
  <2>2. txn \in [Request -> RequestRow]
    BY DEF Init, NoRequest, RequestRow
  <2>3. faults \in 0 .. MaxFaults
    BY BoundsAssumption DEF Init
  <2>4. QED
    BY <2>1, <2>2, <2>3 DEF Init, TypeOK
<1>2. Ids = {}
  BY DEF Init, Ids
<1>3. RequestsAreAimed
  BY DEF Init, RequestsAreAimed, NoRequest
<1>4. PlansAreOfRows
  BY <1>2 DEF Init, PlansAreOfRows, NoRequest
<1>5. ServicesWereStarted /\ RowsAreServed
  BY DEF Init, ServicesWereStarted, RowsAreServed
<1>6. CommandsAreAimed /\ RowsFollowTheirCreate /\ CreationsAreServed
  BY <1>2 DEF CommandsAreAimed, RowsFollowTheirCreate, CreationsAreServed
<1>7. QED
  BY <1>1, <1>3, <1>4, <1>5, <1>6 DEF IInv

\* A step that leaves rows, commands and services alone, and whose requests are
\* aimed at recorded rows.
LEMMA RequestStepKeeps ==
  ASSUME IInv, TypeOK', RequestsAreAimed', UNCHANGED <<item, commands, service>>,
         \A h \in Request : \A i \in txn'[h].plan : item[i] # "absent"
  PROVE  IInv'
<1>1. CommandsAreAimed' /\ RowsFollowTheirCreate' /\ PlansAreOfRows'
  BY DEF IInv, CommandsAreAimed, RowsFollowTheirCreate, PlansAreOfRows, Ids, HasStatus
<1>2. ServicesWereStarted'
  BY DEF IInv, ServicesWereStarted, Started, CarriedOut, Ids, HasStatus
<1>3. CreationsAreServed' /\ RowsAreServed'
  BY DEF IInv, CreationsAreServed, RowsAreServed, Served, CleanupTried, Ids, HasStatus
<1>4. QED
  BY <1>1, <1>2, <1>3 DEF IInv

\* A step that leaves the requests alone as well.
LEMMA HostStepKeeps ==
  ASSUME IInv, TypeOK', UNCHANGED <<item, commands, service, txn>>
  PROVE  IInv'
BY RequestStepKeeps DEF IInv, RequestsAreAimed, PlansAreOfRows

\* A step that does nothing but delete active rows.
LEMMA DeletionKeeps ==
  ASSUME IInv, TypeOK', UNCHANGED <<commands, service, txn>>,
         \A i \in Item : \/ item'[i] = item[i]
                         \/ item[i] = "active" /\ item'[i] \in Deleted
  PROVE  IInv'
<1> USE DEF IInv
<1>1. \A i \in Item : (item[i] # "absent" <=> item'[i] # "absent")
                      /\ (item'[i] = "active" => item[i] = "active")
  BY DEF Deleted
<1>2. CommandsAreAimed' /\ RequestsAreAimed'
  BY DEF CommandsAreAimed, RequestsAreAimed, Ids
<1>3. RowsFollowTheirCreate'
  BY <1>1 DEF RowsFollowTheirCreate, CommandsAreAimed, Ids, HasStatus
<1>4. PlansAreOfRows'
  <2>1. \A c \in Ids : commands[c].plan \subseteq Item
    BY RowsAreTyped DEF CommandRow
  <2>2. \A h \in Request : txn[h].plan \subseteq Item
    BY DEF TypeOK, RequestRow
  <2>3. QED
    BY <1>1, <2>1, <2>2 DEF PlansAreOfRows, Ids
<1>5. ServicesWereStarted'
  BY DEF ServicesWereStarted, Started, CarriedOut, Ids, HasStatus
<1>6. CreationsAreServed'
  BY DEF CreationsAreServed, Served, CleanupTried, Ids, HasStatus
<1>7. RowsAreServed'
  BY <1>1 DEF RowsAreServed, Served, CleanupTried, Ids, HasStatus
<1>8. QED
  BY <1>2, <1>3, <1>4, <1>5, <1>6, <1>7

\* A command is issued that is aimed at rows of its server: a creation of a row
\* that no command is about and that is not there, or a cleanup of recorded rows.
LEMMA IssueKeeps ==
  ASSUME IInv, TypeOK', NEW k \in {Create} \cup Cleanup, NEW s \in Server,
         NEW i \in Item \cup {None}, NEW plan \in SUBSET Item,
         Issue(k, s, i, plan), UNCHANGED <<item, service>>, RequestsAreAimed',
         \A h \in Request : txn'[h].plan \subseteq txn[h].plan,
         \A j \in plan : ServerOf[j] = s /\ item[j] # "absent",
         k = "cleanup_item" => i \in Item /\ plan = {i},
         k = Create => /\ i \in Item /\ s = ServerOf[i] /\ item[i] = "absent"
                       /\ \A c \in Ids : commands[c].item # i
  PROVE  IInv'
<1> DEFINE new == Len(commands) + 1
<1>1. /\ new \notin Ids /\ Ids' = Ids \cup {new}
      /\ \A d \in Ids : commands'[d] = commands[d]
      /\ commands'[new].kind = k /\ commands'[new].server = s
      /\ commands'[new].item = i /\ commands'[new].plan = plan
      /\ commands'[new].status = "pending"
  <2>1. /\ new \notin Ids /\ Ids' = Ids \cup {new}
        /\ \A d \in Ids : commands'[d] = commands[d]
        /\ commands'[new] = [kind |-> k, server |-> s, item |-> i,
                             plan |-> plan, status |-> "pending"]
    <3>1. TypeOK
      BY DEF IInv
    <3>2. QED
      BY <3>1, IssueFacts
  <2> HIDE DEF new
  <2>2. QED
    BY <2>1
<1> HIDE DEF new
<1>2. CommandsAreAimed'
  BY <1>1 DEF IInv, CommandsAreAimed
<1>3. RowsFollowTheirCreate'
  BY <1>1 DEF IInv, RowsFollowTheirCreate, HasStatus
<1>4. PlansAreOfRows'
  BY <1>1 DEF IInv, PlansAreOfRows
<1>5. ServicesWereStarted'
  <2>1. \A j \in Item : CarriedOut(j)' => CarriedOut(j)
    BY <1>1 DEF CarriedOut
  <2>2. ASSUME NEW t \in Server, NEW p \in service[t] PROVE Started(t, p)'
    <3>1. PICK d \in Ids : /\ commands[d].kind = Create /\ commands[d].server = t
                           /\ PortOf[commands[d].item] = p
                           /\ ~HasStatus(d, "pending")
                           /\ ~CarriedOut(commands[d].item)
      BY <2>2 DEF IInv, ServicesWereStarted, Started
    <3>2. commands[d].item \in Item
      BY <3>1 DEF IInv, CommandsAreAimed
    <3>3. QED
      BY <1>1, <2>1, <3>1, <3>2 DEF Started, HasStatus
  <2>3. QED
    BY <2>2 DEF ServicesWereStarted
<1>6. \A j \in Item : Served(j) => Served(j)'
  BY <1>1, TriedStaysIssued DEF Served
<1>7. CreationsAreServed'
  BY <1>1, <1>6 DEF IInv, CreationsAreServed, CommandsAreAimed, HasStatus
<1>8. RowsAreServed'
  BY <1>6 DEF IInv, RowsAreServed
<1>9. QED
  BY <1>2, <1>3, <1>4, <1>5, <1>7, <1>8 DEF IInv


\* A command that has not succeeded moves on while the services stay: rows are
\* deleted, or the one row of a creation whose port is served is recorded.
LEMMA SettleKeeps ==
  ASSUME IInv, TypeOK', NEW c \in Ids, ~HasStatus(c, "succeeded"),
         NEW st \in Statuses \ {"pending", "executed"}, Become(c, st),
         UNCHANGED <<service, txn>>,
         commands[c].kind \in Cleanup /\ st = "succeeded" => HasStatus(c, "executed"),
         \A i \in Item :
           \/ item'[i] = item[i]
           \/ item[i] = "active" /\ item'[i] \in Deleted
           \/ /\ commands[c].kind = Create /\ commands[c].item = i
              /\ st = "succeeded" /\ item'[i] = "active" /\ Served(i)
  PROVE  IInv'
<1>1. /\ Ids' = Ids
      /\ commands'[c].status = st
      /\ \A d \in Ids : /\ commands'[d].kind = commands[d].kind
                        /\ commands'[d].server = commands[d].server
                        /\ commands'[d].item = commands[d].item
                        /\ commands'[d].plan = commands[d].plan
                        /\ d # c => commands'[d].status = commands[d].status
  BY BecomeFacts DEF IInv
<1>2. \A i \in Item : item[i] # "absent" => item'[i] # "absent"
  BY DEF Deleted
<1>3. CommandsAreAimed' /\ RequestsAreAimed'
  BY <1>1 DEF IInv, CommandsAreAimed, RequestsAreAimed
<1>4. RowsFollowTheirCreate'
  <2> SUFFICES ASSUME NEW d \in Ids, commands[d].kind = Create
               PROVE  /\ commands'[d].status # "succeeded"
                           => item'[commands[d].item] = "absent"
                      /\ \A e \in Ids :
                           commands[e].kind = Create /\ commands[e].item = commands[d].item
                             => e = d
    BY <1>1 DEF RowsFollowTheirCreate, HasStatus
  <2>1. commands[d].item \in Item
    BY DEF IInv, CommandsAreAimed
  <2>2. commands[d].status # "succeeded" => item[commands[d].item] = "absent"
    BY DEF IInv, RowsFollowTheirCreate, HasStatus
  <2>3. \A e \in Ids : commands[e].kind = Create /\ commands[e].item = commands[d].item
                         => e = d
    BY DEF IInv, RowsFollowTheirCreate
  <2>4. commands'[d].status # "succeeded" => item'[commands[d].item] = "absent"
    <3> SUFFICES ASSUME commands'[d].status # "succeeded"
                 PROVE  item'[commands[d].item] = "absent"
      OBVIOUS
    <3>1. commands[d].status # "succeeded"
      BY <1>1 DEF HasStatus
    <3>2. item[commands[d].item] = "absent"
      BY <2>2, <3>1
    <3>3. CASE item'[commands[d].item] = item[commands[d].item]
      BY <3>2, <3>3
    <3>4. CASE /\ commands[c].kind = Create /\ commands[c].item = commands[d].item
               /\ st = "succeeded"
      BY <1>1, <2>3, <3>4
    <3>5. QED
      BY <2>1, <3>2, <3>3, <3>4
  <2>5. QED
    BY <2>3, <2>4
<1>5. PlansAreOfRows'
  <2>1. \A d \in Ids : commands[d].plan \subseteq Item
    BY RowsAreTyped DEF IInv, CommandRow
  <2>2. \A h \in Request : txn[h].plan \subseteq Item
    BY RowsAreTyped DEF IInv, RequestRow
  <2>3. QED
    BY <1>1, <1>2, <2>1, <2>2 DEF IInv, PlansAreOfRows
<1>6. ServicesWereStarted'
  <2>1. ASSUME NEW i, CarriedOut(i)' PROVE CarriedOut(i)
    <3>1. PICK d \in Ids : /\ commands[d].kind \in Cleanup
                           /\ commands'[d].status \in {"executed", "succeeded"}
                           /\ i \in commands[d].plan
      BY <1>1, <2>1 DEF CarriedOut
    <3>2. commands[d].status \in {"executed", "succeeded"}
      BY <1>1, <3>1 DEF HasStatus
    <3>3. QED
      BY <3>1, <3>2 DEF CarriedOut
  <2>2. ASSUME NEW s \in Server, NEW p \in service[s] PROVE Started(s, p)'
    <3>1. PICK d \in Ids : /\ commands[d].kind = Create /\ commands[d].server = s
                           /\ PortOf[commands[d].item] = p
                           /\ ~HasStatus(d, "pending")
                           /\ ~CarriedOut(commands[d].item)
      BY <2>2 DEF IInv, ServicesWereStarted, Started
    <3>2. commands'[d].status # "pending"
      BY <1>1, <3>1 DEF HasStatus
    <3>3. ~CarriedOut(commands[d].item)'
      BY <2>1, <3>1, <1>1
    <3>4. QED
      BY <1>1, <3>1, <3>2, <3>3 DEF Started, HasStatus
  <2>3. QED
    BY <2>2 DEF ServicesWereStarted
<1>7. \A i \in Item : Served(i) => Served(i)'
  BY TriedStays DEF Served
<1>8. CreationsAreServed'
  BY <1>1, <1>7 DEF IInv, CreationsAreServed, CommandsAreAimed, HasStatus
<1>9. RowsAreServed'
  BY <1>7 DEF IInv, RowsAreServed, Deleted
<1>10. QED
  BY <1>3, <1>4, <1>5, <1>6, <1>8, <1>9 DEF IInv

\* A creation is executed: its port is served, by a row no cleanup knows of.
LEMMA StartKeeps ==
  ASSUME IInv, TypeOK', NEW c \in Ids, NEW s, NEW i,
         commands[c].server = s, commands[c].item = i,
         IsDue(c), commands[c].kind = Create,
         Become(c, "executed"), UNCHANGED <<item, txn>>,
         service' = [service EXCEPT ![s] = @ \cup {PortOf[i]}]
  PROVE  IInv'
<1>1. /\ Ids' = Ids
      /\ commands'[c].status = "executed"
      /\ \A d \in Ids : /\ commands'[d].kind = commands[d].kind
                        /\ commands'[d].server = commands[d].server
                        /\ commands'[d].item = commands[d].item
                        /\ commands'[d].plan = commands[d].plan
                        /\ d # c => commands'[d].status = commands[d].status
  BY BecomeFacts DEF IInv, Statuses, Unfinished
<1>2. i \in Item /\ s = ServerOf[i] /\ s \in Server /\ item[i] = "absent"
  <2>1. i \in Item /\ s = ServerOf[i]
    BY DEF IInv, CommandsAreAimed
  <2>2. ~HasStatus(c, "succeeded")
    BY DEF IsDue, Due, HasStatus
  <2>3. QED
    BY <2>1, <2>2, RowsAssumption DEF IInv, RowsFollowTheirCreate
<1>3. /\ \A t \in Server : service[t] \subseteq service'[t]
      /\ PortOf[i] \in service'[s]
      /\ \A t \in Server : \A p \in service'[t] :
           p \in service[t] \/ (t = s /\ p = PortOf[i])
  BY <1>2 DEF IInv, TypeOK
<1>4. CommandsAreAimed' /\ RequestsAreAimed' /\ PlansAreOfRows'
  BY <1>1 DEF IInv, CommandsAreAimed, RequestsAreAimed, PlansAreOfRows
<1>5. RowsFollowTheirCreate'
  BY <1>1, <1>2 DEF IInv, RowsFollowTheirCreate, HasStatus
<1>6. ServicesWereStarted'
  <2>1. ASSUME NEW j, CarriedOut(j)' PROVE CarriedOut(j)
    BY <1>1, <2>1 DEF CarriedOut, Create, Cleanup
  <2>2. ASSUME NEW t \in Server, NEW p \in service'[t] PROVE Started(t, p)'
    <3>1. CASE p \in service[t]
      <4>1. PICK d \in Ids : /\ commands[d].kind = Create /\ commands[d].server = t
                             /\ PortOf[commands[d].item] = p
                             /\ ~HasStatus(d, "pending")
                             /\ ~CarriedOut(commands[d].item)
        BY <3>1 DEF IInv, ServicesWereStarted, Started
      <4>2. commands'[d].status # "pending"
        BY <1>1, <4>1 DEF HasStatus
      <4>3. ~CarriedOut(commands[d].item)'
        BY <2>1, <4>1, <1>1
      <4>4. QED
        BY <1>1, <4>1, <4>2, <4>3 DEF Started, HasStatus
    <3>2. CASE t = s /\ p = PortOf[i]
      <4>1. ~CarriedOut(i)
        BY <1>2 DEF CarriedOut, IInv, PlansAreOfRows
      <4>2. ~CarriedOut(i)'
        BY <2>1, <4>1
      <4>3. QED
        BY <1>1, <3>2, <4>2 DEF Started, HasStatus
    <3>3. QED
      BY <1>3, <2>2, <3>1, <3>2
  <2>3. QED
    BY <2>2 DEF ServicesWereStarted
<1>7. \A j \in Item : Served(j) => Served(j)'
  <2>1. "executed" \in Statuses \ {"pending"}
    BY DEF Statuses, Unfinished
  <2>2. \A j \in Item : ServerOf[j] \in Server
    BY RowsAssumption
  <2>3. QED
    BY <1>3, <2>1, <2>2, TriedStays DEF Served
<1>8. CreationsAreServed'
  <2>1. Served(i)'
    BY <1>2, <1>3 DEF Served
  <2>2. QED
    BY <1>1, <1>7, <2>1 DEF IInv, CreationsAreServed, CommandsAreAimed, HasStatus
<1>9. RowsAreServed'
  BY <1>7 DEF IInv, RowsAreServed
<1>10. QED
  BY <1>4, <1>5, <1>6, <1>8, <1>9 DEF IInv


\* A cleanup is executed: services of its server stop that it can have stopped,
\* and none of its plan is left when it reports success.
LEMMA StopKeeps ==
  ASSUME IInv, TypeOK', NEW c \in Ids, NEW s, NEW plan,
         commands[c].server = s, commands[c].plan = plan,
         IsDue(c), commands[c].kind \in Cleanup,
         NEW st \in {"executed", "broken"}, Become(c, st), UNCHANGED <<item, txn>>,
         \A t \in Server : t # s => service'[t] = service[t],
         service'[s] \subseteq service[s],
         st = "executed" => service'[s] \cap Ports(plan) = {},
         \A i \in Item :
           ServerOf[i] = s /\ PortOf[i] \in service[s] /\ PortOf[i] \notin service'[s]
             => plan # {} /\ (i \in Node \/ PortOf[i] \in Ports(plan))
  PROVE  IInv'
<1>0. st \in Statuses \ {"pending"}
  BY DEF Statuses, Unfinished
<1>1. /\ Ids' = Ids
      /\ commands'[c].status = st
      /\ \A d \in Ids : /\ commands'[d].kind = commands[d].kind
                        /\ commands'[d].server = commands[d].server
                        /\ commands'[d].item = commands[d].item
                        /\ commands'[d].plan = commands[d].plan
                        /\ d # c => commands'[d].status = commands[d].status
  BY <1>0, BecomeFacts DEF IInv
<1>2. s \in Server /\ commands[c].status \in Due /\ plan \subseteq Item
  BY RowsAreTyped DEF IInv, CommandRow, IsDue
<1>3. \A t \in Server : service'[t] \subseteq service[t]
  OBVIOUS
<1>4. CommandsAreAimed' /\ RequestsAreAimed' /\ PlansAreOfRows'
  BY <1>1 DEF IInv, CommandsAreAimed, RequestsAreAimed, PlansAreOfRows
<1>5. RowsFollowTheirCreate'
  BY <1>1 DEF IInv, RowsFollowTheirCreate, HasStatus, Create, Cleanup
<1>6. ServicesWereStarted'
  <2>1. ASSUME NEW i, CarriedOut(i)' PROVE CarriedOut(i) \/ (st = "executed" /\ i \in plan)
    BY <1>1, <2>1 DEF CarriedOut
  <2>2. ASSUME NEW t \in Server, NEW p \in service'[t] PROVE Started(t, p)'
    <3>1. PICK d \in Ids : /\ commands[d].kind = Create /\ commands[d].server = t
                           /\ PortOf[commands[d].item] = p
                           /\ ~HasStatus(d, "pending")
                           /\ ~CarriedOut(commands[d].item)
      BY <1>3, <2>2 DEF IInv, ServicesWereStarted, Started
    <3>2. commands'[d].status # "pending"
      BY <1>0, <1>1, <3>1 DEF HasStatus
    <3>3. commands[d].item \in Item /\ t = ServerOf[commands[d].item]
      BY <3>1 DEF IInv, CommandsAreAimed
    <3>4. ~(st = "executed" /\ commands[d].item \in plan)
      <4> SUFFICES ASSUME st = "executed", commands[d].item \in plan PROVE FALSE
        OBVIOUS
      <4>1. t = s
        BY <3>3 DEF IInv, CommandsAreAimed
      <4>2. p \in Ports(plan)
        BY <3>1 DEF Ports
      <4>3. QED
        BY <1>3, <2>2, <4>1, <4>2
    <3>5. ~CarriedOut(commands[d].item)'
      BY <1>1, <2>1, <3>1, <3>4
    <3>6. QED
      BY <1>1, <3>1, <3>2, <3>5 DEF Started, HasStatus
  <2>3. QED
    BY <2>2 DEF ServicesWereStarted
<1>7. ASSUME NEW i \in Item, Served(i) PROVE Served(i)'
  <2>1. CASE CleanupTried(i)
    BY <1>0, <2>1, TriedStays DEF Served
  <2>2. CASE PortOf[i] \in service'[ServerOf[i]]
    BY <2>2 DEF Served
  <2>3. CASE PortOf[i] \in service[ServerOf[i]] /\ PortOf[i] \notin service'[ServerOf[i]]
    <3>1. ServerOf[i] = s
      BY <1>3, <2>3, RowsAssumption
    <3>2. plan # {} /\ (i \in Node \/ PortOf[i] \in Ports(plan))
      BY <1>3, <2>3, <3>1
    <3>3. CleanupTried(i)'
      BY <1>0, <1>1, <3>1, <3>2 DEF CleanupTried, HasStatus, Ports
    <3>4. QED
      BY <3>3 DEF Served
  <2>4. QED
    BY <1>7, <2>1, <2>2, <2>3 DEF Served
<1>8. CreationsAreServed'
  BY <1>1, <1>7 DEF IInv, CreationsAreServed, CommandsAreAimed, HasStatus, Create, Cleanup
<1>9. RowsAreServed'
  BY <1>7 DEF IInv, RowsAreServed
<1>10. QED
  BY <1>4, <1>5, <1>6, <1>8, <1>9 DEF IInv

-----------------------------------------------------------------------------
(***************************************************************************)
(* The actions.                                                            *)
(***************************************************************************)

LEMMA RequestCreateKeeps ==
  ASSUME IInv, NEW i \in Item, RequestCreate(i)
  PROVE  IInv'
<1>1. PICK s \in Server : s = ServerOf[i]
  BY RowsAssumption
<1>2. /\ Issue(Create, s, i, {})
      /\ UNCHANGED <<item, gone, worker, agent, service, txn, faults>>
      /\ item[i] = "absent" /\ \A c \in Ids : commands[c].item # i
  BY <1>1 DEF RequestCreate
<1>3. /\ Create \in {Create} \cup Cleanup /\ Create # "cleanup_item"
      /\ {} \in SUBSET Item /\ i \in Item \cup {None}
  BY DEF Create
<1>4. TypeOK'
  <2>1. commands' \in Seq(CommandRow)
    BY <1>2, <1>3, IssueFacts DEF IInv
  <2>2. QED
    BY <1>2, <2>1 DEF IInv, TypeOK
<1>5. RequestsAreAimed' /\ \A h \in Request : txn'[h].plan \subseteq txn[h].plan
  BY <1>2 DEF IInv, RequestsAreAimed
<1>6. QED
  BY <1>1, <1>2, <1>3, <1>4, <1>5, IssueKeeps

\* The requests that read now and commit later.
LEMMA BeginKeeps ==
  ASSUME IInv, NEW h \in Request, NEW r \in RequestRow, Start(h, r),
         UNCHANGED <<item, gone, worker, agent, service, commands, faults>>,
         r.server \in Server,
         \A i \in r.plan : ServerOf[i] = r.server /\ item[i] # "absent",
         r.op = "cleanup_item" => r.item \in Item /\ r.plan = {r.item}
  PROVE  IInv'
<1>1. /\ txn' \in [Request -> RequestRow]
      /\ \A g \in Request : txn'[g] = IF g = h THEN r ELSE txn[g]
  BY DEF IInv, TypeOK, Start
<1>2. TypeOK'
  BY <1>1 DEF IInv, TypeOK
<1>3. RequestsAreAimed'
  BY <1>1 DEF IInv, RequestsAreAimed
<1>4. \A g \in Request : \A i \in txn'[g].plan : item[i] # "absent"
  BY <1>1 DEF IInv, PlansAreOfRows
<1>5. QED
  BY <1>2, <1>3, <1>4, RequestStepKeeps

LEMMA FinishFacts ==
  ASSUME IInv, NEW h \in Request, Finish(h)
  PROVE  /\ txn' \in [Request -> RequestRow]
         /\ txn'[h] = NoRequest
         /\ \A g \in Request : g # h => txn'[g] = txn[g]
         /\ \A g \in Request : txn'[g].plan \subseteq txn[g].plan
         /\ RequestsAreAimed'
<1>1. NoRequest \in RequestRow /\ NoRequest.plan = {} /\ NoRequest.op = "none"
  BY DEF NoRequest, RequestRow
<1>2. /\ txn' \in [Request -> RequestRow]
      /\ txn'[h] = NoRequest
      /\ \A g \in Request : g # h => txn'[g] = txn[g]
  BY <1>1 DEF IInv, TypeOK, Finish
<1>3. QED
  BY <1>1, <1>2 DEF IInv, RequestsAreAimed

LEMMA BeginItemCleanupKeeps ==
  ASSUME IInv, NEW h \in Request, NEW i \in Item, BeginItemCleanup(h, i)
  PROVE  IInv'
<1> DEFINE r == [op |-> "cleanup_item", server |-> ServerOf[i], item |-> i, plan |-> {i}]
<1>1. r \in RequestRow /\ r.server \in Server
  BY RowsAssumption DEF RequestRow, Cleanup
<1>2. /\ Start(h, r) /\ item[i] = "active"
      /\ UNCHANGED <<item, gone, worker, agent, service, commands, faults>>
  BY DEF BeginItemCleanup
<1>3. r.server = ServerOf[i] /\ r.plan = {i} /\ r.item = i
  OBVIOUS
<1> HIDE DEF r
<1>4. QED
  BY <1>1, <1>2, <1>3, BeginKeeps

LEMMA BeginServerCleanupKeeps ==
  ASSUME IInv, NEW h \in Request, NEW s \in Server, BeginServerCleanup(h, s)
  PROVE  IInv'
<1> DEFINE r == [op |-> "cleanup_server", server |-> s, item |-> None, plan |-> ActiveOn(s)]
<1>1. r \in RequestRow
  BY DEF RequestRow, Cleanup, ActiveOn
<1>2. /\ Start(h, r)
      /\ UNCHANGED <<item, gone, worker, agent, service, commands, faults>>
  BY DEF BeginServerCleanup
<1>3. r.server = s /\ r.plan = ActiveOn(s) /\ r.op = "cleanup_server"
  OBVIOUS
<1> HIDE DEF r
<1>4. \A i \in r.plan : ServerOf[i] = r.server /\ item[i] # "absent"
  BY <1>3 DEF ActiveOn
<1>5. QED
  BY <1>1, <1>2, <1>3, <1>4, BeginKeeps

LEMMA BeginDeleteServerKeeps ==
  ASSUME IInv, NEW h \in Request, NEW s \in Server, BeginDeleteServer(h, s)
  PROVE  IInv'
<1> DEFINE r == [NoRequest EXCEPT !.op = "delete", !.server = s]
<1>1. r \in RequestRow /\ r.server = s /\ r.plan = {} /\ r.op = "delete"
  BY DEF NoRequest, RequestRow
<1>2. /\ Start(h, r)
      /\ UNCHANGED <<item, gone, worker, agent, service, commands, faults>>
  BY DEF BeginDeleteServer
<1> HIDE DEF r
<1>3. QED
  BY <1>1, <1>2, BeginKeeps

LEMMA CommitCleanupKeeps ==
  ASSUME IInv, NEW h \in Request, CommitCleanup(h)
  PROVE  IInv'
<1>1. PICK r \in RequestRow :
        /\ txn[h] = r /\ r.op \in Cleanup
        /\ Issue(r.op, r.server, r.item, r.plan)
        /\ worker' = IF r.op = "cleanup_server"
                     THEN [worker EXCEPT ![r.server] = "cleanup_pending"] ELSE worker
        /\ Finish(h)
        /\ UNCHANGED <<item, gone, agent, service, faults>>
  BY RowsAreTyped DEF IInv, CommitCleanup
<1>2. /\ r.server \in Server
      /\ \A j \in r.plan : ServerOf[j] = r.server /\ item[j] # "absent"
      /\ r.op = "cleanup_item" => r.item \in Item /\ r.plan = {r.item}
  BY <1>1 DEF IInv, RequestsAreAimed, PlansAreOfRows, Cleanup
<1>3. r.item \in Item \cup {None} /\ r.plan \in SUBSET Item
  BY DEF RequestRow
<1>4. TypeOK'
  <2>1. worker' \in [Server -> {"online", "offline", "cleanup_pending", "deleted"}]
    BY <1>1, <1>2 DEF IInv, TypeOK
  <2>2. commands' \in Seq(CommandRow)
    BY <1>1, <1>2, <1>3, IssueFacts DEF IInv
  <2>3. QED
    BY <1>1, <2>1, <2>2, FinishFacts DEF IInv, TypeOK
<1>5. r.op # Create
  BY <1>1 DEF Create, Cleanup
<1>6. RequestsAreAimed' /\ \A g \in Request : txn'[g].plan \subseteq txn[g].plan
  BY <1>1, FinishFacts
<1>7. QED
  BY <1>1, <1>2, <1>3, <1>4, <1>5, <1>6, IssueKeeps

LEMMA CommitDeleteServerKeeps ==
  ASSUME IInv, NEW h \in Request, CommitDeleteServer(h)
  PROVE  IInv'
<1>1. /\ gone' = [gone EXCEPT ![txn[h].server] = TRUE]
      /\ Finish(h) /\ UNCHANGED <<item, worker, agent, service, commands, faults>>
  BY DEF CommitDeleteServer
<1>2. TypeOK'
  BY <1>1, FinishFacts DEF IInv, TypeOK
<1>3. QED
  BY <1>1, <1>2, FinishFacts, RequestStepKeeps DEF IInv, PlansAreOfRows


LEMMA MarkRowsFacts ==
  ASSUME TypeOK, NEW rows \in SUBSET Item, NEW mode \in Deleted, MarkRows(rows, mode),
         \A i \in rows : item[i] = "active"
  PROVE  /\ item' \in [Item -> {"absent", "active"} \cup Deleted]
         /\ \A i \in rows : item'[i] = mode
         /\ \A i \in Item \ rows : item'[i] = item[i]
         /\ \A i \in Item : \/ item'[i] = item[i]
                            \/ item[i] = "active" /\ item'[i] \in Deleted
BY DEF MarkRows, TypeOK

LEMMA DeleteItemKeeps ==
  ASSUME IInv, NEW i \in Item, DeleteItem(i)
  PROVE  IInv'
<1>1. /\ item[i] = "active" /\ item' = [item EXCEPT ![i] = "record_deleted"]
      /\ UNCHANGED <<gone, worker, agent, service, commands, txn, faults>>
  BY DEF DeleteItem
<1>2. TypeOK'
  BY <1>1 DEF IInv, TypeOK, Deleted
<1>3. \A j \in Item : \/ item'[j] = item[j]
                      \/ item[j] = "active" /\ item'[j] \in Deleted
  BY <1>1 DEF IInv, TypeOK, Deleted
<1>4. QED
  BY <1>1, <1>2, <1>3, DeletionKeeps

LEMMA OfflineRemoveItemKeeps ==
  ASSUME IInv, NEW i \in Item, OfflineRemoveItem(i)
  PROVE  IInv'
<1>1. PICK rows \in SUBSET Item :
        /\ \A j \in rows : item[j] = "active"
        /\ MarkRows(rows, "offline_removed")
        /\ UNCHANGED <<gone, worker, agent, service, commands, txn, faults>>
  <2>1. {i} \cup RoutesTo({i}) \in SUBSET Item
    BY DEF RoutesTo, Item
  <2>2. QED
    BY <2>1 DEF OfflineRemoveItem, RoutesTo
<1>2. "offline_removed" \in Deleted
  BY DEF Deleted
<1>3. TypeOK'
  BY <1>1, <1>2, MarkRowsFacts DEF IInv, TypeOK
<1>4. QED
  BY <1>1, <1>2, <1>3, MarkRowsFacts, DeletionKeeps DEF IInv

\* The rows that go with a server are active, and are all its active rows.
LEMMA RemovedFacts ==
  ASSUME NEW s
  PROVE  /\ Removed(s) \subseteq Item
         /\ \A i \in Removed(s) : item[i] = "active"
         /\ ActiveOn(s) \subseteq Removed(s)
BY DEF Removed, ActiveOn, RoutesTo, Item

LEMMA OfflineRemoveServerKeeps ==
  ASSUME IInv, NEW s \in Server, OfflineRemoveServer(s)
  PROVE  IInv'
<1>1. /\ MarkRows(Removed(s), "offline_removed")
      /\ worker' = [worker EXCEPT ![s] = "deleted"]
      /\ gone' = [gone EXCEPT ![s] = TRUE]
      /\ UNCHANGED <<agent, service, commands, txn, faults>>
  BY DEF OfflineRemoveServer
<1>2. "offline_removed" \in Deleted
  BY DEF Deleted
<1>3. /\ item' \in [Item -> {"absent", "active"} \cup Deleted]
      /\ \A i \in Item : \/ item'[i] = item[i]
                         \/ item[i] = "active" /\ item'[i] \in Deleted
  BY <1>1, <1>2, RemovedFacts, MarkRowsFacts DEF IInv
<1>4. TypeOK'
  BY <1>1, <1>3 DEF IInv, TypeOK
<1>5. QED
  BY <1>1, <1>3, <1>4, DeletionKeeps

LEMMA WorkerRowKeeps ==
  ASSUME IInv, NEW s \in Server, Heartbeat(s) \/ GoesSilent(s) \/ Uninstall(s)
  PROVE  IInv'
<1>1. TypeOK' /\ UNCHANGED <<item, commands, service, txn>>
  <2>1. CASE Heartbeat(s)
    BY <2>1 DEF Heartbeat, IInv, TypeOK
  <2>2. CASE GoesSilent(s)
    BY <2>2 DEF GoesSilent, IInv, TypeOK
  <2>3. CASE Uninstall(s)
    BY <2>3 DEF Uninstall, IInv, TypeOK
  <2>4. QED
    BY <2>1, <2>2, <2>3
<1>2. QED
  BY <1>1, HostStepKeeps

\* A command that is neither finished with success nor carried out now keeps
\* the invariant when it moves on and nothing else changes.
LEMMA RecedeKeeps ==
  ASSUME IInv, NEW c \in Ids, NEW st \in {"leased", "lapsed", "broken", "failed"},
         ~HasStatus(c, "succeeded"), Become(c, st),
         UNCHANGED <<item, gone, worker, agent, service, txn>>,
         faults' \in 0 .. MaxFaults
  PROVE  IInv'
<1>1. st \in Statuses \ {"pending", "executed"}
  BY DEF Statuses, Unfinished, Due
<1>2. TypeOK'
  BY <1>1, BecomeFacts DEF IInv, TypeOK
<1>3. QED
  BY <1>1, <1>2, SettleKeeps

LEMMA LoseReportKeeps ==
  ASSUME IInv, NEW c \in Ids, LoseReport(c)
  PROVE  IInv'
<1>1. faults' \in 0 .. MaxFaults
  BY BoundsAssumption DEF LoseReport, IInv, TypeOK
<1>2. QED
  BY <1>1, RecedeKeeps DEF LoseReport, HasStatus

LEMMA LeaseLapsesKeeps ==
  ASSUME IInv, NEW c \in Ids, LeaseLapses(c)
  PROVE  IInv'
BY RecedeKeeps DEF LeaseLapses, HasStatus, IInv, TypeOK

LEMMA RecordFailureKeeps ==
  ASSUME IInv, NEW c \in Ids, RecordFailure(c)
  PROVE  IInv'
BY RecedeKeeps DEF RecordFailure, HasStatus, IInv, TypeOK

LEMMA ExecuteCreateKeeps ==
  ASSUME IInv, NEW c \in Ids, ExecuteCreate(c)
  PROVE  IInv'
<1>1. PICK s, i : s = commands[c].server /\ i = commands[c].item
  OBVIOUS
<1>2. /\ IsDue(c) /\ commands[c].kind = Create
      /\ UNCHANGED <<item, gone, worker, agent, txn, faults>>
      /\ \/ /\ service' = [service EXCEPT ![s] = @ \cup {PortOf[i]}]
            /\ Become(c, "executed")
         \/ UNCHANGED service /\ Become(c, "broken")
  BY <1>1 DEF ExecuteCreate
<1>3. CASE UNCHANGED service /\ Become(c, "broken")
  BY <1>2, <1>3, RecedeKeeps DEF IsDue, Due, HasStatus, IInv, TypeOK
<1>4. CASE /\ service' = [service EXCEPT ![s] = @ \cup {PortOf[i]}]
           /\ Become(c, "executed")
  <2>1. "executed" \in Statuses /\ PortOf[i] \in Port
    BY <1>1, <1>2 DEF Statuses, Unfinished, IInv, CommandsAreAimed, Port
  <2>2. service' \in [Server -> SUBSET Port]
    BY <1>4, <2>1 DEF IInv, TypeOK
  <2>3. TypeOK'
    BY <1>2, <1>4, <2>1, <2>2, BecomeFacts DEF IInv, TypeOK
  <2>4. QED
    BY <1>1, <1>2, <1>4, <2>3, StartKeeps
<1>5. QED
  BY <1>2, <1>3, <1>4

\* What a cleanup leaves, whole or broken off, are services that were there; a
\* service it stops is of its plan or, on a landing host, a node's.
LEMMA LeftFacts ==
  ASSUME IInv, NEW s \in Server, NEW plan \in SUBSET Item,
         \A i \in plan : ServerOf[i] = s,
         NEW left \in {Left(s, plan)} \cup LeftByFailure(s, plan)
  PROVE  /\ left \subseteq service[s]
         /\ left = Left(s, plan) => left \cap Ports(plan) = {}
         /\ \A i \in Item :
              ServerOf[i] = s /\ PortOf[i] \in service[s] /\ PortOf[i] \notin left
                => plan # {} /\ (i \in Node \/ PortOf[i] \in Ports(plan))
<1>1. plan = {} => Ports(plan) = {}
  BY DEF Ports
<1>2. s \in Landing => \A i \in Item : ServerOf[i] = s => i \in Node
  BY RowsAssumption DEF Item
<1>3. left \subseteq service[s]
  BY DEF Left, LeftByFailure
<1>4. Left(s, plan) \cap Ports(plan) = {}
  BY DEF Left
<1>5. ASSUME NEW i \in Item, ServerOf[i] = s, PortOf[i] \in service[s], PortOf[i] \notin left
      PROVE  plan # {} /\ (i \in Node \/ PortOf[i] \in Ports(plan))
  <2>1. CASE s \in Landing
    BY <1>1, <1>2, <1>5, <2>1 DEF Left, LeftByFailure
  <2>2. CASE s \notin Landing
    BY <1>1, <1>5, <2>2 DEF Left, LeftByFailure
  <2>3. QED
    BY <2>1, <2>2
<1>6. QED
  BY <1>3, <1>4, <1>5

LEMMA ExecuteCleanupKeeps ==
  ASSUME IInv, NEW c \in Ids, ExecuteCleanup(c)
  PROVE  IInv'
<1>1. PICK s, plan : s = commands[c].server /\ plan = commands[c].plan
  OBVIOUS
<1>2. /\ s \in Server /\ plan \in SUBSET Item
      /\ \A i \in plan : ServerOf[i] = s
  <2>1. commands[c] \in CommandRow
    BY RowsAreTyped DEF IInv
  <2>2. QED
    BY <1>1, <2>1 DEF IInv, CommandsAreAimed, CommandRow
<1>3. /\ IsDue(c) /\ commands[c].kind \in Cleanup
      /\ UNCHANGED <<item, gone, worker, txn, faults>>
      /\ \/ /\ service' = [service EXCEPT ![s] = Left(s, plan)]
            /\ agent' = IF commands[c].kind = "cleanup_server"
                        THEN [agent EXCEPT ![s] = "uninstalling"] ELSE agent
            /\ Become(c, "executed")
         \/ /\ \E left \in LeftByFailure(s, plan) : service' = [service EXCEPT ![s] = left]
            /\ Become(c, "broken")
            /\ UNCHANGED agent
  BY <1>1 DEF ExecuteCleanup
<1>4. PICK st \in {"executed", "broken"}, left \in {Left(s, plan)} \cup LeftByFailure(s, plan) :
        /\ service' = [service EXCEPT ![s] = left]
        /\ Become(c, st)
        /\ st = "executed" => left = Left(s, plan)
  BY <1>3
<1>5. /\ left \subseteq service[s]
      /\ st = "executed" => left \cap Ports(plan) = {}
      /\ \A i \in Item :
           ServerOf[i] = s /\ PortOf[i] \in service[s] /\ PortOf[i] \notin left
             => plan # {} /\ (i \in Node \/ PortOf[i] \in Ports(plan))
  BY <1>2, <1>4, LeftFacts
<1>6. TypeOK'
  <2>1. agent' \in [Server -> {"installed", "uninstalling", "removed"}]
    BY <1>3 DEF IInv, TypeOK
  <2>2. service' \in [Server -> SUBSET Port]
    BY <1>2, <1>4, <1>5 DEF IInv, TypeOK
  <2>3. commands' \in Seq(CommandRow)
    BY <1>4, BecomeFacts DEF IInv, Statuses, Unfinished
  <2>4. QED
    BY <1>3, <2>1, <2>2, <2>3 DEF IInv, TypeOK
<1>7. service'[s] = left /\ \A t \in Server : t # s => service'[t] = service[t]
  BY <1>2, <1>4 DEF IInv, TypeOK
<1>8. QED
  BY <1>1, <1>3, <1>4, <1>5, <1>6, <1>7, StopKeeps


LEMMA RecordCreateKeeps ==
  ASSUME IInv, NEW c \in Ids, RecordCreate(c)
  PROVE  IInv'
<1>1. PICK i : i = commands[c].item
  OBVIOUS
<1>2. /\ HasStatus(c, "executed") /\ commands[c].kind = Create
      /\ UNCHANGED <<gone, worker, agent, service, txn, faults>>
      /\ \/ /\ item' = item \/ item' = [item EXCEPT ![i] = "active"]
            /\ Become(c, "succeeded")
         \/ UNCHANGED item /\ Become(c, "failed")
  BY <1>1 DEF RecordCreate, Arrives
<1>3. i \in Item /\ Served(i)
  BY <1>1, <1>2 DEF IInv, CommandsAreAimed, CreationsAreServed
<1>4. CASE UNCHANGED item /\ Become(c, "failed")
  BY <1>2, <1>4, RecedeKeeps DEF IInv, TypeOK, HasStatus
<1>5. CASE /\ item' = item \/ item' = [item EXCEPT ![i] = "active"]
           /\ Become(c, "succeeded")
  <2>1. item' \in [Item -> {"absent", "active"} \cup Deleted]
    BY <1>3, <1>5 DEF IInv, TypeOK
  <2>2. \A j \in Item : item'[j] = item[j] \/ (j = i /\ item'[j] = "active")
    BY <1>3, <1>5 DEF IInv, TypeOK
  <2>3. "succeeded" \in Statuses \ {"pending", "executed"}
    BY DEF Statuses
  <2>4. TypeOK'
    BY <1>2, <1>5, <2>1, <2>3, BecomeFacts DEF IInv, TypeOK
  <2>5. ~HasStatus(c, "succeeded") /\ commands[c].kind \notin Cleanup
    BY <1>2 DEF HasStatus, Create, Cleanup
  <2>6. QED
    BY <1>1, <1>2, <1>3, <1>5, <2>2, <2>3, <2>4, <2>5, SettleKeeps
<1>6. QED
  BY <1>2, <1>4, <1>5

LEMMA RecordItemCleanupKeeps ==
  ASSUME IInv, NEW c \in Ids, RecordItemCleanup(c)
  PROVE  IInv'
<1>1. PICK i : i = commands[c].item
  OBVIOUS
<1>2. /\ HasStatus(c, "executed") /\ commands[c].kind = "cleanup_item"
      /\ UNCHANGED <<gone, worker, agent, service, txn, faults>>
      /\ \/ /\ item[i] = "active" /\ item' = [item EXCEPT ![i] = "cleaned"]
            /\ Become(c, "succeeded")
         \/ UNCHANGED item /\ Become(c, "failed")
  BY <1>1 DEF RecordItemCleanup, Arrives
<1>3. CASE UNCHANGED item /\ Become(c, "failed")
  BY <1>2, <1>3, RecedeKeeps DEF IInv, TypeOK, HasStatus
<1>4. CASE /\ item[i] = "active" /\ item' = [item EXCEPT ![i] = "cleaned"]
           /\ Become(c, "succeeded")
  <2>1. item' \in [Item -> {"absent", "active"} \cup Deleted]
    BY <1>4 DEF IInv, TypeOK, Deleted
  <2>2. \A j \in Item : \/ item'[j] = item[j]
                        \/ item[j] = "active" /\ item'[j] \in Deleted
    BY <1>4 DEF IInv, TypeOK, Deleted
  <2>3. "succeeded" \in Statuses \ {"pending", "executed"}
    BY DEF Statuses
  <2>4. TypeOK'
    BY <1>2, <1>4, <2>1, <2>3, BecomeFacts DEF IInv, TypeOK
  <2>5. ~HasStatus(c, "succeeded")
    BY <1>2 DEF HasStatus
  <2>6. QED
    BY <1>2, <1>4, <2>2, <2>3, <2>4, <2>5, SettleKeeps
<1>5. QED
  BY <1>2, <1>3, <1>4

LEMMA RecordServerCleanupKeeps ==
  ASSUME IInv, NEW c \in Ids, RecordServerCleanup(c)
  PROVE  IInv'
<1>1. PICK s : s = commands[c].server
  OBVIOUS
<1>2. /\ HasStatus(c, "executed") /\ commands[c].kind = "cleanup_server"
      /\ UNCHANGED <<agent, service, txn, faults>>
      /\ \/ /\ MarkRows(ActiveOn(s), "cleaned")
            /\ gone' = [gone EXCEPT ![s] = TRUE]
            /\ worker' = [worker EXCEPT ![s] = "deleted"]
            /\ Become(c, "succeeded")
         \/ UNCHANGED <<item, gone, worker>> /\ Become(c, "failed")
  BY <1>1 DEF RecordServerCleanup, Arrives, Cascade
<1>3. CASE UNCHANGED <<item, gone, worker>> /\ Become(c, "failed")
  BY <1>2, <1>3, RecedeKeeps DEF IInv, TypeOK, HasStatus
<1>4. CASE /\ MarkRows(ActiveOn(s), "cleaned")
           /\ gone' = [gone EXCEPT ![s] = TRUE]
           /\ worker' = [worker EXCEPT ![s] = "deleted"]
           /\ Become(c, "succeeded")
  <2>1. ActiveOn(s) \in SUBSET Item /\ \A i \in ActiveOn(s) : item[i] = "active"
    BY DEF ActiveOn
  <2>2. "cleaned" \in Deleted /\ "succeeded" \in Statuses \ {"pending", "executed"}
    BY DEF Deleted, Statuses
  <2>3. /\ item' \in [Item -> {"absent", "active"} \cup Deleted]
        /\ \A i \in Item : \/ item'[i] = item[i]
                           \/ item[i] = "active" /\ item'[i] \in Deleted
    BY <1>4, <2>1, <2>2, MarkRowsFacts DEF IInv
  <2>4. commands' \in Seq(CommandRow)
    BY <1>4, <2>2, BecomeFacts DEF IInv
  <2>5. TypeOK'
    BY <1>2, <1>4, <2>3, <2>4 DEF IInv, TypeOK
  <2>6. ~HasStatus(c, "succeeded")
    BY <1>2 DEF HasStatus
  <2>7. QED
    BY <1>2, <1>4, <2>2, <2>3, <2>5, <2>6, SettleKeeps
<1>5. QED
  BY <1>2, <1>3, <1>4

LEMMA StepIInv == IInv /\ [Next]_vars => IInv'
<1> SUFFICES ASSUME IInv, [Next]_vars PROVE IInv'
  OBVIOUS
<1>1. CASE Operator
  BY <1>1, RequestCreateKeeps, DeleteItemKeeps, OfflineRemoveItemKeeps,
     OfflineRemoveServerKeeps, BeginItemCleanupKeeps, BeginServerCleanupKeeps,
     BeginDeleteServerKeeps, CommitCleanupKeeps, CommitDeleteServerKeeps
  DEF Operator
<1>2. CASE Host
  BY <1>2, WorkerRowKeeps, ExecuteCreateKeeps, ExecuteCleanupKeeps,
     LoseReportKeeps, LeaseLapsesKeeps
  DEF Host
<1>3. CASE Result
  BY <1>3, RecordCreateKeeps, RecordItemCleanupKeeps, RecordServerCleanupKeeps,
     RecordFailureKeeps
  DEF Result
<1>4. CASE UNCHANGED vars
  <2>1. TypeOK'
    BY <1>4 DEF IInv, TypeOK, vars
  <2>2. QED
    BY <1>4, <2>1, HostStepKeeps DEF vars
<1>5. QED
  BY <1>1, <1>2, <1>3, <1>4 DEF Next

-----------------------------------------------------------------------------
(***************************************************************************)
(* The theorems.                                                           *)
(***************************************************************************)

\* The inductive invariant: every service has a creation that no carried out
\* cleanup knows of, and what a creation started is served until a cleanup comes.
THEOREM Invariance == Spec => []IInv
BY InitIInv, StepIInv, PTL DEF Spec

\* Rows, commands, workers and requests keep their types.
THEOREM TypeCorrect == Spec => []TypeOK
<1>1. IInv => TypeOK
  BY DEF IInv
<1>2. QED
  BY <1>1, Invariance, PTL

\* Whatever is created, deleted and cleaned up, in any order, with reports lost
\* or late: a service that runs belongs to an active row, to one that was given
\* up without remote action, to a creation without a row, or to a row no cleanup
\* that succeeded had planned.
THEOREM ServicesAccounted == Spec => []ServicesAreAccountedFor
<1>1. IInv => ServicesAreAccountedFor
  <2> SUFFICES ASSUME IInv, NEW s \in Server, NEW p \in service[s]
               PROVE  \/ StrayCreate(s, p)
                      \/ \E i \in Item :
                           /\ ServerOf[i] = s /\ PortOf[i] = p
                           /\ \/ item[i] \in {"active", "record_deleted", "offline_removed"}
                              \/ item[i] = "cleaned" /\ ~PlannedAway(i)
    BY DEF ServicesAreAccountedFor
  <2>1. PICK c \in Ids : /\ commands[c].kind = Create /\ commands[c].server = s
                         /\ PortOf[commands[c].item] = p
                         /\ ~HasStatus(c, "pending")
                         /\ ~CarriedOut(commands[c].item)
    BY DEF IInv, ServicesWereStarted, Started
  <2>2. commands[c].item \in Item /\ ServerOf[commands[c].item] = s
    BY <2>1 DEF IInv, CommandsAreAimed
  <2>3. CASE item[commands[c].item] = "absent"
    BY <2>1, <2>3 DEF StrayCreate, HasStatus
  <2>4. CASE item[commands[c].item] # "absent"
    <3>1. ~PlannedAway(commands[c].item)
      BY <2>1 DEF CarriedOut, PlannedAway, HasStatus
    <3>2. item[commands[c].item] \in {"active"} \cup Deleted
      BY <2>2, <2>4 DEF IInv, TypeOK
    <3>3. QED
      BY <2>1, <2>2, <3>1, <3>2 DEF Deleted
  <2>5. QED
    BY <2>3, <2>4
<1>2. QED
  BY <1>1, Invariance, PTL

\* An active row's service runs unless a cleanup that can have stopped it was
\* handed out: no failed creation, repeated execution or late report makes a row.
THEOREM RowsServed == Spec => []ActiveRowsAreServed
<1>1. IInv => ActiveRowsAreServed
  BY DEF IInv, RowsAreServed, Served, ActiveRowsAreServed
<1>2. QED
  BY <1>1, Invariance, PTL

\* Only a plain deletion that looked before a row was recorded leaves an active
\* row on a deleted server.
THEOREM OnlyDeletionStrands == Spec => OnlyDeletionStrandsRows
<1> DEFINE Strands == \A s \in Server :
       /\ ~gone[s] /\ gone'[s]
       /\ \E i \in Item : ServerOf[i] = s /\ item'[i] = "active"
       => \E h \in Request : txn[h].op = "delete" /\ txn[h].server = s
<1>1. ASSUME IInv, [Next]_vars PROVE Strands
  <2> SUFFICES ASSUME NEW s \in Server, ~gone[s], gone'[s],
                      NEW i \in Item, ServerOf[i] = s, item'[i] = "active"
               PROVE  \E h \in Request : txn[h].op = "delete" /\ txn[h].server = s
    OBVIOUS
  <2>1. gone' # gone
    OBVIOUS
  <2>2. CASE \E h \in Request : CommitDeleteServer(h)
    BY <1>1, <2>2 DEF CommitDeleteServer, IInv, TypeOK
  <2>3. CASE \E t \in Server : OfflineRemoveServer(t)
    <3>1. PICK t \in Server : OfflineRemoveServer(t)
      BY <2>3
    <3>2. t = s
      BY <1>1, <3>1 DEF OfflineRemoveServer, IInv, TypeOK
    <3>3. MarkRows(Removed(s), "offline_removed")
      BY <3>1, <3>2 DEF OfflineRemoveServer
    <3>4. i \notin Removed(s) /\ item'[i] = item[i]
      BY <3>3 DEF MarkRows
    <3>5. QED
      BY <3>4, RemovedFacts DEF ActiveOn
  <2>4. CASE \E c \in Ids : RecordServerCleanup(c)
    <3>1. PICK c \in Ids : RecordServerCleanup(c)
      BY <2>4
    <3>2. PICK t : /\ t = commands[c].server
                   /\ gone' = [gone EXCEPT ![t] = TRUE]
                   /\ MarkRows(ActiveOn(t), "cleaned")
      BY <2>1, <3>1 DEF RecordServerCleanup, Cascade
    <3>3. t = s
      BY <1>1, <3>2 DEF IInv, TypeOK
    <3>4. i \notin ActiveOn(s) /\ item'[i] = item[i]
      BY <3>2, <3>3 DEF MarkRows
    <3>5. QED
      BY <3>4 DEF ActiveOn
  <2>5. CASE \E j \in Item : RequestCreate(j) \/ DeleteItem(j) \/ OfflineRemoveItem(j)
    BY <2>1, <2>5 DEF RequestCreate, DeleteItem, OfflineRemoveItem
  <2>6. CASE \/ \E h \in Request, j \in Item : BeginItemCleanup(h, j)
             \/ \E h \in Request, t \in Server :
                  BeginServerCleanup(h, t) \/ BeginDeleteServer(h, t)
             \/ \E h \in Request : CommitCleanup(h)
    BY <2>1, <2>6 DEF BeginItemCleanup, BeginServerCleanup, BeginDeleteServer, CommitCleanup
  <2>7. CASE Host
    BY <2>1, <2>7 DEF Host, Heartbeat, GoesSilent, Uninstall, ExecuteCreate,
       ExecuteCleanup, LoseReport, LeaseLapses
  <2>8. CASE \E c \in Ids : RecordCreate(c) \/ RecordItemCleanup(c) \/ RecordFailure(c)
    BY <2>1, <2>8 DEF RecordCreate, RecordItemCleanup, RecordFailure
  <2>9. QED
    BY <1>1, <2>1, <2>2, <2>3, <2>4, <2>5, <2>6, <2>7, <2>8
    DEF Next, Operator, Result, vars
<1>2. QED
  BY <1>1, Invariance, PTL DEF Spec, OnlyDeletionStrandsRows


-----------------------------------------------------------------------------
(***************************************************************************)
(* One request at a time.                                                  *)
(***************************************************************************)

\* A server that a cleanup request is about has no cleanup under way.
RequestsAreFirst ==
  \A h \in Request : txn[h].op \in Cleanup => ~InFlight(txn[h].server, Cleanup)

OneInv ==
  /\ IInv
  /\ OneCleanupPerServer
  /\ RequestsAreFirst

\* A step that begins no command and revives none keeps the two.
LEMMA NoNewCleanup ==
  ASSUME OneInv, Ids' = Ids, UNCHANGED txn,
         \A c \in Ids : /\ commands'[c].kind = commands[c].kind
                        /\ commands'[c].server = commands[c].server
                        /\ commands'[c].status \in Unfinished
                             => commands[c].status \in Unfinished
  PROVE  OneCleanupPerServer' /\ RequestsAreFirst'
<1>1. OneCleanupPerServer'
  BY DEF OneInv, OneCleanupPerServer
<1>2. RequestsAreFirst'
  BY DEF OneInv, RequestsAreFirst, InFlight
<1>3. QED
  BY <1>1, <1>2

LEMMA UnfinishedMovesOn ==
  ASSUME OneInv, NEW c \in Ids, NEW st \in Statuses, Become(c, st), UNCHANGED txn,
         commands[c].status \in Unfinished
  PROVE  OneCleanupPerServer' /\ RequestsAreFirst'
BY BecomeFacts, NoNewCleanup DEF OneInv, IInv

LEMMA IssueAppends ==
  ASSUME TypeOK, NEW k \in {Create} \cup Cleanup, NEW s \in Server,
         NEW i \in Item \cup {None}, NEW plan \in SUBSET Item,
         Issue(k, s, i, plan)
  PROVE  \E new : /\ new \notin Ids /\ Ids' = Ids \cup {new}
                  /\ \A d \in Ids : commands'[d] = commands[d]
                  /\ commands'[new].kind = k /\ commands'[new].server = s
<1> DEFINE new == Len(commands) + 1
<1>1. /\ new \notin Ids /\ Ids' = Ids \cup {new}
      /\ \A d \in Ids : commands'[d] = commands[d]
      /\ commands'[new] = [kind |-> k, server |-> s, item |-> i,
                           plan |-> plan, status |-> "pending"]
  BY IssueFacts
<1> HIDE DEF new
<1>2. QED
  BY <1>1

\* What the requests do to each other needs that there is one of them at a time.
OneRequestAtATime == \A g, h \in Request : g = h

LEMMA StepOneInv ==
  ASSUME OneRequestAtATime
  PROVE  OneInv /\ [Next]_vars => OneInv'
<1> SUFFICES ASSUME OneInv, [Next]_vars PROVE OneInv'
  OBVIOUS
<1>0. IInv'
  BY StepIInv DEF OneInv
<1>1. CASE UNCHANGED <<commands, txn>>
  BY <1>1, NoNewCleanup, <1>0 DEF OneInv, Ids
<1>2. CASE \E i \in Item : RequestCreate(i)
  <2>1. PICK i \in Item : RequestCreate(i)
    BY <1>2
  <2>2. PICK s \in Server : s = ServerOf[i]
    BY RowsAssumption
  <2>3. Issue(Create, s, i, {}) /\ UNCHANGED txn
    BY <2>1, <2>2 DEF RequestCreate
  <2>4. Create \in {Create} \cup Cleanup /\ Create \notin Cleanup
        /\ {} \in SUBSET Item /\ i \in Item \cup {None}
    BY DEF Create, Cleanup
  <2>5. PICK new : /\ new \notin Ids /\ Ids' = Ids \cup {new}
                   /\ \A d \in Ids : commands'[d] = commands[d]
                   /\ commands'[new].kind \notin Cleanup
    BY <2>3, <2>4, IssueAppends DEF OneInv, IInv
  <2>6. OneCleanupPerServer'
    BY <2>5 DEF OneInv, OneCleanupPerServer
  <2>7. RequestsAreFirst'
    BY <2>3, <2>5 DEF OneInv, RequestsAreFirst, InFlight
  <2>8. QED
    BY <1>0, <2>6, <2>7 DEF OneInv
<1>3. CASE \E h \in Request : CommitCleanup(h)
  <2>1. PICK h \in Request, r \in RequestRow :
          /\ txn[h] = r /\ r.op \in Cleanup
          /\ Issue(r.op, r.server, r.item, r.plan)
          /\ Finish(h)
    BY <1>3, RowsAreTyped DEF CommitCleanup, OneInv, IInv
  <2>2. /\ r.server \in Server
        /\ r.item \in Item \cup {None} /\ r.plan \in SUBSET Item
        /\ r.op \in {Create} \cup Cleanup
    BY <2>1 DEF RequestRow, OneInv, IInv, RequestsAreAimed, Cleanup
  <2>3. PICK new : /\ new \notin Ids /\ Ids' = Ids \cup {new}
                   /\ \A d \in Ids : commands'[d] = commands[d]
                   /\ commands'[new].server = r.server
    BY <2>1, <2>2, IssueAppends DEF OneInv, IInv
  <2>4. ~InFlight(r.server, Cleanup)
    BY <2>1 DEF OneInv, RequestsAreFirst
  <2>5. OneCleanupPerServer'
    BY <2>3, <2>4 DEF OneInv, OneCleanupPerServer, InFlight
  <2>6. txn'[h].op = "none" /\ \A g \in Request : g = h
    BY <2>1, FinishFacts DEF OneInv, NoRequest, OneRequestAtATime
  <2>7. RequestsAreFirst'
    BY <2>6 DEF RequestsAreFirst, Cleanup
  <2>8. QED
    BY <1>0, <2>5, <2>7 DEF OneInv
<1>4. ASSUME NEW h \in Request, NEW r \in RequestRow, Start(h, r), UNCHANGED commands,
             r.op \in Cleanup => ~InFlight(r.server, Cleanup)
      PROVE  OneInv'
  <2>1. txn'[h] = r /\ \A g \in Request : g # h => txn'[g] = txn[g]
    BY <1>4 DEF Start, OneInv, IInv, TypeOK
  <2>2. OneCleanupPerServer'
    BY <1>4 DEF OneInv, OneCleanupPerServer, Ids
  <2>3. RequestsAreFirst'
    BY <1>4, <2>1 DEF OneInv, RequestsAreFirst, InFlight, Ids
  <2>4. QED
    BY <1>0, <2>2, <2>3 DEF OneInv
<1>5. CASE \E h \in Request, i \in Item : BeginItemCleanup(h, i)
  <2>1. PICK h \in Request, i \in Item : BeginItemCleanup(h, i)
    BY <1>5
  <2>2. PICK r \in RequestRow : r.server = ServerOf[i] /\ Start(h, r)
    <3> DEFINE r == [op |-> "cleanup_item", server |-> ServerOf[i], item |-> i,
                     plan |-> {i}]
    <3>1. r \in RequestRow /\ r.server = ServerOf[i]
      BY RowsAssumption DEF RequestRow, Cleanup
    <3>2. Start(h, r)
      BY <2>1 DEF BeginItemCleanup
    <3> HIDE DEF r
    <3>3. QED
      BY <3>1, <3>2
  <2>3. QED
    BY <1>4, <2>1, <2>2 DEF BeginItemCleanup, Cleanable
<1>6. CASE \E h \in Request, s \in Server : BeginServerCleanup(h, s)
  <2>1. PICK h \in Request, s \in Server : BeginServerCleanup(h, s)
    BY <1>6
  <2>2. PICK r \in RequestRow : r.server = s /\ Start(h, r)
    <3> DEFINE r == [op |-> "cleanup_server", server |-> s, item |-> None,
                     plan |-> ActiveOn(s)]
    <3>1. r \in RequestRow /\ r.server = s
      BY DEF RequestRow, Cleanup, ActiveOn
    <3>2. Start(h, r)
      BY <2>1 DEF BeginServerCleanup
    <3> HIDE DEF r
    <3>3. QED
      BY <3>1, <3>2
  <2>3. QED
    BY <1>4, <2>1, <2>2 DEF BeginServerCleanup, Cleanable
<1>7. CASE \E h \in Request, s \in Server : BeginDeleteServer(h, s)
  <2>1. PICK h \in Request, s \in Server : BeginDeleteServer(h, s)
    BY <1>7
  <2>2. PICK r \in RequestRow : r.op = "delete" /\ Start(h, r)
    <3> DEFINE r == [NoRequest EXCEPT !.op = "delete", !.server = s]
    <3>1. r \in RequestRow /\ r.op = "delete"
      BY DEF RequestRow, NoRequest
    <3>2. Start(h, r)
      BY <2>1 DEF BeginDeleteServer
    <3> HIDE DEF r
    <3>3. QED
      BY <3>1, <3>2
  <2>3. QED
    BY <1>4, <2>1, <2>2 DEF BeginDeleteServer, Cleanup
<1>8. CASE \E h \in Request : CommitDeleteServer(h)
  <2>1. PICK h \in Request : Finish(h) /\ UNCHANGED commands
    BY <1>8 DEF CommitDeleteServer
  <2>2. txn'[h].op = "none" /\ \A g \in Request : g # h => txn'[g] = txn[g]
    BY <2>1, FinishFacts DEF OneInv, NoRequest
  <2>3. OneCleanupPerServer'
    BY <2>1 DEF OneInv, OneCleanupPerServer, Ids
  <2>4. RequestsAreFirst'
    BY <2>1, <2>2 DEF OneInv, RequestsAreFirst, InFlight, Ids, Cleanup
  <2>5. QED
    BY <1>0, <2>3, <2>4 DEF OneInv
<1>9. CASE \E c \in Ids : \/ ExecuteCreate(c) \/ ExecuteCleanup(c) \/ LoseReport(c)
                          \/ LeaseLapses(c) \/ RecordCreate(c) \/ RecordItemCleanup(c)
                          \/ RecordServerCleanup(c) \/ RecordFailure(c)
  <2>1. PICK c \in Ids, st \in Statuses :
          /\ commands[c].status \in Unfinished
          /\ Become(c, st) /\ UNCHANGED txn
    <3>1. \A st : st \in Statuses <=>
            st \in {"pending", "lapsed", "leased", "executed", "broken", "succeeded", "failed"}
      BY DEF Statuses, Unfinished, Due
    <3>2. QED
      BY <1>9, <3>1
      DEF ExecuteCreate, ExecuteCleanup, LoseReport, LeaseLapses, RecordCreate,
          RecordItemCleanup, RecordServerCleanup, RecordFailure, Arrives, IsDue,
          HasStatus, Unfinished, Due
  <2>2. QED
    BY <1>0, <2>1, UnfinishedMovesOn DEF OneInv
<1>10. CASE \/ \E i \in Item : DeleteItem(i) \/ OfflineRemoveItem(i)
            \/ \E s \in Server : \/ OfflineRemoveServer(s) \/ Heartbeat(s)
                                 \/ GoesSilent(s) \/ Uninstall(s)
  BY <1>1, <1>10 DEF DeleteItem, OfflineRemoveItem, OfflineRemoveServer, Heartbeat,
     GoesSilent, Uninstall
<1>11. QED
  BY <1>1, <1>2, <1>3, <1>5, <1>6, <1>7, <1>8, <1>9, <1>10
  DEF Next, Operator, Host, Result, vars

\* With one request at a time, two cleanups are never under way for one server,
\* whatever is lost, late or repeated: the look at the start of a request is
\* enough.
THEOREM OneCleanupHolds ==
  ASSUME OneRequestAtATime
  PROVE  Spec => []OneCleanupPerServer
<1>1. Init => OneInv
  <2> SUFFICES ASSUME Init PROVE OneInv
    OBVIOUS
  <2>1. Ids = {} /\ \A h \in Request : txn[h].op = "none"
    BY DEF Init, Ids, NoRequest
  <2>2. OneCleanupPerServer /\ RequestsAreFirst
    BY <2>1 DEF OneCleanupPerServer, RequestsAreFirst, Cleanup
  <2>3. QED
    BY <2>2, InitIInv DEF OneInv
<1>2. OneInv => OneCleanupPerServer
  BY DEF OneInv
<1>3. QED
  BY <1>1, <1>2, StepOneInv, PTL DEF Spec
=============================================================================
