------------------------ MODULE CommandChannelProofs ------------------------
(***************************************************************************)
(* Proofs about CommandChannel, for any set of commands, workers and       *)
(* request slots and any number of faults.                                 *)
(***************************************************************************)
EXTENDS CommandChannel, TLAPS

\* A worker that executes or reports has a command that was claimed, and a
\* worker whose report says "result" has put the command's effect in place.
WorkersHoldClaimed ==
  \A w \in Worker :
    proc[w].pc \in {"execute", "report"} =>
      /\ proc[w].cmd \in Command
      /\ status[proc[w].cmd] \notin {"absent", "pending"}
      /\ (/\ proc[w].pc = "report"
          /\ FormOf(proc[w].stage) = "result"
          /\ kind[proc[w].cmd] # "readonly") => effect[proc[w].cmd]

\* The same of every report request.
RequestsAreOfClaimed ==
  \A r \in Request :
    request[r].state # "free" =>
      /\ request[r].cmd \in Command
      /\ status[request[r].cmd] \notin {"absent", "pending"}
      /\ (/\ request[r].form = "result"
          /\ kind[request[r].cmd] # "readonly") => effect[request[r].cmd]

\* What the records say, command by command.
RecordsAreSound ==
  \A c \in Command :
    /\ recorded[c] \in {0, 1}
    /\ recorded[c] = 1 => /\ effect[c]
                          /\ kind[c] # "readonly"
                          /\ status[c] \notin {"absent", "pending"}
    /\ status[c] = "succeeded" /\ kind[c] # "readonly" => recorded[c] = 1

IInv ==
  /\ TypeOK
  /\ WorkersHoldClaimed
  /\ RequestsAreOfClaimed
  /\ RecordsAreSound

-----------------------------------------------------------------------------
\* A report request that ends leaves every worker's command and kind of report
\* as they are, or the worker idle, and frees its own slot only.
LEMMA EndKeeps ==
  ASSUME TypeOK, NEW r \in Request, NEW reply \in {"ok", "lost", "error"},
         End(r, reply)
  PROVE  /\ proc' \in [Worker -> Process]
         /\ request' \in [Request -> Report]
         /\ \A w \in Worker :
              \/ proc'[w].pc = "idle"
              \/ /\ proc'[w].pc  = proc[w].pc
                 /\ proc'[w].cmd = proc[w].cmd
                 /\ FormOf(proc'[w].stage) = FormOf(proc[w].stage)
         /\ \A q \in Request :
              request'[q].state = "free" \/ request'[q] = request[q]
<1>1. Free \in Report
  BY DEF Free, Report, Form, Status
<1>2. \A w \in Worker : Answered(proc[w], reply) \in Process
  BY DEF TypeOK, Process, Answered, AfterRefusal, Idle, At, Stage
<1>3. \A w \in Worker :
        \/ Answered(proc[w], reply).pc = "idle"
        \/ /\ Answered(proc[w], reply).pc  = proc[w].pc
           /\ Answered(proc[w], reply).cmd = proc[w].cmd
           /\ FormOf(Answered(proc[w], reply).stage) = FormOf(proc[w].stage)
  BY DEF TypeOK, Process, Answered, AfterRefusal, Idle, At, Stage, FormOf
<1>4. proc' \in [Worker -> Process]
  BY <1>2 DEF End, TypeOK
<1>5. request' \in [Request -> Report]
  BY <1>1 DEF End, TypeOK
<1>6. \A q \in Request : request'[q].state = "free" \/ request'[q] = request[q]
  BY DEF End, TypeOK, Free
<1>7. QED
  BY <1>3, <1>4, <1>5, <1>6 DEF End

LEMMA AnswerEnds ==
  ASSUME NEW r \in Request, Answer(r)
  PROVE  /\ \E reply \in {"ok", "lost", "error"} : End(r, reply)
         /\ Fault \/ NoFault
BY DEF Answer

LEMMA FaultType ==
  ASSUME TypeOK, Fault \/ NoFault
  PROVE  faults' \in 0 .. MaxFaults
BY FaultsAssumption DEF TypeOK, Fault, NoFault

\* Sending a report of a command keeps the types and touches one worker and
\* one slot.
LEMMA SendKeeps ==
  ASSUME TypeOK, NEW w \in Worker, NEW c \in Command, NEW s \in Stage,
         NEW r \in Request, Send(w, c, s, r)
  PROVE  /\ proc' \in [Worker -> Process]
         /\ request' \in [Request -> Report]
         /\ \A v \in Worker :
              IF v = w
              THEN /\ proc'[v].pc = "report"
                   /\ proc'[v].cmd = c
                   /\ proc'[v].stage = s
              ELSE proc'[v] = proc[v]
         /\ \A q \in Request :
              IF q = r
              THEN /\ request'[q].state = "sent"
                   /\ request'[q].cmd = c
                   /\ request'[q].form = FormOf(s)
              ELSE request'[q] = request[q]
<1>1. FormOf(s) \in Form
  BY DEF FormOf, Form, Stage
<1>2. QED
  BY <1>1 DEF Send, TypeOK, Process, Report, Status

-----------------------------------------------------------------------------
LEMMA InitIInv == Init => IInv
<1> SUFFICES ASSUME Init PROVE IInv
  OBVIOUS
<1>1. TypeOK
  BY FaultsAssumption
  DEF Init, TypeOK, Idle, At, Free, Process, Report, Stage, Form, Status, Kind
<1>2. WorkersHoldClaimed /\ RequestsAreOfClaimed /\ RecordsAreSound
  BY DEF Init, WorkersHoldClaimed, RequestsAreOfClaimed, RecordsAreSound, Idle,
         At, Free
<1>3. QED
  BY <1>1, <1>2 DEF IInv

\* Inserting a row touches no command that a worker or a request is about.
LEMMA IssueKeeps ==
  ASSUME IInv, NEW c \in Command, NEW w \in Worker, NEW k \in Kind,
         Issue(c, w, k)
  PROVE  IInv'
<1> USE DEF IInv, Issue, NoFault
<1>1. TypeOK'
  BY DEF TypeOK, Status, Unfinished
<1>2. WorkersHoldClaimed'
  BY DEF WorkersHoldClaimed, TypeOK
<1>3. RequestsAreOfClaimed'
  BY DEF RequestsAreOfClaimed, TypeOK
<1>4. RecordsAreSound'
  BY DEF RecordsAreSound, TypeOK
<1>5. QED
  BY <1>1, <1>2, <1>3, <1>4

LEMMA LeaseLapsesKeeps ==
  ASSUME IInv, NEW c \in Command, LeaseLapses(c)
  PROVE  IInv'
<1> USE DEF IInv, LeaseLapses, NoFault
<1>1. TypeOK'
  BY DEF TypeOK
<1>2. WorkersHoldClaimed' /\ RequestsAreOfClaimed' /\ RecordsAreSound'
  BY DEF WorkersHoldClaimed, RequestsAreOfClaimed, RecordsAreSound
<1>3. QED
  BY <1>1, <1>2

\* A claim makes an unfinished row running, whether or not its worker hears.
LEMMA ClaimKeeps ==
  ASSUME IInv, NEW c \in Command, NEW w \in Worker, NextClaim(c, w), Claim(c),
         \/ UNCHANGED proc
         \/ proc' = [proc EXCEPT ![w] = At("execute", c)],
         UNCHANGED <<effect, request>>, Fault \/ NoFault
  PROVE  IInv'
<1>0. faults' \in 0 .. MaxFaults
  BY FaultType DEF IInv
<1> USE DEF IInv, Claim
<1>1. status[c] \in Unfinished
  BY DEF NextClaim, Claimable
<1>2. TypeOK'
  <2>1. At("execute", c) \in Process
    BY DEF At, Process, Stage
  <2>2. proc' \in [Worker -> Process]
    BY <2>1 DEF TypeOK
  <2>3. status' \in [Command -> Status] /\ lease' \in [Command -> {"none", "held", "lapsed"}]
    BY DEF TypeOK, Status, Unfinished
  <2>4. QED
    BY <1>0, <2>2, <2>3 DEF TypeOK
<1>3. WorkersHoldClaimed'
  <2>1. \A v \in Worker :
          \/ proc'[v] = proc[v]
          \/ proc'[v].pc = "execute" /\ proc'[v].cmd = c
    BY DEF TypeOK, At
  <2>2. status'[c] = "running" /\ \A d \in Command \ {c} : status'[d] = status[d]
    BY DEF TypeOK
  <2>3. kind' = kind /\ effect' = effect
    OBVIOUS
  <2> HIDE DEF Claim
  <2>4. QED
    BY <2>1, <2>2, <2>3 DEF WorkersHoldClaimed
<1>4. RequestsAreOfClaimed'
  BY DEF RequestsAreOfClaimed, TypeOK
<1>5. RecordsAreSound'
  BY <1>1 DEF RecordsAreSound, TypeOK, Unfinished
<1>6. QED
  BY <1>2, <1>3, <1>4, <1>5

LEMMA ExecuteSucceedsKeeps ==
  ASSUME IInv, NEW w \in Worker, NEW r \in Request, ExecuteSucceeds(w, r)
  PROVE  IInv'
<1> DEFINE c == proc[w].cmd
<1>1. c \in Command /\ status[c] \notin {"absent", "pending"}
  BY DEF IInv, WorkersHoldClaimed, ExecuteSucceeds
<1>2. "result" \in Stage /\ FormOf("result") = "result"
  BY DEF Stage, FormOf
<1>3. /\ proc' \in [Worker -> Process]
      /\ request' \in [Request -> Report]
      /\ \A v \in Worker :
           IF v = w
           THEN proc'[v].pc = "report" /\ proc'[v].cmd = c /\ proc'[v].stage = "result"
           ELSE proc'[v] = proc[v]
      /\ \A q \in Request :
           IF q = r
           THEN request'[q].state = "sent" /\ request'[q].cmd = c /\ request'[q].form = "result"
           ELSE request'[q] = request[q]
  <2>1. Send(w, c, "result", r) /\ TypeOK
    BY DEF ExecuteSucceeds, IInv
  <2> HIDE DEF c
  <2>2. QED
    BY <1>1, <1>2, <2>1, SendKeeps
<1>4. effect' = [effect EXCEPT ![c] = kind[c] # "readonly"] /\ UNCHANGED row
  BY DEF ExecuteSucceeds
<1> HIDE DEF c
<1>5. TypeOK'
  BY <1>3, <1>4 DEF ExecuteSucceeds, IInv, TypeOK, row, NoFault
<1>a. /\ kind[c] # "readonly" => effect'[c]
      /\ \A d \in Command : kind[d] # "readonly" /\ effect[d] => effect'[d]
  <2>1. effect \in [Command -> BOOLEAN]
    BY DEF IInv, TypeOK
  <2>2. QED
    BY <1>1, <1>4, <2>1, Zenon
<1>b. kind' = kind /\ status' = status /\ recorded' = recorded
  BY <1>4 DEF row
<1>6. WorkersHoldClaimed'
  BY <1>1, <1>2, <1>3, <1>a, <1>b DEF IInv, WorkersHoldClaimed
<1>7. RequestsAreOfClaimed'
  BY <1>1, <1>2, <1>3, <1>a, <1>b DEF IInv, RequestsAreOfClaimed
<1>8. RecordsAreSound'
  BY <1>a, <1>b DEF IInv, RecordsAreSound
<1>9. QED
  BY <1>5, <1>6, <1>7, <1>8 DEF IInv

\* A worker that reports again about its own command, as a result only if it
\* was reporting a result.
LEMMA ReportKeeps ==
  ASSUME IInv, NEW w \in Worker, NEW r \in Request, NEW s \in Stage,
         proc[w].pc \in {"execute", "report"},
         FormOf(s) = "result" => /\ proc[w].pc = "report"
                                 /\ FormOf(proc[w].stage) = "result",
         Send(w, proc[w].cmd, s, r), UNCHANGED <<row, effect>>,
         Fault \/ NoFault
  PROVE  IInv'
<1> DEFINE c == proc[w].cmd
<1>1. /\ c \in Command /\ status[c] \notin {"absent", "pending"}
      /\ FormOf(s) = "result" /\ kind[c] # "readonly" => effect[c]
  BY DEF IInv, WorkersHoldClaimed
<1>2. /\ proc' \in [Worker -> Process]
      /\ request' \in [Request -> Report]
      /\ \A v \in Worker :
           IF v = w
           THEN proc'[v].pc = "report" /\ proc'[v].cmd = c /\ proc'[v].stage = s
           ELSE proc'[v] = proc[v]
      /\ \A q \in Request :
           IF q = r
           THEN request'[q].state = "sent" /\ request'[q].cmd = c /\ request'[q].form = FormOf(s)
           ELSE request'[q] = request[q]
  <2>1. Send(w, c, s, r) /\ TypeOK
    BY DEF IInv
  <2> HIDE DEF c
  <2>2. QED
    BY <1>1, <2>1, SendKeeps
<1> HIDE DEF c
<1>3. TypeOK'
  BY <1>2, FaultType DEF IInv, TypeOK, row
<1>4. WorkersHoldClaimed'
  BY <1>1, <1>2 DEF IInv, WorkersHoldClaimed, TypeOK, row
<1>5. RequestsAreOfClaimed'
  BY <1>1, <1>2 DEF IInv, RequestsAreOfClaimed, TypeOK, row
<1>6. RecordsAreSound'
  BY DEF IInv, RecordsAreSound, row
<1>7. QED
  BY <1>3, <1>4, <1>5, <1>6 DEF IInv

\* A worker that ends up idle or down is about no command.
LEMMA StopKeeps ==
  ASSUME IInv, NEW w \in Worker,
         proc' = [proc EXCEPT ![w] = Idle] \/ proc' = [proc EXCEPT ![w] = At("down", None)],
         \/ UNCHANGED effect
         \/ /\ proc[w].pc = "execute"
            /\ kind[proc[w].cmd] # "readonly"
            /\ effect' = [effect EXCEPT ![proc[w].cmd] = TRUE],
         UNCHANGED <<row, request>>, Fault \/ NoFault
  PROVE  IInv'
<1>1. proc[w].pc = "execute" => proc[w].cmd \in Command
  BY DEF IInv, WorkersHoldClaimed
<1>a. faults' \in 0 .. MaxFaults
  BY FaultType DEF IInv
<1>b. /\ effect' \in [Command -> BOOLEAN]
      /\ \A d \in Command : effect[d] => effect'[d]
  BY <1>1 DEF IInv, TypeOK
<1>c. /\ proc' \in [Worker -> Process]
      /\ \A v \in Worker : proc'[v].pc \in {"execute", "report"} => proc'[v] = proc[v]
  <2>1. Idle \in Process /\ At("down", None) \in Process
    BY DEF Process, Idle, At, Stage
  <2>2. Idle.pc = "idle" /\ At("down", None).pc = "down"
    BY DEF Idle, At
  <2>3. QED
    BY <2>1, <2>2 DEF IInv, TypeOK
<1>d. /\ UNCHANGED <<status, kind, recorded, request>>
      /\ UNCHANGED <<lease, owner, issued>>
  BY DEF row
<1>2. TypeOK'
  BY <1>a, <1>b, <1>c, <1>d DEF IInv, TypeOK
<1>3. WorkersHoldClaimed'
  BY <1>b, <1>c, <1>d DEF IInv, WorkersHoldClaimed
<1>4. RequestsAreOfClaimed'
  BY <1>b, <1>d DEF IInv, RequestsAreOfClaimed
<1>5. RecordsAreSound'
  BY <1>b, <1>d DEF IInv, RecordsAreSound
<1>6. QED
  BY <1>2, <1>3, <1>4, <1>5 DEF IInv

\* A request that ends, whatever the answer, keeps the invariant if its handler
\* leaves claimed rows claimed and the records sound.
LEMMA HandlerKeeps ==
  ASSUME IInv, NEW r \in Request, NEW reply \in {"ok", "lost", "error"},
         End(r, reply), Fault \/ NoFault,
         UNCHANGED <<kind, owner, issued, effect>>,
         status' \in [Command -> Status],
         lease' \in [Command -> {"none", "held", "lapsed"}],
         recorded' \in [Command -> Nat],
         \A d \in Command : status[d] \notin {"absent", "pending"}
                              => status'[d] \notin {"absent", "pending"},
         RecordsAreSound'
  PROVE  IInv'
<1>1. /\ proc' \in [Worker -> Process]
      /\ request' \in [Request -> Report]
      /\ \A w \in Worker :
           \/ proc'[w].pc = "idle"
           \/ /\ proc'[w].pc  = proc[w].pc
              /\ proc'[w].cmd = proc[w].cmd
              /\ FormOf(proc'[w].stage) = FormOf(proc[w].stage)
      /\ \A q \in Request :
           request'[q].state = "free" \/ request'[q] = request[q]
  BY EndKeeps DEF IInv
<1>2. faults' \in 0 .. MaxFaults
  BY FaultType DEF IInv
<1>3. TypeOK'
  BY <1>1, <1>2 DEF IInv, TypeOK
<1>4. WorkersHoldClaimed'
  BY <1>1 DEF IInv, WorkersHoldClaimed
<1>5. RequestsAreOfClaimed'
  BY <1>1 DEF IInv, RequestsAreOfClaimed
<1>6. QED
  BY <1>3, <1>4, <1>5 DEF IInv

\* The same when the handler leaves the row alone.
LEMMA UntouchedKeeps ==
  ASSUME IInv, NEW r \in Request, NEW reply \in {"ok", "lost", "error"},
         End(r, reply), Fault \/ NoFault, UNCHANGED <<row, effect>>
  PROVE  IInv'
<1>1. /\ UNCHANGED <<status, kind, recorded, effect>>
      /\ UNCHANGED <<lease, owner, issued>>
  BY DEF row
<1>2. RecordsAreSound'
  BY <1>1 DEF IInv, RecordsAreSound
<1>3. QED
  BY <1>1, <1>2, HandlerKeeps DEF IInv, TypeOK

\* The same when the handler marks the command of its request failed.
LEMMA FailedKeeps ==
  ASSUME IInv, NEW r \in Request, NEW reply \in {"ok", "lost", "error"},
         End(r, reply), Fault \/ NoFault, UNCHANGED <<recorded, effect>>,
         request[r].state # "free", Settle(request[r].cmd, "failed")
  PROVE  IInv'
<1> DEFINE c == request[r].cmd
<1>1. c \in Command /\ status[c] \notin {"absent", "pending"}
  BY DEF IInv, RequestsAreOfClaimed
<1>2. /\ status' = [status EXCEPT ![c] = "failed"]
      /\ lease'  = [lease EXCEPT ![c] = "none"]
      /\ UNCHANGED <<owner, kind, issued>>
  BY DEF Settle
<1> HIDE DEF c
<1>3. /\ status' \in [Command -> Status]
      /\ lease' \in [Command -> {"none", "held", "lapsed"}]
  BY <1>2 DEF IInv, TypeOK, Status, Terminal
<1>4. /\ status'[c] = "failed"
      /\ \A d \in Command \ {c} : status'[d] = status[d]
  BY <1>1, <1>2 DEF IInv, TypeOK
<1>5. RecordsAreSound'
  BY <1>2, <1>4 DEF IInv, RecordsAreSound
<1>6. QED
  BY <1>2, <1>3, <1>4, <1>5, HandlerKeeps DEF IInv, TypeOK

LEMMA AcceptResultKeeps ==
  ASSUME IInv, NEW r \in Request, AcceptResult(r)
  PROVE  IInv'
<1> DEFINE c == request[r].cmd
<1>1. request[r].state = "reading" /\ request[r].form = "result"
  BY DEF AcceptResult, Resumes
<1>2. /\ c \in Command /\ status[c] \notin {"absent", "pending"}
      /\ kind[c] # "readonly" => effect[c]
  BY <1>1 DEF IInv, RequestsAreOfClaimed
<1>3. /\ status' = [status EXCEPT ![c] = "succeeded"]
      /\ lease'  = [lease EXCEPT ![c] = "none"]
      /\ UNCHANGED <<owner, kind, issued, effect>>
  BY DEF AcceptResult, Settle
<1>4. recorded' = IF Writes(c) THEN [recorded EXCEPT ![c] = recorded[c] + 1]
                               ELSE recorded
  BY DEF AcceptResult
<1>5. PICK reply \in {"ok", "lost", "error"} : End(r, reply)
  BY AnswerEnds DEF AcceptResult
<1>6. Fault \/ NoFault
  BY AnswerEnds DEF AcceptResult
<1> HIDE DEF c
<1>7. /\ status' \in [Command -> Status]
      /\ lease' \in [Command -> {"none", "held", "lapsed"}]
  BY <1>3 DEF IInv, TypeOK, Status, Terminal
<1>8. /\ status'[c] = "succeeded"
      /\ \A d \in Command \ {c} : status'[d] = status[d]
  BY <1>2, <1>3 DEF IInv, TypeOK
<1>9. /\ recorded' \in [Command -> Nat]
      /\ recorded'[c] \in {0, 1}
      /\ kind[c] # "readonly" <=> recorded'[c] = 1
      /\ \A d \in Command \ {c} : recorded'[d] = recorded[d]
  BY <1>2, <1>4 DEF Writes, IInv, TypeOK, RecordsAreSound
<1>10. RecordsAreSound'
  BY <1>2, <1>3, <1>8, <1>9 DEF IInv, RecordsAreSound
<1>11. QED
  BY <1>3, <1>5, <1>6, <1>7, <1>8, <1>9, <1>10, HandlerKeeps

LEMMA BeginReportKeeps ==
  ASSUME IInv, NEW r \in Request, BeginReport(r)
  PROVE  IInv'
<1>1. request[r].cmd \in Command
  BY DEF IInv, RequestsAreOfClaimed, BeginReport
<1>2. /\ request' \in [Request -> Report]
      /\ request[r].state # "free"
      /\ \A q \in Request : request'[q].cmd = request[q].cmd
                             /\ request'[q].form = request[q].form
      /\ \A q \in Request : request'[q].state # "free" => request[q].state # "free"
  BY <1>1 DEF BeginReport, IInv, TypeOK, Report
<1>3. /\ UNCHANGED <<status, kind, recorded, effect>>
      /\ UNCHANGED <<lease, owner, issued, proc, faults>>
  BY DEF BeginReport, row, NoFault
<1>4. TypeOK'
  BY <1>2, <1>3 DEF IInv, TypeOK
<1>5. WorkersHoldClaimed' /\ RecordsAreSound'
  BY <1>3 DEF IInv, WorkersHoldClaimed, RecordsAreSound
<1>6. RequestsAreOfClaimed'
  BY <1>2, <1>3 DEF IInv, RequestsAreOfClaimed
<1>7. QED
  BY <1>4, <1>5, <1>6 DEF IInv

-----------------------------------------------------------------------------
LEMMA WorkerStepKeeps ==
  ASSUME IInv, NEW w \in Worker, WorkerStep(w)
  PROVE  IInv'
<1>1. CASE \E c \in Command : Poll(w, c)
  BY <1>1, ClaimKeeps DEF Poll
<1>2. CASE \E r \in Request : ExecuteSucceeds(w, r)
  BY <1>2, ExecuteSucceedsKeeps
<1>3. CASE \E r \in Request : ExecuteFails(w, r)
  <2>1. PICK r \in Request : ExecuteFails(w, r)
    BY <1>3
  <2>2. "fail" \in Stage /\ FormOf("fail") # "result"
    BY DEF Stage, FormOf
  <2>3. /\ proc[w].pc \in {"execute", "report"}
        /\ Send(w, proc[w].cmd, "fail", r)
        /\ UNCHANGED <<row, effect>>
        /\ NoFault
    BY <2>1 DEF ExecuteFails
  <2>4. QED
    BY <2>2, <2>3, ReportKeeps
<1>4. CASE GiveUp(w)
  <2>1. /\ proc[w].pc = "report"
        /\ UNCHANGED <<row, effect>>
        /\ Fault \/ NoFault
    BY <1>4 DEF GiveUp
  <2>2. CASE \E s \in Stage, r \in Request :
               <<proc[w].stage, s>> \in NextStages /\ Send(w, proc[w].cmd, s, r)
    <3>1. PICK s \in Stage, r \in Request :
               <<proc[w].stage, s>> \in NextStages /\ Send(w, proc[w].cmd, s, r)
      BY <2>2
    <3>2. FormOf(s) = "result" => FormOf(proc[w].stage) = "result"
      BY <3>1 DEF NextStages, FormOf
    <3>3. QED
      BY <2>1, <3>1, <3>2, ReportKeeps
  <2>3. CASE proc' = [proc EXCEPT ![w] = Idle] /\ UNCHANGED request
    BY <2>1, <2>3, StopKeeps
  <2>4. QED
    BY <1>4, <2>2, <2>3 DEF GiveUp
<1>5. CASE Restart(w)
  BY <1>5, StopKeeps DEF Restart
<1>6. QED
  BY <1>1, <1>2, <1>3, <1>4, <1>5 DEF WorkerStep

LEMMA HandleKeeps ==
  ASSUME IInv, NEW r \in Request, Handle(r)
  PROVE  IInv'
<1>1. CASE BeginReport(r)
  BY <1>1, BeginReportKeeps
<1>2. CASE Acknowledge(r)
  BY <1>2, AnswerEnds, UntouchedKeeps DEF Acknowledge
<1>3. CASE AcceptResult(r)
  BY <1>3, AcceptResultKeeps
<1>4. CASE RefuseResult(r)
  BY <1>4, AnswerEnds, FailedKeeps DEF RefuseResult, Resumes
<1>5. CASE AcceptFailure(r)
  BY <1>5, AnswerEnds, FailedKeeps DEF AcceptFailure, Resumes
<1>6. QED
  BY <1>1, <1>2, <1>3, <1>4, <1>5 DEF Handle

LEMMA DisturbKeeps ==
  ASSUME IInv, Disturb
  PROVE  IInv'
<1>1. CASE \E w \in Worker : Crash(w)
  BY <1>1, StopKeeps DEF Crash
<1>2. CASE \E w \in Worker, c \in Command : PollLost(w, c)
  BY <1>2, ClaimKeeps DEF PollLost
<1>3. CASE \E r \in Request : RequestLost(r)
  BY <1>3, UntouchedKeeps DEF RequestLost
<1>4. CASE \E r \in Request : DatabaseFails(r)
  BY <1>4, UntouchedKeeps, FailedKeeps DEF DatabaseFails, Resumes
<1>5. QED
  BY <1>1, <1>2, <1>3, <1>4 DEF Disturb

LEMMA NextKeeps == IInv /\ [Next]_vars => IInv'
<1> SUFFICES ASSUME IInv, [Next]_vars PROVE IInv'
  OBVIOUS
<1>1. CASE UNCHANGED vars
  BY <1>1 DEF vars, IInv, TypeOK, WorkersHoldClaimed, RequestsAreOfClaimed,
              RecordsAreSound
<1>2. CASE \E c \in Command, w \in Worker, k \in Kind : Issue(c, w, k)
  BY <1>2, IssueKeeps
<1>3. CASE \E c \in Command : LeaseLapses(c)
  BY <1>3, LeaseLapsesKeeps
<1>4. CASE \E w \in Worker : WorkerStep(w)
  BY <1>4, WorkerStepKeeps
<1>5. CASE \E r \in Request : Handle(r)
  BY <1>5, HandleKeeps
<1>6. CASE Disturb
  BY <1>6, DisturbKeeps
<1>7. QED
  BY <1>1, <1>2, <1>3, <1>4, <1>5, <1>6 DEF Next

\* The inductive invariant: commands that are being executed or reported were
\* claimed, and the records match the effects on the hosts.
THEOREM Invariance == Spec => []IInv
<1>1. QED
  BY InitIInv, NextKeeps, PTL DEF Spec

\* Every variable keeps its type.
THEOREM TypeCorrect == Spec => []TypeOK
<1>1. IInv => TypeOK
  BY DEF IInv
<1>2. QED
  BY <1>1, Invariance, PTL

\* For any number of workers, commands, concurrent reports and faults, the
\* controller records the effect of a command at most once.
THEOREM EffectRecordedOnce == Spec => []RecordedOnce
<1>1. IInv => RecordedOnce
  <2> SUFFICES ASSUME IInv, NEW c \in Command PROVE recorded[c] <= 1
    BY DEF RecordedOnce
  <2>1. recorded[c] = 0 \/ recorded[c] = 1
    BY DEF IInv, RecordsAreSound
  <2>2. QED
    BY <2>1
<1>2. QED
  BY <1>1, Invariance, PTL

\* No record of an effect that is not in place on the host.
THEOREM RecordsAreReal == Spec => []RecordedOnlyIfEffective
<1>1. IInv => RecordedOnlyIfEffective
  BY DEF IInv, RecordsAreSound, RecordedOnlyIfEffective
<1>2. QED
  BY <1>1, Invariance, PTL

\* A command marked succeeded has its record.
THEOREM SuccessIsBacked == Spec => []SucceededIsRecorded
<1>1. IInv => SucceededIsRecorded
  BY DEF IInv, RecordsAreSound, SucceededIsRecorded
<1>2. QED
  BY <1>1, Invariance, PTL

-----------------------------------------------------------------------------
\* No step takes a command out of the terminal statuses.
LEMMA StepKeepsTerminal ==
  ASSUME IInv, [Next]_vars, NEW c \in Command, status[c] \in Terminal
  PROVE  status'[c] \in Terminal
<1> USE DEF row
<1>1. CASE UNCHANGED status
  BY <1>1
<1>2. CASE \E d \in Command, w \in Worker, k \in Kind : Issue(d, w, k)
  BY <1>2 DEF Issue, Terminal, IInv, TypeOK
<1>3. CASE \E w \in Worker, d \in Command : NextClaim(d, w) /\ Claim(d)
  BY <1>3 DEF NextClaim, Claimable, Claim, Terminal, Unfinished, IInv, TypeOK
<1>4. CASE \E d : Settle(d, "succeeded") \/ Settle(d, "failed")
  BY <1>4 DEF Settle, Terminal, IInv, TypeOK
<1>5. QED
  <2>1. ASSUME NEW d \in Command, LeaseLapses(d)
        PROVE  UNCHANGED status
    BY <2>1 DEF LeaseLapses
  <2>2. ASSUME NEW w \in Worker, WorkerStep(w)
        PROVE  \/ UNCHANGED status
               \/ \E d \in Command : NextClaim(d, w) /\ Claim(d)
    BY <2>2 DEF WorkerStep, Poll, ExecuteSucceeds, ExecuteFails, GiveUp, Restart
  <2>3. ASSUME NEW r \in Request, Handle(r)
        PROVE  \/ UNCHANGED status
               \/ \E d : Settle(d, "succeeded") \/ Settle(d, "failed")
    BY <2>3 DEF Handle, BeginReport, Acknowledge, AcceptResult, RefuseResult,
                AcceptFailure
  <2>4. ASSUME Disturb
        PROVE  \/ UNCHANGED status
               \/ \E w \in Worker, d \in Command : NextClaim(d, w) /\ Claim(d)
               \/ \E d : Settle(d, "succeeded") \/ Settle(d, "failed")
    BY <2>4 DEF Disturb, Crash, PollLost, RequestLost, DatabaseFails
  <2>5. UNCHANGED vars => UNCHANGED status
    BY DEF vars
  <2>6. QED
    BY <1>1, <1>2, <1>3, <1>4, <2>1, <2>2, <2>3, <2>4, <2>5 DEF Next

\* A finished command stays finished, whatever reports are still on their way.
THEOREM FinishedIsFinal == Spec => FinishedStaysFinished
<1> DEFINE Stays == \A c \in Command :
                      status[c] \in Terminal => status'[c] \in Terminal
<1>1. IInv /\ [Next]_vars => [Stays]_vars
  BY StepKeepsTerminal
<1> HIDE DEF Stays
<1>2. Spec => [][Stays]_vars
  BY <1>1, Invariance, PTL DEF Spec
<1>3. QED
  BY <1>2 DEF Stays, FinishedStaysFinished


-----------------------------------------------------------------------------
(***************************************************************************)
(* One report at a time: the channel implements CommandLifecycle.          *)
(***************************************************************************)

OneReportAtATime == \A q, r \in Request : q = r

\* The status a handler has read is still that of the row.
SeenIsCurrent ==
  \A r \in Request :
    request[r].state = "reading" => request[r].seen = status[request[r].cmd]

RInv == IInv /\ SeenIsCurrent

\* A status that is not read changes nothing that is seen.
LEMMA SeenStays ==
  ASSUME RInv,
         \A r \in Request : request'[r].state = "reading" => request'[r] = request[r],
         \A c \in Command : status[c] \notin {"absent", "pending"} => status'[c] = status[c]
  PROVE  SeenIsCurrent'
BY DEF RInv, IInv, SeenIsCurrent, RequestsAreOfClaimed

\* With one slot, the request that ends leaves none that reads.
LEMMA EndSees ==
  ASSUME OneReportAtATime, RInv, NEW r \in Request, NEW reply, End(r, reply)
  PROVE  SeenIsCurrent'
<1>1. request'[r] = Free /\ \A q \in Request : q = r
  BY DEF End, RInv, IInv, TypeOK, OneReportAtATime
<1>2. QED
  BY <1>1 DEF SeenIsCurrent, Free

\* A claim is of a row that no handler has read, or of one that is running.
LEMMA ClaimSees ==
  ASSUME RInv, NEW c \in Command, NEW w \in Worker, NextClaim(c, w), Claim(c),
         UNCHANGED request
  PROVE  SeenIsCurrent'
<1>1. status[c] \in Unfinished /\ status' = [status EXCEPT ![c] = "running"]
  BY DEF NextClaim, Claimable, Claim
<1>2. \A d \in Command : status[d] \notin {"absent", "pending"} => status'[d] = status[d]
  BY <1>1 DEF Unfinished, RInv, IInv, TypeOK
<1>3. QED
  BY <1>2, SeenStays

LEMMA SendSees ==
  ASSUME RInv, NEW w \in Worker, NEW c, NEW s, NEW r \in Request,
         Send(w, c, s, r), UNCHANGED row
  PROVE  SeenIsCurrent'
<1>1. \A q \in Request : request'[q].state = "reading" => request'[q] = request[q]
  BY DEF Send, RInv, IInv, TypeOK
<1>2. QED
  BY <1>1, SeenStays DEF row

LEMMA BeginReportSees ==
  ASSUME RInv, NEW r \in Request, BeginReport(r)
  PROVE  SeenIsCurrent'
<1>1. /\ request'[r].seen = status[request[r].cmd]
      /\ request'[r].cmd = request[r].cmd
      /\ \A q \in Request : q # r => request'[q] = request[q]
  BY DEF BeginReport, RInv, IInv, TypeOK, Report
<1>2. UNCHANGED status
  BY DEF BeginReport, row
<1>3. QED
  BY <1>1, <1>2 DEF SeenIsCurrent, RInv

\* The handlers end their request.
LEMMA HandlerEnds ==
  ASSUME NEW r \in Request,
         \/ Acknowledge(r) \/ AcceptResult(r) \/ RefuseResult(r) \/ AcceptFailure(r)
         \/ RequestLost(r) \/ DatabaseFails(r)
  PROVE  \E reply : End(r, reply)
BY DEF Acknowledge, AcceptResult, RefuseResult, AcceptFailure, RequestLost,
       DatabaseFails, Answer

LEMMA StepRInv ==
  ASSUME OneReportAtATime
  PROVE  RInv /\ [Next]_vars => RInv'
<1> SUFFICES ASSUME RInv, [Next]_vars PROVE RInv'
  OBVIOUS
<1>0. IInv'
  BY NextKeeps DEF RInv
<1>1. CASE UNCHANGED <<status, request>>
  BY <1>0, <1>1 DEF RInv, SeenIsCurrent
<1>2. CASE \E c \in Command, w \in Worker, k \in Kind : Issue(c, w, k)
  <2>1. PICK c \in Command, w \in Worker, k \in Kind : Issue(c, w, k)
    BY <1>2
  <2>2. \A d \in Command : status[d] \notin {"absent", "pending"} => status'[d] = status[d]
    BY <2>1 DEF Issue, RInv, IInv, TypeOK
  <2>3. UNCHANGED request
    BY <2>1 DEF Issue
  <2>4. QED
    BY <1>0, <2>2, <2>3, SeenStays DEF RInv
<1>3. CASE \E c \in Command, w \in Worker : Poll(w, c) \/ PollLost(w, c)
  BY <1>0, <1>3, ClaimSees DEF Poll, PollLost, RInv
<1>4. CASE \E w \in Worker, r \in Request : ExecuteSucceeds(w, r) \/ ExecuteFails(w, r)
  BY <1>0, <1>4, SendSees DEF ExecuteSucceeds, ExecuteFails, RInv
<1>5. CASE \E w \in Worker : GiveUp(w)
  <2>1. PICK w \in Worker : GiveUp(w)
    BY <1>5
  <2>2. UNCHANGED row /\ UNCHANGED status
    BY <2>1 DEF GiveUp, row
  <2>3. CASE \E s \in Stage, r \in Request : Send(w, proc[w].cmd, s, r)
    BY <1>0, <2>2, <2>3, SendSees DEF RInv
  <2>4. CASE UNCHANGED request
    BY <1>1, <2>2, <2>4
  <2>5. QED
    BY <2>1, <2>3, <2>4 DEF GiveUp
<1>6. CASE \E r \in Request : BeginReport(r)
  BY <1>0, <1>6, BeginReportSees DEF RInv
<1>7. CASE \E r \in Request :
             \/ Acknowledge(r) \/ AcceptResult(r) \/ RefuseResult(r) \/ AcceptFailure(r)
             \/ RequestLost(r) \/ DatabaseFails(r)
  BY <1>0, <1>7, HandlerEnds, EndSees DEF RInv
<1>8. CASE \/ \E c \in Command : LeaseLapses(c)
           \/ \E w \in Worker : Restart(w) \/ Crash(w)
  BY <1>1, <1>8 DEF LeaseLapses, Restart, Crash, row
<1>9. QED
  BY <1>1, <1>2, <1>3, <1>4, <1>5, <1>6, <1>7, <1>8
  DEF Next, WorkerStep, Handle, Disturb, vars

LEMMA InitRInv == Init => RInv
BY InitIInv DEF RInv, Init, SeenIsCurrent, Free

-----------------------------------------------------------------------------
\* The variables of the lifecycle, as the channel has them.
OnRecord == [c \in Command |-> recorded[c] > 0]

LEMMA LifecycleInit == Init => Lifecycle!Init
<1> SUFFICES ASSUME Init PROVE Lifecycle!Init
  OBVIOUS
<1> DEFINE Before(c) == recorded[c] > 0
<1>1. \A c \in Command : ~Before(c)
  <2>1. recorded = [c \in Command |-> 0]
    BY DEF Init
  <2>2. \A c \in Command : recorded[c] = 0
    BY <2>1, Zenon
  <2>3. ~(0 > 0)
    OBVIOUS
  <2>4. QED
    BY <2>2, <2>3
<1>2. \A c \in Command : Before(c) \in BOOLEAN
  OBVIOUS
<1> HIDE DEF Before
<1>3. [c \in Command |-> Before(c)] = [c \in Command |-> FALSE]
  BY <1>1, <1>2, Zenon
<1>4. QED
  BY <1>3 DEF Init, Lifecycle!Init, Before

LEMMA LifecycleStutters ==
  ASSUME UNCHANGED <<status, kind, recorded>>
  PROVE  UNCHANGED Lifecycle!vars
BY DEF Lifecycle!vars

\* A claim delivers a pending command; redelivery is not seen.
LEMMA ClaimDelivers ==
  ASSUME RInv, NEW c \in Command, NEW w \in Worker, NextClaim(c, w), Claim(c)
  PROVE  Lifecycle!Deliver(c) \/ UNCHANGED Lifecycle!vars
<1>1. /\ status[c] \in {"pending", "running"}
      /\ status' = [status EXCEPT ![c] = "running"]
      /\ UNCHANGED <<kind, recorded>>
  BY DEF NextClaim, Claimable, Claim, Unfinished
<1>2. OnRecord' = OnRecord
  BY <1>1 DEF OnRecord
<1>3. CASE status[c] = "pending"
  BY <1>1, <1>2, <1>3 DEF Lifecycle!Deliver, OnRecord
<1>4. CASE status[c] = "running"
  <2>1. UNCHANGED status
    BY <1>1, <1>4 DEF RInv, IInv, TypeOK
  <2>2. QED
    BY <1>1, <2>1, LifecycleStutters
<1>5. QED
  BY <1>1, <1>3, <1>4

\* A handler that goes on has a running command.
LEMMA ResumesRunning ==
  ASSUME RInv, NEW r \in Request, Resumes(r)
  PROVE  request[r].cmd \in Command /\ status[request[r].cmd] = "running"
<1>1. /\ request[r].cmd \in Command
      /\ status[request[r].cmd] \notin {"absent", "pending"}
  BY DEF RInv, IInv, RequestsAreOfClaimed, Resumes
<1>2. status[request[r].cmd] \notin Terminal
  BY DEF RInv, SeenIsCurrent, Resumes
<1>3. QED
  BY <1>1, <1>2 DEF RInv, IInv, TypeOK, Status, Unfinished, Terminal

LEMMA SettleFails ==
  ASSUME RInv, NEW r \in Request, Resumes(r), Settle(request[r].cmd, "failed"),
         UNCHANGED recorded
  PROVE  \E c \in Command : Lifecycle!Fail(c)
<1>1. PICK c \in Command : c = request[r].cmd /\ status[c] = "running"
  BY ResumesRunning
<1>2. status' = [status EXCEPT ![c] = "failed"] /\ UNCHANGED kind
  BY <1>1 DEF Settle
<1>3. OnRecord' = OnRecord
  BY DEF OnRecord
<1>4. QED
  BY <1>1, <1>2, <1>3 DEF Lifecycle!Fail, OnRecord

\* An accepted result is the success, and its record is there at once.
LEMMA AcceptSucceeds ==
  ASSUME RInv, NEW r \in Request, AcceptResult(r)
  PROVE  \E c \in Command : Lifecycle!Succeed(c)
<1>1. Resumes(r)
  BY DEF AcceptResult
<1>2. PICK c \in Command : c = request[r].cmd /\ status[c] = "running"
  BY <1>1, ResumesRunning
<1>3. status' = [status EXCEPT ![c] = "succeeded"] /\ UNCHANGED kind
  BY <1>2 DEF AcceptResult, Settle
<1>4. /\ recorded \in [Command -> Nat]
      /\ recorded[c] > 0 => kind[c] # "readonly"
  BY DEF RInv, IInv, TypeOK, RecordsAreSound
<1>5. recorded' = IF Writes(c) THEN [recorded EXCEPT ![c] = recorded[c] + 1] ELSE recorded
  BY <1>2 DEF AcceptResult
<1>6. /\ recorded'[c] > 0 <=> kind[c] # "readonly"
      /\ \A d \in Command : d # c => recorded'[d] = recorded[d]
  BY <1>4, <1>5 DEF Writes
<1>7. OnRecord' = [OnRecord EXCEPT ![c] = kind[c] # "readonly"]
  <2> DEFINE there == kind[c] # "readonly"
             After(d) == recorded'[d] > 0
             Before(d) == recorded[d] > 0
  <2>1. (After(c) <=> there) /\ \A d \in Command : d # c => (After(d) <=> Before(d))
    BY <1>6
  <2>2. OnRecord = [d \in Command |-> Before(d)] /\ OnRecord' = [d \in Command |-> After(d)]
    BY DEF OnRecord
  <2>3. there \in BOOLEAN /\ \A d \in Command : After(d) \in BOOLEAN /\ Before(d) \in BOOLEAN
    OBVIOUS
  <2> HIDE DEF there, After, Before
  <2>4. [d \in Command |-> After(d)] = [[d \in Command |-> Before(d)] EXCEPT ![c] = there]
    BY <1>2, <2>1, <2>3, Zenon
  <2>5. QED
    BY <2>2, <2>4, Zenon DEF there
<1>8. QED
  BY <1>2, <1>3, <1>7 DEF Lifecycle!Succeed, OnRecord

LEMMA StepImplements == RInv /\ [Next]_vars => [Lifecycle!Next]_(Lifecycle!vars)
<1> SUFFICES ASSUME RInv, [Next]_vars PROVE Lifecycle!Next \/ UNCHANGED Lifecycle!vars
  OBVIOUS
<1>1. CASE UNCHANGED <<status, kind, recorded>>
  BY <1>1, LifecycleStutters
<1>2. CASE \E c \in Command, w \in Worker, k \in Kind : Issue(c, w, k)
  <2>1. PICK c \in Command, w \in Worker, k \in Kind : Issue(c, w, k)
    BY <1>2
  <2>2. OnRecord' = OnRecord
    BY <2>1 DEF Issue, OnRecord
  <2>3. Lifecycle!Issue(c, k)
    BY <2>1, <2>2 DEF Issue, Lifecycle!Issue, OnRecord
  <2>4. QED
    BY <2>3 DEF Lifecycle!Next, Kind
<1>3. CASE \E c \in Command, w \in Worker : Poll(w, c) \/ PollLost(w, c)
  BY <1>3, ClaimDelivers DEF Poll, PollLost, Lifecycle!Next
<1>4. CASE \E r \in Request : AcceptResult(r)
  BY <1>4, AcceptSucceeds DEF Lifecycle!Next
<1>5. CASE \E r \in Request : RefuseResult(r) \/ AcceptFailure(r)
  BY <1>5, SettleFails DEF RefuseResult, AcceptFailure, Lifecycle!Next
<1>6. CASE \E r \in Request : DatabaseFails(r)
  BY <1>1, <1>6, SettleFails DEF DatabaseFails, row, Lifecycle!Next
<1>7. CASE \/ \E c \in Command : LeaseLapses(c)
           \/ \E w \in Worker : \/ GiveUp(w) \/ Restart(w) \/ Crash(w)
                                \/ \E r \in Request : ExecuteSucceeds(w, r)
                                                      \/ ExecuteFails(w, r)
           \/ \E r \in Request : BeginReport(r) \/ Acknowledge(r) \/ RequestLost(r)
  BY <1>1, <1>7 DEF LeaseLapses, GiveUp, Restart, Crash, ExecuteSucceeds, ExecuteFails,
     BeginReport, Acknowledge, RequestLost, row
<1>8. QED
  BY <1>1, <1>2, <1>3, <1>4, <1>5, <1>6, <1>7
  DEF Next, WorkerStep, Handle, Disturb, vars

\* While the routes hold one report at a time, the channel does what it promises
\* the operator: each command is delivered and finished once, its record appears
\* with its success, and redelivery, crashes and repeated reports are invisible.
THEOREM ChannelImplementsLifecycle ==
  ASSUME OneReportAtATime
  PROVE  Spec => ImplementsLifecycle
BY InitRInv, StepRInv, LifecycleInit, StepImplements, PTL
DEF Spec, ImplementsLifecycle, Lifecycle!Spec
=============================================================================
