--------------------------- MODULE CommandChannel ---------------------------
(***************************************************************************)
(* The worker command channel: the worker_commands table of the controller *)
(* (backend/app/services/worker_commands.py), the claim / result / fail    *)
(* routes (backend/app/api/routes/workers.py) and the single-threaded      *)
(* polling loop of the Go worker (worker/cmd/liveline-worker/main.go).     *)
(*                                                                         *)
(* A worker polls for its oldest claimable command, executes it on its     *)
(* host, and reports through POST /result or POST /fail; a report that got *)
(* no answer is sent again with curl, and a result that could not be       *)
(* submitted is reported as a failure.  Both report routes are coroutines  *)
(* that read the command row, then await the request body, then act on the *)
(* row as they read it: between the two halves any other request may run.  *)
(*                                                                         *)
(* Abstractions.  The 90 s lease is the three values "none", "held" and    *)
(* "lapsed".  The host is one Boolean per command: whether the command's   *)
(* effect (a node, a forwarding route, a removal) is in place.  The        *)
(* controller's record of that effect is a count of the times it was       *)
(* written.  A command of kind                                             *)
(*   "readonly"  changes nothing (ping, collect_status, preflights),       *)
(*   "once"      is refused by the controller if its record is there       *)
(*               already (landing_node_create, the cleanup commands),      *)
(*   "route"     is acknowledged without a second write in that case       *)
(*               (transit_route_create).                                   *)
(* MaxFaults bounds the crashes, lost messages and database errors.        *)
(***************************************************************************)
EXTENDS Integers, Sequences

CONSTANTS
  Command,     \* ids of rows of worker_commands
  Worker,      \* worker identities, one process each
  Request,     \* slots for report requests the controller may hold at a time
  None,        \* "no command" / "no request"
  MaxFaults    \* bound on the faults of a behaviour

ASSUME NoneAssumption   == None \notin Command \cup Request
ASSUME FaultsAssumption == MaxFaults \in Nat

VARIABLES
  status,   \* worker_commands.status, "absent" before the row is inserted
  lease,    \* worker_commands.lease_until against the clock
  owner,    \* worker_commands.worker_id
  kind,     \* what command_type does, see above
  issued,   \* the rows in created_at order
  recorded, \* times the controller wrote the effect of a command
  effect,   \* whether the effect of a command is in place on the host
  proc,     \* the worker processes
  request,  \* the report requests on their way or in a handler
  faults    \* faults so far

vars == <<status, lease, owner, kind, issued, recorded, effect, proc, request,
          faults>>

row == <<status, lease, owner, kind, issued, recorded>>

Terminal    == {"succeeded", "failed"}
Unfinished  == {"pending", "running"}
Status      == {"absent"} \cup Unfinished \cup Terminal
Kind        == {"readonly", "once", "route"}
Form        == {"result", "fail"}
Stage       == {"result", "result_curl", "fail", "fail_curl"}

\* The report a stage of the worker sends.
FormOf(stage) == IF stage \in {"result", "result_curl"} THEN "result" ELSE "fail"

At(pc, c) == [pc |-> pc, cmd |-> c, req |-> None, stage |-> "result"]
Idle == At("idle", None)
Free == [state |-> "free", cmd |-> None, form |-> "fail", seen |-> "absent"]

Process == [pc    : {"idle", "down", "execute", "report"},
            cmd   : Command \cup {None},
            req   : Request \cup {None},
            stage : Stage]

Report == [state : {"free", "sent", "reading"},
           cmd   : Command \cup {None},
           form  : Form,
           seen  : Status]

TypeOK ==
  /\ status   \in [Command -> Status]
  /\ lease    \in [Command -> {"none", "held", "lapsed"}]
  /\ owner    \in [Command -> Worker \cup {None}]
  /\ kind     \in [Command -> Kind]
  /\ issued   \in Seq(Command)
  /\ recorded \in [Command -> Nat]
  /\ effect   \in [Command -> BOOLEAN]
  /\ proc     \in [Worker -> Process]
  /\ request  \in [Request -> Report]
  /\ faults   \in 0 .. MaxFaults

Init ==
  /\ status   = [c \in Command |-> "absent"]
  /\ lease    = [c \in Command |-> "none"]
  /\ owner    = [c \in Command |-> None]
  /\ kind     = [c \in Command |-> "readonly"]
  /\ issued   = <<>>
  /\ recorded = [c \in Command |-> 0]
  /\ effect   = [c \in Command |-> FALSE]
  /\ proc     = [w \in Worker |-> Idle]
  /\ request  = [r \in Request |-> Free]
  /\ faults   = 0

Fault   == faults < MaxFaults /\ faults' = faults + 1
NoFault == UNCHANGED faults

-----------------------------------------------------------------------------
(***************************************************************************)
(* The controller's table.                                                 *)
(***************************************************************************)

\* An operator's request inserts a command for the worker it resolved.
Issue(c, w, k) ==
  /\ status[c] = "absent"
  /\ status' = [status EXCEPT ![c] = "pending"]
  /\ owner'  = [owner EXCEPT ![c] = w]
  /\ kind'   = [kind EXCEPT ![c] = k]
  /\ issued' = Append(issued, c)
  /\ UNCHANGED <<lease, recorded, effect, proc, request>>
  /\ NoFault

\* Slips of the claim's filter: a finished row, or no expired lease.
Claimable_AnyStatus(c, w) ==
  owner[c] = w /\ status[c] # "absent" /\ lease[c] # "held"
Claimable_PendingOnly(c, w) == owner[c] = w /\ status[c] = "pending"

Claimable(c, w) ==
  /\ owner[c] = w
  /\ status[c] \in Unfinished
  /\ lease[c] # "held"

\* The claim takes the oldest claimable row.
NextClaim(c, w) ==
  \E i \in DOMAIN issued :
    /\ issued[i] = c
    /\ Claimable(c, w)
    /\ \A j \in 1 .. (i - 1) : ~Claimable(issued[j], w)

Claim(c) ==
  /\ status' = [status EXCEPT ![c] = "running"]
  /\ lease'  = [lease EXCEPT ![c] = "held"]
  /\ UNCHANGED <<owner, kind, issued, recorded>>

\* lease_until passes.
LeaseLapses(c) ==
  /\ lease[c] = "held"
  /\ lease' = [lease EXCEPT ![c] = "lapsed"]
  /\ UNCHANGED <<status, owner, kind, issued, recorded, effect, proc, request>>
  /\ NoFault

-----------------------------------------------------------------------------
(***************************************************************************)
(* The worker.                                                             *)
(***************************************************************************)

\* A poll whose answer arrives.
Poll(w, c) ==
  /\ proc[w].pc = "idle"
  /\ NextClaim(c, w)
  /\ Claim(c)
  /\ proc' = [proc EXCEPT ![w] = At("execute", c)]
  /\ UNCHANGED <<effect, request>>
  /\ NoFault

\* The claim is committed and its answer is lost: the poll is not repeated.
PollLost(w, c) ==
  /\ proc[w].pc = "idle"
  /\ NextClaim(c, w)
  /\ Claim(c)
  /\ UNCHANGED <<effect, proc, request>>
  /\ Fault

\* A fresh report request of w about c goes out in slot r.
Send(w, c, stage, r) ==
  /\ request[r] = Free
  /\ request' = [request EXCEPT ![r] = [state |-> "sent", cmd |-> c,
                                        form |-> FormOf(stage),
                                        seen |-> "absent"]]
  /\ proc' = [proc EXCEPT ![w] = [pc |-> "report", cmd |-> c, req |-> r,
                                  stage |-> stage]]

\* Create and cleanup refuse a host on which their effect is in place.
ExecuteSucceeds(w, r) ==
  LET c == proc[w].cmd IN
  /\ proc[w].pc = "execute"
  /\ kind[c] = "readonly" \/ ~effect[c]
  /\ effect' = [effect EXCEPT ![c] = kind[c] # "readonly"]
  /\ Send(w, c, "result", r)
  /\ UNCHANGED row
  /\ NoFault

\* Slip: an execution error is reported as a result.
ExecuteFails_AsResult(w, r) ==
  /\ proc[w].pc = "execute"
  /\ Send(w, proc[w].cmd, "result", r)
  /\ UNCHANGED <<row, effect>>
  /\ NoFault

\* Any step of the execution may fail; what it changed is rolled back.
ExecuteFails(w, r) ==
  /\ proc[w].pc = "execute"
  /\ Send(w, proc[w].cmd, "fail", r)
  /\ UNCHANGED <<row, effect>>
  /\ NoFault

\* What is sent after a report of the first kind got no answer.
NextStages == {<<"result", "result_curl">>, <<"result", "fail">>,
               <<"result_curl", "fail">>, <<"fail", "fail_curl">>}

\* No answer in time: curl sends the same report again when the error is one
\* it is meant for, a result that cannot be submitted becomes a failure, and a
\* failure that cannot be submitted is dropped.  The request that was not
\* answered may still be on its way: giving up on it is a fault.
GiveUp(w) ==
  LET p == proc[w] IN
  /\ p.pc = "report"
  /\ \/ /\ \E s \in Stage, r \in Request :
           <<p.stage, s>> \in NextStages /\ Send(w, p.cmd, s, r)
     \/ /\ p.stage \in {"fail", "fail_curl"}
        /\ proc' = [proc EXCEPT ![w] = Idle]
        /\ UNCHANGED request
  /\ IF p.req = None THEN NoFault ELSE Fault
  /\ UNCHANGED <<row, effect>>

\* The process is killed; an execution may have had its effect by then.
Crash(w) ==
  LET c == proc[w].cmd IN
  /\ proc[w].pc # "down"
  /\ proc' = [proc EXCEPT ![w] = At("down", None)]
  /\ \/ UNCHANGED effect
     \/ /\ proc[w].pc = "execute"
        /\ kind[c] # "readonly"
        /\ effect' = [effect EXCEPT ![c] = TRUE]
  /\ UNCHANGED <<row, request>>
  /\ Fault

\* systemd restarts the worker, which remembers no command.
Restart(w) ==
  /\ proc[w].pc = "down"
  /\ proc' = [proc EXCEPT ![w] = Idle]
  /\ UNCHANGED <<row, effect, request>>
  /\ NoFault

-----------------------------------------------------------------------------
(***************************************************************************)
(* The report routes.                                                      *)
(***************************************************************************)

\* First half: authenticate, read the row, then await the body.
BeginReport(r) ==
  /\ request[r].state = "sent"
  /\ request' = [request EXCEPT ![r].state = "reading",
                                ![r].seen  = status[request[r].cmd]]
  /\ UNCHANGED <<row, effect, proc>>
  /\ NoFault

\* What the worker makes of an answer: a definite refusal is not repeated.
AfterRefusal(stage) ==
  IF FormOf(stage) = "result" THEN "result_curl" ELSE "fail_curl"

Answered(p, reply) ==
  IF reply = "ok"
  THEN Idle
  ELSE [pc    |-> p.pc,
        cmd   |-> p.cmd,
        req   |-> None,
        stage |-> IF reply = "lost" THEN p.stage ELSE AfterRefusal(p.stage)]

\* The request in slot r ends; the worker hears of it if it still waits.
End(r, reply) ==
  /\ request' = [request EXCEPT ![r] = Free]
  /\ proc' = [w \in Worker |-> IF proc[w].pc = "report" /\ proc[w].req = r
                               THEN Answered(proc[w], reply)
                               ELSE proc[w]]

\* The answer is sent, and may be lost.
Answer(r) ==
  \/ End(r, "ok") /\ NoFault
  \/ End(r, "lost") /\ Fault

\* The connection breaks before the body is in.
RequestLost(r) ==
  /\ request[r].state # "free"
  /\ End(r, "lost")
  /\ UNCHANGED <<row, effect>>
  /\ Fault

\* Slip: the row gets a status outside the set the routes know.
Settle_Done(c, outcome) ==
  /\ status' = [status EXCEPT ![c] = "done"]
  /\ lease'  = [lease EXCEPT ![c] = "none"]
  /\ UNCHANGED <<owner, kind, issued>>

Settle(c, outcome) ==
  /\ status' = [status EXCEPT ![c] = outcome]
  /\ lease'  = [lease EXCEPT ![c] = "none"]
  /\ UNCHANGED <<owner, kind, issued>>

\* Second half: the row, as this request read it, decides.
Resumes(r) == request[r].state = "reading" /\ request[r].seen \notin Terminal

\* A report about a finished command is acknowledged and ignored.
Acknowledge(r) ==
  /\ request[r].state = "reading"
  /\ request[r].seen \in Terminal
  /\ Answer(r)
  /\ UNCHANGED <<row, effect>>

\* Slip: the records are not looked at before the write.
Writes_Unchecked(c) == kind[c] # "readonly"

\* The write of a result's effect looks at the records of now.
CanRecord(c) == kind[c] = "once" => recorded[c] = 0
Writes(c)    == kind[c] # "readonly" /\ recorded[c] = 0

AcceptResult(r) ==
  LET c == request[r].cmd IN
  /\ Resumes(r)
  /\ request[r].form = "result"
  /\ CanRecord(c)
  /\ recorded' = IF Writes(c) THEN [recorded EXCEPT ![c] = @ + 1] ELSE recorded
  /\ Settle(c, "succeeded")
  /\ Answer(r)
  /\ UNCHANGED effect

\* Slip: a refused result still completes the command.
RefuseResult_Completes(r) ==
  LET c == request[r].cmd IN
  /\ Resumes(r)
  /\ request[r].form = "result"
  /\ Settle(c, "succeeded")
  /\ Answer(r)
  /\ UNCHANGED <<recorded, effect>>

\* The result is malformed, or the records it is about have changed.
RefuseResult(r) ==
  LET c == request[r].cmd IN
  /\ Resumes(r)
  /\ request[r].form = "result"
  /\ Settle(c, "failed")
  /\ Answer(r)
  /\ UNCHANGED <<recorded, effect>>

AcceptFailure(r) ==
  LET c == request[r].cmd IN
  /\ Resumes(r)
  /\ request[r].form = "fail"
  /\ Settle(c, "failed")
  /\ Answer(r)
  /\ UNCHANGED <<recorded, effect>>

\* The transaction fails and is rolled back.  The result route then reads the
\* row again and marks it failed unless it is finished by now; that write may
\* fail as well.
DatabaseFails(r) ==
  LET c == request[r].cmd IN
  /\ Resumes(r)
  /\ \/ /\ request[r].form = "result"
        /\ status[c] \notin Terminal
        /\ Settle(c, "failed")
        /\ UNCHANGED recorded
        /\ End(r, "ok")
     \/ UNCHANGED row /\ End(r, "error")
  /\ UNCHANGED effect
  /\ Fault

-----------------------------------------------------------------------------
WorkerStep(w) ==
  \/ \E c \in Command : Poll(w, c)
  \/ \E r \in Request : ExecuteSucceeds(w, r) \/ ExecuteFails(w, r)
  \/ GiveUp(w)
  \/ Restart(w)

Handle(r) ==
  \/ BeginReport(r)
  \/ Acknowledge(r)
  \/ AcceptResult(r)
  \/ RefuseResult(r)
  \/ AcceptFailure(r)

Disturb ==
  \/ \E w \in Worker : Crash(w) \/ \E c \in Command : PollLost(w, c)
  \/ \E r \in Request : RequestLost(r) \/ DatabaseFails(r)

Next ==
  \/ \E c \in Command, w \in Worker, k \in Kind : Issue(c, w, k)
  \/ \E c \in Command : LeaseLapses(c)
  \/ \E w \in Worker : WorkerStep(w)
  \/ \E r \in Request : Handle(r)
  \/ Disturb

Spec == Init /\ [][Next]_vars

\* The loop of a worker goes on (systemd restarts it, its HTTP client times
\* out), a handler that has its body ends, and a lease passes.
Fairness ==
  /\ \A w \in Worker : WF_vars(WorkerStep(w))
  /\ \A r \in Request : WF_vars(Handle(r))
  /\ \A c \in Command : WF_vars(LeaseLapses(c))

FairSpec == Spec /\ Fairness

-----------------------------------------------------------------------------
(***************************************************************************)
(* Properties.                                                             *)
(***************************************************************************)

\* The controller writes the record of a command's effect at most once, however
\* often the worker executes it and however many of its reports the routes hold
\* at a time: the duplicate checks of the three persist functions read the
\* records after the body is in, in the same step as the write.
RecordedOnce == \A c \in Command : recorded[c] <= 1

\* A record exists only for an effect the worker has put in place: a claim that
\* is lost, a crash, a failed execution or a late report never leaves a record
\* of a node, route or removal that did not happen on the host.
RecordedOnlyIfEffective == \A c \in Command : recorded[c] > 0 => effect[c]

\* A command marked succeeded has its record, whichever of several concurrent
\* reports marked it and whatever the others did before.
SucceededIsRecorded ==
  \A c \in Command : status[c] = "succeeded" /\ kind[c] # "readonly"
                       => recorded[c] = 1

\* A finished command is never handed out or executed again: no claim, late
\* report or error path brings it back to an unfinished status.
FinishedStaysFinished ==
  [][\A c \in Command : status[c] \in Terminal => status'[c] \in Terminal]_vars

\* The promise of the channel to the operator.  The routes keep it only while
\* they hold one report at a time: the status a second one tests is the one read
\* before its body was awaited.
Lifecycle == INSTANCE CommandLifecycle
               WITH recorded <- [c \in Command |-> recorded[c] > 0]

\* With one report at a time every behaviour of the channel is one of the
\* lifecycle: redelivery, crashes, lost answers and repeated reports are
\* invisible, a report about a command that is finished changes nothing, and a
\* command that is marked failed leaves no record.
ImplementsLifecycle == Lifecycle!Spec

\* Every command that is issued is finished in the end, whatever was lost on
\* the way: it is redelivered after its lease until some report is accepted.
EveryCommandFinishes ==
  \A c \in Command : status[c] = "pending" ~> status[c] \in Terminal
=============================================================================
