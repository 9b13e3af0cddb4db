------------------------------ MODULE BbrPanel ------------------------------
(***************************************************************************)
(* BBR in ServerManagementPanel (frontend/components): the plan, the dry   *)
(* run, and the real execution behind a confirmation modal, next to the    *)
(* worker checks and preflights whose commands share the table of latest   *)
(* commands.  The button of the real execution is there while the latest   *)
(* command of the server, as the table has it, is a dry run that succeeded. *)
(*                                                                         *)
(* A command is its number in the history of its server; a call is handled *)
(* and answered in two steps where it reads commands, in one where it      *)
(* creates one.  Loading flags name one server at a time, as in the code.  *)
(***************************************************************************)
EXTENDS Integers, FiniteSets, Sequences, Functions

CONSTANTS Server, Call, MaxCommands, MaxPolls, None

VARIABLES panel, call, controller

vars == <<panel, call, controller>>

Kind == {"check", "dryRun", "real"}
Status == {"running", "succeeded", "failed"}
Command == [kind : Kind, status : Status]
Shown == [id : 0..MaxCommands, kind : Kind, status : Status]
NothingShown == [id |-> 0, kind |-> "check", status |-> "running"]

\* latest: latestWorkerCommandByServerId; dryLoading, realLoading, checkLoading:
\* the single-valued loading flags; confirm: the server of the modal, error the
\* server whose failure it shows.  History: "switched" that the modal was
\* closed or changed while a real execution was requested, "overlapped" that
\* requests for two servers were under way together.
Panel == [plan : [Server -> BOOLEAN], latest : [Server -> Shown],
          dryLoading : Server \cup {None}, realLoading : Server \cup {None},
          checkLoading : Server \cup {None}, confirm : Server \cup {None},
          error : Server \cup {None}, switched : BOOLEAN, overlapped : BOOLEAN]

\* "seen" is history: the number of the latest command shown at the request.
CallRow == [op : {"none", "plan", "check", "dryRun", "real", "list", "watch"},
            server : Server \cup {None}, read : Shown, id : 0..MaxCommands,
            n : 0..MaxPolls, seen : 0..MaxCommands]

NoCall == [op |-> "none", server |-> None, read |-> NothingShown, id |-> 0, n |-> 0, seen |-> 0]

TypeOK ==
  /\ panel \in Panel
  /\ call \in [Call -> CallRow]
  /\ \A s \in Server : /\ Len(controller[s]) <= MaxCommands
                       /\ \A i \in 1..Len(controller[s]) : controller[s][i] \in Command

Init ==
  /\ panel = [plan |-> [s \in Server |-> FALSE], latest |-> [s \in Server |-> NothingShown],
              dryLoading |-> None, realLoading |-> None, checkLoading |-> None,
              confirm |-> None, error |-> None, switched |-> FALSE, overlapped |-> FALSE]
  /\ call = [c \in Call |-> NoCall]
  /\ controller = [s \in Server |-> <<>>]

-----------------------------------------------------------------------------
Free(c) == call[c].op = "none"
Begin(c, op, s, id) ==
  [NoCall EXCEPT !.op = op, !.server = s, !.id = id, !.seen = panel.latest[s].id]
Start(c, op, s, id) == call' = [call EXCEPT ![c] = Begin(c, op, s, id)]
Finish(c) == call' = [call EXCEPT ![c] = NoCall]
Requested(op) == {c \in Call : call[c].op = op}

\* Bound: MaxCommands in all.
Room == SumFunctionOnSet([s \in Server |-> Len(controller[s])], Server) < MaxCommands

ShownAs(s, i) == [id |-> i, kind |-> controller[s][i].kind, status |-> controller[s][i].status]

(* The operator; the confirmation modal covers the table. *)

OpenBbrEnablePlan(c, s) ==
  /\ panel.confirm = None /\ Free(c)
  /\ Start(c, "plan", s, 0)
  /\ UNCHANGED <<panel, controller>>

\* runWorkerCheck and runLandingPreflight; the flag is the worker's.
RunCheck(c, s) ==
  /\ panel.confirm = None /\ Free(c) /\ Room
  /\ panel.checkLoading # s
  /\ panel' = [panel EXCEPT !.checkLoading = s]
  /\ Start(c, "check", s, 0)
  /\ UNCHANGED controller

\* The plan of a server below its row, with the buttons of both runs.
PlanShown(s) == panel.confirm = None /\ panel.plan[s]

OpenBbrEnableDryRun(c, s) ==
  /\ PlanShown(s) /\ Free(c) /\ Room
  /\ panel.dryLoading # s
  /\ panel' = [panel EXCEPT !.dryLoading = s]
  /\ Start(c, "dryRun", s, 0)
  /\ UNCHANGED controller

DryRunSucceeded(s) ==
  panel.latest[s].kind = "dryRun" /\ panel.latest[s].status = "succeeded"

OpenBbrRealExecutionConfirm(s) ==
  /\ PlanShown(s) /\ DryRunSucceeded(s) /\ panel.realLoading # s
  /\ panel' = [panel EXCEPT !.confirm = s, !.error = None, !.switched = Requested("real") # {}]
  /\ UNCHANGED <<call, controller>>

Close(p) == [p EXCEPT !.confirm = None, !.error = None, !.switched = FALSE]

CloseBbrRealExecutionConfirm ==
  /\ panel.confirm # None
  /\ panel' = Close(panel)
  /\ UNCHANGED <<call, controller>>

\* Mutated: the button looks at no flag.
SubmitOffered_Always == panel.confirm # None

SubmitOffered == panel.confirm # None /\ panel.realLoading # panel.confirm

\* The confirmation text is typed; the plan and the latest command are not
\* looked at again.
SubmitBbrRealExecution(c) ==
  LET s == panel.confirm
  IN /\ SubmitOffered /\ Free(c) /\ Room
     /\ panel' = [panel EXCEPT !.realLoading = s, !.error = None,
                    !.overlapped = @ \/ \E k \in Requested("real") : call[k].server # s]
     /\ Start(c, "real", s, 0)
     /\ UNCHANGED controller

Refresh(c, s) ==
  /\ panel.confirm = None /\ Free(c)
  /\ controller[s] # <<>>
  /\ Start(c, "list", s, 0)
  /\ UNCHANGED <<panel, controller>>

-----------------------------------------------------------------------------
(* The controller. *)

\* The newest command for a list, its own command for a watch.
ReadCommands(c) ==
  LET s == call[c].server
  IN /\ call[c].op \in {"list", "watch"} /\ call[c].read.id = 0
     /\ call' = [call EXCEPT ![c].read =
                   ShownAs(s, IF call[c].op = "list" THEN Len(controller[s]) ELSE call[c].id)]
     /\ UNCHANGED <<panel, controller>>

CommandEnds(s) ==
  \E i \in 1..Len(controller[s]), status \in {"succeeded", "failed"} :
    /\ controller[s][i].status = "running"
    /\ controller[s][i].kind # "check"  \* nothing looks at the end of a check
    /\ controller' = [controller EXCEPT ![s][i].status = status]
    /\ UNCHANGED <<panel, call>>

-----------------------------------------------------------------------------
(* Continuations. *)

\* finally: the flag is cleared, whosever it is.
Settled(p, op, s) ==
  CASE op = "check" -> [p EXCEPT !.checkLoading = None]
    [] op = "dryRun" -> [p EXCEPT !.dryLoading = None]
    [] op = "real" -> [p EXCEPT !.realLoading = None,
                         !.overlapped = @ /\ Cardinality(Requested("real")) > 1]
    [] OTHER -> p

PlanAnswered(c) ==
  /\ call[c].op = "plan"
  /\ \E ready \in BOOLEAN : panel' = [panel EXCEPT !.plan[call[c].server] = ready]
  /\ Finish(c)
  /\ UNCHANGED controller

\* The command is created and shown; its list is read, and a dry run or a real
\* execution is watched.  A real execution closes the modal, whosever it is.
CommandCreated(c) ==
  LET s == call[c].server  op == call[c].op  id == Len(controller[s]) + 1
      p == [panel EXCEPT !.latest[s] = [id |-> id, kind |-> op, status |-> "running"]]
  IN /\ op \in {"check", "dryRun", "real"} /\ Room
     /\ controller' = [controller EXCEPT ![s] = Append(@, [kind |-> op, status |-> "running"])]
     /\ panel' = Settled(IF op = "real" THEN Close(p) ELSE p, op, s)
     /\ call' = [call EXCEPT ![c] = [NoCall EXCEPT !.op = "list", !.server = s, !.seen = id,
                                       !.id = IF op = "check" THEN 0 ELSE id]]

\* Refused, or the fetch rejects.
RequestFails(c) ==
  LET p == IF call[c].op = "real" /\ panel.confirm # None
           THEN [panel EXCEPT !.error = call[c].server] ELSE panel
  IN /\ call[c].op \in {"plan", "check", "dryRun", "real"}
     /\ panel' = Settled(p, call[c].op, call[c].server)
     /\ Finish(c)
     /\ UNCHANGED controller

\* The list that follows the creation of a dry run or a real execution begins
\* to watch it; the watch ends with a list.
Watch(c, n) == [NoCall EXCEPT !.op = "watch", !.server = call[c].server, !.id = call[c].id,
                              !.n = n, !.seen = call[c].read.id]

CommandsRead(c) ==
  LET s == call[c].server  read == call[c].read
  IN /\ read.id # 0
     /\ panel' = [panel EXCEPT !.latest[s] = read]
     /\ IF call[c].op = "watch" /\ (read.status = "running" => call[c].n + 1 >= MaxPolls)
        THEN call' = [call EXCEPT ![c] = [NoCall EXCEPT !.op = "list", !.server = s, !.seen = read.id]]
        ELSE IF call[c].op = "list" /\ call[c].id = 0 THEN Finish(c)
        ELSE call' = [call EXCEPT ![c] = Watch(c, IF call[c].op = "list" THEN 0 ELSE call[c].n + 1)]
     /\ UNCHANGED controller

\* A poll that is refused counts; one that rejects ends the watch.
ReadFails(c) ==
  /\ call[c].op \in {"list", "watch"}
  /\ Finish(c)
  /\ UNCHANGED <<panel, controller>>

Next ==
  \/ \E c \in Call : \/ SubmitBbrRealExecution(c) \/ ReadCommands(c) \/ PlanAnswered(c)
                     \/ CommandCreated(c) \/ RequestFails(c) \/ CommandsRead(c) \/ ReadFails(c)
                     \/ \E s \in Server : \/ OpenBbrEnablePlan(c, s) \/ RunCheck(c, s)
                                          \/ OpenBbrEnableDryRun(c, s) \/ Refresh(c, s)
  \/ \E s \in Server : OpenBbrRealExecutionConfirm(s) \/ CommandEnds(s)
  \/ CloseBbrRealExecutionConfirm

Spec == Init /\ [][Next]_vars

-----------------------------------------------------------------------------
(* Properties. *)

\* A real execution is confirmed only for a server whose dry run did succeed:
\* answers that come late show old commands, never ones that did not happen.
RealExecutionHadItsDryRun ==
  \A s \in Server :
    panel.confirm = s \/ (\E c \in Requested("real") : call[c].server = s)
      => \E i \in 1..Len(controller[s]) :
           controller[s][i] = [kind |-> "dryRun", status |-> "succeeded"]

\* One real execution of a server is requested at a time, unless executions of
\* two servers overlapped: the end of one clears the flag of the other.
OneRealRequestPerServer ==
  panel.overlapped \/
    \A c, k \in Requested("real") : call[c].server = call[k].server => c = k

\* The failure in the confirmation modal is one of its server, unless the
\* modal was opened while an execution was requested from an earlier one.
ErrorIsOfItsServer ==
  panel.error # None => panel.error = panel.confirm \/ panel.switched

\* A list takes the table back to an older command of a server only if the
\* table was moved while the list was awaited (loadWorkerCommands takes no
\* turns); a watch shows its own command, however old it is by now.
LatestGoesForwardAction ==
  \A c \in Call :
    CommandsRead(c) /\ call[c].op = "list" /\ panel.latest[call[c].server].id = call[c].seen
      => panel'.latest[call[c].server].id >= call[c].seen
LatestGoesForward == [][LatestGoesForwardAction]_vars
=============================================================================
