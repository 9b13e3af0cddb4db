----------------------------- MODULE TaskHistory -----------------------------
(***************************************************************************)
(* TaskHistoryPanel (frontend/components): the latest tasks, newest first, *)
(* the one whose details are shown, and its log lines, which are read      *)
(* anew whenever another task comes on display.                            *)
(*                                                                         *)
(* Tasks are numbers in the order of their creation.  The list holds the   *)
(* newest Limit of them, so that the selected task may fall off the list:  *)
(* the newest one is on display then, and the selection stays.             *)
(***************************************************************************)
EXTENDS Integers, FiniteSets

CONSTANTS
  Call,
  Limit,     \* tasks in a list: 30
  MaxTasks,  \* bound
  None

VARIABLES panel, call, controller

vars == <<panel, call, controller>>

Task == 1..MaxTasks

\* newest: of the list that was read last, 0 before.  logs: the task of the log
\* lines, None when there are none.
\* History: "chosen" is the task the operator clicked last, "during" says that
\* a list was awaited then, "overtaken" that log lines were set after those of
\* a later request, or that the last request for some was refused or lost.
Panel == [newest : 0..MaxTasks, selected : Task \cup {None}, logs : Task \cup {None},
          loading : BOOLEAN, chosen : Task \cup {None}, during : BOOLEAN, overtaken : BOOLEAN]

\* A call for the list keeps the selection of its render; a call for log lines
\* is "last" while none was made after it.
CallRow == [op : {"none", "list", "logs"}, task : Task \cup {None}, read : BOOLEAN,
            newest : 0..MaxTasks, last : BOOLEAN]

NoCall == [op |-> "none", task |-> None, read |-> FALSE, newest |-> 0, last |-> FALSE]

\* controller: the number of tasks.
TypeOK == panel \in Panel /\ call \in [Call -> CallRow] /\ controller \in 0..MaxTasks

Init ==
  /\ panel = [newest |-> 0, selected |-> None, logs |-> None, loading |-> TRUE,
              chosen |-> None, during |-> FALSE, overtaken |-> FALSE]
  /\ \E c \in Call : call = [k \in Call |-> IF k = c THEN [NoCall EXCEPT !.op = "list"] ELSE NoCall]
  /\ controller \in 0..1

-----------------------------------------------------------------------------
ListOf(newest) == {t \in Task : t <= newest /\ t > newest - Limit}

\* selectedTask: the selection while it is listed, the newest task otherwise.
SelectedTask(p) ==
  IF p.selected \in ListOf(p.newest) THEN p.selected
  ELSE IF p.newest > 0 THEN p.newest ELSE None

\* The task whose details and log lines are on display.
Shown == SelectedTask(panel)

Finished(c) == [call EXCEPT ![c] = NoCall]

\* Mutated: the effect is on the selection.
WithLogs_Selection(p, calls) ==
  IF p.selected = panel.selected THEN panel' = p /\ call' = calls
  ELSE /\ panel' = [p EXCEPT !.overtaken = FALSE]
       /\ \E c \in Call :
            /\ calls[c].op = "none"
            /\ call' = [[k \in Call |-> [calls[k] EXCEPT !.last = FALSE]]
                         EXCEPT ![c] = [NoCall EXCEPT !.op = "logs", !.task = SelectedTask(p),
                                                      !.last = TRUE]]

\* The effect on the id of the task on display: its log lines are asked for, in
\* a slot that is free.
WithLogs(p, calls) ==
  LET t == SelectedTask(p)
      earlier == [k \in Call |-> [calls[k] EXCEPT !.last = FALSE]]
  IN IF t = Shown THEN panel' = p /\ call' = calls
     ELSE /\ panel' = [p EXCEPT !.overtaken = FALSE]
          /\ \E c \in Call :
               /\ calls[c].op = "none"
               /\ call' = [earlier EXCEPT ![c] = [NoCall EXCEPT !.op = "logs", !.task = t, !.last = TRUE]]

LoadTasks(c) ==
  /\ ~panel.loading
  /\ call[c].op = "none"
  /\ panel' = [panel EXCEPT !.loading = TRUE]
  /\ call' = [call EXCEPT ![c] = [NoCall EXCEPT !.op = "list", !.task = panel.selected]]
  /\ UNCHANGED controller

SelectTask(t) ==
  /\ t \in ListOf(panel.newest)
  /\ WithLogs([panel EXCEPT !.selected = t, !.chosen = t,
                            !.during = \E c \in Call : call[c].op = "list"], call)
  /\ UNCHANGED controller

TaskCreated ==
  /\ controller < MaxTasks
  /\ controller' = controller + 1
  /\ UNCHANGED <<panel, call>>

ReadTasks(c) ==
  /\ call[c].op = "list" /\ ~call[c].read
  /\ call' = [call EXCEPT ![c].read = TRUE, ![c].newest = controller]
  /\ UNCHANGED <<panel, controller>>

\* nextSelectedId is never given: the selection of the render, or the newest task.
NextSelected(c) ==
  IF call[c].task # None THEN call[c].task
  ELSE IF call[c].newest > 0 THEN call[c].newest ELSE None

TasksLoaded(c) ==
  /\ call[c].op = "list" /\ call[c].read
  /\ WithLogs([panel EXCEPT !.newest = call[c].newest, !.selected = NextSelected(c),
                            !.loading = FALSE], Finished(c))
  /\ UNCHANGED controller

TasksRefused(c) ==
  /\ call[c].op = "list"
  /\ panel' = [panel EXCEPT !.loading = FALSE]
  /\ call' = Finished(c)
  /\ UNCHANGED controller

LastLogsAwaited == \E c \in Call : call[c].last

\* The log lines are shown whatever task is on display by now.
LogsLoaded(c) ==
  /\ call[c].op = "logs"
  /\ panel' = [panel EXCEPT !.logs = call[c].task, !.overtaken = @ \/ ~LastLogsAwaited]
  /\ call' = Finished(c)
  /\ UNCHANGED controller

\* A refusal empties the lines; a fetch that rejects leaves those of before.
LogsFail(c) ==
  /\ call[c].op = "logs"
  /\ \E logs \in {None, panel.logs} :
       panel' = [panel EXCEPT !.logs = logs,
                              !.overtaken = @ \/ call[c].last \/ ~LastLogsAwaited]
  /\ call' = Finished(c)
  /\ UNCHANGED controller

Next ==
  \/ TaskCreated
  \/ \E t \in Task : SelectTask(t)
  \/ \E c \in Call : \/ LoadTasks(c) \/ ReadTasks(c) \/ TasksLoaded(c) \/ TasksRefused(c)
                     \/ LogsLoaded(c) \/ LogsFail(c)

Spec == Init /\ [][Next]_vars

-----------------------------------------------------------------------------
(* Properties. *)

\* Once no log lines are awaited, those shown are of the task on display, be it
\* the selected one or the newest in its place, unless the answers came in
\* another order than the requests or the last request failed: loadLogs sets
\* what arrives.
LogsAreOfTheTask ==
  (\A c \in Call : call[c].op # "logs") /\ ~panel.overtaken
    => panel.logs = Shown

\* A refresh leaves the selection to the operator, unless it was under way at
\* the click: loadTasks selects again what was selected at its start.
SelectionStays == panel.chosen # None /\ ~panel.during => panel.selected = panel.chosen

\* The list is never replaced by one that was read before: only one is awaited
\* at a time.
ListGoesForwardAction == panel'.newest >= panel.newest
ListGoesForward == [][ListGoesForwardAction]_vars
=============================================================================
