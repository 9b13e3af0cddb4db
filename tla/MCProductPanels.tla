-------------------------- MODULE MCProductPanels ---------------------------
(***************************************************************************)
(* CustomerLinesPanel, TaskHistoryPanel, the line builder, and the         *)
(* creation of a node from the server list in one run: each behaviour is   *)
(* one of the panel that "mode" names, since the console mounts one panel  *)
(* at a time and what a panel asked for finds nobody once it is gone.      *)
(***************************************************************************)
EXTENDS Panels, Naturals

CONSTANTS
  Node, Route, Demo, Customer,
  TaskCall, Limit, MaxTasks,
  Host, Port, MaxCreationPolls

Lines == INSTANCE CustomerLines
Tasks == INSTANCE TaskHistory WITH Call <- TaskCall
Direct == INSTANCE DirectNode WITH Server <- Host
Create == INSTANCE NodeCreate WITH Server <- Host, MaxPolls <- MaxCreationPolls

\* None is none of the values it stands in for, there is a default port, and the
\* bounds are numbers.
ASSUME ProductPanelsAssumption ==
  /\ None \notin Lines!Line \cup Customer \cup Lines!Draft
  /\ None \notin Tasks!Task /\ Limit \in Nat /\ MaxTasks \in Nat \ {0}
  /\ Port # {} /\ None \notin Host \cup Direct!Config
  /\ None \notin Create!Place \cup Create!Command
  /\ MaxCreationPolls \in Nat /\ MaxCommands \in Nat

ProductInit ==
  \/ mode = "lines" /\ Lines!Init
  \/ mode = "tasks" /\ Tasks!Init
  \/ mode = "direct" /\ Direct!Init
  \/ mode = "create" /\ Create!Init

ProductNext ==
  \/ mode = "lines" /\ Lines!Next /\ UNCHANGED mode
  \/ mode = "tasks" /\ Tasks!Next /\ UNCHANGED mode
  \/ mode = "direct" /\ Direct!Next /\ UNCHANGED mode
  \/ mode = "create" /\ Create!Next /\ UNCHANGED mode

\* The fairness of NodeCreate.
CreateFlowStep == mode = "create" /\ Create!FlowStep /\ UNCHANGED mode

ProductFairSpec == ProductInit /\ [][ProductNext]_vars /\ WF_vars(CreateFlowStep)

\* What was asked for one line, task or host stays with it: the draft and the
\* revealed content are those of the line in the modal, the log lines those of
\* the task on display, the install command that of the host in the form; and a
\* list read late takes neither filter nor selection away from the operator.
AnswersKeepToTheirOwner ==
  /\ [](mode = "lines" => /\ Lines!DraftIsOfItsLine
                          /\ Lines!RevealedWasAsked
                          /\ Lines!FilterIsOffered)
  /\ [](mode = "tasks" => Tasks!LogsAreOfTheTask /\ Tasks!SelectionStays)
  /\ [][mode = "tasks" => Tasks!ListGoesForwardAction]_vars
  /\ [](mode = "direct" => Direct!CommandIsOfTheForm)

\* A node is created once, and as it was approved: by the plan on display in the
\* line builder, by the firewalls confirmed in the server list.
CreatedAsApproved ==
  /\ mode = "direct" => Direct!CreatedAsPlanned /\ Direct!OneCommandPerPlan
  /\ mode = "create" => Create!CreatedPlaceWasConfirmed /\ Create!OneCreationAtATime

\* What the modal of a creation says is so: the node it shows was made by its own
\* flow, and a failure left none behind (NodeCreate).
Create_OutcomeIsTold ==
  mode = "create" => Create!CreatedNodeIsReal /\ Create!FailedLeavesNoNode

\* A submitted creation comes to an end for the operator (NodeCreate).
Create_CreationEnds == (mode = "create" /\ panel.submitting) ~> (mode = "create" /\ ~panel.submitting)
=============================================================================
