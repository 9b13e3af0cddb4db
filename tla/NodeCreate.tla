----------------------------- MODULE NodeCreate -----------------------------
(***************************************************************************)
(* The creation of a direct node from ServerManagementPanel                *)
(* (frontend/components): one async function that runs a preflight, asks   *)
(* for a plan, creates the command, polls it to its end and reads the      *)
(* server list, while its modal can be closed, opened for another server   *)
(* and filled in again.                                                    *)
(*                                                                         *)
(* "flow" is the one run of submitSimplifiedLandingNodeCreate that the     *)
(* flag "submitting" allows; what it was started with is its closure.  The *)
(* worker of a server runs one command at a time and refuses a port that   *)
(* has a node; ports stand for the whole form, the checks of the port's    *)
(* range are left out.                                                     *)
(***************************************************************************)
EXTENDS Integers, FiniteSets

CONSTANTS Server, Port, MaxPolls, MaxCommands, None

VARIABLES panel, call, controller

vars == <<panel, call, controller>>

Step == {"idle", "preflight_create", "preflight_running", "plan", "command_create",
         "command_running", "refresh", "complete", "failed"}

Place == [server : Server, port : Port]

\* The modal with its form, and the results any flow leaves in it.  History:
\* "ticked" the places the confirmation was ticked for, "reopened" that the
\* modal was closed since the flow began, "made" the command of the last flow, 0
\* for none, gaveUp the commands whose flow did not follow them to their end.
Panel == [server : Server \cup {None}, port : Port, confirmed : BOOLEAN, submitting : BOOLEAN,
          step : Step, created : Place \cup {None},
          ticked : SUBSET Place, reopened : BOOLEAN, made : 0..MaxCommands,
          gaveUp : SUBSET (1..MaxCommands)]

Flow == [at : {"none"} \cup Step, place : Place \cup {None}, n : 0..MaxPolls]

Command == [place : Place, status : {"running", "succeeded", "failed"}]

\* Nodes that are recorded with a share link, and landing_node_create commands.
Controller == [nodes : SUBSET Place, commands : [1..MaxCommands -> Command \cup {None}]]

NoFlow == [at |-> "none", place |-> None, n |-> 0]

TypeOK == panel \in Panel /\ call \in Flow /\ controller \in Controller

Init ==
  /\ \E port \in Port :
       panel = [server |-> None, port |-> port, confirmed |-> FALSE, submitting |-> FALSE,
                step |-> "idle", created |-> None, ticked |-> {}, reopened |-> FALSE,
                made |-> 0, gaveUp |-> {}]
  /\ call = NoFlow
  /\ \E nodes \in {{}} \cup {{p} : p \in Place} :
       controller = [nodes |-> nodes, commands |-> [i \in 1..MaxCommands |-> None]]

-----------------------------------------------------------------------------
(* The operator. *)

FormShown == panel.server # None

OpenNodePlan(s) ==
  /\ panel.server = None
  /\ \E port \in Port :  \* the form starts with the default port
       panel' = [panel EXCEPT !.server = s, !.port = port, !.confirmed = FALSE,
                              !.step = "idle", !.created = None]
  /\ UNCHANGED <<call, controller>>

\* closeModal does not reset "submitting": the flow goes on.
CloseModal ==
  /\ panel.server # None
  /\ panel' = [panel EXCEPT !.server = None, !.step = "idle", !.created = None,
                            !.confirmed = FALSE, !.reopened = panel.submitting]
  /\ UNCHANGED <<call, controller>>

\* The fields stay enabled while a flow runs.
UpdateNodeListenPort(port) ==
  /\ FormShown
  /\ port # panel.port
  /\ panel' = [panel EXCEPT !.port = port, !.confirmed = FALSE]
  /\ UNCHANGED <<call, controller>>

Confirm ==
  /\ FormShown
  /\ ~panel.confirmed
  /\ panel' = [panel EXCEPT !.confirmed = TRUE,
                 !.ticked = @ \cup {[server |-> panel.server, port |-> panel.port]}]
  /\ UNCHANGED <<call, controller>>

Last == Cardinality({i \in 1..MaxCommands : controller.commands[i] # None})

\* The footer: a completed modal only closes, a failed one may try again.
CreateOffered ==
  /\ panel.server # None /\ panel.confirmed /\ ~panel.submitting
  /\ panel.step # "complete"

\* Bound: MaxCommands creations.
Submit ==
  /\ CreateOffered
  /\ Last < MaxCommands
  /\ call' = [at |-> "preflight_create", n |-> 0,
              place |-> [server |-> panel.server, port |-> panel.port]]
  /\ panel' = [panel EXCEPT !.submitting = TRUE, !.created = None, !.reopened = FALSE,
                            !.step = "preflight_create", !.made = 0]
  /\ UNCHANGED controller

-----------------------------------------------------------------------------
(* The flow. *)

\* Mutated: an error is reported and the flag stays.
Fails_KeepsFlag ==
  /\ call.at # "none"
  /\ call' = NoFlow
  /\ panel' = [panel EXCEPT !.step = "failed"]

\* Every error of a step ends in the catch block, whatever modal is open.
Fails ==
  /\ call' = NoFlow
  /\ panel' = [panel EXCEPT !.step = "failed", !.submitting = FALSE]

GoesTo(at) ==
  /\ call' = [call EXCEPT !.at = at, !.n = 0]
  /\ panel' = [panel EXCEPT !.step = at]

PreflightCreated ==
  /\ call.at = "preflight_create"
  /\ GoesTo("preflight_running") \/ Fails
  /\ UNCHANGED controller

\* waitForWorkerCommandCompletion: a poll that finds the command running, one
\* that finds its end, the last one, and one that is refused or rejects.
PreflightPolled ==
  /\ call.at = "preflight_running"
  /\ \/ GoesTo("plan")
     \/ call.n + 1 < MaxPolls /\ call' = [call EXCEPT !.n = @ + 1] /\ UNCHANGED panel
     \/ Fails
  /\ UNCHANGED controller

\* A plan is ready only for a port that has no node.
PlanAnswered ==
  /\ call.at = "plan"
  /\ (call.place \notin controller.nodes /\ GoesTo("command_create")) \/ Fails
  /\ UNCHANGED controller

\* The flow fails with the command i under way or done.
GivesUp(i) ==
  /\ call' = NoFlow
  /\ panel' = [panel EXCEPT !.step = "failed", !.submitting = FALSE, !.made = i,
                            !.gaveUp = @ \cup {i}]

\* The command is created; its answer may be lost.
CommandCreated ==
  /\ call.at = "command_create"
  /\ \/ /\ controller' = [controller EXCEPT !.commands[Last + 1] =
                            [place |-> call.place, status |-> "running"]]
        /\ \/ /\ call' = [call EXCEPT !.at = "command_running"]
              /\ panel' = [panel EXCEPT !.step = "command_running", !.made = Last + 1]
           \/ GivesUp(Last + 1)
     \/ Fails /\ UNCHANGED controller

\* Mutated: the wait takes any end for a success.
CommandPolled_AnyEnd ==
  LET status == controller.commands[panel.made].status
  IN /\ call.at = "command_running"
     /\ \/ status # "running" /\ GoesTo("refresh")
        \/ GivesUp(panel.made)
     /\ UNCHANGED controller

CommandPolled ==
  LET status == controller.commands[panel.made].status
  IN /\ call.at = "command_running"
     /\ \/ status = "succeeded" /\ GoesTo("refresh")
        \/ status = "failed" /\ Fails
        \/ /\ status = "running" /\ call.n + 1 < MaxPolls
           /\ call' = [call EXCEPT !.n = @ + 1] /\ UNCHANGED panel
        \/ GivesUp(panel.made)
     /\ UNCHANGED controller

\* findCreatedNode looks for the server, the port and a share link.
ListRefreshed ==
  /\ call.at = "refresh"
  /\ \/ \E listed \in {controller.nodes, {}} :
          /\ call' = NoFlow
          /\ panel' = [panel EXCEPT !.submitting = FALSE, !.step = "complete",
                         !.created = IF call.place \in listed THEN call.place ELSE None]
     \/ GivesUp(panel.made)
  /\ UNCHANGED controller

FlowStep == \/ PreflightCreated \/ PreflightPolled \/ PlanAnswered
            \/ CommandCreated \/ CommandPolled \/ ListRefreshed

\* The worker and the recording of its result: a port that has a node is refused.
CommandEnds(i) ==
  LET command == controller.commands[i]
  IN /\ command # None /\ command.status = "running"
     /\ \/ controller' = [controller EXCEPT !.commands[i].status = "failed"]
        \/ /\ command.place \notin controller.nodes
           /\ controller' = [controller EXCEPT !.commands[i].status = "succeeded",
                                               !.nodes = @ \cup {command.place}]
     /\ UNCHANGED <<panel, call>>

Next ==
  \/ \E s \in Server : OpenNodePlan(s)
  \/ \E port \in Port : UpdateNodeListenPort(port)
  \/ CloseModal \/ Confirm \/ Submit \/ FlowStep
  \/ \E i \in 1..MaxCommands : CommandEnds(i)

Spec == Init /\ [][Next]_vars

\* The browser, the controller and the workers go on; a lost answer rejects.
FairSpec == Spec /\ WF_vars(FlowStep)

-----------------------------------------------------------------------------
(* Properties. *)

\* A node is only created on a port of a server for which the operator has
\* confirmed that its firewalls are open: the fields can be edited while the
\* flow runs, another modal opened, but the flow has its own closure and a new
\* port takes the confirmation away (updateNodeListenPort).
CreatedPlaceWasConfirmed ==
  \A i \in 1..MaxCommands :
    controller.commands[i] # None => controller.commands[i].place \in panel.ticked

\* The tab has at most one creation running that it has not given up: closing
\* the modal does not enable the button before its flow is over (submitting).
OneCreationAtATime ==
  Cardinality({i \in 1..MaxCommands \ panel.gaveUp :
                 controller.commands[i] # None /\ controller.commands[i].status = "running"}) <= 1

\* The node a modal shows as created exists, was made by the command of the very
\* flow that shows it, not by an earlier one that was given up, and belongs to the
\* modal's server, unless the modal was closed and opened again while the flow
\* ran: then it may be another server's (setCreatedNodeSummary).
CreatedNodeIsReal ==
  panel.created # None =>
    /\ panel.created \in controller.nodes
    /\ panel.made # 0
    /\ controller.commands[panel.made] = [place |-> panel.created, status |-> "succeeded"]
    /\ panel.server = panel.created.server \/ panel.reopened

\* "No link is written on failure" is what a failed modal says; it is so for
\* every flow that did not lose sight of its command.
FailedLeavesNoNode ==
  panel.step = "failed" /\ panel.made \notin {0} \cup panel.gaveUp
    => controller.commands[panel.made].status = "failed"

\* A submitted creation comes to an end for the operator.
CreationEnds == panel.submitting ~> ~panel.submitting
=============================================================================
