---------------------------- MODULE TransitCreate ---------------------------
(***************************************************************************)
(* The creation of a transit route from TransitRoutesPanel                 *)
(* (frontend/components): for socat one async function from the preflight  *)
(* to the client link; for HAProxy one up to the final approval and, once  *)
(* the operator has confirmed, a second one from the command to the link.  *)
(*                                                                         *)
(* Unlike the creation of a node nothing but the step of the modal keeps   *)
(* a second flow from starting, and closing or opening the modal resets    *)
(* the step while the flow goes on.  A port stands for the whole form with *)
(* its resource and node; the method is what a port of the form is asked   *)
(* with.  The six busy steps are one, for the button and the footers treat *)
(* them alike; a wait has no count of its polls, it may give up at any.    *)
(***************************************************************************)
EXTENDS Integers, FiniteSets

CONSTANTS Port, Call, MaxCommands, None

VARIABLES panel, call, controller

vars == <<panel, call, controller>>

Step == {"idle", "busy", "real_create_confirm", "complete", "failed"}
Method == {"socat", "haproxy_tcp"}

\* routes: the ports of the active routes as they were listed; context: the port
\* whose final approval waits for the confirmation; created and export: the
\* route and the link on display.
\* History: "ticked" the ports the firewall was confirmed for, "kept" those that
\* were typed while the confirmation stood, "edited" that a context was confirmed
\* over another form, "overlapped" that a flow of an earlier modal was under way
\* when this one was opened.
Panel == [open : BOOLEAN, port : Port, method : Method, firewall : BOOLEAN, step : Step,
          context : Port \cup {None}, loading : BOOLEAN,
          created : Port \cup {None}, export : Port \cup {None}, routes : SUBSET Port,
          ticked : SUBSET Port, kept : SUBSET Port, edited : BOOLEAN, overlapped : BOOLEAN]

\* form is the port of the form in the closure, which the new route is looked
\* for with.
CallRow == [at : {"none", "preflight", "execute", "wait", "refresh", "export"},
            port : Port \cup {None}, form : Port \cup {None}, method : Method,
            confirm : BOOLEAN, command : 0..MaxCommands]

NoCall == [at |-> "none", port |-> None, form |-> None, method |-> "socat",
           confirm |-> FALSE, command |-> 0]

Command == [port : Port, status : {"running", "succeeded", "failed"}]

Controller == [routes : SUBSET Port, commands : [1..MaxCommands -> Command \cup {None}]]

TypeOK == panel \in Panel /\ call \in [Call -> CallRow] /\ controller \in Controller

Init ==
  /\ \E port \in Port, routes \in SUBSET Port :
       /\ panel = [open |-> FALSE, port |-> port, method |-> "socat", firewall |-> FALSE,
                   step |-> "idle", context |-> None, loading |-> FALSE, created |-> None,
                   export |-> None, routes |-> routes, ticked |-> {}, kept |-> {},
                   edited |-> FALSE, overlapped |-> FALSE]
       /\ controller = [routes |-> routes, commands |-> [i \in 1..MaxCommands |-> None]]
  /\ call = [c \in Call |-> NoCall]

-----------------------------------------------------------------------------
Free(c) == call[c].at = "none"
Finish(c) == call' = [call EXCEPT ![c] = NoCall]
Last == Cardinality({i \in 1..MaxCommands : controller.commands[i] # None})
Room == Last + Cardinality({c \in Call : call[c].at \in {"preflight", "execute"}}) < MaxCommands

\* What opening, closing and submitting reset.
Fresh(p) == [p EXCEPT !.step = "idle", !.context = None, !.loading = FALSE,
                      !.created = None, !.export = None]

\* What a flow sets in a modal; with the modal closed the next opening resets it.
Shows(p) == IF panel.open THEN p ELSE panel

(* The operator. *)

OpenCreateRouteModal ==
  /\ ~panel.open
  /\ panel' = [Fresh(panel) EXCEPT !.open = TRUE, !.firewall = FALSE, !.edited = FALSE,
                                   !.overlapped = \E c \in Call : ~Free(c)]
  /\ UNCHANGED <<call, controller>>

\* Opening refills the form: here the fields are left as they are.
CloseCreateRouteModal ==
  /\ panel.open
  /\ \E routes \in {panel.routes, controller.routes} :
       panel' = [Fresh(panel) EXCEPT !.open = FALSE, !.firewall = FALSE, !.edited = FALSE,
                                     !.overlapped = FALSE, !.routes = routes]
  /\ UNCHANGED <<call, controller>>

FormShown == panel.open

\* The fields stay enabled at every step, and a new port keeps the confirmation
\* of the old one.
EditForm(port, method) ==
  /\ FormShown
  /\ <<port, method>> # <<panel.port, panel.method>>
  /\ panel' = [panel EXCEPT !.port = port, !.method = method,
                            !.kept = IF panel.firewall THEN @ \cup {port} ELSE @]
  /\ UNCHANGED <<call, controller>>

ConfirmFirewall ==
  /\ FormShown /\ ~panel.firewall
  /\ panel' = [panel EXCEPT !.firewall = TRUE, !.ticked = @ \cup {panel.port}]
  /\ UNCHANGED <<call, controller>>

\* createReady, and a footer that has the button.
CreateReady ==
  /\ panel.open /\ panel.step \in {"idle", "failed"}
  /\ panel.firewall
  /\ panel.port \notin panel.routes

\* Bound: MaxCommands creations.
SubmitSimplifiedTransitRouteCreate(c) ==
  /\ CreateReady /\ Free(c) /\ Room
  /\ call' = [call EXCEPT ![c] = [NoCall EXCEPT !.at = "preflight", !.port = panel.port,
                                    !.form = panel.port, !.method = panel.method]]
  /\ panel' = [Fresh(panel) EXCEPT !.step = "busy"]
  /\ UNCHANGED controller

ContextShown == panel.step = "real_create_confirm" /\ panel.context # None

ConfirmOffered == panel.open /\ ContextShown /\ ~panel.loading

\* The command is for the context, the form is what the route is looked for with.
ConfirmHaproxyRealCreate(c) ==
  /\ ConfirmOffered /\ Free(c) /\ Room
  /\ call' = [call EXCEPT ![c] = [NoCall EXCEPT !.at = "execute", !.port = panel.context,
                                    !.form = panel.port, !.method = panel.method,
                                    !.confirm = TRUE]]
  /\ panel' = [panel EXCEPT !.step = "busy", !.loading = TRUE,
                 !.edited = <<panel.port, panel.method>> # <<panel.context, "haproxy_tcp">>]
  /\ UNCHANGED controller

-----------------------------------------------------------------------------
(* The flows. *)

\* finally: the flag is cleared, whoever set it.
Settled(p, c) == IF call[c].confirm THEN [p EXCEPT !.loading = FALSE] ELSE p

\* Every error ends in a catch block, whatever modal is open.
Fails(c) ==
  /\ panel' = Shows(Settled([panel EXCEPT !.step = "failed"], c))
  /\ Finish(c)

GoesTo(c, at) ==
  /\ call' = [call EXCEPT ![c].at = at]
  /\ panel' = Shows([panel EXCEPT !.step = "busy"])

\* The preflight, or readiness, dry run and final approval, are through: a socat
\* route is created, an HAProxy route waits for its confirmation.
PreflightAnswered(c) ==
  /\ call[c].at = "preflight"
  /\ \/ call[c].method = "socat" /\ GoesTo(c, "execute")
     \/ /\ call[c].method = "haproxy_tcp"
        /\ panel' = Shows([panel EXCEPT !.context = call[c].port, !.step = "real_create_confirm"])
        /\ Finish(c)
     \/ panel' = Shows([panel EXCEPT !.step = "busy"]) /\ UNCHANGED call
     \/ Fails(c)
  /\ UNCHANGED controller

\* The controller takes one creation of a port at a time, and none over an
\* active route; the answer may be lost.
CommandCreated(c) ==
  /\ call[c].at = "execute"
  /\ \/ Fails(c) /\ UNCHANGED controller
     \/ /\ Last < MaxCommands /\ call[c].port \notin controller.routes
        /\ \A i \in 1..Last : controller.commands[i] # [port |-> call[c].port, status |-> "running"]
        /\ controller' = [controller EXCEPT
                            !.commands[Last + 1] = [port |-> call[c].port, status |-> "running"]]
        /\ \/ Fails(c)
           \/ /\ call' = [call EXCEPT ![c].at = "wait", ![c].command = Last + 1]
              /\ panel' = Shows([panel EXCEPT !.step = "busy"])

CommandPolled(c) ==
  LET status == controller.commands[call[c].command].status
  IN /\ call[c].at = "wait"
     /\ \/ status = "succeeded" /\ GoesTo(c, "refresh")
        \/ status = "running" /\ GoesTo(c, "wait")
        \/ Fails(c)
     /\ UNCHANGED controller

\* Mutated: the route is looked for with the form as it is now.
FoundPort_OfTheModal(c) == panel.port

FoundPort(c) == call[c].form

\* A route that was changed to the other method is not the one that is looked for.
ListRefreshed(c) ==
  LET port == FoundPort(c)
  IN /\ call[c].at = "refresh"
     /\ \/ Fails(c)
        \/ /\ port \in controller.routes
           /\ panel' = [Shows([panel EXCEPT !.step = "busy", !.created = port])
                          EXCEPT !.routes = controller.routes]
           /\ call' = [call EXCEPT ![c].at = "export", ![c].form = port]
        \/ /\ port \notin controller.routes \/ call[c].confirm
           /\ panel' = [Shows(Settled([panel EXCEPT !.step = "failed"], c))
                          EXCEPT !.routes = controller.routes]
           /\ Finish(c)
     /\ UNCHANGED controller

LinkExported(c) ==
  /\ call[c].at = "export"
  /\ \/ Fails(c)
     \/ /\ panel' = Shows(Settled([panel EXCEPT !.export = call[c].form, !.step = "complete"], c))
        /\ Finish(c)
  /\ UNCHANGED controller

FlowStep(c) == \/ PreflightAnswered(c) \/ CommandCreated(c) \/ CommandPolled(c)
               \/ ListRefreshed(c) \/ LinkExported(c)

CommandEnds(i) ==
  LET command == controller.commands[i]
  IN /\ command # None /\ command.status = "running"
     /\ \/ controller' = [controller EXCEPT !.commands[i].status = "failed"]
        \/ controller' = [controller EXCEPT !.commands[i].status = "succeeded",
                                            !.routes = @ \cup {command.port}]
     /\ UNCHANGED <<panel, call>>

Next ==
  \/ \E c \in Call : \/ SubmitSimplifiedTransitRouteCreate(c) \/ ConfirmHaproxyRealCreate(c)
                     \/ FlowStep(c)
  \/ \E port \in Port, method \in Method : EditForm(port, method)
  \/ OpenCreateRouteModal \/ CloseCreateRouteModal \/ ConfirmFirewall
  \/ \E i \in 1..MaxCommands : CommandEnds(i)

Spec == Init /\ [][Next]_vars

-----------------------------------------------------------------------------
(* Properties. *)

\* The card of a route with its link.
LinkShown == panel.created # None /\ panel.export # None

\* A route is only created on a port for which the operator has confirmed that
\* its firewalls are open, or which was typed over the port he confirmed
\* (setCreateForm keeps firewallConfirmed).
FirewallWasConfirmed ==
  \A i \in 1..MaxCommands :
    controller.commands[i] # None => controller.commands[i].port \in panel.ticked \cup panel.kept

\* The link and the route on display in a modal belong together, unless a flow
\* of an earlier modal was under way when it was opened.
LinkIsOfItsRoute ==
  LinkShown /\ ~panel.overlapped => panel.created = panel.export

\* The route that is shown as created was created by a command of this tab,
\* unless an HAProxy route was confirmed over a form that had been changed: then
\* it may be any that was there before (findCreatedTransitRoute).
CreatedRouteIsNew ==
  panel.created # None /\ ~panel.edited /\ ~panel.overlapped =>
    \E i \in 1..MaxCommands : controller.commands[i] = [port |-> panel.created, status |-> "succeeded"]

\* A modal that says that no link is shown on failure shows none, unless a flow
\* of an earlier modal was under way when it was opened.
FailedShowsNoLink == panel.step = "failed" /\ ~panel.overlapped => panel.export = None

\* Within one modal there is one flow at a time (createStep).
OneFlowPerModal ==
  panel.open /\ ~panel.overlapped => Cardinality({c \in Call : ~Free(c)}) <= 1
=============================================================================
