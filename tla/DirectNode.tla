----------------------------- MODULE DirectNode ------------------------------
(***************************************************************************)
(* LineBuilderPanel and ServerResourcesPanel (frontend/components) with    *)
(* the modals they open (ProductDemoModals): the two that add a landing or *)
(* a transit server and show its install command, and the one that creates *)
(* a direct node with a plan first.  The modal for a transit line creates  *)
(* nothing.                                                                *)
(*                                                                         *)
(* A modal that is closed is gone: what it asked for is answered to nobody *)
(* ("alive"), but the lists are read again for the panel under it.  A      *)
(* request is handled when it is answered.  A list that is late differs    *)
(* from one that is not in the workers that came and went meanwhile, which *)
(* they may do after it as well; whether the port of a plan is vacant is   *)
(* up to the node records (LandingHost and NodeCreate), here it may be.    *)
(***************************************************************************)
EXTENDS Integers, FiniteSets

CONSTANTS Server, Port, Call, None

VARIABLES panel, call, controller

vars == <<panel, call, controller>>

\* "other" stands for the fields besides: the name, and what Reality is given.
Config == [server : Server, port : Port, other : 0..1]

\* listed: the servers of the last list that are online; host: the server typed
\* in, command: the server whose install command is on display.
\* History: "sent" counts the commands made of the plan on display, "lost" says
\* that the answer to one was lost.
Panel == [listed : SUBSET Server, modal : {"none", "server", "transit", "direct"},
          host : Server \cup {None}, command : Server \cup {None},
          selected : Server \cup {None}, port : Port, other : 0..1, ticks : BOOLEAN,
          plan : Config \cup {None}, ready : BOOLEAN, text : BOOLEAN, created : BOOLEAN,
          submitting : {"no", "bootstrap", "plan", "create"}, sent : 0..2, lost : BOOLEAN]

\* After a success the panel's lists are read, in step "list".
CallRow == [op : {"none", "load", "bootstrap", "transit", "plan", "create"}, step : {"main", "list"},
            config : Config \cup {None}, alive : BOOLEAN]

NoCall == [op |-> "none", step |-> "main", config |-> None, alive |-> FALSE]

Controller == [Server -> {"absent", "away", "online"}]

TypeOK == panel \in Panel /\ call \in [Call -> CallRow] /\ controller \in Controller

APort == CHOOSE p \in Port : TRUE

\* The state of a modal that is not there.
Unmounted(p) ==
  [p EXCEPT !.modal = "none", !.host = None, !.command = None, !.selected = None, !.port = APort,
            !.other = 0, !.ticks = FALSE, !.plan = None, !.ready = FALSE, !.text = FALSE,
            !.created = FALSE, !.submitting = "no", !.sent = 0, !.lost = FALSE]

Init ==
  /\ panel = [listed |-> {}, modal |-> "none", host |-> None, command |-> None,
              selected |-> None, port |-> APort, other |-> 0, ticks |-> FALSE, plan |-> None,
              ready |-> FALSE, text |-> FALSE, created |-> FALSE, submitting |-> "no",
              sent |-> 0, lost |-> FALSE]
  /\ \E c \in Call : call = [k \in Call |-> IF k = c THEN [NoCall EXCEPT !.op = "load"] ELSE NoCall]
  /\ controller \in Controller

-----------------------------------------------------------------------------
Finish(c) == call' = [call EXCEPT ![c] = NoCall]
Start(c, op, config) ==
  /\ call[c].op = "none"
  /\ call' = [call EXCEPT ![c] = [NoCall EXCEPT !.op = op, !.config = config, !.alive = TRUE]]

\* The effect on the online servers: a selection that is not listed is replaced
\* by the first that is, and nothing else of the form is touched.
WithList(p, rows) ==
  {[p EXCEPT !.listed = rows, !.selected = s] :
     s \in IF p.modal # "direct" \/ p.selected \in rows THEN {p.selected}
           ELSE IF rows = {} THEN {p.selected} ELSE rows}

\* selectedServer; the panel has none while no server is listed.
Chosen == IF panel.selected \in panel.listed THEN panel.selected ELSE None

Form == [server |-> Chosen, port |-> panel.port, other |-> panel.other]

(* The operator. *)

OpenServerModal ==
  /\ panel.modal = "none"
  /\ \E modal \in {"server", "transit"} : panel' = [panel EXCEPT !.modal = modal]
  /\ UNCHANGED <<call, controller>>

OpenDirectModal ==
  /\ panel.modal = "none"
  /\ panel' \in WithList([panel EXCEPT !.modal = "direct"], panel.listed)
  /\ UNCHANGED <<call, controller>>

CloseModal ==
  /\ panel.modal # "none"
  /\ panel' = Unmounted(panel)
  /\ call' = [c \in Call |-> [call[c] EXCEPT !.alive = FALSE]]
  /\ UNCHANGED controller

ServerInputs == panel.modal = "server" /\ panel.command = None /\ panel.submitting = "no"

TransitInputs == panel.modal = "transit" /\ panel.command = None /\ panel.submitting = "no"

TypeHost(s) ==
  /\ ServerInputs \/ TransitInputs
  /\ controller[s] = "absent"
  /\ panel' = [panel EXCEPT !.host = s]
  /\ UNCHANGED <<call, controller>>

HandleSubmit(c) ==
  /\ ServerInputs /\ panel.host # None
  /\ panel' = [panel EXCEPT !.submitting = "bootstrap"]
  /\ Start(c, "bootstrap", [server |-> panel.host, port |-> APort, other |-> 0])
  /\ UNCHANGED controller

CommandShown == panel.modal \in {"server", "transit"} /\ panel.command # None

HandleTransitSubmit(c) ==
  /\ TransitInputs /\ panel.host # None
  /\ panel' = [panel EXCEPT !.submitting = "bootstrap"]
  /\ Start(c, "transit", [server |-> panel.host, port |-> APort, other |-> 0])
  /\ UNCHANGED controller

ResetForm ==
  /\ CommandShown
  /\ panel' = [panel EXCEPT !.command = None]
  /\ UNCHANGED <<call, controller>>

\* What locks the fields of a direct node.
DirectInputs == panel.modal = "direct" /\ ~panel.created /\ panel.submitting = "no"

\* Mutated: only server and port clear the plan.
MarkConfigDirty_Place(p) ==
  IF p.selected = panel.selected /\ p.port = panel.port THEN p
  ELSE [p EXCEPT !.plan = None, !.ready = FALSE, !.text = FALSE, !.sent = 0, !.lost = FALSE]

MarkConfigDirty(p) ==
  [p EXCEPT !.plan = None, !.ready = FALSE, !.text = FALSE, !.sent = 0, !.lost = FALSE]

\* A field, or a tick of the eight confirmations: each clears the plan.
ChangeConfig ==
  /\ DirectInputs /\ panel.listed # {}
  /\ \/ \E s \in panel.listed : panel' = MarkConfigDirty([panel EXCEPT !.selected = s])
     \/ \E p \in Port : panel' = MarkConfigDirty([panel EXCEPT !.port = p])
     \/ panel' = MarkConfigDirty([panel EXCEPT !.other = 1 - @])
     \/ panel' = MarkConfigDirty([panel EXCEPT !.ticks = ~@])
  /\ UNCHANGED <<call, controller>>

PlanShown == panel.plan # None /\ panel.ready

TypeExactConfirm ==
  /\ DirectInputs /\ PlanShown
  /\ panel' = [panel EXCEPT !.text = ~@]
  /\ UNCHANGED <<call, controller>>

CanRequestPlan == Chosen # None /\ panel.ticks /\ DirectInputs

HandlePlan(c) ==
  /\ CanRequestPlan
  /\ panel' = [panel EXCEPT !.submitting = "plan"]
  /\ Start(c, "plan", Form)
  /\ UNCHANGED controller

CanCreate ==
  /\ DirectInputs /\ Chosen # None /\ panel.ticks /\ panel.text
  /\ panel.plan # None /\ panel.ready
  /\ panel.plan.server = Chosen /\ panel.plan.port = panel.port

\* Bound: two commands of one plan.
HandleCreate(c) ==
  /\ CanCreate /\ panel.sent < 2
  /\ panel' = [panel EXCEPT !.submitting = "create"]
  /\ Start(c, "create", Form)
  /\ UNCHANGED controller

-----------------------------------------------------------------------------
(* The controller and the servers. *)

WorkerComesAndGoes(s) ==
  /\ controller[s] # "absent"
  /\ controller' = [controller EXCEPT ![s] = IF @ = "online" THEN "away" ELSE "online"]
  /\ UNCHANGED <<panel, call>>

Online == {s \in Server : controller[s] = "online"}

TakeBootstrap(s) == controller' = [controller EXCEPT ![s] = IF @ = "absent" THEN "away" ELSE @]

\* A creation is taken for a worker that is online; a second one for the place
\* of one that is pending is not refused.
CanTakeCreate(config) == config.server \in Online

-----------------------------------------------------------------------------
(* Continuations. *)

Waits(c, op) == call[c].op = op /\ call[c].step = "main"

ThenList(c) == call' = [call EXCEPT ![c].step = "list", ![c].config = None]

Done(c, p) == IF call[c].alive THEN [p EXCEPT !.submitting = "no"] ELSE p

\* A list that rejects sets nothing; loadData has no other way out.
ListLoaded(c) ==
  /\ call[c].op = "load" \/ call[c].step = "list"
  /\ \/ panel' = Done(c, panel)
     \/ panel' \in WithList(Done(c, panel), Online)
  /\ Finish(c)
  /\ UNCHANGED controller

BootstrapAnswered(c) ==
  /\ Waits(c, "bootstrap")
  /\ TakeBootstrap(call[c].config.server)
  /\ panel' = IF call[c].alive THEN [panel EXCEPT !.command = call[c].config.server] ELSE panel
  /\ ThenList(c)

\* A transit resource is none of the landing servers that are listed.
TransitBootstrapAnswered(c) ==
  /\ Waits(c, "transit")
  /\ panel' = IF call[c].alive THEN [panel EXCEPT !.command = call[c].config.server] ELSE panel
  /\ ThenList(c)
  /\ UNCHANGED controller

\* The plan is ready or blocked; it names the server it is for.
PlanAnswered(c) ==
  /\ Waits(c, "plan")
  /\ \E ready \in IF CanTakeCreate(call[c].config) THEN BOOLEAN ELSE {FALSE} :
       panel' = IF call[c].alive
                THEN [panel EXCEPT !.plan = call[c].config, !.ready = ready, !.sent = 0,
                                   !.lost = FALSE, !.submitting = "no"]
                ELSE panel
  /\ Finish(c)
  /\ UNCHANGED controller

CreateAnswered(c) ==
  /\ Waits(c, "create")
  /\ CanTakeCreate(call[c].config)
  /\ UNCHANGED controller
  /\ panel' = IF call[c].alive THEN [panel EXCEPT !.created = TRUE, !.sent = @ + 1] ELSE panel
  /\ ThenList(c)

\* Refused, or lost: then it may have been taken.
RequestFails(c) ==
  /\ call[c].op \notin {"none", "load"} /\ call[c].step = "main"
  /\ \/ /\ UNCHANGED controller
        /\ panel' = Done(c, panel)
     \/ /\ call[c].op = "bootstrap" /\ TakeBootstrap(call[c].config.server)
        /\ panel' = Done(c, panel)
     \/ /\ call[c].op = "create" /\ CanTakeCreate(call[c].config)
        /\ UNCHANGED controller
        /\ panel' = IF call[c].alive THEN [Done(c, panel) EXCEPT !.sent = @ + 1, !.lost = TRUE]
                    ELSE panel
  /\ Finish(c)

Next ==
  \/ OpenServerModal \/ OpenDirectModal \/ CloseModal \/ ResetForm \/ ChangeConfig
  \/ TypeExactConfirm
  \/ \E s \in Server : TypeHost(s) \/ WorkerComesAndGoes(s)
  \/ \E c \in Call : \/ HandleSubmit(c) \/ HandleTransitSubmit(c) \/ HandlePlan(c)
                     \/ HandleCreate(c) \/ ListLoaded(c)
                     \/ BootstrapAnswered(c) \/ TransitBootstrapAnswered(c) \/ PlanAnswered(c)
                     \/ CreateAnswered(c) \/ RequestFails(c)

Spec == Init /\ [][Next]_vars

-----------------------------------------------------------------------------
(* Properties. *)

\* A creation asks for what its plan approved, to the last field, though the
\* guard compares server and port only: the rest is up to every input clearing
\* the plan, and to the lists, which may take the selected server away, doing
\* no harm (markConfigDirty, canCreate).
CreatedAsPlanned ==
  \A c \in Call :
    Waits(c, "create") /\ call[c].alive => panel.plan = call[c].config /\ panel.ready

\* One plan makes one command, unless the answer to its creation was lost: the
\* modal then offers the creation again.
OneCommandPerPlan == panel.sent > 1 => panel.lost

\* The install command on display, with its token, is that of the host in the
\* form, whatever was closed and opened while it was awaited.
CommandIsOfTheForm ==
  panel.command # None => panel.command = panel.host
=============================================================================
