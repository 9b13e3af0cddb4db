---------------------------- MODULE HaproxyDebug ----------------------------
(***************************************************************************)
(* The real execution of AdvancedHaproxyDebugPanel (frontend/components):  *)
(* the context with its dry-run candidates, the form filled from one of    *)
(* them or by hand, the readiness of the form, and the creation of the     *)
(* command behind two texts.                                               *)
(*                                                                         *)
(* The plan in the form is its candidate and whether the other fields, the *)
(* confirmation text for the listening port among them, are as its dry run *)
(* recorded them; candidates share the port, so that the text of one fits  *)
(* the other.  The seven confirmations are ticked together; the text that  *)
(* arms the button of a creation is typed right before it is used, and the *)
(* CSRF token is fetched as part of its request.                           *)
(***************************************************************************)
EXTENDS Integers

CONSTANTS Candidate, MaxCommands, None

VARIABLES panel, call, controller

vars == <<panel, call, controller>>

Op == {"readiness", "create"}  \* each has a flag of its own while it is awaited

Plan == [of : Candidate, recorded : BOOLEAN]

Readiness == [plan : Plan, ready : BOOLEAN, late : BOOLEAN]

\* context: the candidates of the last read, with their integrity;
\* readiness: the answer on display.
\* History: "ticked" the candidates that were in the form when its confirmations
\* were ticked, as long as its candidate comes from the context; "byHand" that it
\* was typed since; "late" that the form changed while the answer was awaited.
Panel == [context : [Candidate -> {"absent", "ready", "blocked"}], selected : Candidate \cup {None},
          form : Plan \cup {None}, ticks : BOOLEAN,
          readiness : Readiness \cup {None}, ticked : SUBSET Candidate, byHand : BOOLEAN]

\* History: "checked" that the readiness on display when a creation was sent was
\* that of its plan, or came late.
CallRow == [plan : Plan \cup {None}, checked : BOOLEAN, late : BOOLEAN]

NoCall == [plan |-> None, checked |-> FALSE, late |-> FALSE]

\* live: the candidates whose records are in order; commands: the real executions that did not fail; orphans: the
\* candidates with a creation that was found in order, is not written yet, and has
\* nobody waiting for it.
\* History: "overlapped" the candidates with a creation sent during such a one.
Controller == [live : SUBSET Candidate, commands : [Candidate -> 0..MaxCommands],
               orphans : SUBSET Candidate, overlapped : SUBSET Candidate]

TypeOK == panel \in Panel /\ call \in [Op -> CallRow] /\ controller \in Controller

Nothing == [c \in Candidate |-> "absent"]

Init ==
  /\ panel = [context |-> Nothing, selected |-> None, form |-> None, ticks |-> FALSE,
              readiness |-> None, ticked |-> {}, byHand |-> FALSE]
  /\ call = [op \in Op |-> NoCall]
  /\ \E live \in SUBSET Candidate :
       controller = [live |-> live, commands |-> [d \in Candidate |-> 0],
                     orphans |-> {}, overlapped |-> {}]

-----------------------------------------------------------------------------
Loading(op) == call[op].plan # None
Finish(op) == call' = [call EXCEPT ![op] = NoCall]

\* The form changes; what is still awaited of it comes late.
FormBecomes(p) ==
  /\ panel' = p
  /\ call' = [op \in Op |-> [call[op] EXCEPT !.late = Loading(op)]]

-----------------------------------------------------------------------------
(* The context and the form. *)

Integrity == [d \in Candidate |-> IF d \in controller.live THEN "ready" ELSE "blocked"]

\* A read of the context is answered: the candidates as they are replace those on
\* display, and the first one is selected; the form and what was found of it
\* stay.
LoadDebugContext ==
  /\ \E first \in Candidate :
       panel' = [panel EXCEPT !.context = Integrity, !.selected = first]
  /\ UNCHANGED <<call, controller>>

\* What the card of the context lists.
CandidatesShown == {d \in Candidate : panel.context[d] # "absent"}

SelectDryRunCandidate(d) ==
  /\ d \in CandidatesShown
  /\ d # panel.selected
  /\ panel' = [panel EXCEPT !.selected = d]
  /\ UNCHANGED <<call, controller>>

Cleared(p) == [p EXCEPT !.readiness = None]

\* The form is filled from the selected candidate, blocked ones included.
ApplyDebugContextCandidate ==
  LET d == panel.selected
  IN /\ d # None
     /\ FormBecomes([Cleared(panel) EXCEPT !.form = [of |-> d, recorded |-> TRUE],
                                           !.ticks = FALSE, !.ticked = {}, !.byHand = FALSE])
     /\ UNCHANGED controller

Typed(p, plan) ==
  LET byHand == p.byHand \/ p.form = None \/ p.form.of # plan.of
  IN [p EXCEPT !.form = plan, !.byHand = byHand, !.ticked = IF byHand THEN {} ELSE @]

\* A field by hand: the confirmations stay.
UpdateForm(plan) ==
  /\ plan # panel.form
  /\ FormBecomes(Typed(Cleared(panel), plan))
  /\ UNCHANGED controller

ClearForm ==
  /\ panel.form # None
  /\ FormBecomes([Cleared(panel) EXCEPT !.form = None, !.ticks = FALSE,
                                        !.ticked = {}, !.byHand = FALSE])
  /\ UNCHANGED controller

UpdateConfirmation ==
  /\ panel.form # None
  /\ panel' = [Cleared(panel) EXCEPT !.ticks = ~@,
                 !.ticked = IF panel.ticks \/ panel.byHand THEN @ ELSE @ \cup {panel.form.of}]
  /\ UNCHANGED <<call, controller>>

-----------------------------------------------------------------------------
(* Readiness and creation. *)

\* Every field of the form, its confirmations and its text are given.
ValidForm == panel.form # None /\ panel.ticks

RequestPayload == IF ValidForm THEN panel.form ELSE None

Start(op, checked) ==
  /\ ~Loading(op)
  /\ call' = [call EXCEPT ![op] = [NoCall EXCEPT !.plan = RequestPayload, !.checked = checked]]

\* It is the selected candidate whose integrity counts.
SelectedCandidateIntegrityReady ==
  panel.selected # None /\ panel.context[panel.selected] = "ready"

CanRunReadiness == ValidForm /\ RequestPayload # None /\ SelectedCandidateIntegrityReady

RunReadiness ==
  /\ CanRunReadiness
  /\ Start("readiness", FALSE)
  /\ UNCHANGED <<panel, controller>>

CanCreateRealExecution ==
  /\ RequestPayload # None /\ panel.readiness # None
  /\ panel.readiness.ready
  /\ SelectedCandidateIntegrityReady

SubmitRealExecution ==
  LET d == panel.form.of
      shown == panel.readiness
  IN /\ CanCreateRealExecution
     /\ Start("create", shown.ready /\ (shown.late \/ shown.plan = RequestPayload))
     /\ controller' = [controller EXCEPT !.overlapped = IF d \in controller.orphans
                                                        THEN @ \cup {d} ELSE @]
     /\ UNCHANGED panel

\* What the controller finds: the plan is that of the dry run, its records are in
\* order, and there is no command for it.
ReadyForRealExecution(plan) ==
  /\ plan.recorded /\ plan.of \in controller.live
  /\ controller.commands[plan.of] = 0

ReadinessShown ==
  LET request == call["readiness"]
  IN /\ Loading("readiness")
     /\ panel' = [panel EXCEPT !.readiness = [plan |-> request.plan, late |-> request.late,
                                              ready |-> ReadyForRealExecution(request.plan)]]
     /\ Finish("readiness")
     /\ UNCHANGED controller

\* A command is created, or the request is refused by the same checks; readiness
\* and form stay on display, whether the answer arrives or not.  Bound:
\* MaxCommands.
CreateAnswered ==
  LET plan == call["create"].plan
  IN /\ Loading("create")
     /\ controller' = IF ReadyForRealExecution(plan)
                      THEN [controller EXCEPT !.commands[plan.of] = @ + 1] ELSE controller
     /\ Finish("create")
     /\ UNCHANGED panel

\* The fetch rejects between the checks of the controller and its write.
CreateOrphaned ==
  LET plan == call["create"].plan
  IN /\ Loading("create") /\ ReadyForRealExecution(plan)
     /\ controller' = [controller EXCEPT !.orphans = @ \cup {plan.of}]
     /\ Finish("create")
     /\ UNCHANGED panel

OrphanWritten(d) ==
  /\ d \in controller.orphans
  /\ controller' = [controller EXCEPT !.commands[d] = @ + 1, !.orphans = @ \ {d}]
  /\ UNCHANGED <<panel, call>>

\* Refused, or the fetch rejects before it reaches the controller.
Fails(op) ==
  /\ Loading(op)
  /\ Finish(op)
  /\ UNCHANGED <<panel, controller>>

\* A node or a resource is deleted, a worker goes offline or comes back.
RecordsChange(d) ==
  /\ controller' = [controller EXCEPT !.live = IF d \in @ THEN @ \ {d} ELSE @ \cup {d}]
  /\ UNCHANGED <<panel, call>>

Next ==
  \/ ApplyDebugContextCandidate \/ ClearForm \/ UpdateConfirmation
  \/ LoadDebugContext
  \/ \E plan \in Plan : UpdateForm(plan)
  \/ \E d \in Candidate : SelectDryRunCandidate(d) \/ RecordsChange(d) \/ OrphanWritten(d)
  \/ RunReadiness \/ ReadinessShown \/ SubmitRealExecution \/ CreateAnswered \/ CreateOrphaned
  \/ \E op \in Op : Fails(op)

Spec == Init /\ [][Next]_vars

-----------------------------------------------------------------------------
(* Properties. *)

\* A creation is requested for the plan a readiness came back ready for, unless
\* the form was changed while the readiness was awaited: the answer is not held
\* against the form (setReadinessResult).
CreationFollowsReadiness == Loading("create") => call["create"].checked

Requested(op) == ~Loading(op) /\ call'[op].plan # None

\* The confirmations of a request were ticked with its candidate in the form,
\* unless the candidate was typed over: another candidate takes them away.
RequestWasConfirmedAction ==
  \A op \in Op : Requested(op) => panel.byHand \/ call'[op].plan.of \in panel.ticked
RequestWasConfirmed == [][RequestWasConfirmedAction]_vars

\* However often a creation is sent again after a lost answer, a dry run gets one
\* command, unless one that was given up is still being written: the checks and
\* the insert are two steps (create_haproxy_route_create_real_execution).
OneCommandPerDryRun ==
  \A d \in Candidate \ controller.overlapped : controller.commands[d] <= 1

\* What docs/stage-3.4.23 says of a blocked candidate: its payload may be filled
\* in for inspection, but it runs neither a readiness nor a real execution
\* (SelectedCandidateIntegrityReady looks at the selected candidate).
BlockedCandidateIsNotRun ==
  [][\A op \in Op : Requested(op) =>
       panel.byHand \/ panel.context[call'[op].plan.of] # "blocked"]_vars
=============================================================================
