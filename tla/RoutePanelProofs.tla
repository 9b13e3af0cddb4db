-------------------------- MODULE RoutePanelProofs --------------------------
(***************************************************************************)
(* Proofs about the panels of MCHaproxyPanel and MCTransitPanels, for any  *)
(* candidates, drafts, servers, ports, routes, calls and commands.         *)
(*                                                                         *)
(* As in ServerPanelProofs the inductive invariants speak of the calls     *)
(* that are still out.  That of the registration spans both sides: what a  *)
(* request found before its insert, and what the panel knows of it, is     *)
(* held against the commands and records of the backend.                   *)
(***************************************************************************)
EXTENDS MCHaproxyPanel, MCTransitPanels, FiniteSetTheorems, TLAPS

\* What has no two different members has at most one.
LEMMA AtMostOne ==
  ASSUME NEW S, \A b, c \in S : b = c
  PROVE  Cardinality(S) <= 1 /\ ~(Cardinality(S) > 1)
<1>1. CASE S = {}
  <2>1. Cardinality(S) = 0
    BY <1>1, FS_EmptySet
  <2> QED
    BY <2>1
<1>2. CASE S # {}
  <2>1. PICK c \in S : TRUE
    BY <1>2
  <2>2. S = {c}
    BY <2>1
  <2>3. Cardinality(S) = 1
    BY <2>2, FS_Singleton
  <2> QED
    BY <2>3
<1> QED
  BY <1>1, <1>2

-----------------------------------------------------------------------------
(* AdvancedHaproxyDebugPanel: the readiness and the creation of a route. *)

LEMMA DebugNoneIs == None \notin Candidate \cup Debug!Plan \cup Debug!Readiness
BY HaproxyAssumption

DebugTypes ==
  /\ panel \in Debug!Panel /\ call \in [Debug!Op -> Debug!CallRow]
  /\ controller \in [live : SUBSET Candidate, commands : [Candidate -> Nat],
                     orphans : SUBSET Candidate, overlapped : SUBSET Candidate]

DebugReadinessIsOfTheForm ==
  /\ panel.readiness # None => panel.readiness.late \/ panel.readiness.plan = panel.form
  /\ Debug!Loading("readiness") => call["readiness"].late \/ call["readiness"].plan = panel.form

DebugTicksAreForTheForm ==
  panel.form # None /\ panel.ticks => panel.byHand \/ panel.form.of \in panel.ticked

DebugCommandsAreCounted ==
  \A d \in Candidate \ controller.overlapped :
    /\ controller.commands[d] <= 1
    /\ d \in controller.orphans =>
         controller.commands[d] = 0 /\ (Debug!Loading("create") => call["create"].plan.of # d)

DebugInv ==
  /\ DebugTypes /\ DebugReadinessIsOfTheForm /\ DebugTicksAreForTheForm
  /\ Debug!CreationFollowsReadiness /\ DebugCommandsAreCounted

LEMMA DebugInit == Debug!Init => DebugInv
<1> SUFFICES ASSUME Debug!Init PROVE DebugInv
  OBVIOUS
<1>1. DebugTypes
  BY DebugNoneIs DEF Debug!Init, DebugTypes, Debug!Panel, Debug!Nothing, Debug!CallRow, Debug!NoCall
<1>2. \A op \in Debug!Op : ~Debug!Loading(op)
  BY DEF Debug!Init, Debug!Loading, Debug!NoCall
<1>3. DebugReadinessIsOfTheForm /\ DebugTicksAreForTheForm /\ Debug!CreationFollowsReadiness
  BY <1>2 DEF Debug!Init, DebugReadinessIsOfTheForm, DebugTicksAreForTheForm,
     Debug!CreationFollowsReadiness, Debug!Op
<1>4. controller.orphans = {} /\ \A d \in Candidate : controller.commands[d] = 0
  BY DEF Debug!Init
<1>5. DebugCommandsAreCounted
  <2> SUFFICES ASSUME NEW d \in Candidate
               PROVE  controller.commands[d] <= 1 /\ d \notin controller.orphans
    BY DEF DebugCommandsAreCounted
  <2> QED
    BY <1>4
<1> QED
  BY <1>1, <1>3, <1>5 DEF DebugInv

\* The form changes: no readiness is on display, what is awaited comes late, and
\* a request stays the same.
LEMMA DebugFormBecomesIs ==
  ASSUME DebugTypes, NEW p \in Debug!Panel, p.readiness = None, Debug!FormBecomes(p)
  PROVE  /\ panel' = p /\ call' \in [Debug!Op -> Debug!CallRow]
         /\ \A op \in Debug!Op : /\ call'[op].plan = call[op].plan
                                 /\ call'[op].checked = call[op].checked
                                 /\ call'[op].plan # None => call'[op].late
BY DEF DebugTypes, Debug!FormBecomes, Debug!CallRow, Debug!Loading

LEMMA DebugFormKeeps ==
  ASSUME DebugInv, NEW p \in Debug!Panel, p.readiness = None, Debug!FormBecomes(p),
         controller' = controller,
         p.form # None /\ p.ticks => p.byHand \/ p.form.of \in p.ticked
  PROVE  DebugInv' /\ Debug!RequestWasConfirmedAction
<1>1. /\ panel' = p /\ call' \in [Debug!Op -> Debug!CallRow]
      /\ \A op \in Debug!Op : /\ call'[op].plan = call[op].plan
                              /\ call'[op].checked = call[op].checked
                              /\ call'[op].plan # None => call'[op].late
  BY DebugFormBecomesIs DEF DebugInv
<1>2. DebugTypes'
  BY <1>1 DEF DebugInv, DebugTypes
<1>3. DebugReadinessIsOfTheForm' /\ DebugTicksAreForTheForm'
  BY <1>1 DEF DebugReadinessIsOfTheForm, DebugTicksAreForTheForm, Debug!Loading, Debug!Op
<1>4. Debug!CreationFollowsReadiness' /\ DebugCommandsAreCounted'
  BY <1>1 DEF DebugInv, Debug!CreationFollowsReadiness, DebugCommandsAreCounted, Debug!Loading,
     Debug!Op
<1>5. Debug!RequestWasConfirmedAction
  BY <1>1 DEF Debug!RequestWasConfirmedAction, Debug!Requested, Debug!Loading
<1> QED
  BY <1>2, <1>3, <1>4, <1>5 DEF DebugInv

LEMMA DebugApplyKeeps ==
  DebugInv /\ Debug!ApplyDebugContextCandidate => DebugInv' /\ Debug!RequestWasConfirmedAction
<1> SUFFICES ASSUME DebugInv, Debug!ApplyDebugContextCandidate
             PROVE DebugInv' /\ Debug!RequestWasConfirmedAction
  OBVIOUS
<1> DEFINE p == [Debug!Cleared(panel) EXCEPT !.form = [of |-> panel.selected, recorded |-> TRUE],
                                             !.ticks = FALSE, !.ticked = {}, !.byHand = FALSE]
<1>1. Debug!FormBecomes(p) /\ controller' = controller
  BY DEF Debug!ApplyDebugContextCandidate
<1>2. p \in Debug!Panel /\ p.readiness = None /\ ~p.ticks
  BY DEF Debug!ApplyDebugContextCandidate, DebugInv, DebugTypes, Debug!Panel, Debug!Plan,
     Debug!Cleared
<1> QED
  BY <1>1, <1>2, DebugFormKeeps

LEMMA DebugClearFormKeeps ==
  DebugInv /\ Debug!ClearForm => DebugInv' /\ Debug!RequestWasConfirmedAction
<1> SUFFICES ASSUME DebugInv, Debug!ClearForm PROVE DebugInv' /\ Debug!RequestWasConfirmedAction
  OBVIOUS
<1> DEFINE p == [Debug!Cleared(panel) EXCEPT !.form = None, !.ticks = FALSE,
                                             !.ticked = {}, !.byHand = FALSE]
<1>1. Debug!FormBecomes(p) /\ controller' = controller
  BY DEF Debug!ClearForm
<1>2. p \in Debug!Panel /\ p.readiness = None /\ ~p.ticks
  BY DEF DebugInv, DebugTypes, Debug!Panel, Debug!Cleared
<1> QED
  BY <1>1, <1>2, DebugFormKeeps

LEMMA DebugUpdateFormKeeps ==
  ASSUME DebugInv, NEW plan \in Debug!Plan, Debug!UpdateForm(plan)
  PROVE  DebugInv' /\ Debug!RequestWasConfirmedAction
<1> DEFINE byHand == panel.byHand \/ panel.form = None \/ panel.form.of # plan.of
           p == Debug!Typed(Debug!Cleared(panel), plan)
<1>1. Debug!FormBecomes(p) /\ controller' = controller
  BY DEF Debug!UpdateForm
<1>2. /\ Debug!Cleared(panel) \in Debug!Panel /\ Debug!Cleared(panel).readiness = None
      /\ Debug!Cleared(panel).ticks = panel.ticks /\ Debug!Cleared(panel).form = panel.form
      /\ Debug!Cleared(panel).byHand = panel.byHand /\ Debug!Cleared(panel).ticked = panel.ticked
  BY DEF DebugInv, DebugTypes, Debug!Panel, Debug!Cleared
<1>3. p = [Debug!Cleared(panel) EXCEPT !.form = plan, !.byHand = byHand,
                                       !.ticked = IF byHand THEN {} ELSE @]
  BY <1>2 DEF Debug!Typed
<1>4. byHand \in BOOLEAN
  BY DEF DebugInv, DebugTypes, Debug!Panel
<1> HIDE DEF byHand, p
<1>5. /\ p \in Debug!Panel /\ p.readiness = None /\ p.form = plan /\ p.byHand = byHand
      /\ p.ticks = panel.ticks /\ p.ticked = IF byHand THEN {} ELSE panel.ticked
  BY <1>2, <1>3, <1>4 DEF Debug!Panel
<1>6. ~byHand => panel.form # None /\ panel.form.of = plan.of /\ ~panel.byHand
  BY DEF byHand
<1>7. p.ticks => p.byHand \/ p.form.of \in p.ticked
  BY <1>5, <1>6 DEF DebugInv, DebugTicksAreForTheForm
<1> QED
  BY <1>1, <1>5, <1>7, DebugFormKeeps

\* Steps that leave call and controller alone.
LEMMA DebugOnDisplayKeeps ==
  ASSUME DebugInv, panel' \in Debug!Panel, UNCHANGED <<call, controller>>, panel'.form = panel.form,
         panel'.readiness \in {panel.readiness, None}, DebugTicksAreForTheForm'
  PROVE  DebugInv' /\ Debug!RequestWasConfirmedAction
BY DebugNoneIs DEF DebugInv, DebugTypes, DebugReadinessIsOfTheForm, Debug!CreationFollowsReadiness,
   DebugCommandsAreCounted,
   Debug!RequestWasConfirmedAction, Debug!Requested, Debug!Loading

LEMMA DebugConfirmationKeeps ==
  DebugInv /\ Debug!UpdateConfirmation => DebugInv' /\ Debug!RequestWasConfirmedAction
<1> SUFFICES ASSUME DebugInv, Debug!UpdateConfirmation
             PROVE DebugInv' /\ Debug!RequestWasConfirmedAction
  OBVIOUS
<1>1. /\ panel.form \in Debug!Plan /\ panel.ticks \in BOOLEAN /\ panel.byHand \in BOOLEAN
      /\ panel.ticked \in SUBSET Candidate /\ panel.form.of \in Candidate
  BY DEF DebugInv, DebugTypes, Debug!Panel, Debug!Plan, Debug!UpdateConfirmation
<1>2. /\ panel' \in Debug!Panel /\ panel'.form = panel.form /\ panel'.readiness = None
      /\ panel'.ticks = ~panel.ticks /\ panel'.byHand = panel.byHand
      /\ panel'.ticked = IF panel.ticks \/ panel.byHand THEN panel.ticked
                         ELSE panel.ticked \cup {panel.form.of}
  BY <1>1 DEF DebugInv, DebugTypes, Debug!Panel, Debug!Cleared, Debug!UpdateConfirmation
<1>3. DebugTicksAreForTheForm'
  BY <1>1, <1>2 DEF DebugTicksAreForTheForm
<1> QED
  BY <1>2, <1>3, DebugOnDisplayKeeps DEF Debug!UpdateConfirmation

LEMMA DebugContextKeeps ==
  ASSUME DebugInv, Debug!LoadDebugContext \/ \E d \in Candidate : Debug!SelectDryRunCandidate(d)
  PROVE  DebugInv' /\ Debug!RequestWasConfirmedAction
<1>1. /\ panel' \in Debug!Panel /\ UNCHANGED <<call, controller>>
      /\ panel'.form = panel.form /\ panel'.readiness = panel.readiness
      /\ panel'.ticks = panel.ticks /\ panel'.byHand = panel.byHand
      /\ panel'.ticked = panel.ticked
  <2>1. CASE Debug!LoadDebugContext
    <3>1. Debug!Integrity \in [Candidate -> {"absent", "ready", "blocked"}]
      BY DEF Debug!Integrity
    <3>2. PICK first \in Candidate : panel' = [panel EXCEPT !.context = Debug!Integrity, !.selected = first]
      BY <2>1 DEF Debug!LoadDebugContext
    <3> QED
      BY <2>1, <3>1, <3>2 DEF Debug!LoadDebugContext, DebugInv, DebugTypes, Debug!Panel
  <2>2. ASSUME NEW d \in Candidate, Debug!SelectDryRunCandidate(d)
        PROVE  <1>1!:
    BY <2>2 DEF Debug!SelectDryRunCandidate, DebugInv, DebugTypes, Debug!Panel
  <2> QED
    BY <2>1, <2>2
<1>2. DebugTicksAreForTheForm'
  BY <1>1 DEF DebugInv, DebugTicksAreForTheForm
<1> QED
  BY <1>1, <1>2, DebugOnDisplayKeeps

\* A request starts or ends: a row of call changes.
LEMMA DebugRowChanges ==
  ASSUME DebugTypes, NEW op \in Debug!Op, NEW row \in Debug!CallRow,
         call' = [call EXCEPT ![op] = row]
  PROVE  /\ call' \in [Debug!Op -> Debug!CallRow] /\ call'[op] = row
         /\ \A o \in Debug!Op \ {op} : call'[o] = call[o]
BY DEF DebugTypes

LEMMA DebugPayloadIs ==
  ASSUME DebugInv, Debug!RequestPayload # None
  PROVE  /\ panel.form \in Debug!Plan /\ Debug!RequestPayload = panel.form /\ panel.ticks
         /\ panel.byHand \/ panel.form.of \in panel.ticked
BY DEF DebugInv, DebugTypes, Debug!Panel, Debug!RequestPayload, Debug!ValidForm,
   DebugTicksAreForTheForm

LEMMA DebugNoCallIs == Debug!NoCall \in Debug!CallRow /\ Debug!NoCall.plan = None
BY DEF Debug!NoCall, Debug!CallRow

LEMMA DebugRunReadinessKeeps ==
  DebugInv /\ Debug!RunReadiness => DebugInv' /\ Debug!RequestWasConfirmedAction
<1> SUFFICES ASSUME DebugInv, Debug!RunReadiness PROVE DebugInv' /\ Debug!RequestWasConfirmedAction
  OBVIOUS
<1> DEFINE row == [Debug!NoCall EXCEPT !.plan = Debug!RequestPayload, !.checked = FALSE]
<1>1. /\ panel.form \in Debug!Plan /\ Debug!RequestPayload = panel.form /\ panel.ticks
      /\ panel.byHand \/ panel.form.of \in panel.ticked
  BY DebugPayloadIs DEF Debug!RunReadiness, Debug!CanRunReadiness
<1>2. /\ row \in Debug!CallRow /\ row.plan = panel.form
      /\ call' = [call EXCEPT !["readiness"] = row] /\ UNCHANGED <<panel, controller>>
  BY <1>1 DEF Debug!RunReadiness, Debug!Start, Debug!NoCall, Debug!CallRow
<1> HIDE DEF row
<1>3. /\ call' \in [Debug!Op -> Debug!CallRow] /\ call'["readiness"] = row
      /\ call'["create"] = call["create"]
  BY <1>2, DebugRowChanges DEF Debug!Op, DebugInv
<1>4. DebugTypes' /\ DebugReadinessIsOfTheForm' /\ DebugTicksAreForTheForm'
  BY <1>2, <1>3 DEF DebugInv, DebugTypes, DebugReadinessIsOfTheForm, DebugTicksAreForTheForm
<1>5. Debug!CreationFollowsReadiness' /\ DebugCommandsAreCounted'
  BY <1>2, <1>3 DEF DebugInv, Debug!CreationFollowsReadiness, DebugCommandsAreCounted, Debug!Loading
<1>6. Debug!RequestWasConfirmedAction
  BY <1>1, <1>2, <1>3 DEF Debug!RequestWasConfirmedAction, Debug!Requested, Debug!Loading, Debug!Op
<1> QED
  BY <1>4, <1>5, <1>6 DEF DebugInv

LEMMA DebugSubmitKeeps ==
  DebugInv /\ Debug!SubmitRealExecution => DebugInv' /\ Debug!RequestWasConfirmedAction
<1> SUFFICES ASSUME DebugInv, Debug!SubmitRealExecution
             PROVE DebugInv' /\ Debug!RequestWasConfirmedAction
  OBVIOUS
<1> DEFINE shown == panel.readiness
           checked == shown.ready /\ (shown.late \/ shown.plan = Debug!RequestPayload)
           row == [Debug!NoCall EXCEPT !.plan = Debug!RequestPayload, !.checked = checked]
           d == panel.form.of
<1>1. /\ panel.form \in Debug!Plan /\ Debug!RequestPayload = panel.form /\ panel.ticks
      /\ panel.byHand \/ panel.form.of \in panel.ticked
  BY DebugPayloadIs DEF Debug!SubmitRealExecution, Debug!CanCreateRealExecution
<1>2. d \in Candidate
  BY <1>1 DEF Debug!Plan
<1>3. checked = TRUE
  BY <1>1 DEF DebugInv, DebugReadinessIsOfTheForm, Debug!SubmitRealExecution,
     Debug!CanCreateRealExecution, DebugTypes,
              Debug!Panel, Debug!Readiness
<1>4. call' = [call EXCEPT !["create"] = row] /\ panel' = panel
  BY DEF Debug!SubmitRealExecution, Debug!Start
<1> HIDE DEF checked
<1>5. row \in Debug!CallRow /\ row.plan = panel.form /\ row.checked = TRUE
  BY <1>1, <1>3 DEF Debug!NoCall, Debug!CallRow
<1> HIDE DEF row
<1>6. /\ call' \in [Debug!Op -> Debug!CallRow] /\ call'["create"] = row
      /\ call'["readiness"] = call["readiness"]
  BY <1>4, <1>5, DebugRowChanges DEF Debug!Op, DebugInv
<1>7. /\ DebugTypes' /\ controller'.commands = controller.commands
      /\ controller'.orphans = controller.orphans
      /\ controller'.overlapped = IF d \in controller.orphans THEN controller.overlapped \cup {d}
                                  ELSE controller.overlapped
  BY <1>2, <1>4, <1>6 DEF Debug!SubmitRealExecution, DebugInv, DebugTypes
<1>8. DebugReadinessIsOfTheForm' /\ DebugTicksAreForTheForm' /\ Debug!CreationFollowsReadiness'
  BY <1>4, <1>5, <1>6
  DEF DebugInv, DebugReadinessIsOfTheForm, DebugTicksAreForTheForm, Debug!CreationFollowsReadiness,
     Debug!Loading
<1>9. DebugCommandsAreCounted'
  BY <1>5, <1>6, <1>7 DEF DebugInv, DebugCommandsAreCounted, Debug!Loading
<1>10. Debug!RequestWasConfirmedAction
  BY <1>1, <1>5, <1>6 DEF Debug!RequestWasConfirmedAction, Debug!Requested, Debug!Loading, Debug!Op
<1> QED
  BY <1>7, <1>8, <1>9, <1>10 DEF DebugInv

LEMMA DebugReadinessShownKeeps ==
  DebugInv /\ Debug!ReadinessShown => DebugInv' /\ Debug!RequestWasConfirmedAction
<1> SUFFICES ASSUME DebugInv, Debug!ReadinessShown
             PROVE DebugInv' /\ Debug!RequestWasConfirmedAction
  OBVIOUS
<1> DEFINE request == call["readiness"]
           ready == Debug!ReadyForRealExecution(request.plan)
           shown == [plan |-> request.plan, late |-> request.late, ready |-> ready]
<1>1. request.plan \in Debug!Plan /\ request.late \in BOOLEAN
  BY DEF Debug!ReadinessShown, Debug!Loading, DebugInv, DebugTypes, Debug!CallRow, Debug!Op
<1>2. ready \in BOOLEAN
  BY DEF Debug!ReadyForRealExecution
<1>3. /\ panel' = [panel EXCEPT !.readiness = shown] /\ controller' = controller
      /\ call' = [call EXCEPT !["readiness"] = Debug!NoCall]
  BY DEF Debug!ReadinessShown, Debug!Finish
<1> HIDE DEF ready
<1>4. shown \in Debug!Readiness /\ shown.late = request.late /\ shown.plan = request.plan
  BY <1>1, <1>2 DEF Debug!Readiness
<1> HIDE DEF shown
<1>5. /\ panel' \in Debug!Panel /\ panel'.readiness = shown /\ panel'.form = panel.form
      /\ panel'.ticks = panel.ticks /\ panel'.byHand = panel.byHand /\ panel'.ticked = panel.ticked
  BY <1>3, <1>4 DEF DebugInv, DebugTypes, Debug!Panel
<1>6. /\ call' \in [Debug!Op -> Debug!CallRow] /\ call'["readiness"] = Debug!NoCall
      /\ call'["create"] = call["create"]
  BY <1>3, DebugRowChanges, DebugNoCallIs DEF Debug!Op, DebugInv
<1>7. DebugTypes' /\ DebugTicksAreForTheForm'
  BY <1>3, <1>5, <1>6 DEF DebugInv, DebugTypes, DebugTicksAreForTheForm
<1>8. DebugReadinessIsOfTheForm'
  BY <1>4, <1>5, <1>6, DebugNoCallIs DEF DebugInv, DebugReadinessIsOfTheForm, Debug!ReadinessShown,
     Debug!Loading
<1>9. Debug!CreationFollowsReadiness' /\ DebugCommandsAreCounted'
  BY <1>3, <1>6 DEF DebugInv, Debug!CreationFollowsReadiness, DebugCommandsAreCounted, Debug!Loading
<1>10. Debug!RequestWasConfirmedAction
  BY <1>6, DebugNoCallIs DEF Debug!RequestWasConfirmedAction, Debug!Requested, Debug!Loading,
     Debug!Op
<1> QED
  BY <1>7, <1>8, <1>9, <1>10 DEF DebugInv

\* A request ends, and the panel stays: the counting is left to the step.
LEMMA DebugEndKeeps ==
  ASSUME DebugInv, NEW op \in Debug!Op, call' = [call EXCEPT ![op] = Debug!NoCall], panel' = panel
  PROVE  /\ call' \in [Debug!Op -> Debug!CallRow] /\ call'[op] = Debug!NoCall
         /\ \A o \in Debug!Op \ {op} : call'[o] = call[o]
         /\ DebugReadinessIsOfTheForm' /\ DebugTicksAreForTheForm' /\ Debug!CreationFollowsReadiness'
         /\ Debug!RequestWasConfirmedAction
<1>1. /\ call' \in [Debug!Op -> Debug!CallRow] /\ call'[op] = Debug!NoCall
      /\ \A o \in Debug!Op \ {op} : call'[o] = call[o]
  BY DebugRowChanges, DebugNoCallIs DEF DebugInv
<1>2. \A o \in Debug!Op : call'[o] = Debug!NoCall \/ call'[o] = call[o]
  BY <1>1
<1>3. DebugReadinessIsOfTheForm' /\ DebugTicksAreForTheForm'
  BY <1>2, DebugNoCallIs DEF DebugInv, DebugReadinessIsOfTheForm, DebugTicksAreForTheForm,
     Debug!Loading, Debug!Op
<1>4. Debug!CreationFollowsReadiness'
  BY <1>2, DebugNoCallIs DEF DebugInv, Debug!CreationFollowsReadiness, Debug!Loading, Debug!Op
<1>5. Debug!RequestWasConfirmedAction
  BY <1>2, DebugNoCallIs DEF Debug!RequestWasConfirmedAction, Debug!Requested, Debug!Loading
<1> QED
  BY <1>1, <1>3, <1>4, <1>5

LEMMA DebugCreatePlan ==
  ASSUME DebugInv, Debug!Loading("create")
  PROVE  call["create"].plan \in Debug!Plan /\ call["create"].plan.of \in Candidate
BY DEF Debug!Loading, DebugInv, DebugTypes, Debug!CallRow, Debug!Plan, Debug!Op

LEMMA DebugCreateAnsweredKeeps ==
  DebugInv /\ Debug!CreateAnswered => DebugInv' /\ Debug!RequestWasConfirmedAction
<1> SUFFICES ASSUME DebugInv, Debug!CreateAnswered
             PROVE DebugInv' /\ Debug!RequestWasConfirmedAction
  OBVIOUS
<1> DEFINE plan == call["create"].plan
           d == plan.of
<1>1. call' = [call EXCEPT !["create"] = Debug!NoCall] /\ panel' = panel /\ Debug!Loading("create")
  BY DEF Debug!CreateAnswered, Debug!Finish
<1>2. /\ call' \in [Debug!Op -> Debug!CallRow] /\ call'["create"] = Debug!NoCall
      /\ DebugReadinessIsOfTheForm' /\ DebugTicksAreForTheForm' /\ Debug!CreationFollowsReadiness'
      /\ Debug!RequestWasConfirmedAction
  BY <1>1, DebugEndKeeps DEF Debug!Op
<1>3. d \in Candidate
  BY <1>1, DebugCreatePlan
<1>4. CASE Debug!ReadyForRealExecution(plan)
  <2>1. controller' = [controller EXCEPT !.commands[d] = @ + 1] /\ controller.commands[d] = 0
    BY <1>4 DEF Debug!CreateAnswered, Debug!ReadyForRealExecution
  <2>2. /\ DebugTypes' /\ controller'.orphans = controller.orphans
        /\ controller'.overlapped = controller.overlapped /\ controller'.commands[d] = 1
        /\ \A e \in Candidate \ {d} : controller'.commands[e] = controller.commands[e]
    BY <1>1, <1>2, <1>3, <2>1 DEF DebugInv, DebugTypes
  <2>3. DebugCommandsAreCounted'
    BY <1>1, <1>2, <2>2, DebugNoCallIs DEF DebugInv, DebugCommandsAreCounted, Debug!Loading
  <2> QED
    BY <1>2, <2>2, <2>3 DEF DebugInv
<1>5. CASE ~Debug!ReadyForRealExecution(plan)
  <2>1. controller' = controller
    BY <1>5 DEF Debug!CreateAnswered
  <2> QED
    BY <1>1, <1>2, <2>1, DebugNoCallIs DEF DebugInv, DebugTypes, DebugCommandsAreCounted,
       Debug!Loading
<1> QED
  BY <1>4, <1>5

LEMMA DebugCreateOrphanedKeeps ==
  DebugInv /\ Debug!CreateOrphaned => DebugInv' /\ Debug!RequestWasConfirmedAction
<1> SUFFICES ASSUME DebugInv, Debug!CreateOrphaned
             PROVE DebugInv' /\ Debug!RequestWasConfirmedAction
  OBVIOUS
<1> DEFINE d == call["create"].plan.of
<1>1. call' = [call EXCEPT !["create"] = Debug!NoCall] /\ panel' = panel /\ Debug!Loading("create")
  BY DEF Debug!CreateOrphaned, Debug!Finish
<1>2. /\ call' \in [Debug!Op -> Debug!CallRow] /\ call'["create"] = Debug!NoCall
      /\ DebugReadinessIsOfTheForm' /\ DebugTicksAreForTheForm' /\ Debug!CreationFollowsReadiness'
      /\ Debug!RequestWasConfirmedAction
  BY <1>1, DebugEndKeeps DEF Debug!Op
<1>3. d \in Candidate /\ controller.commands[d] = 0
  BY <1>1, DebugCreatePlan DEF Debug!CreateOrphaned, Debug!ReadyForRealExecution
<1>4. /\ DebugTypes' /\ controller'.orphans = controller.orphans \cup {d}
      /\ controller'.overlapped = controller.overlapped
      /\ controller'.commands = controller.commands
  BY <1>1, <1>2, <1>3 DEF Debug!CreateOrphaned, DebugInv, DebugTypes
<1>5. DebugCommandsAreCounted'
  BY <1>2, <1>3, <1>4, DebugNoCallIs DEF DebugInv, DebugCommandsAreCounted, Debug!Loading
<1> QED
  BY <1>2, <1>4, <1>5 DEF DebugInv

LEMMA DebugFailsKeeps ==
  ASSUME DebugInv, NEW op \in Debug!Op, Debug!Fails(op)
  PROVE  DebugInv' /\ Debug!RequestWasConfirmedAction
<1>1. call' = [call EXCEPT ![op] = Debug!NoCall] /\ UNCHANGED <<panel, controller>>
  BY DEF Debug!Fails, Debug!Finish
<1>2. /\ call' \in [Debug!Op -> Debug!CallRow] /\ call'[op] = Debug!NoCall
      /\ \A o \in Debug!Op \ {op} : call'[o] = call[o]
      /\ DebugReadinessIsOfTheForm' /\ DebugTicksAreForTheForm' /\ Debug!CreationFollowsReadiness'
      /\ Debug!RequestWasConfirmedAction
  BY <1>1, DebugEndKeeps
<1>3. DebugTypes' /\ DebugCommandsAreCounted'
  BY <1>1, <1>2, DebugNoCallIs DEF DebugInv, DebugTypes, DebugCommandsAreCounted, Debug!Loading,
     Debug!Op
<1> QED
  BY <1>2, <1>3 DEF DebugInv

\* Steps of the controller by itself.
LEMMA DebugControllerKeeps ==
  ASSUME DebugInv, NEW d \in Candidate, Debug!RecordsChange(d) \/ Debug!OrphanWritten(d)
  PROVE  DebugInv' /\ Debug!RequestWasConfirmedAction
<1>1. UNCHANGED <<panel, call>>
  BY DEF Debug!RecordsChange, Debug!OrphanWritten
<1>2. Debug!RequestWasConfirmedAction
  BY <1>1 DEF Debug!RequestWasConfirmedAction, Debug!Requested, Debug!Loading
<1>3. DebugReadinessIsOfTheForm' /\ DebugTicksAreForTheForm' /\ Debug!CreationFollowsReadiness'
  BY <1>1 DEF DebugInv, DebugReadinessIsOfTheForm, DebugTicksAreForTheForm,
     Debug!CreationFollowsReadiness, Debug!Loading
<1>4. CASE Debug!RecordsChange(d)
  BY <1>1, <1>2, <1>3, <1>4
  DEF Debug!RecordsChange, DebugInv, DebugTypes, DebugCommandsAreCounted, Debug!Loading
<1>5. CASE Debug!OrphanWritten(d)
  <2>1. /\ controller'.live = controller.live /\ controller'.overlapped = controller.overlapped
        /\ controller'.orphans = controller.orphans \ {d}
        /\ controller'.commands = [controller.commands EXCEPT ![d] = @ + 1]
    BY <1>5 DEF Debug!OrphanWritten, DebugInv, DebugTypes
  <2>3. DebugTypes'
    <3> DEFINE written == [controller.commands EXCEPT ![d] = @ + 1]
    <3>1. written \in [Candidate -> Nat]
      BY DEF DebugInv, DebugTypes
    <3>2. controller' = [controller EXCEPT !.commands = written, !.orphans = @ \ {d}]
      BY <1>5 DEF Debug!OrphanWritten, DebugInv, DebugTypes
    <3> HIDE DEF written
    <3> QED
      BY <1>1, <3>1, <3>2 DEF DebugInv, DebugTypes
  <2>2. DebugCommandsAreCounted'
    BY <1>1, <1>5, <2>1 DEF Debug!OrphanWritten, DebugInv, DebugTypes, DebugCommandsAreCounted,
       Debug!Loading
  <2> QED
    BY <1>2, <1>3, <2>2, <2>3 DEF DebugInv
<1> QED
  BY <1>4, <1>5

LEMMA DebugNext ==
  ASSUME DebugInv, [Debug!Next]_(Debug!vars)
  PROVE  DebugInv' /\ Debug!RequestWasConfirmedAction
<1>1. CASE UNCHANGED Debug!vars
  <2>1. panel' = panel /\ UNCHANGED <<call, controller>>
    BY <1>1 DEF Debug!vars
  <2>2. DebugTicksAreForTheForm' /\ panel' \in Debug!Panel
    BY <2>1 DEF DebugInv, DebugTypes, DebugTicksAreForTheForm
  <2> QED
    BY <2>1, <2>2, DebugOnDisplayKeeps
<1>2. CASE \E plan \in Debug!Plan : Debug!UpdateForm(plan)
  BY <1>2, DebugUpdateFormKeeps
<1>3. CASE Debug!ApplyDebugContextCandidate \/ Debug!ClearForm \/ Debug!UpdateConfirmation \/ Debug!LoadDebugContext
  BY <1>3, DebugApplyKeeps, DebugClearFormKeeps, DebugConfirmationKeeps, DebugContextKeeps
<1>4. CASE \E d \in Candidate : Debug!SelectDryRunCandidate(d) \/ Debug!RecordsChange(d) \/ Debug!OrphanWritten(d)
  BY <1>4, DebugContextKeeps, DebugControllerKeeps
<1>5. CASE Debug!RunReadiness \/ Debug!ReadinessShown \/ Debug!SubmitRealExecution
  BY <1>5, DebugRunReadinessKeeps, DebugReadinessShownKeeps, DebugSubmitKeeps
<1>6. CASE Debug!CreateAnswered \/ Debug!CreateOrphaned \/ \E op \in Debug!Op : Debug!Fails(op)
  BY <1>6, DebugCreateAnsweredKeeps, DebugCreateOrphanedKeeps, DebugFailsKeeps
<1> QED
  BY <1>1, <1>2, <1>3, <1>4, <1>5, <1>6 DEF Debug!Next

LEMMA DebugHolds == DebugInv => Debug!CreationFollowsReadiness /\ Debug!OneCommandPerDryRun
BY DEF DebugInv, DebugCommandsAreCounted, Debug!OneCommandPerDryRun

-----------------------------------------------------------------------------
RegCommandRow == [draft : Registration!Draft, executed : BOOLEAN]

LEMMA RegNoneIs == None \notin Place \cup Name \cup Registration!Draft \cup Registration!Command \cup Registration!Result \cup RegCommandRow
BY HaproxyAssumption DEF RegCommandRow

RegStage == {"dry_run", "approval", "create"}

RegIsCommand(id) == id \in Registration!Command /\ controller.commands[id] # None

\* What a request works from was reviewed or approved; a command it names exists.
RegRowIsApproved(c) ==
  /\ call[c].op \in RegStage => call[c].draft \in Registration!Draft
  /\ call[c].op = "approval" => call[c].draft \in panel.reviewed
  /\ call[c].op = "create" => call[c].draft \in panel.approved
  /\ call[c].op = "create" /\ call[c].id # None => RegIsCommand(call[c].id)
  /\ call[c].op = "execute" => RegIsCommand(call[c].id)

\* What an execution found is still there; what it did not find came with a node.
RegDraftOf(c) == controller.commands[call[c].id].draft
RegFoundStands(c) ==
  call[c].op = "execute" /\ call[c].at = "checked" =>
    /\ call[c].found = "none" => controller.resources[RegDraftOf(c)] = 0 \/ RegDraftOf(c) \in controller.nodes
    /\ call[c].found = "resource" => controller.resources[RegDraftOf(c)] > 0
    /\ call[c].found = "both" => RegDraftOf(c) \in controller.nodes

RegAwaitedIsOfTheDraft(c) ==
  call[c].awaited /\ call[c].op \in RegStage => call[c].aside \/ call[c].draft = Registration!Displayed

RegRowInv(c) == RegRowIsApproved(c) /\ RegFoundStands(c) /\ RegAwaitedIsOfTheDraft(c)

RegDisplayInv ==
  /\ panel.dryRun # None => panel.dryRun.draft \in panel.reviewed
  /\ panel.approval # None => panel.approval.draft \in panel.approved
  /\ panel.approved \subseteq panel.reviewed
  /\ panel.commandId # None => RegIsCommand(panel.commandId)
  /\ Registration!ResultsAreOfTheDraft

RegCommandsAreApproved ==
  \A i \in Registration!Command : controller.commands[i] # None => controller.commands[i].draft \in panel.approved

RegRecordsInv == Registration!RegisteredWasApproved /\ Registration!OneResourcePerDraft /\ Registration!NodesAreWhole

\* While creations take turns.
RegOneEach ==
  ~controller.overlapped =>
    /\ \A i, j \in Registration!Command :
         /\ controller.commands[i] # None /\ controller.commands[j] # None
         /\ controller.commands[i].draft = controller.commands[j].draft
         => i = j
    /\ \A b, c \in Call : call[b].op = "create" /\ call[c].op = "create" => b = c
    /\ \A c \in Call : \A i \in Registration!Command :
         /\ call[c].op = "create" /\ call[c].at = "checked" /\ call[c].id = None
         /\ controller.commands[i] # None
         => controller.commands[i].draft # call[c].draft

RegInv ==
  /\ Registration!TypeOK /\ \A c \in Call : RegRowInv(c)
  /\ RegDisplayInv /\ RegCommandsAreApproved /\ RegRecordsInv /\ RegOneEach

-----------------------------------------------------------------------------
LEMMA RegNoCallIs ==
  Registration!NoCall \in Registration!CallRow /\ Registration!NoCall.op = "none" /\ ~Registration!NoCall.awaited
BY DEF Registration!NoCall, Registration!CallRow

LEMMA RegInit == Registration!Init => RegInv
<1> SUFFICES ASSUME Registration!Init PROVE RegInv
  OBVIOUS
<1>1. /\ panel = [selected |-> None, name |-> None, dryRun |-> None, approval |-> None,
                  command |-> None, commandId |-> None, reviewed |-> {}, approved |-> {}]
      /\ call \in [Call -> Registration!CallRow] /\ \A c \in Call : call[c] = Registration!NoCall
  BY RegNoCallIs DEF Registration!Init
<1>2. PICK known \in SUBSET Registration!Draft :
        controller = [commands |-> [i \in Registration!Command |-> None], nodes |-> {}, overlapped |-> FALSE,
                      resources |-> [d \in Registration!Draft |-> IF d \in known THEN 1 ELSE 0]]
  BY DEF Registration!Init
<1>3. /\ controller \in Registration!Controller /\ controller.nodes = {}
      /\ \A i \in Registration!Command : controller.commands[i] = None
      /\ \A d \in Registration!Draft : controller.resources[d] \in {0, 1}
  BY <1>2 DEF Registration!Controller
<1>4. Registration!TypeOK
  BY <1>1, <1>3 DEF Registration!TypeOK, Registration!Panel
<1>5. \A c \in Call : RegRowInv(c)
  BY <1>1, RegNoCallIs DEF RegRowInv, RegRowIsApproved, RegFoundStands, RegAwaitedIsOfTheDraft,
     RegStage
<1>6. RegDisplayInv
  BY <1>1 DEF RegDisplayInv, Registration!ResultsAreOfTheDraft
<1>7. RegCommandsAreApproved /\ RegOneEach
  BY <1>1, <1>3, RegNoCallIs DEF RegCommandsAreApproved, RegOneEach
<1>8. RegRecordsInv
  BY <1>3 DEF RegRecordsInv, Registration!RegisteredWasApproved, Registration!OneResourcePerDraft,
     Registration!NodesAreWhole
<1> QED
  BY <1>4, <1>5, <1>6, <1>7, <1>8 DEF RegInv

-----------------------------------------------------------------------------
(* What steps have in common. *)

\* Drafts stay reviewed and approved, commands keep their draft, records stay, and
\* a new resource comes with its node.
RegGrows ==
  /\ panel.reviewed \subseteq panel'.reviewed /\ panel.approved \subseteq panel'.approved
  /\ \A i \in Registration!Command : controller.commands[i] # None =>
       controller'.commands[i] # None /\ controller'.commands[i].draft = controller.commands[i].draft
  /\ controller.nodes \subseteq controller'.nodes
  /\ \A d \in Registration!Draft : /\ controller.resources[d] > 0 => controller'.resources[d] > 0
                                   /\ controller.resources[d] = 0 =>
                                        controller'.resources[d] = 0 \/ d \in controller'.nodes

LEMMA RegCommandsAreTyped ==
  ASSUME Registration!TypeOK, NEW i, RegIsCommand(i)
  PROVE  i \in Registration!Command /\ controller.commands[i] \in RegCommandRow /\ controller.commands[i].draft \in Registration!Draft
BY DEF Registration!TypeOK, Registration!Controller, RegIsCommand, RegCommandRow

\* A row that stays keeps what holds of it, aside or not.
LEMMA RegRowKept ==
  ASSUME Registration!TypeOK, RegGrows, NEW c \in Call, RegRowInv(c),
         call'[c].op = call[c].op, call'[c].draft = call[c].draft, call'[c].id = call[c].id,
         call'[c].awaited = call[c].awaited, call'[c].at = call[c].at,
         call'[c].found = call[c].found,
         \/ Registration!Displayed' = Registration!Displayed /\ call'[c].aside = call[c].aside
         \/ call[c].op \in RegStage => call'[c].aside
  PROVE  RegRowInv(c)'
<1>1. \A i : RegIsCommand(i) => RegIsCommand(i)'
  BY DEF RegGrows, RegIsCommand
<1>2. RegRowIsApproved(c)'
  BY <1>1 DEF RegRowInv, RegRowIsApproved, RegGrows
<1>3. RegAwaitedIsOfTheDraft(c)'
  BY DEF RegRowInv, RegAwaitedIsOfTheDraft
<1>4. CASE call[c].op = "execute"
  <2>1. RegIsCommand(call[c].id) /\ RegDraftOf(c) \in Registration!Draft
    BY <1>4, RegCommandsAreTyped DEF RegRowInv, RegRowIsApproved, RegDraftOf
  <2>2. RegDraftOf(c)' = RegDraftOf(c)
    BY <2>1 DEF RegDraftOf, RegGrows, RegIsCommand
  <2>3. RegFoundStands(c)'
    BY <1>4, <2>1, <2>2 DEF RegRowInv, RegFoundStands, RegGrows
  <2> QED
    BY <1>2, <1>3, <2>3 DEF RegRowInv
<1>5. CASE call[c].op # "execute"
  BY <1>2, <1>3, <1>5 DEF RegRowInv, RegFoundStands
<1> QED
  BY <1>4, <1>5

LEMMA RegRowChanges ==
  ASSUME Registration!TypeOK, NEW c \in Call, NEW row \in Registration!CallRow,
         call' = [call EXCEPT ![c] = row]
  PROVE  /\ call' \in [Call -> Registration!CallRow] /\ call'[c] = row
         /\ \A b \in Call \ {c} : call'[b] = call[b]
BY DEF Registration!TypeOK

\* The other rows in a step that changes one.
LEMMA RegOthersKept ==
  ASSUME RegInv, RegGrows, Registration!Displayed' = Registration!Displayed, NEW c \in Call,
         NEW row \in Registration!CallRow,
         call' = [call EXCEPT ![c] = row]
  PROVE  \A b \in Call \ {c} : RegRowInv(b)'
<1> TAKE b \in Call \ {c}
<1>1. call'[b] = call[b]
  BY RegRowChanges DEF RegInv
<1> QED
  BY <1>1, RegRowKept DEF RegInv

LEMMA RegNoRow ==
  ASSUME NEW c \in Call, call'[c] = Registration!NoCall
  PROVE  RegRowInv(c)'
BY RegNoCallIs DEF RegRowInv, RegRowIsApproved, RegFoundStands, RegAwaitedIsOfTheDraft, RegStage

\* The commands stay, and no creation starts or goes on.
LEMMA RegOneEachStays ==
  ASSUME RegInv, controller'.commands = controller.commands,
         controller'.overlapped = controller.overlapped,
         \A c \in Call : call'[c].op = "create" =>
           /\ call[c].op = "create" /\ call'[c].at = call[c].at
           /\ call'[c].id = call[c].id /\ call'[c].draft = call[c].draft
  PROVE  RegOneEach'
BY DEF RegInv, RegOneEach

\* The controller stays.
LEMMA RegControllerStays ==
  ASSUME RegInv, controller' = controller,
         panel.reviewed \subseteq panel'.reviewed, panel.approved \subseteq panel'.approved
  PROVE  RegGrows /\ RegCommandsAreApproved' /\ RegRecordsInv'
BY DEF RegInv, RegGrows, RegCommandsAreApproved, RegRecordsInv, Registration!RegisteredWasApproved,
   Registration!OneResourcePerDraft, Registration!NodesAreWhole

-----------------------------------------------------------------------------
(* The draft and the display. *)

LEMMA RegDraftKeeps ==
  ASSUME RegInv, NEW p \in Registration!Panel, Registration!DraftBecomes(p),
         p.dryRun = None, p.approval = None, p.command = None,
         p.reviewed = panel.reviewed, p.approved = panel.approved,
         p.commandId \in {panel.commandId, None}
  PROVE  RegInv'
<1>1. panel' = p /\ controller' = controller
  BY DEF Registration!DraftBecomes
<1>2. /\ call' \in [Call -> Registration!CallRow]
      /\ \A c \in Call :
           /\ call'[c].op = call[c].op /\ call'[c].draft = call[c].draft /\ call'[c].id = call[c].id
           /\ call'[c].awaited = call[c].awaited /\ call'[c].at = call[c].at
           /\ call'[c].found = call[c].found
           /\ call[c].op \in RegStage => call'[c].aside
  BY ZenonT(40) DEF Registration!DraftBecomes, RegInv, Registration!TypeOK, Registration!CallRow, RegStage
<1>3. RegGrows /\ RegCommandsAreApproved' /\ RegRecordsInv'
  BY <1>1, RegControllerStays
<1>4. Registration!TypeOK'
  BY <1>1, <1>2 DEF RegInv, Registration!TypeOK
<1>5. \A c \in Call : RegRowInv(c)'
  BY <1>2, <1>3, RegRowKept DEF RegInv
<1>6. RegDisplayInv'
  BY <1>1, RegNoneIs DEF RegInv, RegDisplayInv, Registration!ResultsAreOfTheDraft, RegIsCommand
<1>7. RegOneEach'
  BY <1>1, <1>2, RegOneEachStays
<1> QED
  BY <1>3, <1>4, <1>5, <1>6, <1>7 DEF RegInv

LEMMA RegClearedIs ==
  ASSUME Registration!TypeOK
  PROVE  /\ Registration!ClearedCommand(panel) = [panel EXCEPT !.command = None, !.commandId = None]
         /\ Registration!ClearedApproval(panel) = [panel EXCEPT !.approval = None, !.command = None,
                                                                !.commandId = None]
         /\ Registration!ClearedDraft(panel) = [panel EXCEPT !.name = None, !.dryRun = None, !.approval = None,
                                                             !.command = None, !.commandId = None]
BY DEF Registration!TypeOK, Registration!Panel, Registration!ClearedCommand,
   Registration!ClearedApproval, Registration!ClearedDraft

LEMMA RegSelectKeeps ==
  ASSUME RegInv, NEW d \in Place, Registration!SelectCandidate(d) PROVE RegInv'
<1> DEFINE p == [Registration!ClearedDraft(panel) EXCEPT !.selected = d]
<1>1. Registration!DraftBecomes(p)
  BY DEF Registration!SelectCandidate
<1>2. p = [panel EXCEPT !.selected = d, !.name = None, !.dryRun = None, !.approval = None,
                        !.command = None, !.commandId = None]
  BY RegClearedIs DEF RegInv, Registration!TypeOK, Registration!Panel
<1>3. /\ p \in Registration!Panel /\ p.dryRun = None /\ p.approval = None /\ p.command = None
      /\ p.reviewed = panel.reviewed /\ p.approved = panel.approved /\ p.commandId = None
  BY <1>2 DEF RegInv, Registration!TypeOK, Registration!Panel
<1> QED
  BY <1>1, <1>3, RegDraftKeeps

LEMMA RegClearDraftKeeps == RegInv /\ Registration!ClearDraft => RegInv'
<1> SUFFICES ASSUME RegInv, Registration!ClearDraft PROVE RegInv'
  OBVIOUS
<1> DEFINE p == Registration!ClearedDraft(panel)
<1>1. Registration!DraftBecomes(p)
  BY DEF Registration!ClearDraft
<1>2. /\ p \in Registration!Panel /\ p.dryRun = None /\ p.approval = None /\ p.command = None
      /\ p.reviewed = panel.reviewed /\ p.approved = panel.approved /\ p.commandId = None
  BY RegClearedIs DEF RegInv, Registration!TypeOK, Registration!Panel
<1> QED
  BY <1>1, <1>2, RegDraftKeeps

LEMMA RegUpdateDraftKeeps ==
  ASSUME RegInv, NEW n \in Name, Registration!UpdateDraft(n) PROVE RegInv'
<1> DEFINE p == [panel EXCEPT !.name = n, !.dryRun = None, !.approval = None, !.command = None]
<1>1. Registration!DraftBecomes(p)
  BY DEF Registration!UpdateDraft
<1>2. /\ p \in Registration!Panel /\ p.dryRun = None /\ p.approval = None /\ p.command = None
      /\ p.reviewed = panel.reviewed /\ p.approved = panel.approved
      /\ p.commandId = panel.commandId
  BY DEF RegInv, Registration!TypeOK, Registration!Panel
<1> QED
  BY <1>1, <1>2, RegDraftKeeps

\* Results leave the display, or an id comes into its field.
LEMMA RegDisplayKeeps ==
  ASSUME RegInv, UNCHANGED <<call, controller>>, panel' \in Registration!Panel,
         panel'.selected = panel.selected, panel'.name = panel.name,
         panel'.dryRun = panel.dryRun, panel'.approval \in {panel.approval, None},
         panel'.command \in {panel.command, None},
         panel'.reviewed = panel.reviewed, panel'.approved = panel.approved,
         panel'.commandId # None => RegIsCommand(panel'.commandId)
  PROVE  RegInv'
<1>1. RegGrows /\ RegCommandsAreApproved' /\ RegRecordsInv'
  BY RegControllerStays
<1>2. Registration!Displayed' = Registration!Displayed
  BY DEF Registration!Displayed
<1>3. \A c \in Call : RegRowInv(c)'
  BY <1>1, <1>2, RegRowKept DEF RegInv
<1>4. RegDisplayInv'
  BY <1>2, RegNoneIs DEF RegInv, RegDisplayInv, Registration!ResultsAreOfTheDraft, RegIsCommand
<1>5. RegOneEach'
  BY RegOneEachStays
<1>6. Registration!TypeOK'
  BY DEF RegInv, Registration!TypeOK
<1> QED
  BY <1>1, <1>3, <1>4, <1>5, <1>6 DEF RegInv

LEMMA RegClearKeeps ==
  ASSUME RegInv,
         Registration!ClearApproval \/ Registration!ClearCommand \/ Registration!ClearExecution
  PROVE  RegInv'
<1>1. /\ panel' \in Registration!Panel /\ panel'.selected = panel.selected /\ panel'.name = panel.name
      /\ panel'.dryRun = panel.dryRun /\ panel'.approval \in {panel.approval, None}
      /\ panel'.command \in {panel.command, None} /\ panel'.commandId = None
      /\ panel'.reviewed = panel.reviewed /\ panel'.approved = panel.approved
  <2>1. CASE Registration!ClearApproval
    BY <2>1, RegClearedIs DEF Registration!ClearApproval, RegInv, Registration!TypeOK,
       Registration!Panel
  <2>2. CASE Registration!ClearCommand
    BY <2>2, RegClearedIs DEF Registration!ClearCommand, RegInv, Registration!TypeOK,
       Registration!Panel
  <2>3. CASE Registration!ClearExecution
    BY <2>3 DEF Registration!ClearExecution, RegInv, Registration!TypeOK, Registration!Panel
  <2> QED
    BY <2>1, <2>2, <2>3
<1>2. UNCHANGED <<call, controller>>
  BY DEF Registration!ClearApproval, Registration!ClearCommand, Registration!ClearExecution
<1> QED
  BY <1>1, <1>2, RegDisplayKeeps

LEMMA RegTypeCommandIdKeeps ==
  ASSUME RegInv, NEW id \in Registration!Command, Registration!TypeCommandId(id) PROVE RegInv'
<1>1. /\ panel' \in Registration!Panel /\ panel'.selected = panel.selected /\ panel'.name = panel.name
      /\ panel'.dryRun = panel.dryRun /\ panel'.approval = panel.approval
      /\ panel'.command = panel.command /\ panel'.commandId = id
      /\ panel'.reviewed = panel.reviewed /\ panel'.approved = panel.approved
  BY DEF Registration!TypeCommandId, RegInv, Registration!TypeOK, Registration!Panel
<1>2. UNCHANGED <<call, controller>> /\ RegIsCommand(id)
  BY DEF Registration!TypeCommandId, RegIsCommand
<1> QED
  BY <1>1, <1>2, RegDisplayKeeps

-----------------------------------------------------------------------------
(* The requests. *)

LEMMA RegStartIs ==
  ASSUME Registration!TypeOK, NEW c \in Call, NEW op \in {"dry_run", "approval", "create",
         "execute"},
         NEW draft \in Registration!Draft \cup {None}, NEW id \in Registration!Command \cup {None}, Registration!Start(c, op, draft, id)
  PROVE  \E row \in Registration!CallRow :
           /\ call[c].op = "none" /\ call' = [call EXCEPT ![c] = row]
           /\ row.op = op /\ row.draft = draft /\ row.id = id /\ row.at = "sent"
           /\ op # "execute" => row.aside \/ draft = Registration!Displayed
<1> DEFINE aside == op # "execute" /\ draft # Registration!Displayed
           row == [Registration!NoCall EXCEPT !.op = op, !.draft = draft, !.id = id, !.awaited = TRUE,
                                              !.aside = aside]
<1>1. call[c].op = "none" /\ call' = [call EXCEPT ![c] = row]
  BY DEF Registration!Start
<1>2. aside \in BOOLEAN /\ (op # "execute" => aside \/ draft = Registration!Displayed)
  OBVIOUS
<1> HIDE DEF aside
<1>3. /\ row \in Registration!CallRow /\ row.op = op /\ row.draft = draft /\ row.id = id /\ row.at = "sent"
      /\ row.aside = aside
  BY <1>2 DEF Registration!NoCall, Registration!CallRow
<1> QED
  BY <1>1, <1>2, <1>3

\* A request starts, other than a creation, on what it may work from.
LEMMA RegStartKeeps ==
  ASSUME RegInv, NEW c \in Call, NEW op \in {"dry_run", "approval", "execute"},
         NEW draft \in Registration!Draft \cup {None}, NEW id \in Registration!Command \cup {None}, Registration!Start(c, op, draft, id),
         UNCHANGED <<panel, controller>>,
         op # "execute" => draft \in Registration!Draft, op = "approval" => draft \in panel.reviewed,
         op = "execute" => RegIsCommand(id)
  PROVE  RegInv'
<1>1. PICK row \in Registration!CallRow :
        /\ call[c].op = "none" /\ call' = [call EXCEPT ![c] = row]
        /\ row.op = op /\ row.draft = draft /\ row.id = id /\ row.at = "sent"
        /\ op # "execute" => row.aside \/ draft = Registration!Displayed
  BY RegStartIs DEF RegInv
<1>2. /\ call' \in [Call -> Registration!CallRow] /\ call'[c] = row
      /\ \A b \in Call \ {c} : call'[b] = call[b]
  BY <1>1, RegRowChanges DEF RegInv
<1>3. RegGrows /\ RegCommandsAreApproved' /\ RegRecordsInv' /\ RegDisplayInv' /\ Registration!Displayed' = Registration!Displayed
  BY RegControllerStays DEF RegInv, RegDisplayInv, Registration!ResultsAreOfTheDraft, RegIsCommand,
     Registration!Displayed
<1>4. RegRowInv(c)'
  BY <1>1, <1>2, <1>3
  DEF RegRowInv, RegRowIsApproved, RegFoundStands, RegAwaitedIsOfTheDraft, RegIsCommand, RegStage
<1>5. \A b \in Call \ {c} : RegRowInv(b)'
  BY <1>1, <1>3, RegOthersKept
<1>6. RegOneEach'
  BY <1>1, <1>2, RegOneEachStays
<1>7. Registration!TypeOK'
  BY <1>2 DEF RegInv, Registration!TypeOK
<1> QED
  BY <1>3, <1>4, <1>5, <1>6, <1>7 DEF RegInv

LEMMA RegSourcesAre ==
  ASSUME RegInv
  PROVE  /\ Registration!DraftReady => Registration!Displayed \in Registration!Draft
         /\ Registration!DryRunSource \subseteq panel.reviewed /\ panel.reviewed \subseteq Registration!Draft
         /\ Registration!ApprovalSource \subseteq panel.approved /\ panel.approved \subseteq Registration!Draft
<1>1. Registration!DraftReady => Registration!Displayed \in Registration!Draft
  BY DEF RegInv, Registration!TypeOK, Registration!Panel, Registration!DraftReady,
     Registration!Displayed, Registration!Draft
<1> QED
  BY <1>1 DEF RegInv, Registration!TypeOK, Registration!Panel, Registration!DryRunSource,
     Registration!ApprovalSource, Registration!Of, RegDisplayInv

LEMMA RegRunKeeps ==
  ASSUME RegInv, NEW c \in Call,
         Registration!RunDryRun(c) \/ Registration!RunApproval(c) \/ Registration!RunExecutionVerify(c)
  PROVE  RegInv'
<1>1. CASE Registration!RunDryRun(c)
  BY <1>1, RegSourcesAre, RegStartKeeps DEF Registration!RunDryRun, Registration!DryRunOffered
<1>2. CASE Registration!RunApproval(c)
  <2>1. PICK d \in Registration!DryRunSource : Registration!Start(c, "approval", d, None)
    BY <1>2 DEF Registration!RunApproval
  <2> QED
    BY <1>2, <2>1, RegSourcesAre, RegStartKeeps DEF Registration!RunApproval
<1>3. CASE Registration!RunExecutionVerify(c)
  <2>1. RegIsCommand(panel.commandId)
    BY <1>3 DEF RegInv, RegDisplayInv, Registration!RunExecutionVerify,
       Registration!ExecutionOffered
  <2>2. panel.commandId \in Registration!Command
    BY <2>1 DEF RegIsCommand
  <2> QED
    BY <1>3, <2>1, <2>2, RegStartKeeps DEF Registration!RunExecutionVerify
<1> QED
  BY <1>1, <1>2, <1>3

LEMMA RegRunCommandCreateKeeps ==
  ASSUME RegInv, NEW c \in Call, Registration!RunCommandCreate(c)
  PROVE  RegInv'
<1>1. PICK d \in Registration!ApprovalSource : Registration!Start(c, "create", d, None)
  BY DEF Registration!RunCommandCreate
<1>2. d \in panel.approved /\ d \in Registration!Draft
  BY RegSourcesAre
<1>3. PICK row \in Registration!CallRow :
        /\ call[c].op = "none" /\ call' = [call EXCEPT ![c] = row]
        /\ row.op = "create" /\ row.draft = d /\ row.id = None /\ row.at = "sent"
        /\ row.aside \/ d = Registration!Displayed
  BY <1>1, <1>2, RegStartIs DEF RegInv
<1>4. /\ call' \in [Call -> Registration!CallRow] /\ call'[c] = row
      /\ \A b \in Call \ {c} : call'[b] = call[b]
  BY <1>3, RegRowChanges DEF RegInv
<1>5. /\ controller' \in Registration!Controller /\ panel' = panel
      /\ controller'.commands = controller.commands /\ controller'.nodes = controller.nodes
      /\ controller'.resources = controller.resources
      /\ controller'.overlapped = (controller.overlapped \/ Registration!Running("create"))
  BY DEF Registration!RunCommandCreate, RegInv, Registration!TypeOK, Registration!Controller,
     Registration!Running
<1>6. /\ RegGrows /\ RegCommandsAreApproved' /\ RegRecordsInv' /\ RegDisplayInv' /\ Registration!Displayed' = Registration!Displayed
  BY <1>5 DEF RegInv, RegGrows, RegCommandsAreApproved, RegRecordsInv,
     Registration!RegisteredWasApproved, Registration!Displayed,
     Registration!OneResourcePerDraft, Registration!NodesAreWhole, RegDisplayInv, Registration!ResultsAreOfTheDraft, RegIsCommand
<1>7. RegRowInv(c)'
  BY <1>2, <1>3, <1>4, <1>5, <1>6
  DEF RegRowInv, RegRowIsApproved, RegFoundStands, RegAwaitedIsOfTheDraft, RegStage
<1>8. \A b \in Call \ {c} : RegRowInv(b)'
  BY <1>3, <1>6, RegOthersKept
<1>9. RegOneEach'
  <2> SUFFICES ASSUME ~controller'.overlapped PROVE RegOneEach'
    BY DEF RegOneEach
  <2>1. ~controller.overlapped /\ \A b \in Call : call[b].op # "create"
    BY <1>5 DEF Registration!Running
  <2>2. \A b \in Call : call'[b].op = "create" => b = c /\ call'[b].at = "sent"
    BY <1>3, <1>4, <2>1
  <2> QED
    BY <1>5, <2>1, <2>2 DEF RegInv, RegOneEach
<1>10. Registration!TypeOK'
  BY <1>4, <1>5 DEF RegInv, Registration!TypeOK
<1> QED
  BY <1>6, <1>7, <1>8, <1>9, <1>10 DEF RegInv

\* A request ends or is given up: the panel and the controller stay.
LEMMA RegRowEnds ==
  ASSUME RegInv, NEW c \in Call, NEW row \in Registration!CallRow, call' = [call EXCEPT ![c] = row],
         UNCHANGED <<panel, controller>>,
         \/ row = Registration!NoCall
         \/ /\ row.op = call[c].op /\ row.draft = call[c].draft /\ row.id = call[c].id
            /\ row.at = call[c].at /\ row.found = call[c].found /\ ~row.awaited
  PROVE  RegInv'
<1>1. /\ call' \in [Call -> Registration!CallRow] /\ call'[c] = row
      /\ \A b \in Call \ {c} : call'[b] = call[b]
  BY RegRowChanges DEF RegInv
<1>2. RegGrows /\ RegCommandsAreApproved' /\ RegRecordsInv' /\ RegDisplayInv' /\ Registration!Displayed' = Registration!Displayed
  BY RegControllerStays DEF RegInv, RegDisplayInv, Registration!ResultsAreOfTheDraft, RegIsCommand,
     Registration!Displayed
<1>3. RegRowInv(c)'
  <2>1. CASE row = Registration!NoCall
    BY <1>1, <2>1, RegNoRow
  <2>2. CASE row # Registration!NoCall
    BY <1>1, <2>2 DEF RegInv, RegRowInv, RegRowIsApproved, RegFoundStands, RegAwaitedIsOfTheDraft,
       RegIsCommand,
                      RegDraftOf
  <2> QED
    BY <2>1, <2>2
<1>4. \A b \in Call \ {c} : RegRowInv(b)'
  BY <1>2, RegOthersKept
<1>5. RegOneEach'
  BY <1>1, RegNoCallIs, RegOneEachStays
<1>6. Registration!TypeOK'
  BY <1>1 DEF RegInv, Registration!TypeOK
<1> QED
  BY <1>2, <1>3, <1>4, <1>5, <1>6 DEF RegInv

LEMMA RegGivesUpKeeps == ASSUME RegInv, NEW c \in Call, Registration!GivesUp(c) PROVE RegInv'
<1>1. CASE call[c].op \in {"create", "execute"}
  <2> DEFINE row == [call[c] EXCEPT !.awaited = FALSE, !.aside = FALSE]
  <2>1. /\ row \in Registration!CallRow /\ row.op = call[c].op /\ row.draft = call[c].draft
        /\ row.id = call[c].id /\ row.at = call[c].at /\ row.found = call[c].found /\ ~row.awaited
    BY ZenonT(40) DEF RegInv, Registration!TypeOK, Registration!CallRow
  <2>2. call' = [call EXCEPT ![c] = row] /\ UNCHANGED <<panel, controller>>
    BY <1>1 DEF Registration!GivesUp, RegInv, Registration!TypeOK
  <2> QED
    BY <2>1, <2>2, RegRowEnds
<1>2. CASE call[c].op \notin {"create", "execute"}
  BY <1>2, RegRowEnds, RegNoCallIs DEF Registration!GivesUp, Registration!Finish
<1> QED
  BY <1>1, <1>2

-----------------------------------------------------------------------------
(* The answers. *)

\* A dry run or an approval is answered, or a creation: the panel shows what came.
LEMMA RegAnswerKeeps ==
  ASSUME RegInv, NEW c \in Call, call' = [call EXCEPT ![c] = Registration!NoCall],
         controller' = controller,
         RegDisplayInv', panel' \in Registration!Panel, Registration!Displayed' = Registration!Displayed,
         panel.reviewed \subseteq panel'.reviewed, panel.approved \subseteq panel'.approved
  PROVE  RegInv'
<1>1. /\ call' \in [Call -> Registration!CallRow] /\ call'[c] = Registration!NoCall
      /\ \A b \in Call \ {c} : call'[b] = call[b]
  BY RegRowChanges, RegNoCallIs DEF RegInv
<1>2. RegGrows /\ RegCommandsAreApproved' /\ RegRecordsInv'
  BY RegControllerStays
<1>3. \A b \in Call : RegRowInv(b)'
  BY <1>1, <1>2, RegNoRow, RegNoCallIs, RegOthersKept
<1>4. RegOneEach'
  BY <1>1, RegNoCallIs, RegOneEachStays
<1>5. Registration!TypeOK'
  BY <1>1 DEF RegInv, Registration!TypeOK
<1> QED
  BY <1>2, <1>3, <1>4, <1>5 DEF RegInv

\* The result of a request that is awaited.
LEMMA RegResultIs ==
  ASSUME RegInv, NEW c \in Call, call[c].op \in RegStage
  PROVE  /\ Registration!ResultOf(c) \in Registration!Result /\ Registration!ResultOf(c).draft = call[c].draft /\ call[c].draft \in Registration!Draft
         /\ call[c].awaited => Registration!ResultOf(c).aside \/ Registration!ResultOf(c).draft = Registration!Displayed
<1>1. call[c].draft \in Registration!Draft /\ call[c].aside \in BOOLEAN
  BY DEF RegInv, RegRowInv, RegRowIsApproved, Registration!TypeOK, Registration!CallRow
<1> QED
  BY <1>1 DEF RegInv, RegRowInv, RegAwaitedIsOfTheDraft, Registration!ResultOf, Registration!Result

LEMMA RegDryRunAnsweredKeeps ==
  ASSUME RegInv, NEW c \in Call, Registration!DryRunAnswered(c) PROVE RegInv'
<1> DEFINE d == call[c].draft
           ready == \A n \in controller.nodes : n.of # d.of /\ n.name # d.name
           result == IF ready THEN Registration!ResultOf(c) ELSE None
           reviewed == IF ready THEN panel.reviewed \cup {d} ELSE panel.reviewed
           p == [panel EXCEPT !.approval = None, !.command = None, !.dryRun = result,
                              !.reviewed = reviewed]
<1>1. /\ Registration!ResultOf(c) \in Registration!Result /\ Registration!ResultOf(c).draft = d /\ d \in Registration!Draft
      /\ call[c].awaited => Registration!ResultOf(c).aside \/ Registration!ResultOf(c).draft = Registration!Displayed
  BY RegResultIs DEF Registration!DryRunAnswered, RegStage
<1>2. /\ panel' = IF call[c].awaited THEN p ELSE panel
      /\ call' = [call EXCEPT ![c] = Registration!NoCall] /\ controller' = controller
  BY DEF Registration!DryRunAnswered, Registration!Answered, Registration!Finish
<1>3. /\ result \in Registration!Result \cup {None} /\ reviewed \in SUBSET Registration!Draft /\ panel.reviewed \subseteq reviewed
      /\ result # None => /\ result.draft \in reviewed
                          /\ call[c].awaited => result.aside \/ result.draft = Registration!Displayed
  BY <1>1 DEF RegInv, Registration!TypeOK, Registration!Panel
<1> HIDE DEF result, reviewed
<1>4. /\ p \in Registration!Panel /\ p.selected = panel.selected /\ p.name = panel.name /\ p.approval = None
      /\ p.command = None /\ p.dryRun = result /\ p.commandId = panel.commandId
      /\ p.reviewed = reviewed /\ p.approved = panel.approved
  BY <1>3 DEF RegInv, Registration!TypeOK, Registration!Panel
<1> HIDE DEF p
<1>5. /\ panel' \in Registration!Panel /\ Registration!Displayed' = Registration!Displayed
      /\ panel.reviewed \subseteq panel'.reviewed /\ panel.approved \subseteq panel'.approved
  BY <1>2, <1>3, <1>4 DEF RegInv, Registration!TypeOK, Registration!Displayed
<1>6. CASE call[c].awaited
  <2>1. panel' = p
    BY <1>2, <1>6
  <2>2. Registration!ResultsAreOfTheDraft'
    BY <1>3, <1>4, <1>5, <1>6, <2>1 DEF Registration!ResultsAreOfTheDraft
  <2>3. RegDisplayInv'
    BY <1>2, <1>3, <1>4, <2>1, <2>2 DEF RegInv, RegDisplayInv, RegIsCommand
  <2> QED
    BY <1>2, <1>5, <2>3, RegAnswerKeeps
<1>7. CASE ~call[c].awaited
  <2>1. RegDisplayInv'
    BY <1>2, <1>7 DEF RegInv, RegDisplayInv, Registration!ResultsAreOfTheDraft, RegIsCommand,
       Registration!Displayed
  <2> QED
    BY <1>2, <1>5, <2>1, RegAnswerKeeps
<1> QED
  BY <1>6, <1>7

LEMMA RegApprovalAnsweredKeeps ==
  ASSUME RegInv, NEW c \in Call, Registration!ApprovalAnswered(c) PROVE RegInv'
<1> DEFINE d == call[c].draft
           result == Registration!ResultOf(c)
           p == [panel EXCEPT !.approval = result, !.command = None, !.approved = @ \cup {d}]
<1>1. /\ result \in Registration!Result /\ result.draft = d /\ d \in Registration!Draft
      /\ call[c].awaited => result.aside \/ result.draft = Registration!Displayed
  BY RegResultIs DEF Registration!ApprovalAnswered, RegStage
<1>2. d \in panel.reviewed
  BY DEF RegInv, RegRowInv, RegRowIsApproved, Registration!ApprovalAnswered
<1>3. /\ panel' = IF call[c].awaited THEN p ELSE panel
      /\ call' = [call EXCEPT ![c] = Registration!NoCall] /\ controller' = controller
  BY DEF Registration!ApprovalAnswered, Registration!Answered, Registration!Finish
<1> HIDE DEF result
<1>4. /\ p \in Registration!Panel /\ p.selected = panel.selected /\ p.name = panel.name /\ p.approval = result
      /\ p.command = None /\ p.dryRun = panel.dryRun /\ p.commandId = panel.commandId
      /\ p.reviewed = panel.reviewed /\ p.approved = panel.approved \cup {d}
  BY <1>1 DEF RegInv, Registration!TypeOK, Registration!Panel
<1> HIDE DEF p
<1>5. /\ panel' \in Registration!Panel /\ Registration!Displayed' = Registration!Displayed
      /\ panel.reviewed \subseteq panel'.reviewed /\ panel.approved \subseteq panel'.approved
  BY <1>3, <1>4 DEF RegInv, Registration!TypeOK, Registration!Displayed
<1>6. CASE call[c].awaited
  <2>1. panel' = p
    BY <1>3, <1>6
  <2>2. Registration!ResultsAreOfTheDraft'
    BY <1>1, <1>4, <1>5, <1>6, <2>1 DEF RegInv, RegDisplayInv, Registration!ResultsAreOfTheDraft
  <2>3. RegDisplayInv'
    BY <1>1, <1>2, <1>3, <1>4, <2>1, <2>2 DEF RegInv, RegDisplayInv, RegIsCommand
  <2> QED
    BY <1>3, <1>5, <2>3, RegAnswerKeeps
<1>7. CASE ~call[c].awaited
  <2>1. RegDisplayInv'
    BY <1>3, <1>7 DEF RegInv, RegDisplayInv, Registration!ResultsAreOfTheDraft, RegIsCommand,
       Registration!Displayed
  <2> QED
    BY <1>3, <1>5, <2>1, RegAnswerKeeps
<1> QED
  BY <1>6, <1>7

LEMMA RegExistingAre ==
  \A d : \A i \in Registration!Command :
    i \in Registration!Existing(d) <=> controller.commands[i] # None /\ controller.commands[i].draft = d
BY DEF Registration!Existing

LEMMA RegCreateCheckedKeeps ==
  ASSUME RegInv, NEW c \in Call, Registration!CreateChecked(c) PROVE RegInv'
<1> DEFINE d == call[c].draft
<1>1. PICK id \in (IF Registration!Existing(d) = {} THEN {None} ELSE Registration!Existing(d)) :
        call' = [call EXCEPT ![c].at = "checked", ![c].id = id]
  BY DEF Registration!CreateChecked
<1>2. /\ id = None => \A i \in Registration!Command : controller.commands[i] # None => controller.commands[i].draft # d
      /\ id # None => RegIsCommand(id)
      /\ id \in Registration!Command \cup {None}
  BY <1>1, RegExistingAre, RegNoneIs DEF Registration!Existing, RegIsCommand
<1> DEFINE row == [call[c] EXCEPT !.at = "checked", !.id = id]
<1>3. /\ row \in Registration!CallRow /\ row.op = "create" /\ row.draft = d /\ row.id = id
      /\ row.awaited = call[c].awaited /\ row.aside = call[c].aside /\ row.at = "checked"
  BY <1>2 DEF Registration!CreateChecked, RegInv, Registration!TypeOK, Registration!CallRow
<1>4. call' = [call EXCEPT ![c] = row] /\ UNCHANGED <<panel, controller>>
  BY <1>1 DEF Registration!CreateChecked, RegInv, Registration!TypeOK
<1> HIDE DEF row
<1>5. /\ call' \in [Call -> Registration!CallRow] /\ call'[c] = row
      /\ \A b \in Call \ {c} : call'[b] = call[b]
  BY <1>3, <1>4, RegRowChanges DEF RegInv
<1>6. RegGrows /\ RegCommandsAreApproved' /\ RegRecordsInv' /\ RegDisplayInv' /\ Registration!Displayed' = Registration!Displayed
  BY <1>4, RegControllerStays DEF RegInv, RegDisplayInv, Registration!ResultsAreOfTheDraft,
     RegIsCommand, Registration!Displayed
<1>7. RegRowInv(c)'
  BY <1>2, <1>3, <1>4, <1>5, <1>6 DEF RegInv, RegRowInv, RegRowIsApproved, RegFoundStands,
     RegAwaitedIsOfTheDraft,
     RegIsCommand, Registration!CreateChecked, RegStage
<1>8. \A b \in Call \ {c} : RegRowInv(b)'
  BY <1>3, <1>4, <1>6, RegOthersKept
<1>9. RegOneEach'
  <2>1. \A b \in Call : call'[b].op = call[b].op
    BY <1>3, <1>5 DEF Registration!CreateChecked
  <2>2. \A b \in Call : call'[b] = call[b] \/ b = c
    BY <1>5
  <2>3. id = None => \A i \in Registration!Command : controller.commands[i] # None => controller.commands[i].draft # d
    BY <1>2
  <2> QED
    BY <1>3, <1>4, <1>5, <2>1, <2>2, <2>3 DEF RegInv, RegOneEach
<1>10. Registration!TypeOK'
  BY <1>4, <1>5 DEF RegInv, Registration!TypeOK
<1> QED
  BY <1>6, <1>7, <1>8, <1>9, <1>10 DEF RegInv

\* The panel after an answer to a creation, whether a command was made or found.
LEMMA RegCreationShown ==
  ASSUME RegInv, NEW c \in Call, call[c].op = "create", NEW id \in Registration!Command,
         NEW executed \in BOOLEAN, RegIsCommand(id)',
         \A i \in Registration!Command : RegIsCommand(i) => RegIsCommand(i)',
         Registration!Answered(c, [panel EXCEPT !.commandId = id,
                                                !.command = IF executed THEN None ELSE Registration!ResultOf(c)])
  PROVE  /\ panel' \in Registration!Panel /\ Registration!Displayed' = Registration!Displayed /\ RegDisplayInv'
         /\ panel'.reviewed = panel.reviewed /\ panel'.approved = panel.approved
<1> DEFINE result == IF executed THEN None ELSE Registration!ResultOf(c)
           p == [panel EXCEPT !.commandId = id, !.command = result]
<1>1. /\ result \in Registration!Result \cup {None}
      /\ result # None /\ call[c].awaited => result.aside \/ result.draft = Registration!Displayed
  BY RegResultIs DEF RegStage
<1>2. panel' = IF call[c].awaited THEN p ELSE panel
  BY DEF Registration!Answered
<1> HIDE DEF result
<1>3. /\ p \in Registration!Panel /\ p.selected = panel.selected /\ p.name = panel.name
      /\ p.approval = panel.approval /\ p.command = result /\ p.dryRun = panel.dryRun
      /\ p.commandId = id /\ p.reviewed = panel.reviewed /\ p.approved = panel.approved
  BY <1>1 DEF RegInv, Registration!TypeOK, Registration!Panel
<1> HIDE DEF p
<1>4. /\ panel' \in Registration!Panel /\ Registration!Displayed' = Registration!Displayed
      /\ panel'.reviewed = panel.reviewed /\ panel'.approved = panel.approved
  BY <1>2, <1>3 DEF RegInv, Registration!TypeOK, Registration!Displayed
<1>5. CASE call[c].awaited
  <2>1. Registration!ResultsAreOfTheDraft'
    BY <1>1, <1>2, <1>3, <1>4, <1>5 DEF RegInv, RegDisplayInv, Registration!ResultsAreOfTheDraft
  <2>2. RegDisplayInv'
    BY <1>2, <1>3, <1>5, <2>1 DEF RegInv, RegDisplayInv
  <2> QED
    BY <1>4, <2>2
<1>6. CASE ~call[c].awaited
  <2>1. panel' = panel
    BY <1>2, <1>6
  <2>2. panel.commandId # None =>
          panel.commandId \in Registration!Command /\ controller'.commands[panel.commandId] # None
    BY DEF RegInv, RegDisplayInv, RegIsCommand
  <2>3. RegDisplayInv'
    BY <1>4, <2>1, <2>2 DEF RegInv, RegDisplayInv, Registration!ResultsAreOfTheDraft, RegIsCommand
  <2> QED
    BY <1>4, <2>3
<1> QED
  BY <1>5, <1>6

LEMMA RegCreateAnsweredKeeps ==
  ASSUME RegInv, NEW c \in Call, Registration!CreateAnswered(c) PROVE RegInv'
<1> DEFINE d == call[c].draft
<1>1. PICK id \in Registration!Command :
        /\ IF call[c].id # None THEN id = call[c].id /\ UNCHANGED controller
           ELSE /\ id \in Registration!Unused /\ \A i \in Registration!Unused : id <= i
                /\ controller' = [controller EXCEPT !.commands[id] =
                                    [draft |-> call[c].draft, executed |-> FALSE]]
        /\ Registration!Answered(c, [panel EXCEPT !.commandId = id, !.command =
             IF call[c].id # None /\ controller.commands[id].executed THEN None ELSE Registration!ResultOf(c)])
  BY DEF Registration!CreateAnswered
<1>2. call[c].op = "create" /\ call[c].at = "checked" /\ d \in Registration!Draft /\ d \in panel.approved
  BY DEF Registration!CreateAnswered, RegInv, RegRowInv, RegRowIsApproved, RegStage
<1>3. call' = [call EXCEPT ![c] = Registration!NoCall]
  BY <1>1 DEF Registration!Answered, Registration!Finish
<1> DEFINE executed == call[c].id # None /\ controller.commands[id].executed
<1>4. CASE call[c].id # None
  <2>1. controller' = controller /\ id = call[c].id
    BY <1>1, <1>4
  <2>2. RegIsCommand(id)
    BY <1>2, <1>4, <2>1 DEF RegInv, RegRowInv, RegRowIsApproved
  <2>3. executed \in BOOLEAN
    OBVIOUS
  <2>4. \A i \in Registration!Command : RegIsCommand(i) => RegIsCommand(i)'
    BY <2>1 DEF RegIsCommand
  <2> HIDE DEF executed
  <2>5. Registration!Answered(c, [panel EXCEPT !.commandId = id, !.command = IF executed THEN None ELSE Registration!ResultOf(c)])
    BY <1>1 DEF executed
  <2>6. /\ panel' \in Registration!Panel /\ Registration!Displayed' = Registration!Displayed /\ RegDisplayInv'
        /\ panel'.reviewed = panel.reviewed /\ panel'.approved = panel.approved
    BY <1>2, <2>2, <2>3, <2>4, <2>5, RegCreationShown
  <2> QED
    BY <1>3, <2>1, <2>6, RegAnswerKeeps
<1>5. CASE call[c].id = None
  <2> DEFINE made == [draft |-> d, executed |-> FALSE]
  <2>1. controller' = [controller EXCEPT !.commands[id] = made] /\ id \in Registration!Unused
    BY <1>1, <1>5
  <2>2. made \in RegCommandRow /\ made # None /\ made.draft = d
    <3>1. made \in RegCommandRow /\ made.draft = d
      BY <1>2 DEF RegCommandRow
    <3> QED
      BY <3>1, RegNoneIs
  <2> HIDE DEF made
  <2>3. /\ controller' \in Registration!Controller /\ controller'.commands[id] = made
        /\ \A i \in Registration!Command \ {id} : controller'.commands[i] = controller.commands[i]
        /\ controller'.nodes = controller.nodes /\ controller'.resources = controller.resources
        /\ controller'.overlapped = controller.overlapped /\ controller.commands[id] = None
    BY <2>1, <2>2 DEF RegInv, Registration!TypeOK, Registration!Controller, RegCommandRow,
       Registration!Unused
  <2>4. RegIsCommand(id)' /\ \A i \in Registration!Command : RegIsCommand(i) => RegIsCommand(i)'
    BY <2>2, <2>3 DEF RegIsCommand
  <2>5. Registration!Answered(c, [panel EXCEPT !.commandId = id, !.command = IF FALSE THEN None ELSE Registration!ResultOf(c)])
    BY <1>1, <1>5
  <2>6. /\ panel' \in Registration!Panel /\ Registration!Displayed' = Registration!Displayed /\ RegDisplayInv'
        /\ panel'.reviewed = panel.reviewed /\ panel'.approved = panel.approved
    BY <1>2, <2>4, <2>5, RegCreationShown
  <2>7. RegGrows
    BY <2>3, <2>6 DEF RegGrows
  <2>8. RegCommandsAreApproved' /\ RegRecordsInv'
    BY <1>2, <2>2, <2>3, <2>6 DEF RegInv, RegCommandsAreApproved, RegRecordsInv,
       Registration!RegisteredWasApproved,
       Registration!OneResourcePerDraft, Registration!NodesAreWhole
  <2>9. /\ call' \in [Call -> Registration!CallRow] /\ call'[c] = Registration!NoCall
        /\ \A b \in Call \ {c} : call'[b] = call[b]
    BY <1>3, RegRowChanges, RegNoCallIs DEF RegInv
  <2>10. \A b \in Call : RegRowInv(b)'
    BY <1>3, <2>6, <2>7, <2>9, RegNoRow, RegNoCallIs, RegOthersKept
  <2>11. RegOneEach'
    <3> SUFFICES ASSUME ~controller.overlapped PROVE RegOneEach'
      BY <2>3 DEF RegOneEach
    <3>1. \A b \in Call : call'[b].op # "create"
      BY <1>2, <2>9, RegNoCallIs DEF RegInv, RegOneEach
    <3>2. \A i \in Registration!Command : controller.commands[i] # None => controller.commands[i].draft # d
      BY <1>2, <1>5 DEF RegInv, RegOneEach
    <3> QED
      BY <2>2, <2>3, <3>1, <3>2 DEF RegInv, RegOneEach
  <2>12. Registration!TypeOK'
    BY <2>3, <2>6, <2>9 DEF RegInv, Registration!TypeOK
  <2> QED
    BY <2>6, <2>8, <2>10, <2>11, <2>12 DEF RegInv
<1> QED
  BY <1>4, <1>5

LEMMA RegExecuteCheckedKeeps ==
  ASSUME RegInv, NEW c \in Call, Registration!ExecuteChecked(c) PROVE RegInv'
<1> DEFINE d == controller.commands[call[c].id].draft
           found == IF d \in controller.nodes THEN "both"
                    ELSE IF controller.resources[d] > 0 THEN "resource" ELSE "none"
           row == [call[c] EXCEPT !.at = "checked", !.found = found]
<1>1. RegIsCommand(call[c].id) /\ d \in Registration!Draft
  BY RegCommandsAreTyped DEF Registration!ExecuteChecked, RegInv, RegRowInv, RegRowIsApproved
<1>2. CASE controller.commands[call[c].id].executed \/ Registration!Conflict(d)
  BY <1>2, RegNoCallIs, RegRowEnds DEF Registration!ExecuteChecked, Registration!Finish
<1>3. CASE ~(controller.commands[call[c].id].executed \/ Registration!Conflict(d))
  <2>1. /\ row \in Registration!CallRow /\ row.op = "execute" /\ row.id = call[c].id /\ row.found = found
    BY DEF Registration!ExecuteChecked, RegInv, Registration!TypeOK, Registration!CallRow
  <2>2. call' = [call EXCEPT ![c] = row] /\ UNCHANGED <<panel, controller>>
    BY <1>3 DEF Registration!ExecuteChecked, RegInv, Registration!TypeOK
  <2> HIDE DEF row
  <2>3. /\ call' \in [Call -> Registration!CallRow] /\ call'[c] = row
        /\ \A b \in Call \ {c} : call'[b] = call[b]
    BY <2>1, <2>2, RegRowChanges DEF RegInv
  <2>4. RegGrows /\ RegCommandsAreApproved' /\ RegRecordsInv' /\ RegDisplayInv' /\ Registration!Displayed' = Registration!Displayed
    BY <2>2, RegControllerStays DEF RegInv, RegDisplayInv, Registration!ResultsAreOfTheDraft,
       RegIsCommand, Registration!Displayed
  <2>5. controller.resources[d] \in 0..2
    BY <1>1 DEF RegInv, Registration!TypeOK, Registration!Controller
  <2>6. RegDraftOf(c)' = d
    BY <2>1, <2>2, <2>3 DEF RegDraftOf
  <2>7. RegFoundStands(c)'
    BY <2>1, <2>2, <2>3, <2>5, <2>6 DEF RegFoundStands
  <2>8. RegRowInv(c)'
    BY <1>1, <2>1, <2>2, <2>3, <2>7 DEF RegRowInv, RegRowIsApproved, RegAwaitedIsOfTheDraft,
       RegIsCommand, RegStage
  <2>9. \A b \in Call \ {c} : RegRowInv(b)'
    BY <2>1, <2>2, <2>4, RegOthersKept
  <2>10. RegOneEach'
    BY <2>1, <2>2, <2>3, RegOneEachStays
  <2>11. Registration!TypeOK'
    BY <2>2, <2>3 DEF RegInv, Registration!TypeOK
  <2> QED
    BY <2>4, <2>8, <2>9, <2>10, <2>11 DEF RegInv
<1> QED
  BY <1>2, <1>3

LEMMA RegExecuteAnsweredKeeps ==
  ASSUME RegInv, NEW c \in Call, Registration!ExecuteAnswered(c) PROVE RegInv'
<1> DEFINE id == call[c].id
           d == controller.commands[id].draft
           found == call[c].found
<1>1. /\ RegIsCommand(id) /\ id \in Registration!Command /\ d \in Registration!Draft /\ controller.commands[id] \in RegCommandRow
      /\ call[c].op = "execute" /\ call[c].at = "checked" /\ found \in {"none", "resource", "both"}
  BY RegCommandsAreTyped DEF Registration!ExecuteAnswered, RegInv, RegRowInv, RegRowIsApproved,
     Registration!TypeOK, Registration!CallRow
<1>2. call' = [call EXCEPT ![c] = Registration!NoCall] /\ panel' = panel
  BY DEF Registration!ExecuteAnswered, Registration!Finish
<1>3. /\ call' \in [Call -> Registration!CallRow] /\ call'[c] = Registration!NoCall
      /\ \A b \in Call \ {c} : call'[b] = call[b]
  BY <1>2, RegRowChanges, RegNoCallIs DEF RegInv
<1>4. CASE ~(found = "both" \/ Registration!NodeAllowed(d))
  BY <1>2, <1>4, RegNoCallIs, RegRowEnds DEF Registration!ExecuteAnswered
<1>5. CASE found = "both" \/ Registration!NodeAllowed(d)
  <2> DEFINE done == [controller.commands[id] EXCEPT !.executed = TRUE]
             commands == [controller.commands EXCEPT ![id] = done]
             n == IF found # "none" THEN controller.resources[d] ELSE controller.resources[d] + 1
             resources == [controller.resources EXCEPT ![d] = n]
  <2>1. /\ found = "none" => controller.resources[d] = 0
        /\ found = "resource" => controller.resources[d] > 0
        /\ found = "both" => d \in controller.nodes /\ controller.resources[d] > 0
    BY <1>1, <1>5 DEF RegInv, RegRowInv, RegFoundStands, RegDraftOf, RegRecordsInv,
       Registration!NodesAreWhole, Registration!NodeAllowed
  <2>2. controller.resources[d] \in {0, 1}
    BY <1>1 DEF RegInv, Registration!TypeOK, Registration!Controller, RegRecordsInv,
       Registration!OneResourcePerDraft
  <2>3. n = 1
    BY <1>1, <2>1, <2>2
  <2>4. controller' = [controller EXCEPT !.commands = commands, !.nodes = @ \cup {d},
                                         !.resources = resources]
    BY <1>1, <1>5 DEF Registration!ExecuteAnswered, RegInv, Registration!TypeOK,
       Registration!Controller
  <2>5. done \in RegCommandRow /\ done.draft = d /\ done # None
    BY <1>1, RegNoneIs DEF RegCommandRow
  <2> HIDE DEF done, n
  <2>6. /\ commands \in [Registration!Command -> RegCommandRow \cup {None}] /\ commands[id] = done
        /\ \A i \in Registration!Command \ {id} : commands[i] = controller.commands[i]
    BY <1>1, <2>5 DEF RegInv, Registration!TypeOK, Registration!Controller, RegCommandRow
  <2>7. /\ resources \in [Registration!Draft -> 0..2] /\ resources[d] = 1
        /\ \A e \in Registration!Draft \ {d} : resources[e] = controller.resources[e]
    BY <1>1, <2>3 DEF RegInv, Registration!TypeOK, Registration!Controller
  <2> HIDE DEF commands, resources
  <2>8. /\ controller' \in Registration!Controller /\ controller'.commands = commands
        /\ controller'.resources = resources /\ controller'.nodes = controller.nodes \cup {d}
        /\ controller'.overlapped = controller.overlapped
    BY <1>1, <2>4, <2>6, <2>7 DEF RegInv, Registration!TypeOK, Registration!Controller,
       RegCommandRow
  <2>9. RegGrows
    BY <1>1, <1>2, <2>5, <2>6, <2>7, <2>8 DEF RegGrows, RegIsCommand
  <2>10. d \in panel.approved /\ d \in panel.reviewed
    BY <1>1 DEF RegInv, RegCommandsAreApproved, RegDisplayInv, RegIsCommand
  <2>11. RegCommandsAreApproved'
    BY <1>2, <2>5, <2>6, <2>8, <2>10 DEF RegInv, RegCommandsAreApproved
  <2>12. Registration!RegisteredWasApproved' /\ Registration!OneResourcePerDraft'
    BY <1>2, <2>7, <2>8, <2>10 DEF RegInv, RegRecordsInv, Registration!RegisteredWasApproved,
       Registration!OneResourcePerDraft
  <2>13. Registration!NodesAreWhole'
    <3>1. controller.nodes \subseteq Registration!Draft
      BY DEF RegInv, Registration!TypeOK, Registration!Controller
    <3>2. \A m \in controller'.nodes : controller'.resources[m] > 0
      BY <2>7, <2>8, <3>1 DEF RegInv, RegRecordsInv, Registration!NodesAreWhole
    <3>3. \A m \in controller.nodes : m.of = d.of => m = d
      BY <1>5, <2>1 DEF RegInv, RegRecordsInv, Registration!NodesAreWhole, Registration!NodeAllowed
    <3> QED
      BY <2>8, <3>2, <3>3 DEF RegInv, RegRecordsInv, Registration!NodesAreWhole
  <2>14. RegDisplayInv' /\ Registration!Displayed' = Registration!Displayed
    BY <1>2, <2>9 DEF RegInv, RegDisplayInv, Registration!ResultsAreOfTheDraft, RegIsCommand,
       Registration!Displayed, RegGrows
  <2>15. \A b \in Call : RegRowInv(b)'
    BY <1>2, <1>3, <2>9, <2>14, RegNoRow, RegNoCallIs, RegOthersKept
  <2>16. RegOneEach'
    <3>1. \A i \in Registration!Command : controller'.commands[i] # None <=> controller.commands[i] # None
      BY <1>1, <2>5, <2>6, <2>8 DEF RegIsCommand
    <3>2. \A i \in Registration!Command : controller'.commands[i] # None =>
            controller'.commands[i].draft = controller.commands[i].draft
      BY <2>5, <2>6, <2>8
    <3>3. \A b \in Call : call'[b].op = "create" => call'[b] = call[b]
      BY <1>3, RegNoCallIs
    <3> QED
      BY <2>8, <3>1, <3>2, <3>3 DEF RegInv, RegOneEach
  <2>17. Registration!TypeOK'
    BY <1>2, <1>3, <2>8 DEF RegInv, Registration!TypeOK
  <2> QED
    BY <2>11, <2>12, <2>13, <2>14, <2>15, <2>16, <2>17 DEF RegInv, RegRecordsInv
<1> QED
  BY <1>4, <1>5

-----------------------------------------------------------------------------
LEMMA RegNext == RegInv /\ [Registration!Next]_(Registration!vars) => RegInv'
<1> SUFFICES ASSUME RegInv, [Registration!Next]_(Registration!vars) PROVE RegInv'
  OBVIOUS
<1>1. CASE UNCHANGED Registration!vars
  <2>1. panel' = panel /\ UNCHANGED <<call, controller>>
    BY <1>1 DEF Registration!vars
  <2>2. panel' \in Registration!Panel /\ (panel'.commandId # None => RegIsCommand(panel'.commandId))
    BY <2>1 DEF RegInv, Registration!TypeOK, RegDisplayInv
  <2> QED
    BY <2>1, <2>2, RegDisplayKeeps
<1>2. CASE \/ \E d \in Place : Registration!SelectCandidate(d)
           \/ \E n \in Name : Registration!UpdateDraft(n)
           \/ \E id \in Registration!Command : Registration!TypeCommandId(id)
           \/ Registration!ClearDraft \/ Registration!ClearApproval \/ Registration!ClearCommand \/ Registration!ClearExecution
  BY <1>2, RegSelectKeeps, RegUpdateDraftKeeps, RegTypeCommandIdKeeps, RegClearDraftKeeps,
     RegClearKeeps
<1>3. ASSUME NEW c \in Call,
             \/ Registration!RunDryRun(c) \/ Registration!RunApproval(c) \/ Registration!RunCommandCreate(c)
             \/ Registration!RunExecutionVerify(c) \/ Registration!GivesUp(c)
      PROVE  RegInv'
  BY <1>3, RegRunKeeps, RegRunCommandCreateKeeps, RegGivesUpKeeps
<1>4. ASSUME NEW c \in Call,
             \/ Registration!DryRunAnswered(c) \/ Registration!ApprovalAnswered(c)
             \/ Registration!CreateChecked(c) \/ Registration!CreateAnswered(c)
             \/ Registration!ExecuteChecked(c) \/ Registration!ExecuteAnswered(c)
      PROVE  RegInv'
  BY <1>4, RegDryRunAnsweredKeeps, RegApprovalAnsweredKeeps, RegCreateCheckedKeeps,
     RegCreateAnsweredKeeps,
     RegExecuteCheckedKeeps, RegExecuteAnsweredKeeps
<1> QED
  BY <1>1, <1>2, <1>3, <1>4 DEF Registration!Next

\* The instance has Cardinality under a name of its own.
LEMMA RegCardinality == ASSUME NEW S PROVE Registration!Cardinality(S) = Cardinality(S)
BY DEF Registration!Cardinality, Cardinality

LEMMA RegHolds ==
  RegInv => /\ Registration!RegisteredWasApproved /\ Registration!ResultsAreOfTheDraft
            /\ Registration!OneCommandPerDraft /\ Registration!OneResourcePerDraft /\ Registration!NodesAreWhole
<1> SUFFICES ASSUME RegInv PROVE Registration!OneCommandPerDraft
  BY DEF RegInv, RegRecordsInv, RegDisplayInv
<1> SUFFICES ASSUME ~controller.overlapped, NEW d \in Registration!Draft
             PROVE Cardinality(Registration!Existing(d)) <= 1
  BY RegCardinality DEF Registration!OneCommandPerDraft
<1>1. CASE Registration!Existing(d) = {}
  BY <1>1, FS_EmptySet
<1>2. ASSUME NEW i \in Registration!Existing(d) PROVE Cardinality(Registration!Existing(d)) <= 1
  <2>1. Registration!Existing(d) = {i}
    BY <1>2 DEF Registration!Existing, RegInv, RegOneEach
  <2>2. Cardinality(Registration!Existing(d)) = 1
    BY <2>1, FS_Singleton
  <2> QED
    BY <2>2
<1> QED
  BY <1>1, <1>2

-----------------------------------------------------------------------------
(* AdvancedHaproxyDebugPanel: both parts. *)

HaproxyInv == (mode = "debug" => DebugInv) /\ (mode = "registration" => RegInv)

LEMMA HaproxyInitHolds == HaproxyInit => HaproxyInv
BY DebugInit, RegInit DEF HaproxyInit, HaproxyInv

LEMMA HaproxyKeeps ==
  ASSUME HaproxyInv, [HaproxyNext]_vars
  PROVE  HaproxyInv' /\ (mode = "debug" => Debug!RequestWasConfirmedAction)
<1>1. mode' = mode
  BY DEF HaproxyNext, vars
<1>2. CASE mode = "debug"
  <2>1. [Debug!Next]_(Debug!vars)
    BY <1>2 DEF HaproxyNext, vars, Debug!vars
  <2> QED
    BY <1>1, <1>2, <2>1, DebugNext DEF HaproxyInv
<1>3. CASE mode = "registration"
  <2>1. [Registration!Next]_(Registration!vars)
    BY <1>3 DEF HaproxyNext, vars, Registration!vars
  <2> QED
    BY <1>1, <1>3, <2>1, RegNext DEF HaproxyInv
<1> QED
  BY <1>1, <1>2, <1>3 DEF HaproxyInv

LEMMA HaproxyRunInv == HaproxySpec => []HaproxyInv
<1>1. HaproxyInv /\ [HaproxyNext]_vars => HaproxyInv'
  BY HaproxyKeeps
<1> QED
  BY <1>1, HaproxyInitHolds, PTL DEF HaproxySpec

\* However often the operator sends a request again, the debug panel makes one
\* command of a dry run, and the registration one command, resource and node of a
\* draft, with no lock between the check and the insert (CarriedOutOnce says what
\* overlapping requests excuse).
THEOREM PanelCarriesOutOnce == HaproxySpec => []CarriedOutOnce
<1>1. HaproxyInv => CarriedOutOnce
  BY DebugHolds, RegHolds DEF HaproxyInv, CarriedOutOnce
<1> QED
  BY <1>1, HaproxyRunInv, PTL

\* A creation follows the readiness of its own plan and confirmations ticked for
\* its candidate; a registration follows the dry run and the approval of its draft,
\* and what the panel shows of them is of the draft on display.
THEOREM PanelCarriesOutAsApproved == HaproxySpec => CarriedOutAsApproved
<1>1. HaproxyInv => /\ mode = "debug" => Debug!CreationFollowsReadiness
                    /\ mode = "registration" => /\ Registration!RegisteredWasApproved
                                                /\ Registration!ResultsAreOfTheDraft
  BY DebugHolds, RegHolds DEF HaproxyInv
<1>2. HaproxyInv /\ [HaproxyNext]_vars => (mode = "debug" => Debug!RequestWasConfirmedAction)
  BY HaproxyKeeps
<1> QED
  BY <1>1, <1>2, HaproxyRunInv, PTL DEF HaproxySpec, CarriedOutAsApproved

-----------------------------------------------------------------------------
(* TransitServersPanel: the install command, the polling and the removal of a server. *)

LEMMA ServersAre ==
  None \notin Server /\ IsFiniteSet(Call) /\ MaxPolls \in Nat
BY TransitPanelsAssumption

ServersGenerates(c) == call[c].op = "generate"
ServersPolls(c) == call[c].op = "poll"
ServersWatches(c) == call[c].op \in {"delete", "watch"}

ServersRowIsAimed(c) ==
  /\ call[c].step = "timer" => ServersPolls(c)
  /\ ServersGenerates(c) \/ ServersPolls(c) \/ ServersWatches(c) => call[c].server \in Server

\* What is still on its way for the modal is of its server.
ServersPreviewInv ==
  /\ panel.modal # "preview" => panel.result = None /\ panel.announced = None
  /\ panel.modal = "preview" /\ ~panel.late =>
       /\ panel.result \in {None, panel.target} /\ panel.announced \in {None, panel.target}
       /\ \A c \in Call : ServersGenerates(c) \/ ServersPolls(c) => call[c].server = panel.target

\* The flag of a generation stands while one is out.
ServersTurnsInv ==
  ~panel.overlapped =>
    /\ \A b, c \in Call : ServersGenerates(b) /\ ServersGenerates(c) => b = c
    /\ panel.modal = "preview" => \A c \in Call : ServersGenerates(c) => panel.generating

\* One chain, and the refs are its own.
ServersPollIsOfTheRefs(c) ==
  /\ call[c].server = panel.pollFor /\ call[c].mode = panel.context
  /\ call[c].step = "timer" => panel.timer = c

ServersPollInv ==
  ~panel.crossed =>
    /\ \A c \in Call : ServersPolls(c) => ServersPollIsOfTheRefs(c)
    /\ \A b, c \in Call : ServersPolls(b) /\ ServersPolls(c) => b = c
    /\ panel.result # None /\ panel.pollFor # None => panel.result = panel.pollFor
    /\ panel.close # None /\ panel.result # None => panel.result = panel.close

ServersModalIsOfAServer == panel.modal \in {"preview", "edit", "delete"} => panel.target \in Server

ServersInv ==
  /\ Servers!TypeOK /\ ServersModalIsOfAServer /\ \A c \in Call : ServersRowIsAimed(c)
  /\ ServersPreviewInv /\ ServersTurnsInv /\ ServersPollInv /\ Servers!HiddenRowIsWatched

-----------------------------------------------------------------------------
LEMMA ServersNoCallIs ==
  Servers!NoCall \in Servers!CallRow /\ Servers!NoCall.op = "none" /\ Servers!NoCall.step = "main"
BY ServersAre DEF Servers!NoCall, Servers!CallRow, Servers!Mode

LEMMA ServersInit == Servers!Init => ServersInv
<1> SUFFICES ASSUME Servers!Init PROVE ServersInv
  OBVIOUS
<1>1. /\ call \in [Call -> Servers!CallRow] /\ \A c \in Call : call[c] = Servers!NoCall
  BY ServersNoCallIs DEF Servers!Init
<1>2. PICK row \in [Server -> Servers!Row \ {"deleted"}] : controller = [row |-> row, cleaning |-> {}]
  BY DEF Servers!Init
<1>3. controller \in Servers!Controller
  BY <1>2 DEF Servers!Controller, Servers!Row
<1>4. panel \in Servers!Panel
  BY DEF Servers!Init, Servers!Panel, Servers!Mode
<1>5. \A c \in Call : ServersRowIsAimed(c) /\ ~ServersGenerates(c) /\ ~ServersPolls(c)
  BY <1>1, ServersNoCallIs DEF ServersRowIsAimed, ServersGenerates, ServersPolls, ServersWatches
<1>6. ServersPreviewInv /\ ServersTurnsInv /\ ServersPollInv /\ Servers!HiddenRowIsWatched /\ ServersModalIsOfAServer
  BY <1>5 DEF Servers!Init, ServersModalIsOfAServer, ServersPreviewInv, ServersTurnsInv,
     ServersPollInv, Servers!HiddenRowIsWatched
<1> QED
  BY <1>1, <1>3, <1>4, <1>5, <1>6 DEF ServersInv, Servers!TypeOK

-----------------------------------------------------------------------------
(* What steps have in common. *)

\* One row becomes another; beside it only a timer is taken back.
ServersChanges(c, row) ==
  /\ call' \in [Call -> Servers!CallRow] /\ call'[c] = row
  /\ \A b \in Call \ {c} : call'[b] = call[b] \/ (ServersPolls(b) /\ call'[b] = Servers!NoCall)

\* The timer of the ref is taken back.
ServersClears(c) ==
  \A b \in Call \ {c} : call[b].step = "timer" /\ panel.timer = b => call'[b] = Servers!NoCall

LEMMA ServersStartChanges ==
  ASSUME Servers!TypeOK, NEW c \in Call, NEW row \in Servers!CallRow,
         call' = [call EXCEPT ![c] = row]
  PROVE  ServersChanges(c, row) /\ \A b \in Call \ {c} : call'[b] = call[b]
BY DEF Servers!TypeOK, ServersChanges

LEMMA ServersClearTimerChanges ==
  ASSUME Servers!TypeOK, \A b \in Call : ServersRowIsAimed(b),
         NEW c \in Call, NEW row \in Servers!CallRow, call' = [Servers!ClearTimer EXCEPT ![c] = row]
  PROVE  ServersChanges(c, row) /\ ServersClears(c)
<1>1. /\ Servers!ClearTimer \in [Call -> Servers!CallRow]
      /\ \A b \in Call : Servers!ClearTimer[b] = IF panel.timer = b /\ call[b].step = "timer" THEN Servers!NoCall
                                                 ELSE call[b]
  BY ServersNoCallIs DEF Servers!ClearTimer, Servers!TypeOK
<1> HIDE DEF Servers!ClearTimer
<1>2. call' \in [Call -> Servers!CallRow] /\ call'[c] = row /\ \A b \in Call \ {c} : call'[b] = Servers!ClearTimer[b]
  BY <1>1
<1> QED
  BY <1>1, <1>2 DEF ServersChanges, ServersClears, ServersRowIsAimed

LEMMA ServersRowsStay ==
  ASSUME ServersInv, NEW c \in Call, NEW row, ServersChanges(c, row),
         row.step = "timer" => row.op = "poll",
         row.op \in {"generate", "poll", "delete", "watch"} => row.server \in Server
  PROVE  \A b \in Call : ServersRowIsAimed(b)'
<1> TAKE b \in Call
<1>1. CASE b = c
  BY <1>1 DEF ServersChanges, ServersRowIsAimed, ServersGenerates, ServersPolls, ServersWatches
<1>2. CASE b # c
  BY <1>2, ServersNoCallIs DEF ServersInv, ServersChanges, ServersRowIsAimed, ServersGenerates,
     ServersPolls, ServersWatches
<1> QED
  BY <1>1, <1>2

\* Deleted rows stay deleted; who watched goes on, or the row is back, gone or given up.
LEMMA ServersWatchStays ==
  ASSUME ServersInv, NEW c \in Call, NEW row, ServersChanges(c, row),
         panel.gaveUp \subseteq panel'.gaveUp,
         \A s \in Server : controller.row[s] = "deleted" => controller'.row[s] = "deleted",
         \A s \in panel'.hidden : s \in panel.hidden \/ (row.op = "delete" /\ row.server = s),
         ServersWatches(c) /\ call[c].server \in panel'.hidden =>
           \/ controller'.row[call[c].server] = "deleted" \/ call[c].server \in panel'.gaveUp
           \/ row.op \in {"delete", "watch"} /\ row.server = call[c].server
  PROVE  Servers!HiddenRowIsWatched'
<1> SUFFICES ASSUME NEW s \in panel'.hidden
             PROVE  \/ controller'.row[s] = "deleted" \/ s \in panel'.gaveUp
                    \/ \E b \in Call : call'[b].op \in {"delete", "watch"} /\ call'[b].server = s
  BY DEF Servers!HiddenRowIsWatched
<1>1. CASE row.op = "delete" /\ row.server = s
  BY <1>1 DEF ServersChanges
<1>2. CASE s \in panel.hidden
  <2>1. CASE controller.row[s] = "deleted" \/ s \in panel.gaveUp
    BY <1>2, <2>1 DEF ServersInv, Servers!TypeOK, Servers!Panel
  <2>2. ASSUME NEW b \in Call, call[b].op \in {"delete", "watch"}, call[b].server = s
        PROVE  \/ controller'.row[s] = "deleted" \/ s \in panel'.gaveUp
               \/ \E k \in Call : call'[k].op \in {"delete", "watch"} /\ call'[k].server = s
    <3>1. CASE b = c
      BY <2>2, <3>1 DEF ServersChanges, ServersWatches
    <3>2. CASE b # c
      <4>1. call'[b] = call[b]
        BY <2>2, <3>2 DEF ServersChanges, ServersPolls
      <4> QED
        BY <2>2, <4>1
    <3> QED
      BY <3>1, <3>2
  <2> QED
    BY <1>2, <2>1, <2>2 DEF ServersInv, Servers!HiddenRowIsWatched
<1> QED
  BY <1>1, <1>2

\* The modal stays, and the row is none that is for it, or one that was.
LEMMA ServersPreviewStays ==
  ASSUME ServersInv, NEW c \in Call, NEW row, ServersChanges(c, row),
         panel'.modal = panel.modal, panel'.target = panel.target, panel'.late = panel.late,
         panel'.result \in {panel.result, None}, panel'.announced = panel.announced,
         row.op \in {"generate", "poll"} =>
           \/ (ServersGenerates(c) \/ ServersPolls(c)) /\ row.server = call[c].server
           \/ panel.modal = "preview" /\ row.server = panel.target
  PROVE  ServersPreviewInv'
<1>1. ASSUME panel.modal = "preview", ~panel.late, NEW b \in Call, (ServersGenerates(b) \/ ServersPolls(b))'
      PROVE  call'[b].server = panel.target
  <2>1. CASE b = c
    BY <1>1, <2>1 DEF ServersInv, ServersPreviewInv, ServersChanges, ServersGenerates, ServersPolls
  <2>2. CASE b # c
    BY <1>1, <2>2, ServersNoCallIs DEF ServersInv, ServersPreviewInv, ServersChanges,
       ServersGenerates, ServersPolls
  <2> QED
    BY <2>1, <2>2
<1> QED
  BY <1>1 DEF ServersInv, ServersPreviewInv

\* No generation starts.
LEMMA ServersTurnsStay ==
  ASSUME ServersInv, NEW c \in Call, NEW row, ServersChanges(c, row),
         panel'.overlapped = panel.overlapped,
         panel'.modal = "preview" => panel.modal = "preview" /\ panel'.generating = panel.generating,
         row.op = "generate" => ServersGenerates(c)
  PROVE  ServersTurnsInv'
<1>1. \A b \in Call : ServersGenerates(b)' => ServersGenerates(b)
  BY ServersNoCallIs DEF ServersChanges, ServersGenerates
<1> QED
  BY <1>1 DEF ServersInv, ServersTurnsInv

\* No chain starts, and the refs stay.
LEMMA ServersPollStays ==
  ASSUME ServersInv, NEW c \in Call, NEW row, ServersChanges(c, row),
         panel'.crossed = panel.crossed, panel'.pollFor = panel.pollFor,
         panel'.context = panel.context, panel'.timer = panel.timer,
         panel'.result \in {panel.result, None}, panel'.close \in {panel.close, None},
         row.op = "poll" => ServersPolls(c) /\ row.server = call[c].server /\ row.mode = call[c].mode
                                            /\ row.step = call[c].step
  PROVE  ServersPollInv'
<1> SUFFICES ASSUME ~panel.crossed PROVE ServersPollInv'
  BY DEF ServersPollInv
<1>1. \A b \in Call : ServersPolls(b)' => ServersPolls(b) /\ ServersPollIsOfTheRefs(b)'
  <2> SUFFICES ASSUME NEW b \in Call, ServersPolls(b)'
               PROVE ServersPolls(b) /\ ServersPollIsOfTheRefs(b)'
    OBVIOUS
  <2>1. CASE b = c
    BY <2>1 DEF ServersInv, ServersPollInv, ServersChanges, ServersPolls, ServersPollIsOfTheRefs
  <2>2. CASE b # c
    BY <2>2, ServersNoCallIs DEF ServersInv, ServersPollInv, ServersChanges, ServersPolls,
       ServersPollIsOfTheRefs
  <2> QED
    BY <2>1, <2>2
<1> QED
  BY <1>1 DEF ServersInv, ServersPollInv

\* The polling is ended: unless a poll is awaited, no chain is left but that of c.
LEMMA ServersPollingEnds ==
  ASSUME ServersInv, NEW c \in Call, NEW row, ServersChanges(c, row), ServersClears(c),
         ~panel'.crossed => ~panel.crossed /\ \A b \in Call \ {c} : ServersPolls(b) => call[b].step # "main"
  PROVE  ~panel'.crossed => \A b \in Call \ {c} : ~ServersPolls(b)'
<1> SUFFICES ASSUME ~panel'.crossed, NEW b \in Call \ {c}, ServersPolls(b)' PROVE FALSE
  OBVIOUS
<1>1. call'[b] = call[b] /\ ServersPolls(b)
  BY ServersNoCallIs DEF ServersChanges, ServersPolls
<1>2. call[b].step = "timer" /\ panel.timer = b
  BY <1>1 DEF ServersInv, Servers!TypeOK, Servers!CallRow, ServersPollInv, ServersPollIsOfTheRefs
<1> QED
  BY <1>1, <1>2, ServersNoCallIs DEF ServersClears, ServersPolls

LEMMA ServersNoPollLeft ==
  ASSUME NEW c \in Call, NEW row, ServersChanges(c, row), row.op # "poll",
         ~panel'.crossed => \A b \in Call \ {c} : ~ServersPolls(b)',
         panel'.pollFor = None,
         ~panel'.crossed /\ panel'.close # None /\ panel'.result # None => panel'.result = panel'.close
  PROVE  ServersPollInv'
<1>1. ~panel'.crossed => \A b \in Call : ~ServersPolls(b)'
  BY DEF ServersChanges, ServersPolls
<1> QED
  BY <1>1 DEF ServersPollInv

-----------------------------------------------------------------------------
(* The modals, and what does not touch the panel: no call changes. *)

LEMMA ServersModalKeeps ==
  ASSUME ServersInv, UNCHANGED call, panel' \in Servers!Panel, controller' \in Servers!Controller,
         \A s \in Server : controller.row[s] = "deleted" => controller'.row[s] = "deleted",
         panel'.pollFor = panel.pollFor, panel'.context = panel.context, panel'.timer = panel.timer,
         panel'.hidden = panel.hidden, panel'.gaveUp = panel.gaveUp,
         panel'.close \in {panel.close, None}, panel'.result \in {panel.result, None},
         panel'.crossed = panel.crossed \/ (panel'.result = None /\ \A c \in Call : ~ServersPolls(c)),
         ServersPreviewInv', ServersTurnsInv', ServersModalIsOfAServer'
  PROVE  ServersInv'
<1>1. Servers!TypeOK' /\ \A c \in Call : ServersRowIsAimed(c)'
  BY DEF ServersInv, Servers!TypeOK, ServersRowIsAimed, ServersGenerates, ServersPolls,
     ServersWatches
<1>2. Servers!HiddenRowIsWatched'
  BY DEF ServersInv, Servers!TypeOK, Servers!Panel, Servers!HiddenRowIsWatched
<1>3. ServersPollInv'
  BY DEF ServersInv, ServersPollInv, ServersPollIsOfTheRefs, ServersPolls
<1> QED
  BY <1>1, <1>2, <1>3 DEF ServersInv

LEMMA ServersOpenKeeps ==
  ASSUME ServersInv,
         Servers!OpenAdd \/ \E s \in Server : Servers!OpenEdit(s) \/ Servers!OpenDeleteResource(s)
  PROVE  ServersInv'
<1> DEFINE Opened ==
           /\ UNCHANGED <<call, controller>> /\ panel' \in Servers!Panel
           /\ panel.modal = "none" /\ panel'.modal # "preview"
           /\ panel'.modal # "add" => panel'.target \in Server
           /\ panel'.result = panel.result /\ panel'.announced = panel.announced
           /\ panel'.hidden = panel.hidden /\ panel'.gaveUp = panel.gaveUp
           /\ panel'.pollFor = panel.pollFor /\ panel'.context = panel.context
           /\ panel'.timer = panel.timer /\ panel'.close = panel.close
           /\ panel'.overlapped = panel.overlapped /\ panel'.crossed = panel.crossed
<1>1. Opened
  <2>1. CASE Servers!OpenAdd
    BY <2>1 DEF Servers!OpenAdd, ServersInv, Servers!TypeOK, Servers!Panel
  <2>2. ASSUME NEW s \in Server, Servers!OpenEdit(s) PROVE Opened
    BY <2>2 DEF Servers!OpenEdit, Servers!OnDisplay, ServersInv, Servers!TypeOK, Servers!Panel
  <2>3. ASSUME NEW s \in Server, Servers!OpenDeleteResource(s) PROVE Opened
    <3>1. PICK local \in BOOLEAN :
            panel' = [panel EXCEPT !.modal = "delete", !.target = s, !.local = local]
      BY <2>3 DEF Servers!OpenDeleteResource
    <3> QED
      BY <2>3, <3>1 DEF Servers!OpenDeleteResource, Servers!OnDisplay, ServersInv, Servers!TypeOK,
         Servers!Panel
  <2> QED
    BY <2>1, <2>2, <2>3
<1>2. ServersPreviewInv' /\ ServersTurnsInv' /\ ServersModalIsOfAServer'
  BY <1>1 DEF ServersInv, ServersPreviewInv, ServersTurnsInv, ServersModalIsOfAServer,
     ServersGenerates, ServersPolls
<1> QED
  BY <1>1, <1>2, ServersModalKeeps DEF ServersInv, Servers!TypeOK

LEMMA ServersOpenPreviewKeeps ==
  ASSUME ServersInv, NEW s \in Server, Servers!OpenWorkerInstallApprovalPreview(s)
  PROVE  ServersInv'
<1> DEFINE crossed == panel.crossed /\ Servers!Requested("poll") # {}
           late == Servers!Requested("generate") \cup Servers!Requested("poll") # {}
           overlapped == Servers!Requested("generate") # {}
<1>1. PICK online \in BOOLEAN :
        panel' = [panel EXCEPT !.modal = "preview", !.target = s, !.online = online,
                               !.generating = FALSE, !.close = None, !.crossed = crossed,
                               !.late = late, !.overlapped = overlapped]
  BY DEF Servers!OpenWorkerInstallApprovalPreview
<1>2. /\ crossed \in BOOLEAN /\ late \in BOOLEAN /\ overlapped \in BOOLEAN
      /\ crossed <=> panel.crossed /\ \E c \in Call : ServersPolls(c)
      /\ late <=> \E c \in Call : ServersGenerates(c) \/ ServersPolls(c)
      /\ overlapped <=> \E c \in Call : ServersGenerates(c)
  BY DEF Servers!Requested, ServersGenerates, ServersPolls
<1> HIDE DEF crossed, late, overlapped
<1>3. UNCHANGED <<call, controller>> /\ panel.modal = "none"
  BY DEF Servers!OpenWorkerInstallApprovalPreview, Servers!OnDisplay
<1>4. panel' \in Servers!Panel
  <2> DEFINE opened == [panel EXCEPT !.modal = "preview", !.target = s, !.online = online,
                                     !.generating = FALSE, !.close = None]
  <2>1. opened \in Servers!Panel
    BY DEF ServersInv, Servers!TypeOK, Servers!Panel
  <2> DEFINE marked == [opened EXCEPT !.crossed = crossed]
  <2>2. panel' = [[marked EXCEPT !.late = late] EXCEPT !.overlapped = overlapped]
    BY <1>1
  <2> HIDE DEF opened
  <2>3. marked \in Servers!Panel
    <3>1. crossed \in BOOLEAN
      BY <1>2
    <3> QED
      BY <2>1, <3>1 DEF Servers!Panel
  <2> HIDE DEF marked
  <2>4. [marked EXCEPT !.late = late] \in Servers!Panel
    <3>1. late \in BOOLEAN
      BY <1>2
    <3> QED
      BY <2>3, <3>1 DEF Servers!Panel
  <2>5. overlapped \in BOOLEAN
    BY <1>2
  <2> QED
    BY <2>2, <2>4, <2>5 DEF Servers!Panel
<1>8. /\ panel'.modal = "preview" /\ panel'.target = s
      /\ panel'.result = panel.result /\ panel'.announced = panel.announced
      /\ panel'.hidden = panel.hidden /\ panel'.gaveUp = panel.gaveUp
      /\ panel'.pollFor = panel.pollFor /\ panel'.context = panel.context
      /\ panel'.timer = panel.timer /\ panel'.close = None
      /\ panel'.overlapped = overlapped /\ panel'.crossed = crossed /\ panel'.late = late
  BY <1>1, <1>2 DEF ServersInv, Servers!TypeOK, Servers!Panel
<1>5. panel.result = None /\ panel.announced = None
  BY <1>3 DEF ServersInv, ServersPreviewInv
<1>6. ServersPreviewInv' /\ ServersTurnsInv' /\ ServersModalIsOfAServer'
  BY <1>2, <1>3, <1>4, <1>5, <1>8 DEF ServersPreviewInv, ServersTurnsInv, ServersModalIsOfAServer,
     ServersGenerates, ServersPolls
<1>7. panel'.crossed = panel.crossed \/ \A c \in Call : ~ServersPolls(c)
  BY <1>2, <1>8 DEF ServersInv, Servers!TypeOK, Servers!Panel
<1> QED
  BY <1>8, <1>3, <1>4, <1>5, <1>6, <1>7, ServersModalKeeps DEF ServersInv, Servers!TypeOK

LEMMA ServersCloseKeeps ==
  ASSUME ServersInv, UNCHANGED <<call, controller>>,
         \/ panel' = Servers!CloseApprovalPreview(panel)
         \/ panel' = Servers!CloseModal(panel)
  PROVE  ServersInv'
<1>1. /\ panel' \in Servers!Panel
      /\ \/ panel'.modal = panel.modal
            /\ panel'.result = panel.result /\ panel'.announced = panel.announced
            /\ panel'.generating = panel.generating
            /\ panel'.target = panel.target /\ panel'.late = panel.late
         \/ panel'.modal # "preview" /\ panel'.result = panel.result
            /\ panel'.announced = panel.announced /\ panel.modal # "preview"
            /\ (panel'.modal # "none" => panel'.modal = panel.modal /\ panel'.target = panel.target)
         \/ panel'.modal = "none" /\ panel'.result = None /\ panel'.announced = None
      /\ panel'.hidden = panel.hidden /\ panel'.gaveUp = panel.gaveUp
      /\ panel'.pollFor = panel.pollFor /\ panel'.context = panel.context
      /\ panel'.timer = panel.timer /\ panel'.close \in {panel.close, None}
      /\ panel'.overlapped = panel.overlapped /\ panel'.crossed = panel.crossed
  <2>1. CASE panel' = Servers!CloseApprovalPreview(panel)
    BY ZenonT(40), <2>1 DEF Servers!CloseApprovalPreview, ServersInv, Servers!TypeOK, Servers!Panel
  <2>2. CASE panel' = Servers!CloseModal(panel)
    BY <2>2 DEF Servers!CloseModal, ServersInv, Servers!TypeOK, Servers!Panel
  <2> QED
    BY <2>1, <2>2
<1>2. ServersPreviewInv' /\ ServersTurnsInv' /\ ServersModalIsOfAServer'
  BY <1>1 DEF ServersInv, ServersPreviewInv, ServersTurnsInv, ServersModalIsOfAServer,
     ServersGenerates, ServersPolls
<1>3. panel'.result \in {panel.result, None}
  BY <1>1
<1> QED
  BY <1>1, <1>2, <1>3, ServersModalKeeps DEF ServersInv, Servers!TypeOK

LEMMA ServersHostKeeps ==
  ASSUME ServersInv, NEW s \in Server, Servers!WorkerComesUp(s) \/ Servers!CleanupEnds(s)
  PROVE  ServersInv'
<1>1. UNCHANGED <<panel, call>>
  BY DEF Servers!WorkerComesUp, Servers!CleanupEnds
<1>2. /\ controller' \in Servers!Controller
      /\ \A t \in Server : controller.row[t] = "deleted" => controller'.row[t] = "deleted"
  <2>1. CASE Servers!WorkerComesUp(s)
    <3> DEFINE rows == [controller.row EXCEPT ![s] = IF @ = "away" THEN "old" ELSE "new"]
    <3>1. /\ rows \in [Server -> Servers!Row] /\ controller.row[s] # "deleted"
          /\ \A t \in Server \ {s} : rows[t] = controller.row[t]
      BY <2>1 DEF Servers!WorkerComesUp, ServersInv, Servers!TypeOK, Servers!Controller, Servers!Row
    <3>2. controller' = [controller EXCEPT !.row = rows]
      BY <2>1 DEF Servers!WorkerComesUp, ServersInv, Servers!TypeOK, Servers!Controller
    <3> HIDE DEF rows
    <3> QED
      BY <3>1, <3>2 DEF ServersInv, Servers!TypeOK, Servers!Controller
  <2>2. CASE Servers!CleanupEnds(s)
    BY <2>2 DEF Servers!CleanupEnds, ServersInv, Servers!TypeOK, Servers!Controller, Servers!Row
  <2> QED
    BY <2>1, <2>2
<1>3. ServersPreviewInv' /\ ServersTurnsInv' /\ ServersModalIsOfAServer' /\ panel' \in Servers!Panel
  BY <1>1 DEF ServersInv, Servers!TypeOK, ServersModalIsOfAServer, ServersPreviewInv,
     ServersTurnsInv, ServersGenerates, ServersPolls
<1> QED
  BY <1>1, <1>2, <1>3, ServersModalKeeps

-----------------------------------------------------------------------------
(* The polling ended. *)

LEMMA ServersClearPollingIs ==
  ASSUME NEW p \in Servers!Panel, NEW awaited \in SUBSET Call
  PROVE  \E crossed \in BOOLEAN :
           /\ Servers!ClearPolling(p, awaited) = [p EXCEPT !.pollFor = None, !.context = "none",
                                                           !.timer = None, !.crossed = crossed]
           /\ crossed <=> p.crossed \/ \E c \in awaited : call[c].step = "main"
<1> DEFINE crossed == p.crossed \/ \E c \in awaited : call[c].step = "main"
<1>1. Servers!ClearPolling(p, awaited) = [p EXCEPT !.pollFor = None, !.context = "none",
                                                   !.timer = None, !.crossed = crossed]
  BY DEF Servers!ClearPolling, Servers!Panel
<1>2. crossed \in BOOLEAN /\ (crossed <=> p.crossed \/ \E c \in awaited : call[c].step = "main")
  OBVIOUS
<1> HIDE DEF crossed
<1> QED
  BY <1>1, <1>2

LEMMA ServersGenerateKeeps ==
  ASSUME ServersInv, NEW c \in Call, Servers!GenerateWorkerInstallCommand(c)
  PROVE  ServersInv'
<1> DEFINE row == [Servers!NoCall EXCEPT !.op = "generate", !.server = panel.target,
                                         !.mode = IF panel.online THEN "upgrade" ELSE "install"]
<1>1. /\ panel.modal = "preview" /\ ~panel.generating /\ call[c].op = "none"
      /\ panel' = [Servers!ClearPolling(panel, Servers!Requested("poll")) EXCEPT !.result = None,
                                                                                 !.generating = TRUE]
      /\ call' = [Servers!ClearTimer EXCEPT ![c] = row] /\ UNCHANGED controller
  BY DEF Servers!GenerateWorkerInstallCommand, Servers!GenerateOffered, Servers!Free
<1>2. PICK crossed \in BOOLEAN :
        /\ Servers!ClearPolling(panel, Servers!Requested("poll")) =
             [panel EXCEPT !.pollFor = None, !.context = "none", !.timer = None, !.crossed = crossed]
        /\ crossed <=> panel.crossed \/ \E b \in Servers!Requested("poll") : call[b].step = "main"
  BY ServersClearPollingIs DEF ServersInv, Servers!TypeOK, Servers!Requested
<1>3. /\ panel' \in Servers!Panel /\ panel'.modal = panel.modal /\ panel'.target = panel.target
      /\ panel'.late = panel.late /\ panel'.result = None /\ panel'.announced = panel.announced
      /\ panel'.hidden = panel.hidden /\ panel'.gaveUp = panel.gaveUp
      /\ panel'.pollFor = None /\ panel'.generating
      /\ panel'.overlapped = panel.overlapped /\ panel'.crossed = crossed
  BY <1>1, <1>2 DEF ServersInv, Servers!TypeOK, Servers!Panel, Servers!Mode
<1>4. /\ row \in Servers!CallRow /\ row.op = "generate" /\ row.server = panel.target /\ row.step = "main"
  BY ServersNoCallIs DEF ServersInv, Servers!TypeOK, Servers!Panel, Servers!CallRow, Servers!Mode
<1> HIDE DEF row
<1>5. ServersChanges(c, row) /\ ServersClears(c)
  BY <1>1, <1>4, ServersClearTimerChanges DEF ServersInv
<1>6. panel.target \in Server
  BY <1>1 DEF ServersInv, ServersModalIsOfAServer
<1>7. \A b \in Call : ServersRowIsAimed(b)'
  BY <1>4, <1>5, <1>6, ServersRowsStay
<1>8. Servers!HiddenRowIsWatched'
  BY <1>1, <1>3, <1>5, ServersWatchStays DEF ServersWatches
<1>9. ServersPreviewInv'
  BY <1>1, <1>3, <1>4, <1>5, ServersPreviewStays
<1>10. ServersTurnsInv'
  <2>1. \A b \in Call : ServersGenerates(b)' => b = c \/ ServersGenerates(b)
    BY <1>5, ServersNoCallIs DEF ServersChanges, ServersGenerates
  <2> QED
    BY <1>1, <1>3, <2>1 DEF ServersInv, ServersTurnsInv
<1>11. ServersPollInv'
  <2>1. ~panel'.crossed => \A b \in Call \ {c} : ~ServersPolls(b)'
    BY <1>2, <1>3, <1>5, ServersPollingEnds DEF Servers!Requested, ServersPolls
  <2> QED
    BY <1>3, <1>4, <1>5, <2>1, ServersNoPollLeft
<1> QED
  BY <1>1, <1>3, <1>5, <1>6, <1>7, <1>8, <1>9, <1>10, <1>11
  DEF ServersInv, Servers!TypeOK, ServersChanges, ServersModalIsOfAServer

-----------------------------------------------------------------------------
(* Calls that touch neither the polling nor a generation. *)

LEMMA ServersCallKeeps ==
  ASSUME ServersInv, NEW c \in Call, NEW row \in Servers!CallRow, ServersChanges(c, row),
         panel' \in Servers!Panel, controller' \in Servers!Controller,
         \/ panel'.modal = panel.modal /\ panel'.target = panel.target
         \/ panel'.modal = "none" /\ panel.modal # "preview",
         panel'.late = panel.late, panel'.result = panel.result,
         panel'.announced = panel.announced, panel'.generating = panel.generating,
         panel'.overlapped = panel.overlapped, panel'.crossed = panel.crossed,
         panel'.pollFor = panel.pollFor, panel'.context = panel.context,
         panel'.timer = panel.timer, panel'.close = panel.close,
         row.step = "timer" => row.op = "poll",
         row.op \in {"delete", "watch"} => row.server \in Server,
         row.op \in {"generate", "poll"} =>
           row.op = call[c].op /\ row.server = call[c].server /\ row.mode = call[c].mode
                               /\ row.step = call[c].step,
         panel.gaveUp \subseteq panel'.gaveUp,
         \A s \in Server : controller.row[s] = "deleted" => controller'.row[s] = "deleted",
         \A s \in panel'.hidden : s \in panel.hidden \/ (row.op = "delete" /\ row.server = s),
         ServersWatches(c) /\ call[c].server \in panel'.hidden =>
           \/ controller'.row[call[c].server] = "deleted" \/ call[c].server \in panel'.gaveUp
           \/ row.op \in {"delete", "watch"} /\ row.server = call[c].server
  PROVE  ServersInv'
<1>1. \A b \in Call : ServersRowIsAimed(b)'
  BY ServersRowsStay DEF ServersInv, ServersRowIsAimed, ServersGenerates, ServersPolls
<1>2. Servers!HiddenRowIsWatched'
  BY ServersWatchStays
<1>3. ServersPreviewInv'
  <2>1. CASE panel'.modal = panel.modal /\ panel'.target = panel.target
    BY <2>1, ServersPreviewStays DEF ServersGenerates, ServersPolls
  <2>2. CASE panel'.modal = "none" /\ panel.modal # "preview"
    BY <2>2 DEF ServersInv, ServersPreviewInv
  <2> QED
    BY <2>1, <2>2
<1>4. ServersTurnsInv'
  BY ServersTurnsStay DEF ServersGenerates
<1>5. ServersPollInv'
  BY ServersPollStays DEF ServersPolls
<1>6. Servers!TypeOK' /\ ServersModalIsOfAServer'
  BY DEF ServersInv, Servers!TypeOK, ServersChanges, ServersModalIsOfAServer
<1> QED
  BY <1>1, <1>2, <1>3, <1>4, <1>5, <1>6 DEF ServersInv

LEMMA ServersSubmitKeeps == ASSUME ServersInv, NEW c \in Call, Servers!Submit(c) PROVE ServersInv'
<1> DEFINE row == [Servers!NoCall EXCEPT !.op = "save"]
<1>1. /\ call[c].op = "none" /\ call' = [call EXCEPT ![c] = row] /\ UNCHANGED controller
      /\ panel' = [panel EXCEPT !.submitting = TRUE]
  BY DEF Servers!Submit, Servers!Start, Servers!Free
<1>2. row \in Servers!CallRow /\ row.op = "save" /\ row.step = "main"
  BY ServersNoCallIs DEF Servers!CallRow
<1> HIDE DEF row
<1>3. ServersChanges(c, row)
  BY <1>1, <1>2, ServersStartChanges DEF ServersInv
<1> QED
  BY <1>1, <1>2, <1>3, ServersCallKeeps DEF ServersInv, Servers!TypeOK, Servers!Panel,
     ServersWatches

LEMMA ServersReadPollKeeps ==
  ASSUME ServersInv, NEW c \in Call, Servers!ReadPoll(c) PROVE ServersInv'
<1> DEFINE row == [call[c] EXCEPT !.seen = controller.row[call[c].server]]
<1>1. /\ ServersPolls(c) /\ call' = [call EXCEPT ![c] = row] /\ UNCHANGED <<panel, controller>>
  BY DEF Servers!ReadPoll, Servers!Start, ServersPolls
<1>2. /\ row \in Servers!CallRow /\ row.op = call[c].op /\ row.step = call[c].step
      /\ row.server = call[c].server /\ row.mode = call[c].mode
  BY <1>1 DEF ServersInv, Servers!TypeOK, Servers!CallRow, Servers!Controller, ServersRowIsAimed
<1> HIDE DEF row
<1>3. ServersChanges(c, row)
  BY <1>1, <1>2, ServersStartChanges DEF ServersInv
<1>4. row.step = "timer" => row.op = "poll"
  BY <1>1, <1>2 DEF ServersPolls
<1> QED
  BY <1>1, <1>2, <1>3, <1>4, ServersCallKeeps DEF ServersInv, Servers!TypeOK, ServersWatches,
     ServersPolls

LEMMA ServersPollRejectsKeeps ==
  ASSUME ServersInv, NEW c \in Call, Servers!PollRejects(c) PROVE ServersInv'
<1>1. /\ ServersPolls(c) /\ call' = [call EXCEPT ![c] = Servers!NoCall] /\ UNCHANGED <<panel, controller>>
  BY DEF Servers!PollRejects, Servers!Waits, Servers!Finish, ServersPolls
<1>2. ServersChanges(c, Servers!NoCall)
  BY <1>1, ServersNoCallIs, ServersStartChanges DEF ServersInv
<1> QED
  BY <1>1, <1>2, ServersNoCallIs, ServersCallKeeps DEF ServersInv, Servers!TypeOK, ServersWatches,
     ServersPolls

LEMMA ServersCloseModalIs ==
  ASSUME Servers!TypeOK
  PROVE  \E q \in Servers!Panel :
           /\ Servers!CloseModal(panel) = q
           /\ \/ q.modal = panel.modal /\ q.target = panel.target
              \/ q.modal = "none" /\ panel.modal # "preview"
           /\ q.late = panel.late /\ q.result = panel.result /\ q.announced = panel.announced
           /\ q.generating = panel.generating /\ q.overlapped = panel.overlapped
           /\ q.crossed = panel.crossed /\ q.pollFor = panel.pollFor
           /\ q.context = panel.context /\ q.timer = panel.timer /\ q.close = panel.close
           /\ q.hidden = panel.hidden /\ q.gaveUp = panel.gaveUp
<1>1. CASE panel.modal \in {"none", "preview"}
  BY <1>1 DEF Servers!CloseModal, Servers!TypeOK
<1>2. CASE panel.modal \notin {"none", "preview"}
  <2> DEFINE q == [panel EXCEPT !.modal = "none", !.target = None, !.local = FALSE]
  <2>1. Servers!CloseModal(panel) = q
    BY <1>2 DEF Servers!CloseModal
  <2>2. /\ q \in Servers!Panel /\ q.modal = "none"
        /\ q.late = panel.late /\ q.result = panel.result /\ q.announced = panel.announced
        /\ q.generating = panel.generating /\ q.overlapped = panel.overlapped
        /\ q.crossed = panel.crossed /\ q.pollFor = panel.pollFor
        /\ q.context = panel.context /\ q.timer = panel.timer /\ q.close = panel.close
        /\ q.hidden = panel.hidden /\ q.gaveUp = panel.gaveUp
    BY DEF Servers!TypeOK, Servers!Panel
  <2> HIDE DEF q
  <2> QED
    BY <1>2, <2>1, <2>2
<1> QED
  BY <1>1, <1>2

LEMMA ServersSavedKeeps == ASSUME ServersInv, NEW c \in Call, Servers!Saved(c) PROVE ServersInv'
<1>1. PICK p \in {panel, Servers!CloseModal(panel)} : panel' = [p EXCEPT !.submitting = FALSE]
  BY DEF Servers!Saved
<1>2. call[c].op = "save" /\ call' = [call EXCEPT ![c] = Servers!NoCall] /\ UNCHANGED controller
  BY DEF Servers!Saved, Servers!Waits, Servers!Finish
<1>3. ServersChanges(c, Servers!NoCall)
  BY <1>2, ServersNoCallIs, ServersStartChanges DEF ServersInv
<1>4. PICK q \in Servers!Panel :
           /\ p = q
           /\ \/ q.modal = panel.modal /\ q.target = panel.target
              \/ q.modal = "none" /\ panel.modal # "preview"
           /\ q.late = panel.late /\ q.result = panel.result /\ q.announced = panel.announced
           /\ q.generating = panel.generating /\ q.overlapped = panel.overlapped
           /\ q.crossed = panel.crossed /\ q.pollFor = panel.pollFor
           /\ q.context = panel.context /\ q.timer = panel.timer /\ q.close = panel.close
           /\ q.hidden = panel.hidden /\ q.gaveUp = panel.gaveUp
  BY <1>1, ServersCloseModalIs DEF ServersInv, Servers!TypeOK
<1>5. panel' = [q EXCEPT !.submitting = FALSE]
  BY <1>1, <1>4
<1>6. /\ panel' \in Servers!Panel /\ panel'.modal = q.modal /\ panel'.target = q.target
      /\ panel'.late = panel.late /\ panel'.result = panel.result
      /\ panel'.announced = panel.announced /\ panel'.generating = panel.generating
      /\ panel'.overlapped = panel.overlapped /\ panel'.crossed = panel.crossed
      /\ panel'.pollFor = panel.pollFor /\ panel'.context = panel.context
      /\ panel'.timer = panel.timer /\ panel'.close = panel.close
      /\ panel'.hidden = panel.hidden /\ panel'.gaveUp = panel.gaveUp
  BY <1>4, <1>5 DEF Servers!Panel
<1> QED
  BY <1>2, <1>3, <1>4, <1>6, ServersNoCallIs, ServersCallKeeps DEF ServersInv, Servers!TypeOK,
     ServersWatches

-----------------------------------------------------------------------------
(* The removal. *)

LEMMA ServersTakeDeleteIs ==
  ASSUME Servers!TypeOK, NEW s \in Server, NEW local \in BOOLEAN, Servers!TakeDelete(s, local)
  PROVE  /\ controller' \in Servers!Controller
         /\ \A t \in Server : controller.row[t] = "deleted" => controller'.row[t] = "deleted"
         /\ local => controller'.row[s] = "deleted"
<1>1. CASE ~local
  <2>1. controller' = [controller EXCEPT !.cleaning = @ \cup {s}]
    BY <1>1 DEF Servers!TakeDelete
  <2> QED
    BY <1>1, <2>1 DEF Servers!TypeOK, Servers!Controller
<1>2. CASE local
  <2> DEFINE rows == [controller.row EXCEPT ![s] = "deleted"]
  <2>1. controller' = [controller EXCEPT !.row = rows]
    BY <1>2 DEF Servers!TakeDelete, Servers!TypeOK, Servers!Controller
  <2>2. /\ rows \in [Server -> Servers!Row] /\ rows[s] = "deleted"
        /\ \A t \in Server \ {s} : rows[t] = controller.row[t]
    BY DEF Servers!TypeOK, Servers!Controller, Servers!Row
  <2> HIDE DEF rows
  <2> QED
    BY <2>1, <2>2 DEF Servers!TypeOK, Servers!Controller
<1> QED
  BY <1>1, <1>2

LEMMA ServersReleaseIs ==
  ASSUME NEW p \in Servers!Panel, NEW s
  PROVE  Servers!Release(p, s) = [p EXCEPT !.hidden = p.hidden \ {s}]
BY DEF Servers!Release, Servers!Panel

LEMMA ServersDeleteFailsKeeps ==
  ASSUME ServersInv, NEW c \in Call, Servers!DeleteFails(c) PROVE ServersInv'
<1> DEFINE s == call[c].server
<1>1. /\ call[c].op = "delete" /\ call' = [call EXCEPT ![c] = Servers!NoCall]
      /\ Servers!TakeDelete(s, call[c].local) \/ UNCHANGED controller
  BY DEF Servers!DeleteFails, Servers!Waits, Servers!Finish
<1>2. PICK local \in BOOLEAN :
        panel' = [Servers!Release(panel, s) EXCEPT !.local = local, !.submitting = FALSE]
  <2>1. PICK local \in {panel.local, panel.modal = "delete"} :
          panel' = [Servers!Release(panel, s) EXCEPT !.local = local, !.submitting = FALSE]
    BY DEF Servers!DeleteFails
  <2>2. local \in BOOLEAN
    BY <2>1 DEF ServersInv, Servers!TypeOK, Servers!Panel
  <2> QED
    BY <2>1, <2>2
<1>3. s \in Server /\ call[c].local \in BOOLEAN
  BY <1>1 DEF ServersInv, Servers!TypeOK, Servers!CallRow, ServersRowIsAimed, ServersWatches
<1> HIDE DEF s
<1>4. /\ controller' \in Servers!Controller
      /\ \A t \in Server : controller.row[t] = "deleted" => controller'.row[t] = "deleted"
  BY <1>1, <1>3, ServersTakeDeleteIs DEF ServersInv, Servers!TypeOK
<1>5. panel' = [panel EXCEPT !.hidden = panel.hidden \ {s}, !.local = local, !.submitting = FALSE]
  BY <1>2, ServersReleaseIs DEF ServersInv, Servers!TypeOK
<1>6. /\ panel' \in Servers!Panel /\ panel'.modal = panel.modal /\ panel'.target = panel.target
      /\ panel'.late = panel.late /\ panel'.result = panel.result
      /\ panel'.announced = panel.announced /\ panel'.generating = panel.generating
      /\ panel'.overlapped = panel.overlapped /\ panel'.crossed = panel.crossed
      /\ panel'.pollFor = panel.pollFor /\ panel'.context = panel.context
      /\ panel'.timer = panel.timer /\ panel'.close = panel.close
      /\ panel'.hidden = panel.hidden \ {s} /\ panel'.gaveUp = panel.gaveUp
  BY <1>5 DEF ServersInv, Servers!TypeOK, Servers!Panel
<1>7. ServersChanges(c, Servers!NoCall)
  BY <1>1, ServersNoCallIs, ServersStartChanges DEF ServersInv
<1> QED
  BY <1>4, <1>6, <1>7, ServersNoCallIs, ServersCallKeeps DEF ServersWatches, s

LEMMA ServersDeleteAcceptedKeeps ==
  ASSUME ServersInv, NEW c \in Call, Servers!DeleteAccepted(c) PROVE ServersInv'
<1> DEFINE s == call[c].server
           p == [Servers!CloseModal(panel) EXCEPT !.submitting = FALSE]
           watch == [Servers!NoCall EXCEPT !.op = "watch", !.server = s]
<1>1. /\ call[c].op = "delete" /\ Servers!TakeDelete(s, call[c].local)
      /\ \/ panel' = Servers!Release(p, s) /\ call' = [call EXCEPT ![c] = Servers!NoCall]
         \/ panel' = p /\ call[c].local /\ call' = [call EXCEPT ![c] = Servers!NoCall]
         \/ panel' = p /\ call' = [call EXCEPT ![c] = watch]
  BY DEF Servers!DeleteAccepted, Servers!Waits, Servers!Finish, Servers!Start
<1>2. s \in Server /\ call[c].local \in BOOLEAN
  BY <1>1 DEF ServersInv, Servers!TypeOK, Servers!CallRow, ServersRowIsAimed, ServersWatches
<1>3. PICK q \in Servers!Panel :
           /\ Servers!CloseModal(panel) = q
           /\ \/ q.modal = panel.modal /\ q.target = panel.target
              \/ q.modal = "none" /\ panel.modal # "preview"
           /\ q.late = panel.late /\ q.result = panel.result /\ q.announced = panel.announced
           /\ q.generating = panel.generating /\ q.overlapped = panel.overlapped
           /\ q.crossed = panel.crossed /\ q.pollFor = panel.pollFor
           /\ q.context = panel.context /\ q.timer = panel.timer /\ q.close = panel.close
           /\ q.hidden = panel.hidden /\ q.gaveUp = panel.gaveUp
  BY ServersCloseModalIs DEF ServersInv
<1>4. /\ p \in Servers!Panel /\ p.modal = q.modal /\ p.target = q.target
      /\ p.late = panel.late /\ p.result = panel.result /\ p.announced = panel.announced
      /\ p.generating = panel.generating /\ p.overlapped = panel.overlapped
      /\ p.crossed = panel.crossed /\ p.pollFor = panel.pollFor
      /\ p.context = panel.context /\ p.timer = panel.timer /\ p.close = panel.close
      /\ p.hidden = panel.hidden /\ p.gaveUp = panel.gaveUp
  BY <1>3 DEF Servers!Panel
<1>5. /\ watch \in Servers!CallRow /\ watch.op = "watch" /\ watch.server = s /\ watch.step = "main"
  BY <1>2, ServersNoCallIs DEF Servers!CallRow
<1>6. /\ controller' \in Servers!Controller
      /\ \A t \in Server : controller.row[t] = "deleted" => controller'.row[t] = "deleted"
      /\ call[c].local => controller'.row[s] = "deleted"
  BY <1>1, <1>2, ServersTakeDeleteIs DEF ServersInv
<1> HIDE DEF p, s, watch
<1>7. PICK row \in Servers!CallRow :
        /\ call' = [call EXCEPT ![c] = row] /\ row.step = "main"
        /\ \/ panel' = Servers!Release(p, s) /\ row.op = "none"
           \/ panel' = p /\ row.op = "none" /\ call[c].local
           \/ panel' = p /\ row.op = "watch" /\ row.server = s
  BY <1>1, <1>5, ServersNoCallIs
<1>8. ServersChanges(c, row)
  BY <1>7, ServersStartChanges DEF ServersInv
<1>9. /\ panel' \in Servers!Panel /\ panel'.modal = q.modal /\ panel'.target = q.target
      /\ panel'.late = panel.late /\ panel'.result = panel.result
      /\ panel'.announced = panel.announced /\ panel'.generating = panel.generating
      /\ panel'.overlapped = panel.overlapped /\ panel'.crossed = panel.crossed
      /\ panel'.pollFor = panel.pollFor /\ panel'.context = panel.context
      /\ panel'.timer = panel.timer /\ panel'.close = panel.close
      /\ panel'.hidden \subseteq panel.hidden /\ panel'.gaveUp = panel.gaveUp
      /\ row.op = "none" /\ ~call[c].local => s \notin panel'.hidden
  BY <1>4, <1>7, ServersReleaseIs DEF Servers!Panel
<1>10. \/ panel'.modal = panel.modal /\ panel'.target = panel.target
       \/ panel'.modal = "none" /\ panel.modal # "preview"
  BY <1>3, <1>9
<1>11. s \in panel'.hidden =>
          controller'.row[s] = "deleted" \/ (row.op \in {"delete", "watch"} /\ row.server = s)
  BY <1>6, <1>7, <1>9
<1>12. row.op \in {"none", "watch"} /\ (row.op = "watch" => row.server = call[c].server)
  BY <1>7 DEF s
<1>13. /\ panel'.late = panel.late /\ panel'.result = panel.result
       /\ panel'.announced = panel.announced /\ panel'.generating = panel.generating
       /\ panel'.overlapped = panel.overlapped /\ panel'.crossed = panel.crossed
       /\ panel'.pollFor = panel.pollFor /\ panel'.context = panel.context
       /\ panel'.timer = panel.timer /\ panel'.close = panel.close
       /\ panel'.hidden \subseteq panel.hidden /\ panel'.gaveUp = panel.gaveUp
       /\ panel' \in Servers!Panel /\ row.step = "main"
  BY <1>7, <1>9
<1>14. call[c].server \in Server
  BY <1>2 DEF s
<1>15. call[c].server \in panel'.hidden =>
         \/ controller'.row[call[c].server] = "deleted" \/ call[c].server \in panel'.gaveUp
         \/ row.op \in {"delete", "watch"} /\ row.server = call[c].server
  BY <1>11 DEF s
<1> QED
  BY <1>6, <1>8, <1>10, <1>12, <1>13, <1>14, <1>15, ServersCallKeeps

LEMMA ServersWatchEndsKeeps ==
  ASSUME ServersInv, NEW c \in Call, Servers!WatchEnds(c) PROVE ServersInv'
<1> DEFINE s == call[c].server
<1>1. /\ call[c].op = "watch" /\ call' = [call EXCEPT ![c] = Servers!NoCall] /\ UNCHANGED controller
      /\ panel' = IF controller.row[s] = "deleted" THEN panel ELSE Servers!Release(panel, s)
  BY DEF Servers!WatchEnds, Servers!Waits, Servers!Finish
<1>2. s \in Server
  BY <1>1 DEF ServersInv, ServersRowIsAimed, ServersWatches
<1> HIDE DEF s
<1>3. /\ panel' \in Servers!Panel /\ panel'.modal = panel.modal /\ panel'.target = panel.target
      /\ panel'.late = panel.late /\ panel'.result = panel.result
      /\ panel'.announced = panel.announced /\ panel'.generating = panel.generating
      /\ panel'.overlapped = panel.overlapped /\ panel'.crossed = panel.crossed
      /\ panel'.pollFor = panel.pollFor /\ panel'.context = panel.context
      /\ panel'.timer = panel.timer /\ panel'.close = panel.close
      /\ panel'.hidden \subseteq panel.hidden /\ panel'.gaveUp = panel.gaveUp
      /\ s \in panel'.hidden => controller.row[s] = "deleted"
  BY <1>1, ServersReleaseIs DEF ServersInv, Servers!TypeOK, Servers!Panel
<1>4. ServersChanges(c, Servers!NoCall)
  BY <1>1, ServersNoCallIs, ServersStartChanges DEF ServersInv
<1> QED
  BY <1>1, <1>3, <1>4, ServersNoCallIs, ServersCallKeeps DEF ServersInv, Servers!TypeOK,
     ServersWatches, s

LEMMA ServersWatchGoesOnKeeps ==
  ASSUME ServersInv, NEW c \in Call, Servers!WatchGoesOn(c) PROVE ServersInv'
<1>1. call[c].op = "watch" /\ UNCHANGED controller /\ call[c].server \in Server
  BY DEF Servers!WatchGoesOn, Servers!Waits, ServersInv, ServersRowIsAimed, ServersWatches
<1>2. CASE /\ call[c].n + 1 < MaxPolls /\ UNCHANGED panel
           /\ Servers!Start(c, [call[c] EXCEPT !.n = @ + 1])
  <2> DEFINE row == [call[c] EXCEPT !.n = @ + 1]
  <2>1. call' = [call EXCEPT ![c] = row]
    BY <1>2 DEF Servers!Start
  <2>2. /\ row \in Servers!CallRow /\ row.op = "watch" /\ row.server = call[c].server
        /\ row.step = call[c].step
    BY <1>1, <1>2, ServersAre DEF ServersInv, Servers!TypeOK, Servers!CallRow
  <2> HIDE DEF row
  <2>3. ServersChanges(c, row) /\ row.step # "timer"
    BY <1>1, <2>1, <2>2, ServersStartChanges DEF ServersInv, ServersRowIsAimed, ServersPolls
  <2> QED
    BY <1>1, <1>2, <2>2, <2>3, ServersCallKeeps DEF ServersInv, Servers!TypeOK, ServersWatches
<1>3. CASE panel' = [panel EXCEPT !.gaveUp = @ \cup {call[c].server}] /\ Servers!Finish(c)
  <2>1. call' = [call EXCEPT ![c] = Servers!NoCall]
    BY <1>3 DEF Servers!Finish
  <2>2. ServersChanges(c, Servers!NoCall)
    BY <2>1, ServersNoCallIs, ServersStartChanges DEF ServersInv
  <2>3. /\ panel' \in Servers!Panel /\ panel'.modal = panel.modal /\ panel'.target = panel.target
        /\ panel'.late = panel.late /\ panel'.result = panel.result
        /\ panel'.announced = panel.announced /\ panel'.generating = panel.generating
        /\ panel'.overlapped = panel.overlapped /\ panel'.crossed = panel.crossed
        /\ panel'.pollFor = panel.pollFor /\ panel'.context = panel.context
        /\ panel'.timer = panel.timer /\ panel'.close = panel.close
        /\ panel'.hidden = panel.hidden /\ panel'.gaveUp = panel.gaveUp \cup {call[c].server}
    BY <1>1, <1>3 DEF ServersInv, Servers!TypeOK, Servers!Panel
  <2> QED
    BY <1>1, <2>2, <2>3, ServersNoCallIs, ServersCallKeeps DEF ServersInv, Servers!TypeOK,
       ServersWatches
<1> QED
  BY <1>2, <1>3 DEF Servers!WatchGoesOn

LEMMA ServersSubmitDeleteKeeps ==
  ASSUME ServersInv, NEW c \in Call, Servers!SubmitDeleteResource(c)
  PROVE  ServersInv'
<1> DEFINE s == panel.target
           row == [Servers!NoCall EXCEPT !.op = "delete", !.server = s, !.local = panel.local]
<1>1. /\ panel.modal = "delete" /\ call[c].op = "none" /\ UNCHANGED controller
      /\ panel' = [Servers!MarkPending(panel, s) EXCEPT !.submitting = TRUE]
      /\ call' = [(IF panel.pollFor = s THEN Servers!ClearTimer ELSE call) EXCEPT ![c] = row]
  BY DEF Servers!SubmitDeleteResource, Servers!DeleteOffered, Servers!Free
<1>2. s \in Server
  BY <1>1 DEF ServersInv, ServersModalIsOfAServer
<1>3. /\ row \in Servers!CallRow /\ row.op = "delete" /\ row.server = s /\ row.step = "main"
  BY <1>2, ServersNoCallIs DEF ServersInv, Servers!TypeOK, Servers!Panel, Servers!CallRow
<1> DEFINE q == [panel EXCEPT !.hidden = panel.hidden \cup {s}]
<1>4. /\ q \in Servers!Panel /\ q.modal = panel.modal /\ q.target = panel.target
      /\ q.late = panel.late /\ q.result = panel.result
      /\ q.announced = panel.announced /\ q.generating = panel.generating
      /\ q.overlapped = panel.overlapped /\ q.crossed = panel.crossed
      /\ q.pollFor = panel.pollFor /\ q.context = panel.context
      /\ q.timer = panel.timer /\ q.close = panel.close
      /\ q.hidden = panel.hidden \cup {s} /\ q.gaveUp = panel.gaveUp
  BY <1>2 DEF ServersInv, Servers!TypeOK, Servers!Panel
<1>5. Servers!MarkPending(panel, s) = IF panel.pollFor = s THEN Servers!ClearPolling(q, Servers!Requested("poll")) ELSE q
  BY DEF Servers!MarkPending, ServersInv, Servers!TypeOK, Servers!Panel
<1> HIDE DEF q, row
<1>6. CASE panel.pollFor # s
  <2>1. panel' = [q EXCEPT !.submitting = TRUE] /\ call' = [call EXCEPT ![c] = row]
    BY <1>1, <1>5, <1>6
  <2>2. /\ panel' \in Servers!Panel /\ panel'.modal = panel.modal /\ panel'.target = panel.target
        /\ panel'.late = panel.late /\ panel'.result = panel.result
        /\ panel'.announced = panel.announced /\ panel'.generating = panel.generating
        /\ panel'.overlapped = panel.overlapped /\ panel'.crossed = panel.crossed
        /\ panel'.pollFor = panel.pollFor /\ panel'.context = panel.context
        /\ panel'.timer = panel.timer /\ panel'.close = panel.close
        /\ panel'.hidden = panel.hidden \cup {s} /\ panel'.gaveUp = panel.gaveUp
    BY <1>4, <2>1 DEF Servers!Panel
  <2>3. ServersChanges(c, row)
    BY <1>3, <2>1, ServersStartChanges DEF ServersInv
  <2> HIDE DEF s
  <2> QED
    BY <1>1, <1>2, <1>3, <2>2, <2>3, ServersCallKeeps DEF ServersInv, Servers!TypeOK, ServersWatches
<1>7. CASE panel.pollFor = s
  <2>1. PICK crossed \in BOOLEAN :
          /\ Servers!ClearPolling(q, Servers!Requested("poll")) =
               [q EXCEPT !.pollFor = None, !.context = "none", !.timer = None, !.crossed = crossed]
          /\ crossed <=> q.crossed \/ \E b \in Servers!Requested("poll") : call[b].step = "main"
    BY <1>4, ServersClearPollingIs DEF Servers!Requested
  <2>2. /\ panel' \in Servers!Panel /\ panel'.modal = panel.modal /\ panel'.target = panel.target
        /\ panel'.late = panel.late /\ panel'.result = panel.result
        /\ panel'.announced = panel.announced /\ panel'.generating = panel.generating
        /\ panel'.overlapped = panel.overlapped /\ panel'.crossed = crossed
        /\ panel'.pollFor = None /\ panel'.close = panel.close
        /\ panel'.hidden = panel.hidden \cup {s} /\ panel'.gaveUp = panel.gaveUp
    <3> DEFINE over == [q EXCEPT !.pollFor = None, !.context = "none", !.timer = None,
                                 !.crossed = crossed]
    <3>1. panel' = [over EXCEPT !.submitting = TRUE]
      BY <1>1, <1>5, <1>7, <2>1
    <3>2. /\ over \in Servers!Panel /\ over.modal = q.modal /\ over.target = q.target
          /\ over.late = q.late /\ over.result = q.result
          /\ over.announced = q.announced /\ over.generating = q.generating
          /\ over.overlapped = q.overlapped /\ over.crossed = crossed
          /\ over.pollFor = None /\ over.close = q.close
          /\ over.hidden = q.hidden /\ over.gaveUp = q.gaveUp
      BY ZenonT(40), <1>4, <2>1 DEF Servers!Panel, Servers!Mode
    <3> HIDE DEF over, s
    <3> QED
      BY ZenonT(40), <1>4, <3>1, <3>2 DEF Servers!Panel
  <2>3. ServersChanges(c, row) /\ ServersClears(c)
    BY <1>1, <1>3, <1>7, ServersClearTimerChanges DEF ServersInv
  <2>4. \A b \in Call : ServersRowIsAimed(b)'
    BY <1>2, <1>3, <2>3, ServersRowsStay
  <2>5. Servers!HiddenRowIsWatched'
    BY <1>1, <1>3, <2>2, <2>3, ServersWatchStays DEF ServersWatches
  <2>6. ServersPreviewInv'
    BY <1>3, <2>2, <2>3, ServersPreviewStays
  <2>7. ServersTurnsInv'
    BY <1>3, <2>2, <2>3, ServersTurnsStay
  <2>8. ServersPollInv'
    <3>1. ~panel'.crossed => \A b \in Call \ {c} : ~ServersPolls(b)'
      BY <1>4, <2>1, <2>2, <2>3, ServersPollingEnds DEF Servers!Requested, ServersPolls
    <3>2. ~panel'.crossed /\ panel'.close # None /\ panel'.result # None =>
            panel'.result = panel'.close
      BY <1>4, <2>1, <2>2 DEF ServersInv, ServersPollInv
    <3>3. panel'.pollFor = None /\ row.op # "poll"
      BY <1>3, <2>2
    <3> HIDE DEF s
    <3> QED
      BY <2>3, <3>1, <3>2, <3>3, ServersNoPollLeft
  <2> QED
    BY <1>1, <2>2, <2>3, <2>4, <2>5, <2>6, <2>7, <2>8
    DEF ServersInv, Servers!TypeOK, ServersChanges, ServersModalIsOfAServer
<1> QED
  BY <1>6, <1>7

-----------------------------------------------------------------------------
(* The polling. *)

\* A chain ends, and the polling of the refs with it.
LEMMA ServersPollingIsOver ==
  ASSUME ServersInv, NEW c \in Call, ServersPolls(c), UNCHANGED controller,
         call' = [Servers!ClearTimer EXCEPT ![c] = Servers!NoCall],
         panel' = Servers!ClearPolling(panel, Servers!Requested("poll") \ {c})
  PROVE  ServersInv'
<1> DEFINE awaited == Servers!Requested("poll") \ {c}
<1>0. panel \in Servers!Panel /\ awaited \in SUBSET Call /\ panel' = Servers!ClearPolling(panel, awaited)
  BY DEF ServersInv, Servers!TypeOK, Servers!Requested
<1> HIDE DEF awaited
<1>1. PICK crossed \in BOOLEAN :
        /\ panel' = [panel EXCEPT !.pollFor = None, !.context = "none", !.timer = None,
                                  !.crossed = crossed]
        /\ crossed <=> panel.crossed \/ \E b \in awaited : call[b].step = "main"
  BY <1>0, ServersClearPollingIs
<1>2. /\ panel' \in Servers!Panel /\ panel'.modal = panel.modal /\ panel'.target = panel.target
      /\ panel'.late = panel.late /\ panel'.result = panel.result
      /\ panel'.announced = panel.announced /\ panel'.generating = panel.generating
      /\ panel'.overlapped = panel.overlapped
      /\ panel'.crossed = crossed /\ panel'.pollFor = None /\ panel'.close = panel.close
      /\ panel'.hidden = panel.hidden /\ panel'.gaveUp = panel.gaveUp
  BY <1>1 DEF ServersInv, Servers!TypeOK, Servers!Panel, Servers!Mode
<1>3. ServersChanges(c, Servers!NoCall) /\ ServersClears(c)
  BY ServersNoCallIs, ServersClearTimerChanges DEF ServersInv
<1>4. \A b \in Call : ServersRowIsAimed(b)'
  BY <1>3, ServersNoCallIs, ServersRowsStay
<1>5. Servers!HiddenRowIsWatched'
  BY <1>2, <1>3, ServersNoCallIs, ServersWatchStays DEF ServersWatches, ServersPolls
<1>6. ServersPreviewInv'
  BY <1>2, <1>3, ServersNoCallIs, ServersPreviewStays
<1>7. ServersTurnsInv'
  BY <1>2, <1>3, ServersNoCallIs, ServersTurnsStay
<1>8. ServersPollInv'
  <2>1. ~panel'.crossed => \A b \in Call \ {c} : ~ServersPolls(b)'
    BY <1>1, <1>2, <1>3, ServersPollingEnds DEF Servers!Requested, ServersPolls, awaited
  <2>2. ~panel'.crossed /\ panel'.close # None /\ panel'.result # None =>
          panel'.result = panel'.close
    BY <1>1, <1>2 DEF ServersInv, ServersPollInv
  <2> QED
    BY <1>2, <1>3, <2>1, <2>2, ServersNoCallIs, ServersNoPollLeft
<1> QED
  BY <1>2, <1>3, <1>4, <1>5, <1>6, <1>7, <1>8
  DEF ServersInv, Servers!TypeOK, ServersChanges, ServersModalIsOfAServer

LEMMA ServersPollFiresKeeps ==
  ASSUME ServersInv, NEW c \in Call, Servers!PollFires(c) PROVE ServersInv'
<1> DEFINE s == call[c].server
<1>1. /\ ServersPolls(c) /\ call[c].step = "timer" /\ UNCHANGED controller /\ s \in Server
  BY DEF Servers!PollFires, Servers!Waits, ServersPolls, ServersInv, ServersRowIsAimed
<1>2. CASE panel.pollFor = s /\ s \notin panel.hidden
  <2> DEFINE row == [call[c] EXCEPT !.step = "main"]
  <2>1. /\ call' = [call EXCEPT ![c] = row]
        /\ panel' = [panel EXCEPT !.timer = IF @ = c THEN None ELSE @]
    BY <1>2 DEF Servers!PollFires, Servers!Start
  <2>2. /\ row \in Servers!CallRow /\ row.op = call[c].op /\ row.step = "main"
        /\ row.server = call[c].server /\ row.mode = call[c].mode
    BY DEF ServersInv, Servers!TypeOK, Servers!CallRow
  <2> HIDE DEF row
  <2>3. /\ panel' \in Servers!Panel /\ panel'.modal = panel.modal /\ panel'.target = panel.target
        /\ panel'.late = panel.late /\ panel'.result = panel.result
        /\ panel'.announced = panel.announced /\ panel'.generating = panel.generating
        /\ panel'.overlapped = panel.overlapped /\ panel'.crossed = panel.crossed
        /\ panel'.pollFor = panel.pollFor /\ panel'.context = panel.context
        /\ panel'.close = panel.close
        /\ panel'.hidden = panel.hidden /\ panel'.gaveUp = panel.gaveUp
    BY <2>1 DEF ServersInv, Servers!TypeOK, Servers!Panel
  <2>4. ServersChanges(c, row)
    BY <2>1, <2>2, ServersStartChanges DEF ServersInv
  <2>5. \A b \in Call : ServersRowIsAimed(b)'
    BY <1>1, <2>2, <2>4, ServersRowsStay
  <2>6. Servers!HiddenRowIsWatched'
    BY <1>1, <2>2, <2>3, <2>4, ServersWatchStays DEF ServersWatches, ServersPolls
  <2>7. ServersPreviewInv'
    BY <1>1, <2>2, <2>3, <2>4, ServersPreviewStays
  <2>8. ServersTurnsInv'
    BY <1>1, <2>2, <2>3, <2>4, ServersTurnsStay DEF ServersGenerates, ServersPolls
  <2>9. ServersPollInv'
    <3> SUFFICES ASSUME ~panel.crossed PROVE ServersPollInv'
      BY <2>3 DEF ServersPollInv
    <3>1. \A b \in Call : ServersPolls(b)' => b = c
      <4> SUFFICES ASSUME NEW b \in Call, ServersPolls(b)', b # c PROVE FALSE
        OBVIOUS
      <4>1. ServersPolls(b)
        BY <2>4, ServersNoCallIs DEF ServersChanges, ServersPolls
      <4> QED
        BY <1>1, <4>1 DEF ServersInv, ServersPollInv
    <3>2. ServersPollIsOfTheRefs(c) /\ call'[c] = row
      BY <1>1, <2>4 DEF ServersInv, ServersPollInv, ServersChanges
    <3>3. ServersPollIsOfTheRefs(c)'
      BY <2>2, <2>3, <3>2 DEF ServersPollIsOfTheRefs
    <3> QED
      BY <2>3, <3>1, <3>3 DEF ServersInv, ServersPollInv
  <2> QED
    BY <1>1, <2>3, <2>4, <2>5, <2>6, <2>7, <2>8, <2>9
    DEF ServersInv, Servers!TypeOK, ServersChanges, ServersModalIsOfAServer
<1>3. CASE ~(panel.pollFor = s /\ s \notin panel.hidden) /\ s \notin panel.hidden
  <2>1. call' = [call EXCEPT ![c] = Servers!NoCall] /\ UNCHANGED panel
    BY <1>3 DEF Servers!PollFires
  <2>2. ServersChanges(c, Servers!NoCall)
    BY <2>1, ServersNoCallIs, ServersStartChanges DEF ServersInv
  <2> QED
    BY <1>1, <2>1, <2>2, ServersNoCallIs, ServersCallKeeps DEF ServersInv, Servers!TypeOK,
       ServersWatches, ServersPolls
<1>4. CASE s \in panel.hidden
  <2>1. /\ call' = [Servers!ClearTimer EXCEPT ![c] = Servers!NoCall]
        /\ panel' = Servers!ClearPolling(panel, Servers!Requested("poll") \ {c})
    BY <1>4 DEF Servers!PollFires
  <2> QED
    BY <1>1, <2>1, ServersPollingIsOver
<1> QED
  BY <1>2, <1>3, <1>4

LEMMA ServersPollGoesOnKeeps ==
  ASSUME ServersInv, NEW c \in Call, Servers!PollGoesOn(c) PROVE ServersInv'
<1>1. ServersPolls(c) /\ call[c].step = "main" /\ UNCHANGED controller /\ call[c].server \in Server
  BY DEF Servers!PollGoesOn, Servers!Waits, ServersPolls, ServersInv, ServersRowIsAimed
<1>2. CASE call[c].n + 1 >= MaxPolls
  <2>1. /\ call' = [Servers!ClearTimer EXCEPT ![c] = Servers!NoCall]
        /\ panel' = Servers!ClearPolling(panel, Servers!Requested("poll") \ {c})
    BY <1>2 DEF Servers!PollGoesOn
  <2> QED
    BY <1>1, <2>1, ServersPollingIsOver
<1>3. CASE ~(call[c].n + 1 >= MaxPolls)
  <2> DEFINE row == [call[c] EXCEPT !.step = "timer", !.n = @ + 1, !.seen = "unread"]
  <2>1. /\ call' = [call EXCEPT ![c] = row] /\ panel' = [panel EXCEPT !.timer = c]
    BY <1>3 DEF Servers!PollGoesOn, Servers!Start
  <2>2. /\ row \in Servers!CallRow /\ row.op = call[c].op /\ row.step = "timer"
        /\ row.server = call[c].server /\ row.mode = call[c].mode
    <3>1. call[c].n \in 0..MaxPolls
      BY DEF ServersInv, Servers!TypeOK, Servers!CallRow
    <3>2. call[c].n + 1 \in 0..MaxPolls
      BY <1>3, <3>1, ServersAre
    <3> QED
      BY <3>2 DEF ServersInv, Servers!TypeOK, Servers!CallRow
  <2> HIDE DEF row
  <2>3. /\ panel' \in Servers!Panel /\ panel'.modal = panel.modal /\ panel'.target = panel.target
        /\ panel'.late = panel.late /\ panel'.result = panel.result
        /\ panel'.announced = panel.announced /\ panel'.generating = panel.generating
        /\ panel'.overlapped = panel.overlapped /\ panel'.crossed = panel.crossed
        /\ panel'.pollFor = panel.pollFor /\ panel'.context = panel.context
        /\ panel'.timer = c /\ panel'.close = panel.close
        /\ panel'.hidden = panel.hidden /\ panel'.gaveUp = panel.gaveUp
    BY <2>1 DEF ServersInv, Servers!TypeOK, Servers!Panel
  <2>4. ServersChanges(c, row)
    BY <2>1, <2>2, ServersStartChanges DEF ServersInv
  <2>5. \A b \in Call : ServersRowIsAimed(b)'
    BY <1>1, <2>2, <2>4, ServersRowsStay DEF ServersPolls
  <2>6. Servers!HiddenRowIsWatched'
    BY <1>1, <2>2, <2>3, <2>4, ServersWatchStays DEF ServersWatches, ServersPolls
  <2>7. ServersPreviewInv'
    BY <1>1, <2>2, <2>3, <2>4, ServersPreviewStays
  <2>8. ServersTurnsInv'
    BY <1>1, <2>2, <2>3, <2>4, ServersTurnsStay DEF ServersGenerates, ServersPolls
  <2>9. ServersPollInv'
    <3> SUFFICES ASSUME ~panel.crossed PROVE ServersPollInv'
      BY <2>3 DEF ServersPollInv
    <3>1. \A b \in Call : ServersPolls(b)' => b = c
      <4> SUFFICES ASSUME NEW b \in Call, ServersPolls(b)', b # c PROVE FALSE
        OBVIOUS
      <4>1. ServersPolls(b)
        BY <2>4, ServersNoCallIs DEF ServersChanges, ServersPolls
      <4> QED
        BY <1>1, <4>1 DEF ServersInv, ServersPollInv
    <3>2. ServersPollIsOfTheRefs(c) /\ call'[c] = row
      BY <1>1, <2>4 DEF ServersInv, ServersPollInv, ServersChanges
    <3>3. ServersPollIsOfTheRefs(c)'
      BY <2>2, <2>3, <3>2 DEF ServersPollIsOfTheRefs
    <3> QED
      BY <2>3, <3>1, <3>3 DEF ServersInv, ServersPollInv
  <2> QED
    BY <1>1, <2>3, <2>4, <2>5, <2>6, <2>7, <2>8, <2>9
    DEF ServersInv, Servers!TypeOK, ServersChanges, ServersModalIsOfAServer
<1> QED
  BY <1>2, <1>3

\* The worker that is found is the one of the modal, unless it was opened late,
\* and the one that was polled for, unless polls crossed.
LEMMA ServersPollFindsWorkerKeeps ==
  ASSUME ServersInv, NEW c \in Call, Servers!PollFindsWorker(c)
  PROVE  /\ ServersInv'
         /\ call[c].mode = "upgrade" /\ ~panel.crossed => call[c].seen = "new"
<1> DEFINE s == call[c].server
<1>1. /\ ServersPolls(c) /\ call[c].step = "main" /\ UNCHANGED controller /\ s \in Server /\ Servers!Found(c)
      /\ panel' = [Servers!ClearPolling(panel, Servers!Requested("poll") \ {c}) EXCEPT
                     !.announced = IF panel.modal = "preview" THEN s ELSE None, !.close = s]
      /\ call' = [Servers!ClearTimer EXCEPT ![c] = Servers!NoCall]
  BY DEF Servers!PollFindsWorker, Servers!Waits, ServersPolls, ServersInv, ServersRowIsAimed
<1> HIDE DEF s
<1>2. PICK crossed \in BOOLEAN :
        /\ Servers!ClearPolling(panel, Servers!Requested("poll") \ {c}) =
             [panel EXCEPT !.pollFor = None, !.context = "none", !.timer = None, !.crossed = crossed]
        /\ crossed <=> panel.crossed \/ \E b \in Servers!Requested("poll") \ {c} : call[b].step = "main"
  BY ServersClearPollingIs DEF ServersInv, Servers!TypeOK, Servers!Requested
<1>3. /\ panel' \in Servers!Panel /\ panel'.modal = panel.modal /\ panel'.target = panel.target
      /\ panel'.late = panel.late /\ panel'.result = panel.result
      /\ panel'.announced = (IF panel.modal = "preview" THEN s ELSE None)
      /\ panel'.generating = panel.generating /\ panel'.overlapped = panel.overlapped
      /\ panel'.crossed = crossed /\ panel'.pollFor = None /\ panel'.close = s
      /\ panel'.hidden = panel.hidden /\ panel'.gaveUp = panel.gaveUp
  <2> DEFINE found == IF panel.modal = "preview" THEN s ELSE None
  <2>1. found \in Server \cup {None} /\ s \in Server
    BY <1>1
  <2>2. panel' = [[panel EXCEPT !.pollFor = None, !.context = "none", !.timer = None, !.crossed = crossed]
                   EXCEPT !.announced = found, !.close = s]
    BY <1>1, <1>2
  <2> HIDE DEF found
  <2>3. /\ panel' \in Servers!Panel /\ panel'.modal = panel.modal /\ panel'.target = panel.target
        /\ panel'.late = panel.late /\ panel'.result = panel.result
        /\ panel'.announced = found
        /\ panel'.generating = panel.generating /\ panel'.overlapped = panel.overlapped
        /\ panel'.crossed = crossed /\ panel'.pollFor = None /\ panel'.close = s
        /\ panel'.hidden = panel.hidden /\ panel'.gaveUp = panel.gaveUp
    BY ZenonT(40), <1>2, <2>1, <2>2 DEF ServersInv, Servers!TypeOK, Servers!Panel, Servers!Mode
  <2> QED
    BY <2>3 DEF found
<1>4. ServersChanges(c, Servers!NoCall) /\ ServersClears(c)
  BY <1>1, ServersNoCallIs, ServersClearTimerChanges DEF ServersInv
<1>5. \A b \in Call : ServersRowIsAimed(b)'
  BY <1>4, ServersNoCallIs, ServersRowsStay
<1>6. Servers!HiddenRowIsWatched'
  BY <1>1, <1>3, <1>4, ServersNoCallIs, ServersWatchStays DEF ServersWatches, ServersPolls
<1>7. ServersPreviewInv'
  <2>1. panel.modal = "preview" /\ ~panel.late => s = panel.target
    BY <1>1 DEF ServersInv, ServersPreviewInv, s
  <2>2. \A b \in Call : (ServersGenerates(b) \/ ServersPolls(b))' => call'[b] = call[b] /\ (ServersGenerates(b) \/ ServersPolls(b))
    BY <1>4, ServersNoCallIs DEF ServersChanges, ServersGenerates, ServersPolls
  <2> QED
    BY <1>3, <2>1, <2>2 DEF ServersInv, ServersPreviewInv
<1>8. ServersTurnsInv'
  BY <1>3, <1>4, ServersNoCallIs, ServersTurnsStay
<1>9. ServersPollInv'
  <2>1. ~panel'.crossed => \A b \in Call \ {c} : ~ServersPolls(b)'
    BY <1>2, <1>3, <1>4, ServersPollingEnds DEF Servers!Requested, ServersPolls
  <2>2. ~panel.crossed => s = panel.pollFor
    BY <1>1 DEF ServersInv, ServersPollInv, ServersPollIsOfTheRefs, s
  <2>3. ~panel'.crossed /\ panel'.close # None /\ panel'.result # None =>
          panel'.result = panel'.close
    BY <1>1, <1>2, <1>3, <2>2, ServersAre DEF ServersInv, ServersPollInv
  <2> QED
    BY <1>3, <1>4, <2>1, <2>3, ServersNoCallIs, ServersNoPollLeft
<1>10. call[c].mode = "upgrade" /\ ~panel.crossed => call[c].seen = "new"
  BY <1>1 DEF ServersInv, ServersPollInv, ServersPollIsOfTheRefs, Servers!Found
<1> QED
  BY <1>1, <1>3, <1>4, <1>5, <1>6, <1>7, <1>8, <1>9, <1>10
  DEF ServersInv, Servers!TypeOK, ServersChanges, ServersModalIsOfAServer

-----------------------------------------------------------------------------
(* The end of a generation. *)

\* The instance has Cardinality under a name of its own.
LEMMA ServersCardinality == ASSUME NEW S PROVE Servers!Cardinality(S) = Cardinality(S)
BY DEF Servers!Cardinality, Cardinality

LEMMA ServersTwoAreMore ==
  ASSUME NEW b \in Call, NEW c \in Call, b # c, ServersGenerates(b), ServersGenerates(c)
  PROVE  Cardinality(Servers!Requested("generate")) > 1
<1>1. IsFiniteSet({b}) /\ Cardinality({b}) = 1
  BY FS_Singleton
<1>2. IsFiniteSet({b} \cup {c}) /\ Cardinality({b} \cup {c}) = 2
  BY <1>1, FS_AddElement
<1>3. Servers!Requested("generate") \subseteq Call /\ {b} \cup {c} \subseteq Servers!Requested("generate")
  BY DEF Servers!Requested, ServersGenerates
<1>4. IsFiniteSet(Servers!Requested("generate"))
  BY <1>3, ServersAre, FS_Subset
<1>5. Cardinality({b} \cup {c}) <= Cardinality(Servers!Requested("generate"))
  BY <1>3, <1>4, FS_Subset
<1>6. Cardinality(Servers!Requested("generate")) \in Nat
  BY <1>4, FS_CardinalityType
<1> QED
  BY <1>2, <1>5, <1>6

\* When the flag is reset it was the only one.
LEMMA ServersLastGeneration ==
  ASSUME ServersInv, NEW c \in Call, ServersGenerates(c), ~Servers!StillOverlapped
  PROVE  \A b \in Call : ServersGenerates(b) => b = c
<1>1. CASE ~panel.overlapped
  BY <1>1 DEF ServersInv, ServersTurnsInv
<1>2. CASE panel.overlapped
  <2>1. ~(Cardinality(Servers!Requested("generate")) > 1)
    BY <1>2, ServersCardinality DEF Servers!StillOverlapped
  <2> QED
    BY <2>1, ServersTwoAreMore
<1> QED
  BY <1>1, <1>2

LEMMA ServersNoneGenerates ==
  ASSUME ServersInv, NEW c \in Call, ServersGenerates(c), NEW row, ServersChanges(c, row),
         row.op # "generate", ~panel'.overlapped => ~Servers!StillOverlapped
  PROVE  ServersTurnsInv'
<1> SUFFICES ASSUME ~Servers!StillOverlapped PROVE \A b \in Call : ~ServersGenerates(b)'
  BY DEF ServersTurnsInv
<1>1. \A b \in Call : ServersGenerates(b) => b = c
  BY ServersLastGeneration
<1>2. \A b \in Call : ServersGenerates(b)' => ServersGenerates(b) /\ b # c
  BY ServersNoCallIs DEF ServersChanges, ServersGenerates
<1> QED
  BY <1>1, <1>2

LEMMA ServersStillOverlappedIs == Servers!StillOverlapped \in BOOLEAN
BY DEF Servers!StillOverlapped

LEMMA ServersGenerateFailsKeeps ==
  ASSUME ServersInv, NEW c \in Call, Servers!GenerateFails(c) PROVE ServersInv'
<1>1. /\ ServersGenerates(c) /\ call' = [call EXCEPT ![c] = Servers!NoCall] /\ UNCHANGED controller
      /\ panel' = [panel EXCEPT !.result = None, !.generating = FALSE,
                                !.overlapped = Servers!StillOverlapped]
  BY DEF Servers!GenerateFails, Servers!Waits, Servers!Finish, ServersGenerates
<1>2. /\ panel' \in Servers!Panel /\ panel'.modal = panel.modal /\ panel'.target = panel.target
      /\ panel'.late = panel.late /\ panel'.result = None
      /\ panel'.announced = panel.announced
      /\ panel'.overlapped = Servers!StillOverlapped /\ panel'.crossed = panel.crossed
      /\ panel'.pollFor = panel.pollFor /\ panel'.context = panel.context
      /\ panel'.timer = panel.timer /\ panel'.close = panel.close
      /\ panel'.hidden = panel.hidden /\ panel'.gaveUp = panel.gaveUp
  <2> HIDE DEF Servers!StillOverlapped
  <2> QED
    BY <1>1, ServersStillOverlappedIs DEF ServersInv, Servers!TypeOK, Servers!Panel
<1>3. ServersChanges(c, Servers!NoCall)
  BY <1>1, ServersNoCallIs, ServersStartChanges DEF ServersInv
<1>4. \A b \in Call : ServersRowIsAimed(b)'
  BY <1>3, ServersNoCallIs, ServersRowsStay
<1>5. Servers!HiddenRowIsWatched'
  BY <1>1, <1>2, <1>3, ServersNoCallIs, ServersWatchStays DEF ServersWatches, ServersGenerates
<1>6. ServersPreviewInv'
  BY <1>2, <1>3, ServersNoCallIs, ServersPreviewStays
<1>7. ServersTurnsInv'
  BY <1>1, <1>2, <1>3, ServersNoCallIs, ServersNoneGenerates
<1>8. ServersPollInv'
  BY <1>2, <1>3, ServersNoCallIs, ServersPollStays
<1> QED
  BY <1>1, <1>2, <1>3, <1>4, <1>5, <1>6, <1>7, <1>8
  DEF ServersInv, Servers!TypeOK, ServersChanges, ServersModalIsOfAServer

\* The command of another modal would be late.
LEMMA ServersGeneratedKeeps ==
  ASSUME ServersInv, NEW c \in Call, Servers!Generated(c) PROVE ServersInv'
<1> DEFINE s == call[c].server
           gone == s \in panel.hidden
           result == IF panel.modal = "preview" THEN s ELSE None
           pollFor == IF gone THEN None ELSE s
           context == IF gone THEN "none" ELSE call[c].mode
           chain == [Servers!NoCall EXCEPT !.op = "poll", !.server = s, !.mode = call[c].mode]
           row == IF gone THEN Servers!NoCall ELSE chain
           still == Servers!StillOverlapped
<1>1. /\ ServersGenerates(c) /\ UNCHANGED controller /\ s \in Server
      /\ panel' = [Servers!ClearPolling(panel, Servers!Requested("poll")) EXCEPT
                     !.result = result, !.close = None, !.generating = FALSE,
                     !.overlapped = still, !.pollFor = pollFor, !.context = context]
      /\ call' = [Servers!ClearTimer EXCEPT ![c] = row]
  BY DEF Servers!Generated, Servers!Waits, ServersGenerates, ServersInv, ServersRowIsAimed
<1>2. /\ result \in Server \cup {None} /\ pollFor \in Server \cup {None} /\ context \in Servers!Mode
      /\ still \in BOOLEAN
      /\ panel.modal = "preview" => result = s
      /\ panel.modal # "preview" => result = None
  BY <1>1, ServersStillOverlappedIs DEF ServersInv, Servers!TypeOK, Servers!CallRow, Servers!Mode
<1>3. chain \in Servers!CallRow
  BY <1>1, ServersNoCallIs DEF ServersInv, Servers!TypeOK, Servers!CallRow
<1>4. /\ row \in Servers!CallRow /\ row.step = "main" /\ row.op \in {"none", "poll"}
      /\ row.op = "poll" => row.server = s /\ row.mode = call[c].mode
      /\ row.op = "poll" => pollFor = s /\ context = call[c].mode
      /\ pollFor \in {None, s}
  BY <1>3, ServersNoCallIs DEF Servers!CallRow
<1> HIDE DEF result, pollFor, context, row, still
<1>5. PICK crossed \in BOOLEAN :
        /\ Servers!ClearPolling(panel, Servers!Requested("poll")) =
             [panel EXCEPT !.pollFor = None, !.context = "none", !.timer = None, !.crossed = crossed]
        /\ crossed <=> panel.crossed \/ \E b \in Servers!Requested("poll") : call[b].step = "main"
  BY ServersClearPollingIs DEF ServersInv, Servers!TypeOK, Servers!Requested
<1>6. /\ panel' \in Servers!Panel /\ panel'.modal = panel.modal /\ panel'.target = panel.target
      /\ panel'.late = panel.late /\ panel'.result = result /\ panel'.announced = panel.announced
      /\ panel'.hidden = panel.hidden /\ panel'.gaveUp = panel.gaveUp
      /\ panel'.pollFor = pollFor /\ panel'.context = context /\ panel'.close = None
      /\ panel'.overlapped = still /\ panel'.crossed = crossed
  <2> DEFINE over == [panel EXCEPT !.pollFor = None, !.context = "none", !.timer = None,
                                   !.crossed = crossed]
  <2>1. panel' = [over EXCEPT !.result = result, !.close = None, !.generating = FALSE,
                              !.overlapped = still, !.pollFor = pollFor, !.context = context]
    BY <1>1, <1>5
  <2>2. /\ over \in Servers!Panel /\ over.modal = panel.modal /\ over.target = panel.target
        /\ over.late = panel.late /\ over.announced = panel.announced
        /\ over.hidden = panel.hidden /\ over.gaveUp = panel.gaveUp /\ over.crossed = crossed
    BY ZenonT(40), <1>5 DEF ServersInv, Servers!TypeOK, Servers!Panel, Servers!Mode
  <2> HIDE DEF over, s, gone
  <2>3. result \in Server \cup {None} /\ pollFor \in Server \cup {None} /\ context \in Servers!Mode
    BY <1>2
  <2>4. still \in BOOLEAN
    BY <1>2
  <2> DEFINE shown == [over EXCEPT !.result = result, !.close = None, !.pollFor = pollFor,
                                   !.context = context]
  <2>5. panel' = [[shown EXCEPT !.generating = FALSE] EXCEPT !.overlapped = still]
    BY <2>1, <2>2 DEF Servers!Panel
  <2>6. /\ shown \in Servers!Panel /\ shown.modal = over.modal /\ shown.target = over.target
        /\ shown.late = over.late /\ shown.announced = over.announced
        /\ shown.hidden = over.hidden /\ shown.gaveUp = over.gaveUp
        /\ shown.crossed = over.crossed /\ shown.result = result /\ shown.pollFor = pollFor
        /\ shown.context = context /\ shown.close = None
    BY <2>2, <2>3 DEF Servers!Panel
  <2> DEFINE ready == [shown EXCEPT !.generating = FALSE]
  <2> HIDE DEF shown
  <2>7. /\ ready \in Servers!Panel /\ ready.modal = shown.modal /\ ready.target = shown.target
        /\ ready.late = shown.late /\ ready.announced = shown.announced
        /\ ready.hidden = shown.hidden /\ ready.gaveUp = shown.gaveUp
        /\ ready.crossed = shown.crossed /\ ready.result = result /\ ready.pollFor = pollFor
        /\ ready.context = context /\ ready.close = None
    BY ZenonT(40), <2>6 DEF Servers!Panel
  <2>8. panel' = [ready EXCEPT !.overlapped = still]
    BY <2>5
  <2> HIDE DEF ready
  <2> QED
    BY <2>2, <2>4, <2>6, <2>7, <2>8 DEF Servers!Panel
<1>7. ServersChanges(c, row) /\ ServersClears(c)
  BY <1>1, <1>4, ServersClearTimerChanges DEF ServersInv
<1>8. \A b \in Call : ServersRowIsAimed(b)'
  BY <1>1, <1>4, <1>7, ServersRowsStay
<1>9. Servers!HiddenRowIsWatched'
  BY <1>1, <1>4, <1>6, <1>7, ServersWatchStays DEF ServersWatches, ServersGenerates
<1>10. ServersPreviewInv'
  <2>1. panel.modal = "preview" /\ ~panel.late => s = panel.target
    BY <1>1 DEF ServersInv, ServersPreviewInv, s
  <2>2. \A b \in Call : (ServersGenerates(b) \/ ServersPolls(b))' =>
          \/ call'[b] = call[b] /\ (ServersGenerates(b) \/ ServersPolls(b))
          \/ call'[b].server = s
    BY <1>4, <1>7, ServersNoCallIs DEF ServersChanges, ServersGenerates, ServersPolls
  <2> HIDE DEF s
  <2>3. panel.modal # "preview" => panel'.result = None /\ panel'.announced = None
    BY <1>2, <1>6 DEF ServersInv, ServersPreviewInv
  <2>4. ASSUME panel.modal = "preview", ~panel.late
        PROVE  /\ panel'.result \in {None, panel'.target} /\ panel'.announced \in {None, panel'.target}
               /\ \A b \in Call : (ServersGenerates(b) \/ ServersPolls(b))' => call'[b].server = panel'.target
    BY <1>2, <1>6, <2>1, <2>2, <2>4 DEF ServersInv, ServersPreviewInv
  <2> QED
    BY <1>6, <2>3, <2>4 DEF ServersPreviewInv
<1>11. ServersTurnsInv'
  BY <1>1, <1>4, <1>6, <1>7, ServersNoneGenerates DEF still
<1>12. ServersPollInv'
  <2>1. ~panel'.crossed => \A b \in Call \ {c} : ~ServersPolls(b)'
    BY <1>5, <1>6, <1>7, ServersPollingEnds DEF Servers!Requested, ServersPolls
  <2>2. call'[c] = row
    BY <1>7 DEF ServersChanges
  <2>3. ServersPolls(c)' => ServersPollIsOfTheRefs(c)'
    BY <1>4, <1>6, <2>2 DEF ServersPolls, ServersPollIsOfTheRefs
  <2>4. panel'.result # None /\ panel'.pollFor # None => panel'.result = panel'.pollFor
    BY <1>2, <1>4, <1>6
  <2> QED
    BY <1>6, <2>1, <2>3, <2>4 DEF ServersPollInv
<1> QED
  BY <1>1, <1>6, <1>7, <1>8, <1>9, <1>10, <1>11, <1>12
  DEF ServersInv, Servers!TypeOK, ServersChanges, ServersModalIsOfAServer

-----------------------------------------------------------------------------
LEMMA ServersNext ==
  ASSUME ServersInv, [Servers!Next]_(Servers!vars)
  PROVE  ServersInv' /\ Servers!UpgradeIsAwaitedAction
<1>1. ASSUME NEW c \in Call, Servers!Continue(c) PROVE ServersInv'
  BY <1>1, ServersGeneratedKeeps, ServersGenerateFailsKeeps, ServersPollFiresKeeps,
     ServersPollFindsWorkerKeeps, ServersPollGoesOnKeeps, ServersPollRejectsKeeps, ServersSavedKeeps,
     ServersDeleteFailsKeeps, ServersDeleteAcceptedKeeps, ServersWatchEndsKeeps,
     ServersWatchGoesOnKeeps DEF Servers!Continue
<1>2. ASSUME NEW c \in Call,
             \/ Servers!GenerateWorkerInstallCommand(c) \/ Servers!Submit(c)
             \/ Servers!SubmitDeleteResource(c) \/ Servers!ReadPoll(c) \/ Servers!Continue(c)
      PROVE  ServersInv'
  BY <1>1, <1>2, ServersGenerateKeeps, ServersSubmitKeeps, ServersSubmitDeleteKeeps,
     ServersReadPollKeeps
<1>3. ASSUME NEW s \in Server,
             \/ Servers!OpenEdit(s) \/ Servers!OpenDeleteResource(s) \/ Servers!CleanupEnds(s)
             \/ Servers!OpenWorkerInstallApprovalPreview(s) \/ Servers!WorkerComesUp(s)
      PROVE  ServersInv'
  BY <1>3, ServersOpenKeeps, ServersHostKeeps, ServersOpenPreviewKeeps
<1>4. ASSUME Servers!Cancel \/ Servers!AutoClose PROVE ServersInv'
  BY <1>4, ServersCloseKeeps DEF Servers!Cancel, Servers!AutoClose
<1>5. ASSUME Servers!OpenAdd PROVE ServersInv'
  BY <1>5, ServersOpenKeeps
<1>6. ASSUME UNCHANGED Servers!vars PROVE ServersInv'
  BY <1>6 DEF Servers!vars, ServersInv, Servers!TypeOK, ServersModalIsOfAServer, ServersRowIsAimed,
     ServersPreviewInv, ServersTurnsInv, ServersPollInv, ServersPollIsOfTheRefs,
     Servers!HiddenRowIsWatched, ServersGenerates, ServersPolls, ServersWatches
<1>7. Servers!UpgradeIsAwaitedAction
  BY ServersPollFindsWorkerKeeps DEF Servers!UpgradeIsAwaitedAction
<1> QED
  BY <1>2, <1>3, <1>4, <1>5, <1>6, <1>7 DEF Servers!Next

LEMMA ServersHolds ==
  ASSUME ServersInv
  PROVE  Servers!PreviewIsOfItsServer /\ Servers!GenerationsTakeTurns /\ Servers!CommandIsKeptForItsWorker /\ Servers!HiddenRowIsWatched
<1>1. Servers!GenerationsTakeTurns
  <2> SUFFICES ASSUME ~panel.overlapped PROVE ~(Cardinality(Servers!Requested("generate")) > 1)
    BY ServersCardinality DEF Servers!GenerationsTakeTurns
  <2>1. \A b, c \in Servers!Requested("generate") : b = c
    BY DEF ServersInv, ServersTurnsInv, Servers!Requested, ServersGenerates
  <2> QED
    BY <2>1, AtMostOne
<1> QED
  BY <1>1 DEF ServersInv, ServersPreviewInv, Servers!PreviewIsOfItsServer, ServersPollInv,
     Servers!CommandIsKeptForItsWorker

-----------------------------------------------------------------------------
(* TransitRoutesPanel: the creation of a route. *)

LEMMA CreateIs ==
  None \notin Port \cup Create!Command /\ IsFiniteSet(Call) /\ MaxCommands \in Nat
BY TransitPanelsAssumption

\* The ports whose firewalls are confirmed, in one way or the other.
CreateConfirmed == panel.ticked \cup panel.kept

CreateFlowIs(c) ==
  ~Create!Free(c) =>
    /\ call[c].port \in Port /\ call[c].form \in Port /\ call[c].port \in CreateConfirmed
    /\ ~call[c].confirm => call[c].form = call[c].port
    /\ call[c].at = "preflight" => ~call[c].confirm
    /\ call[c].at \in {"wait", "refresh"} =>
         /\ call[c].command \in 1..MaxCommands
         /\ controller.commands[call[c].command] # None
         /\ controller.commands[call[c].command].port = call[c].port
    /\ call[c].at = "refresh" => controller.commands[call[c].command].status = "succeeded"

CreateFormIs ==
  /\ panel.firewall => panel.port \in CreateConfirmed
  /\ panel.context # None => panel.context \in CreateConfirmed
  /\ ~panel.open => panel.created = None /\ panel.export = None

CreateNumbered == \E n \in 0..MaxCommands : \A i \in 1..MaxCommands : controller.commands[i] # None <=> i <= n

\* Its one flow, and what the modal shows of it.
CreateOneFlow ==
  /\ \A b, c \in Call : ~Create!Free(b) /\ ~Create!Free(c) => b = c
  /\ \A c \in Call : ~Create!Free(c) => panel.step = "busy"

CreateFlowShown ==
  /\ panel.export # None => panel.step = "complete" /\ panel.created = panel.export
  /\ panel.step = "real_create_confirm" => panel.created = None
  /\ \A c \in Call : ~Create!Free(c) =>
       /\ IF call[c].at = "export" THEN panel.created = call[c].form ELSE panel.created = None
       /\ ~panel.edited => call[c].form = call[c].port

CreateModalIsOfItsFlow == panel.open /\ ~panel.overlapped => CreateOneFlow /\ CreateFlowShown

CreateInv ==
  /\ Create!TypeOK /\ \A c \in Call : CreateFlowIs(c)
  /\ CreateFormIs /\ CreateNumbered /\ CreateModalIsOfItsFlow /\ Create!FirewallWasConfirmed /\ Create!CreatedRouteIsNew

-----------------------------------------------------------------------------
LEMMA CreateNoCallIs == Create!NoCall \in Create!CallRow /\ Create!NoCall.at = "none"
BY CreateIs DEF Create!NoCall, Create!CallRow, Create!Method

LEMMA CreateInit == Create!Init => CreateInv
<1> SUFFICES ASSUME Create!Init PROVE CreateInv
  OBVIOUS
<1>1. PICK port \in Port, routes \in SUBSET Port :
       /\ panel = [open |-> FALSE, port |-> port, method |-> "socat", firewall |-> FALSE,
                   step |-> "idle", context |-> None, loading |-> FALSE, created |-> None,
                   export |-> None, routes |-> routes, ticked |-> {}, kept |-> {},
                   edited |-> FALSE, overlapped |-> FALSE]
       /\ controller = [routes |-> routes, commands |-> [i \in 1..MaxCommands |-> None]]
  BY DEF Create!Init
<1>2. call \in [Call -> Create!CallRow] /\ \A c \in Call : Create!Free(c)
  BY CreateNoCallIs DEF Create!Init, Create!Free
<1>3. panel \in Create!Panel /\ controller \in Create!Controller
  BY <1>1 DEF Create!Panel, Create!Controller, Create!Method, Create!Step
<1>4. CreateFormIs /\ Create!FirewallWasConfirmed /\ Create!CreatedRouteIsNew /\ CreateModalIsOfItsFlow
  BY <1>1 DEF CreateFormIs, Create!FirewallWasConfirmed, Create!CreatedRouteIsNew,
     CreateModalIsOfItsFlow
<1>5. CreateNumbered
  <2>1. 0 \in 0..MaxCommands /\ \A i \in 1..MaxCommands : controller.commands[i] # None <=> i <= 0
    BY <1>1, CreateIs
  <2> QED
    BY <2>1 DEF CreateNumbered
<1> QED
  BY <1>2, <1>3, <1>4, <1>5 DEF CreateInv, Create!TypeOK, CreateFlowIs

-----------------------------------------------------------------------------
(* The commands. *)

\* The instance has Cardinality under a name of its own.
LEMMA CreateCardinality == ASSUME NEW S PROVE Create!Cardinality(S) = Cardinality(S)
BY DEF Create!Cardinality, Cardinality

LEMMA CreateLastIs ==
  ASSUME Create!TypeOK, CreateNumbered
  PROVE  Create!Last \in 0..MaxCommands /\ \A i \in 1..MaxCommands : controller.commands[i] # None <=> i <= Create!Last
<1>1. PICK n \in 0..MaxCommands : \A i \in 1..MaxCommands : controller.commands[i] # None <=> i <= n
  BY DEF CreateNumbered
<1>2. {i \in 1..MaxCommands : controller.commands[i] # None} = 1..n
  BY <1>1, CreateIs
<1>3. Cardinality(1..n) = n
  BY FS_Interval
<1>4. Create!Last = n
  BY <1>2, <1>3, CreateCardinality DEF Create!Last
<1> QED
  BY <1>1, <1>4

\* A command that ends, or that is new, leaves what is known of the others.
CreateCommandsStay ==
  /\ controller' \in Create!Controller
  /\ \A i \in 1..MaxCommands : controller.commands[i] # None =>
       /\ controller'.commands[i] # None
       /\ controller'.commands[i].port = controller.commands[i].port
       /\ controller.commands[i].status = "succeeded" =>
            controller'.commands[i] = controller.commands[i]

LEMMA CreateUnchangedCommands ==
  ASSUME CreateInv, UNCHANGED controller
  PROVE  CreateCommandsStay /\ CreateNumbered' /\
         \A i \in 1..MaxCommands : controller'.commands[i] # None => controller.commands[i] # None
BY DEF CreateInv, Create!TypeOK, CreateCommandsStay, CreateNumbered

-----------------------------------------------------------------------------
(* The operator, and the commands, while no flow goes on. *)

LEMMA CreateFlowStays ==
  ASSUME CreateInv, CreateCommandsStay, NEW c \in Call, CreateFlowIs(c), call'[c] = call[c],
         CreateConfirmed \subseteq CreateConfirmed'
  PROVE  CreateFlowIs(c)'
BY DEF CreateInv, CreateCommandsStay, CreateFlowIs, Create!Free

LEMMA CreateNewRouteStays ==
  ASSUME CreateInv, CreateCommandsStay,
         panel'.created # None /\ ~panel'.edited /\ ~panel'.overlapped =>
           panel'.created = panel.created /\ ~panel.edited /\ ~panel.overlapped
  PROVE  Create!CreatedRouteIsNew'
<1> SUFFICES ASSUME panel'.created # None, ~panel'.edited, ~panel'.overlapped
             PROVE  \E i \in 1..MaxCommands :
                      controller'.commands[i] = [port |-> panel'.created, status |-> "succeeded"]
  BY DEF Create!CreatedRouteIsNew
<1>1. PICK i \in 1..MaxCommands :
        controller.commands[i] = [port |-> panel.created, status |-> "succeeded"]
  BY DEF CreateInv, Create!CreatedRouteIsNew
<1>2. controller.commands[i] # None
  BY <1>1, CreateIs DEF CreateInv, Create!TypeOK, Create!Panel, Create!Command
<1>3. controller'.commands[i] = controller.commands[i]
  BY <1>1, <1>2 DEF CreateCommandsStay
<1> QED
  BY <1>1, <1>3

LEMMA CreateFirewallStays ==
  ASSUME CreateInv, CreateCommandsStay, CreateConfirmed \subseteq CreateConfirmed',
         \A i \in 1..MaxCommands : controller'.commands[i] # None =>
           controller.commands[i] # None \/ controller'.commands[i].port \in CreateConfirmed
  PROVE  Create!FirewallWasConfirmed'
BY DEF CreateInv, CreateCommandsStay, Create!FirewallWasConfirmed, CreateConfirmed

LEMMA CreateEditKeeps ==
  ASSUME CreateInv, NEW port \in Port, NEW method \in Create!Method, Create!EditForm(port, method)
  PROVE  CreateInv'
<1> DEFINE kept == IF panel.firewall THEN panel.kept \cup {port} ELSE panel.kept
<1>1. /\ panel' = [panel EXCEPT !.port = port, !.method = method, !.kept = kept]
      /\ UNCHANGED <<call, controller>>
  BY DEF Create!EditForm, CreateInv, Create!TypeOK, Create!Panel
<1>2. /\ kept \in SUBSET Port /\ panel.kept \subseteq kept
      /\ panel.firewall => port \in kept
  BY DEF CreateInv, Create!TypeOK, Create!Panel
<1> HIDE DEF kept
<1>3. /\ panel' \in Create!Panel /\ panel'.port = port /\ panel'.kept = kept
      /\ panel'.open = panel.open /\ panel'.firewall = panel.firewall
      /\ panel'.step = panel.step /\ panel'.context = panel.context
      /\ panel'.created = panel.created /\ panel'.export = panel.export
      /\ panel'.ticked = panel.ticked /\ panel'.edited = panel.edited
      /\ panel'.overlapped = panel.overlapped
  BY <1>1, <1>2 DEF CreateInv, Create!TypeOK, Create!Panel
<1>4. CreateCommandsStay /\ CreateNumbered' /\ Create!FirewallWasConfirmed' /\ Create!CreatedRouteIsNew'
  BY <1>1, <1>2, <1>3, CreateUnchangedCommands, CreateFirewallStays, CreateNewRouteStays DEF
     CreateConfirmed
<1>5. CreateConfirmed \subseteq CreateConfirmed'
  BY <1>2, <1>3 DEF CreateConfirmed
<1>6. \A c \in Call : CreateFlowIs(c)'
  BY <1>1, <1>4, <1>5, CreateFlowStays DEF CreateInv
<1>7. CreateFormIs'
  BY <1>2, <1>3, <1>5 DEF CreateInv, CreateFormIs, CreateConfirmed
<1>8. CreateModalIsOfItsFlow'
  BY <1>1, <1>3 DEF CreateInv, CreateModalIsOfItsFlow, CreateOneFlow, CreateFlowShown, Create!Free
<1> QED
  BY <1>1, <1>3, <1>4, <1>6, <1>7, <1>8 DEF CreateInv, Create!TypeOK

LEMMA CreateFirewallKeeps == ASSUME CreateInv, Create!ConfirmFirewall PROVE CreateInv'
<1>1. /\ panel' = [panel EXCEPT !.firewall = TRUE, !.ticked = panel.ticked \cup {panel.port}]
      /\ UNCHANGED <<call, controller>>
  BY DEF Create!ConfirmFirewall, CreateInv, Create!TypeOK, Create!Panel
<1>3. /\ panel' \in Create!Panel /\ panel'.port = panel.port /\ panel'.kept = panel.kept
      /\ panel'.open = panel.open
      /\ panel'.step = panel.step /\ panel'.context = panel.context
      /\ panel'.created = panel.created /\ panel'.export = panel.export
      /\ panel'.ticked = panel.ticked \cup {panel.port} /\ panel'.edited = panel.edited
      /\ panel'.overlapped = panel.overlapped
  BY <1>1 DEF CreateInv, Create!TypeOK, Create!Panel
<1>4. CreateCommandsStay /\ CreateNumbered' /\ Create!FirewallWasConfirmed' /\ Create!CreatedRouteIsNew'
  BY <1>1, <1>3, CreateUnchangedCommands, CreateFirewallStays, CreateNewRouteStays DEF
     CreateConfirmed
<1>5. CreateConfirmed \subseteq CreateConfirmed'
  BY <1>3 DEF CreateConfirmed
<1>6. \A c \in Call : CreateFlowIs(c)'
  BY <1>1, <1>4, <1>5, CreateFlowStays DEF CreateInv
<1>7. CreateFormIs'
  BY <1>3, <1>5 DEF CreateInv, CreateFormIs, CreateConfirmed
<1>8. CreateModalIsOfItsFlow'
  BY <1>1, <1>3 DEF CreateInv, CreateModalIsOfItsFlow, CreateOneFlow, CreateFlowShown, Create!Free
<1> QED
  BY <1>1, <1>3, <1>4, <1>6, <1>7, <1>8 DEF CreateInv, Create!TypeOK

\* Whoever opens or closes the modal starts afresh.
LEMMA CreateModalKeeps ==
  ASSUME CreateInv, Create!OpenCreateRouteModal \/ Create!CloseCreateRouteModal
  PROVE  CreateInv'
<1> DEFINE over == \E c \in Call : ~Create!Free(c)
           p == Create!Fresh(panel)
<1>1. UNCHANGED <<call, controller>>
  BY DEF Create!OpenCreateRouteModal, Create!CloseCreateRouteModal
<1>2. /\ p \in Create!Panel /\ p.ticked = panel.ticked /\ p.kept = panel.kept
      /\ p.step = "idle" /\ p.context = None /\ p.created = None /\ p.export = None
  BY DEF Create!Fresh, CreateInv, Create!TypeOK, Create!Panel, Create!Step
<1> DEFINE Afresh ==
             /\ panel' \in Create!Panel /\ ~panel'.firewall
             /\ panel'.open => panel'.overlapped = over
             /\ panel'.step = "idle" /\ panel'.context = None
             /\ panel'.created = None /\ panel'.export = None
             /\ panel'.ticked = panel.ticked /\ panel'.kept = panel.kept
<1>3. ASSUME Create!OpenCreateRouteModal PROVE Afresh
  <2> DEFINE opened == [p EXCEPT !.open = TRUE, !.firewall = FALSE, !.edited = FALSE]
  <2>1. panel' = [opened EXCEPT !.overlapped = over] /\ over \in BOOLEAN
    BY <1>3 DEF Create!OpenCreateRouteModal
  <2> HIDE DEF over, p
  <2>2. /\ opened \in Create!Panel /\ opened.open /\ ~opened.firewall /\ opened.step = "idle"
        /\ opened.context = None /\ opened.created = None /\ opened.export = None
        /\ opened.ticked = panel.ticked /\ opened.kept = panel.kept
    BY <1>2 DEF Create!Panel
  <2> HIDE DEF opened
  <2> QED
    BY <2>1, <2>2 DEF Create!Panel
<1>4. ASSUME Create!CloseCreateRouteModal PROVE Afresh
  <2>1. PICK routes \in SUBSET Port :
          panel' = [p EXCEPT !.open = FALSE, !.firewall = FALSE, !.edited = FALSE,
                             !.overlapped = FALSE, !.routes = routes]
    BY <1>4 DEF Create!CloseCreateRouteModal, CreateInv, Create!TypeOK, Create!Panel,
       Create!Controller
  <2> HIDE DEF p
  <2> QED
    BY <1>2, <2>1 DEF Create!Panel
<1>5. Afresh
  BY <1>3, <1>4
<1> HIDE DEF over, p
<1>6. CreateCommandsStay /\ CreateNumbered' /\ Create!FirewallWasConfirmed' /\ Create!CreatedRouteIsNew'
  BY <1>1, <1>5, CreateUnchangedCommands, CreateFirewallStays, CreateNewRouteStays DEF
     CreateConfirmed
<1>7. \A c \in Call : CreateFlowIs(c)'
  BY <1>1, <1>5, <1>6, CreateFlowStays DEF CreateInv, CreateConfirmed
<1>8. CreateFormIs' /\ CreateModalIsOfItsFlow'
  BY <1>1, <1>5 DEF CreateFormIs, CreateModalIsOfItsFlow, CreateOneFlow, CreateFlowShown,
     Create!Free, over
<1> QED
  BY <1>1, <1>5, <1>6, <1>7, <1>8 DEF CreateInv, Create!TypeOK

LEMMA CreateCommandEndsKeeps ==
  ASSUME CreateInv, NEW i \in 1..MaxCommands, Create!CommandEnds(i)
  PROVE  CreateInv'
<1>1. /\ UNCHANGED <<panel, call>> /\ controller.commands[i] # None
      /\ controller.commands[i].status = "running"
  BY DEF Create!CommandEnds
<1>2. PICK status \in {"failed", "succeeded"}, routes \in SUBSET Port :
        controller' = [controller EXCEPT
                         !.commands = [controller.commands EXCEPT ![i].status = status],
                         !.routes = routes]
  <2>1. CASE controller' = [controller EXCEPT !.commands[i].status = "failed"]
    <3>1. controller' = [controller EXCEPT
                           !.commands = [controller.commands EXCEPT ![i].status = "failed"],
                           !.routes = controller.routes]
      BY <2>1 DEF CreateInv, Create!TypeOK, Create!Controller
    <3> QED
      BY <3>1 DEF CreateInv, Create!TypeOK, Create!Controller
  <2>2. CASE controller' = [controller EXCEPT
                              !.commands[i].status = "succeeded",
                              !.routes = @ \cup {controller.commands[i].port}]
    <3> DEFINE routes == controller.routes \cup {controller.commands[i].port}
    <3>1. controller' = [controller EXCEPT
                           !.commands = [controller.commands EXCEPT ![i].status = "succeeded"],
                           !.routes = routes]
      BY <2>2 DEF CreateInv, Create!TypeOK, Create!Controller
    <3>2. routes \in SUBSET Port
      BY <1>1 DEF CreateInv, Create!TypeOK, Create!Controller, Create!Command
    <3> HIDE DEF routes
    <3> QED
      BY <3>1, <3>2
  <2> QED
    BY <2>1, <2>2 DEF Create!CommandEnds
<1> DEFINE commands == [controller.commands EXCEPT ![i].status = status]
<1>3. /\ commands \in [1..MaxCommands -> Create!Command \cup {None}]
      /\ commands[i] # None /\ commands[i].port = controller.commands[i].port
      /\ \A j \in (1..MaxCommands) \ {i} : commands[j] = controller.commands[j]
  BY <1>1, CreateIs DEF CreateInv, Create!TypeOK, Create!Controller, Create!Command
<1> HIDE DEF commands
<1>4. controller' \in Create!Controller /\ controller'.commands = commands
  BY <1>2, <1>3 DEF CreateInv, Create!TypeOK, Create!Controller, commands
<1>5. CreateCommandsStay
  BY <1>1, <1>3, <1>4 DEF CreateCommandsStay
<1>6. CreateNumbered'
  BY <1>1, <1>3, <1>4 DEF CreateInv, CreateNumbered
<1>7. \A c \in Call : CreateFlowIs(c)'
  BY <1>1, <1>5, CreateFlowStays DEF CreateInv, CreateConfirmed
<1>8. Create!FirewallWasConfirmed'
  BY <1>1, <1>3, <1>4, <1>5, CreateFirewallStays DEF CreateConfirmed
<1>9. Create!CreatedRouteIsNew'
  BY <1>1, <1>5, CreateNewRouteStays
<1>10. CreateFormIs' /\ CreateModalIsOfItsFlow'
  BY <1>1 DEF CreateInv, CreateFormIs, CreateModalIsOfItsFlow, CreateOneFlow, CreateFlowShown,
     Create!Free, CreateConfirmed
<1> QED
  BY <1>1, <1>4, <1>6, <1>7, <1>8, <1>9, <1>10 DEF CreateInv, Create!TypeOK

-----------------------------------------------------------------------------
(* The flows. *)

LEMMA CreateSubmitKeeps ==
  ASSUME CreateInv, NEW c \in Call, Create!SubmitSimplifiedTransitRouteCreate(c)
  PROVE  CreateInv'
<1> DEFINE row == [Create!NoCall EXCEPT !.at = "preflight", !.port = panel.port,
                                        !.form = panel.port, !.method = panel.method]
<1>1. /\ panel.open /\ panel.step \in {"idle", "failed"} /\ panel.firewall /\ Create!Free(c)
      /\ call' = [call EXCEPT ![c] = row] /\ UNCHANGED controller
      /\ panel' = [Create!Fresh(panel) EXCEPT !.step = "busy"]
  BY DEF Create!SubmitSimplifiedTransitRouteCreate, Create!CreateReady
<1>2. /\ row \in Create!CallRow /\ row.at = "preflight" /\ row.port = panel.port
      /\ row.form = panel.port /\ row.confirm = FALSE
  BY CreateNoCallIs DEF CreateInv, Create!TypeOK, Create!Panel, Create!CallRow, Create!NoCall
<1> HIDE DEF row
<1>3. /\ panel' \in Create!Panel /\ panel'.step = "busy" /\ panel'.context = None
      /\ panel'.created = None /\ panel'.export = None /\ panel'.port = panel.port
      /\ panel'.open = panel.open /\ panel'.firewall = panel.firewall
      /\ panel'.ticked = panel.ticked /\ panel'.kept = panel.kept
      /\ panel'.overlapped = panel.overlapped /\ panel'.edited = panel.edited
  BY <1>1 DEF Create!Fresh, CreateInv, Create!TypeOK, Create!Panel, Create!Step
<1>4. /\ call' \in [Call -> Create!CallRow] /\ call'[c] = row
      /\ \A b \in Call \ {c} : call'[b] = call[b]
  BY <1>1, <1>2 DEF CreateInv, Create!TypeOK
<1>5. CreateCommandsStay /\ CreateNumbered' /\ Create!FirewallWasConfirmed' /\ Create!CreatedRouteIsNew'
  BY <1>1, <1>3, CreateUnchangedCommands, CreateFirewallStays, CreateNewRouteStays DEF
     CreateConfirmed
<1>6. \A b \in Call : CreateFlowIs(b)'
  <2>1. CreateFlowIs(c)'
    BY <1>1, <1>2, <1>3, <1>4 DEF CreateInv, Create!TypeOK, Create!Panel, CreateFormIs,
       CreateFlowIs, CreateConfirmed
  <2>2. \A b \in Call \ {c} : CreateFlowIs(b)'
    BY <1>3, <1>4, <1>5, CreateFlowStays DEF CreateInv, CreateConfirmed
  <2> QED
    BY <2>1, <2>2
<1>7. CreateFormIs'
  BY <1>1, <1>3 DEF CreateInv, CreateFormIs, CreateConfirmed
<1>8. CreateModalIsOfItsFlow'
  <2> SUFFICES ASSUME ~panel.overlapped PROVE CreateOneFlow' /\ CreateFlowShown'
    BY <1>3 DEF CreateModalIsOfItsFlow
  <2>1. \A b \in Call : Create!Free(b)
    BY <1>1 DEF CreateInv, CreateModalIsOfItsFlow, CreateOneFlow
  <2>2. \A b \in Call : ~Create!Free(b)' => b = c
    BY <1>4, <2>1 DEF Create!Free
  <2> QED
    BY <1>2, <1>3, <1>4, <2>2 DEF CreateOneFlow, CreateFlowShown
<1> QED
  BY <1>1, <1>3, <1>4, <1>5, <1>6, <1>7, <1>8 DEF CreateInv, Create!TypeOK

LEMMA CreateConfirmKeeps ==
  ASSUME CreateInv, NEW c \in Call, Create!ConfirmHaproxyRealCreate(c)
  PROVE  CreateInv'
<1> DEFINE row == [Create!NoCall EXCEPT !.at = "execute", !.port = panel.context,
                                        !.form = panel.port, !.method = panel.method,
                                        !.confirm = TRUE]
           edited == <<panel.port, panel.method>> # <<panel.context, "haproxy_tcp">>
<1>1. /\ panel.open /\ panel.step = "real_create_confirm" /\ panel.context # None /\ Create!Free(c)
      /\ call' = [call EXCEPT ![c] = row] /\ UNCHANGED controller
      /\ panel' = [panel EXCEPT !.step = "busy", !.loading = TRUE, !.edited = edited]
  BY DEF Create!ConfirmHaproxyRealCreate, Create!ConfirmOffered, Create!ContextShown
<1>2. /\ row \in Create!CallRow /\ row.at = "execute" /\ row.port = panel.context
      /\ row.form = panel.port /\ row.confirm = TRUE
  BY CreateNoCallIs DEF CreateInv, Create!TypeOK, Create!Panel, Create!CallRow, Create!NoCall
<1>3. edited \in BOOLEAN /\ (~edited => panel.port = panel.context)
  OBVIOUS
<1> HIDE DEF row, edited
<1>4. /\ panel' \in Create!Panel /\ panel'.step = "busy" /\ panel'.context = panel.context
      /\ panel'.created = panel.created /\ panel'.export = panel.export
      /\ panel'.port = panel.port
      /\ panel'.open = panel.open /\ panel'.firewall = panel.firewall
      /\ panel'.ticked = panel.ticked /\ panel'.kept = panel.kept
      /\ panel'.overlapped = panel.overlapped /\ panel'.edited = edited
  BY <1>1, <1>3 DEF CreateInv, Create!TypeOK, Create!Panel, Create!Step
<1>5. /\ call' \in [Call -> Create!CallRow] /\ call'[c] = row
      /\ \A b \in Call \ {c} : call'[b] = call[b]
  BY <1>1, <1>2 DEF CreateInv, Create!TypeOK
<1>6. ~panel.overlapped => panel.created = None /\ panel.export = None
  BY <1>1 DEF CreateInv, CreateModalIsOfItsFlow, CreateFlowShown
<1>7. CreateCommandsStay /\ CreateNumbered' /\ Create!FirewallWasConfirmed' /\ Create!CreatedRouteIsNew'
  BY <1>1, <1>4, <1>6, CreateUnchangedCommands, CreateFirewallStays, CreateNewRouteStays DEF
     CreateConfirmed
<1>8. \A b \in Call : CreateFlowIs(b)'
  <2>1. CreateFlowIs(c)'
    BY <1>1, <1>2, <1>4, <1>5 DEF CreateInv, Create!TypeOK, Create!Panel, CreateFormIs,
       CreateFlowIs, CreateConfirmed
  <2>2. \A b \in Call \ {c} : CreateFlowIs(b)'
    BY <1>4, <1>5, <1>7, CreateFlowStays DEF CreateInv, CreateConfirmed
  <2> QED
    BY <2>1, <2>2
<1>9. CreateFormIs'
  BY <1>1, <1>4 DEF CreateInv, CreateFormIs, CreateConfirmed
<1>10. CreateModalIsOfItsFlow'
  <2> SUFFICES ASSUME ~panel.overlapped PROVE CreateOneFlow' /\ CreateFlowShown'
    BY <1>4 DEF CreateModalIsOfItsFlow
  <2>1. \A b \in Call : Create!Free(b)
    BY <1>1 DEF CreateInv, CreateModalIsOfItsFlow, CreateOneFlow
  <2>2. \A b \in Call : ~Create!Free(b)' => b = c
    BY <1>5, <2>1 DEF Create!Free
  <2> QED
    BY <1>2, <1>3, <1>4, <1>5, <1>6, <2>2 DEF CreateOneFlow, CreateFlowShown
<1> QED
  BY <1>1, <1>4, <1>5, <1>7, <1>8, <1>9, <1>10 DEF CreateInv, Create!TypeOK

\* What a flow that goes on as "row" shows, in a modal that is open.
CreateModalShows(c, row) ==
  \/ ~panel.open /\ panel'.created = panel.created /\ panel'.export = panel.export
  \/ /\ panel.open
     /\ \/ /\ row.at \in {"preflight", "execute", "wait", "refresh"} /\ panel'.step = "busy"
           /\ call[c].at # "export"
           /\ panel'.created = panel.created /\ panel'.export = panel.export
        \/ /\ row.at = "none" /\ panel'.step = "failed"
           /\ panel'.created = panel.created /\ panel'.export = panel.export
        \/ /\ row.at = "none" /\ panel'.step = "real_create_confirm" /\ call[c].at = "preflight"
           /\ panel'.created = panel.created /\ panel'.export = panel.export
        \/ /\ row.at = "none" /\ panel'.step = "complete" /\ call[c].at = "export"
           /\ panel'.created = panel.created /\ panel'.export = call[c].form
        \/ /\ row.at = "export" /\ panel'.step = "busy" /\ call[c].at = "refresh"
           /\ panel'.created = call[c].form /\ panel'.export = panel.export

\* A flow goes on, or ends, and shows what it has found in its modal.
LEMMA CreateFlowGoesOn ==
  ASSUME CreateInv, CreateCommandsStay, CreateNumbered', Create!FirewallWasConfirmed',
         NEW c \in Call, ~Create!Free(c), NEW row \in Create!CallRow, call' = [call EXCEPT ![c] = row],
         CreateFlowIs(c)', panel' \in Create!Panel,
         panel'.open = panel.open, panel'.overlapped = panel.overlapped,
         panel'.port = panel.port, panel'.firewall = panel.firewall,
         panel'.ticked = panel.ticked, panel'.kept = panel.kept, panel'.edited = panel.edited,
         panel'.context \in {panel.context, call[c].port},
         row.at # "none" => row.form = call[c].form /\ row.port = call[c].port,
         CreateModalShows(c, row)
  PROVE  CreateInv'
<1>1. /\ call' \in [Call -> Create!CallRow] /\ call'[c] = row
      /\ \A b \in Call \ {c} : call'[b] = call[b]
  BY DEF CreateInv, Create!TypeOK
<1>2. \A b \in Call : CreateFlowIs(b)'
  <2>1. \A b \in Call \ {c} : CreateFlowIs(b)'
    BY <1>1, CreateFlowStays DEF CreateInv, CreateConfirmed
  <2> QED
    BY <2>1
<1>3. CreateFormIs'
  BY DEF CreateInv, CreateFormIs, CreateFlowIs, CreateConfirmed, CreateModalShows
<1>4. CreateModalIsOfItsFlow'
  <2> SUFFICES ASSUME panel.open, ~panel.overlapped PROVE CreateOneFlow' /\ CreateFlowShown'
    BY DEF CreateModalIsOfItsFlow
  <2>1. /\ CreateOneFlow /\ CreateFlowShown /\ panel.step = "busy" /\ panel.export = None
        /\ \A b \in Call : ~Create!Free(b) => b = c
    BY DEF CreateInv, CreateModalIsOfItsFlow, CreateOneFlow, CreateFlowShown
  <2>2. \A b \in Call : ~Create!Free(b)' => b = c /\ row.at # "none"
    BY <1>1, <2>1 DEF Create!Free, CreateModalShows
  <2>3. CreateOneFlow'
    BY <2>2 DEF CreateOneFlow, CreateModalShows
  <2>4. IF call[c].at = "export" THEN panel.created = call[c].form ELSE panel.created = None
    BY <2>1 DEF CreateFlowShown
  <2>5. panel'.export # None => panel'.step = "complete" /\ panel'.created = panel'.export
    BY <2>1, <2>4 DEF CreateModalShows
  <2>6. panel'.step = "real_create_confirm" => panel'.created = None
    BY <2>1, <2>4 DEF CreateModalShows
  <2>7. row.at # "none" =>
          IF row.at = "export" THEN panel'.created = row.form ELSE panel'.created = None
    BY <2>1, <2>4 DEF CreateModalShows
  <2>8. ~panel.edited => call[c].form = call[c].port
    BY <2>1 DEF CreateFlowShown
  <2> QED
    BY <1>1, <2>2, <2>3, <2>5, <2>6, <2>7, <2>8 DEF CreateFlowShown
<1>5. Create!CreatedRouteIsNew'
  <2>1. CASE panel'.created = panel.created
    BY <2>1, CreateNewRouteStays
  <2>2. CASE panel.open /\ call[c].at = "refresh" /\ panel'.created = call[c].form
    <3> SUFFICES ASSUME ~panel.edited, ~panel.overlapped
                 PROVE  \E i \in 1..MaxCommands :
                          controller'.commands[i] = [port |-> panel'.created, status |-> "succeeded"]
      BY DEF Create!CreatedRouteIsNew
    <3> DEFINE i == call[c].command
    <3>1. call[c].form = call[c].port
      BY <2>2 DEF CreateInv, CreateModalIsOfItsFlow, CreateFlowShown
    <3>2. /\ i \in 1..MaxCommands /\ controller.commands[i] # None
          /\ controller.commands[i].port = call[c].port
          /\ controller.commands[i].status = "succeeded"
      BY <2>2 DEF CreateInv, CreateFlowIs
    <3> HIDE DEF i
    <3>3. controller.commands[i] = [port |-> call[c].port, status |-> "succeeded"]
      BY <3>2 DEF CreateInv, Create!TypeOK, Create!Controller, Create!Command
    <3>4. controller'.commands[i] = controller.commands[i]
      BY <3>2 DEF CreateCommandsStay
    <3> QED
      BY <2>2, <3>1, <3>2, <3>3, <3>4
  <2> QED
    BY <2>1, <2>2 DEF CreateModalShows
<1> QED
  BY <1>1, <1>2, <1>3, <1>4, <1>5 DEF CreateInv, CreateCommandsStay, Create!TypeOK
\* What every step of a flow leaves alone.
CreateFormStays ==
  /\ panel' \in Create!Panel
  /\ panel'.open = panel.open /\ panel'.overlapped = panel.overlapped
  /\ panel'.port = panel.port /\ panel'.firewall = panel.firewall
  /\ panel'.ticked = panel.ticked /\ panel'.kept = panel.kept /\ panel'.edited = panel.edited

LEMMA CreateFailsKeeps ==
  ASSUME CreateInv, CreateCommandsStay, CreateNumbered', Create!FirewallWasConfirmed',
         NEW c \in Call, ~Create!Free(c), Create!Finish(c), NEW routes \in SUBSET Port,
         panel' = [Create!Shows(Create!Settled([panel EXCEPT !.step = "failed"], c)) EXCEPT !.routes = routes]
  PROVE  CreateInv'
<1>1. /\ CreateFormStays /\ panel'.context = panel.context
      /\ panel'.created = panel.created /\ panel'.export = panel.export
      /\ panel.open => panel'.step = "failed"
  BY ZenonT(40) DEF CreateFormStays, Create!Shows, Create!Settled, CreateInv, Create!TypeOK, Create!Panel,
     Create!Step
<1>2. call' = [call EXCEPT ![c] = Create!NoCall] /\ CreateFlowIs(c)'
  BY CreateNoCallIs DEF Create!Finish, CreateFlowIs, Create!Free, CreateInv, Create!TypeOK
<1>3. CreateModalShows(c, Create!NoCall)
  BY <1>1, CreateNoCallIs DEF CreateModalShows
<1> QED
  BY <1>1, <1>2, <1>3, CreateNoCallIs, CreateFlowGoesOn DEF CreateFormStays

LEMMA CreateFailsKeepsTheList ==
  ASSUME CreateInv, CreateCommandsStay, CreateNumbered', Create!FirewallWasConfirmed',
         NEW c \in Call, ~Create!Free(c), Create!Fails(c)
  PROVE  CreateInv'
<1> DEFINE p == Create!Shows(Create!Settled([panel EXCEPT !.step = "failed"], c))
<1>1. p \in Create!Panel /\ p.routes = panel.routes /\ panel' = p /\ Create!Finish(c)
  BY DEF Create!Fails, Create!Shows, Create!Settled, CreateInv, Create!TypeOK, Create!Panel,
     Create!Step
<1>2. panel' = [p EXCEPT !.routes = panel.routes]
  <2> HIDE DEF p
  <2> QED
    BY <1>1 DEF Create!Panel
<1> QED
  BY <1>1, <1>2, CreateFailsKeeps DEF CreateInv, Create!TypeOK, Create!Panel

LEMMA CreateGoesToKeeps ==
  ASSUME CreateInv, CreateCommandsStay, CreateNumbered', Create!FirewallWasConfirmed',
         NEW c \in Call, NEW row \in Create!CallRow,
         call[c].at \in {"preflight", "execute", "wait"},
         row.at \in {"preflight", "execute", "wait", "refresh"},
         call' = [call EXCEPT ![c] = row], CreateFlowIs(c)',
         row.form = call[c].form, row.port = call[c].port,
         panel' = Create!Shows([panel EXCEPT !.step = "busy"])
  PROVE  CreateInv'
<1>1. /\ CreateFormStays /\ panel'.context = panel.context
      /\ panel'.created = panel.created /\ panel'.export = panel.export
      /\ panel.open => panel'.step = "busy"
  BY DEF CreateFormStays, Create!Shows, CreateInv, Create!TypeOK, Create!Panel, Create!Step
<1>2. CreateModalShows(c, row)
  BY <1>1 DEF CreateModalShows
<1>3. ~Create!Free(c)
  BY DEF Create!Free
<1> QED
  BY <1>1, <1>2, <1>3, CreateFlowGoesOn DEF CreateFormStays

LEMMA CreatePreflightKeeps ==
  ASSUME CreateInv, NEW c \in Call, Create!PreflightAnswered(c) PROVE CreateInv'
<1>1. call[c].at = "preflight" /\ UNCHANGED controller /\ ~Create!Free(c)
  BY DEF Create!PreflightAnswered, Create!Free
<1>2. CreateCommandsStay /\ CreateNumbered'
  BY <1>1, CreateUnchangedCommands
<1>3. /\ call[c].port \in Port /\ call[c].port \in CreateConfirmed /\ CreateFlowIs(c)
      /\ call[c] \in Create!CallRow
  BY <1>1 DEF CreateInv, Create!TypeOK, CreateFlowIs
<1>4. panel'.ticked = panel.ticked /\ panel'.kept = panel.kept => Create!FirewallWasConfirmed'
  BY <1>1, <1>2, CreateUnchangedCommands, CreateFirewallStays DEF CreateConfirmed
<1>5. CASE Create!GoesTo(c, "execute")
  <2> DEFINE row == [call[c] EXCEPT !.at = "execute"]
  <2>1. call' = [call EXCEPT ![c] = row] /\ panel' = Create!Shows([panel EXCEPT !.step = "busy"])
    BY <1>5 DEF Create!GoesTo
  <2>2. /\ row \in Create!CallRow /\ row.at = "execute" /\ row.form = call[c].form
        /\ row.port = call[c].port /\ row.confirm = call[c].confirm
    BY <1>3 DEF Create!CallRow
  <2> HIDE DEF row
  <2>3. panel'.ticked = panel.ticked /\ panel'.kept = panel.kept
    BY <2>1 DEF Create!Shows, CreateInv, Create!TypeOK, Create!Panel
  <2>4. call'[c] = row
    BY <2>1 DEF CreateInv, Create!TypeOK
  <2>5. CreateFlowIs(c)'
    BY <1>1, <1>3, <2>2, <2>3, <2>4 DEF CreateFlowIs, Create!Free, CreateConfirmed
  <2> QED
    BY <1>1, <1>2, <1>4, <2>1, <2>2, <2>3, <2>5, CreateGoesToKeeps
<1>6. CASE /\ panel' = Create!Shows([panel EXCEPT !.context = call[c].port, !.step = "real_create_confirm"])
           /\ Create!Finish(c)
  <2>1. /\ CreateFormStays /\ panel'.context \in {panel.context, call[c].port}
        /\ panel'.created = panel.created /\ panel'.export = panel.export
        /\ panel.open => panel'.step = "real_create_confirm"
    BY <1>3, <1>6 DEF CreateFormStays, Create!Shows, CreateInv, Create!TypeOK, Create!Panel,
       Create!Step
  <2>2. call' = [call EXCEPT ![c] = Create!NoCall] /\ CreateFlowIs(c)'
    BY <1>6, CreateNoCallIs DEF Create!Finish, CreateFlowIs, Create!Free, CreateInv, Create!TypeOK
  <2>3. CreateModalShows(c, Create!NoCall)
    BY <1>1, <2>1, CreateNoCallIs DEF CreateModalShows
  <2> QED
    BY <1>1, <1>2, <1>4, <2>1, <2>2, <2>3, CreateNoCallIs, CreateFlowGoesOn DEF CreateFormStays
<1>7. CASE panel' = Create!Shows([panel EXCEPT !.step = "busy"]) /\ UNCHANGED call
  <2>1. panel'.ticked = panel.ticked /\ panel'.kept = panel.kept
    BY <1>7 DEF Create!Shows, CreateInv, Create!TypeOK, Create!Panel
  <2>2. call' = [call EXCEPT ![c] = call[c]]
    BY <1>7 DEF CreateInv, Create!TypeOK
  <2>3. CreateFlowIs(c)'
    BY <1>2, <1>3, <1>7, <2>1, CreateFlowStays DEF CreateConfirmed
  <2> QED
    BY <1>1, <1>2, <1>3, <1>4, <1>7, <2>1, <2>2, <2>3, CreateGoesToKeeps
<1>8. CASE Create!Fails(c)
  <2>1. panel'.ticked = panel.ticked /\ panel'.kept = panel.kept
    BY <1>8 DEF Create!Fails, Create!Shows, Create!Settled, CreateInv, Create!TypeOK, Create!Panel
  <2> QED
    BY <1>1, <1>2, <1>4, <1>8, <2>1, CreateFailsKeepsTheList
<1> QED
  BY <1>5, <1>6, <1>7, <1>8 DEF Create!PreflightAnswered

LEMMA CreatePolledKeeps ==
  ASSUME CreateInv, NEW c \in Call, Create!CommandPolled(c) PROVE CreateInv'
<1>1. call[c].at = "wait" /\ UNCHANGED controller /\ ~Create!Free(c)
  BY DEF Create!CommandPolled, Create!Free
<1>2. CreateCommandsStay /\ CreateNumbered'
  BY <1>1, CreateUnchangedCommands
<1>3. CreateFlowIs(c) /\ call[c] \in Create!CallRow
  BY <1>1 DEF CreateInv, Create!TypeOK
<1>4. panel'.ticked = panel.ticked /\ panel'.kept = panel.kept => Create!FirewallWasConfirmed'
  BY <1>1, <1>2, CreateUnchangedCommands, CreateFirewallStays DEF CreateConfirmed
<1>5. ASSUME NEW at \in {"wait", "refresh"}, Create!GoesTo(c, at),
             at = "refresh" => controller.commands[call[c].command].status = "succeeded"
      PROVE  CreateInv'
  <2> DEFINE row == [call[c] EXCEPT !.at = at]
  <2>1. call' = [call EXCEPT ![c] = row] /\ panel' = Create!Shows([panel EXCEPT !.step = "busy"])
    BY <1>5 DEF Create!GoesTo
  <2>2. /\ row \in Create!CallRow /\ row.at = at /\ row.form = call[c].form
        /\ row.port = call[c].port /\ row.confirm = call[c].confirm
        /\ row.command = call[c].command
    BY <1>3 DEF Create!CallRow
  <2> HIDE DEF row
  <2>3. panel'.ticked = panel.ticked /\ panel'.kept = panel.kept
    BY <2>1 DEF Create!Shows, CreateInv, Create!TypeOK, Create!Panel
  <2>4. call'[c] = row
    BY <2>1 DEF CreateInv, Create!TypeOK
  <2>5. CreateFlowIs(c)'
    BY <1>1, <1>3, <1>5, <2>2, <2>3, <2>4 DEF CreateFlowIs, Create!Free, CreateConfirmed
  <2> QED
    BY <1>1, <1>2, <1>4, <2>1, <2>2, <2>3, <2>5, CreateGoesToKeeps
<1>6. CASE Create!Fails(c)
  <2>1. panel'.ticked = panel.ticked /\ panel'.kept = panel.kept
    BY <1>6 DEF Create!Fails, Create!Shows, Create!Settled, CreateInv, Create!TypeOK, Create!Panel
  <2> QED
    BY <1>1, <1>2, <1>4, <1>6, <2>1, CreateFailsKeepsTheList
<1> QED
  BY <1>5, <1>6 DEF Create!CommandPolled

LEMMA CreatedKeeps == ASSUME CreateInv, NEW c \in Call, Create!CommandCreated(c) PROVE CreateInv'
<1>1. call[c].at = "execute" /\ ~Create!Free(c)
  BY DEF Create!CommandCreated, Create!Free
<1>2. CreateFlowIs(c) /\ call[c] \in Create!CallRow /\ call[c].port \in Port /\ call[c].port \in CreateConfirmed
  BY <1>1 DEF CreateInv, Create!TypeOK, CreateFlowIs
<1>3. ASSUME Create!Fails(c) PROVE panel'.ticked = panel.ticked /\ panel'.kept = panel.kept
  BY <1>3 DEF Create!Fails, Create!Shows, Create!Settled, CreateInv, Create!TypeOK, Create!Panel
<1>4. CASE Create!Fails(c) /\ UNCHANGED controller
  <2>1. CreateCommandsStay /\ CreateNumbered' /\ Create!FirewallWasConfirmed'
    BY <1>3, <1>4, CreateUnchangedCommands, CreateFirewallStays DEF CreateConfirmed
  <2> QED
    BY <1>1, <1>4, <2>1, CreateFailsKeepsTheList
<1>5. CASE /\ Create!Last < MaxCommands
           /\ controller' = [controller EXCEPT
                               !.commands[Create!Last + 1] = [port |-> call[c].port, status |-> "running"]]
           /\ \/ Create!Fails(c)
              \/ /\ call' = [call EXCEPT ![c].at = "wait", ![c].command = Create!Last + 1]
                 /\ panel' = Create!Shows([panel EXCEPT !.step = "busy"])
  <2> DEFINE n == Create!Last + 1
             command == [port |-> call[c].port, status |-> "running"]
             commands == [controller.commands EXCEPT ![n] = command]
  <2>1. /\ n \in 1..MaxCommands /\ controller.commands[n] = None
        /\ \A i \in 1..MaxCommands : controller.commands[i] # None <=> i < n
    <3> HIDE DEF Create!Last
    <3>1. Create!Last \in 0..MaxCommands /\ \A i \in 1..MaxCommands : controller.commands[i] # None <=> i <= Create!Last
      BY CreateLastIs DEF CreateInv
    <3>2. n \in 1..MaxCommands
      BY <1>5, <3>1, CreateIs
    <3> QED
      BY <3>1, <3>2, CreateIs
  <2> HIDE DEF n
  <2>2. command \in Create!Command /\ command # None
    BY <1>2, CreateIs DEF Create!Command
  <2>3. controller' = [controller EXCEPT !.commands = commands]
    BY <1>5 DEF n, CreateInv, Create!TypeOK, Create!Controller
  <2>4. /\ commands \in [1..MaxCommands -> Create!Command \cup {None}] /\ commands[n] = command
        /\ \A i \in (1..MaxCommands) \ {n} : commands[i] = controller.commands[i]
    BY <2>1, <2>2 DEF CreateInv, Create!TypeOK, Create!Controller
  <2> HIDE DEF commands
  <2>5. controller' \in Create!Controller /\ controller'.commands = commands
    BY <2>3, <2>4 DEF CreateInv, Create!TypeOK, Create!Controller
  <2>6. CreateCommandsStay
    BY <2>1, <2>4, <2>5 DEF CreateCommandsStay
  <2>7. CreateNumbered'
    <3>1. \A i \in 1..MaxCommands : controller'.commands[i] # None <=> i <= n
      BY <2>1, <2>2, <2>4, <2>5, CreateIs
    <3> QED
      BY <2>1, <3>1, CreateIs DEF CreateNumbered
  <2>8. panel'.ticked = panel.ticked /\ panel'.kept = panel.kept => Create!FirewallWasConfirmed'
    <3>1. \A i \in 1..MaxCommands : controller'.commands[i] # None =>
            controller.commands[i] # None \/ controller'.commands[i].port \in CreateConfirmed
      BY <1>2, <2>4, <2>5
    <3> QED
      BY <2>6, <3>1, CreateFirewallStays DEF CreateConfirmed
  <2>9. CASE Create!Fails(c)
    BY <1>1, <1>3, <2>6, <2>7, <2>8, <2>9, CreateFailsKeepsTheList
  <2>10. CASE /\ call' = [call EXCEPT ![c].at = "wait", ![c].command = n]
              /\ panel' = Create!Shows([panel EXCEPT !.step = "busy"])
    <3> DEFINE row == [call[c] EXCEPT !.at = "wait", !.command = n]
    <3>1. call' = [call EXCEPT ![c] = row]
      BY <2>10 DEF CreateInv, Create!TypeOK
    <3>2. /\ row \in Create!CallRow /\ row.at = "wait" /\ row.form = call[c].form
          /\ row.port = call[c].port /\ row.confirm = call[c].confirm /\ row.command = n
      <4>1. n \in 0..MaxCommands
        BY <2>1, CreateIs
      <4> QED
        BY <1>2, <4>1 DEF Create!CallRow
    <3> HIDE DEF row
    <3>3. panel'.ticked = panel.ticked /\ panel'.kept = panel.kept
      BY <2>10 DEF Create!Shows, CreateInv, Create!TypeOK, Create!Panel
    <3>4. call'[c] = row
      BY <3>1 DEF CreateInv, Create!TypeOK
    <3>5. CreateFlowIs(c)'
      BY <1>1, <1>2, <2>1, <2>2, <2>4, <2>5, <3>2, <3>3, <3>4 DEF CreateFlowIs, Create!Free,
         CreateConfirmed
    <3> QED
      BY <1>1, <2>6, <2>7, <2>8, <2>10, <3>1, <3>2, <3>3, <3>5, CreateGoesToKeeps
  <2> QED
    BY <1>5, <2>9, <2>10 DEF n
<1> QED
  BY <1>4, <1>5 DEF Create!CommandCreated

LEMMA CreateRefreshedKeeps ==
  ASSUME CreateInv, NEW c \in Call, Create!ListRefreshed(c) PROVE CreateInv'
<1>1. call[c].at = "refresh" /\ UNCHANGED controller /\ ~Create!Free(c)
  BY DEF Create!ListRefreshed, Create!Free
<1>2. CreateCommandsStay /\ CreateNumbered'
  BY <1>1, CreateUnchangedCommands
<1>3. CreateFlowIs(c) /\ call[c] \in Create!CallRow /\ call[c].form \in Port /\ controller.routes \in SUBSET Port
  BY <1>1 DEF CreateInv, Create!TypeOK, CreateFlowIs, Create!Controller
<1>4. panel'.ticked = panel.ticked /\ panel'.kept = panel.kept => Create!FirewallWasConfirmed'
  BY <1>1, <1>2, CreateUnchangedCommands, CreateFirewallStays DEF CreateConfirmed
<1>5. CASE Create!Fails(c)
  <2>1. panel'.ticked = panel.ticked /\ panel'.kept = panel.kept
    BY <1>5 DEF Create!Fails, Create!Shows, Create!Settled, CreateInv, Create!TypeOK, Create!Panel
  <2> QED
    BY <1>1, <1>2, <1>4, <1>5, <2>1, CreateFailsKeepsTheList
<1>6. CASE /\ panel' = [Create!Shows(Create!Settled([panel EXCEPT !.step = "failed"], c))
                          EXCEPT !.routes = controller.routes]
           /\ Create!Finish(c)
  <2>1. panel'.ticked = panel.ticked /\ panel'.kept = panel.kept
    BY <1>3, <1>6 DEF Create!Shows, Create!Settled, CreateInv, Create!TypeOK, Create!Panel
  <2> QED
    BY <1>1, <1>2, <1>3, <1>4, <1>6, <2>1, CreateFailsKeeps
<1>7. CASE /\ panel' = [Create!Shows([panel EXCEPT !.step = "busy", !.created = call[c].form])
                          EXCEPT !.routes = controller.routes]
           /\ call' = [call EXCEPT ![c].at = "export", ![c].form = call[c].form]
  <2> DEFINE row == [call[c] EXCEPT !.at = "export"]
  <2>1. call' = [call EXCEPT ![c] = row]
    BY <1>7 DEF CreateInv, Create!TypeOK, Create!CallRow
  <2>2. /\ row \in Create!CallRow /\ row.at = "export" /\ row.form = call[c].form
        /\ row.port = call[c].port /\ row.confirm = call[c].confirm
    BY <1>3 DEF Create!CallRow
  <2> HIDE DEF row
  <2>3. /\ CreateFormStays /\ panel'.context = panel.context /\ panel'.export = panel.export
        /\ panel.open => panel'.step = "busy" /\ panel'.created = call[c].form
        /\ ~panel.open => panel'.created = panel.created
    BY <1>3, <1>7 DEF CreateFormStays, Create!Shows, CreateInv, Create!TypeOK, Create!Panel,
       Create!Step
  <2>4. call'[c] = row
    BY <2>1 DEF CreateInv, Create!TypeOK
  <2>5. CreateFlowIs(c)'
    BY <1>1, <1>3, <2>2, <2>3, <2>4 DEF CreateFlowIs, Create!Free, CreateConfirmed, CreateFormStays
  <2>6. CreateModalShows(c, row)
    BY <1>1, <2>2, <2>3 DEF CreateModalShows
  <2> QED
    BY <1>1, <1>2, <1>4, <2>1, <2>2, <2>3, <2>5, <2>6, CreateFlowGoesOn DEF CreateFormStays
<1> QED
  BY <1>5, <1>6, <1>7 DEF Create!ListRefreshed, Create!FoundPort

LEMMA CreateExportedKeeps ==
  ASSUME CreateInv, NEW c \in Call, Create!LinkExported(c) PROVE CreateInv'
<1>1. call[c].at = "export" /\ UNCHANGED controller /\ ~Create!Free(c)
  BY DEF Create!LinkExported, Create!Free
<1>2. CreateCommandsStay /\ CreateNumbered'
  BY <1>1, CreateUnchangedCommands
<1>3. call[c].form \in Port
  BY <1>1 DEF CreateInv, CreateFlowIs
<1>4. panel'.ticked = panel.ticked /\ panel'.kept = panel.kept => Create!FirewallWasConfirmed'
  BY <1>1, <1>2, CreateUnchangedCommands, CreateFirewallStays DEF CreateConfirmed
<1>5. CASE Create!Fails(c)
  <2>1. panel'.ticked = panel.ticked /\ panel'.kept = panel.kept
    BY <1>5 DEF Create!Fails, Create!Shows, Create!Settled, CreateInv, Create!TypeOK, Create!Panel
  <2> QED
    BY <1>1, <1>2, <1>4, <1>5, <2>1, CreateFailsKeepsTheList
<1>6. CASE /\ panel' = Create!Shows(Create!Settled([panel EXCEPT !.export = call[c].form, !.step = "complete"], c))
           /\ Create!Finish(c)
  <2>1. /\ CreateFormStays /\ panel'.context = panel.context /\ panel'.created = panel.created
        /\ panel.open => panel'.step = "complete" /\ panel'.export = call[c].form
        /\ ~panel.open => panel'.export = panel.export
    BY <1>3, <1>6 DEF CreateFormStays, Create!Shows, Create!Settled, CreateInv, Create!TypeOK,
       Create!Panel, Create!Step
  <2>2. call' = [call EXCEPT ![c] = Create!NoCall] /\ CreateFlowIs(c)'
    BY <1>6, CreateNoCallIs DEF Create!Finish, CreateFlowIs, Create!Free, CreateInv, Create!TypeOK
  <2>3. CreateModalShows(c, Create!NoCall)
    BY <1>1, <2>1, CreateNoCallIs DEF CreateModalShows
  <2> QED
    BY <1>1, <1>2, <1>4, <2>1, <2>2, <2>3, CreateNoCallIs, CreateFlowGoesOn DEF CreateFormStays
<1> QED
  BY <1>5, <1>6 DEF Create!LinkExported

-----------------------------------------------------------------------------
LEMMA CreateNext == ASSUME CreateInv, [Create!Next]_(Create!vars) PROVE CreateInv'
<1>1. CASE UNCHANGED Create!vars
  BY <1>1 DEF Create!vars, CreateInv, Create!TypeOK, CreateFlowIs, CreateFormIs, CreateNumbered,
     CreateModalIsOfItsFlow, CreateOneFlow, CreateFlowShown, Create!FirewallWasConfirmed,
     Create!CreatedRouteIsNew, CreateConfirmed, Create!Free
<1>2. ASSUME NEW c \in Call, Create!FlowStep(c) PROVE CreateInv'
  BY <1>2, CreatePreflightKeeps, CreatedKeeps, CreatePolledKeeps, CreateRefreshedKeeps,
     CreateExportedKeeps DEF Create!FlowStep
<1>3. CASE Create!Next
  BY <1>2, <1>3, CreateSubmitKeeps, CreateConfirmKeeps, CreateEditKeeps, CreateModalKeeps,
     CreateFirewallKeeps, CreateCommandEndsKeeps
  DEF Create!Next
<1> QED
  BY <1>1, <1>3

LEMMA CreateHolds ==
  ASSUME CreateInv
  PROVE  /\ Create!FirewallWasConfirmed /\ Create!CreatedRouteIsNew
         /\ Create!LinkIsOfItsRoute /\ Create!FailedShowsNoLink /\ Create!OneFlowPerModal
<1>1. Create!LinkIsOfItsRoute /\ Create!FailedShowsNoLink
  BY DEF CreateInv, CreateFormIs, CreateModalIsOfItsFlow, CreateFlowShown, Create!LinkIsOfItsRoute,
     Create!LinkShown,
         Create!FailedShowsNoLink
<1>2. Create!OneFlowPerModal
  <2> SUFFICES ASSUME panel.open, ~panel.overlapped
               PROVE  Cardinality({c \in Call : ~Create!Free(c)}) <= 1
    BY CreateCardinality DEF Create!OneFlowPerModal
  <2> DEFINE busy == {c \in Call : ~Create!Free(c)}
  <2>1. \A b, c \in busy : b = c
    BY DEF CreateInv, CreateModalIsOfItsFlow, CreateOneFlow
  <2> HIDE DEF busy
  <2>2. Cardinality(busy) <= 1
    BY <2>1, AtMostOne
  <2> QED
    BY <2>2 DEF busy
<1> QED
  BY <1>1, <1>2 DEF CreateInv

-----------------------------------------------------------------------------
(* TransitRoutesPanel: the rows of the routes. *)

LEMMA RowsAre ==
  None \notin Route \cup Rows!Named /\ MaxNames \in Nat /\ MaxPolls \in Nat
BY TransitPanelsAssumption

\* Who holds the flag that the requests of the rows share.
RowsLoads(c) == call[c].op \in {"summary", "export", "delete"}
RowsRemoves(c) == call[c].op \in {"delete", "watch"}

\* One of them at a time.
RowsLoadingInv ==
  /\ \A c \in Call : RowsLoads(c) => panel.loading
  /\ \A b, c \in Call : RowsLoads(b) /\ RowsLoads(c) => b = c

RowsExportInv ==
  /\ Rows!ExportIsOfItsRoute
  /\ \A c \in Rows!Awaited("export") : panel.exportFor \in {None, call[c].route}

\* A name that was told is the controller's by then, and so are the answers that
\* were given since.
RowsNamesInv ==
  /\ \A r \in Route : panel.told[r] <= controller.name[r]
  /\ \A c \in Rows!Awaited("rename") : call[c].answered => call[c].name <= controller.name[call[c].route]
  /\ \A c \in Rows!Awaited("summary") \cup Rows!Awaited("export") :
       call[c].answered /\ call[c].route \notin panel.renamed =>
         call[c].name >= panel.told[call[c].route]
  /\ \A shown \in {panel.summary, panel.export} \ {None} :
       shown.route \notin panel.renamed => shown.name >= panel.told[shown.route]

\* A row that is being removed is hidden, and the modal of a removal that is
\* awaited is its own.
RowsRemovalInv ==
  /\ \A c \in Call : RowsRemoves(c) => call[c].route \in panel.hidden
  /\ \A b, c \in Call : RowsRemoves(b) /\ RowsRemoves(c) /\ call[b].route = call[c].route => b = c
  /\ \A c \in Rows!Awaited("delete") : panel.deleteFor = call[c].route
  /\ Rows!LocalModeWasOffered

RowsInv ==
  /\ Rows!TypeOK /\ \A c \in Call : call[c].op # "none" => call[c].route \in Route
  /\ RowsLoadingInv /\ RowsExportInv /\ RowsNamesInv /\ RowsRemovalInv /\ Rows!HiddenRowIsWatched

-----------------------------------------------------------------------------
LEMMA RowsNoCallIs == Rows!NoCall \in Rows!CallRow /\ Rows!NoCall.op = "none"
BY RowsAre DEF Rows!NoCall, Rows!CallRow

LEMMA RowsInit == Rows!Init => RowsInv
<1> SUFFICES ASSUME Rows!Init PROVE RowsInv
  OBVIOUS
<1>1. call \in [Call -> Rows!CallRow] /\ \A c \in Call : call[c].op = "none"
  BY RowsNoCallIs DEF Rows!Init
<1>2. panel \in Rows!Panel /\ controller \in Rows!Controller
  BY RowsAre DEF Rows!Init, Rows!Panel, Rows!Controller
<1>3. RowsLoadingInv /\ RowsExportInv /\ RowsRemovalInv /\ Rows!HiddenRowIsWatched
  BY <1>1 DEF Rows!Init, RowsLoadingInv, RowsExportInv, RowsRemovalInv, Rows!HiddenRowIsWatched,
     Rows!ExportIsOfItsRoute,
              Rows!LocalModeWasOffered, RowsLoads, RowsRemoves, Rows!Awaited
<1>4. RowsNamesInv
  BY <1>1 DEF Rows!Init, RowsNamesInv, Rows!Awaited
<1> QED
  BY <1>1, <1>2, <1>3, <1>4 DEF RowsInv, Rows!TypeOK

-----------------------------------------------------------------------------
(* What steps have in common. *)

RowsBecomes(c, row) == call' \in [Call -> Rows!CallRow] /\ call'[c] = row /\ \A b \in Call \ {c} : call'[b] = call[b]

LEMMA RowsStartBecomes ==
  ASSUME Rows!TypeOK, NEW c \in Call, NEW row \in Rows!CallRow, call' = [call EXCEPT ![c] = row]
  PROVE  RowsBecomes(c, row)
BY DEF Rows!TypeOK, RowsBecomes

LEMMA RowsRoutesStay ==
  ASSUME RowsInv, NEW c \in Call, NEW row, RowsBecomes(c, row),
         row.op # "none" => row.route \in Route
  PROVE  \A b \in Call : (call[b].op # "none")' => call'[b].route \in Route
BY DEF RowsInv, RowsBecomes

LEMMA RowsLoadingStays ==
  ASSUME RowsInv, NEW c \in Call, NEW row, RowsBecomes(c, row),
         \/ row.op \notin {"summary", "export", "delete"} /\ (RowsLoads(c) \/ panel'.loading = panel.loading)
         \/ ~panel.loading /\ panel'.loading
         \/ row.op = call[c].op /\ panel'.loading = panel.loading
  PROVE  RowsLoadingInv'
<1>1. \A b \in Call : RowsLoads(b)' <=> IF b = c THEN row.op \in {"summary", "export", "delete"} ELSE RowsLoads(b)
  BY DEF RowsBecomes, RowsLoads
<1>2. CASE row.op \notin {"summary", "export", "delete"}
  BY <1>1, <1>2 DEF RowsInv, RowsLoadingInv
<1>3. CASE ~panel.loading /\ panel'.loading
  BY <1>1, <1>3 DEF RowsInv, RowsLoadingInv
<1>4. CASE row.op = call[c].op /\ panel'.loading = panel.loading
  <2>1. \A b \in Call : RowsLoads(b)' <=> RowsLoads(b)
    BY <1>1, <1>4 DEF RowsLoads
  <2> QED
    BY <1>4, <2>1 DEF RowsInv, RowsLoadingInv
<1> QED
  BY <1>2, <1>3, <1>4

LEMMA RowsExportStays ==
  ASSUME RowsInv, NEW c \in Call, NEW row, RowsBecomes(c, row),
         panel'.export \in {panel.export, None}, panel'.exportFor = panel.exportFor,
         row.op = "export" =>
           row.route = panel.exportFor \/ (call[c].op = "export" /\ row.route = call[c].route)
  PROVE  RowsExportInv'
BY DEF RowsInv, RowsExportInv, Rows!ExportIsOfItsRoute, RowsBecomes, Rows!Awaited

LEMMA RowsNamesStay ==
  ASSUME RowsInv, NEW c \in Call, NEW row, RowsBecomes(c, row),
         panel'.told = panel.told, panel'.renamed = panel.renamed,
         controller'.name = controller.name,
         panel'.summary \in {panel.summary, None}, panel'.export \in {panel.export, None},
         row.op \in {"summary", "export", "rename"} => ~row.answered
  PROVE  RowsNamesInv'
BY DEF RowsInv, RowsNamesInv, RowsBecomes, Rows!Awaited

\* No removal starts, goes on or ends.
LEMMA RowsRemovalStays ==
  ASSUME RowsInv, NEW c \in Call, NEW row, RowsBecomes(c, row),
         panel'.hidden = panel.hidden, panel'.deleteFor = panel.deleteFor,
         panel'.local = panel.local, panel'.offered = panel.offered,
         panel'.gaveUp = panel.gaveUp, controller'.row = controller.row,
         row.op \notin {"delete", "watch"}, ~RowsRemoves(c)
  PROVE  RowsRemovalInv' /\ Rows!HiddenRowIsWatched'
<1>1. \A b \in Call : RowsRemoves(b)' => RowsRemoves(b) /\ call'[b] = call[b]
  BY DEF RowsBecomes, RowsRemoves
<1>2. \A b \in Call : RowsRemoves(b) => call'[b] = call[b]
  BY DEF RowsBecomes
<1>3. RowsRemovalInv'
  BY <1>1 DEF RowsInv, RowsRemovalInv, Rows!LocalModeWasOffered, Rows!Awaited, RowsRemoves
<1>4. Rows!HiddenRowIsWatched'
  BY <1>2 DEF RowsInv, Rows!HiddenRowIsWatched, Rows!Awaited, RowsRemoves
<1> QED
  BY <1>3, <1>4

-----------------------------------------------------------------------------
(* The modals. *)

LEMMA RowsModalKeeps ==
  ASSUME RowsInv, UNCHANGED <<call, controller>>, panel' \in Rows!Panel,
         panel'.told = panel.told, panel'.renamed = panel.renamed,
         panel'.summary \in {panel.summary, None}, panel'.export \in {panel.export, None},
         panel'.hidden = panel.hidden, panel'.loading = panel.loading,
         panel'.offered = panel.offered, panel'.gaveUp = panel.gaveUp,
         \/ panel'.exportFor = panel.exportFor
         \/ panel'.export = None /\ (panel'.exportFor = None \/ ~panel.loading),
         \/ panel'.deleteFor = panel.deleteFor /\ panel'.local = panel.local
         \/ ~panel'.local /\ (~panel.loading \/ panel.deleteFor \notin panel.hidden)
  PROVE  RowsInv'
<1>1. RowsLoadingInv'
  BY DEF RowsInv, RowsLoadingInv, RowsLoads
<1>2. RowsExportInv'
  BY DEF RowsInv, RowsExportInv, Rows!ExportIsOfItsRoute, RowsLoadingInv, RowsLoads, Rows!Awaited
<1>3. RowsNamesInv'
  BY DEF RowsInv, RowsNamesInv, Rows!Awaited
<1>4. RowsRemovalInv'
  BY DEF RowsInv, RowsRemovalInv, Rows!LocalModeWasOffered, RowsLoadingInv, RowsLoads, RowsRemoves,
     Rows!Awaited
<1>5. Rows!HiddenRowIsWatched'
  BY DEF RowsInv, Rows!HiddenRowIsWatched, Rows!Awaited
<1> QED
  BY <1>1, <1>2, <1>3, <1>4, <1>5 DEF RowsInv, Rows!TypeOK

LEMMA RowsSelectIs ==
  ASSUME Rows!TypeOK, NEW r \in Route
  PROVE  \E p \in Rows!Panel :
           /\ Rows!SelectCandidateRoute(panel, r) = p
           /\ p.told = panel.told /\ p.renamed = panel.renamed
           /\ p.summary \in {panel.summary, None} /\ p.export \in {panel.export, None}
           /\ p.hidden = panel.hidden /\ p.loading = panel.loading
           /\ p.offered = panel.offered /\ p.gaveUp = panel.gaveUp
           /\ p.exportFor = panel.exportFor
           /\ p.deleteFor = panel.deleteFor /\ p.local = panel.local
<1>1. CASE panel.candidate = r
  BY <1>1 DEF Rows!SelectCandidateRoute, Rows!TypeOK
<1>2. CASE panel.candidate # r
  <2> DEFINE p == [panel EXCEPT !.candidate = r, !.summary = None, !.export = None]
  <2>1. Rows!SelectCandidateRoute(panel, r) = p
    BY <1>2 DEF Rows!SelectCandidateRoute
  <2>2. /\ p \in Rows!Panel /\ p.told = panel.told /\ p.renamed = panel.renamed
        /\ p.summary = None /\ p.export = None
        /\ p.hidden = panel.hidden /\ p.loading = panel.loading
        /\ p.offered = panel.offered /\ p.gaveUp = panel.gaveUp
        /\ p.exportFor = panel.exportFor
        /\ p.deleteFor = panel.deleteFor /\ p.local = panel.local
    BY DEF Rows!TypeOK, Rows!Panel
  <2> HIDE DEF p
  <2> QED
    BY <2>1, <2>2
<1> QED
  BY <1>1, <1>2

LEMMA RowsOpenKeeps ==
  ASSUME RowsInv, NEW r \in Route,
         Rows!ShowDetails(r) \/ Rows!OpenCandidateExportModal(r) \/ Rows!OpenEditRoute(r) \/ Rows!OpenDeleteRoute(r)
  PROVE  RowsInv'
<1>1. UNCHANGED <<call, controller>>
  BY DEF Rows!ShowDetails, Rows!OpenCandidateExportModal, Rows!OpenEditRoute, Rows!OpenDeleteRoute
<1>2. CASE Rows!ShowDetails(r)
  <2>1. panel' = Rows!SelectCandidateRoute(panel, r)
    BY <1>2 DEF Rows!ShowDetails
  <2> QED
    BY <1>1, <2>1, RowsSelectIs, RowsModalKeeps DEF RowsInv
<1>3. CASE Rows!OpenCandidateExportModal(r)
  <2>1. ~panel.loading /\ panel' = [panel EXCEPT !.exportFor = r, !.export = None]
    BY <1>3 DEF Rows!OpenCandidateExportModal, Rows!RowButtons
  <2> QED
    BY <1>1, <2>1, RowsModalKeeps DEF RowsInv, Rows!TypeOK, Rows!Panel
<1>4. CASE Rows!OpenEditRoute(r)
  <2>1. panel' = [panel EXCEPT !.edit = r]
    BY <1>4 DEF Rows!OpenEditRoute
  <2> QED
    BY <1>1, <2>1, RowsModalKeeps DEF RowsInv, Rows!TypeOK, Rows!Panel
<1>5. CASE Rows!OpenDeleteRoute(r)
  <2>1. ~panel.loading /\ panel' = [panel EXCEPT !.deleteFor = r, !.local = FALSE]
    BY <1>5 DEF Rows!OpenDeleteRoute, Rows!RowButtons
  <2> QED
    BY <1>1, <2>1, RowsModalKeeps DEF RowsInv, Rows!TypeOK, Rows!Panel
<1> QED
  BY <1>2, <1>3, <1>4, <1>5

LEMMA RowsCloseKeeps ==
  ASSUME RowsInv,
         Rows!CloseCandidateExportModal \/ Rows!CloseEditRouteModal \/ Rows!CloseDeleteRouteModal
  PROVE  RowsInv'
<1>1. UNCHANGED <<call, controller>>
  BY DEF Rows!CloseCandidateExportModal, Rows!CloseEditRouteModal, Rows!CloseDeleteRouteModal
<1>2. CASE Rows!CloseCandidateExportModal
  <2>1. panel' = [panel EXCEPT !.exportFor = None, !.export = None]
    BY <1>2 DEF Rows!CloseCandidateExportModal
  <2> QED
    BY <1>1, <2>1, RowsModalKeeps DEF RowsInv, Rows!TypeOK, Rows!Panel
<1>3. CASE Rows!CloseEditRouteModal
  <2>1. panel' = [panel EXCEPT !.edit = None]
    BY <1>3 DEF Rows!CloseEditRouteModal
  <2> QED
    BY <1>1, <2>1, RowsModalKeeps DEF RowsInv, Rows!TypeOK, Rows!Panel
<1>4. CASE Rows!CloseDeleteRouteModal
  <2>1. /\ panel' = [panel EXCEPT !.deleteFor = None, !.local = FALSE]
        /\ panel.deleteFor \notin panel.hidden
    BY <1>4 DEF Rows!CloseDeleteRouteModal, Rows!OnDisplay
  <2> QED
    BY <1>1, <2>1, RowsModalKeeps DEF RowsInv, Rows!TypeOK, Rows!Panel
<1> QED
  BY <1>2, <1>3, <1>4

-----------------------------------------------------------------------------
(* The requests. *)

LEMMA RowsStartIs ==
  ASSUME Rows!TypeOK, NEW c \in Call, NEW op \in {"summary", "export", "rename", "delete"},
         NEW r \in Route, Rows!Start(c, op, r)
  PROVE  \E row \in Rows!CallRow :
           /\ row.op = op /\ row.route = r /\ row.answered = FALSE /\ row.local = panel.local
           /\ RowsBecomes(c, row) /\ call[c].op = "none"
<1> DEFINE row == [Rows!NoCall EXCEPT !.op = op, !.route = r, !.local = panel.local]
<1>1. call' = [call EXCEPT ![c] = row] /\ call[c].op = "none"
  BY DEF Rows!Start, Rows!Free
<1>2. /\ row \in Rows!CallRow /\ row.op = op /\ row.route = r /\ row.answered = FALSE
      /\ row.local = panel.local
  BY RowsNoCallIs DEF Rows!TypeOK, Rows!Panel, Rows!CallRow, Rows!NoCall
<1> HIDE DEF row
<1> QED
  BY <1>1, <1>2, RowsStartBecomes

LEMMA RowsLoadSummaryKeeps ==
  ASSUME RowsInv, NEW c \in Call, NEW r \in Route, Rows!LoadCandidateSummary(c, r)
  PROVE  RowsInv'
<1>1. /\ ~panel.loading /\ UNCHANGED controller /\ Rows!Start(c, "summary", r)
      /\ panel' = [Rows!SelectCandidateRoute(panel, r) EXCEPT !.loading = TRUE]
  BY DEF Rows!LoadCandidateSummary, Rows!RowButtons
<1>2. PICK row \in Rows!CallRow :
        /\ row.op = "summary" /\ row.route = r /\ row.answered = FALSE /\ row.local = panel.local
        /\ RowsBecomes(c, row) /\ call[c].op = "none"
  BY <1>1, RowsStartIs DEF RowsInv
<1>3. PICK p \in Rows!Panel :
        /\ Rows!SelectCandidateRoute(panel, r) = p
        /\ p.told = panel.told /\ p.renamed = panel.renamed
        /\ p.summary \in {panel.summary, None} /\ p.export \in {panel.export, None}
        /\ p.hidden = panel.hidden /\ p.loading = panel.loading
        /\ p.offered = panel.offered /\ p.gaveUp = panel.gaveUp
        /\ p.exportFor = panel.exportFor
        /\ p.deleteFor = panel.deleteFor /\ p.local = panel.local
  BY RowsSelectIs DEF RowsInv
<1>4. /\ panel' \in Rows!Panel /\ panel'.told = panel.told /\ panel'.renamed = panel.renamed
      /\ panel'.summary \in {panel.summary, None} /\ panel'.export \in {panel.export, None}
      /\ panel'.hidden = panel.hidden /\ panel'.loading
      /\ panel'.offered = panel.offered /\ panel'.gaveUp = panel.gaveUp
      /\ panel'.exportFor = panel.exportFor
      /\ panel'.deleteFor = panel.deleteFor /\ panel'.local = panel.local
  <2>1. panel' = [p EXCEPT !.loading = TRUE]
    BY <1>1, <1>3
  <2> QED
    BY <1>3, <2>1 DEF Rows!Panel
<1>5. \A b \in Call : (call[b].op # "none")' => call'[b].route \in Route
  BY <1>2, RowsRoutesStay
<1>6. RowsLoadingInv'
  BY <1>1, <1>2, <1>4, RowsLoadingStays
<1>7. RowsExportInv'
  BY <1>2, <1>4, RowsExportStays
<1>8. RowsNamesInv'
  BY <1>1, <1>2, <1>4, RowsNamesStay
<1>9. RowsRemovalInv' /\ Rows!HiddenRowIsWatched'
  BY <1>1, <1>2, <1>4, RowsRemovalStays DEF RowsRemoves
<1> QED
  BY <1>1, <1>2, <1>4, <1>5, <1>6, <1>7, <1>8, <1>9 DEF RowsInv, Rows!TypeOK, RowsBecomes

LEMMA RowsExportKeeps ==
  ASSUME RowsInv, NEW c \in Call, Rows!ExportCandidateConfig(c) PROVE RowsInv'
<1> DEFINE r == panel.exportFor
<1>1. /\ ~panel.loading /\ UNCHANGED controller /\ Rows!Start(c, "export", r)
      /\ panel' = [panel EXCEPT !.loading = TRUE] /\ r \in Route
  BY DEF Rows!ExportCandidateConfig, Rows!ExportOffered, Rows!OnDisplay
<1>2. PICK row \in Rows!CallRow :
        /\ row.op = "export" /\ row.route = r /\ row.answered = FALSE /\ row.local = panel.local
        /\ RowsBecomes(c, row) /\ call[c].op = "none"
  BY <1>1, RowsStartIs DEF RowsInv
<1>3. /\ panel' \in Rows!Panel /\ panel'.told = panel.told /\ panel'.renamed = panel.renamed
      /\ panel'.summary = panel.summary /\ panel'.export = panel.export
      /\ panel'.hidden = panel.hidden /\ panel'.loading
      /\ panel'.offered = panel.offered /\ panel'.gaveUp = panel.gaveUp
      /\ panel'.exportFor = r /\ panel.exportFor = r
      /\ panel'.deleteFor = panel.deleteFor /\ panel'.local = panel.local
  BY <1>1 DEF RowsInv, Rows!TypeOK, Rows!Panel
<1>4. \A b \in Call : (call[b].op # "none")' => call'[b].route \in Route
  BY <1>1, <1>2, RowsRoutesStay
<1>5. RowsLoadingInv'
  BY <1>1, <1>2, <1>3, RowsLoadingStays
<1>6. RowsExportInv'
  BY <1>2, <1>3, RowsExportStays
<1>7. RowsNamesInv'
  BY <1>1, <1>2, <1>3, RowsNamesStay
<1>8. RowsRemovalInv' /\ Rows!HiddenRowIsWatched'
  BY <1>1, <1>2, <1>3, RowsRemovalStays DEF RowsRemoves
<1> QED
  BY <1>1, <1>2, <1>3, <1>4, <1>5, <1>6, <1>7, <1>8 DEF RowsInv, Rows!TypeOK, RowsBecomes

LEMMA RowsSubmitEditKeeps ==
  ASSUME RowsInv, NEW c \in Call, Rows!SubmitEditRouteName(c) PROVE RowsInv'
<1> DEFINE r == panel.edit
<1>1. /\ UNCHANGED controller /\ Rows!Start(c, "rename", r)
      /\ panel' = [panel EXCEPT !.saving = TRUE] /\ r \in Route
  BY DEF Rows!SubmitEditRouteName, Rows!SaveOffered, Rows!OnDisplay
<1>2. PICK row \in Rows!CallRow :
        /\ row.op = "rename" /\ row.route = r /\ row.answered = FALSE /\ row.local = panel.local
        /\ RowsBecomes(c, row) /\ call[c].op = "none"
  BY <1>1, RowsStartIs DEF RowsInv
<1>3. /\ panel' \in Rows!Panel /\ panel'.told = panel.told /\ panel'.renamed = panel.renamed
      /\ panel'.summary = panel.summary /\ panel'.export = panel.export
      /\ panel'.hidden = panel.hidden /\ panel'.loading = panel.loading
      /\ panel'.offered = panel.offered /\ panel'.gaveUp = panel.gaveUp
      /\ panel'.exportFor = panel.exportFor
      /\ panel'.deleteFor = panel.deleteFor /\ panel'.local = panel.local
  BY <1>1 DEF RowsInv, Rows!TypeOK, Rows!Panel
<1>4. \A b \in Call : (call[b].op # "none")' => call'[b].route \in Route
  BY <1>1, <1>2, RowsRoutesStay
<1>5. RowsLoadingInv'
  BY <1>1, <1>2, <1>3, RowsLoadingStays
<1>6. RowsExportInv'
  BY <1>2, <1>3, RowsExportStays
<1>7. RowsNamesInv'
  BY <1>1, <1>2, <1>3, RowsNamesStay
<1>8. RowsRemovalInv' /\ Rows!HiddenRowIsWatched'
  BY <1>1, <1>2, <1>3, RowsRemovalStays DEF RowsRemoves
<1> QED
  BY <1>1, <1>2, <1>3, <1>4, <1>5, <1>6, <1>7, <1>8 DEF RowsInv, Rows!TypeOK, RowsBecomes

LEMMA RowsSubmitDeleteKeeps ==
  ASSUME RowsInv, NEW c \in Call, Rows!SubmitDeleteRoute(c) PROVE RowsInv'
<1> DEFINE r == panel.deleteFor
<1>1. /\ ~panel.loading /\ UNCHANGED controller /\ Rows!Start(c, "delete", r)
      /\ panel' = [panel EXCEPT !.hidden = panel.hidden \cup {r}, !.loading = TRUE]
      /\ r \in Route /\ r \notin panel.hidden
  BY DEF Rows!SubmitDeleteRoute, Rows!DeleteOffered, Rows!OnDisplay, RowsInv, Rows!TypeOK,
     Rows!Panel
<1>2. PICK row \in Rows!CallRow :
        /\ row.op = "delete" /\ row.route = r /\ row.answered = FALSE /\ row.local = panel.local
        /\ RowsBecomes(c, row) /\ call[c].op = "none"
  BY <1>1, RowsStartIs DEF RowsInv
<1>3. /\ panel' \in Rows!Panel /\ panel'.told = panel.told /\ panel'.renamed = panel.renamed
      /\ panel'.summary = panel.summary /\ panel'.export = panel.export
      /\ panel'.hidden = panel.hidden \cup {r} /\ panel'.loading
      /\ panel'.offered = panel.offered /\ panel'.gaveUp = panel.gaveUp
      /\ panel'.exportFor = panel.exportFor
      /\ panel'.deleteFor = r /\ panel'.local = panel.local
  BY <1>1 DEF RowsInv, Rows!TypeOK, Rows!Panel
<1>4. \A b \in Call : (call[b].op # "none")' => call'[b].route \in Route
  BY <1>1, <1>2, RowsRoutesStay
<1>5. RowsLoadingInv'
  BY <1>1, <1>2, <1>3, RowsLoadingStays
<1>6. RowsExportInv'
  BY <1>2, <1>3, RowsExportStays
<1>7. RowsNamesInv'
  BY <1>1, <1>2, <1>3, RowsNamesStay
<1>8. RowsRemovalInv'
  <2>1. \A b \in Call : RowsRemoves(b)' => (b = c /\ call'[b] = row) \/ (b # c /\ RowsRemoves(b) /\ call'[b] = call[b])
    BY <1>2 DEF RowsBecomes, RowsRemoves
  <2>2. \A b \in Call : ~(call[b].op = "delete")
    BY <1>1 DEF RowsInv, RowsLoadingInv, RowsLoads
  <2>3. \A b \in Call : RowsRemoves(b)' => call'[b].route \in panel'.hidden
    BY <1>2, <1>3, <2>1 DEF RowsInv, RowsRemovalInv
  <2>4. \A b, k \in Call : RowsRemoves(b)' /\ RowsRemoves(k)' /\ call'[b].route = call'[k].route => b = k
    BY <1>1, <1>2, <2>1 DEF RowsInv, RowsRemovalInv
  <2>5. \A b \in Rows!Awaited("delete")' : b = c /\ call'[b] = row
    BY <2>1, <2>2 DEF Rows!Awaited, RowsRemoves
  <2>6. Rows!LocalModeWasOffered'
    BY <1>2, <1>3, <2>5 DEF RowsInv, RowsRemovalInv, Rows!LocalModeWasOffered
  <2> QED
    BY <1>2, <1>3, <2>3, <2>4, <2>5, <2>6 DEF RowsRemovalInv
<1>9. Rows!HiddenRowIsWatched'
  <2>1. \A b \in Rows!Awaited("delete") \cup Rows!Awaited("watch") : b \in (Rows!Awaited("delete") \cup Rows!Awaited("watch"))'
                                                                     /\ call'[b] = call[b]
    BY <1>2 DEF Rows!Awaited, RowsBecomes
  <2>2. c \in Rows!Awaited("delete")' /\ call'[c].route = r
    BY <1>2 DEF Rows!Awaited, RowsBecomes
  <2> QED
    BY <1>1, <1>3, <2>1, <2>2 DEF RowsInv, Rows!HiddenRowIsWatched
<1> QED
  BY <1>1, <1>2, <1>3, <1>4, <1>5, <1>6, <1>7, <1>8, <1>9 DEF RowsInv, Rows!TypeOK, RowsBecomes

-----------------------------------------------------------------------------
(* The controller. *)

LEMMA RowsAnswerKeeps == ASSUME RowsInv, NEW c \in Call, Rows!Answer(c) PROVE RowsInv'
<1> DEFINE r == call[c].route
           name == controller.name[r] + (IF call[c].op = "rename" THEN 1 ELSE 0)
           row == [call[c] EXCEPT !.answered = TRUE, !.name = name]
           names == [controller.name EXCEPT ![r] = name]
<1>1. /\ call[c].op \in {"summary", "export", "rename"} /\ name <= MaxNames
      /\ call' = [call EXCEPT ![c] = row] /\ controller' = [controller EXCEPT !.name = names]
      /\ UNCHANGED panel
  BY DEF Rows!Answer, RowsInv, Rows!TypeOK, Rows!Controller, Rows!CallRow
<1>2. r \in Route
  BY <1>1 DEF RowsInv
<1>3. controller.name[r] \in 0..MaxNames
  BY <1>2 DEF RowsInv, Rows!TypeOK, Rows!Controller
<1>4. name \in 0..MaxNames /\ controller.name[r] <= name
      /\ (call[c].op # "rename" => name = controller.name[r])
  BY <1>1, <1>3, RowsAre
<1> HIDE DEF name
<1>5. /\ row \in Rows!CallRow /\ row.op = call[c].op /\ row.route = r /\ row.answered /\ row.name = name
      /\ row.local = call[c].local
  BY <1>4 DEF RowsInv, Rows!TypeOK, Rows!CallRow
<1>6. /\ names \in [Route -> 0..MaxNames] /\ names[r] = name
      /\ \A q \in Route : controller.name[q] \in 0..MaxNames /\ controller.name[q] <= names[q]
  BY <1>2, <1>3, <1>4, RowsAre DEF RowsInv, Rows!TypeOK, Rows!Controller
<1> HIDE DEF row, names
<1>7. /\ controller' \in Rows!Controller /\ controller'.name = names /\ controller'.row = controller.row
  BY <1>1, <1>6 DEF RowsInv, Rows!TypeOK, Rows!Controller
<1>8. RowsBecomes(c, row)
  BY <1>1, <1>5, RowsStartBecomes DEF RowsInv
<1>9. \A b \in Call : (call[b].op # "none")' => call'[b].route \in Route
  BY <1>2, <1>5, <1>8, RowsRoutesStay
<1>10. RowsLoadingInv'
  BY <1>1, <1>5, <1>8, RowsLoadingStays
<1>11. RowsExportInv'
  BY <1>1, <1>5, <1>8, RowsExportStays
<1>12. RowsRemovalInv' /\ Rows!HiddenRowIsWatched'
  BY <1>1, <1>5, <1>7, <1>8, RowsRemovalStays DEF RowsRemoves
<1>13. RowsNamesInv'
  <2>1. \A q \in Route : panel.told[q] \in 0..MaxNames /\ panel.told[q] <= names[q]
    BY <1>6 DEF RowsInv, RowsNamesInv, Rows!TypeOK, Rows!Panel
  <2>2. ASSUME NEW b \in Rows!Awaited("rename")', call'[b].answered
        PROVE  call'[b].name <= controller'.name[call'[b].route]
    <3>1. CASE b = c
      BY <1>4, <1>5, <1>6, <1>7, <1>8, <3>1, RowsAre DEF RowsBecomes
    <3>2. CASE b # c
      <4>1. call'[b] = call[b] /\ call[b].route \in Route /\ call[b].name \in 0..MaxNames
            /\ call[b].name <= controller.name[call[b].route]
        BY <1>8, <2>2, <3>2 DEF RowsBecomes, RowsInv, Rows!TypeOK, Rows!CallRow, RowsNamesInv,
           Rows!Awaited
      <4> QED
        BY <1>6, <1>7, <4>1, RowsAre
    <3> QED
      BY <3>1, <3>2
  <2>3. ASSUME NEW b \in (Rows!Awaited("summary") \cup Rows!Awaited("export"))', call'[b].answered,
               call'[b].route \notin panel.renamed
        PROVE  call'[b].name >= panel.told[call'[b].route]
    <3>1. CASE b = c
      <4>1. call[c].op # "rename"
        BY <1>5, <1>8, <2>3, <3>1 DEF RowsBecomes, Rows!Awaited
      <4> QED
        BY <1>2, <1>3, <1>4, <1>5, <1>8, <2>1, <1>6, <3>1, <4>1, RowsAre DEF RowsBecomes
    <3>2. CASE b # c
      BY <1>8, <2>3, <3>2 DEF RowsBecomes, RowsInv, RowsNamesInv, Rows!Awaited
    <3> QED
      BY <3>1, <3>2
  <2> QED
    BY <1>1, <1>7, <2>1, <2>2, <2>3 DEF RowsInv, RowsNamesInv
<1> QED
  BY <1>1, <1>7, <1>8, <1>9, <1>10, <1>11, <1>12, <1>13 DEF RowsInv, Rows!TypeOK, RowsBecomes

LEMMA RowsCleanupKeeps == ASSUME RowsInv, NEW r \in Route, Rows!CleanupEnds(r) PROVE RowsInv'
<1>1. UNCHANGED <<panel, call>> /\ controller.row[r] = "cleaning"
  BY DEF Rows!CleanupEnds
<1>2. PICK row \in {"active", "deleted"} : controller' = [controller EXCEPT !.row[r] = row]
  BY DEF Rows!CleanupEnds
<1>3. /\ controller' \in Rows!Controller /\ controller'.name = controller.name
      /\ \A q \in Route : controller.row[q] = "deleted" => controller'.row[q] = "deleted"
  BY <1>1, <1>2 DEF RowsInv, Rows!TypeOK, Rows!Controller
<1>4. RowsLoadingInv' /\ RowsExportInv' /\ RowsNamesInv' /\ RowsRemovalInv'
  BY <1>1, <1>3 DEF RowsInv, RowsLoadingInv, RowsExportInv, Rows!ExportIsOfItsRoute, RowsNamesInv,
     RowsRemovalInv,
                    Rows!LocalModeWasOffered, RowsLoads, RowsRemoves, Rows!Awaited
<1>5. Rows!HiddenRowIsWatched'
  BY <1>1, <1>3 DEF RowsInv, Rows!TypeOK, Rows!Panel, Rows!HiddenRowIsWatched, Rows!Awaited
<1> QED
  BY <1>1, <1>3, <1>4, <1>5 DEF RowsInv, Rows!TypeOK

-----------------------------------------------------------------------------
(* Continuations. *)

LEMMA RowsFinishBecomes ==
  ASSUME Rows!TypeOK, NEW c \in Call, Rows!Finish(c)
  PROVE  RowsBecomes(c, Rows!NoCall)
BY RowsNoCallIs, RowsStartBecomes DEF Rows!Finish

LEMMA RowsRequestFailsKeeps == ASSUME RowsInv, NEW c \in Call, Rows!RequestFails(c) PROVE RowsInv'
<1>1. /\ call[c].op \in {"summary", "export", "rename"} /\ UNCHANGED controller
      /\ panel' = IF call[c].op = "rename" THEN [panel EXCEPT !.saving = FALSE]
                  ELSE [panel EXCEPT !.loading = FALSE]
  BY DEF Rows!RequestFails
<1>2. RowsBecomes(c, Rows!NoCall)
  BY RowsFinishBecomes DEF Rows!RequestFails, RowsInv
<1>3. /\ panel' \in Rows!Panel /\ panel'.told = panel.told /\ panel'.renamed = panel.renamed
      /\ panel'.summary = panel.summary /\ panel'.export = panel.export
      /\ panel'.hidden = panel.hidden
      /\ call[c].op = "rename" => panel'.loading = panel.loading
      /\ panel'.offered = panel.offered /\ panel'.gaveUp = panel.gaveUp
      /\ panel'.exportFor = panel.exportFor
      /\ panel'.deleteFor = panel.deleteFor /\ panel'.local = panel.local
  BY <1>1 DEF RowsInv, Rows!TypeOK, Rows!Panel
<1>4. \A b \in Call : (call[b].op # "none")' => call'[b].route \in Route
  BY <1>2, RowsNoCallIs, RowsRoutesStay
<1>5. RowsLoadingInv'
  BY <1>1, <1>2, <1>3, RowsNoCallIs, RowsLoadingStays DEF RowsLoads
<1>6. RowsExportInv'
  BY <1>2, <1>3, RowsNoCallIs, RowsExportStays
<1>7. RowsNamesInv'
  BY <1>1, <1>2, <1>3, RowsNoCallIs, RowsNamesStay
<1>8. RowsRemovalInv' /\ Rows!HiddenRowIsWatched'
  BY <1>1, <1>2, <1>3, RowsNoCallIs, RowsRemovalStays DEF RowsRemoves
<1> QED
  BY <1>1, <1>2, <1>3, <1>4, <1>5, <1>6, <1>7, <1>8 DEF RowsInv, Rows!TypeOK, RowsBecomes

\* An answered summary or link bears a name that is still told, or was renamed.
LEMMA RowsAnswerIsNamed ==
  ASSUME RowsInv, NEW c \in Call, call[c].op \in {"summary", "export"}, call[c].answered
  PROVE  LET named == [route |-> call[c].route, name |-> call[c].name]
         IN named \in Rows!Named /\ named # None
              /\ (named.route \notin panel.renamed => named.name >= panel.told[named.route])
BY RowsAre DEF RowsInv, Rows!TypeOK, Rows!CallRow, RowsNamesInv, Rows!Awaited, Rows!Named

LEMMA RowsSummaryKeeps == ASSUME RowsInv, NEW c \in Call, Rows!SummaryLoaded(c) PROVE RowsInv'
<1> DEFINE named == [route |-> call[c].route, name |-> call[c].name]
<1>1. /\ call[c].op = "summary" /\ call[c].answered /\ UNCHANGED controller
      /\ panel' = [panel EXCEPT !.summary = named, !.loading = FALSE]
  BY DEF Rows!SummaryLoaded
<1>2. RowsBecomes(c, Rows!NoCall)
  BY RowsFinishBecomes DEF Rows!SummaryLoaded, RowsInv
<1>3. /\ named \in Rows!Named /\ named # None
      /\ named.route \notin panel.renamed => named.name >= panel.told[named.route]
  BY <1>1, RowsAnswerIsNamed
<1> HIDE DEF named
<1>4. /\ panel' \in Rows!Panel /\ panel'.told = panel.told /\ panel'.renamed = panel.renamed
      /\ panel'.summary = named /\ panel'.export = panel.export
      /\ panel'.hidden = panel.hidden
      /\ panel'.offered = panel.offered /\ panel'.gaveUp = panel.gaveUp
      /\ panel'.exportFor = panel.exportFor
      /\ panel'.deleteFor = panel.deleteFor /\ panel'.local = panel.local
  BY <1>1, <1>3 DEF RowsInv, Rows!TypeOK, Rows!Panel
<1>5. \A b \in Call : (call[b].op # "none")' => call'[b].route \in Route
  BY <1>2, RowsNoCallIs, RowsRoutesStay
<1>6. RowsLoadingInv'
  BY <1>1, <1>2, <1>4, RowsNoCallIs, RowsLoadingStays DEF RowsLoads
<1>7. RowsExportInv'
  BY <1>2, <1>4, RowsNoCallIs, RowsExportStays
<1>8. RowsNamesInv'
  <2>1. \A b \in Call : (call[b].op # "none")' => call'[b] = call[b]
    BY <1>2, RowsNoCallIs DEF RowsBecomes
  <2> QED
    BY <1>1, <1>3, <1>4, <2>1 DEF RowsInv, RowsNamesInv, Rows!Awaited
<1>9. RowsRemovalInv' /\ Rows!HiddenRowIsWatched'
  BY <1>1, <1>2, <1>4, RowsNoCallIs, RowsRemovalStays DEF RowsRemoves
<1> QED
  BY <1>1, <1>2, <1>4, <1>5, <1>6, <1>7, <1>8, <1>9 DEF RowsInv, Rows!TypeOK, RowsBecomes

LEMMA RowsExportedKeeps == ASSUME RowsInv, NEW c \in Call, Rows!CandidateExported(c) PROVE RowsInv'
<1> DEFINE named == [route |-> call[c].route, name |-> call[c].name]
           summary == IF panel.summary # None /\ panel.summary.route = call[c].route
                      THEN panel.summary ELSE named
<1>1. /\ call[c].op = "export" /\ call[c].answered /\ UNCHANGED controller
      /\ panel' = [panel EXCEPT !.export = named, !.loading = FALSE, !.summary = summary]
  BY DEF Rows!CandidateExported, RowsInv, Rows!TypeOK, Rows!Panel
<1>2. RowsBecomes(c, Rows!NoCall)
  BY RowsFinishBecomes DEF Rows!CandidateExported, RowsInv
<1>3. /\ named \in Rows!Named /\ named # None /\ named.route = call[c].route
      /\ named.route \notin panel.renamed => named.name >= panel.told[named.route]
  BY <1>1, RowsAnswerIsNamed
<1>4. summary \in {named, panel.summary} /\ summary # None /\ summary \in Rows!Named
  BY <1>3 DEF RowsInv, Rows!TypeOK, Rows!Panel
<1> HIDE DEF named, summary
<1>5. /\ panel' \in Rows!Panel /\ panel'.told = panel.told /\ panel'.renamed = panel.renamed
      /\ panel'.summary = summary /\ panel'.export = named
      /\ panel'.hidden = panel.hidden
      /\ panel'.offered = panel.offered /\ panel'.gaveUp = panel.gaveUp
      /\ panel'.exportFor = panel.exportFor
      /\ panel'.deleteFor = panel.deleteFor /\ panel'.local = panel.local
  BY <1>1, <1>3, <1>4 DEF RowsInv, Rows!TypeOK, Rows!Panel
<1>6. \A b \in Call : (call[b].op # "none")' => call'[b].route \in Route
  BY <1>2, RowsNoCallIs, RowsRoutesStay
<1>7. RowsLoadingInv'
  BY <1>1, <1>2, <1>5, RowsNoCallIs, RowsLoadingStays DEF RowsLoads
<1>8. RowsExportInv'
  <2>1. \A b \in Rows!Awaited("export")' : b \in Rows!Awaited("export") /\ call'[b] = call[b]
    BY <1>2, RowsNoCallIs DEF RowsBecomes, Rows!Awaited
  <2> QED
    BY <1>1, <1>3, <1>5, <2>1 DEF RowsInv, RowsExportInv, Rows!ExportIsOfItsRoute, Rows!Awaited
<1>9. RowsNamesInv'
  <2>1. \A b \in Call : (call[b].op # "none")' => call'[b] = call[b]
    BY <1>2, RowsNoCallIs DEF RowsBecomes
  <2> QED
    BY <1>1, <1>3, <1>4, <1>5, <2>1 DEF RowsInv, RowsNamesInv, Rows!Awaited
<1>10. RowsRemovalInv' /\ Rows!HiddenRowIsWatched'
  BY <1>1, <1>2, <1>5, RowsNoCallIs, RowsRemovalStays DEF RowsRemoves
<1> QED
  BY <1>1, <1>2, <1>5, <1>6, <1>7, <1>8, <1>9, <1>10 DEF RowsInv, Rows!TypeOK, RowsBecomes

\* Nothing of the route that is on its way or on display keeps an older name
\* unnoticed.
LEMMA RowsRenamedKeeps == ASSUME RowsInv, NEW c \in Call, Rows!RouteRenamed(c) PROVE RowsInv'
<1> DEFINE r == call[c].route
           n == call[c].name
           awaited == \E k \in Rows!Awaited("summary") \cup Rows!Awaited("export") : call[k].route = r
           renamed == IF awaited THEN panel.renamed \cup {r} ELSE panel.renamed \ {r}
           told == [panel.told EXCEPT ![r] = n]
           summary == IF panel.summary # None /\ panel.summary.route = r
                      THEN [panel.summary EXCEPT !.name = n] ELSE panel.summary
           export == IF panel.export # None /\ panel.export.route = r THEN None ELSE panel.export
           q == [panel EXCEPT !.edit = None, !.saving = FALSE, !.told = told, !.renamed = renamed,
                              !.summary = summary]
<1>1. /\ call[c].op = "rename" /\ call[c].answered /\ UNCHANGED controller
      /\ panel' = Rows!Forget(q, r)
  BY DEF Rows!RouteRenamed, RowsInv, Rows!TypeOK, Rows!Panel
<1>2. RowsBecomes(c, Rows!NoCall)
  BY RowsFinishBecomes DEF Rows!RouteRenamed, RowsInv
<1>3. r \in Route /\ n \in 0..MaxNames /\ n <= controller.name[r]
  BY <1>1 DEF RowsInv, Rows!TypeOK, Rows!CallRow, RowsNamesInv, Rows!Awaited
<1>4. /\ told \in [Route -> 0..MaxNames] /\ told[r] = n
      /\ \A s \in Route \ {r} : told[s] = panel.told[s]
  BY <1>3 DEF RowsInv, Rows!TypeOK, Rows!Panel
<1>5. renamed \in SUBSET Route /\ (awaited => r \in renamed)
      /\ \A s \in Route \ {r} : s \in renamed <=> s \in panel.renamed
  BY <1>3 DEF RowsInv, Rows!TypeOK, Rows!Panel
<1>6. /\ summary \in Rows!Named \cup {None}
      /\ summary # None => \/ summary.route = r /\ summary.name = n
                           \/ summary = panel.summary /\ summary.route # r
  BY <1>3, RowsAre DEF RowsInv, Rows!TypeOK, Rows!Panel, Rows!Named
<1>7. /\ export \in {panel.export, None} /\ (export # None => export.route # r)
  OBVIOUS
<1> HIDE DEF told, renamed, summary
<1>8. /\ q \in Rows!Panel /\ q.told = told /\ q.renamed = renamed /\ q.summary = summary
      /\ q.export = panel.export /\ q.hidden = panel.hidden /\ q.loading = panel.loading
      /\ q.offered = panel.offered /\ q.gaveUp = panel.gaveUp /\ q.exportFor = panel.exportFor
      /\ q.deleteFor = panel.deleteFor /\ q.local = panel.local
  BY <1>4, <1>5, <1>6 DEF RowsInv, Rows!TypeOK, Rows!Panel
<1>9. panel' = [q EXCEPT !.export = export]
  <2> HIDE DEF q
  <2>1. CASE panel.export # None /\ panel.export.route = r
    BY <1>1, <1>8, <2>1 DEF Rows!Forget
  <2>2. CASE ~(panel.export # None /\ panel.export.route = r)
    BY <1>1, <1>8, <2>2 DEF Rows!Forget, Rows!Panel
  <2> QED
    BY <2>1, <2>2
<1> HIDE DEF q, export
<1>10. /\ panel' \in Rows!Panel /\ panel'.told = told /\ panel'.renamed = renamed
       /\ panel'.summary = summary /\ panel'.export = export
       /\ panel'.hidden = panel.hidden /\ panel'.loading = panel.loading
       /\ panel'.offered = panel.offered /\ panel'.gaveUp = panel.gaveUp
       /\ panel'.exportFor = panel.exportFor
       /\ panel'.deleteFor = panel.deleteFor /\ panel'.local = panel.local
  BY <1>7, <1>8, <1>9 DEF RowsInv, Rows!TypeOK, Rows!Panel
<1>11. \A b \in Call : (call[b].op # "none")' => call'[b].route \in Route
  BY <1>2, RowsNoCallIs, RowsRoutesStay
<1>12. RowsLoadingInv'
  BY <1>1, <1>2, <1>10, RowsNoCallIs, RowsLoadingStays DEF RowsLoads
<1>13. RowsExportInv'
  BY <1>2, <1>7, <1>10, RowsNoCallIs, RowsExportStays
<1>14. RowsNamesInv'
  <2>1. \A b \in Call : (call[b].op # "none")' => call'[b] = call[b] /\ call[b].route \in Route
    BY <1>2, RowsNoCallIs DEF RowsBecomes, RowsInv
  <2>2. \A s \in Route : told[s] <= controller.name[s]
    BY <1>3, <1>4 DEF RowsInv, RowsNamesInv
  <2>3. \A b \in Rows!Awaited("rename")' : call'[b].answered => call'[b].name <= controller.name[call'[b].route]
    BY <2>1 DEF RowsInv, RowsNamesInv, Rows!Awaited
  <2>4. ASSUME NEW b \in (Rows!Awaited("summary") \cup Rows!Awaited("export"))', call'[b].answered,
               call'[b].route \notin renamed
        PROVE  call'[b].name >= told[call'[b].route]
    <3>1. call'[b] = call[b] /\ b \in Rows!Awaited("summary") \cup Rows!Awaited("export")
          /\ call[b].route \in Route
      BY <2>1 DEF Rows!Awaited
    <3>2. call[b].route # r
      BY <1>5, <2>4, <3>1
    <3> QED
      BY <1>4, <1>5, <2>4, <3>1, <3>2 DEF RowsInv, RowsNamesInv
  <2>5. summary # None /\ summary.route \notin renamed => summary.name >= told[summary.route]
    <3>1. CASE summary.route = r /\ summary.name = n
      BY <1>3, <1>4, <3>1
    <3>2. CASE summary # None /\ summary = panel.summary /\ summary.route # r
      <4>1. summary.route \in Route
        BY <1>6, <3>2 DEF Rows!Named
      <4> QED
        BY <1>4, <1>5, <3>2, <4>1 DEF RowsInv, RowsNamesInv
    <3> QED
      BY <1>6, <3>1, <3>2
  <2>6. export # None /\ export.route \notin renamed => export.name >= told[export.route]
    <3> SUFFICES ASSUME export # None, export.route \notin renamed
                 PROVE  export.name >= told[export.route]
      OBVIOUS
    <3>1. export = panel.export /\ export.route # r
      BY <1>7 DEF export
    <3>2. export.route \in Route
      BY <3>1 DEF RowsInv, Rows!TypeOK, Rows!Panel, Rows!Named
    <3> QED
      BY <1>4, <1>5, <3>1, <3>2 DEF RowsInv, RowsNamesInv
  <2> QED
    BY <1>1, <1>10, <2>2, <2>3, <2>4, <2>5, <2>6 DEF RowsNamesInv
<1>15. RowsRemovalInv' /\ Rows!HiddenRowIsWatched'
  BY <1>1, <1>2, <1>10, RowsNoCallIs, RowsRemovalStays DEF RowsRemoves
<1> QED
  BY <1>1, <1>2, <1>10, <1>11, <1>12, <1>13, <1>14, <1>15 DEF RowsInv, Rows!TypeOK, RowsBecomes

-----------------------------------------------------------------------------
(* The removal. *)

LEMMA RowsTakeDeleteIs ==
  ASSUME RowsInv, NEW c \in Call, call[c].op = "delete", Rows!TakeDelete(c)
  PROVE  /\ controller' \in Rows!Controller /\ controller'.name = controller.name
         /\ \A q \in Route : controller.row[q] = "deleted" => controller'.row[q] = "deleted"
         /\ call[c].local => controller'.row[call[c].route] = "deleted"
<1> DEFINE r == call[c].route
           row == IF call[c].local THEN "deleted" ELSE "cleaning"
<1>1. controller.row[r] = "active" /\ controller' = [controller EXCEPT !.row[r] = row]
  BY DEF Rows!TakeDelete
<1>2. r \in Route
  BY DEF RowsInv
<1> QED
  BY <1>1, <1>2 DEF RowsInv, Rows!TypeOK, Rows!Controller

LEMMA RowsDeleteRefusedKeeps == ASSUME RowsInv, NEW c \in Call, Rows!DeleteRefused(c) PROVE RowsInv'
<1> DEFINE r == call[c].route
           hidden == panel.hidden \ {r}
<1>1. call[c].op = "delete" /\ (Rows!TakeDelete(c) \/ UNCHANGED controller)
  BY DEF Rows!DeleteRefused
<1>2. RowsBecomes(c, Rows!NoCall)
  BY RowsFinishBecomes DEF Rows!DeleteRefused, RowsInv
<1>3. PICK local \in BOOLEAN, offered \in SUBSET Route :
        /\ panel' = [panel EXCEPT !.hidden = hidden, !.loading = FALSE, !.local = local,
                                  !.offered = offered]
        /\ panel.offered \subseteq offered
        /\ local => r \in offered \/ panel.local
  <2>1. CASE panel' = [[panel EXCEPT !.hidden = @ \ {r}, !.loading = FALSE]
                         EXCEPT !.local = TRUE, !.offered = @ \cup {r}]
    <3> DEFINE offered == panel.offered \cup {r}
    <3>1. panel' = [panel EXCEPT !.hidden = hidden, !.loading = FALSE, !.local = TRUE,
                                 !.offered = offered]
      BY <2>1 DEF RowsInv, Rows!TypeOK, Rows!Panel
    <3>2. offered \in SUBSET Route /\ r \in offered /\ panel.offered \subseteq offered
      BY <1>1 DEF RowsInv, Rows!TypeOK, Rows!Panel
    <3> HIDE DEF offered
    <3> QED
      BY <3>1, <3>2
  <2>2. CASE panel' = [panel EXCEPT !.hidden = @ \ {r}, !.loading = FALSE]
    <3>1. panel' = [panel EXCEPT !.hidden = hidden, !.loading = FALSE, !.local = panel.local,
                                 !.offered = panel.offered]
      BY <2>2 DEF RowsInv, Rows!TypeOK, Rows!Panel
    <3> QED
      BY <3>1 DEF RowsInv, Rows!TypeOK, Rows!Panel
  <2> QED
    BY <2>1, <2>2 DEF Rows!DeleteRefused
<1>4. r \in Route /\ hidden \in SUBSET Route /\ panel.deleteFor = r
  BY <1>1 DEF RowsInv, Rows!TypeOK, Rows!Panel, RowsRemovalInv, Rows!Awaited
<1>5. /\ panel' \in Rows!Panel /\ panel'.told = panel.told /\ panel'.renamed = panel.renamed
      /\ panel'.summary = panel.summary /\ panel'.export = panel.export
      /\ panel'.hidden = hidden
      /\ panel'.offered = offered /\ panel'.gaveUp = panel.gaveUp
      /\ panel'.exportFor = panel.exportFor
      /\ panel'.deleteFor = panel.deleteFor /\ panel'.local = local
  <2> HIDE DEF hidden
  <2> QED
    BY <1>3, <1>4 DEF RowsInv, Rows!TypeOK, Rows!Panel
<1>6. /\ controller' \in Rows!Controller /\ controller'.name = controller.name
      /\ \A q \in Route : controller.row[q] = "deleted" => controller'.row[q] = "deleted"
  BY <1>1, RowsTakeDeleteIs DEF RowsInv, Rows!TypeOK
<1>7. \A b \in Call : (call[b].op # "none")' => call'[b].route \in Route
  BY <1>2, RowsNoCallIs, RowsRoutesStay
<1>8. RowsLoadingInv'
  BY <1>1, <1>2, RowsNoCallIs, RowsLoadingStays DEF RowsLoads
<1>9. RowsExportInv'
  BY <1>2, <1>5, RowsNoCallIs, RowsExportStays
<1>10. RowsNamesInv'
  BY <1>2, <1>5, <1>6, RowsNoCallIs, RowsNamesStay
<1>11. \A b \in Call : RowsRemoves(b)' => b # c /\ RowsRemoves(b) /\ call'[b] = call[b]
  BY <1>2, RowsNoCallIs DEF RowsBecomes, RowsRemoves
<1>12. \A b \in Call \ {c} : RowsRemoves(b) => call[b].route # r
  BY <1>1 DEF RowsInv, RowsRemovalInv, RowsRemoves
<1>13. RowsRemovalInv'
  <2>1. \A b \in Rows!Awaited("delete")' : FALSE
    BY <1>1, <1>11 DEF RowsInv, RowsLoadingInv, RowsLoads, RowsRemoves, Rows!Awaited
  <2>2. Rows!LocalModeWasOffered'
    BY <1>3, <1>4, <1>5, <2>1 DEF RowsInv, RowsRemovalInv, Rows!LocalModeWasOffered
  <2>3. \A b \in Call : RowsRemoves(b)' => call'[b].route \in panel'.hidden
    BY <1>5, <1>11, <1>12 DEF RowsInv, RowsRemovalInv
  <2> QED
    BY <1>11, <2>1, <2>2, <2>3 DEF RowsInv, RowsRemovalInv
<1>14. Rows!HiddenRowIsWatched'
  <2>1. \A b \in Rows!Awaited("delete") \cup Rows!Awaited("watch") : call[b].route # r =>
          b \in (Rows!Awaited("delete") \cup Rows!Awaited("watch"))' /\ call'[b] = call[b]
    BY <1>2 DEF Rows!Awaited, RowsBecomes
  <2> QED
    BY <1>4, <1>5, <1>6, <2>1 DEF RowsInv, Rows!HiddenRowIsWatched
<1> QED
  BY <1>2, <1>5, <1>6, <1>7, <1>8, <1>9, <1>10, <1>13, <1>14 DEF RowsInv, Rows!TypeOK, RowsBecomes

LEMMA RowsDeleteAcceptedKeeps ==
  ASSUME RowsInv, NEW c \in Call, Rows!DeleteAccepted(c) PROVE RowsInv'
<1> DEFINE r == call[c].route
           watch == [Rows!NoCall EXCEPT !.op = "watch", !.route = r]
<1>1. /\ call[c].op = "delete" /\ Rows!TakeDelete(c)
      /\ panel' = [panel EXCEPT !.deleteFor = None, !.local = FALSE, !.summary = None,
                                !.export = None, !.loading = FALSE]
  BY DEF Rows!DeleteAccepted
<1>2. r \in Route
  BY <1>1 DEF RowsInv
<1>3. watch \in Rows!CallRow /\ watch.op = "watch" /\ watch.route = r
  BY <1>2, RowsNoCallIs DEF Rows!CallRow, Rows!NoCall
<1>4. PICK row \in Rows!CallRow :
        /\ RowsBecomes(c, row) /\ row.op \in {"none", "watch"}
        /\ row.op = "watch" => row.route = r
        /\ row.op = "none" => controller'.row[r] = "deleted"
  <2>1. CASE call[c].local
    <3>1. RowsBecomes(c, Rows!NoCall)
      BY <2>1, RowsFinishBecomes DEF Rows!DeleteAccepted, RowsInv
    <3>2. controller'.row[r] = "deleted"
      BY <1>1, <2>1, RowsTakeDeleteIs
    <3> HIDE DEF watch, r
    <3> QED
      BY <3>1, <3>2, RowsNoCallIs
  <2>2. CASE ~call[c].local
    <3>1. call' = [call EXCEPT ![c] = watch]
      BY <2>2 DEF Rows!DeleteAccepted
    <3> HIDE DEF watch, r
    <3> QED
      BY <1>3, <3>1, RowsStartBecomes DEF RowsInv
  <2> QED
    BY <2>1, <2>2
<1>5. /\ panel' \in Rows!Panel /\ panel'.told = panel.told /\ panel'.renamed = panel.renamed
      /\ panel'.summary = None /\ panel'.export = None
      /\ panel'.hidden = panel.hidden
      /\ panel'.offered = panel.offered /\ panel'.gaveUp = panel.gaveUp
      /\ panel'.exportFor = panel.exportFor
      /\ panel'.deleteFor = None /\ panel'.local = FALSE
  BY <1>1 DEF RowsInv, Rows!TypeOK, Rows!Panel
<1>6. /\ controller' \in Rows!Controller /\ controller'.name = controller.name
      /\ \A q \in Route : controller.row[q] = "deleted" => controller'.row[q] = "deleted"
      /\ call[c].local => controller'.row[r] = "deleted"
  BY <1>1, RowsTakeDeleteIs
<1> HIDE DEF r
<1>7. \A b \in Call : (call[b].op # "none")' => call'[b].route \in Route
  BY <1>2, <1>4, RowsRoutesStay
<1>8. RowsLoadingInv'
  BY <1>1, <1>4, RowsLoadingStays DEF RowsLoads
<1>9. RowsExportInv'
  BY <1>4, <1>5, RowsExportStays
<1>10. RowsNamesInv'
  BY <1>4, <1>5, <1>6, RowsNamesStay
<1>11. \A b \in Call : RowsRemoves(b)' => RowsRemoves(b) /\ call'[b].route = call[b].route
  BY <1>1, <1>4 DEF RowsBecomes, RowsRemoves, r
<1>12. RowsRemovalInv'
  <2>1. \A b \in Rows!Awaited("delete")' : b # c /\ RowsLoads(b)
    BY <1>4 DEF Rows!Awaited, RowsBecomes, RowsLoads
  <2>2. \A b \in Rows!Awaited("delete")' : FALSE
    BY <1>1, <2>1 DEF RowsInv, RowsLoadingInv, RowsLoads, Rows!Awaited
  <2> QED
    BY <1>5, <1>11, <2>2 DEF RowsInv, RowsRemovalInv, Rows!LocalModeWasOffered
<1>13. Rows!HiddenRowIsWatched'
  <2>1. \A b \in Rows!Awaited("delete") \cup Rows!Awaited("watch") :
          \/ b \in (Rows!Awaited("delete") \cup Rows!Awaited("watch"))' /\ call'[b].route = call[b].route
          \/ b = c /\ controller'.row[call[b].route] = "deleted"
    BY <1>4, <1>6 DEF Rows!Awaited, RowsBecomes, r
  <2>2. panel.hidden \subseteq Route
    BY DEF RowsInv, Rows!TypeOK, Rows!Panel
  <2> QED
    BY <1>5, <1>6, <2>1, <2>2 DEF RowsInv, Rows!HiddenRowIsWatched
<1> QED
  BY <1>4, <1>5, <1>6, <1>7, <1>8, <1>9, <1>10, <1>12, <1>13 DEF RowsInv, Rows!TypeOK, RowsBecomes

LEMMA RowsWatchEndsKeeps == ASSUME RowsInv, NEW c \in Call, Rows!WatchEnds(c) PROVE RowsInv'
<1> DEFINE r == call[c].route
           hidden == IF controller.row[r] = "deleted" THEN panel.hidden ELSE panel.hidden \ {r}
<1>1. /\ call[c].op = "watch" /\ UNCHANGED controller /\ r \in Route
      /\ panel' = [panel EXCEPT !.hidden = hidden]
  BY DEF Rows!WatchEnds, RowsInv, Rows!TypeOK, Rows!Panel
<1>2. RowsBecomes(c, Rows!NoCall)
  BY RowsFinishBecomes DEF Rows!WatchEnds, RowsInv
<1>3. /\ hidden \in SUBSET Route /\ hidden \subseteq panel.hidden
      /\ panel.hidden \ {r} \subseteq hidden
      /\ r \in hidden => controller.row[r] = "deleted"
  BY DEF RowsInv, Rows!TypeOK, Rows!Panel
<1> HIDE DEF hidden
<1>4. /\ panel' \in Rows!Panel /\ panel'.told = panel.told /\ panel'.renamed = panel.renamed
      /\ panel'.summary = panel.summary /\ panel'.export = panel.export
      /\ panel'.hidden = hidden /\ panel'.loading = panel.loading
      /\ panel'.offered = panel.offered /\ panel'.gaveUp = panel.gaveUp
      /\ panel'.exportFor = panel.exportFor
      /\ panel'.deleteFor = panel.deleteFor /\ panel'.local = panel.local
  BY <1>1, <1>3 DEF RowsInv, Rows!TypeOK, Rows!Panel
<1>5. \A b \in Call : (call[b].op # "none")' => call'[b].route \in Route
  BY <1>2, RowsNoCallIs, RowsRoutesStay
<1>6. RowsLoadingInv'
  BY <1>2, <1>4, RowsNoCallIs, RowsLoadingStays
<1>7. RowsExportInv'
  BY <1>2, <1>4, RowsNoCallIs, RowsExportStays
<1>8. RowsNamesInv'
  BY <1>1, <1>2, <1>4, RowsNoCallIs, RowsNamesStay
<1>9. \A b \in Call : RowsRemoves(b)' => b # c /\ RowsRemoves(b) /\ call'[b] = call[b]
  BY <1>2, RowsNoCallIs DEF RowsBecomes, RowsRemoves
<1>10. RowsRemovalInv'
  <2>1. \A b \in Call \ {c} : RowsRemoves(b) => call[b].route # r
    BY <1>1 DEF RowsInv, RowsRemovalInv, RowsRemoves
  <2>2. \A b \in Call : RowsRemoves(b)' => call'[b].route \in panel'.hidden
    BY <1>3, <1>4, <1>9, <2>1 DEF RowsInv, RowsRemovalInv
  <2>3. \A b \in Rows!Awaited("delete")' : b \in Rows!Awaited("delete") /\ call'[b] = call[b]
    BY <1>9 DEF Rows!Awaited, RowsRemoves
  <2> QED
    BY <1>4, <1>9, <2>2, <2>3 DEF RowsInv, RowsRemovalInv, Rows!LocalModeWasOffered
<1>11. Rows!HiddenRowIsWatched'
  <2>1. \A b \in Rows!Awaited("delete") \cup Rows!Awaited("watch") : call[b].route # r =>
          b \in (Rows!Awaited("delete") \cup Rows!Awaited("watch"))' /\ call'[b] = call[b]
    BY <1>2 DEF Rows!Awaited, RowsBecomes
  <2> QED
    BY <1>1, <1>3, <1>4, <2>1 DEF RowsInv, Rows!HiddenRowIsWatched
<1> QED
  BY <1>1, <1>2, <1>4, <1>5, <1>6, <1>7, <1>8, <1>10, <1>11 DEF RowsInv, Rows!TypeOK, RowsBecomes

LEMMA RowsWatchGoesOnKeeps == ASSUME RowsInv, NEW c \in Call, Rows!WatchGoesOn(c) PROVE RowsInv'
<1> DEFINE r == call[c].route
<1>1. call[c].op = "watch" /\ UNCHANGED controller /\ r \in Route
  BY DEF Rows!WatchGoesOn, RowsInv
<1>2. PICK row \in Rows!CallRow :
        /\ RowsBecomes(c, row)
        /\ \/ row.op = "watch" /\ row.route = r /\ UNCHANGED panel
           \/ row.op = "none" /\ panel' = [panel EXCEPT !.gaveUp = panel.gaveUp \cup {r}]
  <2>1. CASE /\ call[c].n + 1 < MaxPolls
             /\ call' = [call EXCEPT ![c].n = @ + 1] /\ UNCHANGED panel
    <3> DEFINE row == [call[c] EXCEPT !.n = @ + 1]
    <3>1. call' = [call EXCEPT ![c] = row]
      BY <2>1 DEF RowsInv, Rows!TypeOK
    <3>2. call[c].n \in 0..MaxPolls
      BY DEF RowsInv, Rows!TypeOK, Rows!CallRow
    <3>3. call[c].n + 1 \in 0..MaxPolls
      BY <2>1, <3>2, RowsAre
    <3>4. row \in Rows!CallRow /\ row.op = "watch" /\ row.route = r
      BY <1>1, <3>3 DEF RowsInv, Rows!TypeOK, Rows!CallRow
    <3> HIDE DEF row
    <3> QED
      BY <2>1, <3>1, <3>4, RowsStartBecomes DEF RowsInv
  <2>2. CASE panel' = [panel EXCEPT !.gaveUp = @ \cup {call[c].route}] /\ Rows!Finish(c)
    <3>1. panel' = [panel EXCEPT !.gaveUp = panel.gaveUp \cup {r}]
      BY <2>2 DEF RowsInv, Rows!TypeOK, Rows!Panel
    <3> QED
      BY <2>2, <3>1, RowsNoCallIs, RowsFinishBecomes DEF RowsInv
  <2> QED
    BY <2>1, <2>2 DEF Rows!WatchGoesOn
<1>3. /\ panel' \in Rows!Panel /\ panel'.told = panel.told /\ panel'.renamed = panel.renamed
      /\ panel'.summary = panel.summary /\ panel'.export = panel.export
      /\ panel'.hidden = panel.hidden /\ panel'.loading = panel.loading
      /\ panel'.offered = panel.offered /\ panel.gaveUp \subseteq panel'.gaveUp
      /\ panel'.exportFor = panel.exportFor
      /\ panel'.deleteFor = panel.deleteFor /\ panel'.local = panel.local
      /\ row.op = "none" => r \in panel'.gaveUp
  BY <1>1, <1>2 DEF RowsInv, Rows!TypeOK, Rows!Panel
<1> HIDE DEF r
<1>4. \A b \in Call : (call[b].op # "none")' => call'[b].route \in Route
  BY <1>1, <1>2, RowsRoutesStay
<1>5. RowsLoadingInv'
  BY <1>2, <1>3, RowsLoadingStays
<1>6. RowsExportInv'
  BY <1>2, <1>3, RowsExportStays
<1>7. RowsNamesInv'
  BY <1>1, <1>2, <1>3, RowsNamesStay
<1>8. \A b \in Call : RowsRemoves(b)' => RowsRemoves(b) /\ call'[b].route = call[b].route
  BY <1>1, <1>2 DEF RowsBecomes, RowsRemoves, r
<1>9. RowsRemovalInv'
  <2>1. \A b \in Rows!Awaited("delete")' : b \in Rows!Awaited("delete") /\ call'[b] = call[b]
    BY <1>2 DEF Rows!Awaited, RowsBecomes
  <2> QED
    BY <1>3, <1>8, <2>1 DEF RowsInv, RowsRemovalInv, Rows!LocalModeWasOffered
<1>10. Rows!HiddenRowIsWatched'
  <2>1. \A b \in Rows!Awaited("delete") \cup Rows!Awaited("watch") :
          \/ b \in (Rows!Awaited("delete") \cup Rows!Awaited("watch"))' /\ call'[b].route = call[b].route
          \/ call[b].route \in panel'.gaveUp
    BY <1>2, <1>3 DEF Rows!Awaited, RowsBecomes, r
  <2> QED
    BY <1>1, <1>3, <2>1 DEF RowsInv, Rows!HiddenRowIsWatched
<1> QED
  BY <1>1, <1>2, <1>3, <1>4, <1>5, <1>6, <1>7, <1>9, <1>10 DEF RowsInv, Rows!TypeOK, RowsBecomes

-----------------------------------------------------------------------------
LEMMA RowsNext == ASSUME RowsInv, [Rows!Next]_(Rows!vars) PROVE RowsInv'
<1>1. CASE UNCHANGED Rows!vars
  BY <1>1 DEF Rows!vars, RowsInv, Rows!TypeOK, RowsLoadingInv, RowsExportInv,
     Rows!ExportIsOfItsRoute, RowsNamesInv, RowsRemovalInv, Rows!LocalModeWasOffered,
     Rows!HiddenRowIsWatched, RowsLoads, RowsRemoves, Rows!Awaited
<1>2. CASE Rows!Next
  BY <1>2, RowsExportKeeps, RowsSubmitEditKeeps, RowsSubmitDeleteKeeps, RowsAnswerKeeps,
     RowsRequestFailsKeeps, RowsSummaryKeeps, RowsExportedKeeps, RowsRenamedKeeps,
     RowsDeleteRefusedKeeps, RowsDeleteAcceptedKeeps, RowsWatchEndsKeeps, RowsWatchGoesOnKeeps,
     RowsLoadSummaryKeeps, RowsOpenKeeps, RowsCleanupKeeps, RowsCloseKeeps DEF Rows!Next
<1> QED
  BY <1>1, <1>2

LEMMA RowsHolds ==
  ASSUME RowsInv
  PROVE  Rows!ExportIsOfItsRoute /\ Rows!NamesAgree /\ Rows!LocalModeWasOffered /\ Rows!HiddenRowIsWatched
BY DEF RowsInv, RowsExportInv, RowsRemovalInv, RowsNamesInv, Rows!NamesAgree, Rows!SummaryShown

-----------------------------------------------------------------------------
(* The transit panels: the three parts. *)

TransitPanelsInv ==
  /\ mode = "servers" => ServersInv
  /\ mode = "create" => CreateInv
  /\ mode = "rows" => RowsInv

LEMMA TransitPanelsInit == TransitInit => TransitPanelsInv
BY ServersInit, CreateInit, RowsInit DEF TransitInit, TransitPanelsInv

LEMMA TransitPanelsKeep ==
  ASSUME TransitPanelsInv, [TransitNext]_vars
  PROVE  TransitPanelsInv' /\ (mode = "servers" => Servers!UpgradeIsAwaitedAction)
<1>1. mode' = mode
  BY DEF TransitNext, vars
<1>2. CASE mode = "servers"
  <2>1. [Servers!Next]_(Servers!vars)
    BY <1>2 DEF TransitNext, vars, Servers!vars
  <2> QED
    BY <1>1, <1>2, <2>1, ServersNext DEF TransitPanelsInv
<1>3. CASE mode = "create"
  <2>1. [Create!Next]_(Create!vars)
    BY <1>3 DEF TransitNext, vars, Create!vars
  <2> QED
    BY <1>1, <1>3, <2>1, CreateNext DEF TransitPanelsInv
<1>4. CASE mode = "rows"
  <2>1. [Rows!Next]_(Rows!vars)
    BY <1>4 DEF TransitNext, vars, Rows!vars
  <2> QED
    BY <1>1, <1>4, <2>1, RowsNext DEF TransitPanelsInv
<1> QED
  BY <1>1, <1>2, <1>3, <1>4 DEF TransitPanelsInv

LEMMA TransitPanelsRunInv == TransitSpec => []TransitPanelsInv
<1>1. TransitPanelsInv /\ [TransitNext]_vars => TransitPanelsInv'
  BY TransitPanelsKeep
<1> QED
  BY <1>1, TransitPanelsInit, PTL DEF TransitSpec

\* However answers, timers and modals overtake each other, an install command, the
\* worker its polling announces, the mode of that polling and its close timer stay
\* with the server of the modal, an upgrade is announced only where one is awaited,
\* a creation and its link stay with one flow, and the exported link and the names
\* with the route on display (what overlapping requests excuse, the properties of
\* the parts say).
THEOREM TransitAnswersKeepToTheirOwner == TransitSpec => AnswersKeepToTheirOwner
<1>1. TransitPanelsInv => /\ mode = "servers" => /\ Servers!PreviewIsOfItsServer
                                                 /\ Servers!GenerationsTakeTurns
                                                 /\ Servers!CommandIsKeptForItsWorker
                          /\ mode = "create" => Create!LinkIsOfItsRoute /\ Create!OneFlowPerModal
                          /\ mode = "rows" => Rows!ExportIsOfItsRoute /\ Rows!NamesAgree
  BY ServersHolds, CreateHolds, RowsHolds DEF TransitPanelsInv
<1>2. TransitPanelsInv /\ [TransitNext]_vars => (mode = "servers" => Servers!UpgradeIsAwaitedAction)
  BY TransitPanelsKeep
<1> QED
  BY <1>1, <1>2, TransitPanelsRunInv, PTL DEF TransitSpec, AnswersKeepToTheirOwner

\* What the modal of a creation says is so: no command ran for a port whose
\* firewalls nobody confirmed, the route it shows is new and was created by a
\* command that succeeded, and a failure leaves no link of before on display.
THEOREM CreationOutcomeIsTold == TransitSpec => []Create_OutcomeIsTold
<1>1. TransitPanelsInv => Create_OutcomeIsTold
  BY CreateHolds DEF TransitPanelsInv, Create_OutcomeIsTold
<1> QED
  BY <1>1, TransitPanelsRunInv, PTL

\* A server or route that is being deleted stays hidden only while a request or a
\* watch is out that brings it back unless it is gone, and a route is removed
\* without its worker only where that was offered for it.
THEOREM DeletedRowsAreHidden == TransitSpec => []DeletedIsHidden
<1>1. TransitPanelsInv => DeletedIsHidden
  BY ServersHolds, RowsHolds DEF TransitPanelsInv, DeletedIsHidden
<1> QED
  BY <1>1, TransitPanelsRunInv, PTL
=============================================================================
