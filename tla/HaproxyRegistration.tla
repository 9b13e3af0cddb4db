------------------------ MODULE HaproxyRegistration -------------------------
(***************************************************************************)
(* The protected registration of AdvancedHaproxyDebugPanel                 *)
(* (frontend/components): a draft for the selected dry-run candidate, its  *)
(* dry run, the approval of the dry run, a pending command made from the   *)
(* approval, and the execution of the command, which records a transit     *)
(* resource and a landing node.  Each stage works from the result of the   *)
(* one before, or from one that was copied earlier and is pasted as text.  *)
(*                                                                         *)
(* A candidate stands for the place, host and port, of what is registered; *)
(* the rest of the draft is the name it gets.  The texts and the ticks of  *)
(* a stage are given right before its request, with the pasted text; the   *)
(* CSRF token is fetched as part of a request.  The controller             *)
(* (backend/app/api/routes/transit_routes.py) creates and executes in two  *)
(* steps, and goes on when the panel no longer waits.                      *)
(***************************************************************************)
EXTENDS Integers, FiniteSets

CONSTANTS Candidate, Name, Call, MaxCommands, None

VARIABLES panel, call, controller

vars == <<panel, call, controller>>

Draft == [of : Candidate, name : Name]
Command == 1..MaxCommands

\* name is what the draft has so far; dryRun, approval, command: the results on
\* display, "aside" when they were made from a pasted text or the draft changed
\* while they were awaited; commandId: the id of the last stage, typed or filled in.
\* History: "reviewed" and "approved" are the drafts whose ready results were
\* shown, any of which may have been copied.
Result == [draft : Draft, aside : BOOLEAN]
Panel == [selected : Candidate \cup {None}, name : Name \cup {None},
          dryRun : Result \cup {None}, approval : Result \cup {None},
          command : Result \cup {None}, commandId : Command \cup {None},
          reviewed : SUBSET Draft, approved : SUBSET Draft]

\* awaited: the panel still waits for it; at: how far the controller is, with the
\* command or the records it found.
CallRow == [op : {"none", "dry_run", "approval", "create", "execute"},
            draft : Draft \cup {None}, id : Command \cup {None},
            awaited : BOOLEAN, aside : BOOLEAN, at : {"sent", "checked"},
            found : {"none", "resource", "both"}]

NoCall == [op |-> "none", draft |-> None, id |-> None, awaited |-> FALSE, aside |-> FALSE,
           at |-> "sent", found |-> "none"]

\* resources counts the records of each draft; nodes has at most one of a place.
\* History: "overlapped" that two creations ran at once.
Controller == [commands : [Command -> [draft : Draft, executed : BOOLEAN] \cup {None}],
               resources : [Draft -> 0..2], nodes : SUBSET Draft, overlapped : BOOLEAN]

TypeOK == panel \in Panel /\ call \in [Call -> CallRow] /\ controller \in Controller

Init ==
  /\ panel = [selected |-> None, name |-> None, dryRun |-> None, approval |-> None,
              command |-> None, commandId |-> None, reviewed |-> {}, approved |-> {}]
  /\ call = [c \in Call |-> NoCall]
  /\ \E known \in SUBSET Draft :  \* the resource of an offline worker, without a node
       /\ Cardinality(known) <= 1
       /\ controller = [commands |-> [i \in Command |-> None], nodes |-> {}, overlapped |-> FALSE,
                        resources |-> [d \in Draft |-> IF d \in known THEN 1 ELSE 0]]

-----------------------------------------------------------------------------
Loading(op) == \E c \in Call : call[c].op = op /\ call[c].awaited
Running(op) == \E c \in Call : call[c].op = op
Finish(c) == call' = [call EXCEPT ![c] = NoCall]

\* The draft on display, and whether every field of it is given.
Displayed == [of |-> panel.selected, name |-> panel.name]
DraftReady == panel.selected # None /\ panel.name # None
Of(result) == IF result = None THEN None ELSE result.draft

Start(c, op, draft, id) ==
  /\ call[c].op = "none"
  /\ call' = [call EXCEPT ![c] = [NoCall EXCEPT !.op = op, !.draft = draft, !.id = id,
                !.awaited = TRUE, !.aside = op # "execute" /\ draft # Displayed]]

\* The draft changes; what is awaited comes aside of it.
DraftBecomes(p) ==
  /\ panel' = p
  /\ call' = [c \in Call |-> [call[c] EXCEPT !.aside = call[c].op \notin {"none", "execute"}]]
  /\ UNCHANGED controller

-----------------------------------------------------------------------------
(* What clears what. *)

ClearedCommand(p) == [p EXCEPT !.command = None, !.commandId = None]
ClearedApproval(p) == ClearedCommand([p EXCEPT !.approval = None])
ClearedDraft(p) == ClearedApproval([p EXCEPT !.name = None, !.dryRun = None])

\* Another candidate takes every stage back (the effect on its id).
SelectCandidate(d) ==
  /\ d # panel.selected
  /\ DraftBecomes([ClearedDraft(panel) EXCEPT !.selected = d])

ClearDraft ==
  /\ panel.name # None
  /\ DraftBecomes(ClearedDraft(panel))

ClearApproval ==
  /\ panel # ClearedApproval(panel)
  /\ panel' = ClearedApproval(panel)
  /\ UNCHANGED <<call, controller>>

ClearCommand ==
  /\ panel # ClearedCommand(panel)
  /\ panel' = ClearedCommand(panel)
  /\ UNCHANGED <<call, controller>>

ClearExecution ==
  /\ panel.commandId # None
  /\ panel' = [panel EXCEPT !.commandId = None]
  /\ UNCHANGED <<call, controller>>

DraftShown == panel.selected # None

\* A new field: the results go, the texts and the id stay.
UpdateDraft(n) ==
  /\ DraftShown
  /\ n # panel.name
  /\ DraftBecomes([panel EXCEPT !.name = n, !.dryRun = None, !.approval = None,
                                !.command = None])

-----------------------------------------------------------------------------
(* The requests. *)

\* The forms of the four stages, and what each may work from: the result on
\* display, or one that was copied.
DryRunOffered == DraftReady /\ ~Loading("dry_run")

DryRunSource == ({Of(panel.dryRun)} \ {None}) \cup panel.reviewed
ApprovalOffered == DryRunSource # {} /\ ~Loading("approval")

ApprovalSource == ({Of(panel.approval)} \ {None}) \cup panel.approved
CreateOffered == ApprovalSource # {} /\ ~Loading("create")

\* The result of some creation opens the stage, the id is the one in the field.
CommandSource == {panel.command} \ {None}
ExecutionOffered == CommandSource # {} /\ panel.commandId # None /\ ~Loading("execute")

RunDryRun(c) ==
  /\ DryRunOffered
  /\ Start(c, "dry_run", Displayed, None)
  /\ UNCHANGED <<panel, controller>>

RunApproval(c) ==
  /\ ApprovalOffered
  /\ \E d \in DryRunSource : Start(c, "approval", d, None)
  /\ UNCHANGED <<panel, controller>>

RunCommandCreate(c) ==
  /\ CreateOffered
  /\ \E d \in ApprovalSource : Start(c, "create", d, None)
  /\ UNCHANGED panel
  /\ controller' = [controller EXCEPT !.overlapped = @ \/ Running("create")]

\* The id of a command is typed over the one on display.
TypeCommandId(id) ==
  /\ controller.commands[id] # None /\ id # panel.commandId
  /\ panel' = [panel EXCEPT !.commandId = id]
  /\ UNCHANGED <<call, controller>>

RunExecutionVerify(c) ==
  /\ ExecutionOffered
  /\ Start(c, "execute", None, panel.commandId)
  /\ UNCHANGED <<panel, controller>>

\* The fetch rejects: the panel no longer waits; the controller goes on where it
\* has something to write.
GivesUp(c) ==
  /\ call[c].awaited
  /\ IF call[c].op \in {"create", "execute"}
     THEN call' = [call EXCEPT ![c].awaited = FALSE, ![c].aside = FALSE]
     ELSE Finish(c)
  /\ UNCHANGED <<panel, controller>>

Answered(c, p) ==
  /\ panel' = IF call[c].awaited THEN p ELSE panel
  /\ Finish(c)

-----------------------------------------------------------------------------
(* The answers. *)

ResultOf(c) == [draft |-> call[c].draft, aside |-> call[c].aside]

\* Ready, unless its place or its name has an active record (a node has one
\* with it); whatever draft is on display.
DryRunAnswered(c) ==
  LET d == call[c].draft
      ready == \A n \in controller.nodes : n.of # d.of /\ n.name # d.name
  IN /\ call[c].op = "dry_run"
     /\ Answered(c, [panel EXCEPT !.approval = None, !.command = None,
          !.dryRun = IF ready THEN ResultOf(c) ELSE None,
          !.reviewed = IF ready THEN @ \cup {d} ELSE @])
     /\ UNCHANGED controller

\* Mutated: the approval is taken for the draft on display.
ApprovalAnswered_OfTheDraft(c) ==
  LET d == IF panel.name = None THEN call[c].draft ELSE Displayed
  IN /\ call[c].op = "approval"
     /\ Answered(c, [panel EXCEPT !.command = None, !.approved = @ \cup {d},
          !.approval = [draft |-> d, aside |-> FALSE]])
     /\ UNCHANGED controller

ApprovalAnswered(c) ==
  /\ call[c].op = "approval"
  /\ Answered(c, [panel EXCEPT !.approval = ResultOf(c), !.command = None,
                               !.approved = @ \cup {call[c].draft}])
  /\ UNCHANGED controller

Existing(d) == {i \in Command : controller.commands[i] # None /\ controller.commands[i].draft = d}
Unused == {i \in Command : controller.commands[i] = None}

\* Mutated: no command with the key of the draft is looked for.
CreateChecked_Never(c) ==
  /\ call[c].op = "create" /\ call[c].at = "sent"
  /\ call' = [call EXCEPT ![c].at = "checked"]
  /\ UNCHANGED <<panel, controller>>

\* A command with the key of the draft is looked for.
CreateChecked(c) ==
  /\ call[c].op = "create" /\ call[c].at = "sent"
  /\ \E id \in IF Existing(call[c].draft) = {} THEN {None} ELSE Existing(call[c].draft) :
       call' = [call EXCEPT ![c].at = "checked", ![c].id = id]
  /\ UNCHANGED <<panel, controller>>

\* A command that was executed already opens no execution.  Bound: MaxCommands
\* commands.
CreateAnswered(c) ==
  /\ call[c].op = "create" /\ call[c].at = "checked"
  /\ \E id \in Command :
       /\ IF call[c].id # None THEN id = call[c].id /\ UNCHANGED controller
          ELSE /\ id \in Unused /\ \A i \in Unused : id <= i
               /\ controller' = [controller EXCEPT !.commands[id] =
                                   [draft |-> call[c].draft, executed |-> FALSE]]
       /\ Answered(c, [panel EXCEPT !.commandId = id, !.command =
            IF call[c].id # None /\ controller.commands[id].executed THEN None ELSE ResultOf(c)])

\* A record of its own is used again; without one, no other resource may have
\* its place or its name, no other node its place.
Conflict(d) ==
  \/ /\ controller.resources[d] = 0
     /\ \E e \in Draft \ {d} : controller.resources[e] > 0 /\ (e.of = d.of \/ e.name = d.name)
  \/ \E n \in controller.nodes \ {d} : d \notin controller.nodes /\ n.of = d.of

\* The records of the draft are looked for, unless the command was executed or
\* another draft's are in the way.
ExecuteChecked(c) ==
  LET d == controller.commands[call[c].id].draft
  IN /\ call[c].op = "execute" /\ call[c].at = "sent"
     /\ IF controller.commands[call[c].id].executed \/ Conflict(d) THEN Finish(c)
        ELSE call' = [call EXCEPT ![c].at = "checked",
                        ![c].found = IF d \in controller.nodes THEN "both"
                                     ELSE IF controller.resources[d] > 0 THEN "resource"
                                     ELSE "none"]
     /\ UNCHANGED <<panel, controller>>

\* The index allows one node for a place.
NodeAllowed(d) == \A n \in controller.nodes : n.of # d.of

\* What was not found is inserted; the insert of a second node fails and takes
\* the resource with it.
ExecuteAnswered(c) ==
  LET id == call[c].id
      d == controller.commands[id].draft
      found == call[c].found
  IN /\ call[c].op = "execute" /\ call[c].at = "checked"
     /\ controller' = IF found = "both" \/ NodeAllowed(d)
                      THEN [controller EXCEPT !.commands[id].executed = TRUE,
                              !.nodes = @ \cup {d},
                              !.resources[d] = IF found # "none" THEN @ ELSE @ + 1]
                      ELSE controller
     /\ Finish(c)
     /\ UNCHANGED panel

Next ==
  \/ \E d \in Candidate : SelectCandidate(d)
  \/ \E n \in Name : UpdateDraft(n)
  \/ \E id \in Command : TypeCommandId(id)
  \/ ClearDraft \/ ClearApproval \/ ClearCommand \/ ClearExecution
  \/ \E c \in Call : \/ RunDryRun(c) \/ RunApproval(c) \/ RunCommandCreate(c)
                     \/ RunExecutionVerify(c) \/ GivesUp(c)
                     \/ DryRunAnswered(c) \/ ApprovalAnswered(c)
                     \/ CreateChecked(c) \/ CreateAnswered(c)
                     \/ ExecuteChecked(c) \/ ExecuteAnswered(c)

Spec == Init /\ [][Next]_vars

-----------------------------------------------------------------------------
(* Properties. *)

\* What is recorded was found ready by a dry run and approved as it is, whichever
\* drafts, pasted results and late answers there were in between.
RegisteredWasApproved == controller.nodes \subseteq panel.reviewed \cap panel.approved

\* The results on display are those of the draft on display, unless they were
\* made from a pasted text or the draft changed while they were awaited.
ResultsAreOfTheDraft ==
  \A result \in {panel.dryRun, panel.approval, panel.command} \ {None} :
    result.aside \/ result.draft = Displayed

\* A draft has one command, however often it is created again, unless the request
\* of a panel that gave it up overlaps with the next: the key is looked up and
\* inserted in two steps.
OneCommandPerDraft ==
  ~controller.overlapped => \A d \in Draft : Cardinality(Existing(d)) <= 1

\* A draft is recorded as one transit resource, overlapping executions included,
\* although no index says so: the insert of its node fails with it.
OneResourcePerDraft == \A d \in Draft : controller.resources[d] <= 1

\* A place has one node, and a node comes with its resource.
NodesAreWhole ==
  \A n \in controller.nodes :
    controller.resources[n] > 0 /\ \A m \in controller.nodes : m.of = n.of => m = n
=============================================================================
