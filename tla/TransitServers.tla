--------------------------- MODULE TransitServers ---------------------------
(***************************************************************************)
(* TransitServersPanel (frontend/components/TransitRoutesPanel.tsx): the   *)
(* list of transit servers, the modal that generates an install command,   *)
(* the polling that outlives it until the worker is up or upgraded, and    *)
(* the removal of a server with its row hidden meanwhile.                  *)
(*                                                                         *)
(* The parts that differ from the panel of the landing servers are what    *)
(* this module is about: the generating flag is reset when the modal is    *)
(* closed or opened, closing it leaves the polling alone, and one ref says *)
(* for every poll whether an upgrade is awaited.  What the lists show is   *)
(* left to ServerInstall: here a row is on display while it is not hidden. *)
(* The latest commands are left out, and so is the worker check, whose end *)
(* nothing waits for.                                                      *)
(***************************************************************************)
EXTENDS Integers, FiniteSets

CONSTANTS Server, Call, MaxPolls, None

VARIABLES panel, call, controller

vars == <<panel, call, controller>>

\* A worker that is away, that runs an old version, or the required one.
Row == {"away", "old", "new", "deleted"}
Mode == {"none", "install", "upgrade"}

\* target: the resource of the modal; online: the worker as the row had it when
\* the modal was opened; result and announced: what the modal shows, a command
\* and a worker that was found; pollFor, context and timer: the refs of the
\* polling; close: the resource whose worker set the close timer.
\* History: "late" that a generation or a polling was under way when the modal
\* was opened, "overlapped" that a generation was, "crossed" that a poll was
\* awaited when its polling was replaced or ended, gaveUp whose cleanup is not
\* watched to its end.
Panel == [modal : {"none", "preview", "add", "edit", "delete"}, target : Server \cup {None},
          local : BOOLEAN, online : BOOLEAN, submitting : BOOLEAN, generating : BOOLEAN,
          result : Server \cup {None}, announced : Server \cup {None},
          hidden : SUBSET Server,
          pollFor : Server \cup {None}, context : Mode, timer : Call \cup {None},
          close : Server \cup {None},
          late : BOOLEAN, overlapped : BOOLEAN, crossed : BOOLEAN, gaveUp : SUBSET Server]

\* A poll waits for its answer ("main", with what it has "seen" of its resource)
\* or for its timer.  "mode" is the one a generation was asked with, or the one of
\* a chain.
CallRow == [op : {"none", "generate", "poll", "save", "delete", "watch"},
            step : {"main", "timer"}, server : Server \cup {None},
            mode : Mode, local : BOOLEAN, seen : Row \cup {"unread"}, n : 0..MaxPolls]

NoCall == [op |-> "none", step |-> "main", server |-> None, mode |-> "none",
           local |-> FALSE, seen |-> "unread", n |-> 0]

\* cleaning: a cleanup command is under way.
Controller == [row : [Server -> Row], cleaning : SUBSET Server]

TypeOK == panel \in Panel /\ call \in [Call -> CallRow] /\ controller \in Controller

Init ==
  /\ panel = [modal |-> "none", target |-> None, local |-> FALSE, online |-> FALSE,
              submitting |-> FALSE, generating |-> FALSE, result |-> None, announced |-> None,
              hidden |-> {}, pollFor |-> None, context |-> "none",
              timer |-> None, close |-> None, late |-> FALSE, overlapped |-> FALSE,
              crossed |-> FALSE, gaveUp |-> {}]
  /\ call = [c \in Call |-> NoCall]
  /\ \E row \in [Server -> Row \ {"deleted"}] : controller = [row |-> row, cleaning |-> {}]

-----------------------------------------------------------------------------
(* Helpers of the panel, as changes of its state. *)

Requested(op) == {c \in Call : call[c].op = op}
Online(row) == row \in {"old", "new"}

\* "awaited" are the polls that go on without their polling.
ClearPolling(p, awaited) ==
  [p EXCEPT !.pollFor = None, !.context = "none", !.timer = None,
            !.crossed = @ \/ \E c \in awaited : call[c].step = "main"]

\* clearTimeout reaches the timer of the ref and no other.
ClearTimer ==
  [c \in Call |-> IF panel.timer = c /\ call[c].step = "timer" THEN NoCall ELSE call[c]]

CloseModal(p) ==
  IF p.modal \in {"none", "preview"} THEN p
  ELSE [p EXCEPT !.modal = "none", !.target = None, !.local = FALSE]

CloseApprovalPreview(p) ==
  IF p.modal # "preview" THEN [p EXCEPT !.close = None, !.generating = FALSE]
  ELSE [p EXCEPT !.modal = "none", !.target = None, !.online = FALSE, !.result = None,
                 !.announced = None, !.close = None, !.generating = FALSE, !.late = FALSE]

MarkPending(p, s) ==
  LET q == [p EXCEPT !.hidden = @ \cup {s}]
  IN IF p.pollFor = s THEN ClearPolling(q, Requested("poll")) ELSE q

Release(p, s) == [p EXCEPT !.hidden = @ \ {s}]

\* What the add and the edit form, and the confirmation of a removal, offer.
DraftOffered == panel.modal \in {"add", "edit"} /\ ~panel.submitting
DeleteOffered == panel.modal = "delete" /\ ~panel.submitting

Free(c) == call[c].op = "none"
Start(c, new) == call' = [call EXCEPT ![c] = new]
Finish(c) == call' = [call EXCEPT ![c] = NoCall]
OnDisplay(s) == panel.modal = "none" /\ s \notin panel.hidden

-----------------------------------------------------------------------------
(* The operator: a modal covers the table. *)

OpenAdd ==
  /\ panel.modal = "none"
  /\ panel' = [panel EXCEPT !.modal = "add"]
  /\ UNCHANGED <<call, controller>>

OpenEdit(s) ==
  /\ OnDisplay(s)
  /\ panel' = [panel EXCEPT !.modal = "edit", !.target = s]
  /\ UNCHANGED <<call, controller>>

\* The mode follows the row as it was read, then and later.
OpenDeleteResource(s) ==
  /\ OnDisplay(s)
  /\ \E local \in BOOLEAN :
       panel' = [panel EXCEPT !.modal = "delete", !.target = s, !.local = local]
  /\ UNCHANGED <<call, controller>>

OpenWorkerInstallApprovalPreview(s) ==
  /\ OnDisplay(s)
  /\ \E online \in BOOLEAN :
       panel' = [panel EXCEPT !.modal = "preview", !.target = s, !.online = online,
                              !.generating = FALSE, !.close = None,
                              !.crossed = @ /\ Requested("poll") # {},
                              !.late = Requested("generate") \cup Requested("poll") # {},
                              !.overlapped = Requested("generate") # {}]
  /\ UNCHANGED <<call, controller>>

Cancel ==
  /\ panel.modal # "none"
  /\ panel' = IF panel.modal = "preview" THEN CloseApprovalPreview(panel) ELSE CloseModal(panel)
  /\ UNCHANGED <<call, controller>>

GenerateOffered == panel.modal = "preview" /\ ~panel.generating

\* The command before it is put away and its polling ended.
GenerateWorkerInstallCommand(c) ==
  /\ GenerateOffered /\ Free(c)
  /\ panel' = [ClearPolling(panel, Requested("poll")) EXCEPT !.result = None, !.generating = TRUE]
  /\ call' = [ClearTimer EXCEPT
                ![c] = [NoCall EXCEPT !.op = "generate", !.server = panel.target,
                                      !.mode = IF panel.online THEN "upgrade" ELSE "install"]]
  /\ UNCHANGED controller

Submit(c) ==
  /\ DraftOffered /\ Free(c)
  /\ panel' = [panel EXCEPT !.submitting = TRUE]
  /\ Start(c, [NoCall EXCEPT !.op = "save"])
  /\ UNCHANGED controller

\* The row disappears before the request is made.
SubmitDeleteResource(c) ==
  LET s == panel.target
  IN /\ DeleteOffered /\ Free(c)
     /\ panel' = [MarkPending(panel, s) EXCEPT !.submitting = TRUE]
     /\ call' = [(IF panel.pollFor = s THEN ClearTimer ELSE call)
                   EXCEPT ![c] = [NoCall EXCEPT !.op = "delete", !.server = s,
                                                !.local = panel.local]]
     /\ UNCHANGED controller

-----------------------------------------------------------------------------
(* The controller and the workers. *)

ReadPoll(c) ==
  /\ call[c].op = "poll" /\ call[c].step = "main" /\ call[c].seen = "unread"
  /\ Start(c, [call[c] EXCEPT !.seen = controller.row[call[c].server]])
  /\ UNCHANGED <<panel, controller>>

WorkerComesUp(s) ==
  /\ controller.row[s] \in {"away", "old"}
  /\ controller' = [controller EXCEPT !.row[s] = IF @ = "away" THEN "old" ELSE "new"]
  /\ UNCHANGED <<panel, call>>

CleanupEnds(s) ==
  /\ s \in controller.cleaning
  /\ \E row \in {controller.row[s], "deleted"} :
       controller' = [row |-> [controller.row EXCEPT ![s] = row],
                      cleaning |-> controller.cleaning \ {s}]
  /\ UNCHANGED <<panel, call>>

\* A cleanup command for a worker that is up, a removal on the spot for one
\* that is not.
TakeDelete(s, local) ==
  \/ /\ ~local /\ Online(controller.row[s]) /\ s \notin controller.cleaning
     /\ controller' = [controller EXCEPT !.cleaning = @ \cup {s}]
  \/ /\ local /\ controller.row[s] = "away"
     /\ controller' = [controller EXCEPT !.row[s] = "deleted"]

-----------------------------------------------------------------------------
(* Continuations: a call goes on with its answer, or with a fetch that rejects. *)

Waits(c, op, step) == call[c].op = op /\ call[c].step = step

StillOverlapped == panel.overlapped /\ Cardinality(Requested("generate")) > 1

\* Mutated: the close timer of an earlier worker is left.
Generated_KeepsTimer(c) ==
  LET s == call[c].server
  IN /\ Waits(c, "generate", "main") /\ controller.row[s] # "deleted" /\ s \notin panel.hidden
     /\ panel' = [ClearPolling(panel, Requested("poll")) EXCEPT
                    !.result = IF panel.modal = "preview" THEN s ELSE None,
                    !.generating = FALSE, !.overlapped = StillOverlapped,
                    !.pollFor = s, !.context = call[c].mode]
     /\ call' = [ClearTimer EXCEPT
                   ![c] = [NoCall EXCEPT !.op = "poll", !.server = s, !.mode = call[c].mode]]
     /\ UNCHANGED controller

\* The command is shown in whatever modal is open and its polling replaces
\* whatever polling there is: the slot of the call becomes the chain.
Generated(c) ==
  LET s == call[c].server
  IN /\ Waits(c, "generate", "main") /\ controller.row[s] # "deleted"
     /\ panel' = [ClearPolling(panel, Requested("poll")) EXCEPT
                    !.result = IF panel.modal = "preview" THEN s ELSE None,
                    !.close = None, !.generating = FALSE, !.overlapped = StillOverlapped,
                    !.pollFor = IF s \in panel.hidden THEN None ELSE s,
                    !.context = IF s \in panel.hidden THEN "none" ELSE call[c].mode]
     /\ call' = [ClearTimer EXCEPT
                   ![c] = IF s \in panel.hidden THEN NoCall
                          ELSE [NoCall EXCEPT !.op = "poll", !.server = s, !.mode = call[c].mode]]
     /\ UNCHANGED controller

GenerateFails(c) ==
  /\ Waits(c, "generate", "main")
  /\ panel' = [panel EXCEPT !.result = None, !.generating = FALSE,
                           !.overlapped = StillOverlapped]
  /\ Finish(c)
  /\ UNCHANGED controller

\* The timer of a chain: the chain ends quietly unless the ref names its server.
PollFires(c) ==
  LET s == call[c].server
  IN /\ Waits(c, "poll", "timer")
     /\ IF panel.pollFor = s /\ s \notin panel.hidden
        THEN /\ Start(c, [call[c] EXCEPT !.step = "main"])
             /\ panel' = [panel EXCEPT !.timer = IF @ = c THEN None ELSE @]
        ELSE /\ call' = [(IF s \in panel.hidden THEN ClearTimer ELSE call) EXCEPT ![c] = NoCall]
             /\ panel' = IF s \in panel.hidden THEN ClearPolling(panel, Requested("poll") \ {c})
                                               ELSE panel
     /\ UNCHANGED controller

\* The mode is the one of the ref by now, whoever set it.
Found(c) ==
  /\ IF panel.context = "upgrade" THEN call[c].seen = "new" ELSE Online(call[c].seen)
  /\ call[c].server \notin panel.hidden

\* The polling, this one or another by now, is over, and the modal, this one or
\* another, is to be closed.
PollFindsWorker(c) ==
  LET s == call[c].server
  IN /\ Waits(c, "poll", "main") /\ call[c].seen # "unread" /\ Found(c)
     /\ panel' = [ClearPolling(panel, Requested("poll") \ {c}) EXCEPT
                    !.announced = IF panel.modal = "preview" THEN s ELSE None, !.close = s]
     /\ call' = [ClearTimer EXCEPT ![c] = NoCall]
     /\ UNCHANGED controller

\* Not found, refused, or up and without a heartbeat since the command.
PollGoesOn(c) ==
  /\ Waits(c, "poll", "main")
  /\ Found(c) => panel.context = "upgrade"
  /\ IF call[c].n + 1 >= MaxPolls
     THEN /\ panel' = ClearPolling(panel, Requested("poll") \ {c})
          /\ call' = [ClearTimer EXCEPT ![c] = NoCall]
     ELSE /\ panel' = [panel EXCEPT !.timer = c]
          /\ Start(c, [call[c] EXCEPT !.step = "timer", !.n = @ + 1, !.seen = "unread"])
  /\ UNCHANGED controller

\* A fetch that rejects ends the chain and leaves the refs as they are.
PollRejects(c) ==
  /\ Waits(c, "poll", "main")
  /\ Finish(c)
  /\ UNCHANGED <<panel, controller>>

AutoClose ==
  /\ panel.close # None
  /\ panel' = CloseApprovalPreview(panel)
  /\ UNCHANGED <<call, controller>>

\* A save that is taken closes whatever form is open.
Saved(c) ==
  /\ Waits(c, "save", "main")
  /\ \E p \in {panel, CloseModal(panel)} : panel' = [p EXCEPT !.submitting = FALSE]
  /\ Finish(c)
  /\ UNCHANGED controller

\* Refused, or lost: then it may have been taken.  A cleanup that is not
\* possible turns the modal that is open, if any, to the local removal.
DeleteFails(c) ==
  /\ Waits(c, "delete", "main")
  /\ TakeDelete(call[c].server, call[c].local) \/ UNCHANGED controller
  /\ \E local \in {panel.local, panel.modal = "delete"} :
       panel' = [Release(panel, call[c].server) EXCEPT !.local = local, !.submitting = FALSE]
  /\ Finish(c)

\* A cleanup is watched, unless the list that is read first rejects: that makes
\* a failure of the removal.
DeleteAccepted(c) ==
  LET s == call[c].server  p == [CloseModal(panel) EXCEPT !.submitting = FALSE]
  IN /\ Waits(c, "delete", "main")
     /\ TakeDelete(s, call[c].local)
     /\ \/ panel' = Release(p, s) /\ Finish(c)
        \/ /\ panel' = p
           /\ IF call[c].local THEN Finish(c)
              ELSE Start(c, [NoCall EXCEPT !.op = "watch", !.server = s])

WatchEnds(c) ==
  LET s == call[c].server
  IN /\ Waits(c, "watch", "main") /\ s \notin controller.cleaning
     /\ panel' = IF controller.row[s] = "deleted" THEN panel ELSE Release(panel, s)
     /\ Finish(c)
     /\ UNCHANGED controller

\* After its last poll, or with one that rejects, the watch is over.
WatchGoesOn(c) ==
  /\ Waits(c, "watch", "main")
  /\ \/ /\ call[c].n + 1 < MaxPolls /\ call[c].server \in controller.cleaning
        /\ Start(c, [call[c] EXCEPT !.n = @ + 1])
        /\ UNCHANGED panel
     \/ /\ panel' = [panel EXCEPT !.gaveUp = @ \cup {call[c].server}]
        /\ Finish(c)
  /\ UNCHANGED controller

-----------------------------------------------------------------------------
Continue(c) == \/ Generated(c) \/ GenerateFails(c) \/ PollFires(c)
               \/ PollFindsWorker(c) \/ PollGoesOn(c) \/ PollRejects(c) \/ Saved(c)
               \/ DeleteFails(c) \/ DeleteAccepted(c)
               \/ WatchEnds(c) \/ WatchGoesOn(c)

Next ==
  \/ \E c \in Call : \/ GenerateWorkerInstallCommand(c) \/ Submit(c)
                     \/ SubmitDeleteResource(c) \/ ReadPoll(c) \/ Continue(c)
  \/ \E s \in Server : \/ OpenEdit(s) \/ OpenDeleteResource(s) \/ CleanupEnds(s)
                       \/ OpenWorkerInstallApprovalPreview(s) \/ WorkerComesUp(s)
  \/ OpenAdd \/ Cancel \/ AutoClose

Spec == Init /\ [][Next]_vars

-----------------------------------------------------------------------------
(* Properties. *)

\* The command in the modal of a server, with its token, and the worker it
\* announces are that server's, unless a generation or a polling was under way
\* when the modal was opened: closing a modal ends neither.
PreviewIsOfItsServer ==
  panel.modal = "preview" /\ ~panel.late
    => panel.result \in {None, panel.target} /\ panel.announced \in {None, panel.target}

\* One command is generated at a time, unless the modal was opened again while
\* one was (its flag is reset: setWorkerInstallCommandGenerating).
GenerationsTakeTurns == Cardinality(Requested("generate")) > 1 => panel.overlapped

\* The close timer does not take away the command of another server than the
\* one whose worker came up, unless a poll was awaited when its polling was
\* replaced or ended.
CommandIsKeptForItsWorker ==
  panel.close # None /\ panel.result # None /\ ~panel.crossed => panel.result = panel.close

\* A worker that was to be upgraded is found at the required version, unless a
\* poll met the context of another polling.
UpgradeIsAwaitedAction ==
  \A c \in Call : PollFindsWorker(c) /\ call[c].mode = "upgrade" /\ ~panel.crossed
                    => call[c].seen = "new"
UpgradeIsAwaited == [][UpgradeIsAwaitedAction]_vars

\* A row that is hidden for its deletion and still exists has a flow that may
\* bring it back, or its cleanup was given up.
HiddenRowIsWatched ==
  \A s \in panel.hidden :
    \/ controller.row[s] = "deleted" \/ s \in panel.gaveUp
    \/ \E c \in Call : call[c].op \in {"delete", "watch"} /\ call[c].server = s
=============================================================================
