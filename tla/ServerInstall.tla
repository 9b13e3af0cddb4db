--------------------------- MODULE ServerInstall ----------------------------
(***************************************************************************)
(* The list of landing servers in ServerManagementPanel                    *)
(* (frontend/components): its modals, the generation of an install         *)
(* command, the polling for the worker that is to come up, the timer that  *)
(* closes the modal when it has, and the removal of a server with the row  *)
(* hidden until its cleanup is over.                                       *)
(*                                                                         *)
(* Each async function of the panel is a call: it waits for an answer or   *)
(* for a timer, and the operator and the other calls go on meanwhile.  The *)
(* CSRF token a call fetches first is part of its request (ConsoleSession  *)
(* models it); the command lists that are read after a server list fill a  *)
(* table of their own and are left out.  A list is read at one moment and  *)
(* shown at a later one; any other request is handled when it is answered, *)
(* and an answer that is lost may have been handled or not.                *)
(***************************************************************************)
EXTENDS Integers, FiniteSets

CONSTANTS
  Server,
  Call,       \* slots for the async functions under way
  MaxPolls,   \* polls of one chain: 60 for an install, 30 for a cleanup
  None

VARIABLES panel, call, controller

vars == <<panel, call, controller>>

Row == {"absent", "away", "online", "deleted"}

\* pollFor and timer are the refs of the install polling, close the ref of the
\* timer that closes the modal, command the server of the command on display.
\* History: "crossed" says that a poll was awaited when its polling was replaced
\* or ended, "opened" that the modal was opened after the close timer was set,
\* "during" that it was opened while a command was generated, gaveUp whose
\* cleanup is not watched to its end, gone whose removal the panel was told.
Panel == [modal : {"none", "add", "workerCommand", "edit", "delete"},
          target : Server \cup {None}, command : Server \cup {None}, submitting : BOOLEAN,
          deleteMode : {"remote", "local"}, listed : SUBSET Server, hidden : SUBSET Server,
          pollFor : Server \cup {None}, timer : Call \cup {None}, close : BOOLEAN,
          crossed : BOOLEAN, opened : BOOLEAN, during : BOOLEAN,
          gaveUp : SUBSET Server, gone : SUBSET Server]

\* A call waits for its request ("main"), for the server list it reads next
\* ("list") or for a timer.  A poll has "found" its worker when the worker is
\* online; where an upgrade is awaited, it may be online and not upgraded yet.
\* History: "old" says of a chain that its polling was replaced or ended.
CallRow == [op : {"none", "load", "generate", "poll", "edit", "delete", "watch"},
            step : {"main", "list", "timer"}, server : Server \cup {None},
            mode : {"none", "remote", "local"},
            read : BOOLEAN, rows : SUBSET Server, found : BOOLEAN, n : 0..MaxPolls, old : BOOLEAN]

Controller == [row : [Server -> Row],
               cleanup : [Server -> {"none", "running", "succeeded", "failed"}]]

NoCall == [op |-> "none", step |-> "main", server |-> None, mode |-> "none",
           read |-> FALSE, rows |-> {}, found |-> FALSE, n |-> 0, old |-> FALSE]

TypeOK == panel \in Panel /\ call \in [Call -> CallRow] /\ controller \in Controller

\* The panel is mounted over some servers and reads them.
Init ==
  /\ panel = [modal |-> "none", target |-> None, command |-> None, submitting |-> FALSE,
              deleteMode |-> "remote", listed |-> {}, hidden |-> {}, pollFor |-> None,
              timer |-> None, close |-> FALSE, crossed |-> FALSE, opened |-> FALSE,
              during |-> FALSE, gaveUp |-> {}, gone |-> {}]
  /\ \E c \in Call : call = [k \in Call |-> IF k = c THEN [NoCall EXCEPT !.op = "load"] ELSE NoCall]
  /\ \E rows \in [Server -> {"absent", "away", "online"}] :
       controller = [row |-> rows, cleanup |-> [s \in Server |-> "none"]]

-----------------------------------------------------------------------------
(* Helpers of the panel, as changes of its state. *)

Chains == {c \in Call : call[c].op = "poll"}

\* The poll that continues, if any, is not awaited any more.
ClearPolling(p, awaited) ==
  [p EXCEPT !.pollFor = None, !.timer = None,
            !.crossed = @ \/ \E c \in awaited : call[c].step = "main"]

Age(row) == IF row.op = "poll" THEN [row EXCEPT !.old = TRUE] ELSE row

\* Mutated: the timer keeps running.
ClearTimer_Kept == [c \in Call |-> Age(call[c])]

\* clearTimeout reaches the timer of the ref; every chain is old from now on.
ClearTimer ==
  [c \in Call |-> IF panel.timer = c /\ call[c].step = "timer" THEN NoCall ELSE Age(call[c])]

ClearAutoClose(p) == [p EXCEPT !.close = FALSE]

CloseModal(p) ==
  [ClearAutoClose(p) EXCEPT !.modal = "none", !.target = None, !.command = None,
                            !.deleteMode = "remote", !.opened = FALSE, !.during = FALSE]

\* filterVisibleServers: what is pending deletion stays out of every list.
SetVisible(p, rows) == [p EXCEPT !.listed = rows \ p.hidden]

MarkPending(p, s) ==
  LET q == [p EXCEPT !.hidden = @ \cup {s}, !.listed = @ \ {s}]
  IN IF p.pollFor = s THEN ClearPolling(q, Chains) ELSE q

Release(p, s) == [p EXCEPT !.hidden = @ \ {s}]

Free(c) == call[c].op = "none"
Start(c, new) == call' = [call EXCEPT ![c] = new]
Finish(c) == call' = [call EXCEPT ![c] = NoCall]
ThenList(c) == Start(c, [call[c] EXCEPT !.step = "list"])

-----------------------------------------------------------------------------
(* The operator: with a modal open, only the modal can be clicked. *)

\* What the table shows below the head, for a row and its server.
RowButtons(s) == panel.modal = "none" /\ s \in panel.listed

\* Its button, or one of the timers that an accepted removal sets.
Refresh(c) ==
  /\ panel.modal = "none" \/ panel.hidden # {}
  /\ Free(c)
  /\ \A k \in Call : call[k].op # "load"  \* bound: one refresh at a time
  /\ Start(c, [NoCall EXCEPT !.op = "load"])
  /\ UNCHANGED <<panel, controller>>

Open(modal, s) ==
  /\ panel.modal = "none"
  /\ UNCHANGED <<call, controller>>
  /\ panel' = [(IF modal \in {"add", "workerCommand"} THEN ClearAutoClose(panel) ELSE panel)
                 EXCEPT !.modal = modal, !.target = s, !.command = None, !.opened = panel.close,
                        !.during = \E c \in Call : call[c].op = "generate"]

OpenAddServer == Open("add", None)

OpenWorkerCommand(s) == RowButtons(s) /\ Open("workerCommand", s)

OpenEdit(s) == RowButtons(s) /\ Open("edit", s)

\* The mode follows the worker_online of the row as it was read.
OpenDelete(s) ==
  /\ RowButtons(s)
  /\ \E mode \in {"remote", "local"} :
       panel' = [panel EXCEPT !.modal = "delete", !.target = s, !.deleteMode = mode,
                              !.opened = panel.close]
  /\ UNCHANGED <<call, controller>>

Cancel ==
  /\ panel.modal # "none"
  /\ panel' = CloseModal(panel)
  /\ UNCHANGED <<call, controller>>

\* The buttons of the forms are disabled while anything is submitting.
GenerateOffered == panel.modal \in {"add", "workerCommand"} /\ ~panel.submitting
EditOffered == panel.modal = "edit" /\ ~panel.submitting
DeleteOffered == panel.modal = "delete" /\ ~panel.submitting

GenerateInstallCommand(c) ==
  /\ GenerateOffered
  /\ Free(c)
  /\ panel' = [ClearAutoClose(ClearPolling(panel, Chains))
                 EXCEPT !.submitting = TRUE, !.command = None]
  /\ \E s \in IF panel.modal = "add" THEN {t \in Server : controller.row[t] = "absent"}
                                     ELSE {panel.target} :
       call' = [ClearTimer EXCEPT ![c] = [NoCall EXCEPT !.op = "generate", !.server = s]]
  /\ UNCHANGED controller

SubmitEdit(c) ==
  /\ EditOffered
  /\ Free(c)
  /\ panel' = [panel EXCEPT !.submitting = TRUE]
  /\ Start(c, [NoCall EXCEPT !.op = "edit", !.server = panel.target])
  /\ UNCHANGED controller

\* The row disappears before the request is made.
SubmitDelete(c) ==
  LET s == panel.target
  IN /\ DeleteOffered
     /\ Free(c)
     /\ panel' = [MarkPending(panel, s) EXCEPT !.submitting = TRUE]
     /\ call' = [(IF panel.pollFor = s THEN ClearTimer ELSE call)
                   EXCEPT ![c] = [NoCall EXCEPT !.op = "delete", !.server = s,
                                                !.mode = panel.deleteMode]]
     /\ UNCHANGED controller

-----------------------------------------------------------------------------
(* The controller and the servers. *)

Listed == {s \in Server : controller.row[s] \notin {"absent", "deleted"}}

Up(s) == controller.row[s] = "online"

ReadList(c) ==
  /\ (call[c].op \in {"load", "poll"} /\ call[c].step = "main") \/ call[c].step = "list"
  /\ ~call[c].read
  /\ \E found \in IF call[c].op = "poll" /\ Up(call[c].server) THEN BOOLEAN ELSE {FALSE} :
       call' = [call EXCEPT ![c].read = TRUE, ![c].rows = Listed, ![c].found = found]
  /\ UNCHANGED <<panel, controller>>

\* A bootstrap adds the server it is for.
TakeGenerate(s) ==
  /\ controller.row[s] # "deleted"
  /\ controller' = [controller EXCEPT !.row[s] = IF @ = "absent" THEN "away" ELSE @]

\* A cleanup command for a server that is up, a removal on the spot for one
\* that is not.
TakeDelete(s, mode) ==
  \/ /\ mode = "remote" /\ Up(s)
     /\ controller.cleanup[s] # "running"
     /\ controller' = [controller EXCEPT !.cleanup[s] = "running"]
  \/ /\ mode = "local" /\ controller.row[s] = "away"
     /\ controller' = [controller EXCEPT !.row[s] = "deleted"]

CleanupEnds(s) ==
  /\ controller.cleanup[s] = "running"
  /\ \/ controller' = [controller EXCEPT !.cleanup[s] = "failed"]
     \/ controller' = [controller EXCEPT !.cleanup[s] = "succeeded", !.row[s] = "deleted"]
  /\ UNCHANGED <<panel, call>>

WorkerComesUp(s) ==
  /\ controller.row[s] = "away"
  /\ controller' = [controller EXCEPT !.row[s] = "online"]
  /\ UNCHANGED <<panel, call>>

-----------------------------------------------------------------------------
(* Continuations: a call goes on with its answer, or with a fetch that rejects. *)

Waits(c, op, step) == call[c].op = op /\ call[c].step = step

ListLoaded(c) ==
  /\ Waits(c, "load", "main")
  /\ \/ panel' = panel
     \/ call[c].read /\ panel' = SetVisible(panel, call[c].rows)
  /\ Finish(c)
  /\ UNCHANGED controller

\* The command is shown in whatever modal is open by now.
CommandGenerated(c) ==
  /\ Waits(c, "generate", "main")
  /\ TakeGenerate(call[c].server)
  /\ ThenList(c)
  /\ panel' = [panel EXCEPT !.command = call[c].server]

FlowFails(c) == panel' = [panel EXCEPT !.submitting = FALSE] /\ Finish(c)

CommandRefused(c) ==
  /\ \/ Waits(c, "generate", "main") /\ (TakeGenerate(call[c].server) \/ UNCHANGED controller)
     \/ Waits(c, "generate", "list") /\ UNCHANGED controller
  /\ FlowFails(c)

\* startWorkerInstallPolling: the slot of the call becomes the polling chain.
StartPolling(c) ==
  LET s == call[c].server
      p == SetVisible(panel, call[c].rows)
  IN /\ Waits(c, "generate", "list") /\ call[c].read
     /\ panel' = [ClearAutoClose(ClearPolling(p, Chains))
                    EXCEPT !.submitting = FALSE, !.pollFor = IF s \in p.hidden THEN None ELSE s]
     /\ call' = [ClearTimer EXCEPT ![c] = IF s \in p.hidden THEN NoCall
                                           ELSE [NoCall EXCEPT !.op = "poll", !.server = s]]
     /\ UNCHANGED controller

\* With the last chain its crossings are over.
EndChain(p, c) == IF Chains = {c} THEN [p EXCEPT !.crossed = FALSE] ELSE p

\* The timer of a chain: the chain ends quietly unless the ref names its server.
PollFires(c) ==
  LET s == call[c].server
  IN /\ call[c].op = "poll" /\ call[c].step = "timer"
     /\ IF panel.pollFor = s /\ s \notin panel.hidden
        THEN Start(c, [call[c] EXCEPT !.step = "main"]) /\ UNCHANGED panel
        ELSE /\ call' = [(IF s \in panel.hidden THEN ClearTimer ELSE call) EXCEPT ![c] = NoCall]
             /\ panel' = EndChain(IF s \in panel.hidden THEN ClearPolling(panel, Chains \ {c})
                                                        ELSE panel, c)
     /\ UNCHANGED controller

\* The worker is up: its polling, or the one that replaced it, is over.
PollFindsServer(c) ==
  /\ Waits(c, "poll", "main")
  /\ call[c].found /\ call[c].server \notin panel.hidden
  /\ panel' = EndChain([ClearPolling(SetVisible(panel, call[c].rows), Chains \ {c})
                          EXCEPT !.close = TRUE, !.opened = FALSE], c)
  /\ call' = [ClearTimer EXCEPT ![c] = NoCall]
  /\ UNCHANGED controller

\* A chain has MaxPolls polls; the last one reads the list once more.
PollFindsNothing(c) ==
  LET p == IF call[c].read THEN SetVisible(panel, call[c].rows) ELSE panel
  IN /\ Waits(c, "poll", "main")
     /\ ~call[c].found \/ call[c].server \in panel.hidden
     /\ IF call[c].n + 1 >= MaxPolls
        THEN /\ panel' = EndChain(ClearPolling(p, Chains \ {c}), c)
             /\ call' = [ClearTimer EXCEPT ![c] = [NoCall EXCEPT !.op = "load"]]
        ELSE /\ panel' = [p EXCEPT !.timer = c]
             /\ Start(c, [call[c] EXCEPT !.step = "timer", !.n = @ + 1, !.read = FALSE,
                                         !.rows = {}, !.found = FALSE])
     /\ UNCHANGED controller

\* A fetch that rejects ends the chain and leaves the refs as they are.
PollRejects(c) ==
  /\ Waits(c, "poll", "main")
  /\ Finish(c)
  /\ panel' = EndChain(panel, c)
  /\ UNCHANGED controller

AutoClose ==
  /\ panel.close
  /\ panel' = CloseModal(panel)
  /\ UNCHANGED <<call, controller>>

EditSaved(c) ==
  /\ Waits(c, "edit", "main")
  /\ panel' = CloseModal(panel)
  /\ ThenList(c)
  /\ UNCHANGED controller

EditFails(c) == Waits(c, "edit", "main") /\ FlowFails(c) /\ UNCHANGED controller

\* Refused, or lost: then it may have been taken.  A cleanup that has become
\* impossible turns the modal to the local removal.
DeleteRefused(c) ==
  /\ Waits(c, "delete", "main")
  /\ TakeDelete(call[c].server, call[c].mode) \/ UNCHANGED controller
  /\ \E mode \in {panel.deleteMode} \cup (IF Up(call[c].server) THEN {} ELSE {"local"}) :
       panel' = [Release(panel, call[c].server) EXCEPT !.deleteMode = mode]
  /\ ThenList(c)

\* n tells the list that follows that the removal was taken.
DeleteAccepted(c) ==
  /\ Waits(c, "delete", "main")
  /\ TakeDelete(call[c].server, call[c].mode)
  /\ panel' = CloseModal(panel)
  /\ Start(c, [call[c] EXCEPT !.step = "list", !.n = 1])

Taken(c) == call[c].op = "delete" /\ call[c].n = 1

\* The list after a flow is in, or was refused: an accepted remote cleanup is
\* watched from here.
FlowListed(c) ==
  /\ call[c].op \in {"edit", "delete", "watch"} /\ call[c].step = "list"
  /\ call[c].read
  /\ \E p \in {panel, SetVisible(panel, call[c].rows)} :
       panel' = [p EXCEPT !.submitting = @ /\ call[c].op = "watch",
                          !.gone = IF Taken(c) /\ call[c].mode = "local"
                                   THEN @ \cup {call[c].server} ELSE @]
  /\ IF Taken(c) /\ call[c].mode = "remote"
     THEN Start(c, [NoCall EXCEPT !.op = "watch", !.server = call[c].server])
     ELSE Finish(c)
  /\ UNCHANGED controller

\* A list that rejects makes a failure of the removal it follows: the row is
\* released and the list read again.
FlowListRejects(c) ==
  /\ call[c].op \in {"edit", "delete", "watch"} /\ call[c].step = "list"
  /\ IF Taken(c)
     THEN /\ panel' = Release(panel, call[c].server)
          /\ Start(c, [call[c] EXCEPT !.n = 0, !.read = FALSE, !.rows = {}])
     ELSE /\ panel' = [panel EXCEPT !.submitting = @ /\ call[c].op = "watch"]
          /\ Finish(c)
  /\ UNCHANGED controller

\* Mutated: a cleanup that is over is released whatever its status.
WatchEnds_Releases(c) ==
  /\ Waits(c, "watch", "main")
  /\ controller.cleanup[call[c].server] \in {"succeeded", "failed"}
  /\ panel' = [Release(panel, call[c].server) EXCEPT
                 !.gone = IF controller.cleanup[call[c].server] = "succeeded"
                          THEN @ \cup {call[c].server} ELSE @]
  /\ ThenList(c)
  /\ UNCHANGED controller

WatchEnds(c) ==
  LET s == call[c].server
  IN /\ Waits(c, "watch", "main")
     /\ \/ controller.cleanup[s] = "succeeded" /\ panel' = [panel EXCEPT !.gone = @ \cup {s}]
        \/ controller.cleanup[s] = "failed" /\ panel' = Release(panel, s)
     /\ ThenList(c)
     /\ UNCHANGED controller

WatchGoesOn(c) ==
  /\ Waits(c, "watch", "main")
  /\ controller.cleanup[call[c].server] = "running"
  /\ IF call[c].n + 1 < MaxPolls
     THEN Start(c, [call[c] EXCEPT !.n = @ + 1]) /\ UNCHANGED panel
     ELSE ThenList(c) /\ panel' = [panel EXCEPT !.gaveUp = @ \cup {call[c].server}]
  /\ UNCHANGED controller

WatchRejects(c) ==
  /\ Waits(c, "watch", "main")
  /\ panel' = [panel EXCEPT !.gaveUp = @ \cup {call[c].server}]
  /\ Finish(c)
  /\ UNCHANGED controller

-----------------------------------------------------------------------------
Poll(c) == PollFires(c) \/ PollFindsServer(c) \/ PollFindsNothing(c) \/ PollRejects(c)

Continue(c) == \/ ListLoaded(c) \/ CommandGenerated(c) \/ CommandRefused(c) \/ StartPolling(c)
               \/ Poll(c) \/ EditSaved(c) \/ EditFails(c) \/ DeleteRefused(c)
               \/ DeleteAccepted(c) \/ FlowListed(c) \/ FlowListRejects(c)
               \/ WatchEnds(c) \/ WatchGoesOn(c) \/ WatchRejects(c)

Next ==
  \/ \E c \in Call : \/ Refresh(c) \/ GenerateInstallCommand(c) \/ SubmitEdit(c)
                     \/ SubmitDelete(c) \/ ReadList(c) \/ Continue(c)
  \/ \E s \in Server : \/ OpenWorkerCommand(s) \/ OpenEdit(s) \/ OpenDelete(s)
                       \/ CleanupEnds(s) \/ WorkerComesUp(s)
  \/ OpenAddServer \/ Cancel \/ AutoClose

Spec == Init /\ [][Next]_vars

-----------------------------------------------------------------------------
(* Properties. *)

\* A polling that was replaced or ended leaves no chain behind, one that would
\* end its successor or announce its own server in its place, unless some poll
\* was awaited at such a moment (pollWorkerInstallHeartbeat looks at the refs
\* before its fetch only).
ChainsAreCurrent == panel.crossed \/ \A c \in Chains : ~call[c].old

\* The command in the modal of a server, with its token, is that server's,
\* unless the modal was opened while a command was generated: closing a modal
\* does not recall the generation (setWorkerTokenResult).
CommandIsForItsServer ==
  panel.modal = "workerCommand" /\ panel.command # None /\ ~panel.during
    => panel.command = panel.target

\* A modal that generates commands is never closed by a timer that was set
\* before it was opened (openAddServer and openWorkerCommand clear it; the
\* other modals do not).
AutoCloseSparesNewCommands ==
  panel.close /\ panel.modal \in {"add", "workerCommand"} => ~panel.opened

\* A row that is hidden for its deletion and still exists has a flow that may
\* bring it back, or its cleanup was given up: 30 polls without an end, or one
\* that rejects, leave it hidden for as long as the panel is mounted.
HiddenRowIsWatched ==
  \A s \in panel.hidden :
    \/ controller.row[s] = "deleted" \/ s \in panel.gaveUp
    \/ \E c \in Call : call[c].op \in {"delete", "watch"} /\ call[c].server = s

\* A server whose removal was reported does not come back with a list that
\* was read before (pendingDeletedServerIdsRef is kept after a success).
RemovedStaysAway == panel.gone \cap panel.listed = {}
=============================================================================
