--------------------------- MODULE TransitRouteRows --------------------------
(***************************************************************************)
(* The rows of TransitRoutesPanel (frontend/components): the summary and   *)
(* the transient client link of a route, its new name, and its removal     *)
(* with the row hidden until the cleanup is over.  Summary, link and       *)
(* removal share one flag, candidateLoading; the modal of the removal is   *)
(* there while its route is listed, so that it goes with the row and comes *)
(* back with it when the removal was refused.                              *)
(*                                                                         *)
(* The name of a route is the number of times it was changed.  A request   *)
(* is handled in one step and answered in a later one, except a removal,   *)
(* whose answer is not late for anything; what the lists show is left to   *)
(* ServerInstall, here a row is on display while it is not hidden.         *)
(***************************************************************************)
EXTENDS Integers, FiniteSets

CONSTANTS Route, Call, MaxNames, MaxPolls, None

VARIABLES panel, call, controller

vars == <<panel, call, controller>>

Named == [route : Route, name : 0..MaxNames]

\* exportFor, edit and deleteFor: the routes of the three modals; local: the
\* removal is to be local.
\* History: "told" the name the last renaming reported, "offered" whose cleanup was refused for an offline worker, "renamed"
\* the routes that were renamed while a summary of theirs was awaited, gaveUp
\* whose cleanup is not watched to its end.
Panel == [told : [Route -> 0..MaxNames], hidden : SUBSET Route,
          candidate : Route \cup {None}, summary : Named \cup {None},
          exportFor : Route \cup {None}, export : Named \cup {None},
          edit : Route \cup {None}, saving : BOOLEAN,
          deleteFor : Route \cup {None}, local : BOOLEAN, loading : BOOLEAN,
          offered : SUBSET Route, renamed : SUBSET Route, gaveUp : SUBSET Route]

CallRow == [op : {"none", "summary", "export", "rename", "delete", "watch"},
            route : Route \cup {None}, answered : BOOLEAN, name : 0..MaxNames,
            local : BOOLEAN, n : 0..MaxPolls]

NoCall == [op |-> "none", route |-> None, answered |-> FALSE, name |-> 0,
           local |-> FALSE, n |-> 0]

Controller == [name : [Route -> 0..MaxNames],
               row : [Route -> {"active", "cleaning", "deleted"}]]

TypeOK == panel \in Panel /\ call \in [Call -> CallRow] /\ controller \in Controller

Init ==
  /\ panel = [told |-> [r \in Route |-> 0], hidden |-> {}, candidate |-> None, summary |-> None,
              exportFor |-> None, export |-> None, edit |-> None, saving |-> FALSE,
              deleteFor |-> None, local |-> FALSE, loading |-> FALSE,
              offered |-> {}, renamed |-> {}, gaveUp |-> {}]
  /\ call = [c \in Call |-> NoCall]
  /\ controller = [name |-> [r \in Route |-> 0], row |-> [r \in Route |-> "active"]]

-----------------------------------------------------------------------------
Free(c) == call[c].op = "none"
Finish(c) == call' = [call EXCEPT ![c] = NoCall]
Start(c, op, r) ==
  Free(c) /\ call' = [call EXCEPT ![c] = [NoCall EXCEPT !.op = op, !.route = r, !.local = panel.local]]
Awaited(op) == {c \in Call : call[c].op = op}

OnDisplay == Route \ panel.hidden

\* The table: no modal covers it.  The modal of a removal is there with its row.
Uncovered ==
  /\ panel.exportFor = None /\ panel.edit = None
  /\ panel.deleteFor \notin OnDisplay

Row(r) == Uncovered /\ r \in OnDisplay

(* The operator. *)

SelectCandidateRoute(p, r) ==
  IF p.candidate = r THEN p
  ELSE [p EXCEPT !.candidate = r, !.summary = None, !.export = None]

ShowDetails(r) ==
  /\ Row(r) /\ panel.candidate # r
  /\ panel' = SelectCandidateRoute(panel, r)
  /\ UNCHANGED <<call, controller>>

\* A summary is shown in the row it is of.
SummaryShown(r) == r \in OnDisplay /\ panel.summary # None /\ panel.summary.route = r

\* What candidateLoading disables.
RowButtons(r) == Row(r) /\ ~panel.loading

LoadCandidateSummary(c, r) ==
  /\ RowButtons(r)
  /\ panel' = [SelectCandidateRoute(panel, r) EXCEPT !.loading = TRUE]
  /\ Start(c, "summary", r)
  /\ UNCHANGED controller

OpenCandidateExportModal(r) ==
  /\ RowButtons(r)
  /\ panel' = [panel EXCEPT !.exportFor = r, !.export = None]
  /\ UNCHANGED <<call, controller>>

CloseCandidateExportModal ==
  /\ panel.exportFor # None
  /\ panel' = [panel EXCEPT !.exportFor = None, !.export = None]
  /\ UNCHANGED <<call, controller>>

ExportOffered == panel.exportFor \in OnDisplay /\ ~panel.loading

ExportCandidateConfig(c) ==
  /\ ExportOffered
  /\ panel' = [panel EXCEPT !.loading = TRUE]
  /\ Start(c, "export", panel.exportFor)
  /\ UNCHANGED controller

OpenEditRoute(r) ==
  /\ Row(r)
  /\ panel' = [panel EXCEPT !.edit = r]
  /\ UNCHANGED <<call, controller>>

CloseEditRouteModal ==
  /\ panel.edit # None /\ ~panel.saving
  /\ panel' = [panel EXCEPT !.edit = None]
  /\ UNCHANGED <<call, controller>>

SaveOffered == panel.edit \in OnDisplay /\ ~panel.saving

SubmitEditRouteName(c) ==
  /\ SaveOffered
  /\ panel' = [panel EXCEPT !.saving = TRUE]
  /\ Start(c, "rename", panel.edit)
  /\ UNCHANGED controller

OpenDeleteRoute(r) ==
  /\ RowButtons(r)
  /\ panel' = [panel EXCEPT !.deleteFor = r, !.local = FALSE]
  /\ UNCHANGED <<call, controller>>

CloseDeleteRouteModal ==
  /\ panel.deleteFor \in OnDisplay
  /\ panel' = [panel EXCEPT !.deleteFor = None, !.local = FALSE]
  /\ UNCHANGED <<call, controller>>

DeleteOffered == panel.deleteFor \in OnDisplay /\ ~panel.loading

\* The row, and with it the modal, disappears before the request is made.
SubmitDeleteRoute(c) ==
  /\ DeleteOffered
  /\ panel' = [panel EXCEPT !.hidden = @ \cup {panel.deleteFor}, !.loading = TRUE]
  /\ Start(c, "delete", panel.deleteFor)
  /\ UNCHANGED controller

-----------------------------------------------------------------------------
(* The controller. *)

\* Bound: MaxNames names of a route.
Answer(c) ==
  LET r == call[c].route
      name == controller.name[r] + (IF call[c].op = "rename" THEN 1 ELSE 0)
  IN /\ call[c].op \in {"summary", "export", "rename"} /\ ~call[c].answered
     /\ controller.row[r] # "deleted" /\ name <= MaxNames
     /\ call' = [call EXCEPT ![c].answered = TRUE, ![c].name = name]
     /\ controller' = [controller EXCEPT !.name[r] = name]
     /\ UNCHANGED panel

CleanupEnds(r) ==
  /\ controller.row[r] = "cleaning"
  /\ \E row \in {"active", "deleted"} : controller' = [controller EXCEPT !.row[r] = row]
  /\ UNCHANGED <<panel, call>>

-----------------------------------------------------------------------------
(* Continuations. *)

\* Refused, or the fetch rejects; a renaming may have been handled.
RequestFails(c) ==
  /\ call[c].op \in {"summary", "export", "rename"}
  /\ panel' = IF call[c].op = "rename" THEN [panel EXCEPT !.saving = FALSE]
              ELSE [panel EXCEPT !.loading = FALSE]
  /\ Finish(c)
  /\ UNCHANGED controller

SummaryLoaded(c) ==
  /\ call[c].op = "summary" /\ call[c].answered
  /\ panel' = [panel EXCEPT !.summary = [route |-> call[c].route, name |-> call[c].name],
                            !.loading = FALSE]
  /\ Finish(c)
  /\ UNCHANGED controller

\* The link is shown in whatever modal is open, and makes a summary where there
\* is none of its route.
CandidateExported(c) ==
  LET r == call[c].route  named == [route |-> r, name |-> call[c].name]
  IN /\ call[c].op = "export" /\ call[c].answered
     /\ panel' = [panel EXCEPT !.export = named, !.loading = FALSE,
                    !.summary = IF @ # None /\ @.route = r THEN @ ELSE named]
     /\ Finish(c)
     /\ UNCHANGED controller

\* What is on display of a route that was renamed.
Forget(p, r) == IF p.export # None /\ p.export.route = r THEN [p EXCEPT !.export = None] ELSE p

RouteRenamed(c) ==
  LET r == call[c].route
      p == [panel EXCEPT !.edit = None, !.saving = FALSE, !.told[r] = call[c].name,
              !.renamed = IF \E k \in Awaited("summary") \cup Awaited("export") : call[k].route = r
                          THEN @ \cup {r} ELSE @ \ {r},
              !.summary = IF @ # None /\ @.route = r THEN [@ EXCEPT !.name = call[c].name] ELSE @]
  IN /\ call[c].op = "rename" /\ call[c].answered
     /\ panel' = Forget(p, r)
     /\ Finish(c)
     /\ UNCHANGED controller

\* A cleanup command, or a removal on the spot.
TakeDelete(c) ==
  /\ controller.row[call[c].route] = "active"
  /\ controller' = [controller EXCEPT
                      !.row[call[c].route] = IF call[c].local THEN "deleted" ELSE "cleaning"]

\* Mutated: a removal that failed keeps the row hidden.
DeleteRefused_KeepsHidden(c) ==
  /\ call[c].op = "delete"
  /\ panel' = [panel EXCEPT !.loading = FALSE]
  /\ Finish(c)
  /\ UNCHANGED controller

\* Refused, maybe with the offer of a local removal, or lost: then it may have
\* been taken.  With the row its modal is back.
DeleteRefused(c) ==
  LET r == call[c].route
      p == [panel EXCEPT !.hidden = @ \ {r}, !.loading = FALSE]
  IN /\ call[c].op = "delete"
     /\ \/ UNCHANGED controller /\ panel' = [p EXCEPT !.local = TRUE, !.offered = @ \cup {r}]
        \/ (TakeDelete(c) \/ UNCHANGED controller) /\ panel' = p
     /\ Finish(c)

DeleteAccepted(c) ==
  LET r == call[c].route
  IN /\ call[c].op = "delete" /\ TakeDelete(c)
     /\ panel' = [panel EXCEPT !.deleteFor = None, !.local = FALSE, !.summary = None,
                                         !.export = None, !.loading = FALSE]
     /\ IF call[c].local THEN Finish(c)
        ELSE call' = [call EXCEPT ![c] = [NoCall EXCEPT !.op = "watch", !.route = r]]

WatchEnds(c) ==
  LET r == call[c].route
  IN /\ call[c].op = "watch" /\ controller.row[r] # "cleaning"
     /\ panel' = [panel EXCEPT
                    !.hidden = IF controller.row[r] = "deleted" THEN @ ELSE @ \ {r}]
     /\ Finish(c)
     /\ UNCHANGED controller

\* After its last poll, or with one that rejects, the watch is over.
WatchGoesOn(c) ==
  /\ call[c].op = "watch"
  /\ \/ /\ call[c].n + 1 < MaxPolls /\ controller.row[call[c].route] = "cleaning"
        /\ call' = [call EXCEPT ![c].n = @ + 1]
        /\ UNCHANGED panel
     \/ /\ panel' = [panel EXCEPT !.gaveUp = @ \cup {call[c].route}]
        /\ Finish(c)
  /\ UNCHANGED controller

Next ==
  \/ \E c \in Call : \/ ExportCandidateConfig(c) \/ SubmitEditRouteName(c) \/ SubmitDeleteRoute(c)
                     \/ Answer(c) \/ RequestFails(c) \/ SummaryLoaded(c) \/ CandidateExported(c)
                     \/ RouteRenamed(c) \/ DeleteRefused(c) \/ DeleteAccepted(c)
                     \/ WatchEnds(c) \/ WatchGoesOn(c)
                     \/ \E r \in Route : LoadCandidateSummary(c, r)
  \/ \E r \in Route : \/ ShowDetails(r) \/ OpenCandidateExportModal(r) \/ OpenEditRoute(r)
                      \/ OpenDeleteRoute(r) \/ CleanupEnds(r)
  \/ CloseCandidateExportModal \/ CloseEditRouteModal \/ CloseDeleteRouteModal

Spec == Init /\ [][Next]_vars

-----------------------------------------------------------------------------
(* Properties. *)

\* The link in the export modal is one of its route: the answer is not held
\* against the modal, it is the shared flag that keeps the modal of another
\* route from being opened while a link is awaited.
ExportIsOfItsRoute ==
  panel.exportFor # None /\ panel.export # None => panel.export.route = panel.exportFor

\* The summary and the link on display bear the name that was saved last, unless
\* the route was renamed while either was awaited (submitEditRouteName corrects
\* what is there, not what is on its way).
NamesAgree ==
  \A r \in Route \ panel.renamed :
    /\ SummaryShown(r) => panel.summary.name >= panel.told[r]
    /\ panel.export # None /\ panel.export.route = r => panel.export.name >= panel.told[r]

\* A removal is local only for a route whose cleanup was refused for an offline
\* worker: the modal that comes back is the one that was submitted.
LocalModeWasOffered ==
  /\ panel.local => panel.deleteFor \in panel.offered
  /\ \A c \in Awaited("delete") : call[c].local => call[c].route \in panel.offered

\* A row that is hidden for its removal and still exists has a flow that may
\* bring it back, or its cleanup was given up.
HiddenRowIsWatched ==
  \A r \in panel.hidden :
    \/ controller.row[r] = "deleted" \/ r \in panel.gaveUp
    \/ \E c \in Awaited("delete") \cup Awaited("watch") : call[c].route = r
=============================================================================
