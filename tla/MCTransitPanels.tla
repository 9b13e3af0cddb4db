-------------------------- MODULE MCTransitPanels ---------------------------
(***************************************************************************)
(* The transit panels in one run: the transit servers of                   *)
(* TransitServersPanel, the creation of a route and the rows of the routes *)
(* of TransitRoutesPanel; each behaviour is one of the part "mode" names.  *)
(***************************************************************************)
EXTENDS Panels, Naturals, FiniteSets, TLC

CONSTANTS Server, Port, Route, MaxPolls, MaxNames

Servers == INSTANCE TransitServers
Create == INSTANCE TransitCreate
Rows == INSTANCE TransitRouteRows

\* None is none of the values it stands in for, and the bounds are numbers.
ASSUME TransitPanelsAssumption ==
  /\ None \notin Server \cup Port \cup Create!Command \cup Route \cup Rows!Named
  /\ IsFiniteSet(Call)
  /\ MaxPolls \in Nat /\ MaxCommands \in Nat /\ MaxNames \in Nat

TransitSymmetry == Permutations(Server) \cup Permutations(Call)

\* Bounds of the run: one server at most is removed, and the port is typed over a
\* confirmed one at most once.  The proofs are without them.
OneRemoval ==
  \E s \in Server : /\ s \notin panel.hidden \cup controller.cleaning
                   /\ controller.row[s] # "deleted"

OneIsKept == \A p, q \in panel.kept : p = q

TransitBound == (mode = "servers" => OneRemoval) /\ (mode = "create" => OneIsKept)

TransitInit ==
  \/ mode = "servers" /\ Servers!Init
  \/ mode = "create" /\ Create!Init
  \/ mode = "rows" /\ Rows!Init

TransitNext ==
  \/ mode = "servers" /\ Servers!Next /\ UNCHANGED mode
  \/ mode = "create" /\ Create!Next /\ UNCHANGED mode
  \/ mode = "rows" /\ Rows!Next /\ UNCHANGED mode

TransitSpec == TransitInit /\ [][TransitNext]_vars

\* What was asked for one server or route stays with it: an install command, the
\* worker its polling announces, the mode that polling is in and its close timer
\* belong to the modal's server, the steps of a creation and its link to one
\* flow, the exported link and the names to the route on display.
AnswersKeepToTheirOwner ==
  /\ [](mode = "servers" => /\ Servers!PreviewIsOfItsServer
                            /\ Servers!GenerationsTakeTurns
                            /\ Servers!CommandIsKeptForItsWorker)
  /\ [][mode = "servers" => Servers!UpgradeIsAwaitedAction]_vars
  /\ [](mode = "create" => Create!LinkIsOfItsRoute /\ Create!OneFlowPerModal)
  /\ [](mode = "rows" => Rows!ExportIsOfItsRoute /\ Rows!NamesAgree)

\* What the modal of a creation says is so: the firewalls of the port were
\* confirmed, the route it shows is one that it made, and a failure comes
\* without a link (TransitCreate).
Create_OutcomeIsTold ==
  mode = "create" => /\ Create!FirewallWasConfirmed
                     /\ Create!CreatedRouteIsNew
                     /\ Create!FailedShowsNoLink

\* A server or route being deleted is hidden under a watch that may bring it
\* back, and a route is removed without its worker only where that was offered.
DeletedIsHidden ==
  /\ mode = "servers" => Servers!HiddenRowIsWatched
  /\ mode = "rows" => Rows!HiddenRowIsWatched /\ Rows!LocalModeWasOffered
=============================================================================
