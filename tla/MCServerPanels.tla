--------------------------- MODULE MCServerPanels ---------------------------
(***************************************************************************)
(* The parts of ServerManagementPanel in one run: each behaviour is one of *)
(* the part that "mode" names.  The parts share no state but the table of  *)
(* servers, and each is checked over every state that table may be in.     *)
(***************************************************************************)
EXTENDS Panels, Naturals, FiniteSets, TLC

CONSTANTS Server, MaxPolls, MaxWatchPolls

Install == INSTANCE ServerInstall
Bbr == INSTANCE BbrPanel WITH MaxPolls <- MaxWatchPolls
Links == INSTANCE NodeLinks WITH Node <- Server

\* None is none of the values it stands in for, and a polling has a poll.
ASSUME ServerPanelsAssumption ==
  /\ None \notin Server \cup Call
  /\ IsFiniteSet(Call)
  /\ MaxPolls \in Nat \ {0}

ServerSymmetry == Permutations(Server) \cup Permutations(Call)

\* Bounds of the run.  One server at most is removed, and a removal that failed
\* or was given up is not followed beyond its last list; a plan of BBR that is on
\* display is not asked for again.  The proofs are without them.
Removing(s) == \E c \in Call : call[c].op \in {"delete", "watch"} /\ call[c].server = s

OneRemoval ==
  /\ \E s \in Server : /\ s \notin panel.hidden /\ controller.cleanup[s] = "none"
                       /\ controller.row[s] # "deleted"
  /\ \A s \in Server :
       controller.cleanup[s] = "failed" \/ s \in panel.gaveUp => Removing(s)

OnePlan == \A c \in Call : call[c].op = "plan" => ~panel.plan[call[c].server]

ServerBound == (mode = "install" => OneRemoval) /\ (mode = "bbr" => OnePlan)

ServerInit ==
  \/ mode = "install" /\ Install!Init
  \/ mode = "bbr" /\ Bbr!Init
  \/ mode = "links" /\ Links!Init

ServerNext ==
  \/ mode = "install" /\ Install!Next /\ UNCHANGED mode
  \/ mode = "bbr" /\ Bbr!Next /\ UNCHANGED mode
  \/ mode = "links" /\ Links!Next /\ UNCHANGED mode

ServerSpec == ServerInit /\ [][ServerNext]_vars

\* What was asked for one server or node stays with it: the polling of an
\* earlier install command, its close timer and its token do not reach into the
\* modal of another server, a failure is shown for the server that failed, a
\* link and its QR code for the node that was opened last.
Servers_AnswersKeepToTheirOwner ==
  /\ [](mode = "install" => /\ Install!ChainsAreCurrent
                            /\ Install!CommandIsForItsServer
                            /\ Install!AutoCloseSparesNewCommands)
  /\ [](mode = "bbr" => Bbr!ErrorIsOfItsServer)
  /\ [](mode = "links" => Links!LinkIsOfItsNode /\ Links!DetailIsTheLastAsked)
  /\ [][mode = "links" => Links!FileIsOfItsNodeAction]_vars

\* A server being deleted is hidden, under a watch that may bring it back, and
\* once it is deleted no older list does (ServerInstall).
Install_DeletedIsHidden ==
  mode = "install" => Install!HiddenRowIsWatched /\ Install!RemovedStaysAway

\* A real execution of BBR follows a dry run of its server that succeeded, one
\* is requested at a time, and no list answered late makes an older command the
\* latest (BbrPanel).
Bbr_RealExecutionIsInTurn ==
  /\ [](mode = "bbr" => Bbr!RealExecutionHadItsDryRun /\ Bbr!OneRealRequestPerServer)
  /\ [][mode = "bbr" => Bbr!LatestGoesForwardAction]_vars
=============================================================================
