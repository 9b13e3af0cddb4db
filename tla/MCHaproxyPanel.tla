--------------------------- MODULE MCHaproxyPanel ---------------------------
(***************************************************************************)
(* AdvancedHaproxyDebugPanel in one run: the readiness and the creation of *)
(* a route, and the registration of its resources; "mode" names the part.  *)
(***************************************************************************)
EXTENDS Panels, TLC

\* Place: what a registered resource is made from.
CONSTANTS Candidate, Place, Name

Debug == INSTANCE HaproxyDebug
Registration == INSTANCE HaproxyRegistration WITH Candidate <- Place

\* None is none of the values it stands in for.
ASSUME HaproxyAssumption ==
  /\ None \notin Candidate \cup Debug!Plan \cup Debug!Readiness
  /\ None \notin Place \cup Name \cup Registration!Draft \cup Registration!Command
  /\ None \notin Registration!Result \cup [draft : Registration!Draft, executed : BOOLEAN]

HaproxySymmetry == Permutations(Candidate) \cup Permutations(Name) \cup Permutations(Call)

\* Bounds of the run.  The route of one candidate at most is created.  When
\* creations of commands overlap they are of one draft; one request at a time goes
\* on without the panel; once a node is there and no command is left to execute,
\* nothing more is followed.  The proofs are without them.
OneIsCreated ==
  \E d \in Candidate : controller.commands[d] = 0 /\ d \notin controller.orphans

Created == {i \in Registration!Command : controller.commands[i] # None}
GivenUp == {c \in Call : call[c].op # "none" /\ ~call[c].awaited}

OneIsRegistered ==
  /\ controller.overlapped =>
       \A i, j \in Created : controller.commands[i].draft = controller.commands[j].draft
  /\ \A b, c \in GivenUp : b = c
  /\ controller.nodes # {} => \E i \in Created : ~controller.commands[i].executed

HaproxyBound ==
  (mode = "debug" => OneIsCreated) /\ (mode = "registration" => OneIsRegistered)

HaproxyInit ==
  \/ mode = "debug" /\ Debug!Init
  \/ mode = "registration" /\ Registration!Init

HaproxyNext ==
  \/ mode = "debug" /\ Debug!Next /\ UNCHANGED mode
  \/ mode = "registration" /\ Registration!Next /\ UNCHANGED mode

HaproxySpec == HaproxyInit /\ [][HaproxyNext]_vars

\* What is carried out was found ready and approved as it is: a creation follows
\* the readiness of its plan and confirmations ticked for its candidate, a
\* registration the dry run and the approval of its draft, and the results on
\* display are those of the draft on display.
CarriedOutAsApproved ==
  /\ [](mode = "debug" => Debug!CreationFollowsReadiness)
  /\ [][mode = "debug" => Debug!RequestWasConfirmedAction]_vars
  /\ [](mode = "registration" => /\ Registration!RegisteredWasApproved
                                 /\ Registration!ResultsAreOfTheDraft)

\* However often a request is sent again, a dry run and a draft get one command
\* each, a draft one resource and a place one node, although no lock spans the
\* check and the insert.
CarriedOutOnce ==
  /\ mode = "debug" => Debug!OneCommandPerDryRun
  /\ mode = "registration" => /\ Registration!OneCommandPerDraft
                              /\ Registration!OneResourcePerDraft
                              /\ Registration!NodesAreWhole
=============================================================================
