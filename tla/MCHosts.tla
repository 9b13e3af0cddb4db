------------------------------- MODULE MCHosts -------------------------------
(***************************************************************************)
(* The hosts in one run: the landing host this module extends, the transit *)
(* host "Transit", and the landing host as the execution of BBR sees it,   *)
(* "Bbr".  They share nothing; a behaviour is one of the host "mode"       *)
(* names, the others stay where they start.                                *)
(***************************************************************************)
EXTENDS LandingHost, TLC

CONSTANTS Haproxy, Socat, PortOf, MaxCommands, p1, p2, h2

VARIABLES mode, unitT, conf, enabledT, processT, runT, upset, faultsT,
          kernel, module, file, active, gate, runB, known, faultsB

Transit == INSTANCE TransitHost WITH
  unit <- unitT, enabled <- enabledT, process <- processT, run <- runT, faults <- faultsT

Bbr == INSTANCE BbrHost WITH run <- runB, faults <- faultsB

\* For the run: the unit h2 has a port of its own, the others want one port.
TwoPorts == [u \in Haproxy \cup Socat |-> IF u = h2 THEN p2 ELSE p1]

\* Bound of the run: there is a unit of which no command failed half-way.  The
\* proofs are without it.
HostsBound == upset # Haproxy \cup Socat

ASSUME TransitAssumption == Transit!UnitsAreTold

landingVars == <<config, torn, unit, enabled, binary, litter, process, running, run, faults>>
transitVars == <<unitT, conf, enabledT, processT, runT, upset, faultsT>>
bbrVars == <<kernel, module, file, active, gate, runB, known, faultsB>>

AllInit ==
  /\ Init /\ Transit!Init /\ mode \in {"landing", "transit", "bbr"}
  /\ IF mode = "bbr" THEN Bbr!Init
     ELSE Bbr!Init /\ kernel = [has |-> TRUE, wins |-> FALSE, bad |-> FALSE] /\ file = "empty"

AllNext ==
  \/ mode = "landing" /\ Next /\ UNCHANGED <<mode, transitVars, bbrVars>>
  \/ mode = "transit" /\ Transit!Next /\ UNCHANGED <<mode, landingVars, bbrVars>>
  \/ mode = "bbr" /\ Bbr!Next /\ UNCHANGED <<mode, landingVars, transitVars>>

AllSpec == AllInit /\ [][AllNext]_<<mode, landingVars, transitVars, bbrVars>>

\* A creation that failed leaves the host as it was: the landing host with the
\* nodes it had, the transit host without anything of the route.
FailureLeavesNoTrace == FailedCreateRestores /\ Transit!FailedCreateLeavesNothing

\* A node or route is reported as created only when it is served, and on the
\* landing host together with all the nodes it joins.
CreatedIsServed == CreatedAmongTheOthers /\ Transit!CreatedPortIsServed

\* A cleanup that succeeds leaves nothing that runs, restarts or comes back.
CleanedIsGone == CleanupLeavesNothing /\ Transit!CleanedRouteIsGone

\* Between commands a transit unit is there with all that belongs to it, or with
\* nothing, and without a fault none fights another for its port.
UnitsAreWhole == Transit!UnitsAreWhole /\ Transit!OneUnitPerPort

\* What is left of an execution of BBR was reported, also when it failed, and
\* what was reported as enabled stays in force.
BbrIsKnown == Bbr!BbrIsKnown
=============================================================================
