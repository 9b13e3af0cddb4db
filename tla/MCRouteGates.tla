---------------------------- MODULE MCRouteGates ----------------------------
(* TLC instances of RouteGates. *)
EXTENDS RouteGates, TLC

Symmetry == Permutations(Request)

\* Bound of the run: once all commands are used up, nothing is followed for which
\* both methods passed their preflight.  The proofs are without it.
GatesBound == Len(commands) = MaxCommands => preflight # ApprovedTarget \X Method
=============================================================================
