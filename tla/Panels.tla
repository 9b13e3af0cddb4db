-------------------------------- MODULE Panels -------------------------------
(***************************************************************************)
(* What the runs of the panels share.  A panel keeps its state, the calls  *)
(* it waits for and what its answers depend on in the controller; where a  *)
(* run has several panels, each behaviour is one of the part "mode" names. *)
(***************************************************************************)
CONSTANTS None, Call, MaxCommands

VARIABLES mode, panel, call, controller

vars == <<mode, panel, call, controller>>
=============================================================================
