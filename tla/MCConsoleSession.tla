-------------------------- MODULE MCConsoleSession --------------------------
(* TLC instance of ConsoleSession. *)
EXTENDS ConsoleSession
=============================================================================
