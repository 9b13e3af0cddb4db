-------------------------- MODULE MCCommandChannel --------------------------
(* TLC instances of CommandChannel. *)
EXTENDS CommandChannel, TLC

\* Requests slots and commands are interchangeable until they are used.
Symmetry == Permutations(Request) \cup Permutations(Command)
=============================================================================
