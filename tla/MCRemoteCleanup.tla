--------------------------- MODULE MCRemoteCleanup ---------------------------
(* TLC instances of RemoteCleanup: a landing and a transit server, two nodes  *)
(* on one port, two routes on two.  Routes forward to n1.                      *)
EXTENDS RemoteCleanup, TLC

CONSTANTS l1, t1, n1, n2, r1, r2, p1, p2

AllServerOf == [i \in Item |-> IF i \in Node THEN l1 ELSE t1]
AllTargetOf == [r \in Route |-> IF n1 \in Node THEN n1 ELSE None]

TwoPorts == [i \in Item |-> IF i = r2 THEN p2 ELSE p1]

\* Bound of the run: of one server at a time the worker is not online, or the
\* record is deleted.  The proofs are without it.
CleanupBound == \A s, x \in {l1, t1} :
  (gone[s] \/ worker[s] # "online") /\ (gone[x] \/ worker[x] # "online") => s = x
=============================================================================
