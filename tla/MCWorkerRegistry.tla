-------------------------- MODULE MCWorkerRegistry --------------------------
(***************************************************************************)
(* Two instances of WorkerRegistry in one run.  The one this module        *)
(* extends has one two-step request at a time, over two landing servers    *)
(* and two tokens; "Race" has two overlapping ones over one server of      *)
(* either role and one token.  A behaviour is one of the instance "mode"   *)
(* names, the other one stays where it starts.                             *)
(***************************************************************************)
EXTENDS WorkerRegistry, TLC

CONSTANTS a1, l1, l2, l3, x1, w1, w2, k1, k2, t3, h3

VARIABLES mode, serverR, tokenR, workerR, txnR

Race == INSTANCE WorkerRegistry WITH
  Landing <- {l3}, Transit <- {x1}, Worker <- {w1, w2}, Token <- {t3}, Handler <- {k1, k2},
  IpOf <- [s \in {l3, x1} |-> a1],
  server <- serverR, token <- tokenR, worker <- workerR, txn <- txnR

\* Every server has the same public address: records of it come and go.
OneAddress == {a1}
SameIp == [s \in Server |-> a1]

\* Both instances share the workers; k1 and k2 are the tokens of the one and the
\* slots of the other, which keeps the group small.
Symmetry == Permutations({w1, w2}) \cup Permutations({k1, k2}) \cup Permutations({l1, l2})

\* Bound of the run: in "race" there is a record of one server, the landing or the
\* transit one.  They share neither a worker nor the token.  The proofs are
\* without it.
RegistryBound == \E s \in {l3, x1} : serverR[s].status = "absent"

BothInit == Init /\ Race!Init /\ mode \in {"serial", "race"}

BothNext ==
  \/ mode = "serial" /\ Next /\ UNCHANGED <<mode, serverR, tokenR, workerR, txnR>>
  \/ mode = "race" /\ Race!Next /\ UNCHANGED <<mode, server, token, worker, txn>>

BothSpec == BothInit /\ [][BothNext]_<<mode, vars, serverR, tokenR, workerR, txnR>>

\* However requests overlap, a deleted worker or server comes back only through
\* one that read it before it was deleted.
Race_RevivedOnlyByStaleRequest ==
  Race!RevivedOnlyByStaleHeartbeat /\ Race!ServerRevivedOnlyByStaleRequest
=============================================================================
