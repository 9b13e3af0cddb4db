-------------------------- MODULE CommandLifecycle --------------------------
(***************************************************************************)
(* What the command channel promises the operator who issues a command:    *)
(* the command is delivered and then finished exactly once, and the record *)
(* of its effect appears in the same instant as its success.  Redelivery,  *)
(* leases, worker processes and requests are no part of the promise.       *)
(***************************************************************************)
CONSTANTS Command

VARIABLES
  status,    \* what the operator sees
  kind,      \* what the command was issued for
  recorded   \* whether the effect of the command is on record

vars == <<status, kind, recorded>>

Init ==
  /\ status   = [c \in Command |-> "absent"]
  /\ kind     = [c \in Command |-> "readonly"]
  /\ recorded = [c \in Command |-> FALSE]

Issue(c, k) ==
  /\ status[c] = "absent"
  /\ status' = [status EXCEPT ![c] = "pending"]
  /\ kind'   = [kind EXCEPT ![c] = k]
  /\ UNCHANGED recorded

Deliver(c) ==
  /\ status[c] = "pending"
  /\ status' = [status EXCEPT ![c] = "running"]
  /\ UNCHANGED <<kind, recorded>>

Succeed(c) ==
  /\ status[c] = "running"
  /\ status'   = [status EXCEPT ![c] = "succeeded"]
  /\ recorded' = [recorded EXCEPT ![c] = kind[c] # "readonly"]
  /\ UNCHANGED kind

Fail(c) ==
  /\ status[c] = "running"
  /\ status' = [status EXCEPT ![c] = "failed"]
  /\ UNCHANGED <<kind, recorded>>

Next ==
  \E c \in Command :
    \/ \E k \in {"readonly", "once", "route"} : Issue(c, k)
    \/ Deliver(c)
    \/ Succeed(c)
    \/ Fail(c)

Spec == Init /\ [][Next]_vars
=============================================================================
