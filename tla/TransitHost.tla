----------------------------- MODULE TransitHost -----------------------------
(***************************************************************************)
(* The worker's hands on a transit host: the creation of socat and HAProxy *)
(* routes with their rollback (worker/cmd/liveline-worker/main.go and      *)
(* transit_haproxy.go) and the cleanup of a route, one command of the      *)
(* shell or of the file system at a time.                                  *)
(*                                                                         *)
(* Every route has a systemd unit of its own, named by method and port, so *)
(* that a socat and an HAProxy unit can be made for one port.  systemctl   *)
(* calls a service active as soon as it is forked; whether it gets its     *)
(* port turns out later, and a service that exits is started again.        *)
(*                                                                         *)
(* Abstractions.  Contents of units and configurations never vary.  The    *)
(* HAProxy package, installed on demand and kept, and the reachability of  *)
(* the target can only make a creation refuse.  A refused command changes  *)
(* nothing and is no step.  MaxFaults bounds crashes, reboots and failing  *)
(* services.                                                               *)
(***************************************************************************)
EXTENDS Naturals, FiniteSets

CONSTANTS
  Haproxy, Socat,  \* units of either method
  PortOf,          \* the port of a unit
  None, MaxFaults

Unit == Haproxy \cup Socat

\* What the constants have to satisfy; the module that instantiates this one
\* assumes it.
UnitsAreTold == /\ Haproxy \cap Socat = {} /\ DOMAIN PortOf = Unit
                /\ None \notin Unit /\ MaxFaults \in Nat

VARIABLES
  unit,    \* units with a file
  conf,    \* units with an HAProxy configuration
  enabled, \* units that start with the host
  process, \* the services
  run,     \* the command in the worker's hands
  upset,   \* history: units of which a command failed half-way
  faults

vars == <<unit, conf, enabled, process, run, upset, faults>>
disk == <<unit, conf, enabled>>

Artifact == {"ConfigWritten", "ServiceWritten", "ServiceEnabled", "ServiceStarted"}

CreateSteps   == {"config", "validate", "unit", "reload", "start", "verify"}
RollbackSteps == {"stop", "disable", "drop_unit", "drop_config"}
CleanupSteps  == {"disable_now", "remove_unit", "remove_config", "check"}
Outcomes      == {"created", "create_failed", "cleaned", "cleanup_failed"}

Run == [step : {"idle"} \cup CreateSteps \cup RollbackSteps \cup CleanupSteps \cup Outcomes,
        unit : Unit \cup {None}, did : SUBSET Artifact]

\* "starting": forked and not yet bound to its port; "waiting": it exited, and
\* systemd will start it again.
ProcessState == {"stopped", "starting", "bound", "waiting"}

Idle == [step |-> "idle", unit |-> None, did |-> {}]

TypeOK ==
  /\ unit \in SUBSET Unit /\ conf \in SUBSET Haproxy /\ enabled \in SUBSET Unit
  /\ process \in [Unit -> ProcessState]
  /\ run \in Run
  /\ upset \in SUBSET Unit
  /\ faults \in 0 .. MaxFaults

Init ==
  /\ unit = {} /\ conf = {} /\ enabled = {}
  /\ process = [u \in Unit |-> "stopped"]
  /\ run = Idle /\ upset = {} /\ faults = 0

-----------------------------------------------------------------------------
At(step) == run.step = step
Did(flag) == flag \in run.did
Now(u, state) == process' = [process EXCEPT ![u] = state]

Listening(port) == \E u \in Unit : PortOf[u] = port /\ process[u] = "bound"
IsActive(u) == process[u] \in {"starting", "bound"}

\* The worker goes on to a step, having set these flags.
Go(step, flags) ==
  /\ run' = [run EXCEPT !.step = step, !.did = @ \cup flags]
  /\ UNCHANGED upset

\* The same after a command that failed with an effect, or did not undo one.
Mishap(step) ==
  /\ run' = [run EXCEPT !.step = step]
  /\ upset' = upset \cup {run.unit}

-----------------------------------------------------------------------------
(***************************************************************************)
(* Creation of a route.                                                    *)
(***************************************************************************)

MayCreate(u) == u \notin unit \cup conf /\ ~Listening(PortOf[u])

BeginCreate(u) ==
  /\ At("idle")
  /\ MayCreate(u)
  /\ run' = [Idle EXCEPT !.step = IF u \in Haproxy THEN "config" ELSE "unit", !.unit = u]
  /\ UNCHANGED <<disk, process, upset, faults>>

\* os.WriteFile may leave a part of the file, of which the rollback knows nothing.
WriteConfig ==
  /\ At("config")
  /\ \/ conf' = conf \cup {run.unit} /\ (Go("validate", {"ConfigWritten"}) \/ Mishap("stop"))
     \/ UNCHANGED conf /\ Go("stop", {})
  /\ UNCHANGED <<unit, enabled, process, faults>>

ValidateConfig ==
  /\ At("validate")
  /\ Go("unit", {}) \/ Go("stop", {})
  /\ UNCHANGED <<disk, process, faults>>

WriteUnit ==
  /\ At("unit")
  /\ \/ unit' = unit \cup {run.unit} /\ (Go("reload", {"ServiceWritten"}) \/ Mishap("stop"))
     \/ UNCHANGED unit /\ Go("stop", {})
  /\ UNCHANGED <<conf, enabled, process, faults>>

DaemonReload ==
  /\ At("reload")
  /\ Go("start", {}) \/ Go("stop", {})
  /\ UNCHANGED <<disk, process, faults>>

\* systemctl enable --now: the flags are set only when all of it succeeded.
EnableNow ==
  /\ At("start")
  /\ \/ /\ enabled' = enabled \cup {run.unit} /\ Now(run.unit, "starting")
        /\ Go("verify", {"ServiceEnabled", "ServiceStarted"}) \/ Mishap("stop")
     \/ /\ enabled' = enabled \cup {run.unit} /\ UNCHANGED process
        /\ Mishap("stop")
     \/ UNCHANGED <<enabled, process>> /\ Go("stop", {})
  /\ UNCHANGED <<unit, conf, faults>>

\* Slip: an active service will do.
Verified_Active == IsActive(run.unit)

\* The unit is active, and something listens on its port.
Verified == IsActive(run.unit) /\ Listening(PortOf[run.unit])

Verify ==
  /\ At("verify")
  /\ (Verified /\ Go("created", {})) \/ Go("stop", {})
  /\ UNCHANGED <<disk, process, faults>>

-----------------------------------------------------------------------------
(***************************************************************************)
(* Rollback: errors are ignored and nothing is verified.                   *)
(***************************************************************************)

\* Slip: started services are disabled and go on.
Stop_Skipped == UNCHANGED process /\ Go("disable", {})

Stop ==
  IF Did("ServiceStarted")
  THEN \/ Now(run.unit, "stopped") /\ Go("disable", {})
       \/ UNCHANGED process /\ Mishap("disable")
  ELSE UNCHANGED process /\ Go("disable", {})

StopService ==
  /\ At("stop")
  /\ Stop
  /\ UNCHANGED <<disk, faults>>

DisableService ==
  /\ At("disable")
  /\ IF Did("ServiceEnabled")
     THEN \/ enabled' = enabled \ {run.unit} /\ Go("drop_unit", {})
          \/ UNCHANGED enabled /\ Mishap("drop_unit")
     ELSE UNCHANGED enabled /\ Go("drop_unit", {})
  /\ UNCHANGED <<unit, conf, process, faults>>

DropUnit ==
  /\ At("drop_unit")
  /\ IF Did("ServiceWritten")
     THEN \/ unit' = unit \ {run.unit} /\ Go("drop_config", {})
          \/ UNCHANGED unit /\ Mishap("drop_config")
     ELSE UNCHANGED unit /\ Go("drop_config", {})
  /\ UNCHANGED <<conf, enabled, process, faults>>

DropConfig ==
  /\ At("drop_config")
  /\ IF Did("ConfigWritten")
     THEN \/ conf' = conf \ {run.unit} /\ Go("create_failed", {})
          \/ UNCHANGED conf /\ Mishap("create_failed")
     ELSE UNCHANGED conf /\ Go("create_failed", {})
  /\ UNCHANGED <<unit, enabled, process, faults>>

-----------------------------------------------------------------------------
(***************************************************************************)
(* Cleanup of a route: it stops at the first error.                        *)
(***************************************************************************)

BeginCleanup(u) ==
  /\ At("idle")
  /\ u \in unit /\ (u \in Haproxy => u \in conf)
  /\ run' = [Idle EXCEPT !.step = "disable_now", !.unit = u]
  /\ UNCHANGED <<disk, process, upset, faults>>

DisableNow ==
  /\ At("disable_now")
  /\ \/ enabled' = enabled \ {run.unit} /\ Now(run.unit, "stopped") /\ Go("remove_unit", {})
     \/ /\ enabled' \in {enabled, enabled \ {run.unit}}
        /\ process' \in {process, [process EXCEPT ![run.unit] = "stopped"]}
        /\ Mishap("cleanup_failed")
  /\ UNCHANGED <<unit, conf, faults>>

RemoveUnit ==
  /\ At("remove_unit")
  /\ \/ /\ unit' = unit \ {run.unit}
        /\ Go(IF run.unit \in Haproxy THEN "remove_config" ELSE "check", {})
     \/ UNCHANGED unit /\ Mishap("cleanup_failed")
  /\ UNCHANGED <<conf, enabled, process, faults>>

RemoveConfig ==
  /\ At("remove_config")
  /\ \/ conf' = conf \ {run.unit} /\ Go("check", {})
     \/ UNCHANGED conf /\ Mishap("cleanup_failed")
  /\ UNCHANGED <<unit, enabled, process, faults>>

\* Any listener on the port is taken for the route's.
CheckPort ==
  /\ At("check")
  /\ Go(IF Listening(PortOf[run.unit]) THEN "cleanup_failed" ELSE "cleaned", {})
  /\ UNCHANGED <<disk, process, faults>>

Report ==
  /\ run.step \in Outcomes
  /\ run' = Idle
  /\ UNCHANGED <<disk, process, upset, faults>>

-----------------------------------------------------------------------------
(***************************************************************************)
(* What happens to the host meanwhile.                                     *)
(***************************************************************************)

Complete(u) == u \in unit /\ (u \in Haproxy => u \in conf)

\* A service binds its port, or exits because another one has it.
Binds(u) ==
  /\ process[u] = "starting"
  /\ Now(u, IF Listening(PortOf[u]) THEN "waiting" ELSE "bound")
  /\ UNCHANGED <<disk, run, upset, faults>>

\* Restart=always, RestartSec=5.
Restarts(u) ==
  /\ process[u] = "waiting" /\ Complete(u)
  /\ Now(u, "starting")
  /\ UNCHANGED <<disk, run, upset, faults>>

Strike == faults < MaxFaults /\ faults' = faults + 1

ServiceFails(u) ==
  /\ IsActive(u)
  /\ Strike
  /\ Now(u, "waiting")
  /\ UNCHANGED <<disk, run, upset>>

\* Whatever the command has done so far stays, and is forgotten.
Interrupted ==
  /\ run' = Idle
  /\ upset' = upset \cup IF run.step \in {"idle"} \cup Outcomes THEN {} ELSE {run.unit}
  /\ UNCHANGED disk

WorkerDies ==
  /\ run.step \notin {"idle"} \cup Outcomes
  /\ Strike
  /\ Interrupted
  /\ UNCHANGED process

HostReboots ==
  /\ Strike
  /\ Interrupted
  /\ process' = [u \in Unit |-> IF u \in enabled /\ Complete(u) THEN "starting" ELSE "stopped"]

-----------------------------------------------------------------------------
CreateRoute ==
  \/ \E u \in Unit : BeginCreate(u)
  \/ WriteConfig \/ ValidateConfig \/ WriteUnit \/ DaemonReload \/ EnableNow \/ Verify

Rollback == StopService \/ DisableService \/ DropUnit \/ DropConfig

CleanUp ==
  \/ \E u \in Unit : BeginCleanup(u)
  \/ DisableNow \/ RemoveUnit \/ RemoveConfig \/ CheckPort

Host ==
  \/ \E u \in Unit : Binds(u) \/ Restarts(u) \/ ServiceFails(u)
  \/ WorkerDies \/ HostReboots

Next == CreateRoute \/ Rollback \/ CleanUp \/ Report \/ Host

Spec == Init /\ [][Next]_vars

-----------------------------------------------------------------------------
(***************************************************************************)
(* Properties.                                                             *)
(***************************************************************************)

Absent(u) == u \notin unit \cup conf \cup enabled /\ process[u] = "stopped"
Whole(u)  == u \in enabled /\ Complete(u) /\ process[u] # "stopped"

\* Between commands a unit is there with all that belongs to it, or with
\* nothing: whichever step of a creation failed, the rollback removed all the
\* others left, and no cleanup stops half-way.  Only a command that failed with
\* an effect, an error the rollback ignored or a crash makes an exception.
UnitsAreWhole ==
  \A u \in Unit : run.unit # u /\ u \notin upset => Absent(u) \/ Whole(u)

\* A creation is reported as failed with nothing of it left on the host.
FailedCreateLeavesNothing ==
  At("create_failed") /\ run.unit \notin upset => Absent(run.unit)

\* A route is reported as created only when its own unit serves its port.  The
\* check cannot tell listeners apart, but a unit of the other method can be the
\* one that listens only after a fault or a mishap.
CreatedPortIsServed ==
  [][At("verify") /\ run'.step = "created" =>
       \/ process'[run.unit] = "bound"
       \/ /\ faults > 0 \/ upset # {}
          /\ \E u \in Unit : /\ u # run.unit /\ PortOf[u] = PortOf[run.unit]
                             /\ process'[u] = "bound"]_vars

\* Two units for one port fight for it after every reboot.  It takes a fault or
\* a mishap to make the second one: as long as the first serves, the port check
\* refuses it, whichever method it is of.
OneUnitPerPort ==
  faults = 0 /\ upset = {} =>
    \A u, v \in Unit : u # v /\ PortOf[u] = PortOf[v] => ~(Whole(u) /\ Whole(v))

\* A cleanup that succeeds leaves nothing of the route: no file, nothing that
\* starts with the host and no process that runs or will be started again.
CleanedRouteIsGone == At("cleaned") => Absent(run.unit)
=============================================================================
