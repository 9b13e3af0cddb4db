----------------------------- MODULE LandingHost -----------------------------
(***************************************************************************)
(* The worker's hands on a landing host: executeLandingNodeCreate and its  *)
(* rollback, and cleanupXrayNodePlan                                       *)
(* (worker/cmd/liveline-worker/main.go), one command of the shell or of    *)
(* the file system at a time, so that any of them can fail and the worker  *)
(* or the host can go down between two of them.                            *)
(*                                                                         *)
(* All nodes of a host are inbounds of one configuration file, served by   *)
(* one systemd unit that runs one binary.  An inbound is known by its      *)
(* port.  A worker carries out one command at a time and forgets it when   *)
(* it dies; what a creation has to undo it knows only from the flags of    *)
(* landingNodeCreateArtifacts.                                             *)
(*                                                                         *)
(* Abstractions.  The contents of the unit never vary, so systemd's copy   *)
(* of it (daemon-reload) is the file.  Directories, key material and the   *)
(* download are left out: they can only make a step fail.  A refused       *)
(* command (preflight, unverifiable cleanup) changes nothing and is no     *)
(* step.  MaxFaults bounds crashes, reboots and failures of the service.   *)
(***************************************************************************)
EXTENDS Naturals, FiniteSets

CONSTANTS Port, None, MaxFaults

ASSUME HostAssumption == None \notin Port /\ MaxFaults \in Nat

VARIABLES
  config,   \* inbounds in the configuration file; {} without a readable one
  torn,     \* the configuration file was cut off while it was written
  unit,     \* the file of the systemd unit
  enabled,  \* the unit starts with the host
  binary,   \* the Xray binary: its version is below the target or not
  litter,   \* an unfinished file the preflight does not know
  process,  \* the service; "restarting": it failed and systemd will retry
  running,  \* inbounds the process serves
  run,      \* the command in the worker's hands
  faults

vars == <<config, torn, unit, enabled, binary, litter, process, running, run, faults>>
disk == <<config, torn, unit, enabled, binary, litter>>
service == <<process, running>>

Artifact == {"BinaryUpgraded", "BinaryWritten", "BinaryExisted", "ConfigExisted",
             "ConfigWritten", "ServiceExisted", "ServiceWritten",
             "ServiceWasActive", "ServiceStarted"}

CreateSteps   == {"install", "config", "unit", "test", "enable", "look", "restart", "verify"}
RollbackSteps == {"stop", "drop_unit", "restore_config", "restore_binary", "restart_previous"}
CleanupSteps  == {"disable", "remove_unit", "remove_config", "check"}
Outcomes      == {"created", "create_failed", "cleaned", "cleanup_failed"}

Snapshot == [config : SUBSET Port, unit : {"none", "ours", "partial"},
             binary : {"none", "old", "target", "torn"},
             process : {"stopped", "active", "restarting"}, running : SUBSET Port]

\* "before" and "clean" are history: the host at the start of the command, and
\* whether every command that failed left things alone and the service held.
Run == [step : {"idle"} \cup CreateSteps \cup RollbackSteps \cup CleanupSteps \cup Outcomes,
        port : Port \cup {None}, did : SUBSET Artifact, previous : SUBSET Port,
        before : Snapshot, clean : BOOLEAN]

Now == [config |-> config, unit |-> unit, binary |-> binary,
        process |-> process, running |-> running]

Nothing == [config |-> {}, unit |-> "none", binary |-> "none",
            process |-> "stopped", running |-> {}]

Idle == [step |-> "idle", port |-> None, did |-> {}, previous |-> {},
         before |-> Nothing, clean |-> TRUE]

TypeOK ==
  /\ config \in SUBSET Port /\ torn \in BOOLEAN /\ litter \in BOOLEAN
  /\ unit \in {"none", "ours", "partial"} /\ enabled \in BOOLEAN
  /\ binary \in {"none", "old", "target", "torn"}
  /\ process \in {"stopped", "active", "restarting"} /\ running \in SUBSET Port
  /\ process # "active" => running = {}
  /\ run \in Run
  /\ faults \in 0 .. MaxFaults

\* A fresh host, or one with the binary of an earlier release.
Init ==
  /\ config = {} /\ torn = FALSE /\ unit = "none" /\ enabled = FALSE
  /\ binary \in {"none", "old"} /\ litter = FALSE
  /\ process = "stopped" /\ running = {}
  /\ run = Idle /\ faults = 0

-----------------------------------------------------------------------------
At(step) == run.step = step
Did(flag) == flag \in run.did
Clean == run.clean

\* The worker goes on to a step, having set these flags.
Go(step, flags) == run' = [run EXCEPT !.step = step, !.did = @ \cup flags]
\* The same after a command that failed with an effect.
Mishap(step, flags) == run' = [run EXCEPT !.step = step, !.did = @ \cup flags, !.clean = FALSE]

\* Every error of a creation leads to rollbackLandingNodeCreate.
Fails(flags) == Go("stop", flags)

Startable == unit = "ours" /\ binary \in {"old", "target"} /\ config # {} /\ ~torn

\* systemctl restart of the unit: the process serves the file of this moment,
\* or it exits and systemd keeps trying.
StartOn(ports) ==
  \/ Startable /\ process' = "active" /\ running' = ports
  \/ process' = "restarting" /\ running' = {}

Stopped == process' = "stopped" /\ running' = {}

-----------------------------------------------------------------------------
(***************************************************************************)
(* Creation of a node.                                                     *)
(***************************************************************************)

\* landingNodePreflightRecheck passes.
BeginCreate(p) ==
  /\ At("idle")
  /\ p \notin running /\ ~litter /\ unit # "partial"
  /\ run' = [Idle EXCEPT !.step = "install", !.port = p, !.before = Now]
  /\ UNCHANGED <<disk, service, faults>>

\* A binary below the target version is backed up and replaced.  An error can
\* come after the replacement, before or after its flag is set.
InstallBinary ==
  LET existed == IF binary = "none" THEN {} ELSE {"BinaryExisted"}
      upgrade == IF binary = "old" THEN {"BinaryUpgraded"} ELSE {} IN
  /\ At("install")
  /\ \/ binary = "target" /\ Go("config", existed) /\ UNCHANGED binary
     \/ /\ binary \in {"none", "old"}
        /\ binary' = "target"
        /\ \/ Go("config", existed \cup upgrade \cup {"BinaryWritten"})
           \/ Fails(existed \cup upgrade \cup {"BinaryWritten"})
           \/ Mishap("stop", existed \cup upgrade)
     \/ Fails(existed \cup upgrade) /\ UNCHANGED binary
  /\ UNCHANGED <<config, torn, unit, enabled, litter, service, faults>>

\* An inbound is added to those in the file.
Appended(p) == config \cup {p}

\* writeManagedXrayConfig: tested as a temporary file, then renamed.  A
\* duplicate port, an unreadable file and a failing test change nothing.
WriteConfig ==
  LET existed == IF config = {} /\ ~torn THEN {} ELSE {"ConfigExisted"} IN
  /\ At("config")
  /\ \/ /\ ~torn /\ run.port \notin config
        /\ config' = Appended(run.port)
        /\ run' = [run EXCEPT !.step = "unit", !.previous = config,
                              !.did = @ \cup existed \cup {"ConfigWritten"}]
     \/ Fails(existed) /\ UNCHANGED config
  /\ UNCHANGED <<torn, unit, enabled, binary, litter, service, faults>>

WriteService ==
  LET existed == IF unit = "none" THEN {} ELSE {"ServiceExisted"} IN
  /\ At("unit")
  /\ \/ unit' = "ours" /\ Go("test", existed \cup {"ServiceWritten"})
     \/ unit' = "partial" /\ Mishap("stop", existed)
     \/ Fails(existed) /\ UNCHANGED unit
  /\ UNCHANGED <<config, torn, enabled, binary, litter, service, faults>>

\* xray run -test, then daemon-reload.
TestConfig ==
  /\ At("test")
  /\ Go("enable", {}) \/ Fails({})
  /\ UNCHANGED <<disk, service, faults>>

Enable ==
  /\ At("enable")
  /\ \/ enabled' = TRUE /\ (Go("look", {}) \/ Fails({}))
     \/ Fails({}) /\ UNCHANGED enabled
  /\ UNCHANGED <<config, torn, unit, binary, litter, service, faults>>

\* Slip: the state of the service is not asked for.
LookAtService_Never ==
  /\ At("look")
  /\ Go("restart", {})
  /\ UNCHANGED <<disk, service, faults>>

LookAtService ==
  /\ At("look")
  /\ Go("restart", IF process = "active" THEN {"ServiceWasActive"} ELSE {})
  /\ UNCHANGED <<disk, service, faults>>

\* A restart that fails may have stopped the old process, or started the new.
Restart ==
  /\ At("restart")
  /\ \/ StartOn(config) /\ Go("verify", {"ServiceStarted"})
     \/ UNCHANGED service /\ Fails({})
     \/ Stopped /\ Fails({})
     \/ StartOn(config) /\ Mishap("stop", {})
  /\ UNCHANGED <<disk, faults>>

\* verifyManagedXrayActiveAndListeningPorts, for all ports of the file.
AllListening == process = "active" /\ config \subseteq running

Verify ==
  /\ At("verify")
  /\ (AllListening /\ Go("created", {})) \/ Fails({})
  /\ UNCHANGED <<disk, service, faults>>

-----------------------------------------------------------------------------
(***************************************************************************)
(* rollbackLandingNodeCreate: each command may fail, and the rest is done. *)
(***************************************************************************)

StopService ==
  /\ At("stop")
  /\ IF Did("ServiceStarted")
     THEN \/ Stopped /\ Go("drop_unit", {})
          \/ UNCHANGED service /\ Mishap("drop_unit", {})
     ELSE UNCHANGED service /\ Go("drop_unit", {})
  /\ UNCHANGED <<disk, faults>>

DropService ==
  /\ At("drop_unit")
  /\ IF Did("ServiceWritten") /\ ~Did("ServiceExisted")
     THEN \/ enabled' = FALSE /\ unit' = "none" /\ Go("restore_config", {})
          \/ /\ enabled' \in {enabled, FALSE} /\ unit' \in {unit, "none"}
             /\ Mishap("restore_config", {})
     ELSE UNCHANGED <<enabled, unit>> /\ Go("restore_config", {})
  /\ UNCHANGED <<config, torn, binary, litter, service, faults>>

\* Slip: the file is removed whether it existed or not.
Restored_Nothing == {}

Restored == IF Did("ConfigExisted") THEN run.previous ELSE {}

RestoreConfig ==
  /\ At("restore_config")
  /\ IF Did("ConfigWritten")
     THEN \/ config' = Restored /\ Go("restore_binary", {})
          \/ UNCHANGED config /\ Mishap("restore_binary", {})
     ELSE UNCHANGED config /\ Go("restore_binary", {})
  /\ UNCHANGED <<torn, unit, enabled, binary, litter, service, faults>>

BinaryBefore ==
  IF Did("BinaryUpgraded") THEN "old"
  ELSE IF Did("BinaryWritten") /\ ~Did("BinaryExisted") THEN "none" ELSE binary

RestoreBinary ==
  /\ At("restore_binary")
  /\ \/ binary' = BinaryBefore /\ Go("restart_previous", {})
     \/ /\ BinaryBefore # binary /\ UNCHANGED binary
        /\ Mishap("restart_previous", {})
  /\ UNCHANGED <<config, torn, unit, enabled, litter, service, faults>>

RestartPrevious ==
  /\ At("restart_previous")
  /\ IF Did("ServiceWasActive") /\ Did("ConfigExisted")
     THEN \/ Startable /\ process' = "active" /\ running' = config /\ Go("create_failed", {})
          \/ (StartOn(config) \/ Stopped \/ UNCHANGED service) /\ Mishap("create_failed", {})
     ELSE UNCHANGED service /\ Go("create_failed", {})
  /\ UNCHANGED <<disk, faults>>

-----------------------------------------------------------------------------
(***************************************************************************)
(* Cleanup of a node: the service of all nodes goes.                       *)
(***************************************************************************)

\* The unit is LiveLine's and the file holds the node's port.
BeginCleanup(p) ==
  /\ At("idle")
  /\ unit = "ours" /\ ~torn /\ p \in config
  /\ run' = [Idle EXCEPT !.step = "disable", !.port = p, !.before = Now]
  /\ UNCHANGED <<disk, service, faults>>

\* Slip: systemctl disable without --now.
DisableService_Later ==
  /\ At("disable")
  /\ \/ enabled' = FALSE /\ UNCHANGED service /\ Go("remove_unit", {})
     \/ UNCHANGED <<enabled, service>> /\ Go("cleanup_failed", {})
  /\ UNCHANGED <<config, torn, unit, binary, litter, faults>>

DisableService ==
  /\ At("disable")
  /\ \/ enabled' = FALSE /\ Stopped /\ (Go("remove_unit", {}) \/ Go("cleanup_failed", {}))
     \/ enabled' \in {enabled, FALSE} /\ UNCHANGED service /\ Go("cleanup_failed", {})
  /\ UNCHANGED <<config, torn, unit, binary, litter, faults>>

RemoveService ==
  /\ At("remove_unit")
  /\ \/ unit' = "none" /\ Go("remove_config", {})
     \/ UNCHANGED unit /\ Go("cleanup_failed", {})
  /\ UNCHANGED <<config, torn, enabled, binary, litter, service, faults>>

RemoveConfig ==
  /\ At("remove_config")
  /\ \/ config' = {} /\ torn' = FALSE /\ Go("check", {})
     \/ UNCHANGED <<config, torn>> /\ Go("cleanup_failed", {})
  /\ UNCHANGED <<unit, enabled, binary, litter, service, faults>>

\* Only the port of the plan is looked at.
CheckPort ==
  /\ At("check")
  /\ Go(IF run.port \in running THEN "cleanup_failed" ELSE "cleaned", {})
  /\ UNCHANGED <<disk, service, faults>>

\* The outcome is reported, and the worker asks for the next command.
Report ==
  /\ run.step \in Outcomes
  /\ run' = Idle
  /\ UNCHANGED <<disk, service, faults>>

-----------------------------------------------------------------------------
(***************************************************************************)
(* What happens to the host meanwhile.                                     *)
(***************************************************************************)

Strike == faults < MaxFaults /\ faults' = faults + 1

\* Files that were being written when the worker died: a temporary file of the
\* installation or of the configuration stays; a restoration is written in
\* place and leaves a part of a file.
Interrupted ==
  \/ litter' \in {litter, litter \/ At("install") \/ At("config")}
     /\ UNCHANGED <<config, torn, unit, enabled, binary>>
  \/ /\ At("restore_config") /\ Did("ConfigWritten") /\ Did("ConfigExisted")
     /\ config' = {} /\ torn' = TRUE
     /\ UNCHANGED <<unit, enabled, binary, litter>>
  \/ /\ At("restore_binary") /\ Did("BinaryUpgraded")
     /\ binary' = "torn"
     /\ UNCHANGED <<config, torn, unit, enabled, litter>>

WorkerDies ==
  /\ run.step \notin {"idle"} \cup Outcomes
  /\ Strike
  /\ Interrupted
  /\ run' = Idle
  /\ UNCHANGED service

HostReboots ==
  /\ Strike
  /\ Interrupted
  /\ run' = Idle
  /\ IF ~enabled \/ unit # "ours" THEN Stopped
     ELSE IF config' # {} /\ ~torn' /\ binary' \in {"old", "target"}
          THEN process' = "active" /\ running' = config'
          ELSE process' = "restarting" /\ running' = {}

ServiceFails ==
  /\ process = "active"
  /\ Strike
  /\ process' = "restarting" /\ running' = {}
  /\ run' = [run EXCEPT !.clean = (run.step = "idle")]
  /\ UNCHANGED disk

\* Restart=on-failure: the new process reads the file of this moment.
ServiceRecovers ==
  /\ process = "restarting" /\ Startable
  /\ process' = "active" /\ running' = config
  /\ UNCHANGED <<disk, run, faults>>

-----------------------------------------------------------------------------
CreateNode ==
  \/ \E p \in Port : BeginCreate(p)
  \/ InstallBinary \/ WriteConfig \/ WriteService \/ TestConfig
  \/ Enable \/ LookAtService \/ Restart \/ Verify

Rollback ==
  StopService \/ DropService \/ RestoreConfig \/ RestoreBinary \/ RestartPrevious

CleanUp ==
  \/ \E p \in Port : BeginCleanup(p)
  \/ DisableService \/ RemoveService \/ RemoveConfig \/ CheckPort

Host == WorkerDies \/ HostReboots \/ ServiceFails \/ ServiceRecovers

Next == CreateNode \/ Rollback \/ CleanUp \/ Report \/ Host

Spec == Init /\ [][Next]_vars

-----------------------------------------------------------------------------
(***************************************************************************)
(* Properties.                                                             *)
(***************************************************************************)

Orderly(host) ==
  host.process = "active" => host.unit = "ours" /\ host.running = host.config

\* A creation that failed, at whatever step, leaves the host as it found it:
\* the inbounds in the file, the unit, the version of the binary, and the
\* service with all inbounds it served.  It holds when the commands that failed
\* took no effect, the rollback got through and the service itself held, on a
\* host whose service served its file.
FailedCreateRestores ==
  (At("create_failed") /\ Clean /\ Orderly(run.before)) =>
    /\ config = run.before.config
    /\ unit = run.before.unit
    /\ binary = run.before.binary
    /\ run.before.process = "active" => process = "active" /\ running = run.before.running
    /\ run.before.process = "stopped" => process = "stopped"

\* A node is reported as created only when it and every node that was in the
\* file before are served, and would be again after a reboot of the host.
CreatedAmongTheOthers ==
  [][At("verify") /\ run'.step = "created" =>
       /\ run.before.config \cup {run.port} \subseteq running'
       /\ running' = config' /\ enabled' /\ unit' = "ours"]_vars

\* A node leaves the file only through a cleanup, through the rollback of its
\* own creation, or with a file that a crash left half restored.
OthersKeepTheirInbounds ==
  [][\A p \in config \ config' :
       \/ At("remove_config")
       \/ At("restore_config") /\ (p = run.port \/ torn')]_vars

\* A cleanup that succeeds leaves nothing that runs, restarts or comes back.
CleanupLeavesNothing ==
  At("cleaned") => /\ config = {} /\ unit = "none" /\ ~enabled
                   /\ process = "stopped"
=============================================================================
