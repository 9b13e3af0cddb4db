----------------------------- MODULE HostsProofs -----------------------------
(***************************************************************************)
(* Proofs about LandingHost, for any ports and any number of faults, and   *)
(* about the hosts of MCHosts in one run.                                  *)
(*                                                                         *)
(* The rollback of a creation knows the host it has to restore only from   *)
(* the flags of landingNodeCreateArtifacts and the bytes of the previous   *)
(* file.  The inductive invariant therefore says, of the file, the binary, *)
(* the unit and the service in turn, how the flags set so far and what is  *)
(* on the host now determine the host at the start of the command, and     *)
(* from which step of the rollback on it is as it was then (ConfigIsTold   *)
(* to ServiceIsTold).  The proofs about BbrHost and TransitHost follow,    *)
(* with the names of their modules in front.                               *)
(***************************************************************************)
EXTENDS MCHosts, TLAPS

\* The steps of a creation until it is undone, or has failed.
Creating == CreateSteps \cup RollbackSteps \cup {"create_failed"}

\* A process that serves has something to serve.
ActiveServes ==
  /\ process = "active" => running # {}
  /\ run.before.process = "active" => run.before.running # {}

\* The file holds what it held before, and the new node once it is written.
ConfigIsTold ==
  run.step \in CreateSteps \cup {"stop", "drop_unit", "restore_config"} =>
    IF Did("ConfigWritten")
    THEN /\ config = run.before.config \cup {run.port}
         /\ run.previous = run.before.config
         /\ Did("ConfigExisted") \/ run.before.config = {}
    ELSE config = run.before.config

\* Which flags can be set at a step.
FlagsAreInOrder ==
  /\ At("install") => run.did = {}
  /\ At("config") => run.did \subseteq {"BinaryExisted", "BinaryUpgraded", "BinaryWritten"}
  /\ run.step \in CreateSteps \ {"install", "config"} => Did("ConfigWritten")
  /\ At("unit") => ~Did("ServiceWritten") /\ ~Did("ServiceExisted")
  /\ run.step \in CreateSteps \ {"verify"} => ~Did("ServiceStarted")

\* What the steps before the verification have put up.
UnitIsUp ==
  /\ run.step \in {"test", "enable", "look", "restart", "verify"} => unit = "ours"
  /\ run.step \in {"look", "restart", "verify"} => enabled
  /\ At("verify") => Did("ServiceStarted") /\ (process = "active" => running = config)

\* The flags tell the binary of before, and the rollback brings it back.
BinaryIsTold ==
  Clean =>
    /\ run.step \in (CreateSteps \cup RollbackSteps) \ {"restart_previous"}
         => BinaryBefore = run.before.binary
    /\ run.step \in {"restart_previous", "create_failed"} => binary = run.before.binary

\* The same of the unit.
UnitIsTold ==
  /\ run.step \in Creating => run.before.unit # "partial"
  /\ Clean =>
       /\ run.step \in CreateSteps \cup {"stop", "drop_unit"} =>
            IF Did("ServiceWritten")
            THEN /\ unit = "ours"
                 /\ run.before.unit = IF Did("ServiceExisted") THEN "ours" ELSE "none"
            ELSE unit = run.before.unit
       /\ run.step \in {"restore_config", "restore_binary", "restart_previous", "create_failed"}
            => unit = run.before.unit

ConfigIsRestored ==
  Clean /\ run.step \in {"restore_binary", "restart_previous", "create_failed"}
    => config = run.before.config

WillRestart == Did("ServiceWasActive") /\ Did("ConfigExisted")

\* A service that was active still is, or will be started again; one that was
\* stopped is, unless it was started to be verified.
ServiceIsTold ==
  Clean /\ Orderly(run.before) /\ run.step \in Creating =>
    /\ run.before.process = "active" =>
         \/ /\ process = "active" /\ running = run.before.running
            /\ At("create_failed") \/ (run.step \notin {"restart", "verify"} /\ ~Did("ServiceStarted"))
         \/ WillRestart /\ ~At("create_failed")
    /\ run.before.process = "stopped" =>
         /\ ~Did("ServiceWasActive")
         /\ process = "stopped" \/ (run.step \in {"verify", "stop"} /\ Did("ServiceStarted"))

\* What a cleanup has removed stays away.
CleanupIsTold ==
  /\ run.step \in {"remove_unit", "remove_config", "check", "cleaned"}
       => ~enabled /\ process = "stopped"
  /\ run.step \in {"remove_config", "check", "cleaned"} => unit = "none"
  /\ run.step \in {"check", "cleaned"} => config = {}

HasPort == run.step \in CreateSteps \cup RollbackSteps => run.port \in Port

Told ==
  /\ ActiveServes
  /\ ConfigIsTold
  /\ FlagsAreInOrder
  /\ UnitIsUp
  /\ BinaryIsTold
  /\ UnitIsTold
  /\ ConfigIsRestored
  /\ ServiceIsTold
  /\ CleanupIsTold
  /\ HasPort

IInv == TypeOK /\ Told

-----------------------------------------------------------------------------
(***************************************************************************)
(* How the worker goes on.                                                 *)
(***************************************************************************)

Steps == {"idle"} \cup CreateSteps \cup RollbackSteps \cup CleanupSteps \cup Outcomes

\* The command in hand is the same, further on by a step.
Onward(step, flags) ==
  /\ run' \in Run
  /\ run'.step = step /\ run'.did = run.did \cup flags
  /\ run'.port = run.port /\ run'.previous = run.previous /\ run'.before = run.before

Goes(step, flags)    == Onward(step, flags) /\ run'.clean = run.clean
Mishaps(step, flags) == Onward(step, flags) /\ run'.clean = FALSE

LEMMA GoGoes ==
  ASSUME TypeOK, NEW step \in Steps, NEW flags \in SUBSET Artifact, Go(step, flags)
  PROVE  Goes(step, flags)
BY DEF TypeOK, Run, Go, Steps, Goes, Onward

LEMMA MishapGoes ==
  ASSUME TypeOK, NEW step \in Steps, NEW flags \in SUBSET Artifact, Mishap(step, flags)
  PROVE  Mishaps(step, flags)
BY DEF TypeOK, Run, Mishap, Steps, Mishaps, Onward

LEMMA IdleFacts ==
  /\ Idle \in Run /\ Idle.step = "idle" /\ Idle.before.process = "stopped"
BY DEF Idle, Run, Nothing, Snapshot

LEMMA InitIInv == Init => IInv
<1> SUFFICES ASSUME Init PROVE IInv
  OBVIOUS
<1>1. TypeOK
  <2>1. faults \in 0 .. MaxFaults
    BY HostAssumption DEF Init
  <2>2. QED
    BY <2>1, IdleFacts DEF Init, TypeOK
<1>2. Told
  BY IdleFacts DEF Init, Told, ActiveServes, ConfigIsTold, FlagsAreInOrder, UnitIsUp, BinaryIsTold,
     UnitIsTold, ConfigIsRestored, ServiceIsTold, CleanupIsTold, HasPort, Creating, CreateSteps,
     RollbackSteps, At
<1>3. QED
  BY <1>1, <1>2 DEF IInv

\* A worker in nobody's hands has nothing to tell.
LEMMA IdleKeeps ==
  ASSUME TypeOK', run' = Idle, process' = "active" => running' # {}
  PROVE  IInv'
<1>1. run'.step = "idle" /\ run'.before.process = "stopped"
  BY IdleFacts
<1>2. QED
  BY <1>1 DEF IInv, Told, ActiveServes, ConfigIsTold, FlagsAreInOrder, UnitIsUp, BinaryIsTold,
     UnitIsTold, ConfigIsRestored, ServiceIsTold, CleanupIsTold, HasPort, Creating, CreateSteps,
     RollbackSteps, At

-----------------------------------------------------------------------------
(***************************************************************************)
(* Creation. Each lemma first says what a step comes to: what changes, and *)
(* how the worker goes on.                                                 *)
(***************************************************************************)

LEMMA InstallBinaryKeeps ==
  ASSUME IInv, InstallBinary
  PROVE  IInv'
<1> USE DEF IInv, Told
<1>1. /\ run.step = "install" /\ run.did = {}
      /\ UNCHANGED <<config, torn, unit, enabled, litter, process, running, faults>>
      /\ \/ binary' = "target" /\ binary = "target" /\ Goes("config", {"BinaryExisted"})
         \/ binary' = "target" /\ binary = "old"
            /\ Goes("config", {"BinaryExisted", "BinaryUpgraded", "BinaryWritten"})
         \/ binary' = "target" /\ binary = "none" /\ Goes("config", {"BinaryWritten"})
         \/ binary' = "target" /\ binary = "old"
            /\ Goes("stop", {"BinaryExisted", "BinaryUpgraded", "BinaryWritten"})
         \/ binary' = "target" /\ binary = "none" /\ Goes("stop", {"BinaryWritten"})
         \/ binary' = "target" 
            /\ (Mishaps("stop", {}) \/ Mishaps("stop", {"BinaryExisted", "BinaryUpgraded"}))
         \/ binary' = binary /\ binary = "old" /\ Goes("stop", {"BinaryExisted", "BinaryUpgraded"})
         \/ binary' = binary /\ binary = "none" /\ Goes("stop", {})
         \/ binary' = binary /\ binary \notin {"old", "none"} /\ Goes("stop", {"BinaryExisted"})
  <2>1. run.step = "install" /\ run.did = {}
    BY DEF InstallBinary, FlagsAreInOrder, At
  <2>2. CASE binary = "target"
    BY <2>1, <2>2, GoGoes DEF InstallBinary, Fails, service, Steps, CreateSteps, RollbackSteps,
       Artifact
  <2>3. CASE binary = "old"
    BY <2>1, <2>3, GoGoes, MishapGoes DEF InstallBinary, Fails, service, Steps, CreateSteps,
       RollbackSteps, Artifact
  <2>4. CASE binary = "none"
    BY <2>1, <2>4, GoGoes, MishapGoes DEF InstallBinary, Fails, service, Steps, CreateSteps,
       RollbackSteps, Artifact
  <2>5. CASE binary = "torn"
    BY <2>1, <2>5, GoGoes, MishapGoes DEF InstallBinary, Fails, service, Steps, CreateSteps,
       RollbackSteps, Artifact
  <2>6. QED
    BY <2>2, <2>3, <2>4, <2>5 DEF TypeOK
<1>2. TypeOK'
  BY <1>1 DEF TypeOK, Goes, Mishaps, Onward
<1>3. ActiveServes'
  BY <1>1 DEF ActiveServes, Goes, Mishaps, Onward
<1>4. ConfigIsTold'
  BY <1>1 DEF ConfigIsTold, CreateSteps, Did, Goes, Mishaps, Onward
<1>5. FlagsAreInOrder'
  BY <1>1 DEF FlagsAreInOrder, CreateSteps, At, Did, Goes, Mishaps, Onward
<1>6. UnitIsUp'
  BY <1>1 DEF UnitIsUp, At, Did, Goes, Mishaps, Onward
<1>7. BinaryIsTold'
  BY <1>1 DEF BinaryIsTold, BinaryBefore, CreateSteps, RollbackSteps, Clean, Did, Goes, Mishaps,
     Onward
<1>8. UnitIsTold'
  BY <1>1 DEF UnitIsTold, Creating, CreateSteps, RollbackSteps, Clean, Did, Goes, Mishaps, Onward
<1>9. ConfigIsRestored'
  BY <1>1 DEF ConfigIsRestored, Clean, Goes, Mishaps, Onward
<1>10. ServiceIsTold'
  <2>1. /\ run'.before = run.before /\ run'.clean \in {run.clean, FALSE}
        /\ run.step = "install" /\ run'.step \in {"config", "stop"}
        /\ process' = process /\ running' = running
    BY <1>1 DEF Goes, Mishaps, Onward
  <2>2. /\ Did("ServiceStarted")' = Did("ServiceStarted")
        /\ Did("ServiceWasActive")' = Did("ServiceWasActive")
    BY <1>1 DEF Did, Goes, Mishaps, Onward
  <2>3. Did("ConfigExisted") => Did("ConfigExisted")'
    BY <1>1 DEF Did, Goes, Mishaps, Onward
  <2>4. QED
    BY <2>1, <2>2, <2>3 DEF ServiceIsTold, WillRestart, Creating, CreateSteps, RollbackSteps, Clean,
       Orderly, At
<1>11. CleanupIsTold'
  BY <1>1 DEF CleanupIsTold, Goes, Mishaps, Onward
<1>12. HasPort'
  BY <1>1 DEF HasPort, CreateSteps, RollbackSteps, Goes, Mishaps, Onward
<1>13. QED
  BY <1>2, <1>3, <1>4, <1>5, <1>6, <1>7, <1>8, <1>9, <1>10, <1>11, <1>12

LEMMA WriteConfigKeeps ==
  ASSUME IInv, WriteConfig
  PROVE  IInv'
<1> USE DEF IInv, Told
<1>1. /\ run.step = "config"
      /\ UNCHANGED <<torn, unit, enabled, binary, litter, process, running, faults>>
      /\ config' \in SUBSET Port
      /\ \/ /\ config' = config \cup {run.port} /\ run' \in Run
            /\ run'.step = "unit" /\ run'.previous = config
            /\ \/ run'.did = run.did \cup {"ConfigWritten"} /\ config = {}
               \/ run'.did = run.did \cup {"ConfigExisted", "ConfigWritten"}
            /\ run'.port = run.port /\ run'.before = run.before /\ run'.clean = run.clean
         \/ config' = config /\ (Goes("stop", {}) \/ Goes("stop", {"ConfigExisted"}))
  <2>1. /\ run.step = "config" /\ run.port \in Port
        /\ UNCHANGED <<torn, unit, enabled, binary, litter, process, running, faults>>
    BY DEF WriteConfig, HasPort, CreateSteps, At, service
  <2>2. CASE UNCHANGED config /\ (Fails({}) \/ Fails({"ConfigExisted"}))
    BY <2>1, <2>2, GoGoes DEF Fails, Steps, RollbackSteps, Artifact, TypeOK
  <2>3. CASE
    /\ config' = config \cup {run.port}
    /\ \/ config = {} /\ run' = [run EXCEPT !.step = "unit", !.previous = config,
                                           !.did = run.did \cup {"ConfigWritten"}]
       \/ run' = [run EXCEPT !.step = "unit", !.previous = config,
                              !.did = run.did \cup {"ConfigExisted", "ConfigWritten"}]
    <3>1. run' \in Run
      BY <2>3 DEF TypeOK, Run, Artifact, CreateSteps
    <3>2. QED
      BY <2>1, <2>3, <3>1 DEF TypeOK, Run
  <2>4. QED
    BY <2>2, <2>3 DEF WriteConfig, Appended
<1>2. TypeOK'
  BY <1>1 DEF TypeOK, Goes, Onward
<1>3. ActiveServes'
  BY <1>1 DEF ActiveServes, Goes, Onward
<1>4. ConfigIsTold'
  <2>1. ~Did("ConfigWritten") /\ config = run.before.config
    BY <1>1 DEF ConfigIsTold, FlagsAreInOrder, CreateSteps, At, Did
  <2>2. QED
    BY <1>1, <2>1 DEF ConfigIsTold, CreateSteps, Did, Goes, Onward
<1>5. FlagsAreInOrder'
  BY <1>1 DEF FlagsAreInOrder, CreateSteps, At, Did, Goes, Onward
<1>6. UnitIsUp'
  BY <1>1 DEF UnitIsUp, At, Did, Goes, Onward
<1>7. BinaryIsTold'
  BY <1>1 DEF BinaryIsTold, BinaryBefore, CreateSteps, RollbackSteps, Clean, Did, Goes, Onward
<1>8. UnitIsTold'
  BY <1>1 DEF UnitIsTold, Creating, CreateSteps, RollbackSteps, Clean, Did, Goes, Onward
<1>9. ConfigIsRestored'
  BY <1>1 DEF ConfigIsRestored, Clean, Goes, Onward
<1>10. ServiceIsTold'
  <2>1. /\ run'.before = run.before /\ run'.clean \in {run.clean, FALSE}
        /\ run.step = "config" /\ run'.step \in {"unit", "stop"}
        /\ process' = process /\ running' = running
    BY <1>1 DEF Goes, Onward
  <2>2. /\ Did("ServiceStarted")' = Did("ServiceStarted")
        /\ Did("ServiceWasActive")' = Did("ServiceWasActive")
    BY <1>1 DEF Did, Goes, Onward
  <2>3. Did("ConfigExisted") => Did("ConfigExisted")'
    BY <1>1 DEF Did, Goes, Onward
  <2>4. QED
    BY <2>1, <2>2, <2>3 DEF ServiceIsTold, WillRestart, Creating, CreateSteps, RollbackSteps, Clean,
       Orderly, At
<1>11. CleanupIsTold'
  BY <1>1 DEF CleanupIsTold, Goes, Onward
<1>12. HasPort'
  BY <1>1 DEF HasPort, CreateSteps, RollbackSteps, Goes, Onward
<1>13. QED
  BY <1>2, <1>3, <1>4, <1>5, <1>6, <1>7, <1>8, <1>9, <1>10, <1>11, <1>12

LEMMA WriteServiceKeeps ==
  ASSUME IInv, WriteService
  PROVE  IInv'
<1> USE DEF IInv, Told
<1>1. /\ run.step = "unit"
      /\ UNCHANGED <<config, torn, enabled, binary, litter, process, running, faults>>
      /\ unit' \in {"none", "ours", "partial"}
      /\ \/ unit' = "ours" /\ unit = "none" /\ Goes("test", {"ServiceWritten"})
         \/ unit' = "ours" /\ unit # "none" /\ Goes("test", {"ServiceExisted", "ServiceWritten"})
         \/ unit' = unit /\ unit = "none" /\ Goes("stop", {})
         \/ unit' = unit /\ unit # "none" /\ Goes("stop", {"ServiceExisted"})
         \/ unit' = "partial" /\ (Mishaps("stop", {}) \/ Mishaps("stop", {"ServiceExisted"}))
  BY GoGoes, MishapGoes DEF WriteService, Fails, service, At, TypeOK, Steps, CreateSteps,
     RollbackSteps, Artifact
<1>2. TypeOK'
  BY <1>1 DEF TypeOK, Goes, Mishaps, Onward
<1>3. ActiveServes'
  BY <1>1 DEF ActiveServes, Goes, Mishaps, Onward
<1>4. ConfigIsTold'
  BY <1>1 DEF ConfigIsTold, CreateSteps, Did, Goes, Mishaps, Onward
<1>5. FlagsAreInOrder'
  BY <1>1 DEF FlagsAreInOrder, CreateSteps, At, Did, Goes, Mishaps, Onward
<1>6. UnitIsUp'
  BY <1>1 DEF UnitIsUp, At, Did, Goes, Mishaps, Onward
<1>7. BinaryIsTold'
  BY <1>1 DEF BinaryIsTold, BinaryBefore, CreateSteps, RollbackSteps, Clean, Did, Goes, Mishaps,
     Onward
<1>8. UnitIsTold'
  <2>1. ~Did("ServiceWritten") /\ ~Did("ServiceExisted")
    BY <1>1 DEF FlagsAreInOrder, At
  <2>2. run.before.unit # "partial" /\ (Clean => unit = run.before.unit)
    BY <1>1, <2>1 DEF UnitIsTold, Creating, CreateSteps
  <2>3. /\ run'.step = "test" \/ run'.step = "stop"
        /\ run'.before = run.before
        /\ run'.clean =>
             IF Did("ServiceWritten")' THEN unit' = "ours" /\ (Did("ServiceExisted")' <=> unit # "none")
                                       ELSE unit' = unit
        /\ run'.clean => run.clean
    BY <1>1, <2>1 DEF Did, Goes, Mishaps, Onward
  <2>4. QED
    BY <2>1, <2>2, <2>3 DEF UnitIsTold, Creating, CreateSteps, RollbackSteps, Clean, TypeOK
<1>9. ConfigIsRestored'
  BY <1>1 DEF ConfigIsRestored, Clean, Goes, Mishaps, Onward
<1>10. ServiceIsTold'
  <2>1. /\ run'.before = run.before /\ run'.clean \in {run.clean, FALSE}
        /\ run.step = "unit" /\ run'.step \in {"test", "stop"}
        /\ process' = process /\ running' = running
    BY <1>1 DEF Goes, Mishaps, Onward
  <2>2. /\ Did("ServiceStarted")' = Did("ServiceStarted")
        /\ Did("ServiceWasActive")' = Did("ServiceWasActive")
    BY <1>1 DEF Did, Goes, Mishaps, Onward
  <2>3. Did("ConfigExisted") => Did("ConfigExisted")'
    BY <1>1 DEF Did, Goes, Mishaps, Onward
  <2>4. QED
    BY <2>1, <2>2, <2>3 DEF ServiceIsTold, WillRestart, Creating, CreateSteps, RollbackSteps, Clean,
       Orderly, At
<1>11. CleanupIsTold'
  BY <1>1 DEF CleanupIsTold, Goes, Mishaps, Onward
<1>12. HasPort'
  BY <1>1 DEF HasPort, CreateSteps, RollbackSteps, Goes, Mishaps, Onward
<1>13. QED
  BY <1>2, <1>3, <1>4, <1>5, <1>6, <1>7, <1>8, <1>9, <1>10, <1>11, <1>12

LEMMA TestConfigKeeps ==
  ASSUME IInv, TestConfig
  PROVE  IInv'
<1> USE DEF IInv, Told
<1>1. /\ run.step = "test"
      /\ UNCHANGED <<config, torn, unit, enabled, binary, litter, process, running, faults>>
      /\ Goes("enable", {}) \/ Goes("stop", {})
  BY GoGoes, MishapGoes DEF TestConfig, Fails, disk, service, At, Steps, CreateSteps, RollbackSteps,
     Artifact
<1>2. TypeOK'
  BY <1>1 DEF TypeOK, Goes, Onward
<1>3. ActiveServes'
  BY <1>1 DEF ActiveServes, Goes, Onward
<1>4. ConfigIsTold'
  BY <1>1 DEF ConfigIsTold, CreateSteps, Did, Goes, Onward
<1>5. FlagsAreInOrder'
  BY <1>1 DEF FlagsAreInOrder, CreateSteps, At, Did, Goes, Onward
<1>6. UnitIsUp'
  BY <1>1 DEF UnitIsUp, At, Did, Goes, Onward
<1>7. BinaryIsTold'
  BY <1>1 DEF BinaryIsTold, BinaryBefore, CreateSteps, RollbackSteps, Clean, Did, Goes, Onward
<1>8. UnitIsTold'
  BY <1>1 DEF UnitIsTold, Creating, CreateSteps, RollbackSteps, Clean, Did, Goes, Onward
<1>9. ConfigIsRestored'
  BY <1>1 DEF ConfigIsRestored, Clean, Goes, Onward
<1>10. ServiceIsTold'
  BY <1>1 DEF ServiceIsTold, Creating, CreateSteps, RollbackSteps, Clean, Orderly, WillRestart, At,
     Did, Goes, Onward
<1>11. CleanupIsTold'
  BY <1>1 DEF CleanupIsTold, Goes, Onward
<1>12. HasPort'
  BY <1>1 DEF HasPort, CreateSteps, RollbackSteps, Goes, Onward
<1>13. QED
  BY <1>2, <1>3, <1>4, <1>5, <1>6, <1>7, <1>8, <1>9, <1>10, <1>11, <1>12

LEMMA EnableKeeps ==
  ASSUME IInv, Enable
  PROVE  IInv'
<1> USE DEF IInv, Told
<1>1. /\ run.step = "enable"
      /\ UNCHANGED <<config, torn, unit, binary, litter, process, running, faults>>
      /\ enabled' \in BOOLEAN
      /\ (Goes("look", {}) /\ enabled') \/ Goes("stop", {})
  BY GoGoes, MishapGoes DEF Enable, Fails, service, At, TypeOK, Steps, CreateSteps, RollbackSteps,
     Artifact
<1>2. TypeOK'
  BY <1>1 DEF TypeOK, Goes, Onward
<1>3. ActiveServes'
  BY <1>1 DEF ActiveServes, Goes, Onward
<1>4. ConfigIsTold'
  BY <1>1 DEF ConfigIsTold, CreateSteps, Did, Goes, Onward
<1>5. FlagsAreInOrder'
  BY <1>1 DEF FlagsAreInOrder, CreateSteps, At, Did, Goes, Onward
<1>6. UnitIsUp'
  BY <1>1 DEF UnitIsUp, At, Did, Goes, Onward
<1>7. BinaryIsTold'
  BY <1>1 DEF BinaryIsTold, BinaryBefore, CreateSteps, RollbackSteps, Clean, Did, Goes, Onward
<1>8. UnitIsTold'
  BY <1>1 DEF UnitIsTold, Creating, CreateSteps, RollbackSteps, Clean, Did, Goes, Onward
<1>9. ConfigIsRestored'
  BY <1>1 DEF ConfigIsRestored, Clean, Goes, Onward
<1>10. ServiceIsTold'
  BY <1>1 DEF ServiceIsTold, Creating, CreateSteps, RollbackSteps, Clean, Orderly, WillRestart, At,
     Did, Goes, Onward
<1>11. CleanupIsTold'
  BY <1>1 DEF CleanupIsTold, Goes, Onward
<1>12. HasPort'
  BY <1>1 DEF HasPort, CreateSteps, RollbackSteps, Goes, Onward
<1>13. QED
  BY <1>2, <1>3, <1>4, <1>5, <1>6, <1>7, <1>8, <1>9, <1>10, <1>11, <1>12

LEMMA LookAtServiceKeeps ==
  ASSUME IInv, LookAtService
  PROVE  IInv'
<1> USE DEF IInv, Told
<1>1. /\ run.step = "look"
      /\ UNCHANGED <<config, torn, unit, enabled, binary, litter, process, running, faults>>
      /\ \/ process = "active" /\ Goes("restart", {"ServiceWasActive"})
         \/ process # "active" /\ Goes("restart", {})
  BY GoGoes, MishapGoes DEF LookAtService, disk, service, At, Steps, CreateSteps, RollbackSteps,
     Artifact
<1>2. TypeOK'
  BY <1>1 DEF TypeOK, Goes, Onward
<1>3. ActiveServes'
  BY <1>1 DEF ActiveServes, Goes, Onward
<1>4. ConfigIsTold'
  BY <1>1 DEF ConfigIsTold, CreateSteps, Did, Goes, Onward
<1>5. FlagsAreInOrder'
  BY <1>1 DEF FlagsAreInOrder, CreateSteps, At, Did, Goes, Onward
<1>6. UnitIsUp'
  BY <1>1 DEF UnitIsUp, At, Did, Goes, Onward
<1>7. BinaryIsTold'
  BY <1>1 DEF BinaryIsTold, BinaryBefore, CreateSteps, RollbackSteps, Clean, Did, Goes, Onward
<1>8. UnitIsTold'
  BY <1>1 DEF UnitIsTold, Creating, CreateSteps, RollbackSteps, Clean, Did, Goes, Onward
<1>9. ConfigIsRestored'
  BY <1>1 DEF ConfigIsRestored, Clean, Goes, Onward
<1>10. ServiceIsTold'
  <2>1. /\ run'.before = run.before /\ run'.clean = run.clean
        /\ run.step = "look" /\ run'.step = "restart"
        /\ Did("ConfigExisted")' = Did("ConfigExisted")
        /\ Did("ServiceStarted")' = Did("ServiceStarted")
        /\ process # "active" => Did("ServiceWasActive")' = Did("ServiceWasActive")
        /\ process = "active" => Did("ServiceWasActive")'
        /\ process' = process /\ running' = running
    BY <1>1 DEF Did, Goes, Onward
  <2>2. config = run.before.config \cup {run.port} /\ (Did("ConfigExisted") \/ run.before.config = {})
    BY <1>1 DEF ConfigIsTold, FlagsAreInOrder, CreateSteps
  <2>3. QED
    BY <2>1, <2>2 DEF ServiceIsTold, ActiveServes, WillRestart, Creating, CreateSteps,
       RollbackSteps, Clean, Orderly, At
<1>11. CleanupIsTold'
  BY <1>1 DEF CleanupIsTold, Goes, Onward
<1>12. HasPort'
  BY <1>1 DEF HasPort, CreateSteps, RollbackSteps, Goes, Onward
<1>13. QED
  BY <1>2, <1>3, <1>4, <1>5, <1>6, <1>7, <1>8, <1>9, <1>10, <1>11, <1>12

LEMMA RestartKeeps ==
  ASSUME IInv, Restart
  PROVE  IInv'
<1> USE DEF IInv, Told
<1>1. /\ run.step = "restart"
      /\ UNCHANGED <<config, torn, unit, enabled, binary, litter, faults>>
      /\ \/ process' = "active" /\ running' = config /\ config # {}
            /\ (Goes("verify", {"ServiceStarted"}) \/ Mishaps("stop", {}))
         \/ process' = "restarting" /\ running' = {}
            /\ (Goes("verify", {"ServiceStarted"}) \/ Mishaps("stop", {}))
         \/ process' = process /\ running' = running /\ Goes("stop", {})
         \/ process' = "stopped" /\ running' = {} /\ Goes("stop", {})
  BY GoGoes, MishapGoes DEF Restart, Fails, StartOn, Stopped, Startable, disk, service, At, Steps,
     CreateSteps, RollbackSteps, Artifact
<1>2. TypeOK'
  BY <1>1 DEF TypeOK, Goes, Mishaps, Onward
<1>3. ActiveServes'
  BY <1>1 DEF ActiveServes, Goes, Mishaps, Onward
<1>4. ConfigIsTold'
  BY <1>1 DEF ConfigIsTold, CreateSteps, Did, Goes, Mishaps, Onward
<1>5. FlagsAreInOrder'
  BY <1>1 DEF FlagsAreInOrder, CreateSteps, At, Did, Goes, Mishaps, Onward
<1>6. UnitIsUp'
  BY <1>1 DEF UnitIsUp, At, Did, Goes, Mishaps, Onward
<1>7. BinaryIsTold'
  BY <1>1 DEF BinaryIsTold, BinaryBefore, CreateSteps, RollbackSteps, Clean, Did, Goes, Mishaps,
     Onward
<1>8. UnitIsTold'
  BY <1>1 DEF UnitIsTold, Creating, CreateSteps, RollbackSteps, Clean, Did, Goes, Mishaps, Onward
<1>9. ConfigIsRestored'
  BY <1>1 DEF ConfigIsRestored, Clean, Goes, Mishaps, Onward
<1>10. ServiceIsTold'
  <2>1. /\ run'.before = run.before
        /\ Did("ConfigExisted")' = Did("ConfigExisted")
        /\ Did("ServiceWasActive")' = Did("ServiceWasActive")
        /\ run'.clean => run.clean
    BY <1>1 DEF Did, Goes, Mishaps, Onward
  <2>2. \/ run'.step = "verify" /\ Did("ServiceStarted")'
        \/ run'.step = "stop" /\ process' \in {process, "stopped"}
        \/ run'.step = "stop" /\ ~run'.clean
    BY <1>1 DEF Did, Goes, Mishaps, Onward
  <2>3. QED
    BY <1>1, <2>1, <2>2 DEF ServiceIsTold, WillRestart, Creating, CreateSteps, RollbackSteps, Clean,
       Orderly, At
<1>11. CleanupIsTold'
  BY <1>1 DEF CleanupIsTold, Goes, Mishaps, Onward
<1>12. HasPort'
  BY <1>1 DEF HasPort, CreateSteps, RollbackSteps, Goes, Mishaps, Onward
<1>13. QED
  BY <1>2, <1>3, <1>4, <1>5, <1>6, <1>7, <1>8, <1>9, <1>10, <1>11, <1>12

LEMMA VerifyKeeps ==
  ASSUME IInv, Verify
  PROVE  IInv'
<1> USE DEF IInv, Told
<1>1. /\ run.step = "verify"
      /\ UNCHANGED <<config, torn, unit, enabled, binary, litter, process, running, faults>>
      /\ Goes("created", {}) \/ Goes("stop", {})
  BY GoGoes, MishapGoes DEF Verify, AllListening, Fails, Outcomes, disk, service, At, Steps,
     CreateSteps, RollbackSteps, Artifact
<1>2. TypeOK'
  BY <1>1 DEF TypeOK, Goes, Onward
<1>3. ActiveServes'
  BY <1>1 DEF ActiveServes, Goes, Onward
<1>4. ConfigIsTold'
  BY <1>1 DEF ConfigIsTold, CreateSteps, Did, Goes, Onward
<1>5. FlagsAreInOrder'
  BY <1>1 DEF FlagsAreInOrder, CreateSteps, At, Did, Goes, Onward
<1>6. UnitIsUp'
  BY <1>1 DEF UnitIsUp, At, Did, Goes, Onward
<1>7. BinaryIsTold'
  BY <1>1 DEF BinaryIsTold, BinaryBefore, CreateSteps, RollbackSteps, Clean, Did, Goes, Onward
<1>8. UnitIsTold'
  BY <1>1 DEF UnitIsTold, Creating, CreateSteps, RollbackSteps, Clean, Did, Goes, Onward
<1>9. ConfigIsRestored'
  BY <1>1 DEF ConfigIsRestored, Clean, Goes, Onward
<1>10. ServiceIsTold'
  BY <1>1 DEF ServiceIsTold, Creating, CreateSteps, RollbackSteps, Clean, Orderly, WillRestart, At,
     Did, Goes, Onward
<1>11. CleanupIsTold'
  BY <1>1 DEF CleanupIsTold, Goes, Onward
<1>12. HasPort'
  BY <1>1 DEF HasPort, CreateSteps, RollbackSteps, Goes, Onward
<1>13. QED
  BY <1>2, <1>3, <1>4, <1>5, <1>6, <1>7, <1>8, <1>9, <1>10, <1>11, <1>12

-----------------------------------------------------------------------------
(***************************************************************************)
(* Rollback.                                                               *)
(***************************************************************************)

LEMMA StopServiceKeeps ==
  ASSUME IInv, StopService
  PROVE  IInv'
<1> USE DEF IInv, Told
<1>1. /\ run.step = "stop"
      /\ UNCHANGED <<config, torn, unit, enabled, binary, litter, faults>>
      /\ \/ process' = "stopped" /\ running' = {} /\ Goes("drop_unit", {}) /\ Did("ServiceStarted")
         \/ process' = process /\ running' = running
            /\ (Mishaps("drop_unit", {}) \/ (Goes("drop_unit", {}) /\ ~Did("ServiceStarted")))
  BY GoGoes, MishapGoes DEF StopService, Stopped, disk, service, At, Steps, CreateSteps,
     RollbackSteps, Artifact
<1>2. TypeOK'
  BY <1>1 DEF TypeOK, Goes, Mishaps, Onward
<1>3. ActiveServes'
  BY <1>1 DEF ActiveServes, Goes, Mishaps, Onward
<1>4. ConfigIsTold'
  BY <1>1 DEF ConfigIsTold, CreateSteps, Did, Goes, Mishaps, Onward
<1>5. FlagsAreInOrder'
  BY <1>1 DEF FlagsAreInOrder, CreateSteps, At, Did, Goes, Mishaps, Onward
<1>6. UnitIsUp'
  BY <1>1 DEF UnitIsUp, At, Did, Goes, Mishaps, Onward
<1>7. BinaryIsTold'
  BY <1>1 DEF BinaryIsTold, BinaryBefore, CreateSteps, RollbackSteps, Clean, Did, Goes, Mishaps,
     Onward
<1>8. UnitIsTold'
  BY <1>1 DEF UnitIsTold, Creating, CreateSteps, RollbackSteps, Clean, Did, Goes, Mishaps, Onward
<1>9. ConfigIsRestored'
  BY <1>1 DEF ConfigIsRestored, Clean, Did, Goes, Mishaps, Onward
<1>10. ServiceIsTold'
  BY <1>1 DEF ServiceIsTold, Creating, CreateSteps, RollbackSteps, Clean, Orderly, WillRestart, At,
     Did, Goes, Mishaps, Onward
<1>11. CleanupIsTold'
  BY <1>1 DEF CleanupIsTold, Goes, Mishaps, Onward
<1>12. HasPort'
  BY <1>1 DEF HasPort, CreateSteps, RollbackSteps, Goes, Mishaps, Onward
<1>13. QED
  BY <1>2, <1>3, <1>4, <1>5, <1>6, <1>7, <1>8, <1>9, <1>10, <1>11, <1>12

LEMMA DropServiceKeeps ==
  ASSUME IInv, DropService
  PROVE  IInv'
<1> USE DEF IInv, Told
<1>1. /\ run.step = "drop_unit"
      /\ UNCHANGED <<config, torn, binary, litter, process, running, faults>>
      /\ enabled' \in BOOLEAN /\ unit' \in {"none", "ours", "partial"}
      /\ \/ Goes("restore_config", {}) /\ unit' = "none" /\ Did("ServiceWritten") /\ ~Did("ServiceExisted")
         \/ Goes("restore_config", {}) /\ unit' = unit /\ (~Did("ServiceWritten") \/ Did("ServiceExisted"))
         \/ Mishaps("restore_config", {})
  BY GoGoes, MishapGoes DEF DropService, TypeOK, service, At, Steps, CreateSteps, RollbackSteps,
     Artifact
<1>2. TypeOK'
  BY <1>1 DEF TypeOK, Goes, Mishaps, Onward
<1>3. ActiveServes'
  BY <1>1 DEF ActiveServes, Goes, Mishaps, Onward
<1>4. ConfigIsTold'
  BY <1>1 DEF ConfigIsTold, CreateSteps, Did, Goes, Mishaps, Onward
<1>5. FlagsAreInOrder'
  BY <1>1 DEF FlagsAreInOrder, CreateSteps, At, Did, Goes, Mishaps, Onward
<1>6. UnitIsUp'
  BY <1>1 DEF UnitIsUp, At, Did, Goes, Mishaps, Onward
<1>7. BinaryIsTold'
  BY <1>1 DEF BinaryIsTold, BinaryBefore, CreateSteps, RollbackSteps, Clean, Did, Goes, Mishaps,
     Onward
<1>8. UnitIsTold'
  BY <1>1 DEF UnitIsTold, Creating, CreateSteps, RollbackSteps, Clean, Did, Goes, Mishaps, Onward
<1>9. ConfigIsRestored'
  BY <1>1 DEF ConfigIsRestored, Clean, Did, Goes, Mishaps, Onward
<1>10. ServiceIsTold'
  BY <1>1 DEF ServiceIsTold, Creating, CreateSteps, RollbackSteps, Clean, Orderly, WillRestart, At,
     Did, Goes, Mishaps, Onward
<1>11. CleanupIsTold'
  BY <1>1 DEF CleanupIsTold, Goes, Mishaps, Onward
<1>12. HasPort'
  BY <1>1 DEF HasPort, CreateSteps, RollbackSteps, Goes, Mishaps, Onward
<1>13. QED
  BY <1>2, <1>3, <1>4, <1>5, <1>6, <1>7, <1>8, <1>9, <1>10, <1>11, <1>12

LEMMA RestoreConfigKeeps ==
  ASSUME IInv, RestoreConfig
  PROVE  IInv'
<1> USE DEF IInv, Told
<1>1. /\ run.step = "restore_config"
      /\ UNCHANGED <<torn, unit, enabled, binary, litter, process, running, faults>>
      /\ config' \in SUBSET Port
      /\ \/ Goes("restore_binary", {}) /\ Did("ConfigWritten")
            /\ config' = IF Did("ConfigExisted") THEN run.previous ELSE {}
         \/ Goes("restore_binary", {}) /\ ~Did("ConfigWritten") /\ config' = config
         \/ Mishaps("restore_binary", {})
  BY GoGoes, MishapGoes DEF RestoreConfig, Restored, TypeOK, Run, service, At, Steps, CreateSteps,
     RollbackSteps, Artifact
<1>2. TypeOK'
  BY <1>1 DEF TypeOK, Goes, Mishaps, Onward
<1>3. ActiveServes'
  BY <1>1 DEF ActiveServes, Goes, Mishaps, Onward
<1>4. ConfigIsTold'
  BY <1>1 DEF ConfigIsTold, CreateSteps, Did, Goes, Mishaps, Onward
<1>5. FlagsAreInOrder'
  BY <1>1 DEF FlagsAreInOrder, CreateSteps, At, Did, Goes, Mishaps, Onward
<1>6. UnitIsUp'
  BY <1>1 DEF UnitIsUp, At, Did, Goes, Mishaps, Onward
<1>7. BinaryIsTold'
  BY <1>1 DEF BinaryIsTold, BinaryBefore, CreateSteps, RollbackSteps, Clean, Did, Goes, Mishaps,
     Onward
<1>8. UnitIsTold'
  BY <1>1 DEF UnitIsTold, Creating, CreateSteps, RollbackSteps, Clean, Did, Goes, Mishaps, Onward
<1>9. ConfigIsRestored'
  <2>1. /\ Did("ConfigWritten") => run.previous = run.before.config
        /\ Did("ConfigWritten") => (Did("ConfigExisted") \/ run.before.config = {})
        /\ ~Did("ConfigWritten") => config = run.before.config
    BY <1>1 DEF ConfigIsTold
  <2>2. QED
    BY <1>1, <2>1 DEF ConfigIsRestored, Clean, Goes, Mishaps, Onward
<1>10. ServiceIsTold'
  BY <1>1 DEF ServiceIsTold, Creating, CreateSteps, RollbackSteps, Clean, Orderly, WillRestart, At,
     Did, Goes, Mishaps, Onward
<1>11. CleanupIsTold'
  BY <1>1 DEF CleanupIsTold, Goes, Mishaps, Onward
<1>12. HasPort'
  BY <1>1 DEF HasPort, CreateSteps, RollbackSteps, Goes, Mishaps, Onward
<1>13. QED
  BY <1>2, <1>3, <1>4, <1>5, <1>6, <1>7, <1>8, <1>9, <1>10, <1>11, <1>12

LEMMA RestoreBinaryKeeps ==
  ASSUME IInv, RestoreBinary
  PROVE  IInv'
<1> USE DEF IInv, Told
<1>1. /\ run.step = "restore_binary"
      /\ UNCHANGED <<config, torn, unit, enabled, litter, process, running, faults>>
      /\ binary' \in {"none", "old", "target", "torn"}
      /\ \/ Goes("restart_previous", {}) /\ binary' = BinaryBefore
         \/ Mishaps("restart_previous", {})
  BY GoGoes, MishapGoes DEF RestoreBinary, BinaryBefore, TypeOK, service, At, Steps, CreateSteps,
     RollbackSteps, Artifact
<1>2. TypeOK'
  BY <1>1 DEF TypeOK, Goes, Mishaps, Onward
<1>3. ActiveServes'
  BY <1>1 DEF ActiveServes, Goes, Mishaps, Onward
<1>4. ConfigIsTold'
  BY <1>1 DEF ConfigIsTold, CreateSteps, Did, Goes, Mishaps, Onward
<1>5. FlagsAreInOrder'
  BY <1>1 DEF FlagsAreInOrder, CreateSteps, At, Did, Goes, Mishaps, Onward
<1>6. UnitIsUp'
  BY <1>1 DEF UnitIsUp, At, Did, Goes, Mishaps, Onward
<1>7. BinaryIsTold'
  BY <1>1 DEF BinaryIsTold, BinaryBefore, CreateSteps, RollbackSteps, Clean, Did, Goes, Mishaps,
     Onward
<1>8. UnitIsTold'
  BY <1>1 DEF UnitIsTold, Creating, CreateSteps, RollbackSteps, Clean, Did, Goes, Mishaps, Onward
<1>9. ConfigIsRestored'
  BY <1>1 DEF ConfigIsRestored, Clean, Goes, Mishaps, Onward
<1>10. ServiceIsTold'
  BY <1>1 DEF ServiceIsTold, Creating, CreateSteps, RollbackSteps, Clean, Orderly, WillRestart, At,
     Did, Goes, Mishaps, Onward
<1>11. CleanupIsTold'
  BY <1>1 DEF CleanupIsTold, Goes, Mishaps, Onward
<1>12. HasPort'
  BY <1>1 DEF HasPort, CreateSteps, RollbackSteps, Goes, Mishaps, Onward
<1>13. QED
  BY <1>2, <1>3, <1>4, <1>5, <1>6, <1>7, <1>8, <1>9, <1>10, <1>11, <1>12

LEMMA RestartPreviousKeeps ==
  ASSUME IInv, RestartPrevious
  PROVE  IInv'
<1> USE DEF IInv, Told
<1>1. /\ run.step = "restart_previous"
      /\ UNCHANGED <<config, torn, unit, enabled, binary, litter, faults>>
      /\ process' \in {"stopped", "active", "restarting"} /\ running' \in SUBSET Port
      /\ process' # "active" => running' = {}
      /\ process' = "active" => running' # {}
      /\ \/ Goes("create_failed", {}) /\ WillRestart /\ process' = "active" /\ running' = config
         \/ Goes("create_failed", {}) /\ ~WillRestart /\ process' = process /\ running' = running
         \/ Mishaps("create_failed", {})
  BY GoGoes, MishapGoes DEF RestartPrevious, StartOn, Stopped, Startable, WillRestart, ActiveServes,
     TypeOK, Outcomes, disk, service, At, Steps, CreateSteps, RollbackSteps, Artifact
<1>2. TypeOK'
  BY <1>1 DEF TypeOK, Goes, Mishaps, Onward
<1>3. ActiveServes'
  BY <1>1 DEF ActiveServes, Goes, Mishaps, Onward
<1>4. ConfigIsTold'
  BY <1>1 DEF ConfigIsTold, CreateSteps, Did, Goes, Mishaps, Onward
<1>5. FlagsAreInOrder'
  BY <1>1 DEF FlagsAreInOrder, CreateSteps, At, Did, Goes, Mishaps, Onward
<1>6. UnitIsUp'
  BY <1>1 DEF UnitIsUp, At, Did, Goes, Mishaps, Onward
<1>7. BinaryIsTold'
  BY <1>1 DEF BinaryIsTold, BinaryBefore, CreateSteps, RollbackSteps, Clean, Did, Goes, Mishaps,
     Onward
<1>8. UnitIsTold'
  BY <1>1 DEF UnitIsTold, Creating, CreateSteps, RollbackSteps, Clean, Did, Goes, Mishaps, Onward
<1>9. ConfigIsRestored'
  BY <1>1 DEF ConfigIsRestored, Clean, Goes, Mishaps, Onward
<1>10. ServiceIsTold'
  <2>1. Clean => config = run.before.config
    BY <1>1 DEF ConfigIsRestored
  <2>2. /\ run'.before = run.before /\ run'.step = "create_failed"
        /\ run'.clean => run.clean
        /\ Did("ServiceWasActive")' = Did("ServiceWasActive")
        /\ \/ ~run'.clean
           \/ WillRestart /\ process' = "active" /\ running' = config
           \/ ~WillRestart /\ process' = process /\ running' = running
    BY <1>1 DEF Did, Goes, Mishaps, Onward
  <2>3. QED
    BY <1>1, <2>1, <2>2 DEF ServiceIsTold, WillRestart, Creating, CreateSteps, RollbackSteps, Clean,
       Orderly, At
<1>11. CleanupIsTold'
  BY <1>1 DEF CleanupIsTold, Goes, Mishaps, Onward
<1>12. HasPort'
  BY <1>1 DEF HasPort, CreateSteps, RollbackSteps, Goes, Mishaps, Onward
<1>13. QED
  BY <1>2, <1>3, <1>4, <1>5, <1>6, <1>7, <1>8, <1>9, <1>10, <1>11, <1>12

-----------------------------------------------------------------------------
(***************************************************************************)
(* Cleanup.                                                                *)
(***************************************************************************)

LEMMA DisableServiceKeeps ==
  ASSUME IInv, DisableService
  PROVE  IInv'
<1> USE DEF IInv, Told
<1>1. /\ run.step = "disable"
      /\ UNCHANGED <<config, torn, unit, binary, litter, faults>>
      /\ enabled' \in BOOLEAN
      /\ \/ process' = "stopped" /\ running' = {} /\ ~enabled' /\ Goes("remove_unit", {})
         \/ process' = "stopped" /\ running' = {} /\ Goes("cleanup_failed", {})
         \/ process' = process /\ running' = running /\ Goes("cleanup_failed", {})
  BY GoGoes, MishapGoes DEF DisableService, TypeOK, Stopped, CleanupSteps, Outcomes, service, At,
     Steps, CreateSteps, RollbackSteps, Artifact
<1>2. TypeOK'
  BY <1>1 DEF TypeOK, Goes, Onward
<1>3. ActiveServes'
  BY <1>1 DEF ActiveServes, Goes, Onward
<1>4. ConfigIsTold'
  BY <1>1 DEF ConfigIsTold, CreateSteps, Did, Goes, Onward
<1>5. FlagsAreInOrder'
  BY <1>1 DEF FlagsAreInOrder, CreateSteps, At, Did, Goes, Onward
<1>6. UnitIsUp'
  BY <1>1 DEF UnitIsUp, At, Did, Goes, Onward
<1>7. BinaryIsTold'
  BY <1>1 DEF BinaryIsTold, BinaryBefore, CreateSteps, RollbackSteps, Clean, Did, Goes, Onward
<1>8. UnitIsTold'
  BY <1>1 DEF UnitIsTold, Creating, CreateSteps, RollbackSteps, Clean, Did, Goes, Onward
<1>9. ConfigIsRestored'
  BY <1>1 DEF ConfigIsRestored, Clean, Goes, Onward
<1>10. ServiceIsTold'
  BY <1>1 DEF ServiceIsTold, Creating, CreateSteps, RollbackSteps, Clean, Orderly, WillRestart, At,
     Did, Goes, Onward
<1>11. CleanupIsTold'
  BY <1>1 DEF CleanupIsTold, Goes, Onward
<1>12. HasPort'
  BY <1>1 DEF HasPort, CreateSteps, RollbackSteps, Goes, Onward
<1>13. QED
  BY <1>2, <1>3, <1>4, <1>5, <1>6, <1>7, <1>8, <1>9, <1>10, <1>11, <1>12

LEMMA RemoveServiceKeeps ==
  ASSUME IInv, RemoveService
  PROVE  IInv'
<1> USE DEF IInv, Told
<1>1. /\ run.step = "remove_unit"
      /\ UNCHANGED <<config, torn, enabled, binary, litter, process, running, faults>>
      /\ (unit' = "none" /\ Goes("remove_config", {})) \/ (unit' = unit /\ Goes("cleanup_failed", {}))
  BY GoGoes, MishapGoes DEF RemoveService, CleanupSteps, Outcomes, service, At, Steps, CreateSteps,
     RollbackSteps, Artifact
<1>2. TypeOK'
  BY <1>1 DEF TypeOK, Goes, Onward
<1>3. ActiveServes'
  BY <1>1 DEF ActiveServes, Goes, Onward
<1>4. ConfigIsTold'
  BY <1>1 DEF ConfigIsTold, CreateSteps, Did, Goes, Onward
<1>5. FlagsAreInOrder'
  BY <1>1 DEF FlagsAreInOrder, CreateSteps, At, Did, Goes, Onward
<1>6. UnitIsUp'
  BY <1>1 DEF UnitIsUp, At, Did, Goes, Onward
<1>7. BinaryIsTold'
  BY <1>1 DEF BinaryIsTold, BinaryBefore, CreateSteps, RollbackSteps, Clean, Did, Goes, Onward
<1>8. UnitIsTold'
  BY <1>1 DEF UnitIsTold, Creating, CreateSteps, RollbackSteps, Clean, Did, Goes, Onward
<1>9. ConfigIsRestored'
  BY <1>1 DEF ConfigIsRestored, Clean, Goes, Onward
<1>10. ServiceIsTold'
  BY <1>1 DEF ServiceIsTold, Creating, CreateSteps, RollbackSteps, Clean, Orderly, WillRestart, At,
     Did, Goes, Onward
<1>11. CleanupIsTold'
  BY <1>1 DEF CleanupIsTold, Goes, Onward
<1>12. HasPort'
  BY <1>1 DEF HasPort, CreateSteps, RollbackSteps, Goes, Onward
<1>13. QED
  BY <1>2, <1>3, <1>4, <1>5, <1>6, <1>7, <1>8, <1>9, <1>10, <1>11, <1>12

LEMMA RemoveConfigKeeps ==
  ASSUME IInv, RemoveConfig
  PROVE  IInv'
<1> USE DEF IInv, Told
<1>1. /\ run.step = "remove_config"
      /\ UNCHANGED <<unit, enabled, binary, litter, process, running, faults>>
      /\ torn' \in BOOLEAN
      /\ (config' = {} /\ Goes("check", {})) \/ (config' = config /\ Goes("cleanup_failed", {}))
  BY GoGoes, MishapGoes DEF RemoveConfig, TypeOK, CleanupSteps, Outcomes, service, At, Steps,
     CreateSteps, RollbackSteps, Artifact
<1>2. TypeOK'
  BY <1>1 DEF TypeOK, Goes, Onward
<1>3. ActiveServes'
  BY <1>1 DEF ActiveServes, Goes, Onward
<1>4. ConfigIsTold'
  BY <1>1 DEF ConfigIsTold, CreateSteps, Did, Goes, Onward
<1>5. FlagsAreInOrder'
  BY <1>1 DEF FlagsAreInOrder, CreateSteps, At, Did, Goes, Onward
<1>6. UnitIsUp'
  BY <1>1 DEF UnitIsUp, At, Did, Goes, Onward
<1>7. BinaryIsTold'
  BY <1>1 DEF BinaryIsTold, BinaryBefore, CreateSteps, RollbackSteps, Clean, Did, Goes, Onward
<1>8. UnitIsTold'
  BY <1>1 DEF UnitIsTold, Creating, CreateSteps, RollbackSteps, Clean, Did, Goes, Onward
<1>9. ConfigIsRestored'
  BY <1>1 DEF ConfigIsRestored, Clean, Goes, Onward
<1>10. ServiceIsTold'
  BY <1>1 DEF ServiceIsTold, Creating, CreateSteps, RollbackSteps, Clean, Orderly, WillRestart, At,
     Did, Goes, Onward
<1>11. CleanupIsTold'
  BY <1>1 DEF CleanupIsTold, Goes, Onward
<1>12. HasPort'
  BY <1>1 DEF HasPort, CreateSteps, RollbackSteps, Goes, Onward
<1>13. QED
  BY <1>2, <1>3, <1>4, <1>5, <1>6, <1>7, <1>8, <1>9, <1>10, <1>11, <1>12

LEMMA CheckPortKeeps ==
  ASSUME IInv, CheckPort
  PROVE  IInv'
<1> USE DEF IInv, Told
<1>1. /\ run.step = "check"
      /\ UNCHANGED <<config, torn, unit, enabled, binary, litter, process, running, faults>>
      /\ Goes("cleaned", {}) \/ Goes("cleanup_failed", {})
  BY GoGoes, MishapGoes DEF CheckPort, Outcomes, disk, service, At, Steps, CreateSteps,
     RollbackSteps, Artifact
<1>2. TypeOK'
  BY <1>1 DEF TypeOK, Goes, Onward
<1>3. ActiveServes'
  BY <1>1 DEF ActiveServes, Goes, Onward
<1>4. ConfigIsTold'
  BY <1>1 DEF ConfigIsTold, CreateSteps, Did, Goes, Onward
<1>5. FlagsAreInOrder'
  BY <1>1 DEF FlagsAreInOrder, CreateSteps, At, Did, Goes, Onward
<1>6. UnitIsUp'
  BY <1>1 DEF UnitIsUp, At, Did, Goes, Onward
<1>7. BinaryIsTold'
  BY <1>1 DEF BinaryIsTold, BinaryBefore, CreateSteps, RollbackSteps, Clean, Did, Goes, Onward
<1>8. UnitIsTold'
  BY <1>1 DEF UnitIsTold, Creating, CreateSteps, RollbackSteps, Clean, Did, Goes, Onward
<1>9. ConfigIsRestored'
  BY <1>1 DEF ConfigIsRestored, Clean, Goes, Onward
<1>10. ServiceIsTold'
  BY <1>1 DEF ServiceIsTold, Creating, CreateSteps, RollbackSteps, Clean, Orderly, WillRestart, At,
     Did, Goes, Onward
<1>11. CleanupIsTold'
  BY <1>1 DEF CleanupIsTold, Goes, Onward
<1>12. HasPort'
  BY <1>1 DEF HasPort, CreateSteps, RollbackSteps, Goes, Onward
<1>13. QED
  BY <1>2, <1>3, <1>4, <1>5, <1>6, <1>7, <1>8, <1>9, <1>10, <1>11, <1>12

-----------------------------------------------------------------------------
(***************************************************************************)
(* Commands begin and end.                                                 *)
(***************************************************************************)

LEMMA BeginCreateKeeps ==
  ASSUME IInv, NEW p \in Port, BeginCreate(p)
  PROVE  IInv'
<1> USE DEF IInv, Told
<1>1. /\ run' \in Run
      /\ run'.step = "install" /\ run'.port = p /\ run'.did = {}
      /\ run'.before = Now /\ unit # "partial"
      /\ UNCHANGED <<config, torn, unit, enabled, binary, litter, process, running, faults>>
  BY DEF BeginCreate, Now, Idle, Nothing, Run, Snapshot, CreateSteps, TypeOK, disk, service
<1>2. TypeOK'
  BY <1>1 DEF TypeOK
<1>3. ActiveServes'
  BY <1>1 DEF ActiveServes, Now
<1>4. ConfigIsTold' /\ FlagsAreInOrder' /\ UnitIsUp' /\ ConfigIsRestored' /\ CleanupIsTold' /\ HasPort'
  BY <1>1 DEF ConfigIsTold, FlagsAreInOrder, UnitIsUp, ConfigIsRestored, CleanupIsTold, HasPort,
     Now, CreateSteps, At, Did
<1>5. BinaryIsTold' /\ UnitIsTold'
  BY <1>1 DEF BinaryIsTold, UnitIsTold, BinaryBefore, Now, Creating, CreateSteps, RollbackSteps, Did
<1>6. ServiceIsTold'
  BY <1>1 DEF ServiceIsTold, Now, Creating, CreateSteps, RollbackSteps, At, Did
<1>7. QED
  BY <1>2, <1>3, <1>4, <1>5, <1>6

LEMMA BeginCleanupKeeps ==
  ASSUME IInv, NEW p \in Port, BeginCleanup(p)
  PROVE  IInv'
<1> USE DEF IInv, Told
<1>1. /\ run' \in Run /\ run'.step = "disable" /\ run'.before = Now
      /\ UNCHANGED <<config, torn, unit, enabled, binary, litter, process, running, faults>>
  BY DEF BeginCleanup, Now, Idle, Nothing, Run, Snapshot, CleanupSteps, TypeOK, disk, service
<1>2. TypeOK'
  BY <1>1 DEF TypeOK
<1>3. ActiveServes'
  BY <1>1 DEF ActiveServes, Now
<1>4. QED
  BY <1>1, <1>2, <1>3 DEF ConfigIsTold, FlagsAreInOrder, UnitIsUp, BinaryIsTold, UnitIsTold,
     ConfigIsRestored, ServiceIsTold, CleanupIsTold, HasPort, Creating, CreateSteps, RollbackSteps, At

LEMMA ReportKeeps ==
  ASSUME IInv, Report
  PROVE  IInv'
BY IdleKeeps, IdleFacts DEF Report, IInv, Told, ActiveServes, TypeOK, disk, service

-----------------------------------------------------------------------------
(***************************************************************************)
(* What happens to the host meanwhile.                                     *)
(***************************************************************************)

\* What a death of the worker leaves of its files are files still.
LEMMA InterruptedFiles ==
  ASSUME TypeOK, Interrupted
  PROVE  /\ config' \in SUBSET Port /\ torn' \in BOOLEAN /\ litter' \in BOOLEAN
         /\ unit' \in {"none", "ours", "partial"} /\ enabled' \in BOOLEAN
         /\ binary' \in {"none", "old", "target", "torn"}
BY DEF TypeOK, Interrupted

LEMMA StrikeCounts ==
  ASSUME TypeOK, Strike
  PROVE  faults' \in 0 .. MaxFaults
BY HostAssumption DEF TypeOK, Strike

LEMMA WorkerDiesKeeps ==
  ASSUME IInv, WorkerDies
  PROVE  IInv'
<1>1. TypeOK'
  BY InterruptedFiles, StrikeCounts, IdleFacts DEF WorkerDies, IInv, TypeOK, service
<1>2. QED
  BY <1>1, IdleKeeps DEF WorkerDies, service, IInv, Told, ActiveServes

LEMMA HostRebootsKeeps ==
  ASSUME IInv, HostReboots
  PROVE  IInv'
<1>1. process' \in {"stopped", "active", "restarting"} /\ running' \in SUBSET Port
  BY InterruptedFiles DEF HostReboots, Stopped, IInv
<1>2. (process' # "active" => running' = {}) /\ (process' = "active" => running' # {})
  BY DEF HostReboots, Stopped
<1>3. TypeOK'
  BY <1>1, <1>2, InterruptedFiles, StrikeCounts, IdleFacts DEF HostReboots, IInv, TypeOK
<1>4. QED
  BY <1>2, <1>3, IdleKeeps DEF HostReboots

LEMMA ServiceFailsKeeps ==
  ASSUME IInv, ServiceFails
  PROVE  IInv'
<1> USE DEF IInv, Told
<1>1. /\ run' \in Run /\ run'.step = run.step /\ run'.port = run.port /\ run'.did = run.did
      /\ run'.previous = run.previous /\ run'.before = run.before
      /\ run.step # "idle" => run'.clean = FALSE
      /\ process = "active" /\ process' = "restarting" /\ running' = {}
      /\ UNCHANGED <<config, torn, unit, enabled, binary, litter>>
  BY DEF ServiceFails, TypeOK, Run, disk
<1>2. TypeOK'
  BY <1>1, StrikeCounts DEF TypeOK, ServiceFails
<1>3. ActiveServes' /\ ConfigIsTold' /\ FlagsAreInOrder' /\ HasPort'
  BY <1>1 DEF ActiveServes, ConfigIsTold, FlagsAreInOrder, HasPort, At, Did
<1>4. UnitIsUp' /\ CleanupIsTold'
  BY <1>1 DEF UnitIsUp, CleanupIsTold, At, Did
<1>5. BinaryIsTold' /\ ConfigIsRestored' /\ ServiceIsTold'
  BY <1>1 DEF BinaryIsTold, ConfigIsRestored, ServiceIsTold, Creating, CreateSteps, RollbackSteps,
     Clean
<1>6. UnitIsTold'
  BY <1>1 DEF UnitIsTold, Creating, CreateSteps, RollbackSteps, Clean
<1>7. QED
  BY <1>2, <1>3, <1>4, <1>5, <1>6

LEMMA ServiceRecoversKeeps ==
  ASSUME IInv, ServiceRecovers
  PROVE  IInv'
<1> USE DEF IInv, Told
<1>1. /\ process = "restarting" /\ process' = "active" /\ running' = config /\ config # {}
      /\ UNCHANGED <<config, torn, unit, enabled, binary, litter, run, faults>>
  BY DEF ServiceRecovers, Startable, disk
<1>2. TypeOK'
  BY <1>1 DEF TypeOK
<1>3. ActiveServes' /\ ConfigIsTold' /\ FlagsAreInOrder' /\ HasPort'
  BY <1>1 DEF ActiveServes, ConfigIsTold, FlagsAreInOrder, HasPort, At, Did
<1>4. UnitIsUp' /\ CleanupIsTold'
  BY <1>1 DEF UnitIsUp, CleanupIsTold, At, Did
<1>5. BinaryIsTold' /\ UnitIsTold' /\ ConfigIsRestored'
  BY <1>1 DEF BinaryIsTold, UnitIsTold, ConfigIsRestored, BinaryBefore, Clean, Did
<1>6. ServiceIsTold'
  BY <1>1 DEF ServiceIsTold, WillRestart, Clean, At, Did
<1>7. QED
  BY <1>2, <1>3, <1>4, <1>5, <1>6

-----------------------------------------------------------------------------
(***************************************************************************)
(* The landing host.                                                       *)
(***************************************************************************)

LEMMA StutterKeeps ==
  ASSUME IInv, UNCHANGED vars
  PROVE  IInv'
BY DEF IInv, Told, vars, TypeOK, ActiveServes, ConfigIsTold, FlagsAreInOrder, UnitIsUp,
   BinaryIsTold, BinaryBefore, UnitIsTold, ConfigIsRestored, ServiceIsTold, WillRestart, CleanupIsTold,
   HasPort, Clean, At, Did

LEMMA NextIInv ==
  ASSUME IInv, [Next]_vars
  PROVE  IInv'
<1>1. CASE CreateNode
  BY <1>1, BeginCreateKeeps, InstallBinaryKeeps, WriteConfigKeeps, WriteServiceKeeps,
     TestConfigKeeps, EnableKeeps, LookAtServiceKeeps, RestartKeeps, VerifyKeeps DEF CreateNode
<1>2. CASE Rollback
  BY <1>2, StopServiceKeeps, DropServiceKeeps, RestoreConfigKeeps, RestoreBinaryKeeps,
     RestartPreviousKeeps DEF Rollback
<1>3. CASE CleanUp
  BY <1>3, BeginCleanupKeeps, DisableServiceKeeps, RemoveServiceKeeps, RemoveConfigKeeps,
     CheckPortKeeps DEF CleanUp
<1>4. CASE Report
  BY <1>4, ReportKeeps
<1>5. CASE Host
  BY <1>5, WorkerDiesKeeps, HostRebootsKeeps, ServiceFailsKeeps, ServiceRecoversKeeps DEF Host
<1>6. CASE UNCHANGED vars
  BY <1>6, StutterKeeps
<1>7. QED
  BY <1>1, <1>2, <1>3, <1>4, <1>5, <1>6 DEF Next

LEMMA LandingInvariance == Spec => []IInv
BY InitIInv, NextIInv, PTL DEF Spec

LEMMA FailureIsUndone == IInv => FailedCreateRestores
<1> SUFFICES ASSUME IInv, At("create_failed"), Clean, Orderly(run.before)
             PROVE  /\ config = run.before.config
                    /\ unit = run.before.unit
                    /\ binary = run.before.binary
                    /\ run.before.process = "active" => process = "active" /\ running = run.before.running
                    /\ run.before.process = "stopped" => process = "stopped"
  BY DEF FailedCreateRestores
<1> USE DEF IInv, Told, At
<1>1. config = run.before.config
  BY DEF ConfigIsRestored
<1>2. unit = run.before.unit
  BY DEF UnitIsTold, Creating
<1>3. binary = run.before.binary
  BY DEF BinaryIsTold
<1>4. /\ run.before.process = "active" => process = "active" /\ running = run.before.running
      /\ run.before.process = "stopped" => process = "stopped"
  BY DEF ServiceIsTold, Creating
<1>5. QED
  BY <1>1, <1>2, <1>3, <1>4

LEMMA CleanedIsEmpty == IInv => CleanupLeavesNothing
BY DEF IInv, Told, CleanupIsTold, CleanupLeavesNothing, At

\* Only a verification ends a creation with success.
LEMMA VerifiedIsServed ==
  ASSUME IInv, [Next]_vars, At("verify"), run'.step = "created"
  PROVE  /\ run.before.config \cup {run.port} \subseteq running'
         /\ running' = config' /\ enabled' /\ unit' = "ours"
<1>1. AllListening /\ UNCHANGED <<disk, service>>
  <2>1. CASE CreateNode
    BY <2>1 DEF CreateNode, BeginCreate, InstallBinary, WriteConfig, WriteService, TestConfig,
       Enable, LookAtService, Restart, Verify, Fails, Go, At, IInv, TypeOK, Run
  <2>2. CASE Rollback
    BY <2>2 DEF Rollback, StopService, DropService, RestoreConfig, RestoreBinary, RestartPrevious,
       At
  <2>3. CASE CleanUp
    BY <2>3 DEF CleanUp, BeginCleanup, DisableService, RemoveService, RemoveConfig, CheckPort, At
  <2>4. CASE Report
    BY <2>4 DEF Report, Outcomes, At
  <2>5. CASE Host \/ UNCHANGED vars
    BY <2>5, IdleFacts DEF Host, WorkerDies, HostReboots, ServiceFails, ServiceRecovers, vars, At,
       IInv, TypeOK, Run
  <2>6. QED
    BY <2>1, <2>2, <2>3, <2>4, <2>5 DEF Next
<1>2. running = config /\ enabled /\ unit = "ours"
  BY <1>1 DEF IInv, Told, UnitIsUp, AllListening, At
<1>3. config = run.before.config \cup {run.port}
  BY DEF IInv, Told, ConfigIsTold, FlagsAreInOrder, CreateSteps, At
<1>4. QED
  BY <1>1, <1>2, <1>3 DEF disk, service

LEMMA InboundsStay ==
  ASSUME IInv, [Next]_vars, NEW p \in config \ config'
  PROVE  \/ At("remove_config")
         \/ At("restore_config") /\ (p = run.port \/ torn')
<1>1. CASE CreateNode
  BY <1>1 DEF CreateNode, BeginCreate, InstallBinary, WriteConfig, Appended, WriteService,
     TestConfig, Enable, LookAtService, Restart, Verify, disk
<1>2. CASE Rollback
  <2>1. CASE RestoreConfig
    <3>1. At("restore_config") /\ Did("ConfigWritten") /\ config' = Restored
      BY <2>1 DEF RestoreConfig
    <3>2. /\ config = run.before.config \cup {run.port}
          /\ run.previous = run.before.config
          /\ Did("ConfigExisted") \/ run.before.config = {}
      BY <3>1 DEF IInv, Told, ConfigIsTold, At
    <3>3. QED
      BY <3>1, <3>2 DEF Restored
  <2>2. QED
    BY <1>2, <2>1 DEF Rollback, StopService, DropService, RestoreBinary, RestartPrevious, disk
<1>3. CASE CleanUp
  BY <1>3 DEF CleanUp, BeginCleanup, DisableService, RemoveService, RemoveConfig, CheckPort, disk
<1>4. CASE Report
  BY <1>4 DEF Report, disk
<1>5. CASE Host
  BY <1>5 DEF Host, WorkerDies, HostReboots, ServiceFails, ServiceRecovers, Interrupted, disk
<1>6. CASE UNCHANGED vars
  BY <1>6 DEF vars
<1>7. QED
  BY <1>1, <1>2, <1>3, <1>4, <1>5, <1>6 DEF Next

-----------------------------------------------------------------------------
(***************************************************************************)
(* The execution of BBR: what it leaves on a host was reported, and what   *)
(* was reported as enabled stays so, for any number of commands and        *)
(* faults.  Neither holds step by step as it stands.  While an execution   *)
(* is at work its own list of actions stands for the report it is going to *)
(* make; and what is in force survives a reboot only because of the file,  *)
(* which the verification never looks at.                                  *)
(***************************************************************************)
BbrTypes ==
  /\ kernel \in Bbr!Kernel /\ module \in BOOLEAN
  /\ file \in {"missing", "empty", "part", "whole"} /\ active \in SUBSET Bbr!Setting
  /\ runB \in Bbr!Run /\ known \in Bbr!Known

\* Between executions there is no list; an execution past the writing has
\* written.
BbrRunInv ==
  /\ runB.step = "idle" => runB.actions = {}
  /\ runB.step \in {"reload", "verify"} => file = "whole" /\ "write" \in runB.actions

\* What was told, or is going to be.
Listed == known.told \cup runB.actions

LeftoversInv ==
  ~known.silent =>
    /\ file \in {"part", "whole"} \/ active # {} => "write" \in Listed
    /\ module => "load" \in Listed \/ "write" \in Listed

\* The control is in force only on a kernel that has it, and at the
\* verification only if no other file wins.
ControlInv ==
  /\ "control" \in active => kernel.has
  /\ runB.step = "verify" /\ "control" \in active => ~kernel.wins

\* What makes the setting last over a reboot.
EnabledInv ==
  known.enabled /\ runB.step = "idle" =>
    /\ active = Bbr!Setting /\ module
    /\ file = "whole" /\ kernel.has /\ ~kernel.wins

BbrInv == BbrTypes /\ BbrRunInv /\ LeftoversInv /\ ControlInv /\ EnabledInv

-----------------------------------------------------------------------------
\* The whole setting comes from a whole file that nothing wins over, and the
\* control from nowhere else.
LEMMA AppliedIs ==
  ASSUME BbrTypes
  PROVE  /\ Bbr!Applied \in SUBSET Bbr!Setting
         /\ Bbr!Applied # {} => file \in {"part", "whole"}
         /\ "control" \in Bbr!Applied => file = "whole" /\ kernel.has /\ ~kernel.wins
         /\ file = "whole" /\ kernel.has /\ ~kernel.wins => Bbr!Applied = Bbr!Setting
BY DEF BbrTypes, Bbr!Applied, Bbr!Setting

LEMMA BbrInitHolds == Bbr!Init => BbrInv
<1> SUFFICES ASSUME Bbr!Init PROVE BbrInv
  OBVIOUS
<1>1. /\ kernel \in Bbr!Kernel /\ module = FALSE /\ active = {} /\ file \in {"missing", "empty"}
      /\ runB = Bbr!IdleRun /\ known = [told |-> {}, silent |-> FALSE, enabled |-> FALSE]
  BY DEF Bbr!Init
<1>2. BbrTypes
  BY <1>1 DEF BbrTypes, Bbr!Run, Bbr!IdleRun, Bbr!Known
<1> QED
  BY <1>1, <1>2 DEF BbrInv, Bbr!IdleRun, BbrRunInv, LeftoversInv, ControlInv, EnabledInv

\* A report leaves the lists together as they were, with the failed action added.
LEMMA BbrReportIs ==
  ASSUME BbrTypes, NEW actions \in SUBSET {"load", "write", "reload"}, NEW ok \in BOOLEAN,
         Bbr!Report(actions, ok)
  PROVE  /\ runB' \in Bbr!Run /\ runB'.step = "idle" /\ runB'.actions = {}
         /\ known' \in Bbr!Known /\ known'.told = known.told \cup actions
         /\ known'.silent = known.silent /\ known'.enabled = ok
BY DEF BbrTypes, Bbr!Report, Bbr!Run, Bbr!IdleRun, Bbr!Known

LEMMA BbrGoIs ==
  ASSUME BbrTypes, NEW step \in {"load", "write", "reload", "verify"},
         NEW action \in {"load", "write", "reload"}, Bbr!Go(step, action)
  PROVE  /\ runB' \in Bbr!Run /\ runB'.step = step /\ runB'.actions = runB.actions \cup {action}
         /\ known' = known
BY DEF BbrTypes, Bbr!Go, Bbr!Run

-----------------------------------------------------------------------------
LEMMA LoadModuleKeeps == BbrInv /\ Bbr!LoadModule => BbrInv'
<1> SUFFICES ASSUME BbrInv, Bbr!LoadModule PROVE BbrInv'
  OBVIOUS
<1> USE DEF BbrInv
<1>1. CASE kernel.has /\ module' = TRUE /\ Bbr!Go("write", "load")
  <2>1. /\ runB' \in Bbr!Run /\ runB'.step = "write" /\ runB'.actions = runB.actions \cup {"load"}
        /\ known' = known
    BY <1>1, BbrGoIs
  <2> QED
    BY <1>1, <2>1 DEF Bbr!LoadModule, BbrTypes, BbrRunInv, Listed, LeftoversInv, ControlInv,
       EnabledInv
<1>2. CASE module' \in {module, kernel.has} /\ Bbr!Fail("load")
  <2>1. /\ runB' \in Bbr!Run /\ runB'.step = "idle" /\ runB'.actions = {}
        /\ known' \in Bbr!Known /\ known'.told = known.told \cup (runB.actions \cup {"load"})
        /\ known'.silent = known.silent /\ known'.enabled = FALSE
    <3>1. runB.actions \cup {"load"} \in SUBSET {"load", "write", "reload"}
      BY DEF BbrTypes, Bbr!Run
    <3> QED
      BY <1>2, <3>1, BbrReportIs DEF Bbr!Fail
  <2>2. module' \in BOOLEAN
    BY <1>2 DEF BbrTypes, Bbr!Kernel
  <2> QED
    BY <1>2, <2>1, <2>2 DEF Bbr!LoadModule, BbrTypes, BbrRunInv, Listed, LeftoversInv,
       ControlInv, EnabledInv
<1> QED
  BY <1>1, <1>2 DEF Bbr!LoadModule

LEMMA WriteSysctlConfigKeeps == BbrInv /\ Bbr!WriteSysctlConfig => BbrInv'
<1> SUFFICES ASSUME BbrInv, Bbr!WriteSysctlConfig PROVE BbrInv'
  OBVIOUS
<1> USE DEF BbrInv
<1>1. CASE file' = "whole" /\ Bbr!Go("reload", "write")
  <2>1. /\ runB' \in Bbr!Run /\ runB'.step = "reload" /\ runB'.actions = runB.actions \cup {"write"}
        /\ known' = known
    BY <1>1, BbrGoIs
  <2> QED
    BY <1>1, <2>1 DEF Bbr!WriteSysctlConfig, BbrTypes, BbrRunInv, Listed, LeftoversInv,
       ControlInv, EnabledInv
<1>2. CASE /\ file' \in (IF file = "missing" THEN {file} ELSE {file, "empty", "part"})
           /\ Bbr!Fail("write")
  <2>1. /\ runB' \in Bbr!Run /\ runB'.step = "idle" /\ runB'.actions = {}
        /\ known' \in Bbr!Known /\ known'.told = known.told \cup (runB.actions \cup {"write"})
        /\ known'.silent = known.silent /\ known'.enabled = FALSE
    <3>1. runB.actions \cup {"write"} \in SUBSET {"load", "write", "reload"}
      BY DEF BbrTypes, Bbr!Run
    <3> QED
      BY <1>2, <3>1, BbrReportIs DEF Bbr!Fail
  <2>2. file' \in {"missing", "empty", "part", "whole"}
    BY <1>2 DEF BbrTypes
  <2> QED
    BY <2>1, <2>2 DEF Bbr!WriteSysctlConfig, BbrTypes, BbrRunInv, Listed, LeftoversInv,
       ControlInv, EnabledInv
<1> QED
  BY <1>1, <1>2 DEF Bbr!WriteSysctlConfig

LEMMA ReloadSysctlKeeps == BbrInv /\ Bbr!ReloadSysctl => BbrInv'
<1> SUFFICES ASSUME BbrInv, Bbr!ReloadSysctl PROVE BbrInv'
  OBVIOUS
<1> USE DEF BbrInv
<1>1. file = "whole" /\ "write" \in runB.actions
  BY DEF Bbr!ReloadSysctl, BbrRunInv
<1>2. /\ active' \in SUBSET Bbr!Setting
      /\ "control" \in active' => kernel.has
      /\ active' # active => ("control" \in active' => ~kernel.wins)
      /\ active' = (IF kernel.wins THEN active \ {"control"} ELSE active) \cup Bbr!Applied
         => ("control" \in active' => ~kernel.wins)
  BY AppliedIs DEF Bbr!ReloadSysctl, BbrTypes, ControlInv
<1>3. CASE Bbr!Go("verify", "reload") /\ ("control" \in active' => ~kernel.wins)
  <2>1. /\ runB' \in Bbr!Run /\ runB'.step = "verify" /\ runB'.actions = runB.actions \cup {"reload"}
        /\ known' = known
    BY <1>3, BbrGoIs
  <2> QED
    BY <1>1, <1>2, <1>3, <2>1 DEF Bbr!ReloadSysctl, BbrTypes, BbrRunInv, Listed, LeftoversInv,
       ControlInv, EnabledInv
<1>4. CASE Bbr!Fail("reload")
  <2>1. /\ runB' \in Bbr!Run /\ runB'.step = "idle" /\ runB'.actions = {}
        /\ known' \in Bbr!Known /\ known'.told = known.told \cup (runB.actions \cup {"reload"})
        /\ known'.silent = known.silent /\ known'.enabled = FALSE
    <3>1. runB.actions \cup {"reload"} \in SUBSET {"load", "write", "reload"}
      BY DEF BbrTypes, Bbr!Run
    <3> QED
      BY <1>4, <3>1, BbrReportIs DEF Bbr!Fail
  <2> QED
    BY <1>1, <1>2, <2>1 DEF Bbr!ReloadSysctl, BbrTypes, BbrRunInv, Listed, LeftoversInv,
       ControlInv, EnabledInv
<1> QED
  BY <1>2, <1>3, <1>4 DEF Bbr!ReloadSysctl

LEMMA BbrVerifyKeeps == BbrInv /\ Bbr!Verify => BbrInv'
<1> SUFFICES ASSUME BbrInv, Bbr!Verify PROVE BbrInv'
  OBVIOUS
<1> USE DEF BbrInv
<1>1. /\ runB' \in Bbr!Run /\ runB'.step = "idle" /\ runB'.actions = {}
      /\ known' \in Bbr!Known /\ known'.told = known.told \cup runB.actions
      /\ known'.silent = known.silent /\ known'.enabled = Bbr!Verified
  <2>1. runB.actions \in SUBSET {"load", "write", "reload"} /\ Bbr!Verified \in BOOLEAN
    BY DEF BbrTypes, Bbr!Run, Bbr!Verified
  <2> QED
    BY <2>1, BbrReportIs DEF Bbr!Verify
<1>2. Bbr!Verified => active = Bbr!Setting /\ module /\ file = "whole" /\ kernel.has /\ ~kernel.wins
  BY DEF Bbr!Verify, Bbr!Verified, Bbr!Setting, BbrRunInv, ControlInv
<1> QED
  BY <1>1, <1>2 DEF Bbr!Verify, Bbr!host, BbrTypes, BbrRunInv, Listed, LeftoversInv, ControlInv,
     EnabledInv

\* The restart of the worker or the host ends an execution without a report.
LEMMA DiesIs ==
  ASSUME BbrTypes, Bbr!Dies
  PROVE  /\ runB' \in Bbr!Run /\ runB'.step = "idle" /\ runB'.actions = {}
         /\ known' \in Bbr!Known /\ known'.told = known.told
         /\ runB.step = "idle" => known' = known
         /\ runB.step # "idle" => known'.silent /\ ~known'.enabled
BY DEF BbrTypes, Bbr!Dies, Bbr!Run, Bbr!IdleRun, Bbr!Known

LEMMA BbrCrashKeeps == BbrInv /\ Bbr!Crash => BbrInv'
<1> SUFFICES ASSUME BbrInv, Bbr!Crash PROVE BbrInv'
  OBVIOUS
<1> QED
  BY DiesIs DEF Bbr!Crash, Bbr!host, BbrInv, BbrTypes, BbrRunInv, Listed, LeftoversInv,
     ControlInv, EnabledInv

LEMMA BbrRebootKeeps == BbrInv /\ Bbr!Reboot => BbrInv'
<1> SUFFICES ASSUME BbrInv, Bbr!Reboot PROVE BbrInv'
  OBVIOUS
<1> USE DEF BbrInv
<1>1. /\ runB' \in Bbr!Run /\ runB'.step = "idle" /\ runB'.actions = {}
      /\ known' \in Bbr!Known /\ known'.told = known.told
      /\ runB.step = "idle" => known' = known
      /\ runB.step # "idle" => known'.silent /\ ~known'.enabled
  BY DiesIs DEF Bbr!Reboot
<1>2. /\ active' = Bbr!Applied /\ module' = ("control" \in Bbr!Applied)
      /\ kernel' = kernel /\ file' = file
  BY DEF Bbr!Reboot
<1>3. BbrTypes' /\ BbrRunInv' /\ ControlInv'
  BY <1>1, <1>2, AppliedIs DEF BbrTypes, BbrRunInv, ControlInv
<1>4. LeftoversInv'
  BY <1>1, <1>2, AppliedIs DEF BbrRunInv, Listed, LeftoversInv
<1>5. EnabledInv'
  BY <1>1, <1>2, AppliedIs DEF EnabledInv, Bbr!Setting
<1> QED
  BY <1>3, <1>4, <1>5

LEMMA BeginRealExecutionKeeps == BbrInv /\ Bbr!BeginRealExecution => BbrInv'
BY DEF Bbr!BeginRealExecution, Bbr!host, Bbr!IdleRun, Bbr!Run,
       BbrInv, BbrTypes, BbrRunInv, Listed, LeftoversInv, ControlInv, EnabledInv

\* The gates leave host, worker and reports alone.
LEMMA BbrOthersKeep ==
  BbrInv /\ UNCHANGED <<kernel, Bbr!host, runB, known>> => BbrInv'
BY DEF Bbr!host, BbrInv, BbrTypes, BbrRunInv, Listed, LeftoversInv, ControlInv, EnabledInv

LEMMA BbrNextKeeps == BbrInv /\ [Bbr!Next]_(Bbr!vars) => BbrInv'
<1> SUFFICES ASSUME BbrInv, [Bbr!Next]_(Bbr!vars) PROVE BbrInv'
  OBVIOUS
<1>1. CASE \/ Bbr!Preflight \/ Bbr!CreateDryRun \/ Bbr!ExecuteDryRun
          \/ Bbr!CreateRealExecution \/ UNCHANGED Bbr!vars
  BY <1>1, BbrOthersKeep DEF Bbr!Preflight, Bbr!CreateDryRun, Bbr!ExecuteDryRun,
     Bbr!CreateRealExecution, Bbr!vars, Bbr!host
<1>2. CASE Bbr!BeginRealExecution
  BY <1>2, BeginRealExecutionKeeps
<1>3. CASE Bbr!LoadModule
  BY <1>3, LoadModuleKeeps
<1>4. CASE Bbr!WriteSysctlConfig
  BY <1>4, WriteSysctlConfigKeeps
<1>5. CASE Bbr!ReloadSysctl
  BY <1>5, ReloadSysctlKeeps
<1>6. CASE Bbr!Verify
  BY <1>6, BbrVerifyKeeps
<1>7. CASE Bbr!Crash
  BY <1>7, BbrCrashKeeps
<1>8. CASE Bbr!Reboot
  BY <1>8, BbrRebootKeeps
<1> QED
  BY <1>1, <1>2, <1>3, <1>4, <1>5, <1>6, <1>7, <1>8 DEF Bbr!Next

-----------------------------------------------------------------------------
\* runBBREnableRealExecution takes nothing back, yet whatever it leaves on the
\* host, and whatever a later start makes of it, was in a report; and what a
\* report called enabled stays in force.
THEOREM ReportsAreTrue == Bbr!Spec => []Bbr!BbrIsKnown
<1>1. BbrInv => Bbr!BbrIsKnown
  BY DEF BbrInv, BbrRunInv, Listed, LeftoversInv, EnabledInv, Bbr!BbrIsKnown, Bbr!EnabledStays,
     Bbr!LeftoversAreTold
<1> QED
  BY <1>1, BbrInitHolds, BbrNextKeeps, PTL DEF Bbr!Spec

-----------------------------------------------------------------------------
(***************************************************************************)
(* Proofs about TransitHost, for any units of either method, any ports and *)
(* any number of faults.                                                   *)
(*                                                                         *)
(* What a rollback removes it knows from the flags of its creation, so the *)
(* inductive invariant says of every step which flags are set and that     *)
(* they tell what is there (TransitCreationIsTold), of a unit no command   *)
(* has failed half-way on.  That nothing else listens on a port takes      *)
(* more: as long as nothing went wrong, a unit in nobody's hands is        *)
(* stopped or has its port (TransitCalm).                                  *)
(***************************************************************************)

TransitInHand == runT.unit

TransitHasUnit == IF Transit!At("idle") THEN TransitInHand = None ELSE TransitInHand \in Transit!Unit

TransitCreating == Transit!CreateSteps \cup Transit!RollbackSteps

\* The flags of a creation up to the step it has reached.
TransitFlagsAreInOrder ==
  LET configured == IF TransitInHand \in Haproxy THEN {"ConfigWritten"} ELSE {} IN
  /\ Transit!At("config") => runT.did = {}
  /\ runT.step \in {"config", "validate"} => TransitInHand \in Haproxy
  /\ runT.step \in {"validate", "unit"} => runT.did = configured
  /\ runT.step \in {"reload", "start"} => runT.did = configured \cup {"ServiceWritten"}
  /\ Transit!At("verify") => runT.did = configured \cup {"ServiceWritten", "ServiceEnabled", "ServiceStarted"}
  /\ runT.step \in Transit!RollbackSteps => (Transit!Did("ServiceEnabled") <=> Transit!Did("ServiceStarted"))

\* They tell what of the unit is there, and the rollback removes it.
TransitCreationIsTold ==
  TransitInHand \notin upset =>
    /\ runT.step \in TransitCreating =>
         /\ TransitInHand \in conf <=> Transit!Did("ConfigWritten")
         /\ TransitInHand \in unitT <=> Transit!Did("ServiceWritten") /\ runT.step # "drop_config"
         /\ TransitInHand \in enabledT <=> Transit!Did("ServiceEnabled") /\ runT.step \notin {"drop_unit", "drop_config"}
         /\ processT[TransitInHand] # "stopped" <=>
              Transit!Did("ServiceStarted") /\ runT.step \notin {"disable", "drop_unit", "drop_config"}
    /\ Transit!At("created") => Transit!Whole(TransitInHand)
    /\ Transit!At("create_failed") => Transit!Absent(TransitInHand)

\* What a cleanup has removed stays away, whatever befell the unit before.
TransitCleanupIsTold ==
  /\ runT.step \in {"remove_unit", "remove_config", "check", "cleaned"} =>
       TransitInHand \notin enabledT /\ processT[TransitInHand] = "stopped"
  /\ runT.step \in {"remove_config", "check", "cleaned"} => TransitInHand \notin unitT
  /\ runT.step \in {"check", "cleaned"} => TransitInHand \notin conf
  /\ Transit!At("cleanup_failed") => TransitInHand \in upset \/ Transit!Absent(TransitInHand)

\* As long as nothing went wrong, a unit in nobody's hands is stopped or has its
\* port, two units for one port are not both there, and none is next to one
\* that is being made.
TransitRivals(u, v) == u # v /\ PortOf[u] = PortOf[v]

TransitCalm ==
  faultsT = 0 /\ upset = {} =>
    /\ \A u \in Transit!Unit : \/ processT[u] \in {"stopped", "bound"}
                               \/ u = TransitInHand /\ runT.step \in TransitCreating /\ processT[u] = "starting"
    /\ \A u, v \in Transit!Unit : TransitRivals(u, v) => processT[u] = "stopped" \/ processT[v] = "stopped"
    /\ runT.step \in TransitCreating => \A v \in Transit!Unit : TransitRivals(TransitInHand, v) => processT[v] = "stopped"

TransitIInv ==
  /\ Transit!TypeOK
  /\ TransitHasUnit
  /\ TransitFlagsAreInOrder
  /\ TransitCreationIsTold
  /\ TransitCleanupIsTold
  /\ Transit!UnitsAreWhole
  /\ TransitCalm

-----------------------------------------------------------------------------
(***************************************************************************)
(* How the worker goes on, and what that leaves to show.                   *)
(***************************************************************************)

TransitSteps == {"idle"} \cup Transit!CreateSteps \cup Transit!RollbackSteps \cup Transit!CleanupSteps \cup Transit!Outcomes

\* The command in hand is the same, further on by a step.
TransitOnward(step, flags) ==
  /\ runT' \in Transit!Run
  /\ runT'.step = step /\ runT'.did = runT.did \cup flags /\ runT'.unit = runT.unit

TransitGoes(step, flags) == TransitOnward(step, flags) /\ upset' = upset
TransitMishaps(step)     == TransitOnward(step, {}) /\ upset' = upset \cup {TransitInHand}

LEMMA TransitGoGoes ==
  ASSUME Transit!TypeOK, NEW step \in TransitSteps, NEW flags \in SUBSET Transit!Artifact,
         Transit!Go(step, flags)
  PROVE  TransitGoes(step, flags)
BY DEF Transit!TypeOK, Transit!Run, Transit!Go, TransitSteps, TransitGoes, TransitOnward

LEMMA TransitMishapGoes ==
  ASSUME Transit!TypeOK, NEW step \in TransitSteps, Transit!Mishap(step)
  PROVE  TransitMishaps(step)
BY DEF Transit!TypeOK, Transit!Run, Transit!Mishap, TransitSteps, TransitMishaps, TransitOnward,
   TransitInHand

\* A step of the worker leaves every unit but the one in its hands alone.
TransitOthersStay ==
  /\ runT'.unit = TransitInHand /\ upset \subseteq upset' /\ faultsT' = faultsT
  /\ \A v \in Transit!Unit \ {TransitInHand} :
       /\ v \in unitT' <=> v \in unitT
       /\ v \in conf' <=> v \in conf
       /\ v \in enabledT' <=> v \in enabledT
       /\ processT'[v] = processT[v]

LEMMA TransitOthersStayWhole ==
  ASSUME Transit!UnitsAreWhole, TransitOthersStay
  PROVE  Transit!UnitsAreWhole'
<1> SUFFICES ASSUME NEW v \in Transit!Unit, runT'.unit # v, v \notin upset'
             PROVE  Transit!Absent(v)' \/ Transit!Whole(v)'
  BY DEF Transit!UnitsAreWhole
<1>1. Transit!Absent(v) \/ Transit!Whole(v)
  BY DEF Transit!UnitsAreWhole, TransitOthersStay, TransitInHand
<1>2. QED
  BY <1>1 DEF TransitOthersStay, TransitInHand, Transit!Absent, Transit!Whole, Transit!Complete

\* What the unit in hand may do without disturbing anyone.
LEMMA TransitCalmStays ==
  ASSUME TransitCalm, TransitOthersStay, TransitInHand \in Transit!Unit,
         runT'.step \in TransitCreating => runT.step \in TransitCreating,
         upset' = {} => \/ processT'[TransitInHand] = "stopped"
                        \/ processT'[TransitInHand] = processT[TransitInHand]
                           /\ (processT[TransitInHand] = "starting" => runT'.step \in TransitCreating)
  PROVE  TransitCalm'
<1> SUFFICES ASSUME faultsT = 0, upset' = {}, upset = {}
             PROVE  /\ \A u \in Transit!Unit : \/ processT'[u] \in {"stopped", "bound"}
                                               \/ u = runT'.unit /\ runT'.step \in TransitCreating /\ processT'[u] = "starting"
                    /\ \A u, v \in Transit!Unit : TransitRivals(u, v) => processT'[u] = "stopped" \/ processT'[v] = "stopped"
                    /\ runT'.step \in TransitCreating =>
                         \A v \in Transit!Unit : TransitRivals(runT'.unit, v) => processT'[v] = "stopped"
  BY DEF TransitCalm, TransitOthersStay, TransitCreating, TransitInHand, TransitRivals
<1>1. /\ \A u \in Transit!Unit : \/ processT[u] \in {"stopped", "bound"}
                                 \/ u = TransitInHand /\ runT.step \in TransitCreating /\ processT[u] = "starting"
      /\ \A u, v \in Transit!Unit : TransitRivals(u, v) => processT[u] = "stopped" \/ processT[v] = "stopped"
      /\ runT.step \in TransitCreating => \A v \in Transit!Unit : TransitRivals(TransitInHand, v) => processT[v] = "stopped"
  BY DEF TransitCalm
<1>2. \A u \in Transit!Unit : processT'[u] \in {processT[u], "stopped"}
  BY DEF TransitOthersStay
<1>3. QED
  BY <1>1, <1>2 DEF TransitOthersStay, TransitRivals

\* Or it has been found to serve its port.
LEMMA TransitVerifiedIsCalm ==
  ASSUME TransitCalm, TransitOthersStay, TransitInHand \in Transit!Unit, UNCHANGED processT,
         runT'.step \notin TransitCreating,
         faultsT = 0 /\ upset = {} => processT[TransitInHand] = "bound"
  PROVE  TransitCalm'
BY DEF TransitCalm, TransitOthersStay, TransitRivals, TransitInHand

LEMMA TransitNowSets ==
  ASSUME Transit!TypeOK, NEW u \in Transit!Unit, NEW state \in Transit!ProcessState,
         Transit!Now(u, state)
  PROVE  /\ processT' \in [Transit!Unit -> Transit!ProcessState]
         /\ processT'[u] = state
         /\ \A v \in Transit!Unit \ {u} : processT'[v] = processT[v]
BY DEF Transit!TypeOK, Transit!Now

-----------------------------------------------------------------------------
(***************************************************************************)
(* Creation. Each lemma first says what a step comes to: what changes, and *)
(* how the worker goes on.                                                 *)
(***************************************************************************)

LEMMA TransitWriteConfigKeeps ==
  ASSUME Transit!UnitsAreTold, TransitIInv, Transit!WriteConfig
  PROVE  TransitIInv'
<1> USE DEF TransitIInv
<1>1. /\ runT.step = "config"
      /\ UNCHANGED <<unitT, enabledT, processT, faultsT>>
      /\ \/ conf' = conf \cup {TransitInHand} /\ (TransitGoes("validate", {"ConfigWritten"}) \/ TransitMishaps("stop"))
         \/ conf' = conf /\ TransitGoes("stop", {})
  BY TransitGoGoes, TransitMishapGoes DEF Transit!WriteConfig, TransitInHand, Transit!At,
     TransitSteps, Transit!CreateSteps, Transit!RollbackSteps,
     Transit!CleanupSteps, Transit!Outcomes, Transit!Artifact
<1>2. TransitInHand \in Transit!Unit /\ TransitInHand # None
  BY <1>1 DEF TransitHasUnit, Transit!UnitsAreTold, Transit!At
<1>3. Transit!TypeOK' /\ TransitHasUnit'
  BY <1>1, <1>2 DEF Transit!TypeOK, TransitHasUnit, TransitFlagsAreInOrder, Transit!Unit,
     TransitInHand, Transit!At, TransitGoes, TransitMishaps, TransitOnward
<1>4. TransitFlagsAreInOrder'
  BY <1>1, <1>2 DEF TransitFlagsAreInOrder, Transit!RollbackSteps, Transit!At, Transit!Did,
     Transit!TypeOK, TransitInHand, TransitGoes, TransitMishaps, TransitOnward
<1>5. TransitCreationIsTold'
  BY <1>1, <1>2 DEF TransitCreationIsTold, TransitCreating, Transit!CreateSteps,
     Transit!RollbackSteps, Transit!Absent, Transit!Whole, Transit!Complete,
     Transit!At, Transit!Did, Transit!TypeOK, TransitInHand, TransitGoes, TransitMishaps, TransitOnward
<1>6. TransitCleanupIsTold'
  BY <1>1, <1>2 DEF TransitCleanupIsTold, Transit!Absent, Transit!At, Transit!TypeOK,
     TransitInHand, TransitGoes, TransitMishaps, TransitOnward
<1>7. TransitOthersStay
  BY <1>1, <1>2 DEF TransitOthersStay, TransitInHand, TransitGoes, TransitMishaps, TransitOnward
<1>8. Transit!UnitsAreWhole'
  BY <1>7, TransitOthersStayWhole
<1>9. TransitCalm'
  BY <1>1, <1>2, <1>7, TransitCalmStays DEF TransitCreating, Transit!CreateSteps,
     Transit!RollbackSteps, TransitInHand, TransitGoes, TransitMishaps,
     TransitOnward
<1>10. QED
  BY <1>3, <1>4, <1>5, <1>6, <1>8, <1>9

LEMMA TransitValidateConfigKeeps ==
  ASSUME Transit!UnitsAreTold, TransitIInv, Transit!ValidateConfig
  PROVE  TransitIInv'
<1> USE DEF TransitIInv
<1>1. /\ runT.step = "validate"
      /\ UNCHANGED <<unitT, conf, enabledT, processT, faultsT>>
      /\ TransitGoes("unit", {}) \/ TransitGoes("stop", {})
  BY TransitGoGoes, TransitMishapGoes DEF Transit!ValidateConfig, Transit!disk, Transit!At,
     TransitSteps, Transit!CreateSteps, Transit!RollbackSteps,
     Transit!CleanupSteps, Transit!Outcomes, Transit!Artifact
<1>2. TransitInHand \in Transit!Unit /\ TransitInHand # None
  BY <1>1 DEF TransitHasUnit, Transit!UnitsAreTold, Transit!At
<1>3. Transit!TypeOK' /\ TransitHasUnit'
  BY <1>1, <1>2 DEF Transit!TypeOK, TransitHasUnit, TransitFlagsAreInOrder, Transit!Unit,
     TransitInHand, Transit!At, TransitGoes, TransitOnward
<1>4. TransitFlagsAreInOrder'
  BY <1>1, <1>2 DEF TransitFlagsAreInOrder, Transit!RollbackSteps, Transit!At, Transit!Did,
     Transit!TypeOK, TransitInHand, TransitGoes, TransitOnward
<1>5. TransitCreationIsTold'
  BY <1>1, <1>2 DEF TransitCreationIsTold, TransitCreating, Transit!CreateSteps,
     Transit!RollbackSteps, Transit!Absent, Transit!Whole, Transit!Complete,
     Transit!At, Transit!Did, Transit!TypeOK, TransitInHand, TransitGoes, TransitOnward
<1>6. TransitCleanupIsTold'
  BY <1>1, <1>2 DEF TransitCleanupIsTold, Transit!Absent, Transit!At, Transit!TypeOK,
     TransitInHand, TransitGoes, TransitOnward
<1>7. TransitOthersStay
  BY <1>1, <1>2 DEF TransitOthersStay, TransitInHand, TransitGoes, TransitOnward
<1>8. Transit!UnitsAreWhole'
  BY <1>7, TransitOthersStayWhole
<1>9. TransitCalm'
  BY <1>1, <1>2, <1>7, TransitCalmStays DEF TransitCreating, Transit!CreateSteps,
     Transit!RollbackSteps, TransitInHand, TransitGoes, TransitOnward
<1>10. QED
  BY <1>3, <1>4, <1>5, <1>6, <1>8, <1>9

LEMMA TransitWriteUnitKeeps ==
  ASSUME Transit!UnitsAreTold, TransitIInv, Transit!WriteUnit
  PROVE  TransitIInv'
<1> USE DEF TransitIInv
<1>1. /\ runT.step = "unit"
      /\ UNCHANGED <<conf, enabledT, processT, faultsT>>
      /\ \/ unitT' = unitT \cup {TransitInHand} /\ (TransitGoes("reload", {"ServiceWritten"}) \/ TransitMishaps("stop"))
         \/ unitT' = unitT /\ TransitGoes("stop", {})
  BY TransitGoGoes, TransitMishapGoes DEF Transit!WriteUnit, TransitInHand, Transit!At,
     TransitSteps, Transit!CreateSteps, Transit!RollbackSteps, Transit!CleanupSteps,
     Transit!Outcomes, Transit!Artifact
<1>2. TransitInHand \in Transit!Unit /\ TransitInHand # None
  BY <1>1 DEF TransitHasUnit, Transit!UnitsAreTold, Transit!At
<1>3. Transit!TypeOK' /\ TransitHasUnit'
  BY <1>1, <1>2 DEF Transit!TypeOK, TransitHasUnit, TransitFlagsAreInOrder, Transit!Unit,
     TransitInHand, Transit!At, TransitGoes, TransitMishaps, TransitOnward
<1>4. TransitFlagsAreInOrder'
  BY <1>1, <1>2 DEF TransitFlagsAreInOrder, Transit!RollbackSteps, Transit!At, Transit!Did,
     Transit!TypeOK, TransitInHand, TransitGoes, TransitMishaps, TransitOnward
<1>5. TransitCreationIsTold'
  BY <1>1, <1>2 DEF TransitCreationIsTold, TransitCreating, Transit!CreateSteps,
     Transit!RollbackSteps, Transit!Absent, Transit!Whole, Transit!Complete,
     Transit!At, Transit!Did, Transit!TypeOK, TransitInHand, TransitGoes, TransitMishaps, TransitOnward
<1>6. TransitCleanupIsTold'
  BY <1>1, <1>2 DEF TransitCleanupIsTold, Transit!Absent, Transit!At, Transit!TypeOK,
     TransitInHand, TransitGoes, TransitMishaps, TransitOnward
<1>7. TransitOthersStay
  BY <1>1, <1>2 DEF TransitOthersStay, TransitInHand, TransitGoes, TransitMishaps, TransitOnward
<1>8. Transit!UnitsAreWhole'
  BY <1>7, TransitOthersStayWhole
<1>9. TransitCalm'
  BY <1>1, <1>2, <1>7, TransitCalmStays DEF TransitCreating, Transit!CreateSteps,
     Transit!RollbackSteps, TransitInHand, TransitGoes, TransitMishaps,
     TransitOnward
<1>10. QED
  BY <1>3, <1>4, <1>5, <1>6, <1>8, <1>9

LEMMA TransitDaemonReloadKeeps ==
  ASSUME Transit!UnitsAreTold, TransitIInv, Transit!DaemonReload
  PROVE  TransitIInv'
<1> USE DEF TransitIInv
<1>1. /\ runT.step = "reload"
      /\ UNCHANGED <<unitT, conf, enabledT, processT, faultsT>>
      /\ TransitGoes("start", {}) \/ TransitGoes("stop", {})
  BY TransitGoGoes, TransitMishapGoes DEF Transit!DaemonReload, Transit!disk, Transit!At,
     TransitSteps, Transit!CreateSteps, Transit!RollbackSteps, Transit!CleanupSteps,
     Transit!Outcomes, Transit!Artifact
<1>2. TransitInHand \in Transit!Unit /\ TransitInHand # None
  BY <1>1 DEF TransitHasUnit, Transit!UnitsAreTold, Transit!At
<1>3. Transit!TypeOK' /\ TransitHasUnit'
  BY <1>1, <1>2 DEF Transit!TypeOK, TransitHasUnit, TransitFlagsAreInOrder, Transit!Unit,
     TransitInHand, Transit!At, TransitGoes, TransitOnward
<1>4. TransitFlagsAreInOrder'
  BY <1>1, <1>2 DEF TransitFlagsAreInOrder, Transit!RollbackSteps, Transit!At, Transit!Did,
     Transit!TypeOK, TransitInHand, TransitGoes, TransitOnward
<1>5. TransitCreationIsTold'
  BY <1>1, <1>2 DEF TransitCreationIsTold, TransitCreating, Transit!CreateSteps,
     Transit!RollbackSteps, Transit!Absent, Transit!Whole, Transit!Complete,
     Transit!At, Transit!Did, Transit!TypeOK, TransitInHand, TransitGoes, TransitOnward
<1>6. TransitCleanupIsTold'
  BY <1>1, <1>2 DEF TransitCleanupIsTold, Transit!Absent, Transit!At, Transit!TypeOK,
     TransitInHand, TransitGoes, TransitOnward
<1>7. TransitOthersStay
  BY <1>1, <1>2 DEF TransitOthersStay, TransitInHand, TransitGoes, TransitOnward
<1>8. Transit!UnitsAreWhole'
  BY <1>7, TransitOthersStayWhole
<1>9. TransitCalm'
  BY <1>1, <1>2, <1>7, TransitCalmStays DEF TransitCreating, Transit!CreateSteps,
     Transit!RollbackSteps, TransitInHand, TransitGoes, TransitOnward
<1>10. QED
  BY <1>3, <1>4, <1>5, <1>6, <1>8, <1>9

LEMMA TransitEnableNowKeeps ==
  ASSUME Transit!UnitsAreTold, TransitIInv, Transit!EnableNow
  PROVE  TransitIInv'
<1> USE DEF TransitIInv
<1>1. /\ runT.step = "start"
      /\ UNCHANGED <<unitT, conf, faultsT>>
      /\ processT' \in [Transit!Unit -> Transit!ProcessState] /\ \A v \in Transit!Unit \ {TransitInHand} : processT'[v] = processT[v]
      /\ \/ enabledT' = enabledT \cup {TransitInHand} /\ processT'[TransitInHand] = "starting"
            /\ TransitGoes("verify", {"ServiceEnabled", "ServiceStarted"})
         \/ enabledT' = enabledT \cup {TransitInHand} /\ TransitMishaps("stop")
         \/ enabledT' = enabledT /\ processT' = processT /\ TransitGoes("stop", {})
  <2>1. TransitInHand \in Transit!Unit
    BY DEF Transit!EnableNow, TransitHasUnit, Transit!At, TransitInHand
  <2>2. CASE Transit!Now(TransitInHand, "starting") /\ enabledT' = enabledT \cup {TransitInHand}
             /\ (Transit!Go("verify", {"ServiceEnabled", "ServiceStarted"}) \/ Transit!Mishap("stop"))
    BY <2>1, <2>2, TransitNowSets, TransitGoGoes, TransitMishapGoes DEF Transit!EnableNow,
       Transit!ProcessState, TransitInHand, Transit!At, TransitSteps,
       Transit!CreateSteps, Transit!RollbackSteps, Transit!Artifact
  <2>3. CASE UNCHANGED processT /\ ((enabledT' = enabledT /\ Transit!Go("stop", {}))
                                   \/ (enabledT' = enabledT \cup {TransitInHand} /\ Transit!Mishap("stop")))
    <3>1. runT.step = "start" /\ UNCHANGED <<unitT, conf, faultsT>>
      BY DEF Transit!EnableNow, Transit!At
    <3>2. QED
      BY <2>1, <2>3, <3>1, TransitGoGoes, TransitMishapGoes DEF Transit!TypeOK, TransitInHand,
         TransitSteps, Transit!RollbackSteps
  <2>4. QED
    BY <2>2, <2>3 DEF Transit!EnableNow, TransitInHand
<1>2. TransitInHand \in Transit!Unit /\ TransitInHand # None
  BY <1>1 DEF TransitHasUnit, Transit!UnitsAreTold, Transit!At
<1>3. Transit!TypeOK' /\ TransitHasUnit'
  BY <1>1, <1>2 DEF Transit!TypeOK, TransitHasUnit, TransitFlagsAreInOrder, Transit!Unit,
     TransitInHand, Transit!At, TransitGoes, TransitMishaps, TransitOnward
<1>4. TransitFlagsAreInOrder'
  BY <1>1, <1>2 DEF TransitFlagsAreInOrder, Transit!RollbackSteps, Transit!At, Transit!Did,
     Transit!TypeOK, TransitInHand, TransitGoes, TransitMishaps, TransitOnward
<1>5. TransitCreationIsTold'
  BY <1>1, <1>2 DEF TransitCreationIsTold, TransitCreating, Transit!CreateSteps,
     Transit!RollbackSteps, Transit!Absent, Transit!Whole, Transit!Complete,
     Transit!At, Transit!Did, Transit!TypeOK, TransitInHand, TransitGoes, TransitMishaps, TransitOnward
<1>6. TransitCleanupIsTold'
  BY <1>1, <1>2 DEF TransitCleanupIsTold, Transit!Absent, Transit!At, Transit!TypeOK,
     TransitInHand, TransitGoes, TransitMishaps, TransitOnward
<1>7. TransitOthersStay
  BY <1>1, <1>2 DEF TransitOthersStay, TransitInHand, TransitGoes, TransitMishaps, TransitOnward
<1>8. Transit!UnitsAreWhole'
  BY <1>7, TransitOthersStayWhole
<1>9. TransitCalm'
  <2>1. CASE processT' = processT /\ TransitGoes("stop", {})
    BY <1>1, <1>2, <1>7, <2>1, TransitCalmStays DEF TransitCreating, Transit!CreateSteps,
       Transit!RollbackSteps, TransitInHand, TransitGoes,
       TransitOnward
  <2>2. CASE processT'[TransitInHand] = "starting" /\ TransitGoes("verify", {"ServiceEnabled", "ServiceStarted"})
    <3>1. /\ \A v \in Transit!Unit : v # TransitInHand => processT'[v] = processT[v]
          /\ runT'.unit = TransitInHand /\ runT'.step = "verify" /\ upset' = upset /\ faultsT' = faultsT
      BY <1>1, <2>2 DEF TransitGoes, TransitOnward, TransitInHand
    <3>2. QED
      BY <1>1, <1>2, <2>2, <3>1 DEF TransitCalm, TransitCreating, Transit!CreateSteps,
         TransitRivals, TransitInHand
  <2>3. CASE TransitMishaps("stop")
    BY <2>3 DEF TransitMishaps, TransitCalm
  <2>4. QED
    BY <1>1, <2>1, <2>2, <2>3
<1>10. QED
  BY <1>3, <1>4, <1>5, <1>6, <1>8, <1>9

LEMMA TransitVerifyKeeps ==
  ASSUME Transit!UnitsAreTold, TransitIInv, Transit!Verify
  PROVE  TransitIInv'
<1> USE DEF TransitIInv
<1>1. /\ runT.step = "verify"
      /\ UNCHANGED <<unitT, conf, enabledT, processT, faultsT>>
      /\ (TransitGoes("created", {}) /\ Transit!Verified) \/ TransitGoes("stop", {})
  BY TransitGoGoes, TransitMishapGoes DEF Transit!Verify, Transit!disk, Transit!At, TransitSteps,
     Transit!CreateSteps, Transit!RollbackSteps, Transit!CleanupSteps,
     Transit!Outcomes, Transit!Artifact
<1>2. TransitInHand \in Transit!Unit /\ TransitInHand # None
  BY <1>1 DEF TransitHasUnit, Transit!UnitsAreTold, Transit!At
<1>3. Transit!TypeOK' /\ TransitHasUnit'
  BY <1>1, <1>2 DEF Transit!TypeOK, TransitHasUnit, TransitFlagsAreInOrder, Transit!Unit,
     TransitInHand, Transit!At, TransitGoes, TransitOnward
<1>4. TransitFlagsAreInOrder'
  BY <1>1, <1>2 DEF TransitFlagsAreInOrder, Transit!RollbackSteps, Transit!At, Transit!Did,
     Transit!TypeOK, TransitInHand, TransitGoes, TransitOnward
<1>5. TransitCreationIsTold'
  <2>1. runT.did = (IF TransitInHand \in Haproxy THEN {"ConfigWritten"} ELSE {})
                    \cup {"ServiceWritten", "ServiceEnabled", "ServiceStarted"}
    BY <1>1 DEF TransitFlagsAreInOrder, Transit!At
  <2>2. TransitInHand \notin upset => TransitInHand \in enabledT /\ TransitInHand \in unitT /\ processT[TransitInHand] # "stopped"
                                    /\ (TransitInHand \in Haproxy => TransitInHand \in conf)
    BY <1>1, <2>1 DEF TransitCreationIsTold, TransitCreating, Transit!CreateSteps,
       Transit!RollbackSteps, Transit!Did
  <2>3. QED
    BY <1>1, <1>2, <2>1, <2>2 DEF TransitCreationIsTold, TransitCreating, Transit!CreateSteps,
       Transit!RollbackSteps, Transit!Whole,
       Transit!Complete, Transit!At, Transit!Did, TransitInHand, TransitGoes, TransitOnward
<1>6. TransitCleanupIsTold'
  BY <1>1, <1>2 DEF TransitCleanupIsTold, Transit!Absent, Transit!At, Transit!TypeOK,
     TransitInHand, TransitGoes, TransitOnward
<1>7. TransitOthersStay
  BY <1>1, <1>2 DEF TransitOthersStay, TransitInHand, TransitGoes, TransitOnward
<1>8. Transit!UnitsAreWhole'
  BY <1>7, TransitOthersStayWhole
<1>9. TransitCalm'
  <2>1. CASE TransitGoes("stop", {})
    BY <1>1, <1>2, <1>7, <2>1, TransitCalmStays DEF TransitCreating, Transit!CreateSteps,
       Transit!RollbackSteps, TransitInHand, TransitGoes,
       TransitOnward
  <2>2. CASE TransitGoes("created", {}) /\ Transit!Verified
    <3>1. faultsT = 0 /\ upset = {} => processT[TransitInHand] = "bound"
      BY <1>1, <1>2, <2>2 DEF TransitCalm, Transit!Verified, Transit!Listening, TransitRivals,
         TransitCreating, Transit!CreateSteps, TransitInHand
    <3>2. QED
      BY <1>1, <1>2, <1>7, <2>2, <3>1, TransitVerifiedIsCalm DEF TransitCreating,
         Transit!CreateSteps, Transit!RollbackSteps,
         TransitInHand, TransitGoes, TransitOnward
  <2>3. QED
    BY <1>1, <2>1, <2>2
<1>10. QED
  BY <1>3, <1>4, <1>5, <1>6, <1>8, <1>9

-----------------------------------------------------------------------------
(***************************************************************************)
(* Rollback.                                                               *)
(***************************************************************************)

LEMMA TransitStopServiceKeeps ==
  ASSUME Transit!UnitsAreTold, TransitIInv, Transit!StopService
  PROVE  TransitIInv'
<1> USE DEF TransitIInv
<1>1. /\ runT.step = "stop"
      /\ UNCHANGED <<unitT, conf, enabledT, faultsT>>
      /\ processT' \in [Transit!Unit -> Transit!ProcessState] /\ \A v \in Transit!Unit \ {TransitInHand} : processT'[v] = processT[v]
      /\ \/ processT'[TransitInHand] = "stopped" /\ TransitGoes("disable", {}) /\ Transit!Did("ServiceStarted")
         \/ processT' = processT /\ TransitMishaps("disable")
         \/ processT' = processT /\ TransitGoes("disable", {}) /\ ~Transit!Did("ServiceStarted")
  <2>1. TransitInHand \in Transit!Unit
    BY DEF Transit!StopService, TransitHasUnit, Transit!At, TransitInHand
  <2>2. CASE Transit!Now(TransitInHand, "stopped")
    BY <2>1, <2>2, TransitNowSets, TransitGoGoes, TransitMishapGoes DEF Transit!StopService,
       Transit!Stop, Transit!ProcessState, Transit!TypeOK, TransitInHand,
       Transit!disk, Transit!At, TransitSteps, Transit!RollbackSteps
  <2>3. CASE UNCHANGED processT /\ (Transit!Mishap("disable") \/ (Transit!Go("disable", {}) /\ ~Transit!Did("ServiceStarted")))
    BY <2>1, <2>3, TransitGoGoes, TransitMishapGoes DEF Transit!StopService, Transit!Stop,
       Transit!TypeOK, TransitInHand, Transit!disk, Transit!At, TransitSteps,
       Transit!RollbackSteps, Transit!Artifact
  <2>4. QED
    BY <2>2, <2>3 DEF Transit!StopService, Transit!Stop, TransitInHand
<1>2. TransitInHand \in Transit!Unit /\ TransitInHand # None
  BY <1>1 DEF TransitHasUnit, Transit!UnitsAreTold, Transit!At
<1>3. Transit!TypeOK' /\ TransitHasUnit'
  BY <1>1, <1>2 DEF Transit!TypeOK, TransitHasUnit, TransitFlagsAreInOrder, Transit!Unit,
     TransitInHand, Transit!At, TransitGoes, TransitMishaps, TransitOnward
<1>4. TransitFlagsAreInOrder'
  BY <1>1, <1>2 DEF TransitFlagsAreInOrder, Transit!RollbackSteps, Transit!At, Transit!Did,
     Transit!TypeOK, TransitInHand, TransitGoes, TransitMishaps, TransitOnward
<1>5. TransitCreationIsTold'
  BY <1>1, <1>2 DEF TransitCreationIsTold, TransitCreating, Transit!CreateSteps,
     Transit!RollbackSteps, Transit!Absent, Transit!Whole, Transit!Complete,
     Transit!At, Transit!Did, Transit!TypeOK, TransitInHand, TransitGoes, TransitMishaps, TransitOnward
<1>6. TransitCleanupIsTold'
  BY <1>1, <1>2 DEF TransitCleanupIsTold, Transit!Absent, Transit!At, Transit!TypeOK,
     TransitInHand, TransitGoes, TransitMishaps, TransitOnward
<1>7. TransitOthersStay
  BY <1>1, <1>2 DEF TransitOthersStay, TransitInHand, TransitGoes, TransitMishaps, TransitOnward
<1>8. Transit!UnitsAreWhole'
  BY <1>7, TransitOthersStayWhole
<1>9. TransitCalm'
  BY <1>1, <1>2, <1>7, TransitCalmStays DEF TransitCreating, Transit!CreateSteps,
     Transit!RollbackSteps, TransitInHand, TransitGoes, TransitMishaps,
     TransitOnward
<1>10. QED
  BY <1>3, <1>4, <1>5, <1>6, <1>8, <1>9

LEMMA TransitDisableServiceKeeps ==
  ASSUME Transit!UnitsAreTold, TransitIInv, Transit!DisableService
  PROVE  TransitIInv'
<1> USE DEF TransitIInv
<1>1. /\ runT.step = "disable"
      /\ UNCHANGED <<unitT, conf, processT, faultsT>>
      /\ \/ enabledT' = enabledT \ {TransitInHand} /\ TransitGoes("drop_unit", {})
         \/ enabledT' = enabledT /\ TransitMishaps("drop_unit")
         \/ enabledT' = enabledT /\ TransitGoes("drop_unit", {}) /\ ~Transit!Did("ServiceEnabled")
  BY TransitGoGoes, TransitMishapGoes DEF Transit!DisableService, TransitInHand, Transit!At,
     TransitSteps, Transit!CreateSteps, Transit!RollbackSteps,
     Transit!CleanupSteps, Transit!Outcomes, Transit!Artifact
<1>2. TransitInHand \in Transit!Unit /\ TransitInHand # None
  BY <1>1 DEF TransitHasUnit, Transit!UnitsAreTold, Transit!At
<1>3. Transit!TypeOK' /\ TransitHasUnit'
  BY <1>1, <1>2 DEF Transit!TypeOK, TransitHasUnit, TransitFlagsAreInOrder, Transit!Unit,
     TransitInHand, Transit!At, TransitGoes, TransitMishaps, TransitOnward
<1>4. TransitFlagsAreInOrder'
  BY <1>1, <1>2 DEF TransitFlagsAreInOrder, Transit!RollbackSteps, Transit!At, Transit!Did,
     Transit!TypeOK, TransitInHand, TransitGoes, TransitMishaps, TransitOnward
<1>5. TransitCreationIsTold'
  BY <1>1, <1>2 DEF TransitCreationIsTold, TransitCreating, Transit!CreateSteps,
     Transit!RollbackSteps, Transit!Absent, Transit!Whole, Transit!Complete,
     Transit!At, Transit!Did, Transit!TypeOK, TransitInHand, TransitGoes, TransitMishaps, TransitOnward
<1>6. TransitCleanupIsTold'
  BY <1>1, <1>2 DEF TransitCleanupIsTold, Transit!Absent, Transit!At, Transit!TypeOK,
     TransitInHand, TransitGoes, TransitMishaps, TransitOnward
<1>7. TransitOthersStay
  BY <1>1, <1>2 DEF TransitOthersStay, TransitInHand, TransitGoes, TransitMishaps, TransitOnward
<1>8. Transit!UnitsAreWhole'
  BY <1>7, TransitOthersStayWhole
<1>9. TransitCalm'
  BY <1>1, <1>2, <1>7, TransitCalmStays DEF TransitCreating, Transit!CreateSteps,
     Transit!RollbackSteps, TransitInHand, TransitGoes, TransitMishaps,
     TransitOnward
<1>10. QED
  BY <1>3, <1>4, <1>5, <1>6, <1>8, <1>9

LEMMA TransitDropUnitKeeps ==
  ASSUME Transit!UnitsAreTold, TransitIInv, Transit!DropUnit
  PROVE  TransitIInv'
<1> USE DEF TransitIInv
<1>1. /\ runT.step = "drop_unit"
      /\ UNCHANGED <<conf, enabledT, processT, faultsT>>
      /\ \/ unitT' = unitT \ {TransitInHand} /\ TransitGoes("drop_config", {})
         \/ unitT' = unitT /\ TransitMishaps("drop_config")
         \/ unitT' = unitT /\ TransitGoes("drop_config", {}) /\ ~Transit!Did("ServiceWritten")
  BY TransitGoGoes, TransitMishapGoes DEF Transit!DropUnit, TransitInHand, Transit!At,
     TransitSteps, Transit!CreateSteps, Transit!RollbackSteps, Transit!CleanupSteps,
     Transit!Outcomes, Transit!Artifact
<1>2. TransitInHand \in Transit!Unit /\ TransitInHand # None
  BY <1>1 DEF TransitHasUnit, Transit!UnitsAreTold, Transit!At
<1>3. Transit!TypeOK' /\ TransitHasUnit'
  BY <1>1, <1>2 DEF Transit!TypeOK, TransitHasUnit, TransitFlagsAreInOrder, Transit!Unit,
     TransitInHand, Transit!At, TransitGoes, TransitMishaps, TransitOnward
<1>4. TransitFlagsAreInOrder'
  BY <1>1, <1>2 DEF TransitFlagsAreInOrder, Transit!RollbackSteps, Transit!At, Transit!Did,
     Transit!TypeOK, TransitInHand, TransitGoes, TransitMishaps, TransitOnward
<1>5. TransitCreationIsTold'
  BY <1>1, <1>2 DEF TransitCreationIsTold, TransitCreating, Transit!CreateSteps,
     Transit!RollbackSteps, Transit!Absent, Transit!Whole, Transit!Complete,
     Transit!At, Transit!Did, Transit!TypeOK, TransitInHand, TransitGoes, TransitMishaps, TransitOnward
<1>6. TransitCleanupIsTold'
  BY <1>1, <1>2 DEF TransitCleanupIsTold, Transit!Absent, Transit!At, Transit!TypeOK,
     TransitInHand, TransitGoes, TransitMishaps, TransitOnward
<1>7. TransitOthersStay
  BY <1>1, <1>2 DEF TransitOthersStay, TransitInHand, TransitGoes, TransitMishaps, TransitOnward
<1>8. Transit!UnitsAreWhole'
  BY <1>7, TransitOthersStayWhole
<1>9. TransitCalm'
  BY <1>1, <1>2, <1>7, TransitCalmStays DEF TransitCreating, Transit!CreateSteps,
     Transit!RollbackSteps, TransitInHand, TransitGoes, TransitMishaps,
     TransitOnward
<1>10. QED
  BY <1>3, <1>4, <1>5, <1>6, <1>8, <1>9

LEMMA TransitDropConfigKeeps ==
  ASSUME Transit!UnitsAreTold, TransitIInv, Transit!DropConfig
  PROVE  TransitIInv'
<1> USE DEF TransitIInv
<1>1. /\ runT.step = "drop_config"
      /\ UNCHANGED <<unitT, enabledT, processT, faultsT>>
      /\ \/ conf' = conf \ {TransitInHand} /\ TransitGoes("create_failed", {})
         \/ conf' = conf /\ TransitMishaps("create_failed")
         \/ conf' = conf /\ TransitGoes("create_failed", {}) /\ ~Transit!Did("ConfigWritten")
  BY TransitGoGoes, TransitMishapGoes DEF Transit!DropConfig, TransitInHand, Transit!At,
     TransitSteps, Transit!CreateSteps, Transit!RollbackSteps, Transit!CleanupSteps,
     Transit!Outcomes, Transit!Artifact
<1>2. TransitInHand \in Transit!Unit /\ TransitInHand # None
  BY <1>1 DEF TransitHasUnit, Transit!UnitsAreTold, Transit!At
<1>3. Transit!TypeOK' /\ TransitHasUnit'
  BY <1>1, <1>2 DEF Transit!TypeOK, TransitHasUnit, TransitFlagsAreInOrder, Transit!Unit,
     TransitInHand, Transit!At, TransitGoes, TransitMishaps, TransitOnward
<1>4. TransitFlagsAreInOrder'
  BY <1>1, <1>2 DEF TransitFlagsAreInOrder, Transit!RollbackSteps, Transit!At, Transit!Did,
     Transit!TypeOK, TransitInHand, TransitGoes, TransitMishaps, TransitOnward
<1>5. TransitCreationIsTold'
  BY <1>1, <1>2 DEF TransitCreationIsTold, TransitCreating, Transit!CreateSteps,
     Transit!RollbackSteps, Transit!Absent, Transit!Whole, Transit!Complete,
     Transit!At, Transit!Did, Transit!TypeOK, TransitInHand, TransitGoes, TransitMishaps, TransitOnward
<1>6. TransitCleanupIsTold'
  BY <1>1, <1>2 DEF TransitCleanupIsTold, Transit!Absent, Transit!At, Transit!TypeOK,
     TransitInHand, TransitGoes, TransitMishaps, TransitOnward
<1>7. TransitOthersStay
  BY <1>1, <1>2 DEF TransitOthersStay, TransitInHand, TransitGoes, TransitMishaps, TransitOnward
<1>8. Transit!UnitsAreWhole'
  BY <1>7, TransitOthersStayWhole
<1>9. TransitCalm'
  <2>1. upset = {} => processT[TransitInHand] = "stopped"
    BY <1>1, <1>2 DEF TransitCreationIsTold, TransitCreating, Transit!RollbackSteps
  <2>2. QED
    BY <1>1, <1>2, <1>7, <2>1, TransitCalmStays DEF TransitCreating, Transit!CreateSteps,
       Transit!RollbackSteps, TransitInHand, TransitGoes,
       TransitMishaps, TransitOnward
<1>10. QED
  BY <1>3, <1>4, <1>5, <1>6, <1>8, <1>9

-----------------------------------------------------------------------------
(***************************************************************************)
(* Cleanup.                                                                *)
(***************************************************************************)

LEMMA TransitDisableNowKeeps ==
  ASSUME Transit!UnitsAreTold, TransitIInv, Transit!DisableNow
  PROVE  TransitIInv'
<1> USE DEF TransitIInv
<1>1. /\ runT.step = "disable_now"
      /\ UNCHANGED <<unitT, conf, faultsT>>
      /\ processT' \in [Transit!Unit -> Transit!ProcessState] /\ \A v \in Transit!Unit \ {TransitInHand} : processT'[v] = processT[v]
      /\ processT'[TransitInHand] \in {processT[TransitInHand], "stopped"}
      /\ \/ enabledT' = enabledT \ {TransitInHand} /\ processT'[TransitInHand] = "stopped" /\ TransitGoes("remove_unit", {})
         \/ enabledT' \in {enabledT, enabledT \ {TransitInHand}} /\ TransitMishaps("cleanup_failed")
  <2>1. TransitInHand \in Transit!Unit
    BY DEF Transit!DisableNow, TransitHasUnit, Transit!At, TransitInHand
  <2>2. CASE Transit!Now(TransitInHand, "stopped")
    BY <2>1, <2>2, TransitNowSets, TransitGoGoes, TransitMishapGoes DEF Transit!DisableNow,
       Transit!ProcessState, Transit!TypeOK, TransitInHand, Transit!At,
       TransitSteps, Transit!CleanupSteps, Transit!Outcomes
  <2>3. CASE UNCHANGED processT
    BY <2>1, <2>3, TransitGoGoes, TransitMishapGoes DEF Transit!DisableNow, Transit!Now,
       Transit!TypeOK, TransitInHand, Transit!At, TransitSteps, Transit!CleanupSteps,
       Transit!Outcomes
  <2>4. QED
    BY <2>2, <2>3 DEF Transit!DisableNow, Transit!Now, TransitInHand
<1>2. TransitInHand \in Transit!Unit /\ TransitInHand # None
  BY <1>1 DEF TransitHasUnit, Transit!UnitsAreTold, Transit!At
<1>3. Transit!TypeOK' /\ TransitHasUnit'
  BY <1>1, <1>2 DEF Transit!TypeOK, TransitHasUnit, TransitFlagsAreInOrder, Transit!Unit,
     TransitInHand, Transit!At, TransitGoes, TransitMishaps, TransitOnward
<1>4. TransitFlagsAreInOrder'
  BY <1>1, <1>2 DEF TransitFlagsAreInOrder, Transit!RollbackSteps, Transit!At, Transit!Did,
     Transit!TypeOK, TransitInHand, TransitGoes, TransitMishaps, TransitOnward
<1>5. TransitCreationIsTold'
  BY <1>1, <1>2 DEF TransitCreationIsTold, TransitCreating, Transit!CreateSteps,
     Transit!RollbackSteps, Transit!Absent, Transit!Whole, Transit!Complete,
     Transit!At, Transit!Did, Transit!TypeOK, TransitInHand, TransitGoes, TransitMishaps, TransitOnward
<1>6. TransitCleanupIsTold'
  BY <1>1, <1>2 DEF TransitCleanupIsTold, Transit!Absent, Transit!At, Transit!TypeOK,
     TransitInHand, TransitGoes, TransitMishaps, TransitOnward
<1>7. TransitOthersStay
  BY <1>1, <1>2 DEF TransitOthersStay, TransitInHand, TransitGoes, TransitMishaps, TransitOnward
<1>8. Transit!UnitsAreWhole'
  BY <1>7, TransitOthersStayWhole
<1>9. TransitCalm'
  BY <1>1, <1>2, <1>7, TransitCalmStays DEF TransitCreating, Transit!CreateSteps,
     Transit!RollbackSteps, TransitInHand, TransitGoes, TransitMishaps,
     TransitOnward
<1>10. QED
  BY <1>3, <1>4, <1>5, <1>6, <1>8, <1>9

LEMMA TransitRemoveUnitKeeps ==
  ASSUME Transit!UnitsAreTold, TransitIInv, Transit!RemoveUnit
  PROVE  TransitIInv'
<1> USE DEF TransitIInv
<1>1. /\ runT.step = "remove_unit"
      /\ UNCHANGED <<conf, enabledT, processT, faultsT>>
      /\ \/ unitT' = unitT \ {TransitInHand} /\ (IF TransitInHand \in Haproxy THEN TransitGoes("remove_config", {}) ELSE TransitGoes("check", {}))
         \/ unitT' = unitT /\ TransitMishaps("cleanup_failed")
  BY TransitGoGoes, TransitMishapGoes DEF Transit!RemoveUnit, TransitInHand, Transit!At,
     TransitSteps, Transit!CreateSteps, Transit!RollbackSteps, Transit!CleanupSteps,
     Transit!Outcomes, Transit!Artifact
<1>2. TransitInHand \in Transit!Unit /\ TransitInHand # None
  BY <1>1 DEF TransitHasUnit, Transit!UnitsAreTold, Transit!At
<1>3. Transit!TypeOK' /\ TransitHasUnit'
  BY <1>1, <1>2 DEF Transit!TypeOK, TransitHasUnit, TransitFlagsAreInOrder, Transit!Unit,
     TransitInHand, Transit!At, TransitGoes, TransitMishaps, TransitOnward
<1>4. TransitFlagsAreInOrder'
  BY <1>1, <1>2 DEF TransitFlagsAreInOrder, Transit!RollbackSteps, Transit!At, Transit!Did,
     Transit!TypeOK, TransitInHand, TransitGoes, TransitMishaps, TransitOnward
<1>5. TransitCreationIsTold'
  BY <1>1, <1>2 DEF TransitCreationIsTold, TransitCreating, Transit!CreateSteps,
     Transit!RollbackSteps, Transit!Absent, Transit!Whole, Transit!Complete,
     Transit!At, Transit!Did, Transit!TypeOK, TransitInHand, TransitGoes, TransitMishaps, TransitOnward
<1>6. TransitCleanupIsTold'
  BY <1>1, <1>2 DEF TransitCleanupIsTold, Transit!Absent, Transit!At, Transit!TypeOK,
     TransitInHand, TransitGoes, TransitMishaps, TransitOnward
<1>7. TransitOthersStay
  BY <1>1, <1>2 DEF TransitOthersStay, TransitInHand, TransitGoes, TransitMishaps, TransitOnward
<1>8. Transit!UnitsAreWhole'
  BY <1>7, TransitOthersStayWhole
<1>9. TransitCalm'
  <2>1. processT[TransitInHand] = "stopped"
    BY <1>1 DEF TransitCleanupIsTold
  <2>2. QED
    BY <1>1, <1>2, <1>7, <2>1, TransitCalmStays DEF TransitCreating, Transit!CreateSteps,
       Transit!RollbackSteps, TransitInHand, TransitGoes,
       TransitMishaps, TransitOnward
<1>10. QED
  BY <1>3, <1>4, <1>5, <1>6, <1>8, <1>9

LEMMA TransitRemoveConfigKeeps ==
  ASSUME Transit!UnitsAreTold, TransitIInv, Transit!RemoveConfig
  PROVE  TransitIInv'
<1> USE DEF TransitIInv
<1>1. /\ runT.step = "remove_config"
      /\ UNCHANGED <<unitT, enabledT, processT, faultsT>>
      /\ \/ conf' = conf \ {TransitInHand} /\ TransitGoes("check", {})
         \/ conf' = conf /\ TransitMishaps("cleanup_failed")
  BY TransitGoGoes, TransitMishapGoes DEF Transit!RemoveConfig, TransitInHand, Transit!At,
     TransitSteps, Transit!CreateSteps, Transit!RollbackSteps,
     Transit!CleanupSteps, Transit!Outcomes, Transit!Artifact
<1>2. TransitInHand \in Transit!Unit /\ TransitInHand # None
  BY <1>1 DEF TransitHasUnit, Transit!UnitsAreTold, Transit!At
<1>3. Transit!TypeOK' /\ TransitHasUnit'
  BY <1>1, <1>2 DEF Transit!TypeOK, TransitHasUnit, TransitFlagsAreInOrder, Transit!Unit,
     TransitInHand, Transit!At, TransitGoes, TransitMishaps, TransitOnward
<1>4. TransitFlagsAreInOrder'
  BY <1>1, <1>2 DEF TransitFlagsAreInOrder, Transit!RollbackSteps, Transit!At, Transit!Did,
     Transit!TypeOK, TransitInHand, TransitGoes, TransitMishaps, TransitOnward
<1>5. TransitCreationIsTold'
  BY <1>1, <1>2 DEF TransitCreationIsTold, TransitCreating, Transit!CreateSteps,
     Transit!RollbackSteps, Transit!Absent, Transit!Whole, Transit!Complete,
     Transit!At, Transit!Did, Transit!TypeOK, TransitInHand, TransitGoes, TransitMishaps, TransitOnward
<1>6. TransitCleanupIsTold'
  BY <1>1, <1>2 DEF TransitCleanupIsTold, Transit!Absent, Transit!At, Transit!TypeOK,
     TransitInHand, TransitGoes, TransitMishaps, TransitOnward
<1>7. TransitOthersStay
  BY <1>1, <1>2 DEF TransitOthersStay, TransitInHand, TransitGoes, TransitMishaps, TransitOnward
<1>8. Transit!UnitsAreWhole'
  BY <1>7, TransitOthersStayWhole
<1>9. TransitCalm'
  <2>1. processT[TransitInHand] = "stopped"
    BY <1>1 DEF TransitCleanupIsTold
  <2>2. QED
    BY <1>1, <1>2, <1>7, <2>1, TransitCalmStays DEF TransitCreating, Transit!CreateSteps,
       Transit!RollbackSteps, TransitInHand, TransitGoes,
       TransitMishaps, TransitOnward
<1>10. QED
  BY <1>3, <1>4, <1>5, <1>6, <1>8, <1>9

LEMMA TransitCheckPortKeeps ==
  ASSUME Transit!UnitsAreTold, TransitIInv, Transit!CheckPort
  PROVE  TransitIInv'
<1> USE DEF TransitIInv
<1>1. /\ runT.step = "check"
      /\ UNCHANGED <<unitT, conf, enabledT, processT, faultsT>>
      /\ TransitGoes("cleaned", {}) \/ TransitGoes("cleanup_failed", {})
  BY TransitGoGoes, TransitMishapGoes DEF Transit!CheckPort, Transit!disk, Transit!At,
     TransitSteps, Transit!CreateSteps, Transit!RollbackSteps, Transit!CleanupSteps,
     Transit!Outcomes, Transit!Artifact
<1>2. TransitInHand \in Transit!Unit /\ TransitInHand # None
  BY <1>1 DEF TransitHasUnit, Transit!UnitsAreTold, Transit!At
<1>3. Transit!TypeOK' /\ TransitHasUnit'
  BY <1>1, <1>2 DEF Transit!TypeOK, TransitHasUnit, TransitFlagsAreInOrder, Transit!Unit,
     TransitInHand, Transit!At, TransitGoes, TransitOnward
<1>4. TransitFlagsAreInOrder'
  BY <1>1, <1>2 DEF TransitFlagsAreInOrder, Transit!RollbackSteps, Transit!At, Transit!Did,
     Transit!TypeOK, TransitInHand, TransitGoes, TransitOnward
<1>5. TransitCreationIsTold'
  BY <1>1, <1>2 DEF TransitCreationIsTold, TransitCreating, Transit!CreateSteps,
     Transit!RollbackSteps, Transit!Absent, Transit!Whole, Transit!Complete,
     Transit!At, Transit!Did, Transit!TypeOK, TransitInHand, TransitGoes, TransitOnward
<1>6. TransitCleanupIsTold'
  BY <1>1, <1>2 DEF TransitCleanupIsTold, Transit!Absent, Transit!At, Transit!TypeOK,
     TransitInHand, TransitGoes, TransitOnward
<1>7. TransitOthersStay
  BY <1>1, <1>2 DEF TransitOthersStay, TransitInHand, TransitGoes, TransitOnward
<1>8. Transit!UnitsAreWhole'
  BY <1>7, TransitOthersStayWhole
<1>9. TransitCalm'
  <2>1. processT[TransitInHand] = "stopped"
    BY <1>1 DEF TransitCleanupIsTold
  <2>2. QED
    BY <1>1, <1>2, <1>7, <2>1, TransitCalmStays DEF TransitCreating, Transit!CreateSteps,
       Transit!RollbackSteps, TransitInHand, TransitGoes,
       TransitOnward
<1>10. QED
  BY <1>3, <1>4, <1>5, <1>6, <1>8, <1>9

-----------------------------------------------------------------------------
(***************************************************************************)
(* Commands begin and end.                                                 *)
(***************************************************************************)

LEMMA TransitIdleIsNobody ==
  Transit!UnitsAreTold => Transit!Idle \in Transit!Run /\ Transit!Idle.step = "idle" /\ Transit!Idle.unit = None
BY DEF Transit!Idle, Transit!Run

\* A worker with nothing in its hands has nothing to tell.
LEMMA TransitIdleTells ==
  ASSUME Transit!UnitsAreTold, runT' = Transit!Idle
  PROVE  TransitHasUnit' /\ TransitFlagsAreInOrder' /\ TransitCreationIsTold' /\ TransitCleanupIsTold'
<1>1. runT'.step = "idle" /\ runT'.unit = None
  BY TransitIdleIsNobody
<1>2. QED
  BY <1>1 DEF TransitHasUnit, TransitFlagsAreInOrder, TransitCreationIsTold, TransitCleanupIsTold,
     TransitCreating, Transit!CreateSteps,
     Transit!RollbackSteps, TransitInHand, Transit!At

LEMMA TransitInitIInv == Transit!UnitsAreTold /\ Transit!Init => TransitIInv
<1> SUFFICES ASSUME Transit!UnitsAreTold, Transit!Init PROVE TransitIInv
  OBVIOUS
<1>1. runT.step = "idle" /\ runT.unit = None /\ runT \in Transit!Run
  BY TransitIdleIsNobody DEF Transit!Init
<1>2. faultsT \in 0 .. MaxFaults
  BY DEF Transit!Init, Transit!UnitsAreTold
<1>3. Transit!TypeOK
  BY <1>1, <1>2 DEF Transit!Init, Transit!TypeOK, Transit!ProcessState
<1>4. TransitHasUnit /\ TransitFlagsAreInOrder /\ TransitCreationIsTold /\ TransitCleanupIsTold
  BY <1>1 DEF TransitHasUnit, TransitFlagsAreInOrder, TransitCreationIsTold, TransitCleanupIsTold,
     TransitCreating, Transit!CreateSteps,
     Transit!RollbackSteps, TransitInHand, Transit!At
<1>5. Transit!UnitsAreWhole
  BY DEF Transit!Init, Transit!UnitsAreWhole, Transit!Absent
<1>6. TransitCalm
  BY <1>1 DEF Transit!Init, TransitCalm, TransitCreating, Transit!CreateSteps, Transit!RollbackSteps
<1>7. QED
  BY <1>3, <1>4, <1>5, <1>6 DEF TransitIInv

LEMMA TransitBeginCreateKeeps ==
  ASSUME Transit!UnitsAreTold, TransitIInv, NEW u \in Transit!Unit, Transit!BeginCreate(u)
  PROVE  TransitIInv'
<1> USE DEF TransitIInv
<1>1. /\ runT.step = "idle" /\ runT.unit = None /\ u # None
      /\ runT' \in Transit!Run /\ runT'.unit = u /\ runT'.did = {}
      /\ runT'.step = IF u \in Haproxy THEN "config" ELSE "unit"
      /\ UNCHANGED <<unitT, conf, enabledT, processT, upset, faultsT>>
  BY DEF Transit!BeginCreate, Transit!Idle, Transit!Run, Transit!CreateSteps, TransitHasUnit,
     Transit!UnitsAreTold, TransitInHand, Transit!disk, Transit!At
<1>2. u \notin upset => Transit!Absent(u)
  BY <1>1 DEF Transit!UnitsAreWhole, Transit!BeginCreate, Transit!MayCreate, Transit!Whole,
     Transit!Complete
<1>3. Transit!TypeOK' /\ TransitHasUnit' /\ TransitFlagsAreInOrder' /\ TransitCleanupIsTold'
  BY <1>1 DEF Transit!TypeOK, TransitHasUnit, TransitFlagsAreInOrder, TransitCleanupIsTold,
     Transit!RollbackSteps, TransitInHand, Transit!At
<1>4. TransitCreationIsTold'
  BY <1>1, <1>2 DEF TransitCreationIsTold, Transit!Absent, TransitCreating, Transit!CreateSteps,
     Transit!RollbackSteps, TransitInHand, Transit!At, Transit!Did
<1>5. Transit!UnitsAreWhole'
  BY <1>1 DEF Transit!UnitsAreWhole, Transit!Absent, Transit!Whole, Transit!Complete,
     Transit!UnitsAreTold
<1>6. TransitCalm'
  BY <1>1 DEF TransitCalm, Transit!BeginCreate, Transit!MayCreate, Transit!Listening,
     TransitRivals, TransitCreating, Transit!CreateSteps, Transit!RollbackSteps,
     TransitInHand
<1>7. QED
  BY <1>3, <1>4, <1>5, <1>6

LEMMA TransitBeginCleanupKeeps ==
  ASSUME Transit!UnitsAreTold, TransitIInv, NEW u \in Transit!Unit, Transit!BeginCleanup(u)
  PROVE  TransitIInv'
<1> USE DEF TransitIInv
<1>1. /\ runT.step = "idle" /\ runT.unit = None /\ u # None
      /\ runT' \in Transit!Run /\ runT'.unit = u /\ runT'.step = "disable_now"
      /\ UNCHANGED <<unitT, conf, enabledT, processT, upset, faultsT>>
  BY DEF Transit!BeginCleanup, Transit!Idle, Transit!Run, Transit!CleanupSteps, TransitHasUnit,
     Transit!UnitsAreTold, TransitInHand, Transit!disk, Transit!At
<1>2. Transit!TypeOK' /\ TransitHasUnit' /\ TransitFlagsAreInOrder' /\ TransitCleanupIsTold' /\ TransitCreationIsTold'
  BY <1>1 DEF Transit!TypeOK, TransitHasUnit, TransitFlagsAreInOrder, TransitCleanupIsTold,
     TransitCreationIsTold, TransitCreating,
     Transit!CreateSteps, Transit!RollbackSteps, TransitInHand, Transit!At
<1>3. Transit!UnitsAreWhole'
  BY <1>1 DEF Transit!UnitsAreWhole, Transit!Absent, Transit!Whole, Transit!Complete,
     Transit!UnitsAreTold
<1>4. TransitCalm'
  BY <1>1 DEF TransitCalm, TransitCreating, Transit!CreateSteps, Transit!RollbackSteps,
     TransitInHand
<1>5. QED
  BY <1>2, <1>3, <1>4

\* The unit in hand is let go of: as it has to be, or as one a command failed on.
LEMMA TransitReportKeeps ==
  ASSUME Transit!UnitsAreTold, TransitIInv, Transit!Report
  PROVE  TransitIInv'
<1> USE DEF TransitIInv
<1>1. /\ runT.step \in Transit!Outcomes /\ TransitInHand \in Transit!Unit /\ runT' = Transit!Idle
      /\ UNCHANGED <<unitT, conf, enabledT, processT, upset, faultsT>>
  BY DEF Transit!Report, TransitHasUnit, Transit!Outcomes, Transit!At, Transit!disk
<1>2. TransitInHand \notin upset => Transit!Absent(TransitInHand) \/ Transit!Whole(TransitInHand)
  BY <1>1 DEF TransitCreationIsTold, TransitCleanupIsTold, Transit!Outcomes, Transit!Absent,
     Transit!At
<1>3. Transit!TypeOK'
  BY <1>1, TransitIdleIsNobody DEF Transit!TypeOK
<1>4. Transit!UnitsAreWhole'
  BY <1>1, <1>2 DEF Transit!UnitsAreWhole, Transit!Absent, Transit!Whole, Transit!Complete,
     TransitInHand
<1>5. TransitCalm'
  BY <1>1, TransitIdleIsNobody DEF TransitCalm, TransitCreating, Transit!CreateSteps,
     Transit!RollbackSteps, Transit!Outcomes
<1>6. QED
  BY <1>1, <1>3, <1>4, <1>5, TransitIdleTells

-----------------------------------------------------------------------------
(***************************************************************************)
(* What happens to the host meanwhile.                                     *)
(***************************************************************************)

\* A service that runs goes on to run, in whatever state.
LEMMA TransitRunsOn ==
  ASSUME TransitIInv, UNCHANGED <<unitT, conf, enabledT, runT, upset>>,
         processT' \in [Transit!Unit -> Transit!ProcessState],
         \A v \in Transit!Unit : processT'[v] = "stopped" <=> processT[v] = "stopped"
  PROVE  TransitHasUnit' /\ TransitFlagsAreInOrder' /\ TransitCreationIsTold' /\ TransitCleanupIsTold' /\ Transit!UnitsAreWhole'
<1> USE DEF TransitIInv
<1>1. TransitHasUnit' /\ TransitFlagsAreInOrder'
  BY DEF TransitHasUnit, TransitFlagsAreInOrder, TransitInHand, Transit!At, Transit!Did
<1>2. runT.step # "idle" => TransitInHand \in Transit!Unit
  BY DEF TransitHasUnit, Transit!At
<1>3. TransitCreationIsTold'
  BY <1>2 DEF TransitCreationIsTold, Transit!Absent, Transit!Whole, Transit!Complete,
     TransitCreating, Transit!CreateSteps, Transit!RollbackSteps, TransitInHand,
     Transit!At, Transit!Did
<1>4. TransitCleanupIsTold'
  BY <1>2 DEF TransitCleanupIsTold, Transit!Absent, TransitInHand, Transit!At
<1>5. Transit!UnitsAreWhole'
  BY DEF Transit!UnitsAreWhole, Transit!Absent, Transit!Whole, Transit!Complete
<1>6. QED
  BY <1>1, <1>3, <1>4, <1>5

LEMMA TransitBindsKeeps ==
  ASSUME TransitIInv, NEW u \in Transit!Unit, Transit!Binds(u)
  PROVE  TransitIInv'
<1> USE DEF TransitIInv
<1> DEFINE to == IF Transit!Listening(PortOf[u]) THEN "waiting" ELSE "bound"
<1>1. /\ processT[u] = "starting"
      /\ processT' \in [Transit!Unit -> Transit!ProcessState] /\ processT'[u] = to
      /\ \A v \in Transit!Unit \ {u} : processT'[v] = processT[v]
      /\ UNCHANGED <<unitT, conf, enabledT, runT, upset, faultsT>>
  BY TransitNowSets DEF Transit!Binds, Transit!ProcessState, Transit!disk
<1>2. TransitCalm'
  <2> SUFFICES ASSUME faultsT = 0, upset = {} PROVE TransitCalm'
    BY <1>1 DEF TransitCalm
  <2>1. u = TransitInHand /\ runT.step \in TransitCreating
    BY <1>1 DEF TransitCalm
  <2>2. \A v \in Transit!Unit : TransitRivals(u, v) => processT[v] = "stopped"
    BY <2>1 DEF TransitCalm
  <2>3. to = "bound"
    BY <1>1, <2>2 DEF Transit!Listening, TransitRivals
  <2>4. QED
    BY <1>1, <2>1, <2>2, <2>3 DEF TransitCalm, TransitRivals, TransitInHand
<1>3. QED
  BY <1>1, <1>2, TransitRunsOn DEF Transit!TypeOK

LEMMA TransitRestartsKeeps ==
  ASSUME TransitIInv, NEW u \in Transit!Unit, Transit!Restarts(u)
  PROVE  TransitIInv'
<1> USE DEF TransitIInv
<1>1. /\ processT[u] = "waiting"
      /\ processT' \in [Transit!Unit -> Transit!ProcessState] /\ processT'[u] = "starting"
      /\ \A v \in Transit!Unit \ {u} : processT'[v] = processT[v]
      /\ UNCHANGED <<unitT, conf, enabledT, runT, upset, faultsT>>
  BY TransitNowSets DEF Transit!Restarts, Transit!ProcessState, Transit!disk
<1>2. TransitCalm'
  BY <1>1 DEF TransitCalm
<1>3. QED
  BY <1>1, <1>2, TransitRunsOn DEF Transit!TypeOK

LEMMA TransitStrikeCounts ==
  ASSUME Transit!UnitsAreTold, Transit!TypeOK, Transit!Strike
  PROVE  faultsT' \in 0 .. MaxFaults /\ faultsT' # 0
BY DEF Transit!TypeOK, Transit!Strike, Transit!UnitsAreTold

LEMMA TransitServiceFailsKeeps ==
  ASSUME Transit!UnitsAreTold, TransitIInv, NEW u \in Transit!Unit, Transit!ServiceFails(u)
  PROVE  TransitIInv'
<1> USE DEF TransitIInv
<1>1. /\ processT[u] # "stopped"
      /\ processT' \in [Transit!Unit -> Transit!ProcessState] /\ processT'[u] = "waiting"
      /\ \A v \in Transit!Unit \ {u} : processT'[v] = processT[v]
      /\ UNCHANGED <<unitT, conf, enabledT, runT, upset>>
  BY TransitNowSets DEF Transit!ServiceFails, Transit!ProcessState, Transit!IsActive, Transit!disk
<1>2. Transit!TypeOK' /\ TransitCalm'
  BY <1>1, TransitStrikeCounts DEF Transit!ServiceFails, Transit!TypeOK, TransitCalm
<1>3. QED
  BY <1>1, <1>2, TransitRunsOn

\* The unit a command is cut off on becomes one nothing is promised of.
LEMMA TransitInterruptedLeaves ==
  ASSUME Transit!UnitsAreTold, TransitIInv, Transit!Interrupted,
         \A v \in Transit!Unit : Transit!Absent(v) => processT'[v] = "stopped",
         \A v \in Transit!Unit : Transit!Whole(v) => processT'[v] # "stopped"
  PROVE  Transit!UnitsAreWhole' /\ upset' \in SUBSET Transit!Unit
<1> USE DEF TransitIInv
<1>1. /\ UNCHANGED <<unitT, conf, enabledT>> /\ upset \subseteq upset'
      /\ runT.step \notin {"idle"} \cup Transit!Outcomes => TransitInHand \in upset'
      /\ upset' \in SUBSET Transit!Unit
  BY DEF Transit!Interrupted, TransitHasUnit, Transit!TypeOK, TransitInHand, Transit!At,
     Transit!disk
<1>2. runT.step \in Transit!Outcomes /\ TransitInHand \notin upset => Transit!Absent(TransitInHand) \/ Transit!Whole(TransitInHand)
  BY DEF TransitCreationIsTold, TransitCleanupIsTold, Transit!Outcomes, Transit!Absent, Transit!At
<1>3. \A v \in Transit!Unit : v \notin upset' => Transit!Absent(v) \/ Transit!Whole(v)
  <2> SUFFICES ASSUME NEW v \in Transit!Unit, v \notin upset'
               PROVE Transit!Absent(v) \/ Transit!Whole(v)
    OBVIOUS
  <2>1. CASE v = TransitInHand
    BY <1>1, <1>2, <2>1 DEF TransitHasUnit, Transit!UnitsAreTold, Transit!At
  <2>2. CASE v # TransitInHand
    BY <1>1, <2>2 DEF Transit!UnitsAreWhole, TransitInHand
  <2>3. QED
    BY <2>1, <2>2
<1>4. QED
  BY <1>1, <1>3 DEF Transit!UnitsAreWhole, Transit!Absent, Transit!Whole, Transit!Complete

LEMMA TransitWorkerDiesKeeps ==
  ASSUME Transit!UnitsAreTold, TransitIInv, Transit!WorkerDies
  PROVE  TransitIInv'
<1> USE DEF TransitIInv
<1>1. Transit!UnitsAreWhole' /\ upset' \in SUBSET Transit!Unit
  BY TransitInterruptedLeaves DEF Transit!WorkerDies, Transit!Absent, Transit!Whole
<1>2. Transit!TypeOK' /\ TransitCalm'
  BY <1>1, TransitStrikeCounts, TransitIdleIsNobody DEF Transit!WorkerDies, Transit!Interrupted,
     Transit!disk, Transit!TypeOK, TransitCalm
<1>3. QED
  BY <1>1, <1>2, TransitIdleTells DEF Transit!WorkerDies, Transit!Interrupted

LEMMA TransitHostRebootsKeeps ==
  ASSUME Transit!UnitsAreTold, TransitIInv, Transit!HostReboots
  PROVE  TransitIInv'
<1> USE DEF TransitIInv
<1>1. Transit!UnitsAreWhole' /\ upset' \in SUBSET Transit!Unit
  BY TransitInterruptedLeaves DEF Transit!HostReboots, Transit!Absent, Transit!Whole
<1>2. processT' \in [Transit!Unit -> Transit!ProcessState]
  BY DEF Transit!HostReboots, Transit!ProcessState
<1>3. Transit!TypeOK' /\ TransitCalm'
  BY <1>1, <1>2, TransitStrikeCounts, TransitIdleIsNobody DEF Transit!HostReboots,
     Transit!Interrupted, Transit!disk, Transit!TypeOK, TransitCalm
<1>4. QED
  BY <1>1, <1>3, TransitIdleTells DEF Transit!HostReboots, Transit!Interrupted

LEMMA TransitStutterKeeps ==
  ASSUME TransitIInv, UNCHANGED Transit!vars
  PROVE  TransitIInv'
<1>1. UNCHANGED <<unitT, conf, enabledT, processT, runT, upset, faultsT>>
  BY DEF Transit!vars
<1>2. Transit!TypeOK' /\ TransitCalm'
  BY <1>1 DEF TransitIInv, Transit!TypeOK, TransitCalm, TransitInHand
<1>3. QED
  BY <1>1, <1>2, TransitRunsOn DEF TransitIInv, Transit!TypeOK

LEMMA TransitNextIInv ==
  ASSUME Transit!UnitsAreTold, TransitIInv, [Transit!Next]_(Transit!vars)
  PROVE  TransitIInv'
<1>1. CASE Transit!CreateRoute
  BY <1>1, TransitBeginCreateKeeps, TransitWriteConfigKeeps, TransitValidateConfigKeeps,
     TransitWriteUnitKeeps,
     TransitDaemonReloadKeeps, TransitEnableNowKeeps, TransitVerifyKeeps DEF Transit!CreateRoute
<1>2. CASE Transit!Rollback
  BY <1>2, TransitStopServiceKeeps, TransitDisableServiceKeeps, TransitDropUnitKeeps,
     TransitDropConfigKeeps DEF Transit!Rollback
<1>3. CASE Transit!CleanUp
  BY <1>3, TransitBeginCleanupKeeps, TransitDisableNowKeeps, TransitRemoveUnitKeeps,
     TransitRemoveConfigKeeps, TransitCheckPortKeeps
     DEF Transit!CleanUp
<1>4. CASE Transit!Report
  BY <1>4, TransitReportKeeps
<1>5. CASE Transit!Host
  BY <1>5, TransitBindsKeeps, TransitRestartsKeeps, TransitServiceFailsKeeps,
     TransitWorkerDiesKeeps, TransitHostRebootsKeeps DEF Transit!Host
<1>6. CASE UNCHANGED Transit!vars
  BY <1>6, TransitStutterKeeps
<1>7. QED
  BY <1>1, <1>2, <1>3, <1>4, <1>5, <1>6 DEF Transit!Next

-----------------------------------------------------------------------------
(***************************************************************************)
(* The transit host.                                                       *)
(***************************************************************************)

LEMMA TransitInvariance == Transit!Spec => []TransitIInv
BY TransitAssumption, TransitInitIInv, TransitNextIInv, PTL DEF Transit!Spec

\* Between commands a unit is there with all that belongs to it, or with nothing,
\* whatever ports and however many routes the host has: every command that
\* failed without an effect was undone.
THEOREM WholeOrAbsent == Transit!Spec => []Transit!UnitsAreWhole
<1>1. TransitIInv => Transit!UnitsAreWhole
  BY DEF TransitIInv
<1>2. QED
  BY <1>1, TransitInvariance, PTL

\* The rollback of a creation leaves nothing, from whichever step it began.
THEOREM TransitFailureIsUndone == Transit!Spec => []Transit!FailedCreateLeavesNothing
<1>1. TransitIInv => Transit!FailedCreateLeavesNothing
  BY DEF TransitIInv, TransitCreationIsTold, Transit!FailedCreateLeavesNothing, TransitInHand
<1>2. QED
  BY <1>1, TransitInvariance, PTL

\* A cleanup that succeeds leaves nothing of the unit, whatever befell it before.
THEOREM TransitCleanedIsAbsent == Transit!Spec => []Transit!CleanedRouteIsGone
<1>1. TransitIInv => Transit!CleanedRouteIsGone
  BY DEF TransitIInv, TransitCleanupIsTold, Transit!CleanedRouteIsGone, Transit!Absent,
     TransitInHand, Transit!At
<1>2. QED
  BY <1>1, TransitInvariance, PTL

\* As long as nothing went wrong, two units for one port are never both there:
\* the port check alone keeps the methods apart.
THEOREM OnePerPort == Transit!Spec => []Transit!OneUnitPerPort
<1>1. TransitIInv => Transit!OneUnitPerPort
  BY DEF TransitIInv, TransitCalm, Transit!OneUnitPerPort, TransitRivals, Transit!Whole
<1>2. QED
  BY <1>1, TransitInvariance, PTL

LEMMA TransitVerifiedServes ==
  ASSUME Transit!UnitsAreTold, TransitIInv, [Transit!Next]_(Transit!vars), Transit!At("verify"),
         runT'.step = "created"
  PROVE  \/ processT'[runT.unit] = "bound"
         \/ /\ faultsT > 0 \/ upset # {}
            /\ \E u \in Transit!Unit : /\ u # runT.unit /\ PortOf[u] = PortOf[runT.unit]
                                       /\ processT'[u] = "bound"
<1>1. Transit!Verified /\ UNCHANGED processT
  <2>1. CASE Transit!CreateRoute
    BY <2>1 DEF Transit!CreateRoute, Transit!BeginCreate, Transit!WriteConfig,
       Transit!ValidateConfig, Transit!WriteUnit, Transit!DaemonReload,
       Transit!EnableNow, Transit!Verify, Transit!Go, Transit!At, TransitIInv, Transit!TypeOK, Transit!Run
  <2>2. CASE Transit!Rollback
    BY <2>2 DEF Transit!Rollback, Transit!StopService, Transit!DisableService, Transit!DropUnit,
       Transit!DropConfig, Transit!At
  <2>3. CASE Transit!CleanUp
    BY <2>3 DEF Transit!CleanUp, Transit!BeginCleanup, Transit!DisableNow, Transit!RemoveUnit,
       Transit!RemoveConfig, Transit!CheckPort, Transit!At
  <2>4. CASE Transit!Report
    BY <2>4 DEF Transit!Report, Transit!Outcomes, Transit!At
  <2>5. CASE Transit!Host \/ UNCHANGED Transit!vars
    BY <2>5, TransitIdleIsNobody DEF Transit!Host, Transit!Binds, Transit!Restarts,
       Transit!ServiceFails, Transit!WorkerDies, Transit!HostReboots,
       Transit!Interrupted, Transit!vars, Transit!At
  <2>6. QED
    BY <2>1, <2>2, <2>3, <2>4, <2>5 DEF Transit!Next
<1>2. PICK u \in Transit!Unit : PortOf[u] = PortOf[TransitInHand] /\ processT[u] = "bound"
  BY <1>1 DEF Transit!Verified, Transit!Listening, TransitInHand
<1>3. u # TransitInHand => faultsT > 0 \/ upset # {}
  BY <1>2 DEF TransitIInv, TransitCalm, TransitRivals, TransitCreating, Transit!CreateSteps,
     Transit!TypeOK, Transit!At
<1>4. QED
  BY <1>1, <1>2, <1>3 DEF TransitInHand

\* A route is reported as created only when its own unit has its port, or after
\* a fault or a mishap another one.
THEOREM CreatedServes == Transit!Spec => Transit!CreatedPortIsServed
<1> DEFINE Serves == Transit!At("verify") /\ runT'.step = "created" =>
                               \/ processT'[runT.unit] = "bound"
                               \/ /\ faultsT > 0 \/ upset # {}
                                  /\ \E u \in Transit!Unit : /\ u # runT.unit /\ PortOf[u] = PortOf[runT.unit]
                                                             /\ processT'[u] = "bound"
<1>1. ASSUME TransitIInv, [Transit!Next]_(Transit!vars) PROVE Serves
  BY <1>1, TransitAssumption, TransitVerifiedServes
<1>2. QED
  BY <1>1, TransitInvariance, PTL DEF Transit!Spec, Transit!CreatedPortIsServed

-----------------------------------------------------------------------------
(***************************************************************************)
(* The hosts in one run: each one behaves as its own module says, whether  *)
(* it is its turn or not.                                                  *)
(***************************************************************************)

LEMMA LandingBehaves == AllSpec => Spec
<1>1. AllInit => Init
  BY DEF AllInit
<1>2. [AllNext]_<<mode, landingVars, transitVars, bbrVars>> => [Next]_vars
  BY DEF AllNext, landingVars, vars
<1>3. QED
  BY <1>1, <1>2, PTL DEF AllSpec, Spec

LEMMA TransitBehaves == AllSpec => Transit!Spec
<1>1. AllInit => Transit!Init
  BY DEF AllInit
<1>2. [AllNext]_<<mode, landingVars, transitVars, bbrVars>> => [Transit!Next]_(Transit!vars)
  BY DEF AllNext, transitVars, Transit!vars
<1>3. QED
  BY <1>1, <1>2, PTL DEF AllSpec, Transit!Spec

LEMMA BbrBehaves == AllSpec => Bbr!Spec
<1>1. AllInit => Bbr!Init
  BY DEF AllInit
<1>2. [AllNext]_<<mode, landingVars, transitVars, bbrVars>> => [Bbr!Next]_(Bbr!vars)
  BY DEF AllNext, bbrVars, Bbr!vars
<1>3. QED
  BY <1>1, <1>2, PTL DEF AllSpec, Bbr!Spec

LEMMA TransitHolds ==
  AllSpec => /\ [](Transit!UnitsAreWhole /\ Transit!OneUnitPerPort)
             /\ [](Transit!FailedCreateLeavesNothing /\ Transit!CleanedRouteIsGone)
BY TransitBehaves, WholeOrAbsent, OnePerPort, TransitFailureIsUndone, TransitCleanedIsAbsent, PTL

-----------------------------------------------------------------------------
(***************************************************************************)
(* What the run checks.                                                    *)
(***************************************************************************)

\* A creation that failed leaves no trace, on a landing host with any ports and
\* after any number of faults: the flags of landingNodeCreateArtifacts are enough
\* for the rollback to find its way back from every step.
THEOREM FailuresLeaveNoTrace == AllSpec => []FailureLeavesNoTrace
<1>1. AllSpec => []FailedCreateRestores
  BY LandingBehaves, LandingInvariance, FailureIsUndone, PTL
<1>2. QED
  BY <1>1, TransitHolds, PTL DEF FailureLeavesNoTrace

\* A cleanup that succeeds leaves nothing that runs, restarts or comes back.
THEOREM CleanedStaysGone == AllSpec => []CleanedIsGone
<1>1. AllSpec => []CleanupLeavesNothing
  BY LandingBehaves, LandingInvariance, CleanedIsEmpty, PTL
<1>2. QED
  BY <1>1, TransitHolds, PTL DEF CleanedIsGone

\* Between commands a transit unit is there as a whole or not at all, and without
\* a fault no other fights it for its port.
THEOREM UnitsStayWhole == AllSpec => []UnitsAreWhole
BY TransitHolds, PTL DEF UnitsAreWhole

\* What an execution of BBR leaves on the host was reported.
THEOREM BbrStaysKnown == AllSpec => []BbrIsKnown
BY BbrBehaves, ReportsAreTrue, PTL DEF BbrIsKnown

\* A node is reported as created only when it is served with all the nodes of the
\* file and would be again after a reboot; a route only when its own unit has its
\* port, or after a fault or a mishap another one.
THEOREM CreatedAreServed == AllSpec => CreatedIsServed
<1> DEFINE Served == At("verify") /\ run'.step = "created" =>
                       /\ run.before.config \cup {run.port} \subseteq running'
                       /\ running' = config' /\ enabled' /\ unit' = "ours"
<1>1. ASSUME IInv, [Next]_vars PROVE Served
  BY <1>1, VerifiedIsServed
<1>2. Spec => CreatedAmongTheOthers
  BY <1>1, LandingInvariance, PTL DEF Spec, CreatedAmongTheOthers
<1>3. QED
  BY <1>2, CreatedServes, LandingBehaves, TransitBehaves, PTL DEF CreatedIsServed

\* A node leaves the file of its landing host only through a cleanup, through the
\* rollback of its own creation, or with a file that a crash left half restored.
THEOREM InboundsAreKept == AllSpec => OthersKeepTheirInbounds
<1> DEFINE Kept == \A p \in config \ config' :
                     \/ At("remove_config")
                     \/ At("restore_config") /\ (p = run.port \/ torn')
<1>1. ASSUME IInv, [Next]_vars PROVE Kept
  BY <1>1, InboundsStay
<1>2. Spec => OthersKeepTheirInbounds
  BY <1>1, LandingInvariance, PTL DEF Spec, OthersKeepTheirInbounds
<1>3. QED
  BY <1>2, LandingBehaves, PTL
=============================================================================
