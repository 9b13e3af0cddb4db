------------------------------- MODULE BbrHost -------------------------------
(***************************************************************************)
(* BBR on a landing host: the plan, the dry run and the real execution     *)
(* with the gates the controller puts before them                          *)
(* (backend/app/services/bbr_enable_plan.py), and the three steps of the   *)
(* worker (worker/cmd/liveline-worker/main.go), none of which is taken     *)
(* back when a later one fails.                                            *)
(*                                                                         *)
(* Abstractions.  The plan looks at the latest preflight, the real         *)
(* execution also at the dry run that ended last, however long ago they    *)
(* were made.  "kernel" is what does not change: whether it has tcp_bbr    *)
(* and what the other files in sysctl.d do.  A command whose worker dies   *)
(* is handed out again (CommandChannel).                                   *)
(***************************************************************************)
EXTENDS Integers

CONSTANTS MaxCommands, MaxFaults

VARIABLES
  kernel,  \* tcp_bbr is there; another file wins over ours, or is refused by sysctl
  module,  \* tcp_bbr is loaded
  file,    \* 99-liveline-bbr.conf, an empty one since the worker was installed
  active,  \* what of the setting is in force
  gate,    \* what the controller knows, and what it has queued
  run,     \* the real execution in the worker's hands
  known,   \* history: see Known
  faults

vars == <<kernel, module, file, active, gate, run, known, faults>>

Kernel == [has : BOOLEAN, wins : BOOLEAN, bad : BOOLEAN]

\* "queue" is net.core.default_qdisc=fq, the first line of the file.
Setting == {"queue", "control"}

\* "dry" is the outcome of the dry run that ended last.
Gate == [preflight : {"none", "ready", "enabled", "blocked"}, dry : {"none", "passed", "blocked"},
         dryQueued : BOOLEAN, queued : 0..MaxCommands, created : 0..MaxCommands]

Run == [step : {"idle", "load", "write", "reload", "verify"},
        actions : SUBSET {"load", "write", "reload"}]

\* History: the steps a report told of, whether an execution died without one,
\* whether the last word on the file was a success.
Known == [told : SUBSET {"load", "write", "reload"}, silent : BOOLEAN, enabled : BOOLEAN]

IdleRun == [step |-> "idle", actions |-> {}]

TypeOK ==
  /\ kernel \in Kernel /\ module \in BOOLEAN
  /\ file \in {"missing", "empty", "part", "whole"} /\ active \in SUBSET Setting
  /\ gate \in Gate /\ run \in Run /\ known \in Known /\ faults \in 0..MaxFaults

\* Workers before 0.1.41 were installed without the file.
Init ==
  /\ kernel \in Kernel
  /\ module = FALSE /\ active = {} /\ file \in {"missing", "empty"}
  /\ gate = [preflight |-> "none", dry |-> "none", dryQueued |-> FALSE, queued |-> 0, created |-> 0]
  /\ run = IdleRun
  /\ known = [told |-> {}, silent |-> FALSE, enabled |-> FALSE]
  /\ faults = 0

host == <<module, file, active>>

-----------------------------------------------------------------------------
(* Preflight, plan, dry run, and the command of the real execution. *)

Recommendation ==
  CASE "control" \in active -> "enabled"
    [] "control" \notin active /\ kernel.has -> "ready"
    [] OTHER -> "blocked"

Preflight ==
  /\ run.step = "idle"
  /\ gate' = [gate EXCEPT !.preflight = Recommendation]
  /\ UNCHANGED <<kernel, host, run, known, faults>>

PlanReady == gate.preflight = "ready"

\* Bound: one dry run waits at a time.
CreateDryRun ==
  /\ PlanReady /\ ~gate.dryQueued
  /\ gate' = [gate EXCEPT !.dryQueued = TRUE]
  /\ UNCHANGED <<kernel, host, run, known, faults>>

\* A host that has BBR already is not asked for anything but the file.
DryRunPasses == file # "missing" /\ ("control" \in active \/ kernel.has)

ExecuteDryRun ==
  /\ run.step = "idle" /\ gate.dryQueued
  /\ gate' = [gate EXCEPT !.dryQueued = FALSE,
                          !.dry = IF DryRunPasses THEN "passed" ELSE "blocked"]
  /\ UNCHANGED <<kernel, host, run, known, faults>>

\* Nothing keeps a second command from being created while one is queued.
CreateRealExecution ==
  /\ PlanReady /\ gate.dry = "passed"
  /\ gate.created < MaxCommands  \* bound
  /\ gate' = [gate EXCEPT !.queued = @ + 1, !.created = @ + 1]
  /\ UNCHANGED <<kernel, host, run, known, faults>>

-----------------------------------------------------------------------------
(* The real execution. *)

BeginRealExecution ==
  /\ run.step = "idle" /\ gate.queued > 0
  /\ gate' = [gate EXCEPT !.queued = @ - 1]
  /\ run' = [IdleRun EXCEPT !.step = "load"]
  /\ UNCHANGED <<kernel, host, known, faults>>

Go(step, action) ==
  /\ run' = [step |-> step, actions |-> run.actions \cup {action}]
  /\ UNCHANGED known

\* The report has the actions so far, the one that failed included.
Report(actions, succeeded) ==
  /\ run' = IdleRun
  /\ known' = [known EXCEPT !.told = @ \cup actions, !.enabled = succeeded]

\* Slip: an action is listed once it is done.
Fail_DoneOnly(action) == Report(run.actions, FALSE)

Fail(action) == Report(run.actions \cup {action}, FALSE)

\* modprobe may be cut off by its timeout after it has loaded the module.
LoadModule ==
  /\ run.step = "load"
  /\ \/ kernel.has /\ module' = TRUE /\ Go("write", "load")
     \/ module' \in {module, kernel.has} /\ Fail("load")
  /\ UNCHANGED <<kernel, file, active, gate, faults>>

\* os.WriteFile empties the file before it writes; where there is none, the
\* sandbox of the worker does not let it make one.
WriteSysctlConfig ==
  /\ run.step = "write"
  /\ \/ file # "missing" /\ file' = "whole" /\ Go("reload", "write")
     \/ file' \in (IF file = "missing" THEN {file} ELSE {file, "empty", "part"}) /\ Fail("write")
  /\ UNCHANGED <<kernel, module, active, gate, faults>>

\* What systemd-sysctl and sysctl --system put in force; setting the control
\* loads its module.
Applied ==
  {x \in Setting : /\ file = "whole" \/ (file = "part" /\ x = "queue")
                   /\ x = "control" => kernel.has /\ ~kernel.wins}

\* sysctl fails for a line of any file, with all the others in force; another
\* file takes back what it wins over, an emptied one takes nothing back.
ReloadSysctl ==
  /\ run.step = "reload"
  /\ \/ active' = (IF kernel.wins THEN active \ {"control"} ELSE active) \cup Applied
        /\ IF kernel.bad THEN Fail("reload") ELSE Go("verify", "reload")
     \/ UNCHANGED active /\ Fail("reload")
  /\ UNCHANGED <<kernel, module, file, gate, faults>>

Verified == module /\ active = Setting

Verify ==
  /\ run.step = "verify"
  /\ Report(run.actions, Verified)
  /\ UNCHANGED <<kernel, host, gate, faults>>

-----------------------------------------------------------------------------
(* Faults. *)

\* Without a report the command is handed out again once its lease has passed.
Dies ==
  /\ faults < MaxFaults /\ faults' = faults + 1  \* bound
  /\ run' = IdleRun
  /\ IF run.step = "idle" THEN UNCHANGED <<gate, known>>
     ELSE /\ gate' = [gate EXCEPT !.queued = @ + 1]
          /\ known' = [known EXCEPT !.silent = TRUE, !.enabled = FALSE]

Crash == run.step # "idle" /\ Dies /\ UNCHANGED <<kernel, host>>

\* The host starts again with what its files say.
Reboot ==
  /\ Dies
  /\ active' = Applied
  /\ module' = ("control" \in Applied)
  /\ UNCHANGED <<kernel, file>>

Next ==
  \/ Preflight \/ CreateDryRun \/ ExecuteDryRun \/ CreateRealExecution
  \/ BeginRealExecution \/ LoadModule \/ WriteSysctlConfig \/ ReloadSysctl \/ Verify
  \/ Crash \/ Reboot

Spec == Init /\ [][Next]_vars

-----------------------------------------------------------------------------
(* Properties. *)

\* What a report called enabled is in force and stays so over reboots, until
\* another execution is at work on the file or has failed.
EnabledStays == known.enabled /\ run.step = "idle" => active = Setting /\ module

\* Whatever an execution left behind, and the next start of the host puts in
\* force, some report has told the operator of its step, unless a worker died
\* in an execution before it could.
LeftoversAreTold ==
  run.step = "idle" /\ ~known.silent =>
    /\ file \in {"part", "whole"} \/ active # {} => "write" \in known.told
    /\ module => "load" \in known.told \/ "write" \in known.told

\* Both: the reports are a true account of the host.
BbrIsKnown == EnabledStays /\ LeftoversAreTold
=============================================================================
