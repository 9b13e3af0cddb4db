-------------------------- MODULE ServerPanelProofs --------------------------
(***************************************************************************)
(* Proofs about the panels of MCServerPanels and MCProductPanels, for any  *)
(* servers, nodes, lines, calls and numbers of commands and polls.         *)
(*                                                                         *)
(* A property of a panel is about what is on display; what makes it true   *)
(* is what the calls that are still out will write there.  Each inductive  *)
(* invariant therefore says of every such call whom it is for and what it  *)
(* was sent with, unless a history variable says that another one          *)
(* overtook it.  The parts do not meet: one of them is at work in each     *)
(* behaviour, and the invariants of a run are put together at the end of   *)
(* its half of the module.                                                 *)
(***************************************************************************)
EXTENDS MCServerPanels, MCProductPanels, FiniteSetTheorems, SequenceTheorems, TLAPS

-----------------------------------------------------------------------------
(* ServerManagementPanel: the install command, its polling, and the removal of a server. *)

LEMMA InstallIs ==
  None \notin Server \cup Call /\ MaxPolls \in Nat \ {0}
BY ServerPanelsAssumption

InstallPolls(c) == call[c].op = "poll"
InstallGenerates(c) == call[c].op = "generate"
InstallIsForm(row) == row.op \in {"generate", "edit", "delete"}

\* A removal that brings its row back, or tells that it is gone, when it ends.
InstallIsRemoval(row) ==
  \/ row.op = "delete" /\ (row.step = "main" \/ row.n = 1)
  \/ row.op = "watch" /\ row.step = "main"

InstallRowIsAimed(c) ==
  /\ call[c].step = "timer" => InstallPolls(c)
  /\ InstallPolls(c) => call[c].step \in {"main", "timer"}
  /\ call[c].op \in {"generate", "poll", "edit", "delete", "watch"} => call[c].server \in Server
  /\ call[c].op = "delete" => /\ call[c].mode \in {"remote", "local"}
                              /\ call[c].step = "main" => call[c].n = 0
                              /\ Install!Taken(c) /\ call[c].mode = "local" =>
                                   controller.row[call[c].server] = "deleted"

InstallModalIsOfAServer == panel.modal \in {"workerCommand", "edit", "delete"} => panel.target \in Server

\* What is generated meanwhile is for the modal.
InstallCommandInv ==
  panel.modal = "workerCommand" /\ ~panel.during =>
    /\ panel.command \in {None, panel.target}
    /\ \A c \in Call : InstallGenerates(c) => call[c].server = panel.target

\* One chain, and the ref is its timer's.
InstallPollInv ==
  ~panel.crossed =>
    /\ \A c \in Call : InstallPolls(c) => ~call[c].old /\ (call[c].step = "timer" => panel.timer = c)
    /\ \A b, c \in Call : InstallPolls(b) /\ InstallPolls(c) => b = c

\* One form is submitted at a time.
InstallFormInv ==
  /\ \A c \in Call : InstallIsForm(call[c]) => panel.submitting
  /\ \A b, c \in Call : InstallIsForm(call[b]) /\ InstallIsForm(call[c]) => b = c

\* Whose removal is under way is hidden; the modal of a removal is of a row that
\* is on display, or of the removal that is requested.
InstallRemovalInv ==
  /\ panel.gone \subseteq panel.hidden /\ panel.hidden \cap panel.listed = {}
  /\ \A c \in Call : InstallIsRemoval(call[c]) => call[c].server \in panel.hidden \ panel.gone
  /\ \A b, c \in Call :
       InstallIsRemoval(call[b]) /\ InstallIsRemoval(call[c]) /\ call[b].server = call[c].server => b = c
  /\ panel.modal = "delete" =>
       \/ panel.target \notin panel.hidden
       \/ \E c \in Call : Install!Waits(c, "delete", "main") /\ call[c].server = panel.target

InstallHiddenInv ==
  \A s \in panel.hidden :
    \/ controller.row[s] = "deleted" \/ s \in panel.gaveUp
    \/ \E c \in Call : InstallIsRemoval(call[c]) /\ call[c].server = s

InstallCleanedIsDeleted ==
  \A s \in Server : controller.cleanup[s] = "succeeded" => controller.row[s] = "deleted"

InstallInv ==
  /\ Install!TypeOK /\ InstallModalIsOfAServer /\ \A c \in Call : InstallRowIsAimed(c)
  /\ InstallCommandInv /\ Install!AutoCloseSparesNewCommands /\ InstallPollInv
  /\ InstallFormInv /\ InstallRemovalInv /\ InstallHiddenInv /\ InstallCleanedIsDeleted

-----------------------------------------------------------------------------
LEMMA InstallNoCallIs ==
  /\ Install!NoCall \in Install!CallRow /\ Install!NoCall.op = "none" /\ Install!NoCall.step = "main" /\ Install!NoCall.n = 0
  /\ ~Install!NoCall.old /\ ~InstallIsForm(Install!NoCall) /\ ~InstallIsRemoval(Install!NoCall)
BY InstallIs DEF Install!NoCall, Install!CallRow, InstallIsForm, InstallIsRemoval

LEMMA InstallInit == Install!Init => InstallInv
<1> SUFFICES ASSUME Install!Init PROVE InstallInv
  OBVIOUS
<1> DEFINE load == [Install!NoCall EXCEPT !.op = "load"]
<1>1. /\ load \in Install!CallRow /\ load.op = "load" /\ load.step = "main"
      /\ ~InstallIsForm(load) /\ ~InstallIsRemoval(load)
  BY InstallNoCallIs DEF Install!CallRow, InstallIsForm, InstallIsRemoval
<1> HIDE DEF load
<1>2. PICK k \in Call : call = [c \in Call |-> IF c = k THEN load ELSE Install!NoCall]
  BY DEF Install!Init, load
<1>3. call \in [Call -> Install!CallRow]
  BY <1>1, <1>2, InstallNoCallIs
<1>4. \A c \in Call : /\ call[c].op \in {"none", "load"} /\ call[c].step = "main"
                      /\ ~InstallIsForm(call[c]) /\ ~InstallIsRemoval(call[c])
  BY <1>1, <1>2, InstallNoCallIs
<1>5. PICK rows \in [Server -> {"absent", "away", "online"}] :
        controller = [row |-> rows, cleanup |-> [s \in Server |-> "none"]]
  BY DEF Install!Init
<1>6. controller \in Install!Controller
  BY <1>5 DEF Install!Controller, Install!Row
<1>7. panel \in Install!Panel
  BY DEF Install!Init, Install!Panel
<1>8. \A c \in Call : InstallRowIsAimed(c) /\ ~InstallGenerates(c) /\ ~InstallPolls(c)
  BY <1>4 DEF InstallRowIsAimed, InstallGenerates, InstallPolls
<1>9. InstallCommandInv /\ Install!AutoCloseSparesNewCommands /\ InstallPollInv /\ InstallModalIsOfAServer
  BY <1>8 DEF Install!Init, InstallCommandInv, Install!AutoCloseSparesNewCommands, InstallPollInv,
     InstallModalIsOfAServer
<1>10. InstallFormInv /\ InstallRemovalInv /\ InstallHiddenInv
  BY <1>4 DEF Install!Init, InstallFormInv, InstallRemovalInv, InstallHiddenInv
<1>11. InstallCleanedIsDeleted
  BY <1>5 DEF InstallCleanedIsDeleted
<1> QED
  BY <1>3, <1>6, <1>7, <1>8, <1>9, <1>10, <1>11 DEF InstallInv, Install!TypeOK

-----------------------------------------------------------------------------
(* What steps have in common. *)

\* One row becomes another, and nothing else.
InstallBecomes(c, row) ==
  call' \in [Call -> Install!CallRow] /\ call'[c] = row /\ \A b \in Call \ {c} : call'[b] = call[b]

\* One row becomes another; beside it only chains end, or grow old.
InstallChanges(c, row) ==
  /\ call' \in [Call -> Install!CallRow] /\ call'[c] = row
  /\ \A b \in Call \ {c} :
       \/ call'[b] = call[b]
       \/ InstallPolls(b) /\ call'[b].op = "poll" /\ call'[b].server = call[b].server
                          /\ call'[b].step = call[b].step
       \/ InstallPolls(b) /\ call'[b] = Install!NoCall

\* The timer of the ref is taken back.
InstallClears(c) ==
  \A b \in Call \ {c} : call[b].step = "timer" /\ panel.timer = b => call'[b] = Install!NoCall

LEMMA InstallStartBecomes ==
  ASSUME Install!TypeOK, NEW c \in Call, NEW row \in Install!CallRow,
         call' = [call EXCEPT ![c] = row]
  PROVE  InstallBecomes(c, row) /\ InstallChanges(c, row)
BY DEF Install!TypeOK, InstallBecomes, InstallChanges

LEMMA InstallAgeIs ==
  ASSUME NEW row \in Install!CallRow
  PROVE  /\ Install!Age(row) \in Install!CallRow
         /\ row.op # "poll" => Install!Age(row) = row
         /\ Install!Age(row).op = row.op /\ Install!Age(row).server = row.server /\ Install!Age(row).step = row.step
BY DEF Install!Age, Install!CallRow

LEMMA InstallClearTimerChanges ==
  ASSUME Install!TypeOK, \A b \in Call : InstallRowIsAimed(b),
         NEW c \in Call, NEW row \in Install!CallRow, call' = [Install!ClearTimer EXCEPT ![c] = row]
  PROVE  InstallChanges(c, row) /\ InstallClears(c)
<1>1. \A b \in Call : Install!ClearTimer[b] = IF panel.timer = b /\ call[b].step = "timer" THEN Install!NoCall
                                              ELSE Install!Age(call[b])
  BY DEF Install!ClearTimer
<1>2. Install!ClearTimer \in [Call -> Install!CallRow]
  <2>1. \A b \in Call : call[b] \in Install!CallRow
    BY DEF Install!TypeOK
  <2>2. \A b \in Call : Install!Age(call[b]) \in Install!CallRow
    BY <2>1, InstallAgeIs
  <2> QED
    BY <2>2, InstallNoCallIs DEF Install!ClearTimer
<1> HIDE DEF Install!ClearTimer
<1>3. call' \in [Call -> Install!CallRow] /\ call'[c] = row /\ \A b \in Call \ {c} : call'[b] = Install!ClearTimer[b]
  BY <1>2
<1>4. ASSUME NEW b \in Call \ {c}
      PROVE  \/ call'[b] = call[b]
             \/ InstallPolls(b) /\ call'[b].op = "poll" /\ call'[b].server = call[b].server
                                /\ call'[b].step = call[b].step
             \/ InstallPolls(b) /\ call'[b] = Install!NoCall
  <2>1. call[b] \in Install!CallRow /\ call'[b] = Install!ClearTimer[b] /\ InstallRowIsAimed(b)
    BY <1>3 DEF Install!TypeOK
  <2>2. CASE panel.timer = b /\ call[b].step = "timer"
    BY <1>1, <2>1, <2>2 DEF InstallRowIsAimed
  <2>3. CASE ~(panel.timer = b /\ call[b].step = "timer")
    <3>1. call'[b] = Install!Age(call[b])
      BY <1>1, <2>1, <2>3
    <3>2. /\ call[b].op # "poll" => Install!Age(call[b]) = call[b]
          /\ Install!Age(call[b]).op = call[b].op /\ Install!Age(call[b]).server = call[b].server
          /\ Install!Age(call[b]).step = call[b].step
      BY <2>1, InstallAgeIs
    <3> QED
      BY <3>1, <3>2 DEF InstallPolls
  <2> QED
    BY <2>2, <2>3
<1>5. InstallClears(c)
  BY <1>1, <1>3 DEF InstallClears
<1> QED
  BY <1>3, <1>4, <1>5 DEF InstallChanges

LEMMA InstallRowsStay ==
  ASSUME InstallInv, NEW c \in Call, NEW row, InstallChanges(c, row),
         \A s \in Server : controller.row[s] = "deleted" => controller'.row[s] = "deleted",
         row.step = "timer" => row.op = "poll",
         row.op = "poll" => row.step \in {"main", "timer"},
         row.op \in {"generate", "poll", "edit", "delete", "watch"} => row.server \in Server,
         row.op = "delete" => /\ row.mode \in {"remote", "local"}
                              /\ row.step = "main" => row.n = 0
                              /\ row.n = 1 /\ row.mode = "local" =>
                                   controller'.row[row.server] = "deleted"
  PROVE  \A b \in Call : InstallRowIsAimed(b)'
<1> TAKE b \in Call
<1>1. CASE b = c
  BY <1>1 DEF InstallChanges, InstallRowIsAimed, InstallPolls, Install!Taken
<1>2. CASE b # c
  <2>1. CASE call'[b] = call[b]
    BY <1>2, <2>1 DEF InstallInv, InstallRowIsAimed, InstallPolls, Install!Taken
  <2>2. CASE call'[b] = Install!NoCall
    BY <1>2, <2>2, InstallNoCallIs DEF InstallRowIsAimed
  <2>3. CASE InstallPolls(b) /\ call'[b].op = "poll" /\ call'[b].server = call[b].server
                             /\ call'[b].step = call[b].step
    BY <2>3 DEF InstallInv, InstallRowIsAimed, InstallPolls
  <2> QED
    BY <1>2, <2>1, <2>2, <2>3 DEF InstallChanges
<1> QED
  BY <1>1, <1>2

\* What is no chain is left alone.
LEMMA InstallOthersStay ==
  ASSUME NEW c \in Call, NEW row, InstallChanges(c, row), NEW b \in Call \ {c}
  PROVE  /\ ~InstallPolls(b) => call'[b] = call[b]
         /\ InstallPolls(b) => /\ ~InstallGenerates(b)' /\ ~InstallIsForm(call'[b]) /\ ~InstallIsRemoval(call'[b])
                               /\ ~InstallIsForm(call[b]) /\ ~InstallIsRemoval(call[b]) /\ ~InstallGenerates(b)
         /\ InstallPolls(b)' => InstallPolls(b)
BY InstallNoCallIs DEF InstallChanges, InstallPolls, InstallGenerates, InstallIsForm,
   InstallIsRemoval

LEMMA InstallCommandStays ==
  ASSUME InstallInv, NEW c \in Call, NEW row, InstallChanges(c, row),
         \/ panel'.modal # "workerCommand"
         \/ panel'.modal = panel.modal /\ panel'.target = panel.target /\ panel'.during = panel.during,
         \/ panel'.command \in {panel.command, None}
         \/ InstallGenerates(c) /\ panel'.command = call[c].server,
         row.op = "generate" => \/ InstallGenerates(c) /\ row.server = call[c].server
                               \/ panel'.modal # "workerCommand"
                               \/ row.server = panel'.target
  PROVE  InstallCommandInv'
<1> SUFFICES ASSUME panel'.modal = "workerCommand", ~panel'.during,
                    panel'.modal = panel.modal, panel'.target = panel.target,
                    panel'.during = panel.during
             PROVE  /\ panel'.command \in {None, panel'.target}
                    /\ \A b \in Call : InstallGenerates(b)' => call'[b].server = panel'.target
  BY DEF InstallCommandInv
<1>1. panel.command \in {None, panel.target} /\ \A b \in Call : InstallGenerates(b) => call[b].server = panel.target
  BY DEF InstallInv, InstallCommandInv
<1>2. ASSUME NEW b \in Call, InstallGenerates(b)' PROVE call'[b].server = panel'.target
  <2>1. CASE b = c
    BY <1>1, <1>2, <2>1 DEF InstallChanges, InstallGenerates
  <2>2. CASE b # c
    BY <1>1, <1>2, <2>2, InstallOthersStay DEF InstallGenerates
  <2> QED
    BY <2>1, <2>2
<1> QED
  BY <1>1, <1>2

\* No chain starts, and the ref stays.
LEMMA InstallPollStays ==
  ASSUME InstallInv, NEW c \in Call, NEW row, InstallBecomes(c, row),
         panel'.crossed = panel.crossed, panel'.timer = panel.timer,
         row.op = "poll" => InstallPolls(c) /\ row.old = call[c].old /\ row.step \in {"main", call[c].step}
  PROVE  InstallPollInv'
<1> SUFFICES ASSUME ~panel.crossed PROVE InstallPollInv'
  BY DEF InstallPollInv
<1>1. ASSUME NEW b \in Call, InstallPolls(b)'
      PROVE  InstallPolls(b) /\ ~call'[b].old /\ (call'[b].step = "timer" => panel'.timer = b)
  <2>1. CASE b = c
    BY <1>1, <2>1 DEF InstallInv, InstallPollInv, InstallBecomes, InstallPolls
  <2>2. CASE b # c
    BY <1>1, <2>2 DEF InstallInv, InstallPollInv, InstallBecomes, InstallPolls
  <2> QED
    BY <2>1, <2>2
<1> QED
  BY <1>1 DEF InstallInv, InstallPollInv

\* The polling is ended: unless a poll is awaited, no chain is left but that of c.
LEMMA InstallPollingEnds ==
  ASSUME InstallInv, NEW c \in Call, NEW row, InstallChanges(c, row), InstallClears(c),
         ~panel.crossed, \A b \in Call \ {c} : InstallPolls(b) => call[b].step # "main"
  PROVE  \A b \in Call \ {c} : ~InstallPolls(b)'
<1> SUFFICES ASSUME NEW b \in Call \ {c}, InstallPolls(b)' PROVE FALSE
  OBVIOUS
<1>1. InstallPolls(b)
  BY InstallOthersStay
<1>2. call[b].step \in {"main", "timer"}
  BY <1>1 DEF InstallInv, Install!TypeOK, Install!CallRow, InstallRowIsAimed
<1> QED
  BY <1>1, <1>2, InstallNoCallIs DEF InstallClears, InstallPolls, InstallInv, InstallPollInv

LEMMA InstallFormStays ==
  ASSUME InstallInv, NEW c \in Call, NEW row, InstallChanges(c, row),
         \/ panel'.submitting = panel.submitting /\ (InstallIsForm(row) => InstallIsForm(call[c]))
         \/ InstallIsForm(call[c]) /\ ~InstallIsForm(row)
         \/ ~panel.submitting /\ panel'.submitting
  PROVE  InstallFormInv'
<1>1. \A b \in Call \ {c} : InstallIsForm(call'[b]) <=> InstallIsForm(call[b])
  BY InstallOthersStay
<1>2. call'[c] = row
  BY DEF InstallChanges
<1> QED
  BY <1>1, <1>2 DEF InstallInv, InstallFormInv

LEMMA InstallRemovalStays ==
  ASSUME InstallInv, NEW c \in Call, NEW row, InstallChanges(c, row),
         InstallIsRemoval(row) =>
           /\ row.server \in panel'.hidden \ panel'.gone
           /\ \A b \in Call \ {c} : InstallIsRemoval(call[b]) => call[b].server # row.server,
         \A s \in panel.hidden :
           s \in panel'.hidden \/ (InstallIsRemoval(call[c]) /\ call[c].server = s /\ ~InstallIsRemoval(row)),
         \A s \in panel'.gone :
           s \in panel.gone \/ (InstallIsRemoval(call[c]) /\ call[c].server = s /\ ~InstallIsRemoval(row)),
         panel'.gone \subseteq panel'.hidden, panel'.hidden \cap panel'.listed = {},
         panel'.modal = "delete" =>
           \/ panel'.target \notin panel'.hidden
           \/ row.op = "delete" /\ row.step = "main" /\ row.server = panel'.target
           \/ /\ panel.modal = "delete" /\ panel'.target = panel.target
              /\ panel.target \in panel.hidden
              /\ ~(Install!Waits(c, "delete", "main") /\ call[c].server = panel.target)
  PROVE  InstallRemovalInv'
<1>1. \A b \in Call \ {c} : (InstallIsRemoval(call'[b]) <=> InstallIsRemoval(call[b]))
                           /\ (InstallIsRemoval(call[b]) => call'[b] = call[b])
  BY InstallOthersStay
<1>2. call'[c] = row
  BY DEF InstallChanges
<1>3. ASSUME NEW b \in Call \ {c}, InstallIsRemoval(call'[b])
      PROVE  call'[b].server \in panel'.hidden \ panel'.gone
  <2>1. call[b].server \in panel.hidden \ panel.gone /\ call'[b] = call[b] /\ InstallIsRemoval(call[b])
    BY <1>1, <1>3 DEF InstallInv, InstallRemovalInv
  <2>2. ~(InstallIsRemoval(call[c]) /\ call[c].server = call[b].server)
    BY <2>1 DEF InstallInv, InstallRemovalInv
  <2> QED
    BY <2>1, <2>2
<1>4. \A b \in Call : InstallIsRemoval(call'[b]) => call'[b].server \in panel'.hidden \ panel'.gone
  BY <1>2, <1>3
<1>5. \A b, k \in Call :
        InstallIsRemoval(call'[b]) /\ InstallIsRemoval(call'[k]) /\ call'[b].server = call'[k].server => b = k
  <2> SUFFICES ASSUME NEW b \in Call, NEW k \in Call, InstallIsRemoval(call'[b]), InstallIsRemoval(call'[k]),
                      call'[b].server = call'[k].server, b # k
               PROVE  FALSE
    OBVIOUS
  <2>1. CASE b = c
    BY <1>1, <1>2, <2>1
  <2>2. CASE k = c
    BY <1>1, <1>2, <2>2
  <2>3. CASE b # c /\ k # c
    BY <1>1, <2>3 DEF InstallInv, InstallRemovalInv
  <2> QED
    BY <2>1, <2>2, <2>3
<1>6. panel'.modal = "delete" =>
        \/ panel'.target \notin panel'.hidden
        \/ \E b \in Call : Install!Waits(b, "delete", "main")' /\ call'[b].server = panel'.target
  <2> SUFFICES ASSUME panel'.modal = "delete", panel'.target \in panel'.hidden
               PROVE  \E b \in Call : Install!Waits(b, "delete", "main")' /\ call'[b].server = panel'.target
    OBVIOUS
  <2>1. CASE row.op = "delete" /\ row.step = "main" /\ row.server = panel'.target
    BY <1>2, <2>1 DEF Install!Waits
  <2>2. CASE /\ panel.modal = "delete" /\ panel'.target = panel.target
             /\ panel.target \in panel.hidden
             /\ ~(Install!Waits(c, "delete", "main") /\ call[c].server = panel.target)
    <3>1. PICK b \in Call : Install!Waits(b, "delete", "main") /\ call[b].server = panel.target
      BY <2>2 DEF InstallInv, InstallRemovalInv
    <3>2. b # c /\ call'[b] = call[b]
      BY <2>2, <3>1, InstallOthersStay DEF Install!Waits, InstallPolls
    <3> QED
      BY <2>2, <3>1, <3>2 DEF Install!Waits
  <2> QED
    BY <2>1, <2>2
<1> QED
  BY <1>4, <1>5, <1>6 DEF InstallRemovalInv

LEMMA InstallHiddenStays ==
  ASSUME InstallInv, NEW c \in Call, NEW row, InstallChanges(c, row),
         panel.gaveUp \subseteq panel'.gaveUp,
         \A s \in Server : controller.row[s] = "deleted" => controller'.row[s] = "deleted",
         \A s \in panel'.hidden : s \in panel.hidden \/ (InstallIsRemoval(row) /\ row.server = s),
         InstallIsRemoval(call[c]) /\ call[c].server \in panel'.hidden =>
           \/ controller'.row[call[c].server] = "deleted" \/ call[c].server \in panel'.gaveUp
           \/ InstallIsRemoval(row) /\ row.server = call[c].server
  PROVE  InstallHiddenInv'
<1> SUFFICES ASSUME NEW s \in panel'.hidden
             PROVE  \/ controller'.row[s] = "deleted" \/ s \in panel'.gaveUp
                    \/ \E b \in Call : InstallIsRemoval(call'[b]) /\ call'[b].server = s
  BY DEF InstallHiddenInv
<1>1. CASE InstallIsRemoval(row) /\ row.server = s
  BY <1>1 DEF InstallChanges
<1>2. CASE s \in panel.hidden
  <2>1. CASE controller.row[s] = "deleted" \/ s \in panel.gaveUp
    BY <1>2, <2>1 DEF InstallInv, Install!TypeOK, Install!Panel
  <2>2. ASSUME NEW b \in Call, InstallIsRemoval(call[b]), call[b].server = s
        PROVE  \/ controller'.row[s] = "deleted" \/ s \in panel'.gaveUp
               \/ \E k \in Call : InstallIsRemoval(call'[k]) /\ call'[k].server = s
    <3>1. CASE b = c
      BY <2>2, <3>1 DEF InstallChanges
    <3>2. CASE b # c
      <4>1. call'[b] = call[b]
        BY <2>2, <3>2, InstallOthersStay
      <4> QED
        BY <2>2, <4>1
    <3> QED
      BY <3>1, <3>2
  <2> QED
    BY <1>2, <2>1, <2>2 DEF InstallInv, InstallHiddenInv
<1> QED
  BY <1>1, <1>2

\* Who is deleted stays deleted.
InstallDeletedStay == \A s \in Server : controller.row[s] = "deleted" => controller'.row[s] = "deleted"

\* The modal stays, or is closed; and the polling is not touched.
InstallShownStays ==
  /\ \/ panel'.modal = panel.modal /\ panel'.target = panel.target
        /\ panel'.during = panel.during /\ panel'.opened = panel.opened
     \/ panel'.modal = "none"
  /\ panel'.command \in {panel.command, None} /\ panel'.close \in {panel.close, FALSE}
  /\ panel'.crossed = panel.crossed /\ panel'.timer = panel.timer

\* A call that touches neither the polling nor a generation.
LEMMA InstallCallKeeps ==
  ASSUME InstallInv, NEW c \in Call, NEW row \in Install!CallRow, InstallBecomes(c, row),
         panel' \in Install!Panel, controller' \in Install!Controller, InstallDeletedStay, InstallCleanedIsDeleted', InstallShownStays,
         row.step = "timer" => row.op = "poll",
         row.op \in {"generate", "poll"} =>
           /\ row.op = call[c].op /\ row.server = call[c].server
           /\ row.old = call[c].old /\ row.step \in {call[c].step, "list"}
           /\ row.op = "poll" => row.step = call[c].step,
         row.op \in {"edit", "delete", "watch"} => row.server \in Server,
         row.op = "delete" => /\ row.mode \in {"remote", "local"}
                              /\ row.step = "main" => row.n = 0
                              /\ row.n = 1 /\ row.mode = "local" =>
                                   controller'.row[row.server] = "deleted",
         InstallFormInv', InstallRemovalInv', InstallHiddenInv'
  PROVE  InstallInv'
<1>1. InstallChanges(c, row)
  BY DEF InstallBecomes, InstallChanges
<1>2. \A b \in Call : InstallRowIsAimed(b)'
  <2>1. row.op \in {"generate", "poll"} => row.server \in Server
    BY DEF InstallInv, InstallRowIsAimed
  <2>2. row.op = "poll" => row.step \in {"main", "timer"}
    BY DEF InstallInv, InstallRowIsAimed, InstallPolls
  <2> QED
    BY <1>1, <2>1, <2>2, InstallRowsStay DEF InstallDeletedStay
<1>3. InstallCommandInv'
  BY <1>1, InstallCommandStays DEF InstallShownStays, InstallGenerates
<1>4. InstallPollInv'
  BY InstallPollStays DEF InstallShownStays, InstallPolls
<1>5. Install!AutoCloseSparesNewCommands' /\ InstallModalIsOfAServer'
  BY DEF InstallInv, InstallShownStays, Install!AutoCloseSparesNewCommands,
     InstallModalIsOfAServer, Install!TypeOK, Install!Panel
<1> QED
  BY <1>2, <1>3, <1>4, <1>5 DEF InstallInv, Install!TypeOK, InstallBecomes

LEMMA InstallControllerStays ==
  ASSUME InstallInv, UNCHANGED controller
  PROVE  controller' \in Install!Controller /\ InstallDeletedStay /\ InstallCleanedIsDeleted'
BY DEF InstallInv, Install!TypeOK, InstallDeletedStay, InstallCleanedIsDeleted

\* A call that is no removal, or goes on as it was.
LEMMA InstallPlainKeeps ==
  ASSUME InstallInv, NEW c \in Call, NEW row \in Install!CallRow, InstallBecomes(c, row),
         panel' \in Install!Panel, controller' \in Install!Controller, InstallDeletedStay, InstallCleanedIsDeleted', InstallShownStays,
         row.step = "timer" => row.op = "poll",
         row.op \in {"generate", "poll"} =>
           /\ row.op = call[c].op /\ row.server = call[c].server
           /\ row.old = call[c].old /\ row.step \in {call[c].step, "list"}
           /\ row.op = "poll" => row.step = call[c].step,
         row.op = "edit" => row.server \in Server,
         row.op \in {"delete", "watch"} =>
           /\ row.op = call[c].op /\ row.server = call[c].server /\ row.mode = call[c].mode
           /\ row.step = call[c].step /\ (row.n = call[c].n \/ row.op = "watch"),
         InstallIsRemoval(call[c]) => InstallIsRemoval(row),
         panel'.hidden = panel.hidden, panel'.gone = panel.gone, panel'.gaveUp = panel.gaveUp,
         panel'.listed \cap panel.hidden = {},
         \/ panel'.submitting = panel.submitting /\ (InstallIsForm(row) => InstallIsForm(call[c]))
         \/ InstallIsForm(call[c]) /\ ~InstallIsForm(row)
         \/ ~panel.submitting /\ panel'.submitting
  PROVE  InstallInv'
<1>1. InstallChanges(c, row)
  BY DEF InstallBecomes, InstallChanges
<1>2. InstallFormInv'
  BY <1>1, InstallFormStays
<1>3. /\ InstallIsRemoval(row) => InstallIsRemoval(call[c])
      /\ InstallIsRemoval(row) => row.server = call[c].server
      /\ InstallIsRemoval(call[c]) => row.op = call[c].op /\ row.step = call[c].step
  BY DEF InstallIsRemoval
<1>4. InstallRemovalInv'
  <2>1. InstallIsRemoval(row) =>
          /\ row.server \in panel'.hidden \ panel'.gone
          /\ \A b \in Call \ {c} : InstallIsRemoval(call[b]) => call[b].server # row.server
    BY <1>3 DEF InstallInv, InstallRemovalInv
  <2>2. panel'.gone \subseteq panel'.hidden /\ panel'.hidden \cap panel'.listed = {}
    BY DEF InstallInv, InstallRemovalInv
  <2>3. panel'.modal = "delete" =>
           \/ panel'.target \notin panel'.hidden
           \/ row.op = "delete" /\ row.step = "main" /\ row.server = panel'.target
           \/ /\ panel.modal = "delete" /\ panel'.target = panel.target
              /\ panel.target \in panel.hidden
              /\ ~(Install!Waits(c, "delete", "main") /\ call[c].server = panel.target)
    BY <1>3 DEF InstallShownStays, Install!Waits, InstallIsRemoval
  <2> QED
    BY <1>1, <2>1, <2>2, <2>3, InstallRemovalStays
<1>5. InstallHiddenInv'
  BY <1>1, <1>3, InstallHiddenStays DEF InstallDeletedStay
<1>6. /\ row.op \in {"edit", "delete", "watch"} => row.server \in Server
      /\ row.op = "delete" => /\ row.mode \in {"remote", "local"}
                              /\ row.step = "main" => row.n = 0
                              /\ row.n = 1 /\ row.mode = "local" =>
                                   controller'.row[row.server] = "deleted"
  BY DEF InstallInv, InstallRowIsAimed, InstallDeletedStay, Install!Taken
<1> QED
  BY <1>2, <1>4, <1>5, <1>6, InstallCallKeeps

-----------------------------------------------------------------------------
(* Calls that are no removals. *)

LEMMA InstallRefreshKeeps == ASSUME InstallInv, NEW c \in Call, Install!Refresh(c) PROVE InstallInv'
<1> DEFINE row == [Install!NoCall EXCEPT !.op = "load"]
<1>1. call[c].op = "none" /\ call' = [call EXCEPT ![c] = row] /\ UNCHANGED <<panel, controller>>
  BY DEF Install!Refresh, Install!Free, Install!Start
<1>2. row \in Install!CallRow /\ row.op = "load" /\ row.step = "main"
  BY InstallNoCallIs DEF Install!CallRow
<1> HIDE DEF row
<1>3. InstallBecomes(c, row)
  BY <1>1, <1>2, InstallStartBecomes DEF InstallInv
<1> QED
  BY <1>1, <1>2, <1>3, InstallPlainKeeps, InstallControllerStays
  DEF InstallInv, Install!TypeOK, InstallShownStays, InstallIsForm, InstallIsRemoval,
     InstallRemovalInv

LEMMA InstallSubmitEditKeeps ==
  ASSUME InstallInv, NEW c \in Call, Install!SubmitEdit(c) PROVE InstallInv'
<1> DEFINE row == [Install!NoCall EXCEPT !.op = "edit", !.server = panel.target]
<1>1. /\ call[c].op = "none" /\ call' = [call EXCEPT ![c] = row] /\ UNCHANGED controller
      /\ panel.modal = "edit" /\ ~panel.submitting
      /\ panel' = [panel EXCEPT !.submitting = TRUE]
  BY DEF Install!SubmitEdit, Install!EditOffered, Install!Free, Install!Start
<1>2. panel.target \in Server
  BY <1>1 DEF InstallInv, InstallModalIsOfAServer
<1>3. row \in Install!CallRow /\ row.op = "edit" /\ row.step = "main" /\ row.server = panel.target
  BY <1>2, InstallNoCallIs DEF Install!CallRow
<1> HIDE DEF row
<1>4. InstallBecomes(c, row)
  BY <1>1, <1>3, InstallStartBecomes DEF InstallInv
<1>5. /\ panel' \in Install!Panel /\ InstallShownStays /\ panel'.submitting
      /\ panel'.hidden = panel.hidden /\ panel'.gone = panel.gone /\ panel'.gaveUp = panel.gaveUp
      /\ panel'.listed = panel.listed
  BY <1>1 DEF InstallInv, Install!TypeOK, Install!Panel, InstallShownStays
<1>6. panel'.listed \cap panel.hidden = {}
  BY <1>5 DEF InstallInv, InstallRemovalInv
<1> QED
  BY <1>1, <1>2, <1>3, <1>4, <1>5, <1>6, InstallPlainKeeps, InstallControllerStays DEF
     InstallIsForm, InstallIsRemoval

LEMMA InstallReadListKeeps ==
  ASSUME InstallInv, NEW c \in Call, Install!ReadList(c) PROVE InstallInv'
<1>1. PICK found \in BOOLEAN :
        call' = [call EXCEPT ![c].read = TRUE, ![c].rows = Install!Listed, ![c].found = found]
  BY DEF Install!ReadList
<1> DEFINE row == [call[c] EXCEPT !.read = TRUE, !.rows = Install!Listed, !.found = found]
<1>2. call[c] \in Install!CallRow /\ Install!Listed \in SUBSET Server
  BY DEF InstallInv, Install!TypeOK, Install!Listed
<1>3. /\ row \in Install!CallRow /\ row.op = call[c].op /\ row.step = call[c].step
      /\ row.server = call[c].server /\ row.mode = call[c].mode /\ row.n = call[c].n
      /\ row.old = call[c].old
  BY <1>2 DEF Install!CallRow
<1>4. call' = [call EXCEPT ![c] = row] /\ UNCHANGED <<panel, controller>>
  BY <1>1 DEF Install!ReadList, InstallInv, Install!TypeOK
<1> HIDE DEF row
<1>5. InstallBecomes(c, row)
  BY <1>3, <1>4, InstallStartBecomes DEF InstallInv
<1>6. /\ InstallIsRemoval(row) <=> InstallIsRemoval(call[c])
      /\ InstallIsForm(row) <=> InstallIsForm(call[c])
  BY <1>3 DEF InstallIsRemoval, InstallIsForm
<1>7. /\ row.op = "edit" => row.server \in Server
      /\ row.step = "timer" => row.op = "poll"
      /\ panel.listed \cap panel.hidden = {}
  BY <1>3 DEF InstallInv, InstallRowIsAimed, InstallPolls, InstallRemovalInv
<1> QED
  BY <1>3, <1>4, <1>5, <1>6, <1>7, InstallPlainKeeps, InstallControllerStays DEF InstallInv,
     Install!TypeOK, InstallShownStays

LEMMA InstallSetVisibleIs ==
  ASSUME NEW p \in Install!Panel, NEW rows \in SUBSET Server
  PROVE  /\ Install!SetVisible(p, rows) \in Install!Panel
         /\ Install!SetVisible(p, rows) = [p EXCEPT !.listed = rows \ p.hidden]
BY DEF Install!SetVisible, Install!Panel

\* A list is shown, or none, and the form may be released.
LEMMA InstallListKeeps ==
  ASSUME InstallInv, NEW c \in Call, InstallBecomes(c, Install!NoCall), UNCHANGED controller,
         NEW p \in {panel, Install!SetVisible(panel, call[c].rows)}, NEW submitting \in BOOLEAN,
         panel' = [p EXCEPT !.submitting = submitting],
         ~InstallIsRemoval(call[c]),
         submitting = panel.submitting \/ InstallIsForm(call[c])
  PROVE  InstallInv'
<1>1. call[c].rows \in SUBSET Server /\ panel \in Install!Panel
  BY DEF InstallInv, Install!TypeOK, Install!CallRow
<1>2. /\ p \in Install!Panel
      /\ p = panel \/ p = [panel EXCEPT !.listed = call[c].rows \ panel.hidden]
  BY <1>1, InstallSetVisibleIs
<1>3. /\ p.listed \cap panel.hidden = {}
      /\ p.modal = panel.modal /\ p.target = panel.target
      /\ p.during = panel.during /\ p.opened = panel.opened
      /\ p.command = panel.command /\ p.close = panel.close
      /\ p.crossed = panel.crossed /\ p.timer = panel.timer
      /\ p.submitting = panel.submitting
      /\ p.hidden = panel.hidden /\ p.gone = panel.gone /\ p.gaveUp = panel.gaveUp
  <2>1. CASE p = panel
    BY <2>1 DEF InstallInv, InstallRemovalInv
  <2>2. CASE p = [panel EXCEPT !.listed = call[c].rows \ panel.hidden]
    BY <1>1, <2>2 DEF Install!Panel
  <2> QED
    BY <1>2, <2>1, <2>2
<1>4. /\ panel' \in Install!Panel /\ InstallShownStays /\ panel'.submitting = submitting
      /\ panel'.listed = p.listed
      /\ panel'.hidden = panel.hidden /\ panel'.gone = panel.gone /\ panel'.gaveUp = panel.gaveUp
  BY <1>2, <1>3 DEF Install!Panel, InstallShownStays
<1> QED
  BY <1>3, <1>4, InstallNoCallIs, InstallPlainKeeps, InstallControllerStays

LEMMA InstallListLoadedKeeps ==
  ASSUME InstallInv, NEW c \in Call, Install!ListLoaded(c) PROVE InstallInv'
<1>1. /\ call[c].op = "load" /\ call' = [call EXCEPT ![c] = Install!NoCall] /\ UNCHANGED controller
      /\ panel' = panel \/ panel' = Install!SetVisible(panel, call[c].rows)
  BY DEF Install!ListLoaded, Install!Waits, Install!Finish
<1>2. InstallBecomes(c, Install!NoCall)
  BY <1>1, InstallNoCallIs, InstallStartBecomes DEF InstallInv
<1>3. ~InstallIsRemoval(call[c])
  BY <1>1 DEF InstallIsRemoval
<1>4. /\ panel.submitting \in BOOLEAN
      /\ panel' = [panel' EXCEPT !.submitting = panel.submitting]
  <2>1. panel \in Install!Panel /\ call[c].rows \in SUBSET Server
    BY DEF InstallInv, Install!TypeOK, Install!CallRow
  <2>2. panel' \in Install!Panel /\ panel'.submitting = panel.submitting
    <3>1. CASE panel' = panel
      BY <2>1, <3>1
    <3>2. CASE panel' = Install!SetVisible(panel, call[c].rows)
      BY <2>1, <3>2 DEF Install!SetVisible, Install!Panel
    <3> QED
      BY <1>1, <3>1, <3>2
  <2> QED
    BY <2>1, <2>2 DEF Install!Panel
<1> QED
  BY <1>1, <1>2, <1>3, <1>4, InstallListKeeps

LEMMA InstallTakeGenerateIs ==
  ASSUME InstallInv, NEW s \in Server, Install!TakeGenerate(s)
  PROVE  controller' \in Install!Controller /\ InstallDeletedStay /\ InstallCleanedIsDeleted'
<1> DEFINE rows == [controller.row EXCEPT ![s] = IF @ = "absent" THEN "away" ELSE @]
<1>1. controller' = [controller EXCEPT !.row = rows] /\ controller.row[s] # "deleted"
  BY DEF Install!TakeGenerate, InstallInv, Install!TypeOK, Install!Controller
<1>2. /\ rows \in [Server -> Install!Row]
      /\ \A t \in Server : rows[t] = controller.row[t] \/ (controller.row[t] # "deleted" /\ t = s)
  BY <1>1 DEF InstallInv, Install!TypeOK, Install!Controller, Install!Row
<1> HIDE DEF rows
<1>3. controller' \in Install!Controller /\ controller'.row = rows /\ controller'.cleanup = controller.cleanup
  BY <1>1, <1>2 DEF InstallInv, Install!TypeOK, Install!Controller
<1> QED
  BY <1>2, <1>3 DEF InstallDeletedStay, InstallCleanedIsDeleted, InstallInv

LEMMA InstallFlowFailsKeeps ==
  ASSUME InstallInv, NEW c \in Call, Install!FlowFails(c), InstallIsForm(call[c]),
         ~InstallIsRemoval(call[c]),
         controller' \in Install!Controller, InstallDeletedStay, InstallCleanedIsDeleted'
  PROVE  InstallInv'
<1>1. panel' = [panel EXCEPT !.submitting = FALSE] /\ call' = [call EXCEPT ![c] = Install!NoCall]
  BY DEF Install!FlowFails, Install!Finish
<1>2. InstallBecomes(c, Install!NoCall)
  BY <1>1, InstallNoCallIs, InstallStartBecomes DEF InstallInv
<1>3. /\ panel' \in Install!Panel /\ InstallShownStays /\ panel'.listed = panel.listed
      /\ panel'.hidden = panel.hidden /\ panel'.gone = panel.gone /\ panel'.gaveUp = panel.gaveUp
  BY <1>1 DEF InstallInv, Install!TypeOK, Install!Panel, InstallShownStays
<1>4. panel'.listed \cap panel.hidden = {}
  BY <1>3 DEF InstallInv, InstallRemovalInv
<1> QED
  BY <1>2, <1>3, <1>4, InstallNoCallIs, InstallPlainKeeps

LEMMA InstallEditFailsKeeps ==
  ASSUME InstallInv, NEW c \in Call, Install!EditFails(c) PROVE InstallInv'
<1>1. call[c].op = "edit" /\ Install!FlowFails(c) /\ UNCHANGED controller
  BY DEF Install!EditFails, Install!Waits
<1> QED
  BY <1>1, InstallFlowFailsKeeps, InstallControllerStays DEF InstallIsForm, InstallIsRemoval

LEMMA InstallCommandRefusedKeeps ==
  ASSUME InstallInv, NEW c \in Call, Install!CommandRefused(c) PROVE InstallInv'
<1>1. /\ call[c].op = "generate" /\ Install!FlowFails(c)
      /\ Install!TakeGenerate(call[c].server) \/ UNCHANGED controller
  BY DEF Install!CommandRefused, Install!Waits
<1>2. call[c].server \in Server
  BY <1>1 DEF InstallInv, InstallRowIsAimed
<1>3. controller' \in Install!Controller /\ InstallDeletedStay /\ InstallCleanedIsDeleted'
  BY <1>1, <1>2, InstallTakeGenerateIs, InstallControllerStays
<1> QED
  BY <1>1, <1>3, InstallFlowFailsKeeps DEF InstallIsForm, InstallIsRemoval

LEMMA InstallCommandGeneratedKeeps ==
  ASSUME InstallInv, NEW c \in Call, Install!CommandGenerated(c) PROVE InstallInv'
<1> DEFINE row == [call[c] EXCEPT !.step = "list"]
           s == call[c].server
<1>1. /\ call[c].op = "generate" /\ Install!TakeGenerate(s)
      /\ call' = [call EXCEPT ![c] = row] /\ panel' = [panel EXCEPT !.command = s]
  BY DEF Install!CommandGenerated, Install!Waits, Install!ThenList, Install!Start
<1>2. call[c].server \in Server /\ call[c] \in Install!CallRow
  BY <1>1 DEF InstallInv, InstallRowIsAimed, Install!TypeOK
<1>3. row \in Install!CallRow /\ row.op = "generate" /\ row.step = "list" /\ row.server = s
  BY <1>1, <1>2 DEF Install!CallRow
<1> HIDE DEF row
<1>4. InstallBecomes(c, row) /\ InstallChanges(c, row)
  BY <1>1, <1>3, InstallStartBecomes DEF InstallInv
<1>5. controller' \in Install!Controller /\ InstallDeletedStay /\ InstallCleanedIsDeleted'
  BY <1>1, <1>2, InstallTakeGenerateIs
<1>6. /\ panel' \in Install!Panel /\ panel'.command = s
      /\ panel'.modal = panel.modal /\ panel'.target = panel.target
      /\ panel'.during = panel.during /\ panel'.opened = panel.opened
      /\ panel'.close = panel.close /\ panel'.submitting = panel.submitting
      /\ panel'.crossed = panel.crossed /\ panel'.timer = panel.timer
      /\ panel'.hidden = panel.hidden /\ panel'.gone = panel.gone /\ panel'.gaveUp = panel.gaveUp
      /\ panel'.listed = panel.listed
  BY <1>1, <1>2 DEF InstallInv, Install!TypeOK, Install!Panel
<1>7. /\ InstallIsForm(row) /\ InstallIsForm(call[c]) /\ ~InstallIsRemoval(row) /\ ~InstallIsRemoval(call[c])
      /\ ~Install!Waits(c, "delete", "main")
  BY <1>1, <1>3 DEF InstallIsForm, InstallIsRemoval, Install!Waits
<1>8. \A b \in Call : InstallRowIsAimed(b)'
  BY <1>2, <1>3, <1>4, <1>5, InstallRowsStay DEF InstallDeletedStay
<1>9. InstallCommandInv'
  BY <1>1, <1>3, <1>4, <1>6, InstallCommandStays DEF InstallGenerates
<1>10. InstallPollInv'
  BY <1>3, <1>4, <1>6, InstallPollStays
<1>11. InstallFormInv'
  BY <1>4, <1>6, <1>7, InstallFormStays
<1>12. InstallRemovalInv'
  <2>1. panel.gone \subseteq panel.hidden /\ panel.hidden \cap panel.listed = {}
    BY DEF InstallInv, InstallRemovalInv
  <2> QED
    BY <1>4, <1>6, <1>7, <2>1, InstallRemovalStays
<1>13. InstallHiddenInv'
  BY <1>4, <1>5, <1>6, <1>7, InstallHiddenStays DEF InstallDeletedStay
<1>14. Install!AutoCloseSparesNewCommands' /\ InstallModalIsOfAServer'
  BY <1>6 DEF InstallInv, Install!AutoCloseSparesNewCommands, InstallModalIsOfAServer
<1> QED
  BY <1>4, <1>5, <1>6, <1>8, <1>9, <1>10, <1>11, <1>12, <1>13, <1>14
  DEF InstallInv, Install!TypeOK, InstallBecomes

LEMMA InstallCloseModalIs ==
  ASSUME NEW p \in Install!Panel
  PROVE  /\ Install!CloseModal(p) \in Install!Panel /\ Install!CloseModal(p).modal = "none"
         /\ Install!CloseModal(p).command = None /\ Install!CloseModal(p).close = FALSE
         /\ Install!CloseModal(p).submitting = p.submitting /\ Install!CloseModal(p).listed = p.listed
         /\ Install!CloseModal(p).hidden = p.hidden /\ Install!CloseModal(p).gone = p.gone
         /\ Install!CloseModal(p).gaveUp = p.gaveUp
         /\ Install!CloseModal(p).crossed = p.crossed /\ Install!CloseModal(p).timer = p.timer
<1> DEFINE q == Install!ClearAutoClose(p)
<1>1. /\ q \in Install!Panel /\ q.close = FALSE
      /\ q.submitting = p.submitting /\ q.listed = p.listed
      /\ q.hidden = p.hidden /\ q.gone = p.gone /\ q.gaveUp = p.gaveUp
      /\ q.crossed = p.crossed /\ q.timer = p.timer
  BY DEF Install!ClearAutoClose, Install!Panel
<1> HIDE DEF q
<1> DEFINE r == [q EXCEPT !.modal = "none", !.target = None, !.command = None]
<1>2. /\ r \in Install!Panel /\ r.modal = "none" /\ r.command = None /\ r.close = FALSE
      /\ r.submitting = p.submitting /\ r.listed = p.listed
      /\ r.hidden = p.hidden /\ r.gone = p.gone /\ r.gaveUp = p.gaveUp
      /\ r.crossed = p.crossed /\ r.timer = p.timer
  BY <1>1 DEF Install!Panel
<1>3. Install!CloseModal(p) = [r EXCEPT !.deleteMode = "remote", !.opened = FALSE, !.during = FALSE]
  BY <1>1 DEF Install!CloseModal, q, Install!Panel
<1> HIDE DEF r
<1> QED
  BY ZenonT(40), <1>2, <1>3 DEF Install!Panel

LEMMA InstallEditSavedKeeps ==
  ASSUME InstallInv, NEW c \in Call, Install!EditSaved(c) PROVE InstallInv'
<1> DEFINE row == [call[c] EXCEPT !.step = "list"]
<1>1. /\ call[c].op = "edit" /\ UNCHANGED controller
      /\ call' = [call EXCEPT ![c] = row] /\ panel' = Install!CloseModal(panel)
  BY DEF Install!EditSaved, Install!Waits, Install!ThenList, Install!Start
<1>2. call[c].server \in Server /\ call[c] \in Install!CallRow
  BY <1>1 DEF InstallInv, InstallRowIsAimed, Install!TypeOK
<1>3. /\ row \in Install!CallRow /\ row.op = "edit" /\ row.step = "list" /\ row.server = call[c].server
  BY <1>1, <1>2 DEF Install!CallRow
<1> HIDE DEF row
<1>4. InstallBecomes(c, row)
  BY <1>1, <1>3, InstallStartBecomes DEF InstallInv
<1>5. /\ panel' \in Install!Panel /\ InstallShownStays /\ panel'.submitting = panel.submitting
      /\ panel'.listed = panel.listed
      /\ panel'.hidden = panel.hidden /\ panel'.gone = panel.gone /\ panel'.gaveUp = panel.gaveUp
  BY <1>1, InstallCloseModalIs DEF InstallInv, Install!TypeOK, InstallShownStays
<1>6. panel'.listed \cap panel.hidden = {}
  BY <1>5 DEF InstallInv, InstallRemovalInv
<1>7. InstallIsForm(row) /\ InstallIsForm(call[c]) /\ ~InstallIsRemoval(call[c])
  BY <1>1, <1>3 DEF InstallIsForm, InstallIsRemoval
<1> QED
  BY <1>1, <1>2, <1>3, <1>4, <1>5, <1>6, <1>7, InstallPlainKeeps, InstallControllerStays

-----------------------------------------------------------------------------
(* The modals, and the servers: no call changes. *)

LEMMA InstallModalKeeps ==
  ASSUME InstallInv, UNCHANGED <<call, controller>>, panel' \in Install!Panel,
         panel'.crossed = panel.crossed, panel'.timer = panel.timer,
         panel'.submitting = panel.submitting, panel'.listed = panel.listed,
         panel'.hidden = panel.hidden, panel'.gone = panel.gone, panel'.gaveUp = panel.gaveUp,
         InstallCommandInv', Install!AutoCloseSparesNewCommands', InstallModalIsOfAServer',
         panel'.modal = "delete" => panel'.target \in panel.listed
  PROVE  InstallInv'
<1>1. Install!TypeOK' /\ \A c \in Call : InstallRowIsAimed(c)'
  BY DEF InstallInv, Install!TypeOK, InstallRowIsAimed, InstallPolls, Install!Taken
<1>2. InstallPollInv'
  BY DEF InstallInv, InstallPollInv, InstallPolls
<1>3. InstallFormInv'
  BY DEF InstallInv, InstallFormInv
<1>4. InstallRemovalInv'
  BY DEF InstallInv, InstallRemovalInv, Install!Waits
<1>5. InstallHiddenInv' /\ InstallCleanedIsDeleted'
  BY DEF InstallInv, InstallHiddenInv, InstallCleanedIsDeleted
<1> QED
  BY <1>1, <1>2, <1>3, <1>4, <1>5 DEF InstallInv

LEMMA InstallOpenKeeps ==
  ASSUME InstallInv, NEW modal \in {"add", "workerCommand", "edit"}, NEW s \in Server \cup {None},
         modal # "add" => s \in Server, Install!Open(modal, s)
  PROVE  InstallInv'
<1> DEFINE p == IF modal \in {"add", "workerCommand"} THEN Install!ClearAutoClose(panel) ELSE panel
           during == \E c \in Call : InstallGenerates(c)
<1>1. /\ panel.modal = "none" /\ UNCHANGED <<call, controller>>
      /\ panel' = [p EXCEPT !.modal = modal, !.target = s, !.command = None,
                            !.opened = panel.close, !.during = during]
  BY DEF Install!Open, InstallGenerates
<1>2. /\ p \in Install!Panel
      /\ p.crossed = panel.crossed /\ p.timer = panel.timer
      /\ p.submitting = panel.submitting /\ p.listed = panel.listed
      /\ p.hidden = panel.hidden /\ p.gone = panel.gone /\ p.gaveUp = panel.gaveUp
      /\ modal \in {"add", "workerCommand"} => p.close = FALSE
  <2>1. panel \in Install!Panel
    BY DEF InstallInv, Install!TypeOK
  <2>2. CASE modal \in {"add", "workerCommand"}
    <3>1. p = [panel EXCEPT !.close = FALSE]
      BY <2>2 DEF Install!ClearAutoClose
    <3> HIDE DEF p
    <3> QED
      BY <2>1, <3>1 DEF Install!Panel
  <2>3. CASE modal \notin {"add", "workerCommand"}
    BY <2>1, <2>3
  <2> QED
    BY <2>2, <2>3
<1>3. during \in BOOLEAN /\ panel.close \in BOOLEAN
  BY DEF InstallInv, Install!TypeOK, Install!Panel
<1> HIDE DEF p
<1>4. /\ panel' \in Install!Panel /\ panel'.modal = modal /\ panel'.target = s /\ panel'.command = None
      /\ panel'.close = p.close /\ panel'.during = during
      /\ panel'.crossed = panel.crossed /\ panel'.timer = panel.timer
      /\ panel'.submitting = panel.submitting /\ panel'.listed = panel.listed
      /\ panel'.hidden = panel.hidden /\ panel'.gone = panel.gone /\ panel'.gaveUp = panel.gaveUp
  <2> DEFINE q == [p EXCEPT !.modal = modal, !.target = s, !.command = None]
  <2>1. /\ q \in Install!Panel /\ q.modal = modal /\ q.target = s /\ q.command = None
        /\ q.close = p.close /\ q.crossed = p.crossed /\ q.timer = p.timer
        /\ q.submitting = p.submitting /\ q.listed = p.listed
        /\ q.hidden = p.hidden /\ q.gone = p.gone /\ q.gaveUp = p.gaveUp
    BY <1>2 DEF Install!Panel
  <2>2. panel' = [[q EXCEPT !.opened = panel.close] EXCEPT !.during = during]
    BY <1>1
  <2> HIDE DEF q, during
  <2> DEFINE r == [q EXCEPT !.opened = panel.close]
  <2>3. /\ r \in Install!Panel /\ r.modal = modal /\ r.target = s /\ r.command = None
        /\ r.close = p.close /\ r.crossed = p.crossed /\ r.timer = p.timer
        /\ r.submitting = p.submitting /\ r.listed = p.listed
        /\ r.hidden = p.hidden /\ r.gone = p.gone /\ r.gaveUp = p.gaveUp
    BY <1>3, <2>1 DEF Install!Panel
  <2>4. panel' = [r EXCEPT !.during = during]
    BY <2>2
  <2> HIDE DEF r
  <2> QED
    BY <1>2, <1>3, <2>3, <2>4 DEF Install!Panel
<1>5. InstallCommandInv'
  <2> SUFFICES ASSUME ~during
               PROVE  \A c \in Call : ~InstallGenerates(c)'
    BY <1>4 DEF InstallCommandInv
  <2> QED
    BY <1>1 DEF InstallGenerates
<1>6. Install!AutoCloseSparesNewCommands' /\ InstallModalIsOfAServer'
  BY <1>2, <1>4 DEF Install!AutoCloseSparesNewCommands, InstallModalIsOfAServer
<1> QED
  BY <1>1, <1>4, <1>5, <1>6, InstallModalKeeps

LEMMA InstallOpensKeep ==
  ASSUME InstallInv,
         Install!OpenAddServer \/ \E s \in Server : Install!OpenWorkerCommand(s) \/ Install!OpenEdit(s) \/ Install!OpenDelete(s)
  PROVE  InstallInv'
<1>1. CASE Install!OpenAddServer
  BY <1>1, InstallOpenKeeps DEF Install!OpenAddServer
<1>2. ASSUME NEW s \in Server, Install!OpenWorkerCommand(s) PROVE InstallInv'
  BY <1>2, InstallOpenKeeps DEF Install!OpenWorkerCommand
<1>3. ASSUME NEW s \in Server, Install!OpenEdit(s) PROVE InstallInv'
  BY <1>3, InstallOpenKeeps DEF Install!OpenEdit
<1>4. ASSUME NEW s \in Server, Install!OpenDelete(s) PROVE InstallInv'
  <2>1. PICK how \in {"remote", "local"} :
          panel' = [panel EXCEPT !.modal = "delete", !.target = s, !.deleteMode = how,
                                 !.opened = panel.close]
    BY <1>4 DEF Install!OpenDelete
  <2>2. UNCHANGED <<call, controller>> /\ s \in panel.listed
    BY <1>4 DEF Install!OpenDelete, Install!RowButtons
  <2>3. /\ panel' \in Install!Panel /\ panel'.modal = "delete" /\ panel'.target = s
        /\ panel'.crossed = panel.crossed /\ panel'.timer = panel.timer
        /\ panel'.submitting = panel.submitting /\ panel'.listed = panel.listed
        /\ panel'.hidden = panel.hidden /\ panel'.gone = panel.gone
        /\ panel'.gaveUp = panel.gaveUp
    BY <2>1 DEF InstallInv, Install!TypeOK, Install!Panel
  <2>4. InstallCommandInv' /\ Install!AutoCloseSparesNewCommands' /\ InstallModalIsOfAServer'
    BY <2>3 DEF InstallCommandInv, Install!AutoCloseSparesNewCommands, InstallModalIsOfAServer
  <2> QED
    BY <2>2, <2>3, <2>4, InstallModalKeeps
<1> QED
  BY <1>1, <1>2, <1>3, <1>4

LEMMA InstallCloseKeeps == ASSUME InstallInv, Install!Cancel \/ Install!AutoClose PROVE InstallInv'
<1>1. panel' = Install!CloseModal(panel) /\ UNCHANGED <<call, controller>>
  BY DEF Install!Cancel, Install!AutoClose
<1>2. /\ panel' \in Install!Panel /\ panel'.modal = "none"
      /\ panel'.crossed = panel.crossed /\ panel'.timer = panel.timer
      /\ panel'.submitting = panel.submitting /\ panel'.listed = panel.listed
      /\ panel'.hidden = panel.hidden /\ panel'.gone = panel.gone /\ panel'.gaveUp = panel.gaveUp
  BY <1>1, InstallCloseModalIs DEF InstallInv, Install!TypeOK
<1>3. InstallCommandInv' /\ Install!AutoCloseSparesNewCommands' /\ InstallModalIsOfAServer'
  BY <1>2 DEF InstallCommandInv, Install!AutoCloseSparesNewCommands, InstallModalIsOfAServer
<1> QED
  BY <1>1, <1>2, <1>3, InstallModalKeeps

LEMMA InstallServerKeeps ==
  ASSUME InstallInv, NEW s \in Server, Install!WorkerComesUp(s) \/ Install!CleanupEnds(s)
  PROVE  InstallInv'
<1>1. UNCHANGED <<panel, call>>
  BY DEF Install!WorkerComesUp, Install!CleanupEnds
<1>2. controller' \in Install!Controller /\ InstallDeletedStay /\ InstallCleanedIsDeleted'
  <2>1. CASE Install!WorkerComesUp(s)
    <3> DEFINE rows == [controller.row EXCEPT ![s] = "online"]
    <3>1. /\ rows \in [Server -> Install!Row] /\ controller.row[s] # "deleted"
          /\ \A t \in Server \ {s} : rows[t] = controller.row[t]
      BY <2>1 DEF Install!WorkerComesUp, InstallInv, Install!TypeOK, Install!Controller, Install!Row
    <3>2. controller' = [controller EXCEPT !.row = rows]
      BY <2>1 DEF Install!WorkerComesUp, InstallInv, Install!TypeOK, Install!Controller
    <3> HIDE DEF rows
    <3>3. /\ controller' \in Install!Controller /\ controller'.row = rows
          /\ controller'.cleanup = controller.cleanup
      BY <3>1, <3>2 DEF InstallInv, Install!TypeOK, Install!Controller
    <3> QED
      BY <3>1, <3>3 DEF InstallInv, InstallDeletedStay, InstallCleanedIsDeleted
  <2>2. ASSUME NEW status \in {"failed", "succeeded"}, NEW rows \in [Server -> Install!Row],
               controller' = [controller EXCEPT !.cleanup[s] = status, !.row = rows],
               rows[s] = "deleted" \/ (status = "failed" /\ rows[s] = controller.row[s]),
               \A t \in Server \ {s} : rows[t] = controller.row[t]
        PROVE  controller' \in Install!Controller /\ InstallDeletedStay /\ InstallCleanedIsDeleted'
    <3> DEFINE ends == [controller.cleanup EXCEPT ![s] = status]
    <3>1. /\ ends \in [Server -> {"none", "running", "succeeded", "failed"}]
          /\ ends[s] = status /\ \A t \in Server \ {s} : ends[t] = controller.cleanup[t]
      BY DEF InstallInv, Install!TypeOK, Install!Controller
    <3>2. controller' = [controller EXCEPT !.cleanup = ends, !.row = rows]
      BY <2>2 DEF InstallInv, Install!TypeOK, Install!Controller
    <3> HIDE DEF ends
    <3>3. /\ controller' \in Install!Controller /\ controller'.row = rows /\ controller'.cleanup = ends
      BY <3>1, <3>2 DEF InstallInv, Install!TypeOK, Install!Controller
    <3> QED
      BY <2>2, <3>1, <3>3 DEF InstallInv, InstallDeletedStay, InstallCleanedIsDeleted
  <2>3. CASE Install!CleanupEnds(s)
    <3>1. controller.row \in [Server -> Install!Row]
      BY DEF InstallInv, Install!TypeOK, Install!Controller
    <3>2. CASE controller' = [controller EXCEPT !.cleanup[s] = "failed"]
      <4>1. controller' = [controller EXCEPT !.cleanup[s] = "failed", !.row = controller.row]
        BY <3>2 DEF InstallInv, Install!TypeOK, Install!Controller
      <4> QED
        BY <2>2, <3>1, <4>1
    <3>3. CASE controller' = [controller EXCEPT !.cleanup[s] = "succeeded", !.row[s] = "deleted"]
      <4> DEFINE rows == [controller.row EXCEPT ![s] = "deleted"]
      <4>1. controller' = [controller EXCEPT !.cleanup[s] = "succeeded", !.row = rows]
        BY <3>3 DEF InstallInv, Install!TypeOK, Install!Controller
      <4>2. /\ rows \in [Server -> Install!Row] /\ rows[s] = "deleted"
            /\ \A t \in Server \ {s} : rows[t] = controller.row[t]
        BY <3>1 DEF Install!Row
      <4> HIDE DEF rows
      <4> QED
        BY <2>2, <4>1, <4>2
    <3> QED
      BY <2>3, <3>2, <3>3 DEF Install!CleanupEnds
  <2> QED
    BY <2>1, <2>3
<1>3. \A c \in Call : InstallRowIsAimed(c)'
  BY <1>1, <1>2 DEF InstallInv, InstallRowIsAimed, InstallPolls, Install!Taken, InstallDeletedStay
<1>4. InstallCommandInv' /\ Install!AutoCloseSparesNewCommands' /\ InstallPollInv' /\ InstallFormInv' /\ InstallRemovalInv'
      /\ InstallModalIsOfAServer'
  BY <1>1 DEF InstallInv, InstallCommandInv, Install!AutoCloseSparesNewCommands, InstallPollInv,
     InstallFormInv, InstallRemovalInv,
     InstallModalIsOfAServer, InstallGenerates, InstallPolls, Install!Waits
<1>5. InstallHiddenInv'
  BY <1>1, <1>2 DEF InstallInv, Install!TypeOK, Install!Panel, InstallHiddenInv, InstallDeletedStay
<1> QED
  BY <1>1, <1>2, <1>3, <1>4, <1>5 DEF InstallInv, Install!TypeOK

-----------------------------------------------------------------------------
(* The removal. *)

LEMMA InstallTakeDeleteIs ==
  ASSUME InstallInv, NEW s \in Server, NEW how \in {"remote", "local"}, Install!TakeDelete(s, how)
  PROVE  /\ controller' \in Install!Controller /\ InstallDeletedStay /\ InstallCleanedIsDeleted'
         /\ how = "local" => controller'.row[s] = "deleted"
<1>1. CASE how = "remote"
  <2> DEFINE ends == [controller.cleanup EXCEPT ![s] = "running"]
  <2>1. controller' = [controller EXCEPT !.cleanup = ends]
    BY <1>1 DEF Install!TakeDelete, InstallInv, Install!TypeOK, Install!Controller
  <2>2. /\ ends \in [Server -> {"none", "running", "succeeded", "failed"}]
        /\ ends[s] = "running" /\ \A t \in Server \ {s} : ends[t] = controller.cleanup[t]
    BY DEF InstallInv, Install!TypeOK, Install!Controller
  <2> HIDE DEF ends
  <2>3. /\ controller' \in Install!Controller /\ controller'.cleanup = ends
        /\ controller'.row = controller.row
    BY <2>1, <2>2 DEF InstallInv, Install!TypeOK, Install!Controller
  <2> QED
    BY <1>1, <2>2, <2>3 DEF InstallInv, InstallDeletedStay, InstallCleanedIsDeleted
<1>2. CASE how = "local"
  <2> DEFINE rows == [controller.row EXCEPT ![s] = "deleted"]
  <2>1. controller' = [controller EXCEPT !.row = rows]
    BY <1>2 DEF Install!TakeDelete, InstallInv, Install!TypeOK, Install!Controller
  <2>2. /\ rows \in [Server -> Install!Row] /\ rows[s] = "deleted"
        /\ \A t \in Server \ {s} : rows[t] = controller.row[t]
    BY DEF InstallInv, Install!TypeOK, Install!Controller, Install!Row
  <2> HIDE DEF rows
  <2>3. /\ controller' \in Install!Controller /\ controller'.row = rows
        /\ controller'.cleanup = controller.cleanup
    BY <2>1, <2>2 DEF InstallInv, Install!TypeOK, Install!Controller
  <2> QED
    BY <2>2, <2>3 DEF InstallInv, InstallDeletedStay, InstallCleanedIsDeleted
<1> QED
  BY <1>1, <1>2

LEMMA InstallReleaseIs ==
  ASSUME NEW p \in Install!Panel, NEW s
  PROVE  /\ Install!Release(p, s) = [p EXCEPT !.hidden = p.hidden \ {s}]
         /\ Install!Release(p, s) \in Install!Panel
BY DEF Install!Release, Install!Panel

\* A removal that is given up brings its row back: none other is of its server.
LEMMA InstallReleasedKeeps ==
  ASSUME InstallInv, NEW c \in Call, InstallIsRemoval(call[c]),
         NEW row \in Install!CallRow, InstallBecomes(c, row), ~InstallIsRemoval(row), row.op = call[c].op,
         row.step = "list", row.server = call[c].server, row.mode = call[c].mode,
         row.op = "delete" => row.n # 1,
         panel' \in Install!Panel, InstallShownStays, controller' \in Install!Controller, InstallDeletedStay, InstallCleanedIsDeleted',
         panel'.hidden = panel.hidden \ {call[c].server},
         panel'.listed = panel.listed, panel'.gone = panel.gone, panel'.gaveUp = panel.gaveUp,
         panel'.submitting = panel.submitting
  PROVE  InstallInv'
<1> DEFINE s == call[c].server
<1>1. InstallChanges(c, row)
  BY DEF InstallBecomes, InstallChanges
<1>2. s \in panel.hidden \ panel.gone /\ s \in Server /\ call[c].op \in {"delete", "watch"}
  BY DEF InstallInv, InstallRemovalInv, InstallRowIsAimed, InstallIsRemoval
<1>3. InstallIsForm(row) <=> InstallIsForm(call[c])
  BY DEF InstallIsForm
<1>4. InstallFormInv'
  BY <1>1, <1>3, InstallFormStays
<1>5. InstallRemovalInv'
  <2>1. panel'.gone \subseteq panel'.hidden /\ panel'.hidden \cap panel'.listed = {}
    BY <1>2 DEF InstallInv, InstallRemovalInv
  <2>2. \A t \in panel.hidden : t \in panel'.hidden \/ t = s
    OBVIOUS
  <2>3. panel'.modal = "delete" =>
          \/ panel'.target \notin panel'.hidden
          \/ /\ panel.modal = "delete" /\ panel'.target = panel.target
             /\ panel.target \in panel.hidden
             /\ ~(Install!Waits(c, "delete", "main") /\ call[c].server = panel.target)
    BY DEF InstallShownStays
  <2> QED
    BY <1>1, <2>1, <2>2, <2>3, InstallRemovalStays
<1>6. InstallHiddenInv'
  BY <1>1, InstallHiddenStays DEF InstallDeletedStay
<1>7. /\ row.op \in {"edit", "delete", "watch"} => row.server \in Server
      /\ row.op = "delete" => row.mode \in {"remote", "local"}
  BY <1>2 DEF InstallInv, InstallRowIsAimed
<1> QED
  BY <1>2, <1>4, <1>5, <1>6, <1>7, InstallCallKeeps

LEMMA InstallDeleteRefusedKeeps ==
  ASSUME InstallInv, NEW c \in Call, Install!DeleteRefused(c) PROVE InstallInv'
<1> DEFINE s == call[c].server
           row == [call[c] EXCEPT !.step = "list"]
           p == Install!Release(panel, s)
<1>1. /\ call[c].op = "delete" /\ call[c].step = "main" /\ call' = [call EXCEPT ![c] = row]
      /\ Install!TakeDelete(s, call[c].mode) \/ UNCHANGED controller
  BY DEF Install!DeleteRefused, Install!Waits, Install!ThenList, Install!Start
<1>2. PICK how \in {"remote", "local"} : panel' = [p EXCEPT !.deleteMode = how]
  BY DEF Install!DeleteRefused, InstallInv, Install!TypeOK, Install!Panel
<1>3. /\ s \in Server /\ call[c].mode \in {"remote", "local"} /\ call[c].n = 0
      /\ call[c] \in Install!CallRow
  BY <1>1 DEF InstallInv, InstallRowIsAimed, Install!TypeOK
<1>4. /\ row \in Install!CallRow /\ row.op = "delete" /\ row.step = "list" /\ row.server = s
      /\ row.mode = call[c].mode /\ row.n = 0
  BY <1>1, <1>3 DEF Install!CallRow
<1> HIDE DEF row
<1>5. InstallBecomes(c, row)
  BY <1>1, <1>4, InstallStartBecomes DEF InstallInv
<1>6. controller' \in Install!Controller /\ InstallDeletedStay /\ InstallCleanedIsDeleted'
  BY <1>1, <1>3, InstallTakeDeleteIs, InstallControllerStays
<1>7. p \in Install!Panel /\ p = [panel EXCEPT !.hidden = panel.hidden \ {s}]
  BY InstallReleaseIs DEF InstallInv, Install!TypeOK
<1> HIDE DEF p
<1>8. /\ panel' \in Install!Panel /\ InstallShownStays /\ panel'.hidden = panel.hidden \ {s}
      /\ panel'.listed = panel.listed /\ panel'.gone = panel.gone
      /\ panel'.gaveUp = panel.gaveUp /\ panel'.submitting = panel.submitting
  <2> HIDE DEF s
  <2>1. /\ p.hidden = panel.hidden \ {s} /\ p.listed = panel.listed /\ p.gone = panel.gone
        /\ p.gaveUp = panel.gaveUp /\ p.submitting = panel.submitting
        /\ p.modal = panel.modal /\ p.target = panel.target
        /\ p.during = panel.during /\ p.opened = panel.opened
        /\ p.command = panel.command /\ p.close = panel.close
        /\ p.crossed = panel.crossed /\ p.timer = panel.timer
    BY <1>7 DEF InstallInv, Install!TypeOK, Install!Panel
  <2> QED
    BY <1>2, <1>7, <2>1 DEF Install!Panel, InstallShownStays
<1>9. InstallIsRemoval(call[c]) /\ ~InstallIsRemoval(row)
  BY <1>1, <1>4 DEF InstallIsRemoval
<1> QED
  BY <1>1, <1>4, <1>5, <1>6, <1>8, <1>9, InstallReleasedKeeps

LEMMA InstallDeleteAcceptedKeeps ==
  ASSUME InstallInv, NEW c \in Call, Install!DeleteAccepted(c) PROVE InstallInv'
<1> DEFINE s == call[c].server
           row == [call[c] EXCEPT !.step = "list", !.n = 1]
<1>1. /\ call[c].op = "delete" /\ call[c].step = "main" /\ call' = [call EXCEPT ![c] = row]
      /\ Install!TakeDelete(s, call[c].mode) /\ panel' = Install!CloseModal(panel)
  BY DEF Install!DeleteAccepted, Install!Waits, Install!Start
<1>2. /\ s \in Server /\ call[c].mode \in {"remote", "local"} /\ call[c] \in Install!CallRow
  BY <1>1 DEF InstallInv, InstallRowIsAimed, Install!TypeOK
<1>3. /\ row \in Install!CallRow /\ row.op = "delete" /\ row.step = "list" /\ row.server = s
      /\ row.mode = call[c].mode /\ row.n = 1
  <2>1. 1 \in 0..MaxPolls
    BY InstallIs
  <2> QED
    BY <1>1, <1>2, <2>1 DEF Install!CallRow
<1> HIDE DEF row
<1>4. InstallBecomes(c, row) /\ InstallChanges(c, row)
  BY <1>1, <1>3, InstallStartBecomes DEF InstallInv
<1>5. /\ controller' \in Install!Controller /\ InstallDeletedStay /\ InstallCleanedIsDeleted'
      /\ call[c].mode = "local" => controller'.row[s] = "deleted"
  BY <1>1, <1>2, InstallTakeDeleteIs
<1>6. /\ panel' \in Install!Panel /\ InstallShownStays /\ panel'.modal = "none"
      /\ panel'.hidden = panel.hidden /\ panel'.listed = panel.listed
      /\ panel'.gone = panel.gone /\ panel'.gaveUp = panel.gaveUp
      /\ panel'.submitting = panel.submitting
  BY <1>1, InstallCloseModalIs DEF InstallInv, Install!TypeOK, InstallShownStays
<1>7. InstallIsRemoval(call[c]) /\ InstallIsRemoval(row) /\ InstallIsForm(call[c]) /\ InstallIsForm(row)
  BY <1>1, <1>3 DEF InstallIsRemoval, InstallIsForm
<1>8. InstallFormInv'
  BY <1>4, <1>6, <1>7, InstallFormStays
<1>9. InstallRemovalInv'
  <2>1. InstallIsRemoval(row) =>
          /\ row.server \in panel'.hidden \ panel'.gone
          /\ \A b \in Call \ {c} : InstallIsRemoval(call[b]) => call[b].server # row.server
    BY <1>3, <1>6, <1>7 DEF InstallInv, InstallRemovalInv
  <2>2. panel'.gone \subseteq panel'.hidden /\ panel'.hidden \cap panel'.listed = {}
    BY <1>6 DEF InstallInv, InstallRemovalInv
  <2> QED
    BY <1>4, <1>6, <2>1, <2>2, InstallRemovalStays
<1>10. InstallHiddenInv'
  BY <1>3, <1>4, <1>5, <1>6, <1>7, InstallHiddenStays DEF InstallDeletedStay
<1> QED
  BY <1>2, <1>3, <1>4, <1>5, <1>6, <1>8, <1>9, <1>10, InstallCallKeeps

\* A removal that is over, or watched from now on: the list that follows is shown.
LEMMA InstallRemovalListedKeeps ==
  ASSUME InstallInv, NEW c \in Call, Install!FlowListed(c), Install!Taken(c) PROVE InstallInv'
<1> DEFINE s == call[c].server
           watch == [Install!NoCall EXCEPT !.op = "watch", !.server = s]
           row == IF call[c].mode = "remote" THEN watch ELSE Install!NoCall
           gone == IF call[c].mode = "local" THEN panel.gone \cup {s} ELSE panel.gone
<1>1. /\ call[c].op = "delete" /\ call[c].n = 1 /\ call[c].step = "list"
      /\ UNCHANGED controller
      /\ call' = [call EXCEPT ![c] = row]
  BY DEF Install!FlowListed, Install!Taken, Install!Start, Install!Finish
<1>2. /\ s \in Server /\ call[c].mode \in {"remote", "local"} /\ InstallIsRemoval(call[c])
      /\ call[c].mode = "local" => controller.row[s] = "deleted"
      /\ call[c].rows \in SUBSET Server /\ panel \in Install!Panel
  BY <1>1 DEF InstallInv, InstallRowIsAimed, InstallIsRemoval, Install!Taken, Install!TypeOK,
     Install!CallRow
<1>3. s \in panel.hidden \ panel.gone
  BY <1>2 DEF InstallInv, InstallRemovalInv
<1>4. PICK p \in {panel, Install!SetVisible(panel, call[c].rows)} :
        panel' = [p EXCEPT !.submitting = FALSE, !.gone = gone]
  <2>1. PICK p \in {panel, Install!SetVisible(panel, call[c].rows)} :
          panel' = [p EXCEPT !.submitting = @ /\ call[c].op = "watch",
                             !.gone = IF Install!Taken(c) /\ call[c].mode = "local"
                                      THEN @ \cup {call[c].server} ELSE @]
    BY DEF Install!FlowListed
  <2>2. p \in Install!Panel /\ p.gone = panel.gone
    BY <1>2, InstallSetVisibleIs DEF Install!Panel
  <2> QED
    BY <1>1, <2>1, <2>2 DEF Install!Panel
<1>5. /\ watch \in Install!CallRow /\ watch.op = "watch" /\ watch.step = "main" /\ watch.server = s
  BY <1>2, InstallNoCallIs DEF Install!CallRow
<1>6. /\ row \in Install!CallRow /\ row.op \in {"none", "watch"} /\ row.step = "main"
      /\ row.op = "watch" => row.server = s
      /\ call[c].mode = "remote" => row.op = "watch"
      /\ call[c].mode = "local" => row.op = "none"
  BY <1>2, <1>5, InstallNoCallIs
<1> HIDE DEF watch, row
<1>7. InstallBecomes(c, row) /\ InstallChanges(c, row)
  BY <1>1, <1>6, InstallStartBecomes DEF InstallInv
<1>8. /\ p \in Install!Panel /\ p.listed \cap panel.hidden = {}
      /\ p.modal = panel.modal /\ p.target = panel.target
      /\ p.during = panel.during /\ p.opened = panel.opened
      /\ p.command = panel.command /\ p.close = panel.close
      /\ p.crossed = panel.crossed /\ p.timer = panel.timer
      /\ p.hidden = panel.hidden /\ p.gaveUp = panel.gaveUp
  <2>1. CASE p = panel
    BY <1>2, <2>1 DEF InstallInv, InstallRemovalInv
  <2>2. CASE p = Install!SetVisible(panel, call[c].rows)
    <3>1. p = [panel EXCEPT !.listed = call[c].rows \ panel.hidden] /\ p \in Install!Panel
      BY <1>2, <2>2, InstallSetVisibleIs
    <3> QED
      BY <1>2, <3>1 DEF Install!Panel
  <2> QED
    BY <1>4, <2>1, <2>2
<1>9. /\ gone \in SUBSET Server /\ gone \subseteq panel.hidden
      /\ \A t \in gone : t \in panel.gone \/ (t = s /\ call[c].mode = "local")
      /\ call[c].mode = "remote" => gone = panel.gone
  BY <1>2, <1>3 DEF InstallInv, InstallRemovalInv, Install!TypeOK, Install!Panel
<1> HIDE DEF gone
<1>10. /\ panel' \in Install!Panel /\ InstallShownStays /\ panel'.hidden = panel.hidden
       /\ panel'.modal = panel.modal /\ panel'.target = panel.target
       /\ panel'.listed = p.listed /\ panel'.gone = gone /\ panel'.gaveUp = panel.gaveUp
  BY <1>4, <1>8, <1>9 DEF Install!Panel, InstallShownStays
<1>11. /\ ~InstallIsForm(row) /\ InstallIsForm(call[c])
       /\ InstallIsRemoval(row) <=> call[c].mode = "remote"
  BY <1>1, <1>2, <1>6 DEF InstallIsForm, InstallIsRemoval
<1>12. InstallFormInv'
  BY <1>7, <1>11, InstallFormStays
<1>13. InstallRemovalInv'
  <2>1. InstallIsRemoval(row) =>
          /\ row.server \in panel'.hidden \ panel'.gone
          /\ \A b \in Call \ {c} : InstallIsRemoval(call[b]) => call[b].server # row.server
    BY <1>2, <1>3, <1>6, <1>9, <1>10, <1>11 DEF InstallInv, InstallRemovalInv
  <2>2. panel'.gone \subseteq panel'.hidden /\ panel'.hidden \cap panel'.listed = {}
    BY <1>8, <1>9, <1>10
  <2>3. \A t \in panel'.gone : t \in panel.gone \/ (t = s /\ ~InstallIsRemoval(row))
    BY <1>9, <1>10, <1>11, <1>2
  <2>4. ~Install!Waits(c, "delete", "main")
    BY <1>1 DEF Install!Waits
  <2> QED
    BY <1>2, <1>7, <1>10, <2>1, <2>2, <2>3, <2>4, InstallRemovalStays
<1>14. InstallHiddenInv'
  <2>1. controller'.row[s] = "deleted" \/ (InstallIsRemoval(row) /\ row.server = s)
    BY <1>1, <1>2, <1>6, <1>11
  <2> QED
    BY <1>1, <1>7, <1>10, <2>1, InstallHiddenStays
<1> QED
  BY <1>1, <1>2, <1>6, <1>7, <1>10, <1>12, <1>13, <1>14, InstallCallKeeps, InstallControllerStays

LEMMA InstallFlowListedKeeps ==
  ASSUME InstallInv, NEW c \in Call, Install!FlowListed(c) PROVE InstallInv'
<1> SUFFICES ASSUME ~Install!Taken(c) PROVE InstallInv'
  BY InstallRemovalListedKeeps
<1> DEFINE submitting == panel.submitting /\ call[c].op = "watch"
<1>1. /\ call[c].op \in {"edit", "delete", "watch"} /\ call[c].step = "list" /\ UNCHANGED controller
      /\ call' = [call EXCEPT ![c] = Install!NoCall]
  BY DEF Install!FlowListed, Install!Finish
<1>2. ~InstallIsRemoval(call[c]) /\ submitting \in BOOLEAN /\ (submitting = panel.submitting \/ InstallIsForm(call[c]))
  BY <1>1 DEF InstallIsRemoval, InstallIsForm, Install!Taken, InstallInv, Install!TypeOK,
     Install!Panel
<1>3. PICK p \in {panel, Install!SetVisible(panel, call[c].rows)} : panel' = [p EXCEPT !.submitting = submitting]
  <2>1. PICK p \in {panel, Install!SetVisible(panel, call[c].rows)} :
          panel' = [p EXCEPT !.submitting = @ /\ call[c].op = "watch",
                             !.gone = IF Install!Taken(c) /\ call[c].mode = "local"
                                      THEN @ \cup {call[c].server} ELSE @]
    BY DEF Install!FlowListed
  <2>2. p \in Install!Panel /\ p.submitting = panel.submitting
    <3>1. panel \in Install!Panel /\ call[c].rows \in SUBSET Server
      BY DEF InstallInv, Install!TypeOK, Install!CallRow
    <3> QED
      BY <3>1, InstallSetVisibleIs DEF Install!Panel
  <2>3. panel' = [p EXCEPT !.submitting = submitting, !.gone = p.gone]
    BY <2>1, <2>2
  <2> HIDE DEF submitting
  <2> QED
    BY <2>2, <2>3 DEF Install!Panel
<1>4. InstallBecomes(c, Install!NoCall)
  BY <1>1, InstallNoCallIs, InstallStartBecomes DEF InstallInv
<1> HIDE DEF submitting
<1> QED
  BY <1>1, <1>2, <1>3, <1>4, InstallListKeeps

LEMMA InstallFlowListRejectsKeeps ==
  ASSUME InstallInv, NEW c \in Call, Install!FlowListRejects(c) PROVE InstallInv'
<1>1. /\ call[c].op \in {"edit", "delete", "watch"} /\ call[c].step = "list" /\ UNCHANGED controller
  BY DEF Install!FlowListRejects
<1>2. CASE Install!Taken(c)
  <2> DEFINE row == [call[c] EXCEPT !.n = 0, !.read = FALSE, !.rows = {}]
             s == call[c].server
  <2>1. panel' = Install!Release(panel, s) /\ call' = [call EXCEPT ![c] = row]
    BY <1>2 DEF Install!FlowListRejects, Install!Start
  <2>2. /\ row \in Install!CallRow /\ row.op = "delete" /\ row.step = "list" /\ row.n = 0
        /\ row.server = s /\ row.mode = call[c].mode /\ call[c].op = "delete"
    <3>1. call[c] \in Install!CallRow /\ 0 \in 0..MaxPolls /\ call[c].op = "delete"
      BY <1>2, InstallIs DEF InstallInv, Install!TypeOK, Install!Taken
    <3> QED
      BY <1>1, <3>1 DEF Install!CallRow
  <2> HIDE DEF row
  <2>3. InstallIsRemoval(call[c]) /\ ~InstallIsRemoval(row)
    BY <1>2, <2>2 DEF InstallIsRemoval, Install!Taken
  <2>4. InstallBecomes(c, row)
    BY <2>1, <2>2, InstallStartBecomes DEF InstallInv
  <2>5. /\ panel' \in Install!Panel /\ InstallShownStays /\ panel'.hidden = panel.hidden \ {s}
        /\ panel'.listed = panel.listed /\ panel'.gone = panel.gone
        /\ panel'.gaveUp = panel.gaveUp /\ panel'.submitting = panel.submitting
    <3>1. panel' \in Install!Panel /\ panel' = [panel EXCEPT !.hidden = panel.hidden \ {s}]
      BY <2>1, InstallReleaseIs DEF InstallInv, Install!TypeOK
    <3> QED
      BY <3>1 DEF InstallInv, Install!TypeOK, Install!Panel, InstallShownStays
  <2> QED
    BY <1>1, <2>2, <2>3, <2>4, <2>5, InstallReleasedKeeps, InstallControllerStays
<1>3. CASE ~Install!Taken(c)
  <2> DEFINE submitting == panel.submitting /\ call[c].op = "watch"
  <2>1. /\ panel' = [panel EXCEPT !.submitting = submitting]
        /\ call' = [call EXCEPT ![c] = Install!NoCall]
    BY <1>3 DEF Install!FlowListRejects, Install!Finish, InstallInv, Install!TypeOK, Install!Panel
  <2>2. /\ ~InstallIsRemoval(call[c]) /\ submitting \in BOOLEAN
        /\ submitting = panel.submitting \/ InstallIsForm(call[c])
    BY <1>1, <1>3 DEF InstallIsRemoval, InstallIsForm, Install!Taken, InstallInv, Install!TypeOK,
       Install!Panel
  <2>3. InstallBecomes(c, Install!NoCall)
    BY <2>1, InstallNoCallIs, InstallStartBecomes DEF InstallInv
  <2> HIDE DEF submitting
  <2> QED
    BY <1>1, <2>1, <2>2, <2>3, InstallListKeeps
<1> QED
  BY <1>2, <1>3

\* A watch that ends with the row hidden: the server is gone, or was given up.
LEMMA InstallWatchOverKeeps ==
  ASSUME InstallInv, NEW c \in Call, Install!Waits(c, "watch", "main"), UNCHANGED controller,
         NEW row \in Install!CallRow, InstallBecomes(c, row), ~InstallIsRemoval(row), row.op \in {"none", "watch"},
         row.step # "timer", row.op = "watch" => row.server = call[c].server,
         NEW gone, NEW gaveUp,
         panel' = [panel EXCEPT !.gone = gone, !.gaveUp = gaveUp],
         \/ gone = panel.gone /\ gaveUp = panel.gaveUp \cup {call[c].server}
         \/ /\ gone = panel.gone \cup {call[c].server} /\ gaveUp = panel.gaveUp
            /\ controller.row[call[c].server] = "deleted"
  PROVE  InstallInv'
<1> DEFINE s == call[c].server
<1>1. InstallChanges(c, row)
  BY DEF InstallBecomes, InstallChanges
<1>2. call[c].op = "watch" /\ s \in Server /\ InstallIsRemoval(call[c]) /\ ~InstallIsForm(call[c]) /\ ~InstallIsForm(row)
  BY DEF Install!Waits, InstallInv, InstallRowIsAimed, InstallIsRemoval, InstallIsForm
<1>3. s \in panel.hidden \ panel.gone
  BY <1>2 DEF InstallInv, InstallRemovalInv
<1>4. /\ gone \in SUBSET Server /\ gaveUp \in SUBSET Server
      /\ gone \subseteq panel.hidden /\ panel.gaveUp \subseteq gaveUp
      /\ \A t \in gone : t \in panel.gone \/ t = s
      /\ controller.row[s] = "deleted" \/ s \in gaveUp
  BY <1>2, <1>3 DEF InstallInv, InstallRemovalInv, Install!TypeOK, Install!Panel
<1>5. /\ panel' \in Install!Panel /\ InstallShownStays /\ panel'.gone = gone /\ panel'.gaveUp = gaveUp
      /\ panel'.hidden = panel.hidden /\ panel'.listed = panel.listed
      /\ panel'.submitting = panel.submitting
      /\ panel'.modal = panel.modal /\ panel'.target = panel.target
  BY <1>4 DEF InstallInv, Install!TypeOK, Install!Panel, InstallShownStays
<1>6. InstallFormInv'
  BY <1>1, <1>2, <1>5, InstallFormStays
<1>7. InstallRemovalInv'
  <2>1. panel'.hidden \cap panel'.listed = {} /\ panel'.gone \subseteq panel'.hidden
    BY <1>4, <1>5 DEF InstallInv, InstallRemovalInv
  <2>2. ~Install!Waits(c, "delete", "main")
    BY DEF Install!Waits
  <2>3. \A t \in panel'.gone : t \in panel.gone \/ t = s
    BY <1>4, <1>5
  <2> QED
    BY <1>1, <1>2, <1>5, <2>1, <2>2, <2>3, InstallRemovalStays
<1>8. InstallHiddenInv'
  BY <1>1, <1>4, <1>5, InstallHiddenStays
<1> QED
  BY <1>2, <1>5, <1>6, <1>7, <1>8, InstallCallKeeps, InstallControllerStays

LEMMA InstallWatchRowIs ==
  ASSUME InstallInv, NEW c \in Call, Install!Waits(c, "watch", "main"), Install!ThenList(c)
  PROVE  \E row \in Install!CallRow : /\ InstallBecomes(c, row) /\ ~InstallIsRemoval(row)
                                      /\ row.op = "watch" /\ row.step = "list"
                                      /\ row.server = call[c].server /\ row.mode = call[c].mode
<1> DEFINE row == [call[c] EXCEPT !.step = "list"]
<1>1. /\ row \in Install!CallRow /\ row.op = "watch" /\ row.step = "list"
      /\ row.server = call[c].server /\ row.mode = call[c].mode
  BY DEF Install!Waits, InstallInv, Install!TypeOK, Install!CallRow
<1>2. call' = [call EXCEPT ![c] = row]
  BY DEF Install!ThenList, Install!Start
<1> HIDE DEF row
<1>3. InstallBecomes(c, row) /\ ~InstallIsRemoval(row)
  BY <1>1, <1>2, InstallStartBecomes DEF InstallInv, InstallIsRemoval
<1> QED
  BY <1>1, <1>3

LEMMA InstallWatchEndsKeeps ==
  ASSUME InstallInv, NEW c \in Call, Install!WatchEnds(c) PROVE InstallInv'
<1> DEFINE s == call[c].server
<1>1. Install!Waits(c, "watch", "main") /\ UNCHANGED controller /\ Install!ThenList(c)
  BY DEF Install!WatchEnds
<1>2. s \in Server
  BY <1>1 DEF Install!Waits, InstallInv, InstallRowIsAimed
<1>3. PICK row \in Install!CallRow : /\ InstallBecomes(c, row) /\ ~InstallIsRemoval(row)
                                     /\ row.op = "watch" /\ row.step = "list"
                                     /\ row.server = call[c].server /\ row.mode = call[c].mode
  BY <1>1, InstallWatchRowIs
<1>4. CASE controller.cleanup[s] = "succeeded" /\ panel' = [panel EXCEPT !.gone = @ \cup {s}]
  <2> DEFINE gone == panel.gone \cup {s}
  <2>1. panel' = [panel EXCEPT !.gone = gone, !.gaveUp = panel.gaveUp]
    BY <1>4 DEF InstallInv, Install!TypeOK, Install!Panel
  <2>2. controller.row[s] = "deleted"
    BY <1>2, <1>4 DEF InstallInv, InstallCleanedIsDeleted
  <2> QED
    BY <1>1, <1>3, <2>1, <2>2, InstallWatchOverKeeps
<1>5. CASE panel' = Install!Release(panel, s)
  <2>1. panel' \in Install!Panel /\ panel' = [panel EXCEPT !.hidden = panel.hidden \ {s}]
    BY <1>5, InstallReleaseIs DEF InstallInv, Install!TypeOK
  <2>2. /\ InstallShownStays /\ panel'.hidden = panel.hidden \ {s}
        /\ panel'.listed = panel.listed /\ panel'.gone = panel.gone
        /\ panel'.gaveUp = panel.gaveUp /\ panel'.submitting = panel.submitting
    BY <2>1 DEF InstallInv, Install!TypeOK, Install!Panel, InstallShownStays
  <2>3. InstallIsRemoval(call[c]) /\ call[c].op = "watch"
    BY <1>1 DEF Install!Waits, InstallIsRemoval
  <2> QED
    BY <1>1, <1>3, <2>1, <2>2, <2>3, InstallReleasedKeeps, InstallControllerStays
<1> QED
  BY <1>4, <1>5 DEF Install!WatchEnds

LEMMA InstallWatchGoesOnKeeps ==
  ASSUME InstallInv, NEW c \in Call,
         Install!WatchGoesOn(c) \/ Install!WatchRejects(c) PROVE InstallInv'
<1> DEFINE s == call[c].server
           gaveUp == panel.gaveUp \cup {s}
<1>1. Install!Waits(c, "watch", "main") /\ UNCHANGED controller
  BY DEF Install!WatchGoesOn, Install!WatchRejects
<1>2. CASE /\ call[c].n + 1 < MaxPolls /\ UNCHANGED panel
           /\ Install!Start(c, [call[c] EXCEPT !.n = @ + 1])
  <2> DEFINE row == [call[c] EXCEPT !.n = @ + 1]
  <2>1. /\ call[c] \in Install!CallRow /\ call[c].op = "watch" /\ call[c].step = "main"
    BY <1>1 DEF InstallInv, Install!TypeOK, Install!Waits
  <2>2. call[c].n + 1 \in 0..MaxPolls
    BY <1>2, <2>1, InstallIs DEF Install!CallRow
  <2>3. /\ row \in Install!CallRow /\ row.op = "watch" /\ row.step = "main"
        /\ row.server = call[c].server /\ row.mode = call[c].mode
    BY <2>1, <2>2 DEF Install!CallRow
  <2>4. call' = [call EXCEPT ![c] = row]
    BY <1>2 DEF Install!Start
  <2> HIDE DEF row
  <2>5. InstallBecomes(c, row)
    BY <2>3, <2>4, InstallStartBecomes DEF InstallInv
  <2>6. InstallIsRemoval(row) /\ ~InstallIsForm(row) /\ panel.listed \cap panel.hidden = {}
    BY <2>3 DEF InstallIsRemoval, InstallIsForm, InstallInv, InstallRemovalInv
  <2> QED
    BY <1>1, <1>2, <2>1, <2>3, <2>5, <2>6, InstallPlainKeeps, InstallControllerStays
    DEF InstallInv, Install!TypeOK, InstallShownStays
<1>3. CASE panel' = [panel EXCEPT !.gaveUp = @ \cup {s}]
  <2>1. panel' = [panel EXCEPT !.gone = panel.gone, !.gaveUp = gaveUp]
    BY <1>3 DEF InstallInv, Install!TypeOK, Install!Panel
  <2>2. CASE Install!ThenList(c)
    <3>1. PICK row \in Install!CallRow : /\ InstallBecomes(c, row) /\ ~InstallIsRemoval(row)
                                         /\ row.op = "watch" /\ row.step = "list"
                                         /\ row.server = call[c].server /\ row.mode = call[c].mode
      BY <1>1, <2>2, InstallWatchRowIs
    <3> QED
      BY <1>1, <2>1, <3>1, InstallWatchOverKeeps
  <2>3. CASE Install!Finish(c)
    <3>1. InstallBecomes(c, Install!NoCall)
      BY <2>3, InstallNoCallIs, InstallStartBecomes DEF Install!Finish, InstallInv
    <3> QED
      BY <1>1, <2>1, <3>1, InstallNoCallIs, InstallWatchOverKeeps
  <2>4. Install!ThenList(c) \/ Install!Finish(c) \/ UNCHANGED panel
    BY DEF Install!WatchGoesOn, Install!WatchRejects
  <2>5. CASE UNCHANGED panel /\ ~Install!ThenList(c) /\ ~Install!Finish(c)
    BY <1>2, <2>5 DEF Install!WatchGoesOn, Install!WatchRejects
  <2> QED
    BY <2>2, <2>3, <2>4, <2>5
<1> QED
  BY <1>2, <1>3 DEF Install!WatchGoesOn, Install!WatchRejects

-----------------------------------------------------------------------------
(* The polling. *)

LEMMA InstallClearPollingIs ==
  ASSUME NEW p \in Install!Panel, NEW awaited \in SUBSET Call
  PROVE  \E crossed \in BOOLEAN :
           /\ Install!ClearPolling(p, awaited) =
                [p EXCEPT !.pollFor = None, !.timer = None, !.crossed = crossed]
           /\ crossed <=> p.crossed \/ \E c \in awaited : call[c].step = "main"
<1> DEFINE crossed == p.crossed \/ \E c \in awaited : call[c].step = "main"
<1>1. Install!ClearPolling(p, awaited) = [p EXCEPT !.pollFor = None, !.timer = None, !.crossed = crossed]
  BY DEF Install!ClearPolling, Install!Panel
<1>2. crossed \in BOOLEAN /\ (crossed <=> p.crossed \/ \E c \in awaited : call[c].step = "main")
  OBVIOUS
<1> HIDE DEF crossed
<1> QED
  BY <1>1, <1>2

\* A call that is no removal, and may touch the polling.
LEMMA InstallPollingKeeps ==
  ASSUME InstallInv, NEW c \in Call, NEW row \in Install!CallRow, InstallChanges(c, row),
         panel' \in Install!Panel, UNCHANGED controller,
         row.op \in {"none", "load", "poll", "generate"},
         row.step = "main" \/ (row.step = "timer" /\ row.op = "poll"),
         row.op \in {"generate", "poll"} => row.server \in Server,
         row.op = "generate" => panel'.modal # "workerCommand" \/ row.server = panel'.target,
         ~InstallIsRemoval(call[c]),
         panel'.modal = panel.modal, panel'.target = panel.target, panel'.during = panel.during,
         panel'.command \in {panel.command, None},
         panel'.hidden = panel.hidden, panel'.gone = panel.gone, panel'.gaveUp = panel.gaveUp,
         panel'.listed \cap panel.hidden = {},
         \/ panel'.submitting = panel.submitting /\ (InstallIsForm(row) => InstallIsForm(call[c]))
         \/ InstallIsForm(call[c]) /\ ~InstallIsForm(row)
         \/ ~panel.submitting /\ panel'.submitting,
         panel'.close => ~panel'.opened \/ (panel.close /\ panel'.opened = panel.opened),
         InstallPollInv'
  PROVE  InstallInv'
<1>1. \A b \in Call : InstallRowIsAimed(b)'
  BY InstallRowsStay
<1>2. InstallCommandInv'
  BY InstallCommandStays
<1>3. InstallFormInv'
  BY InstallFormStays
<1>4. ~InstallIsRemoval(row)
  BY DEF InstallIsRemoval
<1>5. InstallRemovalInv'
  <2>1. panel'.gone \subseteq panel'.hidden /\ panel'.hidden \cap panel'.listed = {}
    BY DEF InstallInv, InstallRemovalInv
  <2>2. ~Install!Waits(c, "delete", "main")
    BY DEF Install!Waits, InstallIsRemoval
  <2> QED
    BY <1>4, <2>1, <2>2, InstallRemovalStays
<1>6. InstallHiddenInv'
  BY <1>4, InstallHiddenStays
<1>7. Install!AutoCloseSparesNewCommands' /\ InstallModalIsOfAServer'
  BY DEF InstallInv, Install!AutoCloseSparesNewCommands, InstallModalIsOfAServer
<1> QED
  BY <1>1, <1>2, <1>3, <1>5, <1>6, <1>7, InstallControllerStays DEF InstallInv, Install!TypeOK,
     InstallChanges

\* What is no chain leaves none, or its own, where the polling was ended.
LEMMA InstallEndedIs ==
  ASSUME InstallInv, NEW c \in Call, NEW row, InstallChanges(c, row), InstallClears(c),
         NEW awaited, awaited = Install!Chains \ {c},
         panel'.crossed \/ ~InstallPolls(c)'
           \/ (~row.old /\ (row.step = "timer" => panel'.timer = c)),
         \/ panel'.crossed
         \/ \A b \in Call \ {c} : ~InstallPolls(b)
         \/ ~panel.crossed /\ \A b \in awaited : call[b].step # "main"
  PROVE  InstallPollInv'
<1> SUFFICES ASSUME ~panel'.crossed PROVE InstallPollInv'
  BY DEF InstallPollInv
<1>1. \A b \in Call \ {c} : ~InstallPolls(b)'
  <2>1. CASE \A b \in Call \ {c} : ~InstallPolls(b)
    BY <2>1, InstallOthersStay
  <2>2. CASE ~panel.crossed /\ \A b \in awaited : call[b].step # "main"
    <3>1. \A b \in Call \ {c} : InstallPolls(b) => call[b].step # "main"
      BY <2>2 DEF Install!Chains, InstallPolls
    <3> QED
      BY <2>2, <3>1, InstallPollingEnds
  <2> QED
    BY <2>1, <2>2
<1> QED
  BY <1>1 DEF InstallPollInv, InstallChanges, InstallPolls

LEMMA InstallEndChainIs ==
  ASSUME NEW p \in Install!Panel, NEW c \in Call
  PROVE  \E crossed \in BOOLEAN :
           /\ Install!EndChain(p, c) = [p EXCEPT !.crossed = crossed]
           /\ ~crossed => ~p.crossed \/ Install!Chains = {c}
<1>1. CASE Install!Chains = {c}
  BY <1>1 DEF Install!EndChain
<1>2. CASE Install!Chains # {c}
  <2>1. Install!EndChain(p, c) = [p EXCEPT !.crossed = p.crossed] /\ p.crossed \in BOOLEAN
    BY <1>2 DEF Install!EndChain, Install!Panel
  <2> QED
    BY <2>1
<1> QED
  BY <1>1, <1>2

\* A chain ends, and the polling of the refs with it.
LEMMA InstallPollingIsOver ==
  ASSUME InstallInv, NEW c \in Call, InstallPolls(c), UNCHANGED controller,
         NEW row \in Install!CallRow, row.op \in {"none", "load"}, row.step = "main",
         call' = [Install!ClearTimer EXCEPT ![c] = row],
         NEW p \in {panel, Install!SetVisible(panel, call[c].rows)},
         NEW close \in BOOLEAN, NEW opened \in BOOLEAN,
         close => ~opened \/ (panel.close /\ opened = panel.opened),
         panel' = Install!EndChain(
                    [Install!ClearPolling(p, Install!Chains \ {c}) EXCEPT !.close = close,
                                                                          !.opened = opened], c)
  PROVE  InstallInv'
<1> DEFINE awaited == Install!Chains \ {c}
<1>1. call[c].rows \in SUBSET Server /\ panel \in Install!Panel /\ awaited \in SUBSET Call
  BY DEF InstallInv, Install!TypeOK, Install!CallRow, Install!Chains
<1>2. /\ p \in Install!Panel
      /\ p = panel \/ p = [panel EXCEPT !.listed = call[c].rows \ panel.hidden]
  BY <1>1, InstallSetVisibleIs
<1>3. /\ p.listed \cap panel.hidden = {}
      /\ p.modal = panel.modal /\ p.target = panel.target
      /\ p.during = panel.during /\ p.command = panel.command
      /\ p.crossed = panel.crossed /\ p.submitting = panel.submitting
      /\ p.hidden = panel.hidden /\ p.gone = panel.gone /\ p.gaveUp = panel.gaveUp
  <2>1. CASE p = panel
    BY <2>1 DEF InstallInv, InstallRemovalInv
  <2>2. CASE p = [panel EXCEPT !.listed = call[c].rows \ panel.hidden]
    BY <1>1, <2>2 DEF Install!Panel
  <2> QED
    BY <1>2, <2>1, <2>2
<1> HIDE DEF awaited
<1>4. PICK crossed \in BOOLEAN :
        /\ Install!ClearPolling(p, awaited) = [p EXCEPT !.pollFor = None, !.timer = None,
                                                        !.crossed = crossed]
        /\ crossed <=> p.crossed \/ \E b \in awaited : call[b].step = "main"
  BY <1>1, <1>2, InstallClearPollingIs
<1> DEFINE q == [Install!ClearPolling(p, awaited) EXCEPT !.close = close, !.opened = opened]
<1>5. /\ q \in Install!Panel /\ q.listed \cap panel.hidden = {}
      /\ q.modal = panel.modal /\ q.target = panel.target
      /\ q.during = panel.during /\ q.command = panel.command
      /\ q.crossed = crossed /\ q.submitting = panel.submitting
      /\ q.close = close /\ q.opened = opened
      /\ q.hidden = panel.hidden /\ q.gone = panel.gone /\ q.gaveUp = panel.gaveUp
  BY ZenonT(40), <1>2, <1>3, <1>4 DEF Install!Panel
<1>6. panel' = Install!EndChain(q, c)
  BY DEF awaited
<1> HIDE DEF q
<1>7. PICK over \in BOOLEAN : /\ panel' = [q EXCEPT !.crossed = over]
                              /\ ~over => ~q.crossed \/ Install!Chains = {c}
  BY <1>5, <1>6, InstallEndChainIs
<1>8. /\ panel' \in Install!Panel /\ panel'.listed \cap panel.hidden = {}
      /\ panel'.modal = panel.modal /\ panel'.target = panel.target
      /\ panel'.during = panel.during /\ panel'.command = panel.command
      /\ panel'.crossed = over /\ panel'.submitting = panel.submitting
      /\ panel'.close = close /\ panel'.opened = opened
      /\ panel'.hidden = panel.hidden /\ panel'.gone = panel.gone /\ panel'.gaveUp = panel.gaveUp
  BY <1>5, <1>7 DEF Install!Panel
<1>9. InstallChanges(c, row) /\ InstallClears(c)
  BY InstallClearTimerChanges DEF InstallInv
<1>10. InstallPollInv'
  <2>1. Install!Chains = {c} => \A b \in Call \ {c} : ~InstallPolls(b)
    BY DEF Install!Chains, InstallPolls
  <2>2. crossed \/ (~panel.crossed /\ \A b \in awaited : call[b].step # "main")
    BY <1>3, <1>4
  <2>3. ~InstallPolls(c)'
    BY <1>9 DEF InstallPolls, InstallChanges
  <2>4. \/ panel'.crossed
        \/ \A b \in Call \ {c} : ~InstallPolls(b)
        \/ ~panel.crossed /\ \A b \in awaited : call[b].step # "main"
    BY <1>5, <1>7, <1>8, <2>1, <2>2
  <2> QED
    BY <1>9, <2>3, <2>4, InstallEndedIs DEF awaited
<1>11. ~InstallIsForm(row) /\ ~InstallIsRemoval(call[c])
  BY DEF InstallIsForm, InstallIsRemoval, InstallPolls
<1> QED
  BY <1>8, <1>9, <1>10, <1>11, InstallPollingKeeps

\* A chain ends quietly.
LEMMA InstallChainIsOver ==
  ASSUME InstallInv, NEW c \in Call, InstallPolls(c), UNCHANGED controller,
         call' = [call EXCEPT ![c] = Install!NoCall], panel' = Install!EndChain(panel, c)
  PROVE  InstallInv'
<1>1. panel \in Install!Panel /\ panel.listed \cap panel.hidden = {}
  BY DEF InstallInv, Install!TypeOK, InstallRemovalInv
<1>2. PICK over \in BOOLEAN : /\ panel' = [panel EXCEPT !.crossed = over]
                              /\ ~over => ~panel.crossed \/ Install!Chains = {c}
  BY <1>1, InstallEndChainIs
<1>3. /\ panel' \in Install!Panel /\ panel'.listed \cap panel.hidden = {}
      /\ panel'.modal = panel.modal /\ panel'.target = panel.target
      /\ panel'.during = panel.during /\ panel'.command = panel.command
      /\ panel'.crossed = over /\ panel'.submitting = panel.submitting
      /\ panel'.close = panel.close /\ panel'.opened = panel.opened
      /\ panel'.timer = panel.timer
      /\ panel'.hidden = panel.hidden /\ panel'.gone = panel.gone /\ panel'.gaveUp = panel.gaveUp
  BY <1>1, <1>2 DEF Install!Panel
<1>4. InstallBecomes(c, Install!NoCall) /\ InstallChanges(c, Install!NoCall)
  BY InstallNoCallIs, InstallStartBecomes DEF InstallInv
<1>5. InstallPollInv'
  <2> SUFFICES ASSUME ~panel'.crossed PROVE InstallPollInv'
    BY DEF InstallPollInv
  <2>1. CASE Install!Chains = {c}
    <3>1. \A b \in Call : ~InstallPolls(b)'
      BY <1>4, <2>1, InstallNoCallIs DEF InstallBecomes, InstallPolls, Install!Chains
    <3> QED
      BY <3>1 DEF InstallPollInv
  <2>2. CASE ~panel.crossed
    <3>1. panel'.crossed = panel.crossed
      BY <1>1, <1>3, <2>2 DEF Install!Panel
    <3> QED
      BY <1>3, <1>4, <3>1, InstallNoCallIs, InstallPollStays
  <2> QED
    BY <1>2, <1>3, <2>1, <2>2
<1>6. ~InstallIsRemoval(call[c])
  BY DEF InstallIsRemoval, InstallPolls
<1> QED
  BY <1>3, <1>4, <1>5, <1>6, InstallNoCallIs, InstallPollingKeeps

LEMMA InstallPollRejectsKeeps ==
  ASSUME InstallInv, NEW c \in Call, Install!PollRejects(c) PROVE InstallInv'
BY InstallChainIsOver DEF Install!PollRejects, Install!Waits, Install!Finish, InstallPolls

LEMMA InstallPollFiresKeeps ==
  ASSUME InstallInv, NEW c \in Call, Install!PollFires(c) PROVE InstallInv'
<1> DEFINE s == call[c].server
<1>1. InstallPolls(c) /\ call[c].step = "timer" /\ UNCHANGED controller /\ s \in Server
  BY DEF Install!PollFires, InstallPolls, InstallInv, InstallRowIsAimed
<1>2. CASE panel.pollFor = s /\ s \notin panel.hidden
  <2> DEFINE row == [call[c] EXCEPT !.step = "main"]
  <2>1. call' = [call EXCEPT ![c] = row] /\ UNCHANGED panel
    BY <1>2 DEF Install!PollFires, Install!Start
  <2>2. /\ row \in Install!CallRow /\ row.op = "poll" /\ row.step = "main" /\ row.server = s
        /\ row.old = call[c].old
    BY <1>1 DEF InstallInv, Install!TypeOK, Install!CallRow, InstallPolls
  <2> HIDE DEF row
  <2>3. InstallBecomes(c, row) /\ InstallChanges(c, row)
    BY <2>1, <2>2, InstallStartBecomes DEF InstallInv
  <2>4. InstallPollInv'
    BY <1>1, <2>1, <2>2, <2>3, InstallPollStays
  <2>5. /\ ~InstallIsRemoval(call[c]) /\ ~InstallIsForm(row) /\ panel \in Install!Panel
        /\ panel.listed \cap panel.hidden = {}
    BY <1>1, <2>2 DEF InstallIsForm, InstallIsRemoval, InstallPolls, InstallInv, Install!TypeOK,
       InstallRemovalInv
  <2> QED
    BY <1>1, <2>1, <2>2, <2>3, <2>4, <2>5, InstallPollingKeeps
<1>3. CASE s \notin panel.hidden /\ panel.pollFor # s
  <2>1. call' = [call EXCEPT ![c] = Install!NoCall] /\ panel' = Install!EndChain(panel, c)
    BY <1>3 DEF Install!PollFires
  <2> QED
    BY <1>1, <2>1, InstallChainIsOver
<1>4. CASE s \in panel.hidden
  <2> DEFINE q == Install!ClearPolling(panel, Install!Chains \ {c})
  <2>1. /\ call' = [Install!ClearTimer EXCEPT ![c] = Install!NoCall] /\ panel' = Install!EndChain(q, c)
    BY <1>4 DEF Install!PollFires
  <2>2. panel \in Install!Panel /\ Install!Chains \ {c} \in SUBSET Call
    BY DEF InstallInv, Install!TypeOK, Install!Chains
  <2>3. PICK crossed \in BOOLEAN :
          q = [panel EXCEPT !.pollFor = None, !.timer = None, !.crossed = crossed]
    BY <2>2, InstallClearPollingIs
  <2>4. q = [q EXCEPT !.close = panel.close, !.opened = panel.opened]
    BY <2>2, <2>3 DEF Install!Panel
  <2>5. panel.close \in BOOLEAN /\ panel.opened \in BOOLEAN
    BY <2>2 DEF Install!Panel
  <2> QED
    BY <1>1, <2>1, <2>4, <2>5, InstallNoCallIs, InstallPollingIsOver
<1> QED
  BY <1>2, <1>3, <1>4

LEMMA InstallPollFindsServerKeeps ==
  ASSUME InstallInv, NEW c \in Call, Install!PollFindsServer(c) PROVE InstallInv'
<1>1. InstallPolls(c) /\ UNCHANGED controller
  BY DEF Install!PollFindsServer, Install!Waits, InstallPolls
<1>2. /\ call' = [Install!ClearTimer EXCEPT ![c] = Install!NoCall]
      /\ panel' = Install!EndChain([Install!ClearPolling(Install!SetVisible(panel, call[c].rows), Install!Chains \ {c})
                              EXCEPT !.close = TRUE, !.opened = FALSE], c)
  BY DEF Install!PollFindsServer
<1> QED
  BY <1>1, <1>2, InstallNoCallIs, InstallPollingIsOver

LEMMA InstallPollFindsNothingKeeps ==
  ASSUME InstallInv, NEW c \in Call, Install!PollFindsNothing(c) PROVE InstallInv'
<1> DEFINE p == IF call[c].read THEN Install!SetVisible(panel, call[c].rows) ELSE panel
<1>1. /\ InstallPolls(c) /\ call[c].step = "main" /\ UNCHANGED controller /\ call[c].server \in Server
  BY DEF Install!PollFindsNothing, Install!Waits, InstallPolls, InstallInv, InstallRowIsAimed
<1>2. p \in {panel, Install!SetVisible(panel, call[c].rows)}
  OBVIOUS
<1>3. call[c].rows \in SUBSET Server /\ panel \in Install!Panel /\ Install!Chains \ {c} \in SUBSET Call
  BY DEF InstallInv, Install!TypeOK, Install!CallRow, Install!Chains
<1>4. p \in Install!Panel /\ (p = panel \/ p = [panel EXCEPT !.listed = call[c].rows \ panel.hidden])
  BY <1>2, <1>3, InstallSetVisibleIs
<1>5. /\ p.listed \cap panel.hidden = {}
      /\ p.modal = panel.modal /\ p.target = panel.target
      /\ p.during = panel.during /\ p.command = panel.command
      /\ p.crossed = panel.crossed /\ p.submitting = panel.submitting
      /\ p.close = panel.close /\ p.opened = panel.opened
      /\ p.hidden = panel.hidden /\ p.gone = panel.gone /\ p.gaveUp = panel.gaveUp
  <2>1. CASE p = panel
    BY <2>1 DEF InstallInv, InstallRemovalInv
  <2>2. CASE p = [panel EXCEPT !.listed = call[c].rows \ panel.hidden]
    BY <1>3, <2>2 DEF Install!Panel
  <2> QED
    BY <1>4, <2>1, <2>2
<1>6. CASE call[c].n + 1 >= MaxPolls
  <2> DEFINE q == Install!ClearPolling(p, Install!Chains \ {c})
             row == [Install!NoCall EXCEPT !.op = "load"]
  <2>1. call' = [Install!ClearTimer EXCEPT ![c] = row] /\ panel' = Install!EndChain(q, c)
    BY <1>6 DEF Install!PollFindsNothing
  <2>2. row \in Install!CallRow /\ row.op = "load" /\ row.step = "main"
    BY InstallNoCallIs DEF Install!CallRow
  <2> HIDE DEF p, row
  <2>3. PICK crossed \in BOOLEAN :
          q = [p EXCEPT !.pollFor = None, !.timer = None, !.crossed = crossed]
    BY <1>3, <1>4, InstallClearPollingIs
  <2>4. q = [q EXCEPT !.close = panel.close, !.opened = panel.opened]
    BY ZenonT(40), <1>4, <1>5, <2>3 DEF Install!Panel
  <2>5. panel.close \in BOOLEAN /\ panel.opened \in BOOLEAN
    BY <1>3 DEF Install!Panel
  <2> QED
    BY <1>1, <1>2, <2>1, <2>2, <2>4, <2>5, InstallPollingIsOver
<1>7. CASE ~(call[c].n + 1 >= MaxPolls)
  <2> DEFINE row == [call[c] EXCEPT !.step = "timer", !.n = @ + 1, !.read = FALSE,
                                    !.rows = {}, !.found = FALSE]
  <2>1. call' = [call EXCEPT ![c] = row] /\ panel' = [p EXCEPT !.timer = c]
    BY <1>7 DEF Install!PollFindsNothing, Install!Start
  <2>2. call[c] \in Install!CallRow /\ call[c].op = "poll"
    BY <1>1 DEF InstallInv, Install!TypeOK, InstallPolls
  <2>3. call[c].n + 1 \in 0..MaxPolls
    BY <1>7, <2>2, InstallIs DEF Install!CallRow
  <2>4. /\ row \in Install!CallRow /\ row.op = "poll" /\ row.step = "timer"
        /\ row.server = call[c].server /\ row.old = call[c].old
    BY <2>2, <2>3 DEF Install!CallRow
  <2> HIDE DEF row, p
  <2>5. /\ panel' \in Install!Panel /\ panel'.listed \cap panel.hidden = {} /\ panel'.timer = c
        /\ panel'.modal = panel.modal /\ panel'.target = panel.target
        /\ panel'.during = panel.during /\ panel'.command = panel.command
        /\ panel'.crossed = panel.crossed /\ panel'.submitting = panel.submitting
        /\ panel'.close = panel.close /\ panel'.opened = panel.opened
        /\ panel'.hidden = panel.hidden /\ panel'.gone = panel.gone
        /\ panel'.gaveUp = panel.gaveUp
    BY <1>4, <1>5, <2>1 DEF Install!Panel
  <2>6. InstallBecomes(c, row) /\ InstallChanges(c, row)
    BY <2>1, <2>4, InstallStartBecomes DEF InstallInv
  <2>7. InstallPollInv'
    <3> SUFFICES ASSUME ~panel.crossed PROVE InstallPollInv'
      BY <2>5 DEF InstallPollInv
    <3>1. \A b \in Call : InstallPolls(b)' => b = c
      BY <1>1, <2>6 DEF InstallInv, InstallPollInv, InstallBecomes, InstallPolls
    <3>2. ~call[c].old /\ call'[c] = row
      BY <1>1, <2>6 DEF InstallInv, InstallPollInv, InstallBecomes
    <3> QED
      BY <2>4, <2>5, <3>1, <3>2 DEF InstallPollInv
  <2>8. ~InstallIsRemoval(call[c]) /\ ~InstallIsForm(row)
    BY <2>2, <2>4 DEF InstallIsForm, InstallIsRemoval
  <2> QED
    BY <1>1, <2>4, <2>5, <2>6, <2>7, <2>8, InstallPollingKeeps
<1> QED
  BY <1>6, <1>7

\* The polling of the refs is ended, and a call that is no chain starts or goes
\* on, or a new chain.
LEMMA InstallReplacedIs ==
  ASSUME InstallInv, NEW c \in Call, ~InstallPolls(c), NEW row \in Install!CallRow,
         call' = [Install!ClearTimer EXCEPT ![c] = row],
         row.op = "poll" => ~row.old /\ row.step = "main",
         panel'.crossed <=> panel.crossed \/ \E b \in Install!Chains : call[b].step = "main"
  PROVE  InstallChanges(c, row) /\ InstallClears(c) /\ InstallPollInv'
<1>1. InstallChanges(c, row) /\ InstallClears(c)
  BY InstallClearTimerChanges DEF InstallInv
<1>2. Install!Chains = Install!Chains \ {c}
  BY DEF Install!Chains, InstallPolls
<1>3. panel'.crossed \/ (~panel.crossed /\ \A b \in Install!Chains : call[b].step # "main")
  OBVIOUS
<1>4. panel'.crossed \/ ~InstallPolls(c)' \/ (~row.old /\ (row.step = "timer" => panel'.timer = c))
  BY <1>1 DEF InstallChanges, InstallPolls
<1>5. InstallPollInv'
  BY <1>1, <1>2, <1>3, <1>4, InstallEndedIs
<1> QED
  BY <1>1, <1>5

LEMMA InstallGenerateInstallCommandKeeps ==
  ASSUME InstallInv, NEW c \in Call, Install!GenerateInstallCommand(c) PROVE InstallInv'
<1>1. /\ panel.modal \in {"add", "workerCommand"} /\ ~panel.submitting
      /\ call[c].op = "none" /\ UNCHANGED controller
      /\ panel' = [Install!ClearAutoClose(Install!ClearPolling(panel, Install!Chains))
                     EXCEPT !.submitting = TRUE, !.command = None]
  BY DEF Install!GenerateInstallCommand, Install!GenerateOffered, Install!Free
<1>2. PICK s \in IF panel.modal = "add" THEN {t \in Server : controller.row[t] = "absent"}
                                       ELSE {panel.target} :
        call' = [Install!ClearTimer EXCEPT ![c] = [Install!NoCall EXCEPT !.op = "generate", !.server = s]]
  BY DEF Install!GenerateInstallCommand
<1>3. s \in Server /\ (panel.modal = "workerCommand" => s = panel.target)
  BY <1>1, <1>2 DEF InstallInv, InstallModalIsOfAServer
<1> DEFINE row == [Install!NoCall EXCEPT !.op = "generate", !.server = s]
<1>4. row \in Install!CallRow /\ row.op = "generate" /\ row.step = "main" /\ row.server = s
  BY <1>3, InstallNoCallIs DEF Install!CallRow
<1>5. call' = [Install!ClearTimer EXCEPT ![c] = row]
  BY <1>2
<1> HIDE DEF row
<1>6. panel \in Install!Panel /\ Install!Chains \in SUBSET Call /\ panel.listed \cap panel.hidden = {}
  BY DEF InstallInv, Install!TypeOK, Install!Chains, InstallRemovalInv
<1>7. PICK crossed \in BOOLEAN :
        /\ Install!ClearPolling(panel, Install!Chains) = [panel EXCEPT !.pollFor = None, !.timer = None,
                                                                       !.crossed = crossed]
        /\ crossed <=> panel.crossed \/ \E b \in Install!Chains : call[b].step = "main"
  BY <1>6, InstallClearPollingIs
<1>8. /\ panel' \in Install!Panel /\ panel'.modal = panel.modal /\ panel'.target = panel.target
      /\ panel'.during = panel.during /\ panel'.command = None
      /\ panel'.crossed = crossed /\ panel'.submitting /\ ~panel'.close
      /\ panel'.hidden = panel.hidden /\ panel'.gone = panel.gone /\ panel'.gaveUp = panel.gaveUp
      /\ panel'.listed = panel.listed
  <2> DEFINE q == Install!ClearAutoClose(Install!ClearPolling(panel, Install!Chains))
  <2>1. /\ q \in Install!Panel /\ q.modal = panel.modal /\ q.target = panel.target
        /\ q.during = panel.during /\ q.crossed = crossed /\ ~q.close
        /\ q.hidden = panel.hidden /\ q.gone = panel.gone /\ q.gaveUp = panel.gaveUp
        /\ q.listed = panel.listed
    BY <1>6, <1>7 DEF Install!ClearAutoClose, Install!Panel
  <2>2. panel' = [q EXCEPT !.submitting = TRUE, !.command = None]
    BY <1>1
  <2> HIDE DEF q
  <2> QED
    BY <2>1, <2>2 DEF Install!Panel
<1>9. /\ InstallChanges(c, row) /\ InstallPollInv'
  BY <1>1, <1>4, <1>5, <1>7, <1>8, InstallReplacedIs DEF InstallPolls
<1>10. ~InstallIsRemoval(call[c])
  BY <1>1 DEF InstallIsRemoval
<1> QED
  BY <1>1, <1>3, <1>4, <1>6, <1>8, <1>9, <1>10, InstallPollingKeeps

LEMMA InstallStartPollingKeeps ==
  ASSUME InstallInv, NEW c \in Call, Install!StartPolling(c) PROVE InstallInv'
<1> DEFINE s == call[c].server
           p == Install!SetVisible(panel, call[c].rows)
           for == IF s \in p.hidden THEN None ELSE s
           row == IF s \in p.hidden THEN Install!NoCall ELSE [Install!NoCall EXCEPT !.op = "poll", !.server = s]
<1>1. /\ call[c].op = "generate" /\ UNCHANGED controller
      /\ panel' = [Install!ClearAutoClose(Install!ClearPolling(p, Install!Chains)) EXCEPT !.submitting = FALSE,
                                                                                          !.pollFor = for]
      /\ call' = [Install!ClearTimer EXCEPT ![c] = row]
  BY DEF Install!StartPolling, Install!Waits
<1>2. call[c].rows \in SUBSET Server /\ panel \in Install!Panel /\ Install!Chains \in SUBSET Call /\ s \in Server
  BY <1>1 DEF InstallInv, Install!TypeOK, Install!CallRow, Install!Chains, InstallRowIsAimed
<1>3. /\ row \in Install!CallRow /\ row.op \in {"none", "poll"} /\ row.step = "main" /\ ~row.old
      /\ row.op = "poll" => row.server = s
  BY <1>2, InstallNoCallIs DEF Install!CallRow
<1>4. p \in Install!Panel /\ p = [panel EXCEPT !.listed = call[c].rows \ panel.hidden]
  BY <1>2, InstallSetVisibleIs
<1>5. /\ p.listed \cap panel.hidden = {}
      /\ p.modal = panel.modal /\ p.target = panel.target
      /\ p.during = panel.during /\ p.command = panel.command /\ p.crossed = panel.crossed
      /\ p.hidden = panel.hidden /\ p.gone = panel.gone /\ p.gaveUp = panel.gaveUp
  BY <1>2, <1>4 DEF Install!Panel
<1>6. for \in Server \cup {None}
  BY <1>2
<1> HIDE DEF p, row, for
<1>7. PICK crossed \in BOOLEAN :
        /\ Install!ClearPolling(p, Install!Chains) = [p EXCEPT !.pollFor = None, !.timer = None,
                                                               !.crossed = crossed]
        /\ crossed <=> p.crossed \/ \E b \in Install!Chains : call[b].step = "main"
  BY <1>2, <1>4, InstallClearPollingIs
<1>8. /\ panel' \in Install!Panel /\ panel'.modal = panel.modal /\ panel'.target = panel.target
      /\ panel'.during = panel.during /\ panel'.command = panel.command
      /\ panel'.crossed = crossed /\ ~panel'.submitting /\ ~panel'.close
      /\ panel'.hidden = panel.hidden /\ panel'.gone = panel.gone /\ panel'.gaveUp = panel.gaveUp
      /\ panel'.listed \cap panel.hidden = {}
  <2> DEFINE o == Install!ClearPolling(p, Install!Chains)
             q == Install!ClearAutoClose(o)
  <2>0. /\ o \in Install!Panel /\ o.modal = panel.modal /\ o.target = panel.target
        /\ o.during = panel.during /\ o.command = panel.command /\ o.crossed = crossed
        /\ o.hidden = panel.hidden /\ o.gone = panel.gone /\ o.gaveUp = panel.gaveUp
        /\ o.listed \cap panel.hidden = {}
    <3>1. p \in Install!Panel /\ o = [p EXCEPT !.pollFor = None, !.timer = None, !.crossed = crossed]
      BY <1>4, <1>7
    <3>2. /\ o \in Install!Panel /\ o.modal = p.modal /\ o.target = p.target
          /\ o.during = p.during /\ o.command = p.command /\ o.crossed = crossed
          /\ o.hidden = p.hidden /\ o.gone = p.gone /\ o.gaveUp = p.gaveUp
          /\ o.listed = p.listed
      BY <3>1 DEF Install!Panel
    <3> HIDE DEF o
    <3> QED
      BY <1>5, <3>2
  <2> HIDE DEF o
  <2>1. /\ q \in Install!Panel /\ q.modal = panel.modal /\ q.target = panel.target
        /\ q.during = panel.during /\ q.command = panel.command /\ q.crossed = crossed /\ ~q.close
        /\ q.hidden = panel.hidden /\ q.gone = panel.gone /\ q.gaveUp = panel.gaveUp
        /\ q.listed \cap panel.hidden = {}
    BY <2>0 DEF Install!ClearAutoClose, Install!Panel
  <2>2. panel' = [q EXCEPT !.submitting = FALSE, !.pollFor = for]
    BY <1>1 DEF o
  <2> HIDE DEF q
  <2> QED
    BY <1>6, <2>1, <2>2 DEF Install!Panel
<1>9. InstallChanges(c, row) /\ InstallPollInv'
  BY <1>1, <1>3, <1>5, <1>7, <1>8, InstallReplacedIs DEF InstallPolls
<1>10. ~InstallIsRemoval(call[c]) /\ InstallIsForm(call[c]) /\ ~InstallIsForm(row)
  BY <1>1, <1>3 DEF InstallIsRemoval, InstallIsForm
<1> QED
  BY <1>1, <1>2, <1>3, <1>8, <1>9, <1>10, InstallPollingKeeps

LEMMA InstallSubmitDeleteKeeps ==
  ASSUME InstallInv, NEW c \in Call, Install!SubmitDelete(c) PROVE InstallInv'
<1> DEFINE s == panel.target
           q == [panel EXCEPT !.hidden = @ \cup {s}, !.listed = @ \ {s}]
           row == [Install!NoCall EXCEPT !.op = "delete", !.server = s, !.mode = panel.deleteMode]
<1>1. /\ panel.modal = "delete" /\ ~panel.submitting /\ call[c].op = "none"
      /\ panel' = [Install!MarkPending(panel, s) EXCEPT !.submitting = TRUE]
      /\ call' = [(IF panel.pollFor = s THEN Install!ClearTimer ELSE call) EXCEPT ![c] = row]
      /\ UNCHANGED controller
  BY DEF Install!SubmitDelete, Install!DeleteOffered, Install!Free
<1>2. s \in Server /\ panel \in Install!Panel /\ Install!Chains \in SUBSET Call
  BY <1>1 DEF InstallInv, InstallModalIsOfAServer, Install!TypeOK, Install!Chains
<1>3. s \notin panel.hidden
  <2>1. \A b \in Call : ~Install!Waits(b, "delete", "main")
    BY <1>1 DEF InstallInv, InstallFormInv, Install!Waits, InstallIsForm
  <2> QED
    BY <1>1, <2>1 DEF InstallInv, InstallRemovalInv
<1>4. /\ row \in Install!CallRow /\ row.op = "delete" /\ row.step = "main" /\ row.server = s
      /\ row.mode \in {"remote", "local"} /\ row.n = 0
  BY <1>2, InstallNoCallIs DEF Install!Panel, Install!CallRow
<1>5. /\ q \in Install!Panel /\ q.hidden = panel.hidden \cup {s} /\ q.listed = panel.listed \ {s}
      /\ q.modal = panel.modal /\ q.target = panel.target
      /\ q.during = panel.during /\ q.opened = panel.opened
      /\ q.command = panel.command /\ q.close = panel.close
      /\ q.crossed = panel.crossed /\ q.timer = panel.timer
      /\ q.gone = panel.gone /\ q.gaveUp = panel.gaveUp
  BY <1>2 DEF Install!Panel
<1> HIDE DEF row, s
<1>6. PICK over \in Install!Panel :
        /\ panel' = [over EXCEPT !.submitting = TRUE]
        /\ over.hidden = q.hidden /\ over.listed = q.listed
        /\ over.modal = q.modal /\ over.target = q.target
        /\ over.during = q.during /\ over.opened = q.opened
        /\ over.command = q.command /\ over.close = q.close
        /\ over.gone = q.gone /\ over.gaveUp = q.gaveUp
        /\ \/ /\ panel.pollFor = s
              /\ over.crossed <=> panel.crossed \/ \E b \in Install!Chains : call[b].step = "main"
           \/ panel.pollFor # s /\ over.crossed = panel.crossed /\ over.timer = panel.timer
  <2>1. CASE panel.pollFor = s
    <3>1. PICK crossed \in BOOLEAN :
            /\ Install!ClearPolling(q, Install!Chains) = [q EXCEPT !.pollFor = None, !.timer = None,
                                                                   !.crossed = crossed]
            /\ crossed <=> q.crossed \/ \E b \in Install!Chains : call[b].step = "main"
      BY <1>2, <1>5, InstallClearPollingIs
    <3> DEFINE o == Install!ClearPolling(q, Install!Chains)
    <3>2. panel' = [o EXCEPT !.submitting = TRUE]
      BY <1>1, <2>1 DEF Install!MarkPending, s
    <3> HIDE DEF q
    <3>3. /\ o \in Install!Panel
          /\ o.hidden = q.hidden /\ o.listed = q.listed
          /\ o.modal = q.modal /\ o.target = q.target
          /\ o.during = q.during /\ o.opened = q.opened
          /\ o.command = q.command /\ o.close = q.close
          /\ o.gone = q.gone /\ o.gaveUp = q.gaveUp
          /\ o.crossed = crossed
      BY <1>5, <3>1 DEF Install!Panel
    <3> HIDE DEF o
    <3> QED
      BY <1>5, <2>1, <3>1, <3>2, <3>3
  <2>2. CASE panel.pollFor # s
    <3>1. panel' = [q EXCEPT !.submitting = TRUE]
      BY <1>1, <2>2 DEF Install!MarkPending, s
    <3> HIDE DEF q
    <3> QED
      BY <1>5, <2>2, <3>1
  <2> QED
    BY <2>1, <2>2
<1> HIDE DEF q
<1>7. /\ panel' \in Install!Panel /\ panel'.hidden = panel.hidden \cup {s}
      /\ panel'.listed = panel.listed \ {s}
      /\ panel'.modal = panel.modal /\ panel'.target = panel.target
      /\ panel'.during = panel.during /\ panel'.opened = panel.opened
      /\ panel'.command = panel.command /\ panel'.close = panel.close
      /\ panel'.gone = panel.gone /\ panel'.gaveUp = panel.gaveUp
      /\ panel'.crossed = over.crossed /\ panel'.timer = over.timer /\ panel'.submitting
  BY <1>5, <1>6 DEF Install!Panel
<1>8. InstallChanges(c, row) /\ InstallPollInv'
  <2>1. CASE panel.pollFor = s
    BY <1>1, <1>4, <1>6, <1>7, <2>1, InstallReplacedIs DEF InstallPolls
  <2>2. CASE panel.pollFor # s
    <3>1. call' = [call EXCEPT ![c] = row]
      BY <1>1, <2>2
    <3>2. InstallBecomes(c, row) /\ InstallChanges(c, row)
      BY <1>4, <3>1, InstallStartBecomes DEF InstallInv
    <3> QED
      BY <1>4, <1>6, <1>7, <2>2, <3>2, InstallPollStays
  <2> QED
    BY <2>1, <2>2
<1>9. \A b \in Call : InstallRowIsAimed(b)'
  BY <1>1, <1>2, <1>4, <1>8, InstallRowsStay
<1>10. InstallCommandInv'
  BY <1>4, <1>7, <1>8, InstallCommandStays
<1>11. InstallFormInv'
  BY <1>1, <1>7, <1>8, InstallFormStays
<1>12. ~InstallIsRemoval(call[c]) /\ InstallIsRemoval(row)
  BY <1>1, <1>4 DEF InstallIsRemoval
<1>13. InstallRemovalInv'
  <2>1. /\ row.server \in panel'.hidden \ panel'.gone
        /\ \A b \in Call \ {c} : InstallIsRemoval(call[b]) => call[b].server # row.server
    BY <1>3, <1>4, <1>7 DEF InstallInv, InstallRemovalInv
  <2>2. panel'.gone \subseteq panel'.hidden /\ panel'.hidden \cap panel'.listed = {}
    BY <1>7 DEF InstallInv, InstallRemovalInv
  <2>3. panel'.target = s
    BY <1>7 DEF s
  <2> QED
    BY <1>4, <1>7, <1>8, <2>1, <2>2, <2>3, InstallRemovalStays
<1>14. InstallHiddenInv'
  BY <1>1, <1>4, <1>7, <1>8, <1>12, InstallHiddenStays
<1>15. Install!AutoCloseSparesNewCommands' /\ InstallModalIsOfAServer'
  BY <1>1, <1>2, <1>7 DEF s, Install!AutoCloseSparesNewCommands, InstallModalIsOfAServer
<1> QED
  BY <1>1, <1>7, <1>8, <1>9, <1>10, <1>11, <1>13, <1>14, <1>15, InstallControllerStays
  DEF InstallInv, Install!TypeOK, InstallChanges

-----------------------------------------------------------------------------
LEMMA InstallNext ==
  ASSUME InstallInv, [Install!Next]_(Install!vars)
  PROVE  InstallInv'
<1>1. ASSUME UNCHANGED Install!vars PROVE InstallInv'
  BY <1>1 DEF Install!vars, InstallInv, Install!TypeOK, InstallModalIsOfAServer, InstallRowIsAimed,
     InstallPolls, Install!Taken, InstallCommandInv, InstallGenerates,
     Install!AutoCloseSparesNewCommands, InstallPollInv, InstallFormInv, InstallRemovalInv,
     InstallHiddenInv, Install!Waits, InstallCleanedIsDeleted
<1>2. ASSUME NEW c \in Call, Install!Refresh(c) \/ Install!GenerateInstallCommand(c) \/ Install!SubmitEdit(c)
                             \/ Install!SubmitDelete(c) \/ Install!ReadList(c)
      PROVE  InstallInv'
  BY <1>2, InstallRefreshKeeps, InstallGenerateInstallCommandKeeps, InstallSubmitEditKeeps,
     InstallSubmitDeleteKeeps,
     InstallReadListKeeps
<1>3. ASSUME NEW c \in Call, Install!Poll(c) PROVE InstallInv'
  BY <1>3, InstallPollFiresKeeps, InstallPollFindsServerKeeps, InstallPollFindsNothingKeeps,
     InstallPollRejectsKeeps DEF Install!Poll
<1>4. ASSUME NEW c \in Call, Install!ListLoaded(c) \/ Install!CommandGenerated(c) \/ Install!CommandRefused(c)
                             \/ Install!StartPolling(c) \/ Install!EditSaved(c) \/ Install!EditFails(c)
      PROVE  InstallInv'
  BY <1>4, InstallListLoadedKeeps, InstallCommandGeneratedKeeps, InstallCommandRefusedKeeps,
     InstallStartPollingKeeps,
     InstallEditSavedKeeps, InstallEditFailsKeeps
<1>5. ASSUME NEW c \in Call, Install!DeleteRefused(c) \/ Install!DeleteAccepted(c) \/ Install!FlowListed(c)
                             \/ Install!FlowListRejects(c) \/ Install!WatchEnds(c) \/ Install!WatchGoesOn(c)
                             \/ Install!WatchRejects(c)
      PROVE  InstallInv'
  BY <1>5, InstallDeleteRefusedKeeps, InstallDeleteAcceptedKeeps, InstallFlowListedKeeps,
     InstallFlowListRejectsKeeps,
     InstallWatchEndsKeeps, InstallWatchGoesOnKeeps
<1>6. ASSUME NEW c \in Call, Install!Continue(c) PROVE InstallInv'
  BY <1>3, <1>4, <1>5, <1>6 DEF Install!Continue
<1>7. ASSUME NEW s \in Server, Install!OpenWorkerCommand(s) \/ Install!OpenEdit(s) \/ Install!OpenDelete(s)
      PROVE  InstallInv'
  BY <1>7, InstallOpensKeep
<1>8. ASSUME NEW s \in Server, Install!CleanupEnds(s) \/ Install!WorkerComesUp(s) PROVE InstallInv'
  BY <1>8, InstallServerKeeps
<1>9. ASSUME Install!OpenAddServer \/ Install!Cancel \/ Install!AutoClose PROVE InstallInv'
  BY <1>9, InstallOpensKeep, InstallCloseKeeps
<1> QED
  BY <1>1, <1>2, <1>6, <1>7, <1>8, <1>9 DEF Install!Next

LEMMA InstallHolds ==
  ASSUME InstallInv
  PROVE  /\ Install!ChainsAreCurrent /\ Install!CommandIsForItsServer /\ Install!AutoCloseSparesNewCommands
         /\ Install!HiddenRowIsWatched /\ Install!RemovedStaysAway
<1>1. Install!ChainsAreCurrent
  BY DEF InstallInv, InstallPollInv, Install!ChainsAreCurrent, Install!Chains, InstallPolls
<1>2. Install!CommandIsForItsServer
  BY DEF InstallInv, InstallCommandInv, Install!CommandIsForItsServer
<1>3. Install!HiddenRowIsWatched
  <2>1. \A c \in Call : InstallIsRemoval(call[c]) => call[c].op \in {"delete", "watch"}
    BY DEF InstallIsRemoval
  <2> QED
    BY <2>1 DEF InstallInv, InstallHiddenInv, Install!HiddenRowIsWatched
<1>4. Install!RemovedStaysAway
  BY DEF InstallInv, InstallRemovalInv, Install!RemovedStaysAway
<1> QED
  BY <1>1, <1>2, <1>3, <1>4 DEF InstallInv

-----------------------------------------------------------------------------
(* ServerManagementPanel: the plan and the execution of BBR. *)

LEMMA BbrIs ==
  None \notin Server /\ IsFiniteSet(Call)
BY ServerPanelsAssumption

\* The types, with numbers of commands that have no bound.
BbrSeen == [id : Nat, kind : Bbr!Kind, status : Bbr!Status]

BbrPanelRow == [plan : [Server -> BOOLEAN], latest : [Server -> BbrSeen],
                dryLoading : Server \cup {None}, realLoading : Server \cup {None},
                checkLoading : Server \cup {None}, confirm : Server \cup {None},
                error : Server \cup {None}, switched : BOOLEAN, overlapped : BOOLEAN]

BbrCall == [op : {"none", "plan", "check", "dryRun", "real", "list", "watch"},
            server : Server \cup {None}, read : BbrSeen, id : Nat, n : Nat, seen : Nat]

BbrTypes ==
  /\ panel \in BbrPanelRow /\ call \in [Call -> BbrCall] /\ controller \in [Server -> Seq(Bbr!Command)]

\* What is shown of a command was true of it once: it is there, of that kind,
\* and what has ended stays as it ended.
BbrWas(s, seen) ==
  seen.id # 0 =>
    /\ seen.id \in 1..Len(controller[s])
    /\ controller[s][seen.id].kind = seen.kind
    /\ seen.status = "succeeded" => controller[s][seen.id].status = "succeeded"

BbrShows(s, seen) == BbrWas(s, seen) /\ (seen.id = 0 => seen.kind = "check")

BbrHadDryRun(s) ==
  \E i \in 1..Len(controller[s]) : controller[s][i] = [kind |-> "dryRun", status |-> "succeeded"]

BbrIsReal(c) == call[c].op = "real"

\* A call is for a server; a list knows of every command it was asked after.
BbrCallIs(row) ==
  /\ row.op # "none" => row.server \in Server /\ BbrWas(row.server, row.read)
  /\ row.read.id # 0 => row.op \in {"list", "watch"}
  /\ row.op = "real" => BbrHadDryRun(row.server)
  /\ row.op \in {"list", "watch"} => row.id \in 0..Len(controller[row.server])
  /\ row.op = "watch" => row.id # 0
  /\ row.op = "list" => /\ Len(controller[row.server]) # 0
                        /\ row.seen <= Len(controller[row.server])
                        /\ row.read.id # 0 => row.seen <= row.read.id

\* One real execution is requested, and the flag names its server.
BbrTurnsInv ==
  ~panel.overlapped =>
    \A c \in Call : BbrIsReal(c) => /\ panel.realLoading = call[c].server
                                    /\ \A k \in Call : BbrIsReal(k) => k = c

\* What is requested while the modal is open is for its server.
BbrErrorInv ==
  /\ panel.error # None => panel.error = panel.confirm \/ panel.switched
  /\ panel.confirm # None /\ ~panel.switched =>
       \A c \in Call : BbrIsReal(c) => call[c].server = panel.confirm

BbrInv ==
  /\ BbrTypes /\ BbrTurnsInv /\ BbrErrorInv
  /\ \A s \in Server : BbrShows(s, panel.latest[s]) /\ (panel.confirm = s => BbrHadDryRun(s))
  /\ \A c \in Call : BbrCallIs(call[c])

-----------------------------------------------------------------------------
LEMMA BbrNoCallIs ==
  /\ Bbr!NoCall \in BbrCall /\ Bbr!NoCall.op = "none" /\ Bbr!NoCall.id = 0 /\ Bbr!NoCall.read = Bbr!NothingShown
  /\ Bbr!NothingShown \in BbrSeen /\ Bbr!NothingShown.id = 0 /\ Bbr!NothingShown.kind = "check" /\ BbrCallIs(Bbr!NoCall)
BY DEF Bbr!NoCall, Bbr!NothingShown, BbrCall, BbrSeen, Bbr!Kind, Bbr!Status, BbrCallIs

LEMMA BbrInit == Bbr!Init => BbrInv
<1> SUFFICES ASSUME Bbr!Init PROVE BbrInv
  OBVIOUS
<1>1. panel \in BbrPanelRow
  BY BbrNoCallIs DEF Bbr!Init, BbrPanelRow
<1>2. call \in [Call -> BbrCall] /\ \A c \in Call : call[c] = Bbr!NoCall
  BY BbrNoCallIs DEF Bbr!Init
<1>3. \A s \in Server : controller[s] \in Seq(Bbr!Command) /\ Len(controller[s]) = 0
  BY DEF Bbr!Init
<1>4. controller \in [Server -> Seq(Bbr!Command)]
  BY <1>3 DEF Bbr!Init
<1>5. \A s \in Server : BbrShows(s, panel.latest[s]) /\ panel.confirm # s
  BY BbrNoCallIs, BbrIs DEF Bbr!Init, BbrShows, BbrWas
<1>6. BbrTurnsInv /\ BbrErrorInv
  BY <1>2, BbrNoCallIs DEF Bbr!Init, BbrTurnsInv, BbrErrorInv, BbrIsReal
<1> QED
  BY <1>1, <1>2, <1>4, <1>5, <1>6, BbrNoCallIs DEF BbrInv, BbrTypes

-----------------------------------------------------------------------------
(* What the controller knows stays. *)

BbrCommandsStay ==
  /\ controller' \in [Server -> Seq(Bbr!Command)]
  /\ \A s \in Server :
       /\ Len(controller[s]) <= Len(controller'[s])
       /\ \A i \in 1..Len(controller[s]) :
            /\ controller'[s][i].kind = controller[s][i].kind
            /\ controller[s][i].status = "succeeded" => controller'[s][i] = controller[s][i]

LEMMA BbrLenIs ==
  ASSUME BbrTypes, NEW s \in Server
  PROVE  /\ controller[s] \in Seq(Bbr!Command) /\ Len(controller[s]) \in Nat
         /\ \A i \in 1..Len(controller[s]) : controller[s][i] \in Bbr!Command
<1>1. controller[s] \in Seq(Bbr!Command)
  BY DEF BbrTypes
<1> QED
  BY <1>1, LenProperties, ElementOfSeq

LEMMA BbrSameCommandsStay ==
  ASSUME BbrTypes, UNCHANGED controller
  PROVE  BbrCommandsStay
BY BbrLenIs DEF BbrTypes, BbrCommandsStay

LEMMA BbrWasStays ==
  ASSUME BbrTypes, BbrCommandsStay, NEW s \in Server, NEW seen \in BbrSeen
  PROVE  /\ BbrWas(s, seen) => BbrWas(s, seen)'
         /\ BbrShows(s, seen) => BbrShows(s, seen)'
         /\ BbrHadDryRun(s) => BbrHadDryRun(s)'
<1>1. /\ Len(controller[s]) \in Nat /\ Len(controller'[s]) \in Nat
      /\ Len(controller[s]) <= Len(controller'[s])
      /\ \A i \in 1..Len(controller[s]) : i \in 1..Len(controller'[s])
      /\ controller'[s] \in Seq(Bbr!Command)
  BY BbrLenIs DEF BbrCommandsStay
<1>2. BbrWas(s, seen) => BbrWas(s, seen)'
  BY <1>1 DEF BbrCommandsStay, BbrWas
<1>3. BbrHadDryRun(s) => BbrHadDryRun(s)'
  <2> SUFFICES ASSUME BbrHadDryRun(s) PROVE BbrHadDryRun(s)'
    OBVIOUS
  <2>1. PICK i \in 1..Len(controller[s]) :
          controller[s][i] = [kind |-> "dryRun", status |-> "succeeded"]
    BY DEF BbrHadDryRun
  <2>2. controller'[s][i] = controller[s][i]
    BY <2>1 DEF BbrCommandsStay
  <2> QED
    BY <1>1, <2>1, <2>2 DEF BbrHadDryRun
<1> QED
  BY <1>2, <1>3 DEF BbrShows

LEMMA BbrCallIsStays ==
  ASSUME BbrTypes, BbrCommandsStay, NEW row \in BbrCall, BbrCallIs(row)
  PROVE  BbrCallIs(row)'
<1>1. CASE row.op = "none"
  BY <1>1 DEF BbrCallIs
<1>2. CASE row.op # "none"
  <2> DEFINE s == row.server
  <2>1. s \in Server /\ row.read \in BbrSeen /\ row.id \in Nat /\ row.seen \in Nat
    BY <1>2 DEF BbrCallIs, BbrCall
  <2>2. /\ BbrWas(s, row.read)' /\ (BbrHadDryRun(s) => BbrHadDryRun(s)')
    BY <1>2, <2>1, BbrWasStays DEF BbrCallIs
  <2>3. /\ Len(controller[s]) \in Nat /\ Len(controller'[s]) \in Nat
        /\ Len(controller[s]) <= Len(controller'[s])
    BY <2>1, BbrLenIs DEF BbrCommandsStay
  <2> QED
    BY <2>1, <2>2, <2>3 DEF BbrCallIs
<1> QED
  BY <1>1, <1>2

\* One call becomes another.
BbrBecomes(c, row) ==
  /\ call' \in [Call -> BbrCall] /\ call'[c] = row
  /\ \A b \in Call \ {c} : call'[b] = call[b]

LEMMA BbrStartBecomes ==
  ASSUME BbrTypes, NEW c \in Call, NEW row \in BbrCall, call' = [call EXCEPT ![c] = row]
  PROVE  BbrBecomes(c, row)
BY DEF BbrTypes, BbrBecomes

LEMMA BbrFinishBecomes ==
  ASSUME BbrTypes, NEW c \in Call, Bbr!Finish(c) PROVE BbrBecomes(c, Bbr!NoCall)
BY BbrNoCallIs, BbrStartBecomes DEF Bbr!Finish

LEMMA BbrBeginIs ==
  ASSUME BbrInv, NEW s \in Server, NEW c, NEW op \in {"plan", "check", "dryRun", "real", "list"}
  PROVE  /\ Bbr!Begin(c, op, s, 0) \in BbrCall /\ Bbr!Begin(c, op, s, 0).op = op
         /\ Bbr!Begin(c, op, s, 0).server = s /\ Bbr!Begin(c, op, s, 0).id = 0
         /\ Bbr!Begin(c, op, s, 0).read = Bbr!NothingShown
         /\ Bbr!Begin(c, op, s, 0).seen = panel.latest[s].id
<1>1. panel.latest[s].id \in Nat
  BY DEF BbrInv, BbrTypes, BbrPanelRow, BbrSeen
<1> QED
  BY <1>1, BbrNoCallIs DEF Bbr!Begin, BbrCall

\* A step of one call.
LEMMA BbrCallKeeps ==
  ASSUME BbrInv, BbrCommandsStay, NEW c \in Call, NEW row \in BbrCall, BbrBecomes(c, row),
         BbrCallIs(row)',
         panel' \in BbrPanelRow, BbrTurnsInv', BbrErrorInv',
         \A s \in Server : \/ panel'.latest[s] = panel.latest[s]
                           \/ \E seen \in BbrSeen : panel'.latest[s] = seen /\ BbrShows(s, seen)',
         \A s \in Server : panel'.confirm = s => panel.confirm = s \/ BbrHadDryRun(s)
  PROVE  BbrInv'
<1>1. \A s \in Server : BbrShows(s, panel.latest[s])' /\ (panel.confirm = s => BbrHadDryRun(s))'
  <2> TAKE s \in Server
  <2> DEFINE old == panel.latest[s]
  <2>1. old \in BbrSeen /\ BbrShows(s, old) /\ (panel.confirm = s => BbrHadDryRun(s))
    BY DEF BbrInv, BbrTypes, BbrPanelRow
  <2> HIDE DEF old
  <2>2. PICK seen \in BbrSeen : seen = old
    BY <2>1
  <2>3. BbrShows(s, seen)' /\ (BbrHadDryRun(s) => BbrHadDryRun(s)')
    BY <2>1, <2>2, BbrWasStays DEF BbrInv
  <2>4. panel'.latest[s] = seen \/ \E new \in BbrSeen : panel'.latest[s] = new /\ BbrShows(s, new)'
    BY <2>2 DEF old
  <2>5. BbrShows(s, panel.latest[s])'
    BY <2>3, <2>4
  <2> QED
    BY <2>1, <2>3, <2>5
<1>2. \A b \in Call : BbrCallIs(call[b])'
  <2> TAKE b \in Call
  <2>1. CASE b = c
    BY <2>1 DEF BbrBecomes
  <2>2. CASE b # c
    <3>1. call'[b] = call[b] /\ call[b] \in BbrCall /\ BbrCallIs(call[b])
      BY <2>2 DEF BbrInv, BbrTypes, BbrBecomes
    <3>2. PICK old \in BbrCall : old = call[b]
      BY <3>1
    <3>3. BbrCallIs(old)'
      BY <3>1, <3>2, BbrCallIsStays DEF BbrInv
    <3> QED
      BY <3>1, <3>2, <3>3
  <2> QED
    BY <2>1, <2>2
<1> QED
  BY <1>1, <1>2 DEF BbrInv, BbrTypes, BbrBecomes, BbrCommandsStay

LEMMA BbrTurnsStay ==
  ASSUME BbrInv, NEW c \in Call, NEW row, BbrBecomes(c, row),
         panel'.overlapped = panel.overlapped, panel'.realLoading = panel.realLoading,
         row.op # "real"
  PROVE  BbrTurnsInv'
BY DEF BbrInv, BbrTurnsInv, BbrBecomes, BbrIsReal

LEMMA BbrErrorStays ==
  ASSUME BbrInv, NEW c \in Call, NEW row, BbrBecomes(c, row), row.op # "real",
         panel'.error = panel.error, panel'.confirm = panel.confirm,
         panel'.switched = panel.switched
  PROVE  BbrErrorInv'
BY DEF BbrInv, BbrErrorInv, BbrBecomes, BbrIsReal

\* What the modal, the flag of a real execution and the table of latest commands
\* have to do with a step that is none of their business.
BbrAside ==
  /\ panel' \in BbrPanelRow /\ panel'.latest = panel.latest /\ panel'.confirm = panel.confirm
  /\ panel'.error = panel.error /\ panel'.switched = panel.switched
  /\ panel'.realLoading = panel.realLoading /\ panel'.overlapped = panel.overlapped

LEMMA BbrAsideKeeps ==
  ASSUME BbrInv, UNCHANGED controller, NEW c \in Call, NEW row \in BbrCall, BbrBecomes(c, row),
         BbrCallIs(row), row.op # "real", BbrAside
  PROVE  BbrInv'
<1>1. BbrCommandsStay
  BY BbrSameCommandsStay DEF BbrInv
<1>2. BbrCallIs(row)'
  BY <1>1, BbrCallIsStays DEF BbrInv
<1>3. BbrTurnsInv' /\ BbrErrorInv'
  BY BbrTurnsStay, BbrErrorStays DEF BbrAside
<1> QED
  BY <1>1, <1>2, <1>3, BbrCallKeeps DEF BbrAside

LEMMA BbrUnchangedIsAside == ASSUME BbrInv, UNCHANGED panel PROVE BbrAside
BY DEF BbrInv, BbrTypes, BbrAside

LEMMA BbrStartKeeps ==
  ASSUME BbrInv, UNCHANGED controller, NEW c \in Call, NEW s \in Server,
         NEW op \in {"plan", "check", "dryRun", "list"}, Bbr!Start(c, op, s, 0),
         op = "list" => controller[s] # <<>>, BbrAside
  PROVE  BbrInv'
<1> DEFINE row == Bbr!Begin(c, op, s, 0)
<1>1. /\ row \in BbrCall /\ row.op = op /\ row.server = s /\ row.id = 0
      /\ row.read = Bbr!NothingShown /\ row.seen = panel.latest[s].id
  BY BbrBeginIs
<1>2. call' = [call EXCEPT ![c] = row]
  BY DEF Bbr!Start
<1> HIDE DEF row
<1>3. BbrBecomes(c, row)
  BY <1>1, <1>2, BbrStartBecomes DEF BbrInv
<1>4. BbrCallIs(row)
  <2>1. Len(controller[s]) \in Nat /\ controller[s] \in Seq(Bbr!Command)
    BY BbrLenIs DEF BbrInv
  <2>2. op = "list" => Len(controller[s]) # 0
    BY <2>1, EmptySeq
  <2>3. panel.latest[s] \in BbrSeen /\ BbrWas(s, panel.latest[s])
    BY DEF BbrInv, BbrTypes, BbrPanelRow, BbrShows
  <2>4. panel.latest[s].id <= Len(controller[s])
    BY <2>1, <2>3 DEF BbrWas, BbrSeen
  <2> QED
    BY <1>1, <2>1, <2>2, <2>4, BbrNoCallIs DEF BbrCallIs, BbrWas
<1> QED
  BY <1>1, <1>3, <1>4, BbrAsideKeeps

LEMMA BbrStartsKeep ==
  ASSUME BbrInv, NEW c \in Call, NEW s \in Server,
         Bbr!OpenBbrEnablePlan(c, s) \/ Bbr!RunCheck(c, s) \/ Bbr!OpenBbrEnableDryRun(c, s) \/ Bbr!Refresh(c, s)
  PROVE  BbrInv'
<1>1. CASE Bbr!OpenBbrEnablePlan(c, s)
  BY <1>1, BbrStartKeeps, BbrUnchangedIsAside DEF Bbr!OpenBbrEnablePlan
<1>2. CASE Bbr!Refresh(c, s)
  BY <1>2, BbrStartKeeps, BbrUnchangedIsAside DEF Bbr!Refresh
<1>3. CASE Bbr!RunCheck(c, s)
  <2>1. BbrAside
    BY <1>3 DEF Bbr!RunCheck, BbrInv, BbrTypes, BbrPanelRow, BbrAside
  <2> QED
    BY <1>3, <2>1, BbrStartKeeps DEF Bbr!RunCheck
<1>4. CASE Bbr!OpenBbrEnableDryRun(c, s)
  <2>1. BbrAside
    BY <1>4 DEF Bbr!OpenBbrEnableDryRun, BbrInv, BbrTypes, BbrPanelRow, BbrAside
  <2> QED
    BY <1>4, <2>1, BbrStartKeeps DEF Bbr!OpenBbrEnableDryRun
<1> QED
  BY <1>1, <1>2, <1>3, <1>4

\* The panel alone: the confirmation modal.
LEMMA BbrModalKeeps ==
  ASSUME BbrInv, UNCHANGED <<call, controller>>, panel' \in BbrPanelRow,
         panel'.latest = panel.latest, panel'.realLoading = panel.realLoading,
         panel'.overlapped = panel.overlapped, panel'.error = None,
         \/ panel'.confirm = None
         \/ \E s \in Server : panel'.confirm = s /\ BbrHadDryRun(s)
              /\ (panel'.switched \/ \A c \in Call : ~BbrIsReal(c))
  PROVE  BbrInv'
<1>1. \A s \in Server : BbrShows(s, panel.latest[s])' /\ (panel.confirm = s => BbrHadDryRun(s))'
  <2> TAKE s \in Server
  <2>1. panel'.confirm = s => BbrHadDryRun(s)
    BY BbrIs
  <2> QED
    BY <2>1 DEF BbrInv, BbrShows, BbrWas, BbrHadDryRun
<1>2. BbrTurnsInv'
  BY DEF BbrInv, BbrTurnsInv, BbrIsReal
<1>3. BbrErrorInv'
  BY DEF BbrErrorInv, BbrIsReal
<1>4. \A c \in Call : BbrCallIs(call[c])'
  BY DEF BbrInv, BbrCallIs, BbrWas, BbrHadDryRun
<1> QED
  BY <1>1, <1>2, <1>3, <1>4 DEF BbrInv, BbrTypes

LEMMA BbrOpenConfirmKeeps ==
  ASSUME BbrInv, NEW s \in Server, Bbr!OpenBbrRealExecutionConfirm(s) PROVE BbrInv'
<1>1. /\ panel' = [panel EXCEPT !.confirm = s, !.error = None, !.switched = Bbr!Requested("real") # {}]
      /\ UNCHANGED <<call, controller>> /\ Bbr!DryRunSucceeded(s)
  BY DEF Bbr!OpenBbrRealExecutionConfirm
<1>2. BbrHadDryRun(s)
  <2> DEFINE seen == panel.latest[s]
  <2>1. seen \in BbrSeen /\ BbrShows(s, seen) /\ seen.kind = "dryRun" /\ seen.status = "succeeded"
    BY <1>1 DEF BbrInv, BbrTypes, BbrPanelRow, Bbr!DryRunSucceeded
  <2> HIDE DEF seen
  <2>2. /\ seen.id \in 1..Len(controller[s]) /\ controller[s][seen.id].kind = "dryRun"
        /\ controller[s][seen.id].status = "succeeded"
    BY <2>1 DEF BbrShows, BbrWas
  <2>3. controller[s][seen.id] \in Bbr!Command
    BY <2>2, BbrLenIs DEF BbrInv
  <2>4. controller[s][seen.id] = [kind |-> "dryRun", status |-> "succeeded"]
    BY <2>2, <2>3 DEF Bbr!Command
  <2> QED
    BY <2>2, <2>4 DEF BbrHadDryRun
<1>3. /\ panel' \in BbrPanelRow /\ panel'.latest = panel.latest
      /\ panel'.realLoading = panel.realLoading /\ panel'.overlapped = panel.overlapped
      /\ panel'.error = None /\ panel'.confirm = s
      /\ panel'.switched <=> Bbr!Requested("real") # {}
  BY <1>1 DEF BbrInv, BbrTypes, BbrPanelRow
<1>4. panel'.switched \/ \A c \in Call : ~BbrIsReal(c)
  BY <1>3 DEF Bbr!Requested, BbrIsReal
<1> QED
  BY <1>1, <1>2, <1>3, <1>4, BbrModalKeeps

LEMMA BbrCloseIs ==
  ASSUME NEW p \in BbrPanelRow
  PROVE  /\ Bbr!Close(p) \in BbrPanelRow /\ Bbr!Close(p).latest = p.latest /\ Bbr!Close(p).plan = p.plan
         /\ Bbr!Close(p).realLoading = p.realLoading /\ Bbr!Close(p).overlapped = p.overlapped
         /\ Bbr!Close(p).error = None /\ Bbr!Close(p).confirm = None /\ ~Bbr!Close(p).switched
BY DEF Bbr!Close, BbrPanelRow

LEMMA BbrCloseConfirmKeeps == ASSUME BbrInv, Bbr!CloseBbrRealExecutionConfirm PROVE BbrInv'
<1>1. panel' = Bbr!Close(panel) /\ UNCHANGED <<call, controller>>
  BY DEF Bbr!CloseBbrRealExecutionConfirm
<1> QED
  BY <1>1, BbrCloseIs, BbrModalKeeps DEF BbrInv, BbrTypes

LEMMA BbrSubmitKeeps == ASSUME BbrInv, NEW c \in Call, Bbr!SubmitBbrRealExecution(c) PROVE BbrInv'
<1> DEFINE s == panel.confirm
           row == Bbr!Begin(c, "real", s, 0)
           crossed == panel.overlapped \/ \E k \in Bbr!Requested("real") : call[k].server # s
<1>1. /\ s # None /\ panel.realLoading # s /\ call[c].op = "none" /\ UNCHANGED controller
      /\ panel' = [panel EXCEPT !.realLoading = s, !.error = None, !.overlapped = crossed]
      /\ call' = [call EXCEPT ![c] = row]
  BY DEF Bbr!SubmitBbrRealExecution, Bbr!SubmitOffered, Bbr!Free, Bbr!Start, BbrInv, BbrTypes,
     BbrPanelRow
<1>2. s \in Server /\ BbrHadDryRun(s)
  BY <1>1 DEF BbrInv, BbrTypes, BbrPanelRow
<1>3. /\ row \in BbrCall /\ row.op = "real" /\ row.server = s /\ row.read = Bbr!NothingShown
  BY <1>2, BbrBeginIs
<1>4. crossed \in BOOLEAN
  BY DEF BbrInv, BbrTypes, BbrPanelRow
<1> HIDE DEF row
<1>5. /\ panel' \in BbrPanelRow /\ panel'.latest = panel.latest /\ panel'.confirm = s
      /\ panel'.error = None /\ panel'.switched = panel.switched
      /\ panel'.realLoading = s /\ panel'.overlapped = crossed
  BY <1>1, <1>2, <1>4 DEF BbrInv, BbrTypes, BbrPanelRow
<1>6. PICK new \in BbrCall : /\ new.op = "real" /\ new.server = s /\ new.read = Bbr!NothingShown
                            /\ BbrBecomes(c, new)
  BY <1>1, <1>3, BbrStartBecomes DEF BbrInv
<1>7. BbrCommandsStay
  BY <1>1, BbrSameCommandsStay DEF BbrInv
<1>8. BbrCallIs(new)'
  <2>1. BbrCallIs(new)
    BY <1>2, <1>6, BbrNoCallIs DEF BbrCallIs, BbrWas
  <2> QED
    BY <1>6, <1>7, <2>1, BbrCallIsStays DEF BbrInv
<1>9. BbrTurnsInv'
  <2> SUFFICES ASSUME ~crossed PROVE BbrTurnsInv'
    BY <1>5 DEF BbrTurnsInv
  <2>1. \A k \in Call : ~BbrIsReal(k)
    BY <1>1 DEF BbrInv, BbrTurnsInv, Bbr!Requested, BbrIsReal
  <2>2. \A k \in Call : BbrIsReal(k)' => k = c
    BY <1>6, <2>1 DEF BbrBecomes, BbrIsReal
  <2>3. \A k \in Call : BbrIsReal(k)' => call'[k].server = panel'.realLoading
    BY <1>5, <1>6, <2>2 DEF BbrBecomes
  <2> QED
    BY <2>2, <2>3 DEF BbrTurnsInv, BbrIsReal
<1>10. BbrErrorInv'
  BY <1>1, <1>5, <1>6 DEF BbrInv, BbrErrorInv, BbrBecomes, BbrIsReal
<1>11. \A t \in Server : panel'.latest[t] = panel.latest[t] /\ panel'.confirm = panel.confirm
  BY <1>5
<1> HIDE DEF crossed, s
<1> QED
  BY <1>5, <1>6, <1>7, <1>8, <1>9, <1>10, <1>11, BbrCallKeeps

-----------------------------------------------------------------------------
(* The controller. *)

LEMMA BbrShownAsIs ==
  ASSUME BbrTypes, NEW s \in Server, NEW i \in 1..Len(controller[s])
  PROVE  /\ Bbr!ShownAs(s, i) \in BbrSeen /\ BbrWas(s, Bbr!ShownAs(s, i)) /\ Bbr!ShownAs(s, i).id = i /\ i # 0
         /\ BbrShows(s, Bbr!ShownAs(s, i))
<1>1. i \in Nat /\ i # 0 /\ controller[s][i] \in Bbr!Command
  BY BbrLenIs
<1>2. Bbr!ShownAs(s, i) \in BbrSeen /\ Bbr!ShownAs(s, i).id = i
  BY <1>1 DEF Bbr!ShownAs, BbrSeen, Bbr!Command
<1> QED
  BY <1>1, <1>2 DEF Bbr!ShownAs, BbrShows, BbrWas

LEMMA BbrReadCommandsKeeps == ASSUME BbrInv, NEW c \in Call, Bbr!ReadCommands(c) PROVE BbrInv'
<1> DEFINE s == call[c].server
           i == IF call[c].op = "list" THEN Len(controller[s]) ELSE call[c].id
           row == [call[c] EXCEPT !.read = Bbr!ShownAs(s, i)]
<1>1. /\ call[c].op \in {"list", "watch"} /\ UNCHANGED <<panel, controller>>
      /\ call' = [call EXCEPT ![c] = row]
  BY DEF Bbr!ReadCommands, BbrInv, BbrTypes
<1>2. call[c] \in BbrCall /\ BbrCallIs(call[c]) /\ s \in Server
  BY <1>1 DEF BbrInv, BbrTypes, BbrCallIs
<1>3. Len(controller[s]) \in Nat
  BY <1>2, BbrLenIs DEF BbrInv
<1>4. i \in 1..Len(controller[s]) /\ (call[c].op = "list" => call[c].seen <= i)
  BY <1>1, <1>2, <1>3 DEF BbrCallIs
<1> HIDE DEF i
<1>5. Bbr!ShownAs(s, i) \in BbrSeen /\ BbrWas(s, Bbr!ShownAs(s, i)) /\ Bbr!ShownAs(s, i).id = i
  BY <1>2, <1>4, BbrShownAsIs DEF BbrInv
<1>6. /\ row \in BbrCall /\ row.op = call[c].op /\ row.server = s /\ row.id = call[c].id
      /\ row.seen = call[c].seen /\ row.read = Bbr!ShownAs(s, i)
  BY <1>2, <1>5 DEF BbrCall
<1>7. BbrCallIs(row)
  BY <1>1, <1>2, <1>4, <1>5, <1>6 DEF BbrCallIs
<1> HIDE DEF row
<1>8. PICK new \in BbrCall : BbrBecomes(c, new) /\ BbrCallIs(new) /\ new.op # "real"
  BY <1>1, <1>6, <1>7, BbrStartBecomes DEF BbrInv
<1> QED
  BY <1>1, <1>8, BbrAsideKeeps, BbrUnchangedIsAside

LEMMA BbrCommandEndsKeeps == ASSUME BbrInv, NEW s \in Server, Bbr!CommandEnds(s) PROVE BbrInv'
<1>1. PICK i \in 1..Len(controller[s]), status \in {"succeeded", "failed"} :
        /\ controller[s][i].status = "running"
        /\ controller' = [controller EXCEPT ![s][i].status = status]
        /\ UNCHANGED <<panel, call>>
  BY DEF Bbr!CommandEnds
<1> DEFINE ended == [controller[s][i] EXCEPT !.status = status]
           commands == [controller[s] EXCEPT ![i] = ended]
<1>2. controller[s] \in Seq(Bbr!Command) /\ controller[s][i] \in Bbr!Command
  BY BbrLenIs DEF BbrInv
<1>3. ended \in Bbr!Command /\ ended.kind = controller[s][i].kind
  BY <1>2 DEF Bbr!Command, Bbr!Status
<1> HIDE DEF ended
<1>4. /\ commands \in Seq(Bbr!Command) /\ Len(commands) = Len(controller[s]) /\ commands[i] = ended
      /\ \A k \in 1..Len(controller[s]) : k # i => commands[k] = controller[s][k]
  BY <1>1, <1>2, <1>3
<1>5. controller' = [controller EXCEPT ![s] = commands]
  BY <1>1 DEF BbrInv, BbrTypes, ended
<1> HIDE DEF commands
<1>6. BbrCommandsStay
  <2>1. controller' \in [Server -> Seq(Bbr!Command)] /\ controller'[s] = commands
    BY <1>4, <1>5 DEF BbrInv, BbrTypes
  <2>2. ASSUME NEW t \in Server
        PROVE  /\ Len(controller[t]) <= Len(controller'[t])
               /\ \A k \in 1..Len(controller[t]) :
                    /\ controller'[t][k].kind = controller[t][k].kind
                    /\ controller[t][k].status = "succeeded" =>
                         controller'[t][k] = controller[t][k]
    <3>1. Len(controller[t]) \in Nat
      BY BbrLenIs DEF BbrInv
    <3>2. CASE t = s
      BY <1>1, <1>3, <1>4, <2>1, <3>1, <3>2
    <3>3. CASE t # s
      BY <1>5, <3>1, <3>3 DEF BbrInv, BbrTypes
    <3> QED
      BY <3>2, <3>3
  <2> QED
    BY <2>1, <2>2 DEF BbrCommandsStay
<1>7. \A t \in Server : BbrShows(t, panel.latest[t])' /\ (panel.confirm = t => BbrHadDryRun(t))'
  <2> TAKE t \in Server
  <2>1. PICK seen \in BbrSeen : seen = panel.latest[t]
    BY DEF BbrInv, BbrTypes, BbrPanelRow
  <2>2. BbrShows(t, seen) /\ (panel.confirm = t => BbrHadDryRun(t))
    BY <2>1 DEF BbrInv
  <2>3. BbrShows(t, seen)' /\ (BbrHadDryRun(t) => BbrHadDryRun(t)')
    BY <1>6, <2>2, BbrWasStays DEF BbrInv
  <2>4. panel'.latest[t] = seen /\ panel'.confirm = panel.confirm
    BY <1>1, <2>1
  <2> QED
    BY <2>2, <2>3, <2>4
<1>8. \A c \in Call : BbrCallIs(call[c])'
  <2> TAKE c \in Call
  <2>1. PICK old \in BbrCall : old = call[c]
    BY DEF BbrInv, BbrTypes
  <2>2. BbrCallIs(old)'
    BY <1>6, <2>1, BbrCallIsStays DEF BbrInv
  <2> QED
    BY <1>1, <2>1, <2>2
<1>9. BbrTurnsInv' /\ BbrErrorInv'
  BY <1>1 DEF BbrInv, BbrTurnsInv, BbrErrorInv, BbrIsReal
<1> QED
  BY <1>1, <1>6, <1>7, <1>8, <1>9 DEF BbrInv, BbrTypes, BbrCommandsStay

-----------------------------------------------------------------------------
(* Continuations. *)

LEMMA BbrPlanAnsweredKeeps == ASSUME BbrInv, NEW c \in Call, Bbr!PlanAnswered(c) PROVE BbrInv'
<1>1. PICK ready \in BOOLEAN : panel' = [panel EXCEPT !.plan[call[c].server] = ready]
  BY DEF Bbr!PlanAnswered
<1>2. Bbr!Finish(c) /\ UNCHANGED controller
  BY DEF Bbr!PlanAnswered
<1>3. BbrAside
  <2> DEFINE plan == [panel.plan EXCEPT ![call[c].server] = ready]
  <2>1. plan \in [Server -> BOOLEAN]
    BY DEF BbrInv, BbrTypes, BbrPanelRow
  <2>2. panel' = [panel EXCEPT !.plan = plan]
    BY <1>1 DEF BbrInv, BbrTypes, BbrPanelRow
  <2> HIDE DEF plan
  <2> QED
    BY <2>1, <2>2 DEF BbrInv, BbrTypes, BbrPanelRow, BbrAside
<1>4. PICK new \in BbrCall : new = Bbr!NoCall
  BY BbrNoCallIs
<1>5. BbrBecomes(c, new) /\ BbrCallIs(new) /\ new.op # "real"
  BY <1>2, <1>4, BbrNoCallIs, BbrFinishBecomes DEF BbrInv
<1> QED
  BY <1>2, <1>3, <1>5, BbrAsideKeeps

LEMMA BbrReadFailsKeeps == ASSUME BbrInv, NEW c \in Call, Bbr!ReadFails(c) PROVE BbrInv'
<1>1. Bbr!Finish(c) /\ UNCHANGED <<panel, controller>>
  BY DEF Bbr!ReadFails
<1>2. PICK new \in BbrCall : new = Bbr!NoCall
  BY BbrNoCallIs
<1>3. BbrBecomes(c, new) /\ BbrCallIs(new) /\ new.op # "real"
  BY <1>1, <1>2, BbrNoCallIs, BbrFinishBecomes DEF BbrInv
<1> QED
  BY <1>1, <1>3, BbrAsideKeeps, BbrUnchangedIsAside

\* A list or a watch that follows a list.
LEMMA BbrCommandsReadKeeps == ASSUME BbrInv, NEW c \in Call, Bbr!CommandsRead(c) PROVE BbrInv'
<1> DEFINE s == call[c].server
           read == call[c].read
           list == [Bbr!NoCall EXCEPT !.op = "list", !.server = s, !.seen = read.id]
           n == IF call[c].op = "list" THEN 0 ELSE call[c].n + 1
           watch == Bbr!Watch(c, n)
<1>1. /\ read.id # 0 /\ panel' = [panel EXCEPT !.latest[s] = read] /\ UNCHANGED controller
      /\ \/ call' = [call EXCEPT ![c] = list]
         \/ Bbr!Finish(c)
         \/ /\ call' = [call EXCEPT ![c] = watch]
            /\ ~(call[c].op = "list" /\ call[c].id = 0)
  BY DEF Bbr!CommandsRead
<1>2. /\ call[c] \in BbrCall /\ BbrCallIs(call[c]) /\ call[c].op \in {"list", "watch"}
      /\ s \in Server /\ read \in BbrSeen /\ BbrWas(s, read)
  BY <1>1 DEF BbrInv, BbrTypes, BbrCallIs, BbrCall
<1>3. /\ Len(controller[s]) \in Nat /\ read.id \in 1..Len(controller[s])
      /\ call[c].id \in 0..Len(controller[s]) /\ call[c].n \in Nat
      /\ read.id \in Nat
  BY <1>1, <1>2, BbrLenIs DEF BbrInv, BbrWas, BbrCallIs, BbrCall, BbrSeen
<1>4. /\ list \in BbrCall /\ list.op = "list" /\ list.server = s /\ list.seen = read.id
      /\ list.id = 0 /\ list.read = Bbr!NothingShown
  BY <1>2, <1>3, BbrNoCallIs DEF BbrCall
<1>5. BbrCallIs(list)
  <2> HIDE DEF list
  <2> QED
    BY <1>2, <1>3, <1>4, BbrNoCallIs DEF BbrCallIs, BbrWas
<1>6. /\ watch \in BbrCall /\ watch.op = "watch" /\ watch.server = s /\ watch.id = call[c].id
      /\ watch.read = Bbr!NothingShown
  <2>1. n \in Nat /\ call[c].id \in Nat
    BY <1>2, <1>3 DEF BbrCall
  <2> HIDE DEF n
  <2> QED
    BY <1>2, <1>3, <2>1, BbrNoCallIs DEF Bbr!Watch, BbrCall
<1>7. ~(call[c].op = "list" /\ call[c].id = 0) => BbrCallIs(watch)
  <2> HIDE DEF watch
  <2> QED
    BY <1>2, <1>3, <1>6, BbrNoCallIs DEF BbrCallIs, BbrWas
<1> HIDE DEF list, watch
<1>8. PICK new \in BbrCall : BbrBecomes(c, new) /\ BbrCallIs(new) /\ new.op # "real"
  <2>1. CASE call' = [call EXCEPT ![c] = list]
    BY <1>4, <1>5, <2>1, BbrStartBecomes DEF BbrInv
  <2>2. CASE Bbr!Finish(c)
    BY <2>2, BbrNoCallIs, BbrFinishBecomes DEF BbrInv
  <2>3. CASE call' = [call EXCEPT ![c] = watch] /\ ~(call[c].op = "list" /\ call[c].id = 0)
    BY <1>6, <1>7, <2>3, BbrStartBecomes DEF BbrInv
  <2> QED
    BY <1>1, <2>1, <2>2, <2>3
<1> DEFINE latest == [panel.latest EXCEPT ![s] = read]
<1>9. latest \in [Server -> BbrSeen] /\ panel' = [panel EXCEPT !.latest = latest]
  BY <1>1, <1>2 DEF BbrInv, BbrTypes, BbrPanelRow
<1>10. \A t \in Server : latest[t] = IF t = s THEN read ELSE panel.latest[t]
  BY <1>2 DEF BbrInv, BbrTypes, BbrPanelRow
<1> HIDE DEF latest
<1>11. /\ panel' \in BbrPanelRow /\ panel'.latest = latest /\ panel'.confirm = panel.confirm
       /\ panel'.error = panel.error /\ panel'.switched = panel.switched
       /\ panel'.realLoading = panel.realLoading /\ panel'.overlapped = panel.overlapped
  BY <1>9 DEF BbrInv, BbrTypes, BbrPanelRow
<1>12. BbrCommandsStay
  BY <1>1, BbrSameCommandsStay DEF BbrInv
<1>13. BbrCallIs(new)'
  BY <1>8, <1>12, BbrCallIsStays DEF BbrInv
<1>14. BbrTurnsInv' /\ BbrErrorInv'
  BY <1>8, <1>11, BbrTurnsStay, BbrErrorStays
<1>15. \A t \in Server : \/ panel'.latest[t] = panel.latest[t]
                         \/ \E seen \in BbrSeen : panel'.latest[t] = seen /\ BbrShows(t, seen)'
  <2>1. PICK seen \in BbrSeen : seen = read
    BY <1>2
  <2>2. BbrShows(s, seen)
    BY <1>1, <1>2, <2>1 DEF BbrShows
  <2>3. PICK t \in Server : t = s
    BY <1>2
  <2>4. BbrShows(t, seen)'
    BY <1>12, <2>2, <2>3, BbrWasStays DEF BbrInv
  <2> HIDE DEF s, read
  <2> QED
    BY <1>10, <1>11, <2>1, <2>3, <2>4
<1> HIDE DEF s, read
<1> QED
  BY <1>8, <1>11, <1>12, <1>13, <1>14, <1>15, BbrCallKeeps

\* The flag of the request is cleared, and that of no other kind.
\* The instance has Cardinality under a name of its own.
LEMMA BbrCardinality == ASSUME NEW S PROVE Bbr!Cardinality(S) = Cardinality(S)
BY DEF Bbr!Cardinality, Cardinality

LEMMA BbrSettledIs ==
  ASSUME NEW p \in BbrPanelRow, NEW op \in {"plan", "check", "dryRun", "real"}, NEW s
  PROVE  LET q == Bbr!Settled(p, op, s)
         IN /\ q \in BbrPanelRow /\ q.latest = p.latest /\ q.confirm = p.confirm
            /\ q.error = p.error /\ q.switched = p.switched
            /\ op # "real" => q.realLoading = p.realLoading /\ q.overlapped = p.overlapped
            /\ op = "real" =>
                 (q.overlapped <=> p.overlapped /\ Cardinality(Bbr!Requested("real")) > 1)
<1>1. CASE op = "plan"
  BY <1>1 DEF Bbr!Settled
<1>2. CASE op = "check"
  BY <1>2 DEF Bbr!Settled, BbrPanelRow
<1>3. CASE op = "dryRun"
  BY <1>3 DEF Bbr!Settled, BbrPanelRow
<1>4. CASE op = "real"
  <2> DEFINE more == p.overlapped /\ Cardinality(Bbr!Requested("real")) > 1
  <2>1. more \in BOOLEAN
    BY DEF BbrPanelRow
  <2>2. Bbr!Settled(p, op, s) = [p EXCEPT !.realLoading = None, !.overlapped = more]
    BY <1>4, BbrCardinality DEF Bbr!Settled, BbrPanelRow
  <2> HIDE DEF more
  <2>3. LET q == Bbr!Settled(p, op, s)
        IN /\ q \in BbrPanelRow /\ q.latest = p.latest /\ q.confirm = p.confirm
           /\ q.error = p.error /\ q.switched = p.switched /\ q.overlapped = more
    BY <2>1, <2>2 DEF BbrPanelRow
  <2> QED
    BY <1>4, <2>3 DEF more
<1> QED
  BY <1>1, <1>2, <1>3, <1>4

LEMMA BbrTwoAreMore ==
  ASSUME NEW b \in Call, NEW c \in Call, b # c, BbrIsReal(b), BbrIsReal(c)
  PROVE  Cardinality(Bbr!Requested("real")) > 1
<1>1. IsFiniteSet({b}) /\ Cardinality({b}) = 1
  BY FS_Singleton
<1>2. IsFiniteSet({b} \cup {c}) /\ Cardinality({b} \cup {c}) = 2
  BY <1>1, FS_AddElement
<1>3. Bbr!Requested("real") \subseteq Call /\ {b} \cup {c} \subseteq Bbr!Requested("real")
  BY DEF Bbr!Requested, BbrIsReal
<1>4. IsFiniteSet(Bbr!Requested("real"))
  BY <1>3, BbrIs, FS_Subset
<1>5. Cardinality({b} \cup {c}) <= Cardinality(Bbr!Requested("real"))
  BY <1>3, <1>4, FS_Subset
<1>6. Cardinality(Bbr!Requested("real")) \in Nat
  BY <1>4, FS_CardinalityType
<1> QED
  BY <1>2, <1>5, <1>6

\* The answer of a request, whatever it is: the flag that is kept is of another
\* request, and one that is cleared was not needed any more.
LEMMA BbrSettledTurns ==
  ASSUME BbrInv, NEW c \in Call, NEW row, BbrBecomes(c, row), row.op # "real",
         \/ /\ ~BbrIsReal(c)
            /\ panel'.realLoading = panel.realLoading /\ panel'.overlapped = panel.overlapped
         \/ /\ BbrIsReal(c)
            /\ panel'.overlapped <=> panel.overlapped /\ Cardinality(Bbr!Requested("real")) > 1
  PROVE  BbrTurnsInv'
<1>1. CASE ~BbrIsReal(c) /\ panel'.realLoading = panel.realLoading
                         /\ panel'.overlapped = panel.overlapped
  BY <1>1, BbrTurnsStay
<1>2. CASE /\ BbrIsReal(c)
           /\ panel'.overlapped <=> panel.overlapped /\ Cardinality(Bbr!Requested("real")) > 1
  <2> SUFFICES ASSUME ~panel'.overlapped PROVE \A b \in Call : ~BbrIsReal(b)'
    BY DEF BbrTurnsInv
  <2>1. \A b \in Call : BbrIsReal(b) => b = c
    <3>1. CASE ~panel.overlapped
      BY <1>2, <3>1 DEF BbrInv, BbrTurnsInv
    <3>2. CASE ~(Cardinality(Bbr!Requested("real")) > 1)
      BY <1>2, <3>2, BbrTwoAreMore
    <3> QED
      BY <1>2, <3>1, <3>2
  <2> QED
    BY <2>1 DEF BbrBecomes, BbrIsReal
<1> QED
  BY <1>1, <1>2

LEMMA BbrRequestFailsKeeps == ASSUME BbrInv, NEW c \in Call, Bbr!RequestFails(c) PROVE BbrInv'
<1> DEFINE s == call[c].server
           op == call[c].op
           told == IF op = "real" /\ panel.confirm # None THEN s ELSE panel.error
           p == [panel EXCEPT !.error = told]
<1>1. /\ op \in {"plan", "check", "dryRun", "real"} /\ Bbr!Finish(c) /\ UNCHANGED controller
      /\ panel' = Bbr!Settled(p, op, s)
  BY DEF Bbr!RequestFails, BbrInv, BbrTypes, BbrPanelRow
<1>2. s \in Server /\ told \in Server \cup {None}
  BY <1>1 DEF BbrInv, BbrCallIs, BbrTypes, BbrPanelRow
<1>3. /\ p \in BbrPanelRow /\ p.latest = panel.latest /\ p.confirm = panel.confirm
      /\ p.error = told /\ p.switched = panel.switched
      /\ p.realLoading = panel.realLoading /\ p.overlapped = panel.overlapped
  BY <1>2 DEF BbrInv, BbrTypes, BbrPanelRow
<1> HIDE DEF p
<1>4. /\ panel' \in BbrPanelRow /\ panel'.latest = panel.latest /\ panel'.confirm = panel.confirm
      /\ panel'.error = told /\ panel'.switched = panel.switched
      /\ op # "real" => /\ panel'.realLoading = panel.realLoading
                        /\ panel'.overlapped = panel.overlapped
      /\ op = "real" =>
           (panel'.overlapped <=> panel.overlapped /\ Cardinality(Bbr!Requested("real")) > 1)
  BY <1>1, <1>3, BbrSettledIs
<1>5. PICK new \in BbrCall : new = Bbr!NoCall
  BY BbrNoCallIs
<1>6. BbrBecomes(c, new) /\ BbrCallIs(new) /\ new.op # "real"
  BY <1>1, <1>5, BbrNoCallIs, BbrFinishBecomes DEF BbrInv
<1>7. BbrCommandsStay
  BY <1>1, BbrSameCommandsStay DEF BbrInv
<1>8. BbrCallIs(new)'
  BY <1>6, <1>7, BbrCallIsStays DEF BbrInv
<1>9. BbrTurnsInv'
  BY <1>4, <1>6, BbrSettledTurns DEF BbrIsReal
<1>10. BbrErrorInv'
  <2>1. told # None => told = panel.confirm \/ panel.switched
    <3>1. CASE op = "real" /\ panel.confirm # None
      BY <3>1 DEF BbrInv, BbrErrorInv, BbrIsReal
    <3>2. CASE ~(op = "real" /\ panel.confirm # None)
      BY <3>2 DEF BbrInv, BbrErrorInv
    <3> QED
      BY <3>1, <3>2
  <2>2. \A b \in Call : BbrIsReal(b)' => BbrIsReal(b) /\ call'[b] = call[b]
    BY <1>6 DEF BbrBecomes, BbrIsReal
  <2> HIDE DEF told
  <2> QED
    BY <1>4, <2>1, <2>2 DEF BbrInv, BbrErrorInv, BbrIsReal
<1> QED
  BY <1>4, <1>5, <1>6, <1>7, <1>8, <1>9, <1>10, BbrCallKeeps

LEMMA BbrAppendStays ==
  ASSUME BbrTypes, NEW s \in Server, NEW command \in Bbr!Command,
         controller' = [controller EXCEPT ![s] = Append(@, command)]
  PROVE  /\ BbrCommandsStay /\ Len(controller'[s]) = Len(controller[s]) + 1
         /\ controller'[s][Len(controller[s]) + 1] = command /\ Len(controller[s]) \in Nat
<1> DEFINE commands == Append(controller[s], command)
<1>1. controller[s] \in Seq(Bbr!Command) /\ Len(controller[s]) \in Nat
  BY BbrLenIs
<1>2. /\ commands \in Seq(Bbr!Command) /\ Len(commands) = Len(controller[s]) + 1
      /\ commands[Len(controller[s]) + 1] = command
      /\ \A k \in 1..Len(controller[s]) : commands[k] = controller[s][k]
  BY <1>1, AppendProperties
<1>3. controller' = [controller EXCEPT ![s] = commands]
  OBVIOUS
<1> HIDE DEF commands
<1>4. controller' \in [Server -> Seq(Bbr!Command)] /\ controller'[s] = commands
  BY <1>2, <1>3 DEF BbrTypes
<1>5. ASSUME NEW t \in Server
      PROVE  /\ Len(controller[t]) <= Len(controller'[t])
             /\ \A k \in 1..Len(controller[t]) : controller'[t][k] = controller[t][k]
  <2>1. Len(controller[t]) \in Nat
    BY BbrLenIs
  <2>2. CASE t = s
    BY <1>2, <1>4, <2>1, <2>2
  <2>3. CASE t # s
    BY <1>3, <2>1, <2>3 DEF BbrTypes
  <2> QED
    BY <2>2, <2>3
<1> QED
  BY <1>1, <1>2, <1>4, <1>5 DEF BbrCommandsStay

LEMMA BbrCommandCreatedKeeps == ASSUME BbrInv, NEW c \in Call, Bbr!CommandCreated(c) PROVE BbrInv'
<1> DEFINE s == call[c].server
           op == call[c].op
           id == Len(controller[s]) + 1
           command == [kind |-> op, status |-> "running"]
           seen == [id |-> id, kind |-> op, status |-> "running"]
           follow == IF op = "check" THEN 0 ELSE id
           row == [Bbr!NoCall EXCEPT !.op = "list", !.server = s, !.seen = id, !.id = follow]
           p == [panel EXCEPT !.latest[s] = seen]
           q == IF op = "real" THEN Bbr!Close(p) ELSE p
<1>1. /\ op \in {"check", "dryRun", "real"}
      /\ controller' = [controller EXCEPT ![s] = Append(@, command)]
      /\ panel' = Bbr!Settled(q, op, s) /\ call' = [call EXCEPT ![c] = row]
  BY DEF Bbr!CommandCreated
<1>2. s \in Server
  BY <1>1 DEF BbrInv, BbrCallIs
<1>3. command \in Bbr!Command /\ command.kind = op
  BY <1>1 DEF Bbr!Command, Bbr!Kind, Bbr!Status
<1>4. /\ BbrCommandsStay /\ Len(controller'[s]) = id
      /\ controller'[s][id] = command /\ Len(controller[s]) \in Nat
  BY <1>1, <1>2, <1>3, BbrAppendStays DEF BbrInv
<1>5. id \in Nat /\ id # 0 /\ follow \in 0..id /\ id \in 1..id
  BY <1>4
<1>6. seen \in BbrSeen /\ seen.id = id /\ seen.kind = op /\ seen.status = "running"
  BY <1>1, <1>5 DEF BbrSeen, Bbr!Kind, Bbr!Status
<1>7. /\ row \in BbrCall /\ row.op = "list" /\ row.server = s /\ row.seen = id
      /\ row.id = follow /\ row.read = Bbr!NothingShown
  BY <1>2, <1>5, BbrNoCallIs DEF BbrCall
<1> HIDE DEF row, command, follow
<1>8. PICK new \in BbrCall : /\ BbrBecomes(c, new) /\ new.op = "list" /\ new.server = s
                            /\ new.seen = id /\ new.id = follow /\ new.read = Bbr!NothingShown
  BY <1>1, <1>7, BbrStartBecomes DEF BbrInv
<1> DEFINE latest == [panel.latest EXCEPT ![s] = seen]
<1>9. latest \in [Server -> BbrSeen] /\ p = [panel EXCEPT !.latest = latest]
  BY <1>6 DEF BbrInv, BbrTypes, BbrPanelRow
<1>10. \A t \in Server : latest[t] = IF t = s THEN seen ELSE panel.latest[t]
  BY <1>2 DEF BbrInv, BbrTypes, BbrPanelRow
<1> HIDE DEF latest, p
<1>11. /\ p \in BbrPanelRow /\ p.latest = latest /\ p.confirm = panel.confirm
       /\ p.error = panel.error /\ p.switched = panel.switched
       /\ p.realLoading = panel.realLoading /\ p.overlapped = panel.overlapped
  BY <1>9 DEF BbrInv, BbrTypes, BbrPanelRow
<1>12. /\ q \in BbrPanelRow /\ q.latest = latest
       /\ op # "real" => q.confirm = panel.confirm /\ q.error = panel.error
                         /\ q.switched = panel.switched
       /\ op = "real" => q.confirm = None /\ q.error = None
       /\ q.realLoading = panel.realLoading /\ q.overlapped = panel.overlapped
  BY <1>11, BbrCloseIs
<1> HIDE DEF q
<1>13. /\ panel' \in BbrPanelRow /\ panel'.latest = latest
       /\ panel'.confirm = q.confirm /\ panel'.error = q.error /\ panel'.switched = q.switched
       /\ op # "real" => /\ panel'.realLoading = panel.realLoading
                         /\ panel'.overlapped = panel.overlapped
       /\ op = "real" =>
            (panel'.overlapped <=> panel.overlapped /\ Cardinality(Bbr!Requested("real")) > 1)
  BY <1>1, <1>12, BbrSettledIs
<1>14. BbrCallIs(new)'
  <2>1. PICK t \in Server : t = s
    BY <1>2
  <2>2. new.server = t /\ Len(controller'[t]) = id
    BY <1>4, <1>8, <2>1
  <2> HIDE DEF s, id
  <2> QED
    BY <1>5, <1>8, <2>2, BbrNoCallIs DEF BbrCallIs, BbrWas
<1>15. BbrTurnsInv'
  BY <1>8, <1>13, BbrSettledTurns DEF BbrIsReal
<1>16. BbrErrorInv'
  <2>1. CASE op = "real"
    BY <1>12, <1>13, <2>1 DEF BbrErrorInv
  <2>2. CASE op # "real"
    BY <1>8, <1>12, <1>13, <2>2, BbrErrorStays
  <2> QED
    BY <2>1, <2>2
<1>17. \A t \in Server : \/ panel'.latest[t] = panel.latest[t]
                         \/ \E new_ \in BbrSeen : panel'.latest[t] = new_ /\ BbrShows(t, new_)'
  <2>1. PICK shown \in BbrSeen : shown = seen
    BY <1>6
  <2>2. PICK t \in Server : t = s
    BY <1>2
  <2>3. shown.id = id /\ shown.kind = op /\ shown.status = "running" /\ shown.id # 0
    BY <1>5, <1>6, <2>1
  <2>4. controller'[t][shown.id].kind = shown.kind /\ shown.id \in 1..Len(controller'[t])
    BY <1>3, <1>4, <1>5, <2>2, <2>3
  <2>5. BbrShows(t, shown)'
    <3> HIDE DEF seen, s, id, op
    <3> QED
      BY <2>3, <2>4 DEF BbrShows, BbrWas
  <2> HIDE DEF s, seen
  <2> QED
    BY <1>10, <1>13, <2>1, <2>2, <2>5
<1>18. \A t \in Server : panel'.confirm = t => panel.confirm = t
  BY <1>12, <1>13, BbrIs
<1> HIDE DEF s, op, id, seen
<1> QED
  BY <1>4, <1>8, <1>13, <1>14, <1>15, <1>16, <1>17, <1>18, BbrCallKeeps

-----------------------------------------------------------------------------
LEMMA BbrNext ==
  ASSUME BbrInv, [Bbr!Next]_(Bbr!vars)
  PROVE  BbrInv'
<1>1. ASSUME UNCHANGED Bbr!vars PROVE BbrInv'
  BY <1>1 DEF Bbr!vars, BbrInv, BbrTypes, BbrTurnsInv, BbrErrorInv, BbrIsReal, BbrShows, BbrWas,
     BbrHadDryRun, BbrCallIs
<1>2. ASSUME NEW c \in Call, Bbr!SubmitBbrRealExecution(c) \/ Bbr!ReadCommands(c) \/ Bbr!PlanAnswered(c)
                             \/ Bbr!CommandCreated(c) \/ Bbr!RequestFails(c) \/ Bbr!CommandsRead(c)
                             \/ Bbr!ReadFails(c)
      PROVE  BbrInv'
  BY <1>2, BbrSubmitKeeps, BbrReadCommandsKeeps, BbrPlanAnsweredKeeps, BbrCommandCreatedKeeps,
     BbrRequestFailsKeeps, BbrCommandsReadKeeps, BbrReadFailsKeeps
<1>3. ASSUME NEW c \in Call, NEW s \in Server,
             Bbr!OpenBbrEnablePlan(c, s) \/ Bbr!RunCheck(c, s) \/ Bbr!OpenBbrEnableDryRun(c, s)
               \/ Bbr!Refresh(c, s)
      PROVE  BbrInv'
  BY <1>3, BbrStartsKeep
<1>4. ASSUME NEW s \in Server, Bbr!OpenBbrRealExecutionConfirm(s) \/ Bbr!CommandEnds(s)
      PROVE BbrInv'
  BY <1>4, BbrOpenConfirmKeeps, BbrCommandEndsKeeps
<1> QED
  BY <1>1, <1>2, <1>3, <1>4, BbrCloseConfirmKeeps DEF Bbr!Next

LEMMA BbrHolds ==
  ASSUME BbrInv
  PROVE  Bbr!RealExecutionHadItsDryRun /\ Bbr!OneRealRequestPerServer /\ Bbr!ErrorIsOfItsServer
<1>1. Bbr!RealExecutionHadItsDryRun
  <2> SUFFICES ASSUME NEW s \in Server,
                      panel.confirm = s \/ \E c \in Bbr!Requested("real") : call[c].server = s
               PROVE  BbrHadDryRun(s)
    BY DEF Bbr!RealExecutionHadItsDryRun, BbrHadDryRun
  <2> QED
    BY DEF BbrInv, BbrCallIs, Bbr!Requested
<1>2. Bbr!OneRealRequestPerServer
  BY DEF BbrInv, BbrTurnsInv, Bbr!OneRealRequestPerServer, Bbr!Requested, BbrIsReal
<1> QED
  BY <1>1, <1>2 DEF BbrInv, BbrErrorInv, Bbr!ErrorIsOfItsServer

LEMMA BbrLatestHolds ==
  ASSUME BbrInv
  PROVE  Bbr!LatestGoesForwardAction
<1> SUFFICES ASSUME NEW c \in Call, Bbr!CommandsRead(c), call[c].op = "list"
             PROVE  panel'.latest[call[c].server].id >= call[c].seen
  BY DEF Bbr!LatestGoesForwardAction
<1>1. /\ call[c].server \in Server /\ call[c].read.id # 0 /\ call[c].seen <= call[c].read.id
      /\ panel' = [panel EXCEPT !.latest[call[c].server] = call[c].read]
      /\ call[c].seen \in Nat /\ call[c].read.id \in Nat
  BY DEF BbrInv, BbrCallIs, Bbr!CommandsRead, BbrTypes, BbrCall, BbrSeen
<1>2. panel'.latest[call[c].server] = call[c].read
  BY <1>1 DEF BbrInv, BbrTypes, BbrPanelRow
<1> QED
  BY <1>1, <1>2

-----------------------------------------------------------------------------
(* ServerManagementPanel: the details of a node and its link. *)

LEMMA LinksAre ==
  None \notin Server
BY ServerPanelsAssumption

LinksCallIsOfANode(row) == row.op # "none" => row.node \in Server

\* Unless it is late, what is exported is for the detail on display.
LinksLinkInv ==
  panel.detail # None /\ ~panel.late =>
    /\ panel.link \in {None, panel.detail}
    /\ \A c \in Call : call[c].op = "export" => call[c].node = panel.detail

\* Unless two were asked for, a detail that is read is the last asked.
LinksDetailInv ==
  ~panel.raced => /\ panel.detail \in {None, panel.asked}
                  /\ \A c \in Call : call[c].op = "detail" => call[c].node = panel.asked

LinksInv ==
  Links!TypeOK /\ LinksLinkInv /\ LinksDetailInv /\ \A c \in Call : LinksCallIsOfANode(call[c])

-----------------------------------------------------------------------------
LEMMA LinksNoCallIs == Links!NoCall \in Links!CallRow /\ Links!NoCall.op = "none"
BY DEF Links!NoCall, Links!CallRow

LEMMA LinksInit == Links!Init => LinksInv
<1> SUFFICES ASSUME Links!Init PROVE LinksInv
  OBVIOUS
<1>1. panel \in Links!Panel
  BY DEF Links!Init, Links!Panel
<1>2. call \in [Call -> Links!CallRow] /\ \A c \in Call : call[c].op = "none"
  BY LinksNoCallIs DEF Links!Init
<1> QED
  BY <1>1, <1>2 DEF Links!Init, LinksInv, Links!TypeOK, Links!Controller, LinksLinkInv,
     LinksDetailInv, LinksCallIsOfANode

\* One call becomes another.
LinksBecomes(c, row) ==
  /\ row \in Links!CallRow /\ LinksCallIsOfANode(row)
  /\ call' \in [Call -> Links!CallRow] /\ call'[c] = row /\ \A b \in Call \ {c} : call'[b] = call[b]

LEMMA LinksStartBecomes ==
  ASSUME Links!TypeOK, NEW c \in Call, NEW row \in Links!CallRow, LinksCallIsOfANode(row),
         call' = [call EXCEPT ![c] = row]
  PROVE  LinksBecomes(c, row)
BY DEF Links!TypeOK, LinksBecomes

LEMMA LinksFinishBecomes ==
  ASSUME Links!TypeOK, NEW c \in Call, Links!Finish(c)
  PROVE  LinksBecomes(c, Links!NoCall)
BY LinksNoCallIs, LinksStartBecomes DEF Links!Finish, LinksCallIsOfANode

LEMMA LinksStartIs ==
  ASSUME Links!TypeOK, NEW c \in Call, NEW op \in {"detail", "export"}, NEW n \in Server,
         NEW use \in Links!Use \cup {"none"}, Links!Start(c, op, n, use)
  PROVE  \E row \in Links!CallRow : LinksBecomes(c, row) /\ row.op = op /\ row.node = n
<1> DEFINE row == [op |-> op, node |-> n, use |-> use, answered |-> FALSE]
<1>1. row \in Links!CallRow /\ row.op = op /\ row.node = n
  BY DEF Links!CallRow
<1>2. call' = [call EXCEPT ![c] = row]
  BY DEF Links!Start
<1> HIDE DEF row
<1>3. LinksBecomes(c, row)
  BY <1>1, <1>2, LinksStartBecomes DEF LinksCallIsOfANode
<1> QED
  BY <1>1, <1>3

\* The parts of the invariant that no step breaks but the one that is named.
LEMMA LinksKeep ==
  ASSUME LinksInv, NEW c \in Call, NEW row, LinksBecomes(c, row), UNCHANGED controller,
         panel' \in Links!Panel, LinksLinkInv', LinksDetailInv'
  PROVE  LinksInv'
BY DEF LinksInv, Links!TypeOK, LinksBecomes, LinksCallIsOfANode

\* Calls that leave the panel as it is.
LEMMA LinksCallKeeps ==
  ASSUME LinksInv, NEW c \in Call, NEW row, LinksBecomes(c, row), UNCHANGED <<panel, controller>>,
         row.op = "export" => panel.detail = None \/ row.node = panel.detail
                              \/ (call[c].op = "export" /\ row.node = call[c].node),
         row.op = "detail" => call[c].op = "detail" /\ row.node = call[c].node
  PROVE  LinksInv'
<1>1. LinksLinkInv'
  BY DEF LinksInv, LinksLinkInv, LinksBecomes
<1>2. LinksDetailInv'
  BY DEF LinksInv, LinksDetailInv, LinksBecomes
<1> QED
  BY <1>1, <1>2, LinksKeep DEF LinksInv, Links!TypeOK

LEMMA LinksOpenNodeDetailKeeps ==
  ASSUME LinksInv, NEW c \in Call, NEW n \in Server, Links!OpenNodeDetail(c, n)
  PROVE  LinksInv'
<1>1. PICK use \in {"none"} \cup (IF n \in controller THEN {"qr", "copy"} ELSE {}) :
        Links!Start(c, "detail", n, use)
  BY DEF Links!OpenNodeDetail
<1>2. use \in Links!Use \cup {"none"}
  BY DEF Links!Use
<1>3. PICK row \in Links!CallRow : LinksBecomes(c, row) /\ row.op = "detail" /\ row.node = n
  BY <1>1, <1>2, LinksStartIs DEF LinksInv
<1>4. /\ panel' = [panel EXCEPT !.asked = n, !.raced = Links!Awaited("detail") # {}]
      /\ panel.detail = None /\ UNCHANGED controller
  BY DEF Links!OpenNodeDetail, Links!RowButtons
<1>5. /\ panel' \in Links!Panel /\ panel'.asked = n /\ panel'.detail = None
      /\ panel'.raced <=> Links!Awaited("detail") # {}
  BY <1>4 DEF LinksInv, Links!TypeOK, Links!Panel
<1>6. LinksLinkInv'
  BY <1>5 DEF LinksLinkInv
<1>7. LinksDetailInv'
  BY <1>3, <1>5 DEF LinksDetailInv, Links!Awaited, LinksBecomes
<1> QED
  BY <1>3, <1>4, <1>5, <1>6, <1>7, LinksKeep

LEMMA LinksExportKeeps ==
  ASSUME LinksInv, NEW c \in Call,
         Links!ExportFromModal(c) \/ \E n \in Server : Links!CopyNodeShareLink(c, n)
  PROVE  LinksInv'
<1>1. CASE Links!ExportFromModal(c)
  <2>1. PICK use \in Links!Use : Links!Start(c, "export", panel.detail, use)
    BY <1>1 DEF Links!ExportFromModal
  <2>2. panel.detail \in Server
    BY <1>1 DEF Links!ExportFromModal, LinksInv, Links!TypeOK, Links!Controller
  <2>3. PICK row \in Links!CallRow : LinksBecomes(c, row) /\ row.op = "export" /\ row.node = panel.detail
    BY <2>1, <2>2, LinksStartIs DEF LinksInv
  <2> QED
    BY <1>1, <2>3, LinksCallKeeps DEF Links!ExportFromModal
<1>2. ASSUME NEW n \in Server, Links!CopyNodeShareLink(c, n) PROVE LinksInv'
  <2>1. /\ Links!Start(c, "export", n, "copy") /\ panel.detail = None /\ "copy" \in Links!Use
        /\ UNCHANGED <<panel, controller>>
    BY <1>2 DEF Links!CopyNodeShareLink, Links!RowButtons, Links!Use
  <2>2. PICK row \in Links!CallRow : LinksBecomes(c, row) /\ row.op = "export" /\ row.node = n
    BY <2>1, LinksStartIs DEF LinksInv
  <2> QED
    BY <2>1, <2>2, LinksCallKeeps
<1> QED
  BY <1>1, <1>2

LEMMA LinksAnswerKeeps == ASSUME LinksInv, NEW c \in Call, Links!Answer(c) PROVE LinksInv'
<1> DEFINE row == [call[c] EXCEPT !.answered = TRUE]
<1>1. call' = [call EXCEPT ![c] = row] /\ UNCHANGED <<panel, controller>>
  BY DEF Links!Answer
<1>2. row \in Links!CallRow /\ row.op = call[c].op /\ row.node = call[c].node
  BY DEF LinksInv, Links!TypeOK, Links!CallRow
<1> HIDE DEF row
<1>3. LinksBecomes(c, row)
  BY <1>1, <1>2, LinksStartBecomes DEF LinksInv, LinksCallIsOfANode
<1> QED
  BY <1>1, <1>2, <1>3, LinksCallKeeps

LEMMA LinksFailsKeeps == ASSUME LinksInv, NEW c \in Call, Links!Fails(c) PROVE LinksInv'
BY LinksNoCallIs, LinksFinishBecomes, LinksCallKeeps DEF Links!Fails, LinksInv

\* The panel alone: what it shows of the link.
LEMMA LinksShowKeeps ==
  ASSUME LinksInv, Links!ToggleFull \/ Links!ToggleQr \/ Links!DownloadNodeQrCode
  PROVE  LinksInv'
<1>1. UNCHANGED <<call, controller>>
  BY DEF Links!ToggleFull, Links!ToggleQr, Links!DownloadNodeQrCode
<1>2. /\ panel' \in Links!Panel /\ panel'.detail = panel.detail /\ panel'.link = panel.link
      /\ panel'.asked = panel.asked /\ panel'.late = panel.late /\ panel'.raced = panel.raced
  <2>1. CASE Links!ToggleFull \/ Links!ToggleQr
    BY <2>1 DEF Links!ToggleFull, Links!ToggleQr, LinksInv, Links!TypeOK, Links!Panel
  <2>2. CASE Links!DownloadNodeQrCode
    BY <2>2 DEF Links!DownloadNodeQrCode, LinksInv, Links!TypeOK, Links!Panel
  <2> QED
    BY <2>1, <2>2
<1> QED
  BY <1>1, <1>2 DEF LinksInv, Links!TypeOK, LinksLinkInv, LinksDetailInv

LEMMA LinksCloseNodeDetailKeeps == ASSUME LinksInv, Links!CloseNodeDetail PROVE LinksInv'
<1>1. UNCHANGED <<call, controller>>
  BY DEF Links!CloseNodeDetail
<1> DEFINE p == Links!Hidden(panel)
<1>2. /\ p \in Links!Panel /\ p.asked = panel.asked /\ p.raced = panel.raced
  BY DEF Links!Hidden, LinksInv, Links!TypeOK, Links!Panel
<1>3. panel' = [p EXCEPT !.detail = None, !.late = Links!Awaited("export") # {}]
  BY DEF Links!CloseNodeDetail
<1> HIDE DEF p
<1>4. /\ panel' \in Links!Panel /\ panel'.detail = None
      /\ panel'.asked = panel.asked /\ panel'.raced = panel.raced
  BY <1>2, <1>3 DEF Links!Panel
<1> QED
  BY <1>1, <1>4 DEF LinksInv, Links!TypeOK, LinksLinkInv, LinksDetailInv

LEMMA LinksDetailReadKeeps == ASSUME LinksInv, NEW c \in Call, Links!DetailRead(c) PROVE LinksInv'
<1> DEFINE p == Links!Hidden(panel)
           n == call[c].node
           row == [call[c] EXCEPT !.op = "export", !.answered = FALSE]
<1>1. call[c].op = "detail" /\ UNCHANGED controller /\ n \in Server /\ call[c] \in Links!CallRow
  BY DEF Links!DetailRead, LinksInv, LinksCallIsOfANode, Links!TypeOK
<1>2. p \in Links!Panel /\ p.link = None /\ p.asked = panel.asked /\ p.raced = panel.raced
  BY DEF Links!Hidden, LinksInv, Links!TypeOK, Links!Panel
<1>3. panel' = [p EXCEPT !.detail = n, !.late = Links!Awaited("export") # {}]
  BY DEF Links!DetailRead
<1> HIDE DEF p
<1>4. /\ panel' \in Links!Panel /\ panel'.detail = n /\ panel'.link = None
      /\ panel'.asked = panel.asked /\ panel'.raced = panel.raced
      /\ panel'.late <=> Links!Awaited("export") # {}
  BY <1>1, <1>2, <1>3 DEF Links!Panel
<1>5. row \in Links!CallRow /\ row.op = "export" /\ row.node = n
  BY <1>1 DEF Links!CallRow
<1>6. Links!Finish(c) \/ call' = [call EXCEPT ![c] = row]
  BY DEF Links!DetailRead
<1> HIDE DEF row
<1>7. \E new \in {Links!NoCall, row} : LinksBecomes(c, new)
  BY <1>1, <1>5, <1>6, LinksFinishBecomes, LinksStartBecomes DEF LinksInv, LinksCallIsOfANode
<1>8. PICK new \in {Links!NoCall, row} : LinksBecomes(c, new)
  BY <1>7
<1>9. new.op \in {"none", "export"} /\ (new.op = "export" => new.node = n)
  BY <1>5, LinksNoCallIs
<1>10. LinksLinkInv'
  BY <1>4, <1>8, <1>9 DEF LinksLinkInv, Links!Awaited, LinksBecomes
<1>11. LinksDetailInv'
  BY <1>1, <1>4, <1>8, <1>9 DEF LinksInv, LinksDetailInv, LinksBecomes
<1> QED
  BY <1>1, <1>4, <1>8, <1>10, <1>11, LinksKeep

LEMMA LinksLinkExportedKeeps ==
  ASSUME LinksInv, NEW c \in Call, Links!LinkExported(c) PROVE LinksInv'
<1> DEFINE n == call[c].node
           use == call[c].use
<1>1. call[c].op = "export" /\ UNCHANGED controller /\ Links!Finish(c) /\ n \in Server
  BY DEF Links!LinkExported, LinksInv, LinksCallIsOfANode
<1>2. PICK copied \in IF use = "copy" THEN BOOLEAN ELSE {FALSE} :
        panel' = [panel EXCEPT !.link = n, !.qr = (use = "qr"),
                    !.full = (use = "reveal") \/ (use = "copy" /\ ~copied),
                    !.clipboard = IF copied THEN n ELSE @]
  BY DEF Links!LinkExported
<1>3. /\ panel' \in Links!Panel /\ panel'.link = n /\ panel'.detail = panel.detail
      /\ panel'.asked = panel.asked /\ panel'.late = panel.late /\ panel'.raced = panel.raced
  BY ZenonT(40), <1>1, <1>2 DEF LinksInv, Links!TypeOK, Links!Panel
<1>4. LinksBecomes(c, Links!NoCall)
  BY <1>1, LinksFinishBecomes DEF LinksInv
<1>5. LinksLinkInv'
  BY <1>1, <1>3, <1>4, LinksNoCallIs DEF LinksInv, LinksLinkInv, LinksBecomes
<1>6. LinksDetailInv'
  BY <1>3, <1>4, LinksNoCallIs DEF LinksInv, LinksDetailInv, LinksBecomes
<1> QED
  BY <1>1, <1>3, <1>4, <1>5, <1>6, LinksKeep

LEMMA LinksNext ==
  ASSUME LinksInv, [Links!Next]_(Links!vars)
  PROVE  LinksInv'
<1>1. ASSUME UNCHANGED Links!vars PROVE LinksInv'
  BY <1>1 DEF Links!vars, LinksInv, Links!TypeOK, LinksLinkInv, LinksDetailInv, LinksCallIsOfANode
<1>2. ASSUME NEW c \in Call, Links!ExportFromModal(c) \/ Links!Answer(c) \/ Links!Fails(c) \/ Links!DetailRead(c)
                             \/ Links!LinkExported(c)
      PROVE  LinksInv'
  BY <1>2, LinksExportKeeps, LinksAnswerKeeps, LinksFailsKeeps, LinksDetailReadKeeps,
     LinksLinkExportedKeeps
<1>3. ASSUME NEW c \in Call, NEW n \in Server, Links!OpenNodeDetail(c, n) \/ Links!CopyNodeShareLink(c, n)
      PROVE  LinksInv'
  BY <1>3, LinksOpenNodeDetailKeeps, LinksExportKeeps
<1>4. ASSUME Links!ToggleFull \/ Links!ToggleQr \/ Links!DownloadNodeQrCode \/ Links!CloseNodeDetail
      PROVE LinksInv'
  BY <1>4, LinksShowKeeps, LinksCloseNodeDetailKeeps
<1> QED
  BY <1>1, <1>2, <1>3, <1>4 DEF Links!Next

LEMMA LinksHold ==
  ASSUME LinksInv
  PROVE  Links!LinkIsOfItsNode /\ Links!DetailIsTheLastAsked
BY DEF LinksInv, LinksLinkInv, LinksDetailInv, Links!LinkIsOfItsNode, Links!DetailIsTheLastAsked

LEMMA LinksFileHolds ==
  ASSUME LinksInv, [Links!Next]_(Links!vars)
  PROVE  Links!FileIsOfItsNodeAction
<1>1. CASE Links!DownloadNodeQrCode
  BY <1>1 DEF Links!DownloadNodeQrCode, Links!FileIsOfItsNodeAction, LinksInv, LinksLinkInv,
     Links!TypeOK, Links!Panel
<1>2. panel'.file = panel.file \/ Links!DownloadNodeQrCode
  <2>1. ASSUME NEW c \in Call, NEW n \in Server, Links!OpenNodeDetail(c, n)
        PROVE panel'.file = panel.file
    BY <2>1 DEF Links!OpenNodeDetail, LinksInv, Links!TypeOK, Links!Panel
  <2>2. ASSUME NEW c \in Call, Links!DetailRead(c) PROVE panel'.file = panel.file
    BY <2>2 DEF Links!DetailRead, Links!Hidden, LinksInv, Links!TypeOK, Links!Panel
  <2>3. ASSUME NEW c \in Call, Links!LinkExported(c) PROVE panel'.file = panel.file
    BY <2>3 DEF Links!LinkExported, LinksInv, Links!TypeOK, Links!Panel
  <2>4. ASSUME NEW c \in Call, Links!ExportFromModal(c) \/ Links!Answer(c) \/ Links!Fails(c)
                               \/ \E n \in Server : Links!CopyNodeShareLink(c, n)
        PROVE  panel'.file = panel.file
    BY <2>4 DEF Links!ExportFromModal, Links!Answer, Links!Fails, Links!CopyNodeShareLink
  <2>5. ASSUME Links!ToggleFull \/ Links!ToggleQr \/ Links!CloseNodeDetail
        PROVE panel'.file = panel.file
    BY <2>5 DEF Links!ToggleFull, Links!ToggleQr, Links!CloseNodeDetail, Links!Hidden, LinksInv,
       Links!TypeOK, Links!Panel
  <2> QED
    BY <2>1, <2>2, <2>3, <2>4, <2>5 DEF Links!Next, Links!vars
<1> QED
  BY <1>1, <1>2 DEF Links!FileIsOfItsNodeAction

-----------------------------------------------------------------------------
(* CustomerLinesPanel. *)

LEMMA LinesAre ==
  None \notin Lines!Line \cup Customer \cup Lines!Draft
BY ProductPanelsAssumption

\* A modal, drawn or not, has its line and the draft of that line; what is
\* revealed was asked for.
LinesModalInv ==
  /\ panel.modal # "none" => panel.draft # None /\ panel.draft.of = panel.selected
  /\ panel.revealed => panel.asked = panel.selected

LinesInv == Lines!TypeOK /\ LinesModalInv /\ Lines!FilterIsOffered

-----------------------------------------------------------------------------
LEMMA LinesInit == Lines!Init => LinesInv
<1> SUFFICES ASSUME Lines!Init PROVE LinesInv
  OBVIOUS
<1>1. panel \in Lines!Panel
  BY DEF Lines!Init, Lines!Panel
<1> QED
  BY <1>1 DEF Lines!Init, LinesInv, Lines!TypeOK, LinesModalInv, Lines!FilterIsOffered

LEMMA LinesDraftIs ==
  ASSUME Lines!TypeOK, NEW l \in Lines!Line
  PROVE  Lines!ToEditDraft(l) \in Lines!Draft /\ Lines!ToEditDraft(l).of = l
<1>1. Lines!CustomerOf(panel, l) \in Customer
  BY DEF Lines!TypeOK, Lines!Panel, Lines!ClassifyCustomer, Lines!CustomerOf
<1> QED
  BY <1>1 DEF Lines!ToEditDraft, Lines!Draft

\* Whose lines and filter stay keeps some line on display.
LEMMA LinesFilterStays ==
  ASSUME LinesInv, UNCHANGED controller, panel'.rows = panel.rows,
         panel'.override = panel.override, panel'.filter = panel.filter,
         panel'.replaced = panel.replaced
  PROVE  Lines!FilterIsOffered'
BY DEF LinesInv, Lines!FilterIsOffered, Lines!FilteredLines, Lines!BaseLines, Lines!CustomerOf

LEMMA LinesSelectedIsALine ==
  ASSUME Lines!TypeOK, NEW m, Lines!Drawn(m)
  PROVE  panel.selected \in Lines!Line /\ panel.modal = m
BY DEF Lines!TypeOK, Lines!Panel, Lines!Drawn, Lines!BaseLines, Lines!Line

LEMMA LinesLoadedKeeps == ASSUME LinesInv, Lines!LinesLoaded PROVE LinesInv'
<1>1. PICK nodes \in {Node, {}}, routes \in {Route, {}} :
        panel' = [panel EXCEPT !.rows = nodes \cup routes, !.replaced = TRUE]
  BY DEF Lines!LinesLoaded
<1>2. /\ panel' \in Lines!Panel /\ panel'.modal = panel.modal /\ panel'.draft = panel.draft
      /\ panel'.selected = panel.selected /\ panel'.revealed = panel.revealed
      /\ panel'.asked = panel.asked /\ panel'.replaced
  BY <1>1 DEF LinesInv, Lines!TypeOK, Lines!Panel
<1> QED
  BY <1>2 DEF Lines!LinesLoaded, LinesInv, Lines!TypeOK, LinesModalInv, Lines!FilterIsOffered

LEMMA LinesChooseFilterKeeps ==
  ASSUME LinesInv, NEW f \in Customer \cup {None}, Lines!ChooseFilter(f) PROVE LinesInv'
<1>1. /\ panel' = [panel EXCEPT !.filter = f, !.replaced = FALSE]
      /\ f \in Lines!CustomerOptions(panel) \cup {None} /\ UNCHANGED <<call, controller>>
  BY DEF Lines!ChooseFilter
<1>2. /\ panel' \in Lines!Panel /\ panel'.modal = panel.modal /\ panel'.draft = panel.draft
      /\ panel'.selected = panel.selected /\ panel'.revealed = panel.revealed
      /\ panel'.asked = panel.asked /\ panel'.filter = f
      /\ panel'.rows = panel.rows /\ panel'.override = panel.override
  BY <1>1 DEF LinesInv, Lines!TypeOK, Lines!Panel
<1>3. Lines!FilterIsOffered'
  <2> SUFFICES ASSUME f # None PROVE Lines!FilteredLines' # {}
    BY <1>2 DEF Lines!FilterIsOffered
  <2>1. PICK l \in Lines!BaseLines(panel) : f = Lines!CustomerOf(panel, l)
    BY <1>1 DEF Lines!CustomerOptions
  <2> QED
    BY <1>1, <1>2, <2>1 DEF Lines!FilteredLines, Lines!BaseLines, Lines!CustomerOf
<1> QED
  BY <1>1, <1>2, <1>3 DEF LinesInv, Lines!TypeOK, LinesModalInv

LEMMA LinesOpenModalKeeps ==
  ASSUME LinesInv, NEW l \in Lines!Line, NEW m \in {"detail", "edit", "client", "monitor"},
         Lines!OpenModal(l, m)
  PROVE  LinesInv'
<1> DEFINE draft == Lines!ToEditDraft(l)
<1>1. /\ panel' = [panel EXCEPT !.selected = l, !.modal = m, !.revealed = FALSE, !.draft = draft]
      /\ UNCHANGED <<call, controller>>
  BY DEF Lines!OpenModal
<1>2. draft \in Lines!Draft /\ draft.of = l
  BY LinesDraftIs DEF LinesInv
<1>3. draft # None
  BY <1>2, LinesAre
<1> HIDE DEF draft
<1>4. /\ panel' \in Lines!Panel /\ panel'.selected = l /\ panel'.draft = draft
      /\ ~panel'.revealed /\ panel'.rows = panel.rows /\ panel'.filter = panel.filter
      /\ panel'.override = panel.override /\ panel'.replaced = panel.replaced
  BY <1>1, <1>2 DEF LinesInv, Lines!TypeOK, Lines!Panel
<1> QED
  BY <1>1, <1>2, <1>3, <1>4, LinesFilterStays DEF LinesInv, Lines!TypeOK, LinesModalInv

LEMMA LinesCloseModalKeeps == ASSUME LinesInv, Lines!CloseModal PROVE LinesInv'
<1>1. panel' = Lines!Closed(panel) /\ UNCHANGED <<call, controller>>
  BY DEF Lines!CloseModal
<1>2. /\ panel' \in Lines!Panel /\ panel'.modal = "none" /\ ~panel'.revealed
      /\ panel'.rows = panel.rows /\ panel'.filter = panel.filter
      /\ panel'.override = panel.override /\ panel'.replaced = panel.replaced
  BY <1>1 DEF LinesInv, Lines!TypeOK, Lines!Panel, Lines!Closed
<1> QED
  BY <1>1, <1>2, LinesFilterStays DEF LinesInv, Lines!TypeOK, LinesModalInv

LEMMA LinesSwitchModalKeeps == ASSUME LinesInv, Lines!SwitchModal PROVE LinesInv'
<1>1. PICK m \in {"edit", "client", "detail"} :
        /\ panel' = [panel EXCEPT !.modal = m]
        /\ panel.modal # "none"
        /\ UNCHANGED <<call, controller>>
  BY DEF Lines!SwitchModal, Lines!DetailShown, Lines!MonitorShown, Lines!Drawn
<1>2. /\ panel' \in Lines!Panel /\ panel'.draft = panel.draft /\ panel'.selected = panel.selected
      /\ panel'.revealed = panel.revealed /\ panel'.asked = panel.asked
      /\ panel'.rows = panel.rows /\ panel'.filter = panel.filter
      /\ panel'.override = panel.override /\ panel'.replaced = panel.replaced
  BY <1>1 DEF LinesInv, Lines!TypeOK, Lines!Panel
<1> QED
  BY <1>1, <1>2, LinesFilterStays DEF LinesInv, Lines!TypeOK, LinesModalInv

LEMMA LinesToggleRevealKeeps == ASSUME LinesInv, Lines!ToggleReveal PROVE LinesInv'
<1>1. /\ panel' = [panel EXCEPT !.revealed = ~@, !.asked = panel.selected]
      /\ UNCHANGED <<call, controller>>
  BY DEF Lines!ToggleReveal
<1>2. /\ panel' \in Lines!Panel /\ panel'.draft = panel.draft /\ panel'.selected = panel.selected
      /\ panel'.modal = panel.modal /\ panel'.asked = panel'.selected
      /\ panel'.rows = panel.rows /\ panel'.filter = panel.filter
      /\ panel'.override = panel.override /\ panel'.replaced = panel.replaced
  BY <1>1 DEF LinesInv, Lines!TypeOK, Lines!Panel
<1> QED
  BY <1>1, <1>2, LinesFilterStays DEF LinesInv, Lines!TypeOK, LinesModalInv

LEMMA LinesChangeDraftKeeps ==
  ASSUME LinesInv, NEW k \in Customer, Lines!ChangeDraft(k) PROVE LinesInv'
<1>1. /\ panel' = [panel EXCEPT !.draft.customer = k] /\ panel.modal = "edit"
      /\ UNCHANGED <<call, controller>>
  BY DEF Lines!ChangeDraft, Lines!EditShown, Lines!Drawn
<1>2. panel.draft \in Lines!Draft /\ panel.draft.of = panel.selected
  BY <1>1 DEF LinesInv, Lines!TypeOK, Lines!Panel, LinesModalInv
<1> DEFINE draft == [panel.draft EXCEPT !.customer = k]
<1>3. /\ panel' = [panel EXCEPT !.draft = draft]
      /\ draft \in Lines!Draft /\ draft.of = panel.selected
  BY <1>1, <1>2 DEF Lines!Draft, LinesInv, Lines!TypeOK, Lines!Panel
<1>4. draft # None
  BY <1>3, LinesAre
<1> HIDE DEF draft
<1>5. /\ panel' \in Lines!Panel /\ panel'.draft = draft /\ panel'.selected = panel.selected
      /\ panel'.revealed = panel.revealed /\ panel'.asked = panel.asked
      /\ panel'.rows = panel.rows /\ panel'.filter = panel.filter
      /\ panel'.override = panel.override /\ panel'.replaced = panel.replaced
  BY <1>3 DEF LinesInv, Lines!TypeOK, Lines!Panel
<1> QED
  BY <1>1, <1>3, <1>4, <1>5, LinesFilterStays DEF LinesInv, Lines!TypeOK, LinesModalInv

LEMMA LinesRestoreDraftKeeps == ASSUME LinesInv, Lines!RestoreDraft PROVE LinesInv'
<1> DEFINE draft == Lines!ToEditDraft(panel.selected)
<1>1. panel' = [panel EXCEPT !.draft = draft] /\ UNCHANGED <<call, controller>>
  BY DEF Lines!RestoreDraft
<1>2. panel.selected \in Lines!Line
  BY LinesSelectedIsALine DEF Lines!RestoreDraft, Lines!EditShown, LinesInv
<1>3. draft \in Lines!Draft /\ draft.of = panel.selected
  BY <1>2, LinesDraftIs DEF LinesInv
<1>4. draft # None
  BY <1>3, LinesAre
<1> HIDE DEF draft
<1>5. /\ panel' \in Lines!Panel /\ panel'.draft = draft /\ panel'.selected = panel.selected
      /\ panel'.revealed = panel.revealed /\ panel'.asked = panel.asked
      /\ panel'.rows = panel.rows /\ panel'.filter = panel.filter
      /\ panel'.override = panel.override /\ panel'.replaced = panel.replaced
  BY <1>1, <1>3 DEF LinesInv, Lines!TypeOK, Lines!Panel
<1> QED
  BY <1>1, <1>3, <1>4, <1>5, LinesFilterStays DEF LinesInv, Lines!TypeOK, LinesModalInv

LEMMA LinesSaveEditDemoKeeps == ASSUME LinesInv, Lines!SaveEditDemo PROVE LinesInv'
<1> DEFINE p == [panel EXCEPT !.override[panel.selected] = panel.draft.customer,
                              !.replaced = TRUE]
<1>1. panel' = Lines!Closed(p) /\ panel.modal = "edit" /\ UNCHANGED <<call, controller>>
  BY DEF Lines!SaveEditDemo, Lines!EditShown, Lines!Drawn
<1>2. panel.draft \in Lines!Draft
  BY <1>1 DEF LinesInv, Lines!TypeOK, Lines!Panel, LinesModalInv
<1>3. panel.draft.customer \in Customer
  BY <1>2 DEF Lines!Draft
<1>4. p \in Lines!Panel /\ p.replaced
  BY <1>3 DEF LinesInv, Lines!TypeOK, Lines!Panel
<1> HIDE DEF p
<1>5. /\ panel' \in Lines!Panel /\ panel'.modal = "none" /\ ~panel'.revealed /\ panel'.replaced
  BY <1>1, <1>4 DEF Lines!Panel, Lines!Closed
<1> QED
  BY <1>1, <1>5 DEF LinesInv, Lines!TypeOK, LinesModalInv, Lines!FilterIsOffered

LEMMA LinesNext == ASSUME LinesInv, [Lines!Next]_(Lines!vars) PROVE LinesInv'
<1>1. CASE UNCHANGED Lines!vars
  BY <1>1, LinesFilterStays DEF LinesInv, Lines!TypeOK, LinesModalInv, Lines!vars
<1>2. CASE Lines!LinesLoaded
  BY <1>2, LinesLoadedKeeps
<1>3. CASE Lines!CloseModal
  BY <1>3, LinesCloseModalKeeps
<1>4. CASE Lines!SwitchModal
  BY <1>4, LinesSwitchModalKeeps
<1>5. CASE Lines!ToggleReveal
  BY <1>5, LinesToggleRevealKeeps
<1>6. CASE Lines!RestoreDraft
  BY <1>6, LinesRestoreDraftKeeps
<1>7. CASE Lines!SaveEditDemo
  BY <1>7, LinesSaveEditDemoKeeps
<1>8. CASE \E k \in Customer : Lines!ChangeDraft(k)
  BY <1>8, LinesChangeDraftKeeps
<1>9. CASE \E f \in Customer \cup {None} : Lines!ChooseFilter(f)
  BY <1>9, LinesChooseFilterKeeps
<1>10. CASE \E l \in Lines!Line : \E m \in {"detail", "edit", "client", "monitor"} : Lines!OpenModal(l, m)
  BY <1>10, LinesOpenModalKeeps
<1> QED
  BY <1>1, <1>2, <1>3, <1>4, <1>5, <1>6, <1>7, <1>8, <1>9, <1>10 DEF Lines!Next

LEMMA LinesHold ==
  ASSUME LinesInv PROVE Lines!DraftIsOfItsLine /\ Lines!RevealedWasAsked /\ Lines!FilterIsOffered
BY DEF LinesInv, LinesModalInv, Lines!DraftIsOfItsLine, Lines!RevealedWasAsked, Lines!EditShown,
   Lines!ClientInfoShown, Lines!Drawn

-----------------------------------------------------------------------------
(* TaskHistoryPanel. *)

LEMMA TasksAre ==
  None \notin Tasks!Task /\ Limit \in Nat /\ MaxTasks \in Nat \ {0}
BY ProductPanelsAssumption

\* One list is awaited at a time; read, it is no older than the one on display,
\* and it selects again what the operator chose.
TasksListInv ==
  /\ \A a, b \in TaskCall : call[a].op = "list" /\ call[b].op = "list" => a = b
  /\ \A c \in TaskCall :
       call[c].op = "list" =>
         /\ panel.loading
         /\ call[c].read => panel.newest <= call[c].newest /\ call[c].newest <= controller
         /\ panel.chosen # None /\ ~panel.during => call[c].task = panel.chosen
  /\ panel.newest <= controller

\* The log lines of the task on display are there or on their way.
TasksLogsInv ==
  /\ \A c \in TaskCall : call[c].last => call[c].op = "logs"
  /\ \A a, b \in TaskCall : call[a].last /\ call[b].last => a = b
  /\ ~panel.overtaken =>
       \/ \E c \in TaskCall : call[c].last /\ call[c].task = Tasks!Shown
       \/ ~Tasks!LastLogsAwaited /\ panel.logs = Tasks!Shown

TasksInv == Tasks!TypeOK /\ TasksListInv /\ Tasks!SelectionStays /\ TasksLogsInv

-----------------------------------------------------------------------------
LEMMA TasksNoCallIs == Tasks!NoCall \in Tasks!CallRow
BY TasksAre DEF Tasks!NoCall, Tasks!CallRow, Tasks!Task

LEMMA TasksInit == Tasks!Init => TasksInv
<1> SUFFICES ASSUME Tasks!Init PROVE TasksInv
  OBVIOUS
<1>1. PICK k \in TaskCall :
        call = [c \in TaskCall |-> IF c = k THEN [Tasks!NoCall EXCEPT !.op = "list"] ELSE Tasks!NoCall]
  BY DEF Tasks!Init
<1>2. /\ panel \in Tasks!Panel /\ panel.newest = 0 /\ panel.chosen = None /\ panel.selected = None
      /\ panel.logs = None /\ panel.loading
  BY TasksAre DEF Tasks!Init, Tasks!Panel
<1>3. [Tasks!NoCall EXCEPT !.op = "list"] \in Tasks!CallRow
  BY TasksNoCallIs DEF Tasks!CallRow
<1>4. call \in [TaskCall -> Tasks!CallRow]
  BY <1>1, <1>3, TasksNoCallIs
<1>5. \A c \in TaskCall : ~call[c].read /\ ~call[c].last /\ (call[c].op = "list" => c = k)
  BY <1>1 DEF Tasks!NoCall
<1>6. Tasks!Shown = None
  BY <1>2, TasksAre DEF Tasks!Shown, Tasks!SelectedTask, Tasks!ListOf
<1>7. controller \in 0..MaxTasks
  BY TasksAre DEF Tasks!Init
<1> QED
  BY <1>2, <1>4, <1>5, <1>6, <1>7, TasksAre
     DEF Tasks!Init, TasksInv, Tasks!TypeOK, TasksListInv, Tasks!SelectionStays, TasksLogsInv,
        Tasks!LastLogsAwaited

LEMMA TasksNewestIs == ASSUME Tasks!TypeOK PROVE panel.newest \in Nat
<1>1. panel.newest \in 0..MaxTasks
  BY DEF Tasks!TypeOK, Tasks!Panel
<1> QED
  BY <1>1, TasksAre

\* What is shown depends on the list and the selection only.
LEMMA TasksShownIs ==
  ASSUME panel'.newest = panel.newest, panel'.selected = panel.selected
  PROVE  Tasks!Shown' = Tasks!Shown
BY DEF Tasks!Shown, Tasks!SelectedTask, Tasks!ListOf

LEMMA TasksSelectedTaskIs ==
  ASSUME NEW p \in Tasks!Panel PROVE Tasks!SelectedTask(p) \in Tasks!Task \cup {None}
<1>1. p.newest > 0 => p.newest \in Tasks!Task
  BY TasksAre DEF Tasks!Panel, Tasks!Task
<1> QED
  BY <1>1 DEF Tasks!SelectedTask, Tasks!ListOf

\* The effect keeps what it does not ask for, and the log lines' invariant with
\* it when what it starts from gave up list calls only.
LEMMA TasksWithLogsDo ==
  ASSUME Tasks!TypeOK, TasksLogsInv, NEW p \in Tasks!Panel,
         NEW calls \in [TaskCall -> Tasks!CallRow],
         p.overtaken = panel.overtaken, p.logs = panel.logs,
         \A c \in TaskCall : calls[c] = call[c] \/ (calls[c] = Tasks!NoCall /\ call[c].op # "logs"),
         Tasks!WithLogs(p, calls)
  PROVE  /\ panel' \in Tasks!Panel /\ call' \in [TaskCall -> Tasks!CallRow] /\ TasksLogsInv'
         /\ panel'.newest = p.newest /\ panel'.selected = p.selected
         /\ panel'.loading = p.loading /\ panel'.chosen = p.chosen /\ panel'.during = p.during
         /\ \A c \in TaskCall : call'[c].op = "list" =>
              /\ calls[c].op = "list" /\ call'[c].read = calls[c].read
              /\ call'[c].task = calls[c].task /\ call'[c].newest = calls[c].newest
<1> DEFINE t == Tasks!SelectedTask(p)
           earlier == [k \in TaskCall |-> [calls[k] EXCEPT !.last = FALSE]]
           row == [Tasks!NoCall EXCEPT !.op = "logs", !.task = t, !.last = TRUE]
<1>1. t \in Tasks!Task \cup {None}
  BY TasksSelectedTaskIs
<1>2. Tasks!NoCall.last = FALSE /\ Tasks!NoCall.op = "none"
  BY DEF Tasks!NoCall
<1>3. ASSUME t = Tasks!Shown, panel' = p, call' = calls
      PROVE  TasksLogsInv'
  <2>1. Tasks!Shown' = Tasks!Shown
    BY <1>3 DEF Tasks!Shown
  <2>2. \A c \in TaskCall : /\ call'[c].last = call[c].last
                            /\ call[c].last => call'[c] = call[c]
                            /\ call'[c].last => call'[c] = call[c]
    BY <1>2, <1>3 DEF TasksLogsInv, Tasks!TypeOK, Tasks!CallRow
  <2> QED
    BY <1>3, <2>1, <2>2 DEF TasksLogsInv, Tasks!LastLogsAwaited
<1>4. ASSUME t # Tasks!Shown, panel' = [p EXCEPT !.overtaken = FALSE], NEW c \in TaskCall,
             calls[c].op = "none", call' = [earlier EXCEPT ![c] = row]
      PROVE  /\ panel' \in Tasks!Panel /\ call' \in [TaskCall -> Tasks!CallRow] /\ TasksLogsInv'
             /\ panel'.newest = p.newest /\ panel'.selected = p.selected
             /\ panel'.loading = p.loading /\ panel'.chosen = p.chosen /\ panel'.during = p.during
             /\ \A k \in TaskCall : call'[k].op = "list" =>
                  /\ calls[k].op = "list" /\ call'[k].read = calls[k].read
                  /\ call'[k].task = calls[k].task /\ call'[k].newest = calls[k].newest
  <2>1. /\ panel' \in Tasks!Panel /\ panel'.newest = p.newest /\ panel'.selected = p.selected
        /\ panel'.loading = p.loading /\ panel'.chosen = p.chosen /\ panel'.during = p.during
    BY <1>4 DEF Tasks!Panel
  <2>2. row \in Tasks!CallRow /\ row.op = "logs" /\ row.last /\ row.task = t
    BY <1>1, TasksNoCallIs DEF Tasks!CallRow, Tasks!NoCall
  <2>3. \A k \in TaskCall : /\ earlier[k] \in Tasks!CallRow /\ ~earlier[k].last
                            /\ earlier[k].op = calls[k].op /\ earlier[k].read = calls[k].read
                            /\ earlier[k].task = calls[k].task /\ earlier[k].newest = calls[k].newest
    BY DEF Tasks!CallRow
  <2>4. earlier \in [TaskCall -> Tasks!CallRow]
    BY <2>3
  <2> HIDE DEF earlier, row
  <2>5. call' \in [TaskCall -> Tasks!CallRow] /\ call'[c] = row
    BY <1>4, <2>2, <2>4
  <2>6. \A k \in TaskCall : k # c => call'[k] = earlier[k]
    BY <1>4, <2>4
  <2>7. Tasks!Shown' = t
    BY <2>1 DEF Tasks!Shown, Tasks!SelectedTask, Tasks!ListOf
  <2>8. TasksLogsInv'
    <3>1. \A k \in TaskCall : call'[k].last => k = c
      BY <2>3, <2>6
    <3> QED
      BY <2>2, <2>5, <2>7, <3>1 DEF TasksLogsInv
  <2>9. \A k \in TaskCall : call'[k].op = "list" =>
                  /\ calls[k].op = "list" /\ call'[k].read = calls[k].read
                  /\ call'[k].task = calls[k].task /\ call'[k].newest = calls[k].newest
    BY <2>2, <2>3, <2>5, <2>6
  <2> QED
    BY <2>1, <2>5, <2>8, <2>9
<1> QED
  BY <1>3, <1>4 DEF Tasks!WithLogs

\* A call given up leaves the others as they are.
LEMMA TasksFinishedIs ==
  ASSUME Tasks!TypeOK, NEW c \in TaskCall
  PROVE  /\ Tasks!Finished(c) \in [TaskCall -> Tasks!CallRow] /\ Tasks!Finished(c)[c] = Tasks!NoCall
         /\ \A k \in TaskCall : k # c => Tasks!Finished(c)[k] = call[k]
BY TasksNoCallIs DEF Tasks!TypeOK, Tasks!Finished

LEMMA TasksSelectTaskKeeps ==
  ASSUME TasksInv, NEW t \in Tasks!Task, Tasks!SelectTask(t)
  PROVE  TasksInv' /\ Tasks!ListGoesForwardAction
<1> DEFINE during == \E c \in TaskCall : call[c].op = "list"
           p == [panel EXCEPT !.selected = t, !.chosen = t, !.during = during]
<1>1. during \in BOOLEAN
  OBVIOUS
<1> HIDE DEF during
<1>2. /\ p \in Tasks!Panel /\ p.overtaken = panel.overtaken /\ p.logs = panel.logs
      /\ p.newest = panel.newest /\ p.selected = t /\ p.chosen = t /\ p.during = during
      /\ p.loading = panel.loading
  BY <1>1 DEF TasksInv, Tasks!TypeOK, Tasks!Panel
<1>3. Tasks!WithLogs(p, call) /\ controller' = controller
  BY DEF Tasks!SelectTask, during
<1> HIDE DEF p
<1>4. call \in [TaskCall -> Tasks!CallRow]
  BY DEF TasksInv, Tasks!TypeOK
<1>5. /\ panel' \in Tasks!Panel /\ call' \in [TaskCall -> Tasks!CallRow] /\ TasksLogsInv'
      /\ panel'.newest = p.newest /\ panel'.selected = p.selected
      /\ panel'.loading = p.loading /\ panel'.chosen = p.chosen /\ panel'.during = p.during
      /\ \A c \in TaskCall : call'[c].op = "list" =>
           /\ call[c].op = "list" /\ call'[c].read = call[c].read
           /\ call'[c].task = call[c].task /\ call'[c].newest = call[c].newest
  BY <1>2, <1>3, <1>4, TasksWithLogsDo DEF TasksInv
<1>6. TasksListInv'
  BY <1>2, <1>3, <1>5 DEF TasksListInv, TasksInv, during
<1>7. panel.newest \in Nat
  BY TasksNewestIs DEF TasksInv
<1> QED
  BY <1>2, <1>3, <1>5, <1>6, <1>7 DEF TasksInv, Tasks!TypeOK, Tasks!SelectionStays,
     Tasks!ListGoesForwardAction

LEMMA TasksLoadedKeeps ==
  ASSUME TasksInv, NEW c \in TaskCall, Tasks!TasksLoaded(c)
  PROVE  TasksInv' /\ Tasks!ListGoesForwardAction
<1> DEFINE next == Tasks!NextSelected(c)
           p == [panel EXCEPT !.newest = call[c].newest, !.selected = next, !.loading = FALSE]
<1>0. call[c] \in Tasks!CallRow /\ call[c].op = "list" /\ call[c].read
  BY DEF TasksInv, Tasks!TypeOK, Tasks!TasksLoaded
<1>1. next \in Tasks!Task \cup {None} /\ (call[c].task # None => next = call[c].task)
  BY <1>0, TasksAre DEF Tasks!NextSelected, Tasks!CallRow, Tasks!Task
<1> HIDE DEF next
<1>2. /\ p \in Tasks!Panel /\ p.overtaken = panel.overtaken /\ p.logs = panel.logs
      /\ p.newest = call[c].newest /\ p.selected = next /\ p.chosen = panel.chosen
      /\ p.during = panel.during /\ p.loading = FALSE
  BY <1>0, <1>1 DEF TasksInv, Tasks!TypeOK, Tasks!Panel, Tasks!CallRow
<1>3. Tasks!WithLogs(p, Tasks!Finished(c)) /\ controller' = controller
  BY DEF Tasks!TasksLoaded, next
<1> HIDE DEF p
<1>4. /\ Tasks!Finished(c) \in [TaskCall -> Tasks!CallRow] /\ Tasks!Finished(c)[c] = Tasks!NoCall
      /\ \A k \in TaskCall : k # c => Tasks!Finished(c)[k] = call[k]
  BY TasksFinishedIs DEF TasksInv
<1>5. \A k \in TaskCall : Tasks!Finished(c)[k] = call[k] \/ (Tasks!Finished(c)[k] = Tasks!NoCall /\ call[k].op # "logs")
  BY <1>0, <1>4
<1>6. /\ panel' \in Tasks!Panel /\ call' \in [TaskCall -> Tasks!CallRow] /\ TasksLogsInv'
      /\ panel'.newest = p.newest /\ panel'.selected = p.selected
      /\ panel'.loading = p.loading /\ panel'.chosen = p.chosen /\ panel'.during = p.during
      /\ \A k \in TaskCall : call'[k].op = "list" => Tasks!Finished(c)[k].op = "list"
  BY <1>2, <1>3, <1>4, <1>5, TasksWithLogsDo DEF TasksInv
<1>7. \A k \in TaskCall : call'[k].op # "list"
  <2>1. \A k \in TaskCall : k # c => call[k].op # "list"
    BY <1>0 DEF TasksInv, TasksListInv
  <2> QED
    BY <1>4, <1>6, <2>1 DEF Tasks!NoCall
<1>8. panel.newest <= call[c].newest /\ call[c].newest <= controller
  BY <1>0 DEF TasksInv, TasksListInv
<1>9. panel.chosen # None /\ ~panel.during => next = panel.chosen
  BY <1>0, <1>1 DEF TasksInv, TasksListInv
<1>10. TasksListInv' /\ Tasks!SelectionStays' /\ Tasks!ListGoesForwardAction
  BY <1>2, <1>3, <1>6, <1>7, <1>8, <1>9 DEF TasksListInv, Tasks!SelectionStays,
     Tasks!ListGoesForwardAction
<1> QED
  BY <1>3, <1>6, <1>10 DEF TasksInv, Tasks!TypeOK

\* A step that leaves what is shown and the calls for log lines alone.
LEMMA TasksLogsStay ==
  ASSUME TasksLogsInv, panel'.newest = panel.newest, panel'.selected = panel.selected,
         panel'.logs = panel.logs, panel'.overtaken = panel.overtaken,
         \A c \in TaskCall : /\ call'[c].last = call[c].last
                             /\ call[c].last => call'[c].op = "logs" /\ call'[c].task = call[c].task
  PROVE  TasksLogsInv'
<1>1. Tasks!Shown' = Tasks!Shown
  BY TasksShownIs
<1> QED
  BY <1>1 DEF TasksLogsInv, Tasks!LastLogsAwaited

LEMMA TasksLoadTasksKeeps ==
  ASSUME TasksInv, NEW c \in TaskCall, Tasks!LoadTasks(c)
  PROVE  TasksInv' /\ Tasks!ListGoesForwardAction
<1> DEFINE row == [Tasks!NoCall EXCEPT !.op = "list", !.task = panel.selected]
<1>1. /\ ~panel.loading /\ call[c].op = "none" /\ controller' = controller
      /\ panel' = [panel EXCEPT !.loading = TRUE] /\ call' = [call EXCEPT ![c] = row]
  BY DEF Tasks!LoadTasks
<1>2. /\ row \in Tasks!CallRow /\ row.op = "list" /\ row.task = panel.selected /\ ~row.read
      /\ ~row.last
  BY TasksNoCallIs DEF TasksInv, Tasks!TypeOK, Tasks!Panel, Tasks!CallRow, Tasks!NoCall
<1> HIDE DEF row
<1>3. /\ panel' \in Tasks!Panel /\ panel'.newest = panel.newest /\ panel'.selected = panel.selected
      /\ panel'.logs = panel.logs /\ panel'.overtaken = panel.overtaken /\ panel'.loading
      /\ panel'.chosen = panel.chosen /\ panel'.during = panel.during
  BY <1>1 DEF TasksInv, Tasks!TypeOK, Tasks!Panel
<1>0. panel.newest \in Nat
  BY TasksNewestIs DEF TasksInv
<1>4. /\ call' \in [TaskCall -> Tasks!CallRow] /\ call'[c] = row
      /\ \A k \in TaskCall : k # c => call'[k] = call[k]
  BY <1>1, <1>2 DEF TasksInv, Tasks!TypeOK
<1>5. \A k \in TaskCall : call[k].op # "list" /\ call[k].last => k # c
  BY <1>1 DEF TasksInv, TasksLogsInv
<1>6. TasksLogsInv'
  <2>1. call[c].last = row.last
    BY <1>1, <1>2 DEF TasksInv, TasksLogsInv, Tasks!TypeOK, Tasks!CallRow
  <2> QED
    BY <1>2, <1>3, <1>4, <2>1, TasksLogsStay DEF TasksInv, TasksLogsInv
<1>7. \A k \in TaskCall : call[k].op # "list"
  BY <1>1 DEF TasksInv, TasksListInv
<1>8. TasksListInv' /\ Tasks!SelectionStays'
  <2>1. \A k \in TaskCall : call'[k].op = "list" => k = c
    BY <1>4, <1>7
  <2> QED
    BY <1>1, <1>2, <1>3, <1>4, <2>1 DEF TasksInv, TasksListInv, Tasks!SelectionStays
<1> QED
  BY <1>0, <1>1, <1>3, <1>4, <1>6, <1>8 DEF TasksInv, Tasks!TypeOK, Tasks!ListGoesForwardAction

LEMMA TasksTaskCreatedKeeps ==
  ASSUME TasksInv, Tasks!TaskCreated PROVE TasksInv' /\ Tasks!ListGoesForwardAction
<1>1. /\ controller' \in 0..MaxTasks /\ controller <= controller' /\ controller \in Nat
      /\ UNCHANGED <<panel, call>> /\ panel.newest \in Nat
      /\ \A c \in TaskCall : call[c].newest \in Nat
  BY TasksAre DEF Tasks!TaskCreated, TasksInv, Tasks!TypeOK, Tasks!Panel, Tasks!CallRow
<1>2. TasksLogsInv'
  BY <1>1, TasksLogsStay DEF TasksInv, TasksLogsInv
<1>3. TasksListInv'
  BY <1>1 DEF TasksInv, TasksListInv
<1> QED
  BY <1>1, <1>2, <1>3 DEF TasksInv, Tasks!TypeOK, Tasks!SelectionStays, Tasks!ListGoesForwardAction

LEMMA TasksReadTasksKeeps ==
  ASSUME TasksInv, NEW c \in TaskCall, Tasks!ReadTasks(c)
  PROVE  TasksInv' /\ Tasks!ListGoesForwardAction
<1>1. /\ call[c] \in Tasks!CallRow /\ call[c].op = "list" /\ UNCHANGED <<panel, controller>>
      /\ controller \in 0..MaxTasks
      /\ call' = [call EXCEPT ![c].read = TRUE, ![c].newest = controller]
  BY DEF Tasks!ReadTasks, TasksInv, Tasks!TypeOK
<1> DEFINE row == [call[c] EXCEPT !.read = TRUE, !.newest = controller]
<1>2. /\ row \in Tasks!CallRow /\ row.op = "list" /\ row.task = call[c].task
      /\ row.last = call[c].last /\ row.newest = controller
  BY <1>1 DEF Tasks!CallRow
<1>3. /\ call' = [call EXCEPT ![c] = row]
  BY <1>1 DEF TasksInv, Tasks!TypeOK
<1> HIDE DEF row
<1>4. /\ call' \in [TaskCall -> Tasks!CallRow] /\ call'[c] = row
      /\ \A k \in TaskCall : k # c => call'[k] = call[k]
  BY <1>2, <1>3 DEF TasksInv, Tasks!TypeOK
<1>5. panel.newest \in Nat /\ controller \in Nat
  BY <1>1, TasksAre DEF TasksInv, Tasks!TypeOK, Tasks!Panel
<1>6. ~call[c].last
  BY <1>1 DEF TasksInv, TasksLogsInv
<1>7. TasksLogsInv'
  BY <1>1, <1>2, <1>4, <1>6, TasksLogsStay DEF TasksInv, TasksLogsInv
<1>8. TasksListInv'
  BY <1>1, <1>2, <1>4, <1>5 DEF TasksInv, TasksListInv
<1> QED
  BY <1>1, <1>4, <1>5, <1>7, <1>8 DEF TasksInv, Tasks!TypeOK, Tasks!SelectionStays,
     Tasks!ListGoesForwardAction

LEMMA TasksRefusedKeeps ==
  ASSUME TasksInv, NEW c \in TaskCall, Tasks!TasksRefused(c)
  PROVE  TasksInv' /\ Tasks!ListGoesForwardAction
<1>1. /\ call[c].op = "list" /\ controller' = controller
      /\ panel' = [panel EXCEPT !.loading = FALSE] /\ call' = Tasks!Finished(c)
  BY DEF Tasks!TasksRefused
<1>2. /\ panel' \in Tasks!Panel /\ panel'.newest = panel.newest /\ panel'.selected = panel.selected
      /\ panel'.logs = panel.logs /\ panel'.overtaken = panel.overtaken
      /\ panel'.chosen = panel.chosen /\ panel'.during = panel.during
  BY <1>1 DEF TasksInv, Tasks!TypeOK, Tasks!Panel
<1>0. panel.newest \in Nat
  BY TasksNewestIs DEF TasksInv
<1>3. /\ call' \in [TaskCall -> Tasks!CallRow] /\ call'[c] = Tasks!NoCall
      /\ \A k \in TaskCall : k # c => call'[k] = call[k]
  BY <1>1, TasksFinishedIs DEF TasksInv
<1>4. ~call[c].last /\ call[c] \in Tasks!CallRow
  BY <1>1 DEF TasksInv, TasksLogsInv, Tasks!TypeOK
<1>5. TasksLogsInv'
  <2>1. call'[c].last = call[c].last
    <3>1. call'[c].last = FALSE
      BY <1>3 DEF Tasks!NoCall
    <3>2. call[c].last = FALSE
      BY <1>4 DEF Tasks!CallRow
    <3> QED
      BY <3>1, <3>2
  <2> QED
    BY <1>2, <1>3, <1>4, <2>1, TasksLogsStay DEF TasksInv, TasksLogsInv
<1>6. \A k \in TaskCall : call'[k].op # "list"
  BY <1>1, <1>3 DEF TasksInv, TasksListInv, Tasks!NoCall
<1>7. TasksListInv' /\ Tasks!SelectionStays'
  BY <1>1, <1>2, <1>6 DEF TasksInv, TasksListInv, Tasks!SelectionStays
<1> QED
  BY <1>0, <1>1, <1>2, <1>3, <1>5, <1>7 DEF TasksInv, Tasks!TypeOK, Tasks!ListGoesForwardAction

\* An answer for log lines.
LEMMA TasksLogsAnswerKeeps ==
  ASSUME TasksInv, NEW c \in TaskCall, call[c].op = "logs",
         NEW logs \in Tasks!Task \cup {None}, NEW over \in BOOLEAN,
         panel' = [panel EXCEPT !.logs = logs, !.overtaken = over],
         call' = Tasks!Finished(c), controller' = controller,
         ~over => ~panel.overtaken /\ Tasks!LastLogsAwaited /\ (call[c].last => logs = call[c].task)
  PROVE  TasksInv' /\ Tasks!ListGoesForwardAction
<1>2. /\ panel' \in Tasks!Panel /\ panel'.newest = panel.newest /\ panel'.selected = panel.selected
      /\ panel'.logs = logs /\ panel'.overtaken = over /\ panel'.loading = panel.loading
      /\ panel'.chosen = panel.chosen /\ panel'.during = panel.during
  BY DEF TasksInv, Tasks!TypeOK, Tasks!Panel
<1>0. panel.newest \in Nat
  BY TasksNewestIs DEF TasksInv
<1>3. /\ call' \in [TaskCall -> Tasks!CallRow] /\ call'[c] = Tasks!NoCall
      /\ \A k \in TaskCall : k # c => call'[k] = call[k]
  BY TasksFinishedIs DEF TasksInv
<1>4. Tasks!NoCall.op = "none" /\ ~Tasks!NoCall.last
  BY DEF Tasks!NoCall
<1>5. TasksListInv' /\ Tasks!SelectionStays'
  BY <1>2, <1>3, <1>4 DEF TasksInv, TasksListInv, Tasks!SelectionStays
<1>6. TasksLogsInv'
  <2>1. Tasks!Shown' = Tasks!Shown
    BY <1>2, TasksShownIs
  <2>2. ASSUME ~over
        PROVE  \/ \E k \in TaskCall : call'[k].last /\ call'[k].task = Tasks!Shown
               \/ ~Tasks!LastLogsAwaited' /\ logs = Tasks!Shown
    <3>1. PICK k \in TaskCall : call[k].last /\ call[k].task = Tasks!Shown
      BY <2>2 DEF TasksInv, TasksLogsInv
    <3>2. CASE k = c
      <4>1. ~Tasks!LastLogsAwaited'
        BY <1>3, <1>4, <3>1, <3>2 DEF TasksInv, TasksLogsInv, Tasks!LastLogsAwaited
      <4> QED
        BY <2>2, <3>1, <3>2, <4>1
    <3>3. CASE k # c
      BY <1>3, <3>1, <3>3
    <3> QED
      BY <3>2, <3>3
  <2> QED
    BY <1>2, <1>3, <1>4, <2>1, <2>2 DEF TasksInv, TasksLogsInv
<1> QED
  BY <1>0, <1>2, <1>3, <1>5, <1>6 DEF TasksInv, Tasks!TypeOK, Tasks!ListGoesForwardAction

LEMMA TasksLogsLoadedKeeps ==
  ASSUME TasksInv, NEW c \in TaskCall, Tasks!LogsLoaded(c)
  PROVE  TasksInv' /\ Tasks!ListGoesForwardAction
<1> DEFINE over == panel.overtaken \/ ~Tasks!LastLogsAwaited
<1>1. call[c].task \in Tasks!Task \cup {None} /\ over \in BOOLEAN
  BY DEF TasksInv, Tasks!TypeOK, Tasks!CallRow
<1>2. /\ call[c].op = "logs" /\ call' = Tasks!Finished(c) /\ controller' = controller
      /\ panel' = [panel EXCEPT !.logs = call[c].task, !.overtaken = over]
  BY DEF Tasks!LogsLoaded, TasksInv, Tasks!TypeOK, Tasks!Panel
<1> QED
  BY <1>1, <1>2, TasksLogsAnswerKeeps

LEMMA TasksLogsFailKeeps ==
  ASSUME TasksInv, NEW c \in TaskCall, Tasks!LogsFail(c)
  PROVE  TasksInv' /\ Tasks!ListGoesForwardAction
<1> DEFINE over == panel.overtaken \/ call[c].last \/ ~Tasks!LastLogsAwaited
<1>1. over \in BOOLEAN /\ panel.logs \in Tasks!Task \cup {None}
  BY DEF TasksInv, Tasks!TypeOK, Tasks!Panel
<1>2. PICK logs \in {None, panel.logs} :
        panel' = [panel EXCEPT !.logs = logs, !.overtaken = over]
  BY DEF Tasks!LogsFail, TasksInv, Tasks!TypeOK, Tasks!Panel
<1>3. call[c].op = "logs" /\ call' = Tasks!Finished(c) /\ controller' = controller
  BY DEF Tasks!LogsFail
<1> QED
  BY <1>1, <1>2, <1>3, TasksLogsAnswerKeeps

LEMMA TasksNext ==
  ASSUME TasksInv, [Tasks!Next]_(Tasks!vars) PROVE TasksInv' /\ Tasks!ListGoesForwardAction
<1>1. CASE UNCHANGED Tasks!vars
  <2>1. TasksLogsInv' /\ panel.newest \in Nat
    BY <1>1, TasksLogsStay, TasksAre DEF TasksInv, TasksLogsInv, Tasks!vars, Tasks!TypeOK,
       Tasks!Panel
  <2> QED
    BY <1>1, <2>1 DEF TasksInv, Tasks!TypeOK, TasksListInv, Tasks!SelectionStays,
       Tasks!ListGoesForwardAction, Tasks!vars
<1>2. CASE Tasks!TaskCreated
  BY <1>2, TasksTaskCreatedKeeps
<1>3. CASE \E t \in Tasks!Task : Tasks!SelectTask(t)
  BY <1>3, TasksSelectTaskKeeps
<1>4. ASSUME NEW c \in TaskCall,
             \/ Tasks!LoadTasks(c) \/ Tasks!ReadTasks(c) \/ Tasks!TasksLoaded(c) \/ Tasks!TasksRefused(c)
             \/ Tasks!LogsLoaded(c) \/ Tasks!LogsFail(c)
      PROVE  TasksInv' /\ Tasks!ListGoesForwardAction
  BY <1>4, TasksLoadTasksKeeps, TasksReadTasksKeeps, TasksLoadedKeeps, TasksRefusedKeeps,
     TasksLogsLoadedKeeps, TasksLogsFailKeeps
<1> QED
  BY <1>1, <1>2, <1>3, <1>4 DEF Tasks!Next

LEMMA TasksHold == ASSUME TasksInv PROVE Tasks!LogsAreOfTheTask /\ Tasks!SelectionStays
BY DEF TasksInv, TasksLogsInv, Tasks!LogsAreOfTheTask

-----------------------------------------------------------------------------
(* The modals of LineBuilderPanel and ServerResourcesPanel. *)

LEMMA DirectIs ==
  Port # {} /\ None \notin Host \cup Direct!Config
BY ProductPanelsAssumption

DirectKind(op) == IF op = "transit" THEN "bootstrap" ELSE op

\* The modal waits for one call at a time.
DirectCallInv ==
  /\ \A c \in Call : call[c].op \notin {"none", "load"} /\ call[c].step = "main"
                       => call[c].config \in Direct!Config
  /\ \A c \in Call : call[c].alive => /\ call[c].op \notin {"none", "load"}
                                      /\ panel.submitting = DirectKind(call[c].op)
  /\ \A a, b \in Call : call[a].alive /\ call[b].alive => a = b

\* What it waits for is what the form says, which is locked meanwhile.
DirectAnswerInv ==
  \A c \in Call : call[c].alive /\ call[c].step = "main" =>
    /\ call[c].op \in {"bootstrap", "transit"} => call[c].config.server = panel.host
    /\ call[c].op = "plan" => call[c].config.other = panel.other
    /\ call[c].op = "create" => /\ panel.plan = call[c].config /\ panel.ready
                                /\ ~panel.created /\ panel.sent < 2

\* The plan has the other fields of the form; a command was made of it when the
\* node is created, or its answer was lost.
DirectFormInv ==
  /\ panel.plan # None => panel.plan.other = panel.other
  /\ panel.lost \/ panel.sent = 0 \/ (panel.sent = 1 /\ panel.created)
  /\ panel.command # None => panel.command = panel.host

DirectInv == Direct!TypeOK /\ DirectCallInv /\ DirectAnswerInv /\ DirectFormInv

-----------------------------------------------------------------------------
LEMMA DirectAPortIs == Direct!APort \in Port
BY DirectIs DEF Direct!APort

LEMMA DirectNoCallIs ==
  Direct!NoCall \in Direct!CallRow /\ Direct!NoCall.op = "none" /\ ~Direct!NoCall.alive
BY DEF Direct!NoCall, Direct!CallRow

LEMMA DirectInit == Direct!Init => DirectInv
<1> SUFFICES ASSUME Direct!Init PROVE DirectInv
  OBVIOUS
<1>1. PICK k \in Call :
        call = [c \in Call |-> IF c = k THEN [Direct!NoCall EXCEPT !.op = "load"] ELSE Direct!NoCall]
  BY DEF Direct!Init
<1>2. [Direct!NoCall EXCEPT !.op = "load"] \in Direct!CallRow
  BY DirectNoCallIs DEF Direct!CallRow
<1>3. call \in [Call -> Direct!CallRow]
  BY <1>1, <1>2, DirectNoCallIs
<1>4. \A c \in Call : ~call[c].alive /\ call[c].op \in {"none", "load"}
  BY <1>1 DEF Direct!NoCall
<1>5. /\ panel \in Direct!Panel /\ panel.plan = None /\ panel.sent = 0 /\ panel.command = None
  BY DirectAPortIs DEF Direct!Init, Direct!Panel
<1> QED
  BY <1>3, <1>4, <1>5 DEF Direct!Init, DirectInv, Direct!TypeOK, DirectCallInv, DirectAnswerInv,
     DirectFormInv

-----------------------------------------------------------------------------
\* A step of the operator while nothing is awaited.
LEMMA DirectQuietStays ==
  ASSUME DirectInv, call' = call, \A c \in Call : ~call[c].alive
  PROVE  DirectCallInv' /\ DirectAnswerInv'
BY DEF DirectInv, DirectCallInv, DirectAnswerInv

LEMMA DirectNothingAwaited ==
  ASSUME DirectInv, panel.submitting = "no", NEW c \in Call PROVE ~call[c].alive
<1>1. call[c] \in Direct!CallRow
  BY DEF DirectInv, Direct!TypeOK
<1>2. call[c].op \in {"none", "load", "bootstrap", "transit", "plan", "create"}
  BY <1>1 DEF Direct!CallRow
<1> QED
  BY <1>2 DEF DirectInv, DirectCallInv, DirectKind

\* A step that changes nothing an answer is compared with.
LEMMA DirectAnswersStay ==
  ASSUME DirectInv, call' = call, panel'.submitting = panel.submitting,
         panel'.host = panel.host, panel'.other = panel.other, panel'.plan = panel.plan,
         panel'.ready = panel.ready, panel'.created = panel.created, panel'.sent = panel.sent
  PROVE  DirectCallInv' /\ DirectAnswerInv'
BY DEF DirectInv, DirectCallInv, DirectAnswerInv

\* The effect on the list touches list and selection.
LEMMA DirectWithListIs ==
  ASSUME NEW p \in Direct!Panel, NEW rows \in SUBSET Host, NEW q \in Direct!WithList(p, rows)
  PROVE  /\ q \in Direct!Panel /\ q.modal = p.modal /\ q.host = p.host /\ q.command = p.command
         /\ q.port = p.port /\ q.other = p.other /\ q.plan = p.plan /\ q.ready = p.ready
         /\ q.created = p.created /\ q.submitting = p.submitting
         /\ q.sent = p.sent /\ q.lost = p.lost
<1>1. PICK s \in Host \cup {None} : q = [p EXCEPT !.listed = rows, !.selected = s]
  BY DEF Direct!WithList, Direct!Panel
<1> QED
  BY <1>1 DEF Direct!Panel

LEMMA DirectOpenServerModalKeeps == ASSUME DirectInv, Direct!OpenServerModal PROVE DirectInv'
<1>1. PICK modal \in {"server", "transit"} : panel' = [panel EXCEPT !.modal = modal]
  BY DEF Direct!OpenServerModal
<1>2. call' = call /\ controller' = controller
  BY DEF Direct!OpenServerModal
<1>3. /\ panel' \in Direct!Panel /\ panel'.submitting = panel.submitting
      /\ panel'.host = panel.host /\ panel'.other = panel.other /\ panel'.plan = panel.plan
      /\ panel'.ready = panel.ready /\ panel'.created = panel.created /\ panel'.sent = panel.sent
      /\ panel'.lost = panel.lost /\ panel'.command = panel.command
  BY <1>1 DEF DirectInv, Direct!TypeOK, Direct!Panel
<1> QED
  BY <1>2, <1>3, DirectAnswersStay DEF DirectInv, Direct!TypeOK, DirectFormInv

LEMMA DirectOpenDirectModalKeeps == ASSUME DirectInv, Direct!OpenDirectModal PROVE DirectInv'
<1> DEFINE p == [panel EXCEPT !.modal = "direct"]
<1>1. /\ p \in Direct!Panel /\ p.submitting = panel.submitting
      /\ p.host = panel.host /\ p.other = panel.other /\ p.plan = panel.plan
      /\ p.ready = panel.ready /\ p.created = panel.created /\ p.sent = panel.sent
      /\ p.lost = panel.lost /\ p.command = panel.command /\ panel.listed \in SUBSET Host
  BY DEF DirectInv, Direct!TypeOK, Direct!Panel
<1>2. panel' \in Direct!WithList(p, panel.listed) /\ call' = call /\ controller' = controller
  BY DEF Direct!OpenDirectModal
<1> HIDE DEF p
<1>3. /\ panel' \in Direct!Panel /\ panel'.submitting = panel.submitting
      /\ panel'.host = panel.host /\ panel'.other = panel.other /\ panel'.plan = panel.plan
      /\ panel'.ready = panel.ready /\ panel'.created = panel.created /\ panel'.sent = panel.sent
      /\ panel'.lost = panel.lost /\ panel'.command = panel.command
  BY <1>1, <1>2, DirectWithListIs
<1> QED
  BY <1>2, <1>3, DirectAnswersStay DEF DirectInv, Direct!TypeOK, DirectFormInv

LEMMA DirectUnmountedIs ==
  ASSUME NEW p \in Direct!Panel, NEW q, q = Direct!Unmounted(p)
  PROVE  q \in Direct!Panel /\ q.plan = None /\ q.sent = 0 /\ q.command = None
<1> DEFINE r == [p EXCEPT !.modal = "none", !.host = None, !.command = None, !.selected = None,
                          !.port = Direct!APort]
           t == [r EXCEPT !.other = 0, !.ticks = FALSE, !.plan = None, !.ready = FALSE]
<1>1. r \in Direct!Panel /\ r.command = None
  BY DirectAPortIs DEF Direct!Panel
<1>2. q = [t EXCEPT !.text = FALSE, !.created = FALSE, !.submitting = "no", !.sent = 0,
                    !.lost = FALSE]
  BY DEF Direct!Unmounted, Direct!Panel
<1> HIDE DEF r
<1>3. 0 \in 0..1 /\ 0 \in 0..2
  OBVIOUS
<1>4. t \in Direct!Panel /\ t.command = None /\ t.plan = None
  BY ZenonT(40), <1>1, <1>3 DEF Direct!Panel
<1> HIDE DEF t
<1> QED
  BY <1>2, <1>3, <1>4 DEF Direct!Panel

LEMMA DirectCloseModalKeeps == ASSUME DirectInv, Direct!CloseModal PROVE DirectInv'
<1>1. /\ panel' = Direct!Unmounted(panel) /\ controller' = controller
      /\ call' = [c \in Call |-> [call[c] EXCEPT !.alive = FALSE]]
  BY DEF Direct!CloseModal
<1>2. /\ panel' \in Direct!Panel /\ panel'.plan = None /\ panel'.sent = 0 /\ panel'.command = None
  BY <1>1, DirectUnmountedIs DEF DirectInv, Direct!TypeOK
<1>3. \A c \in Call : /\ call'[c] \in Direct!CallRow /\ ~call'[c].alive /\ call'[c].op = call[c].op
                      /\ call'[c].step = call[c].step /\ call'[c].config = call[c].config
  BY <1>1 DEF DirectInv, Direct!TypeOK, Direct!CallRow
<1>4. call' \in [Call -> Direct!CallRow]
  BY <1>1, <1>3
<1>5. DirectCallInv' /\ DirectAnswerInv'
  BY <1>3 DEF DirectInv, DirectCallInv, DirectAnswerInv
<1> QED
  BY <1>1, <1>2, <1>4, <1>5 DEF DirectInv, Direct!TypeOK, DirectFormInv

LEMMA DirectTypeHostKeeps ==
  ASSUME DirectInv, NEW s \in Host, Direct!TypeHost(s) PROVE DirectInv'
<1>1. /\ panel.command = None /\ panel.submitting = "no" /\ call' = call
      /\ controller' = controller /\ panel' = [panel EXCEPT !.host = s]
  BY DEF Direct!TypeHost, Direct!ServerInputs, Direct!TransitInputs
<1>2. /\ panel' \in Direct!Panel /\ panel'.other = panel.other /\ panel'.plan = panel.plan
      /\ panel'.created = panel.created /\ panel'.sent = panel.sent
      /\ panel'.lost = panel.lost /\ panel'.command = None
  BY <1>1 DEF DirectInv, Direct!TypeOK, Direct!Panel
<1> QED
  BY <1>1, <1>2, DirectNothingAwaited, DirectQuietStays DEF DirectInv, Direct!TypeOK, DirectFormInv

LEMMA DirectResetFormKeeps == ASSUME DirectInv, Direct!ResetForm PROVE DirectInv'
<1>1. /\ call' = call /\ controller' = controller /\ panel' = [panel EXCEPT !.command = None]
  BY DEF Direct!ResetForm
<1>2. /\ panel' \in Direct!Panel /\ panel'.submitting = panel.submitting
      /\ panel'.host = panel.host /\ panel'.other = panel.other /\ panel'.plan = panel.plan
      /\ panel'.ready = panel.ready /\ panel'.created = panel.created /\ panel'.sent = panel.sent
      /\ panel'.lost = panel.lost /\ panel'.command = None
  BY <1>1 DEF DirectInv, Direct!TypeOK, Direct!Panel
<1> QED
  BY <1>1, <1>2, DirectAnswersStay DEF DirectInv, Direct!TypeOK, DirectFormInv

LEMMA DirectTypeExactConfirmKeeps == ASSUME DirectInv, Direct!TypeExactConfirm PROVE DirectInv'
<1>1. /\ call' = call /\ controller' = controller /\ panel' = [panel EXCEPT !.text = ~@]
  BY DEF Direct!TypeExactConfirm
<1>2. /\ panel' \in Direct!Panel /\ panel'.submitting = panel.submitting
      /\ panel'.host = panel.host /\ panel'.other = panel.other /\ panel'.plan = panel.plan
      /\ panel'.ready = panel.ready /\ panel'.created = panel.created /\ panel'.sent = panel.sent
      /\ panel'.lost = panel.lost /\ panel'.command = panel.command
  BY <1>1 DEF DirectInv, Direct!TypeOK, Direct!Panel
<1> QED
  BY <1>1, <1>2, DirectAnswersStay DEF DirectInv, Direct!TypeOK, DirectFormInv

\* Every input of the form clears the plan.
LEMMA DirectMarkConfigDirtyIs ==
  ASSUME NEW p \in Direct!Panel, NEW q, q = Direct!MarkConfigDirty(p)
  PROVE  /\ q \in Direct!Panel /\ q.plan = None /\ q.sent = 0
         /\ q.command = p.command /\ q.host = p.host
<1> DEFINE r == [p EXCEPT !.plan = None, !.ready = FALSE, !.text = FALSE]
<1>1. r \in Direct!Panel /\ r.plan = None /\ r.command = p.command /\ r.host = p.host
  BY DEF Direct!Panel
<1>2. q = [r EXCEPT !.sent = 0, !.lost = FALSE]
  BY DEF Direct!MarkConfigDirty, Direct!Panel
<1> HIDE DEF r
<1>3. 0 \in 0..2
  OBVIOUS
<1> QED
  BY <1>1, <1>2, <1>3 DEF Direct!Panel

LEMMA DirectChangeConfigKeeps == ASSUME DirectInv, Direct!ChangeConfig PROVE DirectInv'
<1>1. panel.submitting = "no" /\ call' = call /\ controller' = controller
  BY DEF Direct!ChangeConfig, Direct!DirectInputs
<1>2. PICK s \in Host \cup {None}, p \in Port, o \in 0..1, t \in BOOLEAN :
        panel' = Direct!MarkConfigDirty([panel EXCEPT !.selected = s, !.port = p, !.other = o,
                                                      !.ticks = t])
  <2> DEFINE q(s, p, o, t) == [panel EXCEPT !.selected = s, !.port = p, !.other = o, !.ticks = t]
  <2>1. /\ panel.selected \in Host \cup {None} /\ panel.port \in Port /\ panel.other \in 0..1
        /\ panel.ticks \in BOOLEAN /\ panel.listed \subseteq Host
    BY DEF DirectInv, Direct!TypeOK, Direct!Panel
  <2>2. ASSUME NEW s \in panel.listed, panel' = Direct!MarkConfigDirty([panel EXCEPT !.selected = s])
        PROVE  panel' = Direct!MarkConfigDirty(q(s, panel.port, panel.other, panel.ticks))
    <3>1. [panel EXCEPT !.selected = s] = q(s, panel.port, panel.other, panel.ticks)
      BY DEF DirectInv, Direct!TypeOK, Direct!Panel
    <3> QED
      BY <2>2, <3>1
  <2>3. ASSUME NEW p \in Port, panel' = Direct!MarkConfigDirty([panel EXCEPT !.port = p])
        PROVE  panel' = Direct!MarkConfigDirty(q(panel.selected, p, panel.other, panel.ticks))
    <3>1. [panel EXCEPT !.port = p] = q(panel.selected, p, panel.other, panel.ticks)
      BY DEF DirectInv, Direct!TypeOK, Direct!Panel
    <3> QED
      BY <2>3, <3>1
  <2>4. ASSUME panel' = Direct!MarkConfigDirty([panel EXCEPT !.other = 1 - @])
        PROVE  panel' = Direct!MarkConfigDirty(q(panel.selected, panel.port, 1 - panel.other, panel.ticks))
    <3>1. [panel EXCEPT !.other = 1 - @]
            = q(panel.selected, panel.port, 1 - panel.other, panel.ticks)
      BY DEF DirectInv, Direct!TypeOK, Direct!Panel
    <3> QED
      BY <2>4, <3>1
  <2>5. ASSUME panel' = Direct!MarkConfigDirty([panel EXCEPT !.ticks = ~@])
        PROVE  panel' = Direct!MarkConfigDirty(q(panel.selected, panel.port, panel.other, ~panel.ticks))
    <3>1. [panel EXCEPT !.ticks = ~@]
            = q(panel.selected, panel.port, panel.other, ~panel.ticks)
      BY DEF DirectInv, Direct!TypeOK, Direct!Panel
    <3> QED
      BY <2>5, <3>1
  <2>6. 1 - panel.other \in 0..1 /\ (~panel.ticks) \in BOOLEAN
    BY <2>1
  <2> SUFFICES \E s \in Host \cup {None}, p \in Port, o \in 0..1, t \in BOOLEAN :
                 panel' = Direct!MarkConfigDirty(q(s, p, o, t))
    OBVIOUS
  <2> HIDE DEF q
  <2> QED
    BY ZenonT(40), <2>1, <2>2, <2>3, <2>4, <2>5, <2>6 DEF Direct!ChangeConfig
<1> DEFINE form == [panel EXCEPT !.selected = s, !.port = p, !.other = o, !.ticks = t]
<1>3. form \in Direct!Panel /\ form.command = panel.command /\ form.host = panel.host
  BY DEF DirectInv, Direct!TypeOK, Direct!Panel
<1>4. panel' = Direct!MarkConfigDirty(form)
  BY <1>2
<1> HIDE DEF form
<1>5. /\ panel' \in Direct!Panel /\ panel'.plan = None /\ panel'.sent = 0
      /\ panel'.command = panel.command /\ panel'.host = panel.host
  BY <1>3, <1>4, DirectMarkConfigDirtyIs
<1> QED
  BY <1>1, <1>5, DirectNothingAwaited, DirectQuietStays DEF DirectInv, Direct!TypeOK, DirectFormInv

-----------------------------------------------------------------------------
\* A call that starts waits for what the form says.
LEMMA DirectStartKeeps ==
  ASSUME DirectInv, panel.submitting = "no", NEW c \in Call,
         NEW op \in {"bootstrap", "transit", "plan", "create"}, NEW config \in Direct!Config,
         Direct!Start(c, op, config), panel' = [panel EXCEPT !.submitting = DirectKind(op)],
         controller' = controller,
         op \in {"bootstrap", "transit"} => config.server = panel.host,
         op = "plan" => config.other = panel.other,
         op = "create" => /\ panel.plan = config /\ panel.ready
                          /\ ~panel.created /\ panel.sent < 2
  PROVE  DirectInv'
<1> DEFINE row == [Direct!NoCall EXCEPT !.op = op, !.config = config, !.alive = TRUE]
<1>1. row \in Direct!CallRow /\ row.op = op /\ row.config = config /\ row.alive
  BY DirectNoCallIs DEF Direct!NoCall, Direct!CallRow
<1>2. call' = [call EXCEPT ![c] = row]
  BY DEF Direct!Start
<1> HIDE DEF row
<1>3. /\ call' \in [Call -> Direct!CallRow] /\ call'[c] = row
      /\ \A k \in Call : k # c => call'[k] = call[k]
  BY <1>1, <1>2 DEF DirectInv, Direct!TypeOK
<1>4. DirectKind(op) \in {"no", "bootstrap", "plan", "create"}
  BY DEF DirectKind
<1>5. /\ panel' \in Direct!Panel /\ panel'.submitting = DirectKind(op)
      /\ panel'.host = panel.host /\ panel'.other = panel.other /\ panel'.plan = panel.plan
      /\ panel'.ready = panel.ready /\ panel'.created = panel.created /\ panel'.sent = panel.sent
      /\ panel'.lost = panel.lost /\ panel'.command = panel.command
  BY <1>4 DEF DirectInv, Direct!TypeOK, Direct!Panel
<1>6. \A k \in Call : call'[k].alive => k = c
  BY <1>3, DirectNothingAwaited
<1>7. DirectCallInv'
  BY <1>1, <1>3, <1>5, <1>6 DEF DirectInv, DirectCallInv
<1>8. DirectAnswerInv'
  BY <1>1, <1>3, <1>5, <1>6 DEF DirectAnswerInv
<1> QED
  BY <1>3, <1>5, <1>7, <1>8 DEF DirectInv, Direct!TypeOK, DirectFormInv

LEMMA DirectHostConfigIs ==
  ASSUME NEW s \in Host
  PROVE  /\ [server |-> s, port |-> Direct!APort, other |-> 0] \in Direct!Config
         /\ [server |-> s, port |-> Direct!APort, other |-> 0].server = s
BY DirectAPortIs DEF Direct!Config

LEMMA DirectHandleSubmitKeeps ==
  ASSUME DirectInv, NEW c \in Call,
         Direct!HandleSubmit(c) \/ Direct!HandleTransitSubmit(c) PROVE DirectInv'
<1> DEFINE config == [server |-> panel.host, port |-> Direct!APort, other |-> 0]
<1>1. /\ panel.submitting = "no" /\ panel.host # None /\ controller' = controller
      /\ panel' = [panel EXCEPT !.submitting = "bootstrap"]
      /\ Direct!Start(c, "bootstrap", config) \/ Direct!Start(c, "transit", config)
  BY DEF Direct!HandleSubmit, Direct!HandleTransitSubmit, Direct!ServerInputs, Direct!TransitInputs
<1>2. panel.host \in Host
  BY <1>1 DEF DirectInv, Direct!TypeOK, Direct!Panel
<1>3. config \in Direct!Config /\ config.server = panel.host
  BY <1>2, DirectHostConfigIs
<1>4. DirectKind("bootstrap") = "bootstrap" /\ DirectKind("transit") = "bootstrap"
  BY DEF DirectKind
<1> HIDE DEF config
<1> QED
  BY <1>1, <1>3, <1>4, DirectStartKeeps

LEMMA DirectFormIs ==
  ASSUME DirectInv, Direct!Chosen # None
  PROVE  /\ Direct!Form \in Direct!Config /\ Direct!Form.server = Direct!Chosen
         /\ Direct!Form.port = panel.port /\ Direct!Form.other = panel.other
BY DEF Direct!Form, Direct!Chosen, Direct!Config, DirectInv, Direct!TypeOK, Direct!Panel

LEMMA DirectHandlePlanKeeps ==
  ASSUME DirectInv, NEW c \in Call, Direct!HandlePlan(c) PROVE DirectInv'
<1>1. /\ panel.submitting = "no" /\ Direct!Chosen # None /\ controller' = controller
      /\ panel' = [panel EXCEPT !.submitting = "plan"] /\ Direct!Start(c, "plan", Direct!Form)
  BY DEF Direct!HandlePlan, Direct!CanRequestPlan, Direct!DirectInputs
<1>2. DirectKind("plan") = "plan"
  BY DEF DirectKind
<1> QED
  BY <1>1, <1>2, DirectFormIs, DirectStartKeeps

LEMMA DirectHandleCreateKeeps ==
  ASSUME DirectInv, NEW c \in Call, Direct!HandleCreate(c) PROVE DirectInv'
<1>1. /\ panel.submitting = "no" /\ Direct!Chosen # None /\ controller' = controller
      /\ panel' = [panel EXCEPT !.submitting = "create"] /\ Direct!Start(c, "create", Direct!Form)
      /\ ~panel.created /\ panel.sent < 2 /\ panel.plan # None /\ panel.ready
      /\ panel.plan.server = Direct!Chosen /\ panel.plan.port = panel.port
  BY DEF Direct!HandleCreate, Direct!CanCreate, Direct!DirectInputs
<1>2. DirectKind("create") = "create"
  BY DEF DirectKind
<1>3. panel.plan = Direct!Form
  <2>1. panel.plan \in Direct!Config
    BY <1>1 DEF DirectInv, Direct!TypeOK, Direct!Panel
  <2>2. panel.plan.other = panel.other
    BY <1>1 DEF DirectInv, DirectFormInv
  <2> QED
    BY <1>1, <2>1, <2>2, DirectFormIs DEF Direct!Config
<1> QED
  BY <1>1, <1>2, <1>3, DirectFormIs, DirectStartKeeps

-----------------------------------------------------------------------------
\* An answer takes its call to the list or out, and changes the modal only if
\* the call was made by it.
DirectChanges(c, row) ==
  /\ row \in Direct!CallRow
  /\ ~row.alive \/ (row.alive = call[c].alive /\ row.op = call[c].op)
  /\ row.op \in {"none", "load"} \/ row.step = "list"
  /\ call' = [call EXCEPT ![c] = row]

DirectKept ==
  /\ panel'.submitting = panel.submitting
  /\ panel'.host = panel.host /\ panel'.other = panel.other /\ panel'.plan = panel.plan
  /\ panel'.ready = panel.ready /\ panel'.created = panel.created /\ panel'.sent = panel.sent

LEMMA DirectAnswerKeeps ==
  ASSUME DirectInv, NEW c \in Call, NEW row, DirectChanges(c, row), call[c].alive \/ DirectKept,
         row.alive => panel'.submitting = panel.submitting
  PROVE  call' \in [Call -> Direct!CallRow] /\ DirectCallInv' /\ DirectAnswerInv'
<1>1. /\ call' \in [Call -> Direct!CallRow] /\ call'[c] = row
      /\ \A k \in Call : k # c => call'[k] = call[k]
  BY DEF DirectChanges, DirectInv, Direct!TypeOK
<1>2. \A k \in Call : call'[k].alive => call[k].alive
  BY <1>1 DEF DirectChanges
<1>3. \A k \in Call : k # c /\ call'[k].alive => DirectKept
  BY <1>1 DEF DirectInv, DirectCallInv
<1>4. row.alive => row.op \notin {"none", "load"} /\ panel'.submitting = DirectKind(row.op)
  BY DEF DirectChanges, DirectInv, DirectCallInv
<1>5. DirectCallInv'
  BY <1>1, <1>2, <1>3, <1>4 DEF DirectInv, DirectCallInv, DirectKept, DirectChanges
<1>6. DirectAnswerInv'
  <2>1. ~(row.alive /\ row.step = "main")
    BY <1>4 DEF DirectChanges, Direct!CallRow
  <2> QED
    BY <1>1, <1>2, <1>3, <2>1 DEF DirectInv, DirectAnswerInv, DirectKept
<1> QED
  BY <1>1, <1>5, <1>6

LEMMA DirectFinishIs ==
  ASSUME NEW c \in Call, Direct!Finish(c) PROVE DirectChanges(c, Direct!NoCall)
BY DirectNoCallIs DEF Direct!Finish, DirectChanges

LEMMA DirectThenListIs ==
  ASSUME DirectInv, NEW c \in Call, Direct!ThenList(c), call[c].op # "none"
  PROVE  \E row : DirectChanges(c, row) /\ row.alive = call[c].alive
<1> DEFINE row == [call[c] EXCEPT !.step = "list", !.config = None]
<1>1. call[c] \in Direct!CallRow
  BY DEF DirectInv, Direct!TypeOK
<1>2. /\ row \in Direct!CallRow /\ row.step = "list" /\ row.op = call[c].op
      /\ row.alive = call[c].alive
  BY <1>1 DEF Direct!CallRow
<1>3. call' = [call EXCEPT ![c] = row]
  BY DEF Direct!ThenList, DirectInv, Direct!TypeOK
<1> HIDE DEF row
<1> QED
  BY <1>2, <1>3 DEF DirectChanges

LEMMA DirectDoneIs ==
  ASSUME DirectInv, NEW c \in Call
  PROVE  /\ Direct!Done(c, panel) \in Direct!Panel
         /\ call[c].alive \/ Direct!Done(c, panel) = panel
         /\ Direct!Done(c, panel).host = panel.host /\ Direct!Done(c, panel).command = panel.command
         /\ Direct!Done(c, panel).other = panel.other /\ Direct!Done(c, panel).plan = panel.plan
         /\ Direct!Done(c, panel).created = panel.created /\ Direct!Done(c, panel).sent = panel.sent
         /\ Direct!Done(c, panel).lost = panel.lost /\ Direct!Done(c, panel).ready = panel.ready
BY DEF Direct!Done, DirectInv, Direct!TypeOK, Direct!Panel

\* What the form and its plan say of one another.
LEMMA DirectFormStays ==
  ASSUME DirectInv, panel'.host = panel.host, panel'.command = panel.command,
         panel'.other = panel.other, panel'.plan = panel.plan, panel'.created = panel.created,
         panel'.sent = panel.sent, panel'.lost = panel.lost
  PROVE  DirectFormInv'
BY DEF DirectInv, DirectFormInv

LEMMA DirectListLoadedKeeps ==
  ASSUME DirectInv, NEW c \in Call, Direct!ListLoaded(c) PROVE DirectInv'
<1> DEFINE p == Direct!Done(c, panel)
<1>1. /\ panel' = p \/ panel' \in Direct!WithList(p, Direct!Online)
      /\ Direct!Finish(c) /\ controller' = controller
  BY DEF Direct!ListLoaded
<1>2. /\ call[c].alive \/ p = panel
      /\ p \in Direct!Panel /\ p.host = panel.host
      /\ p.command = panel.command /\ p.other = panel.other /\ p.plan = panel.plan
      /\ p.created = panel.created /\ p.sent = panel.sent
      /\ p.lost = panel.lost /\ p.ready = panel.ready
  BY DirectDoneIs
<1>3. Direct!Online \in SUBSET Host
  BY DEF Direct!Online
<1> HIDE DEF p
<1>4. /\ panel' \in Direct!Panel /\ panel'.host = p.host /\ panel'.command = p.command
      /\ panel'.other = p.other /\ panel'.plan = p.plan /\ panel'.ready = p.ready
      /\ panel'.created = p.created /\ panel'.submitting = p.submitting
      /\ panel'.sent = p.sent /\ panel'.lost = p.lost
  BY <1>1, <1>2, <1>3, DirectWithListIs
<1>5. call[c].alive \/ DirectKept
  BY <1>2, <1>4 DEF DirectKept
<1>6. DirectFormInv'
  BY <1>2, <1>4, DirectFormStays
<1>7. call' \in [Call -> Direct!CallRow] /\ DirectCallInv' /\ DirectAnswerInv'
  BY <1>1, <1>5, DirectFinishIs, DirectAnswerKeeps, DirectNoCallIs
<1> QED
  BY <1>1, <1>4, <1>6, <1>7 DEF DirectInv, Direct!TypeOK

\* The command on display is that of the host the modal asked for.
LEMMA DirectCommandShownKeeps ==
  ASSUME DirectInv, NEW c \in Call, call[c].op \in {"bootstrap", "transit"},
         call[c].step = "main", Direct!ThenList(c), controller' \in Direct!Controller,
         panel' = IF call[c].alive THEN [panel EXCEPT !.command = call[c].config.server] ELSE panel
  PROVE  DirectInv'
<1>1. call[c].config \in Direct!Config
  BY DEF DirectInv, DirectCallInv
<1>2. call[c].config.server \in Host
  BY <1>1 DEF Direct!Config
<1>3. /\ panel' \in Direct!Panel /\ DirectKept /\ panel'.lost = panel.lost
      /\ panel'.command = panel.command
           \/ (panel'.command = call[c].config.server /\ call[c].alive)
  BY <1>2 DEF DirectInv, Direct!TypeOK, Direct!Panel, DirectKept
<1>4. DirectFormInv'
  BY <1>3 DEF DirectInv, DirectFormInv, DirectAnswerInv, DirectKept
<1>5. PICK row : DirectChanges(c, row) /\ row.alive = call[c].alive
  BY DirectThenListIs
<1>6. panel'.submitting = panel.submitting
  BY <1>3 DEF DirectKept
<1>7. call' \in [Call -> Direct!CallRow] /\ DirectCallInv' /\ DirectAnswerInv'
  BY <1>3, <1>5, <1>6, DirectAnswerKeeps
<1> QED
  BY <1>3, <1>4, <1>7 DEF DirectInv, Direct!TypeOK

LEMMA DirectTakeBootstrapIs ==
  ASSUME DirectInv, NEW s \in Host, Direct!TakeBootstrap(s) PROVE controller' \in Direct!Controller
BY DEF Direct!TakeBootstrap, DirectInv, Direct!TypeOK, Direct!Controller

LEMMA DirectBootstrapAnsweredKeeps ==
  ASSUME DirectInv, NEW c \in Call,
         Direct!BootstrapAnswered(c) \/ Direct!TransitBootstrapAnswered(c)
  PROVE  DirectInv'
<1>1. call[c].op \in {"bootstrap", "transit"} /\ call[c].step = "main" /\ Direct!ThenList(c)
  BY DEF Direct!BootstrapAnswered, Direct!TransitBootstrapAnswered, Direct!Waits
<1>2. panel' = IF call[c].alive THEN [panel EXCEPT !.command = call[c].config.server] ELSE panel
  BY DEF Direct!BootstrapAnswered, Direct!TransitBootstrapAnswered
<1>3. call[c].config \in Direct!Config
  BY <1>1 DEF DirectInv, DirectCallInv
<1>4. controller' \in Direct!Controller
  <2>1. call[c].config.server \in Host
    BY <1>3 DEF Direct!Config
  <2>2. controller' = controller \/ Direct!TakeBootstrap(call[c].config.server)
    BY DEF Direct!BootstrapAnswered, Direct!TransitBootstrapAnswered
  <2> QED
    BY <2>1, <2>2, DirectTakeBootstrapIs DEF DirectInv, Direct!TypeOK
<1> QED
  BY <1>1, <1>2, <1>4, DirectCommandShownKeeps

LEMMA DirectPlanAnsweredKeeps ==
  ASSUME DirectInv, NEW c \in Call, Direct!PlanAnswered(c) PROVE DirectInv'
<1>1. PICK ready \in BOOLEAN :
        panel' = IF call[c].alive
                 THEN [panel EXCEPT !.plan = call[c].config, !.ready = ready, !.sent = 0,
                                    !.lost = FALSE, !.submitting = "no"]
                 ELSE panel
  BY DEF Direct!PlanAnswered
<1>2. /\ call[c].op = "plan" /\ call[c].step = "main" /\ Direct!Finish(c) /\ controller' = controller
  BY DEF Direct!PlanAnswered, Direct!Waits
<1>3. call[c].config \in Direct!Config
  BY <1>2 DEF DirectInv, DirectCallInv
<1>4. CASE call[c].alive
  <2>1. /\ panel' \in Direct!Panel /\ panel'.plan = call[c].config /\ panel'.sent = 0
        /\ panel'.other = panel.other /\ panel'.command = panel.command
        /\ panel'.host = panel.host
    <3> DEFINE r == [panel EXCEPT !.plan = call[c].config, !.ready = ready]
    <3>1. /\ r \in Direct!Panel /\ r.plan = call[c].config /\ r.other = panel.other
          /\ r.command = panel.command /\ r.host = panel.host
      BY <1>3 DEF DirectInv, Direct!TypeOK, Direct!Panel
    <3>2. panel' = [r EXCEPT !.sent = 0, !.lost = FALSE, !.submitting = "no"]
      BY <1>1, <1>4 DEF DirectInv, Direct!TypeOK, Direct!Panel
    <3> HIDE DEF r
    <3>3. 0 \in 0..2
      OBVIOUS
    <3> QED
      BY <3>1, <3>2, <3>3 DEF Direct!Panel
  <2>2. call[c].config.other = panel.other
    BY <1>2, <1>4 DEF DirectInv, DirectAnswerInv
  <2>3. DirectFormInv'
    BY <2>1, <2>2 DEF DirectInv, DirectFormInv
  <2>4. call' \in [Call -> Direct!CallRow] /\ DirectCallInv' /\ DirectAnswerInv'
    BY <1>2, <1>4, DirectFinishIs, DirectAnswerKeeps, DirectNoCallIs
  <2> QED
    BY <1>2, <2>1, <2>3, <2>4 DEF DirectInv, Direct!TypeOK
<1>5. CASE ~call[c].alive
  <2>1. panel' = panel
    BY <1>1, <1>5
  <2>2. call' \in [Call -> Direct!CallRow] /\ DirectCallInv' /\ DirectAnswerInv'
    BY <1>2, <2>1, DirectFinishIs, DirectAnswerKeeps, DirectNoCallIs DEF DirectKept
  <2> QED
    BY <1>2, <2>1, <2>2, DirectFormStays DEF DirectInv, Direct!TypeOK
<1> QED
  BY <1>4, <1>5

LEMMA DirectCreateAnsweredKeeps ==
  ASSUME DirectInv, NEW c \in Call, Direct!CreateAnswered(c) PROVE DirectInv'
<1>1. /\ call[c].op = "create" /\ call[c].step = "main" /\ Direct!ThenList(c)
      /\ controller' = controller
      /\ panel' = IF call[c].alive THEN [panel EXCEPT !.created = TRUE, !.sent = @ + 1] ELSE panel
  BY DEF Direct!CreateAnswered, Direct!Waits
<1>2. PICK row : DirectChanges(c, row) /\ row.alive = call[c].alive
  BY <1>1, DirectThenListIs
<1>3. CASE call[c].alive
  <2>1. panel.sent < 2 /\ ~panel.created
    BY <1>1, <1>3 DEF DirectInv, DirectAnswerInv
  <2>2. panel.sent \in 0..2
    BY DEF DirectInv, Direct!TypeOK, Direct!Panel
  <2>3. panel.sent + 1 \in 0..2
    BY <2>1, <2>2
  <2>4. panel' = [panel EXCEPT !.created = TRUE, !.sent = panel.sent + 1]
    BY <1>1, <1>3
  <2> DEFINE sent == panel.sent + 1
  <2> HIDE DEF sent
  <2>5. /\ panel' \in Direct!Panel /\ panel'.created /\ panel'.sent = sent
        /\ panel'.lost = panel.lost /\ panel'.plan = panel.plan
        /\ panel'.other = panel.other /\ panel'.command = panel.command
        /\ panel'.host = panel.host /\ panel'.submitting = panel.submitting
    BY <2>3, <2>4 DEF DirectInv, Direct!TypeOK, Direct!Panel, sent
  <2>6. DirectFormInv'
    BY <2>1, <2>5 DEF DirectInv, DirectFormInv, sent
  <2>7. call' \in [Call -> Direct!CallRow] /\ DirectCallInv' /\ DirectAnswerInv'
    BY <1>2, <1>3, <2>5, DirectAnswerKeeps
  <2> QED
    BY <1>1, <2>5, <2>6, <2>7 DEF DirectInv, Direct!TypeOK
<1>4. CASE ~call[c].alive
  <2>1. panel' = panel
    BY <1>1, <1>4
  <2>2. call' \in [Call -> Direct!CallRow] /\ DirectCallInv' /\ DirectAnswerInv'
    BY <1>2, <2>1, DirectAnswerKeeps DEF DirectKept
  <2> QED
    BY <1>1, <2>1, <2>2, DirectFormStays DEF DirectInv, Direct!TypeOK
<1> QED
  BY <1>3, <1>4

LEMMA DirectRequestFailsKeeps ==
  ASSUME DirectInv, NEW c \in Call, Direct!RequestFails(c) PROVE DirectInv'
<1>1. /\ call[c].op \notin {"none", "load"} /\ call[c].step = "main" /\ Direct!Finish(c)
  BY DEF Direct!RequestFails
<1> DEFINE p == Direct!Done(c, panel)
<1>2. /\ call[c].alive \/ p = panel
      /\ p \in Direct!Panel /\ p.host = panel.host
      /\ p.command = panel.command /\ p.other = panel.other /\ p.plan = panel.plan
      /\ p.created = panel.created /\ p.sent = panel.sent
      /\ p.lost = panel.lost /\ p.ready = panel.ready
  BY DirectDoneIs
<1>3. controller' \in Direct!Controller
  <2>1. call[c].config \in Direct!Config
    BY <1>1 DEF DirectInv, DirectCallInv
  <2>2. call[c].config.server \in Host
    BY <2>1 DEF Direct!Config
  <2>3. controller' = controller \/ Direct!TakeBootstrap(call[c].config.server)
    BY DEF Direct!RequestFails
  <2> QED
    BY <2>2, <2>3, DirectTakeBootstrapIs DEF DirectInv, Direct!TypeOK
<1>4. CASE panel' = p
  <2>1. DirectFormInv'
    BY <1>2, <1>4, DirectFormStays
  <2>2. call[c].alive \/ DirectKept
    BY <1>2, <1>4 DEF DirectKept
  <2>3. call' \in [Call -> Direct!CallRow] /\ DirectCallInv' /\ DirectAnswerInv'
    BY <1>1, <2>2, DirectFinishIs, DirectAnswerKeeps, DirectNoCallIs
  <2> QED
    BY <1>2, <1>3, <1>4, <2>1, <2>3 DEF DirectInv, Direct!TypeOK
<1>5. CASE /\ call[c].op = "create"
           /\ panel' = IF call[c].alive THEN [p EXCEPT !.sent = @ + 1, !.lost = TRUE] ELSE panel
  <2>1. CASE call[c].alive
    <3>1. panel.sent < 2
      BY <1>1, <1>5, <2>1 DEF DirectInv, DirectAnswerInv
    <3>2. panel.sent \in 0..2
      BY DEF DirectInv, Direct!TypeOK, Direct!Panel
    <3>3. panel.sent + 1 \in 0..2
      BY <3>1, <3>2
    <3> DEFINE sent == panel.sent + 1
    <3>4. panel' = [p EXCEPT !.sent = sent, !.lost = TRUE]
      BY <1>2, <1>5, <2>1
    <3> HIDE DEF sent, p
    <3>5. /\ panel' \in Direct!Panel /\ panel'.lost /\ panel'.plan = p.plan
          /\ panel'.other = p.other /\ panel'.command = p.command
          /\ panel'.host = p.host
      BY <1>2, <3>3, <3>4 DEF Direct!Panel, sent
    <3>6. DirectFormInv'
      BY <1>2, <3>5 DEF DirectInv, DirectFormInv
    <3>7. call' \in [Call -> Direct!CallRow] /\ DirectCallInv' /\ DirectAnswerInv'
      BY <1>1, <2>1, DirectFinishIs, DirectAnswerKeeps, DirectNoCallIs
    <3> QED
      BY <1>3, <3>5, <3>6, <3>7 DEF DirectInv, Direct!TypeOK
  <2>2. CASE ~call[c].alive
    <3>1. panel' = p
      BY <1>2, <1>5, <2>2
    <3> QED
      BY <1>4, <3>1
  <2> QED
    BY <2>1, <2>2
<1> QED
  BY <1>4, <1>5 DEF Direct!RequestFails

LEMMA DirectWorkerComesAndGoesKeeps ==
  ASSUME DirectInv, NEW s \in Host, Direct!WorkerComesAndGoes(s) PROVE DirectInv'
<1>1. call' = call /\ panel' = panel /\ controller' \in Direct!Controller
  BY DEF Direct!WorkerComesAndGoes, DirectInv, Direct!TypeOK, Direct!Controller
<1> QED
  BY <1>1, DirectAnswersStay, DirectFormStays DEF DirectInv, Direct!TypeOK

LEMMA DirectNext == ASSUME DirectInv, [Direct!Next]_(Direct!vars) PROVE DirectInv'
<1>1. CASE UNCHANGED Direct!vars
  BY <1>1, DirectAnswersStay, DirectFormStays DEF DirectInv, Direct!TypeOK, Direct!vars
<1>2. CASE Direct!OpenServerModal \/ Direct!OpenDirectModal \/ Direct!CloseModal
  BY <1>2, DirectOpenServerModalKeeps, DirectOpenDirectModalKeeps, DirectCloseModalKeeps
<1>3. CASE Direct!ResetForm \/ Direct!ChangeConfig \/ Direct!TypeExactConfirm
  BY <1>3, DirectResetFormKeeps, DirectChangeConfigKeeps, DirectTypeExactConfirmKeeps
<1>4. CASE \E s \in Host : Direct!TypeHost(s) \/ Direct!WorkerComesAndGoes(s)
  BY <1>4, DirectTypeHostKeeps, DirectWorkerComesAndGoesKeeps
<1>5. ASSUME NEW c \in Call,
             Direct!HandleSubmit(c) \/ Direct!HandleTransitSubmit(c) \/ Direct!HandlePlan(c) \/ Direct!HandleCreate(c)
      PROVE  DirectInv'
  BY <1>5, DirectHandleSubmitKeeps, DirectHandlePlanKeeps, DirectHandleCreateKeeps
<1>6. ASSUME NEW c \in Call,
             \/ Direct!ListLoaded(c) \/ Direct!BootstrapAnswered(c) \/ Direct!TransitBootstrapAnswered(c)
             \/ Direct!PlanAnswered(c) \/ Direct!CreateAnswered(c) \/ Direct!RequestFails(c)
      PROVE  DirectInv'
  BY <1>6, DirectListLoadedKeeps, DirectBootstrapAnsweredKeeps, DirectPlanAnsweredKeeps,
     DirectCreateAnsweredKeeps,
     DirectRequestFailsKeeps
<1> QED
  BY <1>1, <1>2, <1>3, <1>4, <1>5, <1>6 DEF Direct!Next

LEMMA DirectHold ==
  ASSUME DirectInv
  PROVE  Direct!CreatedAsPlanned /\ Direct!OneCommandPerPlan /\ Direct!CommandIsOfTheForm
<1>1. Direct!CreatedAsPlanned
  BY DEF DirectInv, DirectAnswerInv, Direct!CreatedAsPlanned, Direct!Waits
<1>2. Direct!OneCommandPerPlan
  BY DEF DirectInv, DirectFormInv, Direct!OneCommandPerPlan
<1> QED
  BY <1>1, <1>2 DEF DirectInv, DirectFormInv, Direct!CommandIsOfTheForm

-----------------------------------------------------------------------------
(* ServerManagementPanel: the creation of a node. *)

LEMMA CreateIs ==
  /\ None \notin Create!Place \cup Host \cup Create!Command
  /\ MaxCreationPolls \in Nat /\ MaxCommands \in Nat
BY ProductPanelsAssumption

CreateEarly == {"preflight_create", "preflight_running", "plan", "command_create"}
CreateLate == {"command_running", "refresh"}

CreateNumbered == \E n \in 0..MaxCommands : \A i \in 1..MaxCommands : controller.commands[i] # None <=> i <= n

CreateRoom == \E i \in 1..MaxCommands : controller.commands[i] = None

\* The flow goes on for a place that was ticked; before it has made its command
\* it has made none, later the command is its own.
CreateFlowInv ==
  /\ panel.submitting <=> call.at # "none"
  /\ call.at \in {"none"} \cup CreateEarly \cup CreateLate
  /\ call.at # "none" => call.place \in panel.ticked /\ panel.created = None
  /\ call.at \in CreateEarly => panel.made = 0 /\ CreateRoom
  /\ panel.made # 0 => controller.commands[panel.made] # None
  /\ call.at \in CreateLate => panel.made # 0 /\ controller.commands[panel.made].place = call.place
  /\ call.at = "refresh" => controller.commands[panel.made].status = "succeeded"
  /\ call.at # "none" /\ ~panel.reopened => panel.server = call.place.server

CreateFormInv ==
  panel.confirmed /\ panel.server # None =>
    [server |-> panel.server, port |-> panel.port] \in panel.ticked

\* A command that was not given up is being followed.
CreateFollowedInv ==
  \A i \in 1..MaxCommands :
    /\ controller.commands[i] # None
    /\ controller.commands[i].status = "running"
    /\ i \notin panel.gaveUp
    => call.at = "command_running" /\ panel.made = i

CreateInv ==
  /\ Create!TypeOK /\ CreateNumbered /\ CreateFlowInv /\ CreateFormInv /\ CreateFollowedInv
  /\ Create!CreatedPlaceWasConfirmed /\ Create!CreatedNodeIsReal /\ Create!FailedLeavesNoNode

-----------------------------------------------------------------------------
LEMMA CreateInit == Create!Init => CreateInv
<1> SUFFICES ASSUME Create!Init PROVE CreateInv
  OBVIOUS
<1>1. PICK port \in Port :
       panel = [server |-> None, port |-> port, confirmed |-> FALSE, submitting |-> FALSE,
                step |-> "idle", created |-> None, ticked |-> {}, reopened |-> FALSE,
                made |-> 0, gaveUp |-> {}]
  BY DEF Create!Init
<1>2. PICK nodes \in SUBSET Create!Place :
        controller = [nodes |-> nodes, commands |-> [i \in 1..MaxCommands |-> None]]
  BY DEF Create!Init
<1>3. panel \in Create!Panel /\ controller \in Create!Controller
  BY <1>1, <1>2, CreateIs DEF Create!Panel, Create!Controller, Create!Step
<1>4. call \in Create!Flow /\ call.at = "none"
  BY CreateIs DEF Create!Init, Create!NoFlow, Create!Flow
<1>5. CreateNumbered
  <2>1. 0 \in 0..MaxCommands /\ \A i \in 1..MaxCommands : controller.commands[i] # None <=> i <= 0
    BY <1>2, CreateIs
  <2> QED
    BY <2>1 DEF CreateNumbered
<1>6. CreateFlowInv /\ CreateFormInv
  BY <1>1, <1>4 DEF CreateFlowInv, CreateFormInv, CreateEarly, CreateLate
<1>7. CreateFollowedInv /\ Create!CreatedPlaceWasConfirmed
  BY <1>2 DEF CreateFollowedInv, Create!CreatedPlaceWasConfirmed
<1>8. Create!CreatedNodeIsReal /\ Create!FailedLeavesNoNode
  BY <1>1 DEF Create!CreatedNodeIsReal, Create!FailedLeavesNoNode
<1> QED
  BY <1>3, <1>4, <1>5, <1>6, <1>7, <1>8 DEF CreateInv, Create!TypeOK

-----------------------------------------------------------------------------
(* The commands. *)

\* The instance has Cardinality under a name of its own.
LEMMA CreateCardinality == ASSUME NEW S PROVE Create!Cardinality(S) = Cardinality(S)
BY DEF Create!Cardinality, Cardinality

LEMMA CreateLastIs ==
  ASSUME Create!TypeOK, CreateNumbered
  PROVE  Create!Last \in 0..MaxCommands /\ \A i \in 1..MaxCommands : controller.commands[i] # None <=> i <= Create!Last
<1>1. PICK n \in 0..MaxCommands : \A i \in 1..MaxCommands : controller.commands[i] # None <=> i <= n
  BY DEF CreateNumbered
<1>2. {i \in 1..MaxCommands : controller.commands[i] # None} = 1..n
  BY <1>1, CreateIs
<1>3. Cardinality(1..n) = n
  BY FS_Interval
<1>4. Create!Last = n
  BY <1>2, <1>3, CreateCardinality DEF Create!Last
<1> QED
  BY <1>1, <1>4

\* A command that ends, or that is new, leaves what is known of the others.
CreateCommandsStay ==
  /\ controller' \in Create!Controller /\ CreateNumbered'
  /\ controller.nodes \subseteq controller'.nodes
  /\ \A i \in 1..MaxCommands : controller.commands[i] # None =>
       /\ controller'.commands[i] # None
       /\ controller'.commands[i].place = controller.commands[i].place
       /\ controller.commands[i].status # "running" =>
            controller'.commands[i] = controller.commands[i]

LEMMA CreateUnchangedCommands ==
  ASSUME CreateInv, UNCHANGED controller PROVE CreateCommandsStay
BY DEF CreateInv, Create!TypeOK, CreateCommandsStay, CreateNumbered

LEMMA CreateMadeIs ==
  ASSUME Create!TypeOK, panel.made # 0 PROVE panel.made \in 1..MaxCommands
<1>1. panel.made \in 0..MaxCommands
  BY DEF Create!TypeOK, Create!Panel
<1> QED
  BY <1>1, CreateIs

\* What the modal shows stays true of the commands.
LEMMA CreateOutcomeStays ==
  ASSUME CreateInv, CreateCommandsStay, panel'.made = panel.made, panel'.gaveUp = panel.gaveUp,
         panel'.step = panel.step, panel'.created = panel.created,
         panel'.server = panel.server, panel'.reopened = panel.reopened
  PROVE  Create!CreatedNodeIsReal' /\ Create!FailedLeavesNoNode'
<1>1. Create!CreatedNodeIsReal'
  <2> SUFFICES ASSUME panel.created # None PROVE Create!CreatedNodeIsReal'
    BY DEF Create!CreatedNodeIsReal
  <2> DEFINE c == controller.commands[panel.made]
  <2>1. /\ panel.created \in controller.nodes /\ panel.made # 0
        /\ c = [place |-> panel.created, status |-> "succeeded"]
        /\ panel.server = panel.created.server \/ panel.reopened
    BY DEF CreateInv, Create!CreatedNodeIsReal
  <2>2. panel.made \in 1..MaxCommands
    BY <2>1, CreateMadeIs DEF CreateInv
  <2>3. panel.created \in Create!Place
    BY DEF CreateInv, Create!TypeOK, Create!Panel
  <2>4. c \in Create!Command
    BY <2>1, <2>3 DEF Create!Command
  <2>5. c # None /\ c.status # "running"
    BY <2>1, <2>4, CreateIs
  <2>6. controller'.commands[panel.made] = c
    BY <2>2, <2>5 DEF CreateCommandsStay
  <2> QED
    BY <2>1, <2>6 DEF CreateCommandsStay, Create!CreatedNodeIsReal
<1>2. Create!FailedLeavesNoNode'
  <2> SUFFICES ASSUME panel.step = "failed", panel.made # 0, panel.made \notin panel.gaveUp
               PROVE  controller'.commands[panel.made].status = "failed"
    BY DEF Create!FailedLeavesNoNode
  <2>1. controller.commands[panel.made].status = "failed"
    BY DEF CreateInv, Create!FailedLeavesNoNode
  <2>2. panel.made \in 1..MaxCommands
    BY CreateMadeIs DEF CreateInv
  <2>3. controller.commands[panel.made] # None
    BY DEF CreateInv, CreateFlowInv
  <2> QED
    BY <2>1, <2>2, <2>3 DEF CreateCommandsStay
<1> QED
  BY <1>1, <1>2

\* What the flow relies on stays, when it goes on as it was.
LEMMA CreateFlowStays ==
  ASSUME CreateInv, CreateCommandsStay, call'.at = call.at, call'.place = call.place,
         panel'.submitting = panel.submitting, panel'.made = panel.made,
         panel.ticked \subseteq panel'.ticked, panel'.created \in {panel.created, None},
         call.at \in CreateEarly => CreateRoom',
         call.at # "none" /\ ~panel'.reopened => panel'.server = call.place.server
  PROVE  CreateFlowInv'
<1>1. panel.made # 0 => panel.made \in 1..MaxCommands
  BY CreateMadeIs DEF CreateInv
<1>2. panel.made # 0 => controller'.commands[panel.made] # None
  BY <1>1 DEF CreateInv, CreateFlowInv, CreateCommandsStay
<1>3. call.at \in CreateLate => /\ panel.made # 0
                                /\ controller'.commands[panel.made].place = call.place
  BY <1>1 DEF CreateInv, CreateFlowInv, CreateCommandsStay
<1>4. call.at = "refresh" => controller'.commands[panel.made].status = "succeeded"
  BY <1>1 DEF CreateInv, CreateFlowInv, CreateCommandsStay, CreateLate
<1> QED
  BY <1>2, <1>3, <1>4 DEF CreateInv, CreateFlowInv

LEMMA CreateCommandEndsKeeps ==
  ASSUME CreateInv, NEW i \in 1..MaxCommands, Create!CommandEnds(i) PROVE CreateInv'
<1> DEFINE command == controller.commands[i]
<1>1. /\ command # None /\ command.status = "running" /\ UNCHANGED <<panel, call>>
      /\ controller.commands \in [1..MaxCommands -> Create!Command \cup {None}]
      /\ controller.nodes \in SUBSET Create!Place /\ controller \in Create!Controller
  BY DEF Create!CommandEnds, CreateInv, Create!TypeOK, Create!Controller
<1>2. command \in Create!Command
  BY <1>1
<1>3. PICK status \in {"succeeded", "failed"}, nodes \in {controller.nodes,
                                                          controller.nodes \cup {command.place}} :
        controller' = [controller EXCEPT !.commands[i].status = status, !.nodes = nodes]
  <2>1. CASE controller' = [controller EXCEPT !.commands[i].status = "failed"]
    <3>1. controller' = [controller EXCEPT !.commands[i].status = "failed",
                                           !.nodes = controller.nodes]
      BY <1>1, <2>1 DEF Create!Controller
    <3> QED
      BY <3>1
  <2>2. CASE controller' = [controller EXCEPT !.commands[i].status = "succeeded",
                                              !.nodes = @ \cup {command.place}]
    BY <1>1, <2>2 DEF Create!Controller
  <2> QED
    BY <2>1, <2>2 DEF Create!CommandEnds
<1> DEFINE new == [command EXCEPT !.status = status]
<1>4. new \in Create!Command /\ new.place = command.place /\ new.status = status
  BY <1>2 DEF Create!Command
<1>5. /\ controller' \in Create!Controller /\ controller'.nodes = nodes
      /\ controller'.commands = [controller.commands EXCEPT ![i] = new]
  <2>1. nodes \in SUBSET Create!Place
    BY <1>1, <1>2 DEF Create!Command
  <2> QED
    BY <1>1, <1>3, <1>4, <2>1 DEF Create!Controller
<1>6. new # None
  BY <1>4, CreateIs
<1> HIDE DEF new
<1>7. /\ controller'.commands[i] = new
      /\ \A k \in 1..MaxCommands : k # i => controller'.commands[k] = controller.commands[k]
  BY <1>1, <1>5
<1>8. \A k \in 1..MaxCommands : controller'.commands[k] # None <=> controller.commands[k] # None
  BY <1>1, <1>6, <1>7
<1>9. CreateNumbered'
  BY <1>8 DEF CreateInv, CreateNumbered
<1>10. CreateCommandsStay
  BY <1>1, <1>3, <1>4, <1>5, <1>6, <1>7, <1>9 DEF CreateCommandsStay
<1>11. CreateRoom => CreateRoom'
  BY <1>8 DEF CreateRoom
<1>12. CreateFlowInv'
  BY <1>1, <1>10, <1>11, CreateFlowStays DEF CreateInv, CreateFlowInv
<1>13. CreateFollowedInv'
  BY <1>1, <1>4, <1>7 DEF CreateInv, CreateFollowedInv
<1>14. Create!CreatedPlaceWasConfirmed'
  BY <1>1, <1>4, <1>7 DEF CreateInv, Create!CreatedPlaceWasConfirmed
<1>15. Create!CreatedNodeIsReal' /\ Create!FailedLeavesNoNode'
  BY <1>1, <1>10, CreateOutcomeStays
<1> QED
  BY <1>1, <1>5, <1>9, <1>12, <1>13, <1>14, <1>15 DEF CreateInv, Create!TypeOK, CreateFormInv

-----------------------------------------------------------------------------
(* The operator. *)

\* A step that leaves the commands alone and gives none up.
LEMMA CreateCommandsAsBefore ==
  ASSUME CreateInv, controller' = controller, call'.at = call.at, panel'.made = panel.made,
         panel'.gaveUp = panel.gaveUp, panel.ticked \subseteq panel'.ticked
  PROVE  CreateNumbered' /\ CreateFollowedInv' /\ Create!CreatedPlaceWasConfirmed' /\ (CreateRoom => CreateRoom')
BY DEF CreateInv, CreateNumbered, CreateFollowedInv, Create!CreatedPlaceWasConfirmed, CreateRoom

LEMMA CreateOpenNodePlanKeeps ==
  ASSUME CreateInv, NEW s \in Host, Create!OpenNodePlan(s) PROVE CreateInv'
<1>1. PICK port \in Port :
        panel' = [panel EXCEPT !.server = s, !.port = port, !.confirmed = FALSE,
                               !.step = "idle", !.created = None]
  BY DEF Create!OpenNodePlan
<1>2. panel.server = None /\ call' = call /\ controller' = controller
  BY DEF Create!OpenNodePlan
<1>3. /\ panel' \in Create!Panel /\ panel'.submitting = panel.submitting
      /\ panel'.reopened = panel.reopened /\ panel'.made = panel.made
      /\ panel'.gaveUp = panel.gaveUp /\ panel'.ticked = panel.ticked
      /\ panel'.created = None /\ panel'.step = "idle" /\ ~panel'.confirmed
  BY <1>1 DEF CreateInv, Create!TypeOK, Create!Panel, Create!Step
<1>4. call.at # "none" => panel.reopened
  <2>1. call.at # "none" => call.place \in Create!Place
    BY DEF CreateInv, CreateFlowInv, Create!TypeOK, Create!Panel
  <2>2. call.at # "none" => call.place.server \in Host
    BY <2>1 DEF Create!Place
  <2> QED
    BY <1>2, <2>2, CreateIs DEF CreateInv, CreateFlowInv
<1>5. CreateNumbered' /\ CreateFollowedInv' /\ Create!CreatedPlaceWasConfirmed' /\ (CreateRoom => CreateRoom')
  BY <1>2, <1>3, CreateCommandsAsBefore
<1>6. CreateFlowInv'
  BY <1>2, <1>3, <1>4, <1>5, CreateFlowStays, CreateUnchangedCommands DEF CreateInv, CreateFlowInv
<1>7. CreateFormInv' /\ Create!CreatedNodeIsReal' /\ Create!FailedLeavesNoNode'
  BY <1>3 DEF CreateFormInv, Create!CreatedNodeIsReal, Create!FailedLeavesNoNode
<1> QED
  BY <1>2, <1>3, <1>5, <1>6, <1>7 DEF CreateInv, Create!TypeOK

LEMMA CreateCloseModalKeeps == ASSUME CreateInv, Create!CloseModal PROVE CreateInv'
<1>1. panel' = [panel EXCEPT !.server = None, !.step = "idle", !.created = None,
                             !.confirmed = FALSE, !.reopened = panel.submitting]
  BY DEF Create!CloseModal
<1>2. call' = call /\ controller' = controller
  BY DEF Create!CloseModal
<1>3. /\ panel' \in Create!Panel /\ panel'.submitting = panel.submitting
      /\ panel'.reopened = panel.submitting /\ panel'.made = panel.made
      /\ panel'.gaveUp = panel.gaveUp /\ panel'.ticked = panel.ticked
      /\ panel'.created = None /\ panel'.step = "idle" /\ ~panel'.confirmed
  BY <1>1 DEF CreateInv, Create!TypeOK, Create!Panel, Create!Step
<1>4. call.at # "none" => panel'.reopened
  BY <1>3 DEF CreateInv, CreateFlowInv
<1>5. CreateNumbered' /\ CreateFollowedInv' /\ Create!CreatedPlaceWasConfirmed' /\ (CreateRoom => CreateRoom')
  BY <1>2, <1>3, CreateCommandsAsBefore
<1>6. CreateFlowInv'
  BY <1>2, <1>3, <1>4, <1>5, CreateFlowStays, CreateUnchangedCommands DEF CreateInv, CreateFlowInv
<1>7. CreateFormInv' /\ Create!CreatedNodeIsReal' /\ Create!FailedLeavesNoNode'
  BY <1>3 DEF CreateFormInv, Create!CreatedNodeIsReal, Create!FailedLeavesNoNode
<1> QED
  BY <1>2, <1>3, <1>5, <1>6, <1>7 DEF CreateInv, Create!TypeOK

LEMMA CreateUpdateNodeListenPortKeeps ==
  ASSUME CreateInv, NEW port \in Port, Create!UpdateNodeListenPort(port) PROVE CreateInv'
<1>1. panel' = [panel EXCEPT !.port = port, !.confirmed = FALSE]
  BY DEF Create!UpdateNodeListenPort
<1>2. call' = call /\ controller' = controller
  BY DEF Create!UpdateNodeListenPort
<1>3. /\ panel' \in Create!Panel /\ panel'.submitting = panel.submitting
      /\ panel'.reopened = panel.reopened /\ panel'.made = panel.made
      /\ panel'.gaveUp = panel.gaveUp /\ panel'.ticked = panel.ticked
      /\ panel'.created = panel.created /\ panel'.step = panel.step /\ ~panel'.confirmed
      /\ panel'.server = panel.server
  BY <1>1 DEF CreateInv, Create!TypeOK, Create!Panel
<1>5. CreateNumbered' /\ CreateFollowedInv' /\ Create!CreatedPlaceWasConfirmed' /\ (CreateRoom => CreateRoom')
  BY <1>2, <1>3, CreateCommandsAsBefore
<1>6. CreateFlowInv'
  BY <1>2, <1>3, <1>5, CreateFlowStays, CreateUnchangedCommands DEF CreateInv, CreateFlowInv
<1>7. Create!CreatedNodeIsReal' /\ Create!FailedLeavesNoNode'
  BY <1>2, <1>3, CreateOutcomeStays, CreateUnchangedCommands
<1> QED
  BY <1>2, <1>3, <1>5, <1>6, <1>7 DEF CreateInv, Create!TypeOK, CreateFormInv

LEMMA CreateConfirmKeeps == ASSUME CreateInv, Create!Confirm PROVE CreateInv'
<1> DEFINE form == [server |-> panel.server, port |-> panel.port]
           ticked == panel.ticked \cup {form}
<1>1. panel' = [panel EXCEPT !.confirmed = TRUE, !.ticked = ticked]
  BY DEF Create!Confirm, CreateInv, Create!TypeOK, Create!Panel
<1>2. call' = call /\ controller' = controller /\ panel.server # None
  BY DEF Create!Confirm, Create!FormShown
<1>3. form \in Create!Place
  BY <1>2 DEF CreateInv, Create!TypeOK, Create!Panel, Create!Place
<1>4. ticked \in SUBSET Create!Place /\ panel.ticked \subseteq ticked /\ form \in ticked
  BY <1>3 DEF CreateInv, Create!TypeOK, Create!Panel
<1> HIDE DEF ticked
<1>5. /\ panel' \in Create!Panel /\ panel'.submitting = panel.submitting
      /\ panel'.reopened = panel.reopened /\ panel'.made = panel.made
      /\ panel'.gaveUp = panel.gaveUp /\ panel'.ticked = ticked
      /\ panel'.created = panel.created /\ panel'.step = panel.step
      /\ panel'.server = panel.server /\ panel'.port = panel.port
  BY <1>1, <1>4 DEF CreateInv, Create!TypeOK, Create!Panel
<1>6. CreateNumbered' /\ CreateFollowedInv' /\ Create!CreatedPlaceWasConfirmed' /\ (CreateRoom => CreateRoom')
  BY <1>2, <1>4, <1>5, CreateCommandsAsBefore
<1>7. CreateFlowInv'
  BY <1>2, <1>4, <1>5, <1>6, CreateFlowStays, CreateUnchangedCommands DEF CreateInv, CreateFlowInv
<1>8. Create!CreatedNodeIsReal' /\ Create!FailedLeavesNoNode'
  BY <1>2, <1>5, CreateOutcomeStays, CreateUnchangedCommands
<1>9. CreateFormInv'
  BY <1>4, <1>5 DEF CreateFormInv
<1> QED
  BY <1>2, <1>5, <1>6, <1>7, <1>8, <1>9 DEF CreateInv, Create!TypeOK

LEMMA CreateSubmitKeeps == ASSUME CreateInv, Create!Submit PROVE CreateInv'
<1> DEFINE form == [server |-> panel.server, port |-> panel.port]
<1>1. /\ panel.server # None /\ panel.confirmed /\ ~panel.submitting /\ Create!Last < MaxCommands
      /\ call' = [at |-> "preflight_create", n |-> 0, place |-> form]
      /\ controller' = controller
  BY DEF Create!Submit, Create!CreateOffered
<1>2. form \in panel.ticked /\ form \in Create!Place
  BY <1>1 DEF CreateInv, CreateFormInv, Create!TypeOK, Create!Panel
<1>3. form.server = panel.server
  OBVIOUS
<1> HIDE DEF form
<1>4. call' \in Create!Flow /\ call'.at = "preflight_create" /\ call'.place = form
  BY <1>1, <1>2, CreateIs DEF Create!Flow, Create!Step
<1>5. panel' = [panel EXCEPT !.submitting = TRUE, !.created = None, !.reopened = FALSE,
                             !.step = "preflight_create", !.made = 0]
  BY DEF Create!Submit
<1>6. 0 \in 0..MaxCommands
  BY CreateIs
<1>7. /\ panel' \in Create!Panel /\ panel'.submitting /\ ~panel'.reopened
      /\ panel'.made = 0 /\ panel'.gaveUp = panel.gaveUp /\ panel'.ticked = panel.ticked
      /\ panel'.created = None /\ panel'.step = "preflight_create"
      /\ panel'.server = panel.server /\ panel'.port = panel.port
  BY <1>5, <1>6 DEF CreateInv, Create!TypeOK, Create!Panel, Create!Step
<1>8. CreateRoom'
  <2>1. /\ Create!Last \in 0..MaxCommands
        /\ \A i \in 1..MaxCommands : controller.commands[i] # None <=> i <= Create!Last
    BY CreateLastIs DEF CreateInv
  <2>2. Create!Last + 1 \in 1..MaxCommands
    BY <1>1, <2>1, CreateIs
  <2>3. controller.commands[Create!Last + 1] = None
    BY <2>1, <2>2, CreateIs
  <2> QED
    BY <1>1, <2>2, <2>3 DEF CreateRoom
<1>9. CreateFlowInv'
  BY <1>2, <1>3, <1>4, <1>7, <1>8 DEF CreateFlowInv, CreateEarly, CreateLate
<1>10. CreateFormInv'
  BY <1>2, <1>7 DEF CreateFormInv, form
<1>11. CreateFollowedInv'
  BY <1>1, <1>7 DEF CreateInv, CreateFlowInv, CreateFollowedInv
<1>12. CreateNumbered' /\ Create!CreatedPlaceWasConfirmed'
  BY <1>1, <1>7 DEF CreateInv, CreateNumbered, Create!CreatedPlaceWasConfirmed
<1>13. Create!CreatedNodeIsReal' /\ Create!FailedLeavesNoNode'
  BY <1>7 DEF Create!CreatedNodeIsReal, Create!FailedLeavesNoNode
<1> QED
  BY <1>1, <1>4, <1>7, <1>9, <1>10, <1>11, <1>12, <1>13 DEF CreateInv, Create!TypeOK

-----------------------------------------------------------------------------
(* The flow. *)

\* Nothing but step and flow changes: what was made and ticked is as before.
LEMMA CreateGoesToKeeps ==
  ASSUME CreateInv, controller' = controller, NEW at, Create!GoesTo(at),
         \/ call.at \in CreateEarly /\ at \in CreateEarly
         \/ /\ call.at = "command_running" /\ at = "refresh"
            /\ controller.commands[panel.made].status = "succeeded"
  PROVE  CreateInv'
<1>1. at \in CreateEarly \cup CreateLate /\ call.at \in CreateEarly \cup CreateLate
  BY DEF CreateEarly, CreateLate
<1>2. /\ panel' = [panel EXCEPT !.step = at] /\ call' = [call EXCEPT !.at = at, !.n = 0]
  BY DEF Create!GoesTo
<1>3. at \in Create!Step /\ 0 \in 0..MaxCreationPolls
  BY <1>1, CreateIs DEF CreateEarly, CreateLate, Create!Step
<1>4. call' \in Create!Flow /\ call'.at = at /\ call'.place = call.place
  BY <1>2, <1>3 DEF CreateInv, Create!TypeOK, Create!Flow
<1>5. /\ panel' \in Create!Panel /\ panel'.submitting = panel.submitting
      /\ panel'.reopened = panel.reopened /\ panel'.made = panel.made
      /\ panel'.gaveUp = panel.gaveUp /\ panel'.ticked = panel.ticked
      /\ panel'.created = panel.created /\ panel'.step = at
      /\ panel'.confirmed = panel.confirmed
      /\ panel'.server = panel.server /\ panel'.port = panel.port
  BY <1>2, <1>3 DEF CreateInv, Create!TypeOK, Create!Panel
<1>6. call.at # "none" /\ at # "none" /\ at # "failed"
  BY <1>1 DEF CreateEarly, CreateLate
<1>7. CreateFlowInv'
  <2>1. at \in CreateEarly => panel.made = 0 /\ CreateRoom
    BY DEF CreateInv, CreateFlowInv, CreateEarly
  <2>2. at \in CreateLate => panel.made # 0 /\ controller.commands[panel.made].place = call.place
    BY DEF CreateInv, CreateFlowInv, CreateEarly, CreateLate
  <2>3. at = "refresh" => controller.commands[panel.made].status = "succeeded"
    BY DEF CreateEarly
  <2> QED
    BY <1>1, <1>4, <1>5, <1>6, <2>1, <2>2, <2>3 DEF CreateInv, CreateFlowInv, CreateRoom
<1>8. CreateFollowedInv'
  BY <1>4, <1>5 DEF CreateInv, CreateFollowedInv, CreateEarly
<1>9. CreateNumbered' /\ Create!CreatedPlaceWasConfirmed' /\ CreateFormInv'
  BY <1>5 DEF CreateInv, CreateNumbered, Create!CreatedPlaceWasConfirmed, CreateFormInv
<1>10. Create!CreatedNodeIsReal' /\ Create!FailedLeavesNoNode'
  BY <1>5, <1>6 DEF CreateInv, CreateFlowInv, Create!CreatedNodeIsReal, Create!FailedLeavesNoNode
<1> QED
  BY <1>4, <1>5, <1>7, <1>8, <1>9, <1>10 DEF CreateInv, Create!TypeOK

LEMMA CreatePollsOnKeeps ==
  ASSUME CreateInv, UNCHANGED <<panel, controller>>, call.n + 1 < MaxCreationPolls,
         call' = [call EXCEPT !.n = @ + 1]
  PROVE  CreateInv'
<1>1. call.n \in 0..MaxCreationPolls
  BY DEF CreateInv, Create!TypeOK, Create!Flow
<1>2. call.n + 1 \in 0..MaxCreationPolls
  BY <1>1, CreateIs
<1>3. call' = [call EXCEPT !.n = call.n + 1]
  BY DEF CreateInv, Create!TypeOK, Create!Flow
<1>4. call' \in Create!Flow /\ call'.at = call.at /\ call'.place = call.place
  BY <1>2, <1>3 DEF CreateInv, Create!TypeOK, Create!Flow
<1>5. CreateNumbered' /\ CreateFollowedInv' /\ Create!CreatedPlaceWasConfirmed' /\ (CreateRoom => CreateRoom')
  BY <1>4, CreateCommandsAsBefore
<1>6. CreateFlowInv'
  BY <1>4, <1>5, CreateFlowStays, CreateUnchangedCommands DEF CreateInv, CreateFlowInv
<1>7. Create!CreatedNodeIsReal' /\ Create!FailedLeavesNoNode'
  BY CreateOutcomeStays, CreateUnchangedCommands
<1> QED
  BY <1>4, <1>5, <1>6, <1>7 DEF CreateInv, Create!TypeOK, CreateFormInv

LEMMA CreateNoFlowIs == Create!NoFlow \in Create!Flow /\ Create!NoFlow.at = "none"
BY CreateIs DEF Create!NoFlow, Create!Flow

\* A flow is over: with its command failed, done, or given up.
LEMMA CreateOverKeeps ==
  ASSUME CreateInv, call.at # "none", CreateCommandsStay, call' = Create!NoFlow,
         panel' \in Create!Panel,
         ~panel'.submitting, panel'.confirmed = panel.confirmed,
         panel'.server = panel.server, panel'.port = panel.port,
         panel'.ticked = panel.ticked, panel.gaveUp \subseteq panel'.gaveUp,
         panel'.made # 0 => controller'.commands[panel'.made] # None,
         panel'.created # None => Create!CreatedNodeIsReal', Create!FailedLeavesNoNode',
         Create!CreatedPlaceWasConfirmed',
         \A i \in 1..MaxCommands :
            /\ controller'.commands[i] # None
            /\ controller'.commands[i].status = "running"
            /\ i \notin panel'.gaveUp
            => /\ controller.commands[i] # None
               /\ controller.commands[i].status = "running"
               /\ ~(call.at = "command_running" /\ panel.made = i)
  PROVE  CreateInv'
<1>1. call' \in Create!Flow /\ call'.at = "none"
  BY CreateNoFlowIs
<1>2. CreateFlowInv'
  BY <1>1 DEF CreateFlowInv, CreateEarly, CreateLate
<1>3. CreateFollowedInv'
  BY DEF CreateInv, CreateFollowedInv
<1>4. CreateFormInv'
  BY DEF CreateInv, CreateFormInv
<1>5. Create!CreatedNodeIsReal'
  BY DEF Create!CreatedNodeIsReal
<1> QED
  BY <1>1, <1>2, <1>3, <1>4, <1>5 DEF CreateInv, Create!TypeOK, CreateCommandsStay

LEMMA CreateFailsKeeps ==
  ASSUME CreateInv, call.at # "none", controller' = controller, Create!Fails,
         \/ call.at \in CreateEarly
         \/ call.at = "command_running" /\ controller.commands[panel.made].status = "failed"
  PROVE  CreateInv'
<1>1. panel' = [panel EXCEPT !.step = "failed", !.submitting = FALSE] /\ call' = Create!NoFlow
  BY DEF Create!Fails
<1>2. /\ panel' \in Create!Panel /\ ~panel'.submitting /\ panel'.made = panel.made
      /\ panel'.gaveUp = panel.gaveUp /\ panel'.ticked = panel.ticked
      /\ panel'.created = panel.created /\ panel'.confirmed = panel.confirmed
      /\ panel'.server = panel.server /\ panel'.port = panel.port
  BY <1>1 DEF CreateInv, Create!TypeOK, Create!Panel, Create!Step
<1>3. CreateCommandsStay
  BY CreateUnchangedCommands
<1>4. panel'.created = None
  BY <1>2 DEF CreateInv, CreateFlowInv
<1>5. Create!CreatedPlaceWasConfirmed'
  BY <1>2 DEF CreateInv, Create!CreatedPlaceWasConfirmed
<1>6. Create!FailedLeavesNoNode'
  BY <1>2 DEF CreateInv, CreateFlowInv, Create!FailedLeavesNoNode
<1>7. panel'.made # 0 => controller'.commands[panel'.made] # None
  BY <1>2 DEF CreateInv, CreateFlowInv
<1>8. \A i \in 1..MaxCommands :
        controller.commands[i].status = "running"
          => ~(call.at = "command_running" /\ panel.made = i)
  BY DEF CreateEarly
<1> QED
  BY <1>1, <1>2, <1>3, <1>4, <1>5, <1>6, <1>7, <1>8, CreateOverKeeps

LEMMA CreateGivesUpKeeps ==
  ASSUME CreateInv, call.at # "none", NEW i \in 1..MaxCommands, Create!GivesUp(i),
         CreateCommandsStay,
         controller'.commands[i] # None, Create!CreatedPlaceWasConfirmed',
         call.at = "command_running" => panel.made = i,
         \A k \in 1..MaxCommands : k = i \/ controller'.commands[k] = controller.commands[k]
  PROVE  CreateInv'
<1> DEFINE gaveUp == panel.gaveUp \cup {i}
<1>1. /\ panel' = [panel EXCEPT !.step = "failed", !.submitting = FALSE, !.made = i,
                                !.gaveUp = gaveUp]
      /\ call' = Create!NoFlow
  BY DEF Create!GivesUp, CreateInv, Create!TypeOK, Create!Panel
<1>2. gaveUp \in SUBSET (1..MaxCommands) /\ i \in gaveUp /\ panel.gaveUp \subseteq gaveUp
  BY DEF CreateInv, Create!TypeOK, Create!Panel
<1>3. i \in 0..MaxCommands
  BY CreateIs
<1> HIDE DEF gaveUp
<1>4. /\ panel' \in Create!Panel /\ ~panel'.submitting /\ panel'.made = i
      /\ panel'.gaveUp = gaveUp /\ panel'.ticked = panel.ticked
      /\ panel'.created = panel.created /\ panel'.confirmed = panel.confirmed
      /\ panel'.server = panel.server /\ panel'.port = panel.port
  BY <1>1, <1>2, <1>3 DEF CreateInv, Create!TypeOK, Create!Panel, Create!Step
<1>5. panel'.created = None
  BY <1>4 DEF CreateInv, CreateFlowInv
<1>6. Create!FailedLeavesNoNode'
  BY <1>2, <1>4 DEF Create!FailedLeavesNoNode
<1>7. \A k \in 1..MaxCommands :
            /\ controller'.commands[k] # None
            /\ controller'.commands[k].status = "running"
            /\ k \notin panel'.gaveUp
            => /\ controller.commands[k] # None
               /\ controller.commands[k].status = "running"
               /\ ~(call.at = "command_running" /\ panel.made = k)
  BY <1>2, <1>4
<1> QED
  BY <1>1, <1>2, <1>4, <1>5, <1>6, <1>7, CreateOverKeeps

LEMMA CreateEarlyStepsKeep ==
  ASSUME CreateInv,
         Create!PreflightCreated \/ Create!PreflightPolled \/ Create!PlanAnswered PROVE CreateInv'
<1>1. call.at \in {"preflight_create", "preflight_running", "plan"} /\ controller' = controller
  BY DEF Create!PreflightCreated, Create!PreflightPolled, Create!PlanAnswered
<1>2. call.at \in CreateEarly /\ call.at # "none"
  BY <1>1 DEF CreateEarly
<1>3. \/ \E at \in CreateEarly : Create!GoesTo(at)
      \/ Create!Fails
      \/ UNCHANGED panel /\ call.n + 1 < MaxCreationPolls /\ call' = [call EXCEPT !.n = @ + 1]
  BY DEF Create!PreflightCreated, Create!PreflightPolled, Create!PlanAnswered, CreateEarly
<1>4. CASE \E at \in CreateEarly : Create!GoesTo(at)
  BY <1>1, <1>2, <1>4, CreateGoesToKeeps
<1>5. CASE Create!Fails
  BY <1>1, <1>2, <1>5, CreateFailsKeeps
<1>6. CASE UNCHANGED panel /\ call.n + 1 < MaxCreationPolls /\ call' = [call EXCEPT !.n = @ + 1]
  BY <1>1, <1>6, CreatePollsOnKeeps
<1> QED
  BY <1>3, <1>4, <1>5, <1>6

LEMMA CreateCommandPolledKeeps == ASSUME CreateInv, Create!CommandPolled PROVE CreateInv'
<1>1. call.at = "command_running" /\ controller' = controller /\ panel.made # 0
  BY DEF Create!CommandPolled, CreateInv, CreateFlowInv, CreateLate
<1>2. \/ controller.commands[panel.made].status = "succeeded" /\ Create!GoesTo("refresh")
      \/ controller.commands[panel.made].status = "failed" /\ Create!Fails
      \/ UNCHANGED panel /\ call.n + 1 < MaxCreationPolls /\ call' = [call EXCEPT !.n = @ + 1]
      \/ Create!GivesUp(panel.made)
  BY DEF Create!CommandPolled
<1>3. CASE controller.commands[panel.made].status = "succeeded" /\ Create!GoesTo("refresh")
  BY <1>1, <1>3, CreateGoesToKeeps
<1>4. CASE controller.commands[panel.made].status = "failed" /\ Create!Fails
  BY <1>1, <1>4, CreateFailsKeeps
<1>5. CASE UNCHANGED panel /\ call.n + 1 < MaxCreationPolls /\ call' = [call EXCEPT !.n = @ + 1]
  BY <1>1, <1>5, CreatePollsOnKeeps
<1>6. CASE Create!GivesUp(panel.made)
  <2>1. panel.made \in 1..MaxCommands /\ controller.commands[panel.made] # None
    BY <1>1, CreateMadeIs DEF CreateInv, CreateFlowInv
  <2>2. Create!CreatedPlaceWasConfirmed'
    BY <1>1, <1>6 DEF CreateInv, Create!TypeOK, Create!Panel, Create!CreatedPlaceWasConfirmed,
       Create!GivesUp
  <2> QED
    BY <1>1, <1>6, <2>1, <2>2, CreateGivesUpKeeps, CreateUnchangedCommands
<1> QED
  BY <1>2, <1>3, <1>4, <1>5, <1>6

LEMMA CreateListRefreshedKeeps == ASSUME CreateInv, Create!ListRefreshed PROVE CreateInv'
<1>1. /\ call.at = "refresh" /\ controller' = controller /\ panel.made # 0
      /\ controller.commands[panel.made] # None
      /\ controller.commands[panel.made].place = call.place
      /\ controller.commands[panel.made].status = "succeeded"
  BY DEF Create!ListRefreshed, CreateInv, CreateFlowInv, CreateLate
<1>2. panel.made \in 1..MaxCommands
  BY <1>1, CreateMadeIs DEF CreateInv
<1>3. CreateCommandsStay
  BY <1>1, CreateUnchangedCommands
<1>4. CASE Create!GivesUp(panel.made)
  <2>1. Create!CreatedPlaceWasConfirmed'
    BY <1>1, <1>4 DEF CreateInv, Create!TypeOK, Create!Panel, Create!CreatedPlaceWasConfirmed,
       Create!GivesUp
  <2> QED
    BY <1>1, <1>2, <1>3, <1>4, <2>1, CreateGivesUpKeeps
<1>5. CASE \E listed \in {controller.nodes, {}} :
          /\ call' = Create!NoFlow
          /\ panel' = [panel EXCEPT !.submitting = FALSE, !.step = "complete",
                         !.created = IF call.place \in listed THEN call.place ELSE None]
  <2>1. PICK created \in {call.place, None} :
          /\ created # None => created \in controller.nodes
          /\ call' = Create!NoFlow
          /\ panel' = [panel EXCEPT !.submitting = FALSE, !.step = "complete",
                                    !.created = created]
    BY <1>5
  <2>2. created \in Create!Place \cup {None}
    BY <1>1, <2>1 DEF CreateInv, CreateFlowInv, Create!TypeOK, Create!Panel
  <2>3. /\ panel' \in Create!Panel /\ ~panel'.submitting /\ panel'.made = panel.made
        /\ panel'.gaveUp = panel.gaveUp /\ panel'.ticked = panel.ticked
        /\ panel'.created = created /\ panel'.confirmed = panel.confirmed
        /\ panel'.server = panel.server /\ panel'.port = panel.port
        /\ panel'.step = "complete" /\ panel'.reopened = panel.reopened
    BY <2>1, <2>2 DEF CreateInv, Create!TypeOK, Create!Panel, Create!Step
  <2>4. Create!CreatedNodeIsReal'
    <3> SUFFICES ASSUME created # None PROVE Create!CreatedNodeIsReal'
      BY <2>3 DEF Create!CreatedNodeIsReal
    <3>1. created = call.place
      BY <2>1
    <3>2. panel.server = created.server \/ panel.reopened
      BY <1>1, <3>1 DEF CreateInv, CreateFlowInv
    <3>3. controller.commands[panel.made] \in Create!Command
      BY <1>1, <1>2 DEF CreateInv, Create!TypeOK, Create!Controller
    <3>4. controller.commands[panel.made] = [place |-> created, status |-> "succeeded"]
      BY <1>1, <3>1, <3>3 DEF Create!Command
    <3> QED
      BY <1>1, <2>1, <2>3, <3>2, <3>4 DEF Create!CreatedNodeIsReal
  <2>5. Create!FailedLeavesNoNode' /\ Create!CreatedPlaceWasConfirmed'
    BY <1>1, <2>3 DEF CreateInv, Create!FailedLeavesNoNode, Create!CreatedPlaceWasConfirmed
  <2> QED
    BY <1>1, <1>3, <2>1, <2>3, <2>4, <2>5, CreateOverKeeps
<1> QED
  BY <1>4, <1>5 DEF Create!ListRefreshed

LEMMA CreateCommandCreatedKeeps == ASSUME CreateInv, Create!CommandCreated PROVE CreateInv'
<1> DEFINE i == Create!Last + 1
           new == [place |-> call.place, status |-> "running"]
<1>1. call.at = "command_create" /\ call.at \in CreateEarly /\ call.at # "none"
  BY DEF Create!CommandCreated, CreateEarly
<1>2. call.place \in panel.ticked /\ call.place \in Create!Place /\ CreateRoom /\ panel.created = None
  BY <1>1 DEF CreateInv, CreateFlowInv, Create!TypeOK, Create!Panel
<1>3. /\ Create!Last \in 0..MaxCommands
      /\ \A k \in 1..MaxCommands : controller.commands[k] # None <=> k <= Create!Last
  BY CreateLastIs DEF CreateInv
<1>4. i \in 1..MaxCommands /\ controller.commands[i] = None
  BY <1>2, <1>3, CreateIs DEF CreateRoom
<1>5. new \in Create!Command /\ new.place = call.place /\ new.status = "running"
  BY <1>2 DEF Create!Command
<1>6. new # None
  BY <1>5, CreateIs
<1>7. CASE Create!Fails /\ UNCHANGED controller
  BY <1>1, <1>7, CreateFailsKeeps
<1>8. CASE /\ controller' = [controller EXCEPT !.commands[Create!Last + 1] =
                               [place |-> call.place, status |-> "running"]]
           /\ \/ /\ call' = [call EXCEPT !.at = "command_running"]
                 /\ panel' = [panel EXCEPT !.step = "command_running", !.made = Create!Last + 1]
              \/ Create!GivesUp(Create!Last + 1)
  <2>1. controller' = [controller EXCEPT !.commands[i] = new]
    BY <1>8
  <2>2. \A k \in 1..MaxCommands : k <= i <=> k <= Create!Last \/ k = i
    BY <1>3
  <2>3. i # 0 /\ i \in 0..MaxCommands
    BY <1>3, <1>4, CreateIs
  <2> HIDE DEF new, i
  <2>4. /\ controller' \in Create!Controller /\ controller'.nodes = controller.nodes
        /\ controller'.commands[i] = new
        /\ \A k \in 1..MaxCommands : k # i => controller'.commands[k] = controller.commands[k]
    BY <1>4, <1>5, <2>1 DEF CreateInv, Create!TypeOK, Create!Controller
  <2>5. CreateNumbered'
    <3>1. \A k \in 1..MaxCommands : controller'.commands[k] # None <=> k <= i
      BY <1>3, <1>6, <2>2, <2>4
    <3> QED
      BY <2>3, <3>1 DEF CreateNumbered
  <2>6. CreateCommandsStay
    BY <1>4, <2>4, <2>5 DEF CreateCommandsStay
  <2>7. panel'.ticked = panel.ticked => Create!CreatedPlaceWasConfirmed'
    BY <1>2, <1>5, <2>4 DEF CreateInv, Create!CreatedPlaceWasConfirmed
  <2>8. CASE Create!GivesUp(i)
    <3>1. panel'.ticked = panel.ticked
      BY <2>8 DEF Create!GivesUp, CreateInv, Create!TypeOK, Create!Panel
    <3> QED
      BY <1>1, <1>4, <1>6, <2>4, <2>6, <2>7, <2>8, <3>1, CreateGivesUpKeeps
  <2>9. CASE /\ call' = [call EXCEPT !.at = "command_running"]
             /\ panel' = [panel EXCEPT !.step = "command_running", !.made = i]
    <3>1. call' \in Create!Flow /\ call'.at = "command_running" /\ call'.place = call.place
      BY <2>9 DEF CreateInv, Create!TypeOK, Create!Flow, Create!Step
    <3>2. /\ panel' \in Create!Panel /\ panel'.submitting = panel.submitting /\ panel'.made = i
          /\ panel'.gaveUp = panel.gaveUp /\ panel'.ticked = panel.ticked
          /\ panel'.created = panel.created /\ panel'.confirmed = panel.confirmed
          /\ panel'.server = panel.server /\ panel'.port = panel.port
          /\ panel'.step = "command_running" /\ panel'.reopened = panel.reopened
      BY <2>3, <2>9 DEF CreateInv, Create!TypeOK, Create!Panel, Create!Step
    <3>3. CreateFlowInv'
      BY <1>1, <1>2, <1>5, <1>6, <2>3, <2>4, <3>1, <3>2
         DEF CreateInv, CreateFlowInv, CreateEarly, CreateLate
    <3>4. CreateFollowedInv'
      BY <1>1, <2>4, <3>1, <3>2 DEF CreateInv, CreateFollowedInv
    <3>5. Create!CreatedNodeIsReal' /\ Create!FailedLeavesNoNode' /\ CreateFormInv'
      BY <1>2, <3>2 DEF CreateInv, Create!CreatedNodeIsReal, Create!FailedLeavesNoNode,
         CreateFormInv
    <3> QED
      BY <2>4, <2>5, <2>7, <3>1, <3>2, <3>3, <3>4, <3>5 DEF CreateInv, Create!TypeOK
  <2> QED
    BY <1>8, <2>8, <2>9 DEF i
<1> QED
  BY <1>7, <1>8 DEF Create!CommandCreated

LEMMA CreateNext == ASSUME CreateInv, [Create!Next]_(Create!vars) PROVE CreateInv'
<1>1. CASE UNCHANGED Create!vars
  <2>1. CreateNumbered' /\ CreateFollowedInv' /\ Create!CreatedPlaceWasConfirmed' /\ (CreateRoom => CreateRoom')
    BY <1>1, CreateCommandsAsBefore DEF Create!vars
  <2>2. CreateFlowInv'
    BY <1>1, <2>1, CreateFlowStays, CreateUnchangedCommands DEF CreateInv, CreateFlowInv,
       Create!vars
  <2>3. Create!CreatedNodeIsReal' /\ Create!FailedLeavesNoNode'
    BY <1>1, CreateOutcomeStays, CreateUnchangedCommands DEF Create!vars
  <2> QED
    BY <1>1, <2>1, <2>2, <2>3 DEF CreateInv, Create!TypeOK, CreateFormInv, Create!vars
<1>2. CASE \E s \in Host : Create!OpenNodePlan(s)
  BY <1>2, CreateOpenNodePlanKeeps
<1>3. CASE \E port \in Port : Create!UpdateNodeListenPort(port)
  BY <1>3, CreateUpdateNodeListenPortKeeps
<1>4. CASE Create!CloseModal \/ Create!Confirm \/ Create!Submit
  BY <1>4, CreateCloseModalKeeps, CreateConfirmKeeps, CreateSubmitKeeps
<1>5. CASE Create!FlowStep
  BY <1>5, CreateEarlyStepsKeep, CreateCommandCreatedKeeps, CreateCommandPolledKeeps,
     CreateListRefreshedKeeps
     DEF Create!FlowStep
<1>6. CASE \E i \in 1..MaxCommands : Create!CommandEnds(i)
  BY <1>6, CreateCommandEndsKeeps
<1> QED
  BY <1>1, <1>2, <1>3, <1>4, <1>5, <1>6 DEF Create!Next

LEMMA CreateHold ==
  ASSUME CreateInv
  PROVE  Create!CreatedPlaceWasConfirmed /\ Create!OneCreationAtATime /\ Create!CreatedNodeIsReal /\ Create!FailedLeavesNoNode
<1> DEFINE S == {i \in 1..MaxCommands \ panel.gaveUp :
                   controller.commands[i] # None /\ controller.commands[i].status = "running"}
<1>1. S \subseteq {panel.made}
  BY DEF CreateInv, CreateFollowedInv
<1>2. IsFiniteSet({panel.made}) /\ Cardinality({panel.made}) = 1
  BY FS_Singleton
<1>3. IsFiniteSet(S) /\ Cardinality(S) <= 1
  BY <1>1, <1>2, FS_Subset
<1>4. Create!OneCreationAtATime
  BY <1>3, CreateCardinality DEF Create!OneCreationAtATime
<1> QED
  BY <1>4 DEF CreateInv

-----------------------------------------------------------------------------
(* The panels of the servers: the three parts. *)

ServerPanelsInv ==
  /\ mode = "install" => InstallInv
  /\ mode = "bbr" => BbrInv
  /\ mode = "links" => LinksInv

LEMMA ServerPanelsInit == ServerInit => ServerPanelsInv
BY InstallInit, BbrInit, LinksInit DEF ServerInit, ServerPanelsInv

LEMMA ServerPanelsKeep ==
  ASSUME ServerPanelsInv, [ServerNext]_vars
  PROVE  /\ ServerPanelsInv'
         /\ mode = "links" => Links!FileIsOfItsNodeAction
<1>1. mode' = mode
  BY DEF ServerNext, vars
<1>2. CASE mode = "install"
  <2>1. [Install!Next]_(Install!vars)
    BY <1>2 DEF ServerNext, vars, Install!vars
  <2> QED
    BY <1>1, <1>2, <2>1, InstallNext DEF ServerPanelsInv
<1>3. CASE mode = "bbr"
  <2>1. [Bbr!Next]_(Bbr!vars)
    BY <1>3 DEF ServerNext, vars, Bbr!vars
  <2> QED
    BY <1>1, <1>3, <2>1, BbrNext DEF ServerPanelsInv
<1>4. CASE mode = "links"
  <2>1. [Links!Next]_(Links!vars)
    BY <1>4 DEF ServerNext, vars, Links!vars
  <2> QED
    BY <1>1, <1>4, <2>1, LinksNext, LinksFileHolds DEF ServerPanelsInv
<1>5. CASE mode \notin {"install", "bbr", "links"}
  BY <1>1, <1>5 DEF ServerPanelsInv
<1> QED
  BY <1>2, <1>3, <1>4, <1>5

LEMMA ServerPanelsRunInv == ServerSpec => []ServerPanelsInv
<1>1. ServerPanelsInv /\ [ServerNext]_vars => ServerPanelsInv'
  BY ServerPanelsKeep
<1> QED
  BY <1>1, ServerPanelsInit, PTL DEF ServerSpec

\* However the modals of servers are opened, closed and answered late, the polling
\* of an install command, its close timer and its token stay with the server in the
\* modal, an error of BBR with the server it was reported for, and a link, its QR
\* code and the file that is saved with the node opened last (what an answer that
\* overtook another excuses, the properties of the parts say).
THEOREM ServerAnswersKeepToTheirOwner == ServerSpec => Servers_AnswersKeepToTheirOwner
<1>1. ServerPanelsInv => /\ mode = "install" => /\ Install!ChainsAreCurrent
                                                /\ Install!CommandIsForItsServer
                                                /\ Install!AutoCloseSparesNewCommands
                         /\ mode = "bbr" => Bbr!ErrorIsOfItsServer
                         /\ mode = "links" => Links!LinkIsOfItsNode /\ Links!DetailIsTheLastAsked
  BY InstallHolds, BbrHolds, LinksHold DEF ServerPanelsInv
<1>2. ServerPanelsInv /\ [ServerNext]_vars => (mode = "links" => Links!FileIsOfItsNodeAction)
  BY ServerPanelsKeep
<1> QED
  BY <1>1, <1>2, ServerPanelsRunInv, PTL DEF ServerSpec, Servers_AnswersKeepToTheirOwner

\* A server that is being deleted stays hidden only under a watch or a request that
\* brings it back unless it is gone, and once it is deleted no list that was read
\* before shows it again.
THEOREM DeletedServersAreHidden == ServerSpec => []Install_DeletedIsHidden
<1>1. ServerPanelsInv => Install_DeletedIsHidden
  BY InstallHolds DEF ServerPanelsInv, Install_DeletedIsHidden
<1> QED
  BY <1>1, ServerPanelsRunInv, PTL

\* BBR is executed for real only on a server whose dry run succeeded, by one request
\* at a time, and the latest command on display is never an older one than before,
\* however late a list is answered.
THEOREM RealExecutionIsInTurn == ServerSpec => Bbr_RealExecutionIsInTurn
<1>1. ServerPanelsInv => (mode = "bbr" => Bbr!RealExecutionHadItsDryRun /\ Bbr!OneRealRequestPerServer)
  BY BbrHolds DEF ServerPanelsInv
<1>2. ServerPanelsInv => (mode = "bbr" => Bbr!LatestGoesForwardAction)
  BY BbrLatestHolds DEF ServerPanelsInv
<1> QED
  BY <1>1, <1>2, ServerPanelsRunInv, PTL DEF ServerSpec, Bbr_RealExecutionIsInTurn

-----------------------------------------------------------------------------
(* The product panels: the four parts. *)

ProductPanelsInv ==
  /\ mode = "lines" => LinesInv
  /\ mode = "tasks" => TasksInv
  /\ mode = "direct" => DirectInv
  /\ mode = "create" => CreateInv

LEMMA ProductPanelsInit == ProductInit => ProductPanelsInv
BY LinesInit, TasksInit, DirectInit, CreateInit DEF ProductInit, ProductPanelsInv

LEMMA ProductPanelsKeep ==
  ASSUME ProductPanelsInv, [ProductNext]_vars
  PROVE  /\ ProductPanelsInv'
         /\ mode = "tasks" => Tasks!ListGoesForwardAction
<1>1. mode' = mode
  BY DEF ProductNext, vars
<1>2. CASE mode = "lines"
  <2>1. [Lines!Next]_(Lines!vars)
    BY <1>2 DEF ProductNext, vars, Lines!vars
  <2> QED
    BY <1>1, <1>2, <2>1, LinesNext DEF ProductPanelsInv
<1>3. CASE mode = "tasks"
  <2>1. [Tasks!Next]_(Tasks!vars)
    BY <1>3 DEF ProductNext, vars, Tasks!vars
  <2> QED
    BY <1>1, <1>3, <2>1, TasksNext DEF ProductPanelsInv
<1>4. CASE mode = "direct"
  <2>1. [Direct!Next]_(Direct!vars)
    BY <1>4 DEF ProductNext, vars, Direct!vars
  <2> QED
    BY <1>1, <1>4, <2>1, DirectNext DEF ProductPanelsInv
<1>5. CASE mode = "create"
  <2>1. [Create!Next]_(Create!vars)
    BY <1>5 DEF ProductNext, vars, Create!vars
  <2> QED
    BY <1>1, <1>5, <2>1, CreateNext DEF ProductPanelsInv
<1>6. CASE mode \notin {"lines", "tasks", "direct", "create"}
  BY <1>1, <1>6 DEF ProductPanelsInv
<1> QED
  BY <1>2, <1>3, <1>4, <1>5, <1>6

\* Safety: what the steps keep, be they fair or not.
LEMMA ProductPanelsRunInv == ProductInit /\ [][ProductNext]_vars => []ProductPanelsInv
<1>1. ProductPanelsInv /\ [ProductNext]_vars => ProductPanelsInv'
  BY ProductPanelsKeep
<1> QED
  BY <1>1, ProductPanelsInit, PTL

\* What is on display belongs to what the operator chose: the draft and the revealed
\* content to the line in the modal, the log lines to the task, the install command
\* to the host in the form; a list that is late takes away neither filter nor
\* selection, nor is it replaced by an older one.
THEOREM ProductAnswersKeepToTheirOwner ==
  ProductInit /\ [][ProductNext]_vars => AnswersKeepToTheirOwner
<1>1. ProductPanelsInv => /\ mode = "lines" => /\ Lines!DraftIsOfItsLine
                                               /\ Lines!RevealedWasAsked
                                               /\ Lines!FilterIsOffered
                          /\ mode = "tasks" => Tasks!LogsAreOfTheTask /\ Tasks!SelectionStays
                          /\ mode = "direct" => Direct!CommandIsOfTheForm
  BY LinesHold, TasksHold, DirectHold DEF ProductPanelsInv
<1>2. ProductPanelsInv /\ [ProductNext]_vars => (mode = "tasks" => Tasks!ListGoesForwardAction)
  BY ProductPanelsKeep
<1> QED
  BY <1>1, <1>2, ProductPanelsRunInv, PTL DEF AnswersKeepToTheirOwner

\* A node is created by the plan on display and once for it, or on a port whose
\* firewalls were confirmed and by one flow at a time, whatever is typed, closed and
\* opened while its answers are awaited.
THEOREM NodesAreCreatedAsApproved ==
  ProductInit /\ [][ProductNext]_vars => []CreatedAsApproved
<1>1. ProductPanelsInv => CreatedAsApproved
  BY DirectHold, CreateHold DEF ProductPanelsInv, CreatedAsApproved
<1> QED
  BY <1>1, ProductPanelsRunInv, PTL

\* The node that a modal shows as created is there, made by the command of the very
\* flow that shows it, and a failure that was seen to its end left no node.
THEOREM NodeOutcomeIsTold ==
  ProductInit /\ [][ProductNext]_vars => []Create_OutcomeIsTold
<1>1. ProductPanelsInv => Create_OutcomeIsTold
  BY CreateHold DEF ProductPanelsInv, Create_OutcomeIsTold
<1> QED
  BY <1>1, ProductPanelsRunInv, PTL
=============================================================================
