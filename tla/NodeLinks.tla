----------------------------- MODULE NodeLinks ------------------------------
(***************************************************************************)
(* The detail modal of a node in ServerManagementPanel                     *)
(* (frontend/components): the read of the detail, the export of the share  *)
(* link behind a confirmation, and what shows the link: masked or in full, *)
(* as a QR code, on the clipboard, in a file named after the node.         *)
(*                                                                         *)
(* window.confirm blocks the tab and is the choice to go on; the token     *)
(* fetched before an export is part of its request.                        *)
(***************************************************************************)
EXTENDS Integers, FiniteSets

CONSTANTS Node, Call, None

VARIABLES panel, call, controller

vars == <<panel, call, controller>>

\* detail: selectedNodeDetail; link: the node of exportedNodeShareLink.
\* History: "asked" is the node that was clicked last, "late" that the detail
\* was closed or replaced while an export was awaited, "raced" that a detail
\* was asked for while another one was.
Panel == [detail : Node \cup {None}, link : Node \cup {None}, full : BOOLEAN, qr : BOOLEAN,
          file : [name : Node, link : Node] \cup {None}, clipboard : Node \cup {None},
          asked : Node \cup {None}, late : BOOLEAN, raced : BOOLEAN]

Use == {"copy", "reveal", "qr"}

\* "then" is what follows the read of a detail.
CallRow == [op : {"none", "detail", "export"}, node : Node \cup {None},
            use : Use \cup {"none"}, answered : BOOLEAN]

NoCall == [op |-> "none", node |-> None, use |-> "none", answered |-> FALSE]

\* Which nodes have a share link.
Controller == SUBSET Node

TypeOK == panel \in Panel /\ call \in [Call -> CallRow] /\ controller \in Controller

Init ==
  /\ panel = [detail |-> None, link |-> None, full |-> FALSE, qr |-> FALSE, file |-> None,
              clipboard |-> None, asked |-> None, late |-> FALSE, raced |-> FALSE]
  /\ call = [c \in Call |-> NoCall]
  /\ controller \in SUBSET Node

-----------------------------------------------------------------------------
Free(c) == call[c].op = "none"
Finish(c) == call' = [call EXCEPT ![c] = NoCall]
Awaited(op) == {c \in Call : call[c].op = op}
Start(c, op, n, use) ==
  /\ Free(c)
  /\ call' = [call EXCEPT ![c] = [op |-> op, node |-> n, use |-> use, answered |-> FALSE]]

\* The rows of the nodes; an open modal covers them.
RowButtons == panel.detail = None

\* A row opens the summary of its node, or a QR code, or a copy where the
\* clipboard can only be reached through the modal.
OpenNodeDetail(c, n) ==
  /\ RowButtons
  /\ \E use \in {"none"} \cup (IF n \in controller THEN {"qr", "copy"} ELSE {}) :
       Start(c, "detail", n, use)
  /\ panel' = [panel EXCEPT !.asked = n, !.raced = Awaited("detail") # {}]
  /\ UNCHANGED controller

CopyNodeShareLink(c, n) ==
  /\ RowButtons
  /\ n \in controller
  /\ Start(c, "export", n, "copy")
  /\ UNCHANGED <<panel, controller>>

\* The buttons of the modal: the link on display is shown or hidden, or one is
\* exported.
ExportFromModal(c) ==
  /\ panel.detail \in controller
  /\ \E use \in Use :
       /\ use # "copy" => panel.link = None
       /\ Start(c, "export", panel.detail, use)
  /\ UNCHANGED <<panel, controller>>

ToggleFull ==
  /\ panel.detail # None /\ panel.link # None
  /\ panel' = [panel EXCEPT !.full = ~@]
  /\ UNCHANGED <<call, controller>>

ToggleQr ==
  /\ panel.detail # None /\ panel.link # None
  /\ panel' = [panel EXCEPT !.qr = ~@]
  /\ UNCHANGED <<call, controller>>

\* The file is named after the detail and drawn from the link.
DownloadNodeQrCode ==
  /\ panel.detail # None /\ panel.link # None /\ panel.qr
  /\ panel' = [panel EXCEPT !.file = [name |-> panel.detail, link |-> panel.link]]
  /\ UNCHANGED <<call, controller>>

Hidden(p) == [p EXCEPT !.link = None, !.full = FALSE, !.qr = FALSE]

CloseNodeDetail ==
  /\ panel.detail # None
  /\ panel' = [Hidden(panel) EXCEPT !.detail = None, !.late = Awaited("export") # {}]
  /\ UNCHANGED <<call, controller>>

-----------------------------------------------------------------------------
\* The controller: a detail as it is, a link unless there is none any more.
Answer(c) ==
  /\ ~Free(c) /\ ~call[c].answered
  /\ call[c].op = "export" => call[c].node \in controller
  /\ call' = [call EXCEPT ![c].answered = TRUE]
  /\ UNCHANGED <<panel, controller>>

\* Refused, or the fetch rejects.
Fails(c) ==
  /\ ~Free(c)
  /\ Finish(c)
  /\ UNCHANGED <<panel, controller>>

\* A detail replaces the one on display; for a QR code or a copy the export is
\* confirmed and begins.
DetailRead(c) ==
  /\ call[c].op = "detail" /\ call[c].answered
  /\ panel' = [Hidden(panel) EXCEPT !.detail = call[c].node, !.late = Awaited("export") # {}]
  /\ IF call[c].use = "none" THEN Finish(c)
     ELSE \/ Finish(c)
          \/ call' = [call EXCEPT ![c] = [@ EXCEPT !.op = "export", !.answered = FALSE]]
  /\ UNCHANGED controller

\* The link lands in whatever detail is open, with the options of its export; a
\* copy that fails shows the link in full to be copied by hand.
LinkExported(c) ==
  LET use == call[c].use
  IN /\ call[c].op = "export" /\ call[c].answered
     /\ \E copied \in IF use = "copy" THEN BOOLEAN ELSE {FALSE} :
          panel' = [panel EXCEPT
                      !.link = call[c].node, !.qr = (use = "qr"),
                      !.full = (use = "reveal") \/ (use = "copy" /\ ~copied),
                      !.clipboard = IF copied THEN call[c].node ELSE @]
     /\ Finish(c)
     /\ UNCHANGED controller

Next ==
  \/ \E c \in Call : \/ ExportFromModal(c) \/ Answer(c) \/ Fails(c)
                     \/ DetailRead(c) \/ LinkExported(c)
                     \/ \E n \in Node : OpenNodeDetail(c, n) \/ CopyNodeShareLink(c, n)
  \/ ToggleFull \/ ToggleQr \/ DownloadNodeQrCode \/ CloseNodeDetail

Spec == Init /\ [][Next]_vars

-----------------------------------------------------------------------------
(* Properties. *)

\* A link on display under a node is the link of that node, unless the detail
\* was closed or replaced while an export was awaited: the answer is not held
\* against the detail it was asked for (setExportedNodeShareLink).
LinkIsOfItsNode ==
  panel.detail # None /\ panel.link # None /\ ~panel.late => panel.link = panel.detail

\* A QR code is saved under the name of another node only in that case.
FileIsOfItsNodeAction ==
  panel'.file # panel.file /\ ~panel.late => panel'.file.name = panel'.file.link
FileIsOfItsNode == [][FileIsOfItsNodeAction]_vars

\* The detail on display is the one that was clicked last, unless two details
\* were asked for at once (fetchNodeDetail takes no turns).
DetailIsTheLastAsked == panel.detail # None /\ ~panel.raced => panel.detail = panel.asked
=============================================================================
