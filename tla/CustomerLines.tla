---------------------------- MODULE CustomerLines ----------------------------
(***************************************************************************)
(* CustomerLinesPanel (frontend/components): the nodes and routes that are *)
(* read once, when the panel is mounted, as the lines of customers; the    *)
(* demonstration lines that stand in their place until then, and for good  *)
(* when nothing is read; the filter, the four modals of a line, and what   *)
(* the operator changes about a line, which is kept in the panel only.     *)
(*                                                                         *)
(* The modals are drawn while their line is on display: the lines that     *)
(* arrive take a modal of a demonstration line away without closing it.    *)
(* Of a line's fields the customer is kept: it is what the filter looks    *)
(* at, and what the draft of a line carries.                               *)
(***************************************************************************)
CONSTANTS
  Node, Route,  \* the active nodes and routes, a line each
  Demo,         \* defaultDemoLines
  Customer, None

VARIABLES panel, call, controller

vars == <<panel, call, controller>>

Line == Node \cup Route \cup Demo

Draft == [of : Line, customer : Customer]

\* History: "asked" is the line whose content the operator revealed last,
\* "replaced" says that lines changed since the filter was chosen.
Panel == [rows : SUBSET (Node \cup Route), override : [Line -> Customer \cup {None}],
          filter : Customer \cup {None}, selected : Line \cup {None},
          modal : {"none", "detail", "edit", "client", "monitor"},
          draft : Draft \cup {None}, revealed : BOOLEAN,
          asked : Line \cup {None}, replaced : BOOLEAN]

\* By its name a line may go to any customer.
ClassifyCustomer == [Line -> Customer]

\* call: the three fetches of loadData.
TypeOK ==
  /\ panel \in Panel
  /\ call \in {"awaited", "over"}
  /\ controller \in ClassifyCustomer

Init ==
  /\ panel = [rows |-> {}, override |-> [l \in Line |-> None], filter |-> None,
              selected |-> None, modal |-> "none", draft |-> None, revealed |-> FALSE,
              asked |-> None, replaced |-> FALSE]
  /\ call = "awaited"
  /\ controller \in ClassifyCustomer

-----------------------------------------------------------------------------
(* What is derived from the state at every render. *)

BaseLines(p) == IF p.rows = {} THEN Demo ELSE p.rows

\* mergeLineOverride: what the operator saved covers what was read.
CustomerOf(p, l) == IF p.override[l] # None THEN p.override[l] ELSE controller[l]

CustomerOptions(p) == {CustomerOf(p, l) : l \in BaseLines(p)}

FilteredLines == {l \in BaseLines(panel) : panel.filter \in {None, CustomerOf(panel, l)}}

\* A modal is drawn for a line on display.
Drawn(m) == panel.modal = m /\ panel.selected \in BaseLines(panel)

DetailShown == Drawn("detail")
EditShown == Drawn("edit")
ClientInfoShown == Drawn("client")
MonitorShown == Drawn("monitor")

\* A modal covers the filters and the table.
FiltersShown == ~(DetailShown \/ EditShown \/ ClientInfoShown \/ MonitorShown)
TableShown == FiltersShown

ToEditDraft(l) == [of |-> l, customer |-> CustomerOf(panel, l)]

-----------------------------------------------------------------------------
\* Each list is set if it was read; none is when a fetch rejects.
LinesLoaded ==
  /\ call = "awaited"
  /\ call' = "over"
  /\ \E nodes \in {Node, {}}, routes \in {Route, {}} :
       panel' = [panel EXCEPT !.rows = nodes \cup routes, !.replaced = TRUE]
  /\ UNCHANGED controller

ChooseFilter(f) ==
  /\ f \in CustomerOptions(panel) \cup {None}
  /\ FiltersShown
  /\ panel' = [panel EXCEPT !.filter = f, !.replaced = FALSE]
  /\ UNCHANGED <<call, controller>>

OpenModal(l, m) ==
  /\ TableShown /\ l \in FilteredLines
  /\ panel' = [panel EXCEPT !.selected = l, !.modal = m, !.revealed = FALSE,
                            !.draft = ToEditDraft(l)]
  /\ UNCHANGED <<call, controller>>

Closed(p) == [p EXCEPT !.selected = None, !.modal = "none", !.draft = None, !.revealed = FALSE]

CloseModal ==
  /\ ~TableShown
  /\ panel' = Closed(panel)
  /\ UNCHANGED <<call, controller>>

\* From one modal of a line to another: no state but the mode changes.
SwitchModal ==
  /\ \/ DetailShown /\ \E m \in {"edit", "client"} : panel' = [panel EXCEPT !.modal = m]
     \/ MonitorShown /\ panel' = [panel EXCEPT !.modal = "detail"]
  /\ UNCHANGED <<call, controller>>

ToggleReveal ==
  /\ ClientInfoShown
  /\ panel' = [panel EXCEPT !.revealed = ~@, !.asked = panel.selected]
  /\ UNCHANGED <<call, controller>>

ChangeDraft(k) ==
  /\ EditShown
  /\ panel' = [panel EXCEPT !.draft.customer = k]
  /\ UNCHANGED <<call, controller>>

RestoreDraft ==
  /\ EditShown
  /\ panel' = [panel EXCEPT !.draft = ToEditDraft(panel.selected)]
  /\ UNCHANGED <<call, controller>>

SaveEditDemo ==
  /\ EditShown
  /\ panel' = Closed([panel EXCEPT !.override[panel.selected] = panel.draft.customer,
                                   !.replaced = TRUE])
  /\ UNCHANGED <<call, controller>>

Next ==
  \/ LinesLoaded \/ CloseModal \/ SwitchModal \/ ToggleReveal \/ RestoreDraft \/ SaveEditDemo
  \/ \E k \in Customer : ChangeDraft(k) \/ ChooseFilter(k)
  \/ ChooseFilter(None)
  \/ \E l \in Line : \E m \in {"detail", "edit", "client", "monitor"} : OpenModal(l, m)

Spec == Init /\ [][Next]_vars

-----------------------------------------------------------------------------
(* Properties. *)

\* What the edit modal would save is a draft of its own line: a modal that was
\* taken away by the lines that arrived leaves its draft behind (openModal
\* replaces it).
DraftIsOfItsLine == EditShown => panel.draft # None /\ panel.draft.of = panel.selected

\* The connection content of a line is shown when the operator asked for that
\* line's, never because it was shown for another.
RevealedWasAsked == ClientInfoShown /\ panel.revealed => panel.asked = panel.selected

\* A filter leaves some line on display, unless lines were replaced or changed
\* since it was chosen: then the table may be empty while there are lines.
FilterIsOffered == panel.filter # None /\ ~panel.replaced => FilteredLines # {}
=============================================================================
