-------------------------- MODULE DocumentSplitViewer --------------------------
(***************************************************************************)
(* The viewer of two documents side by side, DocumentSplitViewer.tsx, as   *)
(* operators on its state: a pane for each side.  A pane loads what it     *)
(* selects in an effect whose clean-up cancels the request before; a       *)
(* cancelled request still has its answer on the way.                      *)
(***************************************************************************)
EXTENDS Naturals, Sequences

CONSTANTS Documents,
          NoDocument

ASSUME NoDocumentAssumption == NoDocument \notin Documents

Sides == {"left", "right"}

Loads == [doc : Documents, cancelled : BOOLEAN]

(***************************************************************************)
(* A pane: the document selected, the requests in flight, the document     *)
(* that was loaded, and whether the last load failed.                      *)
(***************************************************************************)
Panes == [sel : Documents, loads : SUBSET Loads, loading : BOOLEAN,
          doc : Documents \cup {NoDocument}, error : BOOLEAN]

ClosedPanes == [side \in Sides |-> NoDocument]

(***************************************************************************)
(* useState and the first effects: a document for either side is asked     *)
(* for.  A viewer of a single document shows it on both sides.             *)
(***************************************************************************)
PaneOpened(d) ==
  [sel |-> d, loads |-> {[doc |-> d, cancelled |-> FALSE]}, loading |-> TRUE,
   doc |-> NoDocument, error |-> FALSE]

ViewerOpened(leftDocId, rightDocId) ==
  [side \in Sides |-> PaneOpened(IF side = "left" THEN leftDocId ELSE rightDocId)]

(***************************************************************************)
(* The clean-up and the effect of a changed selection.  Selecting what is  *)
(* selected changes nothing.                                               *)
(***************************************************************************)
Selected(pane, d) ==
  IF d = pane.sel THEN pane
  ELSE [pane EXCEPT !.sel = d, !.loading = TRUE, !.error = FALSE,
                    !.loads = {[l EXCEPT !.cancelled = TRUE] : l \in @}
                                 \cup {[doc |-> d, cancelled |-> FALSE]}]

handleSwap(panes) ==
  [side \in Sides |-> Selected(panes[side], panes[IF side = "left" THEN "right" ELSE "left"].sel)]

(***************************************************************************)
(* A mutant: the answer to a cancelled load is shown.                      *)
(***************************************************************************)
LoadedLate(pane, l, ok) ==
  [pane EXCEPT !.loads = @ \ {l}, !.loading = FALSE, !.error = @ \/ ~ok,
               !.doc = IF ok THEN l.doc ELSE NoDocument]

(***************************************************************************)
(* The answer to a load: the document, or an error.                        *)
(***************************************************************************)
Loaded(pane, l, ok) ==
  IF l.cancelled THEN [pane EXCEPT !.loads = @ \ {l}]
  ELSE [pane EXCEPT !.loads = @ \ {l}, !.loading = FALSE, !.error = @ \/ ~ok,
                    !.doc = IF ok THEN l.doc ELSE NoDocument]

(***************************************************************************)
(* A pane at rest shows the document it says it shows, or an error.        *)
(***************************************************************************)
ShowsSelection(pane) ==
  /\ ~pane.loading => IF pane.error THEN pane.doc = NoDocument ELSE pane.doc = pane.sel
  /\ pane.error => ~pane.loading
===============================================================================
