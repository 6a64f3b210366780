--------------------------- MODULE MCInputListener ---------------------------
(***************************************************************************)
(* InputListener with a touch panel and devices of the other two types.    *)
(***************************************************************************)
EXTENDS InputListener

MCTwoPaths == {"panel", "btn"}
MCOnePath == {"btn"}
MCPanel == {"panel"}
MCMaxHeld == [p \in Path |-> IF p = "panel" THEN 2 ELSE 1]
MCDevType == [p \in Path |-> IF p = "panel" THEN "touch" ELSE p]

=============================================================================
