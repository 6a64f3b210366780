---------------------------- MODULE MCDynamicFps -----------------------------
(***************************************************************************)
(* DynamicFps with the rules of the manual's example: a package with a     *)
(* rule of its own, the offscreen rule and the default rule, which before  *)
(* the first top app is in force as well.  All their rates differ.         *)
(* The configurations differ in the kinds of events they let happen.       *)
(***************************************************************************)
EXTENDS DynamicFps, Integers

MCApp == {"game"}
MCTwoApps == {"game", "reader"}
MCRules == [a \in {"game"} |-> [idle |-> 90, active |-> 90]]
MCUniversial == [idle |-> 60, active |-> 120]
MCOffscreen == [idle |-> -1, active |-> -1]
MCHz == {-1, 60, 90, 120}
MCUnset == 2147483647

=============================================================================
