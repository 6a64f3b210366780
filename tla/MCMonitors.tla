----------------------------- MODULE MCMonitors ------------------------------
(***************************************************************************)
(* Monitors with two apps that differ in the number of their tasks, and a  *)
(* third that the threshold does not tell from one of them; with the least *)
(* number of restricted tasks that means the screen is off, and the        *)
(* greatest that does not; on a device without a background cpuset, which  *)
(* the listener takes for one more top-app cpuset.                         *)
(***************************************************************************)
EXTENDS Monitors

MCCpuset == {"ta", "fg", "re"}
MCApp == {"game", "reader", "browser"}
MCTasks == [game |-> 90, reader |-> 30, browser |-> 40]
MCCounts == {10, 11}
==============================================================================
