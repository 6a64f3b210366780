---------------------------- MODULE MCHeavyWorker ----------------------------
(***************************************************************************)
(* HeavyWorker with the two threads of Dfps that call it from outside (the *)
(* input thread and the timer thread) and the two handles that the modules *)
(* create (DynamicFps's and TopappMonitor's).  Two works are enough to     *)
(* tell an overwritten work from its successor.                            *)
(***************************************************************************)
EXTENDS HeavyWorker

CONSTANTS input, timer, w1, w2

MCCaller == {input, timer}
MCWork == {w1, w2}

=============================================================================
