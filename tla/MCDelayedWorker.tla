--------------------------- MODULE MCDelayedWorker ---------------------------
(***************************************************************************)
(* DelayedWorker with three slots and a horizon that allows three          *)
(* different time stamps, the present, the past and the future of each.    *)
(***************************************************************************)
EXTENDS DelayedWorker

CONSTANTS w1, w2

MCWork == {w1, w2}

=============================================================================
