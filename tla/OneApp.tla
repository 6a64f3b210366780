------------------------------- MODULE OneApp --------------------------------
(***************************************************************************)
(* What the daemon of main.cpp promises: one process at a time is in       *)
(* charge of the refresh rate.  It works by a configuration that is in     *)
(* order, from the moment it has read it to its end, and the next one is   *)
(* started only after it has ended or has been told to.                    *)
(*                                                                         *)
(* Daemon implements this specification, as long as fork() does not return *)
(* the number that dead_pid holds while old_pid names another: a process   *)
(* that is started under it counts as none there (Daemon!InCharge).        *)
(***************************************************************************)

CONSTANTS App,      \* the processes
          Config    \* the configurations that are in order

VARIABLES inCharge, \* the process that was started and not told to end, if any
          worksBy   \* the configuration it has read, if it has

appVars == <<inCharge, worksBy>>

Init == inCharge = {} /\ worksBy = {}

\* StartNewApp
Start(p) == /\ inCharge = {}
            /\ inCharge' = {p}
            /\ UNCHANGED worksBy

\* AppMain has read the configuration.
Begin(c) == /\ inCharge # {} /\ worksBy = {}
            /\ worksBy' = {c}
            /\ UNCHANGED inCharge

\* KillOldApp, or the process ends of itself.
End == /\ inCharge # {}
       /\ inCharge' = {} /\ worksBy' = {}

Next == \/ \E p \in App : Start(p)
        \/ \E c \in Config : Begin(c)
        \/ End

Spec == Init /\ [][Next]_appVars
==============================================================================
