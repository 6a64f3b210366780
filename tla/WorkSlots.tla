------------------------------ MODULE WorkSlots ------------------------------
(***************************************************************************)
(* What the two background workers of Dfps (platform/heavy_worker.cpp and  *)
(* platform/delayed_worker.cpp) promise the modules that use them.         *)
(*                                                                         *)
(* A client owns a handle, and a handle has room for ONE work: putting a   *)
(* second work overwrites the first, putting the null work cancels it.     *)
(* One thread takes the works out and runs them, one at a time.  A work    *)
(* that was taken runs to its end: no Put can call it back.                *)
(*                                                                         *)
(* HeavyWorker and DelayedWorker implement this specification and          *)
(* DynamicFps is built from two instances of it.                           *)
(***************************************************************************)

CONSTANTS Handle,   \* the handles that Create() returned
          Work,     \* the callables that the clients pass to SetWork()
          NoWork    \* the null std::function

VARIABLES slot,     \* the work each handle keeps, or NoWork
          running   \* the work the worker's thread is running, or NoWork

slotVars == <<slot, running>>

TypeOK == /\ slot \in [Handle -> Work \cup {NoWork}]
          /\ running \in Work \cup {NoWork}

Init == /\ slot = [h \in Handle |-> NoWork]
        /\ running = NoWork

\* SetWork(h, w), from any thread, the worker's own included.
Put(h, w) == /\ slot' = [slot EXCEPT ![h] = w]
             /\ UNCHANGED running

\* The thread empties a slot and starts the work it held.
Take(h) == /\ running = NoWork
           /\ slot[h] # NoWork
           /\ slot' = [slot EXCEPT ![h] = NoWork]
           /\ running' = slot[h]

\* The work returns.
Done == /\ running # NoWork
        /\ running' = NoWork
        /\ UNCHANGED slot

Next == \/ \E h \in Handle, w \in Work \cup {NoWork} : Put(h, w)
        \/ \E h \in Handle : Take(h)
        \/ Done

Spec == Init /\ [][Next]_slotVars
==============================================================================
