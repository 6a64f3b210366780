----------------------------- MODULE HeavyWorker -----------------------------
(***************************************************************************)
(* platform/heavy_worker.cpp: the thread that runs the works which may     *)
(* block (writing settings, reading the brightness, finding the top app).  *)
(*                                                                         *)
(* Any thread calls SetWork(); the worker's own thread does so too, from   *)
(* inside a work (the top-app work publishes the package name, and         *)
(* DynamicFps answers with another SetWork).  The worker waits on a        *)
(* condition variable for pending_, clears it, and then visits the slots   *)
(* in order, taking and running what it finds.  Each section of code under *)
(* mut_ is one action; the mutex is free between two actions.              *)
(*                                                                         *)
(* The condition variable is a wait set of at most one thread: wpc is      *)
(* "blocked" while the worker sleeps in it.  notify_one() comes after the  *)
(* unlock, so a caller is in "notifying" in between.                       *)
(*                                                                         *)
(* A definition introduced as "Bug for X" is X with a plausible mistake in *)
(* it, and is no part of the specification: it shows that a property that  *)
(* holds of X is one X could break.                                        *)
(***************************************************************************)
EXTENDS Naturals

CONSTANTS Caller,     \* the threads that call SetWork, the worker's apart
          Worker,     \* the worker's thread
          NumWorks,   \* how many handles the modules create
          Work,       \* the works
          NoWork      \* the null work

ASSUME NumWorksAssumption == NumWorks \in Nat \ {0}
ASSUME NoWorkAssumption == NoWork \notin Work
ASSUME WorkerAssumption == Worker \notin Caller

Handle == 0..(NumWorks - 1)
Thread == Caller \cup {Worker}

VARIABLES works,      \* works_: what each slot holds
          created,    \* works_.size()
          pending,    \* pending_
          wpc,        \* where the worker's thread is
          pos,        \* the slot its loop has come to
          work,       \* its local copy of the work it took last
          notifying   \* the threads between SetWork's unlock and notify_one

vars == <<works, created, pending, wpc, pos, work, notifying>>

TypeOK == /\ works \in [Handle -> Work \cup {NoWork}]
          /\ created \in 0..NumWorks
          /\ pending \in BOOLEAN
          /\ wpc \in {"wait", "blocked", "scan", "run"}
          /\ pos \in 0..NumWorks
          /\ work \in Work \cup {NoWork}
          /\ notifying \subseteq Thread

Init == /\ works = [h \in Handle |-> NoWork]
        /\ created = 0
        /\ pending = FALSE
        /\ wpc = "wait"
        /\ pos = 0
        /\ work = NoWork
        /\ notifying = {}

-----------------------------------------------------------------------------
(* The callers. *)

\* Dfps::Start constructs every module, and so makes every Create() call,
\* before it starts the first one.
Create == /\ created < NumWorks
          /\ created' = created + 1
          /\ UNCHANGED <<works, pending, wpc, pos, work, notifying>>

\* A thread can call when it is not still inside a call; the worker can from
\* inside a work.
CanCall(c) == /\ c \notin notifying
              /\ c = Worker => wpc = "run"

SetWork(c, h, w) ==
    /\ created = NumWorks
    /\ CanCall(c)
    /\ works' = [works EXCEPT ![h] = w]
    /\ pending' = (pending \/ w # NoWork)
    /\ notifying' = IF w # NoWork THEN notifying \cup {c} ELSE notifying
    /\ UNCHANGED <<created, wpc, pos, work>>

\* notify_one() wakes the worker if it is asleep and is lost otherwise.
Notify(c) == /\ c \in notifying
             /\ notifying' = notifying \ {c}
             /\ wpc' = IF wpc = "blocked" THEN "wait" ELSE wpc
             /\ UNCHANGED <<works, created, pending, pos, work>>

-----------------------------------------------------------------------------
(* The worker's thread. *)

\* Bug for StartScan: the loop goes on from where the last one ended.
StartScanWithoutReset ==
    /\ wpc = "wait"
    /\ pending
    /\ pending' = FALSE
    /\ wpc' = "scan"
    /\ UNCHANGED <<works, created, pos, work, notifying>>

\* cv_.wait finds pending_ set, and the loop over the slots starts.
StartScan == /\ wpc = "wait"
             /\ pending
             /\ pending' = FALSE
             /\ wpc' = "scan"
             /\ pos' = 0
             /\ UNCHANGED <<works, created, work, notifying>>

\* Bug for Block: a wait without a predicate.
BlockWithoutPredicate ==
    /\ wpc = "wait"
    /\ wpc' = "blocked"
    /\ UNCHANGED <<works, created, pending, pos, work, notifying>>

\* cv_.wait finds pending_ clear, and sleeps.
Block == /\ wpc = "wait"
         /\ ~pending
         /\ wpc' = "blocked"
         /\ UNCHANGED <<works, created, pending, pos, work, notifying>>

\* A condition variable may wake without a notify.
SpuriousWake == /\ wpc = "blocked"
                /\ wpc' = "wait"
                /\ UNCHANGED <<works, created, pending, pos, work, notifying>>

Skip == /\ wpc = "scan"
        /\ pos < NumWorks
        /\ works[pos] = NoWork
        /\ pos' = pos + 1
        /\ UNCHANGED <<works, created, pending, wpc, work, notifying>>

\* Bug for Take: the slot is not emptied.
TakeWithoutClear ==
    /\ wpc = "scan"
    /\ pos < NumWorks
    /\ works[pos] # NoWork
    /\ work' = works[pos]
    /\ wpc' = "run"
    /\ UNCHANGED <<works, created, pending, pos, notifying>>

Take == /\ wpc = "scan"
        /\ pos < NumWorks
        /\ works[pos] # NoWork
        /\ work' = works[pos]
        /\ works' = [works EXCEPT ![pos] = NoWork]
        /\ wpc' = "run"
        /\ UNCHANGED <<created, pending, pos, notifying>>

\* Bug for RunDone: the slot after the one that ran is stepped over too.
RunDoneSkipsNext ==
    /\ wpc = "run"
    /\ Worker \notin notifying
    /\ wpc' = "scan"
    /\ pos' = pos + 2
    /\ UNCHANGED <<works, created, pending, work, notifying>>

\* work() returns, which it cannot do from inside its own SetWork call.
RunDone == /\ wpc = "run"
           /\ Worker \notin notifying
           /\ wpc' = "scan"
           /\ pos' = pos + 1
           /\ UNCHANGED <<works, created, pending, work, notifying>>

\* Bug for EndScan: pending_ is cleared after the loop, when what it stood
\* for may have been set behind the loop's back.
EndScanClearsPending ==
    /\ wpc = "scan"
    /\ pos = NumWorks
    /\ wpc' = "wait"
    /\ pending' = FALSE
    /\ UNCHANGED <<works, created, pos, work, notifying>>

EndScan == /\ wpc = "scan"
           /\ pos = NumWorks
           /\ wpc' = "wait"
           /\ UNCHANGED <<works, created, pending, pos, work, notifying>>

WorkerStep == StartScan \/ Block \/ Skip \/ Take \/ EndScan

Next == \/ Create
        \/ \E c \in Thread, h \in Handle, w \in Work \cup {NoWork} : SetWork(c, h, w)
        \/ \E c \in Thread : Notify(c)
        \/ WorkerStep
        \/ RunDone
        \/ SpuriousWake

(***************************************************************************)
(* The operating system runs every thread that can run, and a call that    *)
(* has unlocked goes on to notify.  Strong fairness of RunDone says that   *)
(* every work returns: it may call SetWork itself, so RunDone is disabled  *)
(* now and then, but only finitely often in one work.  Nothing is assumed  *)
(* of the callers or of spurious wakes.                                    *)
(***************************************************************************)
Fairness == /\ WF_vars(WorkerStep)
            /\ SF_vars(RunDone)
            /\ \A c \in Thread : WF_vars(Notify(c))

Spec == Init /\ [][Next]_vars /\ Fairness

-----------------------------------------------------------------------------
(* Properties. *)

\* The worker's thread is inside SetWork only while it runs a work.
WorkerCallsFromWork == Worker \in notifying => wpc = "run"

\* No accepted work is forgotten: a slot that holds a work is either still
\* ahead of the loop that is going on, or pending_ will start another one.
\* What could lose it is a SetWork that falls between the clearing of
\* pending_ (heavy_worker.cpp:31) and the visit of the slot.
NoLostWork ==
    \A h \in Handle : works[h] # NoWork =>
        \/ pending
        \/ wpc = "scan" /\ pos <= h
        \/ wpc = "run" /\ pos < h

\* No wake-up is missed: the worker sleeps with pending_ set only while some
\* thread is on its way to notify_one, which SetWork calls after its unlock.
NoMissedWakeup == wpc = "blocked" /\ pending => notifying # {}

\* Slots are the abstract ones: SetWork overwrites, a work is taken once and
\* runs after it was taken, one at a time.
Slots == INSTANCE WorkSlots WITH
            slot <- works,
            running <- IF wpc = "run" THEN work ELSE NoWork

ImplementsWorkSlots == Slots!Spec

\* Every work that is set is run, or replaced and cancelled before that, even
\* when the other slots are set again and again from several threads.
EveryWorkIsTaken == \A h \in Handle : works[h] # NoWork ~> works[h] = NoWork

=============================================================================
