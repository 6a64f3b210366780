-------------------------- MODULE HeavyWorker_proofs --------------------------
(***************************************************************************)
(* HeavyWorker, for any number of callers, handles and works: its types,   *)
(* that no work is lost and no wake-up missed, and that it implements      *)
(* WorkSlots.                                                              *)
(***************************************************************************)
EXTENDS HeavyWorker, TLAPS

\* What the types alone leave out: the slot that is being run exists, and the
\* worker's thread is inside SetWork only while it runs a work.
RunsASlot == wpc = "run" => pos < NumWorks

IInv == /\ TypeOK
        /\ RunsASlot
        /\ WorkerCallsFromWork
        /\ NoLostWork
        /\ NoMissedWakeup

LEMMA InitIInv == Init => IInv
<1> SUFFICES ASSUME Init
             PROVE  IInv
  OBVIOUS
<1>1. TypeOK
  <2>1. created \in 0..NumWorks /\ pos \in 0..NumWorks
    BY NumWorksAssumption DEF Init
  <2>2. pending \in BOOLEAN
    BY DEF Init
  <2>3. notifying \subseteq Thread
    BY DEF Init
  <2> QED
    BY <2>1, <2>2, <2>3 DEF Init, TypeOK
<1>2. NoLostWork
  BY DEF Init, NoLostWork
<1> QED
  BY <1>1, <1>2 DEF Init, IInv, RunsASlot, WorkerCallsFromWork, NoMissedWakeup

LEMMA NextIInv == IInv /\ [Next]_vars => IInv'
<1> SUFFICES ASSUME IInv, [Next]_vars
             PROVE  IInv'
  OBVIOUS
<1> USE NumWorksAssumption DEF IInv, TypeOK, Handle
<1>1. CASE Create
  BY <1>1 DEF Create, RunsASlot, WorkerCallsFromWork, NoLostWork, NoMissedWakeup
<1>2. ASSUME NEW c \in Thread, NEW h \in Handle, NEW w \in Work \cup {NoWork}, SetWork(c, h, w)
      PROVE  IInv'
  <2>1. TypeOK'
    <3>1. pending' \in BOOLEAN
      BY <1>2 DEF SetWork
    <3>2. works' \in [Handle -> Work \cup {NoWork}] /\ notifying' \subseteq Thread
      BY <1>2 DEF SetWork
    <3> QED
      BY <1>2, <3>1, <3>2 DEF SetWork
  <2>2. RunsASlot'
    BY <1>2 DEF SetWork, RunsASlot
  <2>3. WorkerCallsFromWork'
    BY <1>2 DEF SetWork, CanCall, WorkerCallsFromWork
  <2>4. NoLostWork'
    BY <1>2 DEF SetWork, NoLostWork
  <2>5. NoMissedWakeup'
    BY <1>2 DEF SetWork, NoMissedWakeup
  <2> QED
    BY <2>1, <2>2, <2>3, <2>4, <2>5
<1>3. ASSUME NEW c \in Thread, Notify(c)
      PROVE  IInv'
  <2>1. TypeOK'
    BY <1>3 DEF Notify, Thread
  <2>2. RunsASlot' /\ WorkerCallsFromWork'
    BY <1>3 DEF Notify, RunsASlot, WorkerCallsFromWork
  <2>3. NoLostWork'
    BY <1>3 DEF Notify, NoLostWork
  <2>4. NoMissedWakeup'
    BY <1>3 DEF Notify, NoMissedWakeup
  <2> QED
    BY <2>1, <2>2, <2>3, <2>4
<1>4. CASE StartScan
  <2>1. TypeOK'
    <3>1. pending' \in BOOLEAN
      BY <1>4 DEF StartScan
    <3>2. pos' \in 0..NumWorks
      BY <1>4 DEF StartScan
    <3> QED
      BY <1>4, <3>1, <3>2 DEF StartScan
  <2>2. WorkerCallsFromWork' /\ NoMissedWakeup'
    BY <1>4 DEF StartScan, WorkerCallsFromWork, NoMissedWakeup
  <2>3. RunsASlot' /\ NoLostWork'
    BY <1>4 DEF StartScan, RunsASlot, NoLostWork
  <2> QED
    BY <2>1, <2>2, <2>3
<1>5. CASE Block
  BY <1>5 DEF Block, RunsASlot, WorkerCallsFromWork, NoLostWork, NoMissedWakeup
<1>6. CASE Skip
  BY <1>6 DEF Skip, RunsASlot, WorkerCallsFromWork, NoLostWork, NoMissedWakeup
<1>7. CASE Take
  BY <1>7 DEF Take, RunsASlot, WorkerCallsFromWork, NoLostWork, NoMissedWakeup
<1>8. CASE EndScan
  BY <1>8 DEF EndScan, RunsASlot, WorkerCallsFromWork, NoLostWork, NoMissedWakeup
<1>9. CASE RunDone
  BY <1>9 DEF RunDone, RunsASlot, WorkerCallsFromWork, NoLostWork, NoMissedWakeup
<1>10. CASE SpuriousWake
  BY <1>10 DEF SpuriousWake, RunsASlot, WorkerCallsFromWork, NoLostWork, NoMissedWakeup
<1>11. CASE UNCHANGED vars
  BY <1>11 DEF vars, RunsASlot, WorkerCallsFromWork, NoLostWork, NoMissedWakeup
<1> QED
  BY <1>1, <1>2, <1>3, <1>4, <1>5, <1>6, <1>7, <1>8, <1>9, <1>10, <1>11 DEF Next, WorkerStep

\* The inductive invariant of the slots, pending_ and the worker's loop.
THEOREM Invariance == Spec => []IInv
  BY InitIInv, NextIInv, PTL DEF Spec

\* The variables have their types.
THEOREM TypeCorrect == Spec => []TypeOK
  BY Invariance, PTL DEF IInv

\* A work that was accepted and not yet taken is ahead of the loop, or
\* pending_ is set.
THEOREM WorkIsNotLost == Spec => []NoLostWork
  BY Invariance, PTL DEF IInv

\* The worker sleeps with pending_ set only while a notify_one is to come.
THEOREM WakeupIsNotMissed == Spec => []NoMissedWakeup
  BY Invariance, PTL DEF IInv

\* The code's slots and its local copy implement WorkSlots: a work is taken at
\* most once, only from the slot it was put to, and not after its cancellation.
THEOREM Refinement == Spec => ImplementsWorkSlots
<1>1. Init => Slots!Init
  BY DEF Init, Slots!Init
<1>2. IInv /\ [Next]_vars => [Slots!Next]_(Slots!slotVars)
  <2> SUFFICES ASSUME IInv, [Next]_vars
               PROVE  [Slots!Next]_(Slots!slotVars)
    OBVIOUS
  <2> USE NoWorkAssumption DEF IInv, TypeOK, Handle, Slots!Next, Slots!slotVars
  <2>1. CASE Create
    BY <2>1 DEF Create
  <2>2. ASSUME NEW c \in Thread, NEW h \in Handle, NEW w \in Work \cup {NoWork}, SetWork(c, h, w)
        PROVE  Slots!Put(h, w)
    BY <2>2 DEF SetWork, Slots!Put
  <2>3. ASSUME NEW c \in Thread, Notify(c)
        PROVE  UNCHANGED Slots!slotVars
    BY <2>3 DEF Notify
  <2>4. CASE StartScan \/ Block \/ Skip \/ EndScan \/ SpuriousWake
    BY <2>4 DEF StartScan, Block, Skip, EndScan, SpuriousWake
  <2>5. CASE Take
    <3>1. pos \in Handle
      BY <2>5, NumWorksAssumption DEF Take
    <3>2. Slots!Take(pos)
      BY <2>5, <3>1 DEF Take, Slots!Take
    <3> QED
      BY <3>1, <3>2
  <2>6. CASE RunDone
    BY <2>6 DEF RunDone, Slots!Done
  <2>7. CASE UNCHANGED vars
    BY <2>7 DEF vars
  <2> QED
    BY <2>1, <2>2, <2>3, <2>4, <2>5, <2>6, <2>7 DEF Next, WorkerStep
<1> QED
  BY <1>1, <1>2, Invariance, PTL DEF ImplementsWorkSlots, Spec, Slots!Spec
==============================================================================
