------------------------- MODULE DelayedWorker_proofs -------------------------
(***************************************************************************)
(* DelayedWorker, for any number of slots and works and any horizon: its   *)
(* types, that its timer is never late, and that it implements WorkSlots.  *)
(***************************************************************************)
EXTENDS DelayedWorker, TLAPS

IInv == /\ TypeOK
        /\ AwakeHasWork
        /\ TimerNotLate
        /\ tpc = "run" => work # NoWork

\* However the slots are, the reloaded timer is armed for all that are awake,
\* in the future, and not too late for any.
LEMMA ReloadCovers ==
    ASSUME NEW ts \in [Handle -> Nat], now \in Nat, ReloadTimer(ts)
    PROVE  /\ timer' \in Nat
           /\ \A h \in Awake(ts) : /\ timer' > now
                                   /\ timer' <= ts[h] \/ timer' <= now + MIN_INTERVAL
<1>1. CASE Awake(ts) = {} /\ timer' = Disarmed
  BY <1>1 DEF Disarmed
<1>2. ASSUME NEW e \in Handle,
             Earliest(ts, Awake(ts), e),
             timer' = IF ts[e] > now THEN ts[e] ELSE now + MIN_INTERVAL
      PROVE  /\ timer' \in Nat
             /\ \A h \in Awake(ts) : /\ timer' > now
                                     /\ timer' <= ts[h] \/ timer' <= now + MIN_INTERVAL
  <2>1. ts[e] \in Nat /\ \A h \in Awake(ts) : ts[h] \in Nat /\ ts[e] <= ts[h]
    BY <1>2 DEF Earliest, Awake
  <2> QED
    BY <1>2, <2>1 DEF MIN_INTERVAL
<1> QED
  BY <1>1, <1>2 DEF ReloadTimer

LEMMA InitIInv == Init => IInv
<1> SUFFICES ASSUME Init
             PROVE  IInv
  OBVIOUS
<1>1. TypeOK
  <2>1. created \in 0..NumSlots /\ timer \in Nat /\ now \in Nat /\ slotTs \in [Handle -> Nat]
    BY NumSlotsAssumption DEF Init, SLEEP_TS, Disarmed
  <2>2. expired \in BOOLEAN
    BY DEF Init
  <2> QED
    BY <2>1, <2>2 DEF Init, TypeOK
<1>2. Awake(slotTs) = {}
  BY DEF Init, Awake, SLEEP_TS
<1> QED
  BY <1>1, <1>2 DEF Init, IInv, AwakeHasWork, TimerNotLate

LEMMA NextIInv == IInv /\ [Next]_vars => IInv'
<1> SUFFICES ASSUME IInv, [Next]_vars
             PROVE  IInv'
  OBVIOUS
<1> USE DEF IInv, TypeOK
<1>1. CASE Tick
  <2>1. TypeOK'
    <3>1. expired' \in BOOLEAN
      BY <1>1 DEF Tick
    <3>2. timer' \in Nat /\ now' \in Nat
      BY <1>1 DEF Tick, Disarmed
    <3> QED
      BY <1>1, <3>1, <3>2 DEF Tick
  <2>2. AwakeHasWork'
    BY <1>1 DEF Tick, AwakeHasWork, Awake
  <2>3. TimerNotLate'
    <3> SUFFICES ASSUME tpc = "idle", ~expired, timer # now + 1, NEW h \in Awake(slotTs)
                 PROVE  timer > now + 1 /\ timer <= slotTs[h]
      BY <1>1 DEF Tick, TimerNotLate, Awake
    <3>1. slotTs[h] \in Nat
      BY DEF Awake
    <3>2. timer > now /\ (timer <= slotTs[h] \/ timer <= now + 1)
      BY DEF TimerNotLate, MIN_INTERVAL
    <3> QED
      BY <3>1, <3>2
  <2> QED
    BY <1>1, <2>1, <2>2, <2>3 DEF Tick
<1>2. CASE Create
  <2>1. created' \in 0..NumSlots
    BY <1>2, NumSlotsAssumption DEF Create
  <2> QED
    BY <1>2, <2>1 DEF Create, AwakeHasWork, TimerNotLate, Awake
<1>3. ASSUME NEW h \in Handle, NEW w \in Work \cup {NoWork}, NEW ts \in 1..(MaxTime - 1),
             SetWork(h, w, ts)
      PROVE  IInv'
  <2>1. slotTs' \in [Handle -> Nat] /\ slotWork' \in [Handle -> Work \cup {NoWork}]
    BY <1>3, MaxTimeAssumption DEF SetWork, SLEEP_TS
  <2>2. AwakeHasWork'
    BY <1>3 DEF SetWork, AwakeHasWork, Awake, SLEEP_TS
  <2>3. /\ timer' \in Nat
        /\ \A g \in Awake(slotTs') : /\ timer' > now
                                     /\ timer' <= slotTs'[g] \/ timer' <= now + MIN_INTERVAL
    BY <1>3, <2>1, ReloadCovers DEF SetWork
  <2> QED
    BY <1>3, <2>1, <2>2, <2>3 DEF SetWork, TimerNotLate
<1>4. CASE OnTimer
  <2>1. expired' \in BOOLEAN
    BY <1>4 DEF OnTimer
  <2>2. TypeOK'
    BY <1>4, <2>1 DEF OnTimer
  <2>3. AwakeHasWork' /\ TimerNotLate' /\ tpc' = "pick"
    BY <1>4 DEF OnTimer, AwakeHasWork, TimerNotLate, Awake
  <2> QED
    BY <2>2, <2>3
<1>5. CASE Pick
  <2>1. PICK h \in Handle : /\ Earliest(slotTs, Ready(slotTs), h)
                            /\ slotTs' = [slotTs EXCEPT ![h] = SLEEP_TS]
                            /\ work' = slotWork[h]
                            /\ tpc' = IF work' = NoWork THEN "reload" ELSE "run"
    BY <1>5 DEF Pick
  <2>2. slotTs' \in [Handle -> Nat] /\ \A g \in Awake(slotTs') : g \in Awake(slotTs)
    BY <2>1 DEF Awake, SLEEP_TS
  <2>3. AwakeHasWork'
    BY <1>5, <2>2 DEF Pick, AwakeHasWork
  <2> QED
    BY <1>5, <2>1, <2>2, <2>3 DEF Pick, TimerNotLate
<1>6. CASE PickNothing
  BY <1>6 DEF PickNothing, AwakeHasWork, TimerNotLate, Awake
<1>7. CASE RunDone
  BY <1>7 DEF RunDone, AwakeHasWork, TimerNotLate, Awake
<1>8. CASE Reload
  <2>1. /\ timer' \in Nat
        /\ \A g \in Awake(slotTs) : /\ timer' > now
                                    /\ timer' <= slotTs[g] \/ timer' <= now + MIN_INTERVAL
    BY <1>8, ReloadCovers DEF Reload
  <2> QED
    BY <1>8, <2>1 DEF Reload, AwakeHasWork, TimerNotLate, Awake
<1>9. CASE UNCHANGED vars
  BY <1>9 DEF vars, AwakeHasWork, TimerNotLate, Awake
<1> QED
  BY <1>1, <1>2, <1>3, <1>4, <1>5, <1>6, <1>7, <1>8, <1>9 DEF Next, TimerThread

\* The inductive invariant of slots, timer and the timer's thread.
THEOREM Invariance == Spec => []IInv
  BY InitIInv, NextIInv, PTL DEF Spec

\* The variables have their types.
THEOREM TypeCorrect == Spec => []TypeOK
  BY Invariance, PTL DEF IInv

\* One timer serves all slots and is never late for any of them.
THEOREM TimerIsNotLate == Spec => []TimerNotLate
  BY Invariance, PTL DEF IInv

\* A slot that is awake holds a work.
THEOREM AwakeSlotHasWork == Spec => []AwakeHasWork
  BY Invariance, PTL DEF IInv

\* Slots with time stamps and one timer implement WorkSlots.
THEOREM Refinement == Spec => ImplementsWorkSlots
<1>1. Init => Slots!Init
  BY DEF Init, Slots!Init, SLEEP_TS
<1>2. IInv /\ [Next]_vars => [Slots!Next]_(Slots!slotVars)
  <2> SUFFICES ASSUME IInv, [Next]_vars
               PROVE  [Slots!Next]_(Slots!slotVars)
    OBVIOUS
  <2> USE NoWorkAssumption DEF IInv, TypeOK, Slots!Next, Slots!slotVars
  <2>1. CASE Tick \/ Create \/ OnTimer \/ PickNothing \/ Reload
    BY <2>1 DEF Tick, Create, OnTimer, PickNothing, Reload
  <2>2. ASSUME NEW h \in Handle, NEW w \in Work \cup {NoWork}, NEW ts \in 1..(MaxTime - 1),
               SetWork(h, w, ts)
        PROVE  Slots!Put(h, w)
    <3>1. ts # SLEEP_TS
      BY MaxTimeAssumption DEF SLEEP_TS
    <3> QED
      BY <2>2, <3>1 DEF SetWork, Slots!Put
  <2>3. ASSUME NEW h \in Handle, Pick,
               Earliest(slotTs, Ready(slotTs), h),
               slotTs' = [slotTs EXCEPT ![h] = SLEEP_TS],
               work' = slotWork[h],
               tpc' = IF work' = NoWork THEN "reload" ELSE "run"
        PROVE  Slots!Take(h)
    <3>1. slotTs[h] # SLEEP_TS /\ slotWork[h] # NoWork
      BY <2>3 DEF Earliest, Ready, Awake, AwakeHasWork, SLEEP_TS
    <3> QED
      BY <2>3, <3>1 DEF Pick, Slots!Take
  <2>4. CASE RunDone
    BY <2>4 DEF RunDone, Slots!Done
  <2>5. CASE UNCHANGED vars
    BY <2>5 DEF vars
  <2> QED
    BY <2>1, <2>2, <2>3, <2>4, <2>5 DEF Next, TimerThread, Pick
<1> QED
  BY <1>1, <1>2, Invariance, PTL DEF ImplementsWorkSlots, Spec, Slots!Spec
==============================================================================
