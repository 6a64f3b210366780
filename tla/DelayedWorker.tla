---------------------------- MODULE DelayedWorker ----------------------------
(***************************************************************************)
(* platform/delayed_worker.cpp: works that run at a given time.            *)
(*                                                                         *)
(* Every slot has a time stamp (SLEEP_TS when it has nothing to do) and    *)
(* ONE one-shot POSIX timer serves them all: whatever changes the slots    *)
(* must reload it with the earliest time stamp.  The timer's notification  *)
(* runs _OnTimer on a thread that the C library keeps for this timer: it   *)
(* handles one expiry after the other, and expiries that it has not yet    *)
(* handled are one pending signal.  Reloading the timer does not take a    *)
(* pending signal back.                                                    *)
(*                                                                         *)
(* The clock is the variable now.  It may move between any two steps, so   *)
(* every step may be late; the kernel notices an expiry as it happens, but *)
(* the thread may act on it at any time after.  MaxTime bounds the model:  *)
(* clients put works to times before it, and the clock goes past it only   *)
(* as far as the timer still has to run.                                   *)
(*                                                                         *)
(* A definition introduced as "Bug for X" is X with a plausible mistake in *)
(* it, and is no part of the specification: it shows that a property that  *)
(* holds of X is one X could break.                                        *)
(***************************************************************************)
EXTENDS Naturals

CONSTANTS NumSlots,   \* how many handles the modules create
          Work,       \* the works
          NoWork,     \* the null work
          MaxTime     \* the model's horizon

ASSUME NumSlotsAssumption == NumSlots \in Nat \ {0}
ASSUME NoWorkAssumption == NoWork \notin Work
ASSUME MaxTimeAssumption == MaxTime \in Nat \ {0}

Handle == 0..(NumSlots - 1)
SLEEP_TS == 0
MIN_INTERVAL == 1
Disarmed == 0

VARIABLES slotTs,     \* preserveTs of each slot
          slotWork,   \* the work of each slot
          created,    \* slots_.size()
          timer,      \* when the POSIX timer will expire, or Disarmed
          expired,    \* an expiry waits for the timer's thread
          tpc,        \* where the timer's thread is in _OnTimer
          work,       \* its local copy of the work it took last
          now         \* the monotonic clock

vars == <<slotTs, slotWork, created, timer, expired, tpc, work, now>>

TypeOK == /\ slotTs \in [Handle -> Nat]
          /\ slotWork \in [Handle -> Work \cup {NoWork}]
          /\ created \in 0..NumSlots
          /\ timer \in Nat
          /\ expired \in BOOLEAN
          /\ tpc \in {"idle", "pick", "run", "reload"}
          /\ work \in Work \cup {NoWork}
          /\ now \in Nat

Init == /\ slotTs = [h \in Handle |-> SLEEP_TS]
        /\ slotWork = [h \in Handle |-> NoWork]
        /\ created = 0
        /\ timer = Disarmed
        /\ expired = FALSE
        /\ tpc = "idle"
        /\ work = NoWork
        /\ now = 0

-----------------------------------------------------------------------------
(* The timer and the slots. *)

Awake(ts) == {h \in Handle : ts[h] > SLEEP_TS}

\* The slot of S that a scan from index 0 keeps: of several with the same
\* time stamp, the first.
Earliest(ts, S, h) ==
    /\ h \in S
    /\ \A g \in S : ts[h] < ts[g] \/ (ts[h] = ts[g] /\ h <= g)

\* FindEarliestReadyWorkIdx: a work is ready when its time has PASSED.
Ready(ts) == {h \in Awake(ts) : ts[h] < now}

\* Bug for ReloadTimer: a work that is late is given no interval, and an
\* interval of zero disarms the timer.
ReloadTimerWithoutMinimum(ts) ==
    \/ /\ Awake(ts) = {}
       /\ timer' = Disarmed
    \/ \E h \in Handle :
          /\ Earliest(ts, Awake(ts), h)
          /\ timer' = IF ts[h] > now THEN ts[h] ELSE Disarmed

\* Bug for ReloadTimer: the interval is taken for the time of expiry.
ReloadTimerConfusesInterval(ts) ==
    \/ /\ Awake(ts) = {}
       /\ timer' = Disarmed
    \/ \E h \in Handle :
          /\ Earliest(ts, Awake(ts), h)
          /\ timer' = ts[h] - now

\* timer_settime for the slots' time stamps ts, MIN_INTERVAL from now when the
\* earliest of them is not in the future.
ReloadTimer(ts) ==
    \/ /\ Awake(ts) = {}
       /\ timer' = Disarmed
    \/ \E h \in Handle :
          /\ Earliest(ts, Awake(ts), h)
          /\ timer' = IF ts[h] > now THEN ts[h] ELSE now + MIN_INTERVAL

\* The clock advances, and the timer expires when its time comes.
Tick == /\ \/ now < MaxTime
           \/ timer # Disarmed /\ ~expired /\ tpc = "idle"
        /\ now' = now + 1
        /\ expired' = (expired \/ timer = now + 1)
        /\ timer' = IF timer = now + 1 THEN Disarmed ELSE timer
        /\ UNCHANGED <<slotTs, slotWork, created, tpc, work>>

-----------------------------------------------------------------------------
(* The clients, on any thread. *)

Create == /\ created < NumSlots
          /\ created' = created + 1
          /\ UNCHANGED <<slotTs, slotWork, timer, expired, tpc, work, now>>

\* Bug for SetWork: the null work leaves its slot awake.
SetWorkKeepsTime(h, w, ts) ==
    /\ h < created
    /\ now < MaxTime \/ w = NoWork
    /\ slotWork' = [slotWork EXCEPT ![h] = w]
    /\ slotTs' = [slotTs EXCEPT ![h] = ts]
    /\ ReloadTimer(slotTs')
    /\ UNCHANGED <<created, expired, tpc, work, now>>

\* The null work puts its slot to sleep, whatever ts is.
SetWork(h, w, ts) ==
    /\ h < created
    /\ now < MaxTime \/ w = NoWork
    /\ slotWork' = [slotWork EXCEPT ![h] = w]
    /\ slotTs' = [slotTs EXCEPT ![h] = IF w = NoWork THEN SLEEP_TS ELSE ts]
    /\ ReloadTimer(slotTs')
    /\ UNCHANGED <<created, expired, tpc, work, now>>

-----------------------------------------------------------------------------
(* The timer's thread. *)

\* It receives the pending signal and enters _OnTimer.
OnTimer == /\ tpc = "idle"
           /\ expired
           /\ expired' = FALSE
           /\ tpc' = "pick"
           /\ UNCHANGED <<slotTs, slotWork, created, timer, work, now>>

\* Bug for Pick: the slot is not put to sleep.
PickWithoutSleep ==
    /\ tpc = "pick"
    /\ \E h \in Handle :
          /\ Earliest(slotTs, Ready(slotTs), h)
          /\ work' = slotWork[h]
          /\ tpc' = "run"
    /\ UNCHANGED <<slotTs, slotWork, created, timer, expired, now>>

\* The earliest ready work is copied and its slot put to sleep.
Pick == /\ tpc = "pick"
        /\ \E h \in Handle :
              /\ Earliest(slotTs, Ready(slotTs), h)
              /\ slotTs' = [slotTs EXCEPT ![h] = SLEEP_TS]
              /\ work' = slotWork[h]
              /\ tpc' = IF work' = NoWork THEN "reload" ELSE "run"
        /\ UNCHANGED <<slotWork, created, timer, expired, now>>

\* Nothing is ready: the timer was early, or what it was for was cancelled.
PickNothing == /\ tpc = "pick"
               /\ Ready(slotTs) = {}
               /\ tpc' = "reload"
               /\ UNCHANGED <<slotTs, slotWork, created, timer, expired, work, now>>

\* work() returns.
RunDone == /\ tpc = "run"
           /\ tpc' = "reload"
           /\ UNCHANGED <<slotTs, slotWork, created, timer, expired, work, now>>

\* Bug for Reload: the slots that the thread leaves ready are forgotten.
ReloadNothing ==
    /\ tpc = "reload"
    /\ tpc' = "idle"
    /\ UNCHANGED <<slotTs, slotWork, created, timer, expired, work, now>>

Reload == /\ tpc = "reload"
          /\ ReloadTimer(slotTs)
          /\ tpc' = "idle"
          /\ UNCHANGED <<slotTs, slotWork, created, expired, work, now>>

TimerThread == OnTimer \/ Pick \/ PickNothing \/ RunDone \/ Reload

Next == \/ Tick
        \/ Create
        \/ \E h \in Handle, w \in Work \cup {NoWork}, ts \in 1..(MaxTime - 1) : SetWork(h, w, ts)
        \/ TimerThread

(***************************************************************************)
(* Time goes on, and the timer's thread runs when it has something to do   *)
(* (every work returns).  The clients may do anything or nothing.          *)
(***************************************************************************)
Fairness == WF_vars(Tick) /\ WF_vars(TimerThread)

Spec == Init /\ [][Next]_vars /\ Fairness

-----------------------------------------------------------------------------
(* Properties. *)

\* The single timer is never late for any slot.  While the timer's thread has
\* nothing to handle, every slot that is awake is covered: the timer is armed,
\* in the future, and for no later than that slot's time, or than the least
\* interval when that time is past.  Cancelling, re-arming, working off one of
\* several ready slots and expiries that find nothing ready all keep it so.
TimerNotLate ==
    tpc = "idle" /\ ~expired =>
        \A h \in Awake(slotTs) :
            /\ timer > now
            /\ timer <= slotTs[h] \/ timer <= now + MIN_INTERVAL

\* Only a real work keeps a slot awake, so _OnTimer never picks a null one.
AwakeHasWork == \A h \in Awake(slotTs) : slotWork[h] # NoWork

\* The slots are the abstract ones: a work that was set runs at most once, and
\* not at all when it was cancelled before the thread picked it.
Slots == INSTANCE WorkSlots WITH
            slot <- [h \in Handle |-> IF slotTs[h] = SLEEP_TS THEN NoWork ELSE slotWork[h]],
            running <- IF tpc = "run" THEN work ELSE NoWork

ImplementsWorkSlots == Slots!Spec

\* A slot does not stay awake for ever: its work is run, or cancelled (clients
\* stop setting it anew at MaxTime).
EveryWorkIsTaken == \A h \in Handle : slotTs[h] # SLEEP_TS ~> slotTs[h] = SLEEP_TS

=============================================================================
