---------------------------- MODULE Monitors_proofs ----------------------------
(***************************************************************************)
(* Monitors, for any apps and numbers of tasks, any cpusets and delays and *)
(* any number of changes: its types, that no call that is ignored is lost, *)
(* and that the top app and the state of the screen reach DynamicFps.      *)
(***************************************************************************)
EXTENDS Monitors, TLAPS

\* A change of the cpuset behind u is still to be read.
ReadAhead(u) == \/ \E f \in notice : u \in Reaches(f)
                \/ u \in todo \/ dwSlot[u] # NoWork \/ dwRunning = u

\* A query is still to come, or under way and about the app that is on top.
QueryAhead == \/ dwSlot["query"] # NoWork \/ dwRunning = "query" \/ hwSlot["query"] # NoWork
              \/ hwRunning = "query" /\ answer \in {NoApp, top}

IsReading(n) == \/ n = 0 \/ \E b \in App : n = Tasks[b]
                \/ \E b, c \in App : b # c /\ n = Tasks[b] + Tasks[c]

OwnWork == /\ \A h \in Delayed : dwSlot[h] \in {h, NoWork}
           /\ prev # top
           /\ answer # NoApp => hwRunning = "query"

Covered == ~fresh => \A u \in recent : dwSlot[u] # NoWork /\ left[u] >= 1

\* Before DynamicFps listens nothing is counted or published.
Unheard == /\ fresh => /\ recent = Updater /\ dwRunning = NoWork
                       /\ \A h \in Delayed : dwSlot[h] = NoWork
           /\ owed \/ owedRe \/ topappNr # 0 => Ready
           /\ prevPkgName = heardApp

ScreenInv == /\ owedRe => ReadAhead("re") \/ prevOffscreen = IsOffscreen(restricted)
             /\ ~early => heardOffscreen = prevOffscreen
             /\ ~early /\ started # "running" => ~prevOffscreen /\ ~IsOffscreen(restricted)

\* The number that is remembered is that of the last read; it is near to that
\* of today, or today's is still to be read.
NumberInv == /\ IsReading(topappNr)
             /\ topappNr # 0 => ReadAhead("ta") \/ ~Differ(TopTasks, topappNr)

\* An owed switch is not yet noticed, or is being asked about, or was heard.
SwitchInv == owed /\ Distinct(top) =>
                \/ (prev # NoApp \/ ReadAhead("ta")) /\ Differ(Tasks[top], topappNr)
                \/ QueryAhead
                \/ heardApp = top /\ answer \in {NoApp, top}

IInv == TypeOK /\ OwnWork /\ Covered /\ Unheard /\ ScreenInv /\ NumberInv /\ SwitchInv

-----------------------------------------------------------------------------
(* The numbers and the workers have their types. *)

LEMMA DelayOfType == \A h \in Delayed : DelayOf(h) \in Nat /\ DelayOf(h) >= 1
  BY DelayAssumption DEF DelayOf

LEMMA DelayedWorks == "ta" \in Delayed /\ "re" \in Delayed /\ "query" \in Delayed
  BY DEF Delayed, Updater

LEMMA TopTasksType == TypeOK => TopTasks \in Nat
  BY AppAssumption DEF TypeOK, TopTasks

\* The device and what is noticed of it.
DeviceTypes == /\ top \in App /\ prev \in App \cup {NoApp} /\ restricted \in Counts
               /\ changes \in 0..MaxChanges
               /\ notice \subseteq Cpuset
               /\ started \in Stage
               /\ todo \subseteq Updater /\ recent \subseteq Updater

WorkTypes == /\ left \in [Delayed -> Nat]
             /\ DW!TypeOK /\ HW!TypeOK

MonitorTypes == /\ {answer, prevPkgName, heardApp} \subseteq App \cup {NoApp}
                /\ topappNr \in Nat

FlagTypes == {prevOffscreen, heardOffscreen, fresh, owed, owedRe, early} \subseteq BOOLEAN

LEMMA TypeParts == TypeOK <=> DeviceTypes /\ WorkTypes /\ MonitorTypes /\ FlagTypes
  BY DEF TypeOK, DeviceTypes, WorkTypes, MonitorTypes, FlagTypes

LEMMA InitTypes == Init => TypeOK
<1> SUFFICES ASSUME Init
             PROVE  TypeOK
  OBVIOUS
<1>1. DeviceTypes
  BY MaxChangesAssumption DEF Init, DeviceTypes, Stage
<1>2. WorkTypes
  BY DEF Init, WorkTypes, DW!Init, DW!TypeOK, HW!Init, HW!TypeOK
<1>3. MonitorTypes
  BY DEF Init, MonitorTypes
<1>4. FlagTypes
  <2>1. IsOffscreen(restricted) \in BOOLEAN
    BY DEF IsOffscreen
  <2> QED
    BY <2>1 DEF Init, FlagTypes
<1> QED
  BY <1>1, <1>2, <1>3, <1>4, TypeParts

LEMMA NextDeviceTypes == TypeOK /\ [Next]_vars => DeviceTypes'
<1> SUFFICES ASSUME TypeOK, [Next]_vars
             PROVE  DeviceTypes'
  OBVIOUS
<1> USE DEF TypeOK, DeviceTypes, deviceVars, ghostVars, listenerVars, dwVars, hwVars, monitorVars
<1>1. CASE \E a \in App : SwitchTop(a)
  BY <1>1, CpusetAssumption, MaxChangesAssumption DEF SwitchTop, Change, Write
<1>2. CASE \E f \in Cpuset \ {"ta", "re"} : LeaveTop(f)
  BY <1>2 DEF LeaveTop, Write
<1>3. CASE \E n \in Counts, f \in Cpuset : Restrict(n, f)
  BY <1>3, MaxChangesAssumption DEF Restrict, Change, Write
<1>4. CASE \E f \in Cpuset : Stir(f)
  BY <1>4, MaxChangesAssumption DEF Stir, Change, Write
<1>5. CASE Tick
  BY <1>5 DEF Tick
<1>6. CASE StartModule
  BY <1>6 DEF StartModule, Stage
<1>7. CASE InotifyThread
  BY <1>7 DEF InotifyThread, OnModified, UpdaterStart, Reaches, Updater
<1>8. CASE TimerThread
  BY <1>8 DEF TimerThread, TakeDelayed, OnTopappList, OnRestrictedList, PutQuery
<1>9. CASE HeavyThread
  BY <1>9 DEF HeavyThread, TakeQuery, Ask, AskFails, Publish
<1>10. CASE UNCHANGED vars
  BY <1>10 DEF vars
<1> QED
  BY <1>1, <1>2, <1>3, <1>4, <1>5, <1>6, <1>7, <1>8, <1>9, <1>10 DEF Next, Device

LEMMA NextWorkTypes == TypeOK /\ [Next]_vars => WorkTypes'
<1> SUFFICES ASSUME TypeOK, [Next]_vars
             PROVE  WorkTypes'
  OBVIOUS
<1> USE DEF TypeOK, WorkTypes, DW!TypeOK, HW!TypeOK, dwVars, hwVars
<1>1. CASE Device
  BY <1>1 DEF Device, SwitchTop, LeaveTop, Restrict, Stir, Change
<1>2. CASE Tick
  BY <1>2 DEF Tick
<1>3. CASE StartModule
  BY <1>3 DEF StartModule
<1>4. CASE InotifyThread
  BY <1>4, DelayOfType DEF InotifyThread, OnModified, UpdaterStart, PutDelayed, DW!Put, Delayed
<1>5. CASE \E h \in Delayed : TakeDelayed(h)
  BY <1>5 DEF TakeDelayed, DW!Take
<1>6. CASE OnTopappList
  BY <1>6, DelayAssumption, DelayedWorks DEF OnTopappList
<1>7. CASE OnRestrictedList
  BY <1>7 DEF OnRestrictedList
<1>8. CASE PutQuery
  BY <1>8 DEF PutQuery, HW!Put
<1>9. CASE HeavyThread
  BY <1>9 DEF HeavyThread, TakeQuery, Ask, AskFails, Publish, HW!Take, HW!Done
<1>10. CASE UNCHANGED vars
  BY <1>10 DEF vars
<1> QED
  BY <1>1, <1>2, <1>3, <1>4, <1>5, <1>6, <1>7, <1>8, <1>9, <1>10 DEF Next, TimerThread

LEMMA NextMonitorTypes == TypeOK /\ [Next]_vars => MonitorTypes'
<1> SUFFICES ASSUME TypeOK, [Next]_vars
             PROVE  MonitorTypes'
  OBVIOUS
<1> USE DEF TypeOK, MonitorTypes, hwVars, monitorVars
<1>1. CASE Device
  BY <1>1 DEF Device, SwitchTop, LeaveTop, Restrict, Stir, Change
<1>2. CASE Tick \/ StartModule
  BY <1>2 DEF Tick, StartModule
<1>3. CASE InotifyThread
  BY <1>3 DEF InotifyThread, OnModified, UpdaterStart
<1>4. CASE TimerThread
  BY <1>4, TopTasksType DEF TimerThread, TakeDelayed, OnTopappList, OnRestrictedList, PutQuery
<1>5. CASE HeavyThread
  BY <1>5 DEF HeavyThread, TakeQuery, Ask, AskFails, Publish
<1>6. CASE UNCHANGED vars
  BY <1>6 DEF vars
<1> QED
  BY <1>1, <1>2, <1>3, <1>4, <1>5, <1>6 DEF Next

LEMMA NextFlagTypes == TypeOK /\ [Next]_vars => FlagTypes'
<1> SUFFICES ASSUME TypeOK, [Next]_vars
             PROVE  FlagTypes'
  OBVIOUS
<1> USE DEF TypeOK, FlagTypes, monitorVars, ghostVars
<1>1. CASE Device
  <2>1. \A f \in Cpuset : (Ready /\ TopIsRead) \in BOOLEAN /\ (Ready /\ f \in {"re", "fg"}) \in BOOLEAN
    OBVIOUS
  <2>2. \A n \in Counts : (early \/ (started # "running" /\ IsOffscreen(n))) \in BOOLEAN
    OBVIOUS
  <2> QED
    BY ONLY TypeOK, <1>1, <2>1, <2>2, Zenon DEF Device, SwitchTop, LeaveTop, Restrict, Stir, Change,
       TypeOK, FlagTypes, monitorVars, ghostVars
<1>2. CASE Tick \/ StartModule
  BY <1>2 DEF Tick, StartModule
<1>3. CASE InotifyThread
  BY <1>3 DEF InotifyThread, OnModified, UpdaterStart
<1>4. CASE TimerThread
  <2>1. IsOffscreen(restricted) \in BOOLEAN
    BY DEF IsOffscreen
  <2> QED
    BY <1>4, <2>1 DEF TimerThread, TakeDelayed, OnTopappList, OnRestrictedList, PutQuery
<1>5. CASE HeavyThread
  BY <1>5 DEF HeavyThread, TakeQuery, Ask, AskFails, Publish
<1>6. CASE UNCHANGED vars
  BY <1>6 DEF vars
<1> QED
  BY <1>1, <1>2, <1>3, <1>4, <1>5, <1>6 DEF Next

LEMMA NextTypes == TypeOK /\ [Next]_vars => TypeOK'
<1>1. DeviceTypes' /\ WorkTypes' /\ MonitorTypes' /\ FlagTypes' => TypeOK'
  BY DEF TypeOK, DeviceTypes, WorkTypes, MonitorTypes, FlagTypes
<1> QED
  BY <1>1, NextDeviceTypes, NextWorkTypes, NextMonitorTypes, NextFlagTypes

-----------------------------------------------------------------------------
(* What no step breaks. *)

LEMMA NextOwnWork == TypeOK /\ OwnWork /\ [Next]_vars => OwnWork'
<1> SUFFICES ASSUME TypeOK, OwnWork, [Next]_vars
             PROVE  OwnWork'
  OBVIOUS
<1> USE DEF TypeOK, OwnWork, DW!TypeOK, dwVars, hwVars, deviceVars
<1>1. CASE Device
  BY <1>1, AppAssumption DEF Device, SwitchTop, LeaveTop, Restrict, Stir, Change
<1>2. CASE Tick \/ StartModule
  BY <1>2 DEF Tick, StartModule
<1>3. CASE InotifyThread
  BY <1>3 DEF InotifyThread, OnModified, UpdaterStart, PutDelayed, DW!Put, Delayed
<1>4. CASE \E h \in Delayed : TakeDelayed(h)
  BY <1>4 DEF TakeDelayed, DW!Take
<1>5. CASE OnTopappList
  BY <1>5, DelayedWorks DEF OnTopappList
<1>6. CASE OnRestrictedList \/ PutQuery
  BY <1>6 DEF OnRestrictedList, PutQuery, HW!Put
<1>7. CASE HeavyThread
  <2>1. CASE TakeQuery
    BY <2>1 DEF TakeQuery, HW!Take, HW!TypeOK
  <2>2. CASE Ask \/ AskFails \/ Publish
    BY <2>2 DEF Ask, AskFails, Publish, HW!Done
  <2> QED
    BY <1>7, <2>1, <2>2 DEF HeavyThread
<1>8. CASE UNCHANGED vars
  BY <1>8 DEF vars
<1> QED
  BY <1>1, <1>2, <1>3, <1>4, <1>5, <1>6, <1>7, <1>8 DEF Next, TimerThread

LEMMA NextCovered == TypeOK /\ OwnWork /\ Covered /\ [Next]_vars => Covered'
<1> SUFFICES ASSUME TypeOK, OwnWork, Covered, [Next]_vars
             PROVE  Covered'
  OBVIOUS
<1> USE DEF TypeOK, Covered, DW!TypeOK, dwVars, ghostVars, listenerVars
<1>1. CASE Device
  BY <1>1 DEF Device, SwitchTop, LeaveTop, Restrict, Stir, Change
<1>2. CASE Tick
  BY <1>2 DEF Tick
<1>3. CASE StartModule
  BY <1>3 DEF StartModule
<1>4. CASE \E f \in notice : OnModified(f)
  BY <1>4 DEF OnModified
<1>5. ASSUME NEW u \in Updater, UpdaterStart(u)
      PROVE  Covered'
  <2>1. CASE HasSubscriber(u) /\ u \notin recent
    <3>1. u \in Delayed /\ u # NoWork
      BY WorkAssumption DEF Delayed
    <3>2. /\ recent' = recent \cup {u} /\ fresh' = fresh
          /\ dwSlot' = [dwSlot EXCEPT ![u] = u]
          /\ left' = [left EXCEPT ![u] = DelayOf(u)]
      BY <1>5, <2>1 DEF UpdaterStart, PutDelayed, DW!Put
    <3>3. recent \subseteq Delayed
      BY DEF Delayed
    <3>4. ASSUME NEW v \in recent'
          PROVE  \/ dwSlot'[v] # NoWork /\ left'[v] >= 1
                 \/ v \in recent /\ dwSlot'[v] = dwSlot[v] /\ left'[v] = left[v]
      <4>1. CASE v = u
        <5>1. left'[u] = DelayOf(u) /\ dwSlot'[u] = u
          BY <3>1, <3>2
        <5>2. DelayOf(u) >= 1
          BY <3>1, DelayOfType
        <5> QED
          BY <4>1, <5>1, <5>2, <3>1
      <4>2. CASE v # u
        BY <4>2, <3>2, <3>3
      <4> QED
        BY <4>1, <4>2
    <3> QED
      BY <3>2, <3>4
  <2>2. CASE ~(HasSubscriber(u) /\ u \notin recent)
    BY <1>5, <2>2 DEF UpdaterStart
  <2> QED
    BY <2>1, <2>2
<1>6. ASSUME NEW h \in Delayed, TakeDelayed(h)
      PROVE  Covered'
  \* A work that is taken has nothing left.
  <2>1. /\ left[h] = 0 /\ left' = left /\ recent' = recent /\ fresh' = fresh
        /\ dwSlot' = [dwSlot EXCEPT ![h] = NoWork]
    BY <1>6 DEF TakeDelayed, DW!Take
  <2>2. recent \subseteq Delayed
    BY DEF Delayed
  <2> QED
    BY <2>1, <2>2
<1>7. CASE OnTopappList
  <2>1. recent' = recent /\ fresh' = fresh
    BY <1>7 DEF OnTopappList
  <2>2. \A u \in recent : u \in Delayed /\ u # "query"
    BY DEF Delayed, Updater
  <2>3. \A u \in recent : dwSlot'[u] = dwSlot[u] /\ left'[u] = left[u]
    BY <1>7, <2>2 DEF OnTopappList
  <2> QED
    BY <2>1, <2>3
<1>8. CASE OnRestrictedList \/ PutQuery
  BY <1>8 DEF OnRestrictedList, PutQuery
<1>9. CASE HeavyThread
  BY <1>9 DEF HeavyThread, TakeQuery, Ask, AskFails, Publish
<1>10. CASE UNCHANGED vars
  BY <1>10 DEF vars
<1> QED
  BY <1>1, <1>2, <1>3, <1>4, <1>5, <1>6, <1>7, <1>8, <1>9, <1>10
     DEF Next, InotifyThread, TimerThread

LEMMA NextUnheard == TypeOK /\ Unheard /\ [Next]_vars => Unheard'
<1> SUFFICES ASSUME TypeOK, Unheard, [Next]_vars
             PROVE  Unheard'
  OBVIOUS
<1> USE DEF TypeOK, Unheard, Ready, DW!TypeOK, dwVars, ghostVars, monitorVars, listenerVars
<1>1. CASE Device
  BY <1>1 DEF Device, SwitchTop, LeaveTop, Restrict, Stir, Change
<1>2. CASE Tick
  BY <1>2 DEF Tick
<1>3. CASE StartModule
  BY <1>3 DEF StartModule
<1>4. CASE InotifyThread
  BY <1>4 DEF InotifyThread, OnModified, UpdaterStart
<1>5. CASE \E h \in Delayed : TakeDelayed(h)
  BY <1>5 DEF TakeDelayed, DW!Take
<1>6. CASE OnTopappList
  BY <1>6, DelayedWorks, WorkAssumption DEF OnTopappList, DynamicFpsListens
<1>7. CASE OnRestrictedList \/ PutQuery
  BY <1>7, DelayedWorks, WorkAssumption DEF OnRestrictedList, PutQuery
<1>8. CASE HeavyThread
  BY <1>8 DEF HeavyThread, TakeQuery, Ask, AskFails, Publish
<1>9. CASE UNCHANGED vars
  BY <1>9 DEF vars
<1> QED
  BY <1>1, <1>2, <1>3, <1>4, <1>5, <1>6, <1>7, <1>8, <1>9 DEF Next, TimerThread

-----------------------------------------------------------------------------
(* What is to be read stays so until it is read. *)

LEMMA NoticeIsAhead ==
    ASSUME NEW u \in Updater, NEW f \in Cpuset, Write(f), started # "constructed", u \in Reaches(f)
    PROVE  ReadAhead(u)'
  BY DEF Write, ReadAhead

LEMMA ReadAheadKept ==
    ASSUME TypeOK, OwnWork, Covered, Unheard, Ready, [Next]_vars,
           NEW u \in Updater, ReadAhead(u)
    PROVE  ReadAhead(u)' \/ (dwRunning = u /\ dwRunning' # u)
<1> USE DEF TypeOK, ReadAhead, DW!TypeOK, dwVars, listenerVars
<1>1. CASE Device
  BY <1>1 DEF Device, SwitchTop, LeaveTop, Restrict, Stir, Change, Write
<1>2. CASE Tick \/ StartModule
  BY <1>2 DEF Tick, StartModule
<1>3. ASSUME NEW f \in notice, OnModified(f)
      PROVE  ReadAhead(u)'
  <2>1. notice' = notice \ {f} /\ todo' = Reaches(f) /\ dwSlot' = dwSlot /\ dwRunning' = dwRunning
    BY <1>3 DEF OnModified
  <2> QED
    BY <1>3, <2>1 DEF OnModified
<1>4. ASSUME NEW v \in Updater, UpdaterStart(v)
      PROVE  ReadAhead(u)'
  <2>1. notice' = notice /\ dwRunning' = dwRunning /\ todo' = todo \ {v}
    BY <1>4 DEF UpdaterStart, PutDelayed, DW!Put
  <2>2. v \in Delayed /\ v # NoWork /\ u \in Delayed
    BY WorkAssumption DEF Delayed
  <2>3. dwSlot' \in {dwSlot, [dwSlot EXCEPT ![v] = v]}
    BY <1>4 DEF UpdaterStart, PutDelayed, DW!Put
  <2>4. dwSlot'[v] # NoWork
    <3>1. CASE v \in recent
      BY <1>4, <3>1 DEF UpdaterStart, Covered, Ready
    <3>2. CASE v \notin recent
      <4>1. HasSubscriber(v)
        BY DEF HasSubscriber, Ready
      <4> QED
        BY <1>4, <2>2, <3>2, <4>1 DEF UpdaterStart, PutDelayed, DW!Put
    <3> QED
      BY <3>1, <3>2
  <2>5. u # v => dwSlot'[u] = dwSlot[u]
    BY <2>2, <2>3
  <2> QED
    BY <2>1, <2>4, <2>5
<1>5. ASSUME NEW h \in Delayed, TakeDelayed(h)
      PROVE  ReadAhead(u)'
  <2>1. /\ dwRunning = NoWork /\ dwSlot[h] # NoWork /\ dwRunning' = dwSlot[h]
        /\ dwSlot' = [dwSlot EXCEPT ![h] = NoWork] /\ notice' = notice /\ todo' = todo
    BY <1>5 DEF TakeDelayed, DW!Take
  <2>2. u \in Delayed /\ dwSlot[h] = h
    BY <2>1 DEF Delayed, OwnWork
  <2>3. u # NoWork
    BY <2>2, WorkAssumption
  <2>4. h # u => dwSlot'[u] = dwSlot[u]
    BY <2>1, <2>2
  <2> QED
    BY <2>1, <2>2, <2>3, <2>4
<1>6. CASE OnTopappList
  <2>1. dwRunning = "ta" /\ dwRunning' = NoWork /\ notice' = notice /\ todo' = todo
    BY <1>6 DEF OnTopappList
  <2>2. u \in Delayed /\ u # "query" /\ u # NoWork
    BY WorkAssumption DEF Delayed, Updater
  <2>3. dwSlot'[u] = dwSlot[u]
    BY <1>6, <2>2 DEF OnTopappList
  <2> QED
    BY <2>1, <2>2, <2>3
<1>7. CASE OnRestrictedList
  BY <1>7, WorkAssumption DEF OnRestrictedList, Delayed
<1>8. CASE PutQuery
  BY <1>8 DEF PutQuery, Updater
<1>9. CASE HeavyThread
  BY <1>9 DEF HeavyThread, TakeQuery, Ask, AskFails, Publish
<1>10. CASE UNCHANGED vars
  BY <1>10 DEF vars
<1> QED
  BY <1>1, <1>2, <1>3, <1>4, <1>5, <1>6, <1>7, <1>8, <1>9, <1>10
     DEF Next, InotifyThread, TimerThread

LEMMA NextScreenInv ==
    TypeOK /\ OwnWork /\ Covered /\ Unheard /\ ScreenInv /\ [Next]_vars => ScreenInv'
<1> SUFFICES ASSUME TypeOK, OwnWork, Covered, Unheard, ScreenInv, [Next]_vars
             PROVE  ScreenInv'
  OBVIOUS
<1> USE DEF deviceVars, ghostVars, monitorVars, dwVars
<1>1. ASSUME UNCHANGED <<restricted, owedRe, prevOffscreen, heardOffscreen, early>>,
             started' # "running" => started # "running",
             dwRunning = "re" => dwRunning' = "re"
      PROVE  ScreenInv'
  BY <1>1, ReadAheadKept DEF Unheard, ScreenInv, Updater, IsOffscreen
<1>2. ASSUME NEW n \in Counts, NEW f \in Cpuset, Restrict(n, f)
      PROVE  ScreenInv'
  <2>1. /\ restricted' = n /\ Write(f) /\ owedRe' = (Ready /\ f \in {"re", "fg"})
        /\ early' = (early \/ (started # "running" /\ IsOffscreen(n)))
        /\ UNCHANGED <<started, prevOffscreen, heardOffscreen>>
    BY <1>2 DEF Restrict, Change
  <2>2. owedRe' => ReadAhead("re")'
    BY <2>1, NoticeIsAhead DEF Ready, Updater, Reaches
  <2> QED
    BY <2>1, <2>2 DEF ScreenInv, IsOffscreen
<1>3. CASE OnRestrictedList
  <2>1. /\ UNCHANGED <<restricted, owedRe, early, started>>
        /\ prevOffscreen' = IsOffscreen(restricted)
        /\ heardOffscreen' = IF DynamicFpsListens /\ prevOffscreen' # prevOffscreen
                             THEN prevOffscreen' ELSE heardOffscreen
    BY <1>3 DEF OnRestrictedList
  <2>2. prevOffscreen \in BOOLEAN /\ IsOffscreen(restricted) \in BOOLEAN
    BY DEF TypeOK, IsOffscreen
  <2> QED
    BY <2>1, <2>2 DEF ScreenInv, IsOffscreen, DynamicFpsListens
<1>4. CASE \/ \E a \in App : SwitchTop(a)
           \/ \E f \in Cpuset \ {"ta", "re"} : LeaveTop(f)
           \/ \E f \in Cpuset : Stir(f)
  BY <1>1, <1>4 DEF SwitchTop, LeaveTop, Stir, Change
<1>5. CASE Tick \/ StartModule
  BY <1>1, <1>5 DEF Tick, StartModule
<1>6. CASE InotifyThread
  BY <1>1, <1>6 DEF InotifyThread, OnModified, UpdaterStart, PutDelayed, DW!Put
<1>7. CASE \E h \in Delayed : TakeDelayed(h)
  BY <1>1, <1>7, WorkAssumption DEF TakeDelayed, DW!Take, Delayed, Updater
<1>8. CASE OnTopappList \/ PutQuery
  BY <1>1, <1>8 DEF OnTopappList, PutQuery
<1>9. CASE HeavyThread
  BY <1>1, <1>9 DEF HeavyThread, TakeQuery, Ask, AskFails, Publish
<1>10. CASE UNCHANGED vars
  BY <1>1, <1>10 DEF vars
<1> QED
  BY <1>2, <1>3, <1>4, <1>5, <1>6, <1>7, <1>8, <1>9, <1>10 DEF Next, Device, TimerThread

LEMMA DifferFacts ==
    /\ \A m \in Nat : ~Differ(m, m)
    /\ \A m, n \in Nat : Differ(m, n) <=> Differ(n, m)
  BY DEF Differ, TOP_TASK_NR_DIFF_MIN

LEMMA TasksType == \A a \in App : Tasks[a] \in Nat /\ a # NoApp
  BY AppAssumption

LEMMA NextNumberInv ==
    TypeOK /\ OwnWork /\ Covered /\ Unheard /\ NumberInv /\ [Next]_vars => NumberInv'
<1> SUFFICES ASSUME TypeOK, OwnWork, Covered, Unheard, NumberInv, [Next]_vars
             PROVE  NumberInv'
  OBVIOUS
<1> USE DEF deviceVars, ghostVars, monitorVars, dwVars
<1>1. ASSUME UNCHANGED <<top, prev, topappNr>>, dwRunning = "ta" => dwRunning' = "ta"
      PROVE  NumberInv'
  BY <1>1, ReadAheadKept DEF Unheard, NumberInv, IsReading, Updater, TopTasks
<1>2. ASSUME topappNr' = topappNr, NEW f \in Cpuset \ {"re"}, Write(f)
      PROVE  NumberInv'
  <2>1. topappNr # 0 => ReadAhead("ta")'
    BY <1>2, NoticeIsAhead DEF Unheard, Ready, Updater, Reaches
  <2> QED
    BY <1>2, <2>1 DEF NumberInv, IsReading
<1>3. CASE \E a \in App : SwitchTop(a)
  BY <1>2, <1>3, CpusetAssumption DEF SwitchTop, Change
<1>4. CASE \E f \in Cpuset \ {"ta", "re"} : LeaveTop(f)
  BY <1>2, <1>4 DEF LeaveTop
<1>5. CASE OnTopappList
  <2>1. UNCHANGED <<top, prev>> /\ topappNr' \in {topappNr, TopTasks}
    BY <1>5 DEF OnTopappList
  <2>2. ~DynamicFpsListens => topappNr' = topappNr /\ topappNr = 0
    BY <1>5 DEF OnTopappList, Unheard, Ready, DynamicFpsListens
  <2>3. topappNr' # 0 => ~Differ(TopTasks, topappNr')
    BY <1>5, <2>2, DifferFacts, TopTasksType DEF OnTopappList
  <2>4. IsReading(TopTasks)
    <3>1. CASE prev = NoApp
      BY <3>1, TasksType DEF TypeOK, IsReading, TopTasks
    <3>2. CASE prev # NoApp
      BY <3>2 DEF TypeOK, OwnWork, IsReading, TopTasks
    <3> QED
      BY <3>1, <3>2
  <2> QED
    BY <2>1, <2>3, <2>4 DEF NumberInv, IsReading, TopTasks
<1>6. CASE \/ \E n \in Counts, f \in Cpuset : Restrict(n, f)
           \/ \E f \in Cpuset : Stir(f)
  BY <1>1, <1>6 DEF Restrict, Stir, Change
<1>7. CASE Tick \/ StartModule
  BY <1>1, <1>7 DEF Tick, StartModule
<1>8. CASE InotifyThread
  BY <1>1, <1>8 DEF InotifyThread, OnModified, UpdaterStart, PutDelayed, DW!Put
<1>9. CASE \E h \in Delayed : TakeDelayed(h)
  BY <1>1, <1>9, WorkAssumption DEF TakeDelayed, DW!Take, Delayed, Updater
<1>10. CASE OnRestrictedList \/ PutQuery
  BY <1>1, <1>10 DEF OnRestrictedList, PutQuery
<1>11. CASE HeavyThread
  BY <1>1, <1>11 DEF HeavyThread, TakeQuery, Ask, AskFails, Publish
<1>12. CASE UNCHANGED vars
  BY <1>1, <1>12 DEF vars
<1> QED
  BY <1>3, <1>4, <1>5, <1>6, <1>7, <1>8, <1>9, <1>10, <1>11, <1>12 DEF Next, Device, TimerThread

\* The number that is remembered when an app has been read is not taken for
\* that of a distinct app that follows it.
LEMMA DistinctIsNoticed ==
    ASSUME TypeOK, OwnWork, NumberInv, TopIsRead,
           NEW a \in App, a # top, Distinct(a)
    PROVE  Differ(Tasks[a], topappNr)
<1>1. CASE topappNr = 0
  BY <1>1 DEF Distinct
<1>2. CASE topappNr # 0
  <2>1. ~ReadAhead("ta")
    BY DEF TopIsRead, ReadAhead, Reaches
  <2>2. ~Differ(Tasks[top], topappNr)
    BY <1>2, <2>1, TasksType DEF NumberInv, TopIsRead, TypeOK, TopTasks
  <2>3. ASSUME NEW b \in App, topappNr = Tasks[b]
        PROVE  Differ(Tasks[a], topappNr)
    <3>1. b # a
      BY <2>2, <2>3, DifferFacts, TasksType DEF Distinct, TypeOK
    <3> QED
      BY <2>3, <3>1 DEF Distinct
  <2> QED
    BY <1>2, <2>3 DEF NumberInv, IsReading, Distinct
<1> QED
  BY <1>1, <1>2

Asked == QueryAhead \/ (heardApp = top /\ answer \in {NoApp, top})

Unnoticed == (prev # NoApp \/ ReadAhead("ta")) /\ Differ(Tasks[top], topappNr)

LEMMA SwitchInvIs == SwitchInv <=> (owed /\ Distinct(top) => Unnoticed \/ Asked)
  BY DEF SwitchInv, Unnoticed, Asked

\* Asking is not given up, except by a query that fails.
LEMMA AskedKept ==
    ASSUME TypeOK, OwnWork, Unheard, [Next]_vars, Asked, top' = top, owed'
    PROVE  Asked'
<1> USE DEF Asked, QueryAhead, TypeOK, OwnWork, monitorVars, dwVars, hwVars
<1>1. ASSUME UNCHANGED <<answer, heardApp, hwSlot, hwRunning>>,
             dwSlot["query"] # NoWork => dwSlot'["query"] # NoWork \/ dwRunning' = "query",
             dwRunning = "query" => dwRunning' = "query"
      PROVE  Asked'
  BY <1>1
<1>2. CASE Device
  BY <1>1, <1>2 DEF Device, SwitchTop, LeaveTop, Restrict, Stir, Change
<1>3. CASE Tick \/ StartModule
  BY <1>1, <1>3 DEF Tick, StartModule
<1>4. CASE InotifyThread
  <2>1. ASSUME NEW f \in notice, OnModified(f)
        PROVE  Asked'
    BY <1>1, <2>1 DEF OnModified
  <2>2. ASSUME NEW u \in Updater, UpdaterStart(u)
        PROVE  Asked'
    <3>1. dwSlot' \in {dwSlot, [dwSlot EXCEPT ![u] = u]} /\ u # "query"
      BY <2>2 DEF UpdaterStart, PutDelayed, DW!Put, Updater
    <3>2. dwSlot'["query"] = dwSlot["query"]
      BY <3>1, DelayedWorks DEF DW!TypeOK
    <3>3. UNCHANGED <<answer, heardApp, hwSlot, hwRunning, dwRunning>>
      BY <2>2 DEF UpdaterStart, PutDelayed, DW!Put
    <3> QED
      BY <1>1, <3>2, <3>3
  <2> QED
    BY <1>4, <2>1, <2>2 DEF InotifyThread
<1>5. ASSUME NEW h \in Delayed, TakeDelayed(h)
      PROVE  Asked'
  <2>1. /\ dwRunning = NoWork /\ dwRunning' = dwSlot[h] /\ dwSlot[h] # NoWork
        /\ dwSlot' = [dwSlot EXCEPT ![h] = NoWork]
        /\ UNCHANGED <<answer, heardApp, hwSlot, hwRunning>>
    BY <1>5 DEF TakeDelayed, DW!Take
  <2>2. dwSlot["query"] # NoWork => dwSlot'["query"] # NoWork \/ dwRunning' = "query"
    BY <2>1, DelayedWorks DEF DW!TypeOK
  <2> QED
    BY <1>1, <2>1, <2>2, WorkAssumption, DelayedWorks
<1>6. CASE OnTopappList
  <2>1. dwSlot["query"] # NoWork => dwSlot'["query"] # NoWork
    BY <1>6, WorkAssumption, DelayedWorks DEF OnTopappList, DW!TypeOK
  <2> QED
    BY <1>1, <1>6, <2>1 DEF OnTopappList
<1>7. CASE OnRestrictedList
  BY <1>1, <1>7 DEF OnRestrictedList
<1>8. CASE PutQuery
  BY <1>8, WorkAssumption, DelayedWorks DEF PutQuery, HW!Put, HW!TypeOK
<1>9. CASE TakeQuery
  BY <1>9, WorkAssumption, DelayedWorks DEF TakeQuery, HW!Take, HW!TypeOK
<1>10. CASE Ask
  BY <1>10 DEF Ask
<1>11. CASE AskFails
  BY <1>11 DEF AskFails
<1>12. CASE Publish
  BY <1>12 DEF Publish, HW!Done, Unheard
<1>13. CASE UNCHANGED vars
  BY <1>1, <1>13 DEF vars
<1> QED
  BY <1>2, <1>3, <1>4, <1>5, <1>6, <1>7, <1>8, <1>9, <1>10, <1>11, <1>12, <1>13
     DEF Next, TimerThread, HeavyThread

LEMMA NextSwitchInv ==
    TypeOK /\ OwnWork /\ Covered /\ Unheard /\ NumberInv /\ SwitchInv /\ [Next]_vars => SwitchInv'
<1> SUFFICES ASSUME TypeOK, OwnWork, Covered, Unheard, NumberInv, SwitchInv, [Next]_vars,
                    owed', Distinct(top)'
             PROVE  Unnoticed' \/ Asked'
  BY DEF SwitchInv, Unnoticed, Asked
<1> USE DEF deviceVars, ghostVars, monitorVars, dwVars
<1>1. ASSUME NEW a \in App, SwitchTop(a)
      PROVE  Unnoticed'
  <2>1. /\ Ready /\ TopIsRead /\ a # top /\ top' = a /\ prev' = top /\ topappNr' = topappNr
    BY <1>1 DEF SwitchTop, Change
  <2>2. Distinct(a)
    BY <2>1 DEF Distinct
  <2> QED
    BY <2>1, <2>2, DistinctIsNoticed, TasksType DEF Unnoticed, TypeOK
<1>2. ASSUME top' = top, owed, Unnoticed \/ Asked => Unnoticed' \/ Asked
      PROVE  Unnoticed' \/ Asked'
  <2>1. Unnoticed \/ Asked
    BY <1>2, SwitchInvIs DEF Distinct
  <2> QED
    BY <1>2, <2>1, AskedKept
<1>3. ASSUME UNCHANGED <<top, prev, topappNr>>, owed, dwRunning = "ta" => dwRunning' = "ta"
      PROVE  Unnoticed' \/ Asked'
  <2>1. ReadAhead("ta") => ReadAhead("ta")'
    BY <1>3, ReadAheadKept DEF Unheard, Updater
  <2> QED
    BY <1>2, <1>3, <2>1 DEF Unnoticed
<1>4. ASSUME NEW f \in Cpuset \ {"ta", "re"}, LeaveTop(f)
      PROVE  Unnoticed' \/ Asked'
  <2>1. top' = top /\ owed' = owed /\ topappNr' = topappNr /\ Write(f)
    BY <1>4 DEF LeaveTop
  <2>2. ReadAhead("ta")'
    BY <2>1, NoticeIsAhead DEF Unheard, Ready, Updater, Reaches
  <2> QED
    BY <1>2, <2>1, <2>2 DEF Unnoticed
<1>5. CASE OnTopappList
  <2>1. top' = top /\ prev' = prev /\ owed' = owed
    BY <1>5 DEF OnTopappList
  <2>2. DynamicFpsListens
    BY <2>1 DEF Unheard, Ready, DynamicFpsListens
  <2>3. CASE Differ(TopTasks, topappNr)
    <3>1. dwSlot'["query"] = "query"
      BY <1>5, <2>2, <2>3, DelayedWorks DEF OnTopappList, TypeOK, DW!TypeOK
    <3> QED
      BY <3>1, WorkAssumption, DelayedWorks DEF Asked, QueryAhead
  <2>4. CASE ~Differ(TopTasks, topappNr)
    <3>1. topappNr' = topappNr
      BY <1>5, <2>4 DEF OnTopappList
    <3>2. Unnoticed => prev # NoApp
      BY <2>4, TasksType DEF Unnoticed, TopTasks, TypeOK
    <3>3. Unnoticed => Unnoticed'
      BY <2>1, <3>1, <3>2 DEF Unnoticed
    <3> QED
      BY <1>2, <2>1, <3>3
  <2> QED
    BY <2>3, <2>4
<1>6. CASE \/ \E n \in Counts, f \in Cpuset : Restrict(n, f)
           \/ \E f \in Cpuset : Stir(f)
  BY <1>3, <1>6 DEF Restrict, Stir, Change
<1>7. CASE Tick \/ StartModule
  BY <1>3, <1>7 DEF Tick, StartModule
<1>8. CASE InotifyThread
  BY <1>3, <1>8 DEF InotifyThread, OnModified, UpdaterStart, PutDelayed, DW!Put
<1>9. CASE \E h \in Delayed : TakeDelayed(h)
  BY <1>3, <1>9, WorkAssumption DEF TakeDelayed, DW!Take, Delayed, Updater
<1>10. CASE OnRestrictedList \/ PutQuery
  BY <1>3, <1>10 DEF OnRestrictedList, PutQuery
<1>11. CASE HeavyThread
  BY <1>3, <1>11 DEF HeavyThread, TakeQuery, Ask, AskFails, Publish
<1>12. CASE UNCHANGED vars
  BY <1>3, <1>12 DEF vars
<1> QED
  BY <1>1, <1>4, <1>5, <1>6, <1>7, <1>8, <1>9, <1>10, <1>11, <1>12 DEF Next, Device, TimerThread

-----------------------------------------------------------------------------
LEMMA InitIInv == Init => IInv
<1> SUFFICES ASSUME Init
             PROVE  IInv
  OBVIOUS
<1>1. TypeOK
  BY InitTypes
<1>2. OwnWork /\ Covered
  BY AppAssumption DEF Init, OwnWork, Covered, DW!Init
<1>3. Unheard
  BY DEF Init, Unheard, DW!Init
<1>4. ScreenInv
  BY DEF Init, ScreenInv
<1>5. NumberInv /\ SwitchInv
  BY DEF Init, NumberInv, IsReading, SwitchInv
<1> QED
  BY <1>1, <1>2, <1>3, <1>4, <1>5 DEF IInv

\* The inductive invariant that follows a change on its way to DynamicFps.
THEOREM Invariance == Spec => []IInv
<1>1. IInv /\ [Next]_vars => IInv'
  BY NextTypes, NextOwnWork, NextCovered, NextUnheard, NextScreenInv, NextNumberInv, NextSwitchInv
     DEF IInv
<1> QED
  BY InitIInv, <1>1, PTL DEF Spec

\* The variables have their types.
THEOREM TypeCorrect == Spec => []TypeOK
  BY Invariance, PTL DEF IInv

\* A call that Updater::Start ignores finds a read of its cpuset still ahead.
THEOREM NoCallIsLost == Spec => []IgnoredIsCovered
<1>1. IInv => IgnoredIsCovered
  BY DEF IInv, Covered, IgnoredIsCovered
<1> QED
  BY Invariance, <1>1, PTL

\* A distinct app that comes on top after one that was read is published.
THEOREM TopAppReachesDynamicFps == Spec => []TopAppIsPublished
<1>1. IInv => TopAppIsPublished
  <2> SUFFICES ASSUME IInv, Rest, owed, Distinct(top)
               PROVE  heardApp = top
    BY DEF TopAppIsPublished, TopIsHeard
  <2>1. ~ReadAhead("ta") /\ prev = NoApp
    BY DelayedWorks, WorkAssumption DEF Rest, ReadAhead
  <2>2. ~QueryAhead
    BY DelayedWorks, WorkAssumption DEF Rest, QueryAhead
  <2> QED
    BY <2>1, <2>2 DEF IInv, SwitchInv
<1> QED
  BY Invariance, <1>1, PTL

\* The state of the screen is published.
THEOREM ScreenReachesDynamicFps == Spec => []OffscreenIsPublished
<1>1. IInv => OffscreenIsPublished
  <2> SUFFICES ASSUME IInv, Rest, owedRe
               PROVE  /\ prevOffscreen = IsOffscreen(restricted)
                      /\ ~early => heardOffscreen = prevOffscreen
    BY DEF OffscreenIsPublished, ScreenIsHeard
  <2>1. ~ReadAhead("re")
    BY DelayedWorks, WorkAssumption DEF Rest, ReadAhead
  <2> QED
    BY <2>1 DEF IInv, ScreenInv
<1> QED
  BY Invariance, <1>1, PTL
==============================================================================
