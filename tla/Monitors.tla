------------------------------ MODULE Monitors -------------------------------
(***************************************************************************)
(* CgroupListener, TopappMonitor and OffscreenMonitor, from the tasks of a *)
(* cpuset to the top app and the state of the screen that DynamicFps hears *)
(* of, during and after the start-up of the modules (dfps.cpp).            *)
(*                                                                         *)
(*   inotify thread   a cpuset was written to -> Updater::Start            *)
(*   timer thread     ReadAndPub -> OnRestrictedList -> offscreen.state    *)
(*                               -> OnTopappList -> the delayed query      *)
(*   heavy thread     the query (dumpsys) -> topapp.pkgName                *)
(*                                                                         *)
(* The delayed and the heavy works are those of WorkSlots.  Time is what   *)
(* each delayed work has left; a work that is due may be taken at any time *)
(* from then on.  A tick is the millisecond within which Updater::Start    *)
(* ignores a second call.                                                  *)
(*                                                                         *)
(* A definition introduced as "Bug for X" is X with a plausible mistake in *)
(* it, and is no part of the specification.                                *)
(***************************************************************************)
EXTENDS Integers, FiniteSets

CONSTANTS Cpuset,        \* the cpusets; some devices have no "bg"
          App,           \* the packages
          NoApp,         \* no name
          NoWork,        \* the null work
          Tasks,         \* how many tasks each package has
          Counts,        \* how many tasks the restricted cpuset may have
          SHORT_DELAY, LONG_DELAY, SWITCH_DELAY,    \* in ticks
          MaxChanges     \* how often the model's device changes

ASSUME AppAssumption == NoApp \notin App /\ Tasks \in [App -> Nat] /\ Counts \subseteq Nat
ASSUME CpusetAssumption == {"ta", "fg", "re"} \subseteq Cpuset /\ Cpuset \subseteq {"ta", "fg", "bg", "re"}
ASSUME DelayAssumption == {SHORT_DELAY, LONG_DELAY, SWITCH_DELAY} \subseteq Nat \ {0}
ASSUME MaxChangesAssumption == MaxChanges \in Nat

TOP_TASK_NR_DIFF_MIN == 10
RESTRICTED_TASK_NR_MIN == 10

Updater == {"ta", "re"}             \* those of fg and bg have no subscriber
Delayed == Updater \cup {"query"}
ASSUME WorkAssumption == NoWork \notin Delayed

VARIABLES top,         \* the app on top
          prev,        \* the app that is leaving the top-app cpuset, or NoApp
          restricted,  \* the number of tasks in the restricted cpuset
          changes,     \* how often the device has changed
          notice,      \* the cpusets whose notification waits to be read
          started,     \* how far Dfps::Start is
          todo,        \* the updaters that the inotify thread has yet to start
          recent,      \* the updaters whose tm_ was reset within this tick
          left,        \* what each delayed work has left
          dwSlot, dwRunning, hwSlot, hwRunning,    \* the workers
          answer,      \* what the query that is under way was told, or NoApp
          topappNr, prevPkgName, prevOffscreen,
          heardApp, heardOffscreen,                \* what DynamicFps was told
          fresh,       \* the first tick since construction is not over
          owed,        \* the last switch of the top app must be noticed
          owedRe,      \* so must the last change of restricted
          early        \* the screen was off before DynamicFps listened

deviceVars == <<top, prev, restricted, changes>>
ghostVars == <<fresh, owed, owedRe, early>>
listenerVars == <<notice, todo, recent>>
dwVars == <<dwSlot, dwRunning>>
hwVars == <<hwSlot, hwRunning, answer>>
monitorVars == <<topappNr, prevPkgName, prevOffscreen, heardApp, heardOffscreen>>
vars == <<deviceVars, ghostVars, listenerVars, started, left, dwVars, hwVars, monitorVars>>

DW == INSTANCE WorkSlots WITH Handle <- Delayed, Work <- Delayed,
                              slot <- dwSlot, running <- dwRunning
HW == INSTANCE WorkSlots WITH Handle <- {"query"}, Work <- {"query"},
                              slot <- hwSlot, running <- hwRunning

Stage == {"constructed", "watching", "topapp", "offscreen", "running"}
DelayOf(h) == CASE h = "ta" -> SHORT_DELAY [] h = "re" -> LONG_DELAY [] OTHER -> SWITCH_DELAY
IsOffscreen(nr) == nr > RESTRICTED_TASK_NR_MIN

TypeOK == /\ top \in App /\ prev \in App \cup {NoApp} /\ restricted \in Counts
          /\ changes \in 0..MaxChanges
          /\ notice \subseteq Cpuset
          /\ started \in Stage
          /\ todo \subseteq Updater /\ recent \subseteq Updater
          /\ left \in [Delayed -> Nat]
          /\ DW!TypeOK /\ HW!TypeOK
          /\ {answer, prevPkgName, heardApp} \subseteq App \cup {NoApp}
          /\ topappNr \in Nat
          /\ {prevOffscreen, heardOffscreen, fresh, owed, owedRe, early} \subseteq BOOLEAN

\* The constructors have run.  Nothing is read of the device's state at first.
Init == /\ top \in App /\ prev = NoApp /\ restricted \in Counts /\ changes = 0
        /\ notice = {} /\ todo = {} /\ started = "constructed"
        /\ recent = Updater /\ fresh = TRUE
        /\ left = [h \in Delayed |-> 0]
        /\ DW!Init /\ HW!Init
        /\ answer = NoApp /\ topappNr = 0 /\ prevPkgName = NoApp /\ prevOffscreen = FALSE
        /\ heardApp = NoApp /\ heardOffscreen = FALSE
        /\ owed = FALSE /\ owedRe = FALSE
        /\ early = IsOffscreen(restricted)

-----------------------------------------------------------------------------
(* The device. *)

Ready == started = "running" /\ ~fresh

\* A task is written to the cpuset f, which is watched from CgroupListener's
\* start on.
Write(f) == notice' = IF started = "constructed" THEN notice ELSE notice \cup {f}

Change == /\ changes < MaxChanges
          /\ changes' = changes + 1
          /\ UNCHANGED <<started, todo, recent, left, dwVars, hwVars, monitorVars, fresh>>

\* The last switch is over and was read.
TopIsRead == /\ prev = NoApp /\ notice \subseteq {"re"} /\ "ta" \notin todo
             /\ dwSlot["ta"] = NoWork /\ dwRunning # "ta"

\* The tasks of a are moved to the top-app cpuset.  That must be noticed when
\* all modules are started and the app before it stayed until it was read.
SwitchTop(a) == /\ Change
                /\ a # top
                /\ top' = a
                /\ prev' = top
                /\ Write("ta")
                /\ owed' = (Ready /\ TopIsRead)
                /\ UNCHANGED <<restricted, owedRe, early>>

\* Those of the app before it are moved out, to the foreground or background.
LeaveTop(f) == /\ prev # NoApp
               /\ prev' = NoApp
               /\ Write(f)
               /\ UNCHANGED <<top, restricted, changes, started, todo, recent, left, dwVars,
                              hwVars, monitorVars, ghostVars>>

\* Tasks come to the restricted cpuset, or go from there to the cpuset f: from
\* "ta" and "bg" the listener does not conclude that "re" has changed.
Restrict(n, f) == /\ Change
                  /\ n # restricted
                  /\ (f = "re") = (n > restricted)
                  /\ restricted' = n
                  /\ Write(f)
                  /\ owedRe' = (Ready /\ f \in {"re", "fg"})
                  /\ early' = (early \/ (started # "running" /\ IsOffscreen(n)))
                  /\ UNCHANGED <<top, prev, owed>>

\* Other tasks come and go.
Stir(f) == /\ Change
           /\ Write(f)
           /\ UNCHANGED <<top, prev, restricted, owed, owedRe, early>>

Device == \/ \E a \in App : SwitchTop(a)
          \/ \E f \in Cpuset \ {"ta", "re"} : LeaveTop(f)
          \/ \E n \in Counts, f \in Cpuset : Restrict(n, f)
          \/ \E f \in Cpuset : Stir(f)

\* Time passes for the delayed works and for tm_.
Tick == /\ recent # {} \/ \E h \in Delayed : left[h] > 0
        /\ left' = [h \in Delayed |-> IF left[h] > 0 THEN left[h] - 1 ELSE 0]
        /\ recent' = {}
        /\ fresh' = FALSE
        /\ UNCHANGED <<deviceVars, owed, owedRe, early, notice, todo, started, dwVars, hwVars, monitorVars>>

-----------------------------------------------------------------------------
(* The start-up, and who has subscribed by then. *)

StartModule == /\ \/ started = "constructed" /\ started' = "watching"
                  \/ started = "watching" /\ started' = "topapp"
                  \/ started = "topapp" /\ started' = "offscreen"
                  \/ started = "offscreen" /\ started' = "running"
               /\ UNCHANGED <<deviceVars, ghostVars, listenerVars, left, dwVars, hwVars, monitorVars>>

HasSubscriber(u) == IF u = "ta" THEN started \in {"topapp", "offscreen", "running"}
                                ELSE started \in {"offscreen", "running"}

DynamicFpsListens == started = "running"

-----------------------------------------------------------------------------
(* The inotify thread. *)

\* Bug for Reaches: the change of one cpuset is looked for in that one only.
ReachesOwn(f) == CASE f = "ta" -> {"ta"} [] f = "re" -> {"re"} [] OTHER -> {}

\* The updaters, among those with a subscriber, that a callback starts.
Reaches(f) == CASE f = "fg" -> {"ta", "re"} [] f = "re" -> {"re"} [] OTHER -> {"ta"}

OnModified(f) == /\ todo = {}
                 /\ f \in notice
                 /\ notice' = notice \ {f}
                 /\ todo' = Reaches(f)
                 /\ UNCHANGED <<deviceVars, ghostVars, recent, started, left, dwVars, hwVars, monitorVars>>

PutDelayed(h) == /\ DW!Put(h, h)
                 /\ left' = [left EXCEPT ![h] = DelayOf(h)]

\* Bug for UpdaterStart: tm_ is reset by every call, and before the question
\* whether anybody listens.
UpdaterStartResetsFirst(u) ==
    /\ u \in todo
    /\ todo' = todo \ {u}
    /\ recent' = recent \cup {u}
    /\ IF HasSubscriber(u) /\ u \notin recent THEN PutDelayed(u) ELSE UNCHANGED <<dwVars, left>>
    /\ UNCHANGED <<deviceVars, ghostVars, notice, started, hwVars, monitorVars>>

UpdaterStart(u) ==
    /\ u \in todo
    /\ todo' = todo \ {u}
    /\ IF HasSubscriber(u) /\ u \notin recent
       THEN recent' = recent \cup {u} /\ PutDelayed(u)
       ELSE UNCHANGED <<recent, dwVars, left>>
    /\ UNCHANGED <<deviceVars, ghostVars, notice, started, hwVars, monitorVars>>

InotifyThread == \/ \E f \in notice : OnModified(f)
                 \/ \E u \in Updater : UpdaterStart(u)

-----------------------------------------------------------------------------
(* The timer's thread. *)

TakeDelayed(h) == /\ left[h] = 0
                  /\ DW!Take(h)
                  /\ UNCHANGED <<deviceVars, ghostVars, listenerVars, started, left, hwVars, monitorVars>>

TopTasks == Tasks[top] + (IF prev = NoApp THEN 0 ELSE Tasks[prev])

Differ(m, n) == m - n > TOP_TASK_NR_DIFF_MIN \/ n - m > TOP_TASK_NR_DIFF_MIN

\* Bug for OnTopappList: the difference is kept in place of the number.
OnTopappListKeepsDifference ==
    /\ dwRunning = "ta"
    /\ dwRunning' = NoWork
    /\ IF DynamicFpsListens /\ Differ(TopTasks, topappNr)
       THEN /\ topappNr' = TopTasks - topappNr
            /\ dwSlot' = [dwSlot EXCEPT !["query"] = "query"]
            /\ left' = [left EXCEPT !["query"] = SWITCH_DELAY]
       ELSE UNCHANGED <<topappNr, dwSlot, left>>
    /\ UNCHANGED <<deviceVars, ghostVars, listenerVars, started, hwVars,
                   prevPkgName, prevOffscreen, heardApp, heardOffscreen>>

\* ReadAndPub of the top-app cpuset and OnTopappList: when the number of tasks
\* has changed by more than the threshold, the top app is asked for later on.
OnTopappList ==
    /\ dwRunning = "ta"
    /\ dwRunning' = NoWork
    /\ IF DynamicFpsListens /\ Differ(TopTasks, topappNr)
       THEN /\ topappNr' = TopTasks
            /\ dwSlot' = [dwSlot EXCEPT !["query"] = "query"]
            /\ left' = [left EXCEPT !["query"] = SWITCH_DELAY]
       ELSE UNCHANGED <<topappNr, dwSlot, left>>
    /\ UNCHANGED <<deviceVars, ghostVars, listenerVars, started, hwVars,
                   prevPkgName, prevOffscreen, heardApp, heardOffscreen>>

\* Bug for OnRestrictedList: a count that equals the threshold is offscreen.
OnRestrictedListAtLeast ==
    /\ dwRunning = "re"
    /\ dwRunning' = NoWork
    /\ prevOffscreen' = (restricted >= RESTRICTED_TASK_NR_MIN)
    /\ heardOffscreen' = IF DynamicFpsListens /\ prevOffscreen' # prevOffscreen
                         THEN prevOffscreen' ELSE heardOffscreen
    /\ UNCHANGED <<deviceVars, ghostVars, listenerVars, started, left, dwSlot, hwVars,
                   topappNr, prevPkgName, heardApp>>

\* ReadAndPub of the restricted cpuset and OnRestrictedList, which publishes
\* whether or not DynamicFps listens already.
OnRestrictedList ==
    /\ dwRunning = "re"
    /\ dwRunning' = NoWork
    /\ prevOffscreen' = IsOffscreen(restricted)
    /\ heardOffscreen' = IF DynamicFpsListens /\ prevOffscreen' # prevOffscreen
                         THEN prevOffscreen' ELSE heardOffscreen
    /\ UNCHANGED <<deviceVars, ghostVars, listenerVars, started, left, dwSlot, hwVars,
                   topappNr, prevPkgName, heardApp>>

PutQuery == /\ dwRunning = "query"
            /\ dwRunning' = NoWork
            /\ HW!Put("query", "query")
            /\ UNCHANGED <<deviceVars, ghostVars, listenerVars, started, left, dwSlot, answer, monitorVars>>

TimerThread == \/ \E h \in Delayed : TakeDelayed(h)
               \/ OnTopappList \/ OnRestrictedList \/ PutQuery

-----------------------------------------------------------------------------
(* The heavy worker's thread. *)

TakeQuery == /\ HW!Take("query")
             /\ UNCHANGED <<deviceVars, ghostVars, listenerVars, started, left, dwVars, answer, monitorVars>>

\* dumpsys finds the app on top.
Ask == /\ hwRunning = "query"
       /\ answer = NoApp
       /\ answer' = top
       /\ UNCHANGED <<deviceVars, ghostVars, listenerVars, started, left, dwVars,
                      hwSlot, hwRunning, monitorVars>>

\* No name is found: nothing is published, and nobody asks again.
AskFails == /\ hwRunning = "query"
            /\ answer = NoApp
            /\ HW!Done
            /\ owed' = FALSE
            /\ UNCHANGED <<deviceVars, fresh, owedRe, early, listenerVars, started, left, dwVars,
                           answer, monitorVars>>

\* Bug for Publish: a name that is not new is not compared, nor remembered.
PublishFirst ==
    /\ answer # NoApp
    /\ prevPkgName' = IF prevPkgName = NoApp THEN answer ELSE prevPkgName
    /\ heardApp' = prevPkgName'
    /\ answer' = NoApp
    /\ HW!Done
    /\ UNCHANGED <<deviceVars, ghostVars, listenerVars, started, left, dwVars,
                   topappNr, prevOffscreen, heardOffscreen>>

Publish == /\ answer # NoApp
           /\ prevPkgName' = answer
           /\ heardApp' = IF answer # prevPkgName THEN answer ELSE heardApp
           /\ answer' = NoApp
           /\ HW!Done
           /\ UNCHANGED <<deviceVars, ghostVars, listenerVars, started, left, dwVars,
                          topappNr, prevOffscreen, heardOffscreen>>

HeavyThread == TakeQuery \/ Ask \/ AskFails \/ Publish

-----------------------------------------------------------------------------
Next == Device \/ Tick \/ StartModule \/ InotifyThread \/ TimerThread \/ HeavyThread

(***************************************************************************)
(* Every thread runs, and time passes.  The device does as it likes, but a *)
(* switch of the top app is carried out.                                   *)
(***************************************************************************)
Fairness == /\ WF_vars(Tick) /\ WF_vars(StartModule)
            /\ WF_vars(\E f \in Cpuset \ {"ta", "re"} : LeaveTop(f))
            /\ WF_vars(InotifyThread) /\ WF_vars(TimerThread) /\ WF_vars(HeavyThread)

Spec == Init /\ [][Next]_vars /\ Fairness

-----------------------------------------------------------------------------
(* Properties. *)

\* Nothing is on its way.
Rest == /\ prev = NoApp /\ notice = {} /\ todo = {}
        /\ dwSlot = [h \in Delayed |-> NoWork] /\ dwRunning = NoWork
        /\ hwSlot["query"] = NoWork /\ hwRunning = NoWork

\* A call that Updater::Start ignores finds a read of its cpuset still ahead,
\* so that what it reports is read.
IgnoredIsCovered == ~fresh => \A u \in recent : dwSlot[u] # NoWork

\* The number of a's tasks is far from all else that may be read: nothing, the
\* tasks of one other app, and those of two apps that overlap.
Distinct(a) == /\ Differ(Tasks[a], 0)
               /\ \A b \in App \ {a} : Differ(Tasks[a], Tasks[b])
               /\ \A b \in App : \A c \in App \ {b} : Differ(Tasks[a], Tasks[b] + Tasks[c])

TopIsHeard == owed /\ Distinct(top) => heardApp = top

ScreenIsHeard == owedRe => /\ prevOffscreen = IsOffscreen(restricted)
                           /\ ~early => heardOffscreen = prevOffscreen

\* At rest DynamicFps knows the app on top, whatever was read while apps came
\* and went, if the last switch came after the start-up and to an app that the
\* number of its tasks tells from all else that may be read, if the app
\* before it stayed until its tasks were read, and if no query failed.
TopAppIsPublished == Rest => TopIsHeard

\* At rest the state of the screen is known to OffscreenMonitor, and to
\* DynamicFps unless the screen was off before that listened; if the last
\* change came after the start-up, and to the foreground when tasks went.
OffscreenIsPublished == Rest => ScreenIsHeard

\* When the device stays as it is, both are known in the end.
ChangesAreHeard == <>[](TopIsHeard /\ ScreenIsHeard)
==============================================================================
