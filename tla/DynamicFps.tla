----------------------------- MODULE DynamicFps ------------------------------
(***************************************************************************)
(* modules/dynamic_fps.cpp: the module that decides on the refresh rate.   *)
(*                                                                         *)
(* CoBridge calls a subscriber in the publisher's thread and nothing here  *)
(* holds a lock, so the members of DynamicFps are shared by three threads: *)
(*                                                                         *)
(*   input  the thread of InputListener publishes input.touch, input.btn   *)
(*          and input.state, one after the other;                          *)
(*   dw     the thread of DelayedWorker runs the works that end a touch, a *)
(*          gesture and the wake-up, and OffscreenMonitor's read of the    *)
(*          restricted tasks, which publishes offscreen.state;             *)
(*   hw     the thread of HeavyWorker switches the rate, and runs          *)
(*          TopappMonitor's work, which publishes topapp.pkgName.          *)
(*                                                                         *)
(* Both workers are their abstract specification, WorkSlots; the model has *)
(* no clock: a delayed work may run at any time after it was put, as it    *)
(* may in the code when its thread is late.  A step of a thread touches at *)
(* most one thing that another thread can touch: a member of DynamicFps    *)
(* (touchPressed_, btnPressed_, isOffscreen_, curApp_, lowBrightness_ and  *)
(* curHz_ belong to one thread each), or a slot, under its worker's lock.  *)
(*                                                                         *)
(* overridedApp_ is a std::string that is read without a lock while it is  *)
(* written.  What a build makes of it is here what its separate reads of   *)
(* the string can return: of the length first (RuleSource), of the         *)
(* character later (GetCurrentRule).                                       *)
(*                                                                         *)
(* A definition introduced as "Bug for X" is X with a plausible mistake in *)
(* it, and is no part of the specification: it shows that a property that  *)
(* holds of X is one X could break.                                        *)
(***************************************************************************)

CONSTANTS Event,           \* the kinds of events the environment produces
          App,             \* the packages that can be on top
          rules,           \* rules_: the rules of the packages that have one
          universial,      \* universial_: the rule of "*"
          offscreen,       \* offscreen_: the rule of "-"
          Hz,              \* the rates in the rules
          Unset,           \* curHz_ before the first switch, INT32_MAX
          LowSamples       \* what a sample of the brightness can find: is it low?

NO_PKG == ""
UNIVERSIAL_PKG_NAME == "*"
OFFSCREEN_PKG_NAME == "-"

Rule == [idle : Hz, active : Hz]

ASSUME EventAssumption == Event \subseteq {"touch", "btn", "scene", "topapp", "offscreen"}
ASSUME AppAssumption == {NO_PKG, UNIVERSIAL_PKG_NAME, OFFSCREEN_PKG_NAME} \cap App = {}
ASSUME RulesAssumption == /\ DOMAIN rules \subseteq App
                          /\ \A a \in DOMAIN rules : rules[a] \in Rule
                          /\ universial \in Rule
                          /\ offscreen \in Rule
ASSUME UnsetAssumption == Unset \notin Hz
ASSUME LowSamplesAssumption == LowSamples \subseteq BOOLEAN

VARIABLES touchPressed, btnPressed,   \* input: the last published values
          active,                     \* active_
          lowBrightness,              \* lowBrightness_
          curApp,                     \* curApp_
          overridedApp,               \* overridedApp_
          isOffscreen,                \* isOffscreen_
          curHz,                      \* curHz_
          forceSwitch,                \* forceSwitch_
          inGesture,                  \* the gesture state published last
          quiet,                      \* the environment has stopped
          dwSlot, dwRunning,          \* DelayedWorker
          hwSlot, hwRunning,          \* HeavyWorker
          pc,                         \* where each thread is
          cancels,                    \* input: the handle its handler cancels
          sawActive,                  \* what each thread has read of active_
          sawOverride,                \* hw: overridedApp_ was not empty
          hz, force                   \* hw: the locals of SwitchRefreshRate

members == <<touchPressed, btnPressed, active, lowBrightness, curApp, overridedApp,
             isOffscreen, curHz, forceSwitch, inGesture>>
workers == <<dwSlot, dwRunning, hwSlot, hwRunning>>
locals == <<cancels, sawActive, sawOverride, hz, force>>
vars == <<members, quiet, workers, pc, locals>>

Thread == {"input", "dw", "hw"}

NoWork == "none"
DwHandle == {"input", "gesture", "wakeup", "restricted"}
DwWork == {"enterIdle", "resume", "exitOffscreen", "readRestricted"}
HwHandle == {"fps", "topapp"}
HwWork == {"switchActive", "switchIdle", "getTopApp"}

DW == INSTANCE WorkSlots WITH Handle <- DwHandle, Work <- DwWork,
                              slot <- dwSlot, running <- dwRunning
HW == INSTANCE WorkSlots WITH Handle <- HwHandle, Work <- HwWork,
                              slot <- hwSlot, running <- hwRunning

TypeOK == /\ touchPressed \in BOOLEAN /\ btnPressed \in BOOLEAN
          /\ active \in BOOLEAN /\ lowBrightness \in BOOLEAN
          /\ curApp \in App \cup {NO_PKG}
          /\ overridedApp \in {NO_PKG, UNIVERSIAL_PKG_NAME, OFFSCREEN_PKG_NAME}
          /\ isOffscreen \in BOOLEAN
          /\ curHz \in Hz \cup {Unset}
          /\ forceSwitch \in BOOLEAN
          /\ inGesture \in BOOLEAN
          /\ quiet \in BOOLEAN
          /\ DW!TypeOK
          /\ HW!TypeOK
          /\ pc \in [Thread -> {"idle", "run", "clear", "force", "read", "post",
                                "cancel", "rule", "getforce", "apply"}]
          /\ cancels \in {"input", "gesture"}
          /\ sawActive \in [Thread -> BOOLEAN]
          /\ sawOverride \in BOOLEAN
          /\ hz \in Hz \cup {Unset}
          /\ force \in BOOLEAN

Init == /\ touchPressed = FALSE /\ btnPressed = FALSE
        /\ active = FALSE /\ lowBrightness = FALSE
        /\ curApp = NO_PKG
        /\ overridedApp = NO_PKG
        /\ isOffscreen = FALSE
        /\ curHz = Unset
        /\ forceSwitch = FALSE
        /\ inGesture = FALSE
        /\ quiet = FALSE
        /\ DW!Init
        /\ HW!Init
        /\ pc = [t \in Thread |-> "idle"]
        /\ cancels = "input"
        /\ sawActive = [t \in Thread |-> FALSE]
        /\ sawOverride = FALSE
        /\ hz = Unset
        /\ force = FALSE

At(t, l) == pc[t] = l
GoTo(t, l) == pc' = [pc EXCEPT ![t] = l]

Pressed == touchPressed \/ btnPressed

-----------------------------------------------------------------------------
(* SwitchRefreshRate(bool force), called on each of the threads: it stores  *)
(* the argument, reads active_ and puts the work that switches the rate.    *)

\* The argument: TRUE for a change of the top app or of the screen's state.
ForceArg(t) == \/ t = "hw"
               \/ t = "dw" /\ dwRunning \in {"exitOffscreen", "readRestricted"}

StoreForce(t) ==
    /\ At(t, "force")
    /\ forceSwitch' = ForceArg(t)
    /\ GoTo(t, "read")
    /\ UNCHANGED <<quiet, touchPressed, btnPressed, active, lowBrightness, curApp, overridedApp,
                   isOffscreen, curHz, inGesture, workers, locals>>

ReadActive(t) ==
    /\ At(t, "read")
    /\ sawActive' = [sawActive EXCEPT ![t] = active]
    /\ GoTo(t, "post")
    /\ UNCHANGED <<quiet, members, workers, cancels, sawOverride, hz, force>>

\* Of the callers only the input handlers have something left to do.
PostSwitch(t) ==
    /\ At(t, "post")
    /\ HW!Put("fps", IF sawActive[t] THEN "switchActive" ELSE "switchIdle")
    /\ sawActive' = [sawActive EXCEPT ![t] = FALSE]
    /\ GoTo(t, IF t = "input" THEN "cancel" ELSE "idle")
    /\ UNCHANGED <<quiet, members, dwSlot, dwRunning, cancels, sawOverride, hz, force>>

SwitchRefreshRate(t) == StoreForce(t) \/ ReadActive(t) \/ PostSwitch(t)

-----------------------------------------------------------------------------
(* The input thread. *)

\* InputListener can publish when the handler of the last event has returned.
Publishes(event) == /\ ~quiet
                    /\ event \in Event
                    /\ At("input", "idle")

\* Bug for OnInput: a release changes nothing when the device was active.
OnInputForgetsRelease(touch, btn) ==
    /\ touchPressed' = touch
    /\ btnPressed' = btn
    /\ \/ /\ touch \/ btn
          /\ active' = TRUE
          /\ cancels' = "input"
          /\ GoTo("input", "force")
          /\ UNCHANGED <<dwSlot, dwRunning>>
       \/ /\ ~(touch \/ btn)
          /\ IF active THEN UNCHANGED <<dwSlot, dwRunning>> ELSE DW!Put("input", "enterIdle")
          /\ UNCHANGED <<active, cancels, pc>>
    /\ UNCHANGED <<quiet, lowBrightness, curApp, overridedApp, isOffscreen, curHz, forceSwitch,
                   inGesture, hwSlot, hwRunning, sawActive, sawOverride, hz, force>>

\* OnInput, after the handler stored touch and btn.
OnInput(touch, btn) ==
    /\ touchPressed' = touch
    /\ btnPressed' = btn
    /\ \/ /\ touch \/ btn
          /\ active' = TRUE
          /\ cancels' = "input"
          /\ GoTo("input", "force")
          /\ UNCHANGED <<dwSlot, dwRunning>>
       \/ /\ ~(touch \/ btn)
          /\ DW!Put("input", "enterIdle")
          /\ UNCHANGED <<active, cancels, pc>>
    /\ UNCHANGED <<quiet, lowBrightness, curApp, overridedApp, isOffscreen, curHz, forceSwitch,
                   inGesture, hwSlot, hwRunning, sawActive, sawOverride, hz, force>>

\* InputListener publishes the touch when it changes.
OnInputTouch(p) == /\ Publishes("touch")
                   /\ p # touchPressed
                   /\ OnInput(p, btnPressed)

\* InputListener counts the pressed buttons and publishes every count that
\* goes from or to zero, a release without a press included.
OnInputBtn(p) == /\ Publishes("btn")
                 /\ p => ~btnPressed
                 /\ OnInput(touchPressed, p)

\* The state of a touch is published again when its hold or swipe changes, so
\* the gesture need not have changed.
OnInputScene(g) ==
    /\ Publishes("scene")
    /\ inGesture' = g
    /\ \/ /\ g
          /\ overridedApp' = UNIVERSIAL_PKG_NAME
          /\ cancels' = "gesture"
          /\ GoTo("input", "force")
          /\ UNCHANGED <<dwSlot, dwRunning>>
       \/ /\ ~g
          /\ DW!Put("gesture", "resume")
          /\ UNCHANGED <<overridedApp, cancels, pc>>
    /\ UNCHANGED <<quiet, touchPressed, btnPressed, active, lowBrightness, curApp, isOffscreen, curHz,
                   forceSwitch, hwSlot, hwRunning, sawActive, sawOverride, hz, force>>

\* Bug for CancelDelayed: a gesture cancels the work of the wake-up.
CancelDelayedConfusesHandles ==
    /\ At("input", "cancel")
    /\ DW!Put(IF cancels = "gesture" THEN "wakeup" ELSE cancels, NoWork)
    /\ cancels' = "input"
    /\ GoTo("input", "idle")
    /\ UNCHANGED <<quiet, members, hwSlot, hwRunning, sawActive, sawOverride, hz, force>>

\* The handler of a press or of a gesture ends by cancelling its delayed work.
CancelDelayed ==
    /\ At("input", "cancel")
    /\ DW!Put(cancels, NoWork)
    /\ cancels' = "input"
    /\ GoTo("input", "idle")
    /\ UNCHANGED <<quiet, members, hwSlot, hwRunning, sawActive, sawOverride, hz, force>>

-----------------------------------------------------------------------------
(* The thread of DelayedWorker. *)

\* CgroupListener, in its own thread, has the restricted tasks read soon.
OnReModified == /\ ~quiet /\ "offscreen" \in Event
                /\ DW!Put("restricted", "readRestricted")
                /\ UNCHANGED <<quiet, members, hwSlot, hwRunning, pc, locals>>

DwTake(h) == /\ At("dw", "idle")
             /\ DW!Take(h)
             /\ GoTo("dw", "run")
             /\ UNCHANGED <<quiet, members, hwSlot, hwRunning, locals>>

DwDone == /\ At("dw", "idle")
          /\ DW!Done
          /\ UNCHANGED <<quiet, members, hwSlot, hwRunning, pc, locals>>

\* Bug for EnterIdle: the rate is switched, but active_ stays.
EnterIdleStaysActive ==
    /\ At("dw", "run")
    /\ dwRunning = "enterIdle"
    /\ GoTo("dw", "force")
    /\ UNCHANGED <<quiet, members, workers, locals>>

\* enterIdle
EnterIdle == /\ At("dw", "run")
             /\ dwRunning = "enterIdle"
             /\ active' = FALSE
             /\ GoTo("dw", "force")
             /\ UNCHANGED <<quiet, touchPressed, btnPressed, lowBrightness, curApp, overridedApp,
                            isOffscreen, curHz, forceSwitch, inGesture, workers, locals>>

\* resume and exitOffscreen end the override that they are for, if it is still
\* in force: a comparison and then an assignment.
CompareOverride ==
    /\ At("dw", "run")
    /\ \/ /\ dwRunning = "resume"
          /\ GoTo("dw", IF overridedApp = UNIVERSIAL_PKG_NAME THEN "clear" ELSE "idle")
       \/ /\ dwRunning = "exitOffscreen"
          /\ GoTo("dw", IF overridedApp = OFFSCREEN_PKG_NAME THEN "clear" ELSE "idle")
    /\ UNCHANGED <<quiet, members, workers, locals>>

\* Bug for ClearOverride: the rate is not switched.
ClearOverrideWithoutSwitch ==
    /\ At("dw", "clear")
    /\ overridedApp' = NO_PKG
    /\ GoTo("dw", "idle")
    /\ UNCHANGED <<quiet, touchPressed, btnPressed, active, lowBrightness, curApp, isOffscreen, curHz,
                   forceSwitch, inGesture, workers, locals>>

\* Bug for ClearOverride: the override of the other kind is restored.
ClearOverrideSwapsKind ==
    /\ At("dw", "clear")
    /\ overridedApp' = IF dwRunning = "resume" THEN OFFSCREEN_PKG_NAME ELSE NO_PKG
    /\ GoTo("dw", "force")
    /\ UNCHANGED <<quiet, touchPressed, btnPressed, active, lowBrightness, curApp, isOffscreen, curHz,
                   forceSwitch, inGesture, workers, locals>>

ClearOverride ==
    /\ At("dw", "clear")
    /\ overridedApp' = NO_PKG
    /\ GoTo("dw", "force")
    /\ UNCHANGED <<quiet, touchPressed, btnPressed, active, lowBrightness, curApp, isOffscreen, curHz,
                   forceSwitch, inGesture, workers, locals>>

\* OffscreenMonitor has read the restricted tasks and published the state.
OnOffscreen(isOff) ==
    /\ At("dw", "run")
    /\ dwRunning = "readRestricted"
    /\ \/ /\ isOff = isOffscreen
          /\ GoTo("dw", "idle")
          /\ UNCHANGED <<isOffscreen, overridedApp, dwSlot, dwRunning>>
       \/ /\ isOff /\ ~isOffscreen
          /\ isOffscreen' = TRUE
          /\ overridedApp' = OFFSCREEN_PKG_NAME
          /\ GoTo("dw", "force")
          /\ UNCHANGED <<dwSlot, dwRunning>>
       \/ /\ ~isOff /\ isOffscreen
          /\ isOffscreen' = FALSE
          /\ DW!Put("wakeup", "exitOffscreen")
          /\ GoTo("dw", "idle")
          /\ UNCHANGED overridedApp
    /\ UNCHANGED <<quiet, touchPressed, btnPressed, active, lowBrightness, curApp, curHz, forceSwitch,
                   inGesture, hwSlot, hwRunning, locals>>

-----------------------------------------------------------------------------
(* The thread of HeavyWorker. *)

\* TopappMonitor asks for the top app.
OnTopappList == /\ ~quiet /\ "topapp" \in Event
                /\ HW!Put("topapp", "getTopApp")
                /\ UNCHANGED <<quiet, members, dwSlot, dwRunning, pc, locals>>

HwTake(h) == /\ At("hw", "idle")
             /\ HW!Take(h)
             /\ GoTo("hw", "run")
             /\ UNCHANGED <<quiet, members, dwSlot, dwRunning, locals>>

HwDone == /\ At("hw", "idle")
          /\ HW!Done
          /\ UNCHANGED <<quiet, members, dwSlot, dwRunning, pc, locals>>

\* Bug for OnTopAppSwitch: the rate is not switched.
OnTopAppSwitchWithoutSwitch(topApp) ==
    /\ At("hw", "run")
    /\ hwRunning = "getTopApp"
    /\ curApp' = topApp
    /\ GoTo("hw", "idle")
    /\ UNCHANGED <<quiet, touchPressed, btnPressed, active, lowBrightness, overridedApp, isOffscreen,
                   curHz, forceSwitch, inGesture, workers, locals>>

\* Bug for OnTopAppSwitch: the name of the default rule is stored as the app.
OnTopAppSwitchStoresDefault(topApp) ==
    /\ At("hw", "run")
    /\ hwRunning = "getTopApp"
    /\ curApp' = UNIVERSIAL_PKG_NAME
    /\ GoTo("hw", IF topApp # curApp THEN "force" ELSE "idle")
    /\ UNCHANGED <<quiet, touchPressed, btnPressed, active, lowBrightness, overridedApp, isOffscreen,
                   curHz, forceSwitch, inGesture, workers, locals>>

OnTopAppSwitch(topApp) ==
    /\ At("hw", "run")
    /\ hwRunning = "getTopApp"
    /\ curApp' = topApp
    /\ GoTo("hw", IF topApp # curApp THEN "force" ELSE "idle")
    /\ UNCHANGED <<quiet, touchPressed, btnPressed, active, lowBrightness, overridedApp, isOffscreen,
                   curHz, forceSwitch, inGesture, workers, locals>>

\* GetCurrentRule, first read: is there an override?
RuleSource == /\ At("hw", "run")
              /\ hwRunning \in {"switchActive", "switchIdle"}
              /\ sawOverride' = (overridedApp # NO_PKG)
              /\ GoTo("hw", "rule")
              /\ UNCHANGED <<quiet, members, workers, cancels, sawActive, hz, force>>

\* The rule of a package name.
RuleOf(pkgName) == IF pkgName = OFFSCREEN_PKG_NAME THEN offscreen
                   ELSE IF pkgName \in DOMAIN rules THEN rules[pkgName]
                   ELSE universial

\* GetCurrentRule, second read; the work then picks the rate.  An idle switch
\* samples the brightness if the last sample is old enough.
GetCurrentRule ==
    /\ At("hw", "rule")
    /\ LET rule == RuleOf(IF sawOverride THEN overridedApp ELSE curApp)
       IN  \/ /\ hwRunning = "switchActive"
              /\ hz' = rule.active
              /\ UNCHANGED lowBrightness
           \/ /\ hwRunning = "switchIdle"
              /\ lowBrightness' \in {lowBrightness} \cup LowSamples
              /\ hz' = IF lowBrightness' THEN rule.active ELSE rule.idle
    /\ sawOverride' = FALSE
    /\ GoTo("hw", "getforce")
    /\ UNCHANGED <<quiet, touchPressed, btnPressed, active, curApp, overridedApp, isOffscreen, curHz,
                   forceSwitch, inGesture, workers, cancels, sawActive, force>>

\* SwitchRefreshRate(int hz)
GetForce == /\ At("hw", "getforce")
            /\ force' = forceSwitch
            /\ GoTo("hw", "apply")
            /\ UNCHANGED <<quiet, members, workers, cancels, sawActive, sawOverride, hz>>

\* Unless forced, a rate that is the current one is not applied again.
Apply == /\ At("hw", "apply")
         /\ forceSwitch' = FALSE
         /\ \/ ~force /\ hz = curHz /\ UNCHANGED curHz
            \/ (force \/ hz # curHz) /\ curHz' = hz
         /\ hz' = Unset
         /\ force' = FALSE
         /\ GoTo("hw", "idle")
         /\ UNCHANGED <<quiet, touchPressed, btnPressed, active, lowBrightness, curApp, overridedApp,
                        isOffscreen, inGesture, workers, cancels, sawActive, sawOverride>>

-----------------------------------------------------------------------------
\* From some time on nobody touches the device, the apps and the screen stay
\* as they are: no event comes any more, what is on the way is worked off.
BecomeQuiet == /\ ~quiet
               /\ quiet' = TRUE
               /\ UNCHANGED <<members, workers, pc, locals>>

InputEvent == \E b \in BOOLEAN : OnInputTouch(b) \/ OnInputBtn(b) \/ OnInputScene(b)
InputStep == CancelDelayed \/ SwitchRefreshRate("input")
DwStep == \/ EnterIdle \/ CompareOverride \/ ClearOverride \/ SwitchRefreshRate("dw") \/ DwDone
          \/ \E isOff \in BOOLEAN : OnOffscreen(isOff)
HwStep == \/ RuleSource \/ GetCurrentRule \/ GetForce \/ Apply \/ SwitchRefreshRate("hw") \/ HwDone
          \/ \E topApp \in App : OnTopAppSwitch(topApp)

Next == \/ InputEvent \/ OnReModified \/ OnTopappList \/ BecomeQuiet
        \/ InputStep \/ DwStep \/ HwStep
        \/ \E h \in DwHandle : DwTake(h)
        \/ \E h \in HwHandle : HwTake(h)

(***************************************************************************)
(* The operating system runs the three threads, the commands they wait for *)
(* return, and both workers take every work that is left in its slot       *)
(* (EveryWorkIsTaken of HeavyWorker and of DelayedWorker).  Nothing makes  *)
(* an event happen.  A client may put off a delayed work for ever by       *)
(* setting it anew, which is why the liveness properties are about what    *)
(* follows once the environment is quiet.                                  *)
(***************************************************************************)
Fairness == /\ WF_vars(InputStep) /\ WF_vars(DwStep) /\ WF_vars(HwStep)
            /\ \A h \in DwHandle : WF_vars(DwTake(h))
            /\ \A h \in HwHandle : WF_vars(HwTake(h))

Spec == Init /\ [][Next]_vars /\ Fairness

-----------------------------------------------------------------------------
(* Properties. *)

\* active_ never sticks: with nothing pressed it is set only while the delayed
\* work that clears it is waiting or about to.  A press cancels that work and a
\* release puts it again, from another thread than the one that runs it.
NoStuckActive ==
    active /\ ~Pressed =>
        \/ dwSlot["input"] = "enterIdle"
        \/ dwRunning = "enterIdle" /\ At("dw", "run")

\* Neither override sticks: after the gesture, and after the screen came on,
\* the work that ends it is waiting or has not yet got past its comparison,
\* whatever the other override, the input thread and the timer did meanwhile.
NoStuckOverride ==
    /\ overridedApp = UNIVERSIAL_PKG_NAME /\ ~inGesture =>
          \/ dwSlot["gesture"] = "resume"
          \/ dwRunning = "resume" /\ At("dw", "run")
          \/ At("dw", "clear")
    /\ overridedApp = OFFSCREEN_PKG_NAME /\ ~isOffscreen =>
          \/ dwSlot["wakeup"] = "exitOffscreen"
          \/ dwRunning = "exitOffscreen" /\ At("dw", "run")
          \/ At("dw", "clear")

\* GetCurrentRule, read in one piece.
CurrentRule == RuleOf(IF overridedApp = NO_PKG THEN curApp ELSE overridedApp)

Rates(rule) == {rule.idle, rule.active}

\* No switch of the rate is under way.
Settled == /\ \A t \in Thread : At(t, "idle")
           /\ dwRunning = NoWork /\ hwRunning = NoWork
           /\ hwSlot["fps"] = NoWork

\* Nothing has happened yet that asks for a rate.
Pristine == curHz = Unset /\ curApp = NO_PKG /\ overridedApp = NO_PKG

\* The rate is one of the current rule whenever the threads have come to rest:
\* no change of the top app, of the gesture or of the screen is lost because
\* the rule was read, unlocked, while another thread was changing it.
RuleIsCurrent == Settled => Pristine \/ curHz \in Rates(CurrentRule)

\* Once the device is left alone with nothing pressed, idle comes and stays.
ActiveEnds == quiet /\ ~Pressed ~> []~active

\* Once the device is left alone, an override whose reason is over goes, and
\* does not come back.
OverrideEnds ==
    /\ quiet /\ ~inGesture ~> [](overridedApp # UNIVERSIAL_PKG_NAME)
    /\ quiet ~> [](overridedApp = OFFSCREEN_PKG_NAME => isOffscreen)

-----------------------------------------------------------------------------
(* What the manual says (magisk/config/dfps_help_en.md).                    *)

\* Line 7: "During operation, the screen refresh rate switches to
\* activeRefreshRate".  With a finger down and all threads at rest, the rate
\* is the active one of the current rule.
TouchedScreenIsActive == Settled /\ Pressed => curHz = CurrentRule.active

\* Line 7: "waits for touchSlackMs milliseconds after the operation is
\* released, then switches to idleRefreshRate".  With nothing pressed, the wait
\* over and all threads at rest, the rate is the idle one of the current rule,
\* or the brightness was low.
ReleasedScreenIsIdle ==
    Settled /\ ~Pressed /\ dwSlot["input"] = NoWork /\ curHz # Unset
        => curHz = CurrentRule.idle \/ lowBrightness

\* Line 57: "-" = offscreen.  While the screen is off and all threads are at
\* rest, the rate is one of the offscreen rule.
OffscreenRuleApplied == Settled /\ isOffscreen => curHz \in Rates(offscreen)

=============================================================================
