-------------------------- MODULE DynamicFps_proofs ---------------------------
(***************************************************************************)
(* DynamicFps, for any packages, rules, rates and kinds of events: its     *)
(* types, and its safety properties.                                       *)
(***************************************************************************)
EXTENDS DynamicFps, TLAPS

-----------------------------------------------------------------------------
(* Types. *)

Pc == {"idle", "run", "clear", "force", "read", "post", "cancel", "rule", "getforce", "apply"}

\* Every package has a rule, and a rule has two rates.
LEMMA RuleOfType ==
    ASSUME NEW pkgName
    PROVE  RuleOf(pkgName) \in Rule
  BY RulesAssumption DEF RuleOf

LEMMA RatesType ==
    ASSUME NEW pkgName
    PROVE  RuleOf(pkgName).idle \in Hz /\ RuleOf(pkgName).active \in Hz
  BY RuleOfType DEF Rule

\* Putting a work keeps the worker's types.
LEMMA DwPutType ==
    ASSUME DW!TypeOK, NEW h \in DwHandle, NEW w \in DwWork \cup {NoWork}, DW!Put(h, w)
    PROVE  DW!TypeOK'
  BY DEF DW!TypeOK, DW!Put

LEMMA HwPutType ==
    ASSUME HW!TypeOK, NEW h \in HwHandle, NEW w \in HwWork \cup {NoWork}, HW!Put(h, w)
    PROVE  HW!TypeOK'
  BY DEF HW!TypeOK, HW!Put

LEMMA DwSame == ASSUME DW!TypeOK, UNCHANGED <<dwSlot, dwRunning>> PROVE DW!TypeOK'
  BY DEF DW!TypeOK

LEMMA HwSame == ASSUME HW!TypeOK, UNCHANGED <<hwSlot, hwRunning>> PROVE HW!TypeOK'
  BY DEF HW!TypeOK

LEMMA InitType == Init => TypeOK
<1> SUFFICES ASSUME Init
             PROVE  TypeOK
  OBVIOUS
<1>1. DW!TypeOK /\ HW!TypeOK
  BY DEF Init, DW!Init, DW!TypeOK, HW!Init, HW!TypeOK
<1>2. /\ touchPressed \in BOOLEAN /\ btnPressed \in BOOLEAN
      /\ active \in BOOLEAN /\ lowBrightness \in BOOLEAN
      /\ isOffscreen \in BOOLEAN /\ forceSwitch \in BOOLEAN
      /\ inGesture \in BOOLEAN /\ quiet \in BOOLEAN
      /\ sawOverride \in BOOLEAN /\ force \in BOOLEAN
  BY DEF Init
<1>3. sawActive \in [Thread -> BOOLEAN]
  BY DEF Init
<1> QED
  BY <1>1, <1>2, <1>3 DEF Init, TypeOK

LEMMA SwitchType ==
    ASSUME TypeOK, NEW t \in Thread, SwitchRefreshRate(t)
    PROVE  TypeOK'
<1> USE DEF TypeOK, At, GoTo, members, workers, locals
<1>1. CASE StoreForce(t)
  <2>1. forceSwitch' \in BOOLEAN
    BY <1>1 DEF StoreForce, ForceArg
  <2>2. DW!TypeOK' /\ HW!TypeOK'
    BY <1>1, DwSame, HwSame DEF StoreForce
  <2> QED
    BY <1>1, <2>1, <2>2 DEF StoreForce
<1>2. CASE ReadActive(t)
  <2>1. sawActive' \in [Thread -> BOOLEAN]
    BY <1>2 DEF ReadActive
  <2>2. DW!TypeOK' /\ HW!TypeOK'
    BY <1>2, DwSame, HwSame DEF ReadActive
  <2> QED
    BY <1>2, <2>1, <2>2 DEF ReadActive
<1>3. CASE PostSwitch(t)
  <2>1. sawActive' \in [Thread -> BOOLEAN]
    BY <1>3 DEF PostSwitch
  <2>2. DW!TypeOK'
    BY <1>3, DwSame DEF PostSwitch
  <2>3. HW!TypeOK'
    BY <1>3, HwPutType DEF PostSwitch, HwHandle, HwWork
  <2> QED
    BY <1>3, <2>1, <2>2, <2>3 DEF PostSwitch
<1> QED
  BY <1>1, <1>2, <1>3 DEF SwitchRefreshRate

LEMMA InputType ==
    ASSUME TypeOK, InputEvent \/ CancelDelayed
    PROVE  TypeOK'
<1> USE DEF TypeOK, At, GoTo, members, workers, locals
<1>1. ASSUME NEW touch \in BOOLEAN, NEW btn \in BOOLEAN, OnInput(touch, btn)
      PROVE  TypeOK'
  <2>1. DW!TypeOK'
    BY <1>1, DwSame, DwPutType DEF OnInput, DwHandle, DwWork
  <2>2. HW!TypeOK'
    BY <1>1, HwSame DEF OnInput
  <2>3. touchPressed' \in BOOLEAN /\ btnPressed' \in BOOLEAN /\ active' \in BOOLEAN
    BY <1>1 DEF OnInput
  <2>4. cancels' \in {"input", "gesture"} /\ pc' \in [Thread -> Pc]
    BY <1>1 DEF OnInput, Pc, Thread
  <2> QED
    BY <1>1, <2>1, <2>2, <2>3, <2>4 DEF OnInput, Pc
<1>2. ASSUME NEW g \in BOOLEAN, OnInputScene(g)
      PROVE  TypeOK'
  <2>1. DW!TypeOK'
    BY <1>2, DwSame, DwPutType DEF OnInputScene, DwHandle, DwWork
  <2>2. HW!TypeOK'
    BY <1>2, HwSame DEF OnInputScene
  <2>3. cancels' \in {"input", "gesture"} /\ pc' \in [Thread -> Pc]
    BY <1>2 DEF OnInputScene, Pc, Thread
  <2> QED
    BY <1>2, <2>1, <2>2, <2>3 DEF OnInputScene, Pc
<1>3. CASE CancelDelayed
  <2>1. DW!TypeOK'
    BY <1>3, DwPutType DEF CancelDelayed, DwHandle
  <2>2. HW!TypeOK'
    BY <1>3, HwSame DEF CancelDelayed
  <2>9. pc' \in [Thread -> Pc]
    BY <1>3 DEF CancelDelayed, Pc
  <2> QED
    BY <1>3, <2>1, <2>2, <2>9 DEF CancelDelayed, Pc
<1> QED
  BY <1>1, <1>2, <1>3 DEF InputEvent, OnInputTouch, OnInputBtn

LEMMA DwType ==
    ASSUME TypeOK, OnReModified \/ (\E h \in DwHandle : DwTake(h)) \/ DwStep
    PROVE  TypeOK'
<1> USE DEF TypeOK, At, GoTo, members, workers, locals
<1>1. CASE OnReModified
  <2>1. DW!TypeOK' /\ HW!TypeOK'
    BY <1>1, DwPutType, HwSame DEF OnReModified, DwHandle, DwWork
  <2> QED
    BY <1>1, <2>1 DEF OnReModified
<1>2. ASSUME NEW h \in DwHandle, DwTake(h)
      PROVE  TypeOK'
  <2>1. DW!TypeOK'
    BY <1>2 DEF DwTake, DW!Take, DW!TypeOK
  <2>2. HW!TypeOK'
    BY <1>2, HwSame DEF DwTake
  <2>9. pc' \in [Thread -> Pc]
    BY <1>2 DEF DwTake, Pc
  <2> QED
    BY <1>2, <2>1, <2>2, <2>9 DEF DwTake, Pc
<1>3. CASE DwDone
  <2>1. DW!TypeOK' /\ HW!TypeOK'
    BY <1>3, HwSame DEF DwDone, DW!Done, DW!TypeOK
  <2> QED
    BY <1>3, <2>1 DEF DwDone
<1>4. CASE EnterIdle
  <2>1. DW!TypeOK' /\ HW!TypeOK'
    BY <1>4, DwSame, HwSame DEF EnterIdle
  <2>2. active' \in BOOLEAN
    BY <1>4 DEF EnterIdle
  <2>9. pc' \in [Thread -> Pc]
    BY <1>4 DEF EnterIdle, Pc
  <2> QED
    BY <1>4, <2>1, <2>2, <2>9 DEF EnterIdle, Pc
<1>5. CASE CompareOverride
  <2>1. DW!TypeOK' /\ HW!TypeOK'
    BY <1>5, DwSame, HwSame DEF CompareOverride
  <2> QED
    BY <1>5, <2>1 DEF CompareOverride
<1>6. CASE ClearOverride
  <2>1. DW!TypeOK' /\ HW!TypeOK'
    BY <1>6, DwSame, HwSame DEF ClearOverride
  <2>9. pc' \in [Thread -> Pc]
    BY <1>6 DEF ClearOverride, Pc
  <2> QED
    BY <1>6, <2>1, <2>9 DEF ClearOverride, Pc
<1>7. ASSUME NEW isOff \in BOOLEAN, OnOffscreen(isOff)
      PROVE  TypeOK'
  <2>1. DW!TypeOK'
    BY <1>7, DwSame, DwPutType DEF OnOffscreen, DwHandle, DwWork
  <2>2. HW!TypeOK'
    BY <1>7, HwSame DEF OnOffscreen
  <2>3. isOffscreen' \in BOOLEAN
    BY <1>7 DEF OnOffscreen
  <2>4. /\ overridedApp' \in {NO_PKG, UNIVERSIAL_PKG_NAME, OFFSCREEN_PKG_NAME}
        /\ pc' \in [Thread -> Pc]
    BY <1>7 DEF OnOffscreen, Pc
  <2> QED
    BY <1>7, <2>1, <2>2, <2>3, <2>4 DEF OnOffscreen, Pc
<1>8. CASE SwitchRefreshRate("dw")
  BY <1>8, SwitchType DEF Thread
<1> QED
  BY <1>1, <1>2, <1>3, <1>4, <1>5, <1>6, <1>7, <1>8 DEF DwStep

LEMMA HwType ==
    ASSUME TypeOK, OnTopappList \/ (\E h \in HwHandle : HwTake(h)) \/ HwStep
    PROVE  TypeOK'
<1> USE DEF TypeOK, At, GoTo, members, workers, locals
<1>1. CASE OnTopappList
  <2>1. DW!TypeOK' /\ HW!TypeOK'
    BY <1>1, HwPutType, DwSame DEF OnTopappList, HwHandle, HwWork
  <2> QED
    BY <1>1, <2>1 DEF OnTopappList
<1>2. ASSUME NEW h \in HwHandle, HwTake(h)
      PROVE  TypeOK'
  <2>1. HW!TypeOK'
    BY <1>2 DEF HwTake, HW!Take, HW!TypeOK
  <2>2. DW!TypeOK'
    BY <1>2, DwSame DEF HwTake
  <2>9. pc' \in [Thread -> Pc]
    BY <1>2 DEF HwTake, Pc
  <2> QED
    BY <1>2, <2>1, <2>2, <2>9 DEF HwTake, Pc
<1>3. CASE HwDone
  <2>1. DW!TypeOK' /\ HW!TypeOK'
    BY <1>3, DwSame DEF HwDone, HW!Done, HW!TypeOK
  <2> QED
    BY <1>3, <2>1 DEF HwDone
<1>4. ASSUME NEW topApp \in App, OnTopAppSwitch(topApp)
      PROVE  TypeOK'
  <2>1. DW!TypeOK' /\ HW!TypeOK'
    BY <1>4, DwSame, HwSame DEF OnTopAppSwitch
  <2>9. pc' \in [Thread -> Pc]
    BY <1>4 DEF OnTopAppSwitch, Pc
  <2> QED
    BY <1>4, <2>1, <2>9 DEF OnTopAppSwitch, Pc
<1>5. CASE RuleSource
  <2>1. DW!TypeOK' /\ HW!TypeOK'
    BY <1>5, DwSame, HwSame DEF RuleSource
  <2>2. sawOverride' \in BOOLEAN
    BY <1>5 DEF RuleSource
  <2>9. pc' \in [Thread -> Pc]
    BY <1>5 DEF RuleSource, Pc
  <2> QED
    BY <1>5, <2>1, <2>2, <2>9 DEF RuleSource, Pc
<1>6. CASE GetCurrentRule
  <2>1. DW!TypeOK' /\ HW!TypeOK'
    BY <1>6, DwSame, HwSame DEF GetCurrentRule
  <2>2. sawOverride' \in BOOLEAN
    BY <1>6 DEF GetCurrentRule
  <2>3. lowBrightness' \in BOOLEAN
    BY <1>6, LowSamplesAssumption DEF GetCurrentRule
  <2>4. hz' \in Hz
    BY <1>6, RatesType DEF GetCurrentRule
  <2>9. pc' \in [Thread -> Pc]
    BY <1>6 DEF GetCurrentRule, Pc
  <2> QED
    BY <1>6, <2>1, <2>2, <2>3, <2>4, <2>9 DEF GetCurrentRule, Pc
<1>7. CASE GetForce
  <2>1. DW!TypeOK' /\ HW!TypeOK'
    BY <1>7, DwSame, HwSame DEF GetForce
  <2>9. pc' \in [Thread -> Pc]
    BY <1>7 DEF GetForce, Pc
  <2> QED
    BY <1>7, <2>1, <2>9 DEF GetForce, Pc
<1>8. CASE Apply
  <2>1. DW!TypeOK' /\ HW!TypeOK'
    BY <1>8, DwSame, HwSame DEF Apply
  <2>2. forceSwitch' \in BOOLEAN /\ force' \in BOOLEAN
    BY <1>8 DEF Apply
  <2>3. curHz' \in Hz \cup {Unset} /\ hz' \in Hz \cup {Unset}
    BY <1>8 DEF Apply
  <2>4. pc' \in [Thread -> Pc]
    BY <1>8 DEF Apply, Pc
  <2>5. UNCHANGED <<quiet, touchPressed, btnPressed, active, lowBrightness, curApp, overridedApp,
                    isOffscreen, inGesture, cancels, sawActive, sawOverride>>
    BY <1>8 DEF Apply
  <2> QED
    BY <2>1, <2>2, <2>3, <2>4, <2>5 DEF Pc
<1>9. CASE SwitchRefreshRate("hw")
  BY <1>9, SwitchType DEF Thread
<1> QED
  BY <1>1, <1>2, <1>3, <1>4, <1>5, <1>6, <1>7, <1>8, <1>9 DEF HwStep

LEMMA NextType == TypeOK /\ [Next]_vars => TypeOK'
<1> SUFFICES ASSUME TypeOK, [Next]_vars
             PROVE  TypeOK'
  OBVIOUS
<1>1. CASE InputEvent \/ InputStep
  BY <1>1, InputType, SwitchType DEF InputStep, Thread
<1>2. CASE OnReModified \/ DwStep \/ \E h \in DwHandle : DwTake(h)
  BY <1>2, DwType
<1>3. CASE OnTopappList \/ HwStep \/ \E h \in HwHandle : HwTake(h)
  BY <1>3, HwType
<1>4. CASE BecomeQuiet
  <2>1. quiet' \in BOOLEAN
    BY <1>4 DEF BecomeQuiet
  <2>2. DW!TypeOK' /\ HW!TypeOK'
    BY <1>4, DwSame, HwSame DEF BecomeQuiet, workers, TypeOK
  <2> QED
    BY <1>4, <2>1, <2>2 DEF BecomeQuiet, members, locals, TypeOK
<1>5. CASE UNCHANGED vars
  <2>1. DW!TypeOK' /\ HW!TypeOK'
    BY <1>5, DwSame, HwSame DEF vars, workers, TypeOK
  <2> QED
    BY <1>5, <2>1 DEF vars, members, locals, TypeOK
<1> QED
  BY <1>1, <1>2, <1>3, <1>4, <1>5 DEF Next

\* The variables have their types.
THEOREM TypeCorrect == Spec => []TypeOK
  BY InitType, NextType, PTL DEF Spec

-----------------------------------------------------------------------------
(* The control of the threads and the contents of the slots. *)

SwitchPc == {"force", "read", "post"}

\* While a handler of the input thread is at work, what it was called for
\* still holds: the thread takes no other event before it returns.
InputControl ==
    /\ pc["input"] \in {"idle", "cancel"} \cup SwitchPc
    /\ ~At("input", "idle") =>
          \/ cancels = "input" /\ Pressed
          \/ cancels = "gesture" /\ inGesture

\* Each slot holds only the works that are meant for it.
SlotContents ==
    /\ dwSlot["input"] \in {NoWork, "enterIdle"}
    /\ dwSlot["gesture"] \in {NoWork, "resume"}
    /\ dwSlot["wakeup"] \in {NoWork, "exitOffscreen"}
    /\ hwSlot["fps"] \in {NoWork, "switchActive", "switchIdle"}

Control == TypeOK /\ InputControl /\ SlotContents

LEMMA ControlInvariance == Spec => []Control
<1>1. Init => Control
  <2> SUFFICES ASSUME Init
               PROVE  Control
    OBVIOUS
  <2>1. InputControl /\ SlotContents
    BY DEF Init, InputControl, SlotContents, At, Thread, DW!Init, HW!Init, DwHandle, HwHandle
  <2> QED
    BY <2>1, InitType DEF Control
<1>2. Control /\ [Next]_vars => Control'
  <2> SUFFICES ASSUME Control, [Next]_vars
               PROVE  InputControl' /\ SlotContents'
    BY NextType DEF Control
  <2> USE DEF Control, TypeOK, DW!TypeOK, HW!TypeOK, InputControl, SlotContents, At, GoTo, Thread,
              SwitchPc, Pressed, members, workers, locals
  <2>1. ASSUME NEW touch \in BOOLEAN, NEW btn \in BOOLEAN, At("input", "idle"), OnInput(touch, btn)
        PROVE  InputControl' /\ SlotContents'
    BY <2>1 DEF OnInput, DW!Put, DwHandle
  <2>2. ASSUME NEW g \in BOOLEAN, OnInputScene(g)
        PROVE  InputControl' /\ SlotContents'
    BY <2>2 DEF OnInputScene, Publishes, DW!Put, DwHandle
  <2>3. CASE CancelDelayed
    BY <2>3 DEF CancelDelayed, DW!Put, DwHandle
  <2>4. ASSUME NEW t \in Thread, StoreForce(t) \/ ReadActive(t)
        PROVE  InputControl' /\ SlotContents'
    BY <2>4 DEF StoreForce, ReadActive
  <2>5. ASSUME NEW t \in Thread, PostSwitch(t)
        PROVE  InputControl' /\ SlotContents'
    BY <2>5 DEF PostSwitch, HW!Put, HwHandle
  <2>6. CASE OnReModified
    BY <2>6 DEF OnReModified, DW!Put, DwHandle
  <2>7. ASSUME NEW h \in DwHandle, DwTake(h)
        PROVE  InputControl' /\ SlotContents'
    BY <2>7 DEF DwTake, DW!Take, DwHandle
  <2>8. CASE DwDone \/ HwDone
    BY <2>8 DEF DwDone, HwDone, DW!Done, HW!Done
  <2>9. CASE EnterIdle \/ CompareOverride \/ ClearOverride
    BY <2>9 DEF EnterIdle, CompareOverride, ClearOverride
  <2>10. ASSUME NEW isOff \in BOOLEAN, OnOffscreen(isOff)
         PROVE  InputControl' /\ SlotContents'
    BY <2>10 DEF OnOffscreen, DW!Put, DwHandle
  <2>11. CASE OnTopappList
    BY <2>11 DEF OnTopappList, HW!Put, HwHandle
  <2>12. ASSUME NEW h \in HwHandle, HwTake(h)
         PROVE  InputControl' /\ SlotContents'
    BY <2>12 DEF HwTake, HW!Take, HwHandle
  <2>13. ASSUME NEW topApp \in App, OnTopAppSwitch(topApp)
         PROVE  InputControl' /\ SlotContents'
    BY <2>13 DEF OnTopAppSwitch
  <2>14. CASE RuleSource \/ GetCurrentRule \/ GetForce \/ Apply
    BY <2>14 DEF RuleSource, GetCurrentRule, GetForce, Apply
  <2>15. CASE BecomeQuiet \/ UNCHANGED vars
    BY <2>15 DEF BecomeQuiet, vars
  <2> QED
    BY <2>1, <2>2, <2>3, <2>4, <2>5, <2>6, <2>7, <2>8, <2>9, <2>10, <2>11, <2>12, <2>13, <2>14,
       <2>15
    DEF Next, InputEvent, InputStep, DwStep, HwStep, SwitchRefreshRate, OnInputTouch, OnInputBtn,
        Publishes
<1> QED
  BY <1>1, <1>2, PTL DEF Spec

-----------------------------------------------------------------------------
(* Nothing that a delayed work has to end is left without it. *)

NothingStuck == NoStuckActive /\ NoStuckOverride

\* Inductive with Control: a press is the only thing that cancels enterIdle, a
\* gesture the only one that cancels resume, and nothing cancels exitOffscreen.
LEMMA NextNothingStuck == Control /\ NothingStuck /\ [Next]_vars => NothingStuck'
<1> SUFFICES ASSUME Control, NothingStuck, [Next]_vars
             PROVE  NothingStuck'
  OBVIOUS
<1> USE DEF Control, TypeOK, DW!TypeOK, InputControl, SlotContents, NothingStuck, NoStuckActive,
            NoStuckOverride, At, GoTo, Thread, Pressed, members, workers, locals,
            NO_PKG, UNIVERSIAL_PKG_NAME, OFFSCREEN_PKG_NAME
<1>0. ASSUME UNCHANGED <<active, touchPressed, btnPressed, overridedApp, inGesture, isOffscreen>>,
             UNCHANGED <<dwSlot, dwRunning>>,
             pc["dw"] \in {"run", "clear"} => pc'["dw"] = pc["dw"]
      PROVE  NothingStuck'
  BY <1>0
<1>1. ASSUME NEW touch \in BOOLEAN, NEW btn \in BOOLEAN, At("input", "idle"), OnInput(touch, btn)
      PROVE  NothingStuck'
  BY <1>1 DEF OnInput, DW!Put, DwHandle
<1>2. ASSUME NEW g \in BOOLEAN, OnInputScene(g)
      PROVE  NothingStuck'
  BY <1>2 DEF OnInputScene, DW!Put, DwHandle
<1>3. CASE CancelDelayed
  BY <1>3 DEF CancelDelayed, DW!Put, DwHandle
<1>4. ASSUME NEW t \in Thread, SwitchRefreshRate(t)
      PROVE  NothingStuck'
  BY <1>0, <1>4 DEF SwitchRefreshRate, StoreForce, ReadActive, PostSwitch
<1>5. CASE OnReModified
  BY <1>5 DEF OnReModified, DW!Put, DwHandle
<1>6. ASSUME NEW h \in DwHandle, DwTake(h)
      PROVE  NothingStuck'
  BY <1>6 DEF DwTake, DW!Take, DwHandle
<1>7. CASE DwDone
  BY <1>7 DEF DwDone, DW!Done
<1>8. CASE EnterIdle
  BY <1>8 DEF EnterIdle
<1>9. CASE CompareOverride
  BY <1>9 DEF CompareOverride
<1>10. CASE ClearOverride
  BY <1>10 DEF ClearOverride
<1>11. ASSUME NEW isOff \in BOOLEAN, OnOffscreen(isOff)
       PROVE  NothingStuck'
  BY <1>11 DEF OnOffscreen, DW!Put, DwHandle
<1>12. ASSUME NEW h \in HwHandle, OnTopappList \/ HwTake(h) \/ HwDone
       PROVE  NothingStuck'
  BY <1>0, <1>12 DEF OnTopappList, HwTake, HwDone
<1>13. ASSUME NEW topApp \in App, OnTopAppSwitch(topApp)
       PROVE  NothingStuck'
  BY <1>13 DEF OnTopAppSwitch
<1>14. CASE RuleSource \/ GetCurrentRule \/ GetForce \/ Apply
  BY <1>0, <1>14 DEF RuleSource, GetCurrentRule, GetForce, Apply
<1>15. CASE BecomeQuiet \/ UNCHANGED vars
  BY <1>0, <1>15 DEF BecomeQuiet, vars
<1> QED
  BY <1>1, <1>2, <1>3, <1>4, <1>5, <1>6, <1>7, <1>8, <1>9, <1>10, <1>11, <1>12, <1>13, <1>14, <1>15
  DEF Next, InputEvent, InputStep, DwStep, HwStep, OnInputTouch, OnInputBtn, Publishes, HwHandle

\* active_ and the overrides, with the touch, the gesture, the screen and the
\* works that are to end them, in every interleaving of the three threads.
THEOREM NothingIsStuck == Spec => [](NoStuckActive /\ NoStuckOverride)
<1>1. Init => NothingStuck
  BY DEF Init, NothingStuck, NoStuckActive, NoStuckOverride, NO_PKG, UNIVERSIAL_PKG_NAME,
         OFFSCREEN_PKG_NAME
<1> QED
  BY <1>1, ControlInvariance, NextNothingStuck, PTL DEF Spec, NothingStuck

\* The part of it about the overrides: an override in force always has the
\* gesture, the screen or the work that is to end it.
THEOREM OverrideIsNotStuck == Spec => []NoStuckOverride
BY NothingIsStuck, PTL

-----------------------------------------------------------------------------
(* The rate follows the rule. *)

\* A switch of the rate that has not read the rule yet is on its way.
SwitchComing == \/ hwSlot["fps"] # NoWork
                \/ \E t \in Thread : pc[t] \in SwitchPc

\* Unless such a switch is coming, what the work in progress has seen of the
\* rule is still true, and so is the rate it leaves.  A thread that changes the
\* rule in the middle of the work makes the first disjunct true.
RuleFollowed ==
    \/ SwitchComing
    \/ At("hw", "run") /\ hwRunning \in {"switchActive", "switchIdle"}
    \/ At("hw", "rule") /\ sawOverride = (overridedApp # NO_PKG)
    \/ pc["hw"] \in {"getforce", "apply"} /\ hz \in Rates(CurrentRule)
    \/ pc["hw"] \notin {"rule", "getforce", "apply"} /\ (Pristine \/ curHz \in Rates(CurrentRule))

LEMMA NextRuleFollowed == Control /\ RuleFollowed /\ [Next]_vars => RuleFollowed'
<1> SUFFICES ASSUME Control, RuleFollowed, [Next]_vars
             PROVE  RuleFollowed'
  OBVIOUS
<1> USE DEF Control, TypeOK, HW!TypeOK, At, GoTo, Thread, SwitchPc, members, workers, locals
<1>1. ASSUME UNCHANGED <<overridedApp, curApp, curHz, hz, sawOverride, hwRunning>>,
             pc["hw"]' = pc["hw"], SwitchComing => SwitchComing'
      PROVE  RuleFollowed'
  BY <1>1 DEF RuleFollowed, Pristine, CurrentRule
<1>2. ASSUME NEW t \in Thread, pc'[t] \in SwitchPc
      PROVE  RuleFollowed'
  BY <1>2 DEF RuleFollowed, SwitchComing
<1>3. CASE InputEvent
  <2>1. ASSUME NEW touch \in BOOLEAN, NEW btn \in BOOLEAN, At("input", "idle"), OnInput(touch, btn)
        PROVE  RuleFollowed'
    BY <1>1, <1>2, <2>1 DEF OnInput, SwitchComing
  <2>2. ASSUME NEW g \in BOOLEAN, OnInputScene(g)
        PROVE  RuleFollowed'
    BY <1>1, <1>2, <2>2 DEF OnInputScene, SwitchComing
  <2> QED
    BY <1>3, <2>1, <2>2 DEF InputEvent, OnInputTouch, OnInputBtn, Publishes
<1>4. CASE CancelDelayed
  BY <1>1, <1>4 DEF CancelDelayed, SwitchComing
<1>5. ASSUME NEW t \in Thread, SwitchRefreshRate(t)
      PROVE  RuleFollowed'
  <2>1. CASE StoreForce(t) \/ ReadActive(t)
    BY <1>2, <2>1 DEF StoreForce, ReadActive
  <2>2. CASE PostSwitch(t)
    BY <2>2 DEF PostSwitch, HW!Put, HwHandle, RuleFollowed, SwitchComing, NoWork
  <2> QED
    BY <1>5, <2>1, <2>2 DEF SwitchRefreshRate
<1>6. CASE OnReModified
  BY <1>1, <1>6 DEF OnReModified, SwitchComing
<1>7. ASSUME NEW h \in DwHandle, DwTake(h)
      PROVE  RuleFollowed'
  BY <1>1, <1>7 DEF DwTake, SwitchComing
<1>8. CASE DwDone
  BY <1>1, <1>8 DEF DwDone, SwitchComing
<1>9. CASE EnterIdle \/ ClearOverride
  BY <1>2, <1>9 DEF EnterIdle, ClearOverride
<1>10. CASE CompareOverride
  BY <1>1, <1>10 DEF CompareOverride, SwitchComing
<1>11. ASSUME NEW isOff \in BOOLEAN, OnOffscreen(isOff)
       PROVE  RuleFollowed'
  BY <1>1, <1>2, <1>11 DEF OnOffscreen, SwitchComing
<1>12. CASE OnTopappList
  BY <1>1, <1>12 DEF OnTopappList, HW!Put, HwHandle, SwitchComing
<1>13. ASSUME NEW h \in HwHandle, HwTake(h)
       PROVE  RuleFollowed'
  <2>1. CASE h = "fps"
    BY <1>13, <2>1 DEF HwTake, HW!Take, HwHandle, SlotContents, RuleFollowed
  <2>2. CASE h = "topapp"
    BY <1>13, <2>2 DEF HwTake, HW!Take, HwHandle, RuleFollowed, SwitchComing, Pristine, CurrentRule
  <2> QED
    BY <2>1, <2>2 DEF HwHandle
<1>14. CASE HwDone
  BY <1>14 DEF HwDone, HW!Done, RuleFollowed, SwitchComing, Pristine, CurrentRule
<1>15. ASSUME NEW topApp \in App, OnTopAppSwitch(topApp)
       PROVE  RuleFollowed'
  <2>1. CASE topApp = curApp
    BY <1>15, <2>1 DEF OnTopAppSwitch, RuleFollowed, SwitchComing, Pristine, CurrentRule
  <2>2. CASE topApp # curApp
    BY <1>2, <1>15, <2>2 DEF OnTopAppSwitch
  <2> QED
    BY <2>1, <2>2
<1>16. CASE RuleSource
  BY <1>16 DEF RuleSource, RuleFollowed
<1>17. CASE GetCurrentRule
  BY <1>17 DEF GetCurrentRule, RuleFollowed, SwitchComing, CurrentRule, Rates
<1>18. CASE GetForce
  BY <1>18 DEF GetForce, RuleFollowed, SwitchComing, CurrentRule
<1>19. CASE Apply
  BY <1>19 DEF Apply, RuleFollowed, SwitchComing, CurrentRule
<1>20. CASE BecomeQuiet \/ UNCHANGED vars
  BY <1>1, <1>20 DEF BecomeQuiet, vars, SwitchComing
<1> QED
  BY <1>3, <1>4, <1>5, <1>6, <1>7, <1>8, <1>9, <1>10, <1>11, <1>12, <1>13, <1>14, <1>15, <1>16,
     <1>17, <1>18, <1>19, <1>20
  DEF Next, InputStep, DwStep, HwStep

\* Whenever the threads have come to rest the rate is one of the current rule.
THEOREM RuleIsFollowed == Spec => []RuleIsCurrent
<1>1. Init => RuleFollowed
  BY DEF Init, RuleFollowed, Pristine, Thread
<1>2. RuleFollowed => RuleIsCurrent
  BY DEF RuleFollowed, RuleIsCurrent, SwitchComing, SwitchPc, Settled, At, Thread, NoWork
<1> QED
  BY <1>1, <1>2, ControlInvariance, NextRuleFollowed, PTL DEF Spec
==============================================================================
