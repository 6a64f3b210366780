# Dfps: a verification development

Dfps is a daemon for rooted Android devices. It watches the touch screen, the
buttons, the top app and the state of the screen, and switches the refresh rate:
to the *active* rate of the current app while the device is touched, to the
*idle* rate some time after, to the *offscreen* rule while the screen is off.
This directory holds TLA+ models of it, translated from the code under
`src/source/`, what TLC checks of them on small instances, and what TLAPS proves
of them for every instance.

## 1. The system

### 1.1 Components

| component | source | state it keeps | operations | makes it correct |
|---|---|---|---|---|
| HeavyWorker | `platform/heavy_worker.*` | a slot per handle (`works_`), `pending_`, a condition variable | `Create`, `SetWork`, the worker's loop | no work lost between the clearing of `pending_` and the visit of a slot, no missed wake-up, every work taken |
| DelayedWorker | `platform/delayed_worker.*` | a time stamp and a work per handle (`slots_`), one one-shot POSIX timer | `Create`, `SetWork`, `_OnTimer`, `ReloadTimer` | the one timer always covers the earliest slot, every work taken, none after its cancel |
| DynamicFps | `modules/dynamic_fps.*` | `touchPressed_`, `btnPressed_`, `active_`, `overridedApp_`, `curApp_`, `isOffscreen_`, `lowBrightness_`, `curHz_`, `forceSwitch_` | `OnInputTouch`, `OnInputBtn`, `OnInputScene`, `OnTopAppSwitch`, `OnOffscreen`, `SwitchRefreshRate` and the works they put | nothing sticks (active, overrides), the rate follows the rule, the input and the screen |
| its configuration | `modules/dynamic_fps.cpp` 69-184 | `rules_`, `universial_`, `offscreen_`, the tunables | `LoadConfig`, `ParseLine`, `AddRule`, `SetTunable`, `FindInvalidRule` | every line ends in the rule the manual says, bad rules are refused |
| InputListener | `modules/input_listener.*` | `readers_`, `pollfds_`, `addPending_`, `removePending_`, `prevBtn_`, `prevTouch_`, `classified_` | `Start`, `OnInputDevUpdated`, `FlushPendingReaders`, `AddReader`, `RemoveReader`, `AddPoll`, `RemovePoll`, `HandleInput`, both handlers | readers, poll set and published state follow the devices, through plugging and unplugging |
| InputReader | `utils/input_reader.*` | `info_` and `useEvtKey` of one device | `Parse`, capability tests | pressed exactly while a finger or button is down |
| CgroupListener, TopappMonitor, OffscreenMonitor | `modules/*.cpp` of these names | a delayed handle per cpuset, the last number of tasks, the last state | inotify callbacks, `Updater`, `OnTopappList`, `OnRestrictedList` | no change is lost between the 1 ms filter, two workers and a query; what was published last is how the device is |
| Inotify, Inotifier | `utils/inotify.*`, `platform/inotifier.*` | the table of watches | `Add`, `Remove`, `WaitAndHandle` | the file stays watched, in the kernel and in the table, however it is replaced |
| daemon process | `main.cpp` | `old_pid`, `new_pid`, the signals | start, `SIGCHLD`, reload on a changed file | no working process is forgotten (one exception: section 2.6); the newest configuration is the one in force (a bad one leaves no working process: the old one is ended first) |
| commands and settings | `utils/misc*.cpp` | child processes, pipes | `ExecCmd`, `ExecCmdSync`, writing the settings | the last setting written is the last one asked for |
| Dfps, CoBridge | `dfps.cpp`, `platform/cobridge.*`, `platform/module_base.*` | the modules, the table of subscribers | construct, `Start`, `Subscribe`, `Publish` | every event after the start-up has its subscriber |
| hints, traces, crash reports; installation scripts | `utils/sched_ctrl.c`, `utils/atrace.c`, `utils/backtrace.cpp`, `magisk/*.sh` | none | system calls, file copies | outside this development |

### 1.2 How they interact

`CoBridge::Publish` calls every subscriber of a topic, synchronously, in the
thread that publishes. A member of a module is therefore touched by as many
threads as publish to it. The working process has four:

    inotify thread   Inotifier -> CgroupListener ----------+
                               -> InputListener (devices)  |
                                                           v  SetWork(delayed)
    timer thread     DelayedWorker -> CgroupListener's read of a cpuset
                                      -> OffscreenMonitor -> offscreen.state -> DynamicFps
                                      -> TopappMonitor ----+
                                   -> DynamicFps: enterIdle, resume, exitOffscreen
                                                           v  SetWork(heavy)
    heavy thread     HeavyWorker -> TopappMonitor -> topapp.pkgName -> DynamicFps
                                 -> DynamicFps: switchActive, switchIdle -> commands
    input thread     InputListener -> input.touch, input.btn, input.state -> DynamicFps

Two workers serialise what is put into them. One handle is one slot: a work put
over another one replaces it, the null work cancels. Nothing else is
synchronised: `DynamicFps` has no lock, and three of the four threads run its
code. A fifth thread of control is the parent process, which restarts all this.

### 1.3 What is hard in it

* *Interleaving without locks*: a handler on the input thread cancels a delayed
  work that the timer thread may already have taken; the handler's store and the
  work's store to the same member then come in either order.
* *Check and act apart*: `if (overridedApp_ == "*") overridedApp_.clear()`, and
  `if (active_) SetWork(..) else SetWork(..)`, against stores of other threads.
* *One flag for many slots* (`pending_`), *one timer for many slots*, and expiry
  signals that cannot be taken back.
* *Notification after unlock*, spurious wakes, works that set works.
* *Eventually*: idle after the last release, the end of an override, the run of
  each work, each only by the chain worker - timer - worker.
* *A long sequence of legal steps*: devices that come, go and come back,
  descriptors that are used again, pending lists that are never cleared.
* *A signal handler between any two steps*: `SIGCHLD` against the store of `fork`'s
  result, deaths that share one signal, pids that are used again.
* *A user against a repair*: the configuration is replaced, deleted or moved while
  the daemon looks for it, creates it and watches it, and while it restarts.
* *Events before their subscriber*: modules that start while the threads of others
  run already.

`PROJECT.json` lists each of these at its line under `hazards`, with the
properties that watch it.

## 2. The modules

| module | models | kind |
|---|---|---|
| `WorkSlots` | what both workers promise: a slot per handle, `Put` overwrites or cancels, `Take`, `Done`, one work at a time | abstract specification |
| `HeavyWorker` | `heavy_worker.cpp` | detailed, refines `WorkSlots` |
| `DelayedWorker` | `delayed_worker.cpp` with the POSIX timer and the clock | detailed, refines `WorkSlots` |
| `DynamicFps` | `dynamic_fps.cpp` 186-320 on its three threads; composed with two instances of `WorkSlots` | detailed |
| `InputListener` | `input_listener.cpp` with `input_reader.cpp`: the inotify and the input thread, the devices | detailed |
| `Config` | `dynamic_fps.cpp` 69-184: the file's lines folded into rules and tunables, and what the manual says of the same lines | operators |
| `OneApp` | what the daemon promises: one process at a time is in charge, by one configuration that is in order | abstract specification |
| `Inotify` | `inotify.cpp` with one watched file, the kernel's watches and queue, and the user who edits | actions, for `Daemon` |
| `Daemon` | `main.cpp`: the process that watches and restarts; `Inotify` and `Config` composed with the processes | detailed, refines `OneApp` |
| `Monitors` | `cgroup_listener.cpp`, `topapp_monitor.cpp`, `offscreen_monitor.cpp` and the start in `dfps.cpp`; composed with two instances of `WorkSlots` | detailed |
| `*_proofs` | the theorems of the module of that name; `InputListenerAtRest_proofs` continues `InputListener_proofs` with those about states at rest and about the poll set | proofs |
| `MC*` | instances for TLC | model checking |

The composition rests on the refinement. `DynamicFps` and `Monitors` instantiate
`WorkSlots` twice, as `DW` and `HW`; that the code behind them behaves so is what
`HeavyWorker` and `DelayedWorker` show.

A definition introduced by a comment "Bug for X" is the definition X with a
plausible mistake in it. It belongs to no specification. Put in X's place it
makes the property fail that `PROJECT.json` names with it under `mutants`: so
each property is known to depend on the code it is about.

### 2.1 HeavyWorker

Each section of code under `mut_` is one action; the mutex is free between two
actions. `SetWork` stores the work and sets `pending_`; the caller then is in
`notifying` until `Notify`, because `notify_one` comes after the unlock. The
worker's thread is at `wait` (about to test the predicate), `blocked` (asleep in
the condition variable), `scan` at slot `pos`, or `run`. `StartScan` clears
`pending_` as line 31 does, before the loop. Callers are any threads, and the
worker itself while it runs a work, because `TopappMonitor`'s work ends in
`DynamicFps::SwitchRefreshRate`. `SetWork` needs all handles to exist: `Dfps`
constructs all modules before it starts the first.

### 2.2 DelayedWorker

`SetWork` changes a slot and reloads the timer; `_OnTimer` is `OnTimer` (the
signal is received), `Pick` or `PickNothing`, the work itself until `RunDone`,
and `Reload`. Time is the variable `now`; `Tick` may come between any two steps,
so every step may be arbitrarily late. An expiry sets `expired`, which is the
one pending signal; reloading the timer leaves it there, as the kernel does.
`Ready` is strict (`ts < now`), as in the code, so that an expiry that is just in
time finds nothing and must arm the timer again, `MIN_INTERVAL` ahead. The
nanosecond arithmetic is abstracted to ticks. `Earliest` keeps the code's choice
among equal time stamps, the lowest handle.

### 2.3 DynamicFps

A step of a thread touches at most one thing that another thread can touch.
`OnInput`, `OnInputScene`, `OnTopAppSwitch` and `OnOffscreen` are split where the
code makes a second such access: `SwitchRefreshRate(bool)` is the store of
`forceSwitch_`, the read of `active_` and the `SetWork`; a press and a gesture
end with the cancel of their delayed work; `CompareOverride` and `ClearOverride`
are the test and the assignment of the delayed works; the switch of the rate
reads `overridedApp_` (twice), then `forceSwitch_`, resets it and applies.
`pc[t]` says where thread `t` is.

What is abstracted:

* There is no clock. A delayed work may run at any time after it was put. All
  orders that some delays allow are there; so are orders that need a thread to be
  late. The three violations below need only a work that comes due while another
  thread is inside a handler, or, for the screen, none of that.
* `overridedApp_` is a `std::string` read while it may be written, which C++
  leaves undefined. The model lets the two reads (is it empty; which name is it)
  see different values: that gives the old rule, the new one, or the default one.
  A reader that sees a torn name finds no rule and takes the default rule too.
* The brightness is sampled on an idle switch only when the last sample is old
  enough, so a switch keeps the old value or takes a sample from `LowSamples`.
* Applying the rate (the settings and their commands) is the assignment of
  `curHz`. `forceSwitch_` is modelled; what a forced switch repairs is the
  system's own change of the rate, which is outside this module.
* The environment: `InputListener` publishes a touch only when it changes and a
  button whenever the count goes from or to zero; a gesture's state comes with
  any change of the touch. The read of the restricted tasks publishes either
  state. The inotify thread's part is only the `Put` it makes.
* The rules are constants: the file is read before any thread starts.

### 2.4 InputListener

`pc` is where the input thread is: `scan` and `built` belong to the constructor
and to what comes before `Start`, then `flush`, `poll`, `handle` and `parse` go
round. `OnInputDevUpdated` runs on the inotify thread and needs `mut_`, which the
input thread holds in `flush` only. `FlushPendingReaders` copies the lists into
`todo`; the lists themselves stay, as in the code. `FlushOne` removes or adds one
reader, `Poll` finds the slots that are `ready`, `HandleInput` handles the first
of them and `Parse` one frame of what a reader has read, so that devices may
report, come and go between any two frames. The readers are a function of the
descriptor, as `readers_` is; the poll set is a sequence, with `Unused` for -1.

What is abstracted:

* A device reports *frames*: the set of the events between two `EV_SYN` that its
  parser looks at. A panel reports a tracking id with each finger that comes and
  goes; those in `KeyPanels` report `BTN_TOUCH` with the first and the last. The
  order of events within a frame makes no difference to the parsers.
* The comparisons with `swipeThd_`, the delays and the edges may come out either
  way at any frame (`Found`). A gesture's first delay, which runs from the
  construction, is over before the first frame.
* The kernel keeps what it has to tell: notices in order, frames in order until
  the device vanishes, one bit for the pipe, which a read of 1024 bytes empties
  (256 notices). `open` returns the lowest descriptor that is free; with `Shared`,
  any that is free.
* `Start` adds the watch and does the input thread's first flush in one step; what
  comes between the two is noticed, and waits in the pending lists, either way.
* The scan of the directory sees one state of it, up to the opening of the nodes:
  devices come and go from then on. `unnoticed` are the nodes that did so before
  the watch was added; the code has no means to hear of them.
* `poll` fails when the set exceeds `NoFile`, the limit on open files. Slots above
  `NoFile + 1` are not modelled: the set never shrinks, and `poll` fails for good.
* The device nodes (`Path`) are finitely many, as there are in `/dev/input`; the
  proofs count them.
* Files of other threads that get a descriptor which is still in a slot are left
  out; `PROJECT.json` lists that under `hazards`.

### 2.5 Config

A line is a record of what scanning it gives: a rule, a tunable with a number, a
tunable with a text (`std::stoi` throws), or nothing that counts. `LoadConfig` is
the fold of `ParseLine` over the lines, `Accepted` the tests that follow it.
`Line` is the set of such records; `Daemon` assumes that every content of the
file is a sequence of them (`ContentAssumption`), and nothing else of a content.
`AsWritten` is the reference definition: which line about a package counts, that
every rule fits the method, the exact value of each tunable from the last line
about it, stated over the set of lines and without the fold. It takes from the
manual that the rules are ordered from high to low (line 56), that both special
rules must be there (line 57), the defaults and ranges of the tunables, and of
each single value that it is an index below 20 with the backdoor (line 43), a
rate of 20 or more without (line 38), or -1 (line 58): `ValueFits`, `FitsMethod`.

The code does not keep to the last point. It takes a rule for one of the backdoor
when *both* values are below 20, so that without the backdoor it accepts a rule
that mixes an index and a rate (`game 1 60`), which the manual does not allow.
`KeepsToMethod` names these rules (`Mixed`) as the one exception, and the run
`daemon` has such a file; that they are the only ones is what `WorksAsWritten`
and `AcceptedIsAsWritten` add. The divergence is listed under `hazards`.

### 2.6 Inotify and Daemon

An inode stands for its watch descriptor: the kernel has one watch per inode and
never gives a descriptor again. The queue merges an event with an equal last one,
as the kernel does. `ReadEvents` takes all that waits; `Handle` looks at the next
event; `LookAgain`, `Recreate` and `AddWatch` are the repair, one system call
each, with the user's steps in between. `AddWatch` adds under the kernel's
descriptor first and erases the event's after it, which may be the same one.

A process is `loading` from `fork` on, `working` once it has accepted its file,
`zombie` until the daemon's `wait()`. `DaemonSigHandler` comes between any two
steps of the daemon's main thread and stops it until `Wait`; a `SIGCHLD` that
comes while one is pending is merged. `Fork` and `StoreNewPid` are two steps,
because the child may die before `new_pid` is assigned. No `Sleep` is relied on.

What is abstracted:

* The user writes one of a few contents in place, installs a new file, deletes,
  moves away or moves back, `MaxEdits` times. `Recreate` uses `creat`, so a file
  that comes between the second look and it is truncated, as in the code.
* `spoiled` marks two edits that the repair does not stand: a *watched* file that
  is moved back (the table has lost its descriptor, the kernel has not, and the
  next erase removes what was just added), and one that vanishes between the look
  and `inotify_add_watch` (the result -1 becomes the table's key, and nobody looks
  again). The properties of the watch are about all other histories; no document
  promises anything for these two.
* `fork` succeeds, `read` of the events is restarted after a signal, as `signal()`
  of the C library arranges, and other processes get no number of the daemon's
  children.
* The tombstone and the log lines are left out, as is the end by `SIGTERM`. What
  `exit()` and logging may do inside a signal handler is left out too.

`fork` returns any number that no process has. One of them the code mishandles:
`dead_pid` is never reset, and a new process that gets the number in it is taken
for a failed start (line 113). If `old_pid` names another process, or none, the
new one works, but is never stored in `old_pid` and never ended; the next change
starts a second one beside it. For example: a process works and is ended, its
successor refuses the file and dies (`dead_pid`), and a later `fork` returns that
number. The auxiliary variable `mistaken` holds the processes that were started in
this way; no action reads it. `NoForgottenProcess`, `NewestIsLoaded` and
`ImplementsOneApp` except exactly these, and say that nothing else leads to a
process that is forgotten, to an older configuration in force, or to a second
process. In the run the case is reached: one of the starting files is refused, the
edits after it are not, and two processes work at rest. It is listed under
`hazards`; since no document says how many processes work, it is not a finding.

### 2.7 Monitors

The inotify thread takes a `notice` of a cpuset (`OnModified`), which makes the
list of updaters to start, and starts them one by one (`UpdaterStart`, with the
question for subscribers and the 1 ms filter). The timer's thread reads and
publishes in one step; `OnTopappList` and `OnRestrictedList` are that step with
its subscriber. The query is a delayed work that puts a heavy work; `Ask` and
`Publish` are two steps, because the app may change between the answer and its
publication. `StartModule` lets the modules start one by one while all this runs.

What is abstracted:

* Time is what each delayed work has `left`, in ticks of the filter's millisecond.
  A work that is due may be taken at any time from then on.
* The updaters of the foreground and background cpusets have no subscriber, hence
  only their test; the four tasks files and their `cgroup.procs` are one notice
  per cpuset. A cpuset's tasks are a number: each app brings its own (`Tasks`),
  and while an app leaves, both are counted. Reading a file does not fail.
* A query finds the app that is on top then, or nothing (`AskFails`).
* Preconditions are state, not assumptions: `owed` says that the last switch of
  the top app *must* be noticed (it came after the start-up, and the app before it
  stayed until it was read; a query that fails cancels it), `owedRe` the same of
  the restricted tasks, `early` that the screen was off before `DynamicFps`
  listened. `Distinct(a)` says that the threshold tells a's number of tasks from
  every other number that may be read.

What these preconditions leave out is real: a switch to an app whose number of
tasks is within ten of the last one read goes unnoticed; so does a change of the
restricted tasks that is reported by the top-app or the background cpuset only; a
screen that was off during the start-up is heard of when it is off again; a query
that fails is not repeated. No document promises otherwise; they are listed under
`hazards` or here.

## 3. What the runs check

| run | instance | result |
|---|---|---|
| `heavy_worker` | 2 callers and the worker, 2 handles, 2 works; 1 030 states | passes: `TypeOK`, `NoLostWork`, `NoMissedWakeup`, `ImplementsWorkSlots`, `EveryWorkIsTaken` |
| `delayed_worker` | 3 handles, 2 works, `MaxTime` = 3; 20 695 states | passes: `TypeOK`, `TimerNotLate`, `AwakeHasWork`, `ImplementsWorkSlots`, `EveryWorkIsTaken` |
| `dynamic_fps_touch` | touches, buttons, top apps; 408 000 states | passes: `TypeOK`, `NoStuckActive`, `RuleIsCurrent`, `ActiveEnds` |
| `dynamic_fps_override` | gestures, screen; 417 000 states | passes: `NoStuckOverride`, `RuleIsCurrent`, `OverrideEnds` |
| `press_during_idle` | touches | violates `TouchedScreenIsActive` |
| `idle_after_release` | touches, top apps, brightness | violates `ReleasedScreenIsIdle` |
| `screen_off_on_off` | screen | violates `OffscreenRuleApplied` |
| `input_listener` | a panel for two fingers and a button device, both hotplugged; 2.3 million states | passes: `TypeOK`, `EveryReaderIsPolled`, `ReadersFollowDevices`, `NoPhantomTouch`, `TouchIsBacked`, `PollSetIsBounded` |
| `released_buttons` | one button device | violates `ReleasedButtonsAreReleased` |
| `daemon` | 3 pids, 2 edits, and 184 files to start on; 528 000 states | passes: `TypeOK`, `NoForgottenProcess`, `HandlerNeverBlocks`, `FileIsWatched`, `NewestIsLoaded`, `WorksAsWritten`, `ImplementsOneApp`, `ChangesTakeEffect` |
| `monitors` | 3 apps, 3 cpusets, 2 changes; 653 000 states | passes: `TypeOK`, `IgnoredIsCovered`, `TopAppIsPublished`, `OffscreenIsPublished`, `ChangesAreHeard` |
| `second_finger` | one panel without `BTN_TOUCH`, two fingers | violates `TouchIsPublished` |

`NoLostWork` says that an accepted work is still ahead of the loop, or `pending_`
will start another loop. `NoMissedWakeup` says that the worker sleeps with
`pending_` set only while some caller has yet to notify. `TimerNotLate` says that
with nothing left for the timer's thread to handle, the timer is armed early
enough for every slot that is awake, whatever was cancelled, put off, or left
over by a thread that ran one of several ready works. `NoStuckActive` and
`NoStuckOverride` say that whatever must end has the work that ends it on its
way. `RuleIsCurrent` says that with the threads at rest the rate is one of the
current rule: no unlocked read of the rule is the last word. `ActiveEnds` and
`OverrideEnds` are the eventualities.

Of `InputListener`: `EveryReaderIsPolled` says that no open reader is without a
slot, though slots are freed one at a time and filled all at once.
`ReadersFollowDevices` says that at rest the devices and the open readers
correspond, whatever came, went and came back, and in whatever order the two
lists were filled. `NoPhantomTouch` says that at rest with no finger down the
touch published last is a release, also when a panel vanished under a finger.
`TouchIsBacked` relates what is published to the last frame of an open panel.
`PollSetIsBounded` says that as long as at most one device has been re-plugged,
slots are used again. The restriction is the code's: with two such devices each
loop frees two slots, of which the first device added takes both, so that the set
grows. No run shows this growth; it is listed under `hazards`.

Of `Daemon`: `NoForgottenProcess` says that whenever the daemon waits for a
change, each process that works and has not been told to end is the one `old_pid`
names, which the next change will end, whatever the handler made of merged
signals, early deaths and pids used again; with the exception of section 2.6, a
process that was given the number in `dead_pid`.
`HandlerNeverBlocks` says that `wait()` in the handler always has a dead child.
`FileIsWatched` relates path, kernel and table, for histories that are not
`spoiled`; `NewestIsLoaded` what the working process has read to what the file
holds, at rest: one process has read it, and so has every other one that is not
forgotten. `ChangesTakeEffect` is the eventuality. `ImplementsOneApp` says that
the processes which were started and not told to end, and are not `mistaken`
(`InCharge`), are one or none at every moment, not only while the daemon waits;
that the next one is started only when there is none; and that the one there is
works by what it has read, which is in order, to its end. `WorksAsWritten` says
that what a process works by is what the manual says of the lines it read, with
the exception of section 2.5.

Of `Monitors`: `IgnoredIsCovered` says that a call which the 1 ms filter drops
finds a read of its cpuset still ahead. `TopAppIsPublished` and
`OffscreenIsPublished` say that at rest what `DynamicFps` was told last is how the
device is; `ChangesAreHeard` that this comes true once the device stays as it is.

### 3.1 The bounds

* `MCHeavyWorker`: two threads call from outside (input and timer thread). The code
  creates more handles than two: one in `TopappMonitor`, one in `DynamicFps`, and
  one for each updater of `CgroupListener` (line 40), which stay unused. Two are
  the bound here: a loss needs a slot behind the loop's position and one before
  it. Two works tell a work from the one that replaces it.
* `MCDelayedWorker`: the least time stamp, one that is equal to another and one
  that is later need three slots; `MaxTime` = 3 gives each of them a past, a
  present and a future. Clients put works only before `MaxTime`; the clock runs
  on as long as the timer has to.
* `MCDynamicFps`: the manual's example of rules, all rates different from one
  another where a property tells them apart. The kinds of events are split over two runs, because TLC cannot exhaust all five at once. The split
  is along what the properties relate: touches, buttons and top apps share
  `active_`; gestures and the screen share `overridedApp_`. The safety properties
  are proved for all kinds together (section 4).
* `MCInputListener`: two fingers and one key, so that a device can vanish with one
  or both fingers down; four times a device may come or go (`MaxPlugs`), enough
  for both to vanish and return, or for one to do so twice; three descriptors, so
  that each is used again; one frame waits in a device (`MaxFrames`): the frames
  of one read are handled in separate steps anyway. `MaxCnt` bounds the presses of
  buttons. `Found` is {TRUE}: holds and swipes are found as early as can be, which
  is the hard case for `NoPhantomTouch`; nothing else checked depends on them.
  `NoFile` = 3 is as many slots as the pipe and both devices need.
  `second_finger` and `released_buttons` need one device each, which stays; for the
  former `Found` is {FALSE}, so that nothing but its touch is published.
* `MCDaemon`: two edits are enough for a change during the handling of another, for
  a file that is deleted and written again, moved away and back, and for a restart
  that overlaps the next; three pids, for an old, a new and a dead one, and for a
  forgotten one beside them. The edits start from a good file and from one that is
  refused, without a default rule; the other 182 files (an offscreen and a default
  rule with up to two of thirteen lines) are read and left alone (`Untouched`), for
  `WorksAsWritten`.
* `MCMonitors`: two apps that the threshold tells apart and a third that it does not
  tell from one of them; the numbers of restricted tasks on both sides of the
  threshold. Two changes let a switch or a stir come at each stage of another's
  way; the invariants were also explored with three (8.7 million states). The
  delays keep their order, not their size: the query's is longer than the reads'.
* `CHECK_DEADLOCK FALSE` stands in the configurations of `DynamicFps` because that
  system may rest: after `BecomeQuiet` nobody touches the device any more; and in
  those of `InputListener`, whose input thread waits in `poll` when no device
  reports. The daemon waits for events and the monitors for changes, after the last
  of which nothing is left to do. The workers' configurations check deadlock.

### 3.2 Fairness

* `HeavyWorker`: weak fairness of the worker's thread and of each caller that is
  between unlock and notify: the operating system runs what can run. Strong
  fairness of `RunDone`: every work returns; its own calls of `SetWork` disable it
  now and then, but only finitely often in one work. No caller has to call, no
  spurious wake has to come.
* `DelayedWorker`: time goes on, and the timer's thread runs.
* `DynamicFps`: weak fairness of each thread, and of the taking of each slot. The
  latter is `EveryWorkIsTaken` of the two workers. It is not assumed that an event
  ever happens. A client can put a delayed work off for ever by setting it anew
  (the manual wants exactly this of `touchSlackMs`), so the eventualities are about
  what follows once the environment is `quiet`.
* `InputListener`: the start-up and the input thread run (weak fairness); a notice
  is handled in the end (strong fairness, because `mut_` is taken again and again,
  and free while the input thread polls, handles and sleeps). Devices do what they
  like.

* `Daemon`: the daemon and each process run (weak fairness). The user does not have
  to do anything, nor to close the file he writes; no process has to crash. What is
  stated of the end is stated for a user who stops (`MaxEdits` sees to it).
* `Monitors`: time goes on, the start-up and the three threads run (weak fairness),
  and an app that is leaving the top-app cpuset leaves in the end. No change has to
  come.

### 3.3 What the violations show

All five are statements of the manual, `src/magisk/config/dfps_help_en.md`, that
the code does not keep in some order of its threads or of the devices' events.
(The rules that mix an index and a rate, section 2.5, are a sixth statement that is
not kept; it needs no run, being an exception that `WorksAsWritten` spells out.)

* `press_during_idle`: the manual (line 7) says that during operation the rate is
  the active one. The timer's thread has taken `enterIdle`; a finger comes down,
  the handler sets `active_`, puts the active switch and cancels an empty slot;
  then `enterIdle` clears `active_` and puts the idle switch over it. The touch
  does not change again until the finger lifts: the idle rate stays under it.
* `idle_after_release`: line 7 also says that after the release and the wait the
  rate is the idle one. The heavy worker's thread, publishing a new top app, reads
  `active_` before `enterIdle` clears it, and puts its active switch after
  `enterIdle` has put the idle one. The active rate stays with nothing pressed.
* `screen_off_on_off`: line 57 says that `-` is the rule while the screen is off.
  Off, on, off: the second off does not cancel the `exitOffscreen` that the on has
  put; it finds `-` in force and clears it. The app's rule is applied while the
  screen is off. This needs no race, only the second off within `gestureSlackMs`.
* `released_buttons`: line 7 again. `ParseBtn` calls the handler at every `EV_SYN`.
  While a key is held, a frame without a key event (a switch, a light, a scan
  code) makes `HandleBtnInput` count the key again; the release takes one off, and
  the buttons stay published as pressed, hence `active_` set.
* `second_finger`: line 7, during operation. `ParseTouchPanel` keeps one flag for
  all fingers. On a panel that reports no `BTN_TOUCH` each tracking id sets it, so
  that the finger that lifts first releases the other one, too; the other's moves
  have no tracking id. The release is published, and after `touchSlackMs` the idle
  rate comes under the finger.

## 4. What is proved

TLAPS proves, for every value of the constants that satisfies the assumptions
named in the modules (finite or not, any number of callers, handles, works, apps,
rules, rates):

* `HeavyWorker_proofs`: `TypeCorrect`, `WorkIsNotLost`, `WakeupIsNotMissed`, and
  `Refinement` (`Spec => ImplementsWorkSlots`, the initial states and every step). The inductive invariant `IInv` is `TypeOK`,
  `NoLostWork`, `NoMissedWakeup` and `WorkerCallsFromWork`: without the last, a
  notification of the worker's own could be counted on while it sleeps. No handle
  is put before all exist, so the loop bounds never change under way.
* `DelayedWorker_proofs`: `TypeCorrect`, `TimerIsNotLate`, `AwakeSlotHasWork` and
  `Refinement`. The argument is one lemma, `ReloadCovers`: after `ReloadTimer(ts)`
  the timer covers every slot that is awake in `ts`. Every step either ends in it,
  changes neither slots nor timer, or leaves the thread with something to handle.
* `DynamicFps_proofs`: `TypeCorrect`, `NothingIsStuck` (both "stuck" invariants, in
  one theorem, because the same strengthening carries them; `OverrideIsNotStuck` is
  its second half) and `RuleIsFollowed`.
  `ControlInvariance` proves which `pc` values and which running works go together,
  on which the others rest. `RuleIsFollowed` needs to know, for every moment
  between a change of the rule and the switch that follows it, who is going to put
  that switch: a thread at `force`, `read` or `post`, the slot `fps`, or a work
  that has yet to read the part of the rule that changes.

* `InputListener_proofs`: `TypeCorrect` (with it, that the count of buttons stays a
  natural number), `ReadersArePolled` and `PublishedTouchIsBacked`. Beside the
  properties, `IInv` says that a descriptor without a node is closed, that what was
  handled last was published, and `HandledExists`: the slots left to handle are
  those of descriptors and the frames left are an open reader's, without which
  neither `HandleInput` nor `Parse` would be type-correct. `AddPollCovers` and
  `RemovePollKeeps` carry `ReadersArePolled`; steps that neither open nor close a
  reader share the lemma `KeptReaders`.

* `InputListenerAtRest_proofs`, in three layers over that `IInv`:
  - `NodesInvariance` and `ReadersFollow`. `RInv` follows a node from the kernel's
    notice over the two pending lists into `todo` and to its reader. It says that a
    node never has two readers (`OneReaderEach`), that a reader whose device is
    gone is known to be (`DeadIsDeleted`), that a device without a reader is known
    to have come (`UnopenedIsCreated`), and that a device which is there though it
    vanished has come back (`ComeBack`). `TodoOrder` and `Reconciling` are why a
    flush ends with the right readers although the lists keep what was worked off
    long ago: all removals come before all additions, each removal is followed by
    the addition of every node that ever came, and a wait that nothing interrupts
    comes after a flush of all that was noticed.
  - `PanelInvariance` and `NoTouchIsLeft`. `TInv` says of every frame that waits in
    a panel or is being parsed what the panel will have reported by then: a panel
    without fingers has its release as the last frame that waits, or is already
    read as released; a panel without `BTN_TOUCH` never sets `useEvtKey`. A hold
    needs a touch (`HoldIsTouch`), so that a release is published with nothing held.
  - `PollSetBounded`. `PollSetRoom` bounds the slots by the number of nodes that
    were removed once or have a reader now. A node that comes the first time takes
    one slot more; one that comes back finds the slot its removal has freed, as
    long as no other node is removed in the same flush, which is what "at most one
    has been re-plugged" amounts to.
* `Daemon_proofs`: `TypeCorrect`, `NoProcessIsForgotten`, `HandlerFindsDeadChild`,
  `FileStaysWatched` and `NewestStaysLoaded`, for any pids, contents and number of
  edits, with the exceptions that these properties name (`mistaken`, `spoiled`).
  `IInv` adds five parts to `TypeOK`. `ProcInv` says, for each point of the
  daemon's loop, that a process which was not told to end is the one just started,
  the one `old_pid` names, or `mistaken`; and that what has the number in
  `dead_pid` now was told to end, is named by `old_pid`, or is `mistaken`: hence
  `SettleOver` skips the store of no other. `SignalInv` counts: a pending signal, a running
  handler and both together have one, one and two dead children. `BatchInv` says
  which event the repair is about; `WatchInv` that the path is watched under the
  table's one descriptor, or that an event which leads to the repair is on its way
  and is not about the file at the path. `LoadInv` says that a process that is
  not forgotten (`Forgotten`: `mistaken`, and not the child started last) has loaded
  what the file holds unless a change is still to be handled, and that the child
  started last is alive if it can be. None of these
  theorems expands `Accepted` or `LoadConfig`: they hold for any test of a file.
  `ProcessWorksAsWritten` is different: a process works only with lines that were
  accepted (`WorkInv`), and of those `Config_proofs` says the rest. `Refinement`
  (`Spec => ImplementsOneApp`) follows step by step from `ProcInv`, by which the
  processes that were not told to end and are not `mistaken` are at most one at
  every `pc`, and from `WorkInv`, by which what that one has read is in order. All
  that happens to a `mistaken` process is a stutter of `OneApp`.
* `Config_proofs`: `AcceptedIsAsWritten`, for every sequence of lines, however
  long: what `LoadConfig` accepts is what the manual promises (`AsWritten`), but for
  rules that mix an index and a rate. It
  is an induction over the lines, done without the library's induction theorems,
  whose operator parameter the provers cannot instantiate. `LeastNatural` gets the
  least element of a set of numbers from `NatLessThanWellFounded` and `WFMin`; a
  claim about all numbers is shown by taking the least for which it fails. First
  so that the recursive function behind `FoldLeft` exists (`StepsExist`: the
  function on the subsets of 1..m extends to those of 1..m+1), hence that the
  lines are read one after the other (`LoadIsStepwise`); then so that after k
  lines the configuration is what the first k lines say (`Read`, preserved by
  `RuleStep` and `OtherStep`): the first line of a package, the last line of a
  special rule, the last value of each tunable, cut to its range (`ValueAt`).
* `Monitors_proofs`: `TypeCorrect`, `NoCallIsLost`, `TopAppReachesDynamicFps` and
  `ScreenReachesDynamicFps`, for any apps, numbers of tasks, delays and number of
  changes. Beside `TypeOK`, `IInv` says that a slot holds its own work (`OwnWork`),
  that the filter's millisecond is covered by a read ahead (`Covered`, which needs
  the delays to be at least a tick), that nothing was heard before the start-up was
  over (`Unheard`), and follows a change that must be noticed along its way:
  `ScreenInv` for the restricted tasks, `NumberInv` and `SwitchInv` for the number
  last read and the query that must come after the switch.

The order of the argument is the same in each: the inductive invariant is an
invariant of a TLC run's size first, then `Init` implies it, each action preserves
it (one step per action), it implies the property, and PTL combines them.

Every invariant that a passing run checks is proved, and so are the three refinements.
Only model-checked are the eventualities (`EveryWorkIsTaken`, `ActiveEnds`,
`OverrideEnds`, `ChangesTakeEffect`, `ChangesAreHeard`): the prover does neither
fairness nor ENABLED.

The findings' properties do not hold and are not proved.

## 5. What is not modelled, and the plan

Not modelled for good:

* The hints, traces and crash reports (no state of the program), the installation
  scripts, the texts of log lines.
* What commands do to the screen (`utils/misc_android.cpp`). The settings are
  written by system tools, and a model would be one of the settings service, which
  is not in the repository. `DynamicFps` applies a rate in one step; that the
  settings of two switches may take effect in the other order stays a hazard
  without a property. `Monitors` lets the query of the top app fail.
* The table of `CoBridge`, an unsynchronised hash map that is read while the
  start-up still adds to it: undefined behaviour of the library, of which every
  outcome is possible. `Monitors` has the defined part, who has subscribed by when.
* The vendored libraries under `src/thirdparty` (most of the repository's C++ text:
  some 36 000 of 40 000 lines). The program's own code has about 3 600 lines; of
  its modules, workers, daemon and watches nearly all is mapped.

Left to do:

1. The children of the working process (`ExecCmd`, `ExecCmdSync`). `fork` leaves it
   the daemon's handler of `SIGCHLD`, whose `wait()` takes the children that
   `ExecCmdSync` waits for or stands until another one ends, on whichever thread
   the signal comes to; and a tool that writes more than a pipe holds never ends.
   No property checked here depends on which of the two takes a child.
2. What a step may never do, as action properties: so far the proofs are about
   states and the refinements.
