---------------------------- MODULE InputListener ----------------------------
(***************************************************************************)
(* modules/input_listener.cpp with utils/input_reader.cpp: the input       *)
(* devices that come and go, and what is published of them.                *)
(*                                                                         *)
(* Two threads take part.  The inotify thread hears of device nodes that   *)
(* appear or vanish, appends them to a pending list under mut_ and writes  *)
(* to a pipe that ends the other thread's poll.  The input thread works    *)
(* off the pending lists under mut_, polls, and handles what can be read.  *)
(* Only it touches the readers, the poll set and what is published.        *)
(*                                                                         *)
(* A frame is what a device reports between two EV_SYN: the set of those   *)
(* of its events that the reader looks at.  The first is sent down by a    *)
(* finger or a key, with the tracking id or the key of the touch; the      *)
(* empty frame is a sample of a position, or a change of something that is *)
(* not a key (a scan code, a switch, a light).                             *)
(*                                                                         *)
(* Distances, places and times are abstract: every sample of a touch may   *)
(* take the distance over swipeThd_, every swipe may be one that started   *)
(* at the edge, and both timers may run out between any two frames.        *)
(*                                                                         *)
(* A definition introduced as "Bug for X" is X with a plausible mistake in *)
(* it, and is no part of the specification: it shows that a property that  *)
(* holds of X is one X could break.                                        *)
(***************************************************************************)
EXTENDS Naturals, FiniteSets, SequencesExt

CONSTANTS Path,        \* the device nodes
          DevType,     \* their types: "touch", "btn" or "mouse"
          KeyPanels,   \* the touch panels that also report BTN_TOUCH
          Hotplug,     \* the nodes that may come and go
          NoPath,
          Fd,          \* the descriptors of this module
          PipeFd,      \* the one of the pipe
          Shared,      \* other threads open and close files as well
          Unused,      \* -1, in a slot of the poll set that is free
          Found,       \* what a comparison with a threshold of swipe, hold or gesture can find
          NoFile,      \* poll fails for more slots than the process may have files
          MaxHeld,     \* bound: fingers or keys held on each device
          MaxFrames,   \* bound: frames that wait in one device
          MaxPlugs,    \* bound: how often devices come and go
          MaxCnt       \* bound: a count of buttons at which no press comes any more

ASSUME PathAssumption == NoPath \notin Path /\ IsFiniteSet(Path)
ASSUME DevTypeAssumption == /\ DevType \in [Path -> {"touch", "btn", "mouse"}]
                            /\ \A p \in KeyPanels : p \in Path /\ DevType[p] = "touch"
                            /\ Hotplug \subseteq Path
ASSUME FdAssumption == Fd \subseteq Nat /\ PipeFd \in Fd /\ Unused \notin Fd /\ Shared \in BOOLEAN
ASSUME FoundAssumption == Found \subseteq BOOLEAN /\ Found # {}
ASSUME BoundAssumption == /\ NoFile \in Nat /\ MaxHeld \in [Path -> Nat]
                          /\ MaxFrames \in Nat /\ MaxPlugs \in Nat /\ MaxCnt \in Nat

Frame == {{}, {"track"}, {"untrack"}, {"track", "keydown"}, {"untrack", "keyup"},
          {"keydown"}, {"keyup"}, {"repeat"}}
ReaderFd == Fd \ {PipeFd}

VARIABLES present,        \* the device nodes that exist
          held,           \* how many fingers or keys are down on each
          plugs,          \* how often devices came and went
          watching,       \* Start has added the watch of the directory
          unnoticed,      \* nodes that came or went before that, and have not gone since
          notices,        \* inotify: what has not been handled yet
          addPending,     \* addPending_
          removePending,  \* removePending_
          wake,           \* the pipe has something to read
          pc,             \* where the input thread is
          todo,           \* what FlushPendingReaders has still to do
          ready,          \* the slots that poll found readable and that are left
          reading, frames,\* the reader in Parse, and what is left of what it read
          readers,        \* readers_
          pollfds,        \* pollfds_
          prevTouch,      \* prevTouch_.pressed
          classified,     \* classified_, which prevClassified_ equals between two calls
          prevBtn,        \* prevBtn_
          touchPressed,   \* what was published last on input.touch
          btnPressed      \* and on input.btn

devices == <<present, held, plugs, unnoticed>>
inotify == <<watching, notices, addPending, removePending>>
control == <<pc, todo, ready, reading, frames>>
poll == <<readers, pollfds>>
touch == <<prevTouch, classified, touchPressed>>
btn == <<prevBtn, btnPressed>>
vars == <<devices, inotify, wake, control, poll, touch, btn>>

Closed == [path |-> NoPath, live |-> FALSE, pressed |-> FALSE, useEvtKey |-> FALSE, queue |-> <<>>]
Opened(p) == [path |-> p, live |-> TRUE, pressed |-> FALSE, useEvtKey |-> FALSE, queue |-> <<>>]
Reader == [path : Path \cup {NoPath}, live : BOOLEAN, pressed : BOOLEAN, useEvtKey : BOOLEAN,
           queue : Seq(Frame)]

TypeOK == /\ present \subseteq Path
          /\ held \in [Path -> Nat]
          /\ plugs \in Nat
          /\ watching \in BOOLEAN
          /\ unnoticed \subseteq Path
          /\ notices \in Seq({"create", "delete"} \X Path)
          /\ addPending \in Seq(Path)
          /\ removePending \in Seq(Path)
          /\ wake \in BOOLEAN
          /\ pc \in {"scan", "built", "flush", "poll", "handle", "parse"}
          /\ todo \in Seq({"add", "remove"} \X Path)
          /\ ready \subseteq Nat
          /\ reading \in Fd
          /\ frames \in Seq(Frame)
          /\ readers \in [ReaderFd -> Reader]
          /\ pollfds \in Seq(Fd \cup {Unused})
          /\ prevTouch \in BOOLEAN
          /\ classified \in [inHold : BOOLEAN, inSwipe : BOOLEAN, inGesture : BOOLEAN]
          /\ prevBtn \in Nat
          /\ touchPressed \in BOOLEAN /\ btnPressed \in BOOLEAN

\* The constructor, which has made the pipe (PreparePoll) and is about to scan.
Init == /\ present \in {(Path \ Hotplug) \cup S : S \in SUBSET Hotplug}
        /\ held = [p \in Path |-> 0]
        /\ plugs = 0
        /\ watching = FALSE
        /\ unnoticed = {}
        /\ notices = <<>>
        /\ addPending = <<>>
        /\ removePending = <<>>
        /\ wake = FALSE
        /\ pc = "scan"
        /\ todo = <<>>
        /\ ready = {}
        /\ reading = PipeFd
        /\ frames = <<>>
        /\ readers = [fd \in ReaderFd |-> Closed]
        /\ pollfds = <<PipeFd>>
        /\ prevTouch = FALSE
        /\ classified = [inHold |-> FALSE, inSwipe |-> FALSE, inGesture |-> FALSE]
        /\ prevBtn = 0
        /\ touchPressed = FALSE /\ btnPressed = FALSE

IsTouchPanel(p) == DevType[p] = "touch"
ReadersOf(p) == {fd \in ReaderFd : readers[fd].path = p}

-----------------------------------------------------------------------------
(* The devices. *)

\* A device reports to its open reader, if it has one.
Reports(p, frame) ==
    /\ \A fd \in ReadersOf(p) : Len(readers[fd].queue) < MaxFrames
    /\ readers' = [fd \in ReaderFd |->
                      IF readers[fd].path = p /\ readers[fd].live
                      THEN [readers[fd] EXCEPT !.queue = Append(@, frame)]
                      ELSE readers[fd]]

\* A panel with BTN_TOUCH reports it with the first finger and with the last.
Press(p) ==
    /\ p \in present /\ pc # "scan"
    /\ held[p] < MaxHeld[p]
    /\ IsTouchPanel(p) \/ prevBtn < MaxCnt
    /\ held' = [held EXCEPT ![p] = @ + 1]
    /\ Reports(p, IF ~IsTouchPanel(p) THEN {"keydown"}
                  ELSE IF p \in KeyPanels /\ held[p] = 0 THEN {"track", "keydown"}
                  ELSE {"track"})
    /\ UNCHANGED <<present, plugs, unnoticed, inotify, wake, control, pollfds, touch, btn>>

Release(p) ==
    /\ p \in present /\ pc # "scan"
    /\ held[p] > 0
    /\ held' = [held EXCEPT ![p] = @ - 1]
    /\ Reports(p, IF ~IsTouchPanel(p) THEN {"keyup"}
                  ELSE IF p \in KeyPanels /\ held[p] = 1 THEN {"untrack", "keyup"}
                  ELSE {"untrack"})
    /\ UNCHANGED <<present, plugs, unnoticed, inotify, wake, control, pollfds, touch, btn>>

\* A touch moves; a key repeats; something other than a key changes.
Sample(p) ==
    /\ p \in present /\ pc # "scan"
    /\ \/ IsTouchPanel(p) /\ held[p] > 0 /\ Reports(p, {})
       \/ ~IsTouchPanel(p) /\ held[p] > 0 /\ Reports(p, {"repeat"})
       \/ DevType[p] = "btn" /\ prevBtn < MaxCnt /\ Reports(p, {})
    /\ UNCHANGED <<devices, inotify, wake, control, pollfds, touch, btn>>

\* The nodes' directory changes; inotify tells it once it watches.
Notice(what, p) ==
    /\ p \in Hotplug /\ pc # "scan"
    /\ plugs < MaxPlugs
    /\ plugs' = plugs + 1
    /\ notices' = IF watching THEN Append(notices, <<what, p>>) ELSE notices
    /\ unnoticed' = IF ~watching THEN unnoticed \cup {p}
                    ELSE IF what = "delete" THEN unnoticed \ {p} ELSE unnoticed

Plug(p) == /\ p \notin present
           /\ present' = present \cup {p}
           /\ Notice("create", p)
           /\ UNCHANGED <<held, watching, addPending, removePending, wake, control, poll, touch, btn>>

\* What an open reader has not read is gone with its device.
Unplug(p) ==
    /\ p \in present
    /\ present' = present \ {p}
    /\ held' = [held EXCEPT ![p] = 0]
    /\ readers' = [fd \in ReaderFd |->
                      IF readers[fd].path = p
                      THEN [readers[fd] EXCEPT !.live = FALSE, !.queue = <<>>]
                      ELSE readers[fd]]
    /\ Notice("delete", p)
    /\ UNCHANGED <<watching, addPending, removePending, wake, control, pollfds, touch, btn>>

-----------------------------------------------------------------------------
(* What is published. *)

\* Bug for HandleTouchInput: only presses are published.
HandleTouchInputLatches(pressed) ==
    /\ prevTouch' = pressed
    /\ touchPressed' = (touchPressed \/ pressed)
    /\ UNCHANGED classified

\* HandleTouchInput(info), for info.pressed.  A swipe lasts until the next press,
\* a hold as long as the touch (its delay, a microsecond, may be over at the first
\* frame), a gesture until its delay is found to be over; it begins anew at once
\* while the last touch counts as a swipe from the edge.
HandleTouchInput(pressed) ==
    /\ prevTouch' = pressed
    /\ touchPressed' = IF pressed # prevTouch THEN pressed ELSE touchPressed
    /\ \E far, late, lasts, edge \in Found :
          LET inSwipe == IF pressed THEN prevTouch /\ (classified.inSwipe \/ far) ELSE classified.inSwipe
              inHold == pressed /\ (late \/ (prevTouch /\ classified.inHold))
              inGesture == (classified.inGesture /\ lasts) \/ (inSwipe /\ edge)
          IN  classified' = [inHold |-> inHold, inSwipe |-> inSwipe, inGesture |-> inGesture]

\* Bug for HandleBtnInput: the count is not kept from going below zero.
HandleBtnInputUncapped(pressed) ==
    LET pressedCnt == IF pressed THEN prevBtn + 1 ELSE prevBtn - 1
    IN  /\ prevBtn' = pressedCnt
        /\ btnPressed' = IF pressedCnt * prevBtn = 0 THEN pressedCnt > 0 ELSE btnPressed

\* HandleBtnInput(info): only a count that goes from or to zero is published.
HandleBtnInput(pressed) ==
    LET pressedCnt == IF pressed THEN prevBtn + 1 ELSE IF prevBtn > 0 THEN prevBtn - 1 ELSE 0
    IN  /\ prevBtn' = pressedCnt
        /\ btnPressed' = IF pressedCnt * prevBtn = 0 THEN pressedCnt > 0 ELSE btnPressed

\* The handler of a device's type.
Handle(p, pressed) ==
    \/ /\ IsTouchPanel(p)
       /\ HandleTouchInput(pressed)
       /\ UNCHANGED btn
    \/ /\ ~IsTouchPanel(p)
       /\ HandleBtnInput(pressed)
       /\ UNCHANGED touch

-----------------------------------------------------------------------------
(* The readers and the poll set. *)

\* Bug for AddPoll: the first slot after the pipe's is taken, free or not.
AddPollOverwrites(fd) == pollfds' = IF Len(pollfds) > 1 THEN [pollfds EXCEPT ![2] = fd]
                                    ELSE Append(pollfds, fd)

\* Every free slot is filled.
AddPoll(fd) == pollfds' = IF Unused \in Range(pollfds) THEN ReplaceAll(pollfds, Unused, fd)
                          ELSE IF Len(pollfds) > NoFile THEN pollfds   \* bound, see PollFails
                          ELSE Append(pollfds, fd)

\* Bug for RemovePoll: no slot is freed.
RemovePollNothing(fd) == UNCHANGED pollfds

\* The first slot of fd is freed.
RemovePoll(fd) ==
    pollfds' = [i \in DOMAIN pollfds |->
                   IF pollfds[i] = fd /\ \A j \in 1..(i - 1) : pollfds[j] # fd
                   THEN Unused ELSE pollfds[i]]

\* open returns the lowest descriptor that is not in use; when other threads open
\* files as well, that may be any one that is free here.
Opens(fd) == /\ readers[fd] = Closed
             /\ Shared \/ \A other \in ReaderFd : readers[other] = Closed => fd <= other

AddReader(p) ==
    \/ /\ ReadersOf(p) # {} \/ p \notin present
       /\ UNCHANGED poll
    \/ /\ ReadersOf(p) = {} /\ p \in present
       /\ \E fd \in ReaderFd :
             /\ Opens(fd)
             /\ readers' = [readers EXCEPT ![fd] = Opened(p)]
             /\ AddPoll(fd)

\* Bug for RemoveReader: no release is made up.
RemoveReaderSilently(p) ==
    \/ /\ ReadersOf(p) = {}
       /\ UNCHANGED <<poll, touch, btn>>
    \/ \E fd \in ReadersOf(p) :
          /\ RemovePoll(fd)
          /\ readers' = [readers EXCEPT ![fd] = Closed]
          /\ UNCHANGED <<touch, btn>>

\* A release is made up for the device, then its descriptor is closed.
RemoveReader(p) ==
    \/ /\ ReadersOf(p) = {}
       /\ UNCHANGED <<poll, touch, btn>>
    \/ \E fd \in ReadersOf(p) :
          /\ Handle(p, FALSE)
          /\ RemovePoll(fd)
          /\ readers' = [readers EXCEPT ![fd] = Closed]

-----------------------------------------------------------------------------
(* The thread that starts the module, and the inotify thread. *)

\* InitReaders: the directory, read as it is at one moment.
InitReaders(p) ==
    /\ pc = "scan"
    /\ p \in present /\ ReadersOf(p) = {}
    /\ AddReader(p)
    /\ UNCHANGED <<devices, inotify, wake, control, touch, btn>>

InitDone == /\ pc = "scan"
            /\ \A p \in present : ReadersOf(p) # {}
            /\ pc' = "built"
            /\ UNCHANGED <<devices, inotify, wake, todo, ready, reading, frames, poll, touch, btn>>

\* Bug for FlushPendingReaders: what came is added before what went is removed.
FlushPendingReadersAddsFirst ==
    /\ pc' = "flush"
    /\ todo' = [i \in DOMAIN addPending |-> <<"add", addPending[i]>>]
                 \o [i \in DOMAIN removePending |-> <<"remove", removePending[i]>>]

\* FlushPendingReaders locks mut_: what vanished comes first.  The lists stay.
FlushPendingReaders ==
    /\ pc' = "flush"
    /\ todo' = [i \in DOMAIN removePending |-> <<"remove", removePending[i]>>]
                 \o [i \in DOMAIN addPending |-> <<"add", addPending[i]>>]

\* Start adds the watch, then starts the input thread.
Start == /\ pc = "built"
         /\ watching' = TRUE
         /\ FlushPendingReaders
         /\ UNCHANGED <<devices, notices, addPending, removePending, wake, ready, reading, frames,
                        poll, touch, btn>>

\* OnInputDevUpdated, CancelPoll included, under mut_.
OnInputDevUpdated ==
    /\ pc # "flush"
    /\ notices # <<>>
    /\ LET flag == Head(notices)[1]
           path == Head(notices)[2]
       IN  /\ addPending' = IF flag = "create" THEN Append(addPending, path) ELSE addPending
           /\ removePending' = IF flag = "delete" THEN Append(removePending, path) ELSE removePending
    /\ notices' = Tail(notices)
    /\ wake' = TRUE
    /\ UNCHANGED <<devices, watching, control, poll, touch, btn>>

-----------------------------------------------------------------------------
(* The input thread. *)

FlushOne ==
    /\ pc = "flush"
    /\ todo # <<>>
    /\ todo' = Tail(todo)
    /\ LET path == Head(todo)[2]
       IN  \/ Head(todo)[1] = "remove" /\ RemoveReader(path)
           \/ Head(todo)[1] = "add" /\ AddReader(path) /\ UNCHANGED <<touch, btn>>
    /\ UNCHANGED <<devices, inotify, wake, pc, ready, reading, frames>>

FlushDone == /\ pc = "flush"
             /\ todo = <<>>
             /\ pc' = "poll"
             /\ UNCHANGED <<devices, inotify, wake, todo, ready, reading, frames, poll, touch, btn>>

\* POLLIN
Readable(fd) == IF fd = PipeFd THEN wake ELSE fd \in ReaderFd /\ readers[fd].queue # <<>>

\* POLLHUP of a device that is gone, POLLNVAL of a descriptor that is closed.
Erroneous(fd) == fd \in ReaderFd /\ ~readers[fd].live

Poll == /\ pc = "poll"
        /\ Len(pollfds) <= NoFile
        /\ \E i \in DOMAIN pollfds : Readable(pollfds[i]) \/ Erroneous(pollfds[i])
        /\ ready' = {i \in DOMAIN pollfds : Readable(pollfds[i])}
        /\ pc' = "handle"
        /\ UNCHANGED <<devices, inotify, wake, todo, reading, frames, poll, touch, btn>>

\* poll fails (EINVAL) and is tried again after a second.  The poll set never
\* shrinks, so how far it grows beyond the limit makes no difference.
PollFails == /\ pc = "poll"
             /\ Len(pollfds) > NoFile
             /\ FlushPendingReaders
             /\ UNCHANGED <<devices, inotify, wake, ready, reading, frames, poll, touch, btn>>

\* HandleInput of the next slot that is ready: a read of the pipe empties it, a
\* read of a device takes all its frames (none, when another slot has the same
\* descriptor or the device is gone).
HandleInput ==
    /\ pc = "handle"
    /\ \E i \in ready :
          LET fd == pollfds[i]
          IN  /\ \A j \in ready : i <= j
              /\ ready' = ready \ {i}
              /\ \/ /\ fd = PipeFd
                    /\ wake' = FALSE
                    /\ UNCHANGED <<pc, reading, frames, readers>>
                 \/ /\ fd # PipeFd
                    /\ frames' = readers[fd].queue
                    /\ readers' = [readers EXCEPT ![fd].queue = <<>>]
                    /\ \/ frames' = <<>> /\ UNCHANGED <<pc, reading>>
                       \/ frames' # <<>> /\ pc' = "parse" /\ reading' = fd
                    /\ UNCHANGED wake
    /\ UNCHANGED <<devices, inotify, todo, pollfds, touch, btn>>

\* ParseTouchPanel: a key wins over the tracking ids from the first time on.
\* ParseBtn, ParseMouse: every key counts, and anything but "down" is "up".
Pressed(reader, frame) ==
    IF {"keydown", "keyup", "repeat"} \cap frame # {} THEN "keydown" \in frame
    ELSE IF reader.useEvtKey \/ frame = {} THEN reader.pressed
    ELSE "track" \in frame

\* The events of one frame.  The handler is called at its end, for a mouse at
\* the key only.
Parse ==
    /\ pc = "parse"
    /\ LET frame == Head(frames)
           reader == readers[reading]
           pressed == Pressed(reader, frame)
       IN  /\ readers' = [readers EXCEPT
                 ![reading].pressed = pressed,
                 ![reading].useEvtKey = @ \/ (IsTouchPanel(reader.path)
                                                 /\ {"keydown", "keyup"} \cap frame # {})]
           /\ \/ /\ DevType[reader.path] = "mouse" /\ frame = {}
                 /\ UNCHANGED <<touch, btn>>
              \/ /\ ~(DevType[reader.path] = "mouse" /\ frame = {})
                 /\ Handle(reader.path, pressed)
    /\ frames' = Tail(frames)
    /\ \/ frames' # <<>> /\ UNCHANGED <<pc, reading>>
       \/ frames' = <<>> /\ pc' = "handle" /\ reading' = PipeFd
    /\ UNCHANGED <<devices, inotify, wake, todo, ready, pollfds>>

\* The loop over the poll set is over; the thread sleeps and starts again.
LoopDone == /\ pc = "handle"
            /\ ready = {}
            /\ FlushPendingReaders
            /\ UNCHANGED <<devices, inotify, wake, ready, reading, frames, poll, touch, btn>>

InputThread == \/ FlushOne \/ FlushDone
               \/ Poll \/ PollFails \/ HandleInput \/ Parse \/ LoopDone

StartUp == Start \/ InitDone \/ \E p \in Path : InitReaders(p)

Device == \E p \in Path : Press(p) \/ Release(p) \/ Sample(p) \/ Plug(p) \/ Unplug(p)

Next == StartUp \/ Device \/ OnInputDevUpdated \/ InputThread

(***************************************************************************)
(* The constructor and Start return, and the operating system runs both    *)
(* threads.  mut_ is free between two loops of the input thread, which is  *)
(* when the inotify thread gets it sooner or later: the loop sleeps.       *)
(***************************************************************************)
Fairness == WF_vars(StartUp) /\ WF_vars(InputThread) /\ SF_vars(OnInputDevUpdated)

Spec == Init /\ [][Next]_vars /\ Fairness

-----------------------------------------------------------------------------
(* Properties. *)

\* No device is open and forgotten: every open reader has a slot in the poll
\* set, though slots are freed one at a time, filled all at once, and keep
\* descriptors that are closed or belong to another device by now.
EveryReaderIsPolled ==
    Len(pollfds) <= NoFile =>
        \A fd \in ReaderFd : readers[fd] # Closed =>
            \E i \in DOMAIN pollfds : pollfds[i] = fd

\* Everything is handled, and the input thread is about to wait.
Rested == /\ pc = "poll"
          /\ notices = <<>> /\ ~wake
          /\ \A fd \in ReaderFd : readers[fd].queue = <<>>

\* The readers follow the devices through coming, going and coming back: at
\* rest every device has its reader and no reader lacks its device, unless
\* that changed between the scan and the watch, of which nobody tells.
ReadersFollowDevices ==
    Rested => \A p \in Path \ unnoticed :
        p \in present <=> \E fd \in ReadersOf(p) : readers[fd].live

\* No touch is left over: at rest with no finger on any panel, the touch that
\* was published last is a release, and no hold is on; however many fingers
\* there were, and if the panel went while they were down.
NoPhantomTouch ==
    Rested /\ (\A p \in Path \ unnoticed : IsTouchPanel(p) => held[p] = 0)
           /\ (\A p \in unnoticed : ~IsTouchPanel(p))
        => ~touchPressed /\ ~classified.inHold

\* What is published is backed by a panel that is open: a touch by a panel
\* whose last frame was pressed.
TouchIsBacked == touchPressed => \E fd \in ReaderFd : readers[fd].pressed /\ IsTouchPanel(readers[fd].path)

\* The nodes that FlushPendingReaders removes and adds again in every loop.
Replugged == Range(removePending) \cap Range(addPending)

\* As long as at most one node came back, slots are reused.
PollSetIsBounded ==
    Cardinality(Replugged) <= 1 => Len(pollfds) <= 1 + Cardinality(Path)

-----------------------------------------------------------------------------
(* What the manual says (magisk/config/dfps_help_en.md, line 7).            *)

\* "During operation, the screen refresh rate switches to activeRefreshRate":
\* a finger that stays on a panel that stays is published.
TouchIsPublished ==
    \A p \in Path \ Hotplug :
        IsTouchPanel(p) /\ held[p] > 0 /\ watching ~> touchPressed \/ held[p] = 0

\* "waits for touchSlackMs milliseconds after the operation is released":
\* at rest with no key down anywhere, the buttons are published as released.
ReleasedButtonsAreReleased ==
    Rested /\ (\A p \in Path : held[p] = 0) => ~btnPressed

=============================================================================
