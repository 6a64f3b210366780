------------------------- MODULE InputListener_proofs -------------------------
(***************************************************************************)
(* InputListener, for any devices, descriptors and thresholds: its types,  *)
(* that no open reader is forgotten by the poll set, and that a touch is   *)
(* published only while a panel that is open backs it.                     *)
(***************************************************************************)
EXTENDS InputListener, SequenceTheorems, TLAPS

-----------------------------------------------------------------------------
(* The inductive invariant. *)

Pc == {"scan", "built", "flush", "poll", "handle", "parse"}

DevicesType == /\ present \subseteq Path
               /\ held \in [Path -> Nat]
               /\ plugs \in Nat
               /\ unnoticed \subseteq Path

InotifyType == /\ watching \in BOOLEAN
               /\ notices \in Seq({"create", "delete"} \X Path)
               /\ addPending \in Seq(Path)
               /\ removePending \in Seq(Path)

ControlType == /\ pc \in Pc
               /\ todo \in Seq({"add", "remove"} \X Path)
               /\ ready \subseteq Nat
               /\ reading \in Fd
               /\ frames \in Seq(Frame)

PollType == /\ readers \in [ReaderFd -> Reader]
            /\ pollfds \in Seq(Fd \cup {Unused})

TouchType == /\ prevTouch \in BOOLEAN
             /\ classified \in [inHold : BOOLEAN, inSwipe : BOOLEAN, inGesture : BOOLEAN]
             /\ touchPressed \in BOOLEAN

BtnType == prevBtn \in Nat /\ btnPressed \in BOOLEAN

Types == DevicesType /\ InotifyType /\ wake \in BOOLEAN /\ ControlType /\ PollType /\ TouchType /\ BtnType

\* What is handled exists: the slots left are those of descriptors, and the
\* frames left are those of an open reader.
HandledExists ==
    /\ pc \in {"handle", "parse"} => \A i \in ready : i \in DOMAIN pollfds /\ pollfds[i] \in Fd
    /\ pc = "parse" => reading \in ReaderFd /\ readers[reading].path \in Path /\ frames # <<>>

\* A descriptor that belongs to no node is closed.
ClosedReaders == \A fd \in ReaderFd : readers[fd].path = NoPath => readers[fd] = Closed

\* EveryReaderIsPolled, of the paths.
OpenIsPolled ==
    Len(pollfds) <= NoFile =>
        \A fd \in ReaderFd : readers[fd].path # NoPath => \E i \in DOMAIN pollfds : pollfds[i] = fd

\* What was published last is what was handled last.
LastIsPublished == touchPressed = prevTouch

IInv == /\ Types
        /\ HandledExists
        /\ ClosedReaders
        /\ OpenIsPolled
        /\ LastIsPublished
        /\ TouchIsBacked

-----------------------------------------------------------------------------
(* Sequences. *)

LEMMA TodoType ==
    ASSUME NEW s \in Seq(Path), NEW what \in {"add", "remove"}
    PROVE  [i \in DOMAIN s |-> <<what, s[i]>>] \in Seq({"add", "remove"} \X Path)
<1>1. [i \in DOMAIN s |-> <<what, s[i]>>] \in [1..Len(s) -> {"add", "remove"} \X Path]
  BY LenProperties
<1> QED
  BY <1>1, SeqDef, LenProperties

LEMMA AppendType ==
    ASSUME NEW S, NEW s \in Seq(S), NEW e \in S
    PROVE  /\ Append(s, e) \in Seq(S)
           /\ Len(Append(s, e)) = Len(s) + 1
           /\ DOMAIN Append(s, e) = 1..(Len(s) + 1)
           /\ \A i \in DOMAIN s : Append(s, e)[i] = s[i]
           /\ Append(s, e)[Len(s) + 1] = e
  BY LenProperties

\* The new descriptor has a slot, and the others keep theirs.
LEMMA AddPollCovers ==
    ASSUME PollType, NEW fd \in ReaderFd, AddPoll(fd)
    PROVE  /\ pollfds' \in Seq(Fd \cup {Unused})
           /\ Len(pollfds') >= Len(pollfds)
           /\ DOMAIN pollfds \subseteq DOMAIN pollfds'
           /\ \A i \in DOMAIN pollfds : pollfds[i] # Unused => pollfds'[i] = pollfds[i]
           /\ Len(pollfds') <= NoFile => \E i \in DOMAIN pollfds' : pollfds'[i] = fd
<1> USE BoundAssumption DEF PollType, ReaderFd
<1> DEFINE S == Fd \cup {Unused}
<1>0. pollfds \in Seq(S) /\ fd \in S
  OBVIOUS
<1> HIDE DEF S
<1>1. CASE Unused \in Range(pollfds)
  <2>1. pollfds' = [i \in 1..Len(pollfds) |-> IF pollfds[i] = Unused THEN fd ELSE pollfds[i]]
    BY <1>1 DEF AddPoll, ReplaceAll
  <2>2. pollfds' \in [1..Len(pollfds) -> S]
    BY <2>1, <1>0, LenProperties
  <2>3. pollfds' \in Seq(S) /\ Len(pollfds') = Len(pollfds) /\ DOMAIN pollfds' = DOMAIN pollfds
    BY <2>2, <1>0, SeqDef, LenProperties
  <2>4. PICK i \in DOMAIN pollfds : pollfds[i] = Unused
    BY <1>1 DEF Range
  <2>5. pollfds'[i] = fd
    BY <2>1, <2>4, <1>0, LenProperties
  <2>6. \A j \in DOMAIN pollfds : pollfds[j] # Unused => pollfds'[j] = pollfds[j]
    BY <2>1, <1>0, LenProperties
  <2> QED
    BY <2>3, <2>4, <2>5, <2>6, LenProperties DEF S
<1>2. CASE Unused \notin Range(pollfds) /\ Len(pollfds) > NoFile
  BY <1>2, <1>0, LenProperties DEF AddPoll
<1>3. CASE Unused \notin Range(pollfds) /\ ~(Len(pollfds) > NoFile)
  <2>1. pollfds' = Append(pollfds, fd)
    BY <1>3 DEF AddPoll
  <2>2. Len(pollfds) \in Nat /\ DOMAIN pollfds = 1..Len(pollfds)
    BY <1>0, LenProperties
  <2>3. Len(pollfds) + 1 \in DOMAIN pollfds'
    BY <2>1, <2>2, <1>0, AppendType
  <2>4. pollfds' \in Seq(S) /\ Len(pollfds') = Len(pollfds) + 1
        /\ DOMAIN pollfds' = 1..(Len(pollfds) + 1)
    BY <2>1, <1>0, AppendType
  <2>5. \A i \in DOMAIN pollfds : pollfds'[i] = pollfds[i]
    BY <2>1, <1>0, AppendType
  <2>6. pollfds'[Len(pollfds) + 1] = fd
    BY <2>1, <1>0, AppendType
  <2> QED
    BY <2>2, <2>3, <2>4, <2>5, <2>6 DEF S
<1> QED
  BY <1>1, <1>2, <1>3

\* The slots of the other descriptors stay as they are.
LEMMA RemovePollKeeps ==
    ASSUME PollType, NEW fd, RemovePoll(fd)
    PROVE  /\ pollfds' \in Seq(Fd \cup {Unused})
           /\ Len(pollfds') = Len(pollfds)
           /\ DOMAIN pollfds' = DOMAIN pollfds
           /\ \A i \in DOMAIN pollfds : pollfds[i] # fd => pollfds'[i] = pollfds[i]
<1> DEFINE S == Fd \cup {Unused}
<1>0. pollfds \in Seq(S) /\ Unused \in S
  BY DEF PollType
<1> HIDE DEF S
<1>1. DOMAIN pollfds' = DOMAIN pollfds /\ \A i \in DOMAIN pollfds : pollfds'[i] \in {pollfds[i], Unused}
  BY DEF RemovePoll
<1>2. pollfds' \in [1..Len(pollfds) -> S]
  <2>1. \A i \in 1..Len(pollfds) : pollfds[i] \in S
    BY <1>0, ElementOfSeq
  <2>2. DOMAIN pollfds = 1..Len(pollfds)
    BY <1>0, LenProperties
  <2>3. pollfds' = [i \in 1..Len(pollfds) |-> pollfds'[i]]
    BY <2>2 DEF RemovePoll
  <2> QED
    BY <1>0, <1>1, <2>1, <2>2, <2>3
<1>3. pollfds' \in Seq(S) /\ Len(pollfds') = Len(pollfds)
  BY <1>0, <1>2, SeqDef, LenProperties
<1>4. \A i \in DOMAIN pollfds : pollfds[i] # fd => pollfds'[i] = pollfds[i]
  BY DEF RemovePoll
<1> QED
  BY <1>1, <1>3, <1>4 DEF S

-----------------------------------------------------------------------------
(* Steps that open and close nothing. *)

\* The readers keep their nodes and what they last saw.
KeepsReaders ==
    /\ readers' \in [ReaderFd -> Reader]
    /\ \A fd \in ReaderFd : /\ readers'[fd].path = readers[fd].path
                            /\ readers'[fd].pressed = readers[fd].pressed
                            /\ readers[fd] = Closed => readers'[fd] = Closed

LEMMA SameReadersKept == ASSUME PollType, UNCHANGED readers PROVE KeepsReaders
  BY DEF PollType, KeepsReaders

LEMMA KeptReaders ==
    ASSUME IInv, KeepsReaders, UNCHANGED <<pollfds, touch>>
    PROVE  PollType' /\ ClosedReaders' /\ OpenIsPolled' /\ LastIsPublished' /\ TouchIsBacked'
<1> USE DEF IInv, Types, KeepsReaders, touch
<1>1. PollType'
  BY DEF PollType
<1>2. ClosedReaders'
  BY DEF ClosedReaders
<1>3. OpenIsPolled'
  BY DEF OpenIsPolled
<1>4. LastIsPublished'
  BY DEF LastIsPublished
<1>5. TouchIsBacked'
  BY DEF TouchIsBacked, IsTouchPanel
<1> QED
  BY <1>1, <1>2, <1>3, <1>4, <1>5

\* The control state keeps its meaning.
LEMMA KeptControl ==
    ASSUME IInv, KeepsReaders, UNCHANGED <<pollfds, control>>
    PROVE  ControlType' /\ HandledExists'
<1> USE DEF IInv, Types, KeepsReaders, control
<1>1. ControlType'
  BY DEF ControlType
<1>2. HandledExists'
  BY DEF HandledExists
<1> QED
  BY <1>1, <1>2

LEMMA InotifySame == ASSUME InotifyType, UNCHANGED inotify PROVE InotifyType'
  BY DEF InotifyType, inotify

LEMMA DevicesSame == ASSUME DevicesType, UNCHANGED devices PROVE DevicesType'
  BY DEF DevicesType, devices

LEMMA BtnSame == ASSUME BtnType, UNCHANGED btn PROVE BtnType'
  BY DEF BtnType, btn

LEMMA TouchSame == ASSUME TouchType, UNCHANGED touch PROVE TouchType'
  BY DEF TouchType, touch

\* A closed reader gets no frame.
LEMMA ReportsKeeps ==
    ASSUME PollType, ClosedReaders, NEW p \in Path, NEW frame \in Frame, Reports(p, frame)
    PROVE  KeepsReaders
<1> USE DEF PollType, Reports
<1>1. ASSUME NEW fd \in ReaderFd
      PROVE  /\ readers'[fd] \in Reader
             /\ readers'[fd].path = readers[fd].path
             /\ readers'[fd].pressed = readers[fd].pressed
             /\ readers[fd] = Closed => readers'[fd] = Closed
  <2>1. CASE readers[fd].path = p /\ readers[fd].live
    <3>1. readers'[fd] = [readers[fd] EXCEPT !.queue = Append(@, frame)]
      BY <2>1
    <3>2. Append(readers[fd].queue, frame) \in Seq(Frame)
      BY AppendType DEF Reader
    <3>3. readers[fd] # Closed
      BY <2>1, PathAssumption DEF Closed
    <3> QED
      BY <3>1, <3>2, <3>3 DEF Reader
  <2>2. CASE ~(readers[fd].path = p /\ readers[fd].live)
    <3>1. readers'[fd] = readers[fd]
      BY <2>2
    <3> QED
      BY <3>1
  <2> QED
    BY <2>1, <2>2
<1>2. readers' = [fd \in ReaderFd |-> readers'[fd]]
  OBVIOUS
<1> QED
  BY <1>1, <1>2 DEF KeepsReaders

LEMMA DeviceIInv == ASSUME IInv, Device PROVE IInv'
<1> USE DEF IInv, Types
<1>1. ASSUME NEW p \in Path, Press(p) \/ Release(p) \/ Sample(p)
      PROVE  IInv'
  <2>1. KeepsReaders
    <3>1. PICK frame \in Frame : Reports(p, frame)
      BY <1>1 DEF Press, Release, Sample, Frame
    <3> QED
      BY <3>1, ReportsKeeps
  <2>2. UNCHANGED <<pollfds, touch, btn, control, inotify, wake>>
    BY <1>1 DEF Press, Release, Sample
  <2>3. DevicesType'
    <3>1. CASE Press(p)
      BY <3>1 DEF Press, DevicesType
    <3>2. CASE Release(p)
      BY <3>2 DEF Release, DevicesType
    <3>3. CASE Sample(p)
      BY <3>3, DevicesSame DEF Sample
    <3> QED
      BY <1>1, <3>1, <3>2, <3>3
  <2> QED
    BY <2>1, <2>2, <2>3, KeptReaders, KeptControl, InotifySame, BtnSame, TouchSame
<1>2. ASSUME NEW p \in Path, Plug(p) \/ Unplug(p)
      PROVE  IInv'
  <2>1. KeepsReaders
    <3>1. CASE Plug(p)
      BY <3>1, SameReadersKept DEF Plug, poll
    <3>2. CASE Unplug(p)
      <4>1. \A fd \in ReaderFd : readers'[fd] = IF readers[fd].path = p
                                               THEN [readers[fd] EXCEPT !.live = FALSE, !.queue = <<>>]
                                               ELSE readers[fd]
        BY <3>2 DEF Unplug
      <4>2. <<>> \in Seq(Frame)
        OBVIOUS
      <4>3. ASSUME NEW fd \in ReaderFd
            PROVE  /\ readers'[fd] \in Reader
                   /\ readers'[fd].path = readers[fd].path
                   /\ readers'[fd].pressed = readers[fd].pressed
                   /\ readers[fd] = Closed => readers'[fd] = Closed
        <5>1. CASE readers[fd].path = p
          <6>1. readers'[fd] = [readers[fd] EXCEPT !.live = FALSE, !.queue = <<>>]
            BY <4>1, <5>1
          <6>2. readers[fd] # Closed
            BY <5>1, PathAssumption DEF Closed
          <6>3. readers[fd] \in Reader
            BY DEF PollType
          <6> QED
            BY <4>2, <6>1, <6>2, <6>3 DEF Reader
        <5>2. CASE readers[fd].path # p
          <6>1. readers'[fd] = readers[fd] /\ readers[fd] \in Reader
            BY <4>1, <5>2 DEF PollType
          <6> QED
            BY <6>1
        <5> QED
          BY <5>1, <5>2
      <4>4. readers' = [fd \in ReaderFd |-> readers'[fd]]
        BY <3>2 DEF Unplug
      <4> QED
        BY <4>3, <4>4 DEF KeepsReaders
    <3> QED
      BY <1>2, <3>1, <3>2
  <2>2. UNCHANGED <<pollfds, touch, btn, control, wake, watching, addPending, removePending>>
    BY <1>2 DEF Plug, Unplug, poll
  <2>3. DevicesType'
    <3>1. PICK what \in {"create", "delete"} : Notice(what, p)
      BY <1>2 DEF Plug, Unplug
    <3>2. plugs' \in Nat
      BY <3>1 DEF Notice, DevicesType
    <3>3. unnoticed' \subseteq Path
      BY <3>1 DEF Notice, DevicesType
    <3>4. CASE Plug(p)
      BY <3>2, <3>3, <3>4 DEF Plug, DevicesType
    <3>5. CASE Unplug(p)
      <4>1. present' \subseteq Path
        BY <3>5 DEF Unplug, DevicesType
      <4>2. held' \in [Path -> Nat]
        BY <3>5 DEF Unplug, DevicesType
      <4> QED
        BY <3>2, <3>3, <4>1, <4>2 DEF DevicesType
    <3> QED
      BY <1>2, <3>4, <3>5
  <2>4. InotifyType'
    <3>1. PICK what \in {"create", "delete"} : Notice(what, p)
      BY <1>2 DEF Plug, Unplug
    <3>2. <<what, p>> \in {"create", "delete"} \X Path
      OBVIOUS
    <3>3. Append(notices, <<what, p>>) \in Seq({"create", "delete"} \X Path)
      BY <3>2, AppendType DEF InotifyType
    <3>4. notices' \in Seq({"create", "delete"} \X Path)
      BY <3>1, <3>3 DEF Notice, InotifyType
    <3> QED
      BY <3>4, <2>2 DEF InotifyType
  <2> QED
    BY <2>1, <2>2, <2>3, <2>4, KeptReaders, KeptControl, BtnSame, TouchSame
<1> QED
  BY <1>1, <1>2 DEF Device

-----------------------------------------------------------------------------
(* Steps that open, close and publish. *)

LEMMA AddReaderIInv ==
    ASSUME IInv, NEW p \in Path, AddReader(p), UNCHANGED touch, pc \in {"scan", "flush"}, pc' = pc
    PROVE  /\ PollType' /\ ClosedReaders' /\ OpenIsPolled' /\ LastIsPublished' /\ TouchIsBacked'
           /\ HandledExists'
<1> USE DEF IInv, Types
<1>0. HandledExists'
  BY DEF HandledExists
<1>1. CASE UNCHANGED poll
  <2>1. KeepsReaders /\ UNCHANGED pollfds
    BY <1>1, SameReadersKept DEF poll
  <2> QED
    BY <1>0, <2>1, KeptReaders
<1>2. ASSUME NEW fd \in ReaderFd, Opens(fd), AddPoll(fd),
             readers' = [readers EXCEPT ![fd] = Opened(p)]
      PROVE  PollType' /\ ClosedReaders' /\ OpenIsPolled' /\ LastIsPublished' /\ TouchIsBacked'
  <2>1. PollType'
    <3>1. Opened(p) \in Reader
      BY DEF Opened, Reader
    <3> QED
      BY <1>2, <3>1, AddPollCovers DEF PollType
  <2>2. ClosedReaders'
    BY <1>2, PathAssumption DEF ClosedReaders, Opened, PollType
  <2>3. OpenIsPolled'
    <3> SUFFICES ASSUME Len(pollfds') <= NoFile, NEW fd1 \in ReaderFd, readers'[fd1].path # NoPath
                 PROVE  \E i \in DOMAIN pollfds' : pollfds'[i] = fd1
      BY DEF OpenIsPolled
    <3>1. CASE fd1 = fd
      BY <3>1, <1>2, AddPollCovers
    <3>2. CASE fd1 # fd
      <4>1. readers[fd1].path # NoPath
        BY <1>2, <3>2 DEF PollType
      <4>2. Len(pollfds) <= NoFile
        <5>1. Len(pollfds') >= Len(pollfds) /\ pollfds' \in Seq(Fd \cup {Unused})
          BY <1>2, AddPollCovers
        <5>2. Len(pollfds) \in Nat /\ Len(pollfds') \in Nat
          BY <5>1, LenProperties DEF PollType
        <5> QED
          BY <5>1, <5>2, BoundAssumption
      <4>3. PICK i \in DOMAIN pollfds : pollfds[i] = fd1
        BY <4>1, <4>2 DEF OpenIsPolled
      <4>4. pollfds[i] # Unused
        BY <4>3, FdAssumption DEF ReaderFd
      <4>5. i \in DOMAIN pollfds' /\ pollfds'[i] = fd1
        BY <1>2, <4>3, <4>4, AddPollCovers
      <4> QED
        BY <4>5
    <3> QED
      BY <3>1, <3>2
  <2>4. LastIsPublished'
    BY DEF LastIsPublished, touch
  <2>5. TouchIsBacked'
    <3>1. readers[fd].pressed = FALSE
      BY <1>2 DEF Opens, Closed
    <3> QED
      BY <1>2, <3>1 DEF TouchIsBacked, IsTouchPanel, touch, PollType
  <2> QED
    BY <2>1, <2>2, <2>3, <2>4, <2>5
<1> QED
  BY <1>0, <1>1, <1>2 DEF AddReader

\* What a handler leaves.
LEMMA HandleLeaves ==
    ASSUME TouchType, BtnType, LastIsPublished, NEW p \in Path, NEW pressed \in BOOLEAN,
           Handle(p, pressed)
    PROVE  /\ TouchType' /\ BtnType' /\ LastIsPublished'
           /\ IsTouchPanel(p) => touchPressed' = pressed
           /\ ~IsTouchPanel(p) => UNCHANGED touch
<1>1. CASE IsTouchPanel(p) /\ HandleTouchInput(pressed) /\ UNCHANGED btn
  <2>1. prevTouch' \in BOOLEAN
    BY <1>1 DEF HandleTouchInput
  <2>2. touchPressed' = pressed
    BY <1>1 DEF HandleTouchInput, LastIsPublished, TouchType
  <2>3. classified' \in [inHold : BOOLEAN, inSwipe : BOOLEAN, inGesture : BOOLEAN]
    <3>1. PICK far, late, lasts, edge \in Found :
             classified' = [inHold |-> pressed /\ (late \/ (prevTouch /\ classified.inHold)),
                            inSwipe |-> IF pressed THEN prevTouch /\ (classified.inSwipe \/ far)
                                        ELSE classified.inSwipe,
                            inGesture |-> \/ classified.inGesture /\ lasts
                                          \/ (IF pressed THEN prevTouch /\ (classified.inSwipe \/ far)
                                               ELSE classified.inSwipe) /\ edge]
      BY <1>1 DEF HandleTouchInput
    <3>2. classified.inSwipe \in BOOLEAN
      BY DEF TouchType
    <3>3. (IF pressed THEN prevTouch /\ (classified.inSwipe \/ far) ELSE classified.inSwipe) \in BOOLEAN
      BY <3>2, ZenonT(20)
    <3> HIDE <3>2
    <3> QED
      BY <3>1, <3>3
  <2>4. BtnType'
    BY <1>1, BtnSame
  <2>5. LastIsPublished'
    BY <1>1, <2>2 DEF HandleTouchInput, LastIsPublished
  <2> QED
    BY <1>1, <2>1, <2>2, <2>3, <2>4, <2>5 DEF TouchType
<1>2. CASE ~IsTouchPanel(p) /\ HandleBtnInput(pressed) /\ UNCHANGED touch
  <2>1. prevBtn' \in Nat
    BY <1>2 DEF HandleBtnInput, BtnType
  <2>2. btnPressed' \in BOOLEAN
    <3>1. \/ btnPressed' = btnPressed
          \/ btnPressed' = (prevBtn' > 0)
      BY <1>2 DEF HandleBtnInput
    <3>2. (prevBtn' > 0) \in BOOLEAN
      BY <2>1
    <3>3. btnPressed \in BOOLEAN
      BY DEF BtnType
    <3> QED
      BY <3>1, <3>2, <3>3, Zenon
  <2>3. LastIsPublished'
    BY <1>2 DEF LastIsPublished, touch
  <2> QED
    BY <1>2, <2>1, <2>2, <2>3, TouchSame DEF BtnType
<1> QED
  BY <1>1, <1>2 DEF Handle

LEMMA RemoveReaderIInv ==
    ASSUME IInv, NEW p \in Path, RemoveReader(p), pc = "flush", pc' = pc
    PROVE  /\ PollType' /\ TouchType' /\ BtnType'
           /\ ClosedReaders' /\ OpenIsPolled' /\ LastIsPublished' /\ TouchIsBacked' /\ HandledExists'
<1> USE DEF IInv, Types
<1>0. HandledExists'
  BY DEF HandledExists
<1>1. CASE UNCHANGED <<poll, touch, btn>>
  <2>1. KeepsReaders /\ UNCHANGED pollfds
    BY <1>1, SameReadersKept DEF poll
  <2> QED
    BY <1>0, <1>1, <2>1, KeptReaders, TouchSame, BtnSame
<1>2. ASSUME NEW fd \in ReadersOf(p), Handle(p, FALSE), RemovePoll(fd),
             readers' = [readers EXCEPT ![fd] = Closed]
      PROVE  /\ PollType' /\ TouchType' /\ BtnType'
             /\ ClosedReaders' /\ OpenIsPolled' /\ LastIsPublished' /\ TouchIsBacked'
  <2>0. fd \in ReaderFd /\ readers[fd].path = p
    BY <1>2 DEF ReadersOf
  <2>1. PollType'
    <3>1. Closed \in Reader
      BY DEF Closed, Reader
    <3> QED
      BY <1>2, <3>1, RemovePollKeeps DEF PollType
  <2>2. ClosedReaders'
    BY <1>2 DEF ClosedReaders, PollType
  <2>3. OpenIsPolled'
    <3> SUFFICES ASSUME Len(pollfds') <= NoFile, NEW fd1 \in ReaderFd, readers'[fd1].path # NoPath
                 PROVE  \E i \in DOMAIN pollfds' : pollfds'[i] = fd1
      BY DEF OpenIsPolled
    <3>1. fd1 # fd /\ readers[fd1].path # NoPath
      BY <1>2, <2>0 DEF PollType, Closed
    <3>2. PICK i \in DOMAIN pollfds : pollfds[i] = fd1
      BY <1>2, <3>1, RemovePollKeeps DEF OpenIsPolled
    <3> QED
      BY <1>2, <3>1, <3>2, RemovePollKeeps
  <2>4. /\ TouchType' /\ BtnType' /\ LastIsPublished'
        /\ IsTouchPanel(p) => touchPressed' = FALSE
        /\ ~IsTouchPanel(p) => UNCHANGED touch
    BY <1>2, HandleLeaves
  <2>5. TouchIsBacked'
    <3>1. CASE IsTouchPanel(p)
      BY <2>4, <3>1 DEF TouchIsBacked
    <3>2. CASE ~IsTouchPanel(p)
      BY <1>2, <2>0, <2>4, <3>2 DEF TouchIsBacked, IsTouchPanel, touch, PollType
    <3> QED
      BY <3>1, <3>2
  <2> QED
    BY <2>1, <2>2, <2>3, <2>4, <2>5
<1> QED
  BY <1>0, <1>1, <1>2 DEF RemoveReader

-----------------------------------------------------------------------------
(* The invariant, and what follows. *)

LEMMA FlushType ==
    ASSUME InotifyType, FlushPendingReaders
    PROVE  todo' \in Seq({"add", "remove"} \X Path) /\ pc' = "flush"
<1> DEFINE S == {"add", "remove"} \X Path
           removes == [i \in DOMAIN removePending |-> <<"remove", removePending[i]>>]
           adds == [i \in DOMAIN addPending |-> <<"add", addPending[i]>>]
<1>1. removes \in Seq(S) /\ adds \in Seq(S)
  BY TodoType DEF InotifyType
<1>2. todo' = removes \o adds /\ pc' = "flush"
  BY DEF FlushPendingReaders
<1> HIDE DEF S, removes, adds
<1>3. todo' \in Seq(S)
  BY <1>1, <1>2, ConcatProperties
<1> QED
  BY <1>2, <1>3 DEF S

LEMMA StartUpIInv == ASSUME IInv, StartUp \/ OnInputDevUpdated PROVE IInv'
<1> USE DEF IInv, Types
<1>1. ASSUME NEW p \in Path, InitReaders(p)
      PROVE  IInv'
  <2>1. /\ AddReader(p) /\ pc = "scan"
        /\ UNCHANGED <<devices, inotify, wake, control, touch, btn>>
    BY <1>1 DEF InitReaders
  <2>2. pc' = pc /\ ControlType'
    BY <2>1 DEF control, ControlType
  <2> QED
    BY <2>1, <2>2, AddReaderIInv, DevicesSame, InotifySame, BtnSame, TouchSame
<1>2. CASE InitDone
  <2>1. /\ UNCHANGED <<devices, inotify, wake, todo, ready, reading, frames, poll, touch, btn>>
        /\ pc' = "built"
    BY <1>2 DEF InitDone
  <2>2. KeepsReaders /\ UNCHANGED pollfds
    BY <2>1, SameReadersKept DEF poll
  <2>3. ControlType' /\ HandledExists'
    BY <2>1 DEF ControlType, HandledExists, Pc
  <2> QED
    BY <2>1, <2>2, <2>3, KeptReaders, DevicesSame, InotifySame, BtnSame, TouchSame
<1>3. CASE Start
  <2>1. /\ UNCHANGED <<devices, notices, addPending, removePending, wake, ready, reading, frames,
                        poll, touch, btn>>
        /\ watching' = TRUE /\ FlushPendingReaders
    BY <1>3 DEF Start
  <2>2. KeepsReaders /\ UNCHANGED pollfds
    BY <2>1, SameReadersKept DEF poll
  <2>3. ControlType' /\ HandledExists'
    BY <2>1, FlushType DEF ControlType, HandledExists, Pc
  <2>4. InotifyType'
    BY <2>1 DEF InotifyType
  <2> QED
    BY <2>1, <2>2, <2>3, <2>4, KeptReaders, DevicesSame, BtnSame, TouchSame
<1>4. CASE OnInputDevUpdated
  <2>1. /\ UNCHANGED <<devices, watching, control, poll, touch, btn>>
        /\ notices # <<>> /\ notices' = Tail(notices) /\ wake' = TRUE
    BY <1>4 DEF OnInputDevUpdated
  <2>2. KeepsReaders /\ UNCHANGED pollfds
    BY <2>1, SameReadersKept DEF poll
  <2>3. InotifyType'
    <3>1. Head(notices) \in {"create", "delete"} \X Path
          /\ Tail(notices) \in Seq({"create", "delete"} \X Path)
      BY <2>1, HeadTailProperties DEF InotifyType
    <3>2. Head(notices)[2] \in Path
      BY <3>1
    <3>3. /\ Append(addPending, Head(notices)[2]) \in Seq(Path)
          /\ Append(removePending, Head(notices)[2]) \in Seq(Path)
      BY <3>2, AppendType DEF InotifyType
    <3>4. addPending' \in Seq(Path) /\ removePending' \in Seq(Path)
      BY <1>4, <3>3 DEF OnInputDevUpdated, InotifyType
    <3> QED
      BY <2>1, <3>1, <3>4 DEF InotifyType
  <2>4. wake' \in BOOLEAN
    BY <2>1
  <2> QED
    BY <2>1, <2>2, <2>3, <2>4, KeptReaders, KeptControl, DevicesSame, BtnSame, TouchSame
<1> QED
  BY <1>1, <1>2, <1>3, <1>4 DEF StartUp

LEMMA FlushOneIInv == ASSUME IInv, FlushOne PROVE IInv'
<1> USE DEF IInv, Types
<1>1. /\ pc = "flush" /\ todo # <<>> /\ todo' = Tail(todo)
      /\ UNCHANGED <<devices, inotify, wake, pc, ready, reading, frames>>
  BY DEF FlushOne
<1>2. Head(todo)[2] \in Path /\ todo' \in Seq({"add", "remove"} \X Path)
  <2>1. Head(todo) \in {"add", "remove"} \X Path /\ Tail(todo) \in Seq({"add", "remove"} \X Path)
    BY <1>1, HeadTailProperties DEF ControlType
  <2> QED
    BY <1>1, <2>1
<1>3. ControlType'
  BY <1>1, <1>2 DEF ControlType
<1>4. CASE RemoveReader(Head(todo)[2])
  BY <1>1, <1>2, <1>3, <1>4, RemoveReaderIInv, DevicesSame, InotifySame
<1>5. CASE AddReader(Head(todo)[2]) /\ UNCHANGED <<touch, btn>>
  BY <1>1, <1>2, <1>3, <1>5, AddReaderIInv, DevicesSame, InotifySame, TouchSame, BtnSame
<1> QED
  BY <1>4, <1>5 DEF FlushOne

LEMMA LoopIInv == ASSUME IInv, FlushDone \/ Poll \/ PollFails \/ LoopDone PROVE IInv'
<1> USE DEF IInv, Types
<1>1. UNCHANGED <<devices, inotify, wake, reading, frames, poll, touch, btn>>
  BY DEF FlushDone, Poll, PollFails, LoopDone
<1>2. KeepsReaders /\ UNCHANGED pollfds
  BY <1>1, SameReadersKept DEF poll
<1>3. ControlType' /\ HandledExists'
  <2>1. CASE FlushDone
    BY <1>1, <2>1 DEF FlushDone, ControlType, HandledExists, Pc
  <2>2. CASE PollFails
    BY <1>1, <2>2, FlushType DEF PollFails, ControlType, HandledExists, Pc
  <2>3. CASE LoopDone
    BY <1>1, <2>3, FlushType DEF LoopDone, ControlType, HandledExists, Pc
  <2>4. CASE Poll
    <3>1. pc' = "handle" /\ todo' = todo /\ ready' = {i \in DOMAIN pollfds : Readable(pollfds[i])}
      BY <2>4 DEF Poll
    <3>2. DOMAIN pollfds \subseteq Nat
      BY LenProperties DEF PollType
    <3>3. ControlType'
      BY <1>1, <3>1, <3>2 DEF ControlType, Pc
    <3>4. \A i \in ready' : i \in DOMAIN pollfds /\ pollfds[i] \in Fd
      BY <3>1, FdAssumption DEF Readable, ReaderFd
    <3> QED
      BY <1>2, <3>1, <3>3, <3>4 DEF HandledExists
  <2> QED
    BY <2>1, <2>2, <2>3, <2>4
<1> QED
  BY <1>1, <1>2, <1>3, KeptReaders, DevicesSame, InotifySame, BtnSame, TouchSame

LEMMA HandleInputIInv == ASSUME IInv, HandleInput PROVE IInv'
<1> USE DEF IInv, Types
<1>1. pc = "handle" /\ UNCHANGED <<devices, inotify, todo, pollfds, touch, btn>>
  BY DEF HandleInput
<1>2. PICK i \in ready :
         /\ ready' = ready \ {i}
         /\ \/ /\ pollfds[i] = PipeFd
               /\ wake' = FALSE
               /\ UNCHANGED <<pc, reading, frames, readers>>
            \/ /\ pollfds[i] # PipeFd
               /\ frames' = readers[pollfds[i]].queue
               /\ readers' = [readers EXCEPT ![pollfds[i]].queue = <<>>]
               /\ \/ frames' = <<>> /\ UNCHANGED <<pc, reading>>
                  \/ frames' # <<>> /\ pc' = "parse" /\ reading' = pollfds[i]
               /\ UNCHANGED wake
  BY DEF HandleInput
<1>3. \A j \in ready : j \in DOMAIN pollfds /\ pollfds[j] \in Fd
  BY <1>1 DEF HandledExists
<1>4. CASE pollfds[i] = PipeFd
  <2>1. wake' = FALSE /\ UNCHANGED <<pc, reading, frames, readers>>
    BY <1>2, <1>4
  <2>2. ControlType' /\ HandledExists'
    BY <1>1, <1>2, <1>3, <2>1 DEF ControlType, HandledExists
  <2>3. wake' \in BOOLEAN
    BY <2>1
  <2>4. KeepsReaders
    BY <2>1, SameReadersKept
  <2> QED
    BY <1>1, <2>2, <2>3, <2>4, KeptReaders, DevicesSame, InotifySame, BtnSame, TouchSame
<1>5. CASE pollfds[i] # PipeFd
  <2> DEFINE fd == pollfds[i]
  <2>1. fd \in ReaderFd /\ UNCHANGED wake
    BY <1>2, <1>3, <1>5 DEF ReaderFd
  <2>2. /\ frames' = readers[fd].queue
        /\ readers' = [readers EXCEPT ![fd].queue = <<>>]
        /\ \/ frames' = <<>> /\ UNCHANGED <<pc, reading>>
           \/ frames' # <<>> /\ pc' = "parse" /\ reading' = fd
    BY <1>2, <1>5
  <2> HIDE DEF fd
  <2>3. KeepsReaders
    <3>1. readers[fd] \in Reader /\ <<>> \in Seq(Frame)
      BY <2>1 DEF PollType
    <3>2. [readers[fd] EXCEPT !.queue = <<>>] \in Reader
      BY <3>1 DEF Reader
    <3>3. ASSUME readers[fd] = Closed
          PROVE  [readers[fd] EXCEPT !.queue = <<>>] = Closed
      <4>1. readers[fd].queue = <<>>
        BY <3>3 DEF Closed
      <4>2. [readers[fd] EXCEPT !.queue = readers[fd].queue] = readers[fd]
        BY <3>1 DEF Reader
      <4> QED
        BY <3>3, <4>1, <4>2
    <3>4. /\ [readers[fd] EXCEPT !.queue = <<>>].path = readers[fd].path
          /\ [readers[fd] EXCEPT !.queue = <<>>].pressed = readers[fd].pressed
      BY <3>1 DEF Reader
    <3>5. readers' = [readers EXCEPT ![fd] = [readers[fd] EXCEPT !.queue = <<>>]]
      BY <2>2
    <3> QED
      BY <2>1, <3>2, <3>3, <3>4, <3>5 DEF PollType, KeepsReaders
  <2>4. frames' \in Seq(Frame)
    BY <2>1, <2>2 DEF PollType, Reader
  <2>5. ControlType'
    BY <1>1, <1>2, <2>1, <2>2, <2>4 DEF ControlType, Pc, ReaderFd
  <2>6. HandledExists'
    <3>1. CASE frames' = <<>> /\ UNCHANGED <<pc, reading>>
      BY <1>1, <1>2, <1>3, <3>1 DEF HandledExists
    <3>2. CASE frames' # <<>> /\ pc' = "parse" /\ reading' = fd
      <4>1. readers[fd].path # NoPath
        BY <2>1, <2>2, <3>2 DEF ClosedReaders, Closed
      <4>2. readers'[fd].path \in Path
        BY <2>1, <2>3, <4>1 DEF KeepsReaders, PollType, Reader
      <4> QED
        BY <1>1, <1>2, <1>3, <2>1, <3>2, <4>2 DEF HandledExists
    <3> QED
      BY <2>2, <3>1, <3>2
  <2> QED
    BY <1>1, <2>1, <2>3, <2>5, <2>6, KeptReaders, DevicesSame, InotifySame, BtnSame, TouchSame
<1> QED
  BY <1>4, <1>5

LEMMA ParseIInv == ASSUME IInv, Parse PROVE IInv'
<1> USE DEF IInv, Types
<1> DEFINE pressed == Pressed(readers[reading], Head(frames))
           path == readers[reading].path
           useEvtKey == \/ readers[reading].useEvtKey
                        \/ IsTouchPanel(path) /\ {"keydown", "keyup"} \cap Head(frames) # {}
<1>1. /\ pc = "parse"
      /\ UNCHANGED <<devices, inotify, wake, todo, ready, pollfds>>
      /\ frames' = Tail(frames)
      /\ \/ frames' # <<>> /\ UNCHANGED <<pc, reading>>
         \/ frames' = <<>> /\ pc' = "handle" /\ reading' = PipeFd
  BY DEF Parse
<1>2. /\ readers' = [readers EXCEPT ![reading].pressed = pressed, ![reading].useEvtKey = useEvtKey]
      /\ \/ DevType[path] = "mouse" /\ UNCHANGED <<touch, btn>>
         \/ Handle(path, pressed)
  BY DEF Parse
<1>3. reading \in ReaderFd /\ path \in Path /\ frames # <<>>
      /\ \A i \in ready : i \in DOMAIN pollfds /\ pollfds[i] \in Fd
  BY <1>1 DEF HandledExists
<1>4. readers[reading] \in Reader
  BY <1>3 DEF PollType
<1>5. pressed \in BOOLEAN
  <2>1. readers[reading].pressed \in BOOLEAN
    BY <1>4 DEF Reader
  <2>2. \/ pressed = ("keydown" \in Head(frames))
        \/ pressed = readers[reading].pressed
        \/ pressed = ("track" \in Head(frames))
    BY DEF Pressed
  <2>3. ("keydown" \in Head(frames)) \in BOOLEAN /\ ("track" \in Head(frames)) \in BOOLEAN
    OBVIOUS
  <2> QED
    BY <2>1, <2>2, <2>3, Zenon
<1>6. useEvtKey \in BOOLEAN
  <2>1. readers[reading].useEvtKey \in BOOLEAN
    BY <1>4 DEF Reader
  <2> QED
    BY <2>1
<1> HIDE DEF pressed, useEvtKey
<1>7. /\ readers' \in [ReaderFd -> Reader]
      /\ \A fd \in ReaderFd : readers'[fd].path = readers[fd].path
      /\ \A fd \in ReaderFd : fd # reading => readers'[fd] = readers[fd]
      /\ readers'[reading].pressed = pressed
  <2>1. readers' = [readers EXCEPT ![reading] =
                       [readers[reading] EXCEPT !.pressed = pressed, !.useEvtKey = useEvtKey]]
    BY <1>2
  <2> DEFINE new == [readers[reading] EXCEPT !.pressed = pressed, !.useEvtKey = useEvtKey]
  <2>2. new \in Reader /\ new.path = readers[reading].path /\ new.pressed = pressed
    BY <1>4, <1>5, <1>6 DEF Reader
  <2> HIDE DEF new
  <2>3. readers' = [readers EXCEPT ![reading] = new]
    BY <2>1 DEF new
  <2> QED
    BY <1>3, <2>2, <2>3 DEF PollType
<1>8. PollType' /\ ClosedReaders' /\ OpenIsPolled'
  <2>1. PollType'
    BY <1>1, <1>7 DEF PollType
  <2>2. ClosedReaders'
    BY <1>3, <1>7, PathAssumption DEF ClosedReaders
  <2>3. OpenIsPolled'
    BY <1>1, <1>7 DEF OpenIsPolled
  <2> QED
    BY <2>1, <2>2, <2>3
<1>9. ControlType' /\ HandledExists'
  <2>1. frames' \in Seq(Frame)
    BY <1>1, <1>3, HeadTailProperties DEF ControlType
  <2>2. ControlType'
    BY <1>1, <2>1, FdAssumption DEF ControlType, Pc
  <2>3. HandledExists'
    BY <1>1, <1>3, <1>7 DEF HandledExists
  <2> QED
    BY <2>2, <2>3
<1>10. /\ TouchType' /\ BtnType' /\ LastIsPublished'
       /\ IsTouchPanel(path) => touchPressed' = pressed
       /\ ~IsTouchPanel(path) => UNCHANGED touch
  <2>1. CASE Handle(path, pressed)
    BY <1>3, <1>5, <2>1, HandleLeaves
  <2>2. CASE DevType[path] = "mouse" /\ UNCHANGED <<touch, btn>>
    BY <2>2, TouchSame, BtnSame DEF LastIsPublished, touch, IsTouchPanel
  <2> QED
    BY <1>2, <2>1, <2>2
<1>11. TouchIsBacked'
  <2>1. CASE IsTouchPanel(path)
    BY <1>3, <1>7, <1>10, <2>1 DEF TouchIsBacked, IsTouchPanel
  <2>2. CASE ~IsTouchPanel(path)
    <3>1. touchPressed' = touchPressed
      BY <1>10, <2>2 DEF touch
    <3>2. ASSUME touchPressed
          PROVE  \E fd \in ReaderFd : readers'[fd].pressed /\ IsTouchPanel(readers'[fd].path)
      <4>1. PICK fd \in ReaderFd : readers[fd].pressed /\ IsTouchPanel(readers[fd].path)
        BY <3>2 DEF TouchIsBacked
      <4>2. fd # reading
        BY <2>2, <4>1
      <4> QED
        BY <1>7, <4>1, <4>2
    <3> QED
      BY <3>1, <3>2 DEF TouchIsBacked, IsTouchPanel
  <2> QED
    BY <2>1, <2>2
<1> QED
  BY <1>1, <1>8, <1>9, <1>10, <1>11, DevicesSame, InotifySame

LEMMA InitIInv == Init => IInv
<1> SUFFICES ASSUME Init
             PROVE  IInv
  OBVIOUS
<1> USE DEF Init
<1>1. DevicesType
  BY DevTypeAssumption DEF DevicesType
<1>2. InotifyType
  <2>1. watching \in BOOLEAN
    OBVIOUS
  <2>2. <<>> \in Seq({"create", "delete"} \X Path) /\ <<>> \in Seq(Path)
    BY EmptySeq
  <2> QED
    BY <2>1, <2>2 DEF InotifyType
<1>3. ControlType
  BY FdAssumption DEF ControlType, Pc
<1>4. PollType
  <2>1. Closed \in Reader
    BY DEF Closed, Reader
  <2>2. pollfds = <<PipeFd>> /\ PipeFd \in Fd \cup {Unused}
    BY FdAssumption
  <2>3. pollfds \in Seq(Fd \cup {Unused})
    BY <2>2
  <2> QED
    BY <2>1, <2>3 DEF PollType
<1>5. TouchType /\ BtnType /\ wake \in BOOLEAN
  BY DEF TouchType, BtnType
<1>6. HandledExists
  BY DEF HandledExists
<1>7. ClosedReaders /\ OpenIsPolled
  BY DEF ClosedReaders, OpenIsPolled, Closed
<1>8. LastIsPublished /\ TouchIsBacked
  BY DEF LastIsPublished, TouchIsBacked
<1> QED
  BY <1>1, <1>2, <1>3, <1>4, <1>5, <1>6, <1>7, <1>8 DEF IInv, Types

LEMMA NextIInv == IInv /\ [Next]_vars => IInv'
<1> SUFFICES ASSUME IInv, [Next]_vars
             PROVE  IInv'
  OBVIOUS
<1>1. CASE UNCHANGED vars
  <2>1. KeepsReaders /\ UNCHANGED <<devices, inotify, wake, control, pollfds, touch, btn>>
    BY <1>1, SameReadersKept DEF vars, poll, IInv, Types
  <2> QED
    BY <2>1, KeptReaders, KeptControl, DevicesSame, InotifySame, BtnSame, TouchSame DEF IInv, Types
<1>2. CASE Next
  BY <1>2, DeviceIInv, StartUpIInv, FlushOneIInv, LoopIInv, HandleInputIInv, ParseIInv
  DEF Next, InputThread
<1> QED
  BY <1>1, <1>2

\* The inductive invariant of readers, poll set and what is published.
THEOREM Invariance == Spec => []IInv
  BY InitIInv, NextIInv, PTL DEF Spec

\* The variables have their types; the count of buttons never goes below zero.
THEOREM TypeCorrect == Spec => []TypeOK
<1>1. IInv => TypeOK
  BY DEF IInv, Types, DevicesType, InotifyType, ControlType, Pc, PollType, TouchType, BtnType, TypeOK
<1> QED
  BY <1>1, Invariance, PTL

\* AddPoll and RemovePoll never forget a reader that is open, whatever the
\* order in which devices come and go and descriptors are used again.
THEOREM ReadersArePolled == Spec => []EveryReaderIsPolled
<1>1. IInv => EveryReaderIsPolled
  BY DEF IInv, OpenIsPolled, ClosedReaders, EveryReaderIsPolled
<1> QED
  BY <1>1, Invariance, PTL

\* HandleTouchInput has published a touch last only while some panel that is
\* open was pressed in its last frame.
THEOREM PublishedTouchIsBacked == Spec => []TouchIsBacked
  BY Invariance, PTL DEF IInv
=============================================================================
