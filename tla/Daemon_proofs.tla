----------------------------- MODULE Daemon_proofs -----------------------------
(***************************************************************************)
(* Daemon, for any contents of the file, any number of processes and any   *)
(* number of edits: its types, that no process is forgotten, that the      *)
(* handler never waits, that the file stays watched, that the newest       *)
(* configuration is the one that is loaded, and that a process works by    *)
(* what its lines say.                                                     *)
(***************************************************************************)
EXTENDS Daemon, Config_proofs, TLAPS, SequenceTheorems

\* A process that was not told to end is the one that is being started, or the
\* one that old_pid names, or one that was given the number in dead_pid; and
\* what has that number now is the latter, has been told to end, or is named by
\* old_pid.
Current == CASE pc \in {"drain", "fork"} -> {}
             [] pc = "store" -> {child}
             [] pc = "settle" -> {new_pid}
             [] OTHER -> {old_pid}

ProcInv == /\ term \subseteq Live /\ mistaken \subseteq Live
           /\ Live \subseteq term \cup mistaken \cup Current
           /\ dead_pid \in Live => dead_pid \in term \cup mistaken \cup {old_pid}

\* Signals that are pending or handled have dead children of their own.
SignalInv == /\ sigchld \/ handling => Zombies # {}
             /\ sigchld /\ handling => \E p, q \in Zombies : p # q

EventSet(q) == {q[k] : k \in DOMAIN q}

\* The events, read or not, after which the file is looked for.
RepairEvents == {e \in EventSet(batch) \cup EventSet(queue) : e.mask \in Repair}

Looking == pc \in {"missing", "create", "rewatch"}

\* While the program looks for the file, the event that made it do so is the
\* next one of its batch.
BatchInv == /\ pc \notin {"handle", "missing", "create", "rewatch"} => batch = <<>>
            /\ Looking => batch # <<>> /\ Head(batch).wd \in items /\ Head(batch).mask \in Repair

\* The path is watched under the one descriptor of the table, or an event that
\* leads to the repair is on its way; such an event is never about the file
\* that is at the path.
WatchInv == /\ \A e \in RepairEvents : /\ e.wd \in Inode
                                       /\ ~spoiled => /\ e.wd # path
                                                      /\ e.wd = away => away \in watched
            /\ away # NoFile => away # path
            /\ ~spoiled => /\ pc = "rewatch" => path # NoFile
                           /\ \E i \in Inode :
                                 /\ items = {i}
                                 /\ \/ i = path /\ path \in watched
                                    \/ \E e \in RepairEvents : e.wd = i

\* A change of the file is still to be handled.
Dirty == \/ queue # <<>> \/ (writer # NoFile /\ writer = path)
         \/ pc \in {"handle", "missing", "create", "rewatch", "return"}

\* The processes of earlier changes that nothing will end.
Forgotten == mistaken \ IF pc \in {"store", "settle", "read"} THEN {child} ELSE {}

\* Unless a change is still to be handled, what a process has loaded is what is
\* in the file, if it is not a forgotten one, and the child that was started
\* last is there if it can be.
LoadInv == ~spoiled /\ ~Dirty =>
              /\ \A p \in Live \ (term \cup Forgotten) :
                    proc[p] = "working" => loaded[p] = content[path]
              /\ /\ pc \in {"store", "settle", "read"} /\ ~crashed
                 /\ Accepted(LoadConfig(content[path]))
                 => child \in Live \ term

IInv == TypeOK /\ ProcInv /\ SignalInv /\ BatchInv /\ WatchInv /\ LoadInv

-----------------------------------------------------------------------------
(* Files and events. *)

LEMMA AppendFacts ==
    ASSUME NEW S, NEW s \in Seq(S), NEW x \in S
    PROVE  /\ Append(s, x) \in Seq(S)
           /\ Len(Append(s, x)) = Len(s) + 1
           /\ DOMAIN Append(s, x) = DOMAIN s \cup {Len(s) + 1}
           /\ Len(s) + 1 \notin DOMAIN s
           /\ \A k \in DOMAIN s : Append(s, x)[k] = s[k]
           /\ Append(s, x)[Len(s) + 1] = x
  OBVIOUS

LEMMA UpdateFacts ==
    ASSUME NEW S, NEW s \in Seq(S), NEW x \in S, NEW i \in DOMAIN s
    PROVE  /\ [s EXCEPT ![i] = x] \in Seq(S)
           /\ DOMAIN [s EXCEPT ![i] = x] = DOMAIN s
           /\ \A k \in DOMAIN s : [s EXCEPT ![i] = x][k] = IF k = i THEN x ELSE s[k]
  BY ExceptSeq

LEMMA InodeType == TypeOK => Inode \subseteq Nat \ {NoFile} /\ Failed \notin Inode
  BY DEF TypeOK, Inode, NoFile, Failed

Event == [wd : Nat, mask : Repair \cup {"close_write"}]

LEMMA EventsAre == Events = Seq(Event)
  BY DEF Events, Event

LEMMA TailFacts ==
    ASSUME NEW q \in Events, q # <<>>
    PROVE  /\ Head(q) \in Event
           /\ Tail(q) \in Events
           /\ EventSet(q) = {Head(q)} \cup EventSet(Tail(q))
<1>1. q \in Seq(Event) /\ Len(q) > 0
  BY EventsAre
<1>2. Head(q) = q[1] /\ Head(q) \in Event
  BY <1>1
<1>3. Tail(q) \in Seq(Event) /\ Len(Tail(q)) = Len(q) - 1
      /\ \A k \in 1..(Len(q) - 1) : Tail(q)[k] = q[k + 1]
  BY <1>1
<1>4. ASSUME NEW k \in DOMAIN q
      PROVE  q[k] \in {Head(q)} \cup EventSet(Tail(q))
  <2>1. CASE k = 1
    BY <2>1, <1>2
  <2>2. CASE k # 1
    <3>1. k - 1 \in DOMAIN Tail(q) /\ Tail(q)[k - 1] = q[k]
      BY <2>2, <1>1, <1>3
    <3> QED
      BY <3>1 DEF EventSet
  <2> QED
    BY <2>1, <2>2
<1>5. ASSUME NEW k \in DOMAIN Tail(q)
      PROVE  Tail(q)[k] \in EventSet(q)
  <2>1. k + 1 \in DOMAIN q /\ Tail(q)[k] = q[k + 1]
    BY <1>1, <1>3
  <2> QED
    BY <2>1 DEF EventSet
<1>6. Head(q) \in EventSet(q)
  BY <1>1, <1>2 DEF EventSet
<1> QED
  BY <1>2, <1>3, <1>4, <1>5, <1>6, EventsAre DEF EventSet

LEMMA PostFacts ==
    ASSUME NEW q \in Events, NEW e \in Event
    PROVE  /\ Post(q, e) \in Events /\ Post(q, e) # <<>>
           /\ EventSet(Post(q, e)) = EventSet(q) \cup {e}
<1>1. q \in Seq(Event)
  BY EventsAre
<1>2. CASE q # <<>> /\ q[Len(q)] = e
  <2>1. Len(q) \in DOMAIN q
    BY <1>1, <1>2
  <2>2. e \in EventSet(q)
    BY <1>2, <2>1 DEF EventSet
  <2> QED
    BY <1>2, <2>2 DEF Post
<1>3. CASE ~(q # <<>> /\ q[Len(q)] = e)
  <2>1. Post(q, e) = Append(q, e)
    BY <1>3 DEF Post
  <2>2. EventSet(Append(q, e)) = EventSet(q) \cup {e}
    BY <1>1, AppendFacts DEF EventSet
  <2>3. Append(q, e) \in Seq(Event) /\ Len(Append(q, e)) = Len(q) + 1 /\ Len(q) \in Nat
    BY <1>1
  <2>4. Append(q, e) # <<>>
    BY <2>3
  <2> QED
    BY <2>1, <2>2, <2>3, <2>4, EventsAre
<1> QED
  BY <1>2, <1>3

LEMMA NoticeFacts ==
    ASSUME NEW q \in Events, NEW i \in Nat, NEW m \in Repair \cup {"close_write"}
    PROVE  /\ Notice(q, i, m) \in Events
           /\ q # <<>> \/ i \in watched => Notice(q, i, m) # <<>>
           /\ EventSet(Notice(q, i, m)) =
                EventSet(q) \cup IF i \in watched THEN {[wd |-> i, mask |-> m]} ELSE {}
<1>1. [wd |-> i, mask |-> m] \in Event
  BY DEF Event
<1> QED
  BY <1>1, PostFacts DEF Notice

LEMMA GoneFacts ==
    ASSUME NEW q \in Events, NEW i \in Nat
    PROVE  /\ Gone(q, i) \in Events
           /\ q # <<>> \/ i \in watched => Gone(q, i) # <<>>
           /\ EventSet(Gone(q, i)) =
                EventSet(q) \cup IF i \in watched
                                 THEN {[wd |-> i, mask |-> "delete_self"], [wd |-> i, mask |-> "ignored"]}
                                 ELSE {}
  BY NoticeFacts DEF Gone, Repair

-----------------------------------------------------------------------------
(* The variables have their types. *)

FileTypes == /\ content \in Seq(Content)
             /\ {path, away, writer} \subseteq Inode \cup {NoFile}
             /\ edits \in 0..MaxEdits

WatchTypes == /\ watched \subseteq Inode /\ items \subseteq Inode \cup {Failed}
              /\ queue \in Events /\ batch \in Events

FlagTypes == {spoiled, sigchld, handling, crashed} \subseteq BOOLEAN

PcType == pc \in {"read", "handle", "missing", "create", "rewatch", "return",
                  "drain", "fork", "store", "settle"}

ProcTypes == /\ proc \in [Pid -> {"free", "loading", "working", "zombie"}]
             /\ loaded \in [Pid -> Content]
             /\ term \subseteq Pid /\ mistaken \subseteq Pid
             /\ {child, new_pid, old_pid, dead_pid} \subseteq Pid \cup {NoPid}

LEMMA TypeParts == TypeOK <=> FileTypes /\ WatchTypes /\ FlagTypes /\ PcType /\ ProcTypes
  BY Zenon DEF TypeOK, FileTypes, WatchTypes, FlagTypes, PcType, ProcTypes

LEMMA InitTypes == Init => TypeOK
<1> SUFFICES ASSUME Init
             PROVE  TypeOK
  OBVIOUS
<1>1. PICK c \in Initial : content = <<c>>
  BY DEF Init
<1>2. content \in Seq(Content) /\ Inode = {1}
  BY <1>1 DEF Content, Inode
<1>3. FileTypes /\ WatchTypes
  BY <1>2, MaxEditsAssumption DEF Init, FileTypes, WatchTypes, Events
<1>4. FlagTypes /\ PcType
  BY DEF Init, FlagTypes, PcType
<1>5. ProcTypes
  BY DEF Init, ProcTypes, Content
<1> QED
  BY <1>3, <1>4, <1>5, TypeParts

\* What the user does leaves the files and the kernel's queue as they should be.
LEMMA UserTypes == TypeOK /\ User => FileTypes' /\ WatchTypes'
<1> SUFFICES ASSUME TypeOK, User
             PROVE  FileTypes' /\ WatchTypes'
  OBVIOUS
<1> USE InodeType DEF TypeOK, FileTypes, WatchTypes, userVars, kernelVars, NoFile
<1>1. UNCHANGED <<items, batch>>
  BY DEF User
<1>2. Edit => edits' \in 0..MaxEdits
  BY MaxEditsAssumption DEF Edit
<1>3. Empty \in Content /\ \A c \in Written : c \in Content
  BY DEF Content
<1>4. CASE OpenWrite
  <2>1. content' \in Seq(Content) /\ Inode' = Inode
    BY <1>4, <1>3, UpdateFacts DEF OpenWrite, Inode
  <2> QED
    BY <1>1, <1>2, <1>4, <2>1 DEF OpenWrite
<1>5. ASSUME NEW c \in Written, CloseWrite(c)
      PROVE  FileTypes' /\ WatchTypes'
  <2>1. content' \in Seq(Content) /\ Inode' = Inode
    BY <1>5, <1>3, UpdateFacts DEF CloseWrite, Inode
  <2>2. queue' \in Events
    BY <1>5, NoticeFacts DEF CloseWrite
  <2> QED
    BY <1>1, <1>5, <2>1, <2>2 DEF CloseWrite
<1>6. ASSUME NEW c \in Written, Install(c)
      PROVE  FileTypes' /\ WatchTypes'
  <2>1. content' \in Seq(Content) /\ Inode' = Inode \cup {path'} /\ path' \in Inode'
    BY <1>6, <1>3, AppendFacts DEF Install, Inode
  <2>2. queue' \in Events
    BY <1>6, GoneFacts DEF Install
  <2> QED
    BY <1>1, <1>2, <1>6, <2>1, <2>2 DEF Install
<1>7. CASE Delete
  <2>1. queue' \in Events
    BY <1>7, GoneFacts DEF Delete
  <2> QED
    BY <1>1, <1>2, <1>7, <2>1 DEF Delete, Inode
<1>8. CASE MoveAway
  <2>1. queue' \in Events
    BY <1>8, NoticeFacts DEF MoveAway, Repair
  <2> QED
    BY <1>1, <1>2, <1>8, <2>1 DEF MoveAway, Inode
<1>9. CASE MoveBack
  <2>1. queue' \in Events
    BY <1>9, NoticeFacts, GoneFacts DEF MoveBack, Repair
  <2> QED
    BY <1>1, <1>2, <1>9, <2>1 DEF MoveBack, Inode
<1> QED
  BY <1>4, <1>5, <1>6, <1>7, <1>8, <1>9 DEF User

LEMMA WatchingTypes == TypeOK /\ BatchInv /\ WaitAndHandle => FileTypes' /\ WatchTypes' /\ PcType'
<1> SUFFICES ASSUME TypeOK, BatchInv, WaitAndHandle
             PROVE  FileTypes' /\ WatchTypes' /\ PcType'
  OBVIOUS
<1> USE InodeType DEF TypeOK, FileTypes, WatchTypes, PcType, userVars, kernelVars, watchVars, NoFile
<1>1. CASE ReadEvents
  BY <1>1 DEF ReadEvents, Inode, Events
<1>2. CASE Handle
  BY <1>2, TailFacts DEF Handle, Inode
<1>3. CASE LookAgain
  BY <1>3 DEF LookAgain, Inode
<1>4. CASE Recreate
  <2>1. Empty \in Content
    BY DEF Content
  <2>2. content' \in Seq(Content) /\ Inode' = Inode \cup {path'} /\ path' \in Inode'
    <3>1. CASE path = NoFile
      <4>1. /\ content \in Seq(Content) /\ content' = Append(content, Empty)
            /\ path' = Len(content')
        BY <1>4, <3>1 DEF Recreate
      <4>2. /\ content' \in Seq(Content) /\ Len(content') = Len(content) + 1
            /\ DOMAIN content' = DOMAIN content \cup {Len(content) + 1}
        BY <4>1, <2>1, AppendFacts
      <4> QED
        BY <4>1, <4>2 DEF Inode
    <3>2. CASE path # NoFile
      <4>1. path \in DOMAIN content /\ path' = path /\ content' = [content EXCEPT ![path] = Empty]
        BY <1>4, <3>2 DEF Recreate, Inode
      <4>2. content' \in Seq(Content) /\ DOMAIN content' = DOMAIN content
        BY <4>1, <2>1, UpdateFacts
      <4> QED
        BY <4>1, <4>2 DEF Inode
    <3> QED
      BY <3>1, <3>2
  <2> QED
    BY <1>4, <2>2 DEF Recreate
<1>5. CASE AddWatch
  <2>1. Inode' = Inode
    BY <1>5 DEF AddWatch, Inode
  <2>2. batch' \in Events
    BY <1>5, TailFacts DEF AddWatch, BatchInv, Looking
  <2> QED
    BY <1>5, <2>1, <2>2 DEF AddWatch, Failed
<1>6. CASE Return
  BY <1>6 DEF Return, Inode
<1> QED
  BY <1>1, <1>2, <1>3, <1>4, <1>5, <1>6 DEF WaitAndHandle

LEMMA NextFileTypes == TypeOK /\ BatchInv /\ [Next]_vars => FileTypes' /\ WatchTypes'
<1> SUFFICES ASSUME TypeOK, BatchInv, [Next]_vars
             PROVE  FileTypes' /\ WatchTypes'
  OBVIOUS
<1>1. ASSUME UNCHANGED inotifyVars
      PROVE  FileTypes' /\ WatchTypes'
  <2>1. FileTypes /\ WatchTypes
    BY TypeParts
  <2> QED
    BY <1>1, <2>1 DEF FileTypes, WatchTypes, inotifyVars, userVars, kernelVars, watchVars, Inode
<1>2. CASE UNCHANGED inotifyVars
  BY <1>1, <1>2
<1>3. CASE User \/ WaitAndHandle
  BY <1>3, UserTypes, WatchingTypes
<1> QED
  BY <1>2, <1>3 DEF Next, vars, DaemonStep, Watching, KillOldApp, DrainOver, Fork, StoreNewPid,
     SettleOver, DaemonSigHandler, Wait, AppStep, Load, AppSigHandler, Crash

LEMMA NextPcType == TypeOK /\ BatchInv /\ [Next]_vars => PcType'
<1> SUFFICES ASSUME TypeOK, BatchInv, [Next]_vars
             PROVE  PcType'
  OBVIOUS
<1> USE DEF PcType
<1>1. PcType
  BY TypeParts
<1>2. CASE WaitAndHandle
  BY <1>2, WatchingTypes
<1>3. CASE User
  BY <1>1, <1>3 DEF User
<1>4. CASE KillOldApp \/ DrainOver \/ Fork \/ StoreNewPid \/ SettleOver
  BY <1>4 DEF KillOldApp, DrainOver, Fork, StoreNewPid, SettleOver
<1>5. CASE UNCHANGED pc
  BY <1>1, <1>5
<1> QED
  BY <1>2, <1>3, <1>4, <1>5 DEF Next, vars, DaemonStep, Watching, DaemonSigHandler, Wait,
     AppStep, Load, AppSigHandler, Crash

LEMMA NextProcTypes == TypeOK /\ BatchInv /\ [Next]_vars => ProcTypes'
<1> SUFFICES ASSUME TypeOK, BatchInv, [Next]_vars
             PROVE  ProcTypes'
  OBVIOUS
<1> USE DEF ProcTypes, procVars, pidVars
<1>1. ProcTypes
  BY TypeParts
<1>2. ASSUME NEW p \in Pid, Die(p), UNCHANGED pidVars
      PROVE  ProcTypes'
  BY <1>1, <1>2 DEF Die, Content
<1>3. ASSUME NEW p \in Pid, Load(p)
      PROVE  ProcTypes'
  <2>1. CASE path # NoFile /\ Accepted(LoadConfig(content[path]))
    <3>1. content[path] \in Content
      <4>1. path \in DOMAIN content /\ content \in Seq(Content)
        BY <2>1, TypeParts DEF FileTypes, Inode
      <4> QED
        BY <4>1
    <3> QED
      BY <1>1, <1>3, <2>1, <3>1 DEF Load
  <2>2. CASE ~(path # NoFile /\ Accepted(LoadConfig(content[path])))
    BY <1>2, <1>3, <2>2 DEF Load
  <2> QED
    BY <2>1, <2>2
<1>4. ASSUME NEW p \in Pid, AppSigHandler(p) \/ Crash(p)
      PROVE  ProcTypes'
  BY <1>2, <1>4 DEF AppSigHandler, Crash
<1>5. CASE UNCHANGED <<procVars, pidVars>>
  BY <1>1, <1>5
<1>6. CASE DaemonSigHandler \/ DrainOver
  BY <1>1, <1>6 DEF DaemonSigHandler, DrainOver
<1>7. CASE Wait
  BY <1>1, <1>7 DEF Wait, Zombies
<1>8. CASE KillOldApp
  BY <1>1, <1>8 DEF KillOldApp, Live
<1>9. CASE Fork
  BY <1>1, <1>9 DEF Fork
<1>10. CASE StoreNewPid \/ SettleOver
  BY <1>1, <1>10 DEF StoreNewPid, SettleOver
<1> QED
  BY <1>3, <1>4, <1>5, <1>6, <1>7, <1>8, <1>9, <1>10
     DEF Next, vars, DaemonStep, Watching, AppStep

LEMMA NextFlagTypes == TypeOK /\ BatchInv /\ [Next]_vars => FlagTypes'
<1> SUFFICES ASSUME TypeOK, BatchInv, [Next]_vars
             PROVE  FlagTypes'
  OBVIOUS
<1> USE DEF FlagTypes
<1>1. FlagTypes
  BY TypeParts
<1>2. CASE User /\ UNCHANGED <<procVars, pidVars, handling>>
  <2>1. (spoiled \/ pc = "rewatch") \in BOOLEAN /\ (spoiled \/ away \in watched) \in BOOLEAN
    OBVIOUS
  <2>2. spoiled' \in BOOLEAN
    BY <1>1, <1>2, <2>1
       DEF User, OpenWrite, CloseWrite, Install, Delete, MoveAway, MoveBack, Vanish
  <2> QED
    BY <1>1, <1>2, <2>2 DEF procVars
<1>3. CASE Watching
  BY <1>1, <1>3 DEF Watching, WaitAndHandle, ReadEvents, Handle, LookAgain, Recreate, AddWatch,
     Return, userVars, procVars
<1>4. CASE KillOldApp \/ DrainOver \/ Fork \/ StoreNewPid \/ SettleOver
  BY <1>1, <1>4 DEF KillOldApp, DrainOver, Fork, StoreNewPid, SettleOver, inotifyVars, userVars,
     procVars
<1>5. CASE DaemonSigHandler \/ Wait
  BY <1>1, <1>5 DEF DaemonSigHandler, Wait, inotifyVars, userVars
<1>6. ASSUME NEW p \in Pid, AppStep(p)
      PROVE  FlagTypes'
  BY <1>1, <1>6 DEF AppStep, Load, AppSigHandler, Die, inotifyVars, userVars
<1>7. ASSUME NEW p \in Pid, Crash(p)
      PROVE  FlagTypes'
  <2>1. (crashed \/ p = child) \in BOOLEAN
    OBVIOUS
  <2> QED
    BY <1>1, <1>7, <2>1 DEF Crash, Die, inotifyVars, userVars
<1>8. CASE UNCHANGED vars
  BY <1>1, <1>8 DEF vars, inotifyVars, userVars, procVars
<1> QED
  BY <1>2, <1>3, <1>4, <1>5, <1>6, <1>7, <1>8 DEF Next, DaemonStep

LEMMA NextTypes == TypeOK /\ BatchInv /\ [Next]_vars => TypeOK'
<1>1. FileTypes' /\ WatchTypes' /\ FlagTypes' /\ PcType' /\ ProcTypes' => TypeOK'
  BY Zenon DEF TypeOK, FileTypes, WatchTypes, FlagTypes, PcType, ProcTypes
<1> QED
  BY <1>1, NextFileTypes, NextFlagTypes, NextPcType, NextProcTypes

LEMMA NextBatchInv == TypeOK /\ BatchInv /\ [Next]_vars => BatchInv'
<1> SUFFICES ASSUME TypeOK, BatchInv, [Next]_vars
             PROVE  BatchInv'
  OBVIOUS
<1> USE DEF BatchInv, Looking
<1>1. CASE UNCHANGED <<items, batch, pc>>
  BY <1>1
<1>2. CASE ReadEvents
  BY <1>2 DEF ReadEvents
<1>3. CASE Handle
  BY <1>3 DEF Handle
<1>4. CASE LookAgain \/ Recreate
  BY <1>4 DEF LookAgain, Recreate, watchVars
<1>5. CASE AddWatch
  BY <1>5 DEF AddWatch
<1>6. CASE Return
  BY <1>6 DEF Return, watchVars
<1>7. CASE KillOldApp \/ DrainOver \/ Fork \/ StoreNewPid \/ SettleOver
  BY <1>7 DEF KillOldApp, DrainOver, Fork, StoreNewPid, SettleOver, inotifyVars, watchVars
<1> QED
  BY <1>1, <1>2, <1>3, <1>4, <1>5, <1>6, <1>7 DEF Next, vars, inotifyVars, watchVars, DaemonStep,
     Watching, WaitAndHandle, User, DaemonSigHandler, Wait, AppStep, Load, AppSigHandler, Crash

-----------------------------------------------------------------------------
(* The processes and the signals. *)

\* A death concerns its process only.
LEMMA DieFacts ==
    ASSUME TypeOK, NEW p \in Pid, Die(p)
    PROVE  /\ Live' = Live \ {p} /\ Zombies' = Zombies \cup {p}
           /\ \A q \in Pid \ {p} : proc'[q] = proc[q] /\ loaded'[q] = loaded[q]
           /\ term' = term \ {p} /\ mistaken' = mistaken \ {p} /\ sigchld'
  BY DEF TypeOK, Die, Live, Zombies

LEMMA NextProcInv == TypeOK /\ ProcInv /\ [Next]_vars => ProcInv'
<1> SUFFICES ASSUME TypeOK, ProcInv, [Next]_vars
             PROVE  ProcInv'
  OBVIOUS
<1> USE DEF TypeOK, ProcInv, procVars, pidVars
<1>1. ASSUME NEW p \in Live, Die(p), UNCHANGED <<pc, pidVars>>
      PROVE  ProcInv'
  <2>1. Current' = Current
    BY <1>1 DEF Current
  <2>2. p \in Pid
    BY DEF Live
  <2> QED
    BY <1>1, <2>1, <2>2, DieFacts
<1>2. ASSUME NEW p \in Pid, Load(p)
      PROVE  ProcInv'
  <2>1. p \in Live /\ Current' = Current
    BY <1>2 DEF Load, Live, Current
  <2>2. CASE Die(p)
    BY <1>1, <1>2, <2>1, <2>2 DEF Load
  <2>3. CASE proc' = [proc EXCEPT ![p] = "working"] /\ UNCHANGED <<term, mistaken>>
    <3>1. Live' = Live
      BY <2>1, <2>3 DEF Live
    <3> QED
      BY <1>2, <2>1, <2>3, <3>1 DEF Load
  <2> QED
    BY <1>2, <2>2, <2>3 DEF Load
<1>3. ASSUME NEW p \in Pid, AppSigHandler(p) \/ Crash(p)
      PROVE  ProcInv'
  BY <1>1, <1>3 DEF AppSigHandler, Crash, Live
<1>4. CASE Wait
  <2>1. PICK p \in Zombies : /\ proc' = [proc EXCEPT ![p] = "free"]
                             /\ dead_pid' = IF p \in {new_pid, old_pid} THEN p ELSE dead_pid
    BY <1>4 DEF Wait
  <2>2. Live' = Live /\ Current' = Current
    BY <1>4, <2>1 DEF Wait, Live, Zombies, Current
  <2>3. dead_pid' = dead_pid \/ dead_pid' \notin Live'
    BY <2>1 DEF Zombies, Live
  <2> QED
    BY <1>4, <2>2, <2>3 DEF Wait
<1>5. CASE KillOldApp
  BY <1>5 DEF KillOldApp, Live, Current
<1>6. CASE DrainOver
  BY <1>6 DEF DrainOver, Live, Current
<1>7. CASE Fork
  <2>1. PICK p \in Pid : /\ proc[p] = "free" /\ proc' = [proc EXCEPT ![p] = "loading"]
                         /\ child' = p
                         /\ mistaken' = mistaken \cup (({p} \cap {dead_pid}) \ {old_pid})
    BY <1>7 DEF Fork
  <2>2. Live' = Live \cup {p} /\ Current' = {p} /\ Current = {}
    BY <1>7, <2>1 DEF Fork, Live, Current
  <2>3. p = dead_pid => p \in mistaken' \cup {old_pid}
    BY <2>1
  <2> QED
    BY <1>7, <2>1, <2>2, <2>3 DEF Fork
<1>8. CASE StoreNewPid
  BY <1>8 DEF StoreNewPid, Live, Current
<1>9. CASE SettleOver
  <2>1. Live' = Live
    BY <1>9 DEF SettleOver, Live
  <2>2. Current = {new_pid} /\ Current' = {old_pid'}
    BY <1>9 DEF SettleOver, Current
  <2>3. CASE new_pid # dead_pid
    BY <1>9, <2>1, <2>2, <2>3 DEF SettleOver
  <2>4. CASE new_pid = dead_pid
    BY <1>9, <2>1, <2>2, <2>4 DEF SettleOver
  <2> QED
    BY <2>3, <2>4
<1>10. CASE User /\ UNCHANGED <<procVars, pidVars, handling>>
  BY <1>10 DEF User, Live, Current
<1>11. CASE Watching
  <2>1. Current' = Current /\ Live' = Live
    BY <1>11 DEF Watching, WaitAndHandle, ReadEvents, Handle, LookAgain, Recreate, AddWatch, Return,
       Current, Live
  <2> QED
    BY <1>11, <2>1 DEF Watching
<1>12. CASE DaemonSigHandler
  BY <1>12 DEF DaemonSigHandler, Live, Current
<1>13. CASE UNCHANGED vars
  BY <1>13 DEF vars, Live, Current
<1> QED
  BY <1>2, <1>3, <1>4, <1>5, <1>6, <1>7, <1>8, <1>9, <1>10, <1>11, <1>12, <1>13
     DEF Next, DaemonStep, AppStep

LEMMA NextSignalInv == TypeOK /\ ProcInv /\ SignalInv /\ [Next]_vars => SignalInv'
<1> SUFFICES ASSUME TypeOK, ProcInv, SignalInv, [Next]_vars
             PROVE  SignalInv'
  OBVIOUS
<1> USE DEF SignalInv, procVars, pidVars
<1>1. ASSUME NEW p \in Live, Die(p), UNCHANGED handling
      PROVE  SignalInv'
  <2>1. p \in Pid /\ p \notin Zombies
    BY DEF Live, Zombies
  <2> QED
    BY <1>1, <2>1, DieFacts
<1>2. ASSUME Zombies' = Zombies, UNCHANGED <<sigchld, handling>>
      PROVE  SignalInv'
  BY <1>2
<1>3. ASSUME NEW p \in Pid, Load(p)
      PROVE  SignalInv'
  <2>1. p \in Live /\ p \notin Zombies
    BY <1>3 DEF Load, Live, Zombies
  <2>2. CASE Die(p)
    BY <1>1, <1>3, <2>1, <2>2 DEF Load
  <2>3. CASE proc' = [proc EXCEPT ![p] = "working"] /\ UNCHANGED sigchld
    <3>1. Zombies' = Zombies
      BY <2>1, <2>3 DEF Zombies, TypeOK
    <3> QED
      BY <1>2, <1>3, <2>3, <3>1 DEF Load
  <2> QED
    BY <1>3, <2>2, <2>3 DEF Load
<1>4. ASSUME NEW p \in Pid, AppSigHandler(p) \/ Crash(p)
      PROVE  SignalInv'
  BY <1>1, <1>4 DEF AppSigHandler, Crash, Live, ProcInv
<1>5. CASE DaemonSigHandler
  BY <1>5 DEF DaemonSigHandler, Zombies
<1>6. CASE Wait
  <2>1. PICK p \in Zombies : proc' = [proc EXCEPT ![p] = "free"]
    BY <1>6 DEF Wait
  <2>2. Zombies' = Zombies \ {p}
    BY <2>1 DEF Zombies, TypeOK
  <2> QED
    BY <1>6, <2>1, <2>2 DEF Wait
<1>7. CASE Fork
  BY <1>2, <1>7 DEF Fork, Zombies, TypeOK
<1>8. CASE KillOldApp \/ DrainOver \/ StoreNewPid \/ SettleOver \/ Watching
  BY <1>2, <1>8 DEF KillOldApp, DrainOver, StoreNewPid, SettleOver, Watching, Zombies
<1>9. CASE User /\ UNCHANGED <<procVars, pidVars, handling>>
  BY <1>2, <1>9 DEF Zombies
<1>10. CASE UNCHANGED vars
  BY <1>2, <1>10 DEF vars, Zombies
<1> QED
  BY <1>3, <1>4, <1>5, <1>6, <1>7, <1>8, <1>9, <1>10 DEF Next, DaemonStep, AppStep

-----------------------------------------------------------------------------
(* The watch. *)

Repairs(q) == {e \in EventSet(q) : e.mask \in Repair}

LEMMA RepairEventsAre == RepairEvents = Repairs(batch) \cup Repairs(queue)
  BY DEF RepairEvents, Repairs

MovedEvents(i) == IF i \in watched THEN {[wd |-> i, mask |-> "move_self"]} ELSE {}

RemovedEvents(i) == IF i \in watched
             THEN {[wd |-> i, mask |-> "delete_self"], [wd |-> i, mask |-> "ignored"]} ELSE {}

LEMMA MovedFacts ==
    ASSUME NEW q \in Events, NEW i \in Nat
    PROVE  Repairs(Notice(q, i, "move_self")) = Repairs(q) \cup MovedEvents(i)
  BY NoticeFacts DEF Repairs, Repair, MovedEvents

LEMMA RemovedFacts ==
    ASSUME NEW q \in Events, NEW i \in Nat
    PROVE  Repairs(Gone(q, i)) = Repairs(q) \cup RemovedEvents(i)
  BY GoneFacts DEF Repairs, Repair, RemovedEvents

LEMMA WrittenFacts ==
    ASSUME NEW q \in Events, NEW i \in Nat
    PROVE  Repairs(Notice(q, i, "close_write")) = Repairs(q) \cup {}
<1>1. EventSet(Notice(q, i, "close_write")) =
        EventSet(q) \cup IF i \in watched THEN {[wd |-> i, mask |-> "close_write"]} ELSE {}
  BY NoticeFacts
<1>2. \A e \in {[wd |-> i, mask |-> "close_write"]} : e.mask \notin Repair
  BY DEF Repair
<1> QED
  BY <1>1, <1>2 DEF Repairs

\* The user's steps.  What they add to the events leads to the repair.
LEMMA UserWatchInv == TypeOK /\ BatchInv /\ WatchInv /\ User => WatchInv'
<1> SUFFICES ASSUME TypeOK, BatchInv, WatchInv, User
             PROVE  WatchInv'
  OBVIOUS
<1> DEFINE R == RepairEvents
<1>1. UNCHANGED <<items, batch, pc>>
  BY DEF User
<1>2. /\ path \in Nat /\ away \in Nat /\ writer \in Nat
      /\ queue \in Events /\ NoFile \notin Inode /\ watched \subseteq Inode
      /\ path \in Inode \cup {NoFile} /\ away \in Inode \cup {NoFile}
  BY InodeType DEF TypeOK, NoFile
<1>3. \A X : Repairs(queue') = Repairs(queue) \cup X => RepairEvents' = R \cup X
  BY <1>1, RepairEventsAre DEF Repairs, RepairEvents, EventSet
<1>4. CASE OpenWrite
  <2>1. Inode' = Inode
    BY <1>4, UpdateFacts DEF OpenWrite, Inode, TypeOK
  <2>2. RepairEvents' = R
    BY <1>1, <1>4 DEF OpenWrite, kernelVars, RepairEvents, EventSet
  <2> QED
    BY <1>1, <1>4, <2>1, <2>2 DEF OpenWrite, kernelVars, WatchInv
<1>5. ASSUME NEW c \in Written, CloseWrite(c)
      PROVE  WatchInv'
  <2>1. Inode' = Inode
    BY <1>5 DEF CloseWrite, Inode, TypeOK
  <2>2. RepairEvents' = R
    <3>1. Repairs(queue') = Repairs(queue) \cup {}
      BY <1>2, <1>5, WrittenFacts DEF CloseWrite
    <3> QED
      BY <1>3, <3>1
  <2> QED
    BY <1>1, <1>5, <2>1, <2>2 DEF CloseWrite, WatchInv
<1>6. ASSUME NEW c \in Written, Install(c)
      PROVE  WatchInv'
  <2>1. Inode' = Inode \cup {path'} /\ path' \notin Inode /\ path' # NoFile
    <3>1. content \in Seq(Content) /\ c \in Content
      BY DEF TypeOK, Content
    <3>2. content' = Append(content, c) /\ path' = Len(content) + 1
      BY <1>6, <3>1 DEF Install
    <3> QED
      BY <3>1, <3>2, AppendFacts DEF Inode, NoFile
  <2>2. RepairEvents' = R \cup RemovedEvents(path)
    BY <1>2, <1>3, <1>6, RemovedFacts DEF Install
  <2>3. /\ watched' = watched \ {path} /\ away' = away /\ spoiled' = spoiled
    BY <1>6 DEF Install
  <2>4. \A e \in RemovedEvents(path) : e.wd = path /\ path \in watched
    BY DEF RemovedEvents
  <2>5. path \in watched => \E e \in RemovedEvents(path) : e.wd = path
    BY DEF RemovedEvents
  <2> HIDE DEF R
  <2>6. \A e \in RepairEvents' : e.wd \in Inode' /\ (~spoiled' => e.wd # path')
    BY <1>2, <2>1, <2>2, <2>3, <2>4 DEF R, WatchInv
  <2>7. ~spoiled' => \A e \in RepairEvents' : e.wd = away' => away' \in watched'
    BY <1>2, <2>1, <2>2, <2>3, <2>4 DEF R, WatchInv
  <2>8. ~spoiled' => \E i \in Inode' : items' = {i} /\ \E e \in RepairEvents' : e.wd = i
    BY <1>1, <2>1, <2>2, <2>3, <2>5 DEF R, WatchInv
  <2> QED
    BY <1>1, <1>2, <2>1, <2>3, <2>6, <2>7, <2>8 DEF WatchInv
<1>7. CASE Delete
  <2>1. Inode' = Inode
    BY <1>7 DEF Delete, Inode
  <2>2. RepairEvents' = R \cup RemovedEvents(path)
    BY <1>2, <1>3, <1>7, RemovedFacts DEF Delete
  <2>3. /\ watched' = watched \ {path} /\ away' = away /\ path' = NoFile
        /\ ~spoiled' => ~spoiled /\ pc # "rewatch"
    BY <1>7 DEF Delete, Vanish
  <2>4. \A e \in RemovedEvents(path) : e.wd = path /\ path \in watched
    BY DEF RemovedEvents
  <2>5. path \in watched => \E e \in RemovedEvents(path) : e.wd = path
    BY DEF RemovedEvents
  <2>6. \A e \in RepairEvents' : e.wd \in Inode'
    BY <1>2, <2>1, <2>2, <2>4 DEF WatchInv
  <2>7. ~spoiled' => \A e \in RepairEvents' : e.wd = away' => away' \in watched'
    BY <1>2, <2>1, <2>2, <2>3, <2>4 DEF WatchInv
  <2>8. ~spoiled' => \E i \in Inode' : items' = {i} /\ \E e \in RepairEvents' : e.wd = i
    BY <1>1, <2>1, <2>2, <2>3, <2>5 DEF WatchInv
  <2> QED
    BY <1>1, <1>2, <2>1, <2>3, <2>6, <2>7, <2>8 DEF WatchInv
<1>8. CASE MoveAway
  <2>1. Inode' = Inode
    BY <1>8 DEF MoveAway, Inode
  <2>2. RepairEvents' = R \cup MovedEvents(path)
    BY <1>2, <1>3, <1>8, MovedFacts DEF MoveAway
  <2>3. /\ watched' = watched /\ away' = path /\ path' = NoFile /\ path # NoFile
        /\ ~spoiled' => ~spoiled /\ pc # "rewatch"
    BY <1>8 DEF MoveAway, Vanish
  <2>4. \A e \in MovedEvents(path) : e.wd = path /\ path \in watched
    BY DEF MovedEvents
  <2>5. path \in watched => \E e \in MovedEvents(path) : e.wd = path
    BY DEF MovedEvents
  <2>6. \A e \in RepairEvents' : e.wd \in Inode'
    BY <1>2, <2>1, <2>2, <2>4 DEF WatchInv
  <2>7. ~spoiled' => \A e \in RepairEvents' : e.wd = away' => away' \in watched'
    BY <1>2, <2>1, <2>2, <2>3, <2>4 DEF WatchInv
  <2>8. ~spoiled' => \E i \in Inode' : items' = {i} /\ \E e \in RepairEvents' : e.wd = i
    BY <1>1, <2>1, <2>2, <2>3, <2>5 DEF WatchInv
  <2> QED
    BY <1>1, <1>2, <2>1, <2>3, <2>6, <2>7, <2>8 DEF WatchInv
<1>9. CASE MoveBack
  <2>1. Inode' = Inode
    BY <1>9 DEF MoveBack, Inode
  <2>2. RepairEvents' = R \cup (MovedEvents(away) \cup RemovedEvents(path))
    <3>1. Notice(queue, away, "move_self") \in Events
      BY <1>2, NoticeFacts DEF Repair
    <3>2. Repairs(queue') = Repairs(queue) \cup (MovedEvents(away) \cup RemovedEvents(path))
      BY <1>2, <1>9, <3>1, MovedFacts, RemovedFacts DEF MoveBack
    <3> QED
      BY <1>3, <3>2
  <2>3. /\ watched' = watched \ {path} /\ away' = NoFile /\ path' = away /\ away # NoFile
        /\ ~spoiled' => ~spoiled /\ away \notin watched
    BY <1>9 DEF MoveBack
  <2>4. /\ \A e \in MovedEvents(away) : e.wd = away /\ away \in watched
        /\ \A e \in RemovedEvents(path) : e.wd = path /\ path \in watched
    BY DEF MovedEvents, RemovedEvents
  <2>5. path \in watched => \E e \in RemovedEvents(path) : e.wd = path
    BY DEF RemovedEvents
  <2>6. \A e \in RepairEvents' : e.wd \in Inode'
    BY <1>2, <2>1, <2>2, <2>4 DEF WatchInv
  <2>7. ~spoiled' => \A e \in RepairEvents' : e.wd # path'
    BY <1>2, <2>2, <2>3, <2>4 DEF WatchInv
  <2>8. ~spoiled' => \E i \in Inode' : items' = {i} /\ \E e \in RepairEvents' : e.wd = i
    BY <1>1, <2>1, <2>2, <2>3, <2>5 DEF WatchInv
  <2> QED
    BY <1>1, <1>2, <2>1, <2>3, <2>6, <2>7, <2>8 DEF WatchInv
<1> QED
  BY <1>4, <1>5, <1>6, <1>7, <1>8, <1>9 DEF User

\* The program's steps.
LEMMA WatchingWatchInv == TypeOK /\ BatchInv /\ WatchInv /\ WaitAndHandle => WatchInv'
<1> SUFFICES ASSUME TypeOK, BatchInv, WatchInv, WaitAndHandle
             PROVE  WatchInv'
  OBVIOUS
<1> USE DEF userVars, kernelVars, watchVars
<1>1. /\ queue \in Events /\ batch \in Events /\ NoFile \notin Inode /\ Failed \notin Inode
      /\ watched \subseteq Inode /\ path \in Inode \cup {NoFile}
  BY InodeType DEF TypeOK
<1>2. ASSUME UNCHANGED <<path, away, content, watched, items, spoiled>>,
             RepairEvents' = RepairEvents, pc' = "rewatch" => path # NoFile \/ spoiled
      PROVE  WatchInv'
  BY <1>2 DEF WatchInv, Inode
<1>3. CASE ReadEvents
  <2>1. batch = <<>> /\ EventSet(<<>>) = {}
    BY <1>3 DEF ReadEvents, BatchInv, EventSet
  <2>2. RepairEvents' = RepairEvents
    BY <1>3, <2>1 DEF ReadEvents, RepairEvents, EventSet
  <2> QED
    BY <1>2, <1>3, <2>2 DEF ReadEvents
<1>4. CASE Handle
  <2>1. batch # <<>> /\ UNCHANGED <<path, away, content, watched, items, spoiled, queue>>
    BY <1>4 DEF Handle
  <2>2. CASE Head(batch).wd \in items /\ Head(batch).mask \in Repair
    <3>1. batch' = batch /\ pc' = (IF path = NoFile THEN "missing" ELSE "rewatch")
      BY <1>4, <2>2 DEF Handle
    <3>2. RepairEvents' = RepairEvents
      BY <2>1, <3>1 DEF RepairEvents, EventSet
    <3> QED
      BY <1>2, <2>1, <3>1, <3>2
  <2>3. CASE ~(Head(batch).wd \in items /\ Head(batch).mask \in Repair)
    <3>1. batch' = Tail(batch) /\ pc' = pc /\ pc = "handle"
      BY <1>4, <2>3 DEF Handle
    <3>2. EventSet(batch) = {Head(batch)} \cup EventSet(batch)' /\ EventSet(queue)' = EventSet(queue)
      BY <1>1, <2>1, <3>1, TailFacts DEF EventSet
    <3>3. RepairEvents' \subseteq RepairEvents
      BY <3>2 DEF RepairEvents
    <3>4. \A e \in RepairEvents : e.wd \in items => e \in RepairEvents'
      BY <2>3, <3>2 DEF RepairEvents
    <3> QED
      BY <2>1, <3>1, <3>3, <3>4 DEF WatchInv, Inode
  <2> QED
    BY <2>2, <2>3
<1>5. CASE LookAgain
  <2>1. RepairEvents' = RepairEvents
    BY <1>5 DEF LookAgain, RepairEvents, EventSet
  <2> QED
    BY <1>2, <1>5, <2>1 DEF LookAgain
<1>6. CASE Recreate
  <2>1. RepairEvents' = RepairEvents /\ UNCHANGED <<away, watched, items, spoiled>>
    BY <1>6 DEF Recreate, RepairEvents, EventSet
  <2>2. CASE path = NoFile
    <3>1. Inode' = Inode \cup {path'} /\ path' \notin Inode /\ path' # NoFile
      <4>1. content \in Seq(Content) /\ Empty \in Content
        BY DEF TypeOK, Content
      <4>2. content' = Append(content, Empty) /\ path' = Len(content) + 1
        BY <1>6, <2>2, <4>1 DEF Recreate
      <4> QED
        BY <4>1, <4>2, AppendFacts DEF Inode, NoFile
    <3>2. ~spoiled => \E i \in Inode : items = {i} /\ \E e \in RepairEvents : e.wd = i
      BY <1>1, <2>2 DEF WatchInv
    <3>3. away \in Inode \cup {NoFile}
      BY DEF TypeOK
    <3> QED
      BY <2>1, <3>1, <3>2, <3>3 DEF WatchInv
  <2>3. CASE path # NoFile
    <3>1. Inode' = Inode /\ path' = path
      BY <1>1, <1>6, <2>3, UpdateFacts DEF Recreate, Inode
    <3> QED
      BY <2>1, <2>3, <3>1 DEF WatchInv
  <2> QED
    BY <2>2, <2>3
<1>7. CASE AddWatch
  <2>1. batch # <<>> /\ Head(batch).wd \in items /\ Head(batch).mask \in Repair
    BY <1>7 DEF AddWatch, BatchInv, Looking
  <2>2. /\ UNCHANGED <<path, away, content, spoiled, queue>> /\ pc = "rewatch" /\ pc' = "handle"
        /\ batch' = Tail(batch)
    BY <1>7 DEF AddWatch
  <2>3. EventSet(batch) = {Head(batch)} \cup EventSet(batch)' /\ EventSet(queue)' = EventSet(queue)
    BY <1>1, <2>1, <2>2, TailFacts DEF EventSet
  <2>4. RepairEvents' \subseteq RepairEvents /\ Head(batch) \in RepairEvents
    BY <2>1, <2>3 DEF RepairEvents
  <2>5. Inode' = Inode /\ watched \subseteq watched'
    BY <1>7, <2>2 DEF AddWatch, Inode
  <2>6. ~spoiled => path \in Inode /\ items' = {path} /\ path \in watched'
    <3> SUFFICES ASSUME ~spoiled
                 PROVE  path \in Inode /\ items' = {path} /\ path \in watched'
      OBVIOUS
    <3>1. path \in Inode /\ path # NoFile /\ path # Failed
      BY <1>1, <2>2 DEF WatchInv
    <3>2. items = {Head(batch).wd} /\ Head(batch).wd # path
      BY <2>1, <2>4 DEF WatchInv
    <3> QED
      BY <1>7, <3>1, <3>2 DEF AddWatch
  <2> QED
    BY <2>2, <2>4, <2>5, <2>6 DEF WatchInv
<1>8. CASE Return
  <2>1. RepairEvents' = RepairEvents
    BY <1>8 DEF Return, RepairEvents, EventSet
  <2> QED
    BY <1>2, <1>8, <2>1 DEF Return
<1> QED
  BY <1>3, <1>4, <1>5, <1>6, <1>7, <1>8 DEF WaitAndHandle

LEMMA NextWatchInv == TypeOK /\ BatchInv /\ WatchInv /\ [Next]_vars => WatchInv'
<1> SUFFICES ASSUME TypeOK, BatchInv, WatchInv, [Next]_vars
             PROVE  WatchInv'
  OBVIOUS
<1>1. ASSUME UNCHANGED inotifyVars, pc' = "rewatch" => pc = "rewatch"
      PROVE  WatchInv'
  BY <1>1 DEF WatchInv, RepairEvents, EventSet, Inode, inotifyVars, userVars, kernelVars, watchVars
<1>2. CASE UNCHANGED <<inotifyVars, pc>>
  BY <1>1, <1>2
<1>3. CASE KillOldApp \/ DrainOver \/ Fork \/ StoreNewPid \/ SettleOver
  BY <1>1, <1>3 DEF KillOldApp, DrainOver, Fork, StoreNewPid, SettleOver
<1>4. CASE User \/ WaitAndHandle
  BY <1>4, UserWatchInv, WatchingWatchInv
<1> QED
  BY <1>2, <1>3, <1>4 DEF Next, vars, DaemonStep, Watching, DaemonSigHandler, Wait, AppStep, Load,
     AppSigHandler, Crash

-----------------------------------------------------------------------------
(* What is loaded. *)

Handling == pc \in {"handle", "missing", "create", "rewatch", "return"}

\* With no event left the file is watched, under the one descriptor.
LEMMA QuietIsWatched ==
    TypeOK /\ BatchInv /\ WatchInv /\ ~spoiled /\ queue = <<>> /\ ~Handling =>
        path \in Inode /\ path # NoFile /\ path \in watched /\ items = {path}
<1> SUFFICES ASSUME TypeOK, BatchInv, WatchInv, ~spoiled, queue = <<>>, ~Handling
             PROVE  path \in Inode /\ path # NoFile /\ path \in watched /\ items = {path}
  OBVIOUS
<1>1. batch = <<>>
  BY DEF BatchInv, Handling
<1>2. RepairEvents = {}
  BY <1>1 DEF RepairEvents, EventSet
<1> QED
  BY <1>2, InodeType DEF WatchInv, TypeOK

\* A step of the user that leaves nothing to be handled leaves the file alone.
LEMMA UserIsNoticed ==
    ASSUME TypeOK, BatchInv, WatchInv, User, TypeOK', BatchInv', WatchInv', ~spoiled', ~Dirty'
    PROVE  ~spoiled /\ ~Dirty /\ path' = path /\ content'[path] = content[path]
<1>1. UNCHANGED <<items, batch, pc>> /\ ~Handling /\ ~Handling' /\ queue' = <<>>
  BY DEF User, Dirty, Handling
<1>2. ~spoiled
  BY DEF User, OpenWrite, CloseWrite, Install, Delete, MoveAway, MoveBack, Vanish
<1>3. queue \in Events /\ path \in Nat /\ away \in Nat /\ writer \in Nat
  BY InodeType DEF TypeOK, NoFile
<1>4. queue = <<>>
  <2>1. Notice(queue, away, "move_self") \in Events
    BY <1>3, NoticeFacts DEF Repair
  <2>2. queue # <<>> => Notice(queue, away, "move_self") # <<>>
    BY <1>3, NoticeFacts DEF Repair
  <2>3. MoveBack /\ queue # <<>> => queue' # <<>>
    BY <1>3, <2>1, <2>2, GoneFacts DEF MoveBack
  <2>4. MoveAway /\ queue # <<>> => queue' # <<>>
    BY <1>3, NoticeFacts DEF MoveAway, Repair
  <2>5. \A c \in Written : CloseWrite(c) /\ queue # <<>> => queue' # <<>>
    BY <1>3, NoticeFacts DEF CloseWrite
  <2>6. (Delete \/ \E c \in Written : Install(c)) /\ queue # <<>> => queue' # <<>>
    BY <1>3, GoneFacts DEF Delete, Install
  <2>7. OpenWrite => queue' = queue
    BY DEF OpenWrite, kernelVars
  <2> QED
    BY <1>1, <2>3, <2>4, <2>5, <2>6, <2>7 DEF User
<1>5. path \in Inode /\ path \in watched /\ items = {path} /\ path # NoFile
  BY <1>1, <1>2, <1>4, QuietIsWatched
<1>6. path' # NoFile /\ path' = path
  <2>1. path' # NoFile /\ items' = {path'}
    <3>1. (TypeOK /\ BatchInv /\ WatchInv /\ ~spoiled /\ queue = <<>> /\ ~Handling =>
              path \in Inode /\ path # NoFile /\ path \in watched /\ items = {path})'
      BY QuietIsWatched, PTL
    <3> QED
      BY <1>1, <3>1
  <2> QED
    BY <1>1, <1>5, <2>1
<1>7. CASE OpenWrite
  BY <1>1, <1>5, <1>6, <1>7 DEF OpenWrite, Dirty
<1>8. ASSUME NEW c \in Written, CloseWrite(c)
      PROVE  ~Dirty /\ content'[path] = content[path]
  <2>1. writer # path
    BY <1>1, <1>3, <1>5, <1>8, NoticeFacts DEF CloseWrite
  <2>2. content'[path] = content[path]
    BY <1>5, <1>8, <2>1 DEF CloseWrite, TypeOK, Inode
  <2> QED
    BY <1>1, <1>4, <2>1, <2>2 DEF Dirty, Handling
<1>9. ASSUME NEW c \in Written, Install(c)
      PROVE  FALSE
  <2>1. content \in Seq(Content) /\ c \in Content
    BY DEF TypeOK, Content
  <2> QED
    BY <1>5, <1>6, <1>9, <2>1, AppendFacts DEF Install, Inode
<1>10. CASE Delete \/ MoveAway
  BY <1>6, <1>10 DEF Delete, MoveAway
<1>11. CASE MoveBack
  BY <1>6, <1>11 DEF MoveBack, WatchInv
<1> QED
  BY <1>1, <1>2, <1>6, <1>7, <1>8, <1>9, <1>10, <1>11 DEF User

LEMMA NextLoadInv ==
    /\ TypeOK /\ ProcInv /\ BatchInv /\ WatchInv /\ LoadInv
    /\ TypeOK' /\ ProcInv' /\ BatchInv' /\ WatchInv'
    /\ [Next]_vars
    => LoadInv'
<1> SUFFICES ASSUME TypeOK, ProcInv, BatchInv, WatchInv, LoadInv,
                    TypeOK', ProcInv', BatchInv', WatchInv', [Next]_vars, ~spoiled', ~Dirty'
             PROVE  /\ \A p \in Live' \ (term' \cup Forgotten') :
                          proc'[p] = "working" => loaded'[p] = content'[path']
                    /\ /\ pc' \in {"store", "settle", "read"} /\ ~crashed'
                       /\ Accepted(LoadConfig(content'[path']))
                       => child' \in Live' \ term'
  BY DEF LoadInv, Accepted, FindInvalidRule, InvalidRule
<1> DEFINE Goal == /\ \A p \in Live' \ (term' \cup Forgotten') :
                         proc'[p] = "working" => loaded'[p] = content'[path']
                   /\ /\ pc' \in {"store", "settle", "read"} /\ ~crashed'
                      /\ Accepted(LoadConfig(content'[path']))
                      => child' \in Live' \ term'
<1> USE DEF procVars, pidVars
<1>1. ASSUME UNCHANGED <<inotifyVars, pc>>
      PROVE  ~spoiled /\ ~Dirty /\ path' = path /\ content' = content /\ pc' = pc
             /\ path \in Inode /\ path # NoFile
  <2>1. ~spoiled /\ queue = <<>> /\ ~Handling /\ ~Dirty
    BY <1>1 DEF inotifyVars, userVars, kernelVars, Dirty, Handling
  <2> QED
    BY <1>1, <2>1, QuietIsWatched DEF inotifyVars, userVars
<1>2. ASSUME ~spoiled, ~Dirty, path' = path, content'[path] = content[path],
             pc' \in {"store", "settle", "read"} => pc \in {"store", "settle", "read"},
             UNCHANGED <<proc, loaded, term, mistaken, crashed, child>>
      PROVE  Goal
  <2>1. Live' = Live /\ Forgotten \subseteq Forgotten'
    BY <1>2 DEF Live, Forgotten
  <2> QED
    BY <1>2, <2>1 DEF LoadInv
<1>3. CASE User /\ UNCHANGED <<procVars, pidVars, handling>>
  <2>1. pc' = pc
    BY <1>3 DEF User
  <2> QED
    BY <1>2, <1>3, <2>1, UserIsNoticed
<1>4. CASE Watching
  BY <1>4 DEF Watching, WaitAndHandle, ReadEvents, Handle, LookAgain, Recreate, AddWatch, Return, Dirty
<1>5. ASSUME NEW p \in Live, Die(p), UNCHANGED <<inotifyVars, pc, pidVars>>,
             child = p /\ child \notin term /\ ~crashed' => ~Accepted(LoadConfig(content[path])),
             crashed => crashed'
      PROVE  Goal
  <2>1. ~spoiled /\ ~Dirty /\ path' = path /\ content' = content /\ pc' = pc
    BY <1>1, <1>5
  <2>2. /\ Live' = Live \ {p} /\ term' = term \ {p} /\ child' = child
        /\ mistaken' = mistaken \ {p}
        /\ \A q \in Live \ {p} : proc'[q] = proc[q] /\ loaded'[q] = loaded[q]
    BY <1>5, DieFacts DEF Live
  <2>3. Forgotten' = Forgotten \ {p}
    BY <2>1, <2>2 DEF Forgotten
  <2> QED
    BY <1>5, <2>1, <2>2, <2>3 DEF LoadInv
<1>6. ASSUME NEW p \in Pid, Load(p)
      PROVE  Goal
  <2>1. /\ ~spoiled /\ ~Dirty /\ path' = path /\ content' = content /\ pc' = pc
        /\ path # NoFile /\ p \in Live /\ p # NoPid
    BY <1>1, <1>6, PidAssumption DEF Load, Live, NoPid
  <2>2. CASE Accepted(LoadConfig(content[path]))
    <3>1. /\ proc' = [proc EXCEPT ![p] = "working"] /\ term' = term /\ child' = child
          /\ loaded' = [loaded EXCEPT ![p] = content[path]] /\ crashed' = crashed
      BY <1>6, <2>1, <2>2 DEF Load
    <3>2. Live' = Live /\ Forgotten' = Forgotten
      BY <1>6, <2>1, <2>2, <3>1 DEF Load, Live, Forgotten, TypeOK
    <3> QED
      BY <2>1, <3>1, <3>2 DEF LoadInv, TypeOK, Live
  <2>3. CASE ~Accepted(LoadConfig(content[path]))
    BY <1>5, <1>6, <2>1, <2>3 DEF Load
  <2> QED
    BY <2>2, <2>3
<1>7. ASSUME NEW p \in Pid, AppSigHandler(p)
      PROVE  Goal
  BY <1>5, <1>7 DEF AppSigHandler, ProcInv
<1>8. ASSUME NEW p \in Pid, Crash(p)
      PROVE  Goal
  BY <1>5, <1>8 DEF Crash, Live
<1>9. CASE DaemonSigHandler
  BY <1>1, <1>2, <1>9 DEF DaemonSigHandler
<1>10. CASE Wait
  <2>1. /\ ~spoiled /\ ~Dirty /\ path' = path /\ content' = content /\ pc' = pc
        /\ UNCHANGED <<loaded, term, mistaken, crashed, child>>
    BY <1>1, <1>10 DEF Wait
  <2>2. Live' = Live /\ \A p \in Live : proc'[p] = proc[p]
    BY <1>10 DEF Wait, Live, Zombies, TypeOK
  <2>3. Forgotten' = Forgotten
    BY <2>1 DEF Forgotten
  <2> QED
    BY <2>1, <2>2, <2>3 DEF LoadInv
<1>11. CASE KillOldApp
  <2>1. pc' = "drain"
    BY <1>11 DEF KillOldApp
  <2>2. Live' \subseteq term' \cup Forgotten'
    BY <2>1 DEF ProcInv, Current, Forgotten
  <2> QED
    BY <2>1, <2>2
<1>12. CASE DrainOver \/ StoreNewPid \/ SettleOver
  <2>1. /\ pc \in {"drain", "store", "settle"} /\ UNCHANGED inotifyVars
        /\ pc' \in {"store", "settle", "read"} => pc \in {"store", "settle", "read"}
        /\ UNCHANGED <<proc, loaded, term, mistaken, crashed, child>>
    BY <1>12 DEF DrainOver, StoreNewPid, SettleOver
  <2>2. ~spoiled /\ ~Dirty /\ path' = path /\ content' = content
    BY <2>1 DEF Dirty, inotifyVars, userVars, kernelVars
  <2> QED
    BY <1>2, <2>1, <2>2
<1>13. CASE Fork
  <2>1. PICK p \in Pid : /\ proc[p] = "free" /\ proc' = [proc EXCEPT ![p] = "loading"]
                         /\ child' = p /\ mistaken \subseteq mistaken'
    BY <1>13 DEF Fork
  <2>2. /\ Live' = Live \cup {p} /\ p \notin term /\ term' = term /\ p \notin mistaken
        /\ Live \subseteq term \cup mistaken
    BY <1>13, <2>1 DEF Fork, Live, TypeOK, ProcInv, Current
  <2>3. mistaken \subseteq Forgotten'
    BY <2>1, <2>2 DEF Forgotten
  <2>4. proc'[p] # "working"
    BY <2>1 DEF TypeOK
  <2> QED
    BY <2>1, <2>2, <2>3, <2>4
<1>14. CASE UNCHANGED vars
  BY <1>1, <1>2, <1>14 DEF vars
<1> QED
  BY <1>3, <1>4, <1>6, <1>7, <1>8, <1>9, <1>10, <1>11, <1>12, <1>13, <1>14
     DEF Next, DaemonStep, AppStep

-----------------------------------------------------------------------------
LEMMA InitIInv == Init => IInv
<1> SUFFICES ASSUME Init
             PROVE  IInv
  OBVIOUS
<1>1. TypeOK
  BY InitTypes
<1>2. Live = {} /\ EventSet(<<>>) = {}
  BY DEF Init, Live, EventSet
<1>3. ProcInv /\ SignalInv /\ BatchInv /\ LoadInv
  BY <1>2, PidAssumption DEF Init, ProcInv, SignalInv, BatchInv, Looking, LoadInv, NoPid
<1>4. WatchInv
  BY <1>2 DEF Init, WatchInv, RepairEvents, Inode, NoFile
<1> QED
  BY <1>1, <1>3, <1>4 DEF IInv

\* The strengthened invariant holds in every reachable state of the daemon.
THEOREM Invariance == Spec => []IInv
<1>1. IInv /\ [Next]_vars => IInv'
  BY NextTypes, NextProcInv, NextSignalInv, NextBatchInv, NextWatchInv, NextLoadInv DEF IInv
<1> QED
  BY InitIInv, <1>1, PTL DEF Spec

\* The variables have their types.
THEOREM TypeCorrect == Spec => []TypeOK
  BY Invariance, PTL DEF IInv

\* While the daemon waits for a change, no process is left that it would not
\* end when the next change comes, but those that fork() gave the number in
\* dead_pid while old_pid named another.
THEOREM NoProcessIsForgotten == Spec => []NoForgottenProcess
<1>1. IInv => NoForgottenProcess
  BY DEF IInv, ProcInv, Current, NoForgottenProcess
<1> QED
  BY Invariance, <1>1, PTL

\* wait() in the handler finds a dead child.
THEOREM HandlerFindsDeadChild == Spec => []HandlerNeverBlocks
<1>1. IInv => HandlerNeverBlocks
  BY DEF IInv, SignalInv, HandlerNeverBlocks
<1> QED
  BY Invariance, <1>1, PTL

\* At rest the file is watched, unless a watched file was moved back, or the
\* file vanished between look and watch: then the code may lose it (spoiled).
THEOREM FileStaysWatched == Spec => []FileIsWatched
<1>1. IInv => FileIsWatched
  BY QuietIsWatched DEF IInv, FileIsWatched, Handling
<1> QED
  BY Invariance, <1>1, PTL

\* At rest the newest configuration is the one that is loaded, but in forgotten
\* processes, and by at least one process that works; with the same exception
\* of spoiled edits.
THEOREM NewestStaysLoaded == Spec => []NewestIsLoaded
<1>1. IInv => NewestIsLoaded
  <2> SUFFICES ASSUME IInv, Rest, ~spoiled
               PROVE  /\ path # NoFile
                      /\ \A p \in Live \ (mistaken \ {child}) : loaded[p] = content[path]
                      /\ Accepted(LoadConfig(content[path])) /\ ~crashed =>
                            \E p \in Live : loaded[p] = content[path]
    BY DEF NewestIsLoaded
  <2>1. path # NoFile /\ ~Dirty
    BY QuietIsWatched DEF IInv, Rest, Handling, Dirty
  <2>2. \A p \in Live : p \notin term /\ proc[p] = "working"
    BY DEF Rest, Live
  <2>3. Forgotten = mistaken \ {child} /\ LoadInv /\ ProcInv
    BY DEF Forgotten, Rest, IInv
  <2>4. \A p \in Live \ Forgotten : loaded[p] = content[path]
    BY <2>1, <2>2, <2>3 DEF LoadInv
  <2>5. Accepted(LoadConfig(content[path])) /\ ~crashed => child \in Live
    BY <2>1, <2>3 DEF LoadInv, Rest
  <2> QED
    BY <2>1, <2>3, <2>4, <2>5
<1> QED
  BY Invariance, <1>1, PTL

-----------------------------------------------------------------------------
(* What a process works by. *)

\* A process works only after it has accepted the lines that it read.
WorkInv == \A p \in Pid : proc[p] = "working" => loaded[p] \in Acceptable

LEMMA ContentIsLines == Content \subseteq Seq(Line)
  BY ContentAssumption DEF Content

LEMMA DieWorkInv == ASSUME WorkInv, TypeOK, NEW p \in Pid, Die(p)
                    PROVE  WorkInv'
  BY DEF WorkInv, TypeOK, Die

LEMMA NextWorkInv == TypeOK /\ WorkInv /\ [Next]_vars => WorkInv'
<1> SUFFICES ASSUME TypeOK, WorkInv, [Next]_vars
             PROVE  WorkInv'
  OBVIOUS
<1>1. ASSUME UNCHANGED <<proc, loaded>>
      PROVE  WorkInv'
  BY <1>1 DEF WorkInv
<1>2. ASSUME NEW p \in Pid, Load(p)
      PROVE  WorkInv'
  <2>1. CASE path # NoFile /\ Accepted(LoadConfig(content[path]))
    <3>1. content[path] \in Content
      BY <2>1 DEF TypeOK, Inode
    <3>2. content[path] \in Acceptable
      BY <2>1, <3>1 DEF Acceptable
    <3>3. /\ proc' = [proc EXCEPT ![p] = "working"]
          /\ loaded' = [loaded EXCEPT ![p] = content[path]]
      BY <1>2, <2>1 DEF Load
    <3> QED
      BY <3>2, <3>3 DEF WorkInv, TypeOK
  <2>2. CASE ~(path # NoFile /\ Accepted(LoadConfig(content[path])))
    <3>1. Die(p)
      BY <1>2, <2>2 DEF Load
    <3> QED
      BY <3>1, DieWorkInv
  <2> QED
    BY <2>1, <2>2
<1>3. ASSUME NEW p \in Pid, AppSigHandler(p) \/ Crash(p)
      PROVE  WorkInv'
  BY <1>3, DieWorkInv DEF AppSigHandler, Crash
<1>4. CASE Wait \/ Fork
  BY <1>4 DEF Wait, Fork, WorkInv, TypeOK
<1>5. CASE KillOldApp \/ DrainOver \/ StoreNewPid \/ SettleOver \/ DaemonSigHandler \/ Watching
  BY <1>1, <1>5 DEF KillOldApp, DrainOver, StoreNewPid, SettleOver, DaemonSigHandler, Watching, procVars
<1>6. CASE User /\ UNCHANGED <<procVars, pidVars, handling>>
  BY <1>1, <1>6 DEF procVars
<1>7. CASE UNCHANGED vars
  BY <1>1, <1>7 DEF vars, procVars
<1> QED
  BY <1>2, <1>3, <1>4, <1>5, <1>6, <1>7 DEF Next, DaemonStep, AppStep

\* No process works with lines that its own LoadConfig would refuse.
THEOREM WorkInvariance == Spec => []WorkInv
<1>1. Init => WorkInv
  BY DEF Init, WorkInv
<1> QED
  BY TypeCorrect, NextWorkInv, <1>1, PTL DEF Spec

\* Whatever the user writes, a process that works does so by the rules and the
\* tunables that the lines it has read state, and by no rule that does not fit
\* its method; but one that mixes an index and a rate it may follow (Mixed).
THEOREM ProcessWorksAsWritten == Spec => []WorksAsWritten
<1>1. WorkInv => WorksAsWritten
  <2>1. \A lines \in Acceptable : AsWritten(LoadConfig(lines), lines)
    BY AcceptedIsAsWritten, ContentIsLines DEF Acceptable
  <2> QED
    BY <2>1 DEF WorkInv, WorksAsWritten
<1> QED
  BY WorkInvariance, <1>1, PTL

-----------------------------------------------------------------------------
(* One process at a time. *)

WorksBy == {loaded[p] : p \in {q \in InCharge : proc[q] = "working"}}

\* A step in which a process ends that does not count any more, or the one in
\* charge.
LEMMA DieIsEnd ==
    ASSUME TypeOK, ProcInv, NEW p \in Live, Die(p)
    PROVE  \/ UNCHANGED <<InCharge, WorksBy>>
           \/ InCharge # {} /\ InCharge' = {} /\ WorksBy' = {}
<1>1. /\ Live' = Live \ {p} /\ term' = term \ {p} /\ mistaken' = mistaken \ {p}
      /\ \A q \in Live \ {p} : proc'[q] = proc[q] /\ loaded'[q] = loaded[q]
  BY DieFacts DEF Live
<1>2. CASE p \in term \cup mistaken
  <2>1. InCharge' = InCharge /\ p \notin InCharge /\ InCharge \subseteq Live \ {p}
    BY <1>1, <1>2 DEF InCharge
  <2> QED
    BY <1>1, <2>1 DEF WorksBy
<1>3. CASE p \notin term \cup mistaken
  <2>1. InCharge = {p}
    BY <1>3 DEF InCharge, ProcInv, Current
  <2>2. InCharge' = {}
    BY <1>1, <2>1 DEF InCharge
  <2> QED
    BY <2>1, <2>2 DEF WorksBy
<1> QED
  BY <1>2, <1>3

\* The daemon's loop, with its child and its signals, implements OneApp.
THEOREM Refinement == Spec => ImplementsOneApp
<1>1. Init => Apps!Init
  BY DEF Init, Apps!Init, InCharge, Live
<1>2. TypeOK /\ ProcInv /\ WorkInv /\ [Next]_vars => [Apps!Next]_(Apps!appVars)
  <2> SUFFICES ASSUME TypeOK, ProcInv, WorkInv, [Next]_vars
               PROVE  [Apps!Next]_(Apps!appVars)
    OBVIOUS
  <2> DEFINE Goal == [Apps!Next]_(Apps!appVars)
  <2>1. ASSUME UNCHANGED <<InCharge, WorksBy>>
        PROVE  Goal
    BY <2>1 DEF Apps!appVars, WorksBy
  <2>2. ASSUME InCharge # {}, InCharge' = {}, WorksBy' = {}
        PROVE  Goal
    BY <2>2 DEF Apps!Next, Apps!End, WorksBy
  <2>3. ASSUME UNCHANGED <<proc, loaded, term, mistaken>>
        PROVE  Goal
    BY <2>1, <2>3 DEF InCharge, Live, WorksBy
  <2>4. ASSUME NEW p \in Pid, Load(p)
        PROVE  Goal
    <3>1. p \in Live
      BY <2>4 DEF Load, Live
    <3>2. CASE path # NoFile /\ Accepted(LoadConfig(content[path]))
      <4>1. content[path] \in Acceptable
        BY <3>2 DEF TypeOK, Inode, Acceptable
      <4>2. /\ proc[p] = "loading" /\ proc' = [proc EXCEPT ![p] = "working"]
            /\ loaded' = [loaded EXCEPT ![p] = content[path]]
            /\ term' = term /\ mistaken' = mistaken
        BY <2>4, <3>2 DEF Load
      <4>3. Live' = Live /\ InCharge' = InCharge
        BY <4>2 DEF Live, TypeOK, InCharge
      <4>4. CASE p \in term \cup mistaken
        <5>1. \A q \in InCharge : proc'[q] = proc[q] /\ loaded'[q] = loaded[q]
          BY <4>2, <4>4 DEF InCharge
        <5>2. WorksBy' = WorksBy
          BY <4>3, <5>1 DEF WorksBy
        <5> QED
          BY <2>1, <4>3, <5>2
      <4>5. CASE p \notin term \cup mistaken
        <5>1. InCharge = {p}
          BY <3>1, <4>5 DEF InCharge, ProcInv, Current
        <5>2. WorksBy = {} /\ WorksBy' = {content[path]}
          BY <4>2, <4>3, <5>1 DEF WorksBy, TypeOK
        <5> QED
          BY <4>1, <4>3, <5>1, <5>2 DEF Apps!Next, Apps!Begin, WorksBy
      <4> QED
        BY <4>4, <4>5
    <3>3. CASE ~(path # NoFile /\ Accepted(LoadConfig(content[path])))
      <4>1. Die(p)
        BY <2>4, <3>3 DEF Load
      <4> QED
        BY <2>1, <2>2, <3>1, <4>1, DieIsEnd
    <3> QED
      BY <3>2, <3>3
  <2>5. ASSUME NEW p \in Pid, AppSigHandler(p) \/ Crash(p)
        PROVE  Goal
    <3>1. p \in Live /\ Die(p)
      BY <2>5 DEF AppSigHandler, Crash, ProcInv, Live
    <3> QED
      BY <2>1, <2>2, <3>1, DieIsEnd
  <2>6. CASE Wait
    <3>1. /\ UNCHANGED <<loaded, term, mistaken>> /\ Live' = Live
          /\ \A p \in Live : proc'[p] = proc[p]
      BY <2>6 DEF Wait, Live, Zombies, TypeOK
    <3>2. InCharge' = InCharge /\ InCharge \subseteq Live
      BY <3>1 DEF InCharge
    <3>3. WorksBy' = WorksBy
      BY <3>1, <3>2 DEF WorksBy
    <3> QED
      BY <2>1, <3>2, <3>3
  <2>7. CASE KillOldApp
    <3>1. /\ Live \subseteq term \cup mistaken \cup {old_pid} /\ Live' = Live
          /\ term' = term \cup ({old_pid} \cap Live) /\ mistaken' = mistaken
      BY <2>7 DEF KillOldApp, ProcInv, Current, Live
    <3>2. InCharge' = {} /\ WorksBy' = {}
      BY <3>1 DEF InCharge, WorksBy
    <3>3. CASE InCharge = {}
      BY <2>1, <3>2, <3>3 DEF WorksBy
    <3> QED
      BY <2>2, <3>2, <3>3
  <2>8. CASE Fork
    <3>1. PICK p \in Pid : /\ proc[p] = "free" /\ proc' = [proc EXCEPT ![p] = "loading"]
                           /\ mistaken' = mistaken \cup (({p} \cap {dead_pid}) \ {old_pid})
      BY <2>8 DEF Fork
    <3>2. /\ UNCHANGED <<loaded, term>> /\ Live \subseteq term \cup mistaken /\ p \notin term
          /\ p \notin mistaken /\ Live' = Live \cup {p} /\ proc'[p] = "loading"
      BY <2>8, <3>1 DEF Fork, ProcInv, Current, Live, TypeOK
    <3>3. InCharge = {} /\ WorksBy = {}
      BY <3>2 DEF InCharge, WorksBy
    <3>4. CASE p \in mistaken'
      <4>1. InCharge' = {}
        BY <3>1, <3>2, <3>4 DEF InCharge
      <4> QED
        BY <2>1, <3>3, <4>1 DEF WorksBy
    <3>5. CASE p \notin mistaken'
      <4>1. InCharge' = {p}
        BY <3>1, <3>2, <3>5 DEF InCharge
      <4>2. WorksBy' = {}
        BY <3>2, <4>1 DEF WorksBy
      <4> QED
        BY <3>3, <4>1, <4>2 DEF Apps!Next, Apps!Start, WorksBy
    <3> QED
      BY <3>4, <3>5
  <2>9. CASE DrainOver \/ StoreNewPid \/ SettleOver \/ DaemonSigHandler \/ Watching
    BY <2>3, <2>9 DEF DrainOver, StoreNewPid, SettleOver, DaemonSigHandler, Watching, procVars
  <2>10. CASE User /\ UNCHANGED <<procVars, pidVars, handling>>
    BY <2>3, <2>10 DEF procVars
  <2>11. CASE UNCHANGED vars
    BY <2>3, <2>11 DEF vars, procVars
  <2> QED
    BY <2>4, <2>5, <2>6, <2>7, <2>8, <2>9, <2>10, <2>11 DEF Next, DaemonStep, AppStep
<1>3. IInv => TypeOK /\ ProcInv
  BY DEF IInv
<1> QED
  BY <1>1, <1>2, <1>3, Invariance, WorkInvariance, PTL DEF ImplementsOneApp, Spec, Apps!Spec
==============================================================================
