---------------------- MODULE InputListenerAtRest_proofs ----------------------
(***************************************************************************)
(* InputListener at rest, for any devices, descriptors and thresholds: the *)
(* readers are those of the devices, no touch is left over, and the poll   *)
(* set has not grown beyond the devices.                                   *)
(***************************************************************************)
EXTENDS InputListener_proofs, FiniteSetTheorems, WellFoundedInduction

-----------------------------------------------------------------------------
(* What is known of a node: notices and pending lists together. *)

Noticed(p) == \E what \in {"create", "delete"} : <<what, p>> \in Range(notices)
Created(p) == p \in Range(addPending) \/ <<"create", p>> \in Range(notices)
Deleted(p) == p \in Range(removePending) \/ <<"delete", p>> \in Range(notices)

\* The order of the start: nothing is noticed before the watch, nothing changes
\* during the scan, and only a flush has anything to do.
Phases == /\ pc \in {"scan", "built"} <=> ~watching
          /\ ~watching => notices = <<>> /\ addPending = <<>> /\ removePending = <<>>
          /\ pc = "scan" => unnoticed = {}
          /\ pc # "flush" => todo = <<>>

OneReaderEach ==
    \A fd1, fd2 \in ReaderFd :
        readers[fd1].path = readers[fd2].path /\ readers[fd1].path # NoPath => fd1 = fd2

LiveIsPresent == \A fd \in ReaderFd : readers[fd].live => readers[fd].path \in present

\* A device that vanished and is there has come back.
ComeBack == \A p \in present : Deleted(p) => Created(p)

\* It is known of a reader that its device vanished.
Dead(p) == \E fd \in ReadersOf(p) : ~readers[fd].live
DeadIsDeleted == \A p \in Path \ unnoticed : Dead(p) => Deleted(p)

\* It is known of a device without a reader that it came.
UnopenedIsCreated ==
    pc # "scan" => \A p \in present \ unnoticed : ReadersOf(p) = {} => Created(p)

\* A flush has first what vanished to do, then all that came.
TodoOrder ==
    /\ \A i, j \in DOMAIN todo : i < j /\ todo[j][1] = "remove" => todo[i][1] = "remove"
    /\ \A i \in DOMAIN todo : \/ todo[i][1] = "remove" /\ todo[i][2] \in Range(removePending)
                              \/ todo[i][1] = "add" /\ todo[i][2] \in Range(addPending)
    /\ \A i \in DOMAIN todo : todo[i][1] = "remove" =>
          \A p \in Range(addPending) : <<"add", p>> \in Range(todo)

\* The pending lists have been worked off, or are about to be: the flush that
\* runs has them all, and a wait that none interrupts comes after such a flush.
Flushed == pc = "flush" \/ (pc = "poll" /\ ~wake)
Reconciling ==
    Flushed => \A p \in Path : ~Noticed(p) =>
        /\ p \in Range(addPending) /\ p \in present /\ ReadersOf(p) = {} => <<"add", p>> \in Range(todo)
        /\ p \in Range(removePending) /\ Dead(p) => <<"remove", p>> \in Range(todo)

RInv == /\ Phases /\ OneReaderEach /\ LiveIsPresent
        /\ ComeBack /\ DeadIsDeleted /\ UnopenedIsCreated
        /\ TodoOrder /\ Reconciling

-----------------------------------------------------------------------------
(* Sequences. *)

LEMMA RangeAppend ==
    ASSUME NEW S, NEW s \in Seq(S), NEW e \in S
    PROVE  Range(Append(s, e)) = Range(s) \cup {e}
<1> DEFINE t == Append(s, e)
<1>1. /\ DOMAIN t = 1..(Len(s) + 1)
      /\ \A i \in DOMAIN s : t[i] = s[i]
      /\ t[Len(s) + 1] = e
  BY AppendType
<1>2. DOMAIN s = 1..Len(s) /\ Len(s) \in Nat
  BY LenProperties
<1> HIDE DEF t
<1> QED
  BY <1>1, <1>2 DEF Range, t

LEMMA TailIndex ==
    ASSUME NEW S, NEW s \in Seq(S), s # <<>>
    PROVE  /\ 1 \in DOMAIN s /\ Head(s) = s[1] /\ DOMAIN s \subseteq Nat
           /\ \A i \in DOMAIN Tail(s) : i + 1 \in DOMAIN s /\ Tail(s)[i] = s[i + 1]
           /\ \A i \in DOMAIN s : i = 1 \/ (i - 1 \in DOMAIN Tail(s) /\ s[i] = Tail(s)[i - 1])
           /\ Tail(s) \in Seq(S) /\ Head(s) \in S
<1>1. Len(s) \in Nat /\ DOMAIN s = 1..Len(s) /\ Len(s) # 0
  BY LenProperties, EmptySeq
<1>2. Tail(s) \in Seq(S) /\ Head(s) \in S /\ Len(Tail(s)) = Len(s) - 1
      /\ \A i \in 1..Len(Tail(s)) : Tail(s)[i] = s[i + 1]
  BY HeadTailProperties
<1>3. DOMAIN Tail(s) = 1..(Len(s) - 1)
  BY <1>2, LenProperties
<1>4. Head(s) = s[1]
  BY HeadTailProperties
<1>5. ASSUME NEW i \in DOMAIN s, i # 1
      PROVE  i - 1 \in DOMAIN Tail(s) /\ s[i] = Tail(s)[i - 1]
  <2>1. i - 1 \in 1..(Len(s) - 1) /\ (i - 1) + 1 = i
    BY <1>1, <1>5
  <2> QED
    BY <1>2, <1>3, <2>1
<1> QED
  BY <1>1, <1>2, <1>3, <1>4, <1>5

LEMMA RangeTail ==
    ASSUME NEW S, NEW s \in Seq(S), s # <<>>
    PROVE  Range(s) = {Head(s)} \cup Range(Tail(s))
<1> DEFINE t == Tail(s)
<1>1. /\ 1 \in DOMAIN s /\ Head(s) = s[1]
      /\ \A i \in DOMAIN t : i + 1 \in DOMAIN s /\ t[i] = s[i + 1]
      /\ \A i \in DOMAIN s : i = 1 \/ (i - 1 \in DOMAIN t /\ s[i] = t[i - 1])
  BY TailIndex
<1> HIDE DEF t
<1> QED
  BY <1>1 DEF Range, t

LEMMA RangeEmpty == Range(<<>>) = {}
  BY DEF Range

\* What FlushPendingReaders makes of the two lists.
LEMMA FlushTodo ==
    ASSUME InotifyType, FlushPendingReaders
    PROVE  /\ DOMAIN todo' = 1..(Len(removePending) + Len(addPending))
           /\ \A i \in DOMAIN todo' :
                 \/ i <= Len(removePending) /\ i \in DOMAIN removePending
                    /\ todo'[i] = <<"remove", removePending[i]>>
                 \/ i > Len(removePending) /\ i - Len(removePending) \in DOMAIN addPending
                    /\ todo'[i] = <<"add", addPending[i - Len(removePending)]>>
           /\ \A p \in Range(removePending) : <<"remove", p>> \in Range(todo')
           /\ \A p \in Range(addPending) : <<"add", p>> \in Range(todo')
<1> DEFINE S == {"add", "remove"} \X Path
           r == [i \in DOMAIN removePending |-> <<"remove", removePending[i]>>]
           a == [i \in DOMAIN addPending |-> <<"add", addPending[i]>>]
           R == Len(removePending)
           A == Len(addPending)
<1>1. r \in Seq(S) /\ a \in Seq(S)
  BY TodoType DEF InotifyType
<1>2. /\ R \in Nat /\ DOMAIN removePending = 1..R
      /\ A \in Nat /\ DOMAIN addPending = 1..A
  BY LenProperties DEF InotifyType
<1>3. Len(r) = R /\ Len(a) = A
  <2>1. DOMAIN r = 1..R /\ DOMAIN a = 1..A
    BY <1>2
  <2>2. Len(r) \in Nat /\ Len(a) \in Nat /\ DOMAIN r = 1..Len(r) /\ DOMAIN a = 1..Len(a)
    BY <1>1, LenProperties
  <2> HIDE DEF r, a, R, A
  <2> QED
    BY <2>1, <2>2, <1>2
<1>4. todo' = r \o a
  BY DEF FlushPendingReaders
<1>5. /\ \A i \in DOMAIN removePending : r[i] = <<"remove", removePending[i]>>
      /\ \A i \in DOMAIN addPending : a[i] = <<"add", addPending[i]>>
  OBVIOUS
<1> HIDE DEF S, r, a
<1>6. /\ Len(todo') = R + A /\ todo' \in Seq(S)
      /\ \A i \in 1..(R + A) : todo'[i] = IF i <= R THEN r[i] ELSE a[i - R]
  <2>1. /\ r \o a \in Seq(S) /\ Len(r \o a) = Len(r) + Len(a)
        /\ \A i \in 1..(Len(r) + Len(a)) : (r \o a)[i] = IF i <= Len(r) THEN r[i] ELSE a[i - Len(r)]
    BY <1>1, ConcatProperties
  <2> HIDE DEF R, A
  <2> QED
    BY <1>3, <1>4, <2>1
<1> HIDE DEF R, A
<1>7. DOMAIN todo' = 1..(R + A)
  BY <1>6, LenProperties
<1>8. ASSUME NEW i \in DOMAIN todo'
      PROVE  \/ i <= R /\ i \in DOMAIN removePending /\ todo'[i] = <<"remove", removePending[i]>>
             \/ i > R /\ i - R \in DOMAIN addPending /\ todo'[i] = <<"add", addPending[i - R]>>
  <2>1. i \in 1..(R + A)
    BY <1>7
  <2>2. CASE i <= R
    <3>1. i \in DOMAIN removePending
      BY <2>1, <2>2, <1>2
    <3>2. todo'[i] = r[i]
      BY <2>1, <2>2, <1>6
    <3> QED
      BY <2>2, <3>1, <3>2, <1>5
  <2>3. CASE i > R
    <3>1. i - R \in DOMAIN addPending /\ ~(i <= R)
      BY <2>1, <2>3, <1>2
    <3>2. todo'[i] = a[i - R]
      BY <2>1, <3>1, <1>6
    <3> QED
      BY <2>3, <3>1, <3>2, <1>5
  <2> QED
    BY <2>1, <2>2, <2>3, <1>2
<1>9. ASSUME NEW i \in DOMAIN removePending
      PROVE  <<"remove", removePending[i]>> \in Range(todo')
  <2>1. i \in 1..(R + A) /\ i <= R
    BY <1>2
  <2>2. todo'[i] = <<"remove", removePending[i]>>
    BY <2>1, <1>5, <1>6
  <2> QED
    BY <2>1, <2>2, <1>7 DEF Range
<1>10. ASSUME NEW i \in DOMAIN addPending
       PROVE  <<"add", addPending[i]>> \in Range(todo')
  <2>1. i + R \in 1..(R + A) /\ ~(i + R <= R) /\ (i + R) - R = i
    BY <1>2
  <2>2. todo'[i + R] = <<"add", addPending[i]>>
    BY <2>1, <1>5, <1>6
  <2> QED
    BY <2>1, <2>2, <1>7 DEF Range
<1> QED
  BY <1>7, <1>8, <1>9, <1>10 DEF Range, R, A

-----------------------------------------------------------------------------
(* Steps after which every reader is of the same node, alive or not. *)

KeepsNodes == \A fd \in ReaderFd : /\ readers'[fd].path = readers[fd].path
                                   /\ readers'[fd].live = readers[fd].live

LEMMA SameNodes ==
    ASSUME RInv, KeepsNodes, UNCHANGED <<present, unnoticed, inotify, todo>>,
           pc' = "scan" <=> pc = "scan", pc' = "built" <=> pc = "built",
           pc' # "flush" => todo = <<>>, Flushed' => Flushed
    PROVE  RInv'
<1> USE DEF RInv, inotify, KeepsNodes
<1>2. Phases'
  BY DEF Phases
<1>3. OneReaderEach'
  BY DEF OneReaderEach
<1>4. LiveIsPresent'
  BY DEF LiveIsPresent
<1>5. ComeBack'
  BY DEF ComeBack, Created, Deleted
<1>6. DeadIsDeleted'
  BY DEF DeadIsDeleted, Deleted, Dead, ReadersOf
<1>7. UnopenedIsCreated'
  <2>1. \A p : Created(p)' = Created(p)
    BY DEF Created
  <2>2. \A p : ReadersOf(p)' = ReadersOf(p)
    BY DEF ReadersOf
  <2> QED
    BY <2>1, <2>2 DEF UnopenedIsCreated
<1>8. TodoOrder'
  BY DEF TodoOrder
<1>9. Reconciling'
  <2>1. \A p : Noticed(p)' = Noticed(p)
    BY DEF Noticed
  <2>2. \A p : ReadersOf(p)' = ReadersOf(p) /\ Dead(p)' = Dead(p)
    BY DEF ReadersOf, Dead
  <2> QED
    BY <2>1, <2>2 DEF Reconciling
<1> QED
  BY <1>2, <1>3, <1>4, <1>5, <1>6, <1>7, <1>8, <1>9

\* A step that starts a flush has all of it to do.
LEMMA FlushRInv ==
    ASSUME IInv, RInv, FlushPendingReaders, UNCHANGED <<present, unnoticed, notices, addPending,
           removePending, readers>>, watching' = TRUE, pc # "scan"
    PROVE  RInv'
<1> USE DEF RInv
<1>0. InotifyType
  BY DEF IInv, Types
<1>1. pc' = "flush"
  BY DEF FlushPendingReaders
<1>2. Phases'
  BY <1>1 DEF Phases
<1>3. OneReaderEach'
  BY DEF OneReaderEach
<1>4. LiveIsPresent'
  BY DEF LiveIsPresent
<1>5. ComeBack'
  BY DEF ComeBack, Created, Deleted
<1>6. DeadIsDeleted'
  BY DEF DeadIsDeleted, Deleted, Dead, ReadersOf
<1>7. UnopenedIsCreated'
  BY DEF UnopenedIsCreated, Created, ReadersOf
<1>8. TodoOrder'
  <2> DEFINE R == Len(removePending)
  <2>1. /\ DOMAIN todo' = 1..(R + Len(addPending))
        /\ \A i \in DOMAIN todo' :
              \/ i <= R /\ i \in DOMAIN removePending /\ todo'[i] = <<"remove", removePending[i]>>
              \/ i > R /\ i - R \in DOMAIN addPending /\ todo'[i] = <<"add", addPending[i - R]>>
        /\ \A p \in Range(addPending) : <<"add", p>> \in Range(todo')
    BY <1>0, FlushTodo
  <2>2. R \in Nat /\ Len(addPending) \in Nat
    BY <1>0, LenProperties DEF InotifyType
  <2> HIDE DEF R
  <2>3. ASSUME NEW i \in DOMAIN todo'
        PROVE  \/ i <= R /\ todo'[i][1] = "remove" /\ todo'[i][2] \in Range(removePending)
               \/ i > R /\ todo'[i][1] = "add" /\ todo'[i][2] \in Range(addPending)
    <3>1. CASE i <= R /\ i \in DOMAIN removePending /\ todo'[i] = <<"remove", removePending[i]>>
      BY <3>1 DEF Range
    <3>2. CASE i > R /\ i - R \in DOMAIN addPending /\ todo'[i] = <<"add", addPending[i - R]>>
      BY <3>2 DEF Range
    <3> QED
      BY <2>1, <3>1, <3>2
  <2>4. ASSUME NEW i \in DOMAIN todo', NEW j \in DOMAIN todo', i < j, todo'[j][1] = "remove"
        PROVE  todo'[i][1] = "remove"
    <3>1. i \in Nat /\ j \in Nat
      BY <2>1
    <3>2. j <= R
      BY <2>3, <2>4
    <3>3. ~(i > R)
      BY <2>2, <2>4, <3>1, <3>2
    <3> QED
      BY <2>3, <3>3
  <2> QED
    BY <2>1, <2>3, <2>4 DEF TodoOrder
<1>9. Reconciling'
  BY <1>0, FlushTodo DEF Reconciling
<1> QED
  BY <1>2, <1>3, <1>4, <1>5, <1>6, <1>7, <1>8, <1>9

-----------------------------------------------------------------------------
(* Devices come and go. *)

LEMMA NoticeLeaves ==
    ASSUME IInv, RInv, NEW p \in Path, NEW what \in {"create", "delete"}, Notice(what, p),
           UNCHANGED <<watching, addPending, removePending>>
    PROVE  /\ pc # "scan" /\ (~watching => pc = "built")
           /\ watching => Range(notices') = Range(notices) \cup {<<what, p>>}
           /\ ~watching => notices' = notices /\ notices = <<>>
           /\ \A q \in Path : q # p => (q \in unnoticed' <=> q \in unnoticed)
           /\ p \in unnoticed => (watching /\ what = "delete") \/ p \in unnoticed'
           /\ ~watching => p \in unnoticed'
           /\ \A q : Created(q) => Created(q)'
           /\ \A q : Deleted(q) => Deleted(q)'
           /\ \A q \in Path : q # p => /\ Created(q)' = Created(q) /\ Deleted(q)' = Deleted(q)
                                       /\ Noticed(q)' = Noticed(q)
           /\ watching => Noticed(p)'
<1>1. notices \in Seq({"create", "delete"} \X Path) /\ <<what, p>> \in {"create", "delete"} \X Path
  BY DEF IInv, Types, InotifyType
<1>2. watching => Range(notices') = Range(notices) \cup {<<what, p>>}
  BY <1>1, RangeAppend DEF Notice
<1>3. pc # "scan" /\ pc \in Pc /\ watching \in BOOLEAN
  BY DEF Notice, IInv, Types, ControlType, InotifyType
<1>4. ~watching => pc = "built" /\ notices' = notices /\ notices = <<>>
  BY <1>3 DEF RInv, Phases, Notice
<1>5. /\ \A q \in Path : q # p => (q \in unnoticed' <=> q \in unnoticed)
      /\ p \in unnoticed => (watching /\ what = "delete") \/ p \in unnoticed'
      /\ ~watching => p \in unnoticed'
  BY DEF Notice
<1>6. \A w, q : <<w, q>> \in Range(notices) => <<w, q>> \in Range(notices')
  BY <1>2, <1>3, <1>4
<1>7. \A w, q : q # p => (<<w, q>> \in Range(notices') <=> <<w, q>> \in Range(notices))
  BY <1>2, <1>3, <1>4
<1>8. \A q : (Created(q) => Created(q)') /\ (Deleted(q) => Deleted(q)')
  BY <1>6 DEF Created, Deleted
<1>9. \A q \in Path : q # p => /\ Created(q)' = Created(q) /\ Deleted(q)' = Deleted(q)
                               /\ Noticed(q)' = Noticed(q)
  BY <1>7 DEF Created, Deleted, Noticed
<1>10. watching => Noticed(p)'
  BY <1>2 DEF Noticed
<1> QED
  BY <1>2, <1>3, <1>4, <1>5, <1>8, <1>9, <1>10

LEMMA PlugRInv == ASSUME IInv, RInv, NEW p \in Path, Plug(p) PROVE RInv'
<1> USE DEF RInv
<1>1. /\ p \notin present /\ present' = present \cup {p}
      /\ UNCHANGED <<watching, addPending, removePending, wake, control, readers>>
      /\ Notice("create", p)
  BY DEF Plug, poll
<1>2. /\ pc # "scan" /\ (~watching => pc = "built")
      /\ ~watching => notices' = notices /\ notices = <<>>
      /\ \A q \in Path : q # p => (q \in unnoticed' <=> q \in unnoticed)
      /\ p \in unnoticed => p \in unnoticed'
      /\ ~watching => p \in unnoticed'
      /\ \A q : Deleted(q) => Deleted(q)'
      /\ \A q \in Path : q # p => /\ Created(q)' = Created(q) /\ Deleted(q)' = Deleted(q)
                                  /\ Noticed(q)' = Noticed(q)
      /\ watching => Noticed(p)'
  BY <1>1, NoticeLeaves
<1>3. watching => <<"create", p>> \in Range(notices')
  BY <1>1, NoticeLeaves
<1>4. watching \in BOOLEAN /\ present \subseteq Path
  BY DEF IInv, Types, InotifyType, DevicesType
<1>5. \A q : ReadersOf(q)' = ReadersOf(q) /\ Dead(q)' = Dead(q)
  BY <1>1 DEF ReadersOf, Dead
<1>6. Phases'
  BY <1>1, <1>2 DEF Phases, control
<1>7. OneReaderEach' /\ LiveIsPresent'
  BY <1>1 DEF OneReaderEach, LiveIsPresent
<1>8. ComeBack'
  <2>1. ~watching => ~Deleted(p)'
    BY <1>1, <1>2, RangeEmpty DEF Deleted, Phases
  <2>2. watching => Created(p)'
    BY <1>3 DEF Created
  <2> QED
    BY <1>1, <1>2, <1>4, <2>1, <2>2 DEF ComeBack
<1>9. DeadIsDeleted'
  BY <1>1, <1>2, <1>5 DEF DeadIsDeleted
<1>10. UnopenedIsCreated'
  <2>1. watching => Created(p)'
    BY <1>3 DEF Created
  <2> QED
    BY <1>1, <1>2, <1>4, <1>5, <2>1 DEF UnopenedIsCreated
<1>11. TodoOrder'
  BY <1>1 DEF TodoOrder, control
<1>12. Reconciling'
  <2> SUFFICES ASSUME Flushed', NEW q \in Path, ~Noticed(q)'
               PROVE  /\ q \in Range(addPending)' /\ q \in present' /\ ReadersOf(q)' = {}
                            => <<"add", q>> \in Range(todo')
                      /\ q \in Range(removePending)' /\ Dead(q)' => <<"remove", q>> \in Range(todo')
    BY DEF Reconciling
  <2>1. Flushed /\ watching
    BY <1>1, <1>2, <1>4 DEF Flushed, control
  <2>2. q # p /\ ~Noticed(q)
    BY <1>2, <2>1
  <2> QED
    BY <1>1, <1>5, <2>1, <2>2 DEF Reconciling, control
<1> QED
  BY <1>6, <1>7, <1>8, <1>9, <1>10, <1>11, <1>12

LEMMA UnplugRInv == ASSUME IInv, RInv, NEW p \in Path, Unplug(p) PROVE RInv'
<1> USE DEF RInv
<1>1. /\ p \in present /\ present' = present \ {p}
      /\ UNCHANGED <<watching, addPending, removePending, wake, control>>
      /\ Notice("delete", p)
  BY DEF Unplug
<1>2. /\ pc # "scan" /\ (~watching => pc = "built")
      /\ ~watching => notices' = notices /\ notices = <<>>
      /\ \A q \in Path : q # p => (q \in unnoticed' <=> q \in unnoticed)
      /\ ~watching => p \in unnoticed'
      /\ \A q : Deleted(q) => Deleted(q)'
      /\ \A q \in Path : q # p => /\ Created(q)' = Created(q) /\ Deleted(q)' = Deleted(q)
                                  /\ Noticed(q)' = Noticed(q)
      /\ watching => Noticed(p)'
  BY <1>1, NoticeLeaves
<1>3. watching => <<"delete", p>> \in Range(notices')
  BY <1>1, NoticeLeaves
<1>4. watching \in BOOLEAN /\ present \subseteq Path
  BY DEF IInv, Types, InotifyType, DevicesType
<1>5. \A fd \in ReaderFd : /\ readers'[fd].path = readers[fd].path
                           /\ readers[fd].path = p => ~readers'[fd].live
                           /\ readers[fd].path # p => readers'[fd] = readers[fd]
  BY DEF Unplug, IInv, Types, PollType, Reader
<1>6. \A q : /\ ReadersOf(q)' = ReadersOf(q)
             /\ q # p => Dead(q)' = Dead(q)
  BY <1>5 DEF ReadersOf, Dead
<1>7. Phases'
  BY <1>1, <1>2 DEF Phases, control
<1>8. OneReaderEach' /\ LiveIsPresent'
  BY <1>1, <1>5 DEF OneReaderEach, LiveIsPresent
<1>9. ComeBack'
  BY <1>1, <1>2, <1>4 DEF ComeBack
<1>10. DeadIsDeleted'
  <2> SUFFICES ASSUME NEW q \in Path \ unnoticed', Dead(q)'
               PROVE  Deleted(q)'
    BY DEF DeadIsDeleted
  <2>1. CASE q = p
    <3>1. watching
      BY <1>2, <1>4, <2>1
    <3> QED
      BY <1>3, <2>1, <3>1 DEF Deleted
  <2>2. CASE q # p
    BY <1>2, <1>6, <2>2 DEF DeadIsDeleted
  <2> QED
    BY <2>1, <2>2
<1>11. UnopenedIsCreated'
  BY <1>1, <1>2, <1>4, <1>6 DEF UnopenedIsCreated
<1>12. TodoOrder'
  BY <1>1 DEF TodoOrder, control
<1>13. Reconciling'
  <2> SUFFICES ASSUME Flushed', NEW q \in Path, ~Noticed(q)'
               PROVE  /\ q \in Range(addPending)' /\ q \in present' /\ ReadersOf(q)' = {}
                            => <<"add", q>> \in Range(todo')
                      /\ q \in Range(removePending)' /\ Dead(q)' => <<"remove", q>> \in Range(todo')
    BY DEF Reconciling
  <2>1. Flushed /\ watching
    BY <1>1, <1>2, <1>4 DEF Flushed, control
  <2>2. q # p /\ ~Noticed(q)
    BY <1>2, <2>1
  <2> QED
    BY <1>1, <1>6, <2>1, <2>2 DEF Reconciling, control
<1> QED
  BY <1>7, <1>8, <1>9, <1>10, <1>11, <1>12, <1>13

-----------------------------------------------------------------------------
(* Readers are opened and closed. *)

LEMMA AddReaderNodes ==
    ASSUME IInv, RInv, NEW p \in Path, AddReader(p), UNCHANGED present
    PROVE  /\ OneReaderEach' /\ LiveIsPresent'
           /\ \A q \in Path : q # p => ReadersOf(q)' = ReadersOf(q) /\ Dead(q)' = Dead(q)
           /\ p \in present => ReadersOf(p)' # {}
           /\ ReadersOf(p) # {} => ReadersOf(p)' # {}
           /\ Dead(p)' => Dead(p)
<1> USE DEF RInv
<1>1. CASE UNCHANGED poll /\ (ReadersOf(p) # {} \/ p \notin present)
  BY <1>1 DEF poll, OneReaderEach, LiveIsPresent, ReadersOf, Dead
<1>2. ASSUME NEW fd \in ReaderFd, readers[fd] = Closed, ReadersOf(p) = {}, p \in present,
             readers' = [readers EXCEPT ![fd] = Opened(p)]
      PROVE  /\ OneReaderEach' /\ LiveIsPresent'
             /\ \A q \in Path : q # p => ReadersOf(q)' = ReadersOf(q) /\ Dead(q)' = Dead(q)
             /\ ReadersOf(p)' # {}
             /\ ~Dead(p)'
  <2>1. /\ readers'[fd].path = p /\ readers'[fd].live
        /\ readers[fd].path = NoPath
        /\ \A fd1 \in ReaderFd : fd1 # fd => readers'[fd1] = readers[fd1]
    BY <1>2 DEF Closed, Opened, IInv, Types, PollType
  <2>2. \A fd1 \in ReaderFd : fd1 # fd => readers'[fd1].path # p
    BY <1>2, <2>1 DEF ReadersOf
  <2>3. OneReaderEach'
    BY <2>1, <2>2 DEF OneReaderEach
  <2>4. LiveIsPresent'
    BY <1>2, <2>1 DEF LiveIsPresent
  <2>5. ASSUME NEW q \in Path, q # p
        PROVE  ReadersOf(q)' = ReadersOf(q) /\ Dead(q)' = Dead(q)
    <3>1. \A fd1 \in ReaderFd : fd1 \in ReadersOf(q)' <=> fd1 \in ReadersOf(q)
      BY <2>1, <2>5, PathAssumption DEF ReadersOf
    <3>2. ReadersOf(q)' = ReadersOf(q)
      BY <3>1 DEF ReadersOf
    <3>3. fd \notin ReadersOf(q)
      BY <2>1, <2>5, PathAssumption DEF ReadersOf
    <3>4. \A fd1 \in ReadersOf(q) : readers'[fd1] = readers[fd1]
      BY <2>1, <3>3 DEF ReadersOf
    <3> QED
      BY <3>2, <3>4 DEF Dead
  <2>6. ReadersOf(p)' = {fd}
    BY <2>1, <2>2 DEF ReadersOf
  <2>7. ~Dead(p)'
    BY <2>1, <2>6 DEF Dead
  <2> QED
    BY <2>3, <2>4, <2>5, <2>6, <2>7
<1> QED
  BY <1>1, <1>2 DEF AddReader, Opens

LEMMA RemoveReaderNodes ==
    ASSUME IInv, RInv, NEW p \in Path, RemoveReader(p), UNCHANGED present
    PROVE  /\ OneReaderEach' /\ LiveIsPresent'
           /\ \A q \in Path : q # p => ReadersOf(q)' = ReadersOf(q) /\ Dead(q)' = Dead(q)
           /\ ReadersOf(p)' = {} /\ ~Dead(p)'
<1> USE DEF RInv
<1>1. CASE UNCHANGED readers /\ ReadersOf(p) = {}
  BY <1>1 DEF OneReaderEach, LiveIsPresent, ReadersOf, Dead
<1>2. ASSUME NEW fd \in ReadersOf(p), readers' = [readers EXCEPT ![fd] = Closed]
      PROVE  /\ OneReaderEach' /\ LiveIsPresent'
             /\ \A q \in Path : q # p => ReadersOf(q)' = ReadersOf(q) /\ Dead(q)' = Dead(q)
             /\ ReadersOf(p)' = {} /\ ~Dead(p)'
  <2>1. /\ fd \in ReaderFd /\ readers[fd].path = p
        /\ readers'[fd].path = NoPath /\ ~readers'[fd].live
        /\ \A fd1 \in ReaderFd : fd1 # fd => readers'[fd1] = readers[fd1]
    BY <1>2 DEF ReadersOf, Closed, IInv, Types, PollType
  <2>2. \A fd1 \in ReaderFd : fd1 # fd => readers[fd1].path # p
    BY <2>1, PathAssumption DEF OneReaderEach
  <2>3. OneReaderEach'
    BY <2>1 DEF OneReaderEach
  <2>4. LiveIsPresent'
    BY <2>1 DEF LiveIsPresent
  <2>5. ASSUME NEW q \in Path, q # p
        PROVE  ReadersOf(q)' = ReadersOf(q) /\ Dead(q)' = Dead(q)
    <3>1. \A fd1 \in ReaderFd : fd1 \in ReadersOf(q)' <=> fd1 \in ReadersOf(q)
      BY <2>1, <2>5, PathAssumption DEF ReadersOf
    <3>2. ReadersOf(q)' = ReadersOf(q)
      BY <3>1 DEF ReadersOf
    <3>3. \A fd1 \in ReadersOf(q) : readers'[fd1] = readers[fd1]
      BY <2>1, <2>5 DEF ReadersOf
    <3> QED
      BY <3>2, <3>3 DEF Dead
  <2>6. ReadersOf(p)' = {}
    BY <2>1, <2>2, PathAssumption DEF ReadersOf
  <2>7. ~Dead(p)'
    BY <2>6 DEF Dead
  <2> QED
    BY <2>3, <2>4, <2>5, <2>6, <2>7
<1>3. \/ UNCHANGED readers /\ ReadersOf(p) = {}
      \/ \E fd \in ReadersOf(p) : readers' = [readers EXCEPT ![fd] = Closed]
  BY DEF RemoveReader, poll
<1> QED
  BY <1>1, <1>2, <1>3

\* One removal of a flush: the device, if it is there, is among those to add.
LEMMA FlushRemoveRInv ==
    ASSUME IInv, RInv, FlushOne, Head(todo)[1] = "remove", RemoveReader(Head(todo)[2])
    PROVE  RInv'
<1> USE DEF RInv
<1>1. /\ pc = "flush" /\ todo # <<>> /\ todo' = Tail(todo)
      /\ UNCHANGED <<devices, inotify, wake, pc>>
  BY DEF FlushOne
<1>2. todo \in Seq({"add", "remove"} \X Path)
  BY DEF IInv, Types, ControlType
<1>3. /\ 1 \in DOMAIN todo /\ Head(todo) = todo[1] /\ DOMAIN todo \subseteq Nat
      /\ \A i \in DOMAIN Tail(todo) : i + 1 \in DOMAIN todo /\ Tail(todo)[i] = todo[i + 1]
      /\ \A i \in DOMAIN todo : i = 1 \/ (i - 1 \in DOMAIN Tail(todo) /\ todo[i] = Tail(todo)[i - 1])
      /\ Tail(todo) \in Seq({"add", "remove"} \X Path) /\ Head(todo) \in {"add", "remove"} \X Path
  BY <1>1, <1>2, TailIndex
<1>4. PICK p \in Path : Head(todo) = <<"remove", p>> /\ RemoveReader(p)
  BY <1>3
<1>5. DOMAIN Tail(todo) \subseteq Nat
  BY <1>3, LenProperties
<1>6. Range(todo) = {Head(todo)} \cup Range(Tail(todo))
  BY <1>1, <1>2, RangeTail
<1>7. /\ OneReaderEach' /\ LiveIsPresent'
      /\ \A q \in Path : q # p => ReadersOf(q)' = ReadersOf(q) /\ Dead(q)' = Dead(q)
      /\ ReadersOf(p)' = {} /\ ~Dead(p)'
  BY <1>1, <1>4, RemoveReaderNodes DEF devices
<1>8. /\ \A q : Created(q)' = Created(q) /\ Deleted(q)' = Deleted(q) /\ Noticed(q)' = Noticed(q)
      /\ UNCHANGED <<present, unnoticed, addPending, removePending, watching>>
  BY <1>1 DEF Created, Deleted, Noticed, inotify, devices
<1>9. p \in Range(removePending) /\ \A q \in Range(addPending) : <<"add", q>> \in Range(Tail(todo))
  <2>1. todo[1][1] = "remove" /\ todo[1][2] = p
    BY <1>3, <1>4
  <2>2. p \in Range(removePending)
    BY <1>3, <2>1 DEF TodoOrder
  <2>3. \A q \in Range(addPending) : <<"add", q>> \in Range(todo)
    BY <1>3, <2>1 DEF TodoOrder
  <2> QED
    BY <1>4, <1>6, <2>2, <2>3
<1>10. Phases'
  BY <1>1 DEF Phases, inotify, devices
<1>11. ComeBack'
  BY <1>8 DEF ComeBack
<1>12. DeadIsDeleted'
  BY <1>7, <1>8 DEF DeadIsDeleted
<1>13. UnopenedIsCreated'
  <2>1. p \in present => Created(p)
    BY <1>9 DEF ComeBack, Deleted
  <2>2. present \subseteq Path
    BY DEF IInv, Types, DevicesType
  <2> QED
    BY <1>1, <1>7, <1>8, <2>1, <2>2 DEF UnopenedIsCreated
<1>14. TodoOrder'
  <2>1. ASSUME NEW i \in DOMAIN todo', NEW j \in DOMAIN todo', i < j, todo'[j][1] = "remove"
        PROVE  todo'[i][1] = "remove"
    <3>1. i + 1 \in DOMAIN todo /\ j + 1 \in DOMAIN todo /\ i + 1 < j + 1
          /\ todo'[i] = todo[i + 1] /\ todo'[j] = todo[j + 1]
      BY <1>1, <1>3, <1>5, <2>1
    <3> QED
      BY <2>1, <3>1 DEF TodoOrder
  <2>2. ASSUME NEW i \in DOMAIN todo'
        PROVE  \/ todo'[i][1] = "remove" /\ todo'[i][2] \in Range(removePending)
               \/ todo'[i][1] = "add" /\ todo'[i][2] \in Range(addPending)
    <3>1. i + 1 \in DOMAIN todo /\ todo'[i] = todo[i + 1]
      BY <1>1, <1>3
    <3> QED
      BY <3>1 DEF TodoOrder
  <2> QED
    BY <1>1, <1>8, <1>9, <2>1, <2>2 DEF TodoOrder
<1>15. Reconciling'
  <2> SUFFICES ASSUME NEW q \in Path, ~Noticed(q)
               PROVE  /\ q \in Range(addPending) /\ q \in present /\ ReadersOf(q)' = {}
                            => <<"add", q>> \in Range(todo')
                      /\ q \in Range(removePending) /\ Dead(q)' => <<"remove", q>> \in Range(todo')
    BY <1>8 DEF Reconciling
  <2>1. q \in Range(addPending) => <<"add", q>> \in Range(todo')
    BY <1>1, <1>9
  <2>2. CASE q = p
    BY <1>7, <2>1, <2>2
  <2>3. CASE q # p
    <3>1. q \in Range(removePending) /\ Dead(q) => <<"remove", q>> \in Range(todo)
      BY <1>1 DEF Reconciling, Flushed
    <3> QED
      BY <1>1, <1>4, <1>6, <1>7, <2>1, <2>3, <3>1
  <2> QED
    BY <2>2, <2>3
<1> QED
  BY <1>7, <1>10, <1>11, <1>12, <1>13, <1>14, <1>15

\* One addition of a flush: what vanished is done by then.
LEMMA FlushAddRInv ==
    ASSUME IInv, RInv, FlushOne, Head(todo)[1] = "add", AddReader(Head(todo)[2])
    PROVE  RInv'
<1> USE DEF RInv
<1>1. /\ pc = "flush" /\ todo # <<>> /\ todo' = Tail(todo)
      /\ UNCHANGED <<devices, inotify, wake, pc>>
  BY DEF FlushOne
<1>2. todo \in Seq({"add", "remove"} \X Path)
  BY DEF IInv, Types, ControlType
<1>3. /\ 1 \in DOMAIN todo /\ Head(todo) = todo[1] /\ DOMAIN todo \subseteq Nat
      /\ \A i \in DOMAIN Tail(todo) : i + 1 \in DOMAIN todo /\ Tail(todo)[i] = todo[i + 1]
      /\ Tail(todo) \in Seq({"add", "remove"} \X Path) /\ Head(todo) \in {"add", "remove"} \X Path
  BY <1>1, <1>2, TailIndex
<1>4. PICK p \in Path : Head(todo) = <<"add", p>> /\ AddReader(p)
  BY <1>3
<1>5. DOMAIN Tail(todo) \subseteq Nat
  BY <1>3, LenProperties
<1>6. Range(todo) = {Head(todo)} \cup Range(Tail(todo))
  BY <1>1, <1>2, RangeTail
<1>7. /\ OneReaderEach' /\ LiveIsPresent'
      /\ \A q \in Path : q # p => ReadersOf(q)' = ReadersOf(q) /\ Dead(q)' = Dead(q)
      /\ p \in present => ReadersOf(p)' # {}
      /\ ReadersOf(p) # {} => ReadersOf(p)' # {}
      /\ Dead(p)' => Dead(p)
  BY <1>1, <1>4, AddReaderNodes DEF devices
<1>8. /\ \A q : Created(q)' = Created(q) /\ Deleted(q)' = Deleted(q) /\ Noticed(q)' = Noticed(q)
      /\ UNCHANGED <<present, unnoticed, addPending, removePending, watching>>
  BY <1>1 DEF Created, Deleted, Noticed, inotify, devices
<1>9. \A i \in DOMAIN todo' : todo'[i][1] # "remove"
  <2> SUFFICES ASSUME NEW i \in DOMAIN todo', todo'[i][1] = "remove"
               PROVE  FALSE
    OBVIOUS
  <2>1. i + 1 \in DOMAIN todo /\ todo'[i] = todo[i + 1] /\ 1 < i + 1
    <3>1. i \in 1..Len(Tail(todo)) /\ Len(Tail(todo)) \in Nat
      BY <1>1, <1>3, LenProperties
    <3> QED
      BY <1>1, <1>3, <3>1
  <2>2. todo[1][1] = "remove"
    BY <1>3, <2>1 DEF TodoOrder
  <2> QED
    BY <1>3, <1>4, <2>2
<1>10. Phases'
  BY <1>1 DEF Phases, inotify, devices
<1>11. ComeBack'
  BY <1>8 DEF ComeBack
<1>12. DeadIsDeleted'
  BY <1>7, <1>8 DEF DeadIsDeleted
<1>13. UnopenedIsCreated'
  <2>1. present \subseteq Path
    BY DEF IInv, Types, DevicesType
  <2> QED
    BY <1>1, <1>7, <1>8, <2>1 DEF UnopenedIsCreated
<1>14. TodoOrder'
  <2>1. ASSUME NEW i \in DOMAIN todo'
        PROVE  todo'[i][1] = "add" /\ todo'[i][2] \in Range(addPending)
    <3>1. i + 1 \in DOMAIN todo /\ todo'[i] = todo[i + 1]
      BY <1>1, <1>3
    <3> QED
      BY <1>9, <3>1 DEF TodoOrder
  <2> QED
    BY <1>8, <1>9, <2>1 DEF TodoOrder
<1>15. Reconciling'
  <2> SUFFICES ASSUME NEW q \in Path, ~Noticed(q)
               PROVE  /\ q \in Range(addPending) /\ q \in present /\ ReadersOf(q)' = {}
                            => <<"add", q>> \in Range(todo')
                      /\ q \in Range(removePending) /\ Dead(q)' => <<"remove", q>> \in Range(todo')
    BY <1>8 DEF Reconciling
  <2>1. /\ q \in Range(addPending) /\ q \in present /\ ReadersOf(q) = {} => <<"add", q>> \in Range(todo)
        /\ q \in Range(removePending) /\ Dead(q) => <<"remove", q>> \in Range(todo)
    BY <1>1 DEF Reconciling, Flushed
  <2>2. Dead(q)' => Dead(q)
    BY <1>7
  <2>3. <<"remove", q>> \in Range(todo) => <<"remove", q>> \in Range(todo')
    BY <1>1, <1>4, <1>6
  <2>4. q \in present /\ ReadersOf(q)' = {} => q # p /\ ReadersOf(q) = {}
    BY <1>7
  <2>5. q # p /\ <<"add", q>> \in Range(todo) => <<"add", q>> \in Range(todo')
    BY <1>1, <1>4, <1>6
  <2> QED
    BY <2>1, <2>2, <2>3, <2>4, <2>5
<1> QED
  BY <1>7, <1>10, <1>11, <1>12, <1>13, <1>14, <1>15

LEMMA FlushOneRInv == ASSUME IInv, RInv, FlushOne PROVE RInv'
<1>1. \/ Head(todo)[1] = "remove" /\ RemoveReader(Head(todo)[2])
      \/ Head(todo)[1] = "add" /\ AddReader(Head(todo)[2])
  BY DEF FlushOne
<1> QED
  BY <1>1, FlushRemoveRInv, FlushAddRInv

-----------------------------------------------------------------------------
(* The start, and what inotify tells. *)

LEMMA StartUpRInv == ASSUME IInv, RInv, StartUp PROVE RInv'
<1> USE DEF RInv
<1>1. ASSUME NEW p \in Path, InitReaders(p)
      PROVE  RInv'
  <2>1. pc = "scan" /\ AddReader(p) /\ UNCHANGED <<devices, inotify, wake, control>>
    BY <1>1 DEF InitReaders
  <2>2. /\ OneReaderEach' /\ LiveIsPresent'
        /\ \A q \in Path : q # p => ReadersOf(q)' = ReadersOf(q) /\ Dead(q)' = Dead(q)
        /\ Dead(p)' => Dead(p)
    BY <2>1, AddReaderNodes DEF devices
  <2>3. /\ \A q : Created(q)' = Created(q) /\ Deleted(q)' = Deleted(q)
        /\ UNCHANGED <<present, unnoticed, addPending, removePending, watching, notices, pc, todo, wake>>
    BY <2>1 DEF Created, Deleted, inotify, devices, control
  <2>4. Phases'
    BY <2>3 DEF Phases
  <2>5. ComeBack'
    BY <2>3 DEF ComeBack
  <2>6. DeadIsDeleted'
    BY <2>2, <2>3 DEF DeadIsDeleted
  <2>7. UnopenedIsCreated' /\ Reconciling'
    BY <2>1, <2>3 DEF UnopenedIsCreated, Reconciling, Flushed
  <2>8. TodoOrder'
    BY <2>3 DEF TodoOrder
  <2> QED
    BY <2>2, <2>4, <2>5, <2>6, <2>7, <2>8
<1>2. CASE InitDone
  <2>1. /\ pc = "scan" /\ pc' = "built" /\ \A p \in present : ReadersOf(p) # {}
        /\ UNCHANGED <<devices, inotify, wake, todo, readers>>
    BY <1>2 DEF InitDone, poll
  <2>2. /\ \A q : Created(q)' = Created(q) /\ Deleted(q)' = Deleted(q)
        /\ \A q : ReadersOf(q)' = ReadersOf(q) /\ Dead(q)' = Dead(q)
        /\ UNCHANGED <<present, unnoticed, addPending, removePending, watching, notices>>
    BY <2>1 DEF Created, Deleted, inotify, devices, ReadersOf, Dead
  <2>3. Phases'
    BY <2>1, <2>2 DEF Phases
  <2>4. OneReaderEach' /\ LiveIsPresent'
    BY <2>1, <2>2 DEF OneReaderEach, LiveIsPresent
  <2>5. ComeBack' /\ DeadIsDeleted'
    BY <2>2 DEF ComeBack, DeadIsDeleted
  <2>6. UnopenedIsCreated' /\ Reconciling'
    BY <2>1, <2>2 DEF UnopenedIsCreated, Reconciling, Flushed
  <2>7. TodoOrder'
    BY <2>1, <2>2 DEF TodoOrder
  <2> QED
    BY <2>3, <2>4, <2>5, <2>6, <2>7
<1>3. CASE Start
  BY <1>3, FlushRInv DEF Start, devices, poll
<1> QED
  BY <1>1, <1>2, <1>3 DEF StartUp

\* What is read of inotify is pending from then on, and ends the wait.
LEMMA NoticeRInv == ASSUME IInv, RInv, OnInputDevUpdated PROVE RInv'
<1> USE DEF RInv
<1>1. /\ pc # "flush" /\ notices # <<>> /\ notices' = Tail(notices) /\ wake' = TRUE
      /\ UNCHANGED <<present, unnoticed, watching, pc, todo, readers>>
  BY DEF OnInputDevUpdated, devices, control, poll
<1>2. notices \in Seq({"create", "delete"} \X Path)
  BY DEF IInv, Types, InotifyType
<1>3. Head(notices) \in {"create", "delete"} \X Path
  BY <1>1, <1>2, TailIndex
<1>4. PICK p \in Path : Head(notices) = <<"create", p>> \/ Head(notices) = <<"delete", p>>
  BY <1>3
<1>5. Range(notices) = {Head(notices)} \cup Range(notices')
  BY <1>1, <1>2, RangeTail
<1>6. /\ Range(addPending') = IF Head(notices) = <<"create", p>>
                              THEN Range(addPending) \cup {p} ELSE Range(addPending)
      /\ Range(removePending') = IF Head(notices) = <<"delete", p>>
                                 THEN Range(removePending) \cup {p} ELSE Range(removePending)
  <2>1. /\ addPending \in Seq(Path) /\ removePending \in Seq(Path)
    BY DEF IInv, Types, InotifyType
  <2>2. CASE Head(notices) = <<"create", p>>
    <3>1. addPending' = Append(addPending, p) /\ removePending' = removePending
      BY <2>2 DEF OnInputDevUpdated
    <3> QED
      BY <2>1, <2>2, <3>1, RangeAppend
  <2>3. CASE Head(notices) = <<"delete", p>>
    <3>1. removePending' = Append(removePending, p) /\ addPending' = addPending
      BY <2>3 DEF OnInputDevUpdated
    <3> QED
      BY <2>1, <2>3, <3>1, RangeAppend
  <2> QED
    BY <1>4, <2>2, <2>3
<1>7. \A q : Created(q)' = Created(q) /\ Deleted(q)' = Deleted(q)
  <2>1. CASE Head(notices) = <<"create", p>>
    BY <1>5, <1>6, <2>1 DEF Created, Deleted
  <2>2. CASE Head(notices) = <<"delete", p>>
    BY <1>5, <1>6, <2>2 DEF Created, Deleted
  <2> QED
    BY <1>4, <2>1, <2>2
<1>8. \A q : ReadersOf(q)' = ReadersOf(q) /\ Dead(q)' = Dead(q)
  BY <1>1 DEF ReadersOf, Dead
<1>9. Phases'
  BY <1>1 DEF Phases
<1>10. OneReaderEach' /\ LiveIsPresent'
  BY <1>1 DEF OneReaderEach, LiveIsPresent
<1>11. ComeBack' /\ DeadIsDeleted' /\ UnopenedIsCreated'
  BY <1>1, <1>7, <1>8 DEF ComeBack, DeadIsDeleted, UnopenedIsCreated
<1>12. TodoOrder'
  BY <1>1 DEF TodoOrder, Phases
<1>13. Reconciling'
  BY <1>1 DEF Reconciling, Flushed
<1> QED
  BY <1>9, <1>10, <1>11, <1>12, <1>13

-----------------------------------------------------------------------------
(* The readers follow the devices. *)

LEMMA ReportsKeepsNodes ==
    ASSUME IInv, NEW p \in Path, NEW frame, Reports(p, frame)
    PROVE  KeepsNodes
<1> SUFFICES ASSUME NEW fd \in ReaderFd
             PROVE  readers'[fd].path = readers[fd].path /\ readers'[fd].live = readers[fd].live
  BY DEF KeepsNodes
<1>1. readers[fd] \in Reader
  BY DEF IInv, Types, PollType
<1>2. readers'[fd] = readers[fd] \/ readers'[fd] = [readers[fd] EXCEPT !.queue = Append(@, frame)]
  BY DEF Reports
<1> QED
  BY <1>1, <1>2 DEF Reader

LEMMA DeviceRInv == ASSUME IInv, RInv, Device PROVE RInv'
<1>1. ASSUME NEW p \in Path, Press(p) \/ Release(p) \/ Sample(p)
      PROVE  RInv'
  <2>1. PICK frame : Reports(p, frame)
    BY <1>1 DEF Press, Release, Sample
  <2>2. KeepsNodes
    BY <2>1, ReportsKeepsNodes
  <2>3. UNCHANGED <<present, unnoticed, inotify, wake, pc, todo>>
    BY <1>1 DEF Press, Release, Sample, control, devices
  <2>4. pc' # "flush" => todo = <<>>
    BY <2>3 DEF RInv, Phases
  <2>5. Flushed' => Flushed
    BY <2>3 DEF Flushed
  <2> QED
    BY <2>2, <2>3, <2>4, <2>5, SameNodes
<1> QED
  BY <1>1, PlugRInv, UnplugRInv DEF Device

LEMMA InputThreadRInv == ASSUME IInv, RInv, InputThread PROVE RInv'
<1> USE DEF RInv
<1>1. CASE FlushDone
  <2>1. /\ KeepsNodes /\ UNCHANGED <<present, unnoticed, inotify, todo>>
        /\ pc = "flush" /\ todo = <<>> /\ pc' = "poll"
    BY <1>1 DEF FlushDone, KeepsNodes, devices, poll
  <2>2. Flushed' => Flushed
    BY <2>1 DEF Flushed
  <2> QED
    BY <2>1, <2>2, SameNodes
<1>2. CASE Poll
  <2>1. /\ KeepsNodes /\ UNCHANGED <<present, unnoticed, inotify, todo>>
        /\ pc = "poll" /\ pc' = "handle"
    BY <1>2 DEF Poll, KeepsNodes, devices, poll
  <2>2. ~Flushed' /\ todo = <<>>
    BY <2>1 DEF Flushed, Phases
  <2> QED
    BY <2>1, <2>2, SameNodes
<1>3. CASE PollFails \/ LoopDone
  <2>1. /\ FlushPendingReaders /\ pc \in {"poll", "handle"}
        /\ UNCHANGED <<present, unnoticed, watching, notices, addPending, removePending, readers>>
    BY <1>3 DEF PollFails, LoopDone, devices, inotify, poll
  <2>2. watching
    BY <2>1 DEF Phases
  <2>3. watching' = TRUE
    BY <2>1, <2>2 DEF IInv, Types, InotifyType
  <2> QED
    BY <2>1, <2>3, FlushRInv
<1>4. CASE HandleInput
  <2>1. /\ UNCHANGED <<present, unnoticed, inotify, todo>>
        /\ pc = "handle" /\ pc' \in {"handle", "parse"}
    BY <1>4 DEF HandleInput, devices
  <2>2. KeepsNodes
    <3>1. PICK fd : readers' = readers \/ readers' = [readers EXCEPT ![fd].queue = <<>>]
      BY <1>4 DEF HandleInput
    <3>2. readers \in [ReaderFd -> Reader]
      BY DEF IInv, Types, PollType
    <3> QED
      BY <3>1, <3>2 DEF KeepsNodes, Reader
  <2>3. ~Flushed' /\ todo = <<>>
    BY <2>1 DEF Flushed, Phases
  <2> QED
    BY <2>1, <2>2, <2>3, SameNodes
<1>5. CASE Parse
  <2>1. /\ UNCHANGED <<present, unnoticed, inotify, todo>>
        /\ pc = "parse" /\ pc' \in {"handle", "parse"}
    BY <1>5 DEF Parse, devices
  <2>2. KeepsNodes
    <3>1. PICK x, y : readers' = [readers EXCEPT ![reading].pressed = x, ![reading].useEvtKey = y]
      BY <1>5 DEF Parse
    <3>2. readers \in [ReaderFd -> Reader]
      BY DEF IInv, Types, PollType
    <3>3. readers' = [readers EXCEPT ![reading] = [readers[reading] EXCEPT !.pressed = x, !.useEvtKey = y]]
      BY <3>1
    <3>4. reading \in ReaderFd
      BY <2>1 DEF IInv, HandledExists
    <3>5. /\ readers'[reading] = [readers[reading] EXCEPT !.pressed = x, !.useEvtKey = y]
          /\ \A fd \in ReaderFd : fd # reading => readers'[fd] = readers[fd]
      BY <3>2, <3>3, <3>4
    <3>6. readers[reading] \in Reader
      BY <3>2, <3>4
    <3>7. readers'[reading].path = readers[reading].path /\ readers'[reading].live = readers[reading].live
      BY <3>5, <3>6 DEF Reader
    <3> QED
      BY <3>5, <3>7 DEF KeepsNodes
  <2>3. ~Flushed' /\ todo = <<>>
    BY <2>1 DEF Flushed, Phases
  <2> QED
    BY <2>1, <2>2, <2>3, SameNodes
<1> QED
  BY <1>1, <1>2, <1>3, <1>4, <1>5, FlushOneRInv DEF InputThread

LEMMA NextRInv == IInv /\ RInv /\ [Next]_vars => RInv'
<1> SUFFICES ASSUME IInv, RInv, [Next]_vars
             PROVE  RInv'
  OBVIOUS
<1>1. CASE UNCHANGED vars
  <2>1. /\ KeepsNodes /\ UNCHANGED <<present, unnoticed, inotify, todo, pc, wake>>
    BY <1>1 DEF vars, devices, control, poll, KeepsNodes
  <2>2. Flushed' => Flushed
    BY <2>1 DEF Flushed
  <2>3. pc' # "flush" => todo = <<>>
    BY <2>1 DEF RInv, Phases
  <2> QED
    BY <2>1, <2>2, <2>3, SameNodes
<1> QED
  BY <1>1, StartUpRInv, DeviceRInv, NoticeRInv, InputThreadRInv DEF Next

LEMMA InitRInv == Init => RInv
<1> SUFFICES ASSUME Init
             PROVE  RInv
  OBVIOUS
<1>1. \A fd \in ReaderFd : readers[fd].path = NoPath /\ ~readers[fd].live
  BY DEF Init, Closed
<1>2. Phases /\ TodoOrder /\ Reconciling /\ UnopenedIsCreated
  BY DEF Init, Phases, TodoOrder, Reconciling, UnopenedIsCreated, Flushed
<1>3. OneReaderEach /\ LiveIsPresent
  BY <1>1 DEF OneReaderEach, LiveIsPresent
<1>4. ComeBack
  BY RangeEmpty DEF Init, ComeBack, Deleted
<1>5. DeadIsDeleted
  BY <1>1, PathAssumption DEF DeadIsDeleted, Dead, ReadersOf
<1> QED
  BY <1>2, <1>3, <1>4, <1>5 DEF RInv

\* Devices, notices, pending lists and readers go together at every moment.
THEOREM NodesInvariance == Spec => []RInv
  BY InitRInv, NextRInv, Invariance, PTL DEF Spec

\* At rest no reader is of a device that vanished, and no device lacks one.
LEMMA AtRest ==
    ASSUME IInv, RInv, Rested, NEW p \in Path \ unnoticed
    PROVE  ~Dead(p) /\ (p \in present => ReadersOf(p) # {})
<1> USE DEF RInv, Rested
<1>1. /\ ~Noticed(p) /\ Range(notices) = {}
      /\ Range(todo) = {} /\ Flushed /\ pc # "scan"
  BY RangeEmpty DEF Noticed, Phases, Flushed
<1>2. p \in present => ReadersOf(p) # {}
  <2>1. p \in present /\ ReadersOf(p) = {} => p \in Range(addPending)
    BY <1>1 DEF UnopenedIsCreated, Created
  <2> QED
    BY <1>1, <2>1 DEF Reconciling
<1>3. ~Dead(p)
  <2>1. Dead(p) => p \in Range(removePending)
    BY <1>1 DEF DeadIsDeleted, Deleted
  <2> QED
    BY <1>1, <2>1 DEF Reconciling
<1> QED
  BY <1>2, <1>3

\* FlushPendingReaders works off, from two lists that keep their entries and
\* lose the order between them, what OnInputDevUpdated was told: when nothing
\* is left to handle, exactly the devices that are there have a reader.
THEOREM ReadersFollow == Spec => []ReadersFollowDevices
<1>1. IInv /\ RInv => ReadersFollowDevices
  <2> SUFFICES ASSUME IInv, RInv, Rested, NEW p \in Path \ unnoticed
               PROVE  p \in present <=> \E fd \in ReadersOf(p) : readers[fd].live
    BY DEF ReadersFollowDevices
  <2>1. ASSUME p \in present
        PROVE  \E fd \in ReadersOf(p) : readers[fd].live
    BY <2>1, AtRest DEF Dead
  <2>2. ASSUME NEW fd \in ReadersOf(p), readers[fd].live
        PROVE  p \in present
    BY <2>2 DEF LiveIsPresent, ReadersOf, RInv
  <2> QED
    BY <2>1, <2>2
<1> QED
  BY <1>1, NodesInvariance, Invariance, PTL

-----------------------------------------------------------------------------
(* What a panel has reported and nobody has looked at yet. *)

Keys == {"keydown", "keyup", "repeat"}
KeyFree(s) == \A i \in DOMAIN s : s[i] \cap Keys = {}

\* The last frame of a touch.
Off(p) == IF p \in KeyPanels THEN {"untrack", "keyup"} ELSE {"untrack"}

Parsing(fd) == pc = "parse" /\ reading = fd

\* A panel without keys never makes its reader wait for one.
KeylessAt(fd, p) ==
    p \notin KeyPanels => /\ ~readers[fd].useEvtKey
                          /\ KeyFree(readers[fd].queue)
                          /\ Parsing(fd) => KeyFree(frames)

\* With no finger left, the end of the touch is the last that waits, the last
\* that is being parsed, or has been seen.
ReleasedAt(fd, p) ==
    readers[fd].live /\ held[p] = 0 =>
        \/ readers[fd].queue # <<>> /\ Last(readers[fd].queue) = Off(p)
        \/ readers[fd].queue = <<>> /\ Parsing(fd) /\ Last(frames) = Off(p)
        \/ readers[fd].queue = <<>> /\ ~Parsing(fd) /\ ~readers[fd].pressed

PanelReaders ==
    \A fd \in ReaderFd, p \in Path :
        readers[fd].path = p /\ IsTouchPanel(p) => KeylessAt(fd, p) /\ ReleasedAt(fd, p)

\* A hold is part of a touch.
HoldIsTouch == classified.inHold => prevTouch

TInv == PanelReaders /\ HoldIsTouch

LEMMA LastAppend ==
    ASSUME NEW S, NEW s \in Seq(S), NEW e \in S
    PROVE  Append(s, e) # <<>> /\ Last(Append(s, e)) = e
<1>1. /\ Append(s, e) \in Seq(S) /\ Len(Append(s, e)) = Len(s) + 1
      /\ Append(s, e)[Len(s) + 1] = e
  BY AppendType
<1>2. Len(s) \in Nat
  BY LenProperties
<1>3. Append(s, e) # <<>>
  BY <1>1, <1>2, EmptySeq
<1> QED
  BY <1>1, <1>3 DEF Last

LEMMA LastTail ==
    ASSUME NEW S, NEW s \in Seq(S), s # <<>>
    PROVE  IF Tail(s) = <<>> THEN Last(s) = Head(s) ELSE Last(Tail(s)) = Last(s)
<1> DEFINE t == Tail(s)
<1>1. /\ Len(s) \in Nat /\ Len(s) # 0
      /\ Head(s) = s[1] /\ t \in Seq(S) /\ Len(t) = Len(s) - 1
      /\ \A i \in 1..Len(t) : t[i] = s[i + 1]
  BY LenProperties, EmptySeq, HeadTailProperties
<1> HIDE DEF t
<1>2. CASE t = <<>>
  <2>1. Len(t) = 0
    BY <1>2
  <2>2. Len(s) = 1
    BY <1>1, <2>1
  <2> QED
    BY <1>1, <1>2, <2>2 DEF Last, t
<1>3. CASE t # <<>>
  <2>1. Len(t) # 0
    BY <1>1, <1>3, EmptySeq
  <2>2. Len(s) - 1 \in 1..Len(t) /\ (Len(s) - 1) + 1 = Len(s)
    BY <1>1, <2>1
  <2>3. t[Len(s) - 1] = s[Len(s)]
    BY <1>1, <2>2
  <2> QED
    BY <1>1, <1>3, <2>3 DEF Last, t
<1> QED
  BY <1>2, <1>3

\* Steps that leave the frames where they are.
LEMMA SamePanels ==
    ASSUME PanelReaders, UNCHANGED <<readers, held>>,
           \A fd \in ReaderFd : Parsing(fd)' <=> Parsing(fd),
           pc = "parse" => UNCHANGED frames
    PROVE  PanelReaders'
<1> SUFFICES ASSUME NEW fd \in ReaderFd, NEW p \in Path, readers'[fd].path = p, IsTouchPanel(p)
             PROVE  KeylessAt(fd, p)' /\ ReleasedAt(fd, p)'
  BY DEF PanelReaders, IsTouchPanel
<1>1. KeylessAt(fd, p) /\ ReleasedAt(fd, p)
  BY DEF PanelReaders
<1>2. KeylessAt(fd, p)'
  BY <1>1 DEF KeylessAt, KeyFree, Parsing
<1>3. ReleasedAt(fd, p)'
  BY <1>1 DEF ReleasedAt, Parsing
<1> QED
  BY <1>2, <1>3

\* A device reports: from a panel without keys no key, with the last finger
\* the end of the touch.
LEMMA ReportsPanels ==
    ASSUME IInv, PanelReaders, UNCHANGED control, NEW p \in Path, NEW frame \in Frame, Reports(p, frame),
           IsTouchPanel(p) /\ p \notin KeyPanels => frame \cap Keys = {},
           IsTouchPanel(p) /\ held'[p] = 0 => frame = Off(p),
           \A q \in Path : q # p => held'[q] = held[q]
    PROVE  PanelReaders'
<1> SUFFICES ASSUME NEW fd \in ReaderFd, NEW q \in Path, readers'[fd].path = q, IsTouchPanel(q)
             PROVE  KeylessAt(fd, q)' /\ ReleasedAt(fd, q)'
  BY DEF PanelReaders, IsTouchPanel
<1>0. readers[fd] \in Reader
  BY DEF IInv, Types, PollType
<1>1. readers[fd].path = q /\ readers'[fd].live = readers[fd].live
  BY ReportsKeepsNodes DEF KeepsNodes
<1>2. KeylessAt(fd, q) /\ ReleasedAt(fd, q)
  BY <1>1 DEF PanelReaders
<1>3. Parsing(fd)' = Parsing(fd) /\ frames' = frames
  BY DEF Parsing, control
<1>4. CASE q = p /\ readers[fd].live
  <2>1. readers'[fd] = [readers[fd] EXCEPT !.queue = Append(readers[fd].queue, frame)]
    BY <1>1, <1>4 DEF Reports
  <2>2. /\ readers'[fd].queue = Append(readers[fd].queue, frame)
        /\ readers'[fd].useEvtKey = readers[fd].useEvtKey
    BY <1>0, <2>1 DEF Reader
  <2>3. readers[fd].queue \in Seq(Frame)
    BY <1>0 DEF Reader
  <2>4. readers'[fd].queue # <<>> /\ Last(readers'[fd].queue) = frame
    BY <2>2, <2>3, LastAppend
  <2>5. Range(readers'[fd].queue) = Range(readers[fd].queue) \cup {frame}
    BY <2>2, <2>3, RangeAppend
  <2>6. p \notin KeyPanels /\ KeyFree(readers[fd].queue) => KeyFree(readers'[fd].queue)
    <3>1. \A s : KeyFree(s) <=> \A f \in Range(s) : f \cap Keys = {}
      BY DEF KeyFree, Range
    <3> QED
      BY <1>4, <2>5, <3>1
  <2>7. KeylessAt(fd, q)'
    <3>1. KeyFree(frames)' = KeyFree(frames) /\ KeyFree(readers[fd].queue)' = KeyFree(readers'[fd].queue)
      BY <1>3 DEF KeyFree
    <3> QED
      BY <1>2, <1>3, <1>4, <2>2, <2>6, <3>1 DEF KeylessAt
  <2>8. ReleasedAt(fd, q)'
    BY <1>4, <2>4 DEF ReleasedAt
  <2> QED
    BY <2>7, <2>8
<1>5. CASE q = p /\ ~readers[fd].live
  <2>1. readers'[fd] = readers[fd]
    BY <1>1, <1>5 DEF Reports
  <2>2. KeylessAt(fd, q)'
    BY <1>2, <1>3, <2>1 DEF KeylessAt, KeyFree
  <2>3. ReleasedAt(fd, q)'
    BY <1>5, <2>1 DEF ReleasedAt
  <2> QED
    BY <2>2, <2>3
<1>6. CASE q # p
  <2>1. readers'[fd] = readers[fd] /\ held'[q] = held[q]
    BY <1>1, <1>6 DEF Reports
  <2>2. KeylessAt(fd, q)'
    BY <1>2, <1>3, <2>1 DEF KeylessAt, KeyFree
  <2>3. ReleasedAt(fd, q)'
    BY <1>2, <1>3, <2>1 DEF ReleasedAt
  <2> QED
    BY <2>2, <2>3
<1> QED
  BY <1>4, <1>5, <1>6

LEMMA DeviceTInv == ASSUME IInv, TInv, Device PROVE TInv'
<1> USE DEF TInv
<1>0. HoldIsTouch'
  <2>1. UNCHANGED touch
    BY DEF Device, Press, Release, Sample, Plug, Unplug
  <2> QED
    BY <2>1 DEF HoldIsTouch, touch
<1>1. ASSUME NEW p \in Path, Press(p)
      PROVE  PanelReaders'
  <2> DEFINE frame == IF ~IsTouchPanel(p) THEN {"keydown"}
                      ELSE IF p \in KeyPanels /\ held[p] = 0 THEN {"track", "keydown"}
                      ELSE {"track"}
  <2>1. Reports(p, frame) /\ held' = [held EXCEPT ![p] = @ + 1] /\ UNCHANGED control
    BY <1>1 DEF Press
  <2>2. frame \in Frame /\ (IsTouchPanel(p) /\ p \notin KeyPanels => frame \cap Keys = {})
    BY DEF Frame, Keys
  <2>3. held \in [Path -> Nat]
    BY DEF IInv, Types, DevicesType
  <2>4. held'[p] # 0 /\ \A q \in Path : q # p => held'[q] = held[q]
    BY <2>1, <2>3
  <2> HIDE DEF frame
  <2> QED
    BY <2>1, <2>2, <2>4, ReportsPanels
<1>2. ASSUME NEW p \in Path, Release(p)
      PROVE  PanelReaders'
  <2> DEFINE frame == IF ~IsTouchPanel(p) THEN {"keyup"}
                      ELSE IF p \in KeyPanels /\ held[p] = 1 THEN {"untrack", "keyup"}
                      ELSE {"untrack"}
  <2>1. /\ Reports(p, frame) /\ held' = [held EXCEPT ![p] = @ - 1] /\ UNCHANGED control
        /\ held[p] > 0
    BY <1>2 DEF Release
  <2>2. frame \in Frame /\ (IsTouchPanel(p) /\ p \notin KeyPanels => frame \cap Keys = {})
    BY DEF Frame, Keys
  <2>3. held \in [Path -> Nat]
    BY DEF IInv, Types, DevicesType
  <2>4. \A q \in Path : q # p => held'[q] = held[q]
    BY <2>1, <2>3
  <2>5. IsTouchPanel(p) /\ held'[p] = 0 => frame = Off(p)
    <3>1. held'[p] = 0 => held[p] = 1
      BY <2>1, <2>3
    <3> QED
      BY <3>1 DEF Off
  <2> HIDE DEF frame
  <2> QED
    BY <2>1, <2>2, <2>4, <2>5, ReportsPanels
<1>3. ASSUME NEW p \in Path, Sample(p)
      PROVE  PanelReaders'
  <2>1. /\ UNCHANGED <<control, held>>
        /\ \/ IsTouchPanel(p) /\ held[p] > 0 /\ Reports(p, {})
           \/ ~IsTouchPanel(p) /\ (Reports(p, {"repeat"}) \/ Reports(p, {}))
    BY <1>3 DEF Sample, devices, IsTouchPanel
  <2>2. held \in [Path -> Nat] /\ {} \in Frame /\ {"repeat"} \in Frame
    BY DEF IInv, Types, DevicesType, Frame
  <2>3. CASE IsTouchPanel(p) /\ held[p] > 0 /\ Reports(p, {})
    <3>1. held'[p] # 0
      BY <2>1, <2>2, <2>3
    <3> QED
      BY <2>1, <2>2, <2>3, <3>1, ReportsPanels
  <2>4. CASE ~IsTouchPanel(p) /\ (Reports(p, {"repeat"}) \/ Reports(p, {}))
    BY <2>1, <2>2, <2>4, ReportsPanels
  <2> QED
    BY <2>1, <2>3, <2>4
<1>4. ASSUME NEW p \in Path, Plug(p)
      PROVE  PanelReaders'
  <2>1. UNCHANGED <<readers, held, pc, reading, frames>>
    BY <1>4 DEF Plug, poll, control
  <2>2. \A fd \in ReaderFd : Parsing(fd)' <=> Parsing(fd)
    BY <2>1 DEF Parsing
  <2> QED
    BY <2>1, <2>2, SamePanels
<1>5. ASSUME NEW p \in Path, Unplug(p)
      PROVE  PanelReaders'
  <2> SUFFICES ASSUME NEW fd \in ReaderFd, NEW q \in Path, readers'[fd].path = q, IsTouchPanel(q)
               PROVE  KeylessAt(fd, q)' /\ ReleasedAt(fd, q)'
    BY DEF PanelReaders, IsTouchPanel
  <2>1. UNCHANGED <<pc, reading, frames>> /\ held' = [held EXCEPT ![p] = 0] /\ held \in [Path -> Nat]
    BY <1>5 DEF Unplug, control, IInv, Types, DevicesType
  <2>2. Parsing(fd)' = Parsing(fd)
    BY <2>1 DEF Parsing
  <2>3. readers[fd] \in Reader
    BY DEF IInv, Types, PollType
  <2>4. readers'[fd] = IF readers[fd].path = p THEN [readers[fd] EXCEPT !.live = FALSE, !.queue = <<>>]
                       ELSE readers[fd]
    BY <1>5 DEF Unplug
  <2>5. readers[fd].path = q
    BY <2>3, <2>4 DEF Reader
  <2>6. KeylessAt(fd, q) /\ ReleasedAt(fd, q)
    BY <2>5 DEF PanelReaders
  <2>7. CASE q = p
    <3>1. /\ readers'[fd].live = FALSE /\ readers'[fd].queue = <<>>
          /\ readers'[fd].useEvtKey = readers[fd].useEvtKey
      BY <2>3, <2>4, <2>5, <2>7 DEF Reader
    <3>2. KeylessAt(fd, q)'
      BY <2>1, <2>2, <2>6, <3>1 DEF KeylessAt, KeyFree
    <3>3. ReleasedAt(fd, q)'
      BY <3>1 DEF ReleasedAt
    <3> QED
      BY <3>2, <3>3
  <2>8. CASE q # p
    <3>1. readers'[fd] = readers[fd] /\ held'[q] = held[q]
      BY <2>1, <2>4, <2>5, <2>8
    <3>2. KeylessAt(fd, q)'
      BY <2>1, <2>2, <2>6, <3>1 DEF KeylessAt, KeyFree
    <3>3. ReleasedAt(fd, q)'
      BY <2>1, <2>2, <2>6, <3>1 DEF ReleasedAt
    <3> QED
      BY <3>2, <3>3
  <2> QED
    BY <2>7, <2>8
<1> QED
  BY <1>0, <1>1, <1>2, <1>3, <1>4, <1>5 DEF Device

\* The steps in which no reader changes and none is being parsed.
LEMMA OtherTInv ==
    ASSUME IInv, TInv, InitDone \/ Start \/ OnInputDevUpdated \/ FlushDone \/ Poll \/ PollFails \/ LoopDone
    PROVE  TInv'
<1> USE DEF TInv
<1>1. UNCHANGED <<readers, held, touch>>
  BY DEF InitDone, Start, OnInputDevUpdated, FlushDone, Poll, PollFails, LoopDone, devices, poll
<1>2. \/ pc # "parse" /\ pc' # "parse"
      \/ UNCHANGED <<pc, reading, frames>>
  BY DEF InitDone, Start, OnInputDevUpdated, FlushDone, Poll, PollFails, LoopDone, control,
         FlushPendingReaders
<1>3. \A fd \in ReaderFd : Parsing(fd)' <=> Parsing(fd)
  BY <1>2 DEF Parsing
<1>4. HoldIsTouch'
  BY <1>1 DEF HoldIsTouch, touch
<1> QED
  BY <1>1, <1>2, <1>3, <1>4, SamePanels

LEMMA HandleHolds ==
    ASSUME HoldIsTouch, NEW p, NEW pressed \in BOOLEAN, Handle(p, pressed)
    PROVE  HoldIsTouch'
<1>1. CASE UNCHANGED touch
  BY <1>1 DEF HoldIsTouch, touch
<1>2. CASE HandleTouchInput(pressed)
  <2>1. prevTouch' = pressed /\ (classified'.inHold => pressed)
    BY <1>2 DEF HandleTouchInput
  <2> QED
    BY <2>1 DEF HoldIsTouch
<1> QED
  BY <1>1, <1>2 DEF Handle

\* A reader that is opened starts with nothing; one that is closed is of no panel.
LEMMA OpenCloseTInv ==
    ASSUME IInv, TInv, NEW p \in Path, pc \in {"scan", "flush"}, UNCHANGED <<pc, held>>,
           \/ AddReader(p) /\ UNCHANGED touch
           \/ RemoveReader(p)
    PROVE  TInv'
<1> USE DEF TInv
<1>1. ASSUME UNCHANGED readers
      PROVE  PanelReaders'
  <2>1. \A fd \in ReaderFd : Parsing(fd)' <=> Parsing(fd)
    BY DEF Parsing
  <2> QED
    BY <1>1, <2>1, SamePanels
<1>2. ASSUME NEW fd \in ReaderFd, NEW new \in {Opened(p), Closed}, readers' = [readers EXCEPT ![fd] = new]
      PROVE  PanelReaders'
  <2> SUFFICES ASSUME NEW fd1 \in ReaderFd, NEW q \in Path, readers'[fd1].path = q, IsTouchPanel(q)
               PROVE  KeylessAt(fd1, q)' /\ ReleasedAt(fd1, q)'
    BY DEF PanelReaders, IsTouchPanel
  <2>1. ~Parsing(fd1) /\ ~Parsing(fd1)'
    BY DEF Parsing
  <2>2. readers \in [ReaderFd -> Reader]
    BY DEF IInv, Types, PollType
  <2>3. CASE fd1 = fd
    <3>1. readers'[fd1] = new
      BY <1>2, <2>2, <2>3
    <3>2. new.queue = <<>> /\ new.pressed = FALSE /\ new.useEvtKey = FALSE
      BY DEF Opened, Closed
    <3>3. KeylessAt(fd1, q)'
      BY <2>1, <3>1, <3>2 DEF KeylessAt, KeyFree
    <3>4. ReleasedAt(fd1, q)'
      BY <2>1, <3>1, <3>2 DEF ReleasedAt
    <3> QED
      BY <3>3, <3>4
  <2>4. CASE fd1 # fd
    <3>1. readers'[fd1] = readers[fd1]
      BY <1>2, <2>2, <2>4
    <3>2. KeylessAt(fd1, q) /\ ReleasedAt(fd1, q)
      BY <3>1 DEF PanelReaders
    <3>3. KeylessAt(fd1, q)'
      BY <2>1, <3>1, <3>2 DEF KeylessAt, KeyFree
    <3>4. ReleasedAt(fd1, q)'
      BY <2>1, <3>1, <3>2 DEF ReleasedAt
    <3> QED
      BY <3>3, <3>4
  <2> QED
    BY <2>3, <2>4
<1>3. CASE AddReader(p) /\ UNCHANGED touch
  <2>1. HoldIsTouch'
    BY <1>3 DEF HoldIsTouch, touch
  <2>2. UNCHANGED readers \/ \E fd \in ReaderFd : readers' = [readers EXCEPT ![fd] = Opened(p)]
    BY <1>3 DEF AddReader, poll
  <2> QED
    BY <1>1, <1>2, <2>1, <2>2
<1>4. CASE RemoveReader(p)
  <2>1. HoldIsTouch'
    <3>1. UNCHANGED touch \/ Handle(p, FALSE)
      BY <1>4 DEF RemoveReader
    <3> QED
      BY <3>1, HandleHolds DEF HoldIsTouch, touch
  <2>2. UNCHANGED readers \/ \E fd \in ReaderFd : readers' = [readers EXCEPT ![fd] = Closed]
    BY <1>4 DEF RemoveReader, poll, ReadersOf
  <2> QED
    BY <1>1, <1>2, <2>1, <2>2
<1> QED
  BY <1>3, <1>4

\* What waited in a reader is what is parsed next.
LEMMA HandleInputTInv == ASSUME IInv, TInv, HandleInput PROVE TInv'
<1> USE DEF TInv
<1>0. HoldIsTouch'
  BY DEF HandleInput, HoldIsTouch, touch
<1>1. pc = "handle" /\ UNCHANGED held
  BY DEF HandleInput, devices
<1>2. PICK i \in ready :
         \/ pollfds[i] = PipeFd /\ UNCHANGED <<pc, reading, frames, readers>>
         \/ /\ pollfds[i] # PipeFd
            /\ frames' = readers[pollfds[i]].queue
            /\ readers' = [readers EXCEPT ![pollfds[i]].queue = <<>>]
            /\ \/ frames' = <<>> /\ UNCHANGED <<pc, reading>>
               \/ frames' # <<>> /\ pc' = "parse" /\ reading' = pollfds[i]
  BY DEF HandleInput
<1>3. CASE UNCHANGED <<pc, reading, frames, readers>>
  <2>1. \A fd \in ReaderFd : Parsing(fd)' <=> Parsing(fd)
    BY <1>3 DEF Parsing
  <2> QED
    BY <1>0, <1>1, <1>3, <2>1, SamePanels
<1>4. ASSUME NEW rd \in Fd, rd # PipeFd, frames' = readers[rd].queue,
             readers' = [readers EXCEPT ![rd].queue = <<>>],
             \/ frames' = <<>> /\ UNCHANGED <<pc, reading>>
             \/ frames' # <<>> /\ pc' = "parse" /\ reading' = rd
      PROVE  PanelReaders'
  <2> SUFFICES ASSUME NEW fd \in ReaderFd, NEW p \in Path, readers'[fd].path = p, IsTouchPanel(p)
               PROVE  KeylessAt(fd, p)' /\ ReleasedAt(fd, p)'
    BY DEF PanelReaders, IsTouchPanel
  <2>1. readers \in [ReaderFd -> Reader] /\ readers[fd] \in Reader
    BY DEF IInv, Types, PollType
  <2>2. ~Parsing(fd)
    BY <1>1 DEF Parsing
  <2>3. CASE fd # rd
    <3>1. readers'[fd] = readers[fd] /\ ~Parsing(fd)'
      BY <1>1, <1>4, <2>1, <2>3 DEF Parsing
    <3>2. KeylessAt(fd, p) /\ ReleasedAt(fd, p)
      BY <3>1 DEF PanelReaders
    <3>3. KeylessAt(fd, p)'
      BY <3>1, <3>2 DEF KeylessAt, KeyFree
    <3>4. ReleasedAt(fd, p)'
      BY <1>1, <2>2, <3>1, <3>2 DEF ReleasedAt
    <3> QED
      BY <3>3, <3>4
  <2>4. CASE fd = rd
    <3>1. readers'[fd] = [readers[fd] EXCEPT !.queue = <<>>]
      BY <1>4, <2>1, <2>4
    <3>2. /\ readers'[fd].queue = <<>> /\ readers'[fd].path = readers[fd].path
          /\ readers'[fd].live = readers[fd].live /\ readers'[fd].pressed = readers[fd].pressed
          /\ readers'[fd].useEvtKey = readers[fd].useEvtKey
      BY <2>1, <3>1 DEF Reader
    <3>3. KeylessAt(fd, p) /\ ReleasedAt(fd, p)
      BY <3>2 DEF PanelReaders
    <3>4. Parsing(fd)' <=> frames' # <<>>
      BY <1>1, <1>4, <2>4 DEF Parsing
    <3>5. frames' = readers[fd].queue
      BY <1>4, <2>4
    <3>6. KeylessAt(fd, p)'
      BY <3>2, <3>3, <3>5 DEF KeylessAt, KeyFree
    <3>7. ReleasedAt(fd, p)'
      BY <1>1, <2>2, <3>2, <3>3, <3>4, <3>5 DEF ReleasedAt
    <3> QED
      BY <3>6, <3>7
  <2> QED
    BY <2>3, <2>4
<1>5. CASE pollfds[i] # PipeFd /\ ~UNCHANGED <<pc, reading, frames, readers>>
  <2>1. pollfds[i] \in Fd
    BY <1>1 DEF IInv, HandledExists
  <2>2. PanelReaders'
    BY <1>2, <1>4, <1>5, <2>1
  <2> QED
    BY <1>0, <2>2
<1> QED
  BY <1>2, <1>3, <1>5

\* The end of a touch is parsed as its end, by a reader with keys and by one
\* without.
LEMMA ParseTInv == ASSUME IInv, TInv, Parse PROVE TInv'
<1> USE DEF TInv
<1> DEFINE pressed == Pressed(readers[reading], Head(frames))
           path == readers[reading].path
           useEvtKey == \/ readers[reading].useEvtKey
                        \/ IsTouchPanel(path) /\ {"keydown", "keyup"} \cap Head(frames) # {}
<1>1. /\ pc = "parse" /\ UNCHANGED held
      /\ frames' = Tail(frames)
      /\ \/ frames' # <<>> /\ UNCHANGED <<pc, reading>>
         \/ frames' = <<>> /\ pc' = "handle" /\ reading' = PipeFd
  BY DEF Parse, devices
<1>2. /\ readers' = [readers EXCEPT ![reading].pressed = pressed, ![reading].useEvtKey = useEvtKey]
      /\ UNCHANGED touch \/ Handle(path, pressed)
  BY DEF Parse
<1>3. reading \in ReaderFd /\ path \in Path /\ frames # <<>> /\ frames \in Seq(Frame)
      /\ readers \in [ReaderFd -> Reader] /\ readers[reading] \in Reader
  BY <1>1 DEF HandledExists, IInv, Types, ControlType, PollType
<1>4. pressed \in BOOLEAN
  <2>1. readers[reading].pressed \in BOOLEAN
    BY <1>3 DEF Reader
  <2>2. \/ pressed = ("keydown" \in Head(frames))
        \/ pressed = readers[reading].pressed
        \/ pressed = ("track" \in Head(frames))
    BY DEF Pressed
  <2>3. ("keydown" \in Head(frames)) \in BOOLEAN /\ ("track" \in Head(frames)) \in BOOLEAN
    OBVIOUS
  <2> QED
    BY <2>1, <2>2, <2>3, Zenon
<1>5. HoldIsTouch'
  <2>1. CASE UNCHANGED touch
    BY <2>1 DEF HoldIsTouch, touch
  <2>2. CASE Handle(path, pressed)
    BY <1>4, <2>2, HandleHolds
  <2> QED
    BY <1>2, <2>1, <2>2
<1>6. PanelReaders'
  <2> SUFFICES ASSUME NEW fd \in ReaderFd, NEW p \in Path, readers'[fd].path = p, IsTouchPanel(p)
               PROVE  KeylessAt(fd, p)' /\ ReleasedAt(fd, p)'
    BY DEF PanelReaders, IsTouchPanel
  <2>1. CASE fd # reading
    <3>1. readers'[fd] = readers[fd]
      BY <1>2, <1>3, <2>1
    <3>2. ~Parsing(fd) /\ ~Parsing(fd)'
      BY <1>1, <2>1, FdAssumption DEF Parsing
    <3>3. KeylessAt(fd, p) /\ ReleasedAt(fd, p)
      BY <3>1 DEF PanelReaders
    <3>4. KeylessAt(fd, p)'
      BY <3>1, <3>2, <3>3 DEF KeylessAt, KeyFree
    <3>5. ReleasedAt(fd, p)'
      BY <1>1, <3>1, <3>2, <3>3 DEF ReleasedAt
    <3> QED
      BY <3>4, <3>5
  <2>2. CASE fd = reading
    <3> DEFINE new == [readers[reading] EXCEPT !.pressed = pressed, !.useEvtKey = useEvtKey]
    <3> HIDE DEF pressed, useEvtKey
    <3>1. readers' = [readers EXCEPT ![reading] = new]
      BY <1>2
    <3>2. readers'[fd] = new
      BY <1>3, <2>2, <3>1
    <3>3. /\ new.pressed = pressed /\ new.useEvtKey = useEvtKey
          /\ new.path = path /\ new.live = readers[fd].live /\ new.queue = readers[fd].queue
      BY <1>3, <2>2 DEF Reader
    <3> HIDE DEF new
    <3>4. path = p /\ readers[fd].path = p /\ Parsing(fd)
      BY <1>1, <2>2, <3>2, <3>3 DEF Parsing
    <3>5. KeylessAt(fd, p) /\ ReleasedAt(fd, p)
      BY <3>4 DEF PanelReaders
    <3>6. Parsing(fd)' <=> frames' # <<>>
      BY <1>1, <2>2 DEF Parsing
    <3>7. IF frames' = <<>> THEN Last(frames) = Head(frames) ELSE Last(frames') = Last(frames)
      BY <1>1, <1>3, LastTail
    <3>8. /\ Head(frames) = frames[1] /\ 1 \in DOMAIN frames
          /\ \A i \in DOMAIN Tail(frames) : i + 1 \in DOMAIN frames /\ Tail(frames)[i] = frames[i + 1]
      BY <1>3, TailIndex
    <3>9. p \notin KeyPanels => Head(frames) \cap Keys = {} /\ KeyFree(frames') /\ ~readers[fd].useEvtKey
      BY <1>1, <3>4, <3>5, <3>8 DEF KeylessAt, KeyFree
    <3>10. KeylessAt(fd, p)'
      <4>1. p \notin KeyPanels => ~useEvtKey
        BY <2>2, <3>9 DEF useEvtKey, Keys
      <4>2. p \notin KeyPanels => KeyFree(readers[fd].queue)
        BY <3>5 DEF KeylessAt
      <4> QED
        BY <3>2, <3>3, <3>9, <4>1, <4>2 DEF KeylessAt, KeyFree
    <3>11. Head(frames) = Off(p) => ~pressed
      <4>1. CASE p \in KeyPanels
        BY <4>1 DEF Off, pressed, Pressed
      <4>2. CASE p \notin KeyPanels
        BY <2>2, <3>9, <4>2 DEF Off, pressed, Pressed
      <4> QED
        BY <4>1, <4>2
    <3>12. ReleasedAt(fd, p)'
      <4> SUFFICES ASSUME readers[fd].live, held[p] = 0
                   PROVE  \/ readers[fd].queue # <<>> /\ Last(readers[fd].queue) = Off(p)
                          \/ readers[fd].queue = <<>> /\ frames' # <<>> /\ Last(frames') = Off(p)
                          \/ readers[fd].queue = <<>> /\ frames' = <<>> /\ ~pressed
        BY <1>1, <3>2, <3>3, <3>6 DEF ReleasedAt
      <4>1. \/ readers[fd].queue # <<>> /\ Last(readers[fd].queue) = Off(p)
            \/ readers[fd].queue = <<>> /\ Last(frames) = Off(p)
        BY <3>4, <3>5 DEF ReleasedAt
      <4> QED
        BY <4>1, <3>7, <3>11
    <3> QED
      BY <3>10, <3>12
  <2> QED
    BY <2>1, <2>2
<1> QED
  BY <1>5, <1>6

LEMMA NextTInv == IInv /\ TInv /\ [Next]_vars => TInv'
<1> SUFFICES ASSUME IInv, TInv, [Next]_vars
             PROVE  TInv'
  OBVIOUS
<1>1. CASE UNCHANGED vars
  <2>1. UNCHANGED <<readers, held, pc, reading, frames, touch>>
    BY <1>1 DEF vars, devices, control, poll
  <2>2. \A fd \in ReaderFd : Parsing(fd)' <=> Parsing(fd)
    BY <2>1 DEF Parsing
  <2>3. HoldIsTouch'
    BY <2>1 DEF TInv, HoldIsTouch, touch
  <2> QED
    BY <2>1, <2>2, <2>3, SamePanels DEF TInv
<1>2. ASSUME NEW p \in Path, InitReaders(p)
      PROVE  TInv'
  BY <1>2, OpenCloseTInv DEF InitReaders, control, devices
<1>3. CASE FlushOne
  <2>1. Head(todo)[2] \in Path
    <3>1. todo \in Seq({"add", "remove"} \X Path) /\ todo # <<>>
      BY <1>3 DEF FlushOne, IInv, Types, ControlType
    <3>2. Head(todo) \in {"add", "remove"} \X Path
      BY <3>1, TailIndex
    <3> QED
      BY <3>2
  <2>2. /\ pc = "flush" /\ UNCHANGED <<pc, held>>
        /\ \/ AddReader(Head(todo)[2]) /\ UNCHANGED touch
           \/ RemoveReader(Head(todo)[2])
    BY <1>3 DEF FlushOne, devices
  <2> QED
    BY <2>1, <2>2, OpenCloseTInv
<1> QED
  BY <1>1, <1>2, <1>3, DeviceTInv, OtherTInv, HandleInputTInv, ParseTInv DEF Next, StartUp, InputThread

LEMMA InitTInv == Init => TInv
<1> SUFFICES ASSUME Init
             PROVE  TInv
  OBVIOUS
<1>1. \A fd \in ReaderFd : readers[fd].path = NoPath
  BY DEF Init, Closed
<1>2. PanelReaders
  BY <1>1, PathAssumption DEF PanelReaders
<1>3. HoldIsTouch
  BY DEF Init, HoldIsTouch
<1> QED
  BY <1>2, <1>3 DEF TInv

\* The end of every touch is still to be read, or has been.
THEOREM PanelInvariance == Spec => []TInv
  BY InitTInv, NextTInv, Invariance, PTL DEF Spec

\* HandleTouchInput has published, when nothing is left to read and no finger
\* is on any panel, the end of the touch and of the hold: whether the panel has
\* BTN_TOUCH or not, was opened in the middle of a touch or vanished during it.
THEOREM NoTouchIsLeft == Spec => []NoPhantomTouch
<1>1. IInv /\ RInv /\ TInv => NoPhantomTouch
  <2> SUFFICES ASSUME IInv, RInv, TInv, Rested,
                      \A p \in Path \ unnoticed : IsTouchPanel(p) => held[p] = 0,
                      \A p \in unnoticed : ~IsTouchPanel(p)
               PROVE  ~touchPressed /\ ~classified.inHold
    BY DEF NoPhantomTouch
  <2>1. ASSUME touchPressed
        PROVE  FALSE
    <3>1. PICK fd \in ReaderFd : readers[fd].pressed /\ IsTouchPanel(readers[fd].path)
      BY <2>1 DEF IInv, TouchIsBacked
    <3>2. PICK p \in Path : readers[fd].path = p
      <4>1. readers[fd] \in Reader
        BY DEF IInv, Types, PollType
      <4>2. readers[fd].path # NoPath
        BY <3>1 DEF IInv, ClosedReaders, Closed
      <4> QED
        BY <4>1, <4>2 DEF Reader
    <3>3. p \notin unnoticed /\ held[p] = 0
      BY <3>1, <3>2
    <3>4. readers[fd].live
      BY <3>2, <3>3, AtRest DEF Dead, ReadersOf
    <3>5. ReleasedAt(fd, p)
      BY <3>1, <3>2 DEF TInv, PanelReaders
    <3>6. readers[fd].queue = <<>> /\ ~Parsing(fd)
      BY DEF Rested, Parsing
    <3> QED
      BY <3>1, <3>3, <3>4, <3>5, <3>6 DEF ReleasedAt
  <2>2. classified.inHold => touchPressed
    BY DEF TInv, HoldIsTouch, IInv, LastIsPublished
  <2> QED
    BY <2>1, <2>2
<1> QED
  BY <1>1, PanelInvariance, NodesInvariance, Invariance, PTL

-----------------------------------------------------------------------------
(* The size of the poll set. *)

AtMostOne(S) == \A p, q \in S : p = q

\* The nodes that have taken a slot of their own: those with a reader, and those
\* that vanished once.
Counted == Range(removePending) \cup {p \in Path : ReadersOf(p) # {}}

\* There is a slot for each of them; and if only p comes and goes, a slot is
\* free, or one is left to be added, while p has no reader.
PollSetRoom ==
    /\ AtMostOne(Replugged) => Len(pollfds) <= 1 + Cardinality(Counted)
    /\ \A p \in Path : Replugged \subseteq {p} /\ p \in Range(removePending) /\ ReadersOf(p) = {} =>
          \/ Unused \in Range(pollfds)
          \/ Len(pollfds) <= Cardinality(Counted)
          \/ Len(pollfds) > NoFile

LEMMA CountedType ==
    ASSUME IInv
    PROVE  /\ Counted \subseteq Path /\ IsFiniteSet(Counted)
           /\ Cardinality(Counted) \in Nat /\ Cardinality(Counted) <= Cardinality(Path)
           /\ Len(pollfds) \in Nat
<1>1. Range(removePending) \subseteq Path
  <2>1. removePending \in Seq(Path)
    BY DEF IInv, Types, InotifyType
  <2> QED
    BY <2>1, ElementOfSeq, LenProperties DEF Range
<1>2. Counted \subseteq Path
  BY <1>1 DEF Counted
<1>3. Len(pollfds) \in Nat
  BY LenProperties DEF IInv, Types, PollType
<1> QED
  BY <1>2, <1>3, PathAssumption, FS_Subset, FS_CardinalityType

LEMMA AddPollGrows ==
    ASSUME IInv, NEW fd \in ReaderFd, AddPoll(fd)
    PROVE  /\ Len(pollfds') \in {Len(pollfds), Len(pollfds) + 1}
           /\ Unused \in Range(pollfds) \/ Len(pollfds) > NoFile => Len(pollfds') = Len(pollfds)
<1> DEFINE S == Fd \cup {Unused}
<1>1. pollfds \in Seq(S) /\ fd \in S
  BY DEF IInv, Types, PollType, ReaderFd
<1> HIDE DEF S
<1>2. CASE Unused \in Range(pollfds)
  <2>1. pollfds' = [i \in 1..Len(pollfds) |-> IF pollfds[i] = Unused THEN fd ELSE pollfds[i]]
    BY <1>2 DEF AddPoll, ReplaceAll
  <2>2. \A i \in 1..Len(pollfds) : pollfds[i] \in S
    BY <1>1, ElementOfSeq
  <2>3. pollfds' \in [1..Len(pollfds) -> S]
    BY <2>1, <2>2, <1>1
  <2>4. Len(pollfds') = Len(pollfds)
    BY <2>3, <1>1, SeqDef, LenProperties
  <2> QED
    BY <2>4
<1>3. CASE Unused \notin Range(pollfds) /\ Len(pollfds) > NoFile
  BY <1>3 DEF AddPoll
<1>4. CASE Unused \notin Range(pollfds) /\ ~(Len(pollfds) > NoFile)
  BY <1>1, <1>4, AppendType DEF AddPoll
<1> QED
  BY <1>2, <1>3, <1>4

\* A descriptor that is in the poll set has a first slot, which is freed.
LEMMA RemovePollFrees ==
    ASSUME IInv, NEW fd \in ReaderFd, RemovePoll(fd)
    PROVE  /\ Len(pollfds') = Len(pollfds)
           /\ Unused \in Range(pollfds) => Unused \in Range(pollfds')
           /\ Len(pollfds) <= NoFile /\ readers[fd].path # NoPath => Unused \in Range(pollfds')
<1>1. /\ Len(pollfds') = Len(pollfds)
      /\ DOMAIN pollfds' = DOMAIN pollfds
      /\ \A i \in DOMAIN pollfds : pollfds[i] # fd => pollfds'[i] = pollfds[i]
  BY RemovePollKeeps DEF IInv, Types
<1>2. Unused # fd
  BY FdAssumption DEF ReaderFd
<1>3. Unused \in Range(pollfds) => Unused \in Range(pollfds')
  BY <1>1, <1>2 DEF Range
<1>4. ASSUME Len(pollfds) <= NoFile, readers[fd].path # NoPath
      PROVE  Unused \in Range(pollfds')
  <2> DEFINE R == OpToRel(<, Nat)
             T == {i \in DOMAIN pollfds : pollfds[i] = fd}
  <2>1. IsWellFoundedOn(R, Nat)
    BY NatLessThanWellFounded, Zenon
  <2>2. \A i, j \in Nat : j < i => <<j, i>> \in R
    BY DEF R, OpToRel
  <2> HIDE DEF R
  <2>3. DOMAIN pollfds = 1..Len(pollfds) /\ Len(pollfds) \in Nat
    BY LenProperties DEF IInv, Types, PollType
  <2>4. T \subseteq Nat /\ T # {}
    BY <1>4, <2>3 DEF IInv, OpenIsPolled
  <2> HIDE DEF T
  <2>5. PICK i \in T : \A j \in T : ~ (<<j, i>> \in R)
    BY <2>1, <2>4, WFMin
  <2>6. i \in DOMAIN pollfds /\ pollfds[i] = fd
    BY <2>5 DEF T
  <2>7. \A j \in 1..(i - 1) : pollfds[j] # fd
    <3> SUFFICES ASSUME NEW j \in 1..(i - 1), pollfds[j] = fd
                 PROVE  FALSE
      OBVIOUS
    <3>1. j \in DOMAIN pollfds /\ j \in Nat /\ i \in Nat /\ j < i
      BY <2>3, <2>6
    <3>2. j \in T
      BY <3>1 DEF T
    <3> QED
      BY <2>2, <2>5, <3>1, <3>2
  <2>8. pollfds'[i] = Unused
    BY <2>6, <2>7 DEF RemovePoll
  <2> QED
    BY <1>1, <2>6, <2>8 DEF Range
<1> QED
  BY <1>1, <1>3, <1>4

LEMMA SameRoom ==
    ASSUME PollSetRoom, UNCHANGED <<addPending, removePending, pollfds>>,
           \A p \in Path : ReadersOf(p)' = ReadersOf(p)
    PROVE  PollSetRoom'
<1>1. Counted' = Counted /\ Replugged' = Replugged
  BY DEF Counted, Replugged
<1> QED
  BY <1>1 DEF PollSetRoom

\* A node is opened for the first time, or is the one that comes and goes.
LEMMA AddReaderRoom ==
    ASSUME IInv, RInv, PollSetRoom, NEW p \in Path, AddReader(p), UNCHANGED <<present, addPending, removePending>>,
           p \in Range(addPending) \/ removePending = <<>>
    PROVE  PollSetRoom'
<1> DEFINE N == Cardinality(Counted)
<1>0. /\ Counted \subseteq Path /\ IsFiniteSet(Counted)
      /\ N \in Nat /\ Len(pollfds) \in Nat /\ NoFile \in Nat
  BY CountedType, BoundAssumption
<1>1. CASE UNCHANGED poll
  BY <1>1, SameRoom DEF ReadersOf, poll
<1>2. ASSUME NEW fd \in ReaderFd, AddPoll(fd), ReadersOf(p) = {}, p \in present
      PROVE  PollSetRoom'
  <2>1. /\ \A q \in Path : q # p => ReadersOf(q)' = ReadersOf(q)
        /\ ReadersOf(p)' # {}
    BY <1>2, AddReaderNodes
  <2>2. /\ Len(pollfds') \in {Len(pollfds), Len(pollfds) + 1}
        /\ Unused \in Range(pollfds) \/ Len(pollfds) > NoFile => Len(pollfds') = Len(pollfds)
    BY <1>2, AddPollGrows
  <2>3. Replugged' = Replugged /\ Range(removePending') = Range(removePending)
    BY DEF Replugged
  <2>4. Counted' = Counted \cup {p}
    BY <2>1, <2>3 DEF Counted
  <2>5. Cardinality(Counted') = IF p \in Counted THEN N ELSE N + 1
    BY <1>0, <2>4, FS_AddElement
  <2>6. p \in Counted => p \in Range(removePending) /\ p \in Replugged
    <3>1. p \in Counted => p \in Range(removePending)
      BY <1>2 DEF Counted
    <3> QED
      BY <3>1, RangeEmpty DEF Replugged
  <2>7. ASSUME AtMostOne(Replugged)
        PROVE  Len(pollfds') <= 1 + Cardinality(Counted')
    <3>1. Len(pollfds) <= 1 + N
      BY <2>7 DEF PollSetRoom
    <3>2. CASE p \notin Counted
      BY <1>0, <2>2, <2>5, <3>1, <3>2
    <3>3. CASE p \in Counted
      <4>1. Replugged \subseteq {p}
        BY <2>6, <2>7, <3>3 DEF AtMostOne
      <4>2. \/ Unused \in Range(pollfds)
            \/ Len(pollfds) <= N
            \/ Len(pollfds) > NoFile
        BY <1>2, <2>6, <3>3, <4>1 DEF PollSetRoom
      <4> QED
        BY <1>0, <2>2, <2>5, <3>1, <3>3, <4>2
    <3> QED
      BY <3>2, <3>3
  <2>8. ASSUME NEW q \in Path, Replugged \subseteq {q}, q \in Range(removePending), ReadersOf(q)' = {}
        PROVE  \/ Unused \in Range(pollfds')
               \/ Len(pollfds') <= Cardinality(Counted')
               \/ Len(pollfds') > NoFile
    <3>1. q # p /\ ReadersOf(q) = {}
      BY <2>1, <2>8
    <3>2. p \notin Counted
      BY <2>6, <2>8, <3>1
    <3>3. Len(pollfds) <= 1 + N
      BY <2>8 DEF PollSetRoom, AtMostOne
    <3>4. \/ Unused \in Range(pollfds)
          \/ Len(pollfds) <= N
          \/ Len(pollfds) > NoFile
      BY <2>8, <3>1 DEF PollSetRoom
    <3> QED
      BY <1>0, <2>2, <2>5, <3>2, <3>3, <3>4
  <2> QED
    BY <2>3, <2>7, <2>8 DEF PollSetRoom
<1> QED
  BY <1>1, <1>2 DEF AddReader

LEMMA RemoveReaderRoom ==
    ASSUME IInv, RInv, PollSetRoom, NEW p \in Path, RemoveReader(p), p \in Range(removePending),
           UNCHANGED <<present, addPending, removePending>>
    PROVE  PollSetRoom'
<1>1. CASE UNCHANGED poll
  BY <1>1, SameRoom DEF ReadersOf, poll
<1>2. ASSUME NEW fd \in ReadersOf(p), RemovePoll(fd)
      PROVE  PollSetRoom'
  <2>1. \A q \in Path : q # p => ReadersOf(q)' = ReadersOf(q)
    BY RemoveReaderNodes
  <2>2. fd \in ReaderFd /\ readers[fd].path = p /\ p # NoPath
    BY PathAssumption DEF ReadersOf
  <2>3. /\ Len(pollfds') = Len(pollfds)
        /\ Unused \in Range(pollfds) => Unused \in Range(pollfds')
        /\ Len(pollfds) <= NoFile => Unused \in Range(pollfds')
    BY <1>2, <2>2, RemovePollFrees
  <2>4. Replugged' = Replugged /\ Range(removePending') = Range(removePending) /\ Counted' = Counted
    BY <2>1 DEF Replugged, Counted
  <2>5. Len(pollfds) \in Nat /\ NoFile \in Nat
    BY CountedType, BoundAssumption
  <2> QED
    BY <2>1, <2>3, <2>4, <2>5 DEF PollSetRoom
<1> QED
  BY <1>1, <1>2 DEF RemoveReader

LEMMA NoticeRoom ==
    ASSUME IInv, PollSetRoom, OnInputDevUpdated
    PROVE  PollSetRoom'
<1> DEFINE N == Cardinality(Counted)
<1>0. /\ Counted \subseteq Path /\ IsFiniteSet(Counted)
      /\ N \in Nat /\ Len(pollfds) \in Nat /\ NoFile \in Nat
  BY CountedType, BoundAssumption
<1>1. UNCHANGED <<readers, pollfds>> /\ notices # <<>>
  BY DEF OnInputDevUpdated, poll
<1>2. \A q : ReadersOf(q)' = ReadersOf(q)
  BY <1>1 DEF ReadersOf
<1>3. addPending \in Seq(Path) /\ removePending \in Seq(Path) /\ notices \in Seq({"create", "delete"} \X Path)
  BY DEF IInv, Types, InotifyType
<1>4. Head(notices) \in {"create", "delete"} \X Path
  BY <1>1, <1>3, TailIndex
<1>5. PICK p \in Path : Head(notices) = <<"create", p>> \/ Head(notices) = <<"delete", p>>
  BY <1>4
<1>6. CASE Head(notices) = <<"create", p>>
  <2>1. addPending' = Append(addPending, p) /\ removePending' = removePending
    BY <1>6 DEF OnInputDevUpdated
  <2>2. Range(addPending') = Range(addPending) \cup {p}
    BY <1>3, <2>1, RangeAppend
  <2>3. Counted' = Counted /\ Replugged \subseteq Replugged'
    BY <1>2, <2>1, <2>2 DEF Counted, Replugged
  <2>4. AtMostOne(Replugged') => AtMostOne(Replugged)
    BY <2>3 DEF AtMostOne
  <2> QED
    BY <1>1, <1>2, <2>1, <2>3, <2>4 DEF PollSetRoom, AtMostOne
<1>7. CASE Head(notices) = <<"delete", p>>
  <2>1. removePending' = Append(removePending, p) /\ addPending' = addPending
    BY <1>7 DEF OnInputDevUpdated
  <2>2. Range(removePending') = Range(removePending) \cup {p}
    BY <1>3, <2>1, RangeAppend
  <2>3. Counted' = Counted \cup {p} /\ Replugged \subseteq Replugged'
    BY <1>2, <2>1, <2>2 DEF Counted, Replugged
  <2>4. Cardinality(Counted') = IF p \in Counted THEN N ELSE N + 1
    BY <1>0, <2>3, FS_AddElement
  <2>5. ASSUME AtMostOne(Replugged')
        PROVE  Len(pollfds) <= 1 + N
    BY <2>3, <2>5 DEF PollSetRoom, AtMostOne
  <2>6. ASSUME NEW q \in Path, Replugged' \subseteq {q}, q \in Range(removePending'), ReadersOf(q) = {}
        PROVE  \/ Unused \in Range(pollfds)
               \/ Len(pollfds) <= Cardinality(Counted')
               \/ Len(pollfds) > NoFile
    <3>1. Replugged \subseteq {q} /\ Len(pollfds) <= 1 + N
      BY <2>3, <2>5, <2>6 DEF AtMostOne
    <3>2. CASE q \in Range(removePending)
      <4>1. \/ Unused \in Range(pollfds) \/ Len(pollfds) <= N \/ Len(pollfds) > NoFile
        BY <2>6, <3>1, <3>2 DEF PollSetRoom
      <4> QED
        BY <1>0, <2>4, <4>1
    <3>3. CASE q \notin Range(removePending)
      <4>1. q = p /\ q \notin Counted
        BY <2>2, <2>6, <3>3 DEF Counted
      <4> QED
        BY <1>0, <2>4, <3>1, <4>1
    <3> QED
      BY <3>2, <3>3
  <2>7. AtMostOne(Replugged)' => Len(pollfds) <= 1 + Cardinality(Counted')
    <3>1. AtMostOne(Replugged)' = AtMostOne(Replugged')
      BY DEF AtMostOne
    <3> QED
      BY <1>0, <2>4, <2>5, <3>1
  <2> QED
    BY <1>1, <1>2, <2>6, <2>7 DEF PollSetRoom
<1> QED
  BY <1>5, <1>6, <1>7

\* Whatever opens and closes nothing leaves every reader its node.
LEMMA OtherRoom ==
    ASSUME IInv, PollSetRoom,
           \/ Device \/ InitDone \/ Start
           \/ FlushDone \/ Poll \/ PollFails \/ LoopDone \/ HandleInput \/ Parse
    PROVE  PollSetRoom'
<1>1. UNCHANGED <<addPending, removePending, pollfds>>
  BY DEF Device, Press, Release, Sample, Plug, Unplug, InitDone, Start, FlushDone, Poll, PollFails,
         LoopDone, HandleInput, Parse, inotify, poll
<1>2. \A fd \in ReaderFd : readers'[fd].path = readers[fd].path
  <2>1. readers \in [ReaderFd -> Reader]
    BY DEF IInv, Types, PollType
  <2>2. CASE UNCHANGED readers
    BY <2>2
  <2>3. ASSUME NEW p \in Path, Press(p) \/ Release(p) \/ Sample(p)
        PROVE  \A fd \in ReaderFd : readers'[fd].path = readers[fd].path
    <3>1. PICK frame : Reports(p, frame)
      BY <2>3 DEF Press, Release, Sample
    <3> QED
      BY <3>1, ReportsKeepsNodes DEF KeepsNodes
  <2>4. ASSUME NEW p \in Path, Unplug(p), NEW fd \in ReaderFd
        PROVE  readers'[fd].path = readers[fd].path
    <3>1. \/ readers'[fd] = readers[fd]
          \/ readers'[fd] = [readers[fd] EXCEPT !.live = FALSE, !.queue = <<>>]
      BY <2>4 DEF Unplug
    <3>2. readers[fd] \in Reader
      BY <2>1
    <3> QED
      BY <3>1, <3>2 DEF Reader
  <2>5. ASSUME HandleInput, NEW fd \in ReaderFd
        PROVE  readers'[fd].path = readers[fd].path
    <3>1. PICK rd : readers' = readers \/ readers' = [readers EXCEPT ![rd].queue = <<>>]
      BY <2>5 DEF HandleInput
    <3> QED
      BY <2>1, <3>1 DEF Reader
  <2>6. ASSUME Parse, NEW fd \in ReaderFd
        PROVE  readers'[fd].path = readers[fd].path
    <3>1. PICK x, y : readers' = [readers EXCEPT ![reading].pressed = x, ![reading].useEvtKey = y]
      BY <2>6 DEF Parse
    <3>2. readers' = [readers EXCEPT ![reading] = [readers[reading] EXCEPT !.pressed = x, !.useEvtKey = y]]
      BY <3>1
    <3>3. \/ readers'[fd] = readers[fd]
          \/ readers'[fd] = [readers[fd] EXCEPT !.pressed = x, !.useEvtKey = y]
      BY <2>1, <3>2
    <3>4. readers[fd] \in Reader
      BY <2>1
    <3> QED
      BY <3>3, <3>4 DEF Reader
  <2>7. \/ UNCHANGED readers \/ HandleInput \/ Parse
        \/ \E p \in Path : Press(p) \/ Release(p) \/ Sample(p) \/ Unplug(p)
    BY DEF Device, Plug, InitDone, Start, FlushDone, Poll, PollFails, LoopDone, poll
  <2> QED
    BY <2>2, <2>3, <2>4, <2>5, <2>6, <2>7
<1>3. \A p \in Path : ReadersOf(p)' = ReadersOf(p)
  BY <1>2 DEF ReadersOf
<1> QED
  BY <1>1, <1>3, SameRoom

LEMMA NextRoom == IInv /\ RInv /\ PollSetRoom /\ [Next]_vars => PollSetRoom'
<1> SUFFICES ASSUME IInv, RInv, PollSetRoom, [Next]_vars
             PROVE  PollSetRoom'
  OBVIOUS
<1>1. CASE UNCHANGED vars
  BY <1>1, SameRoom DEF vars, inotify, poll, ReadersOf
<1>2. ASSUME NEW p \in Path, InitReaders(p)
      PROVE  PollSetRoom'
  <2>1. /\ pc = "scan" /\ AddReader(p)
        /\ UNCHANGED <<present, addPending, removePending>>
    BY <1>2 DEF InitReaders, devices, inotify
  <2>2. removePending = <<>>
    BY <2>1 DEF RInv, Phases
  <2> QED
    BY <2>1, <2>2, AddReaderRoom
<1>3. CASE FlushOne
  <2>1. /\ todo # <<>> /\ UNCHANGED <<present, addPending, removePending>>
        /\ todo \in Seq({"add", "remove"} \X Path)
    BY <1>3 DEF FlushOne, devices, inotify, IInv, Types, ControlType
  <2>2. 1 \in DOMAIN todo /\ Head(todo) = todo[1] /\ Head(todo) \in {"add", "remove"} \X Path
    BY <2>1, TailIndex
  <2>3. /\ Head(todo)[2] \in Path
        /\ Head(todo)[1] = "remove" => Head(todo)[2] \in Range(removePending)
        /\ Head(todo)[1] = "add" => Head(todo)[2] \in Range(addPending)
    BY <2>2 DEF RInv, TodoOrder
  <2>4. CASE Head(todo)[1] = "remove" /\ RemoveReader(Head(todo)[2])
    BY <2>1, <2>3, <2>4, RemoveReaderRoom
  <2>5. CASE Head(todo)[1] = "add" /\ AddReader(Head(todo)[2])
    BY <2>1, <2>3, <2>5, AddReaderRoom
  <2> QED
    BY <1>3, <2>4, <2>5 DEF FlushOne
<1> QED
  BY <1>1, <1>2, <1>3, OtherRoom, NoticeRoom DEF Next, StartUp, InputThread

LEMMA InitRoom == Init => PollSetRoom
<1> SUFFICES ASSUME Init
             PROVE  PollSetRoom
  OBVIOUS
<1>1. IInv
  BY InitIInv
<1>2. Len(pollfds) = 1 /\ Range(removePending) = {}
  BY RangeEmpty DEF Init
<1>3. Cardinality(Counted) \in Nat
  BY <1>1, CountedType
<1> QED
  BY <1>2, <1>3 DEF PollSetRoom

\* AddPoll uses slots again: as long as at most one node has both come and gone,
\* the poll set never has more slots than the pipe and the nodes together,
\* though one descriptor may fill several slots and leave them one at a time.
THEOREM PollSetBounded == Spec => []PollSetIsBounded
<1>1. IInv /\ PollSetRoom => PollSetIsBounded
  <2> SUFFICES ASSUME IInv, PollSetRoom, Cardinality(Replugged) <= 1
               PROVE  Len(pollfds) <= 1 + Cardinality(Path)
    BY DEF PollSetIsBounded
  <2>1. /\ Cardinality(Counted) \in Nat /\ Cardinality(Counted) <= Cardinality(Path)
        /\ Len(pollfds) \in Nat /\ Counted \subseteq Path
    BY CountedType
  <2>2. Replugged \subseteq Path
    BY <2>1 DEF Replugged, Counted
  <2>3. IsFiniteSet(Replugged) /\ Cardinality(Replugged) \in Nat /\ Cardinality(Path) \in Nat
    BY <2>2, PathAssumption, FS_Subset, FS_CardinalityType
  <2>4. Replugged = {} \/ \E p : Replugged = {p}
    <3>1. Cardinality(Replugged) = 0 \/ Cardinality(Replugged) = 1
      BY <2>3
    <3> QED
      BY <2>3, <3>1, FS_EmptySet, FS_Singleton
  <2>5. Len(pollfds) <= 1 + Cardinality(Counted)
    BY <2>4 DEF PollSetRoom, AtMostOne
  <2> QED
    BY <2>1, <2>3, <2>5
<1>2. Spec => []PollSetRoom
  BY InitRoom, NextRoom, NodesInvariance, Invariance, PTL DEF Spec
<1> QED
  BY <1>1, <1>2, Invariance, PTL
=============================================================================
