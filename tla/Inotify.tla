------------------------------- MODULE Inotify -------------------------------
(***************************************************************************)
(* utils/inotify.cpp with one watched path, as the daemon process uses it: *)
(* WaitAndHandle reads what the kernel has noticed and, when the file was  *)
(* deleted or moved, makes sure that there is a file and watches it again. *)
(*                                                                         *)
(* A file is an inode.  The kernel has one watch per inode and instance,   *)
(* and never gives a watch descriptor a second time, so the descriptor of  *)
(* a watch IS its inode.  The watch stays with a file that is moved, and   *)
(* ends, with IN_IGNORED, when the file is deleted.                        *)
(*                                                                         *)
(* A definition introduced as "Bug for X" is X with a plausible mistake in *)
(* it, and is no part of the specification.                                *)
(***************************************************************************)
EXTENDS Integers, Sequences

CONSTANTS Written,    \* what the user writes into the file
          Empty,      \* the content of a file that has just been created
          MaxEdits,   \* how many edits the model's user makes
          Untouched   \* the contents that the model's user leaves alone

ASSUME MaxEditsAssumption == MaxEdits \in Nat

VARIABLES path,       \* the inode at the watched path, or NoFile
          away,       \* the inode that the user has moved elsewhere, or NoFile
          content,    \* of every inode there was
          writer,     \* the inode that the user has open for writing, or NoFile
          watched,    \* the kernel's watches
          queue,      \* what the kernel has noticed, not yet read
          edits,      \* how many edits there were
          spoiled,    \* the user did what the repair does not stand
          items,      \* items_: the descriptors the program knows
          batch,      \* the events in buf_ that are not yet handled
          pc          \* where the program is

userVars == <<path, away, content, writer, edits, spoiled>>
kernelVars == <<watched, queue>>
watchVars == <<items, batch>>

NoFile == 0
Failed == -1
Repair == {"delete_self", "move_self", "ignored"}
Inode == DOMAIN content

-----------------------------------------------------------------------------
(* The user and the kernel. *)

\* An event that equals the last one waiting is merged with it.
Post(q, e) == IF q # <<>> /\ q[Len(q)] = e THEN q ELSE Append(q, e)

Notice(q, i, mask) == IF i \in watched THEN Post(q, [wd |-> i, mask |-> mask]) ELSE q

\* The file i is gone for good, and with it its watch.
Gone(q, i) == Notice(Notice(q, i, "delete_self"), i, "ignored")

\* A file is removed between the program's look and its inotify_add_watch.
Vanish == spoiled' = (spoiled \/ pc = "rewatch")

Edit == /\ edits < MaxEdits
        /\ writer = NoFile
        /\ ~spoiled
        /\ path # NoFile => content[path] \notin Untouched
        /\ edits' = edits + 1

\* The file is written in place: opened and truncated, and later closed.
OpenWrite == /\ Edit
             /\ path # NoFile
             /\ writer' = path
             /\ content' = [content EXCEPT ![path] = Empty]
             /\ UNCHANGED <<path, away, spoiled, kernelVars>>

CloseWrite(c) == /\ writer # NoFile
                 /\ content' = [content EXCEPT ![writer] = c]
                 /\ queue' = Notice(queue, writer, "close_write")
                 /\ writer' = NoFile
                 /\ UNCHANGED <<path, away, edits, spoiled, watched>>

\* A new file is created at the path, or renamed over the one there.
Install(c) == /\ Edit
              /\ content' = Append(content, c)
              /\ path' = Len(content')
              /\ queue' = Gone(queue, path)
              /\ watched' = watched \ {path}
              /\ UNCHANGED <<away, writer, spoiled>>

Delete == /\ Edit
          /\ path # NoFile
          /\ path' = NoFile
          /\ queue' = Gone(queue, path)
          /\ watched' = watched \ {path}
          /\ Vanish
          /\ UNCHANGED <<away, content, writer>>

MoveAway == /\ Edit
            /\ path # NoFile
            /\ away = NoFile
            /\ away' = path
            /\ path' = NoFile
            /\ queue' = Notice(queue, path, "move_self")
            /\ Vanish
            /\ UNCHANGED <<content, writer, watched>>

\* The file comes back, watched as it is, over one that may be there.
MoveBack == /\ Edit
            /\ away # NoFile
            /\ away' = NoFile
            /\ path' = away
            /\ queue' = Gone(Notice(queue, away, "move_self"), path)
            /\ watched' = watched \ {path}
            /\ spoiled' = (spoiled \/ away \in watched)
            /\ UNCHANGED <<content, writer>>

User == /\ \/ OpenWrite \/ \E c \in Written : CloseWrite(c) \/ Install(c)
           \/ Delete \/ MoveAway \/ MoveBack
        /\ UNCHANGED <<items, batch, pc>>

-----------------------------------------------------------------------------
(* The program. *)

\* read() returns all that waits.
ReadEvents == /\ pc = "read"
              /\ queue # <<>>
              /\ batch' = queue
              /\ queue' = <<>>
              /\ pc' = "handle"
              /\ UNCHANGED <<userVars, watched, items>>

\* Bug for Handle: a file that was moved away is not looked for.
HandleIgnoresMoves ==
    /\ pc = "handle"
    /\ batch # <<>>
    /\ LET evt == Head(batch)
       IN IF evt.wd \in items /\ evt.mask \in Repair \ {"move_self"}
          THEN pc' = (IF path = NoFile THEN "missing" ELSE "rewatch") /\ UNCHANGED batch
          ELSE batch' = Tail(batch) /\ UNCHANGED pc
    /\ UNCHANGED <<userVars, kernelVars, items>>

\* The next event: skipped when its descriptor is unknown; the file is looked
\* for when it says that the file or the watch is gone.
Handle ==
    /\ pc = "handle"
    /\ batch # <<>>
    /\ LET evt == Head(batch)
       IN IF evt.wd \in items /\ evt.mask \in Repair
          THEN pc' = (IF path = NoFile THEN "missing" ELSE "rewatch") /\ UNCHANGED batch
          ELSE batch' = Tail(batch) /\ UNCHANGED pc
    /\ UNCHANGED <<userVars, kernelVars, items>>

\* WAIT_MOVE_US is over; the second look.
LookAgain == /\ pc = "missing"
             /\ pc' = IF path = NoFile THEN "create" ELSE "rewatch"
             /\ UNCHANGED <<userVars, kernelVars, watchVars>>

\* creat(): a file that came meanwhile is truncated.
Recreate == /\ pc = "create"
            /\ IF path = NoFile
               THEN content' = Append(content, Empty) /\ path' = Len(content')
               ELSE content' = [content EXCEPT ![path] = Empty] /\ UNCHANGED path
            /\ pc' = "rewatch"
            /\ UNCHANGED <<away, writer, edits, spoiled, kernelVars, watchVars>>

\* Bug for AddWatch: the table keeps the descriptor of the watch that ended.
AddWatchOnlyInKernel ==
    /\ pc = "rewatch"
    /\ LET evt == Head(batch)
           wd == IF path = NoFile THEN Failed ELSE path
       IN /\ watched' = watched \cup ({wd} \ {Failed})
          /\ items' = items \ {evt.wd}
    /\ batch' = Tail(batch)
    /\ pc' = "handle"
    /\ UNCHANGED <<userVars, queue>>

\* The path is watched again under the descriptor that the kernel gives; then
\* the descriptor of the event is erased, which may be the same one.
AddWatch ==
    /\ pc = "rewatch"
    /\ LET evt == Head(batch)
           wd == IF path = NoFile THEN Failed ELSE path
       IN /\ watched' = watched \cup ({wd} \ {Failed})
          /\ items' = (items \cup {wd}) \ {evt.wd}
    /\ batch' = Tail(batch)
    /\ pc' = "handle"
    /\ UNCHANGED <<userVars, queue>>

\* WaitAndHandle returns.
Return == /\ pc = "handle"
          /\ batch = <<>>
          /\ pc' = "return"
          /\ UNCHANGED <<userVars, kernelVars, watchVars>>

WaitAndHandle == ReadEvents \/ Handle \/ LookAgain \/ Recreate \/ AddWatch \/ Return
==============================================================================
