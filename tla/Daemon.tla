------------------------------- MODULE Daemon --------------------------------
(***************************************************************************)
(* main.cpp: the process that starts the working process, and replaces it  *)
(* when the configuration file changes.                                    *)
(*                                                                         *)
(* A process is "loading" from fork until it has read its configuration,   *)
(* then "working", then a "zombie" until the daemon waits for it.  The     *)
(* daemon's handler of SIGCHLD runs between any two of its steps: signals  *)
(* that come while one is pending are merged, and each runs wait() once.   *)
(*                                                                         *)
(* No Sleep() is relied on: a signal cuts it short, and a process may be   *)
(* slower than it.  A pid is free when no process has it, and fork() may   *)
(* return any free one: also the one that dead_pid still holds, which      *)
(* StartNewApp then takes for a failed start.                              *)
(***************************************************************************)
EXTENDS Inotify, Config, FiniteSets

CONSTANTS Pid,        \* the numbers of processes
          Initial     \* what may be in the file when the daemon starts

ASSUME PidAssumption == Pid \subseteq Nat \ {0}
ASSUME ContentAssumption == Written \cup Initial \cup {Empty} \subseteq Seq(Line)

VARIABLES proc,       \* the state of each process
          loaded,     \* the lines that each working process has read
          term,       \* the processes with a SIGUSR1 pending
          sigchld,    \* a SIGCHLD is pending
          handling,   \* the daemon is in its handler, before wait()
          crashed,    \* the last process that was started died of itself
          mistaken,   \* auxiliary: the processes started under dead_pid's number
          child,      \* what fork() has returned
          new_pid, old_pid, dead_pid

procVars == <<proc, loaded, term, sigchld, crashed, mistaken>>
pidVars == <<child, new_pid, old_pid, dead_pid>>
inotifyVars == <<userVars, kernelVars, watchVars>>
vars == <<inotifyVars, pc, procVars, pidVars, handling>>

NoPid == 0
Live == {p \in Pid : proc[p] \in {"loading", "working"}}
Zombies == {p \in Pid : proc[p] = "zombie"}

Content == Written \cup Initial \cup {Empty}
Events == Seq([wd : Nat, mask : Repair \cup {"close_write"}])

TypeOK == /\ content \in Seq(Content)
          /\ {path, away, writer} \subseteq Inode \cup {NoFile}
          /\ watched \subseteq Inode /\ items \subseteq Inode \cup {Failed}
          /\ queue \in Events /\ batch \in Events
          /\ edits \in 0..MaxEdits
          /\ {spoiled, sigchld, handling, crashed} \subseteq BOOLEAN
          /\ pc \in {"read", "handle", "missing", "create", "rewatch", "return",
                     "drain", "fork", "store", "settle"}
          /\ proc \in [Pid -> {"free", "loading", "working", "zombie"}]
          /\ loaded \in [Pid -> Content]
          /\ term \subseteq Pid /\ mistaken \subseteq Pid
          /\ {child, new_pid, old_pid, dead_pid} \subseteq Pid \cup {NoPid}

\* The file exists and is watched before the first process is started.
Init == /\ \E c \in Initial : content = <<c>>
        /\ path = 1 /\ away = NoFile /\ writer = NoFile
        /\ watched = {1} /\ items = {1}
        /\ queue = <<>> /\ batch = <<>>
        /\ edits = 0 /\ spoiled = FALSE
        /\ pc = "fork"
        /\ proc = [p \in Pid |-> "free"] /\ loaded = [p \in Pid |-> Empty]
        /\ term = {} /\ mistaken = {}
        /\ sigchld = FALSE /\ handling = FALSE /\ crashed = FALSE
        /\ child = NoPid /\ new_pid = NoPid /\ old_pid = NoPid /\ dead_pid = NoPid

-----------------------------------------------------------------------------
(* The working processes. *)

Die(p) == /\ proc' = [proc EXCEPT ![p] = "zombie"]
          /\ loaded' = [loaded EXCEPT ![p] = Empty]
          /\ term' = term \ {p} /\ mistaken' = mistaken \ {p}
          /\ sigchld' = TRUE

\* AppMain: the configuration is read; without a file, or with one that is
\* refused, an exception ends the process.
Load(p) == /\ proc[p] = "loading"
           /\ IF path # NoFile /\ Accepted(LoadConfig(content[path]))
              THEN /\ proc' = [proc EXCEPT ![p] = "working"]
                   /\ loaded' = [loaded EXCEPT ![p] = content[path]]
                   /\ UNCHANGED <<term, sigchld, mistaken>>
              ELSE Die(p)
           /\ UNCHANGED <<inotifyVars, pc, crashed, pidVars, handling>>

\* SIGUSR1 is delivered, and ends the process with or without its handler.
AppSigHandler(p) == /\ p \in term
                    /\ Die(p)
                    /\ UNCHANGED <<inotifyVars, pc, crashed, pidVars, handling>>

Crash(p) == /\ proc[p] = "working"
            /\ Die(p)
            /\ crashed' = (crashed \/ p = child)
            /\ UNCHANGED <<inotifyVars, pc, pidVars, handling>>

-----------------------------------------------------------------------------
(* The daemon.  Its main thread stands while its handler runs. *)

DaemonSigHandler == /\ sigchld /\ ~handling
                    /\ sigchld' = FALSE
                    /\ handling' = TRUE
                    /\ UNCHANGED <<inotifyVars, pc, proc, loaded, term, crashed, mistaken, pidVars>>

\* Bug for Wait: wait() is repeated until no dead child is left.
WaitForAll ==
    /\ handling
    /\ Zombies # {}
    /\ proc' = [p \in Pid |-> IF p \in Zombies THEN "free" ELSE proc[p]]
    /\ \E p \in Zombies : dead_pid' = IF p \in {new_pid, old_pid} THEN p ELSE dead_pid
    /\ handling' = FALSE
    /\ UNCHANGED <<inotifyVars, pc, loaded, term, sigchld, crashed, mistaken, child,
                   new_pid, old_pid>>

\* wait() takes any child that is dead.
Wait == /\ handling
        /\ \E p \in Zombies :
              /\ proc' = [proc EXCEPT ![p] = "free"]
              /\ dead_pid' = IF p \in {new_pid, old_pid} THEN p ELSE dead_pid
        /\ handling' = FALSE
        /\ UNCHANGED <<inotifyVars, pc, loaded, term, sigchld, crashed, mistaken, child,
                       new_pid, old_pid>>

\* Bug for KillOldApp: it does not ask whether there is an old process.
KillWithoutAsking ==
    /\ pc = "return" /\ ~handling
    /\ term' = term \cup ({old_pid} \cap (Live \cup {NoPid}))
    /\ pc' = "drain"
    /\ UNCHANGED <<inotifyVars, proc, loaded, sigchld, crashed, mistaken, pidVars, handling>>

\* kill() has no effect on a pid that nobody has, nor on a dead child.
KillOldApp == /\ pc = "return" /\ ~handling
              /\ term' = term \cup ({old_pid} \cap Live)
              /\ pc' = "drain"
              /\ UNCHANGED <<inotifyVars, proc, loaded, sigchld, crashed, mistaken, pidVars, handling>>

DrainOver == /\ pc = "drain" /\ ~handling
             /\ pc' = "fork"
             /\ UNCHANGED <<inotifyVars, procVars, pidVars, handling>>

\* StartNewApp: the child runs from here on, its pid is stored later.
Fork == /\ pc = "fork" /\ ~handling
        /\ \E p \in Pid :
              /\ proc[p] = "free"
              /\ proc' = [proc EXCEPT ![p] = "loading"]
              /\ child' = p
              /\ mistaken' = mistaken \cup (({p} \cap {dead_pid}) \ {old_pid})
        /\ crashed' = FALSE
        /\ pc' = "store"
        /\ UNCHANGED <<inotifyVars, loaded, term, sigchld, new_pid, old_pid, dead_pid, handling>>

StoreNewPid == /\ pc = "store" /\ ~handling
               /\ new_pid' = child
               /\ pc' = "settle"
               /\ UNCHANGED <<inotifyVars, procVars, child, old_pid, dead_pid, handling>>

\* Bug for SettleOver: a child counts as started only if no child has died.
SettleOverForgets ==
    /\ pc = "settle" /\ ~handling
    /\ old_pid' = IF dead_pid = NoPid THEN new_pid ELSE old_pid
    /\ pc' = "read"
    /\ UNCHANGED <<inotifyVars, procVars, child, new_pid, dead_pid, handling>>

\* Bug for SettleOver: what was noticed during the start is thrown away.
SettleOverFlushes ==
    /\ pc = "settle" /\ ~handling
    /\ old_pid' = IF new_pid # dead_pid THEN new_pid ELSE old_pid
    /\ queue' = <<>>
    /\ pc' = "read"
    /\ UNCHANGED <<userVars, watched, watchVars, procVars, child, new_pid, dead_pid, handling>>

SettleOver == /\ pc = "settle" /\ ~handling
              /\ old_pid' = IF new_pid # dead_pid THEN new_pid ELSE old_pid
              /\ pc' = "read"
              /\ UNCHANGED <<inotifyVars, procVars, child, new_pid, dead_pid, handling>>

Watching == /\ ~handling
            /\ WaitAndHandle
            /\ UNCHANGED <<procVars, pidVars, handling>>

DaemonStep == \/ Watching \/ KillOldApp \/ DrainOver \/ Fork \/ StoreNewPid \/ SettleOver
              \/ DaemonSigHandler \/ Wait

AppStep(p) == Load(p) \/ AppSigHandler(p)

Next == \/ DaemonStep
        \/ \E p \in Pid : AppStep(p) \/ Crash(p)
        \/ User /\ UNCHANGED <<procVars, pidVars, handling>>

Fairness == WF_vars(DaemonStep) /\ \A p \in Pid : WF_vars(AppStep(p))

Spec == Init /\ [][Next]_vars /\ Fairness

-----------------------------------------------------------------------------
(* Properties. *)

\* The daemon waits for events, and nothing else is going on.
Rest == /\ pc = "read" /\ queue = <<>> /\ writer = NoFile
        /\ ~sigchld /\ ~handling /\ term = {}
        /\ \A p \in Pid : proc[p] # "loading"

\* While the daemon waits for a change, each working process that has not been
\* told to end is the one that old_pid names, which the next change will end,
\* however deaths and starts were told apart by a handler that sees merged
\* signals.  The one case in which StartNewApp forgets a process is excepted:
\* fork() gave it the number that dead_pid still holds, while old_pid names
\* another.
NoForgottenProcess == pc = "read" => Live \subseteq {old_pid} \cup term \cup mistaken

\* wait() in the handler never has to wait: a signal that was not merged has a
\* dead child for it, also when several processes die at once.  Otherwise the
\* daemon would stand in its handler, deaf to changes.
HandlerNeverBlocks == /\ handling => Zombies # {}
                      /\ handling /\ sigchld => \E p, q \in Zombies : p # q

\* At rest the file is watched, in the kernel and in the table, however it was
\* written, replaced, deleted or moved away while the program was looking for
\* it; unless a watched file came back, or vanished between look and watch.
FileIsWatched ==
    pc = "read" /\ queue = <<>> /\ ~spoiled =>
        path # NoFile /\ path \in watched /\ items = {path}

\* At rest what works has read what is in the file now, except a forgotten one
\* (see above) of an earlier change.  When the file is in order and the process
\* started last has not died of itself, there is one that works.
NewestIsLoaded ==
    Rest /\ ~spoiled =>
        /\ path # NoFile
        /\ \A p \in Live \ (mistaken \ {child}) : loaded[p] = content[path]
        /\ Accepted(LoadConfig(content[path])) /\ ~crashed =>
              \E p \in Live : loaded[p] = content[path]

\* A process works by the rules and tunables that the lines it read state, and
\* has refused those that do not fit its method; of rules that mix an index and
\* a rate the code refuses fewer than the manual (Config!Mixed).
WorksAsWritten ==
    \A p \in Pid : proc[p] = "working" => AsWritten(LoadConfig(loaded[p]), loaded[p])

\* The contents with which a process works.
Acceptable == {c \in Content : Accepted(LoadConfig(c))}

\* Who is in charge: a process that was started under dead_pid's number, which
\* StartNewApp may forget and never end, is not counted.
InCharge == Live \ (term \cup mistaken)

\* Of the processes that are counted one at a time is in charge, by one
\* configuration that is in order: a process that comes back late from its start
\* or a death that nobody noticed never leads to a second one, nor does a number
\* that is used again, other than dead_pid's while old_pid names another.  With
\* that one there can be two.
Apps == INSTANCE OneApp WITH
            App <- Pid, Config <- Acceptable,
            inCharge <- InCharge,
            worksBy <- {loaded[p] : p \in {q \in InCharge : proc[q] = "working"}}

ImplementsOneApp == Apps!Spec

\* However the user edits, when he stops the newest configuration is in force
\* in the end, at worst beside a forgotten process of an earlier one.
ChangesTakeEffect == <>[](writer = NoFile /\ ~spoiled /\ ~crashed =>
                            /\ path # NoFile
                            /\ Accepted(LoadConfig(content[path])) =>
                                  \E p \in Live : loaded[p] = content[path])
==============================================================================
