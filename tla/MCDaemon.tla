------------------------------ MODULE MCDaemon -------------------------------
(***************************************************************************)
(* Daemon with a user who writes a good or a bad configuration over a good *)
(* or a bad one, in place or by any other way, twice: after a first start  *)
(* that fails, a process may come under the number of the failed one, and  *)
(* be forgotten beside the next.  To check the reading of the file as      *)
(* well, the daemon is also started on every file of an offscreen rule, a  *)
(* default rule and up to two of Lines, which the user then leaves alone.  *)
(***************************************************************************)
EXTENDS Daemon

Rule(n, i, a) == [kind |-> "rule", name |-> n, idle |-> i, active |-> a]
Tunable(n, v) == [kind |-> "tunable", name |-> n, value |-> v]

Off == Rule("-", -1, -1)
Default == Rule("*", 60, 120)

\* Rates and indices of modes, the system's own rule, a mixed rule, rules that
\* are given twice; tunables with a number, with a text, and of no meaning.
Lines == {Default, Rule("*", 2, 0), Rule("-", 1, 1),
          Rule("game", 60, 60), Rule("game", 1, 1), Rule("game", 1, 60),
          Tunable("useSfBackdoor", 1),
          Tunable("touchSlackMs", 50), Tunable("touchSlackMs", 200),
          Tunable("enableMinBrightness", 300), [kind |-> "text", name |-> "useSfBackdoor"],
          [kind |-> "text", name |-> "comment"], [kind |-> "skipped"]}

Good == <<Off, Default>>
Better == <<Default, Rule("game", 60, 60), Off>>
Bad == <<Default>>
Files == {<<Off>>} \cup {Good \o s : s \in UNION {[1..n -> Lines] : n \in 0..2}}

MCWritten == {Better, Bad}
MCInitial == Files
MCUntouched == Files \ {Good, <<Off>>}
MCPid == 1..3
MCEmpty == <<>>
==============================================================================
