------------------------------- MODULE Config --------------------------------
(***************************************************************************)
(* The configuration file as DynamicFps reads it (modules/dynamic_fps.cpp, *)
(* lines 69 to 184): a fold of its lines into the table of rules and the   *)
(* tunables, and the test that refuses it.                                 *)
(*                                                                         *)
(* A line, trimmed and scanned, is one of                                  *)
(*    [kind |-> "rule", name, idle, active]                                *)
(*    [kind |-> "tunable", name, value]    a tunable with a number         *)
(*    [kind |-> "text", name]              a tunable with a text           *)
(*    [kind |-> "skipped"]                 blank, a comment, or broken     *)
(***************************************************************************)
EXTENDS Integers, Sequences, SequencesExt

Line == [kind : {"rule"}, name : STRING, idle : Int, active : Int]
        \cup [kind : {"tunable"}, name : STRING, value : Int]
        \cup [kind : {"text"}, name : STRING]
        \cup [kind : {"skipped"}]

UNIVERSIAL == "*"
OFFSCREEN == "-"
MIN_TOUCH_SLACK_MS == 100
MAX_ENABLE_MIN_BRIGHTNESS == 255

\* What the constructor has set when LoadConfig starts; failed says that an
\* exception was thrown.
EmptyConfig == [rules |-> <<>>, hasUniversial |-> FALSE, hasOffscreen |-> FALSE,
                universial |-> [idle |-> 0, active |-> 0],
                offscreen |-> [idle |-> 0, active |-> 0],
                useSfBackdoor |-> FALSE, touchSlackMs |-> 4000,
                enableMinBrightness |-> 8, failed |-> FALSE]

\* std::map::emplace keeps the entry that is there.
Emplace(table, name, rule) ==
    [n \in DOMAIN table \cup {name} |-> IF n \in DOMAIN table THEN table[n] ELSE rule]

\* Bug for AddRule: a later rule of a package replaces the first one.
AddRuleOverwrites(cfg, name, rule) ==
    CASE name = UNIVERSIAL -> [cfg EXCEPT !.hasUniversial = TRUE, !.universial = rule]
      [] name = OFFSCREEN -> [cfg EXCEPT !.hasOffscreen = TRUE, !.offscreen = rule]
      [] OTHER -> [cfg EXCEPT !.rules = (name :> rule) @@ @]

\* The first rule of a package stays; the two special ones are overwritten.
AddRule(cfg, name, rule) ==
    CASE name = UNIVERSIAL -> [cfg EXCEPT !.hasUniversial = TRUE, !.universial = rule]
      [] name = OFFSCREEN -> [cfg EXCEPT !.hasOffscreen = TRUE, !.offscreen = rule]
      [] OTHER -> [cfg EXCEPT !.rules = Emplace(@, name, rule)]

SetTunable(cfg, name, value) ==
    CASE name = "useSfBackdoor" -> [cfg EXCEPT !.useSfBackdoor = value > 0]
      [] name = "touchSlackMs" -> [cfg EXCEPT !.touchSlackMs = Max({MIN_TOUCH_SLACK_MS, value})]
      [] name = "enableMinBrightness" ->
            [cfg EXCEPT !.enableMinBrightness = Min({MAX_ENABLE_MIN_BRIGHTNESS, value})]
      [] OTHER -> cfg

Tunables == {"useSfBackdoor", "touchSlackMs", "enableMinBrightness"}

\* A text for a tunable that exists makes std::stoi throw.
ParseLine(cfg, line) ==
    CASE line.kind = "rule" ->
            AddRule(cfg, line.name, [idle |-> line.idle, active |-> line.active])
      [] line.kind = "tunable" -> SetTunable(cfg, line.name, line.value)
      [] line.kind = "text" -> [cfg EXCEPT !.failed = @ \/ line.name \in Tunables]
      [] OTHER -> cfg

IsDefaultRule(rule) == rule.idle = -1 /\ rule.active = -1

IsSfBackdoorRule(rule) == rule.idle < 20 /\ rule.active < 20

InvalidRule(cfg, rule) == ~IsDefaultRule(rule) /\ cfg.useSfBackdoor # IsSfBackdoorRule(rule)

FindInvalidRule(cfg) == \/ InvalidRule(cfg, cfg.offscreen)
                        \/ InvalidRule(cfg, cfg.universial)
                        \/ \E name \in DOMAIN cfg.rules : InvalidRule(cfg, cfg.rules[name])

LoadConfig(lines) == FoldLeft(ParseLine, EmptyConfig, lines)

\* LoadConfig returns; otherwise it throws.
Accepted(cfg) == /\ ~cfg.failed
                 /\ cfg.hasOffscreen
                 /\ cfg.hasUniversial
                 /\ ~FindInvalidRule(cfg)

-----------------------------------------------------------------------------
(* What the manual says of the same lines. *)

About(lines, kind, name) ==
    {i \in DOMAIN lines : lines[i].kind = kind /\ lines[i].name = name}

Says(lines, i, rule) == lines[i].idle = rule.idle /\ lines[i].active = rule.active

\* Rules are ordered from high to low: the first line about a package counts.
\* Of the default rule and of the offscreen rule the last line counts.
FollowsRules(cfg, lines) ==
    /\ \A l \in ToSet(lines) : l.kind = "rule" =>
          LET I == About(lines, "rule", l.name)
          IN CASE l.name = UNIVERSIAL -> Says(lines, Max(I), cfg.universial)
               [] l.name = OFFSCREEN -> Says(lines, Max(I), cfg.offscreen)
               [] OTHER -> /\ l.name \in DOMAIN cfg.rules
                           /\ Says(lines, Min(I), cfg.rules[l.name])
    /\ \A name \in DOMAIN cfg.rules : About(lines, "rule", name) # {}
    /\ {} \notin {About(lines, "rule", UNIVERSIAL), About(lines, "rule", OFFSCREEN)}

\* The manual, of each value for itself: with the backdoor it is an index of a
\* screen mode, below 20, without it a rate, of 20 or more; -1 is always allowed.
ValueFits(cfg, v) == v = -1 \/ cfg.useSfBackdoor = (v < 20)

FitsMethod(cfg, rule) == ValueFits(cfg, rule.idle) /\ ValueFits(cfg, rule.active)

\* The code looks at the rule as a whole: without the backdoor it also accepts
\* one that mixes an index and a rate, which the manual does not allow.
Mixed(rule) == \E v, w \in {rule.idle, rule.active} : v < 20 /\ v # -1 /\ w >= 20

KeepsToMethod(cfg, rule) == FitsMethod(cfg, rule) \/ (~cfg.useSfBackdoor /\ Mixed(rule))

\* The value of the last line about a tunable counts, wherever it stands.
LastValue(lines, name, default) ==
    LET I == About(lines, "tunable", name)
    IN IF I = {} THEN default ELSE lines[Max(I)].value

\* The tunables have the manual's defaults and keep to its ranges.
FollowsTunables(cfg, lines) ==
    /\ \A name \in DOMAIN cfg.rules : KeepsToMethod(cfg, cfg.rules[name])
    /\ KeepsToMethod(cfg, cfg.universial) /\ KeepsToMethod(cfg, cfg.offscreen)
    /\ cfg.useSfBackdoor = (LastValue(lines, "useSfBackdoor", 0) > 0)
    /\ cfg.touchSlackMs = Max({100, LastValue(lines, "touchSlackMs", 4000)})
    /\ cfg.enableMinBrightness = Min({255, LastValue(lines, "enableMinBrightness", 8)})

AsWritten(cfg, lines) == FollowsRules(cfg, lines) /\ FollowsTunables(cfg, lines)
==============================================================================
