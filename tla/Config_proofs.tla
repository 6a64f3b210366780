---------------------------- MODULE Config_proofs -----------------------------
(***************************************************************************)
(* Config, for every sequence of lines: a configuration that is accepted   *)
(* is the one that its lines state (AcceptedIsAsWritten).                  *)
(*                                                                         *)
(* LoadConfig is a fold.  It is first shown to read the lines one after    *)
(* the other (LoadIsStepwise); what the first k lines have left in the     *)
(* configuration (Read) then follows from what the first k - 1 have left.  *)
(* Both inductions are about the least number for which the claim fails,   *)
(* which exists because < is well founded on Nat.                          *)
(***************************************************************************)
EXTENDS Config, TLAPS, WellFoundedInduction

-----------------------------------------------------------------------------
(* Least and greatest numbers. *)

LEMMA LeastNatural ==
    ASSUME NEW T, T \subseteq Nat, T # {}
    PROVE  \E x \in T : \A y \in T : x <= y
<1> DEFINE R == OpToRel(<, Nat)
<1>1. IsWellFoundedOn(R, Nat)
  BY NatLessThanWellFounded, Zenon
<1>2. \A x, y \in Nat : y < x => <<y, x>> \in R
  BY DEF R, OpToRel
<1> HIDE DEF R
<1>3. PICK x \in T : \A y \in T : ~ (<<y, x>> \in R)
  BY <1>1, WFMin
<1>4. ASSUME NEW y \in T
      PROVE  x <= y
  <2>1. x \in Nat /\ y \in Nat
    OBVIOUS
  <2>2. ~(y < x)
    BY <1>2, <1>3, <2>1
  <2> QED
    BY <2>1, <2>2
<1> QED
  BY <1>4

-----------------------------------------------------------------------------
(* The fold. *)

\* The function by which the fold of the lines numbered by S is defined.
Steps(g, S, lines) ==
    [s \in SUBSET S |-> IF s = {} THEN EmptyConfig ELSE ParseLine(g[s \ {Max(s)}], lines[Max(s)])]

LEMMA MaxFacts ==
    ASSUME NEW s, s \subseteq Int, NEW m \in s, \A x \in s : x <= m
    PROVE  Max(s) = m
<1>1. \A x \in s : m >= x
  OBVIOUS
<1>2. Max(s) \in s /\ \A y \in s : Max(s) >= y
  BY <1>1, Zenon DEF Max
<1>3. Max(s) >= m /\ Max(s) <= m /\ Max(s) \in Int /\ m \in Int
  BY <1>2
<1> QED
  BY <1>3

LEMMA MinFacts ==
    ASSUME NEW s, s \subseteq Int, NEW m \in s, \A x \in s : m <= x
    PROVE  Min(s) = m
<1>2. Min(s) \in s /\ \A y \in s : Min(s) <= y
  BY Zenon DEF Min
<1>3. Min(s) <= m /\ m <= Min(s) /\ Min(s) \in Int /\ m \in Int
  BY <1>2
<1> QED
  BY <1>3

LEMMA StepsExtend ==
    ASSUME NEW lines, NEW m \in Nat \ {0}, NEW g, g = Steps(g, 1..(m - 1), lines)
    PROVE  \E h : h = Steps(h, 1..m, lines)
<1> DEFINE h == [s \in SUBSET (1..m) |->
                    IF m \in s THEN ParseLine(g[s \ {m}], lines[m]) ELSE g[s]]
<1>1. ASSUME NEW s \in SUBSET (1..m)
      PROVE  h[s] = IF s = {} THEN EmptyConfig ELSE ParseLine(h[s \ {Max(s)}], lines[Max(s)])
  <2>0. m \in 1..m /\ {} \in SUBSET (1..(m - 1)) /\ h[s] = (IF m \in s THEN ParseLine(g[s \ {m}], lines[m]) ELSE g[s])
    OBVIOUS
  <2>1. CASE m \in s
    <3>1. Max(s) = m
      <4>1. s \subseteq Int /\ \A x \in s : x <= m
        OBVIOUS
      <4> QED
        BY <2>1, <4>1, MaxFacts
    <3>2. h[s \ {m}] = g[s \ {m}]
      OBVIOUS
    <3> HIDE DEF h
    <3> QED
      BY <2>0, <2>1, <3>1, <3>2
  <2>2. CASE m \notin s
    <3>1. s \in SUBSET (1..(m - 1))
      BY <2>2
    <3>2. g[s] = IF s = {} THEN EmptyConfig ELSE ParseLine(g[s \ {Max(s)}], lines[Max(s)])
      BY <3>1 DEF Steps
    <3>3. h[s \ {Max(s)}] = g[s \ {Max(s)}]
      BY <2>2
    <3> HIDE DEF h
    <3> QED
      BY <2>0, <2>2, <3>2, <3>3
  <2> QED
    BY <2>1, <2>2
<1>2. h = [s \in SUBSET (1..m) |-> h[s]]
  OBVIOUS
<1> HIDE DEF h
<1>3. h = Steps(h, 1..m, lines)
  BY <1>1, <1>2 DEF Steps
<1> QED
  BY <1>3

LEMMA StepsExist ==
    ASSUME NEW lines, NEW n \in Nat
    PROVE  \E g : g = Steps(g, 1..n, lines)
<1> DEFINE T == {m \in Nat : ~ \E g : g = Steps(g, 1..m, lines)}
<1> SUFFICES ASSUME T # {}
             PROVE  FALSE
  OBVIOUS
<1>1. PICK m \in T : \A k \in T : m <= k
  BY LeastNatural
<1>2. CASE m = 0
  <2> DEFINE g == [s \in SUBSET (1..0) |-> EmptyConfig]
  <2>1. \A s \in SUBSET (1..0) : s = {}
    OBVIOUS
  <2>2. g = Steps(g, 1..0, lines)
    BY <2>1 DEF Steps
  <2> HIDE DEF g
  <2> QED
    BY <1>2, <2>2
<1>3. CASE m # 0
  <2>1. m \in Nat \ {0} /\ m - 1 \in Nat /\ m - 1 \notin T
    BY <1>1, <1>3
  <2>2. PICK g : g = Steps(g, 1..(m - 1), lines)
    BY <2>1
  <2> QED
    BY <2>1, <2>2, StepsExtend
<1> QED
  BY <1>2, <1>3

\* The lines are read one after the other.
LEMMA LoadIsStepwise ==
    ASSUME NEW S, NEW lines \in Seq(S)
    PROVE  \E c : /\ c[0] = EmptyConfig
                  /\ \A k \in 1..Len(lines) : c[k] = ParseLine(c[k - 1], lines[k])
                  /\ LoadConfig(lines) = c[Len(lines)]
<1> DEFINE n == Len(lines)
           iter == CHOOSE g : g = Steps(g, DOMAIN lines, lines)
           c == [k \in 0..n |-> iter[1..k]]
<1>1. n \in Nat /\ DOMAIN lines = 1..n
  OBVIOUS
<1>2. LoadConfig(lines) = iter[DOMAIN lines]
  BY Zenon DEF LoadConfig, FoldLeft, MapThenFoldSet, Steps
<1>3. \E g : g = Steps(g, DOMAIN lines, lines)
  BY <1>1, StepsExist
<1>4. iter = Steps(iter, 1..n, lines)
  BY <1>1, <1>3, Zenon
<1> HIDE DEF iter, n
<1>5. c[0] = EmptyConfig
  BY <1>1, <1>4 DEF Steps
<1>6. ASSUME NEW k \in 1..n
      PROVE  c[k] = ParseLine(c[k - 1], lines[k])
  <2>1. /\ k \in Nat /\ k \in 1..k /\ (1..k) \ {k} = 1..(k - 1) /\ 1..k \in SUBSET (1..n)
        /\ 1..k \subseteq Int /\ \A x \in 1..k : x <= k
    BY <1>1
  <2>3. Max(1..k) = k
    BY <2>1, MaxFacts
  <2>2. iter[1..k] = ParseLine(iter[1..(k - 1)], lines[k])
    BY <1>4, <2>1, <2>3 DEF Steps
  <2> QED
    BY <1>1, <2>2
<1>7. LoadConfig(lines) = c[n]
  BY <1>1, <1>2
<1> HIDE DEF c
<1> QED
  BY <1>5, <1>6, <1>7 DEF n

-----------------------------------------------------------------------------
(* What a configuration is after the first k lines. *)

RuleType == [idle : Int, active : Int]

ConfigType == [rules : UNION {[N -> RuleType] : N \in SUBSET STRING},
               hasUniversial : BOOLEAN, hasOffscreen : BOOLEAN,
               universial : RuleType, offscreen : RuleType,
               useSfBackdoor : BOOLEAN, touchSlackMs : Int,
               enableMinBrightness : Int, failed : BOOLEAN]

\* Of the first k lines, those about a package have left the first of them in
\* the table.
RulesRead(rules, lines, k) ==
    /\ \A name \in DOMAIN rules :
          \E i \in About(lines, "rule", name) :
             /\ i <= k /\ Says(lines, i, rules[name])
             /\ \A j \in About(lines, "rule", name) : i <= j
    /\ \A i \in DOMAIN lines :
          i <= k /\ lines[i].kind = "rule" /\ lines[i].name \notin {UNIVERSIAL, OFFSCREEN}
          => lines[i].name \in DOMAIN rules

\* i is the last of the first k lines that is one of I.
LastOf(I, i, k) == i \in I /\ i <= k /\ \A j \in I : j <= k => j <= i

\* One of the two special rules is what the last line about it says.
SpecialRead(has, rule, name, lines, k) ==
    IF has THEN \E i \in About(lines, "rule", name) :
                   LastOf(About(lines, "rule", name), i, k) /\ Says(lines, i, rule)
           ELSE \A j \in About(lines, "rule", name) : ~ (j <= k)

\* The value of the last of the first k lines about a tunable.
ValueAt(lines, name, default, k) ==
    LET I == {i \in About(lines, "tunable", name) : i <= k}
    IN IF I = {} THEN default ELSE lines[Max(I)].value

\* The ranges of two of them.
AtLeast100(v) == Max({100, v})
AtMost255(v) == Min({255, v})

TunablesRead(cfg, lines, k) ==
    /\ cfg.useSfBackdoor <=> ValueAt(lines, "useSfBackdoor", 0, k) > 0
    /\ cfg.touchSlackMs = AtLeast100(ValueAt(lines, "touchSlackMs", 4000, k))
    /\ cfg.enableMinBrightness = AtMost255(ValueAt(lines, "enableMinBrightness", 8, k))

\* What the configuration is after k lines.
Read(cfg, lines, k) ==
    /\ cfg \in ConfigType
    /\ RulesRead(cfg.rules, lines, k)
    /\ SpecialRead(cfg.hasUniversial, cfg.universial, UNIVERSIAL, lines, k)
    /\ SpecialRead(cfg.hasOffscreen, cfg.offscreen, OFFSCREEN, lines, k)
    /\ TunablesRead(cfg, lines, k)

-----------------------------------------------------------------------------
(* The k-th line. *)

LEMMA AboutType ==
    ASSUME NEW lines \in Seq(Line), NEW kind, NEW name
    PROVE  About(lines, kind, name) \subseteq 1..Len(lines)
  BY DEF About

\* It does not disturb what it is not about.
LEMMA KeepSpecial ==
    ASSUME NEW lines \in Seq(Line), NEW k \in 1..Len(lines), NEW name, NEW has, NEW rule,
           SpecialRead(has, rule, name, lines, k - 1), k \notin About(lines, "rule", name)
    PROVE  SpecialRead(has, rule, name, lines, k)
<1>1. \A j \in About(lines, "rule", name) : j \in Nat /\ (j <= k - 1 <=> j <= k)
  BY AboutType
<1> QED
  BY <1>1 DEF SpecialRead, LastOf

LEMMA SetSpecial ==
    ASSUME NEW lines \in Seq(Line), NEW k \in 1..Len(lines), NEW name, NEW rule,
           k \in About(lines, "rule", name), Says(lines, k, rule)
    PROVE  SpecialRead(TRUE, rule, name, lines, k)
<1>1. LastOf(About(lines, "rule", name), k, k)
  BY AboutType DEF LastOf
<1> QED
  BY <1>1 DEF SpecialRead

LEMMA KeepValue ==
    ASSUME NEW lines \in Seq(Line), NEW k \in 1..Len(lines), NEW name, NEW default,
           k \notin About(lines, "tunable", name)
    PROVE  ValueAt(lines, name, default, k) = ValueAt(lines, name, default, k - 1)
<1>1. \A j \in About(lines, "tunable", name) : j \in Nat /\ (j <= k - 1 <=> j <= k)
  BY AboutType
<1>2. {j \in About(lines, "tunable", name) : j <= k}
        = {j \in About(lines, "tunable", name) : j <= k - 1}
  BY <1>1
<1> QED
  BY <1>2 DEF ValueAt

LEMMA SetValue ==
    ASSUME NEW lines \in Seq(Line), NEW k \in 1..Len(lines), NEW name, NEW default,
           k \in About(lines, "tunable", name)
    PROVE  ValueAt(lines, name, default, k) = lines[k].value
<1> DEFINE I == {j \in About(lines, "tunable", name) : j <= k}
<1>1. I \subseteq Int /\ k \in I /\ \A j \in I : j <= k
  BY AboutType
<1>2. ValueAt(lines, name, default, k) = IF I = {} THEN default ELSE lines[Max(I)].value
  BY DEF ValueAt
<1> HIDE DEF I
<1>3. Max(I) = k
  BY <1>1, MaxFacts
<1> QED
  BY <1>1, <1>2, <1>3

\* A line that is about none of the tunables.
LEMMA KeepTunables ==
    ASSUME NEW lines \in Seq(Line), NEW k \in 1..Len(lines), NEW cfg, NEW new,
           TunablesRead(cfg, lines, k - 1), lines[k].kind # "tunable",
           new.useSfBackdoor = cfg.useSfBackdoor, new.touchSlackMs = cfg.touchSlackMs,
           new.enableMinBrightness = cfg.enableMinBrightness
    PROVE  TunablesRead(new, lines, k)
<1>1. \A name : k \notin About(lines, "tunable", name)
  BY DEF About
<1>2. /\ ValueAt(lines, "useSfBackdoor", 0, k) = ValueAt(lines, "useSfBackdoor", 0, k - 1)
      /\ ValueAt(lines, "touchSlackMs", 4000, k) = ValueAt(lines, "touchSlackMs", 4000, k - 1)
      /\ ValueAt(lines, "enableMinBrightness", 8, k) = ValueAt(lines, "enableMinBrightness", 8, k - 1)
  BY <1>1, KeepValue
<1> QED
  BY <1>2 DEF TunablesRead

LEMMA KeepRules ==
    ASSUME NEW lines \in Seq(Line), NEW k \in 1..Len(lines), NEW rules,
           RulesRead(rules, lines, k - 1),
           lines[k].kind = "rule" => lines[k].name \in {UNIVERSIAL, OFFSCREEN} \cup DOMAIN rules
    PROVE  RulesRead(rules, lines, k)
<1>1. \A j \in 1..Len(lines) : (j <= k - 1 => j <= k) /\ (j <= k /\ ~(j <= k - 1) => j = k)
  OBVIOUS
<1>2. DOMAIN lines = 1..Len(lines)
  OBVIOUS
<1>3. \A name : About(lines, "rule", name) \subseteq 1..Len(lines)
  BY AboutType
<1>4. \A name \in DOMAIN rules :
          \E i \in About(lines, "rule", name) :
             /\ i <= k /\ Says(lines, i, rules[name])
             /\ \A j \in About(lines, "rule", name) : i <= j
  BY <1>1, <1>3 DEF RulesRead
<1> QED
  BY <1>1, <1>2, <1>4 DEF RulesRead

LEMMA Extension ==
    ASSUME NEW N \in SUBSET STRING, NEW rules \in [N -> RuleType],
           NEW name \in STRING, NEW rule \in RuleType
    PROVE  /\ Emplace(rules, name, rule) \in [N \cup {name} -> RuleType]
           /\ \A n \in N : Emplace(rules, name, rule)[n] = rules[n]
           /\ name \notin N => Emplace(rules, name, rule)[name] = rule
  BY DEF Emplace

LEMMA ExtendRules ==
    ASSUME NEW lines \in Seq(Line), NEW k \in 1..Len(lines), NEW N \in SUBSET STRING,
           NEW rules \in [N -> RuleType], NEW name \in STRING, NEW rule \in RuleType,
           RulesRead(rules, lines, k - 1),
           k \in About(lines, "rule", name), Says(lines, k, rule),
           name \notin {UNIVERSIAL, OFFSCREEN}
    PROVE  RulesRead(Emplace(rules, name, rule), lines, k)
<1> DEFINE new == Emplace(rules, name, rule)
<1>1. /\ DOMAIN new = N \cup {name} /\ DOMAIN rules = N
      /\ \A n \in N : new[n] = rules[n]
      /\ name \notin N => new[name] = rule
  BY DEF Emplace
<1> HIDE DEF new
<1>2. DOMAIN lines = 1..Len(lines) /\ lines[k].kind = "rule" /\ lines[k].name = name
  BY DEF About
<1>3. ASSUME NEW n \in N
      PROVE  \E i \in About(lines, "rule", n) :
                /\ i <= k /\ Says(lines, i, new[n])
                /\ \A j \in About(lines, "rule", n) : i <= j
  <2>1. PICK i \in About(lines, "rule", n) :
                /\ i <= k - 1 /\ Says(lines, i, rules[n])
                /\ \A j \in About(lines, "rule", n) : i <= j
    BY <1>1 DEF RulesRead
  <2>2. i \in Nat /\ i <= k
    BY <2>1, AboutType
  <2> QED
    BY <1>1, <2>1, <2>2
<1>4. ASSUME name \notin N
      PROVE  \A j \in About(lines, "rule", name) : k <= j
  <2> SUFFICES ASSUME NEW j \in About(lines, "rule", name), ~(k <= j)
               PROVE  FALSE
    OBVIOUS
  <2>1. j \in 1..Len(lines) /\ lines[j].kind = "rule" /\ lines[j].name = name
    BY AboutType DEF About
  <2>2. j <= k - 1
    BY <2>1
  <2> QED
    BY <1>1, <1>2, <1>4, <2>1, <2>2 DEF RulesRead
<1>5. ASSUME NEW n \in DOMAIN new
      PROVE  \E i \in About(lines, "rule", n) :
                /\ i <= k /\ Says(lines, i, new[n])
                /\ \A j \in About(lines, "rule", n) : i <= j
  <2>1. CASE n \in N
    BY <2>1, <1>3
  <2>2. CASE n \notin N
    <3>1. n = name /\ new[n] = rule /\ k <= k
      BY <1>1, <2>2
    <3> QED
      BY <1>4, <2>2, <3>1
  <2> QED
    BY <2>1, <2>2
<1>6. ASSUME NEW i \in DOMAIN lines, i <= k, lines[i].kind = "rule",
             lines[i].name \notin {UNIVERSIAL, OFFSCREEN}
      PROVE  lines[i].name \in DOMAIN new
  <2>1. i <= k - 1 \/ i = k
    BY <1>2, <1>6
  <2> QED
    BY <1>1, <1>2, <1>6, <2>1 DEF RulesRead
<1> QED
  BY <1>5, <1>6 DEF RulesRead, new

LEMMA BoundsType ==
    ASSUME NEW v \in Int
    PROVE  /\ AtLeast100(v) \in Int /\ (v >= 100 => AtLeast100(v) = v)
           /\ AtMost255(v) \in Int /\ (v <= 255 => AtMost255(v) = v)
<1>1. Max({100, v}) = IF v <= 100 THEN 100 ELSE v
  <2>1. CASE v <= 100
    <3>1. Max({100, v}) = 100
      BY <2>1, MaxFacts
    <3> QED
      BY <2>1, <3>1
  <2>2. CASE v > 100
    <3>1. Max({100, v}) = v
      BY <2>2, MaxFacts
    <3> QED
      BY <2>2, <3>1
  <2> QED
    BY <2>1, <2>2
<1>2. Min({255, v}) = IF v >= 255 THEN 255 ELSE v
  <2>1. CASE v >= 255
    <3>1. Min({255, v}) = 255
      BY <2>1, MinFacts
    <3> QED
      BY <2>1, <3>1
  <2>2. CASE v < 255
    <3>1. Min({255, v}) = v
      BY <2>2, MinFacts
    <3> QED
      BY <2>2, <3>1
  <2> QED
    BY <2>1, <2>2
<1>3. AtLeast100(v) = (IF v <= 100 THEN 100 ELSE v) /\ AtMost255(v) = IF v >= 255 THEN 255 ELSE v
  BY <1>1, <1>2 DEF AtLeast100, AtMost255
<1> QED
  BY <1>3

LEMMA EmptyRead ==
    ASSUME NEW lines \in Seq(Line)
    PROVE  Read(EmptyConfig, lines, 0)
<1>1. EmptyConfig \in ConfigType
  <2> DEFINE table == <<>>
             zero == [idle |-> 0, active |-> 0]
             cfg == [rules |-> table, hasUniversial |-> FALSE, hasOffscreen |-> FALSE,
                     universial |-> zero, offscreen |-> zero,
                     useSfBackdoor |-> FALSE, touchSlackMs |-> 4000,
                     enableMinBrightness |-> 8, failed |-> FALSE]
  <2>1. table \in [{} -> RuleType] /\ {} \in SUBSET STRING
    OBVIOUS
  <2>2. zero \in RuleType
    BY DEF RuleType
  <2>3. EmptyConfig = cfg
    BY DEF EmptyConfig
  <2> HIDE DEF table, zero
  <2>4. table \in UNION {[N -> RuleType] : N \in SUBSET STRING}
    BY <2>1
  <2>5. cfg \in ConfigType
    BY <2>2, <2>4 DEF ConfigType
  <2> QED
    BY <2>3, <2>5
<1>2. DOMAIN EmptyConfig.rules = {} /\ ~EmptyConfig.hasUniversial /\ ~EmptyConfig.hasOffscreen
      /\ EmptyConfig.useSfBackdoor = FALSE /\ EmptyConfig.touchSlackMs = 4000
      /\ EmptyConfig.enableMinBrightness = 8
  BY DEF EmptyConfig
<1>3. \A kind, name : \A i \in About(lines, kind, name) : ~ (i <= 0)
  BY AboutType
<1>4. \A i \in DOMAIN lines : ~ (i <= 0)
  OBVIOUS
<1>5. TunablesRead(EmptyConfig, lines, 0)
  <2> DEFINE slack == ValueAt(lines, "touchSlackMs", 4000, 0)
             brightness == ValueAt(lines, "enableMinBrightness", 8, 0)
  <2>1. ValueAt(lines, "useSfBackdoor", 0, 0) = 0 /\ slack = 4000 /\ brightness = 8
    BY <1>3 DEF ValueAt
  <2>2. AtLeast100(slack) = slack /\ AtMost255(brightness) = brightness
    <3> HIDE DEF slack, brightness
    <3>1. slack \in Int /\ slack >= 100 /\ brightness \in Int /\ brightness <= 255
      BY <2>1
    <3> QED
      BY <3>1, BoundsType
  <2> QED
    BY <1>2, <2>1, <2>2 DEF TunablesRead
<1> QED
  BY <1>1, <1>2, <1>3, <1>4, <1>5 DEF Read, RulesRead, SpecialRead

LEMMA RuleStep ==
    ASSUME NEW lines \in Seq(Line), NEW k \in 1..Len(lines), NEW cfg,
           Read(cfg, lines, k - 1), lines[k].kind = "rule"
    PROVE  Read(ParseLine(cfg, lines[k]), lines, k)
<1> DEFINE name == lines[k].name
           rule == [idle |-> lines[k].idle, active |-> lines[k].active]
           new == ParseLine(cfg, lines[k])
<1>1. lines[k] \in Line /\ name \in STRING /\ rule \in RuleType
  BY DEF Line, RuleType
<1>2. new = AddRule(cfg, name, rule)
  BY DEF ParseLine
<1>3. Says(lines, k, rule)
  BY DEF Says
<1>4. \A n : k \in About(lines, "rule", n) <=> n = name
  BY DEF About
<1>5. lines[k].kind # "tunable" /\ TunablesRead(cfg, lines, k - 1)
  BY DEF Read
<1>6. cfg \in ConfigType
  BY DEF Read
<1> HIDE DEF name, rule, new
<1>7. CASE name = UNIVERSIAL
  <2>1. new = [cfg EXCEPT !.hasUniversial = TRUE, !.universial = rule]
    BY <1>2, <1>7 DEF AddRule, UNIVERSIAL, OFFSCREEN
  <2>2. /\ new \in ConfigType /\ new.hasUniversial = TRUE /\ new.universial = rule
        /\ new.rules = cfg.rules /\ new.hasOffscreen = cfg.hasOffscreen
        /\ new.offscreen = cfg.offscreen /\ new.useSfBackdoor = cfg.useSfBackdoor
        /\ new.touchSlackMs = cfg.touchSlackMs
        /\ new.enableMinBrightness = cfg.enableMinBrightness
    BY <1>1, <1>6, <2>1 DEF ConfigType
  <2>3. RulesRead(cfg.rules, lines, k)
    BY <1>7, KeepRules DEF Read, name
  <2>4. SpecialRead(TRUE, rule, UNIVERSIAL, lines, k)
    BY <1>3, <1>4, <1>7, SetSpecial
  <2>5. SpecialRead(cfg.hasOffscreen, cfg.offscreen, OFFSCREEN, lines, k)
    BY <1>4, <1>7, KeepSpecial DEF Read, UNIVERSIAL, OFFSCREEN
  <2>6. TunablesRead(new, lines, k)
    BY <1>5, <2>2, KeepTunables
  <2> QED
    BY <2>2, <2>3, <2>4, <2>5, <2>6 DEF Read, new
<1>8. CASE name = OFFSCREEN
  <2>1. new = [cfg EXCEPT !.hasOffscreen = TRUE, !.offscreen = rule]
    BY <1>2, <1>8 DEF AddRule, UNIVERSIAL, OFFSCREEN
  <2>2. /\ new \in ConfigType /\ new.hasOffscreen = TRUE /\ new.offscreen = rule
        /\ new.rules = cfg.rules /\ new.hasUniversial = cfg.hasUniversial
        /\ new.universial = cfg.universial /\ new.useSfBackdoor = cfg.useSfBackdoor
        /\ new.touchSlackMs = cfg.touchSlackMs
        /\ new.enableMinBrightness = cfg.enableMinBrightness
    BY <1>1, <1>6, <2>1 DEF ConfigType
  <2>3. RulesRead(cfg.rules, lines, k)
    BY <1>8, KeepRules DEF Read, name
  <2>4. SpecialRead(TRUE, rule, OFFSCREEN, lines, k)
    BY <1>3, <1>4, <1>8, SetSpecial
  <2>5. SpecialRead(cfg.hasUniversial, cfg.universial, UNIVERSIAL, lines, k)
    BY <1>4, <1>8, KeepSpecial DEF Read, UNIVERSIAL, OFFSCREEN
  <2>6. TunablesRead(new, lines, k)
    BY <1>5, <2>2, KeepTunables
  <2> QED
    BY <2>2, <2>3, <2>4, <2>5, <2>6 DEF Read, new
<1>9. CASE name \notin {UNIVERSIAL, OFFSCREEN}
  <2>1. new = [cfg EXCEPT !.rules = Emplace(cfg.rules, name, rule)]
    BY <1>2, <1>9 DEF AddRule
  <2>2. PICK N \in SUBSET STRING : cfg.rules \in [N -> RuleType]
    BY <1>6 DEF ConfigType
  <2>3. /\ N \cup {name} \in SUBSET STRING
        /\ Emplace(cfg.rules, name, rule) \in [N \cup {name} -> RuleType]
    BY <1>1, <2>2, Extension
  <2>4. Emplace(cfg.rules, name, rule) \in UNION {[M -> RuleType] : M \in SUBSET STRING}
    BY <2>3
  <2>5. /\ new \in ConfigType /\ new.rules = Emplace(cfg.rules, name, rule)
        /\ new.hasUniversial = cfg.hasUniversial /\ new.universial = cfg.universial
        /\ new.hasOffscreen = cfg.hasOffscreen /\ new.offscreen = cfg.offscreen
        /\ new.useSfBackdoor = cfg.useSfBackdoor /\ new.touchSlackMs = cfg.touchSlackMs
        /\ new.enableMinBrightness = cfg.enableMinBrightness
    BY <1>6, <2>1, <2>4 DEF ConfigType
  <2>6. RulesRead(Emplace(cfg.rules, name, rule), lines, k)
    BY <1>1, <1>3, <1>4, <1>9, <2>2, ExtendRules DEF Read
  <2>7. SpecialRead(cfg.hasUniversial, cfg.universial, UNIVERSIAL, lines, k)
    BY <1>4, <1>9, KeepSpecial DEF Read
  <2>8. SpecialRead(cfg.hasOffscreen, cfg.offscreen, OFFSCREEN, lines, k)
    BY <1>4, <1>9, KeepSpecial DEF Read
  <2>9. TunablesRead(new, lines, k)
    BY <1>5, <2>5, KeepTunables
  <2> QED
    BY <2>5, <2>6, <2>7, <2>8, <2>9 DEF Read, new
<1> QED
  BY <1>7, <1>8, <1>9

LEMMA OtherStep ==
    ASSUME NEW lines \in Seq(Line), NEW k \in 1..Len(lines), NEW cfg,
           Read(cfg, lines, k - 1), lines[k].kind # "rule"
    PROVE  Read(ParseLine(cfg, lines[k]), lines, k)
<1> DEFINE new == ParseLine(cfg, lines[k])
<1>1. cfg \in ConfigType /\ lines[k] \in Line
  BY DEF Read
<1>2. \A n : k \notin About(lines, "rule", n)
  BY DEF About
<1>3. /\ RulesRead(cfg.rules, lines, k)
      /\ SpecialRead(cfg.hasUniversial, cfg.universial, UNIVERSIAL, lines, k)
      /\ SpecialRead(cfg.hasOffscreen, cfg.offscreen, OFFSCREEN, lines, k)
  BY <1>2, KeepRules, KeepSpecial DEF Read
<1>4. TunablesRead(cfg, lines, k - 1)
  BY DEF Read
<1>5. CASE lines[k].kind = "tunable"
  <2> DEFINE name == lines[k].name
             value == lines[k].value
             slack == AtLeast100(value)
             brightness == AtMost255(value)
  <2>1. value \in Int /\ new = SetTunable(cfg, name, value)
    BY <1>1, <1>5 DEF Line, ParseLine
  <2>2. (value > 0) \in BOOLEAN /\ slack \in Int /\ brightness \in Int
    <3>1. value \in Int
      BY <2>1
    <3> HIDE DEF value
    <3>2. (value > 0) \in BOOLEAN
      BY <3>1
    <3> QED
      BY <3>1, <3>2, BoundsType, Zenon
  <2>3. /\ ValueAt(lines, "useSfBackdoor", 0, k) =
              IF name = "useSfBackdoor" THEN value ELSE ValueAt(lines, "useSfBackdoor", 0, k - 1)
        /\ ValueAt(lines, "touchSlackMs", 4000, k) =
              IF name = "touchSlackMs" THEN value ELSE ValueAt(lines, "touchSlackMs", 4000, k - 1)
        /\ ValueAt(lines, "enableMinBrightness", 8, k) =
              IF name = "enableMinBrightness" THEN value ELSE ValueAt(lines, "enableMinBrightness", 8, k - 1)
    <3>1. \A n : k \in About(lines, "tunable", n) <=> n = name
      BY <1>5 DEF About
    <3> QED
      BY <3>1, KeepValue, SetValue
  <2>4. \/ name = "useSfBackdoor" /\ new = [cfg EXCEPT !.useSfBackdoor = value > 0]
        \/ name = "touchSlackMs" /\ new = [cfg EXCEPT !.touchSlackMs = slack]
        \/ name = "enableMinBrightness" /\ new = [cfg EXCEPT !.enableMinBrightness = brightness]
        \/ name \notin Tunables /\ new = cfg
    BY <2>1 DEF SetTunable, Tunables, AtLeast100, AtMost255,
       MIN_TOUCH_SLACK_MS, MAX_ENABLE_MIN_BRIGHTNESS
  <2>5. slack = AtLeast100(value) /\ brightness = AtMost255(value)
    OBVIOUS
  <2> HIDE DEF new, name, value, slack, brightness
  <2>6. /\ new \in ConfigType
        /\ new.rules = cfg.rules /\ new.hasUniversial = cfg.hasUniversial
        /\ new.universial = cfg.universial /\ new.hasOffscreen = cfg.hasOffscreen
        /\ new.offscreen = cfg.offscreen
        /\ new.useSfBackdoor = IF name = "useSfBackdoor" THEN value > 0 ELSE cfg.useSfBackdoor
        /\ new.touchSlackMs = IF name = "touchSlackMs" THEN slack ELSE cfg.touchSlackMs
        /\ new.enableMinBrightness = IF name = "enableMinBrightness" THEN brightness
                                     ELSE cfg.enableMinBrightness
    BY <1>1, <2>2, <2>4 DEF ConfigType, Tunables
  <2>7. TunablesRead(new, lines, k)
    <3>1. new.useSfBackdoor <=> ValueAt(lines, "useSfBackdoor", 0, k) > 0
      <4>1. CASE name = "useSfBackdoor"
        <5>1. new.useSfBackdoor = (value > 0) /\ ValueAt(lines, "useSfBackdoor", 0, k) = value
          BY <2>3, <2>6, <4>1
        <5> QED
          BY <5>1
      <4>2. CASE name # "useSfBackdoor"
        <5>1. /\ new.useSfBackdoor = cfg.useSfBackdoor
              /\ ValueAt(lines, "useSfBackdoor", 0, k) = ValueAt(lines, "useSfBackdoor", 0, k - 1)
          BY <2>3, <2>6, <4>2
        <5> QED
          BY <5>1, <1>4 DEF TunablesRead
      <4> QED
        BY <4>1, <4>2
    <3>2. new.touchSlackMs = AtLeast100(ValueAt(lines, "touchSlackMs", 4000, k))
      BY <1>4, <2>3, <2>5, <2>6 DEF TunablesRead
    <3>3. new.enableMinBrightness = AtMost255(ValueAt(lines, "enableMinBrightness", 8, k))
      BY <1>4, <2>3, <2>5, <2>6 DEF TunablesRead
    <3> QED
      BY <3>1, <3>2, <3>3 DEF TunablesRead
  <2> QED
    BY <1>3, <2>6, <2>7 DEF Read, new
<1>6. CASE lines[k].kind # "tunable"
  <2>1. \/ new = [cfg EXCEPT !.failed = cfg.failed \/ lines[k].name \in Tunables]
        \/ new = cfg
    BY <1>6 DEF ParseLine
  <2>2. /\ new \in ConfigType /\ new.useSfBackdoor = cfg.useSfBackdoor
        /\ new.rules = cfg.rules /\ new.hasUniversial = cfg.hasUniversial
        /\ new.universial = cfg.universial /\ new.hasOffscreen = cfg.hasOffscreen
        /\ new.offscreen = cfg.offscreen /\ new.touchSlackMs = cfg.touchSlackMs
        /\ new.enableMinBrightness = cfg.enableMinBrightness
    <3>1. (cfg.failed \/ lines[k].name \in Tunables) \in BOOLEAN
      OBVIOUS
    <3> HIDE DEF new
    <3> QED
      BY <1>1, <2>1, <3>1 DEF ConfigType
  <2> HIDE DEF new
  <2>3. TunablesRead(new, lines, k)
    BY <1>4, <1>6, <2>2, KeepTunables
  <2> QED
    BY <1>3, <2>2, <2>3 DEF Read, new
<1> QED
  BY <1>5, <1>6

\* What is loaded is what the lines say.
LEMMA LoadReads ==
    ASSUME NEW lines \in Seq(Line)
    PROVE  Read(LoadConfig(lines), lines, Len(lines))
<1>1. PICK c : /\ c[0] = EmptyConfig
               /\ \A k \in 1..Len(lines) : c[k] = ParseLine(c[k - 1], lines[k])
               /\ LoadConfig(lines) = c[Len(lines)]
  BY LoadIsStepwise
<1> DEFINE T == {k \in 0..Len(lines) : ~Read(c[k], lines, k)}
<1>2. T = {}
  <2> SUFFICES ASSUME T # {}
               PROVE  FALSE
    OBVIOUS
  <2>0. T \subseteq Nat
    OBVIOUS
  <2>1. PICK k \in T : \A j \in T : k <= j
    <3> HIDE DEF T
    <3> QED
      BY <2>0, LeastNatural
  <2>2. CASE k = 0
    BY <1>1, <2>1, <2>2, EmptyRead
  <2>3. CASE k # 0
    <3>1. k \in 1..Len(lines) /\ k - 1 \in 0..Len(lines) /\ k - 1 \notin T
      BY <2>1, <2>3
    <3>2. Read(c[k - 1], lines, k - 1)
      BY <3>1
    <3>3. Read(ParseLine(c[k - 1], lines[k]), lines, k)
      BY <3>1, <3>2, RuleStep, OtherStep
    <3> QED
      BY <1>1, <2>1, <3>1, <3>3
  <2> QED
    BY <2>2, <2>3
<1>3. Len(lines) \in 0..Len(lines)
  OBVIOUS
<1> QED
  BY <1>1, <1>2, <1>3

LEMMA ValidFits ==
    ASSUME NEW cfg, NEW rule \in RuleType, cfg.useSfBackdoor \in BOOLEAN, ~InvalidRule(cfg, rule)
    PROVE  KeepsToMethod(cfg, rule)
<1>1. rule.idle \in Int /\ rule.active \in Int
  BY DEF RuleType
<1>2. CASE rule.idle = -1 /\ rule.active = -1
  BY <1>2 DEF KeepsToMethod, FitsMethod, ValueFits
<1>3. CASE ~(rule.idle = -1 /\ rule.active = -1)
  <2>1. cfg.useSfBackdoor <=> rule.idle < 20 /\ rule.active < 20
    BY <1>3 DEF InvalidRule, IsDefaultRule, IsSfBackdoorRule
  <2>2. CASE cfg.useSfBackdoor
    BY <1>1, <2>1, <2>2 DEF KeepsToMethod, FitsMethod, ValueFits
  <2>3. CASE ~cfg.useSfBackdoor
    BY <1>1, <2>1, <2>3 DEF KeepsToMethod, FitsMethod, ValueFits, Mixed
  <2> QED
    BY <2>2, <2>3
<1> QED
  BY <1>2, <1>3

\* A configuration that is accepted is the one that its lines state, by the
\* manual's order of the rules and last value, default and range of each tunable,
\* whatever they are and however many.  Every value fits the method, as the
\* manual asks, but for the rules that mix an index and a rate without the
\* backdoor (Mixed): those are accepted, against the manual.
THEOREM AcceptedIsAsWritten ==
    ASSUME NEW lines \in Seq(Line), Accepted(LoadConfig(lines))
    PROVE  AsWritten(LoadConfig(lines), lines)
<1> DEFINE cfg == LoadConfig(lines)
           n == Len(lines)
<1>1. Read(cfg, lines, n)
  BY LoadReads
<1>2. cfg.hasOffscreen /\ cfg.hasUniversial /\ ~FindInvalidRule(cfg)
  BY DEF Accepted
<1>3. n \in Nat /\ DOMAIN lines = 1..n
  OBVIOUS
<1>4. \A kind, name : About(lines, kind, name) \subseteq 1..n
  BY AboutType
<1> HIDE DEF cfg, n
<1>5. \A kind, name : \A i : LastOf(About(lines, kind, name), i, n) =>
          i \in About(lines, kind, name) /\ Max(About(lines, kind, name)) = i
  <2> SUFFICES ASSUME NEW kind, NEW name, NEW i, LastOf(About(lines, kind, name), i, n)
               PROVE  i \in About(lines, kind, name) /\ Max(About(lines, kind, name)) = i
    OBVIOUS
  <2>1. /\ About(lines, kind, name) \subseteq Int /\ i \in About(lines, kind, name)
        /\ \A j \in About(lines, kind, name) : j <= i
    BY <1>3, <1>4 DEF LastOf
  <2> QED
    BY <2>1, MaxFacts
<1>6. FollowsRules(cfg, lines)
  <2>1. ASSUME NEW name \in {UNIVERSIAL, OFFSCREEN}, NEW rule, SpecialRead(TRUE, rule, name, lines, n)
        PROVE  /\ About(lines, "rule", name) # {}
               /\ Says(lines, Max(About(lines, "rule", name)), rule)
    BY <1>5, <2>1 DEF SpecialRead
  <2>2. /\ SpecialRead(TRUE, cfg.universial, UNIVERSIAL, lines, n)
        /\ SpecialRead(TRUE, cfg.offscreen, OFFSCREEN, lines, n)
    BY <1>1, <1>2 DEF Read, SpecialRead
  <2>3. ASSUME NEW name \in DOMAIN cfg.rules
        PROVE  /\ About(lines, "rule", name) # {}
               /\ Says(lines, Min(About(lines, "rule", name)), cfg.rules[name])
    <3>1. PICK i \in About(lines, "rule", name) :
             /\ Says(lines, i, cfg.rules[name])
             /\ \A j \in About(lines, "rule", name) : i <= j
      BY <1>1 DEF Read, RulesRead
    <3>2. Min(About(lines, "rule", name)) = i
      <4>1. About(lines, "rule", name) \subseteq Int
        BY <1>3, <1>4
      <4> QED
        BY <3>1, <4>1, MinFacts
    <3> QED
      BY <3>1, <3>2
  <2>4. ASSUME NEW i \in DOMAIN lines, lines[i].kind = "rule",
               lines[i].name \notin {UNIVERSIAL, OFFSCREEN}
        PROVE  lines[i].name \in DOMAIN cfg.rules
    BY <1>1, <1>3, <2>4 DEF Read, RulesRead
  <2>5. ASSUME NEW l \in ToSet(lines), l.kind = "rule"
        PROVE  CASE l.name = UNIVERSIAL -> Says(lines, Max(About(lines, "rule", l.name)), cfg.universial)
                 [] l.name = OFFSCREEN -> Says(lines, Max(About(lines, "rule", l.name)), cfg.offscreen)
                 [] OTHER -> /\ l.name \in DOMAIN cfg.rules
                             /\ Says(lines, Min(About(lines, "rule", l.name)), cfg.rules[l.name])
    <3>1. PICK i \in DOMAIN lines : lines[i] = l
      BY DEF ToSet
    <3>2. CASE l.name = UNIVERSIAL
      BY <2>1, <2>2, <3>2 DEF UNIVERSIAL, OFFSCREEN
    <3>3. CASE l.name = OFFSCREEN
      BY <2>1, <2>2, <3>3 DEF UNIVERSIAL, OFFSCREEN
    <3>4. CASE l.name \notin {UNIVERSIAL, OFFSCREEN}
      BY <2>3, <2>4, <2>5, <3>1, <3>4
    <3> QED
      BY <3>2, <3>3, <3>4
  <2>6. {} \notin {About(lines, "rule", UNIVERSIAL), About(lines, "rule", OFFSCREEN)}
    BY <2>1, <2>2
  <2> QED
    BY <2>3, <2>5, <2>6 DEF FollowsRules
<1>7. FollowsTunables(cfg, lines)
  <2>1. cfg \in ConfigType /\ cfg.useSfBackdoor \in BOOLEAN
    BY <1>1 DEF Read, ConfigType
  <2>2. \A name \in DOMAIN cfg.rules : KeepsToMethod(cfg, cfg.rules[name])
    <3>1. \A name \in DOMAIN cfg.rules : cfg.rules[name] \in RuleType
      BY <2>1 DEF ConfigType
    <3> QED
      BY <1>2, <2>1, <3>1, ValidFits DEF FindInvalidRule
  <2>3. KeepsToMethod(cfg, cfg.universial) /\ KeepsToMethod(cfg, cfg.offscreen)
    <3>1. cfg.universial \in RuleType /\ cfg.offscreen \in RuleType
      BY <2>1 DEF ConfigType
    <3> QED
      BY <1>2, <2>1, <3>1, ValidFits DEF FindInvalidRule
  <2>4. /\ ValueAt(lines, "useSfBackdoor", 0, n) = LastValue(lines, "useSfBackdoor", 0)
        /\ ValueAt(lines, "touchSlackMs", 4000, n) = LastValue(lines, "touchSlackMs", 4000)
        /\ ValueAt(lines, "enableMinBrightness", 8, n) = LastValue(lines, "enableMinBrightness", 8)
    <3> SUFFICES ASSUME NEW name, NEW default
                 PROVE  ValueAt(lines, name, default, n) = LastValue(lines, name, default)
      OBVIOUS
    <3>1. {i \in About(lines, "tunable", name) : i <= n} = About(lines, "tunable", name)
      BY <1>3, <1>4
    <3> QED
      BY <3>1 DEF ValueAt, LastValue
  <2>5. TunablesRead(cfg, lines, n)
    BY <1>1 DEF Read
  <2>6. /\ cfg.useSfBackdoor <=> LastValue(lines, "useSfBackdoor", 0) > 0
        /\ cfg.touchSlackMs = AtLeast100(LastValue(lines, "touchSlackMs", 4000))
        /\ cfg.enableMinBrightness = AtMost255(LastValue(lines, "enableMinBrightness", 8))
    BY <2>4, <2>5 DEF TunablesRead
  <2>7. cfg.useSfBackdoor = (LastValue(lines, "useSfBackdoor", 0) > 0)
    BY <2>1, <2>6
  <2> QED
    BY <2>2, <2>3, <2>6, <2>7 DEF FollowsTunables, AtLeast100, AtMost255
<1> QED
  BY <1>6, <1>7 DEF AsWritten, cfg
==============================================================================
