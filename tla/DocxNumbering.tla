--------------------------- MODULE DocxNumbering ---------------------------
(***************************************************************************)
(* List labels of a DOCX story (docray-docx/src/numbering.rs).  A numbered *)
(* paragraph names an instance (num) and a level; the instance refers to   *)
(* an abstract definition and may override levels and starts.  Counters    *)
(* belong to the instance; a deeper level restarts as its trigger says.    *)
(*                                                                         *)
(*   lvl [start, restart, text, format, picture]                           *)
(*       restart: << >> or << trigger >>; text: the levels its label shows *)
(*   num [abstract, overrides]   override [start, level], each << >> or    *)
(*       one value; both functions are defined on the levels given         *)
(*                                                                         *)
(* Levels count from 0.  Warnings and the fixed letters of a label are     *)
(* left out.                                                               *)
(***************************************************************************)
EXTENDS Integers, Sequences, FiniteSetsExt

CONSTANTS Numberings,   \* [abstracts, nums]: the parts numbering.xml may hold
          MaxLevel,     \* 8: nine levels
          NumIds,       \* instances paragraphs name, known or not
          AskedLevels,  \* levels paragraphs name, beyond MaxLevel as well
          MaxNumber,    \* the largest i64
          MaxItems

VARIABLES numbering, values, items

vars == << numbering, values, items >>

Levels == 0..MaxLevel

\* What Numbering::from_xml may return: an instance and an abstract list have
\* finitely many levels, keyed by u32.
Starts == {s \in Int : s <= MaxNumber}
Optional(S) == {s \in Seq(S) : Len(s) <= 1}
ParsedLevel ==
  [start : Starts, restart : Optional(Nat), text : Seq(Levels), format : STRING, picture : BOOLEAN]
ParsedOverride == [start : Optional(Starts), level : Optional(ParsedLevel)]

Keyed(f, S) == DOMAIN f \subseteq Nat /\ IsFiniteSet(DOMAIN f) /\ f \in [DOMAIN f -> S]

NumberingsTyped ==
  /\ MaxLevel \in Nat /\ MaxNumber \in Int /\ AskedLevels \subseteq Nat
  /\ \A m \in Numberings :
        /\ \A a \in DOMAIN m.abstracts : Keyed(m.abstracts[a], ParsedLevel)
        /\ \A n \in DOMAIN m.nums : Keyed(m.nums[n].overrides, ParsedOverride)

Init ==
  /\ numbering \in Numberings
  /\ values = [n \in NumIds |-> [l \in Levels |-> << >>]]
  /\ items = << >>

LevelsOf(num) == numbering.abstracts[num.abstract]

\* The level in force: the override's own, else the abstract one, with the
\* overridden start; << >> when neither defines it.
ResolvedLevel(num, l) ==
  LET over == IF l \in DOMAIN num.overrides THEN num.overrides[l] ELSE [start |-> << >>, level |-> << >>]
      base == IF l \in DOMAIN LevelsOf(num) THEN << LevelsOf(num)[l] >> ELSE << >>
      level == IF over.level # << >> THEN over.level ELSE base
  IN IF level = << >> \/ over.start = << >> THEN level
     ELSE << [level[1] EXCEPT !.start = over.start[1]] >>

Clamped(l) == IF l < MaxLevel THEN l ELSE MaxLevel

Deepest(num) == Clamped(Max(DOMAIN LevelsOf(num) \cup DOMAIN num.overrides \cup {0}))

\* The deepest level, counted from 1, whose items restart this one; 0 is none.
Trigger(level, deeper) == IF level.restart = << >> THEN deeper ELSE level.restart[1]

\* Mutant of RestartedBy: only the level right above restarts it.
RestartedByParent(num, deeper, l) ==
  LET level == ResolvedLevel(num, deeper)
  IN /\ l < deeper /\ deeper <= Deepest(num) /\ level # << >>
     /\ LET trigger == Trigger(level[1], deeper) IN trigger # 0 /\ l = trigger - 1

\* An item at level l clears the counter of the deeper level.
RestartedBy(num, deeper, l) ==
  LET level == ResolvedLevel(num, deeper)
  IN /\ l < deeper /\ deeper <= Deepest(num) /\ level # << >>
     /\ LET trigger == Trigger(level[1], deeper) IN trigger # 0 /\ l <= trigger - 1

-----------------------------------------------------------------------------
(* How a number is written: letters count without a zero, roman numerals   *)
(* up to 3999; beyond them, and for other formats, in decimals.            *)

\* What is left of a number once its last k letters are written.
LettersLeft(v) ==
  LET left[k \in 0..v] ==
        IF k = 0 THEN v ELSE IF left[k - 1] = 0 THEN 0 ELSE (left[k - 1] - 1) \div 26
  IN left

\* Letters count from 1 to 26, and there is no zero.
Letters(v) ==
  LET left == LettersLeft(v)
      n == CHOOSE n \in 0..v : left[n] = 0 /\ \A k \in 0..(n - 1) : left[k] # 0
  IN [i \in 1..n |-> ((left[n - i] - 1) % 26) + 1]

RomanSteps == << 1000, 900, 500, 400, 100, 90, 50, 40, 10, 9, 5, 4, 1 >>

\* What is left of a number once the first i numerals are written.
RomanLeft(v) ==
  LET left[i \in 0..Len(RomanSteps)] == IF i = 0 THEN v ELSE left[i - 1] % RomanSteps[i]
  IN left

\* How often each of the numerals is written.
Roman(v) ==
  LET left == RomanLeft(v)
  IN [i \in 1..Len(RomanSteps) |-> left[i - 1] \div RomanSteps[i]]

FormatNumber(v, format) ==
  CASE format = "letter" /\ v > 0 -> [as |-> "letter", digits |-> Letters(v)]
    [] format = "roman" /\ v \in 1..3999 -> [as |-> "roman", digits |-> Roman(v)]
    [] format = "bullet" -> [as |-> "bullet", digits |-> << >>]
    [] OTHER -> [as |-> "decimal", digits |-> << v >>]

\* The label: a number for each level the text shows, the start of a level
\* that has not been counted yet.
SubstituteLabel(num, level, counters) ==
  LET shown(l) == ResolvedLevel(num, l)
      value(l) == IF counters[l] # << >> THEN counters[l][1]
                  ELSE IF shown(l) # << >> THEN shown(l)[1].start ELSE 1
  IN [i \in DOMAIN level.text |->
        FormatNumber(value(level.text[i]),
                     IF shown(level.text[i]) = << >> THEN "decimal" ELSE shown(level.text[i])[1].format)]

ShowsPicture(num, level) ==
  level.picture \/ \E i \in DOMAIN level.text :
    LET shown == ResolvedLevel(num, level.text[i]) IN shown # << >> /\ shown[1].picture

Saturated(v) == IF v < MaxNumber THEN v ELSE MaxNumber

\* The next item of a list; a paragraph whose instance, abstract definition
\* or level is missing is no list item.
NextItem(n, asked) ==
  LET l == Clamped(asked)
      num == numbering.nums[n]
      level == ResolvedLevel(num, l)
      counted == IF values[n][l] = << >> THEN level[1].start ELSE Saturated(values[n][l][1] + 1)
      counters == [d \in Levels |-> IF d = l THEN << counted >>
                                    ELSE IF RestartedBy(num, d, l) THEN << >> ELSE values[n][d]]
      picture == ShowsPicture(num, level[1])
  IN /\ n \in DOMAIN numbering.nums
     /\ num.abstract \in DOMAIN numbering.abstracts
     /\ level # << >>
     /\ values' = [values EXCEPT ![n] = counters]
     /\ items' = Append(items, [num |-> n, level |-> l,
                   kind |-> IF picture \/ level[1].format = "bullet" THEN "bullet" ELSE "ordered",
                   label |-> IF picture THEN << FormatNumber(0, "bullet") >>
                             ELSE SubstituteLabel(num, level[1], counters)])
     /\ UNCHANGED numbering

Next == Len(items) < MaxItems /\ \E n \in NumIds, asked \in AskedLevels : NextItem(n, asked)

Spec == Init /\ [][Next]_vars

-----------------------------------------------------------------------------
(* Properties *)

\* Item k begins the counting of a level of an instance anew.
Restarts(k, n, l) ==
  /\ items[k].num = n /\ items[k].level < l
  /\ items[k].level + 1 <= Trigger(ResolvedLevel(numbering.nums[n], l)[1], l)

\* Items up to i of an instance at a level since something restarted it.
Since(i, n, l) ==
  { k \in 1..i : items[k].num = n /\ items[k].level = l /\ \A m \in k..i : ~Restarts(m, n, l) }

\* What the level is at after item i: its start, plus one per item after the first.
Counted(i, n, l) ==
  LET start == ResolvedLevel(numbering.nums[n], l)[1].start
      since == Cardinality(Since(i, n, l))
  IN IF since = 0 THEN start ELSE Saturated(start + since - 1)

LettersRead(digits) ==
  LET read[i \in 0..Len(digits)] == IF i = 0 THEN 0 ELSE 26 * read[i - 1] + digits[i]
  IN read[Len(digits)]

RomanRead(digits) ==
  LET read[i \in 0..Len(digits)] == IF i = 0 THEN 0 ELSE read[i - 1] + RomanSteps[i] * digits[i]
  IN read[Len(digits)]

ReadBack(number) ==
  CASE number.as = "letter" -> LettersRead(number.digits)
    [] number.as = "roman" -> RomanRead(number.digits)
    [] OTHER -> number.digits[1]

\* Every number of every label, read back, is the start of its level plus the
\* items counted there since the last restart: over interleaved instances,
\* overridden levels and starts, other triggers, skipped levels and any order
\* of levels (numbering.rs 94-175, 212-292).
ListsCounted ==
  \A i \in DOMAIN items :
    LET n == items[i].num
        num == numbering.nums[n]
        level == ResolvedLevel(num, items[i].level)[1]
    IN ~ShowsPicture(num, level) => \A j \in DOMAIN level.text :
         LET shown == ResolvedLevel(num, level.text[j])
         IN shown # << >> /\ shown[1].format # "bullet" =>
              ReadBack(items[i].label[j]) = Counted(i, n, level.text[j])
=============================================================================
