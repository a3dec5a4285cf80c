---------------------------- MODULE ConverterProofs ----------------------------
(***************************************************************************)
(* The converters side by side: what is proved of each holds of every      *)
(* behaviour of Converters.  Before that, the counters and labels of       *)
(* lists, for every numbering part, every order of items over its          *)
(* instances and levels, and numbers of any size.                          *)
(***************************************************************************)
EXTENDS Converters, ListProofs, TLAPS

(* Numbers up to a bound have a greatest one, which Max finds.             *)
LEMMA MaxIsGreatest ==
    ASSUME NEW bound \in Nat, NEW S \in SUBSET (0 .. bound), S # {}
    PROVE  Max(S) \in S /\ \A x \in S : x <= Max(S)
<1> DEFINE below == {d \in Nat : bound - d \in S}
<1>1. below \in SUBSET Nat /\ below # {}
  <2>1. PICK x \in S : TRUE
    OBVIOUS
  <2>2. x \in Nat /\ bound - x \in Nat /\ bound - (bound - x) = x
    OBVIOUS
  <2>3. QED
    BY <2>1, <2>2
<1>2. PICK d \in below : \A e \in below : d <= e
  <2> HIDE DEF below
  <2>1. QED
    BY <1>1, LeastOne
<1>3. bound - d \in S /\ \A x \in S : x <= bound - d
  <2>1. ASSUME NEW x \in S PROVE x <= bound - d
    <3>1. x \in Nat /\ bound - x \in Nat /\ bound - (bound - x) = x
      OBVIOUS
    <3>2. bound - x \in below
      BY <3>1
    <3>3. d <= bound - x /\ d \in Nat
      BY <1>2, <3>2
    <3>4. QED
      BY <3>1, <3>3
  <2>2. QED
    BY <1>2, <2>1
<1>4. \E m \in S : \A x \in S : x <= m
  BY <1>3
<1>5. Max(S) = CHOOSE m \in S : \A x \in S : m >= x
  BY DEF Max
<1>6. \E m \in S : \A x \in S : m >= x
  BY <1>4
<1>7. Max(S) \in S /\ \A x \in S : Max(S) >= x
  BY <1>5, <1>6
<1>8. QED
  BY <1>7

(* What the first n steps make of a start.                                 *)
Run(f, n, S, base, step) ==
    /\ f \in [0 .. n -> S] /\ f[0] = base
    /\ \A k \in 1 .. n : f[k] = step[<<k, f[k - 1]>>]

(* Steps can be taken one after the other.                                 *)
LEMMA RunExists ==
    ASSUME NEW n \in Nat, NEW S, NEW base \in S, NEW step,
           \A k \in 1 .. n, x \in S : step[<<k, x>>] \in S
    PROVE  \E f : Run(f, n, S, base, step)
<1> DEFINE bad == {k \in Nat : k <= n /\ ~ \E f : Run(f, k, S, base, step)}
<1>1. SUFFICES ASSUME bad # {} PROVE FALSE
  OBVIOUS
<1>2. PICK m \in bad : \A k \in bad : m <= k
  <2>1. bad \in SUBSET Nat
    OBVIOUS
  <2> HIDE DEF bad
  <2>2. QED
    BY <1>1, <2>1, LeastOne
<1>3. CASE m = 0
  <2> DEFINE f == [k \in 0 .. 0 |-> base]
  <2>1. f \in [0 .. 0 -> S] /\ f[0] = base /\ 1 .. 0 = {}
    OBVIOUS
  <2> HIDE DEF f
  <2>2. Run(f, 0, S, base, step)
    BY <2>1 DEF Run
  <2>3. QED
    BY <1>2, <1>3, <2>2
<1>4. CASE m # 0
  <2>1. m - 1 \in Nat /\ m - 1 \notin bad /\ m \in 1 .. n /\ m - 1 <= n
    BY <1>2, <1>4
  <2>2. PICK f : Run(f, m - 1, S, base, step)
    BY <2>1
  <2>3. f[m - 1] \in S /\ step[<<m, f[m - 1]>>] \in S
    BY <2>1, <2>2 DEF Run
  <2> DEFINE g == [k \in 0 .. m |-> IF k = m THEN step[<<m, f[m - 1]>>] ELSE f[k]]
  <2>4. \A k \in 0 .. m - 1 : g[k] = f[k] /\ f[k] \in S
    BY <1>2, <2>2 DEF Run
  <2>5. g[m] = step[<<m, f[m - 1]>>] /\ g \in [0 .. m -> S]
    <3>1. g[m] = step[<<m, f[m - 1]>>] /\ g = [k \in 0 .. m |-> g[k]]
      BY <2>1
    <3>2. ASSUME NEW k \in 0 .. m PROVE g[k] \in S
      <4>1. k = m \/ k \in 0 .. m - 1
        BY <2>1
      <4> HIDE DEF g
      <4>2. QED
        BY <2>3, <2>4, <3>1, <4>1
    <3> HIDE DEF g
    <3>3. QED
      BY <3>1, <3>2
  <2> HIDE DEF g
  <2>6. g[0] = base
    BY <2>1, <2>2, <2>4 DEF Run
  <2>7. ASSUME NEW k \in 1 .. m PROVE g[k] = step[<<k, g[k - 1]>>]
    <3>1. CASE k = m
      BY <2>1, <2>4, <2>5, <3>1
    <3>2. CASE k # m
      <4>1. k \in 1 .. m - 1 /\ k \in 0 .. m - 1 /\ k - 1 \in 0 .. m - 1
        BY <3>2
      <4>2. QED
        BY <2>2, <2>4, <4>1 DEF Run
    <3>3. QED
      BY <3>1, <3>2
  <2>8. Run(g, m, S, base, step)
    BY <2>5, <2>6, <2>7 DEF Run
  <2>9. QED
    BY <1>2, <2>8
<1>5. QED
  BY <1>3, <1>4

(***************************************************************************)
(* How numbers are written and read back.                                  *)
(***************************************************************************)
(* The next letter leaves a 26th of what was left, rounded down.           *)
LEMMA LettersLeftIs ==
    ASSUME NEW v \in Nat
    PROVE  /\ LettersLeft(v) \in [0 .. v -> Nat] /\ LettersLeft(v)[0] = v
           /\ \A k \in 1 .. v : LettersLeft(v)[k] =
                 IF LettersLeft(v)[k - 1] = 0 THEN 0 ELSE (LettersLeft(v)[k - 1] - 1) \div 26
<1> DEFINE fewer(x) == IF x = 0 THEN 0 ELSE (x - 1) \div 26
           step == [p \in (1 .. v) \X Nat |-> fewer(p[2])]
           Is(f) == f = [k \in 0 .. v |-> IF k = 0 THEN v ELSE fewer(f[k - 1])]
<1>1. \A x \in Nat : fewer(x) \in Nat
  OBVIOUS
<1>2. \A k \in 1 .. v, x \in Nat : step[<<k, x>>] = fewer(x)
  OBVIOUS
<1>3. PICK f : Run(f, v, Nat, v, step)
  <2>1. \A k \in 1 .. v, x \in Nat : step[<<k, x>>] \in Nat
    BY <1>1, <1>2
  <2> HIDE DEF step, fewer
  <2>2. QED
    BY <2>1, RunExists
<1>4. Is(f)
  <2> HIDE DEF step, fewer
  <2>1. ASSUME NEW k \in 0 .. v PROVE f[k] = IF k = 0 THEN v ELSE fewer(f[k - 1])
    <3>1. k = 0 \/ (k \in 1 .. v /\ k - 1 \in 0 .. v)
      OBVIOUS
    <3>2. QED
      BY <1>2, <1>3, <3>1 DEF Run
  <2>2. f = [k \in 0 .. v |-> f[k]]
    BY <1>3 DEF Run
  <2>3. QED
    BY <2>1, <2>2
<1>5. LettersLeft(v) = CHOOSE g : Is(g)
  BY DEF LettersLeft
<1>6. Is(LettersLeft(v))
  <2> HIDE DEF Is
  <2>1. QED
    BY <1>4, <1>5
<1>7. ASSUME NEW g, Is(g)
      PROVE  /\ g \in [0 .. v -> Nat] /\ g[0] = v
             /\ \A k \in 1 .. v : g[k] = fewer(g[k - 1])
  <2> HIDE DEF step, fewer
  <2>1. g[0] = v /\ \A k \in 1 .. v : g[k] = fewer(g[k - 1])
    BY <1>7
  <2> DEFINE bad == {k \in Nat : k <= v /\ g[k] \notin Nat}
  <2>2. bad = {}
    <3>1. SUFFICES ASSUME bad # {} PROVE FALSE
      OBVIOUS
    <3>2. PICK m \in bad : \A k \in bad : m <= k
      <4>1. bad \in SUBSET Nat
        OBVIOUS
      <4> HIDE DEF bad
      <4>2. QED
        BY <3>1, <4>1, LeastOne
    <3>3. m # 0
      BY <2>1, <3>2
    <3>4. m \in 1 .. v /\ g[m - 1] \in Nat
      BY <3>2, <3>3
    <3>5. QED
      BY <1>1, <2>1, <3>2, <3>4
  <2>3. \A k \in 0 .. v : g[k] \in Nat
    BY <2>2
  <2>4. g = [k \in 0 .. v |-> g[k]]
    BY <1>7
  <2>5. QED
    BY <2>1, <2>3, <2>4
<1>8. QED
  <2> HIDE DEF Is, step
  <2>1. QED
    BY <1>6, <1>7

(* A number has no more letters than it counts, and some number of them    *)
(* leaves nothing.                                                         *)
LEMMA LettersEnd ==
    ASSUME NEW v \in Nat
    PROVE  \E n \in 0 .. v : LettersLeft(v)[n] = 0 /\ \A k \in 0 .. (n - 1) : LettersLeft(v)[k] # 0
<1> DEFINE rest == LettersLeft(v)
<1>1. /\ rest \in [0 .. v -> Nat] /\ rest[0] = v
      /\ \A k \in 1 .. v : rest[k] = IF rest[k - 1] = 0 THEN 0 ELSE (rest[k - 1] - 1) \div 26
  BY LettersLeftIs
<1> HIDE DEF rest
<1>2. \A k \in 1 .. v : rest[k - 1] \in Nat /\ rest[k] \in Nat /\ (rest[k - 1] # 0 => rest[k] < rest[k - 1])
  <2> TAKE k \in 1 .. v
  <2>1. k - 1 \in 0 .. v /\ k \in 0 .. v
    OBVIOUS
  <2>2. rest[k - 1] \in Nat /\ rest[k] \in Nat
    BY <1>1, <2>1
  <2>3. \A x \in Nat : x # 0 => (x - 1) \div 26 < x
    OBVIOUS
  <2>4. QED
    BY <1>1, <2>2, <2>3
<1> DEFINE bad == {k \in Nat : k <= v /\ ~ (rest[k] <= v - k)}
<1>3. bad = {}
  <2>1. SUFFICES ASSUME bad # {} PROVE FALSE
    OBVIOUS
  <2>2. PICK m \in bad : \A k \in bad : m <= k
    <3>1. bad \in SUBSET Nat
      OBVIOUS
    <3> HIDE DEF bad
    <3>2. QED
      BY <2>1, <3>1, LeastOne
  <2>3. m # 0
    BY <1>1, <2>2
  <2>4. m \in 1 .. v /\ rest[m - 1] <= v - (m - 1)
    BY <2>2, <2>3
  <2>5. rest[m - 1] = 0 => rest[m] = 0
    BY <1>1, <2>4
  <2>6. QED
    BY <1>2, <2>2, <2>4, <2>5
<1>4. rest[v] = 0
  <2>1. v \notin bad /\ v \in 0 .. v
    BY <1>3
  <2>2. rest[v] <= v - v /\ rest[v] \in Nat
    BY <1>1, <2>1
  <2>3. QED
    BY <2>2
<1> DEFINE ends == {n \in Nat : n <= v /\ rest[n] = 0}
<1>5. PICK n \in ends : \A k \in ends : n <= k
  <2>1. ends \in SUBSET Nat /\ ends # {}
    BY <1>4
  <2> HIDE DEF ends
  <2>2. QED
    BY <2>1, LeastOne
<1>6. ASSUME NEW k \in 0 .. (n - 1) PROVE rest[k] # 0
  BY <1>5
<1>7. QED
  BY <1>5, <1>6 DEF rest

(* Letters that are read from the left give back the number.               *)
LEMMA LettersReadBack ==
    ASSUME NEW v \in Nat
    PROVE  LettersRead(Letters(v)) = v
<1> DEFINE rest == LettersLeft(v)
           n == CHOOSE n \in 0 .. v : rest[n] = 0 /\ \A k \in 0 .. (n - 1) : rest[k] # 0
           d == [i \in 1 .. n |-> ((rest[n - i] - 1) % 26) + 1]
           after(x, i) == 26 * x + d[i]
           step == [p \in (1 .. n) \X Int |-> after(p[2], p[1])]
           Is(f) == f = [i \in 0 .. Len(d) |-> IF i = 0 THEN 0 ELSE after(f[i - 1], i)]
<1>1. n \in 0 .. v /\ rest[n] = 0 /\ \A k \in 0 .. (n - 1) : rest[k] # 0
  BY LettersEnd
<1>2. /\ rest \in [0 .. v -> Nat] /\ rest[0] = v
      /\ \A k \in 1 .. v : rest[k] = IF rest[k - 1] = 0 THEN 0 ELSE (rest[k - 1] - 1) \div 26
  BY LettersLeftIs
<1>3. Letters(v) = d
  BY DEF Letters
<1> HIDE DEF rest, n
<1>4. \A i \in 1 .. n : d[i] \in Int /\ rest[n - i] = 26 * rest[n - (i - 1)] + d[i]
  <2> TAKE i \in 1 .. n
  <2>1. n - (i - 1) \in 1 .. v /\ n - i \in 0 .. (n - 1) /\ n - i \in 0 .. v /\ (n - (i - 1)) - 1 = n - i
    BY <1>1
  <2>2. rest[n - i] \in Nat /\ rest[n - i] # 0
    BY <1>1, <1>2, <2>1
  <2>3. rest[n - (i - 1)] = (rest[n - i] - 1) \div 26
    BY <1>2, <2>1, <2>2
  <2>4. d[i] = ((rest[n - i] - 1) % 26) + 1
    OBVIOUS
  <2>5. \A x \in Nat : x # 0 => x = 26 * ((x - 1) \div 26) + (((x - 1) % 26) + 1) /\ ((x - 1) % 26) + 1 \in Int
    OBVIOUS
  <2> HIDE DEF d
  <2>6. QED
    BY <2>2, <2>3, <2>4, <2>5
<1>5. Len(d) = n /\ n \in Nat
  BY <1>1
<1> HIDE DEF d
<1>6. PICK f : Run(f, n, Int, 0, step)
  <2>1. \A k \in 1 .. n, x \in Int : step[<<k, x>>] \in Int
    BY <1>4
  <2>2. 0 \in Int
    OBVIOUS
  <2> HIDE DEF step
  <2>3. QED
    BY <1>5, <2>1, <2>2, RunExists, Zenon
<1>7. \A k \in 1 .. n, x \in Int : step[<<k, x>>] = after(x, k)
  OBVIOUS
<1>8. Is(f)
  <2> HIDE DEF step, after
  <2>1. ASSUME NEW k \in 0 .. n PROVE f[k] = IF k = 0 THEN 0 ELSE after(f[k - 1], k)
    <3>1. k = 0 \/ (k \in 1 .. n /\ k - 1 \in 0 .. n)
      BY <1>5
    <3>2. QED
      BY <1>6, <1>7, <3>1 DEF Run
  <2>2. f = [k \in 0 .. n |-> f[k]]
    BY <1>6 DEF Run
  <2>3. QED
    BY <1>5, <2>1, <2>2
<1>9. PICK g : Is(g) /\ LettersRead(d) = g[n]
  <2>1. LettersRead(d) = (CHOOSE g : Is(g))[Len(d)]
    BY DEF LettersRead
  <2> HIDE DEF Is
  <2>2. QED
    BY <1>5, <1>8, <2>1
<1>10. g[0] = 0 /\ \A i \in 1 .. n : g[i] = after(g[i - 1], i)
  <2> HIDE DEF after
  <2>1. QED
    BY <1>5, <1>9
<1> HIDE DEF Is
<1> DEFINE bad == {i \in Nat : i <= n /\ g[i] # rest[n - i]}
<1>11. bad = {}
  <2>1. SUFFICES ASSUME bad # {} PROVE FALSE
    OBVIOUS
  <2>2. PICK m \in bad : \A i \in bad : m <= i
    <3>1. bad \in SUBSET Nat
      OBVIOUS
    <3> HIDE DEF bad
    <3>2. QED
      BY <2>1, <3>1, LeastOne
  <2>3. m # 0
    BY <1>1, <1>10, <2>2
  <2>4. m \in 1 .. n /\ g[m - 1] = rest[n - (m - 1)]
    BY <1>5, <2>2, <2>3
  <2>5. g[m] = 26 * rest[n - (m - 1)] + d[m]
    BY <1>10, <2>4
  <2>6. QED
    BY <1>4, <2>2, <2>4, <2>5
<1>12. g[n] = rest[n - n] /\ n - n = 0
  BY <1>5, <1>11
<1>13. QED
  BY <1>2, <1>3, <1>9, <1>12

(* The numerals and what they are worth.                                   *)
LEMMA RomanStepsAre ==
    /\ Len(RomanSteps) = 13
    /\ \A k \in 1 .. 13, x \in Nat :
          /\ x % RomanSteps[k] \in Nat /\ RomanSteps[k] * (x \div RomanSteps[k]) \in Int
          /\ x = RomanSteps[k] * (x \div RomanSteps[k]) + (x % RomanSteps[k])
    /\ \A x \in Nat : x % RomanSteps[13] = 0
<1> DEFINE Divides(s) == \A x \in Nat : /\ x % s \in Nat /\ s * (x \div s) \in Int
                                        /\ x = s * (x \div s) + (x % s)
<1>1. Divides(1000) /\ Divides(900) /\ Divides(500) /\ Divides(400) /\ Divides(100)
  OBVIOUS
<1>2. Divides(90) /\ Divides(50) /\ Divides(40) /\ Divides(10) /\ Divides(9)
  OBVIOUS
<1>3. Divides(5) /\ Divides(4) /\ Divides(1) /\ \A x \in Nat : x % 1 = 0
  OBVIOUS
<1>4. /\ RomanSteps[1] = 1000 /\ RomanSteps[2] = 900 /\ RomanSteps[3] = 500 /\ RomanSteps[4] = 400
      /\ RomanSteps[5] = 100 /\ RomanSteps[6] = 90 /\ RomanSteps[7] = 50 /\ RomanSteps[8] = 40
      /\ RomanSteps[9] = 10 /\ RomanSteps[10] = 9 /\ RomanSteps[11] = 5 /\ RomanSteps[12] = 4
      /\ RomanSteps[13] = 1 /\ Len(RomanSteps) = 13
  BY DEF RomanSteps
<1> HIDE DEF Divides
<1>5. ASSUME NEW k \in 1 .. 13 PROVE Divides(RomanSteps[k])
  <2>1. k \in {1, 2, 3, 4, 5, 6, 7, 8, 9, 10, 11, 12, 13}
    OBVIOUS
  <2>2. QED
    BY <1>1, <1>2, <1>3, <1>4, <2>1
<1>6. QED
  BY <1>3, <1>4, <1>5 DEF Divides

(* A numeral leaves less than it is worth.                                 *)
LEMMA RomanLeftIs ==
    ASSUME NEW v \in Nat
    PROVE  /\ RomanLeft(v) \in [0 .. 13 -> Nat] /\ RomanLeft(v)[0] = v
           /\ \A k \in 1 .. 13 : RomanLeft(v)[k] = RomanLeft(v)[k - 1] % RomanSteps[k]
<1> DEFINE rest(x, k) == x % RomanSteps[k]
           step == [p \in (1 .. 13) \X Nat |-> rest(p[2], p[1])]
           Is(f) == f = [k \in 0 .. 13 |-> IF k = 0 THEN v ELSE rest(f[k - 1], k)]
<1>1. \A k \in 1 .. 13, x \in Nat : rest(x, k) \in Nat
  BY RomanStepsAre
<1>2. \A k \in 1 .. 13, x \in Nat : step[<<k, x>>] = rest(x, k)
  OBVIOUS
<1>3. PICK f : Run(f, 13, Nat, v, step)
  <2>1. \A k \in 1 .. 13, x \in Nat : step[<<k, x>>] \in Nat
    BY <1>1, <1>2
  <2> HIDE DEF step, rest
  <2>2. QED
    BY <2>1, RunExists
<1>4. Is(f)
  <2> HIDE DEF step, rest
  <2>1. ASSUME NEW k \in 0 .. 13 PROVE f[k] = IF k = 0 THEN v ELSE rest(f[k - 1], k)
    <3>1. k = 0 \/ (k \in 1 .. 13 /\ k - 1 \in 0 .. 13)
      OBVIOUS
    <3>2. QED
      BY <1>2, <1>3, <3>1 DEF Run
  <2>2. f = [k \in 0 .. 13 |-> f[k]]
    BY <1>3 DEF Run
  <2>3. QED
    BY <2>1, <2>2
<1>5. RomanLeft(v) = CHOOSE g : Is(g)
  <2>1. Len(RomanSteps) = 13
    BY RomanStepsAre
  <2>2. QED
    BY <2>1 DEF RomanLeft
<1>6. Is(RomanLeft(v))
  <2> HIDE DEF Is
  <2>1. QED
    BY <1>4, <1>5
<1>7. ASSUME NEW g, Is(g)
      PROVE  /\ g \in [0 .. 13 -> Nat] /\ g[0] = v
             /\ \A k \in 1 .. 13 : g[k] = rest(g[k - 1], k)
  <2> HIDE DEF step, rest
  <2>1. g[0] = v /\ \A k \in 1 .. 13 : g[k] = rest(g[k - 1], k)
    BY <1>7
  <2> DEFINE bad == {k \in Nat : k <= 13 /\ g[k] \notin Nat}
  <2>2. bad = {}
    <3>1. SUFFICES ASSUME bad # {} PROVE FALSE
      OBVIOUS
    <3>2. PICK m \in bad : \A k \in bad : m <= k
      <4>1. bad \in SUBSET Nat
        OBVIOUS
      <4> HIDE DEF bad
      <4>2. QED
        BY <3>1, <4>1, LeastOne
    <3>3. m # 0
      BY <2>1, <3>2
    <3>4. m \in 1 .. 13 /\ g[m - 1] \in Nat
      BY <3>2, <3>3
    <3>5. QED
      BY <1>1, <2>1, <3>2, <3>4
  <2>3. \A k \in 0 .. 13 : g[k] \in Nat
    BY <2>2
  <2>4. g = [k \in 0 .. 13 |-> g[k]]
    BY <1>7
  <2>5. QED
    BY <2>1, <2>3, <2>4
<1>8. QED
  <2> HIDE DEF Is, step
  <2>1. QED
    BY <1>6, <1>7

(* The numerals of a number are worth the number.                          *)
LEMMA RomanReadBack ==
    ASSUME NEW v \in Nat
    PROVE  RomanRead(Roman(v)) = v
<1> DEFINE rest == RomanLeft(v)
           d == [i \in 1 .. 13 |-> rest[i - 1] \div RomanSteps[i]]
           worth(i) == RomanSteps[i] * d[i]
           after(x, i) == x + worth(i)
           step == [p \in (1 .. 13) \X Int |-> after(p[2], p[1])]
           Is(f) == f = [i \in 0 .. Len(d) |-> IF i = 0 THEN 0 ELSE after(f[i - 1], i)]
<1>1. /\ rest \in [0 .. 13 -> Nat] /\ rest[0] = v
      /\ \A k \in 1 .. 13 : rest[k] = rest[k - 1] % RomanSteps[k]
  BY RomanLeftIs
<1>2. Roman(v) = d
  <2>1. Len(RomanSteps) = 13
    BY RomanStepsAre
  <2>2. QED
    BY <2>1 DEF Roman
<1> HIDE DEF rest
<1>3. \A i \in 1 .. 13 : worth(i) \in Int /\ rest[i - 1] = worth(i) + rest[i]
  <2> TAKE i \in 1 .. 13
  <2>1. i - 1 \in 0 .. 13 /\ rest[i - 1] \in Nat
    BY <1>1
  <2>2. d[i] = rest[i - 1] \div RomanSteps[i]
    OBVIOUS
  <2> HIDE DEF d
  <2>3. rest[i] = rest[i - 1] % RomanSteps[i]
    BY <1>1
  <2>4. /\ RomanSteps[i] * (rest[i - 1] \div RomanSteps[i]) \in Int
        /\ rest[i - 1] = RomanSteps[i] * (rest[i - 1] \div RomanSteps[i]) + (rest[i - 1] % RomanSteps[i])
    BY <2>1, RomanStepsAre, Zenon
  <2>5. QED
    BY <2>2, <2>3, <2>4, Zenon
<1>4. Len(d) = 13
  OBVIOUS
<1> HIDE DEF d, worth
<1>5. PICK f : Run(f, 13, Int, 0, step)
  <2>1. \A k \in 1 .. 13, x \in Int : step[<<k, x>>] \in Int
    BY <1>3
  <2>2. 0 \in Int /\ 13 \in Nat
    OBVIOUS
  <2> HIDE DEF step
  <2>3. QED
    BY <2>1, <2>2, RunExists, Zenon
<1>6. \A k \in 1 .. 13, x \in Int : step[<<k, x>>] = after(x, k)
  OBVIOUS
<1>7. Is(f)
  <2> HIDE DEF step, after
  <2>1. ASSUME NEW k \in 0 .. 13 PROVE f[k] = IF k = 0 THEN 0 ELSE after(f[k - 1], k)
    <3>1. k = 0 \/ (k \in 1 .. 13 /\ k - 1 \in 0 .. 13)
      OBVIOUS
    <3>2. QED
      BY <1>5, <1>6, <3>1 DEF Run
  <2>2. f = [k \in 0 .. 13 |-> f[k]]
    BY <1>5 DEF Run
  <2>3. QED
    BY <1>4, <2>1, <2>2
<1>8. PICK g : Is(g) /\ RomanRead(d) = g[13]
  <2>1. RomanRead(d) = (CHOOSE g : Is(g))[Len(d)]
    BY DEF RomanRead, worth
  <2> HIDE DEF Is
  <2>2. QED
    BY <1>4, <1>7, <2>1
<1>9. g[0] = 0 /\ \A i \in 1 .. 13 : g[i] = after(g[i - 1], i)
  <2> HIDE DEF after
  <2>1. QED
    BY <1>4, <1>8
<1> HIDE DEF Is
<1> DEFINE bad == {i \in Nat : i <= 13 /\ g[i] # v - rest[i]}
<1>10. bad = {}
  <2>1. SUFFICES ASSUME bad # {} PROVE FALSE
    OBVIOUS
  <2>2. PICK m \in bad : \A i \in bad : m <= i
    <3>1. bad \in SUBSET Nat
      OBVIOUS
    <3> HIDE DEF bad
    <3>2. QED
      BY <2>1, <3>1, LeastOne
  <2>3. m # 0
    BY <1>1, <1>9, <2>2
  <2>4. m \in 1 .. 13 /\ g[m - 1] = v - rest[m - 1]
    BY <2>2, <2>3
  <2>5. rest[m - 1] \in Nat /\ rest[m] \in Nat
    BY <1>1, <2>4
  <2>6. g[m] = g[m - 1] + worth(m)
    BY <1>9, <2>4
  <2>7. QED
    BY <1>3, <2>2, <2>4, <2>5, <2>6
<1>11. rest[13] = 0
  <2>1. rest[13] = rest[12] % RomanSteps[13] /\ rest[12] \in Nat
    BY <1>1
  <2>2. QED
    BY <2>1, RomanStepsAre
<1>12. g[13] = v - rest[13]
  BY <1>10
<1>13. QED
  BY <1>2, <1>8, <1>11, <1>12

(* A number that is written in any format but a bullet can be read back.   *)
LEMMA WrittenReadsBack ==
    ASSUME NEW v \in Int, NEW format, format # "bullet"
    PROVE  ReadBack(FormatNumber(v, format)) = v
<1>1. CASE format = "letter" /\ v > 0
  BY <1>1, LettersReadBack DEF FormatNumber, ReadBack
<1>2. CASE format = "roman" /\ v \in 1 .. 3999
  <2>1. v \in Nat /\ format = "roman" /\ v \in 1 .. 3999 /\ ~ (format = "letter" /\ v > 0)
    BY <1>2
  <2>a. FormatNumber(v, format) = [as |-> "roman", digits |-> Roman(v)]
    BY <2>1 DEF FormatNumber
  <2>2. QED
    BY <2>1, <2>a, RomanReadBack DEF ReadBack
<1>3. CASE ~ (format = "letter" /\ v > 0) /\ ~ (format = "roman" /\ v \in 1 .. 3999)
  <2>1. FormatNumber(v, format) = [as |-> "decimal", digits |-> <<v>>]
    BY <1>3 DEF FormatNumber
  <2>2. QED
    BY <2>1 DEF ReadBack
<1>4. QED
  BY <1>1, <1>2, <1>3

(***************************************************************************)
(* The numbering part, and how items are counted.                          *)
(***************************************************************************)
(* What may be left out is there once or not at all.                       *)
LEMMA OptionalIs ==
    ASSUME NEW S
    PROVE  Optional(S) = {<<>>} \cup {<<x>> : x \in S}
<1>1. ASSUME NEW s \in Optional(S) PROVE s \in {<<>>} \cup {<<x>> : x \in S}
  <2>1. s \in Seq(S) /\ Len(s) \in Nat /\ Len(s) <= 1
    BY DEF Optional
  <2>2. CASE Len(s) = 0
    BY <2>1, <2>2
  <2>3. CASE Len(s) = 1
    BY <2>1, <2>3
  <2>4. QED
    BY <2>1, <2>2, <2>3
<1>2. \A x \in S : <<x>> \in Seq(S) /\ Len(<<x>>) = 1
  OBVIOUS
<1>3. <<>> \in Seq(S) /\ Len(<<>>) = 0
  OBVIOUS
<1>4. ASSUME NEW s, s \in {<<>>} \cup {<<x>> : x \in S} PROVE s \in Optional(S)
  <2>1. s = <<>> \/ \E x \in S : s = <<x>>
    BY <1>4
  <2>2. s \in Seq(S) /\ Len(s) <= 1
    <3>1. CASE s = <<>>
      BY <1>3, <3>1
    <3>2. ASSUME NEW x \in S, s = <<x>> PROVE s \in Seq(S) /\ Len(s) <= 1
      BY <1>2, <3>2
    <3>3. QED
      BY <2>1, <3>1, <3>2
  <2>3. QED
    BY <2>2 DEF Optional
<1>5. QED
  BY <1>1, <1>4

(* Finitely many numbers have a bound.                                     *)
LEMMA Bounded ==
    ASSUME NEW S \in SUBSET Nat, IsFiniteSet(S)
    PROVE  \E b \in Nat : S \subseteq 0 .. b
<1> DEFINE n == Cardinality(S)
<1>1. n \in Nat /\ ExistsBijection(1 .. n, S)
  BY FS_CardinalityType
<1>2. PICK f : f \in Bijection(1 .. n, S)
  BY <1>1 DEF ExistsBijection
<1>3. f \in [1 .. n -> S] /\ \A y \in S : \E i \in 1 .. n : f[i] = y
  BY <1>2 DEF Bijection, Surjection, Injection
<1> HIDE DEF n
<1> DEFINE bad == {k \in Nat : k <= n /\ \A b \in Nat : \E i \in 1 .. k : f[i] > b}
<1>4. bad = {}
  <2>1. SUFFICES ASSUME bad # {} PROVE FALSE
    OBVIOUS
  <2>2. PICK m \in bad : \A k \in bad : m <= k
    <3>1. bad \in SUBSET Nat
      OBVIOUS
    <3> HIDE DEF bad
    <3>2. QED
      BY <2>1, <3>1, LeastOne
  <2>3. m \in Nat /\ m <= n /\ m # 0
    <3>1. 0 \notin bad
      <4>1. 0 \in Nat /\ \A i \in 1 .. 0 : ~ (f[i] > 0)
        OBVIOUS
      <4>2. QED
        BY <4>1
    <3>2. m \in Nat /\ m <= n
      BY <2>2
    <3> HIDE DEF bad
    <3>3. QED
      BY <2>2, <3>1, <3>2
  <2>4. m - 1 \in Nat /\ m - 1 <= n /\ m - 1 \notin bad /\ m \in 1 .. n
    <3>1. m - 1 \in Nat /\ m - 1 <= n /\ ~ (m <= m - 1) /\ m \in 1 .. n
      BY <1>1, <2>3
    <3> HIDE DEF bad
    <3>2. QED
      BY <2>2, <3>1
  <2>5. PICK b \in Nat : \A i \in 1 .. m - 1 : ~ (f[i] > b)
    BY <2>4
  <2>6. f[m] \in Nat
    BY <1>3, <2>4
  <2>7. PICK c \in Nat : c >= b /\ c >= f[m]
    <3>1. CASE f[m] <= b
      BY <3>1
    <3>2. CASE ~ (f[m] <= b)
      BY <2>6, <3>2
    <3>3. QED
      BY <3>1, <3>2
  <2>8. ASSUME NEW i \in 1 .. m PROVE ~ (f[i] > c)
    <3>1. i = m \/ i \in 1 .. m - 1
      BY <2>3
    <3>2. f[i] \in Nat
      <4>1. i \in 1 .. n
        BY <1>1, <2>3
      <4>2. QED
        BY <1>3, <4>1
    <3>3. QED
      BY <2>5, <2>6, <2>7, <3>1, <3>2
  <2>9. QED
    BY <2>2, <2>8
<1>5. n \notin bad
  BY <1>4
<1>6. PICK b \in Nat : \A i \in 1 .. n : ~ (f[i] > b)
  <2>1. n <= n
    BY <1>1
  <2>2. ~ \A b \in Nat : \E i \in 1 .. n : f[i] > b
    BY <1>1, <1>5, <2>1
  <2>3. QED
    BY <2>2
<1>7. S \subseteq 0 .. b
  BY <1>3, <1>6
<1>8. QED
  BY <1>7

\* The instance has the meant.
Ready(n, l) ==
    /\ n \in DOMAIN numbering.nums /\ numbering.nums[n].abstract \in DOMAIN numbering.abstracts
    /\ ResolvedLevel(numbering.nums[n], l) # <<>>

(* A level in force is one of the abstract list or of the overrides, and   *)
(* so it is not below the deepest.                                         *)
LEMMA ResolvedIs ==
    ASSUME NumberingsTyped, numbering \in Numberings, NEW n, NEW l \in Levels, Ready(n, l)
    PROVE  /\ \E meant \in ParsedLevel : ResolvedLevel(numbering.nums[n], l) = <<meant>>
           /\ l <= Deepest(numbering.nums[n])
<1> DEFINE num == numbering.nums[n]
           base == LevelsOf(num)
<1> DEFINE K == DOMAIN base
           L == DOMAIN num.overrides
<1>2. K \in SUBSET Nat /\ IsFiniteSet(K) /\ base \in [K -> ParsedLevel]
  BY DEF Ready, LevelsOf, NumberingsTyped, Keyed
<1>3. L \in SUBSET Nat /\ IsFiniteSet(L) /\ num.overrides \in [L -> ParsedOverride]
  BY DEF Ready, NumberingsTyped, Keyed
<1>1. PICK bound \in Nat : K \cup L \subseteq 0 .. bound
  <2>1. K \cup L \in SUBSET Nat /\ IsFiniteSet(K \cup L)
    BY <1>2, <1>3, FS_Union
  <2> HIDE DEF K, L
  <2>2. QED
    BY <2>1, Bounded
<1> DEFINE over == IF l \in DOMAIN num.overrides THEN num.overrides[l] ELSE [start |-> <<>>, level |-> <<>>]
           plain == IF l \in DOMAIN base THEN <<base[l]>> ELSE <<>>
           meant == IF over.level # <<>> THEN over.level ELSE plain
<1>4. over \in ParsedOverride /\ (over.level # <<>> => l \in L)
  <2>1. [start |-> <<>>, level |-> <<>>] \in ParsedOverride
    BY OptionalIs DEF ParsedOverride
  <2>2. QED
    BY <1>3, <2>1
<1>5. plain \in Optional(ParsedLevel) /\ (plain # <<>> => l \in K)
  BY <1>2, OptionalIs
<1>6. meant \in Optional(ParsedLevel) /\ (meant # <<>> => l \in K \cup L)
  BY <1>4, <1>5 DEF ParsedOverride
<1>7. /\ ResolvedLevel(num, l) = IF meant = <<>> \/ over.start = <<>> THEN meant
                                 ELSE <<[meant[1] EXCEPT !.start = over.start[1]]>>
  BY DEF ResolvedLevel
<1>8. ResolvedLevel(num, l) # <<>>
  BY DEF Ready
<1> HIDE DEF meant, plain, over, num, base
<1>9. meant # <<>>
  BY <1>7, <1>8
<1>10. PICK x \in ParsedLevel : meant = <<x>>
  BY <1>6, <1>9, OptionalIs
<1>11. \E y \in ParsedLevel : ResolvedLevel(num, l) = <<y>>
  <2>1. CASE over.start = <<>>
    BY <1>7, <1>10, <2>1
  <2>2. CASE over.start # <<>>
    <3>1. PICK s \in Starts : over.start = <<s>>
      BY <1>4, <2>2, OptionalIs DEF ParsedOverride
    <3>2. [x EXCEPT !.start = s] \in ParsedLevel
      BY <1>10, <3>1 DEF ParsedLevel
    <3>3. ResolvedLevel(num, l) = <<[x EXCEPT !.start = s]>>
      BY <1>7, <1>9, <1>10, <2>2, <3>1
    <3>4. QED
      BY <3>2, <3>3
  <2>3. QED
    BY <2>1, <2>2
<1>12. l <= Deepest(num)
  <2> DEFINE every == DOMAIN LevelsOf(num) \cup DOMAIN num.overrides \cup {0}
  <2>1. every \in SUBSET (0 .. bound) /\ l \in every
    <3>1. DOMAIN LevelsOf(num) = K
      BY DEF K, base
    <3>2. DOMAIN num.overrides = L
      BY DEF L
    <3>3. 0 \in 0 .. bound /\ l \in K \cup L
      BY <1>1, <1>6, <1>9
    <3>4. QED
      BY <1>1, <3>1, <3>2, <3>3
  <2>2. Max(every) \in every /\ l <= Max(every)
    <3> HIDE DEF every
    <3>1. QED
      BY <1>1, <2>1, MaxIsGreatest
  <2>3. Deepest(num) = Clamped(Max(every))
    BY DEF Deepest
  <2> HIDE DEF every
  <2>4. Max(every) \in Nat /\ l \in Nat /\ l <= MaxLevel /\ MaxLevel \in Nat
    <3>1. Max(every) \in 0 .. bound
      BY <2>1, <2>2
    <3>2. l \in Nat /\ l <= MaxLevel /\ MaxLevel \in Nat
      BY DEF Levels, NumberingsTyped
    <3>3. QED
      BY <3>1, <3>2
  <2>5. QED
    BY <2>2, <2>3, <2>4 DEF Clamped
<1>13. QED
  BY <1>11, <1>12 DEF num

(* A level that is cleared by an item is the one that the item restarts.   *)
LEMMA ClearedIsRestarted ==
    ASSUME NumberingsTyped, numbering \in Numberings, NEW n, NEW l \in Levels, NEW d \in Levels, Ready(n, d)
    PROVE  RestartedBy(numbering.nums[n], d, l) <=>
              l < d /\ l + 1 <= Trigger(ResolvedLevel(numbering.nums[n], d)[1], d)
<1> DEFINE num == numbering.nums[n]
<1>1. PICK meant \in ParsedLevel : ResolvedLevel(num, d) = <<meant>>
  BY ResolvedIs
<1>2. d <= Deepest(num) /\ ResolvedLevel(num, d) # <<>>
  BY ResolvedIs DEF Ready
<1>3. d \in Nat /\ l \in Nat
  BY DEF Levels
<1>4. Trigger(meant, d) \in Nat
  BY <1>1, <1>3, OptionalIs DEF Trigger, ParsedLevel
<1> HIDE DEF num
<1>5. RestartedBy(num, d, l) <=> l < d /\ Trigger(meant, d) # 0 /\ l <= Trigger(meant, d) - 1
  BY <1>1, <1>2 DEF RestartedBy
<1>6. ResolvedLevel(num, d)[1] = meant
  BY <1>1
<1>7. QED
  BY <1>3, <1>4, <1>5, <1>6 DEF num

(***************************************************************************)
(* The items counted.                                                      *)
(***************************************************************************)
LEMMA SinceFinite ==
    ASSUME NEW i \in Nat, NEW n, NEW l
    PROVE  /\ Since(i, n, l) \subseteq 1 .. i /\ IsFiniteSet(Since(i, n, l))
           /\ Cardinality(Since(i, n, l)) \in Nat
           /\ Cardinality(Since(i, n, l)) = 0 <=> Since(i, n, l) = {}
<1>1. Since(i, n, l) \subseteq 1 .. i
  BY DEF Since
<1>2. IsFiniteSet(Since(i, n, l))
  BY <1>1, FS_Interval, FS_Subset
<1>3. QED
  BY <1>1, <1>2, FS_CardinalityType, FS_EmptySet

(* One more item leaves what was counted before it, and adds itself where  *)
(* it belongs unless it restarts the level.                                *)
LEMMA SinceGrows ==
    ASSUME NEW item, NEW before \in Nat, NEW last, Len(items) = before, last = before + 1,
           items' = Append(items, item), numbering' = numbering, \E S : items \in Seq(S)
    PROVE  /\ \A i \in 1 .. before : items'[i] = items[i]
           /\ items'[last] = item /\ Len(items') = last
           /\ \A i \in 0 .. before : \A n, l : Since(i, n, l)' = Since(i, n, l)
           /\ \A n, l : Restarts(last, n, l)' => Since(last, n, l)' = {}
           /\ \A n, l : ~ Restarts(last, n, l)' /\ item.num = n /\ item.level = l =>
                 Since(last, n, l)' = Since(before, n, l) \cup {last}
           /\ \A n, l : ~ Restarts(last, n, l)' /\ ~ (item.num = n /\ item.level = l) =>
                 Since(last, n, l)' = Since(before, n, l)
<1>1. /\ \A i \in 1 .. before : items'[i] = items[i]
      /\ items'[last] = item /\ Len(items') = last
  OBVIOUS
<1>2. \A m \in 1 .. before : \A n, l : Restarts(m, n, l)' <=> Restarts(m, n, l)
  <2>1. ASSUME NEW n, NEW l
        PROVE  ResolvedLevel(numbering.nums[n], l)' = ResolvedLevel(numbering.nums[n], l)
    BY DEF ResolvedLevel, LevelsOf
  <2>2. ASSUME NEW m \in 1 .. before, NEW n, NEW l PROVE Restarts(m, n, l)' <=> Restarts(m, n, l)
    <3>1. items'[m] = items[m]
      BY <1>1
    <3>2. Trigger(ResolvedLevel(numbering.nums[n], l)[1], l)' = Trigger(ResolvedLevel(numbering.nums[n], l)[1], l)
      BY <2>1 DEF Trigger
    <3>3. QED
      BY <3>1, <3>2 DEF Restarts
  <2>3. QED
    BY <2>2
<1>3. ASSUME NEW i \in 0 .. before, NEW n, NEW l PROVE Since(i, n, l)' = Since(i, n, l)
  <2>1. \A k \in 1 .. i : k \in 1 .. before /\ \A m \in k .. i : m \in 1 .. before
    OBVIOUS
  <2>2. QED
    BY <1>1, <1>2, <2>1 DEF Since
<1>4. ASSUME NEW n, NEW l
      PROVE  Since(last, n, l)' =
                 IF Restarts(last, n, l)' THEN {}
                 ELSE IF item.num = n /\ item.level = l THEN Since(before, n, l) \cup {last}
                 ELSE Since(before, n, l)
  <2>1. Since(last, n, l)' = {k \in 1 .. last : items'[k].num = n /\ items'[k].level = l
                                /\ \A m \in k .. last : ~ Restarts(m, n, l)'}
    BY DEF Since
  <2>2. CASE Restarts(last, n, l)'
    <3>1. \A k \in 1 .. last : last \in k .. last
      OBVIOUS
    <3>2. QED
      BY <2>1, <2>2, <3>1
  <2>3. CASE ~ Restarts(last, n, l)'
    <3>1. ASSUME NEW k
          PROVE  k \in Since(last, n, l)' <=>
                    k \in Since(before, n, l) \/ (k = last /\ item.num = n /\ item.level = l)
      <4>1. CASE k = last
        <5>1. k .. last = {last} /\ k \in 1 .. last /\ k \notin 1 .. before
          BY <4>1
        <5>2. k \notin Since(before, n, l)
          BY <5>1 DEF Since
        <5>3. QED
          BY <1>1, <2>1, <2>3, <4>1, <5>1, <5>2
      <4>2. CASE k \in 1 .. before
        <5>1. \A m \in k .. last : m = last \/ m \in k .. before
          BY <4>2
        <5>2. \A m \in k .. before : m \in k .. last /\ m \in 1 .. before
          BY <4>2
        <5>3. (\A m \in k .. last : ~ Restarts(m, n, l)') <=> \A m \in k .. before : ~ Restarts(m, n, l)
          BY <1>2, <2>3, <5>1, <5>2
        <5>4. k \in 1 .. last /\ k # last /\ items'[k] = items[k]
          BY <1>1, <4>2
          <5>5. k \in Since(last, n, l)' <=> items[k].num = n /\ items[k].level = l
                                           /\ \A m \in k .. before : ~ Restarts(m, n, l)
          BY <2>1, <5>3, <5>4
        <5>6. k \in Since(before, n, l) <=> items[k].num = n /\ items[k].level = l
                                           /\ \A m \in k .. before : ~ Restarts(m, n, l)
          BY <4>2 DEF Since
        <5>7. QED
          BY <5>4, <5>5, <5>6
      <4>3. CASE k \notin 1 .. last
        <5>1. k \notin 1 .. before /\ k # last
          BY <4>3
        <5>2. QED
          BY <2>1, <4>3, <5>1 DEF Since
      <4>4. k = last \/ k \in 1 .. before \/ k \notin 1 .. last
        OBVIOUS
      <4>5. QED
        BY <4>1, <4>2, <4>3, <4>4
      <3>2. CASE item.num = n /\ item.level = l
      BY <2>3, <3>1, <3>2
    <3>3. CASE ~ (item.num = n /\ item.level = l)
      BY <2>3, <3>1, <3>3
    <3>4. QED
      BY <3>2, <3>3
  <2>4. QED
    BY <2>2, <2>3
<1>5. QED
  BY <1>1, <1>3, <1>4

(***************************************************************************)
(* What the steps keep: the counters are what was counted, and so is what  *)
(* the labels of the items say.                                            *)
(***************************************************************************)
Labelled(i) ==
    LET n     == items[i].num
        num   == numbering.nums[n]
        meant == ResolvedLevel(num, items[i].level)[1]
    IN  ~ ShowsPicture(num, meant) => \A j \in DOMAIN meant.text :
           LET shown == ResolvedLevel(num, meant.text[j])
           IN  shown # <<>> /\ shown[1].format # "bullet" =>
                 ReadBack(items[i].label[j]) = Counted(i, n, meant.text[j])

CountInv ==
    /\ numbering \in Numberings
    /\ \E S : items \in Seq(S)
    /\ values = [n \in NumIds |-> values[n]]
    /\ \A i \in 1 .. Len(items) : Labelled(i)
    /\ \A i \in 1 .. Len(items) : items[i].num \in NumIds /\ items[i].level \in Levels
    /\ \A n \in NumIds, l \in Levels : Ready(n, l) =>
          values[n][l] = IF Since(Len(items), n, l) = {} THEN <<>> ELSE <<Counted(Len(items), n, l)>>

(* A count is a number; the first is the start.                            *)
LEMMA CountedIs ==
    ASSUME NumberingsTyped, numbering \in Numberings, NEW i \in Nat, NEW n, NEW l \in Levels, Ready(n, l)
    PROVE  LET start == ResolvedLevel(numbering.nums[n], l)[1].start
               since == Cardinality(Since(i, n, l))
           IN  /\ start \in Int /\ start <= MaxNumber /\ since \in Nat
               /\ since = 0 <=> Since(i, n, l) = {}
               /\ Counted(i, n, l) \in Int
               /\ Counted(i, n, l) = IF since = 0 THEN start ELSE Saturated(start + since - 1)
<1> DEFINE start == ResolvedLevel(numbering.nums[n], l)[1].start
           since == Cardinality(Since(i, n, l))
<1>1. start \in Int /\ start <= MaxNumber /\ MaxNumber \in Int
  <2>1. PICK meant \in ParsedLevel : ResolvedLevel(numbering.nums[n], l) = <<meant>>
    BY ResolvedIs
  <2>2. start = meant.start
    BY <2>1
  <2>3. QED
    BY <2>2 DEF ParsedLevel, Starts, NumberingsTyped
<1>2. since \in Nat /\ (since = 0 <=> Since(i, n, l) = {})
  BY SinceFinite
<1>3. Counted(i, n, l) = IF since = 0 THEN start ELSE Saturated(start + since - 1)
  BY DEF Counted
<1> HIDE DEF start, since
<1>4. Counted(i, n, l) \in Int
  BY <1>1, <1>2, <1>3 DEF Saturated
<1>5. QED
  BY <1>1, <1>2, <1>3, <1>4 DEF start, since

(* One more is one more, up to the largest number.                         *)
LEMMA CountedGrows ==
    ASSUME MaxNumber \in Int, NEW start \in Int, start <= MaxNumber, NEW since \in Nat, since # 0
    PROVE  Saturated(Saturated(start + since - 1) + 1) = Saturated(start + (since + 1) - 1)
  BY DEF Saturated

LEMMA CountInvInit == ASSUME NumberingsTyped, Init PROVE CountInv
<1>1. items = <<>> /\ numbering \in Numberings /\ values = [n \in NumIds |-> [l \in Levels |-> <<>>]]
  BY DEF Init
<1>2. Len(items) = 0 /\ items \in Seq({})
  BY <1>1
<1>3. \A n \in NumIds, l \in Levels : Since(0, n, l) = {} /\ values[n][l] = <<>>
  BY <1>1 DEF Since
<1>4. values = [n \in NumIds |-> values[n]]
  BY <1>1
<1>5. QED
  BY <1>1, <1>2, <1>3, <1>4 DEF CountInv

(* The numbering part does not change.                                     *)
LEMMA PartKept ==
    ASSUME numbering' = numbering
    PROVE  /\ \A n, l : ResolvedLevel(numbering.nums[n], l)' = ResolvedLevel(numbering.nums[n], l)
           /\ \A n, l : Ready(n, l)' <=> Ready(n, l)
           /\ \A n, meant : ShowsPicture(numbering.nums[n], meant)' <=> ShowsPicture(numbering.nums[n], meant)
<1>1. ASSUME NEW n, NEW l
      PROVE  ResolvedLevel(numbering.nums[n], l)' = ResolvedLevel(numbering.nums[n], l)
  BY DEF ResolvedLevel, LevelsOf
<1>2. ASSUME NEW n, NEW l PROVE Ready(n, l)' <=> Ready(n, l)
  BY <1>1 DEF Ready
<1>3. ASSUME NEW n, NEW meant
      PROVE  ShowsPicture(numbering.nums[n], meant)' <=> ShowsPicture(numbering.nums[n], meant)
  BY <1>1 DEF ShowsPicture, ResolvedLevel, LevelsOf
<1>4. QED
  BY <1>1, <1>2, <1>3

(* What the label of an item says, after the step.                         *)
LEMMA LabelledNext ==
    ASSUME numbering' = numbering, NEW i, NEW n, NEW l, NEW x, NEW label,
           items'[i].num = n, items'[i].level = l, items'[i].label = label,
           ResolvedLevel(numbering.nums[n], l)[1] = x,
           ~ ShowsPicture(numbering.nums[n], x) =>
              \A j \in DOMAIN x.text :
                 ResolvedLevel(numbering.nums[n], x.text[j]) # <<>>
                 /\ ResolvedLevel(numbering.nums[n], x.text[j])[1].format # "bullet"
                 => ReadBack(label[j]) = Counted(i, n, x.text[j])'
    PROVE  Labelled(i)'
<1>1. /\ \A m, d : ResolvedLevel(numbering.nums[m], d)' = ResolvedLevel(numbering.nums[m], d)
      /\ \A m, y : ShowsPicture(numbering.nums[m], y)' <=> ShowsPicture(numbering.nums[m], y)
  BY PartKept
<1>2. ResolvedLevel(numbering.nums[n], l)'[1] = x
  BY <1>1
<1>3. SUFFICES ASSUME ~ ShowsPicture(numbering.nums[n], x)', NEW j \in DOMAIN x.text,
                      ResolvedLevel(numbering.nums[n], x.text[j])' # <<>>,
                      ResolvedLevel(numbering.nums[n], x.text[j])'[1].format # "bullet"
               PROVE  ReadBack(label[j]) = Counted(i, n, x.text[j])'
  BY <1>2 DEF Labelled
<1>4. ~ ShowsPicture(numbering.nums[n], x)
  BY <1>1, <1>3
<1>5. /\ ResolvedLevel(numbering.nums[n], x.text[j]) # <<>>
      /\ ResolvedLevel(numbering.nums[n], x.text[j])[1].format # "bullet"
  BY <1>1, <1>3
<1>6. QED
  BY <1>4, <1>5

(* A number of a label is what is due at its level.                        *)
LEMMA ItemLabelled ==
    ASSUME NEW n, NEW meant, NEW counters, NEW due \in Int, NEW j \in DOMAIN meant.text,
           \/ counters[meant.text[j]] = <<due>>
           \/ /\ counters[meant.text[j]] = <<>>
              /\ due = ResolvedLevel(numbering.nums[n], meant.text[j])[1].start,
           ResolvedLevel(numbering.nums[n], meant.text[j]) # <<>>,
           ResolvedLevel(numbering.nums[n], meant.text[j])[1].format # "bullet"
    PROVE  ReadBack(SubstituteLabel(numbering.nums[n], meant, counters)[j]) = due
<1> DEFINE l == meant.text[j]
           shown == ResolvedLevel(numbering.nums[n], l)
           value == IF counters[l] # <<>> THEN counters[l][1] ELSE IF shown # <<>> THEN shown[1].start ELSE 1
<1>1. value = due
  OBVIOUS
<1>2. SubstituteLabel(numbering.nums[n], meant, counters)[j] = FormatNumber(value, shown[1].format)
  BY DEF SubstituteLabel
<1>3. shown[1].format # "bullet"
  OBVIOUS
<1> HIDE DEF value, shown
<1>4. QED
  BY <1>1, <1>2, <1>3, WrittenReadsBack

(* Nothing changes.                                                        *)
LEMMA CountInvStays == ASSUME CountInv, UNCHANGED vars PROVE CountInv'
<1>1. numbering' = numbering /\ items' = items /\ values' = values
  BY DEF vars
<1>2. /\ \A n, l : ResolvedLevel(numbering.nums[n], l)' = ResolvedLevel(numbering.nums[n], l)
      /\ \A n, l : Ready(n, l)' <=> Ready(n, l)
      /\ \A n, x : ShowsPicture(numbering.nums[n], x)' <=> ShowsPicture(numbering.nums[n], x)
  BY <1>1, PartKept
<1>3. ASSUME NEW m, NEW n, NEW l PROVE Restarts(m, n, l)' <=> Restarts(m, n, l)
  <2>1. Trigger(ResolvedLevel(numbering.nums[n], l)[1], l)' = Trigger(ResolvedLevel(numbering.nums[n], l)[1], l)
    BY <1>2 DEF Trigger
  <2>2. QED
    BY <1>1, <2>1 DEF Restarts
<1>4. ASSUME NEW i, NEW n, NEW l PROVE Since(i, n, l)' = Since(i, n, l)
  BY <1>1, <1>3 DEF Since
<1>5. ASSUME NEW i, NEW n, NEW l PROVE Counted(i, n, l)' = Counted(i, n, l)
  <2>1. Since(i, n, l)' = Since(i, n, l)
    BY <1>4
  <2>2. ResolvedLevel(numbering.nums[n], l)' = ResolvedLevel(numbering.nums[n], l)
    BY <1>2
  <2>3. QED
    BY <2>1, <2>2 DEF Counted
<1>6. ASSUME NEW i, Labelled(i) PROVE Labelled(i)'
  BY <1>1, <1>2, <1>5, <1>6 DEF Labelled
<1>7. PICK counting : counting = Len(items)
  OBVIOUS
<1>8. Len(items') = counting
  BY <1>1, <1>7
<1>9. ASSUME NEW n \in NumIds, NEW l \in Levels, Ready(n, l)'
      PROVE  values'[n][l] = IF Since(counting, n, l)' = {} THEN <<>> ELSE <<Counted(counting, n, l)'>>
  <2>1. Ready(n, l)
    BY <1>2, <1>9
  <2>2. values[n][l] = IF Since(counting, n, l) = {} THEN <<>> ELSE <<Counted(counting, n, l)>>
    BY <1>7, <2>1 DEF CountInv
  <2>3. QED
    BY <1>1, <1>4, <1>5, <2>2
<1>10. QED
  BY <1>1, <1>6, <1>7, <1>8, <1>9 DEF CountInv

LEMMA CountInvNext == ASSUME NumberingsTyped, CountInv, [Next]_vars PROVE CountInv'
<1>1. CASE UNCHANGED vars
  BY <1>1, CountInvStays
<1>2. CASE Next
  <2>1. PICK n \in NumIds, asked \in AskedLevels : NextItem(n, asked)
    BY <1>2 DEF Next
  <2>2. PICK before \in Nat, last \in Nat : before = Len(items) /\ last = before + 1
    BY DEF CountInv
  <2> DEFINE l == Clamped(asked)
             num == numbering.nums[n]
             meant == ResolvedLevel(num, l)
             counted == IF values[n][l] = <<>> THEN meant[1].start ELSE Saturated(values[n][l][1] + 1)
             counters == [d \in Levels |-> IF d = l THEN <<counted>>
                                           ELSE IF RestartedBy(num, d, l) THEN <<>> ELSE values[n][d]]
             picture == ShowsPicture(num, meant[1])
             item == [num |-> n, level |-> l,
                      kind |-> IF picture \/ meant[1].format = "bullet" THEN "bullet" ELSE "ordered",
                      label |-> IF picture THEN <<FormatNumber(0, "bullet")>>
                                ELSE SubstituteLabel(num, meant[1], counters)]
  <2>3. /\ n \in DOMAIN numbering.nums /\ num.abstract \in DOMAIN numbering.abstracts /\ meant # <<>>
        /\ values' = [values EXCEPT ![n] = counters] /\ items' = Append(items, item) /\ numbering' = numbering
    BY <2>1 DEF NextItem
  <2>4. l \in Levels /\ l \in Nat
    <3>1. asked \in Nat /\ MaxLevel \in Nat
      BY <2>1 DEF NumberingsTyped
    <3>2. QED
      BY <3>1 DEF Clamped, Levels
  <2>5. Ready(n, l)
    BY <2>3 DEF Ready
  <2>6. PICK plain \in ParsedLevel : meant = <<plain>>
    BY <2>4, <2>5, ResolvedIs DEF CountInv
  <2>7. item.num = n /\ item.level = l
    OBVIOUS
  <2>8. /\ \A i \in 1 .. before : items'[i] = items[i]
        /\ items'[last] = item /\ Len(items') = last
        /\ \A i \in 0 .. before : \A m, d : Since(i, m, d)' = Since(i, m, d)
        /\ \A m, d : Restarts(last, m, d)' => Since(last, m, d)' = {}
        /\ \A m, d : ~ Restarts(last, m, d)' /\ item.num = m /\ item.level = d =>
              Since(last, m, d)' = Since(before, m, d) \cup {last}
        /\ \A m, d : ~ Restarts(last, m, d)' /\ ~ (item.num = m /\ item.level = d) =>
              Since(last, m, d)' = Since(before, m, d)
    <3>1. items' = Append(items, item) /\ numbering' = numbering
      BY <2>3
    <3> HIDE DEF item
    <3>2. \E S : items \in Seq(S)
      BY DEF CountInv
    <3>3. PICK it : it = item
      OBVIOUS
    <3>4. Len(items) = before /\ last = before + 1 /\ items' = Append(items, it) /\ numbering' = numbering
      BY <2>2, <3>1, <3>3
    <3>5. /\ \A i \in 1 .. before : items'[i] = items[i]
          /\ items'[last] = it /\ Len(items') = last
          /\ \A i \in 0 .. before : \A m, d : Since(i, m, d)' = Since(i, m, d)
          /\ \A m, d : Restarts(last, m, d)' => Since(last, m, d)' = {}
          /\ \A m, d : ~ Restarts(last, m, d)' /\ it.num = m /\ it.level = d =>
                Since(last, m, d)' = Since(before, m, d) \cup {last}
          /\ \A m, d : ~ Restarts(last, m, d)' /\ ~ (it.num = m /\ it.level = d) =>
                Since(last, m, d)' = Since(before, m, d)
      BY <3>2, <3>4, SinceGrows
    <3>6. QED
      BY <3>3, <3>5
  <2>9. /\ \A m, d : ResolvedLevel(numbering.nums[m], d)' = ResolvedLevel(numbering.nums[m], d)
        /\ \A m, d : Ready(m, d)' <=> Ready(m, d)
        /\ \A m, x : ShowsPicture(numbering.nums[m], x)' <=> ShowsPicture(numbering.nums[m], x)
    BY <2>3, PartKept
  <2>10. ASSUME NEW i \in 0 .. before, NEW m, NEW d PROVE Counted(i, m, d)' = Counted(i, m, d)
    <3>1. Since(i, m, d)' = Since(i, m, d)
      BY <2>8
    <3>2. ResolvedLevel(numbering.nums[m], d)' = ResolvedLevel(numbering.nums[m], d)
      BY <2>9
    <3>3. QED
      BY <3>1, <3>2 DEF Counted
  <2>11. values' = [m \in NumIds |-> values'[m]] /\ values'[n] = counters
         /\ \A m \in NumIds : m # n => values'[m] = values[m]
    <3> HIDE DEF counters
    <3>1. QED
      BY <2>1, <2>3 DEF CountInv
  <2>12. \A m, d : Restarts(last, m, d)' <=>
            m = n /\ l < d /\ l + 1 <= Trigger(ResolvedLevel(numbering.nums[m], d)[1], d)
    <3>1. items'[last].num = n /\ items'[last].level = l
      BY <2>8
    <3> HIDE DEF item, l, num, meant, counters
    <3>2. ASSUME NEW m, NEW d
          PROVE  Trigger(ResolvedLevel(numbering.nums[m], d)[1], d)' =
                 Trigger(ResolvedLevel(numbering.nums[m], d)[1], d)
      BY <2>9 DEF Trigger
    <3>3. ASSUME NEW m, NEW d
          PROVE  Restarts(last, m, d)' <=>
                    m = n /\ l < d /\ l + 1 <= Trigger(ResolvedLevel(numbering.nums[m], d)[1], d)
      BY <3>1, <3>2 DEF Restarts
    <3>4. QED
      BY <3>3
  \* The counters of the instance are its counts up to the new item.
  <2>13. ASSUME NEW d \in Levels, Ready(n, d)
         PROVE  counters[d] = IF Since(last, n, d)' = {} THEN <<>> ELSE <<Counted(last, n, d)'>>
    <3>1. values[n][d] = IF Since(before, n, d) = {} THEN <<>> ELSE <<Counted(before, n, d)>>
      BY <2>1, <2>2, <2>13 DEF CountInv
    <3> DEFINE start == ResolvedLevel(numbering.nums[n], d)[1].start
               since == Cardinality(Since(before, n, d))
    <3>2. /\ start \in Int /\ start <= MaxNumber /\ since \in Nat
          /\ since = 0 <=> Since(before, n, d) = {}
          /\ Counted(before, n, d) = IF since = 0 THEN start ELSE Saturated(start + since - 1)
      BY <2>13, CountedIs DEF CountInv
    <3>3. Counted(last, n, d)' =
             IF Cardinality(Since(last, n, d)') = 0 THEN start
             ELSE Saturated(start + Cardinality(Since(last, n, d)') - 1)
      BY <2>9 DEF Counted
    <3>4. CASE d = l
      <4>1. ~ Restarts(last, n, d)' /\ Since(last, n, d)' = Since(before, n, d) \cup {last}
        BY <2>4, <2>7, <2>8, <2>12, <3>4
      <4>2. last \notin Since(before, n, d) /\ IsFiniteSet(Since(before, n, d))
        BY <2>2, SinceFinite
      <4>3. Cardinality(Since(last, n, d)') = since + 1
        BY <4>1, <4>2, FS_AddElement
      <4>4. counters[d] = <<counted>>
        BY <3>4
      <4>5. counted = IF values[n][d] = <<>> THEN start ELSE Saturated(values[n][d][1] + 1)
        BY <3>4
      <4> HIDE DEF counted, start, since, counters
      <4>6. counted = Counted(last, n, d)'
        <5>1. Counted(last, n, d)' = Saturated(start + (since + 1) - 1)
          BY <3>2, <3>3, <4>3
        <5>2. CASE since = 0
          <6>1. counted = start
            BY <3>1, <3>2, <4>5, <5>2
          <6>2. Saturated(start + (0 + 1) - 1) = start
            BY <3>2 DEF Saturated, NumberingsTyped
          <6>3. QED
            BY <5>1, <5>2, <6>1, <6>2
        <5>3. CASE since # 0
          <6>1. counted = Saturated(Saturated(start + since - 1) + 1)
            BY <3>1, <3>2, <4>5, <5>3
          <6>2. MaxNumber \in Int
            BY DEF NumberingsTyped
          <6>3. QED
            BY <3>2, <5>1, <5>3, <6>1, <6>2, CountedGrows
        <5>4. QED
          BY <5>2, <5>3
      <4>7. Since(last, n, d)' # {}
        BY <4>1
      <4>8. QED
        BY <4>4, <4>6, <4>7
    <3>5. CASE d # l /\ Restarts(last, n, d)'
      <4>1. RestartedBy(num, d, l)
        BY <2>4, <2>12, <2>13, <3>5, ClearedIsRestarted DEF CountInv
      <4>2. counters[d] = <<>>
        BY <3>5, <4>1
      <4>3. QED
        BY <2>8, <3>5, <4>2
    <3>6. CASE d # l /\ ~ Restarts(last, n, d)'
      <4>1. ~ RestartedBy(num, d, l)
        BY <2>4, <2>12, <2>13, <3>6, ClearedIsRestarted DEF CountInv
      <4>2. counters[d] = values[n][d]
        BY <3>6, <4>1
      <4>3. Since(last, n, d)' = Since(before, n, d)
        BY <2>7, <2>8, <3>6
      <4>4. Counted(last, n, d)' = Counted(before, n, d)
        BY <3>2, <3>3, <4>3
      <4>5. QED
        BY <3>1, <4>2, <4>3, <4>4
    <3>7. QED
      BY <3>4, <3>5, <3>6
  <2>14. ASSUME NEW m \in NumIds, NEW d \in Levels, Ready(m, d)
         PROVE  values'[m][d] = IF Since(last, m, d)' = {} THEN <<>> ELSE <<Counted(last, m, d)'>>
    <3>1. CASE m = n
      <4> HIDE DEF counters
      <4>1. QED
        BY <2>11, <2>13, <2>14, <3>1
    <3>2. CASE m # n
      <4>1. values'[m][d] = IF Since(before, m, d) = {} THEN <<>> ELSE <<Counted(before, m, d)>>
        BY <2>2, <2>11, <2>14, <3>2 DEF CountInv
      <4>2. Since(last, m, d)' = Since(before, m, d)
        BY <2>7, <2>8, <2>12, <3>2
      <4>3. Counted(last, m, d)' = Counted(before, m, d)
        BY <2>9, <4>2 DEF Counted
      <4>4. QED
        BY <4>1, <4>2, <4>3
    <3>3. QED
      BY <3>1, <3>2
  <2>15. ASSUME NEW i \in 1 .. before PROVE Labelled(i)'
    <3>1. Labelled(i)
      BY <2>2 DEF CountInv
    <3>2. items'[i] = items[i] /\ i \in 0 .. before
      BY <2>8
    <3>3. \A m, d : Counted(i, m, d)' = Counted(i, m, d)
      BY <2>10, <3>2
    <3> HIDE DEF item, l, num, meant, counters
    <3>4. QED
      BY <2>9, <3>1, <3>2, <3>3 DEF Labelled
  <2> DEFINE due == [d \in Levels |-> Counted(last, n, d)']
  <2>a. ASSUME NEW d \in Levels, Ready(n, d)
        PROVE  /\ due[d] \in Int
               /\ \/ counters[d] = <<due[d]>>
                  \/ counters[d] = <<>> /\ due[d] = ResolvedLevel(numbering.nums[n], d)[1].start
    <3> DEFINE start == ResolvedLevel(numbering.nums[n], d)[1].start
               since == Cardinality(Since(last, n, d)')
    <3>1. start \in Int /\ MaxNumber \in Int
      BY <2>2, <2>a, CountedIs DEF CountInv, NumberingsTyped
    <3>2. Counted(last, n, d)' = IF since = 0 THEN start ELSE Saturated(start + since - 1)
      BY <2>9 DEF Counted
    <3>3. since \in Nat /\ (since = 0 <=> Since(last, n, d)' = {})
      <4>1. PICK s : s = Since(last, n, d)'
        OBVIOUS
      <4>2. s \in SUBSET (1 .. last)
        BY <4>1 DEF Since
      <4>3. IsFiniteSet(1 .. last)
        BY <2>2, FS_Interval
      <4>4. IsFiniteSet(s)
        BY <4>2, <4>3, FS_Subset
      <4>5. Cardinality(s) \in Nat /\ (Cardinality(s) = 0 <=> s = {})
        BY <4>4, FS_CardinalityType, FS_EmptySet
      <4>6. QED
        BY <4>1, <4>5
    <3>4. counters[d] = IF Since(last, n, d)' = {} THEN <<>> ELSE <<Counted(last, n, d)'>>
      BY <2>13, <2>a
    <3>5. due[d] = Counted(last, n, d)'
      OBVIOUS
    <3> HIDE DEF due, counters, start, since
    <3>6. due[d] \in Int
      BY <3>1, <3>2, <3>3, <3>5 DEF Saturated
    <3>7. QED
      BY <3>2, <3>3, <3>4, <3>5, <3>6 DEF start
  <2>16. Labelled(last)'
    <3>a. PICK label : label = item.label
      OBVIOUS
    <3>b. meant[1] = plain
      BY <2>6
    <3>1. PICK x \in ParsedLevel : meant[1] = x
      BY <2>6, <3>b
    <3>2. ~ picture => label = SubstituteLabel(num, x, counters)
      BY <3>a, <3>1
    <3>3. picture <=> ShowsPicture(num, x)
      BY <3>1
    <3> HIDE DEF counters, due, picture
    <3>4. ASSUME ~ ShowsPicture(numbering.nums[n], x), NEW j \in DOMAIN x.text,
                 ResolvedLevel(numbering.nums[n], x.text[j]) # <<>>,
                 ResolvedLevel(numbering.nums[n], x.text[j])[1].format # "bullet"
          PROVE  ReadBack(label[j]) = Counted(last, n, x.text[j])'
      <4>1. label = SubstituteLabel(numbering.nums[n], x, counters)
        BY <3>2, <3>3, <3>4
      <4>2. x.text[j] \in Levels
        BY <3>1 DEF ParsedLevel
      <4>3. ReadBack(SubstituteLabel(numbering.nums[n], x, counters)[j]) = due[x.text[j]]
        <5> DEFINE d == x.text[j]
        <5>1. Ready(n, d)
          BY <2>3, <3>4 DEF Ready
        <5>2. PICK shows, is : shows = counters /\ is = due[d]
          OBVIOUS
        <5>3. /\ is \in Int
              /\ \/ shows[d] = <<is>>
                 \/ shows[d] = <<>> /\ is = ResolvedLevel(numbering.nums[n], d)[1].start
          BY <2>a, <4>2, <5>1, <5>2
        <5> HIDE DEF num, meant, l, item
        <5>4. ReadBack(SubstituteLabel(numbering.nums[n], x, shows)[j]) = is
          BY <3>4, <5>3, ItemLabelled
        <5>5. QED
          BY <5>2, <5>4
      <4>4. QED
        BY <4>1, <4>2, <4>3 DEF due
    <3>5. items'[last].num = n /\ items'[last].level = l /\ items'[last].label = label
      BY <2>7, <2>8, <3>a
    <3>6. PICK l0 : l0 = l
      OBVIOUS
    <3>7. ResolvedLevel(numbering.nums[n], l0)[1] = x
      BY <3>1, <3>6
    <3> HIDE DEF item, l, num, meant
    <3>8. numbering' = numbering
      BY <2>3
    <3>9. QED
      BY <3>4, <3>5, <3>6, <3>7, <3>8, LabelledNext
  <2>17. /\ \E S : items' \in Seq(S)
         /\ \A i \in 1 .. last : items'[i].num \in NumIds /\ items'[i].level \in Levels
    <3>1. PICK S : items \in Seq(S)
      BY DEF CountInv
    <3> HIDE DEF item
    <3>2. items' \in Seq(S \cup {item})
      BY <2>3, <3>1
    <3>3. \A i \in 1 .. last : i \in 1 .. before \/ i = last
      BY <2>2
    <3>4. QED
      BY <2>1, <2>2, <2>4, <2>7, <2>8, <3>2, <3>3 DEF CountInv
  <2>18. \A i \in 1 .. last : Labelled(i)'
    <3>1. \A i \in 1 .. last : i \in 1 .. before \/ i = last
      BY <2>2
    <3>2. QED
      BY <2>15, <2>16, <3>1
  <2>19. QED
    <3> HIDE DEF item, l, num, meant, counters
    <3>1. numbering' \in Numberings /\ Len(items') = last
      BY <2>3, <2>8 DEF CountInv
    <3>2. QED
      BY <2>9, <2>11, <2>14, <2>17, <2>18, <3>1 DEF CountInv
<1>3. QED
  BY <1>1, <1>2

(* A label counts: each of its numbers, read back, is the start of its     *)
(* level plus the items of the instance there since the last restart, up   *)
(* to the largest number, for every numbering part and every list.         *)
THEOREM ListsAreCounted == ASSUME NumberingsTyped PROVE Spec => []ListsCounted
<1>1. NumberingsTyped
  OBVIOUS
<1>2. Init => CountInv
  BY <1>1, CountInvInit
<1>3. CountInv /\ [Next]_vars => CountInv'
  BY <1>1, CountInvNext
<1>4. CountInv => ListsCounted
  <2>1. SUFFICES ASSUME CountInv PROVE ListsCounted
    OBVIOUS
  <2>2. DOMAIN items = 1 .. Len(items)
    BY <2>1 DEF CountInv
  <2>3. QED
    BY <2>1, <2>2 DEF CountInv, Labelled, ListsCounted
<1>5. QED
  BY <1>2, <1>3, <1>4, PTL DEF Spec

(***************************************************************************)
(* The converters side by side.  A behaviour that starts as one of them    *)
(* stays with it and takes its steps, so that what is proved of each holds *)
(* whenever it runs.                                                       *)
(***************************************************************************)
LEMMA ModeKept == [ConverterNext]_all => UNCHANGED mode
  BY DEF ConverterNext, all

(* The extraction of a PDF.                                                *)
LEMMA PdfSteps ==
    /\ ConverterInit /\ mode = "pdf" => Pdf!Init
    /\ mode = "pdf" /\ [ConverterNext]_all => (mode = "pdf")' /\ [Pdf!Next]_Pdf!vars
    /\ ~ (mode = "pdf") /\ [ConverterNext]_all => (~ (mode = "pdf"))'
<1>1. ConverterInit /\ mode = "pdf" => Pdf!Init
  BY DEF ConverterInit
<1>2. UNCHANGED all => UNCHANGED Pdf!vars
  BY DEF all, OfPages, OfPdf, OfPage, Pdf!vars, Pdf!doc, Pdf!current
<1>3. ConverterNext /\ mode = "pdf" => Pdf!Next
  BY DEF ConverterNext
<1>4. QED
  BY <1>1, <1>2, <1>3, ModeKept

(* The extraction of a deck.                                               *)
LEMMA DeckSteps ==
    /\ ConverterInit /\ mode = "deck" => Deck!Init
    /\ mode = "deck" /\ [ConverterNext]_all => (mode = "deck")' /\ [Deck!Next]_Deck!vars
    /\ ~ (mode = "deck") /\ [ConverterNext]_all => (~ (mode = "deck"))'
<1>1. ConverterInit /\ mode = "deck" => Deck!Init
  BY DEF ConverterInit
<1>2. UNCHANGED all => UNCHANGED Deck!vars
  BY DEF all, OfDeck, OfPages, Deck!vars, Deck!package, Deck!current
<1>3. ConverterNext /\ mode = "deck" => Deck!Next
  BY DEF ConverterNext
<1>4. QED
  BY <1>1, <1>2, <1>3, ModeKept

(* The extraction of a slide.                                              *)
LEMMA SlideSteps ==
    /\ ConverterInit /\ mode = "slide" => Slide!Init
    /\ mode = "slide" /\ [ConverterNext]_all => (mode = "slide")' /\ [Slide!Next]_Slide!vars
    /\ ~ (mode = "slide") /\ [ConverterNext]_all => (~ (mode = "slide"))'
<1>1. ConverterInit /\ mode = "slide" => Slide!Init
  BY DEF ConverterInit
<1>2. UNCHANGED all => UNCHANGED Slide!vars
  BY DEF all, OfSlide, OfPage, Slide!vars
<1>3. ConverterNext /\ mode = "slide" => Slide!Next
  BY DEF ConverterNext
<1>4. QED
  BY <1>1, <1>2, <1>3, ModeKept

(* The labels of lists.                                                    *)
LEMMA ListSteps ==
    /\ ConverterInit /\ mode = "lists" => Init
    /\ mode = "lists" /\ [ConverterNext]_all => (mode = "lists")' /\ [Next]_vars
    /\ ~ (mode = "lists") /\ [ConverterNext]_all => (~ (mode = "lists"))'
<1>1. ConverterInit /\ mode = "lists" => Init
  BY DEF ConverterInit
<1>2. UNCHANGED all => UNCHANGED vars
  BY DEF all, OfLists, vars
<1>3. ConverterNext /\ mode = "lists" => Next
  BY DEF ConverterNext
<1>4. QED
  BY <1>1, <1>2, <1>3, ModeKept

(* The regrouping of the glyphs of a page.                                 *)
LEMMA GlyphSteps ==
    /\ ConverterInit /\ mode = "glyphs" => Pdf!RegroupInit
    /\ mode = "glyphs" /\ [ConverterNext]_all => (mode = "glyphs")' /\ [Pdf!RegroupNext]_Pdf!regroupVars
    /\ ~ (mode = "glyphs") /\ [ConverterNext]_all => (~ (mode = "glyphs"))'
<1>1. ConverterInit /\ mode = "glyphs" => Pdf!RegroupInit
  BY DEF ConverterInit
<1>2. UNCHANGED all => UNCHANGED Pdf!regroupVars
  BY DEF all, OfGlyphs, Pdf!regroupVars
<1>3. ConverterNext /\ mode = "glyphs" => Pdf!RegroupNext
  BY DEF ConverterNext
<1>4. QED
  BY <1>1, <1>2, <1>3, ModeKept

(* The pages asked for come out once each, in their order and under their  *)
(* numbers, whether of a PDF or of a deck.                                 *)
THEOREM ConvertedPagesAreExact == ConverterSpec => []PagesExact
<1>1. Pdf!AnswersTyped /\ MaxU32 \in Nat \ {0} /\ Deck!DecksTyped
  BY ConvertersAssumption
<1>2. Pdf!Spec => []Pdf!PagesExact
  BY <1>1, Pdf!PagesAreExact
<1>3. Deck!Spec => []Deck!SlidesExact
  BY <1>1, Deck!SlidesAreExact
<1>4. (mode = "pdf" => Pdf!PagesExact) /\ (mode = "deck" => Deck!SlidesExact) => PagesExact
  BY DEF PagesExact
<1>5. ConverterSpec => [](mode = "pdf" => Pdf!PagesExact)
  BY <1>2, PdfSteps, PTL DEF ConverterSpec, Pdf!Spec
<1>6. ConverterSpec => [](mode = "deck" => Deck!SlidesExact)
  BY <1>3, DeckSteps, PTL DEF ConverterSpec, Deck!Spec
<1>7. QED
  BY <1>4, <1>5, <1>6, PTL

(* The objects of a page and the shapes of a slide are there once, in      *)
(* their order, and lie where every form and group around them put them.   *)
THEOREM ConvertedObjectsAreExact == ConverterSpec => []ObjectsExact
<1>1. Pdf!AnswersTyped /\ MaxU32 \in Nat \ {0} /\ Slide!SlidesTyped
  BY ConvertersAssumption
<1>2. Pdf!Spec => []Pdf!ObjectsExact /\ []Pdf!PlacedExactly
  <2>1. Pdf!Spec => []Pdf!ObjectsExact
    BY <1>1, Pdf!ObjectsAreExact
  <2>2. Pdf!Spec => []Pdf!PlacedExactly
    BY <1>1, Pdf!ObjectsArePlaced
  <2>3. QED
    BY <2>1, <2>2
<1>3. Slide!Spec => []Slide!ShapesExact /\ []Slide!ShapesPlaced
  <2>1. Slide!Spec => []Slide!ShapesExact
    BY <1>1, Slide!ShapesAreExact
  <2>2. Slide!Spec => []Slide!ShapesPlaced
    BY <1>1, Slide!ShapesArePlaced
  <2>3. QED
    BY <2>1, <2>2
<1>4. /\ mode = "pdf" => Pdf!ObjectsExact /\ Pdf!PlacedExactly
      /\ mode = "slide" => Slide!ShapesExact /\ Slide!ShapesPlaced
      => ObjectsExact
  BY DEF ObjectsExact
<1>5. ConverterSpec => [](mode = "pdf" => Pdf!ObjectsExact /\ Pdf!PlacedExactly)
  BY <1>2, PdfSteps, PTL DEF ConverterSpec, Pdf!Spec
<1>6. ConverterSpec => [](mode = "slide" => Slide!ShapesExact /\ Slide!ShapesPlaced)
  BY <1>3, SlideSteps, PTL DEF ConverterSpec, Slide!Spec
<1>7. QED
  BY <1>4, <1>5, <1>6, PTL

(* No glyph is lost, doubled or reordered on its way into lines and words, *)
(* whether it is one of a text object of a PDF or one of a page that came  *)
(* out glyph by glyph, where the styles and the blanks between words stay  *)
(* where they were.                                                        *)
THEOREM ConvertedTextIsGrouped == ConverterSpec => []TextGrouped
<1>1. Pdf!AnswersTyped /\ MaxU32 \in Nat \ {0} /\ Pdf!PagesTyped
  BY ConvertersAssumption
<1>2. Pdf!Spec => []Pdf!TextGrouped
  BY <1>1, Pdf!TextsAreGrouped
<1>3. Pdf!RegroupSpec => []Pdf!Regrouped
  BY <1>1, Pdf!PagesAreRegrouped
<1>4. (mode = "pdf" => Pdf!TextGrouped) /\ (mode = "glyphs" => Pdf!Regrouped) => TextGrouped
  BY DEF TextGrouped
<1>5. ConverterSpec => [](mode = "pdf" => Pdf!TextGrouped)
  BY <1>2, PdfSteps, PTL DEF ConverterSpec, Pdf!Spec
<1>6. ConverterSpec => [](mode = "glyphs" => Pdf!Regrouped)
  BY <1>3, GlyphSteps, PTL DEF ConverterSpec, Pdf!RegroupSpec
<1>7. QED
  BY <1>4, <1>5, <1>6, PTL

(* The labels of the lists of a document count what they should.           *)
THEOREM ConvertedLabelsAreCounted == ConverterSpec => []LabelsCounted
<1>1. NumberingsTyped
  BY ConvertersAssumption
<1>2. Spec => []ListsCounted
  BY <1>1, ListsAreCounted
<1>3. (mode = "lists" => ListsCounted) => LabelsCounted
  BY DEF LabelsCounted
<1>4. ConverterSpec => [](mode = "lists" => ListsCounted)
  BY <1>2, ListSteps, PTL DEF ConverterSpec, Spec
<1>5. QED
  BY <1>3, <1>4, PTL
=============================================================================
