----------------------------- MODULE ListProofs ------------------------------
(***************************************************************************)
(* What the other proofs need to know of numbers, of lists, of what is     *)
(* computed step by step, and of FlattenSeq.                               *)
(***************************************************************************)
EXTENDS Integers, Sequences, SequencesExt, SequenceTheorems, FiniteSetTheorems, WellFoundedInduction, TLAPS

(***************************************************************************)
(* Least numbers, and what is computed step by step.                       *)
(***************************************************************************)
(* Numbers that are not none have a least one.                             *)
LEMMA LeastOne ==
    ASSUME NEW S \in SUBSET Nat, S # {}
    PROVE  \E x \in S : \A y \in S : x <= y
<1>1. PICK x \in S : \A y \in S : <<y, x>> \notin OpToRel(<, Nat)
  BY NatLessThanWellFounded, WFMin
<1>2. ASSUME NEW y \in S PROVE x <= y
  <2>1. ~ (y < x)
    BY <1>1 DEF OpToRel
  <2>2. QED
    BY <2>1
<1>3. QED
  BY <1>2

(* Min finds it.                                                           *)
LEMMA MinIsLeast ==
    ASSUME NEW S \in SUBSET Nat, S # {}
    PROVE  Min(S) \in S /\ \A y \in S : Min(S) <= y
<1>1. \E x \in S : \A y \in S : x <= y
  BY LeastOne
<1>2. QED
  BY <1>1 DEF Min

(* What the first n steps make of a start.                                 *)
Stepwise(f, n, S, base, step) ==
    /\ f \in [0 .. n -> S] /\ f[0] = base
    /\ \A k \in 1 .. n : f[k] = step[<<k, f[k - 1]>>]

(* Steps can be taken one after the other.                                 *)
LEMMA StepsExist ==
    ASSUME NEW n \in Nat, NEW S, NEW base \in S, NEW step,
           \A k \in 1 .. n, x \in S : step[<<k, x>>] \in S
    PROVE  \E f : Stepwise(f, n, S, base, step)
<1> DEFINE bad == {k \in Nat : k <= n /\ ~ \E f : Stepwise(f, k, S, base, step)}
<1>1. SUFFICES ASSUME bad # {} PROVE FALSE
  OBVIOUS
<1>2. PICK m \in bad : \A k \in bad : m <= k
  <2>1. bad \in SUBSET Nat
    OBVIOUS
  <2> HIDE DEF bad
  <2>2. QED
    BY <1>1, <2>1, LeastOne
<1>3. CASE m = 0
  <2>1. Stepwise([k \in 0 .. 0 |-> base], 0, S, base, step)
    BY DEF Stepwise
  <2>2. QED
    BY <1>2, <1>3, <2>1
<1>4. CASE m # 0
  <2>1. m - 1 \in Nat /\ m - 1 \notin bad /\ m \in 1 .. n /\ m - 1 <= n
    BY <1>2, <1>4
  <2>2. PICK f : Stepwise(f, m - 1, S, base, step)
    BY <2>1
  <2>3. f[m - 1] \in S /\ step[<<m, f[m - 1]>>] \in S
    BY <2>1, <2>2 DEF Stepwise
  <2> DEFINE g == [k \in 0 .. m |-> IF k = m THEN step[<<m, f[m - 1]>>] ELSE f[k]]
  <2>4. \A k \in 0 .. m - 1 : g[k] = f[k] /\ f[k] \in S
    BY <1>2, <2>2 DEF Stepwise
  <2>5. g[m] = step[<<m, f[m - 1]>>] /\ g \in [0 .. m -> S]
    <3>1. g[m] = step[<<m, f[m - 1]>>] /\ g = [k \in 0 .. m |-> g[k]]
      BY <2>1
    <3>2. ASSUME NEW k \in 0 .. m PROVE g[k] \in S
      <4>1. k = m \/ k \in 0 .. m - 1
        BY <2>1
      <4> HIDE DEF g
      <4>2. QED
        BY <2>3, <2>4, <3>1, <4>1
    <3> HIDE DEF g
    <3>3. QED
      BY <3>1, <3>2
  <2> HIDE DEF g
  <2>6. g[0] = base
    BY <2>1, <2>2, <2>4 DEF Stepwise
  <2>7. ASSUME NEW k \in 1 .. m PROVE g[k] = step[<<k, g[k - 1]>>]
    <3>1. CASE k = m
      BY <2>1, <2>4, <2>5, <3>1
    <3>2. CASE k # m
      <4>1. k \in 1 .. m - 1 /\ k \in 0 .. m - 1 /\ k - 1 \in 0 .. m - 1
        BY <3>2
      <4>2. QED
        BY <2>2, <2>4, <4>1 DEF Stepwise
    <3>3. QED
      BY <3>1, <3>2
  <2>8. Stepwise(g, m, S, base, step)
    BY <2>5, <2>6, <2>7 DEF Stepwise
  <2>9. QED
    BY <1>2, <2>8
<1>5. QED
  BY <1>3, <1>4

(***************************************************************************)
(* Sequences that are laid end to end.                                     *)
(***************************************************************************)
\* The first k of them laid end to end, for each k.
EndToEnd(f, ss, n) == f[0] = <<>> /\ \A k \in 1 .. n : f[k] = f[k - 1] \o ss[k]

(* There is one such sequence.                                             *)
LEMMA EndToEndExists ==
    ASSUME NEW T, NEW ss \in Seq(Seq(T))
    PROVE  \E f \in [0 .. Len(ss) -> Seq(T)] : EndToEnd(f, ss, Len(ss))
<1> DEFINE n == Len(ss)
           step == [p \in (1 .. n) \X Seq(T) |-> p[2] \o ss[p[1]]]
<1>1. n \in Nat /\ <<>> \in Seq(T) /\ \A k \in 1 .. n : ss[k] \in Seq(T)
  OBVIOUS
<1>2. \A k \in 1 .. n, x \in Seq(T) : step[<<k, x>>] = x \o ss[k] /\ x \o ss[k] \in Seq(T)
  <2> TAKE k \in 1 .. n, x \in Seq(T)
  <2>1. step[<<k, x>>] = x \o ss[k]
    OBVIOUS
  <2>2. ss[k] \in Seq(T)
    BY <1>1
  <2> HIDE DEF step
  <2>3. QED
    BY <2>1, <2>2
<1>3. PICK f : Stepwise(f, n, Seq(T), <<>>, step)
  <2>1. \A k \in 1 .. n, x \in Seq(T) : step[<<k, x>>] \in Seq(T)
    BY <1>2
  <2> HIDE DEF step, n
  <2>2. QED
    BY <1>1, <2>1, StepsExist
<1> HIDE DEF step, n
<1>4. \A k \in 1 .. n : f[k - 1] \in Seq(T)
  <2> TAKE k \in 1 .. n
  <2>1. k - 1 \in 0 .. n
    BY <1>1
  <2>2. f \in [0 .. n -> Seq(T)]
    BY <1>3 DEF Stepwise
  <2>3. QED
    BY <2>1, <2>2
<1>5. f \in [0 .. n -> Seq(T)] /\ EndToEnd(f, ss, n)
  BY <1>2, <1>3, <1>4 DEF Stepwise, EndToEnd
<1>6. QED
  BY <1>5 DEF n

LEMMA EndToEndUnique ==
    ASSUME NEW ss, NEW n \in Nat, NEW f, NEW g, EndToEnd(f, ss, n), EndToEnd(g, ss, n)
    PROVE  f[n] = g[n]
<1> DEFINE bad == {k \in Nat : k <= n /\ f[k] # g[k]}
<1>1. bad = {}
  <2>1. SUFFICES ASSUME bad # {} PROVE FALSE
    OBVIOUS
  <2>2. PICK m \in bad : \A k \in bad : m <= k
    <3>1. bad \in SUBSET Nat
      OBVIOUS
    <3> HIDE DEF bad
    <3>2. QED
      BY <2>1, <3>1, LeastOne
  <2>3. m # 0
    BY <2>2 DEF EndToEnd
  <2>4. m \in 1 .. n /\ m - 1 \in Nat /\ m - 1 <= n /\ m - 1 \notin bad
    BY <2>2, <2>3
  <2>5. f[m] = f[m - 1] \o ss[m] /\ g[m] = g[m - 1] \o ss[m] /\ f[m - 1] = g[m - 1]
    BY <2>4 DEF EndToEnd
  <2>6. QED
    BY <2>2, <2>5
<1>2. QED
  BY <1>1

(* FlattenSeq is the last of them.                                         *)
LEMMA FlattenBy ==
    ASSUME NEW T, NEW ss \in Seq(Seq(T)), NEW f, EndToEnd(f, ss, Len(ss))
    PROVE  FlattenSeq(ss) = f[Len(ss)]
<1> DEFINE n == Len(ss)
           Is(g) == g = [i \in 1 .. n |-> IF i = 1 THEN ss[i] ELSE g[i - 1] \o ss[i]]
<1>1. n \in Nat
  OBVIOUS
<1>2. CASE n = 0
  BY <1>2 DEF FlattenSeq, EndToEnd
<1>3. CASE n # 0
  <2>1. FlattenSeq(ss) = (CHOOSE g : Is(g))[n]
    BY <1>3 DEF FlattenSeq
  <2>2. PICK h \in [0 .. n -> Seq(T)] : EndToEnd(h, ss, n)
    BY EndToEndExists
  <2> HIDE DEF n
  <2>3. \A x \in Seq(T) : <<>> \o x = x
    OBVIOUS
  <2>4. \A k \in 1 .. n : ss[k] \in Seq(T)
    BY DEF n
  <2>5. \A k \in 1 .. n : h[k] = IF k = 1 THEN ss[k] ELSE h[k - 1] \o ss[k]
    <3> TAKE k \in 1 .. n
    <3>1. h[k] = h[k - 1] \o ss[k] /\ h[0] = <<>>
      BY <2>2 DEF EndToEnd
    <3>2. CASE k = 1
      <4>1. h[k - 1] = <<>> /\ ss[k] \in Seq(T)
        BY <2>4, <3>1, <3>2
      <4>2. QED
        BY <2>3, <3>1, <3>2, <4>1
    <3>3. QED
      BY <3>1, <3>2
  <2>6. Is([k \in 1 .. n |-> h[k]])
    <3> DEFINE q == [k \in 1 .. n |-> h[k]]
    <3>1. \A k \in 1 .. n : q[k] = h[k] /\ (k # 1 => q[k - 1] = h[k - 1])
      BY <1>1
    <3>2. \A k \in 1 .. n : h[k] = IF k = 1 THEN ss[k] ELSE q[k - 1] \o ss[k]
      BY <2>5, <3>1
    <3> HIDE DEF q
    <3>3. [k \in 1 .. n |-> h[k]] = [k \in 1 .. n |-> IF k = 1 THEN ss[k] ELSE q[k - 1] \o ss[k]]
      BY <3>2
    <3>4. QED
      BY <3>3 DEF q
  <2>7. PICK g : Is(g) /\ FlattenSeq(ss) = g[n]
    <3> HIDE DEF Is
    <3>1. QED
      BY <2>1, <2>6
  <2>8. \A k \in 1 .. n : g[k] = IF k = 1 THEN ss[k] ELSE g[k - 1] \o ss[k]
    BY <2>7
  <2> DEFINE e == [k \in 0 .. n |-> IF k = 0 THEN <<>> ELSE g[k]]
  <2>9. e[0] = <<>> /\ \A k \in 1 .. n : e[k] = g[k] /\ e[k - 1] = IF k = 1 THEN <<>> ELSE g[k - 1]
    BY <1>1
  <2> HIDE DEF e, Is
  <2>10. \A k \in 1 .. n : e[k] = e[k - 1] \o ss[k]
    <3> TAKE k \in 1 .. n
    <3>1. CASE k = 1
      BY <2>3, <2>4, <2>8, <2>9, <3>1
    <3>2. CASE k # 1
      BY <2>8, <2>9, <3>2
    <3>3. QED
      BY <3>1, <3>2
  <2>11. EndToEnd(e, ss, n)
    BY <2>9, <2>10 DEF EndToEnd
  <2>12. e[n] = f[n]
    <3>1. EndToEnd(f, ss, n)
      BY DEF n
    <3>2. QED
      BY <1>1, <2>11, <3>1, EndToEndUnique
  <2>13. n \in 1 .. n
    BY <1>1, <1>3
  <2>14. QED
    BY <2>7, <2>9, <2>12, <2>13 DEF n
<1>4. QED
  BY <1>2, <1>3

(* What follows for all ways to use it.                                    *)
LEMMA FlattenIs ==
    ASSUME NEW T, NEW ss \in Seq(Seq(T))
    PROVE  /\ FlattenSeq(ss) \in Seq(T)
           /\ \E f \in [0 .. Len(ss) -> Seq(T)] : EndToEnd(f, ss, Len(ss)) /\ FlattenSeq(ss) = f[Len(ss)]
<1>1. PICK f \in [0 .. Len(ss) -> Seq(T)] : EndToEnd(f, ss, Len(ss))
  BY EndToEndExists
<1>2. FlattenSeq(ss) = f[Len(ss)]
  BY <1>1, FlattenBy
<1>3. Len(ss) \in 0 .. Len(ss)
  OBVIOUS
<1>4. QED
  BY <1>1, <1>2, <1>3

LEMMA FlattenNone == FlattenSeq(<<>>) = <<>>
BY DEF FlattenSeq

(* Laying two of them end to end, one after the other.                     *)
LEMMA FlattenConcat ==
    ASSUME NEW T, NEW ss \in Seq(Seq(T)), NEW tt \in Seq(Seq(T))
    PROVE  FlattenSeq(ss \o tt) = FlattenSeq(ss) \o FlattenSeq(tt)
<1>1. PICK f \in [0 .. Len(ss) -> Seq(T)] : EndToEnd(f, ss, Len(ss)) /\ FlattenSeq(ss) = f[Len(ss)]
  BY FlattenIs
<1>2. PICK g \in [0 .. Len(tt) -> Seq(T)] : EndToEnd(g, tt, Len(tt)) /\ FlattenSeq(tt) = g[Len(tt)]
  BY FlattenIs
<1> DEFINE n == Len(ss)
           m == Len(tt)
           uu == ss \o tt
           h == [k \in 0 .. n + m |-> IF k <= n THEN f[k] ELSE f[n] \o g[k - n]]
<1>3. /\ n \in Nat /\ m \in Nat /\ uu \in Seq(Seq(T)) /\ Len(uu) = n + m
      /\ \A k \in 1 .. n : uu[k] = ss[k]
      /\ \A k \in n + 1 .. n + m : uu[k] = tt[k - n] /\ k - n \in 1 .. m
  OBVIOUS
<1>4. \A k \in 0 .. n + m : h[k] = IF k <= n THEN f[k] ELSE f[n] \o g[k - n]
  OBVIOUS
<1>5. /\ \A k \in 0 .. n : f[k] \in Seq(T)
      /\ \A k \in 0 .. m : g[k] \in Seq(T)
      /\ \A k \in 1 .. m : tt[k] \in Seq(T)
  <2>1. \A k \in 0 .. n : f[k] \in Seq(T)
    BY <1>1
  <2>2. \A k \in 0 .. m : g[k] \in Seq(T)
    BY <1>2
  <2>3. \A k \in 1 .. m : tt[k] \in Seq(T)
    BY ElementOfSeq
  <2>4. QED
    BY <2>1, <2>2, <2>3
<1>6. /\ f[0] = <<>> /\ \A k \in 1 .. n : f[k] = f[k - 1] \o ss[k]
      /\ g[0] = <<>> /\ \A k \in 1 .. m : g[k] = g[k - 1] \o tt[k]
  BY <1>1, <1>2 DEF EndToEnd
<1> HIDE DEF n, m, uu, h
<1>7. f[n] \in Seq(T) /\ f[n] \o <<>> = f[n]
  BY <1>3, <1>5
<1>8. \A k \in 1 .. n + m : h[k] = h[k - 1] \o uu[k]
  <2> TAKE k \in 1 .. n + m
  <2>1. CASE k <= n
    <3>1. k \in 1 .. n /\ k - 1 <= n /\ k - 1 \in 0 .. n + m /\ k \in 0 .. n + m
      BY <1>3, <2>1
    <3>2. QED
      BY <1>3, <1>4, <1>6, <2>1, <3>1
  <2>2. CASE k > n
    <3>1. k \in n + 1 .. n + m /\ k - n \in 1 .. m /\ k \in 0 .. n + m /\ k - 1 \in 0 .. n + m /\ ~ (k <= n)
      BY <1>3, <2>2
    <3>2. h[k] = f[n] \o g[k - n] /\ g[k - n] = g[(k - n) - 1] \o tt[k - n] /\ uu[k] = tt[k - n]
      BY <1>3, <1>4, <1>6, <3>1
    <3>3. (k - n) - 1 \in 0 .. m /\ (k - n) - 1 = (k - 1) - n
      BY <1>3, <3>1
    <3>4. g[(k - n) - 1] \in Seq(T) /\ tt[k - n] \in Seq(T)
      BY <1>5, <3>1, <3>3
    <3>5. h[k - 1] = f[n] \o g[(k - n) - 1]
      <4>1. CASE k - 1 = n
        <5>1. h[k - 1] = f[n] /\ (k - n) - 1 = 0
          BY <1>3, <1>4, <3>1, <4>1
        <5>2. g[(k - n) - 1] = <<>>
          BY <1>6, <5>1
        <5>3. QED
          BY <1>7, <5>1, <5>2
      <4>2. CASE k - 1 # n
        <5>1. ~ (k - 1 <= n)
          BY <1>3, <3>1, <4>2
        <5>2. QED
          BY <1>4, <3>1, <3>3, <5>1
      <4>3. QED
        BY <4>1, <4>2
    <3>6. \A x, y, z \in Seq(T) : x \o (y \o z) = (x \o y) \o z
      OBVIOUS
    <3>7. f[n] \o (g[(k - n) - 1] \o tt[k - n]) = (f[n] \o g[(k - n) - 1]) \o tt[k - n]
      BY <1>7, <3>4, <3>6
    <3>8. QED
      BY <3>2, <3>5, <3>7
  <2>3. QED
    BY <1>3, <2>1, <2>2
<1>9. EndToEnd(h, uu, Len(uu))
  <2>1. h[0] = <<>>
    BY <1>3, <1>4, <1>6
  <2>2. QED
    BY <1>3, <1>8, <2>1 DEF EndToEnd
<1>10. FlattenSeq(uu) = h[n + m]
  BY <1>3, <1>9, FlattenBy
<1>11. h[n + m] = f[n] \o g[m]
  <2>1. n + m \in 0 .. n + m /\ (n + m) - n = m
    BY <1>3
  <2>2. CASE m = 0
    <3>1. n + m = n /\ n <= n /\ n \in 0 .. n + m
      BY <1>3, <2>2
    <3>2. h[n + m] = f[n] /\ g[m] = <<>>
      BY <1>4, <1>6, <2>2, <3>1
    <3>3. QED
      BY <1>7, <3>2
  <2>3. CASE m # 0
    <3>1. ~ (n + m <= n)
      BY <1>3, <2>3
    <3>2. QED
      BY <1>4, <2>1, <3>1
  <2>4. QED
    BY <2>2, <2>3
<1>12. QED
  BY <1>1, <1>2, <1>10, <1>11 DEF n, m, uu

(* Laying one more on end.                                                 *)
LEMMA FlattenOne ==
    ASSUME NEW T, NEW s \in Seq(T)
    PROVE  FlattenSeq(<<s>>) = s
<1> DEFINE f == [k \in 0 .. 1 |-> IF k = 0 THEN <<>> ELSE s]
           ss == <<s>>
<1>1. f[0] = <<>> /\ f[1] = s /\ <<>> \o s = s
  OBVIOUS
<1>2. ss \in Seq(Seq(T)) /\ Len(ss) = 1 /\ ss[1] = s
  OBVIOUS
<1> HIDE DEF f, ss
<1>3. \A k \in 1 .. 1 : k = 1 /\ k - 1 = 0
  OBVIOUS
<1>4. EndToEnd(f, ss, Len(ss))
  BY <1>1, <1>2, <1>3 DEF EndToEnd
<1>5. FlattenSeq(ss) = f[1]
  BY <1>2, <1>4, FlattenBy
<1>6. QED
  BY <1>1, <1>5 DEF ss

\* What a function makes of each member.
Mapped(m, s) == [i \in DOMAIN s |-> m[s[i]]]

\* That what it makes of two sequences is what it makes of both.
Splits(m, s, t) == Mapped(m, s \o t) = Mapped(m, s) \o Mapped(m, t)

LEMMA MappedIs ==
    ASSUME NEW T, NEW V, NEW m, \A x \in T : m[x] \in V, NEW s \in Seq(T), NEW t \in Seq(T)
    PROVE  /\ Mapped(m, s) \in Seq(V) /\ Len(Mapped(m, s)) = Len(s)
           /\ Splits(m, s, t)
<1>1. \A x \in Seq(T) : Mapped(m, x) \in Seq(V) /\ Len(Mapped(m, x)) = Len(x)
                        /\ \A i \in 1 .. Len(x) : Mapped(m, x)[i] = m[x[i]]
  <2> TAKE x \in Seq(T)
  <2> DEFINE y == Mapped(m, x)
  <2>1. DOMAIN x = 1 .. Len(x) /\ Len(x) \in Nat /\ \A i \in 1 .. Len(x) : m[x[i]] \in V
    OBVIOUS
  <2>2. y = [i \in 1 .. Len(x) |-> m[x[i]]]
    BY <2>1 DEF Mapped
  <2>3. y \in [1 .. Len(x) -> V]
    BY <2>1, <2>2
  <2> HIDE DEF y
  <2>4. y \in Seq(V)
    BY <2>1, <2>3, IsASeq
  <2>5. Len(y) = Len(x)
    BY <2>1, <2>3, <2>4, LenProperties
  <2>6. QED
    BY <2>2, <2>4, <2>5 DEF y
<1>2. s \o t \in Seq(T) /\ Len(s \o t) = Len(s) + Len(t) /\ Len(s) \in Nat /\ Len(t) \in Nat
  OBVIOUS
<1> DEFINE a == Mapped(m, s)
           b == Mapped(m, t)
           c == Mapped(m, s \o t)
<1>3. /\ a \in Seq(V) /\ b \in Seq(V) /\ c \in Seq(V)
      /\ Len(a) = Len(s) /\ Len(b) = Len(t) /\ Len(c) = Len(s) + Len(t)
      /\ \A i \in 1 .. Len(s) : a[i] = m[s[i]]
      /\ \A i \in 1 .. Len(t) : b[i] = m[t[i]]
      /\ \A i \in 1 .. Len(s) + Len(t) : c[i] = m[(s \o t)[i]]
  BY <1>1, <1>2
<1> HIDE DEF a, b, c
<1>4. /\ a \o b \in Seq(V) /\ Len(a \o b) = Len(s) + Len(t)
      /\ \A i \in 1 .. Len(s) + Len(t) : (a \o b)[i] = IF i <= Len(s) THEN a[i] ELSE b[i - Len(s)]
  <2>1. /\ a \o b \in Seq(V) /\ Len(a \o b) = Len(a) + Len(b)
        /\ \A i \in 1 .. Len(a) + Len(b) : (a \o b)[i] = IF i <= Len(a) THEN a[i] ELSE b[i - Len(a)]
    <3>1. a \in Seq(V) /\ b \in Seq(V)
      BY <1>3
    <3>2. a \o b \in Seq(V)
      BY <3>1
    <3>3. Len(a \o b) = Len(a) + Len(b)
      BY <3>1
    <3>4. \A i \in 1 .. Len(a) + Len(b) : (a \o b)[i] = IF i <= Len(a) THEN a[i] ELSE b[i - Len(a)]
      BY <3>1
    <3>5. QED
      BY <3>2, <3>3, <3>4
  <2>2. QED
    BY <1>3, <2>1
<1>5. \A i \in 1 .. Len(s) + Len(t) : c[i] = (a \o b)[i]
  <2> TAKE i \in 1 .. Len(s) + Len(t)
  <2>1. CASE i <= Len(s)
    <3>1. i \in 1 .. Len(s) /\ (s \o t)[i] = s[i]
      BY <1>2, <2>1
    <3>2. (a \o b)[i] = a[i]
      BY <1>4, <2>1
    <3>3. QED
      BY <1>3, <3>1, <3>2
  <2>2. CASE ~ (i <= Len(s))
    <3>1. i - Len(s) \in 1 .. Len(t) /\ (s \o t)[i] = t[i - Len(s)]
      BY <1>2, <2>2
    <3>2. (a \o b)[i] = b[i - Len(s)]
      BY <1>4, <2>2
    <3>3. QED
      BY <1>3, <3>1, <3>2
  <2>3. QED
    BY <2>1, <2>2
<1>6. c = a \o b
  BY <1>3, <1>4, <1>5, SeqEqual
<1>7. QED
  BY <1>3, <1>6 DEF a, b, c, Splits

(* Doing something with each member of sequences laid end to end is doing  *)
(* it with those of each.                                                  *)
LEMMA FlattenMapped ==
    ASSUME NEW T, NEW U, NEW m \in [T -> Seq(U)], NEW ss \in Seq(Seq(T)),
           NEW tt \in Seq(Seq(U)), Len(tt) = Len(ss),
           \A i \in 1 .. Len(ss) : tt[i] = FlattenSeq(Mapped(m, ss[i]))
    PROVE  FlattenSeq(Mapped(m, FlattenSeq(ss))) = FlattenSeq(tt)
<1>1. PICK f \in [0 .. Len(ss) -> Seq(T)] : EndToEnd(f, ss, Len(ss)) /\ FlattenSeq(ss) = f[Len(ss)]
  BY FlattenIs
<1> DEFINE n == Len(ss)
           e == [k \in 0 .. n |-> FlattenSeq(Mapped(m, f[k]))]
<1>2. n \in Nat /\ \A k \in 1 .. n : ss[k] \in Seq(T)
  OBVIOUS
<1>3. \A k \in 0 .. n : f[k] \in Seq(T) /\ e[k] = FlattenSeq(Mapped(m, f[k]))
  BY <1>1
<1> HIDE DEF n, e
<1>4. e[0] = <<>>
  <2>1. Mapped(m, <<>>) = <<>>
    BY DEF Mapped
  <2>2. f[0] = <<>> /\ 0 \in 0 .. n
    BY <1>1, <1>2 DEF EndToEnd
  <2>3. QED
    BY <1>3, <2>1, <2>2, FlattenNone
<1>5. \A k \in 1 .. n : e[k] = e[k - 1] \o tt[k]
  <2> TAKE k \in 1 .. n
  <2>1. k \in 0 .. n /\ k - 1 \in 0 .. n
    BY <1>2
  <2>2. f[k - 1] \in Seq(T) /\ ss[k] \in Seq(T) /\ f[k] = f[k - 1] \o ss[k]
    BY <1>1, <1>2, <1>3, <2>1 DEF EndToEnd, n
  <2> DEFINE a == Mapped(m, f[k - 1])
             b == Mapped(m, ss[k])
  <2>3. Mapped(m, f[k - 1] \o ss[k]) = a \o b /\ a \in Seq(Seq(U)) /\ b \in Seq(Seq(U))
    <3>1. PICK V : V = Seq(U)
      OBVIOUS
    <3>2. \A x \in T : m[x] \in V
      BY <3>1
    <3>3. /\ Mapped(m, f[k - 1] \o ss[k]) = Mapped(m, f[k - 1]) \o Mapped(m, ss[k])
          /\ Mapped(m, f[k - 1]) \in Seq(V) /\ Mapped(m, ss[k]) \in Seq(V)
      <4>1. PICK x, y : x = f[k - 1] /\ y = ss[k]
        OBVIOUS
      <4>2. x \in Seq(T) /\ y \in Seq(T)
        BY <2>2, <4>1
      <4>3. Mapped(m, x) \in Seq(V) /\ Mapped(m, y) \in Seq(V) /\ Splits(m, x, y)
        BY ONLY <3>2, <4>2, MappedIs
      <4>4. QED
        BY <4>1, <4>3 DEF Splits
    <3>4. QED
      BY <3>1, <3>3
  <2> HIDE DEF a, b
  <2>4. FlattenSeq(a \o b) = FlattenSeq(a) \o FlattenSeq(b)
    BY <2>3, FlattenConcat
  <2>5. e[k] = FlattenSeq(a \o b) /\ e[k - 1] = FlattenSeq(a) /\ tt[k] = FlattenSeq(b)
    BY <1>3, <2>1, <2>2, <2>3 DEF a, b, n
  <2>6. QED
    BY <2>4, <2>5
<1>6. EndToEnd(e, tt, Len(tt))
  BY <1>4, <1>5 DEF EndToEnd, n
<1>7. FlattenSeq(tt) = e[n]
  BY <1>6, FlattenBy DEF n
<1>8. n \in 0 .. n
  BY <1>2
<1>9. QED
  BY <1>1, <1>3, <1>7, <1>8 DEF n

(* What holds at the start, and of each number when of the one before.     *)
LEMMA ByCounting ==
    ASSUME NEW n \in Nat, NEW S, 0 \in S, \A k \in 1 .. n : k - 1 \in S => k \in S
    PROVE  \A k \in 0 .. n : k \in S
<1> DEFINE bad == {k \in Nat : k <= n /\ k \notin S}
<1>1. SUFFICES ASSUME bad # {} PROVE FALSE
  OBVIOUS
<1>2. PICK m \in bad : \A k \in bad : m <= k
  <2>1. bad \in SUBSET Nat
    OBVIOUS
  <2> HIDE DEF bad
  <2>2. QED
    BY <1>1, <2>1, LeastOne
<1>3. m # 0 /\ m \in 1 .. n /\ m - 1 \in Nat /\ m - 1 <= n /\ ~ (m <= m - 1)
  BY <1>2
<1>4. m - 1 \notin bad
  BY <1>2, <1>3
<1>5. m - 1 \in S
  BY <1>3, <1>4
<1>6. QED
  BY <1>2, <1>3, <1>5

\* Where each of the sequences lies when they are laid end to end: the one
\* with number i after the first at[i - 1] members.
Laid(at, ss, n, flat) ==
    /\ at \in [0 .. n -> Nat] /\ at[0] = 0 /\ Len(flat) = at[n]
    /\ \A i \in 1 .. n : at[i] = at[i - 1] + Len(ss[i])
    /\ \A i, j \in 0 .. n : i <= j => at[i] <= at[j]
    /\ \A i \in 1 .. n : \A k \in 1 .. Len(ss[i]) :
          at[i - 1] + k \in 1 .. Len(flat) /\ flat[at[i - 1] + k] = ss[i][k]
    /\ \A p \in 1 .. Len(flat) : \E i \in 1 .. n : \E k \in 1 .. Len(ss[i]) : p = at[i - 1] + k

LEMMA EndToEndPlaces ==
    ASSUME NEW T, NEW n \in Nat, NEW f, NEW ss,
           \A k \in 0 .. n : f[k] \in Seq(T), \A k \in 1 .. n : ss[k] \in Seq(T), EndToEnd(f, ss, n)
    PROVE  \E at : Laid(at, ss, n, f[n])
<1> DEFINE at == [i \in 0 .. n |-> Len(f[i])]
<1>2. n \in Nat /\ \A k \in 1 .. n : ss[k] \in Seq(T) /\ Len(ss[k]) \in Nat
  OBVIOUS
<1>3. \A k \in 0 .. n : f[k] \in Seq(T) /\ Len(f[k]) \in Nat
  OBVIOUS
<1>4. f[0] = <<>> /\ \A k \in 1 .. n : f[k] = f[k - 1] \o ss[k]
  BY DEF EndToEnd
<1>5. (\A k \in 0 .. n : at[k] = Len(f[k])) /\ at \in [0 .. n -> Nat]
  BY <1>3
<1> HIDE DEF at
<1>7. \A k \in 1 .. n : k - 1 \in 0 .. n /\ k \in 0 .. n
  BY <1>2
<1>8. at[0] = 0 /\ \A k \in 1 .. n : at[k] = at[k - 1] + Len(ss[k])
  <2>1. at[0] = 0
    BY <1>2, <1>4, <1>5
  <2>2. ASSUME NEW k \in 1 .. n PROVE at[k] = at[k - 1] + Len(ss[k])
    <3>1. f[k - 1] \in Seq(T) /\ ss[k] \in Seq(T) /\ f[k] = f[k - 1] \o ss[k]
      BY <1>2, <1>3, <1>4, <1>7
    <3>2. Len(f[k]) = Len(f[k - 1]) + Len(ss[k])
      BY <3>1
    <3>3. QED
      BY <1>5, <1>7, <3>2
  <2>3. QED
    BY <2>1, <2>2
<1> DEFINE Good(i) == /\ \A j \in 0 .. i : at[j] <= at[i]
                      /\ \A j \in 1 .. i : \A k \in 1 .. Len(ss[j]) :
                            at[j - 1] + k \in 1 .. at[i] /\ f[i][at[j - 1] + k] = ss[j][k]
                      /\ \A p \in 1 .. at[i] : \E j \in 1 .. i : \E k \in 1 .. Len(ss[j]) : p = at[j - 1] + k
           S == {i \in 0 .. n : Good(i)}
<1>9. 0 \in S
  <2>1. Good(0)
    BY <1>8
  <2>2. QED
    BY <1>2, <2>1
<1>10. ASSUME NEW i \in 1 .. n, i - 1 \in S PROVE i \in S
  <2>1. Good(i - 1) /\ i \in Nat /\ i - 1 \in Nat
    BY <1>10, <1>2
  <2> HIDE DEF S
  <2>2. /\ f[i - 1] \in Seq(T) /\ ss[i] \in Seq(T) /\ f[i] = f[i - 1] \o ss[i]
        /\ at[i - 1] = Len(f[i - 1]) /\ at[i - 1] \in Nat /\ Len(ss[i]) \in Nat
        /\ at[i] = at[i - 1] + Len(ss[i])
    BY <1>2, <1>3, <1>4, <1>5, <1>7, <1>8
  <2>9. at[i - 1] \in Nat /\ Len(ss[i]) \in Nat /\ at[i] = at[i - 1] + Len(ss[i])
    BY ONLY <2>2
  <2>3. /\ \A p \in 1 .. at[i - 1] : f[i][p] = f[i - 1][p]
        /\ \A k \in 1 .. Len(ss[i]) : f[i][at[i - 1] + k] = ss[i][k]
    <3>1. PICK x, y, z : x = f[i - 1] /\ y = ss[i] /\ z = f[i]
      OBVIOUS
    <3>2. x \in Seq(T) /\ y \in Seq(T) /\ z = x \o y
      BY <2>2, <3>1
    <3>3. (\A p \in 1 .. Len(x) : z[p] = x[p]) /\ \A k \in 1 .. Len(y) : z[Len(x) + k] = y[k]
      BY ONLY <3>2
    <3>4. QED
      BY <2>2, <3>1, <3>3
  <2>4. \A j \in 0 .. i : at[j] <= at[i]
    <3> TAKE j \in 0 .. i
    <3>1. CASE j = i
      BY ONLY <2>9, <3>1
    <3>2. CASE j # i
      <4>1. j \in 0 .. i - 1 /\ at[j] \in Nat
        BY <1>2, <1>5, <2>1, <3>2
      <4>2. at[j] <= at[i - 1]
        BY <2>1, <4>1
      <4>3. QED
        BY ONLY <2>9, <4>1, <4>2
    <3>3. QED
      BY <3>1, <3>2
  <2>5. \A j \in 1 .. i : \A k \in 1 .. Len(ss[j]) :
           at[j - 1] + k \in 1 .. at[i] /\ f[i][at[j - 1] + k] = ss[j][k]
    <3> TAKE j \in 1 .. i
    <3> TAKE k \in 1 .. Len(ss[j])
    <3>1. CASE j = i
      BY ONLY <2>9, <2>3, <3>1
    <3>2. CASE j # i
      <4>1. j \in 1 .. i - 1
        BY <2>1, <3>2
      <4>2. at[j - 1] + k \in 1 .. at[i - 1] /\ f[i - 1][at[j - 1] + k] = ss[j][k]
        BY <2>1, <4>1
      <4>3. at[j - 1] + k \in 1 .. at[i]
        BY ONLY <2>9, <4>2
      <4>4. QED
        BY <2>3, <4>2, <4>3
    <3>3. QED
      BY <3>1, <3>2
  <2>6. \A p \in 1 .. at[i] : \E j \in 1 .. i : \E k \in 1 .. Len(ss[j]) : p = at[j - 1] + k
    <3> TAKE p \in 1 .. at[i]
    <3>1. CASE p <= at[i - 1]
      <4>1. p \in 1 .. at[i - 1]
        BY <2>2, <3>1
      <4>2. PICK j \in 1 .. i - 1 : \E k \in 1 .. Len(ss[j]) : p = at[j - 1] + k
        BY <2>1, <4>1
      <4>3. j \in 1 .. i
        BY <2>1
      <4>4. QED
        BY <4>2, <4>3
    <3>2. CASE ~ (p <= at[i - 1])
      <4>1. p - at[i - 1] \in 1 .. Len(ss[i]) /\ p = at[i - 1] + (p - at[i - 1]) /\ i \in 1 .. i
        BY ONLY <2>1, <2>9, <3>2
      <4>2. QED
        BY <4>1
    <3>3. QED
      BY <3>1, <3>2
  <2>7. Good(i)
    BY <2>4, <2>5, <2>6
  <2>8. QED
    BY <1>7, <2>7 DEF S
<1>11. \A i \in 0 .. n : Good(i)
  <2> HIDE DEF Good
  <2>1. \A i \in 0 .. n : i \in S
    <3> HIDE DEF S
    <3>1. QED
      BY <1>2, <1>9, <1>10, ByCounting
  <2>2. QED
    BY <2>1
<1>12. n \in 0 .. n /\ \A i \in 1 .. n : i \in 0 .. n
  BY <1>2
<1>13. Good(n) /\ f[n] \in Seq(T) /\ at[n] = Len(f[n])
  BY <1>3, <1>5, <1>11, <1>12
<1>14. \A i, j \in 0 .. n : i <= j => at[i] <= at[j]
  <2> TAKE i, j \in 0 .. n
  <2>1. HAVE i <= j
  <2>2. i \in 0 .. j
    BY <2>1
  <2>3. QED
    BY <1>11, <2>2
<1>15. Laid(at, ss, n, f[n])
  BY <1>5, <1>8, <1>13, <1>14 DEF Laid
<1>16. QED
  BY <1>15

LEMMA FlattenPlaces ==
    ASSUME NEW T, NEW ss \in Seq(Seq(T))
    PROVE  FlattenSeq(ss) \in Seq(T) /\ \E at : Laid(at, ss, Len(ss), FlattenSeq(ss))
<1>1. PICK f \in [0 .. Len(ss) -> Seq(T)] : EndToEnd(f, ss, Len(ss)) /\ FlattenSeq(ss) = f[Len(ss)]
  BY FlattenIs
<1>2. /\ Len(ss) \in Nat /\ Len(ss) \in 0 .. Len(ss)
      /\ \A k \in 0 .. Len(ss) : f[k] \in Seq(T)
      /\ \A k \in 1 .. Len(ss) : ss[k] \in Seq(T)
  OBVIOUS
<1>3. PICK n, S : n = Len(ss) /\ S = T
  OBVIOUS
<1>4. /\ n \in Nat /\ (\A k \in 0 .. n : f[k] \in Seq(S)) /\ (\A k \in 1 .. n : ss[k] \in Seq(S))
      /\ EndToEnd(f, ss, n)
  BY <1>1, <1>2, <1>3
<1>5. \E at : Laid(at, ss, n, f[n])
  BY ONLY <1>4, EndToEndPlaces
<1>6. QED
  BY <1>1, <1>2, <1>3, <1>5

(* The first of them all that is one of a kind is the first such of the    *)
(* first sequence that has one.                                            *)
FirstIn(ss, n, G, r) ==
    \E i \in 1 .. n : \E k \in 1 .. Len(ss[i]) :
       /\ ss[i][k] = r
       /\ \A h \in 1 .. k - 1 : ss[i][h] \notin G
       /\ \A h \in 1 .. i - 1 : \A l \in 1 .. Len(ss[h]) : ss[h][l] \notin G

LEMMA LaidFirst ==
    ASSUME NEW n \in Nat, NEW at, NEW ss, NEW flat, Laid(at, ss, n, flat),
           \A i \in 1 .. n : Len(ss[i]) \in Nat,
           NEW G, NEW v \in 1 .. Len(flat), flat[v] \in G, \A w \in 1 .. v - 1 : flat[w] \notin G
    PROVE  FirstIn(ss, n, G, flat[v])
<1>5. PICK i \in 1 .. n : \E k \in 1 .. Len(ss[i]) : v = at[i - 1] + k
  BY DEF Laid
<1>11. PICK k \in 1 .. Len(ss[i]) : v = at[i - 1] + k
  BY <1>5
<1>12. at \in [0 .. n -> Nat]
  BY DEF Laid
<1>6. i - 1 \in 0 .. n /\ at[i - 1] \in Nat /\ n \in Nat /\ Len(ss[i]) \in Nat
  <2>1. i - 1 \in 0 .. n
    BY ONLY n \in Nat
  <2>2. at[i - 1] \in Nat
    BY ONLY <1>12, <2>1
  <2>3. QED
    BY <2>1, <2>2
<1>7. ss[i][k] = flat[v]
  BY ONLY Laid(at, ss, n, flat), <1>11 DEF Laid
<1>8. ASSUME NEW h \in 1 .. k - 1 PROVE ss[i][h] \notin G
  <2>1. h \in 1 .. Len(ss[i]) /\ at[i - 1] + h \in 1 .. v - 1
    BY ONLY <1>11, <1>6
  <2>2. ss[i][h] = flat[at[i - 1] + h]
    BY <2>1 DEF Laid
  <2>3. QED
    BY <2>1, <2>2
<1>9. ASSUME NEW h \in 1 .. i - 1, NEW l \in 1 .. Len(ss[h]) PROVE ss[h][l] \notin G
  <2>1. h \in 1 .. n /\ h - 1 \in 0 .. n /\ h \in 0 .. n /\ h <= i - 1
    BY <1>6
  <2>2. at[h] = at[h - 1] + Len(ss[h]) /\ at[h] <= at[i - 1] /\ at[h] \in Nat /\ at[h - 1] \in Nat /\ Len(ss[h]) \in Nat
    BY <1>6, <2>1 DEF Laid
  <2>3. at[h - 1] + l \in 1 .. v - 1
    <3>1. at[h - 1] \in Nat /\ Len(ss[h]) \in Nat /\ at[h - 1] + Len(ss[h]) <= at[i - 1]
      BY ONLY <2>2
    <3>2. PICK a, b, c : a = at[h - 1] /\ b = Len(ss[h]) /\ c = at[i - 1]
      OBVIOUS
    <3>3. k \in Nat /\ k >= 1 /\ l \in Nat /\ l >= 1 /\ l <= b /\ v = c + k
      BY ONLY <1>11, <1>6, <3>1, <3>2
    <3>4. a \in Nat /\ b \in Nat /\ c \in Nat /\ a + b <= c
      BY ONLY <1>6, <3>1, <3>2
    <3>5. a + l \in 1 .. v - 1
      BY ONLY <3>3, <3>4
    <3>6. QED
      BY <3>2, <3>5
  <2>4. ss[h][l] = flat[at[h - 1] + l]
    BY <2>1 DEF Laid
  <2>5. QED
    BY <2>3, <2>4
<1>10. QED
  BY <1>7, <1>8, <1>9 DEF FirstIn

(* A function of the numbers from 1 up is a sequence.                      *)
LEMMA SeqIs ==
    ASSUME NEW n \in Nat, NEW V, NEW h, h = [k \in 1 .. n |-> h[k]], \A k \in 1 .. n : h[k] \in V
    PROVE  h \in Seq(V) /\ Len(h) = n /\ DOMAIN h = 1 .. n
<1>1. h \in [1 .. n -> V] /\ DOMAIN h = 1 .. n
  OBVIOUS
<1>2. h \in Seq(V)
  BY <1>1, IsASeq
<1>3. QED
  BY ONLY n \in Nat, <1>1, <1>2, LenProperties

(* Sequences of one member each.                                           *)
LEMMA FlattenSingles ==
    ASSUME NEW T, NEW s \in Seq(T)
    PROVE  FlattenSeq([i \in DOMAIN s |-> <<s[i]>>]) = s
<1> DEFINE n == Len(s)
           ss == [i \in DOMAIN s |-> <<s[i]>>]
           f == [k \in 0 .. n |-> SubSeq(s, 1, k)]
<1>1. n \in Nat /\ DOMAIN s = 1 .. n /\ \A k \in 1 .. n : s[k] \in T
  OBVIOUS
<1>2. ss = [k \in 1 .. n |-> ss[k]] /\ \A k \in 1 .. n : ss[k] = <<s[k]>> /\ ss[k] \in Seq(T)
  BY <1>1
<1>3. \A k \in 0 .. n : f[k] = SubSeq(s, 1, k)
  OBVIOUS
<1> HIDE DEF ss, f
<1>4. ss \in Seq(Seq(T)) /\ Len(ss) = n
  <2>1. PICK V : V = Seq(T)
    OBVIOUS
  <2>2. ss \in Seq(V) /\ Len(ss) = n
    BY <1>1, <1>2, <2>1, SeqIs
  <2>3. QED
    BY <2>1, <2>2
<1> HIDE DEF n
<1>5. f[0] = <<>> /\ f[n] = s
  <2>1. 0 \in 0 .. n /\ n \in 0 .. n
    BY <1>1
  <2>2. SubSeq(s, 1, 0) = <<>> /\ SubSeq(s, 1, n) = s
    BY DEF n
  <2>3. QED
    BY <1>3, <2>1, <2>2
<1>6. ASSUME NEW k \in 1 .. n PROVE f[k] = f[k - 1] \o ss[k]
  <2>1. k \in 0 .. n /\ k - 1 \in 0 .. n
    BY <1>1
  <2>2. SubSeq(s, 1, k) = SubSeq(s, 1, k - 1) \o <<s[k]>>
    BY <1>1 DEF n
  <2>3. QED
    BY <1>2, <1>3, <2>1, <2>2
<1>7. EndToEnd(f, ss, Len(ss))
  BY <1>4, <1>5, <1>6 DEF EndToEnd
<1>8. QED
  BY <1>4, <1>5, <1>7, FlattenBy DEF ss

\* Sequences of sequences laid end to end, and these again.
FlatTwice(pp, n) == FlattenSeq([k \in 1 .. n |-> FlattenSeq(pp[k])])

\* Those of one are what a function makes of those of the other.
Corresponds(m, pp, qq, n, T, U) ==
    /\ \A x \in T : m[x] \in Seq(U)
    /\ \A k \in 1 .. n : /\ pp[k] \in Seq(Seq(T)) /\ qq[k] \in Seq(Seq(U)) /\ Len(qq[k]) = Len(pp[k])
                          /\ \A i \in 1 .. Len(pp[k]) : qq[k][i] = FlattenSeq(Mapped(m, pp[k][i]))

LEMMA FlattenTwice ==
    ASSUME NEW T, NEW U, NEW m, NEW n \in Nat, NEW pp, NEW qq, Corresponds(m, pp, qq, n, T, U)
    PROVE  FlatTwice(pp, n) \in Seq(T) /\ FlattenSeq(Mapped(m, FlatTwice(pp, n))) = FlatTwice(qq, n)
<1>0. /\ \A x \in T : m[x] \in Seq(U)
      /\ \A k \in 1 .. n : /\ pp[k] \in Seq(Seq(T)) /\ qq[k] \in Seq(Seq(U)) /\ Len(qq[k]) = Len(pp[k])
                            /\ \A i \in 1 .. Len(pp[k]) : qq[k][i] = FlattenSeq(Mapped(m, pp[k][i]))
  BY DEF Corresponds
<1> DEFINE ss == [k \in 1 .. n |-> FlattenSeq(pp[k])]
           tt == [k \in 1 .. n |-> FlattenSeq(qq[k])]
<1>1. /\ ss = [k \in 1 .. n |-> ss[k]] /\ tt = [k \in 1 .. n |-> tt[k]]
      /\ \A k \in 1 .. n : ss[k] = FlattenSeq(pp[k]) /\ tt[k] = FlattenSeq(qq[k])
  OBVIOUS
<1>2. \A k \in 1 .. n : FlattenSeq(pp[k]) \in Seq(T) /\ FlattenSeq(qq[k]) \in Seq(U)
  BY <1>0, FlattenIs
<1> HIDE DEF ss, tt
<1>3. ss \in Seq(Seq(T)) /\ Len(ss) = n /\ tt \in Seq(Seq(U)) /\ Len(tt) = n
  <2>1. PICK V, W : V = Seq(T) /\ W = Seq(U)
    OBVIOUS
  <2>2. (\A k \in 1 .. n : ss[k] \in V) /\ (\A k \in 1 .. n : tt[k] \in W)
    BY <1>1, <1>2, <2>1
  <2>3. ss \in Seq(V) /\ Len(ss) = n
    BY ONLY n \in Nat, <1>1, <2>2, SeqIs
  <2>4. tt \in Seq(W) /\ Len(tt) = n
    BY ONLY n \in Nat, <1>1, <2>2, SeqIs
  <2>5. QED
    BY <2>1, <2>3, <2>4
<1>4. PICK g : g = [x \in T |-> m[x]]
  OBVIOUS
<1>5. g \in [T -> Seq(U)] /\ \A x \in T : g[x] = m[x]
  BY <1>0, <1>4
<1>6. \A s \in Seq(T) : Mapped(g, s) = Mapped(m, s)
  <2> TAKE s \in Seq(T)
  <2>1. \A i \in DOMAIN s : s[i] \in T
    OBVIOUS
  <2>2. QED
    BY <1>5, <2>1 DEF Mapped
<1>7. ASSUME NEW k \in 1 .. n PROVE tt[k] = FlattenSeq(Mapped(g, ss[k]))
  <2>1. PICK s, t : s = pp[k] /\ t = qq[k]
    OBVIOUS
  <2>2. s \in Seq(Seq(T)) /\ t \in Seq(Seq(U)) /\ Len(t) = Len(s)
    BY <1>0, <2>1
  <2>3. \A i \in 1 .. Len(s) : t[i] = FlattenSeq(Mapped(g, s[i]))
    <3> TAKE i \in 1 .. Len(s)
    <3>1. s[i] \in Seq(T)
      BY <2>2
    <3>2. t[i] = FlattenSeq(Mapped(m, s[i]))
      BY <1>0, <2>1
    <3>3. QED
      BY <1>6, <3>1, <3>2
  <2>4. FlattenSeq(Mapped(g, FlattenSeq(s))) = FlattenSeq(t)
    BY ONLY <1>5, <2>2, <2>3, FlattenMapped
  <2>5. QED
    BY <1>1, <2>1, <2>4
<1>8. FlattenSeq(Mapped(g, FlattenSeq(ss))) = FlattenSeq(tt)
  <2>1. PICK s, t : s = ss /\ t = tt
    OBVIOUS
  <2>2. s \in Seq(Seq(T)) /\ t \in Seq(Seq(U)) /\ Len(t) = Len(s)
    BY <1>3, <2>1
  <2>3. \A k \in 1 .. Len(s) : t[k] = FlattenSeq(Mapped(g, s[k]))
    BY <1>3, <1>7, <2>1
  <2>4. FlattenSeq(Mapped(g, FlattenSeq(s))) = FlattenSeq(t)
    BY ONLY <1>5, <2>2, <2>3, FlattenMapped
  <2>5. QED
    BY <2>1, <2>4
<1>9. FlattenSeq(ss) \in Seq(T)
  BY <1>3, FlattenIs
<1>10. Mapped(g, FlattenSeq(ss)) = Mapped(m, FlattenSeq(ss))
  BY <1>6, <1>9
<1>11. QED
  BY <1>8, <1>9, <1>10 DEF FlatTwice, ss, tt

(***************************************************************************)
(* Lists of anything.                                                      *)
(***************************************************************************)
Listed(s) == \E S : s \in Seq(S)

(* What lists are, and what is put at the end of them.                     *)
LEMMA ListIs ==
    ASSUME NEW s, Listed(s)
    PROVE  Len(s) \in Nat /\ DOMAIN s = 1 .. Len(s)
BY DEF Listed

LEMMA EmptyIs == Listed(<<>>) /\ Len(<<>>) = 0 /\ DOMAIN <<>> = 1 .. 0
BY DEF Listed

(* Slides.                                                                 *)
(***************************************************************************)
(* What Append does to a list of anything, and Front.                      *)
LEMMA AppendIs ==
    ASSUME NEW s, NEW x, Listed(s)
    PROVE  /\ Listed(Append(s, x)) /\ Len(s) \in Nat /\ Len(Append(s, x)) = Len(s) + 1
           /\ DOMAIN s = 1 .. Len(s) /\ DOMAIN Append(s, x) = 1 .. Len(s) + 1
           /\ \A i \in 1 .. Len(s) : Append(s, x)[i] = s[i]
           /\ Append(s, x)[Len(s) + 1] = x
<1>1. PICK S : s \in Seq(S)
  BY DEF Listed
<1>2. s \in Seq(S \cup {x})
  BY <1>1
<1>3. Append(s, x) \in Seq(S \cup {x}) /\ Len(Append(s, x)) = Len(s) + 1 /\ Len(s) \in Nat
  BY <1>2
<1>4. QED
  BY <1>2, <1>3 DEF Listed

LEMMA OneIs ==
    ASSUME NEW e
    PROVE  Listed(<<e>>) /\ Len(<<e>>) = 1 /\ <<e>>[1] = e /\ <<e>> # <<>> /\ DOMAIN <<e>> = 1 .. 1
<1>1. PICK S : S = {e}
  OBVIOUS
<1>2. <<e>> \in Seq(S) /\ Len(<<e>>) = 1
  BY ONLY <1>1
<1>3. QED
  BY <1>2 DEF Listed

LEMMA JoinIs ==
    ASSUME NEW s, NEW t, Listed(s), Listed(t)
    PROVE  /\ Listed(s \o t) /\ Len(s \o t) = Len(s) + Len(t)
           /\ \A i \in 1 .. Len(s) : (s \o t)[i] = s[i]
           /\ \A j \in 1 .. Len(t) : (s \o t)[Len(s) + j] = t[j]
<1>1. PICK S, T : s \in Seq(S) /\ t \in Seq(T)
  BY DEF Listed
<1>2. PICK U : U = S \cup T
  OBVIOUS
<1>3. s \in Seq(U) /\ t \in Seq(U)
  BY ONLY <1>1, <1>2
<1>4. s \o t \in Seq(U) /\ Len(s \o t) = Len(s) + Len(t) /\ Len(s) \in Nat /\ Len(t) \in Nat
  BY ONLY <1>3
<1>5. \A i \in 1 .. Len(s) + Len(t) : (s \o t)[i] = IF i <= Len(s) THEN s[i] ELSE t[i - Len(s)]
  BY ONLY <1>3, <1>4
<1>6. ASSUME NEW j \in 1 .. Len(t) PROVE (s \o t)[Len(s) + j] = t[j]
  <2>1. Len(s) + j \in 1 .. Len(s) + Len(t) /\ ~ (Len(s) + j <= Len(s)) /\ (Len(s) + j) - Len(s) = j
    BY ONLY <1>4, j \in 1 .. Len(t)
  <2>2. QED
    BY <1>5, <2>1
<1>7. ASSUME NEW i \in 1 .. Len(s) PROVE (s \o t)[i] = s[i]
  <2>1. i \in 1 .. Len(s) + Len(t) /\ i <= Len(s)
    BY ONLY <1>4, i \in 1 .. Len(s)
  <2>2. QED
    BY <1>5, <2>1
<1>8. QED
  BY <1>4, <1>6, <1>7 DEF Listed

LEMMA BuiltIs ==
    ASSUME NEW n \in Nat, NEW f, f = [i \in 1 .. n |-> f[i]]
    PROVE  Listed(f) /\ Len(f) = n
<1>1. PICK U : U = {f[i] : i \in 1 .. n}
  OBVIOUS
<1>2. f \in [1 .. n -> U]
  BY <1>1
<1>3. f \in Seq(U)
  BY <1>2
<1>4. QED
  BY <1>2, <1>3 DEF Listed

\* Something done with each member of each.
EachMapped(m, ss, tt) == tt = [i \in 1 .. Len(ss) |-> Mapped(m, ss[i])]

(* Doing something with each member before laying end to end, or after.    *)
LEMMA FlattenMembers ==
    ASSUME NEW T, NEW V, NEW m, \A x \in T : m[x] \in V, NEW ss \in Seq(Seq(T)),
           NEW tt, EachMapped(m, ss, tt)
    PROVE  FlattenSeq(tt) = Mapped(m, FlattenSeq(ss)) /\ tt \in Seq(Seq(V))
<1>1. PICK f \in [0 .. Len(ss) -> Seq(T)] : EndToEnd(f, ss, Len(ss)) /\ FlattenSeq(ss) = f[Len(ss)]
  BY FlattenIs
<1> DEFINE n == Len(ss)
           e == [k \in 0 .. n |-> Mapped(m, f[k])]
<1>2. n \in Nat /\ \A k \in 1 .. n : ss[k] \in Seq(T) /\ tt[k] = Mapped(m, ss[k])
  BY DEF EachMapped
<1>3. \A k \in 0 .. n : f[k] \in Seq(T) /\ e[k] = Mapped(m, f[k])
  BY <1>1
<1>4. f[0] = <<>> /\ \A k \in 1 .. n : f[k] = f[k - 1] \o ss[k]
  BY <1>1 DEF EndToEnd
<1>5. tt = [k \in 1 .. n |-> tt[k]]
  BY DEF EachMapped
<1> HIDE DEF e, n
<1>6. \A k \in 1 .. n : tt[k] \in Seq(V)
  <2> SUFFICES ASSUME NEW k \in 1 .. n PROVE tt[k] \in Seq(V)
    OBVIOUS
  <2>1. ss[k] \in Seq(T)
    BY <1>2
  <2>2. Mapped(m, ss[k]) \in Seq(V)
    BY ONLY <2>1, \A x \in T : m[x] \in V, MappedIs
  <2>3. QED
    BY <1>2, <2>2
<1>7. tt \in Seq(Seq(V)) /\ Len(tt) = n
  <2>1. n \in Nat
    BY <1>2
  <2>2. QED
    BY ONLY <1>5, <1>6, <2>1, SeqIs
<1>8. EndToEnd(e, tt, n)
  <2>1. e[0] = <<>>
    <3>1. 0 \in 0 .. n
      BY <1>2
    <3>2. e[0] = Mapped(m, <<>>)
      BY <1>3, <1>4, <3>1
    <3>3. Mapped(m, <<>>) = <<>>
      BY DEF Mapped
    <3>4. QED
      BY <3>2, <3>3
  <2>2. ASSUME NEW k \in 1 .. n PROVE e[k] = e[k - 1] \o tt[k]
    <3>1. k - 1 \in 0 .. n /\ k \in 0 .. n
      BY <1>2
    <3>2. f[k - 1] \in Seq(T) /\ ss[k] \in Seq(T) /\ f[k] = f[k - 1] \o ss[k]
      BY <1>2, <1>3, <1>4, <3>1
    <3>3. Splits(m, f[k - 1], ss[k])
      BY <3>2, MappedIs
    <3>4. QED
      BY <1>2, <1>3, <3>1, <3>2, <3>3 DEF Splits
  <2>3. QED
    BY <2>1, <2>2 DEF EndToEnd
<1>9. FlattenSeq(tt) = e[n]
  BY <1>7, <1>8, FlattenBy
<1>10. n \in 0 .. n
  BY <1>2
<1>11. QED
  BY <1>1, <1>3, <1>7, <1>9, <1>10 DEF n

(***************************************************************************)
(* Sequences that have every member of a set, each once.                   *)
(***************************************************************************)
\* A sequence that has every member of a set, each once.
Enumerates(s, G) ==
    /\ Listed(s)
    /\ \A i \in 1 .. Len(s) : s[i] \in G
    /\ \A x \in G : \E i \in 1 .. Len(s) : s[i] = x
    /\ \A i, j \in 1 .. Len(s) : s[i] = s[j] => i = j

LEMMA NothingEnumerated == Enumerates(<<>>, {})
BY EmptyIs DEF Enumerates

LEMMA OneEnumerated ==
    ASSUME NEW x
    PROVE  Enumerates(<<x>>, {x})
<1>1. Listed(<<x>>) /\ Len(<<x>>) = 1 /\ <<x>>[1] = x
  BY OneIs
<1>2. \A i \in 1 .. Len(<<x>>) : i = 1
  BY <1>1
<1>3. QED
  BY <1>1, <1>2 DEF Enumerates

(* Two of them in a row.                                                   *)
LEMMA EnumeratedJoin ==
    ASSUME NEW s, NEW G, NEW t, NEW H, Enumerates(s, G), Enumerates(t, H), G \cap H = {}
    PROVE  Enumerates(s \o t, G \cup H)
<1> DEFINE u == s \o t
           m == Len(s)
           n == Len(t)
<1>1. Listed(s) /\ Listed(t) /\ m \in Nat /\ n \in Nat
  BY ListIs DEF Enumerates
<1>2. /\ Listed(u) /\ Len(u) = m + n
      /\ \A i \in 1 .. m : u[i] = s[i]
      /\ \A j \in 1 .. n : u[m + j] = t[j]
  BY <1>1, JoinIs
<1>3. /\ \A i \in 1 .. m : s[i] \in G
      /\ \A x \in G : \E i \in 1 .. m : s[i] = x
      /\ \A i, j \in 1 .. m : s[i] = s[j] => i = j
      /\ \A i \in 1 .. n : t[i] \in H
      /\ \A x \in H : \E i \in 1 .. n : t[i] = x
      /\ \A i, j \in 1 .. n : t[i] = t[j] => i = j
  BY DEF Enumerates
<1> HIDE DEF u, m, n
<1>4. \A i \in 1 .. m + n : (i \in 1 .. m /\ u[i] = s[i]) \/ (i - m \in 1 .. n /\ u[i] = t[i - m])
  <2> SUFFICES ASSUME NEW i \in 1 .. m + n, ~ (i <= m)
               PROVE  i - m \in 1 .. n /\ u[i] = t[i - m]
    BY <1>1, <1>2
  <2>1. i - m \in 1 .. n /\ m + (i - m) = i
    BY <1>1
  <2>2. QED
    BY <1>2, <2>1
<1>5. \A i \in 1 .. m + n : u[i] \in G \cup H
  BY <1>3, <1>4
<1>6. \A i, j \in 1 .. m + n : u[i] = u[j] => i = j
  <2> SUFFICES ASSUME NEW i \in 1 .. m + n, NEW j \in 1 .. m + n, u[i] = u[j] PROVE i = j
    OBVIOUS
  <2>1. CASE i \in 1 .. m /\ j \in 1 .. m /\ u[i] = s[i] /\ u[j] = s[j]
    BY <1>3, <2>1
  <2>2. CASE i - m \in 1 .. n /\ j - m \in 1 .. n /\ u[i] = t[i - m] /\ u[j] = t[j - m]
    <3>1. i - m = j - m
      BY <1>3, <2>2
    <3>2. QED
      BY <1>1, <3>1
  <2>3. CASE i \in 1 .. m /\ j - m \in 1 .. n /\ u[i] = s[i] /\ u[j] = t[j - m]
    BY <1>3, <2>3
  <2>4. CASE i - m \in 1 .. n /\ j \in 1 .. m /\ u[i] = t[i - m] /\ u[j] = s[j]
    BY <1>3, <2>4
  <2>5. QED
    BY <1>4, <2>1, <2>2, <2>3, <2>4
<1>7. \A x \in G \cup H : \E i \in 1 .. m + n : u[i] = x
  <2> SUFFICES ASSUME NEW x \in G \cup H PROVE \E i \in 1 .. m + n : u[i] = x
    OBVIOUS
  <2>1. CASE x \in G
    <3>1. PICK i \in 1 .. m : s[i] = x
      BY <1>3, <2>1
    <3>2. i \in 1 .. m + n
      BY <1>1
    <3>3. QED
      BY <1>2, <3>1, <3>2
  <2>2. CASE x \in H
    <3>1. PICK i \in 1 .. n : t[i] = x
      BY <1>3, <2>2
    <3>2. m + i \in 1 .. m + n
      BY <1>1
    <3>3. QED
      BY <1>2, <3>1, <3>2
  <2>3. QED
    BY <2>1, <2>2
<1>8. QED
  BY <1>2, <1>5, <1>6, <1>7 DEF Enumerates, u

\* Sequences that enumerate sets without a common member, and all of these.
AllEnumerate(ss, G, n) ==
    /\ n \in Nat /\ ss = [i \in 1 .. n |-> ss[i]]
    /\ \A i \in 1 .. n : Enumerates(ss[i], G[i])
    /\ \A i, j \in 1 .. n : i # j => G[i] \cap G[j] = {}
AllOf(G, n) == UNION {G[i] : i \in 1 .. n}

(* Any number of them, laid end to end.                                    *)
LEMMA EnumeratedFlat ==
    ASSUME NEW n, NEW ss, NEW G, AllEnumerate(ss, G, n)
    PROVE  Enumerates(FlattenSeq(ss), AllOf(G, n))
<1> DEFINE T == AllOf(G, n)
           u == FlattenSeq(ss)
<1>0. /\ n \in Nat /\ ss = [i \in 1 .. n |-> ss[i]]
      /\ \A i \in 1 .. n : Enumerates(ss[i], G[i])
      /\ \A i, j \in 1 .. n : i # j => G[i] \cap G[j] = {}
  BY DEF AllEnumerate
<1>1. \A i \in 1 .. n : ss[i] \in Seq(T)
  <2> SUFFICES ASSUME NEW i \in 1 .. n PROVE ss[i] \in Seq(T)
    OBVIOUS
  <2>1. PICK S : ss[i] \in Seq(S)
    BY <1>0 DEF Enumerates, Listed
  <2>2. \A k \in 1 .. Len(ss[i]) : ss[i][k] \in T
    BY <1>0 DEF Enumerates, AllOf
  <2> HIDE DEF T
  <2>3. QED
    BY <2>1, <2>2
<1> HIDE DEF T
<1>2. ss \in Seq(Seq(T)) /\ Len(ss) = n
  BY <1>0, <1>1, SeqIs
<1>3. PICK at : u \in Seq(T) /\ Laid(at, ss, n, u)
  BY <1>2, FlattenPlaces
<1> HIDE DEF u
<1>4. Listed(u) /\ Len(u) \in Nat
  BY <1>3 DEF Listed
<1>5. \A i \in 1 .. n : Len(ss[i]) \in Nat
  BY <1>1
<1>6. /\ at \in [0 .. n -> Nat]
      /\ \A i \in 1 .. n : at[i] = at[i - 1] + Len(ss[i])
      /\ \A i, j \in 0 .. n : i <= j => at[i] <= at[j]
      /\ \A i \in 1 .. n : \A k \in 1 .. Len(ss[i]) :
            at[i - 1] + k \in 1 .. Len(u) /\ u[at[i - 1] + k] = ss[i][k]
      /\ \A p \in 1 .. Len(u) : \E i \in 1 .. n : \E k \in 1 .. Len(ss[i]) : p = at[i - 1] + k
  BY <1>3 DEF Laid
<1>7. ASSUME NEW p \in 1 .. Len(u)
      PROVE  \E i \in 1 .. n : \E k \in 1 .. Len(ss[i]) : p = at[i - 1] + k /\ u[p] = ss[i][k] /\ u[p] \in G[i]
  <2>1. PICK i \in 1 .. n : \E k \in 1 .. Len(ss[i]) : p = at[i - 1] + k
    BY <1>6
  <2>2. PICK k \in 1 .. Len(ss[i]) : p = at[i - 1] + k
    BY <2>1
  <2>3. u[p] = ss[i][k] /\ ss[i][k] \in G[i]
    BY <1>0, <1>6, <2>2 DEF Enumerates
  <2>4. QED
    BY <2>2, <2>3
<1>8. \A p \in 1 .. Len(u) : u[p] \in T
  BY <1>7 DEF T, AllOf
<1>9. \A x \in T : \E p \in 1 .. Len(u) : u[p] = x
  <2> SUFFICES ASSUME NEW x \in T PROVE \E p \in 1 .. Len(u) : u[p] = x
    OBVIOUS
  <2>1. PICK i \in 1 .. n : x \in G[i]
    BY DEF T, AllOf
  <2>2. PICK k \in 1 .. Len(ss[i]) : ss[i][k] = x
    BY <1>0, <2>1 DEF Enumerates
  <2>3. QED
    BY <1>6, <2>2
<1>10. \A p, q \in 1 .. Len(u) : u[p] = u[q] => p = q
  <2> SUFFICES ASSUME NEW p \in 1 .. Len(u), NEW q \in 1 .. Len(u), u[p] = u[q] PROVE p = q
    OBVIOUS
  <2>1. PICK i \in 1 .. n : \E k \in 1 .. Len(ss[i]) : p = at[i - 1] + k /\ u[p] = ss[i][k] /\ u[p] \in G[i]
    BY <1>7
  <2>2. PICK k \in 1 .. Len(ss[i]) : p = at[i - 1] + k /\ u[p] = ss[i][k] /\ u[p] \in G[i]
    BY <2>1
  <2>3. PICK j \in 1 .. n : \E l \in 1 .. Len(ss[j]) : q = at[j - 1] + l /\ u[q] = ss[j][l] /\ u[q] \in G[j]
    BY <1>7
  <2>4. PICK l \in 1 .. Len(ss[j]) : q = at[j - 1] + l /\ u[q] = ss[j][l] /\ u[q] \in G[j]
    BY <2>3
  <2>5. i = j
    BY <1>0, <2>2, <2>4
  <2>6. k = l
    BY <1>0, <2>2, <2>4, <2>5 DEF Enumerates
  <2>7. QED
    BY <2>2, <2>4, <2>5, <2>6
<1>11. QED
  BY <1>4, <1>8, <1>9, <1>10 DEF Enumerates, u, T

\* An order of n places: every place comes once.
Reorders(p, n) ==
    /\ p \in [1 .. n -> 1 .. n]
    /\ \A i, j \in 1 .. n : p[i] = p[j] => i = j
    /\ \A i \in 1 .. n : \E j \in 1 .. n : p[j] = i

(* The same in another order.                                              *)
LEMMA EnumeratedReordered ==
    ASSUME NEW s, NEW G, Enumerates(s, G), NEW p, Reorders(p, Len(s)),
           NEW t, t = [i \in DOMAIN s |-> s[p[i]]]
    PROVE  Enumerates(t, G) /\ Len(t) = Len(s)
<1> DEFINE n == Len(s)
<1>1. n \in Nat /\ DOMAIN s = 1 .. n
  BY ListIs DEF Enumerates
<1>2. p \in [1 .. n -> 1 .. n] /\ \A i \in 1 .. n : t[i] = s[p[i]]
  BY <1>1 DEF Reorders
<1> HIDE DEF n
<1>3. Listed(t) /\ Len(t) = n
  <2>1. t = [i \in 1 .. n |-> t[i]]
    BY <1>1
  <2>2. QED
    BY <1>1, <2>1, BuiltIs
<1>4. \A i \in 1 .. n : t[i] \in G
  BY <1>2 DEF Enumerates, n
<1>5. \A x \in G : \E i \in 1 .. n : t[i] = x
  <2> SUFFICES ASSUME NEW x \in G PROVE \E i \in 1 .. n : t[i] = x
    OBVIOUS
  <2>1. PICK j \in 1 .. n : s[j] = x
    BY DEF Enumerates, n
  <2>2. PICK i \in 1 .. n : p[i] = j
    BY DEF Reorders, n
  <2>3. QED
    BY <1>2, <2>1, <2>2
<1>6. \A i, j \in 1 .. n : t[i] = t[j] => i = j
  <2> SUFFICES ASSUME NEW i \in 1 .. n, NEW j \in 1 .. n, t[i] = t[j] PROVE i = j
    OBVIOUS
  <2>1. s[p[i]] = s[p[j]] /\ p[i] \in 1 .. n /\ p[j] \in 1 .. n
    BY <1>2
  <2>2. p[i] = p[j]
    BY <2>1 DEF Enumerates, n
  <2>3. QED
    BY <2>2 DEF Reorders, n
<1>7. QED
  BY <1>3, <1>4, <1>5, <1>6 DEF Enumerates, n

(* Finitely many integers have a least and a greatest one.                 *)
LEMMA EndsExist ==
    ASSUME NEW n \in Nat, NEW S \in SUBSET (1 .. n), S # {}, NEW f, \A i \in S : f[i] \in Int
    PROVE  \E i, j \in S : \A k \in S : f[i] <= f[k] /\ f[k] <= f[j]
<1> DEFINE Part(m) == {i \in S : i <= m}
           Good == {m \in 0 .. n : Part(m) # {} =>
                      \E i, j \in Part(m) : \A k \in Part(m) : f[i] <= f[k] /\ f[k] <= f[j]}
<1>1. 0 \in Good
  <2>1. \A i \in S : ~ (i <= 0)
    OBVIOUS
  <2>2. ~ \E i : i \in Part(0)
    BY <2>1
  <2>3. 0 \in 0 .. n
    OBVIOUS
  <2> HIDE DEF Part
  <2>4. QED
    BY <2>2, <2>3
<1>2. ASSUME NEW m \in 1 .. n, m - 1 \in Good PROVE m \in Good
  <2>1. m \in 0 .. n /\ m - 1 \in 0 .. n
    OBVIOUS
  <2>2. \A k \in S : k <= m <=> (k <= m - 1 \/ k = m)
    OBVIOUS
  <2> DEFINE P == Part(m - 1)
             Q == Part(m)
  <2>3. \A k : k \in Q <=> (k \in P \/ (k = m /\ m \in S))
    BY <2>2
  <2>4. /\ P \subseteq S /\ Q \subseteq S
        /\ P # {} => \E i, j \in P : \A k \in P : f[i] <= f[k] /\ f[k] <= f[j]
    BY <1>2
  <2> HIDE DEF P, Q
  <2>5. Q # {} => \E i, j \in Q : \A k \in Q : f[i] <= f[k] /\ f[k] <= f[j]
    <3>1. CASE m \notin S
      <4>1. P = Q
        BY <2>3, <3>1
      <4>2. QED
        BY <2>4, <4>1
    <3>2. CASE m \in S /\ P = {}
      <4>1. \A k \in Q : k = m
        BY <2>3, <3>2
      <4>2. m \in Q /\ f[m] \in Int
        BY <2>3, <3>2
      <4>3. QED
        BY <4>1, <4>2
    <3>3. CASE m \in S /\ P # {}
      <4>1. PICK i \in P, j \in P : \A k \in P : f[i] <= f[k] /\ f[k] <= f[j]
        BY <2>4, <3>3
      <4>2. \A k \in Q : f[k] \in Int
        BY <2>4
      <4>3. i \in Q /\ j \in Q /\ m \in Q
        BY <2>3, <3>3
      <4>4. PICK a \in Q : a = IF f[m] < f[i] THEN m ELSE i
        BY <4>3
      <4>5. PICK b \in Q : b = IF f[m] > f[j] THEN m ELSE j
        BY <4>3
      <4>6. \A k \in Q : f[a] <= f[k] /\ f[k] <= f[b]
        <5> SUFFICES ASSUME NEW k \in Q PROVE f[a] <= f[k] /\ f[k] <= f[b]
          OBVIOUS
        <5>1. CASE k = m
          BY <4>2, <4>3, <4>4, <4>5, <5>1
        <5>2. CASE k \in P
          <6>1. f[i] <= f[k] /\ f[k] <= f[j]
            BY <4>1, <5>2
          <6>2. f[i] \in Int /\ f[j] \in Int /\ f[k] \in Int /\ f[m] \in Int
            BY <4>2, <4>3
          <6>3. f[a] <= f[i] /\ f[a] \in Int
            BY <4>4, <6>2
          <6>4. f[j] <= f[b] /\ f[b] \in Int
            BY <4>5, <6>2
          <6>5. QED
            BY <6>1, <6>2, <6>3, <6>4
        <5>3. QED
          BY <2>3, <5>1, <5>2
      <4>7. QED
        BY <4>6
    <3>4. QED
      BY <3>1, <3>2, <3>3
  <2>6. QED
    BY <2>1, <2>5 DEF Q
<1>3. n \in Good
  <2> HIDE DEF Good
  <2>1. \A m \in 0 .. n : m \in Good
    BY <1>1, <1>2, ByCounting
  <2>2. QED
    BY <2>1
<1>4. Part(n) = S
  <2>1. \A i \in S : i <= n
    OBVIOUS
  <2>2. QED
    BY <2>1
<1>5. QED
  BY <1>3, <1>4

(* Which Min and Max find.                                                 *)
LEMMA EndsAre ==
    ASSUME NEW n \in Nat, NEW S \in SUBSET (1 .. n), S # {}, NEW f, \A i \in S : f[i] \in Int
    PROVE  /\ Min({f[i] : i \in S}) \in Int /\ Max({f[i] : i \in S}) \in Int
           /\ \A i \in S : Min({f[k] : k \in S}) <= f[i] /\ f[i] <= Max({f[k] : k \in S})
<1> DEFINE V == {f[i] : i \in S}
<1>1. PICK i \in S, j \in S : \A k \in S : f[i] <= f[k] /\ f[k] <= f[j]
  BY EndsExist
<1>2. V \subseteq Int /\ f[i] \in V /\ f[j] \in V /\ \A k \in S : f[k] \in V
  OBVIOUS
<1>3. \A y \in V : f[i] <= y /\ f[j] >= y
  BY <1>1
<1> HIDE DEF V
<1>4. Min(V) \in V /\ \A y \in V : Min(V) <= y
  BY <1>2, <1>3 DEF Min
<1>5. Max(V) \in V /\ \A y \in V : Max(V) >= y
  BY <1>2, <1>3 DEF Max
<1>6. QED
  BY <1>2, <1>4, <1>5 DEF V
==============================================================================
