----------------------------- MODULE SlideProofs -----------------------------
(***************************************************************************)
(* The shapes of a slide, for every tree of shapes and groups.             *)
(***************************************************************************)
EXTENDS PptxSlide, ListProofs, TLAPS

(***************************************************************************)
(* The text of a shape.                                                    *)
(***************************************************************************)
\* A body with the letters of its texts; and a table of something for each
\* item of each of its paragraphs.
ItemsOf(body, k) == body.paragraphs[k].items

BodyOf(body, C) ==
    /\ Broken \notin C
    /\ Len(body.paragraphs) \in Nat /\ DOMAIN body.paragraphs = 1 .. Len(body.paragraphs)
    /\ \A k \in 1 .. Len(body.paragraphs) :
          /\ Len(ItemsOf(body, k)) \in Nat /\ DOMAIN ItemsOf(body, k) = 1 .. Len(ItemsOf(body, k))
          /\ \A i \in 1 .. Len(ItemsOf(body, k)) : ItemsOf(body, k)[i].text \in Seq(C)

ForItems(body, pp, V) ==
    /\ \A k \in 1 .. Len(body.paragraphs) :
          /\ pp[k] = [i \in 1 .. Len(ItemsOf(body, k)) |-> pp[k][i]]
          /\ \A i \in 1 .. Len(ItemsOf(body, k)) : pp[k][i] \in V

LEMMA RangeIs ==
    ASSUME NEW s, s \in Seq(Range(s))
    PROVE  Len(s) \in Nat /\ DOMAIN s = 1 .. Len(s) /\ \A i \in 1 .. Len(s) : s[i] \in Range(s)
<1>1. PICK S : S = Range(s)
  OBVIOUS
<1>2. s \in Seq(S)
  BY <1>1
<1>3. QED
  BY ONLY <1>1, <1>2

LEMMA BodyIs ==
    ASSUME NEW body, IsBody(body)
    PROVE  \E C : BodyOf(body, C)
<1> DEFINE n == Len(body.paragraphs)
           len(k) == Len(ItemsOf(body, k))
           text(k, i) == ItemsOf(body, k)[i].text
           D(k) == UNION {Range(text(k, i)) : i \in 1 .. len(k)}
           C == (UNION {D(k) : k \in 1 .. n}) \ {Broken}
<1>1. n \in Nat /\ DOMAIN body.paragraphs = 1 .. n
      /\ \A k \in 1 .. n : body.paragraphs[k] \in Range(body.paragraphs)
  BY RangeIs DEF IsBody
<1>2. ASSUME NEW k \in 1 .. n
      PROVE  /\ len(k) \in Nat /\ DOMAIN ItemsOf(body, k) = 1 .. len(k)
             /\ \A i \in 1 .. len(k) : text(k, i) \in Seq(Range(text(k, i)) \ {Broken})
  <2>1. PICK s : s = ItemsOf(body, k)
    OBVIOUS
  <2>2. s \in Seq(Range(s)) /\ \A item \in Range(s) : item.text \in Seq(Range(item.text) \ {Broken})
    BY <1>1, <2>1 DEF IsBody, ItemsOf
  <2>3. Len(s) \in Nat /\ DOMAIN s = 1 .. Len(s) /\ \A i \in 1 .. Len(s) : s[i] \in Range(s)
    BY ONLY <2>2, RangeIs
  <2>4. \A i \in 1 .. Len(s) : s[i].text \in Seq(Range(s[i].text) \ {Broken})
    BY <2>2, <2>3
  <2>5. QED
    BY <2>1, <2>3, <2>4
<1>3. ASSUME NEW k \in 1 .. n, NEW i \in 1 .. len(k) PROVE text(k, i) \in Seq(C)
  <2>1. Range(text(k, i)) \ {Broken} \subseteq C
    <3> HIDE DEF text, len, n
    <3>1. Range(text(k, i)) \subseteq D(k)
      OBVIOUS
    <3> HIDE DEF D
    <3>2. D(k) \subseteq UNION {D(h) : h \in 1 .. n}
      OBVIOUS
    <3>3. QED
      BY <3>1, <3>2
  <2>2. PICK S, E, t : S = Range(text(k, i)) \ {Broken} /\ E = C /\ t = text(k, i)
    OBVIOUS
  <2>3. t \in Seq(S) /\ S \subseteq E
    BY <1>2, <2>1, <2>2
  <2>4. t \in Seq(E)
    BY ONLY <2>3
  <2>5. QED
    BY <2>2, <2>4
<1> HIDE DEF D
<1>4. Broken \notin C
  OBVIOUS
<1> HIDE DEF C
<1>5. PICK E : E = C
  OBVIOUS
<1>6. Broken \notin E /\ \A k \in 1 .. n : \A i \in 1 .. len(k) : text(k, i) \in Seq(E)
  BY <1>3, <1>4, <1>5
<1>7. BodyOf(body, E)
  BY <1>1, <1>2, <1>6 DEF BodyOf
<1>8. QED
  BY <1>7

LEMMA ForItemsAre ==
    ASSUME NEW body, NEW C, BodyOf(body, C), NEW pp, NEW V, ForItems(body, pp, V), NEW k \in 1 .. Len(body.paragraphs)
    PROVE  pp[k] \in Seq(V) /\ Len(pp[k]) = Len(ItemsOf(body, k))
<1>1. PICK h, n : h = pp[k] /\ n = Len(ItemsOf(body, k))
  OBVIOUS
<1>2. n \in Nat
  BY <1>1 DEF BodyOf
<1>3. h = [i \in 1 .. n |-> h[i]] /\ \A i \in 1 .. n : h[i] \in V
  BY <1>1 DEF ForItems
<1>4. h \in Seq(V) /\ Len(h) = n
  BY ONLY <1>2, <1>3, SeqIs
<1>5. QED
  BY <1>1, <1>4

(* What a function makes of the text of something for each item is the     *)
(* text of what it makes of each.                                          *)
LEMMA TextMapped ==
    ASSUME NEW body, NEW C, BodyOf(body, C), NEW T, NEW U, NEW m, \A x \in T : m[x] \in Seq(U),
           NEW pp, ForItems(body, pp, Seq(T)), NEW qq, ForItems(body, qq, Seq(U)),
           \A k \in 1 .. Len(body.paragraphs) : \A i \in 1 .. Len(ItemsOf(body, k)) :
              qq[k][i] = FlattenSeq(Mapped(m, pp[k][i]))
    PROVE  /\ FlatTwice(pp, Len(body.paragraphs)) \in Seq(T)
           /\ FlattenSeq(Mapped(m, FlatTwice(pp, Len(body.paragraphs)))) = FlatTwice(qq, Len(body.paragraphs))
<1>1. PICK n : n = Len(body.paragraphs)
  OBVIOUS
<1>2. n \in Nat
  BY <1>1 DEF BodyOf
<1>3. ASSUME NEW k \in 1 .. n
      PROVE  /\ pp[k] \in Seq(Seq(T)) /\ qq[k] \in Seq(Seq(U)) /\ Len(qq[k]) = Len(pp[k])
             /\ \A i \in 1 .. Len(pp[k]) : qq[k][i] = FlattenSeq(Mapped(m, pp[k][i]))
  <2>1. PICK V, W : V = Seq(T) /\ W = Seq(U)
    OBVIOUS
  <2>2. pp[k] \in Seq(V) /\ Len(pp[k]) = Len(ItemsOf(body, k))
    BY <1>1, <2>1, ForItemsAre
  <2>3. qq[k] \in Seq(W) /\ Len(qq[k]) = Len(ItemsOf(body, k))
    BY <1>1, <2>1, ForItemsAre
  <2>4. QED
    BY <1>1, <2>1, <2>2, <2>3
<1>4. FlatTwice(pp, n) \in Seq(T) /\ FlattenSeq(Mapped(m, FlatTwice(pp, n))) = FlatTwice(qq, n)
  <2>1. Corresponds(m, pp, qq, n, T, U)
    BY <1>3 DEF Corresponds
  <2>2. QED
    BY ONLY <1>2, <2>1, FlattenTwice
<1>5. QED
  BY <1>1, <1>4

(* What is left of a text without its line breaks.                         *)
Stripping(C) == [c \in C \cup {Broken} |-> IF c = Broken THEN <<>> ELSE <<c>>]
Stripped(C, s) == FlattenSeq(Mapped(Stripping(C), s))

LEMMA StripIs ==
    ASSUME NEW C, Broken \notin C
    PROVE  /\ \A c \in C \cup {Broken} : Stripping(C)[c] \in Seq(C)
           /\ \A s \in Seq(C) : Stripped(C, s) = s /\ s \in Seq(C \cup {Broken})
           /\ <<Broken>> \in Seq(C \cup {Broken}) /\ Stripped(C, <<Broken>>) = <<>>
           /\ <<>> \in Seq(C) /\ Stripped(C, <<>>) = <<>>
           /\ \A s \in Seq(C \cup {Broken}) : Stripped(C, <<Broken>> \o s) = Stripped(C, s)
                                              /\ <<Broken>> \o s \in Seq(C \cup {Broken})
<1> DEFINE m == Stripping(C)
           D == C \cup {Broken}
<1>1. /\ \A c \in C : m[c] = <<c>> /\ m[c] \in Seq(C)
      /\ m[Broken] = <<>> /\ m[Broken] \in Seq(C)
  BY DEF Stripping
<1>2. \A c \in D : m[c] \in Seq(C)
  BY <1>1
<1>3. ASSUME NEW s \in Seq(C) PROVE Stripped(C, s) = s /\ s \in Seq(D)
  <2>1. s \in Seq(D)
    OBVIOUS
  <2>2. DOMAIN s = 1 .. Len(s) /\ \A i \in DOMAIN s : s[i] \in C
    OBVIOUS
  <2> HIDE DEF m
  <2>3. Mapped(m, s) = [i \in DOMAIN s |-> <<s[i]>>]
    BY <1>1, <2>2 DEF Mapped
  <2>4. FlattenSeq([i \in DOMAIN s |-> <<s[i]>>]) = s
    BY FlattenSingles
  <2>5. QED
    BY <2>1, <2>3, <2>4 DEF Stripped, m
<1>4. <<Broken>> \in Seq(D)
  OBVIOUS
<1>5. <<>> \in Seq(C) /\ Stripped(C, <<>>) = <<>>
  <2>1. Mapped(m, <<>>) = <<>>
    BY DEF Mapped
  <2>2. QED
    BY <2>1, FlattenNone DEF Stripped
<1>6. Stripped(C, <<Broken>>) = <<>>
  <2> HIDE DEF m
  <2>1. <<>> \in Seq(C) /\ FlattenSeq(<<<<>>>>) = <<>>
    <3>1. PICK e : e = <<>>
      OBVIOUS
    <3>2. e \in Seq(C)
      BY <3>1
    <3>3. FlattenSeq(<<e>>) = e
      BY ONLY <3>2, FlattenOne
    <3>4. QED
      BY <3>1, <3>3
  <2>2. Mapped(m, <<Broken>>) = <<<<>>>>
    <3>1. Mapped(m, <<Broken>>) = [i \in DOMAIN <<Broken>> |-> m[<<Broken>>[i]]]
      BY DEF Mapped
    <3>2. DOMAIN <<Broken>> = 1 .. 1 /\ \A i \in 1 .. 1 : <<Broken>>[i] = Broken
      OBVIOUS
    <3>3. Mapped(m, <<Broken>>) = [i \in 1 .. 1 |-> <<>>]
      BY <1>1, <3>1, <3>2
    <3>4. [i \in 1 .. 1 |-> <<>>] = <<<<>>>>
      OBVIOUS
    <3>5. QED
      BY <3>3, <3>4
  <2>3. QED
    BY <2>1, <2>2 DEF Stripped, m
<1>7. ASSUME NEW s \in Seq(D) PROVE Stripped(C, <<Broken>> \o s) = Stripped(C, s) /\ <<Broken>> \o s \in Seq(D)
  <2>1. PICK V, E, b, g : V = Seq(C) /\ E = D /\ b = <<Broken>> /\ g = m
    OBVIOUS
  <2>2. b \in Seq(E) /\ s \in Seq(E) /\ \A x \in E : g[x] \in V
    BY <1>2, <1>4, <2>1
  <2>3. Mapped(g, b) \in Seq(V) /\ Splits(g, b, s)
    BY ONLY <2>2, MappedIs
  <2>4. Mapped(g, s) \in Seq(V)
    BY ONLY <2>2, MappedIs
  <2>5. Mapped(g, b) \in Seq(Seq(C)) /\ Mapped(g, s) \in Seq(Seq(C))
    BY <2>1, <2>3, <2>4
  <2>6. FlattenSeq(Mapped(g, b) \o Mapped(g, s)) = FlattenSeq(Mapped(g, b)) \o FlattenSeq(Mapped(g, s))
    BY ONLY <2>5, FlattenConcat
  <2>7. FlattenSeq(Mapped(g, s)) \in Seq(C)
    BY ONLY <2>5, FlattenIs
  <2>8. FlattenSeq(Mapped(g, b)) = <<>> /\ FlattenSeq(Mapped(g, b \o s)) = FlattenSeq(Mapped(g, b)) \o FlattenSeq(Mapped(g, s))
    BY <1>6, <2>1, <2>3, <2>6 DEF Stripped, Splits
  <2>9. \A x \in Seq(C) : <<>> \o x = x
    OBVIOUS
  <2>10. FlattenSeq(Mapped(g, b \o s)) = FlattenSeq(Mapped(g, s))
    BY ONLY <2>7, <2>8, <2>9
  <2>11. b \o s \in Seq(E)
    BY ONLY <2>2
  <2>12. QED
    BY <2>1, <2>10, <2>11 DEF Stripped
<1>8. QED
  BY <1>2, <1>3, <1>4, <1>5, <1>6, <1>7

\* The texts of the items; the runs they become.
TextsOf(body) ==
    [k \in 1 .. Len(body.paragraphs) |-> [i \in 1 .. Len(ItemsOf(body, k)) |->
        IF ItemsOf(body, k)[i].is = "run" THEN ItemsOf(body, k)[i].text ELSE <<>>]]

RunOf(body, inherited, external, k, i) ==
    LET item == ItemsOf(body, k)[i]
    IN  [text |-> item.text, style |-> Styled(body, body.paragraphs[k], item, inherited),
         href |-> IF item.link \in external THEN item.link ELSE 0]

RunsOf(body, inherited, external) ==
    [k \in 1 .. Len(body.paragraphs) |-> [i \in 1 .. Len(ItemsOf(body, k)) |->
        IF ItemsOf(body, k)[i].is = "run" THEN <<RunOf(body, inherited, external, k, i)>> ELSE <<>>]]

AllRuns(body, inherited, external) ==
    UNION {{RunOf(body, inherited, external, k, i) : i \in 1 .. Len(ItemsOf(body, k))} :
             k \in 1 .. Len(body.paragraphs)}

LEMMA RunsAre ==
    ASSUME NEW body, NEW C, BodyOf(body, C), NEW inherited, NEW external
    PROVE  /\ Runs(body, inherited, external) = FlatTwice(RunsOf(body, inherited, external), Len(body.paragraphs))
           /\ ForItems(body, RunsOf(body, inherited, external), Seq(AllRuns(body, inherited, external)))
<1> DEFINE n == Len(body.paragraphs)
           pp == RunsOf(body, inherited, external)
           Of(p) == FlattenSeq([i \in DOMAIN p.items |->
                                  IF p.items[i].is = "run"
                                  THEN <<[text |-> p.items[i].text, style |-> Styled(body, p, p.items[i], inherited),
                                          href |-> IF p.items[i].link \in external THEN p.items[i].link ELSE 0]>>
                                  ELSE <<>>])
<1>1. Runs(body, inherited, external) = FlattenSeq([k \in DOMAIN body.paragraphs |-> Of(body.paragraphs[k])])
  BY DEF Runs
<1>2. ASSUME NEW k \in 1 .. n PROVE Of(body.paragraphs[k]) = FlattenSeq(pp[k])
  <2>1. DOMAIN ItemsOf(body, k) = 1 .. Len(ItemsOf(body, k))
    BY DEF BodyOf
  <2>2. pp[k] = [i \in 1 .. Len(ItemsOf(body, k)) |->
                   IF ItemsOf(body, k)[i].is = "run" THEN <<RunOf(body, inherited, external, k, i)>> ELSE <<>>]
    BY DEF RunsOf
  <2>3. QED
    BY <2>1, <2>2 DEF ItemsOf, RunOf
<1>3. DOMAIN body.paragraphs = 1 .. n
  BY DEF BodyOf
<1> HIDE DEF Of
<1>4. Runs(body, inherited, external) = FlatTwice(pp, n)
  <2>1. [k \in DOMAIN body.paragraphs |-> Of(body.paragraphs[k])] = [k \in 1 .. n |-> FlattenSeq(pp[k])]
    BY <1>2, <1>3
  <2>2. QED
    BY <1>1, <2>1 DEF FlatTwice
<1>5. ForItems(body, pp, Seq(AllRuns(body, inherited, external)))
  <2>1. ASSUME NEW k \in 1 .. n, NEW i \in 1 .. Len(ItemsOf(body, k))
        PROVE  pp[k][i] \in Seq(AllRuns(body, inherited, external))
    <3>1. RunOf(body, inherited, external, k, i) \in AllRuns(body, inherited, external)
      BY DEF AllRuns
    <3>2. PICK S, r : S = AllRuns(body, inherited, external) /\ r = RunOf(body, inherited, external, k, i)
      OBVIOUS
    <3>3. <<r>> \in Seq(S) /\ <<>> \in Seq(S)
      BY ONLY <3>1, <3>2
    <3>4. pp[k][i] = <<r>> \/ pp[k][i] = <<>>
      BY <3>2 DEF RunsOf
    <3>5. QED
      BY <3>2, <3>3, <3>4
  <2>2. \A k \in 1 .. n : pp[k] = [i \in 1 .. Len(ItemsOf(body, k)) |-> pp[k][i]]
    BY DEF RunsOf
  <2> HIDE DEF pp
  <2>3. QED
    BY <2>1, <2>2 DEF ForItems
<1>6. QED
  BY <1>4, <1>5

LEMMA TextsFor ==
    ASSUME NEW body, NEW C, BodyOf(body, C)
    PROVE  ForItems(body, TextsOf(body), Seq(C))
<1>1. ASSUME NEW k \in 1 .. Len(body.paragraphs), NEW i \in 1 .. Len(ItemsOf(body, k))
      PROVE  TextsOf(body)[k][i] \in Seq(C)
  <2>1. ItemsOf(body, k)[i].text \in Seq(C)
    BY DEF BodyOf
  <2>2. <<>> \in Seq(C)
    OBVIOUS
  <2>3. TextsOf(body)[k][i] \in {ItemsOf(body, k)[i].text, <<>>}
    BY DEF TextsOf
  <2>4. QED
    BY <2>1, <2>2, <2>3
<1>2. \A k \in 1 .. Len(body.paragraphs) :
         TextsOf(body)[k] = [i \in 1 .. Len(ItemsOf(body, k)) |-> TextsOf(body)[k][i]]
  BY DEF TextsOf
<1>3. QED
  BY <1>1, <1>2 DEF ForItems

(* The runs spell the texts of the items.                                  *)
LEMMA RunsSpell ==
    ASSUME NEW body, NEW C, BodyOf(body, C), NEW inherited, NEW external
    PROVE  LET runs == Runs(body, inherited, external)
           IN  FlattenSeq([i \in DOMAIN runs |-> runs[i].text]) = FlatTwice(TextsOf(body), Len(body.paragraphs))
<1> DEFINE runs == Runs(body, inherited, external)
           pp == RunsOf(body, inherited, external)
           T == AllRuns(body, inherited, external)
           m == [r \in T |-> r.text]
<1>1. runs = FlatTwice(pp, Len(body.paragraphs)) /\ ForItems(body, pp, Seq(T))
  BY RunsAre
<1>2. \A r \in T : m[r] = r.text /\ r.text \in Seq(C)
  <2>1. \A k \in 1 .. Len(body.paragraphs) : \A i \in 1 .. Len(ItemsOf(body, k)) :
           RunOf(body, inherited, external, k, i).text \in Seq(C)
    BY DEF BodyOf, RunOf
  <2>2. QED
    BY <2>1 DEF AllRuns
<1>3. ASSUME NEW k \in 1 .. Len(body.paragraphs), NEW i \in 1 .. Len(ItemsOf(body, k))
      PROVE  TextsOf(body)[k][i] = FlattenSeq(Mapped(m, pp[k][i]))
  <2> DEFINE r == RunOf(body, inherited, external, k, i)
  <2>1. r \in T /\ r.text = ItemsOf(body, k)[i].text
    BY DEF AllRuns, RunOf
  <2>2. m[r] = r.text /\ r.text \in Seq(C)
    BY <1>2, <2>1
  <2> HIDE DEF r, m
  <2>3. CASE ItemsOf(body, k)[i].is = "run"
    <3>1. pp[k][i] = <<r>> /\ TextsOf(body)[k][i] = r.text
      BY <2>1, <2>3 DEF RunsOf, TextsOf, r
    <3>2. Mapped(m, <<r>>) = <<r.text>>
      BY <2>2 DEF Mapped
    <3>3. FlattenSeq(<<r.text>>) = r.text
      BY <2>2, FlattenOne
    <3>4. QED
      BY <3>1, <3>2, <3>3
  <2>4. CASE ~ (ItemsOf(body, k)[i].is = "run")
    <3>1. pp[k][i] = <<>> /\ TextsOf(body)[k][i] = <<>>
      BY <2>4 DEF RunsOf, TextsOf
    <3>2. Mapped(m, <<>>) = <<>>
      BY DEF Mapped
    <3>3. QED
      BY <3>1, <3>2, FlattenNone
  <2>5. QED
    BY <2>3, <2>4
<1>4. ForItems(body, TextsOf(body), Seq(C))
  BY TextsFor
<1> HIDE DEF pp, T, m
<1>5. FlatTwice(pp, Len(body.paragraphs)) \in Seq(T)
      /\ FlattenSeq(Mapped(m, FlatTwice(pp, Len(body.paragraphs)))) = FlatTwice(TextsOf(body), Len(body.paragraphs))
  <2>1. \A r \in T : m[r] \in Seq(C)
    BY <1>2
  <2>2. QED
    BY <1>1, <1>3, <1>4, <2>1, TextMapped
<1>6. [i \in DOMAIN runs |-> runs[i].text] = Mapped(m, runs)
  <2>1. \A i \in DOMAIN runs : runs[i] \in T
    <3>1. runs \in Seq(T)
      BY <1>1, <1>5
    <3> HIDE DEF runs
    <3>2. QED
      BY ONLY <3>1
  <2> HIDE DEF runs
  <2>2. QED
    BY <1>2, <2>1 DEF Mapped
<1>7. QED
  BY <1>1, <1>5, <1>6

(* So does the content, its line breaks aside.                             *)
LEMMA ContentSpells ==
    ASSUME NEW body, NEW C, BodyOf(body, C)
    PROVE  Content(body) \in Seq(C \cup {Broken}) /\ Stripped(C, Content(body)) = FlatTwice(TextsOf(body), Len(body.paragraphs))
<1> DEFINE n == Len(body.paragraphs)
           text == [i \in DOMAIN body.paragraphs |-> ParagraphContent(body.paragraphs[i])]
           Begins(i) == \A j \in 1 .. i - 1 : text[j] = <<>>
           cc == [i \in DOMAIN text |-> IF text[i] = <<>> \/ Begins(i) THEN text[i] ELSE <<Broken>> \o text[i]]
           tt == [k \in 1 .. n |-> FlattenSeq(TextsOf(body)[k])]
           m == Stripping(C)
           D == C \cup {Broken}
<1>1. /\ n \in Nat /\ DOMAIN body.paragraphs = 1 .. n /\ Broken \notin C
      /\ ForItems(body, TextsOf(body), Seq(C))
  BY TextsFor DEF BodyOf
<1>2. ASSUME NEW k \in 1 .. n
      PROVE  /\ text[k] = ParagraphContent(body.paragraphs[k]) /\ text[k] \in Seq(D)
             /\ FlattenSeq(Mapped(m, text[k])) = FlattenSeq(TextsOf(body)[k])
  <2> DEFINE len == Len(ItemsOf(body, k))
             ss == [i \in 1 .. len |-> Piece(ItemsOf(body, k)[i])]
  <2>1. len \in Nat /\ DOMAIN ItemsOf(body, k) = 1 .. len /\ \A i \in 1 .. len : ItemsOf(body, k)[i].text \in Seq(C)
    BY DEF BodyOf
  <2>2. text[k] = ParagraphContent(body.paragraphs[k]) /\ ParagraphContent(body.paragraphs[k]) = FlattenSeq(ss)
    BY <1>1, <2>1 DEF ParagraphContent, ItemsOf
  <2>3. ASSUME NEW i \in 1 .. len
        PROVE  ss[i] \in Seq(D) /\ TextsOf(body)[k][i] = FlattenSeq(Mapped(m, ss[i]))
    <3>1. ss[i] = Piece(ItemsOf(body, k)[i])
      OBVIOUS
    <3>2. /\ \A s \in Seq(C) : FlattenSeq(Mapped(m, s)) = s /\ s \in Seq(D)
          /\ <<Broken>> \in Seq(D) /\ FlattenSeq(Mapped(m, <<Broken>>)) = <<>>
          /\ <<>> \in Seq(C)
      BY <1>1, StripIs DEF Stripped
    <3> DEFINE item == ItemsOf(body, k)[i]
    <3>3. item.text \in Seq(C) /\ TextsOf(body)[k][i] = IF item.is = "run" THEN item.text ELSE <<>>
      BY <2>1 DEF TextsOf
    <3> HIDE DEF item, ss, m
    <3>4. CASE item.is = "run"
      <4>1. ss[i] = item.text /\ TextsOf(body)[k][i] = item.text
        BY <3>1, <3>3, <3>4 DEF Piece, item
      <4>2. QED
        BY <3>2, <3>3, <4>1
    <3>5. CASE item.is # "run" /\ item.is = "break"
      <4>1. ss[i] = <<Broken>> /\ TextsOf(body)[k][i] = <<>>
        BY <3>1, <3>3, <3>5 DEF Piece, item
      <4>2. QED
        BY <3>2, <4>1
    <3>6. CASE item.is # "run" /\ item.is # "break"
      <4>1. ss[i] = <<>> /\ TextsOf(body)[k][i] = <<>>
        BY <3>1, <3>3, <3>6 DEF Piece, item
      <4>2. QED
        BY <3>2, <4>1
    <3>7. QED
      BY <3>4, <3>5, <3>6
  <2>4. ss \in Seq(Seq(D)) /\ Len(ss) = len
    <3>1. PICK V : V = Seq(D)
      OBVIOUS
    <3>2. ss = [i \in 1 .. len |-> ss[i]]
      OBVIOUS
    <3>3. \A i \in 1 .. len : ss[i] \in V
      BY <2>3, <3>1
    <3> HIDE DEF ss, len
    <3>4. ss \in Seq(V) /\ Len(ss) = len
      BY ONLY <2>1, <3>2, <3>3, SeqIs
    <3>5. QED
      BY <3>1, <3>4
  <2>5. TextsOf(body)[k] \in Seq(Seq(C)) /\ Len(TextsOf(body)[k]) = len
    <3>1. PICK V : V = Seq(C)
      OBVIOUS
    <3>2. ForItems(body, TextsOf(body), V)
      BY <1>1, <3>1
    <3>3. TextsOf(body)[k] \in Seq(V) /\ Len(TextsOf(body)[k]) = len
      BY <3>2, ForItemsAre
    <3>4. QED
      BY <3>1, <3>3
  <2>6. m \in [D -> Seq(C)]
    <3>1. \A c \in D : m[c] \in Seq(C)
      BY <1>1, StripIs
    <3>2. m = [c \in D |-> m[c]]
      BY DEF Stripping
    <3> HIDE DEF m, D
    <3>3. QED
      BY <3>1, <3>2
  <2>7. PICK E, g, s, t : E = D /\ g = m /\ s = ss /\ t = TextsOf(body)[k]
    OBVIOUS
  <2>8a. g \in [E -> Seq(C)]
    BY <2>6, <2>7
  <2>8b. s \in Seq(Seq(E)) /\ t \in Seq(Seq(C)) /\ Len(t) = Len(s)
    BY <2>4, <2>5, <2>7, <2>3
  <2>8c. \A i \in 1 .. Len(s) : t[i] = FlattenSeq(Mapped(g, s[i]))
    BY <2>3, <2>4, <2>7
  <2>9. FlattenSeq(Mapped(g, FlattenSeq(s))) = FlattenSeq(t)
    BY ONLY <2>8a, <2>8b, <2>8c, FlattenMapped
  <2>10. FlattenSeq(s) \in Seq(E)
    BY ONLY <2>8b, FlattenIs
  <2>11. QED
    BY <2>2, <2>7, <2>9, <2>10
<1>3. DOMAIN text = 1 .. n
  BY <1>1
<1>4. ASSUME NEW k \in 1 .. n PROVE cc[k] \in Seq(D) /\ tt[k] = FlattenSeq(Mapped(m, cc[k]))
  <2>1. cc[k] = text[k] \/ cc[k] = <<Broken>> \o text[k]
    BY <1>3
  <2>2. \A s \in Seq(D) : FlattenSeq(Mapped(m, <<Broken>> \o s)) = FlattenSeq(Mapped(m, s)) /\ <<Broken>> \o s \in Seq(D)
    BY <1>1, StripIs DEF Stripped
  <2>3. tt[k] = FlattenSeq(TextsOf(body)[k])
    OBVIOUS
  <2> HIDE DEF cc, text, tt, m, D
  <2>4. QED
    BY <1>2, <2>1, <2>2, <2>3
<1>5. cc \in Seq(Seq(D)) /\ Len(cc) = n
  <2>1. PICK V : V = Seq(D)
    OBVIOUS
  <2>2. cc = [k \in 1 .. n |-> cc[k]]
    BY <1>3
  <2>3. \A k \in 1 .. n : cc[k] \in V
    BY <1>4, <2>1
  <2> HIDE DEF cc, n
  <2>4. cc \in Seq(V) /\ Len(cc) = n
    BY ONLY <1>1, <2>2, <2>3, SeqIs
  <2>5. QED
    BY <2>1, <2>4
<1>6. tt \in Seq(Seq(C)) /\ Len(tt) = n
  <2>1. PICK V : V = Seq(C)
    OBVIOUS
  <2>2. tt = [k \in 1 .. n |-> tt[k]]
    OBVIOUS
  <2>3. \A k \in 1 .. n : tt[k] \in V
    <3> TAKE k \in 1 .. n
    <3>1. tt[k] = FlattenSeq(Mapped(m, text[k]))
      BY <1>2
    <3>2. ForItems(body, TextsOf(body), V)
      BY <1>1, <2>1
    <3>3. TextsOf(body)[k] \in Seq(V)
      BY <3>2, ForItemsAre
    <3>4. TextsOf(body)[k] \in Seq(Seq(C))
      BY <2>1, <3>3
    <3>5. FlattenSeq(TextsOf(body)[k]) \in Seq(C)
      BY ONLY <3>4, FlattenIs
    <3>6. QED
      BY <2>1, <3>5
  <2> HIDE DEF tt, n
  <2>4. tt \in Seq(V) /\ Len(tt) = n
    BY ONLY <1>1, <2>2, <2>3, SeqIs
  <2>5. QED
    BY <2>1, <2>4
<1>7. m \in [D -> Seq(C)]
  <2>1. \A c \in D : m[c] \in Seq(C)
    BY <1>1, StripIs
  <2>2. m = [c \in D |-> m[c]]
    BY DEF Stripping
  <2> HIDE DEF m, D
  <2>3. QED
    BY <2>1, <2>2
<1>8. Content(body) = FlattenSeq(cc)
  BY DEF Content
<1> HIDE DEF cc, tt, m, n
<1>9. PICK E, g, s, t : E = D /\ g = m /\ s = cc /\ t = tt
  OBVIOUS
<1>10a. g \in [E -> Seq(C)]
  BY <1>7, <1>9
<1>10b. s \in Seq(Seq(E)) /\ t \in Seq(Seq(C)) /\ Len(t) = Len(s)
  BY <1>5, <1>6, <1>9
<1>10c. \A i \in 1 .. Len(s) : t[i] = FlattenSeq(Mapped(g, s[i]))
  BY <1>4, <1>5, <1>6, <1>9
<1>11. FlattenSeq(Mapped(g, FlattenSeq(s))) = FlattenSeq(t)
  BY ONLY <1>10a, <1>10b, <1>10c, FlattenMapped
<1>12. FlattenSeq(s) \in Seq(E)
  BY ONLY <1>10b, FlattenIs
<1>13. QED
  BY <1>8, <1>9, <1>11, <1>12 DEF Stripped, FlatTwice, m, tt, n

(* The links of the items; what the code finds of them is all of these.    *)
LinksOf(body, external) ==
    [k \in 1 .. Len(body.paragraphs) |-> [i \in 1 .. Len(ItemsOf(body, k)) |->
        IF ItemsOf(body, k)[i].link \in external THEN <<ItemsOf(body, k)[i].link>> ELSE <<>>]]

LEMMA LinksAre ==
    ASSUME NEW body, NEW C, BodyOf(body, C), NEW external
    PROVE  /\ Links(body, external) = FlatTwice(LinksOf(body, external), Len(body.paragraphs))
           /\ ForItems(body, LinksOf(body, external), Seq(external))
<1> DEFINE n == Len(body.paragraphs)
           pp == LinksOf(body, external)
           Of(p) == FlattenSeq([i \in DOMAIN p.items |->
                                  IF p.items[i].link \in external THEN <<p.items[i].link>> ELSE <<>>])
<1>1. Links(body, external) = FlattenSeq([k \in DOMAIN body.paragraphs |-> Of(body.paragraphs[k])])
  BY DEF Links
<1>2. ASSUME NEW k \in 1 .. n PROVE Of(body.paragraphs[k]) = FlattenSeq(pp[k])
  <2>1. DOMAIN ItemsOf(body, k) = 1 .. Len(ItemsOf(body, k))
    BY DEF BodyOf
  <2>2. pp[k] = [i \in 1 .. Len(ItemsOf(body, k)) |->
                   IF ItemsOf(body, k)[i].link \in external THEN <<ItemsOf(body, k)[i].link>> ELSE <<>>]
    BY DEF LinksOf
  <2>3. QED
    BY <2>1, <2>2 DEF ItemsOf
<1>3. DOMAIN body.paragraphs = 1 .. n
  BY DEF BodyOf
<1> HIDE DEF Of
<1>4. Links(body, external) = FlatTwice(pp, n)
  <2>1. [k \in DOMAIN body.paragraphs |-> Of(body.paragraphs[k])] = [k \in 1 .. n |-> FlattenSeq(pp[k])]
    BY <1>2, <1>3
  <2>2. QED
    BY <1>1, <2>1 DEF FlatTwice
<1>5. ForItems(body, pp, Seq(external))
  <2>1. ASSUME NEW k \in 1 .. n, NEW i \in 1 .. Len(ItemsOf(body, k)) PROVE pp[k][i] \in Seq(external)
    <3>1. PICK l : l = ItemsOf(body, k)[i].link
      OBVIOUS
    <3>2. pp[k][i] = IF l \in external THEN <<l>> ELSE <<>>
      BY <3>1 DEF LinksOf
    <3> HIDE DEF pp
    <3>3. QED
      BY ONLY <3>2
  <2>2. \A k \in 1 .. n : pp[k] = [i \in 1 .. Len(ItemsOf(body, k)) |-> pp[k][i]]
    BY DEF LinksOf
  <2> HIDE DEF pp
  <2>3. QED
    BY <2>1, <2>2 DEF ForItems
<1>6. QED
  BY <1>4, <1>5

(* When only runs carry links, the links of the runs are those.            *)
LEMMA LinksAgree ==
    ASSUME NEW body, NEW C, BodyOf(body, C), NEW inherited, NEW external, 0 \notin external,
           \A k \in 1 .. Len(body.paragraphs) : \A i \in 1 .. Len(ItemsOf(body, k)) :
              ItemsOf(body, k)[i].link # 0 => ItemsOf(body, k)[i].is = "run"
    PROVE  LET runs == Runs(body, inherited, external)
           IN  Links(body, external)
                 = FlattenSeq([i \in DOMAIN runs |-> IF runs[i].href = 0 THEN <<>> ELSE <<runs[i].href>>])
<1> DEFINE runs == Runs(body, inherited, external)
           pp == RunsOf(body, inherited, external)
           qq == LinksOf(body, external)
           T == AllRuns(body, inherited, external)
           m == [r \in T |-> IF r.href = 0 THEN <<>> ELSE <<r.href>>]
<1>1. runs = FlatTwice(pp, Len(body.paragraphs)) /\ ForItems(body, pp, Seq(T))
  BY RunsAre
<1>2. \A r \in T : m[r] = (IF r.href = 0 THEN <<>> ELSE <<r.href>>) /\ (r.href = 0 \/ r.href \in external)
  <2>1. \A k \in 1 .. Len(body.paragraphs) : \A i \in 1 .. Len(ItemsOf(body, k)) :
           RunOf(body, inherited, external, k, i).href \in external \cup {0}
    BY DEF RunOf
  <2>2. QED
    BY <2>1 DEF AllRuns
<1>3. ASSUME NEW k \in 1 .. Len(body.paragraphs), NEW i \in 1 .. Len(ItemsOf(body, k))
      PROVE  qq[k][i] = FlattenSeq(Mapped(m, pp[k][i]))
  <2>0. PICK r, l : r = RunOf(body, inherited, external, k, i) /\ l = ItemsOf(body, k)[i].link
    OBVIOUS
  <2>1. r \in T /\ r.href = IF l \in external THEN l ELSE 0
    BY <2>0 DEF AllRuns, RunOf
  <2>2. m[r] = IF r.href = 0 THEN <<>> ELSE <<r.href>>
    BY <1>2, <2>1
  <2>3. qq[k][i] = IF l \in external THEN <<l>> ELSE <<>>
    BY <2>0 DEF LinksOf
  <2>4. pp[k][i] = IF ItemsOf(body, k)[i].is = "run" THEN <<r>> ELSE <<>>
    BY <2>0 DEF RunsOf
  <2>5. l # 0 => ItemsOf(body, k)[i].is = "run"
    BY <2>0
  <2> HIDE DEF m, pp, qq, T
  <2>6. m[r] = qq[k][i]
    BY <2>1, <2>2, <2>3
  <2>7. CASE ItemsOf(body, k)[i].is = "run"
    <3>1. Mapped(m, <<r>>) = <<qq[k][i]>>
      BY <2>6 DEF Mapped
    <3>2. PICK s : s = qq[k][i]
      OBVIOUS
    <3>3. s \in Seq(external)
      BY ONLY <2>3, <3>2
    <3>4. FlattenSeq(<<s>>) = s
      BY <3>3, FlattenOne
    <3>5. QED
      BY <2>4, <2>7, <3>1, <3>2, <3>4
  <2>8. CASE ~ (ItemsOf(body, k)[i].is = "run")
    <3>1. pp[k][i] = <<>> /\ qq[k][i] = <<>>
      BY <2>3, <2>4, <2>5, <2>8
    <3>2. Mapped(m, <<>>) = <<>>
      BY DEF Mapped
    <3>3. QED
      BY <3>1, <3>2, FlattenNone
  <2>9. QED
    BY <2>7, <2>8
<1>4. Links(body, external) = FlatTwice(qq, Len(body.paragraphs)) /\ ForItems(body, qq, Seq(external))
  BY LinksAre
<1>5. \A r \in T : m[r] \in Seq(external)
  <2> TAKE r \in T
  <2>1. PICK h : h = r.href
    OBVIOUS
  <2>2. m[r] = IF h = 0 THEN <<>> ELSE <<h>>
    BY <1>2, <2>1
  <2>3. h = 0 \/ h \in external
    BY <1>2, <2>1
  <2> HIDE DEF m
  <2>4. QED
    BY ONLY <2>2, <2>3
<1> HIDE DEF pp, qq, T, m
<1>6. FlatTwice(pp, Len(body.paragraphs)) \in Seq(T)
      /\ FlattenSeq(Mapped(m, FlatTwice(pp, Len(body.paragraphs)))) = FlatTwice(qq, Len(body.paragraphs))
  BY <1>1, <1>3, <1>4, <1>5, TextMapped
<1>7. [i \in DOMAIN runs |-> IF runs[i].href = 0 THEN <<>> ELSE <<runs[i].href>>] = Mapped(m, runs)
  <2>1. \A i \in DOMAIN runs : runs[i] \in T
    <3>1. runs \in Seq(T)
      BY <1>1, <1>6
    <3> HIDE DEF runs
    <3>2. QED
      BY ONLY <3>1
  <2> HIDE DEF runs
  <2>2. QED
    BY <1>2, <2>1 DEF Mapped
<1>8. QED
  BY <1>1, <1>4, <1>6, <1>7

(* The least of a set of numbers is the one no smaller than which is.      *)
LEMMA MinOf ==
    ASSUME NEW S \in SUBSET Nat, NEW i \in S, \A h \in S : i <= h
    PROVE  Min(S) = i
<1>1. Min(S) \in S /\ \A y \in S : Min(S) <= y
  BY MinIsLeast
<1>2. Min(S) <= i /\ i <= Min(S) /\ Min(S) \in Nat /\ i \in Nat
  BY <1>1
<1>3. QED
  BY <1>2

(* The style of a shape's text is that of the first run one can read.      *)
LEMMA SummaryAgrees ==
    ASSUME NEW body, NEW C, BodyOf(body, C), NEW inherited, NEW external,
           NEW v \in 1 .. Len(Runs(body, inherited, external)),
           Runs(body, inherited, external)[v].text # <<>>,
           \A w \in 1 .. v - 1 : Runs(body, inherited, external)[w].text = <<>>, TextInRuns(body)
    PROVE  Summary(body, inherited) = Runs(body, inherited, external)[v].style
<1> DEFINE runs == Runs(body, inherited, external)
           pp == RunsOf(body, inherited, external)
           T == AllRuns(body, inherited, external)
           n == Len(body.paragraphs)
           len(k) == Len(ItemsOf(body, k))
           G == {r \in T : r.text # <<>>}
           run(k, i) == RunOf(body, inherited, external, k, i)
<1>1. runs = FlatTwice(pp, n) /\ ForItems(body, pp, Seq(T))
  BY RunsAre
<1>2. n \in Nat /\ DOMAIN body.paragraphs = 1 .. n
      /\ \A k \in 1 .. n : len(k) \in Nat /\ DOMAIN ItemsOf(body, k) = 1 .. len(k)
  BY DEF BodyOf
<1>3. ASSUME NEW k \in 1 .. n, NEW i \in 1 .. len(k)
      PROVE  /\ run(k, i) \in T /\ pp[k][i] = IF ItemsOf(body, k)[i].is = "run" THEN <<run(k, i)>> ELSE <<>>
             /\ run(k, i).text = ItemsOf(body, k)[i].text
             /\ run(k, i).style = Styled(body, body.paragraphs[k], ItemsOf(body, k)[i], inherited)
  BY DEF AllRuns, RunOf, RunsOf
<1>4. ASSUME NEW k \in 1 .. n
      PROVE  /\ FlattenSeq(pp[k]) \in Seq(T) /\ Len(pp[k]) = len(k)
             /\ \E at : Laid(at, pp[k], len(k), FlattenSeq(pp[k]))
  <2>1. PICK V : V = Seq(T)
    OBVIOUS
  <2>2. pp[k] \in Seq(V) /\ Len(pp[k]) = len(k)
    BY <1>1, <2>1, ForItemsAre
  <2>3. PICK s : s = pp[k]
    OBVIOUS
  <2>4. s \in Seq(Seq(T)) /\ Len(s) = len(k)
    BY <2>1, <2>2, <2>3
  <2>5. FlattenSeq(s) \in Seq(T) /\ \E at : Laid(at, s, Len(s), FlattenSeq(s))
    BY ONLY <2>4, FlattenPlaces
  <2>6. QED
    BY <2>3, <2>4, <2>5
<1> DEFINE ss == [k \in 1 .. n |-> FlattenSeq(pp[k])]
<1>5. \E at : Laid(at, ss, n, runs)
  <2>1. PICK V : V = Seq(T)
    OBVIOUS
  <2>2. ss = [k \in 1 .. n |-> ss[k]] /\ \A k \in 1 .. n : ss[k] \in V
    BY <1>4, <2>1
  <2>3. runs = FlattenSeq(ss)
    BY <1>1 DEF FlatTwice
  <2> HIDE DEF ss, runs, n
  <2>4. ss \in Seq(V) /\ Len(ss) = n
    BY ONLY <1>2, <2>2, SeqIs
  <2>5. PICK s : s = ss
    OBVIOUS
  <2>6. s \in Seq(Seq(T)) /\ Len(s) = n
    BY <2>1, <2>4, <2>5
  <2>7. \E at : Laid(at, s, Len(s), FlattenSeq(s))
    BY ONLY <2>6, FlattenPlaces
  <2>8. QED
    BY <2>3, <2>5, <2>6, <2>7
<1>6. PICK at : Laid(at, ss, n, runs)
  BY <1>5
<1>7. \A k \in 1 .. n : Len(ss[k]) \in Nat /\ ss[k] = FlattenSeq(pp[k])
  BY <1>4
<1>8. \A w \in 1 .. Len(runs) : runs[w] \in T
  <2>1. runs \in Seq(T)
    <3>1. PICK V : V = Seq(T)
      OBVIOUS
    <3>2. ss = [k \in 1 .. n |-> ss[k]] /\ \A k \in 1 .. n : ss[k] \in V
      BY <1>4, <3>1
    <3>3. runs = FlattenSeq(ss)
      BY <1>1 DEF FlatTwice
    <3> HIDE DEF ss, runs, n
    <3>4. ss \in Seq(V)
      BY ONLY <1>2, <3>2, SeqIs
    <3>5. PICK s : s = ss
      OBVIOUS
    <3>6. s \in Seq(Seq(T))
      BY <3>1, <3>4, <3>5
    <3>7. FlattenSeq(s) \in Seq(T)
      BY ONLY <3>6, FlattenPlaces
    <3>8. QED
      BY <3>3, <3>5, <3>7
  <2> HIDE DEF runs, T
  <2>2. QED
    BY ONLY <2>1
<1>9. runs[v] \in G /\ v \in 1 .. Len(runs) /\ \A w \in 1 .. v - 1 : runs[w] \notin G
  BY <1>8
<1> HIDE DEF ss, G
<1>10. PICK k \in 1 .. n : \E l \in 1 .. Len(ss[k]) :
          /\ ss[k][l] = runs[v]
          /\ \A h \in 1 .. l - 1 : ss[k][h] \notin G
          /\ \A h \in 1 .. k - 1 : \A j \in 1 .. Len(ss[h]) : ss[h][j] \notin G
  <2>1. PICK o, s, q, x, g : o = at /\ s = ss /\ q = runs /\ x = n /\ g = G
    OBVIOUS
  <2>2. x \in Nat
    BY <1>2, <2>1
  <2>3. Laid(o, s, x, q)
    BY <1>6, <2>1
  <2>4. \A i \in 1 .. x : Len(s[i]) \in Nat
    BY <1>7, <2>1
  <2>5. v \in 1 .. Len(q)
    BY <2>1
  <2>6. q[v] \in g
    BY <1>9, <2>1
  <2>7. \A w \in 1 .. v - 1 : q[w] \notin g
    BY <1>9, <2>1
  <2>8. FirstIn(s, x, g, q[v])
    BY ONLY <2>2, <2>3, <2>4, <2>5, <2>6, <2>7, LaidFirst
  <2>9. QED
    BY <2>1, <2>8 DEF FirstIn
<1>11. PICK l \in 1 .. Len(ss[k]) :
          /\ ss[k][l] = runs[v]
          /\ \A h \in 1 .. l - 1 : ss[k][h] \notin G
          /\ \A h \in 1 .. k - 1 : \A j \in 1 .. Len(ss[h]) : ss[h][j] \notin G
  BY <1>10
<1>12. PICK on : Laid(on, pp[k], len(k), FlattenSeq(pp[k]))
  BY <1>4
<1>13. \A i \in 1 .. len(k) : Len(pp[k][i]) \in Nat
  BY <1>3
<1>14. \E i \in 1 .. len(k) : \E j \in 1 .. Len(pp[k][i]) :
          /\ pp[k][i][j] = runs[v]
          /\ \A h \in 1 .. i - 1 : \A j2 \in 1 .. Len(pp[k][h]) : pp[k][h][j2] \notin G
  <2>1. PICK s, q, x, g, z : s = pp[k] /\ q = FlattenSeq(pp[k]) /\ x = len(k) /\ g = G /\ z = l
    OBVIOUS
  <2>2. x \in Nat
    BY <1>2, <2>1
  <2>2a. Laid(on, s, x, q)
    BY <1>12, <2>1
  <2>2b. \A i \in 1 .. x : Len(s[i]) \in Nat
    BY <1>13, <2>1
  <2>3. z \in 1 .. Len(q)
    BY <1>7, <1>11, <2>1
  <2>3c. q[z] = runs[v]
    BY <1>7, <1>11, <2>1
  <2>3a. q[z] \in g
    BY <1>9, <2>1, <2>3c
  <2>3b. \A w \in 1 .. z - 1 : q[w] \notin g
    BY <1>7, <1>11, <2>1
  <2>4. FirstIn(s, x, g, q[z])
    BY ONLY <2>2, <2>2a, <2>2b, <2>3, <2>3a, <2>3b, LaidFirst
  <2>5. QED
    BY <2>1, <2>3c, <2>4 DEF FirstIn
<1>15. PICK i \in 1 .. len(k) : \E j \in 1 .. Len(pp[k][i]) :
          /\ pp[k][i][j] = runs[v]
          /\ \A h \in 1 .. i - 1 : \A j2 \in 1 .. Len(pp[k][h]) : pp[k][h][j2] \notin G
  BY <1>14
<1>16. runs[v] = run(k, i) /\ ItemsOf(body, k)[i].is = "run"
  <2>1. pp[k][i] = IF ItemsOf(body, k)[i].is = "run" THEN <<run(k, i)>> ELSE <<>>
    BY <1>3
  <2>2. PICK j \in 1 .. Len(pp[k][i]) : pp[k][i][j] = runs[v]
    BY <1>15
  <2> HIDE DEF pp, run, runs
  <2>3. QED
    BY <2>1, <2>2
<1>17. Textual(ItemsOf(body, k)[i])
  BY <1>3, <1>9, <1>16 DEF G, Textual
<1>17a. \A h \in 1 .. n : HasText(body.paragraphs[h]) <=> \E j \in 1 .. len(h) : Textual(ItemsOf(body, h)[j])
  <2>1. \A h \in 1 .. n : body.paragraphs[h] \in Range(body.paragraphs)
    BY <1>2 DEF Range
  <2>2. QED
    BY <1>2, <2>1 DEF TextInRuns, HasText, Textual, ItemsOf
<1>18. \A h \in 1 .. n : \A j \in 1 .. len(h) : Textual(ItemsOf(body, h)[j]) => pp[h][j] = <<run(h, j)>> /\ run(h, j) \in G
  BY <1>3 DEF G, Textual
<1>19. \A h \in 1 .. i - 1 : ~ Textual(ItemsOf(body, k)[h])
  <2> SUFFICES ASSUME NEW h \in 1 .. i - 1, Textual(ItemsOf(body, k)[h]) PROVE FALSE
    OBVIOUS
  <2>1. h \in 1 .. len(k)
    BY <1>2
  <2>2. pp[k][h] = <<run(k, h)>> /\ run(k, h) \in G
    BY <1>18, <2>1
  <2>3. \A j2 \in 1 .. Len(pp[k][h]) : pp[k][h][j2] \notin G
    BY <1>15
  <2> HIDE DEF pp, run
  <2>4. QED
    BY <2>2, <2>3
<1>20. ASSUME NEW h \in 1 .. k - 1, NEW j \in 1 .. len(h), Textual(ItemsOf(body, h)[j]) PROVE FALSE
  <2>1. h \in 1 .. n
    BY <1>2
  <2>2. pp[h][j] = <<run(h, j)>> /\ run(h, j) \in G
    BY <1>18, <1>20, <2>1
  <2>3. PICK o : Laid(o, pp[h], len(h), FlattenSeq(pp[h]))
    BY <1>4, <2>1
  <2>4. ss[h] = FlattenSeq(pp[h])
    BY <1>7, <2>1
  <2> HIDE DEF pp, run
  <2>5. 1 \in 1 .. Len(pp[h][j]) /\ pp[h][j][1] = run(h, j)
    BY <2>2
  <2>6. o[j - 1] + 1 \in 1 .. Len(ss[h]) /\ ss[h][o[j - 1] + 1] = run(h, j)
    BY <2>3, <2>4, <2>5 DEF Laid
  <2>7. QED
    BY <1>11, <2>2, <2>6
<1> DEFINE found == SelectInSeq(body.paragraphs, HasText)
           item == SelectInSeq(body.paragraphs[k].items, Textual)
<1>21. found = k
  <2> DEFINE S == {x \in 1 .. n : \E y \in 1 .. len(x) : Textual(ItemsOf(body, x)[y])}
  <2>1. S \in SUBSET Nat /\ k \in S /\ \A h \in S : k <= h
    <3>1. k \in S /\ S \in SUBSET Nat
      BY <1>17
    <3>2. \A h \in S : ~ (h \in 1 .. k - 1)
      BY <1>20
    <3> HIDE DEF S
    <3>3. \A h \in S : h \in Nat /\ ~ (h \in 1 .. k - 1) /\ h # 0
      <4>1. \A h \in S : h \in 1 .. n
        BY DEF S
      <4>2. QED
        BY <1>2, <3>2, <4>1
    <3>4. QED
      BY <1>2, <3>1, <3>3
  <2>2. {x \in 1 .. Len(body.paragraphs) : HasText(body.paragraphs[x])} = S
    BY <1>17a
  <2>3. S # {}
    BY <2>1
  <2>4. found = Min(S)
    BY <2>2, <2>3 DEF SelectInSeq
  <2> HIDE DEF S, found
  <2>5. QED
    BY <2>1, <2>4, MinOf
<1>22. item = i
  <2> DEFINE S == {x \in 1 .. len(k) : Textual(ItemsOf(body, k)[x])}
  <2>1. S \in SUBSET Nat /\ i \in S /\ \A h \in S : i <= h
    <3>1. i \in S /\ S \in SUBSET Nat
      BY <1>17
    <3>2. \A h \in S : ~ (h \in 1 .. i - 1)
      BY <1>19
    <3>3. QED
      BY <1>2, <3>1, <3>2
  <2>2. {x \in 1 .. Len(body.paragraphs[k].items) : Textual(body.paragraphs[k].items[x])} = S
    BY DEF ItemsOf
  <2>3. S # {}
    BY <2>1
  <2>4. item = Min(S)
    BY <2>2, <2>3 DEF SelectInSeq
  <2> HIDE DEF S, item
  <2>5. QED
    BY <2>1, <2>4, MinOf
<1>23. Summary(body, inherited) = Styled(body, body.paragraphs[k], body.paragraphs[k].items[i], inherited)
  <2>1. k # 0 /\ i # 0
    BY <1>2
  <2> HIDE DEF found, item
  <2>2. Summary(body, inherited)
          = IF found = 0 THEN Combined(inherited)
            ELSE IF SelectInSeq(body.paragraphs[found].items, Textual) = 0
            THEN Combined(<<ParagraphStyle(body, body.paragraphs[found])>> \o inherited)
            ELSE Styled(body, body.paragraphs[found],
                        body.paragraphs[found].items[SelectInSeq(body.paragraphs[found].items, Textual)], inherited)
    BY DEF Summary, found
  <2>3. QED
    BY <1>21, <1>22, <2>1, <2>2 DEF item
<1>24. QED
  BY <1>3, <1>16, <1>23 DEF ItemsOf

(* The runs of every text spell its content, its one style is that of the  *)
(* first run one can read where text is in runs, and its links are those   *)
(* of the runs where only they have links.                                 *)
THEOREM TextHolds ==
    ASSUME NEW body, IsBody(body), NEW inherited, NEW external, 0 \notin external
    PROVE  TextConsistent(body, inherited, external)
<1> DEFINE runs == Runs(body, inherited, external)
           content == Content(body)
<1>1. PICK C : BodyOf(body, C)
  BY BodyIs
<1>2. FlattenSeq([i \in DOMAIN runs |-> runs[i].text])
        = FlattenSeq([i \in DOMAIN content |-> IF content[i] = Broken THEN <<>> ELSE <<content[i]>>])
  <2>1. content \in Seq(C \cup {Broken}) /\ Stripped(C, content) = FlatTwice(TextsOf(body), Len(body.paragraphs))
    BY <1>1, ContentSpells
  <2>2. Mapped(Stripping(C), content) = [i \in DOMAIN content |-> IF content[i] = Broken THEN <<>> ELSE <<content[i]>>]
    <3> HIDE DEF content
    <3>1. \A i \in DOMAIN content : content[i] \in C \cup {Broken}
      BY <2>1
    <3>2. QED
      BY <3>1 DEF Mapped, Stripping
  <2>3. QED
    BY <1>1, <2>1, <2>2, RunsSpell DEF Stripped
<1>3. ASSUME SelectInSeq(runs, LAMBDA r : r.text # <<>>) # 0, TextInRuns(body)
      PROVE  Summary(body, inherited) = runs[SelectInSeq(runs, LAMBDA r : r.text # <<>>)].style
  <2> DEFINE v == SelectInSeq(runs, LAMBDA r : r.text # <<>>)
             S == {w \in 1 .. Len(runs) : runs[w].text # <<>>}
  <2>1. S # {} /\ v = Min(S)
    BY <1>3 DEF SelectInSeq
  <2>2. S \in SUBSET Nat
    OBVIOUS
  <2>3. v \in S /\ \A w \in S : v <= w
    <3> HIDE DEF S, v
    <3>1. QED
      BY <2>1, <2>2, MinIsLeast
  <2>4. v \in 1 .. Len(runs) /\ runs[v].text # <<>> /\ \A w \in 1 .. v - 1 : runs[w].text = <<>>
    <3>1. v \in 1 .. Len(runs) /\ runs[v].text # <<>>
      BY <2>3
    <3>2. \A w \in S : v <= w
      BY <2>3
    <3> HIDE DEF v, runs
    <3>3. Len(runs) \in Nat \/ 1 .. Len(runs) \subseteq Int
      OBVIOUS
    <3>4. ASSUME NEW w \in 1 .. v - 1, runs[w].text # <<>> PROVE FALSE
      <4>1. w \in 1 .. Len(runs) /\ ~ (v <= w)
        BY <3>1, <3>3
      <4>2. QED
        BY <3>2, <3>4, <4>1
    <3>5. QED
      BY <3>1, <3>4
  <2> HIDE DEF v, S
  <2>5. Summary(body, inherited) = runs[v].style
    BY <1>1, <1>3, <2>4, SummaryAgrees
  <2>6. QED
    BY <2>5 DEF v
<1>4. ASSUME \A k \in DOMAIN body.paragraphs : \A i \in DOMAIN body.paragraphs[k].items :
               body.paragraphs[k].items[i].link # 0 => body.paragraphs[k].items[i].is = "run"
      PROVE  Links(body, external)
               = FlattenSeq([i \in DOMAIN runs |-> IF runs[i].href = 0 THEN <<>> ELSE <<runs[i].href>>])
  <2>1. \A k \in 1 .. Len(body.paragraphs) : \A i \in 1 .. Len(ItemsOf(body, k)) :
           ItemsOf(body, k)[i].link # 0 => ItemsOf(body, k)[i].is = "run"
    BY <1>1, <1>4 DEF BodyOf, ItemsOf
  <2>2. QED
    BY <1>1, <2>1, LinksAgree
<1>5. QED
  BY <1>2, <1>3, <1>4 DEF TextConsistent

(***************************************************************************)
(* The points of a chart, in the order of their index.                     *)
(***************************************************************************)
(* How many of a set of numbers are below another.                         *)
Below(S, k) == {j \in S : j < k}

LEMMA BelowIs ==
    ASSUME NEW S, \A j \in S : j \in Nat, NEW k \in Nat
    PROVE  /\ IsFiniteSet(Below(S, k)) /\ Cardinality(Below(S, k)) \in Nat /\ Cardinality(Below(S, 0)) = 0
           /\ Cardinality(Below(S, k + 1))
                = IF k \in S THEN Cardinality(Below(S, k)) + 1 ELSE Cardinality(Below(S, k))
<1>0. \A j \in S : j \in Nat
  OBVIOUS
<1>1. IsFiniteSet(Below(S, k))
  <2>1. Below(S, k) \in SUBSET Nat /\ \A s \in Below(S, k) : s <= k
    BY <1>0 DEF Below
  <2>2. QED
    BY <2>1, FS_BoundedSetOfNaturals
<1>2. Cardinality(Below(S, k)) \in Nat
  BY <1>1, FS_CardinalityType
<1>3. Below(S, 0) = {}
  BY <1>0 DEF Below
<1>4. CASE k \in S
  <2>1. k \notin Below(S, k) /\ Below(S, k + 1) = IF k \in S THEN Below(S, k) \cup {k} ELSE Below(S, k)
    <3>1. k \notin Below(S, k)
      BY DEF Below
    <3>2. Below(S, k + 1) = IF k \in S THEN Below(S, k) \cup {k} ELSE Below(S, k)
      BY <1>0 DEF Below
    <3>3. QED
      BY <3>1, <3>2
  <2>2. Cardinality(Below(S, k) \cup {k}) = Cardinality(Below(S, k)) + 1
    BY <1>1, <2>1, FS_AddElement
  <2>3. QED
    BY <1>1, <1>2, <1>3, <1>4, <2>1, <2>2, FS_EmptySet
<1>5. CASE k \notin S
  <2>1. Below(S, k + 1) = Below(S, k)
    BY <1>0, <1>5 DEF Below
  <2>2. QED
    BY <1>1, <1>2, <1>3, <1>5, <2>1, FS_EmptySet
<1>6. QED
  BY <1>4, <1>5

(* Finitely many numbers have a greatest one.                              *)
LEMMA MaxIsGreatest ==
    ASSUME NEW S, \A j \in S : j \in Nat, S # {}, IsFiniteSet(S)
    PROVE  Max(S) \in S /\ \A y \in S : y <= Max(S)
<1>0. \A j \in S : j \in Nat
  OBVIOUS
<1> DEFINE n == Cardinality(S)
<1>1. n \in Nat /\ ExistsBijection(1 .. n, S)
  BY FS_CardinalityType
<1>2. PICK f : f \in Bijection(1 .. n, S)
  BY <1>1 DEF ExistsBijection
<1>3. f \in [1 .. n -> S] /\ \A y \in S : \E i \in 1 .. n : f[i] = y
  BY <1>2 DEF Bijection, Surjection, Injection
<1> HIDE DEF n
<1> DEFINE K == {k \in 0 .. n : \E b \in Nat : \A i \in 1 .. k : f[i] <= b}
<1>4. \A k \in 0 .. n : k \in K
  <2>1. 0 \in K
    BY <1>1
  <2>2. ASSUME NEW k \in 1 .. n, k - 1 \in K PROVE k \in K
    <3>1. PICK b \in Nat : \A i \in 1 .. k - 1 : f[i] <= b
      BY <2>2
    <3>2. f[k] \in Nat
      BY <1>3
    <3>3. PICK c \in Nat : c >= b /\ c >= f[k]
      <4>1. CASE f[k] <= b
        BY <4>1
      <4>2. CASE ~ (f[k] <= b)
        BY <3>2, <4>2
      <4>3. QED
        BY <4>1, <4>2
    <3>4. \A i \in 1 .. k : f[i] <= c
      <4> TAKE i \in 1 .. k
      <4>1. f[i] \in Nat
        BY <1>0, <1>1, <1>3
      <4>2. i = k \/ i \in 1 .. k - 1
        OBVIOUS
      <4>3. QED
        BY <3>1, <3>2, <3>3, <4>1, <4>2
    <3>5. k \in 0 .. n
      OBVIOUS
    <3>6. QED
      BY <3>4, <3>5
  <2> HIDE DEF K
  <2>3. QED
    BY <1>1, <2>1, <2>2, ByCounting
<1>5. PICK b \in Nat : \A i \in 1 .. n : f[i] <= b
  <2>1. n \in K
    <3> HIDE DEF K
    <3>1. n \in 0 .. n
      BY <1>1
    <3>2. QED
      BY <1>4, <3>1
  <2>2. QED
    BY <2>1
<1> DEFINE B == {c \in Nat : \A y \in S : y <= c}
<1>6. B # {} /\ B \in SUBSET Nat
  BY <1>3, <1>5
<1>7. PICK c \in B : \A d \in B : c <= d
  <2> HIDE DEF B
  <2>1. QED
    BY <1>6, LeastOne
<1>8. c \in S
  <2>1. SUFFICES ASSUME c \notin S PROVE FALSE
    OBVIOUS
  <2>2. \A y \in S : y \in Nat /\ y <= c /\ y # c
    BY <1>7, <2>1
  <2>3. c \in Nat /\ c # 0
    BY <1>0, <1>7, <2>2
  <2>4. c - 1 \in B
    BY <2>2, <2>3
  <2>5. QED
    BY <1>7, <2>3, <2>4
<1>9. \A y \in S : y <= c
  BY <1>7
<1>10. \E x \in S : \A y \in S : x >= y
  BY <1>8, <1>9
<1>11. Max(S) \in S /\ \A y \in S : Max(S) >= y
  BY <1>10 DEF Max
<1>12. QED
  BY <1>11

(* Ordered has each of them once, in their order.                          *)
LEMMA OrderedIs ==
    ASSUME NEW S, \A j \in S : j \in Nat, IsFiniteSet(S)
    PROVE  /\ Ordered(S) \in Seq(S) /\ Len(Ordered(S)) = Cardinality(S) /\ Cardinality(S) \in Nat
           /\ \A i \in S : /\ Cardinality(Below(S, i)) + 1 \in 1 .. Cardinality(S)
                            /\ Ordered(S)[Cardinality(Below(S, i)) + 1] = i
<1>0. Cardinality(S) \in Nat
  BY FS_CardinalityType
<1>a. \A j \in S : j \in Nat
  OBVIOUS
<1>1. CASE S = {}
  <2>1. Ordered(S) = <<>> /\ Cardinality(S) = 0
    BY <1>1, FS_EmptySet DEF Ordered
  <2>2. <<>> \in Seq(S) /\ Len(<<>>) = 0
    OBVIOUS
  <2>3. QED
    BY <1>0, <1>1, <2>1, <2>2
<1>2. CASE S # {}
  <2> DEFINE n == Max(S) + 1
             ss == [i \in 1 .. n |-> IF i - 1 \in S THEN <<i - 1>> ELSE <<>>]
  <2>1. Max(S) \in S /\ (\A y \in S : y <= Max(S)) /\ n \in Nat /\ \A y \in S : y + 1 \in 1 .. n
    <3>1. Max(S) \in S /\ \A y \in S : y <= Max(S)
      BY <1>2, MaxIsGreatest
    <3>2. QED
      BY <1>a, <3>1
  <2>2. Ordered(S) = FlattenSeq(ss)
    BY <1>2 DEF Ordered
  <2> HIDE DEF n
  <2>3. ss \in Seq(Seq(S)) /\ Len(ss) = n
    <3>1. PICK V : V = Seq(S)
      OBVIOUS
    <3>2. \A i \in 1 .. n : ss[i] \in V
      <4> TAKE i \in 1 .. n
      <4>1. ss[i] = IF i - 1 \in S THEN <<i - 1>> ELSE <<>>
        OBVIOUS
      <4> HIDE DEF ss
      <4>2. PICK x : x = i - 1
        OBVIOUS
      <4>3. ss[i] = IF x \in S THEN <<x>> ELSE <<>>
        BY <4>1, <4>2
      <4>4. ss[i] \in Seq(S)
        BY ONLY <4>3
      <4>5. QED
        BY <3>1, <4>4
    <3>3. ss = [i \in 1 .. n |-> ss[i]]
      OBVIOUS
    <3> HIDE DEF ss
    <3>4. ss \in Seq(V) /\ Len(ss) = n
      BY ONLY <2>1, <3>2, <3>3, SeqIs
    <3>5. QED
      BY <3>1, <3>4
  <2>4. PICK at : Laid(at, ss, n, FlattenSeq(ss))
    <3>1. PICK s : s = ss
      OBVIOUS
    <3>2. s \in Seq(Seq(S)) /\ Len(s) = n
      BY <2>3, <3>1
    <3>3. \E at : Laid(at, s, Len(s), FlattenSeq(s))
      BY ONLY <3>2, FlattenPlaces
    <3>4. QED
      BY <3>1, <3>2, <3>3
  <2>5. FlattenSeq(ss) \in Seq(S)
    <3>1. PICK s : s = ss
      OBVIOUS
    <3>2. s \in Seq(Seq(S))
      BY <2>3, <3>1
    <3>3. FlattenSeq(s) \in Seq(S)
      BY ONLY <3>2, FlattenPlaces
    <3>4. QED
      BY <3>1, <3>3
  <2>6. \A k \in 1 .. n : ss[k] = IF k - 1 \in S THEN <<k - 1>> ELSE <<>>
    OBVIOUS
  <2> HIDE DEF ss
  <2> DEFINE K == {k \in 0 .. n : at[k] = Cardinality(Below(S, k))}
  <2>7. \A k \in 0 .. n : at[k] = Cardinality(Below(S, k))
    <3>1. 0 \in K
      <4>1. at[0] = 0 /\ 0 \in 0 .. n
        BY <2>1, <2>4 DEF Laid
      <4>2. Cardinality(Below(S, 0)) = 0
        BY <1>a, BelowIs
      <4>3. QED
        BY <4>1, <4>2
    <3>2. ASSUME NEW k \in 1 .. n, k - 1 \in K PROVE k \in K
      <4>1. k - 1 \in Nat /\ k \in 0 .. n /\ (k - 1) + 1 = k
        OBVIOUS
      <4>2. at[k - 1] = Cardinality(Below(S, k - 1)) /\ Cardinality(Below(S, k - 1)) \in Nat
        BY <3>2, <4>1, BelowIs
      <4>3. at[k] = at[k - 1] + Len(ss[k])
        BY <2>4 DEF Laid
      <4>4. Len(ss[k]) = IF k - 1 \in S THEN 1 ELSE 0
        <5>1. PICK s, x : s = ss[k] /\ x = k - 1
          OBVIOUS
        <5>2. s = IF x \in S THEN <<x>> ELSE <<>>
          BY <2>6, <5>1
        <5>3. Len(s) = IF x \in S THEN 1 ELSE 0
          BY ONLY <5>2
        <5>4. QED
          BY <5>1, <5>3
      <4>5. Cardinality(Below(S, (k - 1) + 1))
              = IF k - 1 \in S THEN Cardinality(Below(S, k - 1)) + 1 ELSE Cardinality(Below(S, k - 1))
        BY <4>1, BelowIs
      <4>6. QED
        BY <4>1, <4>2, <4>3, <4>4, <4>5
    <3> HIDE DEF K
    <3>3. \A k \in 0 .. n : k \in K
      BY <2>1, <3>1, <3>2, ByCounting
    <3>4. QED
      BY <3>3 DEF K
  <2>8. Below(S, n) = S
    BY <1>a, <2>1 DEF Below
  <2>9. Len(Ordered(S)) = Cardinality(S)
    <3>1. n \in 0 .. n
      BY <2>1
    <3>2. QED
      BY <2>2, <2>4, <2>7, <2>8, <3>1 DEF Laid
  <2>10. ASSUME NEW i \in S
         PROVE  /\ Cardinality(Below(S, i)) + 1 \in 1 .. Cardinality(S)
                /\ Ordered(S)[Cardinality(Below(S, i)) + 1] = i
    <3>1. i + 1 \in 1 .. n /\ (i + 1) - 1 = i /\ i \in 0 .. n
      BY <2>1
    <3>2. ss[i + 1] = <<i>>
      BY <2>6, <3>1
    <3>3. 1 \in 1 .. Len(ss[i + 1]) /\ ss[i + 1][1] = i
      BY <3>2
    <3>4. at[(i + 1) - 1] + 1 \in 1 .. Len(FlattenSeq(ss)) /\ FlattenSeq(ss)[at[(i + 1) - 1] + 1] = ss[i + 1][1]
      BY <2>4, <3>1, <3>3 DEF Laid
    <3>5. at[i] = Cardinality(Below(S, i))
      BY <2>7, <3>1
    <3>6. QED
      BY <2>2, <2>9, <3>1, <3>3, <3>4, <3>5
  <2>11. QED
    BY <1>0, <2>2, <2>5, <2>9, <2>10
<1>3. QED
  BY <1>1, <1>2

LEMMA PointsHold ==
    ASSUME NEW categories, NEW values,
           DOMAIN categories \subseteq Nat, DOMAIN values \subseteq Nat, IsFiniteSet(DOMAIN values)
    PROVE  PointsExact(categories, values)
<1>1. PICK DC, DV : DC = DOMAIN categories /\ DV = DOMAIN values
  OBVIOUS
<1>2. PICK A, B : A = DC \cap DV /\ B = DV \ DC
  OBVIOUS
<1>3. (\A j \in DV : j \in Nat) /\ (\A j \in A : j \in Nat) /\ (\A j \in B : j \in Nat)
  BY <1>1, <1>2
<1>4. IsFiniteSet(DV) /\ IsFiniteSet(A) /\ IsFiniteSet(B)
  <2>1. IsFiniteSet(DV) /\ A \in SUBSET DV /\ B \in SUBSET DV
    BY <1>1, <1>2
  <2>2. IsFiniteSet(A) /\ IsFiniteSet(B)
    BY <2>1, FS_Subset
  <2>3. QED
    BY <2>1, <2>2
<1>5. PICK both, bare : both = Ordered(A) /\ bare = Ordered(B)
  OBVIOUS
<1>6. PICK a, b : a = Cardinality(A) /\ b = Cardinality(B)
  OBVIOUS
<1>7. /\ both \in Seq(A) /\ Len(both) = a /\ a \in Nat
      /\ \A i \in A : Cardinality(Below(A, i)) + 1 \in 1 .. a /\ both[Cardinality(Below(A, i)) + 1] = i
  BY <1>3, <1>4, <1>5, <1>6, OrderedIs
<1>8. /\ bare \in Seq(B) /\ Len(bare) = b /\ b \in Nat
      /\ \A i \in B : Cardinality(Below(B, i)) + 1 \in 1 .. b /\ bare[Cardinality(Below(B, i)) + 1] = i
  BY <1>3, <1>4, <1>5, <1>6, OrderedIs
<1> DEFINE first  == [i \in 1 .. a |-> [category |-> <<categories[both[i]]>>, value |-> values[both[i]]]]
           second == [i \in 1 .. b |-> [category |-> <<>>, value |-> values[bare[i]]]]
           Before(i, j) == IF (i \in DC) = (j \in DC) THEN i < j ELSE i \in DC
           Place(i) == Cardinality({j \in DV : Before(j, i)}) + 1
<1>9. DOMAIN both = 1 .. a /\ DOMAIN bare = 1 .. b
  BY <1>7, <1>8
<1>10. Points(categories, values) = first \o second
  BY <1>1, <1>2, <1>5, <1>9 DEF Points
<1>11. PICK s, t : s = first /\ t = second
  OBVIOUS
<1>12. /\ Len(s) = a /\ Len(t) = b
       /\ \A i \in 1 .. a : s[i] = [category |-> <<categories[both[i]]>>, value |-> values[both[i]]]
       /\ \A i \in 1 .. b : t[i] = [category |-> <<>>, value |-> values[bare[i]]]
  BY <1>7, <1>8, <1>11
<1>13. PICK V : s \in Seq(V) /\ t \in Seq(V)
  <2> DEFINE V == {s[i] : i \in 1 .. a} \cup {t[i] : i \in 1 .. b}
  <2>1. s = [i \in 1 .. a |-> s[i]] /\ t = [i \in 1 .. b |-> t[i]]
    BY <1>11
  <2>2. (\A i \in 1 .. a : s[i] \in V) /\ (\A i \in 1 .. b : t[i] \in V)
    OBVIOUS
  <2> HIDE DEF V
  <2>3. s \in Seq(V)
    BY ONLY <1>7, <2>1, <2>2, SeqIs
  <2>4. t \in Seq(V)
    BY ONLY <1>8, <2>1, <2>2, SeqIs
  <2>5. QED
    BY <2>3, <2>4
<1> HIDE DEF first, second
<1>14. PICK points : points = Points(categories, values)
  OBVIOUS
<1>15. /\ Len(points) = a + b
       /\ \A i \in 1 .. a : points[i] = s[i]
       /\ \A i \in 1 .. b : points[a + i] = t[i]
  <2>1. points = s \o t
    BY <1>10, <1>11, <1>14
  <2>2. Len(s) = a /\ Len(t) = b /\ a \in Nat /\ b \in Nat
    BY <1>7, <1>8, <1>12
  <2>3. Len(points) = Len(s) + Len(t)
    BY ONLY <1>13, <2>1
  <2>4. \A i \in 1 .. Len(s) : points[i] = s[i]
    BY ONLY <1>13, <2>1
  <2>5. \A i \in 1 .. Len(t) : points[Len(s) + i] = t[i]
    BY ONLY <1>13, <2>1
  <2>6. QED
    BY <2>2, <2>3, <2>4, <2>5
<1>16. Cardinality(DV) = a + b
  <2>1. A \cup B = DV /\ A \cap B = {}
    BY <1>2
  <2>2. Cardinality(A \cup B) = a + b - Cardinality(A \cap B)
    BY <1>4, <1>6, FS_Union
  <2>3. Cardinality(A \cap B) = 0
    BY <2>1, FS_EmptySet
  <2>4. Cardinality(DV) = a + b - 0
    BY <2>1, <2>2, <2>3
  <2>5. QED
    BY <1>7, <1>8, <2>4
<1>17. ASSUME NEW i \in A
       PROVE  points[Place(i)] = [category |-> <<categories[i]>>, value |-> values[i]]
  <2>1. {j \in DV : Before(j, i)} = Below(A, i)
    <3>1. i \in DC
      BY <1>2
    <3>2. \A j \in DV : Before(j, i) <=> j \in A /\ j < i
      BY <1>2, <3>1
    <3> HIDE DEF Before
    <3>3. QED
      BY <1>2, <3>2 DEF Below
  <2>2. Place(i) \in 1 .. a /\ both[Place(i)] = i
    BY <1>7, <2>1
  <2> HIDE DEF Place
  <2>3. QED
    BY <1>12, <1>15, <2>2
<1>18. ASSUME NEW i \in B
       PROVE  points[Place(i)] = [category |-> <<>>, value |-> values[i]]
  <2>1. {j \in DV : Before(j, i)} = A \cup Below(B, i)
    <3>1. i \notin DC
      BY <1>2
    <3>2. \A j \in DV : Before(j, i) <=> j \in A \/ (j \in B /\ j < i)
      BY <1>2, <3>1
    <3> HIDE DEF Before
    <3>3. QED
      BY <1>2, <3>2 DEF Below
  <2>2. Cardinality(A \cup Below(B, i)) = a + Cardinality(Below(B, i))
    <3>1. IsFiniteSet(Below(B, i)) /\ Cardinality(Below(B, i)) \in Nat
      BY <1>3, BelowIs
    <3>2. A \cap Below(B, i) = {}
      BY <1>2 DEF Below
    <3>3. Cardinality(A \cup Below(B, i)) = a + Cardinality(Below(B, i)) - Cardinality(A \cap Below(B, i))
      BY <1>4, <1>6, <3>1, FS_Union
    <3>4. Cardinality(A \cap Below(B, i)) = 0
      BY <3>2, FS_EmptySet
    <3>5. PICK c : c = Cardinality(Below(B, i))
      OBVIOUS
    <3>6. Cardinality(A \cup Below(B, i)) = a + c - 0
      BY <3>3, <3>4, <3>5
    <3>7. c \in Nat
      BY <3>1, <3>5
    <3>8. QED
      BY <1>7, <3>5, <3>6, <3>7
  <2>3. PICK c : c = Cardinality(Below(B, i)) + 1
    OBVIOUS
  <2>4. c \in 1 .. b /\ bare[c] = i
    BY <1>8, <2>3
  <2>5. Place(i) = a + c
    <3>1. Cardinality(Below(B, i)) \in Nat
      BY <1>3, BelowIs
    <3>2. Place(i) = (a + Cardinality(Below(B, i))) + 1
      BY <2>1, <2>2
    <3> HIDE DEF Place
    <3>3. QED
      BY <1>7, <2>3, <3>1, <3>2
  <2> HIDE DEF Place
  <2>6. points[Place(i)] = t[c]
    BY <1>15, <2>4, <2>5
  <2>7. QED
    BY <1>12, <2>4, <2>6
<1>19. \A i \in DV : points[Place(i)] = [category |-> IF i \in DC THEN <<categories[i]>> ELSE <<>>, value |-> values[i]]
  <2> TAKE i \in DV
  <2> HIDE DEF Place
  <2>1. CASE i \in DC
    BY <1>2, <1>17, <2>1
  <2>2. CASE i \notin DC
    BY <1>2, <1>18, <2>2
  <2>3. QED
    BY <2>1, <2>2
<1>20. QED
  BY <1>1, <1>14, <1>15, <1>16, <1>19 DEF PointsExact

(***************************************************************************)
(* The cells of a table.                                                   *)
(***************************************************************************)
(* The sums of the tracks.                                                 *)
LEMMA SumsAre ==
    ASSUME NEW tracks \in Seq(Int)
    PROVE  /\ Sums(tracks) \in [0 .. Len(tracks) -> Int] /\ Sums(tracks)[0] = 0
           /\ \A k \in 1 .. Len(tracks) : Sums(tracks)[k] = Sums(tracks)[k - 1] + tracks[k]
<1> DEFINE n == Len(tracks)
           step == [p \in (1 .. n) \X Int |-> p[2] + tracks[p[1]]]
           rhs(g) == [i \in 0 .. n |-> IF i = 0 THEN 0 ELSE g[i - 1] + tracks[i]]
<1>1. n \in Nat /\ \A k \in 1 .. n : tracks[k] \in Int
  OBVIOUS
<1>2. \A k \in 1 .. n, x \in Int : step[<<k, x>>] = x + tracks[k] /\ step[<<k, x>>] \in Int
  BY <1>1
<1> HIDE DEF n, step
<1>3. PICK f : Stepwise(f, n, Int, 0, step)
  <2>1. 0 \in Int
    OBVIOUS
  <2>2. QED
    BY <1>1, <1>2, <2>1, StepsExist, Zenon
<1>4. f \in [0 .. n -> Int] /\ f[0] = 0 /\ \A k \in 1 .. n : f[k] = f[k - 1] + tracks[k]
  <2>1. f \in [0 .. n -> Int] /\ f[0] = 0 /\ \A k \in 1 .. n : f[k] = step[<<k, f[k - 1]>>]
    BY <1>3 DEF Stepwise
  <2>2. \A k \in 1 .. n : f[k - 1] \in Int
    <3> TAKE k \in 1 .. n
    <3>1. k - 1 \in 0 .. n
      BY <1>1
    <3>2. QED
      BY <2>1, <3>1
  <2>3. QED
    BY <1>2, <2>1, <2>2
<1>5. f = rhs(f)
  <2>1. \A i \in 0 .. n : f[i] = IF i = 0 THEN 0 ELSE f[i - 1] + tracks[i]
    <3> TAKE i \in 0 .. n
    <3>1. i = 0 \/ i \in 1 .. n
      BY <1>1
    <3>2. QED
      BY <1>4, <3>1
  <2>2. QED
    BY <1>4, <2>1
<1>6. Sums(tracks) = CHOOSE g : g = rhs(g)
  BY DEF Sums, n
<1>7. PICK g : g = Sums(tracks)
  OBVIOUS
<1>8. g = rhs(g)
  <2> HIDE DEF rhs
  <2>1. \E h : h = rhs(h)
    BY <1>5
  <2>2. QED
    BY <1>6, <1>7, <2>1
<1>9. g[0] = 0 /\ \A k \in 1 .. n : g[k] = g[k - 1] + tracks[k]
  <2>1. 0 \in 0 .. n /\ \A k \in 1 .. n : k \in 0 .. n /\ k # 0
    BY <1>1
  <2>2. \A i \in 0 .. n : g[i] = IF i = 0 THEN 0 ELSE g[i - 1] + tracks[i]
    BY <1>8
  <2> HIDE DEF rhs
  <2>3. QED
    BY <2>1, <2>2
<1> DEFINE K == {k \in 0 .. n : g[k] \in Int}
<1>10. \A k \in 0 .. n : g[k] \in Int
  <2>1. 0 \in K
    BY <1>1, <1>9
  <2>2. ASSUME NEW k \in 1 .. n, k - 1 \in K PROVE k \in K
    BY <1>1, <1>9, <2>2
  <2> HIDE DEF K
  <2>3. \A k \in 0 .. n : k \in K
    BY <1>1, <2>1, <2>2, ByCounting
  <2>4. QED
    BY <2>3 DEF K
<1>11. g \in [0 .. n -> Int]
  <2>1. g = [i \in 0 .. n |-> g[i]]
    BY <1>8
  <2> HIDE DEF rhs
  <2>2. QED
    BY <1>10, <2>1
<1>12. QED
  BY <1>7, <1>9, <1>11 DEF n

(* Tracks without a size share what is left, which fills the frame.        *)
LEMMA DistributeIs ==
    ASSUME NEW tracks \in Seq(Nat), NEW extent \in Nat
    PROVE  /\ Distribute(tracks, extent) \in Seq(Int) /\ Len(Distribute(tracks, extent)) = Len(tracks)
           /\ \A c \in 1 .. Len(tracks) : tracks[c] > 0 => Distribute(tracks, extent)[c] = tracks[c]
           /\ Divides(tracks, extent) /\ (\E c \in 1 .. Len(tracks) : tracks[c] = 0) /\ Total(tracks) <= extent
                => Total(Distribute(tracks, extent)) = extent
<1>1. PICK n, S : n = Len(tracks) /\ S = {i \in DOMAIN tracks : tracks[i] = 0}
  OBVIOUS
<1>2. n \in Nat /\ DOMAIN tracks = 1 .. n /\ (\A i \in 1 .. n : tracks[i] \in Nat) /\ \A i \in S : i \in 1 .. n
  BY <1>1
<1>3. PICK auto, all, left : auto = Cardinality(S) /\ all = Total(tracks) /\ left = extent - all
  OBVIOUS
<1>4. tracks \in Seq(Int)
  OBVIOUS
<1>5. IsFiniteSet(S) /\ auto \in Nat /\ (\A j \in S : j \in Nat)
  <2>1. IsFiniteSet(1 .. n)
    BY <1>2, FS_Interval
  <2>2. S \in SUBSET (1 .. n)
    BY <1>2
  <2>3. IsFiniteSet(S)
    BY <2>1, <2>2, FS_Subset
  <2>4. QED
    BY <1>2, <1>3, <2>3, FS_CardinalityType
<1>6. PICK s : s = Sums(tracks)
  OBVIOUS
<1>7. s \in [0 .. n -> Int] /\ s[0] = 0 /\ \A k \in 1 .. n : s[k] = s[k - 1] + tracks[k]
  BY <1>1, <1>4, <1>6, SumsAre
<1>8. all = s[n] /\ all \in Int /\ left \in Int
  <2>1. n \in 0 .. n
    BY <1>2
  <2>2. all = s[n]
    BY <1>1, <1>3, <1>6 DEF Total
  <2>3. QED
    BY <1>3, <1>7, <2>1, <2>2
<1>9. PICK d : d = Distribute(tracks, extent)
  OBVIOUS
<1>10. CASE auto = 0 \/ left <= 0
  <2>1. d = tracks
    BY <1>1, <1>3, <1>9, <1>10 DEF Distribute
  <2>2. ASSUME \E c \in 1 .. Len(tracks) : tracks[c] = 0, all <= extent PROVE all = extent
    <3>1. S # {}
      BY <1>1, <1>2, <2>2
    <3>2. auto # 0
      BY <1>3, <1>5, <3>1, FS_EmptySet
    <3>3. left <= 0 /\ left = extent - all /\ all <= extent
      BY <1>3, <1>10, <2>2, <3>2
    <3>4. QED
      BY <1>8, <3>3
  <2>3. QED
    BY <1>3, <1>4, <1>9, <2>1, <2>2
<1>11. CASE ~ (auto = 0 \/ left <= 0)
  <2>1. PICK share : share = left \div auto
    OBVIOUS
  <2>2. share \in Int
    BY <1>5, <1>8, <1>11, <2>1
  <2>3. d = [i \in 1 .. n |-> IF tracks[i] = 0 THEN share ELSE tracks[i]]
    BY <1>1, <1>2, <1>3, <1>9, <1>11, <2>1 DEF Distribute
  <2>4. \A i \in 1 .. n : d[i] = (IF tracks[i] = 0 THEN share ELSE tracks[i]) /\ d[i] \in Int
    BY <1>2, <2>2, <2>3
  <2>5. d \in Seq(Int) /\ Len(d) = n
    <3>1. d = [i \in 1 .. n |-> d[i]] /\ \A i \in 1 .. n : d[i] \in Int
      BY <2>3, <2>4
    <3>2. QED
      BY ONLY <1>2, <3>1, SeqIs
  <2>6. PICK e : e = Sums(d)
    OBVIOUS
  <2>7. e \in [0 .. n -> Int] /\ e[0] = 0 /\ \A k \in 1 .. n : e[k] = e[k - 1] + d[k]
    BY <2>5, <2>6, SumsAre
  <2> DEFINE count(k) == Cardinality(Below(S, k + 1))
             K == {k \in 0 .. n : e[k] = s[k] + share * count(k)}
  <2>8. \A k \in Nat : /\ count(k) \in Nat
                        /\ count(k + 1) = IF k + 1 \in S THEN count(k) + 1 ELSE count(k)
    <3> TAKE k \in Nat
    <3>1. PICK j : j = k + 1
      OBVIOUS
    <3>2. j \in Nat
      BY <3>1
    <3>3. Cardinality(Below(S, j)) \in Nat
      BY <1>5, <3>2, BelowIs
    <3>4. Cardinality(Below(S, j + 1))
            = IF j \in S THEN Cardinality(Below(S, j)) + 1 ELSE Cardinality(Below(S, j))
      BY <1>5, <3>2, BelowIs
    <3>5. QED
      BY <3>1, <3>3, <3>4
  <2>9. count(0) = 0
    <3>1. Below(S, 0 + 1) = {}
      BY <1>2 DEF Below
    <3>2. QED
      BY <3>1, FS_EmptySet
  <2> HIDE DEF count
  <2>10. \A k \in 0 .. n : e[k] = s[k] + share * count(k)
    <3>1. 0 \in K
      <4>1. share * 0 = 0
        BY <2>2
      <4>2. QED
        BY <1>2, <1>7, <2>7, <2>9, <4>1
    <3>2. ASSUME NEW k \in 1 .. n, k - 1 \in K PROVE k \in K
      <4>1. k \in 0 .. n /\ k - 1 \in 0 .. n /\ k - 1 \in Nat /\ (k - 1) + 1 = k
        BY <1>2
      <4>2. e[k - 1] = s[k - 1] + share * count(k - 1)
        BY <3>2
      <4>3. e[k] = e[k - 1] + d[k] /\ s[k] = s[k - 1] + tracks[k] /\ s[k - 1] \in Int /\ e[k - 1] \in Int
        BY <1>7, <2>7, <4>1
      <4>4. k \in S <=> tracks[k] = 0
        BY <1>1, <1>2
      <4>5. PICK c : c = count(k - 1)
        OBVIOUS
      <4>6. c \in Nat /\ count(k) = IF k \in S THEN c + 1 ELSE c
        <5>1. count((k - 1) + 1) = IF (k - 1) + 1 \in S THEN count(k - 1) + 1 ELSE count(k - 1)
          BY <2>8, <4>1
        <5>2. QED
          BY <2>8, <4>1, <4>5, <5>1
      <4>7. share * (c + 1) = share * c + share /\ share * c \in Int
        BY <2>2, <4>6
      <4>8. tracks[k] \in Nat /\ d[k] = IF k \in S THEN share ELSE tracks[k]
        BY <1>2, <2>4, <4>4
      <4>9. e[k] = s[k] + share * count(k)
        <5>1. CASE k \in S
          <6>1. tracks[k] = 0 /\ count(k) = c + 1 /\ d[k] = share
            BY <4>4, <4>6, <4>8, <5>1
          <6>2. PICK w : w = share * c
            OBVIOUS
          <6>3. e[k] = (s[k - 1] + w) + share /\ s[k] = s[k - 1] + 0 /\ share * count(k) = w + share
            BY <4>2, <4>3, <4>5, <4>7, <6>1, <6>2
          <6>4. w \in Int /\ s[k - 1] \in Int
            BY <4>3, <4>7, <6>2
          <6>5. QED
            BY <2>2, <6>3, <6>4
        <5>2. CASE k \notin S
          <6>1. count(k) = c /\ d[k] = tracks[k]
            BY <4>6, <4>8, <5>2
          <6>2. PICK w : w = share * c
            OBVIOUS
          <6>3. e[k] = (s[k - 1] + w) + tracks[k] /\ s[k] = s[k - 1] + tracks[k] /\ share * count(k) = w
            BY <4>2, <4>3, <4>5, <6>1, <6>2
          <6>4. w \in Int /\ s[k - 1] \in Int
            BY <4>3, <4>7, <6>2
          <6>5. QED
            BY <4>8, <6>3, <6>4
        <5>3. QED
          BY <5>1, <5>2
      <4>10. QED
        BY <4>1, <4>9
    <3> HIDE DEF K
    <3>3. \A k \in 0 .. n : k \in K
      BY <1>2, <3>1, <3>2, ByCounting
    <3>4. QED
      BY <3>3 DEF K
  <2>11. count(n) = auto
    <3>1. Below(S, n + 1) = S
      BY <1>2, <1>5 DEF Below
    <3>2. QED
      BY <1>3, <3>1 DEF count
  <2>12. ASSUME Divides(tracks, extent) PROVE e[n] = extent
    <3>1. left % auto = 0
      BY <1>1, <1>3, <1>5, <1>8, <1>11, <2>12 DEF Divides
    <3>2. left = auto * share
      BY <1>5, <1>8, <1>11, <2>1, <3>1
    <3>3. n \in 0 .. n
      BY <1>2
    <3>4. e[n] = all + share * auto
      BY <1>8, <2>10, <2>11, <3>3
    <3>5. share * auto = left
      BY <1>5, <2>2, <3>2
    <3>6. e[n] = all + (extent - all)
      BY <1>3, <3>4, <3>5
    <3>7. QED
      BY <1>8, <3>6
  <2>13. Total(d) = e[n]
    BY <2>5, <2>6 DEF Total
  <2>14. ASSUME NEW c \in 1 .. n, tracks[c] > 0 PROVE d[c] = tracks[c]
    BY <1>2, <2>4, <2>14
  <2>15. QED
    BY <1>1, <1>9, <2>5, <2>12, <2>13, <2>14
<1>12. QED
  BY <1>10, <1>11

(* A span is at least one and stays within what is left.                   *)
LEMMA SpanIs ==
    ASSUME NEW m \in Int, NEW left \in Nat \ {0}
    PROVE  Span(m, left) \in 1 .. left /\ (m \in 1 .. left => Span(m, left) = m)
<1>1. PICK g : g = Max({m, 1})
  OBVIOUS
<1>2. g \in {m, 1} /\ g >= m /\ g >= 1
  <2>1. \E x \in {m, 1} : \A y \in {m, 1} : x >= y
    <3>1. CASE m >= 1
      BY <3>1
    <3>2. CASE ~ (m >= 1)
      BY <3>2
    <3>3. QED
      BY <3>1, <3>2
  <2>2. g \in {m, 1} /\ \A y \in {m, 1} : g >= y
    BY <1>1, <2>1 DEF Max
  <2>3. QED
    BY <2>2
<1>3. PICK h : h = Min({g, left})
  OBVIOUS
<1>4. h \in {g, left} /\ h <= g /\ h <= left
  <2>1. \E x \in {g, left} : \A y \in {g, left} : x <= y
    <3>1. g \in Int
      BY <1>2
    <3>2. CASE g <= left
      BY <3>1, <3>2
    <3>3. CASE ~ (g <= left)
      BY <3>1, <3>3
    <3>4. QED
      BY <3>2, <3>3
  <2>2. h \in {g, left} /\ \A y \in {g, left} : h <= y
    BY <1>3, <2>1 DEF Min
  <2>3. QED
    BY <2>2
<1>5. Span(m, left) = h
  BY <1>1, <1>3 DEF Span
<1>6. QED
  BY <1>2, <1>4, <1>5

(* What is laid end to end has the members of each.                        *)
MembersOf(flat, ss, n) ==
    \A x : x \in Range(flat) <=> \E i \in 1 .. n : \E k \in 1 .. Len(ss[i]) : x = ss[i][k]

LEMMA RangeFlatten ==
    ASSUME NEW T, NEW ss \in Seq(Seq(T))
    PROVE  MembersOf(FlattenSeq(ss), ss, Len(ss))
<1>1. PICK n, flat : n = Len(ss) /\ flat = FlattenSeq(ss)
  OBVIOUS
<1>2. flat \in Seq(T) /\ \E at : Laid(at, ss, n, flat)
  BY <1>1, FlattenPlaces
<1>3. PICK at : Laid(at, ss, n, flat)
  BY <1>2
<1>4. DOMAIN flat = 1 .. Len(flat)
  BY ONLY <1>2
<1>5. ASSUME NEW x, x \in Range(flat)
      PROVE  \E i \in 1 .. n : \E k \in 1 .. Len(ss[i]) : x = ss[i][k]
  <2>1. PICK p \in 1 .. Len(flat) : x = flat[p]
    BY <1>4, <1>5 DEF Range
  <2>2. PICK i \in 1 .. n : \E k \in 1 .. Len(ss[i]) : p = at[i - 1] + k
    BY ONLY <1>3, p \in 1 .. Len(flat) DEF Laid
  <2>3. PICK k \in 1 .. Len(ss[i]) : p = at[i - 1] + k
    BY <2>2
  <2>4. flat[p] = ss[i][k]
    BY ONLY <1>3, <2>3, i \in 1 .. n, k \in 1 .. Len(ss[i]) DEF Laid
  <2>5. QED
    BY <2>1, <2>4
<1>6. ASSUME NEW x, NEW i \in 1 .. n, NEW k \in 1 .. Len(ss[i]), x = ss[i][k]
      PROVE  x \in Range(flat)
  <2>1. at[i - 1] + k \in 1 .. Len(flat) /\ flat[at[i - 1] + k] = ss[i][k]
    BY <1>3 DEF Laid
  <2>2. QED
    BY <1>4, <1>6, <2>1 DEF Range
<1>7. MembersOf(flat, ss, n)
  BY <1>5, <1>6 DEF MembersOf
<1>8. QED
  BY <1>1, <1>7

\* The cell at a row and column, where there is one.
CellAt(table, frame, r, c) ==
    LET wide   == Prefix(Columns(table, frame))
        high   == Prefix(Heights(table, frame))
        across == Span(table.rows[r][c].across, Len(table.columns) - c + 1)
        down   == Span(table.rows[r][c].down, Len(table.heights) - r + 1)
    IN  [row |-> r, col |-> c, across |-> across, down |-> down,
         box |-> <<frame.off[1] + wide[c], frame.off[2] + high[r],
                   frame.off[1] + wide[c + across], frame.off[2] + high[r + down]>>]

Present(table, r, c) == c <= Len(table.columns) /\ ~ table.rows[r][c].covered

RowCells(table, frame) ==
    [r \in 1 .. Len(table.rows) |-> [c \in 1 .. Len(table.rows[r]) |->
       IF Present(table, r, c) THEN <<CellAt(table, frame, r, c)>> ELSE <<>>]]

AllCells(table, frame) ==
    UNION {{CellAt(table, frame, r, c) : c \in 1 .. Len(table.rows[r])} : r \in 1 .. Len(table.rows)}

LEMMA CellsAre ==
    ASSUME NEW table, IsTable(table), NEW frame
    PROVE  /\ Cells(table, frame) \in Seq(AllCells(table, frame))
           /\ \A x : x \in Range(Cells(table, frame)) <=>
                \E r \in 1 .. Len(table.rows) : \E c \in 1 .. Len(table.rows[r]) :
                   Present(table, r, c) /\ x = CellAt(table, frame, r, c)
<1>1. PICK T, pp : T = AllCells(table, frame) /\ pp = RowCells(table, frame)
  OBVIOUS
<1>2. PICK n : n = Len(table.rows)
  OBVIOUS
<1>3. n \in Nat /\ DOMAIN table.rows = 1 .. n /\ \A r \in 1 .. n : table.rows[r] \in Range(table.rows)
  BY <1>2, RangeIs DEF IsTable
<1>4. ASSUME NEW r \in 1 .. n
      PROVE  Len(table.rows[r]) \in Nat /\ DOMAIN table.rows[r] = 1 .. Len(table.rows[r])
  <2>1. PICK row : row = table.rows[r]
    OBVIOUS
  <2>2. row \in Seq(Range(row))
    BY <1>3, <2>1 DEF IsTable
  <2>3. QED
    BY <2>1, <2>2, RangeIs
<1>5. ASSUME NEW r \in 1 .. n, NEW c \in 1 .. Len(table.rows[r])
      PROVE  /\ CellAt(table, frame, r, c) \in T
             /\ pp[r][c] = IF Present(table, r, c) THEN <<CellAt(table, frame, r, c)>> ELSE <<>>
  BY <1>1, <1>2 DEF AllCells, RowCells
<1>6. ASSUME NEW r \in 1 .. n
      PROVE  /\ pp[r] \in Seq(Seq(T)) /\ Len(pp[r]) = Len(table.rows[r])
             /\ FlattenSeq(pp[r]) \in Seq(T) /\ MembersOf(FlattenSeq(pp[r]), pp[r], Len(pp[r]))
  <2>1. PICK h, m, V : h = pp[r] /\ m = Len(table.rows[r]) /\ V = Seq(T)
    OBVIOUS
  <2>2. m \in Nat
    BY <1>4, <2>1
  <2>3. h = [c \in 1 .. m |-> h[c]]
    BY <1>1, <1>2, <2>1 DEF RowCells
  <2>4. \A c \in 1 .. m : h[c] \in V
    <3> TAKE c \in 1 .. m
    <3>1. PICK x : x = CellAt(table, frame, r, c)
      OBVIOUS
    <3>2. x \in T /\ (h[c] = <<x>> \/ h[c] = <<>>)
      BY <1>5, <2>1, <3>1
    <3>3. <<x>> \in Seq(T) /\ <<>> \in Seq(T)
      BY ONLY <3>2
    <3>4. QED
      BY <2>1, <3>2, <3>3
  <2>5. h \in Seq(V) /\ Len(h) = m
    BY ONLY <2>2, <2>3, <2>4, SeqIs
  <2>6. h \in Seq(Seq(T))
    BY <2>1, <2>5
  <2>7. FlattenSeq(h) \in Seq(T)
    BY ONLY <2>6, FlattenIs
  <2>8. MembersOf(FlattenSeq(h), h, Len(h))
    BY ONLY <2>6, RangeFlatten
  <2>9. QED
    BY <2>1, <2>5, <2>6, <2>7, <2>8
<1>7. PICK ss : ss = [r \in 1 .. n |-> FlattenSeq(pp[r])]
  OBVIOUS
<1>8. ss \in Seq(Seq(T)) /\ Len(ss) = n
  <2>1. PICK V : V = Seq(T)
    OBVIOUS
  <2>2. ss = [r \in 1 .. n |-> ss[r]] /\ \A r \in 1 .. n : ss[r] \in V
    BY <1>6, <1>7, <2>1
  <2>3. ss \in Seq(V) /\ Len(ss) = n
    BY ONLY <1>3, <2>2, SeqIs
  <2>4. QED
    BY <2>1, <2>3
<1>9. FlattenSeq(ss) \in Seq(T)
  BY ONLY <1>8, FlattenIs
<1>10. MembersOf(FlattenSeq(ss), ss, n)
  <2>1. MembersOf(FlattenSeq(ss), ss, Len(ss))
    BY ONLY <1>8, RangeFlatten
  <2>2. QED
    BY <1>8, <2>1
<1>11. Cells(table, frame) = FlattenSeq(ss)
  <2> DEFINE Cell(r, c) ==
               LET cell == table.rows[r][c]
                   across == Span(cell.across, Len(table.columns) - c + 1)
                   down   == Span(cell.down, Len(table.heights) - r + 1)
               IN  [row |-> r, col |-> c, across |-> across, down |-> down,
                    box |-> <<frame.off[1] + Prefix(Columns(table, frame))[c],
                              frame.off[2] + Prefix(Heights(table, frame))[r],
                              frame.off[1] + Prefix(Columns(table, frame))[c + across],
                              frame.off[2] + Prefix(Heights(table, frame))[r + down]>>]
             Of(r) == FlattenSeq([c \in DOMAIN table.rows[r] |->
                               IF c <= Len(table.columns) /\ ~ table.rows[r][c].covered THEN <<Cell(r, c)>> ELSE <<>>])
  <2>1. Cells(table, frame) = FlattenSeq([r \in DOMAIN table.rows |-> Of(r)])
    BY DEF Cells
  <2>2. \A r, c : Cell(r, c) = CellAt(table, frame, r, c)
    BY DEF CellAt
  <2>3. ASSUME NEW r \in 1 .. n PROVE Of(r) = FlattenSeq(pp[r])
    <3>1. pp[r] = [c \in 1 .. Len(table.rows[r]) |->
                     IF Present(table, r, c) THEN <<CellAt(table, frame, r, c)>> ELSE <<>>]
      BY <1>1, <1>2 DEF RowCells
    <3>2. DOMAIN table.rows[r] = 1 .. Len(table.rows[r])
      BY <1>4
    <3> HIDE DEF Cell
    <3>3. [c \in DOMAIN table.rows[r] |->
             IF c <= Len(table.columns) /\ ~ table.rows[r][c].covered THEN <<Cell(r, c)>> ELSE <<>>] = pp[r]
      BY <2>2, <3>1, <3>2 DEF Present
    <3>4. QED
      BY <3>3
  <2> HIDE DEF Of
  <2>4. [r \in DOMAIN table.rows |-> Of(r)] = ss
    BY <1>3, <1>7, <2>3
  <2>5. QED
    BY <2>1, <2>4
<1>12. ASSUME NEW x
       PROVE  x \in Range(FlattenSeq(ss)) <=>
                \E r \in 1 .. n : \E c \in 1 .. Len(table.rows[r]) : Present(table, r, c) /\ x = CellAt(table, frame, r, c)
  <2>1. x \in Range(FlattenSeq(ss)) <=> \E r \in 1 .. n : \E k \in 1 .. Len(ss[r]) : x = ss[r][k]
    BY <1>10 DEF MembersOf
  <2>2. ASSUME NEW r \in 1 .. n
        PROVE  (\E k \in 1 .. Len(ss[r]) : x = ss[r][k]) <=> x \in Range(FlattenSeq(pp[r]))
    <3>1. PICK s : s = FlattenSeq(pp[r])
      OBVIOUS
    <3>2. ss[r] = s
      BY <1>7, <3>1
    <3>3. s \in Seq(T)
      BY <1>6, <3>1
    <3>4. DOMAIN s = 1 .. Len(s)
      BY ONLY <3>3
    <3>5. QED
      BY <3>1, <3>2, <3>4 DEF Range
  <2>3. ASSUME NEW r \in 1 .. n
        PROVE  x \in Range(FlattenSeq(pp[r])) <=>
                 \E c \in 1 .. Len(table.rows[r]) : \E k \in 1 .. Len(pp[r][c]) : x = pp[r][c][k]
    <3>1. MembersOf(FlattenSeq(pp[r]), pp[r], Len(table.rows[r]))
      BY <1>6
    <3>2. QED
      BY <3>1 DEF MembersOf
  <2>4. ASSUME NEW r \in 1 .. n, NEW c \in 1 .. Len(table.rows[r])
        PROVE  (\E k \in 1 .. Len(pp[r][c]) : x = pp[r][c][k]) <=> Present(table, r, c) /\ x = CellAt(table, frame, r, c)
    <3>1. PICK s, y : s = pp[r][c] /\ y = CellAt(table, frame, r, c)
      OBVIOUS
    <3>2. s = IF Present(table, r, c) THEN <<y>> ELSE <<>>
      BY <1>5, <3>1
    <3>3. CASE Present(table, r, c)
      <4>1. s = <<y>>
        BY <3>2, <3>3
      <4>2. (\E k \in 1 .. Len(s) : x = s[k]) <=> x = y
        BY ONLY <4>1
      <4>3. QED
        BY <3>1, <3>3, <4>2
    <3>4. CASE ~ Present(table, r, c)
      <4>1. s = <<>>
        BY <3>2, <3>4
      <4>2. ~ \E k \in 1 .. Len(s) : x = s[k]
        BY ONLY <4>1
      <4>3. QED
        BY <3>1, <3>4, <4>2
    <3>5. QED
      BY <3>3, <3>4
  <2>5. QED
    BY <2>1, <2>2, <2>3, <2>4
<1>13. QED
  BY <1>1, <1>2, <1>9, <1>11, <1>12

(* The tracks of a table are numbers, and so are the places of its cells.  *)
LEMMA TracksAre ==
    ASSUME NEW table, IsTable(table), NEW frame \in Transform, AutoRow \in Nat
    PROVE  /\ Columns(table, frame) \in Seq(Int) /\ Len(Columns(table, frame)) = Len(table.columns)
           /\ Heights(table, frame) \in Seq(Int) /\ Len(Heights(table, frame)) = Len(table.heights)
<1>1. frame.ext[1] \in Nat /\ frame.ext[2] \in Nat /\ table.columns \in Seq(Nat) /\ table.heights \in Seq(Nat)
  BY DEF Transform, IsTable
<1>2. Columns(table, frame) \in Seq(Int) /\ Len(Columns(table, frame)) = Len(table.columns)
  BY <1>1, DistributeIs DEF Columns
<1>3. Distribute(table.heights, frame.ext[2]) \in Seq(Int)
      /\ Len(Distribute(table.heights, frame.ext[2])) = Len(table.heights)
  BY <1>1, DistributeIs
<1>4. PICK n, h : n = Len(table.heights) /\ h = [i \in DOMAIN table.heights |-> AutoRow]
  OBVIOUS
<1>5. n \in Nat /\ h = [i \in 1 .. n |-> h[i]] /\ \A i \in 1 .. n : h[i] \in Int
  BY <1>1, <1>4
<1>6. h \in Seq(Int) /\ Len(h) = n
  BY ONLY <1>5, SeqIs
<1>7. Heights(table, frame) = h \/ Heights(table, frame) = Distribute(table.heights, frame.ext[2])
  BY <1>4 DEF Heights
<1>8. Heights(table, frame) \in Seq(Int) /\ Len(Heights(table, frame)) = n
  BY <1>3, <1>4, <1>6, <1>7
<1>9. QED
  BY <1>2, <1>4, <1>8

LEMMA PrefixIs ==
    ASSUME NEW tracks \in Seq(Int), NEW k \in 1 .. Len(tracks) + 1
    PROVE  Prefix(tracks)[k] \in Int
<1>1. k - 1 \in 0 .. Len(tracks) /\ Len(tracks) \in Nat
  OBVIOUS
<1>2. Sums(tracks) \in [0 .. Len(tracks) -> Int]
  BY SumsAre
<1>3. Prefix(tracks)[k] = Sums(tracks)[k - 1]
  BY DEF Prefix
<1>4. QED
  BY <1>1, <1>2, <1>3

LEMMA CellIs ==
    ASSUME NEW table, IsTable(table), NEW frame \in Transform, AutoRow \in Nat,
           NEW r \in 1 .. Len(table.rows), NEW c \in 1 .. Len(table.rows[r]), c <= Len(table.columns)
    PROVE  LET x == CellAt(table, frame, r, c)
           IN  /\ x.row = r /\ r \in 1 .. Len(table.heights) /\ x.col = c /\ c \in 1 .. Len(table.columns)
               /\ x.across \in 1 .. Len(table.columns) - c + 1 /\ x.down \in 1 .. Len(table.heights) - r + 1
               /\ table.rows[r][c].across \in 1 .. Len(table.columns) - c + 1 => x.across = table.rows[r][c].across
               /\ table.rows[r][c].down \in 1 .. Len(table.heights) - r + 1 => x.down = table.rows[r][c].down
               /\ x.box \in Int \X Int \X Int \X Int
<1>1. PICK cols, rows : cols = Len(table.columns) /\ rows = Len(table.heights)
  OBVIOUS
<1>2. cols \in Nat /\ rows \in Nat /\ r \in 1 .. rows /\ c \in 1 .. cols
  <2>1. table.columns \in Seq(Nat) /\ table.heights \in Seq(Nat) /\ Len(table.rows) = Len(table.heights)
    BY DEF IsTable
  <2>2. cols \in Nat /\ rows \in Nat /\ Len(table.rows) = rows
    BY <1>1, <2>1
  <2>3. c \in Int /\ c >= 1
    OBVIOUS
  <2>4. QED
    BY <1>1, <2>2, <2>3
<1>3. table.rows[r][c].across \in Int /\ table.rows[r][c].down \in Int
  <2>1. table.rows[r] \in Range(table.rows)
    BY RangeIs DEF IsTable
  <2>2. PICK row : row = table.rows[r]
    OBVIOUS
  <2>3. row \in Seq(Range(row)) /\ \A cell \in Range(row) : cell.across \in Int /\ cell.down \in Int
    BY <2>1, <2>2 DEF IsTable
  <2>4. row[c] \in Range(row)
    BY <2>2, <2>3, RangeIs
  <2>5. QED
    BY <2>2, <2>3, <2>4
<1>4. PICK a, d : a = table.rows[r][c].across /\ d = table.rows[r][c].down
  OBVIOUS
<1>5. PICK across, down : across = Span(a, cols - c + 1) /\ down = Span(d, rows - r + 1)
  OBVIOUS
<1>6. across \in 1 .. cols - c + 1 /\ (a \in 1 .. cols - c + 1 => across = a)
  <2>1. cols - c + 1 \in Nat \ {0} /\ a \in Int
    BY <1>2, <1>3, <1>4
  <2>2. QED
    BY <1>5, <2>1, SpanIs
<1>7. down \in 1 .. rows - r + 1 /\ (d \in 1 .. rows - r + 1 => down = d)
  <2>1. rows - r + 1 \in Nat \ {0} /\ d \in Int
    BY <1>2, <1>3, <1>4
  <2>2. QED
    BY <1>5, <2>1, SpanIs
<1>8. PICK wide, high : wide = Prefix(Columns(table, frame)) /\ high = Prefix(Heights(table, frame))
  OBVIOUS
<1>9. (\A k \in 1 .. cols + 1 : wide[k] \in Int) /\ \A k \in 1 .. rows + 1 : high[k] \in Int
  BY <1>1, <1>8, TracksAre, PrefixIs
<1>10. PICK b1, b2, b3, b4 :
          /\ b1 = frame.off[1] + wide[c] /\ b2 = frame.off[2] + high[r]
          /\ b3 = frame.off[1] + wide[c + across] /\ b4 = frame.off[2] + high[r + down]
  OBVIOUS
<1>11. CellAt(table, frame, r, c)
         = [row |-> r, col |-> c, across |-> across, down |-> down, box |-> <<b1, b2, b3, b4>>]
  BY <1>1, <1>4, <1>5, <1>8, <1>10 DEF CellAt
<1>12. b1 \in Int /\ b2 \in Int /\ b3 \in Int /\ b4 \in Int
  <2>1. frame.off[1] \in Int /\ frame.off[2] \in Int
    BY DEF Transform
  <2>2. c \in 1 .. cols + 1 /\ r \in 1 .. rows + 1 /\ c + across \in 1 .. cols + 1 /\ r + down \in 1 .. rows + 1
    BY <1>2, <1>6, <1>7
  <2>3. wide[c] \in Int /\ high[r] \in Int /\ wide[c + across] \in Int /\ high[r + down] \in Int
    BY <1>9, <2>2
  <2>4. PICK o1, o2, w1, w2, w3, w4 :
           /\ o1 = frame.off[1] /\ o2 = frame.off[2] /\ w1 = wide[c] /\ w2 = high[r]
           /\ w3 = wide[c + across] /\ w4 = high[r + down]
    OBVIOUS
  <2>5. o1 \in Int /\ o2 \in Int /\ w1 \in Int /\ w2 \in Int /\ w3 \in Int /\ w4 \in Int
    BY <2>1, <2>3, <2>4
  <2>6. b1 = o1 + w1 /\ b2 = o2 + w2 /\ b3 = o1 + w3 /\ b4 = o2 + w4
    BY <1>10, <2>4
  <2>7. QED
    BY <2>5, <2>6
<1>13. <<b1, b2, b3, b4>> \in Int \X Int \X Int \X Int
  BY <1>12
<1>14. QED
  BY <1>1, <1>2, <1>4, <1>6, <1>7, <1>11, <1>13

LEMMA TableHolds ==
    ASSUME NEW table, IsTable(table), NEW frame \in Transform, AutoRow \in Nat,
           Divides(table.columns, frame.ext[1])
    PROVE  TableExact(table, frame)
<1> DEFINE cells == Range(Cells(table, frame))
           cols  == Len(table.columns)
           rows  == Len(table.heights)
           At(r, c) == CellAt(table, frame, r, c)
           grid == (1 .. rows) \X (1 .. cols)
<1>1. \A x : x \in cells <=> \E r \in 1 .. Len(table.rows) : \E c \in 1 .. Len(table.rows[r]) :
                               Present(table, r, c) /\ x = At(r, c)
  BY CellsAre
<1>2. cols \in Nat /\ rows \in Nat /\ Len(table.rows) = rows
  BY DEF IsTable
<1>3. ASSUME NEW r \in 1 .. rows, NEW c \in 1 .. Len(table.rows[r]), c <= cols
      PROVE  /\ At(r, c).row = r /\ At(r, c).col = c /\ c \in 1 .. cols
             /\ At(r, c).across \in 1 .. cols - c + 1 /\ At(r, c).down \in 1 .. rows - r + 1
             /\ table.rows[r][c].across \in 1 .. cols - c + 1 => At(r, c).across = table.rows[r][c].across
             /\ table.rows[r][c].down \in 1 .. rows - r + 1 => At(r, c).down = table.rows[r][c].down
             /\ At(r, c).box[1] = frame.off[1] + Prefix(Columns(table, frame))[c]
             /\ At(r, c).box[2] = frame.off[2] + Prefix(Heights(table, frame))[r]
             /\ At(r, c).box[3] = frame.off[1] + Prefix(Columns(table, frame))[c + At(r, c).across]
             /\ At(r, c).box[4] = frame.off[2] + Prefix(Heights(table, frame))[r + At(r, c).down]
  <2>1. r \in 1 .. Len(table.rows)
    BY <1>2
  <2>2. /\ At(r, c).row = r /\ At(r, c).col = c /\ c \in 1 .. cols
        /\ At(r, c).across \in 1 .. cols - c + 1 /\ At(r, c).down \in 1 .. rows - r + 1
        /\ table.rows[r][c].across \in 1 .. cols - c + 1 => At(r, c).across = table.rows[r][c].across
        /\ table.rows[r][c].down \in 1 .. rows - r + 1 => At(r, c).down = table.rows[r][c].down
    <3>1. c <= Len(table.columns)
      BY <1>3
    <3>2. LET x == CellAt(table, frame, r, c)
          IN  /\ x.row = r /\ r \in 1 .. Len(table.heights) /\ x.col = c /\ c \in 1 .. Len(table.columns)
              /\ x.across \in 1 .. Len(table.columns) - c + 1 /\ x.down \in 1 .. Len(table.heights) - r + 1
              /\ table.rows[r][c].across \in 1 .. Len(table.columns) - c + 1 => x.across = table.rows[r][c].across
              /\ table.rows[r][c].down \in 1 .. Len(table.heights) - r + 1 => x.down = table.rows[r][c].down
              /\ x.box \in Int \X Int \X Int \X Int
      BY ONLY IsTable(table), frame \in Transform, AutoRow \in Nat, <2>1, c \in 1 .. Len(table.rows[r]), <3>1, CellIs
    <3>3. QED
      BY <3>2
  <2>3. /\ At(r, c).box[1] = frame.off[1] + Prefix(Columns(table, frame))[c]
        /\ At(r, c).box[2] = frame.off[2] + Prefix(Heights(table, frame))[r]
        /\ At(r, c).box[3] = frame.off[1] + Prefix(Columns(table, frame))[c + At(r, c).across]
        /\ At(r, c).box[4] = frame.off[2] + Prefix(Heights(table, frame))[r + At(r, c).down]
    BY DEF CellAt
  <2>4. QED
    BY <2>2, <2>3
<1>4. ASSUME NEW cell \in cells
      PROVE  \E r \in 1 .. rows : \E c \in 1 .. Len(table.rows[r]) :
                Present(table, r, c) /\ c <= cols /\ cell = At(r, c)
  <2> HIDE DEF cells, At
  <2>1. QED
    BY <1>1, <1>2 DEF Present
<1> HIDE DEF cells, At, cols, rows
<1>5. ASSUME NEW cell \in cells PROVE Squares(cell) \subseteq grid
  <2>1. PICK r \in 1 .. rows : \E c \in 1 .. Len(table.rows[r]) : c <= cols /\ cell = At(r, c)
    BY <1>4
  <2>2. PICK c \in 1 .. Len(table.rows[r]) : c <= cols /\ cell = At(r, c)
    BY <2>1
  <2>3. /\ cell.row = r /\ cell.col = c /\ c \in 1 .. cols
        /\ cell.across \in 1 .. cols - c + 1 /\ cell.down \in 1 .. rows - r + 1
    BY <1>3, <2>2
  <2>4. (r .. r + cell.down - 1) \subseteq 1 .. rows /\ (c .. c + cell.across - 1) \subseteq 1 .. cols
    BY <1>2, <2>3
  <2>5. QED
    BY <2>3, <2>4 DEF Squares
<1>6. ASSUME NEW cell \in cells, NEW other \in cells
      PROVE  /\ cell.col + cell.across = other.col => cell.box[3] = other.box[1]
             /\ cell.row + cell.down = other.row => cell.box[4] = other.box[2]
  <2>1. PICK r \in 1 .. rows : \E c \in 1 .. Len(table.rows[r]) : c <= cols /\ cell = At(r, c)
    BY <1>4
  <2>2. PICK c \in 1 .. Len(table.rows[r]) : c <= cols /\ cell = At(r, c)
    BY <2>1
  <2>3. PICK s \in 1 .. rows : \E d \in 1 .. Len(table.rows[s]) : d <= cols /\ other = At(s, d)
    BY <1>4
  <2>4. PICK d \in 1 .. Len(table.rows[s]) : d <= cols /\ other = At(s, d)
    BY <2>3
  <2>5. /\ cell.row = r /\ cell.col = c
        /\ cell.box[3] = frame.off[1] + Prefix(Columns(table, frame))[c + cell.across]
        /\ cell.box[4] = frame.off[2] + Prefix(Heights(table, frame))[r + cell.down]
    BY <1>3, <2>2
  <2>6. /\ other.row = s /\ other.col = d
        /\ other.box[1] = frame.off[1] + Prefix(Columns(table, frame))[d]
        /\ other.box[2] = frame.off[2] + Prefix(Heights(table, frame))[s]
    BY <1>3, <2>4
  <2>7. QED
    BY <2>5, <2>6
<1>7. ASSUME WellMerged(table), NEW q \in grid
      PROVE  Cardinality({cell \in cells : q \in Squares(cell)}) = 1
  <2> DEFINE Here(p) == table.rows[p[1]][p[2]]
             Merge(p) == (p[1] .. p[1] + Here(p).down - 1) \X (p[2] .. p[2] + Here(p).across - 1)
             anchors == {p \in grid : ~ Here(p).covered}
  <2>1. /\ \A r \in 1 .. rows : Len(table.rows[r]) = cols
        /\ \A p \in anchors : Here(p).across > 0 /\ Here(p).down > 0 /\ Merge(p) \subseteq grid
        /\ Cardinality({p \in anchors : q \in Merge(p)}) = 1
    BY <1>7 DEF WellMerged, cols, rows
  <2>2. \A p \in grid : p[1] \in 1 .. rows /\ p[2] \in 1 .. cols /\ p = <<p[1], p[2]>>
    OBVIOUS
  <2>3. ASSUME NEW p \in anchors
        PROVE  Squares(At(p[1], p[2])) = Merge(p) /\ At(p[1], p[2]) \in cells
    <3>1. PICK r, c : r = p[1] /\ c = p[2]
      OBVIOUS
    <3>2. r \in 1 .. rows /\ c \in 1 .. cols /\ c \in 1 .. Len(table.rows[r]) /\ c <= cols /\ ~ table.rows[r][c].covered
      <4>1. p \in grid /\ ~ table.rows[r][c].covered
        BY <3>1
      <4>2. r \in 1 .. rows /\ c \in 1 .. cols
        BY <2>2, <3>1, <4>1
      <4>3. Len(table.rows[r]) = cols
        BY <2>1, <4>2
      <4>4. QED
        BY <1>2, <4>1, <4>2, <4>3
    <3>3. PICK a, d : a = table.rows[r][c].across /\ d = table.rows[r][c].down
      OBVIOUS
    <3>4. a \in Int /\ d \in Int
      <4>1. table.rows[r] \in Range(table.rows)
        BY <1>2, <3>2, RangeIs DEF IsTable
      <4>2. PICK row : row = table.rows[r]
        OBVIOUS
      <4>3. row \in Seq(Range(row)) /\ \A cell \in Range(row) : cell.across \in Int /\ cell.down \in Int
        BY <4>1, <4>2 DEF IsTable
      <4>4. row[c] \in Range(row)
        BY <3>2, <4>2, <4>3, RangeIs
      <4>5. QED
        BY <3>3, <4>2, <4>3, <4>4
    <3>5. a > 0 /\ d > 0 /\ (r .. r + d - 1) \X (c .. c + a - 1) \subseteq grid
      BY <2>1, <3>1, <3>3
    <3>6. a \in 1 .. cols - c + 1 /\ d \in 1 .. rows - r + 1
      <4>1. r + d - 1 \in r .. r + d - 1 /\ c + a - 1 \in c .. c + a - 1
        BY <3>2, <3>4, <3>5
      <4>2. <<r + d - 1, c + a - 1>> \in grid
        BY <3>5, <4>1
      <4>3. r + d - 1 \in 1 .. rows /\ c + a - 1 \in 1 .. cols
        BY <4>2
      <4>4. PICK w, h, y, x : w = cols /\ h = rows /\ y = r /\ x = c
        OBVIOUS
      <4>5. w \in Nat /\ h \in Nat /\ y \in Int /\ x \in Int /\ a \in Int /\ d \in Int /\ a > 0 /\ d > 0
        BY <1>2, <3>2, <3>4, <3>5, <4>4
      <4>6. y + d - 1 \in 1 .. h /\ x + a - 1 \in 1 .. w
        BY <4>3, <4>4
      <4>7. a \in 1 .. w - x + 1 /\ d \in 1 .. h - y + 1
        BY ONLY <4>5, <4>6
      <4>8. QED
        BY <4>4, <4>7
    <3>7. At(r, c).row = r /\ At(r, c).col = c /\ At(r, c).across = a /\ At(r, c).down = d
      BY <1>3, <3>2, <3>3, <3>6
    <3>8. Squares(At(r, c)) = (r .. r + d - 1) \X (c .. c + a - 1)
      BY <3>7 DEF Squares
    <3>9. At(r, c) \in cells
      BY <1>1, <1>2, <3>2 DEF Present, At, cols
    <3>10. QED
      BY <3>1, <3>3, <3>8, <3>9
  <2>4. ASSUME NEW cell \in cells PROVE \E p \in anchors : cell = At(p[1], p[2])
    <3>1. PICK r \in 1 .. rows : \E c \in 1 .. Len(table.rows[r]) : Present(table, r, c) /\ c <= cols /\ cell = At(r, c)
      BY <1>4
    <3>2. PICK c \in 1 .. Len(table.rows[r]) : Present(table, r, c) /\ c <= cols /\ cell = At(r, c)
      BY <3>1
    <3>3. c \in 1 .. cols
      BY <2>1
    <3>4. <<r, c>> \in anchors
      BY <3>2, <3>3 DEF Present
    <3>5. QED
      BY <3>2, <3>4
  <2>5. PICK p0 : {p \in anchors : q \in Merge(p)} = {p0}
    <3> DEFINE these == {p \in anchors : q \in Merge(p)}
    <3>1. IsFiniteSet(these)
      <4>1. IsFiniteSet(grid)
        <5>1. IsFiniteSet(1 .. rows) /\ IsFiniteSet(1 .. cols)
          BY <1>2, FS_Interval
        <5>2. QED
          BY <5>1, FS_Product
      <4>2. these \in SUBSET grid
        OBVIOUS
      <4>3. QED
        BY <4>1, <4>2, FS_Subset
    <3>2. Cardinality(these) = 1
      BY <2>1
    <3> HIDE DEF these
    <3>3. \E x : these = {x}
      BY <3>1, <3>2, FS_Singleton
    <3>4. QED
      BY <3>3 DEF these
  <2> HIDE DEF anchors, Merge
  <2>6. p0 \in anchors /\ q \in Merge(p0) /\ \A p \in anchors : q \in Merge(p) => p = p0
    BY <2>5
  <2>7. {cell \in cells : q \in Squares(cell)} = {At(p0[1], p0[2])}
    BY <2>3, <2>4, <2>6
  <2>8. QED
    BY <2>7, FS_Singleton
<1>8. /\ (\E c \in 1 .. cols : table.columns[c] = 0) /\ Total(table.columns) <= frame.ext[1]
           => Total(Columns(table, frame)) = frame.ext[1]
      /\ \A c \in 1 .. cols : table.columns[c] > 0 => Columns(table, frame)[c] = table.columns[c]
  <2>1. table.columns \in Seq(Nat) /\ frame.ext[1] \in Nat
    BY DEF IsTable, Transform
  <2>2. QED
    BY <2>1, DistributeIs DEF Columns, cols
<1>9. QED
  BY <1>5, <1>6, <1>7, <1>8 DEF TableExact, cells, cols, rows

(***************************************************************************)
(* The way of a shape to its place on the slide.                           *)
(***************************************************************************)
Plane == Int \X Int
Matrix == [a : Int, b : Int, c : Int, d : Int, e : Int, f : Int]

(* One matrix after the other is their product.                            *)
LEMMA Product ==
    ASSUME NEW m \in Matrix, NEW n \in Matrix, NEW p \in Plane
    PROVE  /\ Multiply(m, n) \in Matrix /\ TransformPoint(m, p) \in Plane
           /\ TransformPoint(Multiply(m, n), p) = TransformPoint(n, TransformPoint(m, p))
<1> DEFINE x == p[1]  y == p[2]
<1>1. /\ m.a \in Int /\ m.b \in Int /\ m.c \in Int /\ m.d \in Int /\ m.e \in Int /\ m.f \in Int
      /\ n.a \in Int /\ n.b \in Int /\ n.c \in Int /\ n.d \in Int /\ n.e \in Int /\ n.f \in Int
      /\ x \in Int /\ y \in Int
  BY DEF Matrix, Plane
<1>2. Multiply(m, n) \in Matrix
  BY <1>1 DEF Multiply, Matrix
<1>3. TransformPoint(m, p) = <<m.a * x + m.c * y + m.e, m.b * x + m.d * y + m.f>>
  BY DEF TransformPoint
<1> HIDE DEF x, y
<1>4. TransformPoint(m, p) \in Plane
  BY <1>1, <1>3 DEF Plane
<1>5. TransformPoint(n, TransformPoint(m, p)) =
         <<n.a * (m.a * x + m.c * y + m.e) + n.c * (m.b * x + m.d * y + m.f) + n.e,
           n.b * (m.a * x + m.c * y + m.e) + n.d * (m.b * x + m.d * y + m.f) + n.f>>
  BY <1>3 DEF TransformPoint
<1>6. TransformPoint(Multiply(m, n), p) =
         <<(m.a * n.a + m.b * n.c) * x + (m.c * n.a + m.d * n.c) * y + (m.e * n.a + m.f * n.c + n.e),
           (m.a * n.b + m.b * n.d) * x + (m.c * n.b + m.d * n.d) * y + (m.e * n.b + m.f * n.d + n.f)>>
  BY DEF TransformPoint, Multiply, x, y
<1>7. ASSUME NEW A \in Int, NEW B \in Int, NEW C \in Int, NEW D \in Int, NEW E \in Int, NEW F \in Int,
             NEW G \in Int, NEW H \in Int, NEW I \in Int
      PROVE  (A * G + B * H) * x + (C * G + D * H) * y + (E * G + F * H + I)
               = G * (A * x + C * y + E) + H * (B * x + D * y + F) + I
  BY <1>1
<1>8. (m.a * n.a + m.b * n.c) * x + (m.c * n.a + m.d * n.c) * y + (m.e * n.a + m.f * n.c + n.e)
        = n.a * (m.a * x + m.c * y + m.e) + n.c * (m.b * x + m.d * y + m.f) + n.e
  BY <1>1, <1>7
<1>9. (m.a * n.b + m.b * n.d) * x + (m.c * n.b + m.d * n.d) * y + (m.e * n.b + m.f * n.d + n.f)
        = n.b * (m.a * x + m.c * y + m.e) + n.d * (m.b * x + m.d * y + m.f) + n.f
  BY <1>1, <1>7
<1>10. QED
  BY <1>2, <1>4, <1>5, <1>6, <1>8, <1>9

\* What a transform and the transform of a group have in common.
Turns(x) ==
    /\ x.off[1] \in Int /\ x.off[2] \in Int /\ x.ext[1] \in Nat /\ x.ext[2] \in Nat
    /\ x.flipH \in BOOLEAN /\ x.flipV \in BOOLEAN /\ x.turn \in 0 .. 3

LEMMA TransformTurns == \A x : x \in Transform \/ IsGroup(x) => Turns(x)
BY DEF Transform, IsGroup, Turns

FlipOf(x) == [Identity EXCEPT !.a = IF x.flipH THEN -1 ELSE 1, !.d = IF x.flipV THEN -1 ELSE 1]
Quarter == [a |-> 0, b |-> 1, c |-> -1, d |-> 0, e |-> 0, f |-> 0]

(* The flips and turns as a matrix, and where it takes a point.            *)
LEMMA FlipIs ==
    ASSUME NEW x, Turns(x), NEW p \in Plane
    PROVE  /\ FlipOf(x) \in Matrix
           /\ TransformPoint(FlipOf(x), p)
                = <<IF x.flipH THEN 0 - p[1] ELSE p[1], IF x.flipV THEN 0 - p[2] ELSE p[2]>>
<1>1. p[1] \in Int /\ p[2] \in Int
  BY DEF Plane
<1>2. FlipOf(x) = [a |-> IF x.flipH THEN -1 ELSE 1, b |-> 0, c |-> 0, d |-> IF x.flipV THEN -1 ELSE 1, e |-> 0, f |-> 0]
  <2>1. PICK s, t, r : s = (IF x.flipH THEN -1 ELSE 1) /\ t = (IF x.flipV THEN -1 ELSE 1) /\ r = Identity
    OBVIOUS
  <2>2. r = [a |-> 1, b |-> 0, c |-> 0, d |-> 1, e |-> 0, f |-> 0]
    BY <2>1 DEF Identity
  <2>3. FlipOf(x) = [r EXCEPT !.a = s, !.d = t]
    BY <2>1 DEF FlipOf
  <2>4. PICK h : h = [r EXCEPT !.a = s]
    OBVIOUS
  <2>5. h = [a |-> s, b |-> 0, c |-> 0, d |-> 1, e |-> 0, f |-> 0]
    BY ONLY <2>2, <2>4
  <2>6. [r EXCEPT !.a = s, !.d = t] = [h EXCEPT !.d = t]
    BY ONLY <2>4
  <2>7. [h EXCEPT !.d = t] = [a |-> s, b |-> 0, c |-> 0, d |-> t, e |-> 0, f |-> 0]
    BY ONLY <2>5
  <2>8. QED
    BY <2>1, <2>3, <2>6, <2>7
<1>3. FlipOf(x) \in Matrix
  BY <1>2 DEF Matrix
<1>4. PICK u, v : u = p[1] /\ v = p[2]
  OBVIOUS
<1>5. TransformPoint(FlipOf(x), p)
        = <<(IF x.flipH THEN -1 ELSE 1) * u + 0 * v + 0, 0 * u + (IF x.flipV THEN -1 ELSE 1) * v + 0>>
  BY <1>2, <1>4 DEF TransformPoint
<1>6. (IF x.flipH THEN -1 ELSE 1) * u + 0 * v + 0 = IF x.flipH THEN 0 - u ELSE u
  BY <1>1, <1>4
<1>7. 0 * u + (IF x.flipV THEN -1 ELSE 1) * v + 0 = IF x.flipV THEN 0 - v ELSE v
  BY <1>1, <1>4
<1>8. QED
  BY <1>3, <1>4, <1>5, <1>6, <1>7

LEMMA QuarterIs ==
    /\ Quarter \in Matrix
    /\ \A p \in Plane : TransformPoint(Quarter, p) = <<0 - p[2], p[1]>>
<1>1. Quarter \in Matrix
  BY DEF Quarter, Matrix
<1>2. ASSUME NEW p \in Plane PROVE TransformPoint(Quarter, p) = <<0 - p[2], p[1]>>
  <2>1. PICK u, v : u = p[1] /\ v = p[2]
    OBVIOUS
  <2>2. u \in Int /\ v \in Int
    BY <2>1 DEF Plane
  <2>3. TransformPoint(Quarter, p) = <<0 * u + (-1) * v + 0, 1 * u + 0 * v + 0>>
    BY <2>1 DEF TransformPoint, Quarter
  <2>4. 0 * u + (-1) * v + 0 = 0 - v /\ 1 * u + 0 * v + 0 = u
    BY <2>2
  <2>5. QED
    BY <2>1, <2>3, <2>4
<1>3. QED
  BY <1>1, <1>2

LEMMA ShiftIs ==
    ASSUME NEW d \in Plane
    PROVE  Shift(d) \in Matrix /\ \A p \in Plane : TransformPoint(Shift(d), p) = <<p[1] + d[1], p[2] + d[2]>>
<1>1. d[1] \in Int /\ d[2] \in Int
  BY DEF Plane
<1>2. Shift(d) = [a |-> 1, b |-> 0, c |-> 0, d |-> 1, e |-> d[1], f |-> d[2]]
  <2>1. PICK s, t, r : s = d[1] /\ t = d[2] /\ r = Identity
    OBVIOUS
  <2>2. r = [a |-> 1, b |-> 0, c |-> 0, d |-> 1, e |-> 0, f |-> 0]
    BY <2>1 DEF Identity
  <2>3. Shift(d) = [r EXCEPT !.e = s, !.f = t]
    BY <2>1 DEF Shift
  <2>4. PICK h : h = [r EXCEPT !.e = s]
    OBVIOUS
  <2>5. h = [a |-> 1, b |-> 0, c |-> 0, d |-> 1, e |-> s, f |-> 0]
    BY ONLY <2>2, <2>4
  <2>6. [r EXCEPT !.e = s, !.f = t] = [h EXCEPT !.f = t]
    BY ONLY <2>4
  <2>7. [h EXCEPT !.f = t] = [a |-> 1, b |-> 0, c |-> 0, d |-> 1, e |-> s, f |-> t]
    BY ONLY <2>5
  <2>8. QED
    BY <2>1, <2>3, <2>6, <2>7
<1>3. Shift(d) \in Matrix
  BY <1>1, <1>2 DEF Matrix
<1>4. ASSUME NEW p \in Plane PROVE TransformPoint(Shift(d), p) = <<p[1] + d[1], p[2] + d[2]>>
  <2>1. PICK u, v, s, t : u = p[1] /\ v = p[2] /\ s = d[1] /\ t = d[2]
    OBVIOUS
  <2>2. u \in Int /\ v \in Int /\ s \in Int /\ t \in Int
    BY <1>1, <2>1 DEF Plane
  <2>3. TransformPoint(Shift(d), p) = <<1 * u + 0 * v + s, 0 * u + 1 * v + t>>
    BY <1>2, <2>1 DEF TransformPoint
  <2>4. 1 * u + 0 * v + s = u + s /\ 0 * u + 1 * v + t = v + t
    BY <2>2
  <2>5. QED
    BY <2>1, <2>3, <2>4
<1>5. QED
  BY <1>3, <1>4

(* The flips and so many quarter turns.                                    *)
LEMMA TurnedIs ==
    ASSUME NEW x, Turns(x), NEW f,
           f = [q \in 0 .. x.turn |-> IF q = 0 THEN FlipOf(x) ELSE Multiply(f[q - 1], Quarter)],
           NEW p \in Plane
    PROVE  /\ f[x.turn] \in Matrix
           /\ TransformPoint(f[x.turn], p) =
                LET u == IF x.flipH THEN 0 - p[1] ELSE p[1]
                    v == IF x.flipV THEN 0 - p[2] ELSE p[2]
                IN  CASE x.turn = 1 -> <<0 - v, u>> [] x.turn = 2 -> <<0 - u, 0 - v>>
                      [] x.turn = 3 -> <<v, 0 - u>> [] OTHER -> <<u, v>>
<1>1. x.turn \in 0 .. 3
  BY DEF Turns
<1>2. PICK u, v : u = (IF x.flipH THEN 0 - p[1] ELSE p[1]) /\ v = IF x.flipV THEN 0 - p[2] ELSE p[2]
  OBVIOUS
<1>3. u \in Int /\ v \in Int
  BY <1>2 DEF Plane
<1>4. PICK m0 : m0 = FlipOf(x)
  OBVIOUS
<1>5. m0 \in Matrix /\ TransformPoint(m0, p) = <<u, v>>
  BY <1>2, <1>4, FlipIs
<1>6. PICK m1 : m1 = Multiply(m0, Quarter)
  OBVIOUS
<1>7. m1 \in Matrix /\ TransformPoint(m1, p) = <<0 - v, u>>
  <2>1. m1 \in Matrix /\ TransformPoint(m1, p) = TransformPoint(Quarter, TransformPoint(m0, p))
    BY <1>5, <1>6, Product, QuarterIs
  <2>2. <<u, v>> \in Plane /\ <<u, v>>[1] = u /\ <<u, v>>[2] = v
    BY <1>3 DEF Plane
  <2>3. QED
    BY <1>5, <2>1, <2>2, QuarterIs
<1>8. PICK m2 : m2 = Multiply(m1, Quarter)
  OBVIOUS
<1>9. m2 \in Matrix /\ TransformPoint(m2, p) = <<0 - u, 0 - v>>
  <2>1. m2 \in Matrix /\ TransformPoint(m2, p) = TransformPoint(Quarter, TransformPoint(m1, p))
    BY <1>7, <1>8, Product, QuarterIs
  <2>2. <<0 - v, u>> \in Plane /\ <<0 - v, u>>[1] = 0 - v /\ <<0 - v, u>>[2] = u
    BY <1>3 DEF Plane
  <2>3. QED
    BY <1>7, <2>1, <2>2, QuarterIs
<1>10. PICK m3 : m3 = Multiply(m2, Quarter)
  OBVIOUS
<1>11. m3 \in Matrix /\ TransformPoint(m3, p) = <<v, 0 - u>>
  <2>1. m3 \in Matrix /\ TransformPoint(m3, p) = TransformPoint(Quarter, TransformPoint(m2, p))
    BY <1>9, <1>10, Product, QuarterIs
  <2>2. <<0 - u, 0 - v>> \in Plane /\ <<0 - u, 0 - v>>[1] = 0 - u /\ <<0 - u, 0 - v>>[2] = 0 - v
    BY <1>3 DEF Plane
  <2>3. 0 - (0 - v) = v
    BY <1>3
  <2>4. QED
    BY <1>9, <2>1, <2>2, <2>3, QuarterIs
<1>12. \A q \in 0 .. x.turn : f[q] = IF q = 0 THEN m0 ELSE Multiply(f[q - 1], Quarter)
  BY <1>4
<1>13. CASE x.turn = 0
  BY <1>2, <1>5, <1>12, <1>13
<1>14. CASE x.turn = 1
  <2>1. f[1] = m1
    BY <1>6, <1>12, <1>14
  <2>2. QED
    BY <1>2, <1>7, <1>14, <2>1
<1>15. CASE x.turn = 2
  <2>1. f[2] = m2
    BY <1>6, <1>8, <1>12, <1>15
  <2>2. QED
    BY <1>2, <1>9, <1>15, <2>1
<1>16. CASE x.turn = 3
  <2>1. f[3] = m3
    BY <1>6, <1>8, <1>10, <1>12, <1>16
  <2>2. QED
    BY <1>2, <1>11, <1>16, <2>1
<1>17. QED
  BY <1>1, <1>13, <1>14, <1>15, <1>16

(* The turn of a shape or group about its centre.                          *)
LEMMA TurningIs ==
    ASSUME NEW x, Turns(x)
    PROVE  /\ Turning(x) \in Matrix
           /\ \A p \in Plane : TransformPoint(Turning(x), p) = FlipRotate(p, Centre(x), x)
<1>1. PICK c : c = Centre(x)
  OBVIOUS
<1>2. c[1] \in Int /\ c[2] \in Int /\ c = <<c[1], c[2]>> /\ c \in Plane
  <2>1. PICK o1, o2, e1, e2 : o1 = x.off[1] /\ o2 = x.off[2] /\ e1 = x.ext[1] /\ e2 = x.ext[2]
    OBVIOUS
  <2>2. o1 \in Int /\ o2 \in Int /\ e1 \in Nat /\ e2 \in Nat
    BY <2>1 DEF Turns
  <2>3. c = <<o1 + e1 \div 2, o2 + e2 \div 2>>
    BY <1>1, <2>1 DEF Centre
  <2>4. o1 + e1 \div 2 \in Int /\ o2 + e2 \div 2 \in Int
    BY <2>2
  <2>5. QED
    BY <2>3, <2>4 DEF Plane
<1>3. PICK n : n = x.turn
  OBVIOUS
<1>4. n \in 0 .. 3 /\ n \in Nat
  BY <1>3 DEF Turns
<1> DEFINE rhs(g) == [q \in 0 .. n |-> IF q = 0 THEN FlipOf(x) ELSE Multiply(g[q - 1], Quarter)]
<1>5. Turning(x) = Multiply(Multiply(Shift(<<0 - c[1], 0 - c[2]>>), (CHOOSE g : g = rhs(g))[n]), Shift(c))
  BY <1>1, <1>3 DEF Turning, FlipOf, Quarter
<1>6. \E g : g = rhs(g)
  <2> DEFINE step == [s \in (1 .. n) \X Matrix |-> Multiply(s[2], Quarter)]
  <2>1. FlipOf(x) \in Matrix /\ Quarter \in Matrix
    BY <1>2, FlipIs, QuarterIs
  <2>2. \A k \in 1 .. n, m \in Matrix : step[<<k, m>>] = Multiply(m, Quarter) /\ step[<<k, m>>] \in Matrix
    <3> TAKE k \in 1 .. n, m \in Matrix
    <3>1. step[<<k, m>>] = Multiply(m, Quarter)
      OBVIOUS
    <3>2. Multiply(m, Quarter) \in Matrix
      BY <1>2, <2>1, Product
    <3>3. QED
      BY <3>1, <3>2
  <2> HIDE DEF step
  <2>3. PICK f : Stepwise(f, n, Matrix, FlipOf(x), step)
    BY <1>4, <2>1, <2>2, StepsExist, Zenon
  <2>4. f \in [0 .. n -> Matrix] /\ f[0] = FlipOf(x) /\ \A k \in 1 .. n : f[k] = step[<<k, f[k - 1]>>]
    BY <2>3 DEF Stepwise
  <2>5. ASSUME NEW k \in 0 .. n PROVE f[k] = IF k = 0 THEN FlipOf(x) ELSE Multiply(f[k - 1], Quarter)
    <3>1. CASE k = 0
      BY <2>4, <3>1
    <3>2. CASE k # 0
      <4>1. k \in 1 .. n /\ k - 1 \in 0 .. n
        BY <1>4, <3>2
      <4>2. f[k - 1] \in Matrix
        BY <2>4, <4>1
      <4>3. QED
        BY <2>2, <2>4, <3>2, <4>1, <4>2
    <3>3. QED
      BY <3>1, <3>2
  <2>6. f = [k \in 0 .. n |-> f[k]]
    BY <2>4
  <2>7. f = rhs(f)
    BY <2>5, <2>6
  <2>8. QED
    BY <2>7
<1>7. PICK g : g = rhs(g) /\ g = CHOOSE h : h = rhs(h)
  <2> HIDE DEF rhs
  <2>1. QED
    BY <1>6
<1>8. PICK m : m = g[n]
  OBVIOUS
<1>9. \A p \in Plane :
         /\ m \in Matrix
         /\ TransformPoint(m, p) =
              LET u == IF x.flipH THEN 0 - p[1] ELSE p[1]
                  v == IF x.flipV THEN 0 - p[2] ELSE p[2]
              IN  CASE x.turn = 1 -> <<0 - v, u>> [] x.turn = 2 -> <<0 - u, 0 - v>>
                    [] x.turn = 3 -> <<v, 0 - u>> [] OTHER -> <<u, v>>
  <2>1. g = [q \in 0 .. x.turn |-> IF q = 0 THEN FlipOf(x) ELSE Multiply(g[q - 1], Quarter)]
    BY ONLY <1>3, <1>7
  <2>2. m = g[x.turn]
    BY ONLY <1>3, <1>8
  <2> HIDE DEF rhs
  <2>3. TAKE p \in Plane
  <2>4. Turns(x) /\ p \in Plane
    OBVIOUS
  <2>5. /\ g[x.turn] \in Matrix
        /\ TransformPoint(g[x.turn], p) =
             LET u == IF x.flipH THEN 0 - p[1] ELSE p[1]
                 v == IF x.flipV THEN 0 - p[2] ELSE p[2]
             IN  CASE x.turn = 1 -> <<0 - v, u>> [] x.turn = 2 -> <<0 - u, 0 - v>>
                   [] x.turn = 3 -> <<v, 0 - u>> [] OTHER -> <<u, v>>
    BY ONLY <2>1, <2>4, TurnedIs
  <2>6. QED
    BY <2>2, <2>5
<1> HIDE DEF rhs
<1>10. PICK s, t, d : s = Shift(d) /\ t = Shift(c) /\ d = <<0 - c[1], 0 - c[2]>>
  OBVIOUS
<1>11. d \in Plane /\ d[1] = 0 - c[1] /\ d[2] = 0 - c[2]
  BY <1>2, <1>10 DEF Plane
<1>12. /\ s \in Matrix /\ t \in Matrix /\ m \in Matrix
       /\ \A p \in Plane : TransformPoint(s, p) = <<p[1] + d[1], p[2] + d[2]>>
                            /\ TransformPoint(t, p) = <<p[1] + c[1], p[2] + c[2]>>
  BY <1>2, <1>9, <1>10, <1>11, ShiftIs
<1>13. Turning(x) = Multiply(Multiply(s, m), t)
  BY <1>5, <1>7, <1>8, <1>10
<1>14. Turning(x) \in Matrix
  <2>1. Multiply(s, m) \in Matrix
    BY <1>2, <1>12, Product
  <2>2. QED
    BY <1>2, <1>12, <1>13, <2>1, Product
<1>15. ASSUME NEW p \in Plane
       PROVE  TransformPoint(Turning(x), p) = FlipRotate(p, c, x)
  <2>1. PICK a, b, j, k : a = p[1] /\ b = p[2] /\ j = c[1] /\ k = c[2]
    OBVIOUS
  <2>2. a \in Int /\ b \in Int /\ j \in Int /\ k \in Int
    BY <1>2, <2>1 DEF Plane
  <2>3. PICK p1 : p1 = TransformPoint(s, p)
    OBVIOUS
  <2>4. p1 = <<a + (0 - j), b + (0 - k)>>
    BY <1>11, <1>12, <2>1, <2>3
  <2>5. p1[1] = a - j /\ p1[2] = b - k /\ p1 \in Plane
    BY <2>2, <2>4 DEF Plane
  <2>6. PICK p2 : p2 = TransformPoint(m, p1)
    OBVIOUS
  <2>7. p2 \in Plane
    BY <1>12, <2>5, <2>6, Product
  <2>8. PICK u, v : u = (IF x.flipH THEN j - a ELSE a - j) /\ v = IF x.flipV THEN k - b ELSE b - k
    OBVIOUS
  <2>9. u \in Int /\ v \in Int
    BY <2>2, <2>8
  <2>10. p2 = CASE n = 1 -> <<0 - v, u>> [] n = 2 -> <<0 - u, 0 - v>> [] n = 3 -> <<v, 0 - u>> [] OTHER -> <<u, v>>
    <3>1. u = (IF x.flipH THEN 0 - p1[1] ELSE p1[1]) /\ v = (IF x.flipV THEN 0 - p1[2] ELSE p1[2])
      BY <2>2, <2>5, <2>8
    <3>2. TransformPoint(m, p1) =
              LET w == IF x.flipH THEN 0 - p1[1] ELSE p1[1]
                  z == IF x.flipV THEN 0 - p1[2] ELSE p1[2]
              IN  CASE x.turn = 1 -> <<0 - z, w>> [] x.turn = 2 -> <<0 - w, 0 - z>>
                    [] x.turn = 3 -> <<z, 0 - w>> [] OTHER -> <<w, z>>
      BY <1>9, <2>5
    <3>3. QED
      BY <1>3, <2>6, <3>1, <3>2
  <2>11. TransformPoint(Multiply(s, m), p) = p2 /\ Multiply(s, m) \in Matrix
    BY <1>12, <2>3, <2>6, Product
  <2>12. TransformPoint(Turning(x), p) = TransformPoint(t, p2)
    BY <1>12, <1>13, <2>11, Product
  <2>13. TransformPoint(t, p2) = <<p2[1] + j, p2[2] + k>>
    BY <1>12, <2>1, <2>7
  <2>14. PICK fl1, fl2 : fl1 = (IF x.flipH THEN 2 * j - a ELSE a) /\ fl2 = IF x.flipV THEN 2 * k - b ELSE b
    OBVIOUS
  <2>15. fl1 - j = u /\ fl2 - k = v /\ fl1 = u + j /\ fl2 = v + k
    <3>1. CASE x.flipH /\ x.flipV
      BY <2>2, <2>8, <2>14, <3>1
    <3>2. CASE x.flipH /\ ~ x.flipV
      BY <2>2, <2>8, <2>14, <3>2
    <3>3. CASE ~ x.flipH /\ x.flipV
      BY <2>2, <2>8, <2>14, <3>3
    <3>4. CASE ~ x.flipH /\ ~ x.flipV
      BY <2>2, <2>8, <2>14, <3>4
    <3>5. QED
      BY <3>1, <3>2, <3>3, <3>4
  <2>16. FlipRotate(p, c, x)
           = CASE n = 1 -> <<j - v, k + u>> [] n = 2 -> <<j - u, k - v>> [] n = 3 -> <<j + v, k - u>>
               [] OTHER -> <<fl1, fl2>>
    BY <1>3, <2>1, <2>14, <2>15 DEF FlipRotate
  <2>17. CASE n = 1
    BY <2>2, <2>9, <2>10, <2>12, <2>13, <2>16, <2>17
  <2>18. CASE n = 2
    BY <2>2, <2>9, <2>10, <2>12, <2>13, <2>16, <2>18
  <2>19. CASE n = 3
    BY <2>2, <2>9, <2>10, <2>12, <2>13, <2>16, <2>19
  <2>20. CASE n = 0
    BY <2>2, <2>9, <2>10, <2>12, <2>13, <2>15, <2>16, <2>20
  <2>21. QED
    BY <1>1, <1>4, <2>17, <2>18, <2>19, <2>20
<1>16. QED
  BY <1>1, <1>14, <1>15

(* A group stretches what is in it to its own extent and turns it.         *)
LEMMA GroupIs ==
    ASSUME NEW g, IsGroup(g), g.chExt[1] # 0, g.chExt[2] # 0
    PROVE  /\ Multiply(Scaling(g), Turning(g)) \in Matrix
           /\ \A p \in Plane : /\ TransformGroup(p, g) = TransformPoint(Multiply(Scaling(g), Turning(g)), p)
                                /\ TransformGroup(p, g) \in Plane
<1>1. PICK a1, a2, b1, b2, c1, c2, o1, o2 :
         /\ a1 = g.ext[1] /\ a2 = g.ext[2] /\ b1 = g.chExt[1] /\ b2 = g.chExt[2]
         /\ c1 = g.chOff[1] /\ c2 = g.chOff[2] /\ o1 = g.off[1] /\ o2 = g.off[2]
  OBVIOUS
<1>2. /\ a1 \in Nat /\ a2 \in Nat /\ b1 \in Nat \ {0} /\ b2 \in Nat \ {0}
      /\ c1 \in Int /\ c2 \in Int /\ o1 \in Int /\ o2 \in Int
      /\ a1 % b1 = 0 /\ a2 % b2 = 0
  BY <1>1 DEF IsGroup
<1>3. PICK k1, k2 : k1 = a1 \div b1 /\ k2 = a2 \div b2
  OBVIOUS
<1>4. k1 \in Int /\ k2 \in Int /\ a1 = b1 * k1 /\ a2 = b2 * k2
  BY <1>2, <1>3
<1>5. PICK s : s = Scaling(g)
  OBVIOUS
<1>6. s = [a |-> k1, b |-> 0, c |-> 0, d |-> k2, e |-> o1 - c1 * k1, f |-> o2 - c2 * k2]
  <2>1. PICK e, f, r : e = o1 - c1 * k1 /\ f = o2 - c2 * k2 /\ r = Identity
    OBVIOUS
  <2>2. r = [a |-> 1, b |-> 0, c |-> 0, d |-> 1, e |-> 0, f |-> 0]
    BY <2>1 DEF Identity
  <2>3. s = [r EXCEPT !.a = k1, !.d = k2, !.e = e, !.f = f]
    BY <1>1, <1>3, <1>5, <2>1 DEF Scaling
  <2>4. PICK h1 : h1 = [r EXCEPT !.a = k1]
    OBVIOUS
  <2>5. h1 = [a |-> k1, b |-> 0, c |-> 0, d |-> 1, e |-> 0, f |-> 0]
    BY ONLY <2>2, <2>4
  <2>6. PICK h2 : h2 = [h1 EXCEPT !.d = k2]
    OBVIOUS
  <2>7. h2 = [a |-> k1, b |-> 0, c |-> 0, d |-> k2, e |-> 0, f |-> 0]
    BY ONLY <2>5, <2>6
  <2>8. PICK h3 : h3 = [h2 EXCEPT !.e = e]
    OBVIOUS
  <2>9. h3 = [a |-> k1, b |-> 0, c |-> 0, d |-> k2, e |-> e, f |-> 0]
    BY ONLY <2>7, <2>8
  <2>10. s = [h3 EXCEPT !.f = f]
    BY ONLY <2>3, <2>4, <2>6, <2>8
  <2>11. s = [a |-> k1, b |-> 0, c |-> 0, d |-> k2, e |-> e, f |-> f]
    BY ONLY <2>9, <2>10
  <2>12. QED
    BY <2>1, <2>11
<1>7. s \in Matrix
  <2>1. o1 - c1 * k1 \in Int /\ o2 - c2 * k2 \in Int
    BY <1>2, <1>4
  <2>2. QED
    BY <1>4, <1>6, <2>1 DEF Matrix
<1>8. Turns(g)
  BY TransformTurns
<1>9. PICK t : t = Turning(g)
  OBVIOUS
<1>10. t \in Matrix /\ \A p \in Plane : TransformPoint(t, p) = FlipRotate(p, Centre(g), g)
  BY <1>8, <1>9, TurningIs
<1>11. Multiply(s, t) \in Matrix
  <2>1. <<0, 0>> \in Plane
    BY DEF Plane
  <2>2. QED
    BY <1>7, <1>10, <2>1, Product
<1>12. ASSUME NEW p \in Plane
       PROVE  TransformGroup(p, g) = TransformPoint(Multiply(s, t), p) /\ TransformGroup(p, g) \in Plane
  <2>1. PICK x, y : x = p[1] /\ y = p[2]
    OBVIOUS
  <2>2. x \in Int /\ y \in Int
    BY <2>1 DEF Plane
  <2>3. PICK q : q = TransformPoint(s, p)
    OBVIOUS
  <2>4. q \in Plane /\ TransformPoint(Multiply(s, t), p) = TransformPoint(t, q)
    BY <1>7, <1>10, <2>3, Product
  <2>5. q = <<k1 * x + 0 * y + (o1 - c1 * k1), 0 * x + k2 * y + (o2 - c2 * k2)>>
    BY <1>6, <2>1, <2>3 DEF TransformPoint
  <2>6. o1 + ((x - c1) * a1) \div b1 = k1 * x + 0 * y + (o1 - c1 * k1)
    <3>1. (x - c1) * a1 = b1 * ((x - c1) * k1)
      BY <1>2, <1>4, <2>2
    <3>2. PICK z : z = (x - c1) * k1
      OBVIOUS
    <3>3. z \in Int
      BY <1>2, <1>4, <2>2, <3>2
    <3>4. (b1 * z) \div b1 = z
      BY <1>2, <3>3
    <3>5. z = k1 * x - c1 * k1
      BY <1>2, <1>4, <2>2, <3>2
    <3>6. QED
      BY <1>2, <1>4, <2>2, <3>1, <3>2, <3>4, <3>5
  <2>7. o2 + ((y - c2) * a2) \div b2 = 0 * x + k2 * y + (o2 - c2 * k2)
    <3>1. (y - c2) * a2 = b2 * ((y - c2) * k2)
      BY <1>2, <1>4, <2>2
    <3>2. PICK z : z = (y - c2) * k2
      OBVIOUS
    <3>3. z \in Int
      BY <1>2, <1>4, <2>2, <3>2
    <3>4. (b2 * z) \div b2 = z
      BY <1>2, <3>3
    <3>5. z = k2 * y - c2 * k2
      BY <1>2, <1>4, <2>2, <3>2
    <3>6. QED
      BY <1>2, <1>4, <2>2, <3>1, <3>2, <3>4, <3>5
  <2>8. TransformGroup(p, g) = FlipRotate(q, Centre(g), g)
    BY <1>1, <2>1, <2>5, <2>6, <2>7 DEF TransformGroup
  <2>9. TransformGroup(p, g) = TransformPoint(t, q)
    BY <1>10, <2>4, <2>8
  <2>10. TransformPoint(t, q) \in Plane
    BY <1>10, <2>4, Product
  <2>11. QED
    BY <2>4, <2>9, <2>10
<1>13. QED
  BY <1>5, <1>9, <1>11, <1>12

(* Groups one in the other, all with an inner extent.                      *)
Chained(gs) ==
    /\ Len(gs) \in Nat
    /\ \A i \in 1 .. Len(gs) : IsGroup(gs[i]) /\ gs[i].chExt[1] # 0 /\ gs[i].chExt[2] # 0

InnerTo(gs, i) == gs[Len(gs) - i + 1]

Stretch(g) == Multiply(Scaling(g), Turning(g))

(* What the groups of a chain do, the inner ones first.                    *)
LEMMA StretchIs ==
    ASSUME NEW gs, Chained(gs), NEW i \in 1 .. Len(gs)
    PROVE  /\ Stretch(InnerTo(gs, i)) \in Matrix
           /\ \A p \in Plane : /\ TransformGroup(p, InnerTo(gs, i)) = TransformPoint(Stretch(InnerTo(gs, i)), p)
                                /\ TransformGroup(p, InnerTo(gs, i)) \in Plane
<1>1. PICK g : g = InnerTo(gs, i)
  OBVIOUS
<1>2. Len(gs) - i + 1 \in 1 .. Len(gs)
  BY DEF Chained
<1>3. IsGroup(g) /\ g.chExt[1] # 0 /\ g.chExt[2] # 0
  BY <1>1, <1>2 DEF Chained, InnerTo
<1>4. Multiply(Scaling(g), Turning(g)) \in Matrix
  BY ONLY <1>3, GroupIs
<1>5. \A p \in Plane : /\ TransformGroup(p, g) = TransformPoint(Multiply(Scaling(g), Turning(g)), p)
                       /\ TransformGroup(p, g) \in Plane
  BY ONLY <1>3, GroupIs
<1>6. QED
  BY <1>1, <1>4, <1>5 DEF Stretch

(* The way of a shape as the matrices that follow each other.              *)
LEMMA WayIs ==
    ASSUME NEW x, Turns(x), NEW gs, Chained(gs)
    PROVE  \E f \in [0 .. Len(gs) -> Matrix] :
              /\ f[0] = Turning(x) /\ Way(x, gs) = f[Len(gs)]
              /\ \A k \in 1 .. Len(gs) : f[k] = Multiply(f[k - 1], Stretch(InnerTo(gs, k)))
<1>1. PICK n, base : n = Len(gs) /\ base = Turning(x)
  OBVIOUS
<1>2. n \in Nat /\ base \in Matrix
  BY <1>1, TurningIs DEF Chained
<1> DEFINE rhs(g) == [k \in 0 .. n |-> IF k = 0 THEN base ELSE Multiply(g[k - 1], Stretch(InnerTo(gs, k)))]
           step == [s \in (1 .. n) \X Matrix |-> Multiply(s[2], Stretch(InnerTo(gs, s[1])))]
<1>3. Way(x, gs) = (CHOOSE g : g = rhs(g))[n]
  BY <1>1 DEF Way, Stretch, InnerTo
<1>4. \A k \in 1 .. n, m \in Matrix : step[<<k, m>>] = Multiply(m, Stretch(InnerTo(gs, k))) /\ step[<<k, m>>] \in Matrix
  <2> TAKE k \in 1 .. n, m \in Matrix
  <2>1. step[<<k, m>>] = Multiply(m, Stretch(InnerTo(gs, k)))
    OBVIOUS
  <2>2. Stretch(InnerTo(gs, k)) \in Matrix
    BY <1>1, StretchIs
  <2>3. <<0, 0>> \in Plane
    BY DEF Plane
  <2>4. Multiply(m, Stretch(InnerTo(gs, k))) \in Matrix
    BY ONLY <2>2, <2>3, m \in Matrix, Product
  <2> HIDE DEF step
  <2>5. QED
    BY <2>1, <2>4
<1> HIDE DEF step
<1>5. PICK f : Stepwise(f, n, Matrix, base, step)
  BY <1>2, <1>4, StepsExist, Zenon
<1>6. f \in [0 .. n -> Matrix] /\ f[0] = base /\ \A k \in 1 .. n : f[k] = step[<<k, f[k - 1]>>]
  BY <1>5 DEF Stepwise
<1>7. ASSUME NEW k \in 1 .. n PROVE f[k] = Multiply(f[k - 1], Stretch(InnerTo(gs, k))) /\ k - 1 \in 0 .. n
  <2>1. k - 1 \in 0 .. n
    BY <1>2
  <2>2. f[k - 1] \in Matrix
    BY <1>6, <2>1
  <2>3. QED
    BY <1>4, <1>6, <2>1, <2>2
<1>8. f = rhs(f)
  <2>1. f = [k \in 0 .. n |-> f[k]]
    BY <1>6
  <2>2. ASSUME NEW k \in 0 .. n
        PROVE  f[k] = IF k = 0 THEN base ELSE Multiply(f[k - 1], Stretch(InnerTo(gs, k)))
    <3>1. CASE k = 0
      BY <1>6, <3>1
    <3>2. CASE k # 0
      <4>1. k \in 1 .. n
        BY <1>2, <3>2
      <4>2. QED
        BY <1>7, <3>2, <4>1
    <3>3. QED
      BY <3>1, <3>2
  <2>3. QED
    BY <2>1, <2>2
<1>9. PICK g : g = rhs(g) /\ g = CHOOSE h : h = rhs(h)
  <2> HIDE DEF rhs
  <2>1. QED
    BY <1>8
<1>10. g[0] = base /\ \A k \in 1 .. n : g[k] = Multiply(g[k - 1], Stretch(InnerTo(gs, k)))
  <2>1. ASSUME NEW k \in 0 .. n
        PROVE  g[k] = IF k = 0 THEN base ELSE Multiply(g[k - 1], Stretch(InnerTo(gs, k)))
    BY ONLY <1>9, k \in 0 .. n
  <2>2. 0 \in 0 .. n /\ \A k \in 1 .. n : k # 0 /\ k \in 0 .. n
    BY <1>2
  <2>3. QED
    BY <2>1, <2>2
<1>11. \A k \in 0 .. n : g[k] \in Matrix
  <2> DEFINE K == {k \in 0 .. n : g[k] \in Matrix}
  <2>1. 0 \in K
    BY <1>2, <1>10
  <2>2. ASSUME NEW k \in 1 .. n, k - 1 \in K PROVE k \in K
    <3>1. g[k - 1] \in Matrix /\ Stretch(InnerTo(gs, k)) \in Matrix /\ <<0, 0>> \in Plane
      BY <1>1, <2>2, StretchIs DEF Plane
    <3>2. Multiply(g[k - 1], Stretch(InnerTo(gs, k))) \in Matrix
      BY ONLY <3>1, Product
    <3>3. k \in 0 .. n
      BY <1>2
    <3>4. QED
      BY <1>10, <3>2, <3>3
  <2> HIDE DEF K
  <2>3. \A k \in 0 .. n : k \in K
    BY <1>2, <2>1, <2>2, ByCounting
  <2>4. QED
    BY <2>3 DEF K
<1>12. g \in [0 .. n -> Matrix]
  <2>1. DOMAIN g = 0 .. n /\ g = [k \in 0 .. n |-> g[k]]
    BY ONLY <1>9
  <2>2. QED
    BY <1>11, <2>1
<1>13. Way(x, gs) = g[n]
  BY <1>3, <1>9
<1>14. QED
  BY <1>1, <1>10, <1>12, <1>13

(* Going out through the groups is following these matrices.               *)
LEMMA OutwardIs ==
    ASSUME NEW x, Turns(x), Chained(groups), NEW p \in Plane
    PROVE  /\ Way(x, groups) \in Matrix
           /\ Outward(FlipRotate(p, Centre(x), x)) = TransformPoint(Way(x, groups), p)
<1>1. PICK gs, n, q : gs = groups /\ n = Len(gs) /\ q = FlipRotate(p, Centre(x), x)
  OBVIOUS
<1>2. n \in Nat /\ Chained(gs)
  BY <1>1 DEF Chained
<1>3. PICK f \in [0 .. Len(gs) -> Matrix] :
              /\ f[0] = Turning(x) /\ Way(x, gs) = f[Len(gs)]
              /\ \A k \in 1 .. Len(gs) : f[k] = Multiply(f[k - 1], Stretch(InnerTo(gs, k)))
  BY <1>2, WayIs
<1>4. f \in [0 .. n -> Matrix] /\ n \in 0 .. n /\ 0 \in 0 .. n
  BY <1>1, <1>2, <1>3
<1> DEFINE rhs(h) == [i \in 0 .. n |-> IF i = 0 THEN q ELSE TransformGroup(h[i - 1], InnerTo(gs, i))]
<1>5. Outward(q) = (CHOOSE h : h = rhs(h))[n]
  BY <1>1 DEF Outward, InnerTo
<1>6. TransformPoint(f[0], p) = q
  BY <1>1, <1>3, TurningIs
<1>7. ASSUME NEW k \in 1 .. n
      PROVE  TransformGroup(TransformPoint(f[k - 1], p), InnerTo(gs, k)) = TransformPoint(f[k], p) /\ k - 1 \in 0 .. n
  <2>1. k - 1 \in 0 .. n
    BY <1>2
  <2>2. PICK m, s, r : m = f[k - 1] /\ s = Stretch(InnerTo(gs, k)) /\ r = TransformPoint(m, p)
    OBVIOUS
  <2>3. m \in Matrix
    BY <1>4, <2>1, <2>2
  <2>4. k \in 1 .. Len(gs)
    BY <1>1
  <2>5. s \in Matrix /\ \A u \in Plane : TransformGroup(u, InnerTo(gs, k)) = TransformPoint(s, u)
    BY <1>2, <2>2, <2>4, StretchIs
  <2>6. r \in Plane /\ TransformPoint(Multiply(m, s), p) = TransformPoint(s, r)
    BY <2>2, <2>3, <2>5, Product
  <2>7. f[k] = Multiply(m, s)
    BY <1>3, <2>2, <2>4
  <2>8. QED
    BY <2>1, <2>2, <2>5, <2>6, <2>7
<1>8. \E h : h = rhs(h)
  <2> DEFINE h == [k \in 0 .. n |-> TransformPoint(f[k], p)]
  <2>1. ASSUME NEW k \in 0 .. n
        PROVE  h[k] = IF k = 0 THEN q ELSE TransformGroup(h[k - 1], InnerTo(gs, k))
    <3>1. CASE k = 0
      BY <1>6, <3>1
    <3>2. CASE k # 0
      <4>1. k \in 1 .. n
        BY <1>2, <3>2
      <4>2. h[k - 1] = TransformPoint(f[k - 1], p)
        BY <1>7, <4>1
      <4>3. QED
        BY <1>7, <3>2, <4>1, <4>2
    <3>3. QED
      BY <3>1, <3>2
  <2>2. h = [k \in 0 .. n |-> h[k]]
    OBVIOUS
  <2> HIDE DEF h
  <2>3. h = rhs(h)
    BY <2>1, <2>2
  <2>4. QED
    BY <2>3
<1>9. PICK h : h = rhs(h) /\ h = CHOOSE g : g = rhs(g)
  <2> HIDE DEF rhs
  <2>1. QED
    BY <1>8
<1>10. ASSUME NEW k \in 0 .. n
       PROVE  h[k] = IF k = 0 THEN q ELSE TransformGroup(h[k - 1], InnerTo(gs, k))
  BY ONLY <1>9, k \in 0 .. n
<1>11. \A k \in 0 .. n : h[k] = TransformPoint(f[k], p)
  <2> DEFINE K == {k \in 0 .. n : h[k] = TransformPoint(f[k], p)}
  <2>1. 0 \in K
    BY <1>4, <1>6, <1>10
  <2>2. ASSUME NEW k \in 1 .. n, k - 1 \in K PROVE k \in K
    <3>1. k # 0 /\ k \in 0 .. n
      BY <1>2
    <3>2. h[k] = TransformGroup(h[k - 1], InnerTo(gs, k))
      BY <1>10, <3>1
    <3>3. QED
      BY <1>7, <2>2, <3>1, <3>2
  <2> HIDE DEF K
  <2>3. \A k \in 0 .. n : k \in K
    BY <1>2, <2>1, <2>2, ByCounting
  <2>4. QED
    BY <2>3 DEF K
<1>12. Outward(q) = TransformPoint(f[n], p)
  BY <1>4, <1>5, <1>9, <1>11
<1>13. Way(x, gs) = f[n] /\ f[n] \in Matrix
  BY <1>1, <1>3, <1>4
<1>14. QED
  BY <1>1, <1>12, <1>13

(* So a box turned with its shape and taken through the groups lies where  *)
(* the whole way of the shape puts it.                                     *)
Lie(x, chain, box) == {TransformPoint(Way(x, chain), p) : p \in Corners(box)}

LEMMA LiesThere ==
    ASSUME NEW x, Turns(x), Chained(groups), NEW box \in Int \X Int \X Int \X Int
    PROVE  TransformedCorners(box, x) = Lie(x, groups, box)
<1>1. Corners(box) \subseteq Plane
  <2>1. PICK a, b, c, d : a = box[1] /\ b = box[2] /\ c = box[3] /\ d = box[4]
    OBVIOUS
  <2>2. a \in Int /\ b \in Int /\ c \in Int /\ d \in Int
    BY <2>1
  <2>3. Corners(box) = {<<a, b>>, <<c, b>>, <<c, d>>, <<a, d>>}
    BY <2>1 DEF Corners
  <2>4. QED
    BY <2>2, <2>3 DEF Plane
<1>2. \A p \in Corners(box) : Outward(FlipRotate(p, Centre(x), x)) = TransformPoint(Way(x, groups), p)
  BY <1>1, OutwardIs
<1>3. QED
  BY <1>2 DEF TransformedCorners, Lie

LEMMA BoxIs ==
    ASSUME NEW x \in Transform
    PROVE  BoxOf(x) \in Int \X Int \X Int \X Int /\ Turns(x)
<1>1. PICK a, b, c, d : a = x.off[1] /\ b = x.off[2] /\ c = x.ext[1] /\ d = x.ext[2]
  OBVIOUS
<1>2. a \in Int /\ b \in Int /\ c \in Nat /\ d \in Nat
  BY <1>1 DEF Transform
<1>3. BoxOf(x) = <<a, b, a + c, b + d>>
  BY <1>1 DEF BoxOf
<1>4. QED
  BY <1>2, <1>3, TransformTurns

(***************************************************************************)
(* The place of a shape.                                                   *)
(***************************************************************************)
Settled(at) == at = <<>> \/ (Given(at) /\ at = <<at[1]>> /\ at[1] \in Transform)

Saner(at) == IF Given(at) THEN at ELSE <<>>

LEMMA SanerIs ==
    ASSUME NEW at, IsPlace(at)
    PROVE  /\ Settled(Saner(at)) /\ (Given(at) => at # <<>> /\ at # Bad /\ Settled(at))
           /\ (at # Bad => Saner(at) = at) /\ (at = Bad => Saner(at) = <<>> /\ at # <<>>)
<1>1. Len(Bad) = 2 /\ Bad # <<>> /\ ~ Given(Bad)
  BY DEF Bad, Given
<1>2. ~ Given(<<>>)
  BY DEF Given
<1>3. CASE at = <<>>
  BY <1>1, <1>2, <1>3 DEF Saner, Settled
<1>4. CASE at = Bad
  BY <1>1, <1>2, <1>4 DEF Saner, Settled
<1>5. CASE Given(at) /\ at = <<at[1]>> /\ at[1] \in Transform
  BY <1>1, <1>2, <1>5 DEF Saner, Settled
<1>6. QED
  BY <1>3, <1>4, <1>5 DEF IsPlace

TheirsIn(root, wanted) == {i \in DOMAIN Placeholders[root] : Matches(wanted, Placeholders[root][i])}

FirstOf(root, wanted) ==
    IF TheirsIn(root, wanted) = {} THEN <<>> ELSE Saner(Placeholders[root][Min(TheirsIn(root, wanted))].at)

(* The first placeholder that matches is found, and gives its place.       *)
LEMMA AtInIs ==
    ASSUME SlidesTyped, NEW root \in {"layout", "master"}, NEW wanted
    PROVE  AtIn(root, wanted) = FirstOf(root, wanted) /\ Settled(AtIn(root, wanted))
<1>1. PICK ps, T, n : ps = Placeholders[root] /\ T = TheirsIn(root, wanted) /\ n = Len(ps)
  OBVIOUS
<1>2. ps \in Seq(Range(ps)) /\ \A c \in Range(ps) : IsPlace(c.at)
  BY <1>1 DEF SlidesTyped
<1>3. n \in Nat /\ DOMAIN ps = 1 .. n /\ \A i \in 1 .. n : ps[i] \in Range(ps)
  <2>1. PICK V : V = Range(ps)
    OBVIOUS
  <2>2. ps \in Seq(V)
    BY <1>2, <2>1
  <2>3. n \in Nat /\ DOMAIN ps = 1 .. n /\ \A i \in 1 .. n : ps[i] \in V
    BY ONLY <1>1, <2>2
  <2>4. QED
    BY <2>1, <2>3
<1>4. T = {i \in 1 .. n : Matches(wanted, ps[i])}
  BY <1>1, <1>3 DEF TheirsIn
<1>5. PICK i : i = SelectInSeq(ps, LAMBDA c : Matches(wanted, c))
  OBVIOUS
<1>6. i = IF T # {} THEN Min(T) ELSE 0
  BY <1>1, <1>4, <1>5 DEF SelectInSeq
<1>7. FindPlaceholder(root, wanted) = IF i = 0 THEN <<>> ELSE <<ps[i]>>
  BY <1>1, <1>5 DEF FindPlaceholder
<1>8. CASE T = {}
  <2>1. FindPlaceholder(root, wanted) = <<>>
    BY <1>6, <1>7, <1>8
  <2>2. AtIn(root, wanted) = <<>>
    BY <2>1 DEF AtIn
  <2>3. QED
    BY <1>1, <1>8, <2>2 DEF FirstOf, Settled
<1>9. CASE T # {}
  <2>1. i = Min(T) /\ i \in T
    <3>1. T \in SUBSET Nat
      BY <1>3, <1>4
    <3>2. QED
      BY <1>6, <1>9, <3>1, MinIsLeast
  <2>2. i \in 1 .. n /\ i # 0
    BY <1>3, <1>4, <2>1
  <2>3. PICK at : at = ps[i].at
    OBVIOUS
  <2>4. IsPlace(at)
    BY <1>2, <1>3, <2>2, <2>3
  <2>5. FindPlaceholder(root, wanted) = <<ps[i]>>
    BY <1>7, <2>2
  <2>6. AtIn(root, wanted) = Saner(at)
    <3>1. PICK fo : fo = FindPlaceholder(root, wanted)
      OBVIOUS
    <3>2. fo # <<>> /\ fo[1] = ps[i]
      BY <2>5, <3>1
    <3>3. QED
      BY <2>3, <3>1, <3>2 DEF AtIn, Saner
  <2>7. FirstOf(root, wanted) = Saner(at)
    BY <1>1, <1>9, <2>1, <2>3 DEF FirstOf
  <2>8. QED
    BY <2>4, <2>6, <2>7, SanerIs
<1>10. QED
  BY <1>8, <1>9

(* A shape gets the place it is to get.                                    *)
LEMMA ShapeAt ==
    ASSUME SlidesTyped, NEW m, m.is = "shape", IsPlace(m.s.at), ~ (m.layer # "slide" /\ m.s.holds # <<>>)
    PROVE  Placed(m) = Resolve(m.s.at, m.s.holds) /\ Settled(Placed(m))
<1>1. PICK at, holds, w : at = m.s.at /\ holds = m.s.holds /\ w = holds[1]
  OBVIOUS
<1>2. PICK fl, fm : fl = FirstOf("layout", w) /\ fm = FirstOf("master", w)
  OBVIOUS
<1>3. fl = AtIn("layout", w) /\ fm = AtIn("master", w) /\ Settled(fl) /\ Settled(fm)
  BY <1>2, AtInIs
<1>4. PICK places : places = IF holds = <<>> THEN <<at>> ELSE <<at, fl, fm>>
  OBVIOUS
<1>5. PICK given : given = SelectInSeq(places, LAMBDA z : z # <<>>)
  OBVIOUS
<1>6. Placed(m) = IF given = 0 THEN <<>> ELSE Saner(places[given])
  BY <1>1, <1>2, <1>4, <1>5 DEF Placed, FirstOf, TheirsIn, Saner
<1>7. PICK n : n = Len(places)
  OBVIOUS
<1>8. PICK I : I = {i \in 1 .. n : places[i] # <<>>}
  OBVIOUS
<1>9. given = IF I # {} THEN Min(I) ELSE 0
  BY <1>5, <1>7, <1>8 DEF SelectInSeq
<1>10. n = (IF holds = <<>> THEN 1 ELSE 3) /\ places[1] = at
  BY <1>4, <1>7
<1>11. I \in SUBSET Nat
  BY <1>8, <1>10
<1>12. Resolve(at, holds) = IF at = Bad THEN <<>>
                            ELSE IF Given(at) \/ holds = <<>> THEN at
                            ELSE IF fl # <<>> THEN fl ELSE fm
  BY <1>1, <1>3 DEF Resolve
<1>13. IsPlace(at)
  BY <1>1
<1>14. CASE at # <<>>
  <2>1. 1 \in I /\ \A h \in I : 1 <= h
    BY <1>8, <1>10, <1>14
  <2>2. given = 1
    BY <1>9, <1>11, <2>1, MinOf
  <2>3. Placed(m) = Saner(at)
    BY <1>6, <1>10, <2>2
  <2>4. Resolve(at, holds) = Saner(at)
    BY <1>12, <1>13, <1>14, SanerIs DEF IsPlace
  <2>5. QED
    BY <1>1, <1>13, <2>3, <2>4, SanerIs
<1>15. CASE at = <<>> /\ holds = <<>>
  <2>1. I = {}
    BY <1>8, <1>10, <1>15
  <2>2. Placed(m) = <<>>
    BY <1>6, <1>9, <2>1
  <2>3. at # Bad
    BY <1>15 DEF Bad
  <2>4. QED
    BY <1>1, <1>12, <1>15, <2>2, <2>3 DEF Settled
<1>16. CASE at = <<>> /\ holds # <<>>
  <2>1. at # Bad /\ ~ Given(at)
    BY <1>16 DEF Bad, Given
  <2>2. n = 3 /\ places[1] = <<>> /\ places[2] = fl /\ places[3] = fm
    BY <1>4, <1>10, <1>16
  <2>3. Resolve(at, holds) = IF fl # <<>> THEN fl ELSE fm
    BY <1>12, <1>16, <2>1
  <2>4. \A z : Settled(z) /\ z # <<>> => Saner(z) = z
    BY DEF Settled, Saner
  <2>5. CASE fl # <<>>
    <3>1. 2 \in I /\ \A h \in I : 2 <= h
      BY <1>8, <2>2, <2>5
    <3>2. given = 2
      BY <1>9, <1>11, <3>1, MinOf
    <3>3. QED
      BY <1>1, <1>3, <1>6, <2>2, <2>3, <2>4, <2>5, <3>2
  <2>6. CASE fl = <<>> /\ fm # <<>>
    <3>1. 3 \in I /\ \A h \in I : 3 <= h
      BY <1>8, <2>2, <2>6
    <3>2. given = 3
      BY <1>9, <1>11, <3>1, MinOf
    <3>3. QED
      BY <1>1, <1>3, <1>6, <2>2, <2>3, <2>4, <2>6, <3>2
  <2>7. CASE fl = <<>> /\ fm = <<>>
    <3>1. I = {}
      BY <1>8, <2>2, <2>7
    <3>2. QED
      BY <1>1, <1>6, <1>9, <2>3, <2>7, <3>1 DEF Settled
  <2>8. QED
    BY <2>5, <2>6, <2>7
<1>17. QED
  BY <1>14, <1>15, <1>16

(***************************************************************************)
(* What a shape adds to the page.                                          *)
(***************************************************************************)
(* What a record with more fields is.                                      *)
LEMMA WithIs ==
    ASSUME NEW r, NEW more
    PROVE  /\ \A x \in DOMAIN r : With(r, more)[x] = r[x]
           /\ \A x \in DOMAIN more : x \notin DOMAIN r => With(r, more)[x] = more[x]
BY DEF With

\* What belongs to the shape i, and the layers an element is said to be of.
Owned(E, i) == {k \in DOMAIN E : E[k].at = i}
Tags(H, k) == {i \in DOMAIN H : H[i].of = k - 1 /\ H[i].kind \in {"master", "layout"}}

\* The four parts of ShapesExact.
Whole(M, E) == \A i \in DOMAIN M :
    \E before \in 0 .. Len(E) :
       /\ Owned(E, i) = before + 1 .. before + Len(Expected(M[i]))
       /\ \A j \in DOMAIN Expected(M[i]) : E[before + j].is = Expected(M[i])[j]

InOrder(M, E, H) == \A k \in DOMAIN E :
    /\ E[k].at \in DOMAIN M
    /\ E[k].id = k - 1
    /\ k > 1 => E[k - 1].at <= E[k].at
    /\ IF M[E[k].at].layer = "slide" THEN Tags(H, k) = {}
       ELSE Cardinality(Tags(H, k)) = 1 /\ \A i \in Tags(H, k) : H[i].kind = M[E[k].at].layer

Attached(E, H) == \A i \in DOMAIN H :
    /\ H[i].of \in {E[k].id : k \in DOMAIN E}
    /\ E[H[i].of + 1].at = H[i].at
    /\ H[i].kind \in {"role", "alt"} => H[i].of = 0 \/ E[H[i].of].at # H[i].at

Owed(m) == m.is \notin {"group", "unseen"} /\ Expected(m) = <<>> /\ ~ Silently(m)

Warned(M, N) == \A i \in DOMAIN M : Owed(M[i]) => i \in N

LEMMA ExactParts ==
    ShapesExact <=> /\ Whole(met, elements) /\ InOrder(met, elements, hidden)
                    /\ Attached(elements, hidden) /\ Warned(met, noted)
<1>1. ShapesExact => /\ Whole(met, elements) /\ InOrder(met, elements, hidden)
                     /\ Attached(elements, hidden) /\ Warned(met, noted)
  BY DEF ShapesExact, Whole, InOrder, Attached, Warned, Owed, Owned, Tags
<1>2. Whole(met, elements) /\ InOrder(met, elements, hidden) /\ Attached(elements, hidden) /\ Warned(met, noted)
        => ShapesExact
  BY DEF ShapesExact, Whole, InOrder, Attached, Warned, Owed, Owned, Tags
<1>3. QED
  BY <1>1, <1>2

\* Where one element of a shape is to lie and what it is to hold.
Right(e, shape) ==
    LET x == Placed(shape)[1]
        Lies(box) == Hull(Lie(x, shape.chain, box))
    IN  /\ e.box = Lies(BoxOf(x))
        /\ e.is = "table" =>
              LET cells == Cells(shape.f.table, x)
              IN  /\ TableExact(shape.f.table, x)
                  /\ [i \in DOMAIN e.cells |-> e.cells[i].box] = [i \in DOMAIN cells |-> Lies(cells[i].box)]
        /\ e.is = "chart" => PointsExact(shape.f.chart[1], shape.f.chart[2])
        /\ shape.is = "shape" => TextConsistent(shape.s.body, InheritedStyles(shape.s.holds), Externals)

AllRight(M, E) == \A k \in DOMAIN E : Right(E[k], M[E[k].at])

LEMMA PlacedParts == ShapesPlaced <=> AllRight(met, elements)
BY DEF ShapesPlaced, AllRight, Right, Lie

\* A shape that has been met, and has left nothing.
Shapely(M, E, H) ==
    /\ Listed(M) /\ Listed(E) /\ Listed(H)
    /\ \A i \in DOMAIN M : M[i].layer \in {"master", "layout", "slide"} /\ Listed(Expected(M[i]))

Kept(M, E, H, N) ==
    /\ Shapely(M, E, H) /\ Whole(M, E) /\ InOrder(M, E, H) /\ Attached(E, H) /\ Warned(M, N) /\ AllRight(M, E)

LEMMA NothingKept ==
    ASSUME NEW M, NEW E, NEW H, NEW N, NEW m, NEW N2, Kept(M, E, H, N),
           m.layer \in {"master", "layout", "slide"}, Expected(m) = <<>>,
           N \subseteq N2, Owed(m) => Len(M) + 1 \in N2
    PROVE  Kept(Append(M, m), E, H, N2)
<1>1. PICK L, M2 : L = Len(M) /\ M2 = Append(M, m)
  OBVIOUS
<1>2. Listed(M) /\ Listed(E) /\ Listed(H) /\ Listed(M2)
  BY <1>1, AppendIs DEF Kept, Shapely
<1>3. /\ L \in Nat /\ DOMAIN M = 1 .. L /\ DOMAIN M2 = 1 .. L + 1 /\ M2[L + 1] = m
      /\ \A i \in 1 .. L : M2[i] = M[i]
  BY <1>1, <1>2, ListIs, AppendIs
<1>4. \A i \in DOMAIN M2 : i \in 1 .. L \/ i = L + 1
  BY <1>3
<1>5. \A k \in DOMAIN E : E[k].at \in 1 .. L /\ M2[E[k].at] = M[E[k].at] /\ E[k].at \in DOMAIN M2
  <2>1. \A k \in DOMAIN E : E[k].at \in 1 .. L
    BY <1>3 DEF Kept, InOrder
  <2>2. QED
    BY <1>3, <2>1
<1>6. Shapely(M2, E, H)
  <2>1. Listed(<<>>)
    BY DEF Listed
  <2>2. ASSUME NEW i \in DOMAIN M2
        PROVE  M2[i].layer \in {"master", "layout", "slide"} /\ Listed(Expected(M2[i]))
    BY <1>3, <1>4, <2>1 DEF Kept, Shapely
  <2>3. QED
    BY <1>2, <2>2 DEF Shapely
<1>7. Whole(M2, E)
  <2>1. ASSUME NEW i \in DOMAIN M2
        PROVE  \E before \in 0 .. Len(E) :
                  /\ Owned(E, i) = before + 1 .. before + Len(Expected(M2[i]))
                  /\ \A j \in DOMAIN Expected(M2[i]) : E[before + j].is = Expected(M2[i])[j]
    <3>1. CASE i \in 1 .. L
      <4>1. i \in DOMAIN M /\ M2[i] = M[i]
        BY <1>3, <3>1
      <4>2. Whole(M, E)
        BY DEF Kept
      <4>3. QED
        BY <4>1, <4>2 DEF Whole
    <3>2. CASE i = L + 1
      <4>1. Expected(M2[i]) = <<>>
        BY <1>3, <3>2
      <4>2. Owned(E, i) = {}
        <5>1. \A k \in DOMAIN E : E[k].at # i
          BY <1>3, <1>5, <3>2
        <5>2. QED
          BY <5>1 DEF Owned
      <4>3. Len(Expected(M2[i])) = 0 /\ DOMAIN Expected(M2[i]) = {} /\ 0 + 1 .. 0 + 0 = {}
        BY <4>1
      <4>4. 0 \in 0 .. Len(E)
        BY <1>2, ListIs
      <4>5. QED
        BY <4>2, <4>3, <4>4
    <3>3. QED
      BY <1>4, <3>1, <3>2
  <2>2. QED
    BY <2>1 DEF Whole
<1>8. InOrder(M2, E, H)
  BY <1>5 DEF Kept, InOrder
<1>9. Warned(M2, N2)
  BY <1>1, <1>3, <1>4 DEF Kept, Warned
<1>10. AllRight(M2, E)
  BY <1>5 DEF Kept, AllRight
<1>11. QED
  BY <1>1, <1>6, <1>7, <1>8, <1>9, <1>10 DEF Kept

\* The new elements, and the new hidden items: a of them about the first new
\* element, and one for each new element of a layer above.
ElementsGrow(E, E2, kinds, at) ==
    /\ Listed(E2) /\ Len(E2) = Len(E) + Len(kinds)
    /\ \A k \in 1 .. Len(E) : E2[k] = E[k]
    /\ \A j \in 1 .. Len(kinds) :
          E2[Len(E) + j].at = at /\ E2[Len(E) + j].id = Len(E) + j - 1 /\ E2[Len(E) + j].is = kinds[j]

TaggedOf(lay, n) == IF lay = "slide" THEN 0 ELSE n

HiddenGrow(H, H2, first, n, a, at, lay) ==
    /\ Listed(H2) /\ a \in Nat /\ Len(H2) = Len(H) + a + TaggedOf(lay, n)
    /\ \A i \in 1 .. Len(H) : H2[i] = H[i]
    /\ \A j \in 1 .. a :
          H2[Len(H) + j].of = first /\ H2[Len(H) + j].at = at /\ H2[Len(H) + j].kind \in {"role", "alt"}
    /\ \A j \in 1 .. TaggedOf(lay, n) :
          /\ H2[Len(H) + a + j].of = first + j - 1 /\ H2[Len(H) + a + j].at = at
          /\ H2[Len(H) + a + j].kind = lay

TagsGrow(E, H, H2, n, a, lay) ==
    /\ \A k \in 1 .. Len(E) : Tags(H2, k) = Tags(H, k) /\ \A i \in Tags(H, k) : H2[i] = H[i]
    /\ \A j \in 1 .. n : Tags(H2, Len(E) + j) = IF lay = "slide" THEN {} ELSE {Len(H) + a + j}

Lying(E, H) == \A i \in DOMAIN H : H[i].of + 1 \in 1 .. Len(E) /\ H[i].of \in Int

(* The items of an element stay the same when others get theirs, and a new *)
(* element of a layer above gets one.                                      *)
LEMMA TagsAre ==
    ASSUME NEW E, NEW H, NEW H2, NEW n \in Nat, NEW a, NEW at, NEW lay \in {"master", "layout", "slide"},
           Listed(E), Listed(H), HiddenGrow(H, H2, Len(E), n, a, at, lay), Lying(E, H)
    PROVE  TagsGrow(E, H, H2, n, a, lay)
<1>1. PICK l, h, b : l = Len(E) /\ h = Len(H) /\ b = TaggedOf(lay, n)
  OBVIOUS
<1>2. l \in Nat /\ h \in Nat /\ b \in Nat /\ a \in Nat /\ DOMAIN H = 1 .. h /\ DOMAIN H2 = 1 .. h + a + b
  BY <1>1, ListIs DEF HiddenGrow, TaggedOf
<1>3. b = IF lay = "slide" THEN 0 ELSE n
  BY <1>1 DEF TaggedOf
<1>4. \A i \in 1 .. h : H2[i] = H[i] /\ H[i].of \in Int /\ H[i].of + 1 \in 1 .. l
  BY <1>1, <1>2 DEF HiddenGrow, Lying
<1>5. ASSUME NEW i \in DOMAIN H2
      PROVE  \/ i \in 1 .. h
             \/ i - h \in 1 .. a /\ H2[i].kind \in {"role", "alt"}
             \/ i - h - a \in 1 .. b /\ H2[i].of = l + (i - h - a) - 1 /\ H2[i].kind = lay
  <2>1. i \in 1 .. h \/ i - h \in 1 .. a \/ i - h - a \in 1 .. b
    BY <1>2
  <2>2. CASE i - h \in 1 .. a
    <3>1. PICK j \in 1 .. a : j = i - h
      BY <2>2
    <3>2. h + j = i
      BY <1>2, <3>1
    <3>3. H2[h + j].kind \in {"role", "alt"}
      BY <1>1 DEF HiddenGrow
    <3>4. QED
      BY <2>2, <3>2, <3>3
  <2>3. CASE i - h - a \in 1 .. b
    <3>1. PICK j \in 1 .. b : j = i - h - a
      BY <2>3
    <3>2. h + a + j = i
      BY <1>2, <3>1
    <3>3. H2[h + a + j].of = l + j - 1 /\ H2[h + a + j].kind = lay
      BY <1>1 DEF HiddenGrow
    <3>4. QED
      BY <2>3, <3>1, <3>2, <3>3
  <2>4. QED
    BY <2>1, <2>2, <2>3
<1>6. ASSUME NEW k \in 1 .. l PROVE Tags(H2, k) = Tags(H, k) /\ \A i \in Tags(H, k) : H2[i] = H[i]
  <2>1. ASSUME NEW i \in Tags(H2, k) PROVE i \in Tags(H, k)
    <3>1. i \in DOMAIN H2 /\ H2[i].of = k - 1 /\ H2[i].kind \in {"master", "layout"}
      BY DEF Tags
    <3>2. CASE i - h - a \in 1 .. b /\ H2[i].of = l + (i - h - a) - 1
      <4>1. k - 1 = l + (i - h - a) - 1
        BY <3>1, <3>2
      <4>2. FALSE
        BY <1>2, <3>2, <4>1
      <4>3. QED
        BY <4>2
    <3>3. CASE H2[i].kind \in {"role", "alt"}
      BY <3>1, <3>3
    <3>4. CASE i \in 1 .. h
      BY <1>2, <1>4, <3>1, <3>4 DEF Tags
    <3>5. QED
      BY <1>5, <3>1, <3>2, <3>3, <3>4
  <2>2. ASSUME NEW i \in Tags(H, k) PROVE i \in Tags(H2, k) /\ H2[i] = H[i]
    <3>1. i \in 1 .. h /\ H[i].of = k - 1 /\ H[i].kind \in {"master", "layout"}
      BY <1>2 DEF Tags
    <3>2. i \in DOMAIN H2
      BY <1>2, <3>1
    <3>3. QED
      BY <1>4, <3>1, <3>2 DEF Tags
  <2>3. QED
    BY <2>1, <2>2
<1>7. ASSUME NEW j \in 1 .. n
      PROVE  Tags(H2, l + j) = IF lay = "slide" THEN {} ELSE {h + a + j}
  <2>1. ASSUME NEW i \in Tags(H2, l + j) PROVE lay # "slide" /\ i = h + a + j
    <3>1. i \in DOMAIN H2 /\ H2[i].of = (l + j) - 1 /\ H2[i].kind \in {"master", "layout"}
      BY DEF Tags
    <3>2. CASE i - h - a \in 1 .. b /\ H2[i].of = l + (i - h - a) - 1 /\ H2[i].kind = lay
      <4>1. l + (i - h - a) - 1 = (l + j) - 1 /\ i \in Int
        BY <1>2, <3>1, <3>2
      <4>2. i = h + a + j
        BY <1>2, <4>1
      <4>3. QED
        BY <3>1, <3>2, <4>2
    <3>3. CASE H2[i].kind \in {"role", "alt"}
      BY <3>1, <3>3
    <3>4. CASE i \in 1 .. h
      <4>1. H2[i].of + 1 \in 1 .. l /\ H2[i].of \in Int
        BY <1>4, <3>4
      <4>2. FALSE
        BY <1>2, <3>1, <4>1
      <4>3. QED
        BY <4>2
    <3>5. QED
      BY <1>5, <3>1, <3>2, <3>3, <3>4
  <2>2. CASE lay # "slide"
    <3>1. j \in 1 .. b
      BY <1>3, <2>2
    <3>2. H2[h + a + j].of = l + j - 1 /\ H2[h + a + j].kind = lay
      BY <1>1, <3>1 DEF HiddenGrow
    <3>3. h + a + j \in DOMAIN H2 /\ lay \in {"master", "layout"} /\ l + j - 1 = (l + j) - 1
      BY <1>2, <2>2, <3>1
    <3>4. h + a + j \in Tags(H2, l + j)
      BY <3>2, <3>3 DEF Tags
    <3>5. QED
      BY <2>1, <2>2, <3>4
  <2>3. QED
    BY <2>1, <2>2
<1>8. QED
  BY <1>1, <1>6, <1>7 DEF TagsGrow

(* A shape that leaves its elements keeps the page what it is to be.       *)
LEMMA EmitsKept ==
    ASSUME NEW M, NEW E, NEW H, NEW N, NEW m, NEW E2, NEW H2, NEW N2, NEW a, Kept(M, E, H, N),
           m.layer \in {"master", "layout", "slide"},
           Listed(Expected(m)), Expected(m) # <<>>, N \subseteq N2,
           ElementsGrow(E, E2, Expected(m), Len(M) + 1),
           HiddenGrow(H, H2, Len(E), Len(Expected(m)), a, Len(M) + 1, m.layer),
           \A j \in 1 .. Len(Expected(m)) : Right(E2[Len(E) + j], m)
    PROVE  Kept(Append(M, m), E2, H2, N2)
<1>1. PICK L, M2, l, h, n, kinds, b, lay :
         /\ L = Len(M) /\ M2 = Append(M, m) /\ l = Len(E) /\ h = Len(H)
         /\ kinds = Expected(m) /\ n = Len(kinds) /\ b = TaggedOf(lay, n) /\ lay = m.layer
  OBVIOUS
<1>2. Listed(M) /\ Listed(E) /\ Listed(H) /\ Listed(M2) /\ Listed(E2) /\ Listed(H2)
  BY <1>1, AppendIs DEF Kept, Shapely, ElementsGrow, HiddenGrow
<1>3. /\ L \in Nat /\ DOMAIN M = 1 .. L /\ DOMAIN M2 = 1 .. L + 1 /\ M2[L + 1] = m
      /\ \A i \in 1 .. L : M2[i] = M[i]
  BY <1>1, <1>2, ListIs, AppendIs
<1>4. n \in Nat /\ n >= 1 /\ DOMAIN kinds = 1 .. n /\ b \in Nat /\ a \in Nat
  <2>1. n \in Nat /\ DOMAIN kinds = 1 .. n
    BY <1>1, ListIs
  <2>2. n # 0
    <3>1. PICK S : kinds \in Seq(S)
      BY <1>1 DEF Listed
    <3>2. kinds # <<>>
      BY <1>1
    <3>3. Len(kinds) # 0
      BY ONLY <3>1, <3>2, EmptySeq
    <3>4. QED
      BY <1>1, <3>3
  <2>3. QED
    BY <1>1, <2>1, <2>2 DEF TaggedOf, HiddenGrow
<1>5. /\ l \in Nat /\ DOMAIN E = 1 .. l /\ DOMAIN E2 = 1 .. l + n
      /\ h \in Nat /\ DOMAIN H = 1 .. h /\ DOMAIN H2 = 1 .. h + a + b
  BY <1>1, <1>2, ListIs DEF ElementsGrow, HiddenGrow
<1>6. /\ \A k \in 1 .. l : E2[k] = E[k]
      /\ \A j \in 1 .. n : E2[l + j].at = L + 1 /\ E2[l + j].id = l + j - 1 /\ E2[l + j].is = kinds[j]
  BY <1>1 DEF ElementsGrow
<1>7. ASSUME NEW k \in 1 .. l + n
      PROVE  k \in 1 .. l \/ \E j \in 1 .. n : k = l + j
  <2>1. CASE k <= l
    BY <1>5, <2>1
  <2>2. CASE ~ (k <= l)
    <3>1. k - l \in 1 .. n /\ k = l + (k - l)
      BY <1>4, <1>5, <2>2
    <3>2. QED
      BY <3>1
  <2>3. QED
    BY <2>1, <2>2
<1>8. \A k \in 1 .. l : E[k].at \in 1 .. L /\ E[k].id = k - 1 /\ M2[E[k].at] = M[E[k].at] /\ E[k].at \in DOMAIN M2
  <2>1. \A k \in 1 .. l : E[k].at \in 1 .. L /\ E[k].id = k - 1
    BY <1>3, <1>5 DEF Kept, InOrder
  <2>2. 1 .. L \subseteq 1 .. L + 1
    BY <1>3
  <2>3. QED
    BY <1>3, <2>1, <2>2
<1>9. \A i \in 1 .. h : H[i].of + 1 \in 1 .. l /\ H[i].of \in Int
  <2>1. ASSUME NEW i \in 1 .. h PROVE H[i].of + 1 \in 1 .. l /\ H[i].of \in Int
    <3>1. H[i].of \in {E[k].id : k \in DOMAIN E}
      BY <1>5 DEF Kept, Attached
    <3>2. PICK k \in 1 .. l : H[i].of = E[k].id
      BY <1>5, <3>1
    <3>3. H[i].of = k - 1
      BY <1>8, <3>2
    <3>4. QED
      BY <1>5, <3>3
  <2>2. QED
    BY <2>1
<1>10. Shapely(M2, E2, H2)
  <2>1. ASSUME NEW i \in DOMAIN M2
        PROVE  M2[i].layer \in {"master", "layout", "slide"} /\ Listed(Expected(M2[i]))
    <3>1. i \in 1 .. L \/ i = L + 1
      BY <1>3
    <3>2. QED
      BY <1>3, <3>1 DEF Kept, Shapely
  <2>2. QED
    BY <1>2, <2>1 DEF Shapely
<1>11. Whole(M2, E2)
  <2>1. ASSUME NEW i \in DOMAIN M2
        PROVE  \E before \in 0 .. Len(E2) :
                  /\ Owned(E2, i) = before + 1 .. before + Len(Expected(M2[i]))
                  /\ \A j \in DOMAIN Expected(M2[i]) : E2[before + j].is = Expected(M2[i])[j]
    <3>1. CASE i \in 1 .. L
      <4>1. i \in DOMAIN M /\ M2[i] = M[i] /\ Whole(M, E)
        BY <1>3, <3>1 DEF Kept
      <4>2. PICK before \in 0 .. Len(E) :
                  /\ Owned(E, i) = before + 1 .. before + Len(Expected(M[i]))
                  /\ \A j \in DOMAIN Expected(M[i]) : E[before + j].is = Expected(M[i])[j]
        BY <4>1 DEF Whole
      <4>3. Owned(E2, i) = Owned(E, i)
        <5>1. ASSUME NEW k \in Owned(E2, i) PROVE k \in Owned(E, i)
          <6>1. k \in 1 .. l + n /\ E2[k].at = i
            BY <1>5 DEF Owned
          <6>2. ASSUME NEW j \in 1 .. n, k = l + j PROVE FALSE
            <7>1. E2[k].at = L + 1
              BY <1>6, <6>2
            <7>2. QED
              BY <1>3, <3>1, <6>1, <7>1
          <6>3. k \in 1 .. l
            BY <1>7, <6>1, <6>2
          <6>4. QED
            BY <1>5, <1>6, <6>1, <6>3 DEF Owned
        <5>2. ASSUME NEW k \in Owned(E, i) PROVE k \in Owned(E2, i)
          <6>1. k \in 1 .. l /\ E[k].at = i
            BY <1>5 DEF Owned
          <6>2. k \in 1 .. l + n
            BY <1>4, <1>5, <6>1
          <6>3. QED
            BY <1>5, <1>6, <6>1, <6>2 DEF Owned
        <5>3. QED
          BY <5>1, <5>2
      <4>4. ASSUME NEW j \in DOMAIN Expected(M[i])
            PROVE  E2[before + j].is = Expected(M[i])[j]
        <5>1. E[before + j].is = Expected(M[i])[j]
          BY <4>2
        <5>2. before + j \in 1 .. l
          <6>1. Listed(Expected(M[i]))
            BY <4>1 DEF Kept, Shapely
          <6>2. j \in 1 .. Len(Expected(M[i])) /\ Len(Expected(M[i])) \in Nat
            BY <6>1, ListIs
          <6>3. before + j \in before + 1 .. before + Len(Expected(M[i]))
            BY <1>1, <1>5, <6>2
          <6>4. before + j \in Owned(E, i)
            BY <4>2, <6>3
          <6>5. QED
            BY <1>5, <6>4 DEF Owned
        <5>3. QED
          BY <1>6, <5>1, <5>2
      <4>5. before \in 0 .. Len(E2)
        BY <1>1, <1>4, <1>5 DEF ElementsGrow
      <4>6. QED
        BY <4>1, <4>2, <4>3, <4>4, <4>5
    <3>2. CASE i = L + 1
      <4>1. Expected(M2[i]) = kinds
        BY <1>1, <1>3, <3>2
      <4>2. Owned(E2, i) = l + 1 .. l + n
        <5>1. ASSUME NEW k \in Owned(E2, i) PROVE k \in l + 1 .. l + n
          <6>1. k \in 1 .. l + n /\ E2[k].at = L + 1
            BY <1>5, <3>2 DEF Owned
          <6>2. ~ (k \in 1 .. l)
            <7>1. SUFFICES ASSUME k \in 1 .. l PROVE FALSE
              OBVIOUS
            <7>2. E2[k].at \in 1 .. L
              BY <1>6, <1>8, <7>1
            <7>3. QED
              BY <1>3, <6>1, <7>2
          <6>3. QED
            BY <1>5, <6>1, <6>2
        <5>2. ASSUME NEW k \in l + 1 .. l + n PROVE k \in Owned(E2, i)
          <6>1. k - l \in 1 .. n /\ l + (k - l) = k /\ k \in 1 .. l + n
            BY <1>4, <1>5
          <6>2. E2[k].at = L + 1
            BY <1>6, <6>1
          <6>3. QED
            BY <1>5, <3>2, <6>1, <6>2 DEF Owned
        <5>3. QED
          BY <5>1, <5>2
      <4>3. \A j \in 1 .. n : E2[l + j].is = kinds[j]
        BY <1>6
      <4>4. l \in 0 .. Len(E2)
        BY <1>1, <1>4, <1>5 DEF ElementsGrow
      <4>5. QED
        BY <1>1, <1>4, <4>1, <4>2, <4>3, <4>4
    <3>3. QED
      BY <1>3, <3>1, <3>2
  <2>2. QED
    BY <2>1 DEF Whole
<1>12. InOrder(M2, E2, H2)
  <2>1. /\ \A k \in 1 .. l : Tags(H2, k) = Tags(H, k) /\ \A i \in Tags(H, k) : H2[i] = H[i]
        /\ \A j \in 1 .. n : Tags(H2, l + j) = IF lay = "slide" THEN {} ELSE {h + a + j}
    <3>0. PICK at : at = L + 1
      OBVIOUS
    <3>1. HiddenGrow(H, H2, Len(E), n, a, at, lay)
      BY <1>1, <3>0
    <3>2. Lying(E, H)
      BY <1>1, <1>5, <1>9 DEF Lying
    <3>3. n \in Nat /\ lay \in {"master", "layout", "slide"} /\ Listed(E) /\ Listed(H)
      BY <1>1, <1>2, <1>4
    <3>4. TagsGrow(E, H, H2, n, a, lay)
      BY ONLY <3>1, <3>2, <3>3, TagsAre
    <3>5. QED
      BY <1>1, <3>4 DEF TagsGrow
  <2>2. ASSUME NEW k \in 1 .. l
        PROVE  /\ E2[k].at \in DOMAIN M2 /\ E2[k].id = k - 1
               /\ k > 1 => E2[k - 1].at <= E2[k].at
               /\ IF M2[E2[k].at].layer = "slide" THEN Tags(H2, k) = {}
                  ELSE Cardinality(Tags(H2, k)) = 1 /\ \A i \in Tags(H2, k) : H2[i].kind = M2[E2[k].at].layer
    <3>1. InOrder(M, E, H) /\ k \in DOMAIN E
      BY <1>5 DEF Kept
    <3>2. E2[k] = E[k] /\ M2[E[k].at] = M[E[k].at] /\ E[k].at \in DOMAIN M2 /\ E[k].id = k - 1
      BY <1>6, <1>8
    <3>3. k > 1 => E[k - 1].at <= E[k].at
      BY <3>1 DEF InOrder
    <3>4. k > 1 => E2[k - 1] = E[k - 1]
      BY <1>5, <1>6
    <3>5. IF M[E[k].at].layer = "slide" THEN Tags(H, k) = {}
          ELSE Cardinality(Tags(H, k)) = 1 /\ \A i \in Tags(H, k) : H[i].kind = M[E[k].at].layer
      BY <3>1 DEF InOrder
    <3>6. Tags(H2, k) = Tags(H, k) /\ \A i \in Tags(H, k) : H2[i] = H[i]
      BY <2>1
    <3>7. IF M2[E2[k].at].layer = "slide" THEN Tags(H2, k) = {}
          ELSE Cardinality(Tags(H2, k)) = 1 /\ \A i \in Tags(H2, k) : H2[i].kind = M2[E2[k].at].layer
      BY <3>2, <3>5, <3>6
    <3>8. QED
      BY <3>2, <3>3, <3>4, <3>7
  <2>3. ASSUME NEW j \in 1 .. n
        PROVE  LET k == l + j
               IN  /\ E2[k].at \in DOMAIN M2 /\ E2[k].id = k - 1
                   /\ k > 1 => E2[k - 1].at <= E2[k].at
                   /\ IF M2[E2[k].at].layer = "slide" THEN Tags(H2, k) = {}
                      ELSE Cardinality(Tags(H2, k)) = 1 /\ \A i \in Tags(H2, k) : H2[i].kind = M2[E2[k].at].layer
    <3>1. PICK k : k = l + j
      OBVIOUS
    <3>2. E2[k].at = L + 1 /\ E2[k].id = k - 1
      BY <1>5, <1>6, <3>1
    <3>3. L + 1 \in DOMAIN M2 /\ M2[L + 1].layer = lay
      BY <1>1, <1>3
    <3>4. k > 1 => E2[k - 1].at <= L + 1
      <4>1. CASE j = 1
        <5>1. k - 1 = l
          BY <1>5, <3>1, <4>1
        <5>2. CASE l > 0
          <6>1. l \in 1 .. l
            BY <1>5, <5>2
          <6>2. E2[l].at \in 1 .. L
            BY <1>6, <1>8, <6>1
          <6>3. QED
            BY <1>3, <5>1, <6>2
        <5>3. CASE l = 0
          BY <3>1, <4>1, <5>3
        <5>4. QED
          BY <1>5, <5>2, <5>3
      <4>2. CASE j # 1
        <5>1. j - 1 \in 1 .. n /\ l + (j - 1) = k - 1
          BY <1>4, <1>5, <3>1, <4>2
        <5>2. E2[k - 1].at = L + 1
          BY <1>6, <5>1
        <5>3. QED
          BY <1>3, <5>2
      <4>3. QED
        BY <4>1, <4>2
    <3>5. lay = "slide" => Tags(H2, k) = {}
      BY <2>1, <3>1
    <3>6. lay # "slide" => Cardinality(Tags(H2, k)) = 1 /\ \A i \in Tags(H2, k) : H2[i].kind = lay
      <4>1. SUFFICES ASSUME lay # "slide" PROVE Cardinality(Tags(H2, k)) = 1 /\ \A i \in Tags(H2, k) : H2[i].kind = lay
        OBVIOUS
      <4>2. Tags(H2, k) = {h + a + j}
        BY <2>1, <3>1, <4>1
      <4>3. Cardinality(Tags(H2, k)) = 1
        BY <4>2, FS_Singleton
      <4>4. H2[h + a + j].kind = lay
        <5>1. b = n
          BY <1>1, <4>1 DEF TaggedOf
        <5>2. QED
          BY <1>1, <5>1 DEF HiddenGrow
      <4>5. QED
        BY <4>2, <4>3, <4>4
    <3>7. QED
      BY <3>1, <3>2, <3>3, <3>4, <3>5, <3>6
  <2>4. ASSUME NEW k \in DOMAIN E2
        PROVE  /\ E2[k].at \in DOMAIN M2 /\ E2[k].id = k - 1
               /\ k > 1 => E2[k - 1].at <= E2[k].at
               /\ IF M2[E2[k].at].layer = "slide" THEN Tags(H2, k) = {}
                  ELSE Cardinality(Tags(H2, k)) = 1 /\ \A i \in Tags(H2, k) : H2[i].kind = M2[E2[k].at].layer
    <3>1. k \in 1 .. l + n
      BY <1>5
    <3>2. CASE k \in 1 .. l
      BY <2>2, <3>2
    <3>3. CASE \E j \in 1 .. n : k = l + j
      BY <2>3, <3>3
    <3>4. QED
      BY <1>7, <3>1, <3>2, <3>3
  <2>5. QED
    BY <2>4 DEF InOrder
<1>13. Attached(E2, H2)
  <2> DEFINE Fits(i) == /\ H2[i].of \in {E2[k].id : k \in DOMAIN E2}
                        /\ E2[H2[i].of + 1].at = H2[i].at
                        /\ H2[i].kind \in {"role", "alt"} => H2[i].of = 0 \/ E2[H2[i].of].at # H2[i].at
  <2>1. ASSUME NEW i \in 1 .. h PROVE Fits(i)
    <3>1. H2[i] = H[i]
      BY <1>1 DEF HiddenGrow
    <3>2. PICK o : o = H[i].of
      OBVIOUS
    <3>3. o + 1 \in 1 .. l /\ o \in Int
      BY <1>9, <3>2
    <3>4. /\ E[o + 1].at = H[i].at
          /\ H[i].kind \in {"role", "alt"} => o = 0 \/ E[o].at # H[i].at
      BY <1>5, <3>2 DEF Kept, Attached
    <3>5. E2[o + 1] = E[o + 1] /\ (o # 0 => E2[o] = E[o])
      BY <1>5, <1>6, <3>3
    <3>6. E2[o + 1].id = o /\ o + 1 \in DOMAIN E2
      <4>1. E[o + 1].id = (o + 1) - 1
        BY <1>8, <3>3
      <4>2. o + 1 \in 1 .. l + n
        BY <1>4, <1>5, <3>3
      <4>3. QED
        BY <1>5, <3>3, <3>5, <4>1, <4>2
    <3>7. o \in {E2[k].id : k \in DOMAIN E2}
      BY <3>6
    <3>8. QED
      BY <3>1, <3>2, <3>4, <3>5, <3>7
  <2>2. ASSUME NEW i, NEW j \in 1 .. n, H2[i].of = l + j - 1, H2[i].at = L + 1,
               H2[i].kind \in {"role", "alt"} => j = 1
        PROVE  Fits(i)
    <3>1. (l + j - 1) + 1 = l + j /\ l + j \in 1 .. l + n
      BY <1>4, <1>5
    <3>2. E2[l + j].at = L + 1 /\ E2[l + j].id = l + j - 1
      BY <1>6
    <3>3. l + j - 1 \in {E2[k].id : k \in DOMAIN E2}
      BY <1>5, <3>1, <3>2
    <3>4. ASSUME j = 1, l # 0 PROVE E2[l].at # L + 1
      <4>1. l \in 1 .. l
        BY <1>5, <3>4
      <4>2. E2[l].at \in 1 .. L
        BY <1>6, <1>8, <4>1
      <4>3. QED
        BY <1>3, <4>2
    <3>5. j = 1 => l + j - 1 = l
      BY <1>5
    <3>6. H2[i].kind \in {"role", "alt"} => H2[i].of = 0 \/ E2[H2[i].of].at # H2[i].at
      BY <2>2, <3>4, <3>5
    <3>7. QED
      BY <2>2, <3>1, <3>2, <3>3, <3>6
  <2>3. ASSUME NEW i \in DOMAIN H2 PROVE Fits(i)
    <3>1. i \in 1 .. h + a + b
      BY <1>5
    <3>2. i \in 1 .. h \/ i - h \in 1 .. a \/ i - h - a \in 1 .. b
      BY <1>4, <1>5, <3>1
    <3>3. CASE i - h \in 1 .. a
      <4>1. PICK j : j = i - h
        OBVIOUS
      <4>2. j \in 1 .. a /\ h + j = i
        BY <1>5, <3>1, <3>3, <4>1
      <4>3. H2[h + j].of = l /\ H2[h + j].at = L + 1
        BY <1>1, <4>2 DEF HiddenGrow
      <4>4. 1 \in 1 .. n /\ l = l + 1 - 1
        BY <1>4, <1>5
      <4>5. QED
        BY <2>2, <4>2, <4>3, <4>4
    <3>4. CASE i - h - a \in 1 .. b
      <4>1. PICK j : j = i - h - a
        OBVIOUS
      <4>2. j \in 1 .. b /\ h + a + j = i
        BY <1>4, <1>5, <3>1, <3>4, <4>1
      <4>3. H2[h + a + j].of = l + j - 1 /\ H2[h + a + j].at = L + 1 /\ H2[h + a + j].kind = lay
        BY <1>1, <4>2 DEF HiddenGrow
      <4>4. j \in 1 .. n
        BY <1>1, <1>4, <4>2 DEF TaggedOf
      <4>5. lay \notin {"role", "alt"}
        BY <1>1
      <4>6. QED
        BY <2>2, <4>2, <4>3, <4>4, <4>5
    <3>5. QED
      BY <2>1, <3>2, <3>3, <3>4
  <2>4. QED
    BY <2>3 DEF Attached
<1>14. Warned(M2, N2)
  <2>1. ~ Owed(m)
    BY DEF Owed
  <2>2. ASSUME NEW i \in DOMAIN M2, Owed(M2[i]) PROVE i \in N2
    <3>1. i # L + 1
      BY <1>3, <2>1, <2>2
    <3>2. i \in 1 .. L
      BY <1>3, <3>1
    <3>3. Owed(M[i]) /\ i \in DOMAIN M
      BY <1>3, <2>2, <3>2
    <3>4. QED
      BY <3>3 DEF Kept, Warned
  <2>3. QED
    BY <2>2 DEF Warned
<1>15. AllRight(M2, E2)
  <2>1. ASSUME NEW k \in DOMAIN E2 PROVE Right(E2[k], M2[E2[k].at])
    <3>1. k \in 1 .. l + n
      BY <1>5
    <3>2. CASE k \in 1 .. l
      <4>1. E2[k] = E[k] /\ M2[E[k].at] = M[E[k].at]
        BY <1>6, <1>8, <3>2
      <4>2. Right(E[k], M[E[k].at])
        BY <1>5, <3>2 DEF Kept, AllRight
      <4>3. QED
        BY <4>1, <4>2
    <3>3. CASE \E j \in 1 .. n : k = l + j
      <4>1. PICK j \in 1 .. n : k = l + j
        BY <3>3
      <4>2. Right(E2[l + j], m)
        BY <1>1
      <4>3. M2[E2[k].at] = m
        BY <1>3, <1>6, <4>1
      <4>4. QED
        BY <4>1, <4>2, <4>3
    <3>4. QED
      BY <1>7, <3>1, <3>2, <3>3
  <2>2. QED
    BY <2>1 DEF AllRight
<1>16. QED
  BY <1>1, <1>10, <1>11, <1>12, <1>13, <1>14, <1>15 DEF Kept

\* The groups around, and the layers to come.
Typed == SlidesTyped /\ layer \in Seq({"master", "layout", "slide"}) /\ Listed(groups) /\ Chained(groups)

Inv == Typed /\ Kept(met, elements, hidden, noted)

\* A shape as it is met, and an element as its shape leaves it.
Met(m) ==
    /\ met' = Append(met, m) /\ m.chain = groups /\ m.layer = layer[1]
    /\ layer[1] \in {"master", "layout", "slide"}

Leaf(e) ==
    /\ "is" \in DOMAIN e /\ "box" \in DOMAIN e /\ "id" \notin DOMAIN e /\ "at" \notin DOMAIN e
    /\ e.is = "table" => "cells" \in DOMAIN e

LEMMA MeetsIs ==
    ASSUME NEW r, "chain" \notin DOMAIN r, "layer" \notin DOMAIN r, Typed, Meets(r)
    PROVE  \E m : Met(m) /\ \A x \in DOMAIN r : m[x] = r[x]
<1>1. PICK gs, lay : gs = groups /\ lay = layer[1]
  OBVIOUS
<1>2. PICK more : more = [chain |-> gs, layer |-> lay]
  OBVIOUS
<1>3. DOMAIN more = {"chain", "layer"} /\ more["chain"] = gs /\ more["layer"] = lay
  BY ONLY <1>2
<1>4. PICK m : m = With(r, more)
  OBVIOUS
<1>5. /\ \A x \in DOMAIN r : m[x] = r[x]
      /\ m["chain"] = gs /\ m["layer"] = lay
  BY <1>3, <1>4, WithIs
<1>6. met' = Append(met, m)
  BY <1>1, <1>2, <1>4 DEF Meets
<1>7. lay \in {"master", "layout", "slide"}
  <2>1. layer # <<>> /\ layer \in Seq({"master", "layout", "slide"})
    BY DEF Meets, Typed
  <2>2. Len(layer) \in Nat /\ Len(layer) # 0
    BY ONLY <2>1, EmptySeq
  <2>3. 1 \in 1 .. Len(layer)
    BY ONLY <2>2
  <2>4. QED
    BY ONLY <1>1, <2>1, <2>3
<1>8. QED
  BY <1>1, <1>5, <1>6, <1>7 DEF Met

LEMMA LeftNothing ==
    ASSUME NEW m, Inv, Met(m), Nothing, Expected(m) = <<>>, Warns \/ (UNCHANGED noted /\ ~ Owed(m))
    PROVE  Kept(met', elements', hidden', noted')
<1>1. Listed(met) /\ Kept(met, elements, hidden, noted)
  BY DEF Inv, Kept, Shapely
<1>2. m.layer \in {"master", "layout", "slide"}
  BY DEF Met
<1>3. Len(met') = Len(met) + 1
  BY <1>1, AppendIs DEF Met
<1>4. noted \subseteq noted' /\ (Owed(m) => Len(met) + 1 \in noted')
  BY <1>3 DEF Warns
<1>5. Kept(Append(met, m), elements, hidden, noted')
  BY <1>1, <1>2, <1>4, NothingKept
<1>6. QED
  BY <1>5 DEF Met, Nothing

(* What Emits puts at the end of the elements and of the hidden items.     *)
LEMMA EmitsGrow ==
    ASSUME NEW m, NEW new, NEW kinds, Met(m), Emits(new, kinds), Listed(met), Listed(elements), Listed(hidden),
           Listed(new), \A j \in 1 .. Len(new) : Leaf(new[j]),
           Listed(kinds), \A j \in 1 .. Len(kinds) : kinds[j] \in {"role", "alt"},
           NEW ex, Len(ex) = Len(new), \A j \in 1 .. Len(new) : ex[j] = new[j].is
    PROVE  /\ ElementsGrow(elements, elements', ex, Len(met) + 1)
           /\ HiddenGrow(hidden, hidden', Len(elements), Len(new), Len(kinds), Len(met) + 1, m.layer)
           /\ \A j \in 1 .. Len(new) : \A x \in DOMAIN new[j] : elements'[Len(elements) + j][x] = new[j][x]
<1>1. PICK L, l, h, n, a, lay :
         L = Len(met) /\ l = Len(elements) /\ h = Len(hidden) /\ n = Len(new) /\ a = Len(kinds) /\ lay = layer[1]
  OBVIOUS
<1>2. /\ L \in Nat /\ l \in Nat /\ h \in Nat /\ n \in Nat /\ a \in Nat
      /\ DOMAIN new = 1 .. n /\ DOMAIN kinds = 1 .. a
  BY <1>1, ListIs
<1>3. Len(met') = L + 1
  BY <1>1, AppendIs DEF Met
<1>4. PICK es : es = [i \in 1 .. n |-> With(new[i], [id |-> l + i - 1, at |-> L + 1])]
  OBVIOUS
<1>5. elements' = elements \o es
  BY <1>1, <1>2, <1>3, <1>4 DEF Emits
<1>6. Listed(es) /\ Len(es) = n
  <2>1. es = [i \in 1 .. n |-> es[i]]
    BY <1>4
  <2>2. QED
    BY <1>2, <2>1, BuiltIs
<1>7. /\ Listed(elements') /\ Len(elements') = l + n
      /\ \A k \in 1 .. l : elements'[k] = elements[k]
      /\ \A j \in 1 .. n : elements'[l + j] = es[j]
  <2>1. PICK E : E = elements
    OBVIOUS
  <2>2. Listed(E) /\ Listed(es)
    BY <1>6, <2>1
  <2>3. /\ Listed(E \o es) /\ Len(E \o es) = Len(E) + Len(es)
        /\ \A i \in 1 .. Len(E) : (E \o es)[i] = E[i]
        /\ \A j \in 1 .. Len(es) : (E \o es)[Len(E) + j] = es[j]
    BY ONLY <2>2, JoinIs
  <2>4. elements' = E \o es /\ Len(E) = l
    BY <1>1, <1>5, <2>1
  <2>5. QED
    BY <1>6, <2>1, <2>3, <2>4
<1>8. ASSUME NEW j \in 1 .. n
      PROVE  /\ es[j].at = L + 1 /\ es[j].id = l + j - 1 /\ es[j].is = new[j].is
             /\ \A x \in DOMAIN new[j] : es[j][x] = new[j][x]
  <2>1. PICK r, e, more : r = new[j] /\ e = es[j] /\ more = [id |-> l + j - 1, at |-> L + 1]
    OBVIOUS
  <2>2. e = With(r, more)
    BY <1>4, <2>1
  <2>3. DOMAIN more = {"id", "at"} /\ more["id"] = l + j - 1 /\ more["at"] = L + 1
    BY ONLY <2>1
  <2>4. "is" \in DOMAIN r /\ "id" \notin DOMAIN r /\ "at" \notin DOMAIN r
    BY <1>1, <2>1 DEF Leaf
  <2>5. (\A x \in DOMAIN r : e[x] = r[x]) /\ e["id"] = l + j - 1 /\ e["at"] = L + 1
    BY <2>2, <2>3, <2>4, WithIs
  <2>6. QED
    BY <2>1, <2>4, <2>5
<1>9. ElementsGrow(elements, elements', ex, L + 1)
  <2>1. Len(ex) = n /\ \A j \in 1 .. n : ex[j] = new[j].is
    BY <1>1
  <2>2. \A j \in 1 .. n : /\ elements'[l + j].at = L + 1 /\ elements'[l + j].id = l + j - 1
                          /\ elements'[l + j].is = ex[j]
    BY <1>7, <1>8, <2>1
  <2>3. QED
    BY <1>1, <1>7, <2>1, <2>2 DEF ElementsGrow
<1>10. PICK b : b = TaggedOf(lay, n)
  OBVIOUS
<1>11. b \in Nat
  BY <1>2, <1>10 DEF TaggedOf
<1>12. PICK its : its = [i \in 1 .. a |-> [kind |-> kinds[i], of |-> l, at |-> L + 1]]
  OBVIOUS
<1>13. PICK tgs : tgs = [i \in 1 .. b |-> [kind |-> lay, of |-> l + i - 1, at |-> L + 1]]
  OBVIOUS
<1>14. Listed(its) /\ Len(its) = a /\ Listed(tgs) /\ Len(tgs) = b
  <2>1. its = [i \in 1 .. a |-> its[i]] /\ tgs = [i \in 1 .. b |-> tgs[i]]
    BY <1>12, <1>13
  <2>2. QED
    BY <1>2, <1>11, <2>1, BuiltIs
<1>15. Items(kinds) = its
  BY <1>1, <1>2, <1>3, <1>12 DEF Items
<1>16. Tagged = tgs
  <2>1. Len(elements') - l = n
    BY <1>2, <1>7
  <2>2. CASE lay = "slide"
    <3>1. Tagged = <<>>
      BY <1>1, <2>2 DEF Tagged, Inherited
    <3>2. b = 0
      BY <1>10, <2>2 DEF TaggedOf
    <3>3. tgs = <<>>
      BY <1>14, <3>2, EmptySeq DEF Listed
    <3>4. QED
      BY <3>1, <3>3
  <2>3. CASE lay # "slide"
    <3>1. b = n
      BY <1>10, <2>3 DEF TaggedOf
    <3>2. Tagged = [i \in 1 .. Len(elements') - l |-> [kind |-> lay, of |-> l + i - 1, at |-> Len(met')]]
      BY <1>1, <2>3 DEF Tagged, Inherited
    <3>3. QED
      BY <1>3, <1>13, <2>1, <3>1, <3>2
  <2>4. QED
    BY <2>2, <2>3
<1>17. hidden' = (hidden \o its) \o tgs
  BY <1>15, <1>16 DEF Emits
<1>18. PICK hi : hi = hidden \o its
  OBVIOUS
<1>19. /\ Listed(hi) /\ Len(hi) = h + a
       /\ \A i \in 1 .. h : hi[i] = hidden[i]
       /\ \A j \in 1 .. a : hi[h + j] = its[j]
  <2>1. PICK H : H = hidden
    OBVIOUS
  <2>2. Listed(H) /\ Listed(its)
    BY <1>14, <2>1
  <2>3. /\ Listed(H \o its) /\ Len(H \o its) = Len(H) + Len(its)
        /\ \A i \in 1 .. Len(H) : (H \o its)[i] = H[i]
        /\ \A j \in 1 .. Len(its) : (H \o its)[Len(H) + j] = its[j]
    BY ONLY <2>2, JoinIs
  <2>4. hi = H \o its /\ Len(H) = h
    BY <1>1, <1>18, <2>1
  <2>5. QED
    BY <1>14, <2>1, <2>3, <2>4
<1>20. /\ Listed(hidden') /\ Len(hidden') = h + a + b
       /\ \A i \in 1 .. h + a : hidden'[i] = hi[i]
       /\ \A j \in 1 .. b : hidden'[h + a + j] = tgs[j]
  <2>1. /\ Listed(hi \o tgs) /\ Len(hi \o tgs) = Len(hi) + Len(tgs)
        /\ \A i \in 1 .. Len(hi) : (hi \o tgs)[i] = hi[i]
        /\ \A j \in 1 .. Len(tgs) : (hi \o tgs)[Len(hi) + j] = tgs[j]
    BY <1>14, <1>19, JoinIs
  <2>2. hidden' = hi \o tgs
    BY <1>17, <1>18
  <2>3. QED
    BY <1>14, <1>19, <2>1, <2>2
<1>21. HiddenGrow(hidden, hidden', l, n, a, L + 1, lay)
  <2>1. ASSUME NEW i \in 1 .. h PROVE hidden'[i] = hidden[i]
    <3>1. i \in 1 .. h + a
      BY <1>2
    <3>2. QED
      BY <1>19, <1>20, <3>1
  <2>2. ASSUME NEW j \in 1 .. a
        PROVE  hidden'[h + j].of = l /\ hidden'[h + j].at = L + 1 /\ hidden'[h + j].kind \in {"role", "alt"}
    <3>1. h + j \in 1 .. h + a
      BY <1>2
    <3>2. hidden'[h + j] = its[j]
      BY <1>19, <1>20, <3>1
    <3>3. its[j] = [kind |-> kinds[j], of |-> l, at |-> L + 1]
      BY <1>12
    <3>4. kinds[j] \in {"role", "alt"}
      BY <1>1
    <3>5. QED
      BY <3>2, <3>3, <3>4
  <2>3. ASSUME NEW j \in 1 .. b
        PROVE  /\ hidden'[h + a + j].of = l + j - 1 /\ hidden'[h + a + j].at = L + 1
               /\ hidden'[h + a + j].kind = lay
    BY <1>13, <1>20
  <2>4. QED
    BY <1>1, <1>2, <1>10, <1>20, <2>1, <2>2, <2>3 DEF HiddenGrow
<1>22. m.layer = lay
  BY <1>1 DEF Met
<1>23. \A j \in 1 .. n : \A x \in DOMAIN new[j] : elements'[l + j][x] = new[j][x]
  BY <1>7, <1>8
<1>24. QED
  BY <1>1, <1>9, <1>21, <1>22, <1>23

LEMMA LeftElements ==
    ASSUME NEW m, NEW new, NEW kinds, Inv, Met(m), Emits(new, kinds), Warns \/ UNCHANGED noted,
           Listed(new), \A j \in 1 .. Len(new) : Leaf(new[j]) /\ Right(new[j], m),
           Listed(kinds), \A j \in 1 .. Len(kinds) : kinds[j] \in {"role", "alt"},
           Listed(Expected(m)), Expected(m) # <<>>, Len(Expected(m)) = Len(new),
           \A j \in 1 .. Len(new) : Expected(m)[j] = new[j].is
    PROVE  Kept(met', elements', hidden', noted')
<1>1. Listed(met) /\ Listed(elements) /\ Listed(hidden) /\ Kept(met, elements, hidden, noted)
  BY DEF Inv, Kept, Shapely
<1>2. PICK ex : ex = Expected(m)
  OBVIOUS
<1>3. \A j \in 1 .. Len(new) : Leaf(new[j])
  OBVIOUS
<1>4. Len(ex) = Len(new) /\ \A j \in 1 .. Len(new) : ex[j] = new[j].is
  BY <1>2
<1>5. /\ ElementsGrow(elements, elements', ex, Len(met) + 1)
      /\ HiddenGrow(hidden, hidden', Len(elements), Len(new), Len(kinds), Len(met) + 1, m.layer)
      /\ \A j \in 1 .. Len(new) : \A x \in DOMAIN new[j] : elements'[Len(elements) + j][x] = new[j][x]
  BY <1>1, <1>3, <1>4, EmitsGrow
<1>6. ASSUME NEW j \in 1 .. Len(new) PROVE Right(elements'[Len(elements) + j], m)
  <2>1. PICK r, e : r = new[j] /\ e = elements'[Len(elements) + j]
    OBVIOUS
  <2>2. \A x \in DOMAIN r : e[x] = r[x]
    BY <1>5, <2>1
  <2>3. Leaf(r) /\ Right(r, m)
    BY <2>1
  <2>4. e.is = r.is /\ e.box = r.box /\ (r.is = "table" => e.cells = r.cells)
    BY <2>2, <2>3 DEF Leaf
  <2>5. Right(e, m)
    BY <2>3, <2>4 DEF Right
  <2>6. QED
    BY <2>1, <2>5
<1>7. noted \subseteq noted' /\ m.layer \in {"master", "layout", "slide"}
  BY DEF Warns, Met
<1>8. Kept(Append(met, m), elements', hidden', noted')
  <2>1. ElementsGrow(elements, elements', Expected(m), Len(met) + 1)
    BY <1>2, <1>5
  <2>2. HiddenGrow(hidden, hidden', Len(elements), Len(Expected(m)), Len(kinds), Len(met) + 1, m.layer)
    BY <1>5
  <2>3. \A j \in 1 .. Len(Expected(m)) : Right(elements'[Len(elements) + j], m)
    BY <1>6
  <2>4. QED
    BY <1>1, <1>7, <2>1, <2>2, <2>3, EmitsKept
<1>9. QED
  BY <1>8 DEF Met

(***************************************************************************)
(* Each shape, in turn.                                                    *)
(***************************************************************************)
(* The links of a text are a list.                                         *)
LEMMA LinksListed ==
    ASSUME NEW body, IsBody(body), NEW external
    PROVE  Listed(Links(body, external))
<1>1. PICK C : BodyOf(body, C)
  BY BodyIs
<1>2. PICK n, pp, V : n = Len(body.paragraphs) /\ pp = LinksOf(body, external) /\ V = Seq(external)
  OBVIOUS
<1>3. n \in Nat /\ ForItems(body, pp, V) /\ Links(body, external) = FlatTwice(pp, n)
  BY <1>1, <1>2, LinksAre DEF BodyOf
<1>4. PICK ss : ss = [k \in 1 .. n |-> FlattenSeq(pp[k])]
  OBVIOUS
<1>5. ASSUME NEW k \in 1 .. n PROVE FlattenSeq(pp[k]) \in V
  <2>1. pp[k] \in Seq(V)
    BY <1>1, <1>2, <1>3, ForItemsAre
  <2>2. QED
    BY <1>2, <2>1, FlattenIs
<1>6. ss \in Seq(V)
  <2>1. ss = [k \in 1 .. n |-> ss[k]] /\ \A k \in 1 .. n : ss[k] \in V
    BY <1>4, <1>5
  <2>2. QED
    BY ONLY <1>3, <2>1, SeqIs
<1>7. FlattenSeq(ss) \in V
  BY <1>2, <1>6, FlattenIs
<1>8. QED
  BY <1>2, <1>3, <1>4, <1>7 DEF FlatTwice, Listed

(* The kinds of items a shape has of its own.                              *)
LEMMA KindsAre ==
    ASSUME NEW p, NEW q
    PROVE  LET kinds == If(p, "role") \o If(q, "alt")
           IN  Listed(kinds) /\ \A j \in 1 .. Len(kinds) : kinds[j] \in {"role", "alt"}
<1>1. PICK S, u, v : S = {"role", "alt"} /\ u = If(p, "role") /\ v = If(q, "alt")
  OBVIOUS
<1>2. u \in Seq(S) /\ v \in Seq(S)
  <2>1. <<"role">> \in Seq(S) /\ <<"alt">> \in Seq(S) /\ <<>> \in Seq(S)
    BY ONLY <1>1
  <2>2. u \in {<<"role">>, <<>>} /\ v \in {<<"alt">>, <<>>}
    BY <1>1 DEF If
  <2>3. QED
    BY <2>1, <2>2
<1>3. PICK w : w = u \o v
  OBVIOUS
<1>4. w \in Seq(S)
  BY ONLY <1>2, <1>3
<1>5. \A j \in 1 .. Len(w) : w[j] \in S
  BY ONLY <1>4
<1>6. QED
  BY <1>1, <1>3, <1>4, <1>5 DEF Listed

LEMMA AltIs ==
    ASSUME NEW q
    PROVE  LET kinds == If(q, "alt")
           IN  Listed(kinds) /\ \A j \in 1 .. Len(kinds) : kinds[j] \in {"role", "alt"}
<1>1. PICK S, w : S = {"role", "alt"} /\ w = If(q, "alt")
  OBVIOUS
<1>2. w \in Seq(S)
  <2>1. <<"alt">> \in Seq(S) /\ <<>> \in Seq(S)
    BY ONLY <1>1
  <2>2. w \in {<<"alt">>, <<>>}
    BY <1>1 DEF If
  <2>3. QED
    BY <2>1, <2>2
<1>3. \A j \in 1 .. Len(w) : w[j] \in S
  BY ONLY <1>2
<1>4. QED
  BY <1>1, <1>2, <1>3 DEF Listed

Led(s, e, n, v) ==
    Listed(s) /\ Len(s) = n + 1 /\ s # <<>> /\ s[1] = e /\ \A j \in 2 .. n + 1 : s[j] = v

LEMMA LedIs ==
    ASSUME NEW e, NEW n \in Nat, NEW v, NEW t, t = [i \in 1 .. n |-> t[i]], \A i \in 1 .. n : t[i] = v
    PROVE  Led(<<e>> \o t, e, n, v)
<1>1. PICK u, s : u = <<e>> /\ s = u \o t
  OBVIOUS
<1>2. Listed(t) /\ Len(t) = n
  BY BuiltIs
<1>3. Listed(u) /\ Len(u) = 1 /\ u[1] = e
  BY <1>1, OneIs
<1>4. /\ Listed(u \o t) /\ Len(u \o t) = Len(u) + Len(t)
      /\ \A i \in 1 .. Len(u) : (u \o t)[i] = u[i]
      /\ \A j \in 1 .. Len(t) : (u \o t)[Len(u) + j] = t[j]
  <2>1. Listed(u) /\ Listed(t)
    BY <1>2, <1>3
  <2>2. QED
    BY ONLY <2>1, JoinIs
<1>5. Len(s) = n + 1 /\ s[1] = e
  BY <1>1, <1>2, <1>3, <1>4
<1>6. ASSUME NEW j \in 2 .. n + 1 PROVE s[j] = v
  <2>1. j - 1 \in 1 .. n /\ 1 + (j - 1) = j
    OBVIOUS
  <2>2. QED
    BY <1>1, <1>2, <1>3, <1>4, <2>1
<1>7. s # <<>>
  <2>1. Len(<<>>) = 0 /\ Len(s) # 0
    BY <1>5
  <2>2. QED
    BY <2>1
<1>8. QED
  BY <1>1, <1>4, <1>5, <1>6, <1>7 DEF Led

(* A box of a shape in its place.                                          *)
LEMMA HullAt ==
    ASSUME Typed, NEW x \in Transform, NEW box \in Int \X Int \X Int \X Int
    PROVE  Hull(TransformedCorners(box, x)) = Hull(Lie(x, groups, box))
<1>1. Turns(x) /\ Chained(groups)
  BY BoxIs DEF Typed
<1>2. QED
  BY <1>1, LiesThere

LEMMA TypedStays == ASSUME Typed, Left PROVE Typed'
BY DEF Typed, Left, Chained

LEMMA RightIs ==
    ASSUME Typed, NEW m, NEW e, NEW x \in Transform, m.chain = groups, Placed(m)[1] = x,
           e.box = Hull(TransformedCorners(BoxOf(x), x)), e.is # "table",
           e.is = "chart" => PointsExact(m.f.chart[1], m.f.chart[2]),
           m.is = "shape" => TextConsistent(m.s.body, InheritedStyles(m.s.holds), Externals)
    PROVE  Right(e, m)
<1>1. BoxOf(x) \in Int \X Int \X Int \X Int
  BY BoxIs
<1>2. Hull(TransformedCorners(BoxOf(x), x)) = Hull(Lie(x, groups, BoxOf(x)))
  BY <1>1, HullAt
<1>3. QED
  BY <1>2 DEF Right

LEMMA ShapeKept ==
    ASSUME Inv, NEW s \in Shapes, Shape(s)
    PROVE  Inv'
<1>1. SlidesTyped /\ IsPlace(s.at) /\ IsBody(s.body) /\ 0 \notin Externals
  BY DEF Inv, Typed, SlidesTyped
<1>2. PICK r : r = [is |-> "shape", s |-> s]
  OBVIOUS
<1>3. DOMAIN r = {"is", "s"} /\ r["is"] = "shape" /\ r["s"] = s
  BY ONLY <1>2
<1>4. Typed /\ Meets(r) /\ Left
  BY <1>2 DEF Inv, Shape
<1>5. PICK m : Met(m) /\ \A y \in DOMAIN r : m[y] = r[y]
  BY <1>3, <1>4, MeetsIs
<1>6. m.is = "shape" /\ m.s = s /\ m.chain = groups /\ m.layer = layer[1]
  BY <1>3, <1>5 DEF Met
<1>7. PICK x, text, links, kinds, box :
         /\ x = Resolve(s.at, s.holds) /\ text = Content(s.body) /\ links = Links(s.body, Externals)
         /\ kinds = If(s.holds # <<>>, "role") \o If(s.alt, "alt")
         /\ box = Hull(TransformedCorners(BoxOf(x[1]), x[1]))
  OBVIOUS
<1>8. IF Inherited /\ s.holds # <<>> THEN Nothing /\ UNCHANGED noted
      ELSE IF x = <<>> THEN Nothing /\ Warns
      ELSE /\ UNCHANGED noted
           /\ IF text # <<>>
              THEN Emits(<<TextOf(s, box)>> \o [i \in DOMAIN links |-> [is |-> "link", box |-> box]], kinds)
              ELSE IF s.geometry THEN Emits(<<[is |-> "path", box |-> box]>>, kinds) ELSE Nothing
  BY <1>7 DEF Shape
<1>9. Expected(m) = IF Placed(m) = <<>> THEN <<>>
                    ELSE IF text # <<>> THEN <<"text">> \o [i \in DOMAIN links |-> "link"]
                    ELSE IF s.geometry THEN <<"path">> ELSE <<>>
  BY <1>6, <1>7 DEF Expected, If
<1>10. Kept(met', elements', hidden', noted')
  <2>1. CASE Inherited /\ s.holds # <<>>
    <3>1. Placed(m) = <<>> /\ Silently(m)
      BY <1>6, <2>1 DEF Placed, Silently, Inherited
    <3>2. Expected(m) = <<>> /\ ~ Owed(m)
      BY <1>9, <3>1 DEF Owed
    <3>3. QED
      BY <1>5, <1>8, <2>1, <3>2, LeftNothing
  <2>2. CASE ~ (Inherited /\ s.holds # <<>>)
    <3>1. Placed(m) = x /\ Settled(x)
      BY <1>1, <1>6, <1>7, <2>2, ShapeAt DEF Inherited
    <3>2. CASE x = <<>>
      <4>1. Expected(m) = <<>>
        BY <1>9, <3>1, <3>2
      <4>2. QED
        BY <1>5, <1>8, <2>2, <3>2, <4>1, LeftNothing
    <3>3. CASE x # <<>>
      <4>1. x[1] \in Transform
        BY <3>1, <3>3 DEF Settled
      <4>2. TextConsistent(s.body, InheritedStyles(s.holds), Externals)
        BY <1>1, TextHolds
      <4>3. ASSUME NEW e, e.is \in {"text", "link", "path"}, e.box = box
            PROVE  Right(e, m)
        BY <1>4, <1>6, <1>7, <3>1, <4>1, <4>2, <4>3, RightIs
      <4>4. Listed(kinds) /\ \A j \in 1 .. Len(kinds) : kinds[j] \in {"role", "alt"}
        BY <1>7, KindsAre
      <4>5. UNCHANGED noted
        BY <1>8, <2>2, <3>3
      <4>6. CASE text # <<>>
        <5>0. PICK t, u, w, us, ws : /\ t = TextOf(s, box) /\ u = [is |-> "link", box |-> box] /\ w = "link"
                                     /\ us = [i \in DOMAIN links |-> u] /\ ws = [i \in DOMAIN links |-> "link"]
          OBVIOUS
        <5>1. PICK new, ex, y : new = <<t>> \o us /\ ex = <<y>> \o ws /\ y = "text"
          OBVIOUS
        <5>2. Emits(new, kinds)
          BY <1>8, <2>2, <3>3, <4>6, <5>0, <5>1
        <5>3. Expected(m) = ex
          BY <1>9, <3>1, <3>3, <4>6, <5>0, <5>1
        <5>4. PICK n : n = Len(links) /\ n \in Nat /\ DOMAIN links = 1 .. n
          <6>1. Listed(links)
            BY <1>1, <1>7, LinksListed
          <6>2. QED
            BY <6>1, ListIs
        <5>5. /\ Listed(new) /\ Len(new) = n + 1 /\ new[1] = t
              /\ \A j \in 2 .. n + 1 : new[j] = u
          <6>1. us = [i \in 1 .. n |-> us[i]] /\ \A i \in 1 .. n : us[i] = u
            BY <5>0, <5>4
          <6>2. n \in Nat
            BY <5>4
          <6>3. Led(<<t>> \o us, t, n, u)
            BY ONLY <6>1, <6>2, LedIs
          <6>4. QED
            BY <5>1, <6>3 DEF Led
        <5>6. /\ Listed(ex) /\ Len(ex) = n + 1 /\ ex # <<>> /\ ex[1] = "text"
              /\ \A j \in 2 .. n + 1 : ex[j] = "link"
          <6>1. ws = [i \in 1 .. n |-> ws[i]] /\ \A i \in 1 .. n : ws[i] = w
            BY <5>0, <5>4
          <6>2. n \in Nat
            BY <5>4
          <6>3. Led(<<y>> \o ws, y, n, w)
            BY ONLY <6>1, <6>2, LedIs
          <6>4. QED
            BY <5>0, <5>1, <6>3 DEF Led
        <5>7. Leaf(t) /\ Leaf(u) /\ t.is = "text" /\ u.is = "link" /\ t.box = box /\ u.box = box
          BY <5>0 DEF TextOf, Leaf
        <5>8. ASSUME NEW j \in 1 .. Len(new)
              PROVE  Leaf(new[j]) /\ Right(new[j], m) /\ ex[j] = new[j].is
          <6>1. j = 1 \/ j \in 2 .. n + 1
            BY <5>4, <5>5
          <6>2. Right(t, m) /\ Right(u, m)
            BY <4>3, <5>7
          <6>3. QED
            BY <5>5, <5>6, <5>7, <6>1, <6>2
        <5>9. QED
          BY <1>5, <4>4, <4>5, <5>2, <5>3, <5>5, <5>6, <5>8, LeftElements
      <4>7. CASE text = <<>> /\ s.geometry
        <5>1. PICK t, new, ex : t = [is |-> "path", box |-> box] /\ new = <<t>> /\ ex = <<"path">>
          OBVIOUS
        <5>2. Emits(new, kinds)
          BY <1>8, <2>2, <3>3, <4>7, <5>1
        <5>3. Expected(m) = ex
          BY <1>9, <3>1, <3>3, <4>7, <5>1
        <5>4. Listed(new) /\ Len(new) = 1 /\ new[1] = t /\ Listed(ex) /\ Len(ex) = 1 /\ ex[1] = "path" /\ ex # <<>>
          BY <5>1, OneIs
        <5>5. Leaf(t) /\ t.is = "path" /\ Right(t, m)
          BY <4>3, <5>1 DEF Leaf
        <5>6. \A j \in 1 .. Len(new) : Leaf(new[j]) /\ Right(new[j], m) /\ ex[j] = new[j].is
          BY <5>4, <5>5
        <5>7. QED
          BY <1>5, <4>4, <4>5, <5>2, <5>3, <5>4, <5>6, LeftElements
      <4>8. CASE text = <<>> /\ ~ s.geometry
        <5>1. Expected(m) = <<>> /\ Silently(m)
          BY <1>6, <1>9, <3>1, <3>3, <4>8 DEF Silently
        <5>2. QED
          BY <1>5, <1>8, <2>2, <3>3, <4>8, <5>1, LeftNothing DEF Owed
      <4>9. QED
        BY <4>6, <4>7, <4>8
    <3>4. QED
      BY <3>2, <3>3
  <2>3. QED
    BY <2>1, <2>2
<1>11. Typed'
  BY <1>4, TypedStays
<1>12. QED
  BY <1>10, <1>11 DEF Inv

(* A shape that leaves one element.                                        *)
LEMMA LeftOne ==
    ASSUME NEW m, NEW e, NEW kinds, NEW w, Inv, Met(m), Emits(<<e>>, kinds), Warns \/ UNCHANGED noted,
           Leaf(e), Right(e, m), Listed(kinds), \A j \in 1 .. Len(kinds) : kinds[j] \in {"role", "alt"},
           Expected(m) = <<w>>, e.is = w
    PROVE  Kept(met', elements', hidden', noted')
<1>1. PICK new, ex : new = <<e>> /\ ex = <<w>>
  OBVIOUS
<1>2. Listed(new) /\ Len(new) = 1 /\ new[1] = e /\ Listed(ex) /\ Len(ex) = 1 /\ ex[1] = w /\ ex # <<>>
  BY <1>1, OneIs
<1>3. \A j \in 1 .. Len(new) : Leaf(new[j]) /\ Right(new[j], m) /\ ex[j] = new[j].is
  BY <1>2
<1>4. Expected(m) = ex /\ Emits(new, kinds)
  BY <1>1
<1>5. QED
  BY <1>2, <1>3, <1>4, LeftElements

LEMMA UnseenKept ==
    ASSUME Inv, Unseen
    PROVE  Inv'
<1>1. PICK r : r = [is |-> "unseen"]
  OBVIOUS
<1>2. DOMAIN r = {"is"} /\ r["is"] = "unseen"
  BY ONLY <1>1
<1>3. Typed /\ Meets(r) /\ Left
  BY <1>1 DEF Inv, Unseen
<1>4. PICK m : Met(m) /\ \A y \in DOMAIN r : m[y] = r[y]
  BY <1>2, <1>3, MeetsIs
<1>5. m.is = "unseen"
  BY <1>2, <1>4
<1>6. Expected(m) = <<>> /\ ~ Owed(m)
  BY <1>5 DEF Expected, Placed, Owed
<1>7. Nothing /\ UNCHANGED noted
  BY DEF Unseen
<1>8. Kept(met', elements', hidden', noted')
  BY <1>4, <1>6, <1>7, LeftNothing
<1>9. QED
  BY <1>3, <1>8, TypedStays DEF Inv

LEMMA ConnectorKept ==
    ASSUME Inv, NEW at, NEW alt, IsPlace(at), Connector(at, alt)
    PROVE  Inv'
<1>1. PICK r : r = [is |-> "connector", at |-> at]
  OBVIOUS
<1>2. DOMAIN r = {"is", "at"} /\ r["is"] = "connector" /\ r["at"] = at
  BY ONLY <1>1
<1>3. Typed /\ Meets(r) /\ Left
  BY <1>1 DEF Inv, Connector
<1>4. PICK m : Met(m) /\ \A y \in DOMAIN r : m[y] = r[y]
  BY <1>2, <1>3, MeetsIs
<1>5. m.is = "connector" /\ m.at = at /\ m.chain = groups
  BY <1>2, <1>4 DEF Met
<1>6. Placed(m) = Saner(at)
  BY <1>5 DEF Placed, Saner
<1>7. Kept(met', elements', hidden', noted')
  <2>1. CASE ~ Given(at)
    <3>1. Expected(m) = <<>> /\ Nothing /\ Warns
      BY <1>5, <1>6, <2>1 DEF Expected, Saner, Connector
    <3>2. QED
      BY <1>4, <3>1, LeftNothing
  <2>2. CASE Given(at)
    <3>1. PICK x, kinds, e : /\ x = at[1] /\ kinds = If(alt, "alt")
                             /\ e = [is |-> "path", box |-> Hull(TransformedCorners(BoxOf(x), x))]
      OBVIOUS
    <3>2. Placed(m) = at /\ at # <<>> /\ Placed(m)[1] = x /\ x \in Transform
      BY <1>6, <2>2, <3>1, SanerIs DEF Saner, Settled
    <3>3. Emits(<<e>>, kinds) /\ UNCHANGED noted
      BY <2>2, <3>1 DEF Connector
    <3>4. Expected(m) = <<"path">>
      BY <1>5, <3>2 DEF Expected
    <3>5. Leaf(e) /\ e.is = "path" /\ e.box = Hull(TransformedCorners(BoxOf(x), x))
      BY <3>1 DEF Leaf
    <3>6. Right(e, m)
      BY <1>3, <1>5, <3>2, <3>5, RightIs
    <3>7. Listed(kinds) /\ \A j \in 1 .. Len(kinds) : kinds[j] \in {"role", "alt"}
      BY <3>1, AltIs
    <3>8. QED
      BY <1>4, <3>3, <3>4, <3>5, <3>6, <3>7, LeftOne
  <2>3. QED
    BY <2>1, <2>2
<1>8. QED
  BY <1>3, <1>7, TypedStays DEF Inv

LEMMA ImageIs ==
    ASSUME Typed, NEW x \in Transform, NEW m, m.is # "shape", m.chain = groups, Placed(m)[1] = x
    PROVE  Leaf(Image(x)) /\ Image(x).is = "image" /\ Right(Image(x), m)
<1>1. PICK e : e = Image(x)
  OBVIOUS
<1>2. Leaf(e) /\ e.is = "image" /\ e.box = Hull(TransformedCorners(BoxOf(x), x))
  BY <1>1 DEF Image, Leaf
<1>3. Right(e, m)
  BY <1>2, RightIs
<1>4. QED
  BY <1>1, <1>2, <1>3

LEMMA PictureKept ==
    ASSUME Inv, NEW p \in Pictures, Picture(p)
    PROVE  Inv'
<1>1. PICK r, at : at = p.at /\ r = [is |-> "picture", at |-> at]
  OBVIOUS
<1>2. DOMAIN r = {"is", "at"} /\ r["is"] = "picture" /\ r["at"] = at /\ IsPlace(at)
  <2>1. IsPlace(at)
    BY <1>1 DEF Inv, Typed, SlidesTyped
  <2>2. QED
    BY ONLY <1>1, <2>1
<1>3. Typed /\ Meets(r) /\ Left
  BY <1>1 DEF Inv, Picture
<1>4. PICK m : Met(m) /\ \A y \in DOMAIN r : m[y] = r[y]
  BY <1>2, <1>3, MeetsIs
<1>5. m.is = "picture" /\ m.at = at /\ m.chain = groups
  BY <1>2, <1>4 DEF Met
<1>6. Placed(m) = Saner(at)
  BY <1>5 DEF Placed, Saner
<1>7. Kept(met', elements', hidden', noted')
  <2>1. CASE ~ Given(at)
    <3>1. Expected(m) = <<>> /\ Nothing /\ Warns
      BY <1>1, <1>5, <1>6, <2>1 DEF Expected, Saner, Picture
    <3>2. QED
      BY <1>4, <3>1, LeftNothing
  <2>2. CASE Given(at)
    <3>1. PICK x, kinds : x = at[1] /\ kinds = If(p.alt, "alt")
      OBVIOUS
    <3>2. Placed(m) = at /\ at # <<>> /\ Placed(m)[1] = x /\ x \in Transform
      BY <1>2, <1>6, <2>2, <3>1, SanerIs DEF Saner, Settled
    <3>3. Emits(<<Image(x)>>, kinds) /\ (Warns \/ UNCHANGED noted)
      BY <1>1, <2>2, <3>1 DEF Picture
    <3>4. Expected(m) = <<"image">>
      BY <1>5, <3>2 DEF Expected
    <3>5. Leaf(Image(x)) /\ Image(x).is = "image" /\ Right(Image(x), m)
      BY <1>3, <1>5, <3>2, ImageIs
    <3>6. Listed(kinds) /\ \A j \in 1 .. Len(kinds) : kinds[j] \in {"role", "alt"}
      BY <3>1, AltIs
    <3>7. QED
      BY <1>4, <3>3, <3>4, <3>5, <3>6, LeftOne
  <2>3. QED
    BY <2>1, <2>2
<1>8. QED
  BY <1>3, <1>7, TypedStays DEF Inv

(* The cells of a table, turned with its frame.                            *)
LEMMA TableIs ==
    ASSUME Typed, NEW f \in Frames, NEW x, Given(f.at), x = f.at[1], x \in Transform,
           NEW m, m.is = "frame", m.f = f, m.chain = groups, Placed(m)[1] = x
    PROVE  Leaf(TableOf(f, x)) /\ TableOf(f, x).is = "table" /\ Right(TableOf(f, x), m)
<1>1. PICK e, t, cells : e = TableOf(f, x) /\ t = f.table /\ cells = Cells(t, x)
  OBVIOUS
<1>2. IsTable(t) /\ Divides(t.columns, x.ext[1]) /\ AutoRow \in Nat
  BY <1>1 DEF Typed, SlidesTyped
<1>3. TableExact(t, x)
  BY <1>2, TableHolds
<1>4. PICK es : es = [i \in DOMAIN cells |-> [cells[i] EXCEPT !.box = Hull(TransformedCorners(@, x))]]
  OBVIOUS
<1>5. e = [is |-> "table", box |-> Hull(TransformedCorners(BoxOf(x), x)), cells |-> es]
  BY <1>1, <1>4 DEF TableOf
<1>6. Leaf(e) /\ e.is = "table" /\ e.box = Hull(TransformedCorners(BoxOf(x), x)) /\ e.cells = es
  BY <1>5 DEF Leaf
<1>7. ASSUME NEW i \in DOMAIN cells
      PROVE  es[i].box = Hull(Lie(x, groups, cells[i].box))
  <2>1. PICK c : c = cells[i]
    OBVIOUS
  <2>2. c \in Range(Cells(t, x))
    BY <1>1, <2>1 DEF Range
  <2>13. PICK r \in 1 .. Len(t.rows) :
            \E k \in 1 .. Len(t.rows[r]) : Present(t, r, k) /\ c = CellAt(t, x, r, k)
    BY <1>2, <2>2, CellsAre
  <2>3. PICK k \in 1 .. Len(t.rows[r]) : Present(t, r, k) /\ c = CellAt(t, x, r, k)
    BY <2>13
  <2>4. k <= Len(t.columns)
    BY <2>3 DEF Present
  <2>5. CellAt(t, x, r, k).box \in Int \X Int \X Int \X Int
    BY <1>2, <2>4, CellIs
  <2>6. "box" \in DOMAIN c
    BY <2>3 DEF CellAt
  <2>7. PICK b, h : b = c.box /\ h = Hull(TransformedCorners(b, x))
    OBVIOUS
  <2>8. es[i] = [c EXCEPT !.box = h]
    BY <1>4, <2>1, <2>7
  <2>9. es[i].box = h
    BY <2>6, <2>8
  <2>10. b \in Int \X Int \X Int \X Int
    BY <2>3, <2>5, <2>7
  <2>11. h = Hull(Lie(x, groups, b))
    BY <2>7, <2>10, HullAt
  <2>12. QED
    BY <2>1, <2>7, <2>9, <2>11
<1>8. BoxOf(x) \in Int \X Int \X Int \X Int
  BY BoxIs
<1>9. e.box = Hull(Lie(x, groups, BoxOf(x)))
  BY <1>6, <1>8, HullAt
<1>10. [i \in DOMAIN e.cells |-> e.cells[i].box] = [i \in DOMAIN cells |-> Hull(Lie(x, groups, cells[i].box))]
  <2>1. DOMAIN es = DOMAIN cells
    BY <1>4
  <2>2. QED
    BY <1>6, <1>7, <2>1
<1>11. Right(e, m)
  <2>1. PICK y, ch : y = Placed(m)[1] /\ ch = m.chain
    OBVIOUS
  <2>2. y = x /\ ch = groups
    BY <2>1
  <2>3. cells = Cells(m.f.table, y) /\ TableExact(m.f.table, y)
    BY <1>1, <1>3, <2>2
  <2>4. QED
    BY <1>6, <1>9, <1>10, <2>1, <2>2, <2>3 DEF Right
<1>12. QED
  BY <1>1, <1>6, <1>11

LEMMA FrameKept ==
    ASSUME Inv, NEW f \in Frames, Frame(f)
    PROVE  Inv'
<1>1. PICK r : r = [is |-> "frame", f |-> f]
  OBVIOUS
<1>2. DOMAIN r = {"is", "f"} /\ r["is"] = "frame" /\ r["f"] = f
  BY ONLY <1>1
<1>3. IsPlace(f.at) /\ /\ DOMAIN f.chart[1] \subseteq Nat
                       /\ DOMAIN f.chart[2] \subseteq Nat /\ IsFiniteSet(DOMAIN f.chart[2])
  BY DEF Inv, Typed, SlidesTyped
<1>4. Typed /\ Meets(r) /\ Left
  BY <1>1 DEF Inv, Frame
<1>5. PICK m : Met(m) /\ \A y \in DOMAIN r : m[y] = r[y]
  BY <1>2, <1>4, MeetsIs
<1>6. m.is = "frame" /\ m.f = f /\ m.chain = groups
  BY <1>2, <1>5 DEF Met
<1>7. Placed(m) = Saner(f.at)
  BY <1>6 DEF Placed, Saner
<1>8. Kept(met', elements', hidden', noted')
  <2>1. CASE ~ Given(f.at)
    <3>1. Expected(m) = <<>> /\ Nothing /\ Warns
      BY <1>6, <1>7, <2>1 DEF Expected, Saner, Frame
    <3>2. QED
      BY <1>5, <3>1, LeftNothing
  <2>2. CASE Given(f.at)
    <3>1. PICK x, box : x = f.at[1] /\ box = Hull(TransformedCorners(BoxOf(x), x))
      OBVIOUS
    <3>2. Placed(m) = f.at /\ f.at # <<>> /\ Placed(m)[1] = x /\ x \in Transform
      BY <1>3, <1>7, <2>2, <3>1, SanerIs DEF Saner, Settled
    <3>3. Expected(m) = IF f.is = "picture" THEN <<"image">>
                        ELSE IF f.is = "table" THEN If(~ Skipped(f.table, x), "table")
                        ELSE If(f.readable, IF f.is = "chart" THEN "chart" ELSE "text")
      BY <1>6, <3>1, <3>2 DEF Expected
    <3>4. Listed(<<>>) /\ Len(<<>>) = 0
      BY DEF Listed
    <3>5. CASE f.is = "table"
      <4>1. IF Skipped(f.table, x) THEN Nothing /\ Warns
            ELSE Emits(<<TableOf(f, x)>>, <<>>) /\ (Warns \/ UNCHANGED noted)
        BY <2>2, <3>1, <3>5 DEF Frame
      <4>2. CASE Skipped(f.table, x)
        <5>1. Expected(m) = <<>>
          BY <3>3, <3>5, <4>2 DEF If
        <5>2. QED
          BY <1>5, <4>1, <4>2, <5>1, LeftNothing
      <4>3. CASE ~ Skipped(f.table, x)
        <5>1. Expected(m) = <<"table">>
          BY <3>3, <3>5, <4>3 DEF If
        <5>2. Leaf(TableOf(f, x)) /\ TableOf(f, x).is = "table" /\ Right(TableOf(f, x), m)
          BY <1>4, <1>6, <2>2, <3>1, <3>2, TableIs
        <5>3. PICK kinds : kinds = <<>>
          OBVIOUS
        <5>4. Listed(kinds) /\ \A j \in 1 .. Len(kinds) : kinds[j] \in {"role", "alt"}
          BY <3>4, <5>3
        <5>5. Emits(<<TableOf(f, x)>>, kinds) /\ (Warns \/ UNCHANGED noted)
          BY <4>1, <4>3, <5>3
        <5>6. QED
          BY <1>5, <5>1, <5>2, <5>4, <5>5, LeftOne
      <4>4. QED
        BY <4>2, <4>3
    <3>6. CASE f.is = "picture"
      <4>1. Emits(<<Image(x)>>, If(f.alt, "alt")) /\ (Warns \/ UNCHANGED noted)
        BY <2>2, <3>1, <3>6 DEF Frame
      <4>2. Expected(m) = <<"image">>
        BY <3>3, <3>6
      <4>3. Leaf(Image(x)) /\ Image(x).is = "image" /\ Right(Image(x), m)
        BY <1>4, <1>6, <3>2, ImageIs
      <4>4. PICK kinds : kinds = If(f.alt, "alt")
        OBVIOUS
      <4>5. Listed(kinds) /\ \A j \in 1 .. Len(kinds) : kinds[j] \in {"role", "alt"}
        BY <4>4, AltIs
      <4>6. Emits(<<Image(x)>>, kinds)
        BY <4>1, <4>4
      <4>7. QED
        BY <1>5, <4>1, <4>2, <4>3, <4>5, <4>6, LeftOne
    <3>7. CASE f.is \notin {"table", "picture"} /\ ~ f.readable
      <4>1. Expected(m) = <<>> /\ Nothing /\ Warns
        BY <2>2, <3>1, <3>3, <3>7 DEF Frame, If
      <4>2. QED
        BY <1>5, <4>1, LeftNothing
    <3>8. CASE f.is \notin {"table", "picture"} /\ f.readable
      <4>1. PICK e, w, kinds :
               /\ w = (IF f.is = "chart" THEN "chart" ELSE "text") /\ kinds = <<>>
               /\ e = IF f.is = "chart"
                      THEN [is |-> "chart", box |-> box, points |-> Points(f.chart[1], f.chart[2])]
                      ELSE [is |-> "text", box |-> box]
        OBVIOUS
      <4>2. Emits(<<e>>, kinds) /\ UNCHANGED noted
        BY <2>2, <3>1, <3>8, <4>1 DEF Frame
      <4>3. Expected(m) = <<w>>
        BY <3>3, <3>8, <4>1 DEF If
      <4>4. Leaf(e) /\ e.is = w /\ e.box = box /\ e.is # "table"
        <5>1. CASE f.is = "chart"
          BY <4>1, <5>1 DEF Leaf
        <5>2. CASE f.is # "chart"
          BY <4>1, <5>2 DEF Leaf
        <5>3. QED
          BY <5>1, <5>2
      <4>5. PointsExact(f.chart[1], f.chart[2])
        BY <1>3, PointsHold
      <4>6. Right(e, m)
        BY <1>4, <1>6, <3>1, <3>2, <4>4, <4>5, RightIs
      <4>7. Listed(kinds) /\ \A j \in 1 .. Len(kinds) : kinds[j] \in {"role", "alt"}
        BY <3>4, <4>1
      <4>8. QED
        BY <1>5, <4>2, <4>3, <4>4, <4>6, <4>7, LeftOne
    <3>9. QED
      BY <3>5, <3>6, <3>7, <3>8
  <2>3. QED
    BY <2>1, <2>2
<1>9. QED
  BY <1>4, <1>8, TypedStays DEF Inv

LEMMA GroupBeginsKept ==
    ASSUME Inv, NEW g \in Groups, GroupBegins(g)
    PROVE  Inv'
<1>1. PICK r : r = [is |-> "group", g |-> g]
  OBVIOUS
<1>2. DOMAIN r = {"is", "g"} /\ r["is"] = "group"
  BY ONLY <1>1
<1>3. Typed /\ Meets(r) /\ UNCHANGED layer /\ Nothing
  BY <1>1 DEF Inv, GroupBegins
<1>4. PICK m : Met(m) /\ \A y \in DOMAIN r : m[y] = r[y]
  BY <1>2, <1>3, MeetsIs
<1>5. m.is = "group"
  BY <1>2, <1>4
<1>6. Expected(m) = <<>> /\ ~ Owed(m)
  BY <1>5 DEF Expected, Placed, Owed
<1>7. Kept(met', elements', hidden', noted')
  <2>1. Warns \/ UNCHANGED noted
    BY DEF GroupBegins
  <2>2. QED
    BY <1>3, <1>4, <1>6, <2>1, LeftNothing
<1>8. Typed'
  <2>1. CASE Refused(g)
    <3>1. UNCHANGED groups
      BY <2>1 DEF GroupBegins
    <3>2. QED
      BY <1>3, <3>1 DEF Typed, Chained
  <2>2. CASE ~ Refused(g)
    <3>1. PICK gs, x : gs = groups /\ x = g[1]
      OBVIOUS
    <3>2. IsGroup(x) /\ x.chExt[1] # 0 /\ x.chExt[2] # 0
      BY <2>2, <3>1 DEF Refused, Inv, Typed, SlidesTyped
    <3>3. groups' = Append(gs, x)
      BY <2>2, <3>1 DEF GroupBegins
    <3>4. /\ Len(gs) \in Nat /\ Listed(gs)
          /\ \A i \in 1 .. Len(gs) : IsGroup(gs[i]) /\ gs[i].chExt[1] # 0 /\ gs[i].chExt[2] # 0
      BY <1>3, <3>1 DEF Typed, Chained
    <3>5. PICK hs : hs = Append(gs, x)
      OBVIOUS
    <3>6. /\ Listed(hs) /\ Len(hs) = Len(gs) + 1
          /\ \A i \in 1 .. Len(gs) : hs[i] = gs[i]
          /\ hs[Len(gs) + 1] = x
      BY <3>4, <3>5, AppendIs
    <3>7. ASSUME NEW i \in 1 .. Len(hs) PROVE IsGroup(hs[i]) /\ hs[i].chExt[1] # 0 /\ hs[i].chExt[2] # 0
      <4>1. i \in 1 .. Len(gs) \/ i = Len(gs) + 1
        BY <3>4, <3>6
      <4>2. QED
        BY <3>2, <3>4, <3>6, <4>1
    <3>8. Len(hs) \in Nat
      BY <3>4, <3>6
    <3>9. Chained(hs)
      BY <3>7, <3>8 DEF Chained
    <3>10. groups' = hs
      BY <3>3, <3>5
    <3>11. SlidesTyped /\ layer' \in Seq({"master", "layout", "slide"})
      BY <1>3 DEF Typed
    <3>12. QED
      BY <3>6, <3>9, <3>10, <3>11 DEF Typed, Chained
  <2>3. QED
    BY <2>1, <2>2
<1>9. QED
  BY <1>7, <1>8 DEF Inv

LEMMA KeptStays ==
    ASSUME Inv, UNCHANGED <<elements, hidden, met, noted>>
    PROVE  Kept(met', elements', hidden', noted')
BY DEF Inv

LEMMA GroupEndsKept ==
    ASSUME Inv, GroupEnds
    PROVE  Inv'
<1>1. PICK gs, hs : gs = groups /\ hs = Front(gs)
  OBVIOUS
<1>2. Listed(gs) /\ Chained(gs) /\ gs # <<>> /\ groups' = hs
  BY <1>1 DEF Inv, Typed, GroupEnds
<1>3. PICK S : gs \in Seq(S)
  BY <1>2 DEF Listed
<1>4. /\ Len(gs) \in Nat /\ Len(gs) # 0
      /\ hs \in Seq(S) /\ Len(hs) = Len(gs) - 1 /\ \A i \in 1 .. Len(gs) - 1 : hs[i] = gs[i]
  <2>1. Len(gs) \in Nat /\ Len(gs) # 0
    BY ONLY <1>2, <1>3, EmptySeq
  <2>2. hs = [i \in 1 .. Len(gs) - 1 |-> gs[i]]
    BY <1>1 DEF Front
  <2>3. PICK n : n = Len(gs) - 1
    OBVIOUS
  <2>4. n \in Nat /\ \A i \in 1 .. n : gs[i] \in S
    BY ONLY <1>3, <2>1, <2>3
  <2>5. hs = [i \in 1 .. n |-> hs[i]] /\ \A i \in 1 .. n : hs[i] = gs[i]
    BY <2>2, <2>3
  <2>6. \A i \in 1 .. n : hs[i] \in S
    BY <2>4, <2>5
  <2>7. hs \in Seq(S) /\ Len(hs) = n
    BY ONLY <2>4, <2>5, <2>6, SeqIs
  <2>8. QED
    BY <2>1, <2>3, <2>5, <2>7
<1>5. Chained(hs) /\ Listed(hs)
  <2>1. ASSUME NEW i \in 1 .. Len(hs) PROVE IsGroup(hs[i]) /\ hs[i].chExt[1] # 0 /\ hs[i].chExt[2] # 0
    <3>1. i \in 1 .. Len(gs) - 1 /\ i \in 1 .. Len(gs)
      BY <1>4
    <3>2. QED
      BY <1>2, <1>4, <3>1 DEF Chained
  <2>2. Len(hs) \in Nat
    BY <1>4
  <2>3. QED
    BY <1>4, <2>1, <2>2 DEF Chained, Listed
<1>6. SlidesTyped /\ layer' \in Seq({"master", "layout", "slide"})
  BY DEF Inv, Typed, GroupEnds
<1>7. Typed'
  BY <1>2, <1>5, <1>6 DEF Typed, Chained
<1>8. Kept(met', elements', hidden', noted')
  BY KeptStays DEF GroupEnds
<1>9. QED
  BY <1>7, <1>8 DEF Inv

LEMMA LayerEndsKept ==
    ASSUME Inv, LayerEnds
    PROVE  Inv'
<1>1. PICK l, S : l = layer /\ S = {"master", "layout", "slide"}
  OBVIOUS
<1>2. l \in Seq(S) /\ l # <<>> /\ layer' = Tail(l)
  BY <1>1 DEF Inv, Typed, LayerEnds
<1>3. Tail(l) \in Seq(S)
  BY ONLY <1>2
<1>4. Typed'
  BY <1>1, <1>2, <1>3 DEF Inv, Typed, LayerEnds, Chained
<1>5. Kept(met', elements', hidden', noted')
  BY KeptStays DEF LayerEnds
<1>6. QED
  BY <1>4, <1>5 DEF Inv

LEMMA InvInit == ASSUME SlidesTyped, Init PROVE Inv
<1>1. SlidesTyped /\ Init
  OBVIOUS
<1>2. layer \in Layers /\ groups = <<>> /\ elements = <<>> /\ hidden = <<>> /\ met = <<>> /\ noted = {}
  BY <1>1 DEF Init
<1>3. Listed(<<>>) /\ DOMAIN <<>> = {} /\ Len(<<>>) = 0
  BY DEF Listed
<1>4. Typed
  BY <1>1, <1>2, <1>3 DEF Typed, Chained, SlidesTyped
<1>5. Kept(<<>>, <<>>, <<>>, {})
  BY <1>3 DEF Kept, Shapely, Whole, InOrder, Attached, Warned, AllRight
<1>6. QED
  BY <1>2, <1>4, <1>5 DEF Inv

(* A page is at all times what its shapes are to make of it.               *)
THEOREM Invariant == ASSUME SlidesTyped PROVE Spec => []Inv
<1>1. Inv /\ [Next]_vars => Inv'
  <2>1. SUFFICES ASSUME Inv, [Next]_vars PROVE Inv'
    OBVIOUS
  <2>2. CASE Unseen
    BY <2>1, <2>2, UnseenKept
  <2>3. ASSUME NEW s \in Shapes, Shape(s) PROVE Inv'
    BY <2>1, <2>3, ShapeKept
  <2>4. ASSUME NEW p \in Pictures, Picture(p) PROVE Inv'
    BY <2>1, <2>4, PictureKept
  <2>5. ASSUME NEW p \in Pictures, Connector(p.at, p.alt) PROVE Inv'
    <3>1. IsPlace(p.at)
      BY <2>1 DEF Inv, Typed, SlidesTyped
    <3>2. QED
      BY <2>1, <2>5, <3>1, ConnectorKept
  <2>6. ASSUME NEW f \in Frames, Frame(f) PROVE Inv'
    BY <2>1, <2>6, FrameKept
  <2>7. ASSUME NEW g \in Groups, GroupBegins(g) PROVE Inv'
    BY <2>1, <2>7, GroupBeginsKept
  <2>8. CASE GroupEnds
    BY <2>1, <2>8, GroupEndsKept
  <2>9. CASE LayerEnds
    BY <2>1, <2>9, LayerEndsKept
  <2>10. CASE UNCHANGED vars
    <3>1. Typed'
      BY <2>1, <2>10 DEF vars, Inv, Typed, Chained
    <3>2. Kept(met', elements', hidden', noted')
      BY <2>1, <2>10, KeptStays DEF vars
    <3>3. QED
      BY <3>1, <3>2 DEF Inv
  <2>11. QED
    BY <2>1, <2>2, <2>3, <2>4, <2>5, <2>6, <2>7, <2>8, <2>9, <2>10 DEF Next
<1>2. Init => Inv
  BY InvInit
<1>3. QED
  BY <1>1, <1>2, PTL DEF Spec

(* Each shape of a slide and of the layers above leaves what it is to      *)
(* leave, in order, once, tagged with its layer, and warned about when it  *)
(* is left out.                                                            *)
THEOREM ShapesAreExact == ASSUME SlidesTyped PROVE Spec => []ShapesExact
<1>1. Inv => ShapesExact
  BY ExactParts DEF Inv, Kept
<1>2. QED
  BY <1>1, Invariant, PTL

(* Every shape lies where its own turn and the groups around it put it,    *)
(* its cells tile it, its chart has its values and its text agrees with    *)
(* its runs.                                                               *)
THEOREM ShapesArePlaced == ASSUME SlidesTyped PROVE Spec => []ShapesPlaced
<1>1. Inv => ShapesPlaced
  BY PlacedParts DEF Inv, Kept
<1>2. QED
  BY <1>1, Invariant, PTL
=============================================================================
