-------------------------- MODULE PdfExtractProofs -------------------------
(***************************************************************************)
(* The pages of a PDF and what is on them, for every document, every       *)
(* selection and every way PDFium may fail; and the regrouping of a page   *)
(* whose text came out one glyph at a time, for every page.                *)
(***************************************************************************)
EXTENDS PdfExtract, GlyphRegroup, ListProofs, TLAPS

(***************************************************************************)
(* The loop over the pages.                                                *)
(***************************************************************************)
InPage == {"page", "text", "notes"}

\* What the steps keep, from which PagesExact follows: the range fits the
\* document unless it was refused, and the pages out are the first of it.
PagesInv ==
    /\ phase \in {"open", "pages", "page", "text", "notes", "done", "failed"}
    /\ phase = "open" => range = <<1, 0>>
    /\ phase \in {"open", "failed"} => pages = <<>>
    /\ phase # "failed" <=> error = "none"
    /\ Len(pages) \in Nat /\ range[1] \in Nat \ {0} /\ range[2] \in Nat /\ count \in Nat
    /\ error \in {"none", "too_many_pages"} => range[2] <= count
    /\ error = "too_many_pages" => Exceeds(range)
    /\ error = "none" => Number <= range[2] + 1
    /\ phase \in {"page", "text", "notes"} => Number <= range[2]
    /\ phase = "done" => Number > range[2]
    /\ \A k \in 1 .. Len(pages) :
          /\ pages[k].number = range[1] + k - 1
          /\ pages[k].is # "read" => pages[k].number \in warned /\ ~ pages[k].scanned

(* What is done on a page leaves the pages that are out alone, and stays   *)
(* on the page.                                                            *)
LEMMA OnThePage ==
    Objects \/ TextObject =>
        phase \in InPage /\ phase' \in InPage /\ UNCHANGED <<pages, warned, doc>>
<1> DEFINE stays == phase \in InPage /\ phase' \in InPage /\ UNCHANGED <<pages, warned, doc>>
<1>1. ObjectFails => stays
  BY DEF ObjectFails, InPage
<1>2. ASSUME NEW box PROVE Path(box) \/ Annotation(box) => stays
  BY DEF Path, Annotation, InPage
<1>3. ASSUME NEW m, NEW b PROVE Image(m, b) => stays
  BY DEF Image, InPage
<1>4. ASSUME NEW m PROVE FormBegins(m) => stays
  BY DEF FormBegins, InPage
<1>5. FormFails \/ FormEnds \/ ObjectsEnd => stays
  BY DEF FormFails, FormEnds, ObjectsEnd, InPage
<1>6. TextBegins \/ TextFails \/ TextEnds => stays
  BY DEF TextBegins, TextFails, TextEnds, InPage
<1>7. ASSUME NEW g PROVE Glyph(g) => stays
  BY DEF Glyph, InPage
<1> HIDE DEF stays
<1>8. Objects => stays
  BY <1>1, <1>2, <1>3, <1>4, <1>5 DEF Objects
<1>9. TextObject => stays
  BY <1>6, <1>7 DEF TextObject
<1>10. QED
  BY <1>8, <1>9 DEF stays

(* The pages that are out are a list.                                      *)
LEMMA PagesListed == Spec => []Listed(pages)
<1>1. Init => Listed(pages)
  BY EmptyIs DEF Init
<1>2. Listed(pages) /\ [Next]_vars => Listed(pages)'
  <2> SUFFICES ASSUME Listed(pages), [Next]_vars PROVE Listed(pages)'
    OBVIOUS
  <2> DEFINE same == UNCHANGED pages
             more == \E r : pages' = Append(pages, r)
  <2>1. UNCHANGED vars => same
    BY DEF vars
  <2>2. Objects \/ TextObject => same
    BY OnThePage
  <2>3. OpenFails \/ Finished => same
    BY DEF OpenFails, Finished
  <2>4. ASSUME NEW sel, NEW limit, NEW n PROVE Open(sel, limit, n) => same
    BY DEF Open
  <2>5. ASSUME NEW what PROVE PageFails(what) => more
    BY DEF PageFails
  <2>6. ASSUME NEW r PROVE PageBegins(r) => same
    BY DEF PageBegins
  <2>7. PageEnds => more
    BY DEF PageEnds
  <2>8. same => Listed(pages)'
    OBVIOUS
  <2>9. more => Listed(pages)'
    BY AppendIs
  <2> HIDE DEF same, more
  <2>10. QED
    BY <2>1, <2>2, <2>3, <2>4, <2>5, <2>6, <2>7, <2>8, <2>9 DEF Next, Document
<1>3. QED
  BY <1>1, <1>2, PTL DEF Spec

(* The number of pages of a selection does not wrap.                       *)
LEMMA SelectionCount == ASSUME NEW s \in PageSelections PROVE Count(s) = s.end - s.start + 1
<1> DEFINE n == s.end - s.start + 1
<1>1. n \in 1 .. MaxU32
  BY WidthAssumption DEF PageSelections
<1> HIDE DEF n
<1>2. n % (MaxU32 + 1) = n
  BY <1>1, WidthAssumption
<1>3. QED
  BY <1>2 DEF Count, n

LEMMA PagesInvInit == Init => PagesInv
BY EmptyIs DEF Init, PagesInv, Number

(* Another page comes out.                                                 *)
LEMMA PageOut ==
    ASSUME Listed(pages), PagesInv, NEW r, pages' = Append(pages, r), r.number = Number,
           Number <= range[2], phase' = "pages", UNCHANGED doc, error = "none",
           warned \subseteq warned', r.is # "read" => Number \in warned' /\ ~ r.scanned
    PROVE  PagesInv'
<1>1. /\ Len(pages) \in Nat /\ Len(pages') = Len(pages) + 1
      /\ \A i \in 1 .. Len(pages) : pages'[i] = pages[i]
      /\ pages'[Len(pages) + 1] = r
  BY AppendIs
<1>2. range' = range /\ count' = count /\ error' = error
  BY DEF doc
<1>3. ASSUME NEW k \in 1 .. Len(pages')
      PROVE  /\ pages'[k].number = range[1] + k - 1
             /\ pages'[k].is # "read" => pages'[k].number \in warned' /\ ~ pages'[k].scanned
  <2>1. CASE k = Len(pages) + 1
    BY <1>1, <2>1 DEF Number, PagesInv
  <2>2. CASE k \in 1 .. Len(pages)
    BY <1>1, <2>2 DEF PagesInv
  <2>3. QED
    BY <1>1, <2>1, <2>2
<1>4. Number' = Number + 1
  BY <1>1, <1>2 DEF Number, PagesInv
<1>5. QED
  BY <1>1, <1>2, <1>3, <1>4 DEF PagesInv, Number

LEMMA PagesInvNext == AnswersTyped /\ Listed(pages) /\ PagesInv /\ [Next]_vars => PagesInv'
<1> SUFFICES ASSUME AnswersTyped, Listed(pages), PagesInv, [Next]_vars
             PROVE  PagesInv'
  OBVIOUS
<1>1. CASE UNCHANGED vars
  BY <1>1 DEF vars, doc, PagesInv, Number
<1>2. CASE Objects \/ TextObject
  BY <1>2, OnThePage DEF doc, PagesInv, Number, InPage
<1>3. CASE OpenFails
  BY <1>3 DEF OpenFails, PagesInv, Number
<1>4. ASSUME NEW sel \in Selections, NEW limit \in Limits, NEW n \in 0 .. MaxPages,
             Open(sel, limit, n)
      PROVE  PagesInv'
  <2>1. n \in Nat
    BY DEF AnswersTyped
  <2>2. /\ range'[1] \in Nat \ {0} /\ range'[2] \in Nat /\ range'[1] <= range'[2] + 1
        /\ ~ OutOfRange(sel, n) => range'[2] <= n
        /\ Covered(sel, n) = range'[2] - range'[1] + 1
    <3>1. CASE sel = <<>>
      BY <1>4, <2>1, <3>1 DEF Open, OutOfRange, Covered
    <3>2. CASE sel # <<>>
      <4>1. PICK s \in PageSelections : sel = <<s>>
        BY <3>2 DEF AnswersTyped
      <4>2. s.start \in Nat \ {0} /\ s.end \in Nat /\ s.start <= s.end
        BY WidthAssumption DEF PageSelections
      <4>3. sel[1] = s
        BY <4>1
      <4>4. range' = <<s.start, s.end>>
        BY <1>4, <3>2, <4>3 DEF Open
      <4>5. ~ OutOfRange(sel, n) => s.end <= n
        BY <2>1, <3>2, <4>2, <4>3 DEF OutOfRange
      <4>6. Covered(sel, n) = s.end - s.start + 1
        BY <3>2, <4>1, <4>3, SelectionCount DEF Covered
      <4>7. QED
        BY <4>2, <4>4, <4>5, <4>6
    <3>3. QED
      BY <3>1, <3>2
  <2>3. phase = "open" /\ pages' = pages /\ count' = n /\ warned' = warned
    BY <1>4 DEF Open
  <2>4. /\ error' \in {"none", "too_many_pages"} => ~ OutOfRange(sel, n)
        /\ phase' = IF error' = "none" THEN "pages" ELSE "failed"
        /\ error' = "too_many_pages" => limit # <<>> /\ Covered(sel, n) > limit[1]
    BY <1>4 DEF Open
  <2>5. error' = "too_many_pages" => Exceeds(range')
    BY <2>2, <2>4 DEF Exceeds
  <2>6. pages = <<>> /\ Len(pages) = 0
    BY <2>3, EmptyIs DEF PagesInv
  <2>7. QED
    BY <2>1, <2>2, <2>3, <2>4, <2>5, <2>6 DEF PagesInv, Number
<1>5. ASSUME NEW what \in {"lost", "unread"}, PageFails(what) PROVE PagesInv'
  BY <1>5, PageOut DEF PageFails, PagesInv
<1>6. ASSUME NEW r, PageBegins(r) PROVE PagesInv'
  BY <1>6 DEF PageBegins, PagesInv, Number, doc
<1>7. CASE PageEnds
  <2>1. phase = "notes" /\ phase' = "pages" /\ UNCHANGED <<doc, warned>>
    BY <1>7 DEF PageEnds
  <2>2. PICK r : pages' = Append(pages, r) /\ r.number = Number /\ r.is = "read"
    BY <1>7 DEF PageEnds
  <2>3. QED
    BY <2>1, <2>2, PageOut DEF PagesInv
<1>8. CASE Finished
  BY <1>8 DEF Finished, PagesInv, Number, doc
<1>9. QED
  BY <1>1, <1>2, <1>3, <1>4, <1>5, <1>6, <1>7, <1>8 DEF Next, Document

LEMMA PagesInvExact == PagesInv /\ Listed(pages) => PagesExact
<1> SUFFICES ASSUME PagesInv, Listed(pages) PROVE PagesExact
  OBVIOUS
<1>1. DOMAIN pages = 1 .. Len(pages) /\ Len(pages) \in Nat
  BY DEF Listed
<1>2. ASSUME NEW k \in DOMAIN pages
      PROVE  /\ pages[k].number = range[1] + k - 1
             /\ pages[k].number \in Asked \cap 1 .. count
             /\ pages[k].is # "read" => pages[k].number \in warned /\ ~ pages[k].scanned
  <2>1. error = "none"
    BY <1>1, EmptyIs DEF PagesInv
  <2>2. QED
    BY <1>1, <2>1 DEF PagesInv, Number, Asked
<1>3. phase = "done" => {pages[k].number : k \in DOMAIN pages} = Asked
  <2> SUFFICES ASSUME phase = "done" PROVE {pages[k].number : k \in DOMAIN pages} = Asked
    OBVIOUS
  <2>1. ASSUME NEW p \in Asked PROVE p - range[1] + 1 \in DOMAIN pages /\ p = pages[p - range[1] + 1].number
    BY <1>1, <1>2 DEF PagesInv, Number, Asked
  <2>2. \A k \in DOMAIN pages : pages[k].number \in Asked
    BY <1>2
  <2>3. QED
    BY <2>1, <2>2
<1>4. /\ error \in {"none", "too_many_pages"} => Asked \subseteq 1 .. count
      /\ error = "too_many_pages" => Exceeds(range)
  BY DEF PagesInv, Asked
<1>5. phase # "failed" => \A p \in Asked : p \in 1 .. count
  BY <1>4 DEF PagesInv
<1>6. QED
  BY <1>2, <1>3, <1>4, <1>5 DEF PagesExact

(* The pages asked for come out once each, in order and under their        *)
(* number; a stand-in has its warning, and nothing is asked of a document  *)
(* that has not got it, for any selection, limit and document.             *)
THEOREM PagesAreExact == ASSUME AnswersTyped PROVE Spec => []PagesExact
<1>1. AnswersTyped
  OBVIOUS
<1>2. Spec => []PagesInv
  <2>1. PagesInv /\ Listed(pages) /\ [Next]_vars => PagesInv'
    BY <1>1, PagesInvNext
  <2>2. QED
    BY <2>1, PagesInvInit, PagesListed, PTL DEF Spec
<1>3. QED
  BY <1>2, PagesInvExact, PagesListed, PTL

\* The states of build_line and of group_into_lines, one for each glyph.
Wording(f, gs, members, n) ==
    f = [k \in 0 .. n |-> IF k = 0 THEN NoWords ELSE AddGlyph(gs, f[k - 1], members[k])]
NoLines == [lines |-> <<>>, current |-> <<>>]
Lining(f, gs, n) ==
    f = [k \in 0 .. n |-> IF k = 0 THEN NoLines ELSE AddToLine(gs, f[k - 1], k)]

\* Where the line of each glyph starts, also for the place before the first.
StartOf(gs, i, before) == IF i = 1 \/ LeavesLine(gs[before], gs[i]) THEN i ELSE before
Starting(f, gs, n) == f = [k \in 0 .. n |-> IF k = 0 THEN 0 ELSE StartOf(gs, k, f[k - 1])]

(* There is such a sequence of states.                                     *)
LEMMA WordingExists ==
    ASSUME NEW gs, NEW members, NEW n \in Nat
    PROVE  \E f : Wording(f, gs, members, n)
<1> DEFINE bad == {k \in Nat : ~ \E f : Wording(f, gs, members, k)}
<1>1. SUFFICES ASSUME bad # {} PROVE FALSE
  OBVIOUS
<1>2. PICK m \in bad : \A k \in bad : m <= k
  <2>1. bad \in SUBSET Nat
    OBVIOUS
  <2> HIDE DEF bad
  <2>2. QED
    BY <1>1, <2>1, LeastOne
<1>3. CASE m = 0
  <2>1. Wording([k \in 0 .. 0 |-> NoWords], gs, members, 0)
    BY DEF Wording
  <2>2. QED
    BY <1>2, <1>3, <2>1
<1>4. CASE m # 0
  <2>1. m - 1 \in Nat /\ m - 1 \notin bad
    BY <1>2, <1>4
  <2>2. PICK f : Wording(f, gs, members, m - 1)
    BY <2>1
  <2> DEFINE next(k, x) == AddGlyph(gs, x, members[k])
             g == [k \in 0 .. m |-> IF k = m THEN next(m, f[m - 1]) ELSE f[k]]
  <2>3. \A k \in 0 .. m - 1 : f[k] = IF k = 0 THEN NoWords ELSE next(k, f[k - 1])
    BY <2>2 DEF Wording
  <2> HIDE DEF next
  <2>4. \A k \in 0 .. m - 1 : g[k] = f[k]
    BY <1>2
  <2>5. g[m] = next(m, f[m - 1])
    BY <2>1
  <2>6. g = [k \in 0 .. m |-> g[k]]
    OBVIOUS
  <2> HIDE DEF g
  <2>7. ASSUME NEW k \in 0 .. m
        PROVE  g[k] = IF k = 0 THEN NoWords ELSE next(k, g[k - 1])
    <3>1. CASE k = m
      BY <1>4, <2>1, <2>4, <2>5, <3>1
    <3>2. CASE k # m
      <4>1. k \in 0 .. m - 1 /\ (k # 0 => k - 1 \in 0 .. m - 1)
        BY <3>2
      <4>2. QED
        BY <2>3, <2>4, <4>1
    <3>3. QED
      BY <3>1, <3>2
  <2>8. Wording(g, gs, members, m)
    BY <2>6, <2>7 DEF Wording, next
  <2>9. QED
    BY <1>2, <2>8
<1>5. QED
  BY <1>3, <1>4

(* There is such a sequence of states.                                     *)
LEMMA LiningExists ==
    ASSUME NEW gs, NEW n \in Nat
    PROVE  \E f : Lining(f, gs, n)
<1> DEFINE bad == {k \in Nat : ~ \E f : Lining(f, gs, k)}
<1>1. SUFFICES ASSUME bad # {} PROVE FALSE
  OBVIOUS
<1>2. PICK m \in bad : \A k \in bad : m <= k
  <2>1. bad \in SUBSET Nat
    OBVIOUS
  <2> HIDE DEF bad
  <2>2. QED
    BY <1>1, <2>1, LeastOne
<1>3. CASE m = 0
  <2>1. Lining([k \in 0 .. 0 |-> NoLines], gs, 0)
    BY DEF Lining
  <2>2. QED
    BY <1>2, <1>3, <2>1
<1>4. CASE m # 0
  <2>1. m - 1 \in Nat /\ m - 1 \notin bad
    BY <1>2, <1>4
  <2>2. PICK f : Lining(f, gs, m - 1)
    BY <2>1
  <2> DEFINE next(k, x) == AddToLine(gs, x, k)
             g == [k \in 0 .. m |-> IF k = m THEN next(m, f[m - 1]) ELSE f[k]]
  <2>3. \A k \in 0 .. m - 1 : f[k] = IF k = 0 THEN NoLines ELSE next(k, f[k - 1])
    BY <2>2 DEF Lining
  <2> HIDE DEF next
  <2>4. \A k \in 0 .. m - 1 : g[k] = f[k]
    BY <1>2
  <2>5. g[m] = next(m, f[m - 1])
    BY <2>1
  <2>6. g = [k \in 0 .. m |-> g[k]]
    OBVIOUS
  <2> HIDE DEF g
  <2>7. ASSUME NEW k \in 0 .. m
        PROVE  g[k] = IF k = 0 THEN NoLines ELSE next(k, g[k - 1])
    <3>1. CASE k = m
      BY <1>4, <2>1, <2>4, <2>5, <3>1
    <3>2. CASE k # m
      <4>1. k \in 0 .. m - 1 /\ (k # 0 => k - 1 \in 0 .. m - 1)
        BY <3>2
      <4>2. QED
        BY <2>3, <2>4, <4>1
    <3>3. QED
      BY <3>1, <3>2
  <2>8. Lining(g, gs, m)
    BY <2>6, <2>7 DEF Lining, next
  <2>9. QED
    BY <1>2, <2>8
<1>5. QED
  BY <1>3, <1>4

(* There is such a sequence of states.                                     *)
LEMMA StartingExists ==
    ASSUME NEW gs, NEW n \in Nat
    PROVE  \E f : Starting(f, gs, n)
<1> DEFINE bad == {k \in Nat : ~ \E f : Starting(f, gs, k)}
<1>1. SUFFICES ASSUME bad # {} PROVE FALSE
  OBVIOUS
<1>2. PICK m \in bad : \A k \in bad : m <= k
  <2>1. bad \in SUBSET Nat
    OBVIOUS
  <2> HIDE DEF bad
  <2>2. QED
    BY <1>1, <2>1, LeastOne
<1>3. CASE m = 0
  <2>1. Starting([k \in 0 .. 0 |-> 0], gs, 0)
    BY DEF Starting
  <2>2. QED
    BY <1>2, <1>3, <2>1
<1>4. CASE m # 0
  <2>1. m - 1 \in Nat /\ m - 1 \notin bad
    BY <1>2, <1>4
  <2>2. PICK f : Starting(f, gs, m - 1)
    BY <2>1
  <2> DEFINE next(k, x) == StartOf(gs, k, x)
             g == [k \in 0 .. m |-> IF k = m THEN next(m, f[m - 1]) ELSE f[k]]
  <2>3. \A k \in 0 .. m - 1 : f[k] = IF k = 0 THEN 0 ELSE next(k, f[k - 1])
    BY <2>2 DEF Starting
  <2> HIDE DEF next
  <2>4. \A k \in 0 .. m - 1 : g[k] = f[k]
    BY <1>2
  <2>5. g[m] = next(m, f[m - 1])
    BY <2>1
  <2>6. g = [k \in 0 .. m |-> g[k]]
    OBVIOUS
  <2> HIDE DEF g
  <2>7. ASSUME NEW k \in 0 .. m
        PROVE  g[k] = IF k = 0 THEN 0 ELSE next(k, g[k - 1])
    <3>1. CASE k = m
      BY <1>4, <2>1, <2>4, <2>5, <3>1
    <3>2. CASE k # m
      <4>1. k \in 0 .. m - 1 /\ (k # 0 => k - 1 \in 0 .. m - 1)
        BY <3>2
      <4>2. QED
        BY <2>3, <2>4, <4>1
    <3>3. QED
      BY <3>1, <3>2
  <2>8. Starting(g, gs, m)
    BY <2>6, <2>7 DEF Starting, next
  <2>9. QED
    BY <1>2, <2>8
<1>5. QED
  BY <1>3, <1>4


LEMMA BuildLineIs ==
    ASSUME NEW gs, NEW members, Len(members) \in Nat
    PROVE  \E f : /\ Wording(f, gs, members, Len(members))
                  /\ BuildLine(gs, members) = Flushed(f[Len(members)].words, f[Len(members)].word)
<1> DEFINE n == Len(members)
           f == CHOOSE f : Wording(f, gs, members, n)
<1>1. Wording(f, gs, members, n)
  BY WordingExists
<1>2. BuildLine(gs, members) = Flushed(f[n].words, f[n].word)
  BY DEF BuildLine, Wording
<1> HIDE DEF f
<1>3. QED
  BY <1>1, <1>2

LEMMA GroupIntoLinesIs ==
    ASSUME NEW gs, Len(gs) \in Nat
    PROVE  \E f : /\ Lining(f, gs, Len(gs))
                  /\ GroupIntoLines(gs)
                       = Flushed(f[Len(gs)].lines, BuildLine(gs, f[Len(gs)].current))
<1> DEFINE n == Len(gs)
           f == CHOOSE f : Lining(f, gs, n)
<1>1. Lining(f, gs, n)
  BY LiningExists
<1>2. GroupIntoLines(gs) = Flushed(f[n].lines, BuildLine(gs, f[n].current))
  BY DEF GroupIntoLines, Lining, NoLines
<1> HIDE DEF f
<1>3. QED
  BY <1>1, <1>2

\* As LineStarts has it.
Starts(s, gs) ==
    s = [i \in DOMAIN gs |-> IF i = 1 \/ LeavesLine(gs[s[i - 1]], gs[i]) THEN i ELSE s[i - 1]]

(* The line of a glyph starts there or where that of the glyph before did. *)
LEMMA StartsAre ==
    ASSUME NEW gs, Listed(gs)
    PROVE  /\ \A i \in 1 .. Len(gs) : LineStarts(gs)[i] \in 1 .. i
           /\ \A i \in 1 .. Len(gs) : LineStarts(gs)[i] =
                 IF i = 1 \/ LeavesLine(gs[LineStarts(gs)[i - 1]], gs[i]) THEN i ELSE LineStarts(gs)[i - 1]
<1> DEFINE n == Len(gs)
           s == LineStarts(gs)
<1>0. n \in Nat /\ DOMAIN gs = 1 .. n
  BY DEF Listed
<1>1. PICK f : Starting(f, gs, n)
  BY <1>0, StartingExists
<1>2. Starts([i \in 1 .. n |-> f[i]], gs)
  <2> DEFINE g == [i \in 1 .. n |-> f[i]]
  <2>1. ASSUME NEW i \in 1 .. n
        PROVE  g[i] = IF i = 1 \/ LeavesLine(gs[g[i - 1]], gs[i]) THEN i ELSE g[i - 1]
    <3>1. f[i] = StartOf(gs, i, f[i - 1])
      BY <1>0, <1>1 DEF Starting
    <3>2. i # 1 => i - 1 \in 1 .. n
      BY <1>0
    <3>3. CASE i = 1
      BY <3>1, <3>3 DEF StartOf
    <3>4. CASE i # 1
      BY <3>1, <3>2, <3>4 DEF StartOf
    <3>5. QED
      BY <3>3, <3>4
  <2>2. g = [i \in 1 .. n |-> g[i]]
    OBVIOUS
  <2> HIDE DEF g
  <2>3. Starts(g, gs)
    BY <1>0, <2>1, <2>2 DEF Starts
  <2>4. QED
    BY <2>3 DEF g
<1>3. Starts(s, gs)
  <2>1. s = CHOOSE t : Starts(t, gs)
    BY DEF LineStarts, Starts
  <2> HIDE DEF s
  <2>2. \E t : Starts(t, gs)
    BY <1>2
  <2>3. QED
    BY <2>1, <2>2
<1>4. \A i \in 1 .. n : s[i] = IF i = 1 \/ LeavesLine(gs[s[i - 1]], gs[i]) THEN i ELSE s[i - 1]
  <2> HIDE DEF s
  <2>1. QED
    BY <1>0, <1>3 DEF Starts
<1> HIDE DEF s, n
<1>5. \A i \in 1 .. n : s[i] \in 1 .. i
  <2> DEFINE bad == {i \in Nat : i \in 1 .. n /\ s[i] \notin 1 .. i}
  <2>1. SUFFICES ASSUME bad # {} PROVE FALSE
    BY <1>0
  <2>2. PICK m \in bad : \A k \in bad : m <= k
    <3>1. bad \in SUBSET Nat
      OBVIOUS
    <3> HIDE DEF bad
    <3>2. QED
      BY <2>1, <3>1, LeastOne
  <2>3. CASE m = 1
    BY <1>4, <2>2, <2>3
  <2>4. CASE m # 1
    <3>1. m - 1 \in 1 .. n /\ m - 1 \notin bad
      BY <1>0, <2>2, <2>4
    <3>2. s[m - 1] \in 1 .. m - 1
      BY <3>1
    <3>3. s[m] = m \/ s[m] = s[m - 1]
      BY <1>4, <2>2
    <3>4. QED
      BY <2>2, <3>1, <3>2, <3>3
  <2>5. QED
    BY <2>3, <2>4
<1>6. QED
  BY <1>4, <1>5 DEF s, n

\* A word of the glyphs lo to hi, and a line of words of the visible glyphs
\* from a to b.
IsWord(gs, word, lo, hi) ==
    /\ Listed(word) /\ lo <= hi /\ Len(word) = hi - lo + 1
    /\ \A k \in 1 .. Len(word) : word[k] = lo + k - 1
    /\ \A i \in lo .. hi : ~ gs[i].blank
    /\ ~ Joined(gs, lo) /\ \A i \in lo + 1 .. hi : Joined(gs, i)
IsLine(gs, line, a, b) ==
    /\ Listed(line)
    /\ \A w \in 1 .. Len(line) : \E lo \in a .. b : \E hi \in a .. b : IsWord(gs, line[w], lo, hi)
    /\ \A w \in 1 .. Len(line) : \A v \in 1 .. w - 1 : Last(line[v]) < line[w][1]
    /\ \A i \in a .. b : ~ gs[i].blank => \E w \in 1 .. Len(line) : \E k \in 1 .. Len(line[w]) : line[w][k] = i

(* The ends of a word.                                                     *)
LEMMA WordEnds ==
    ASSUME NEW gs, NEW word, NEW lo \in Int, NEW hi \in Int, IsWord(gs, word, lo, hi)
    PROVE  /\ word # <<>> /\ Len(word) \in Nat /\ DOMAIN word = 1 .. Len(word)
           /\ word[1] = lo /\ Last(word) = hi /\ lo <= hi
           /\ \A k \in 1 .. Len(word) : word[k] \in lo .. hi /\ ~ gs[word[k]].blank
           /\ \A i \in lo .. hi : word[i - lo + 1] = i /\ i - lo + 1 \in 1 .. Len(word)
<1>1. PICK S : word \in Seq(S)
  BY DEF IsWord, Listed
<1>2. Len(word) \in Nat /\ DOMAIN word = 1 .. Len(word) /\ Len(word) = hi - lo + 1 /\ lo <= hi
  BY <1>1 DEF IsWord
<1>3. \A k \in 1 .. Len(word) : word[k] = lo + k - 1
  BY DEF IsWord
<1>4. Last(word) = word[Len(word)]
  BY DEF Last
<1>5. word # <<>>
  BY <1>2, EmptyIs
<1>6. \A i \in lo .. hi : word[i - lo + 1] = i /\ i - lo + 1 \in 1 .. Len(word)
  BY <1>2, <1>3
<1>7. \A k \in 1 .. Len(word) : word[k] \in lo .. hi /\ ~ gs[word[k]].blank
  BY <1>2, <1>3 DEF IsWord
<1>8. QED
  BY <1>2, <1>3, <1>4, <1>5, <1>6, <1>7

(* A line without words, and a blank at its end.                           *)
LEMMA EmptyLine ==
    ASSUME NEW gs, NEW a \in Int
    PROVE  IsLine(gs, <<>>, a, a - 1)
BY EmptyIs DEF IsLine

LEMMA LineWithBlank ==
    ASSUME NEW gs, NEW line, NEW a \in Int, NEW b \in Int, a <= b + 1, IsLine(gs, line, a, b), gs[b + 1].blank
    PROVE  IsLine(gs, line, a, b + 1)
<1>1. \A i : i \in a .. b + 1 <=> i \in a .. b \/ i = b + 1
  OBVIOUS
<1>2. \A i \in a .. b + 1 : ~ gs[i].blank =>
         \E w \in 1 .. Len(line) : \E k \in 1 .. Len(line[w]) : line[w][k] = i
  BY <1>1 DEF IsLine
<1>3. \A w \in 1 .. Len(line) : \E lo \in a .. b + 1 : \E hi \in a .. b + 1 : IsWord(gs, line[w], lo, hi)
  BY <1>1 DEF IsLine
<1>4. QED
  BY <1>2, <1>3 DEF IsLine

(* One more word.                                                          *)
LEMMA LineWithWord ==
    ASSUME NEW gs, NEW line, NEW word, NEW a \in Int, NEW lo \in Int, NEW hi \in Int, a <= lo,
           IsLine(gs, line, a, lo - 1), IsWord(gs, word, lo, hi)
    PROVE  IsLine(gs, Append(line, word), a, hi)
<1> DEFINE new == Append(line, word)
           n == Len(line)
<1>1. Listed(line)
  BY DEF IsLine
<1>2. /\ Listed(new) /\ n \in Nat /\ Len(new) = n + 1
      /\ \A w \in 1 .. n : new[w] = line[w]
      /\ new[n + 1] = word
  BY <1>1, AppendIs
<1>3. \A w : w \in 1 .. n + 1 <=> w \in 1 .. n \/ w = n + 1
  BY <1>2
<1>4. lo <= hi /\ word[1] = lo /\ \A i \in lo .. hi : word[i - lo + 1] = i /\ i - lo + 1 \in 1 .. Len(word)
  BY WordEnds
<1>5. \A w \in 1 .. n : \E l \in a .. lo - 1 : \E h \in a .. lo - 1 : IsWord(gs, line[w], l, h)
  BY DEF IsLine
<1>6. \A w \in 1 .. n : Last(line[w]) < lo
  <2> SUFFICES ASSUME NEW w \in 1 .. n PROVE Last(line[w]) < lo
    OBVIOUS
  <2>1. PICK l \in a .. lo - 1 : \E h \in a .. lo - 1 : IsWord(gs, line[w], l, h)
    BY <1>5
  <2>2. PICK h \in a .. lo - 1 : IsWord(gs, line[w], l, h)
    BY <2>1
  <2>3. l \in Int /\ h \in Int
    OBVIOUS
  <2>4. Last(line[w]) = h
    BY <2>2, <2>3, WordEnds
  <2>5. QED
    BY <2>4
<1> HIDE DEF new, n
<1>7. ASSUME NEW w \in 1 .. n + 1 PROVE \E l \in a .. hi : \E h \in a .. hi : IsWord(gs, new[w], l, h)
  <2>1. CASE w = n + 1
    <3>1. lo \in a .. hi /\ hi \in a .. hi
      BY <1>4
    <3>2. QED
      BY <1>2, <2>1, <3>1
  <2>2. CASE w \in 1 .. n
    <3>1. \A x \in a .. lo - 1 : x \in a .. hi
      BY <1>4
    <3>2. QED
      BY <1>2, <1>5, <2>2, <3>1
  <2>3. QED
    BY <1>3, <2>1, <2>2
<1>8. ASSUME NEW w \in 1 .. n + 1, NEW v \in 1 .. w - 1 PROVE Last(new[v]) < new[w][1]
  <2>1. v \in 1 .. n
    BY <1>2
  <2>2. CASE w = n + 1
    BY <1>2, <1>4, <1>6, <2>1, <2>2
  <2>3. CASE w \in 1 .. n
    BY <1>2, <2>1, <2>3 DEF IsLine, n
  <2>4. QED
    BY <1>3, <2>2, <2>3
<1>9. ASSUME NEW i \in a .. hi, ~ gs[i].blank
      PROVE  \E w \in 1 .. n + 1 : \E k \in 1 .. Len(new[w]) : new[w][k] = i
  <2>1. CASE i < lo
    <3>1. i \in a .. lo - 1
      BY <2>1
    <3>2. PICK w \in 1 .. n : \E k \in 1 .. Len(line[w]) : line[w][k] = i
      BY <1>9, <3>1 DEF IsLine, n
    <3>3. QED
      BY <1>2, <1>3, <3>2
  <2>2. CASE ~ (i < lo)
    <3>1. i \in lo .. hi
      BY <2>2
    <3>2. n + 1 \in 1 .. n + 1
      BY <1>2
    <3>3. QED
      BY <1>2, <1>4, <3>1, <3>2
  <2>3. QED
    BY <2>1, <2>2
<1>10. QED
  BY <1>2, <1>7, <1>8, <1>9 DEF IsLine, new

\* The state of build_line when it has read the glyphs from a to e.
Worded(gs, st, a, e) ==
    /\ st = [words |-> st.words, word |-> st.word, prev |-> st.prev]
    /\ \/ /\ st.word = <<>> /\ st.prev = <<>> /\ (e < a \/ gs[e].blank)
          /\ IsLine(gs, st.words, a, e)
       \/ /\ st.word # <<>> /\ st.prev = <<e>>
          /\ \E lo \in a .. e : IsWord(gs, st.word, lo, e) /\ IsLine(gs, st.words, a, lo - 1)

(* What was read is a line when the last word is closed.                   *)
LEMMA WordedFlushed ==
    ASSUME NEW gs, NEW st, NEW a \in Int, NEW e \in Int, Worded(gs, st, a, e)
    PROVE  IsLine(gs, Flushed(st.words, st.word), a, e)
<1>1. CASE st.word = <<>>
  BY <1>1 DEF Worded, Flushed
<1>2. CASE st.word # <<>>
  <2>1. PICK lo \in a .. e : IsWord(gs, st.word, lo, e) /\ IsLine(gs, st.words, a, lo - 1)
    BY <1>2 DEF Worded
  <2>2. lo \in Int /\ a <= lo
    OBVIOUS
  <2>3. IsLine(gs, Append(st.words, st.word), a, e)
    BY <2>1, <2>2, LineWithWord
  <2>4. QED
    BY <1>2, <2>3 DEF Flushed
<1>3. QED
  BY <1>1, <1>2

(* A word of one glyph.                                                    *)
LEMMA WordOfOne ==
    ASSUME NEW gs, NEW i \in Int, ~ gs[i].blank, ~ Joined(gs, i)
    PROVE  IsWord(gs, <<i>>, i, i) /\ <<i>> # <<>>
<1>1. Listed(<<i>>) /\ Len(<<i>>) = 1 /\ <<i>>[1] = i
  <2>1. <<i>> \in Seq({i})
    OBVIOUS
  <2>2. QED
    BY <2>1 DEF Listed
<1>2. \A j \in i .. i : j = i
  OBVIOUS
<1>3. \A k \in 1 .. 1 : <<i>>[k] = i + k - 1
  BY <1>1
<1>4. QED
  BY <1>1, <1>2, <1>3, EmptyIs DEF IsWord

(* A word gets one more glyph.                                             *)
LEMMA WordWithGlyph ==
    ASSUME NEW gs, NEW word, NEW lo \in Int, NEW hi \in Int, IsWord(gs, word, lo, hi),
           ~ gs[hi + 1].blank, Joined(gs, hi + 1)
    PROVE  IsWord(gs, Append(word, hi + 1), lo, hi + 1) /\ Append(word, hi + 1) # <<>>
<1> DEFINE new == Append(word, hi + 1)
           n == Len(word)
<1>1. Listed(word) /\ n = hi - lo + 1 /\ lo <= hi /\ \A k \in 1 .. n : word[k] = lo + k - 1
  BY DEF IsWord
<1>2. /\ Listed(new) /\ n \in Nat /\ Len(new) = n + 1
      /\ \A w \in 1 .. n : new[w] = word[w]
      /\ new[n + 1] = hi + 1
  BY <1>1, AppendIs
<1> HIDE DEF new, n
<1>3. ASSUME NEW k \in 1 .. n + 1 PROVE new[k] = lo + k - 1
  <2>1. k \in 1 .. n \/ k = n + 1
    BY <1>2
  <2>2. QED
    BY <1>1, <1>2, <2>1
<1>4. \A i : i \in lo .. hi + 1 <=> i \in lo .. hi \/ i = hi + 1
  BY <1>1
<1>5. \A i : i \in lo + 1 .. hi + 1 <=> i \in lo + 1 .. hi \/ i = hi + 1
  BY <1>1
<1>6. (\A i \in lo .. hi + 1 : ~ gs[i].blank) /\ \A i \in lo + 1 .. hi + 1 : Joined(gs, i)
  BY <1>4, <1>5 DEF IsWord
<1>7. Len(new) = hi + 1 - lo + 1 /\ lo <= hi + 1 /\ ~ Joined(gs, lo)
  BY <1>1, <1>2 DEF IsWord
<1>8. new # <<>>
  BY <1>2, EmptyIs
<1>9. QED
  BY <1>2, <1>3, <1>6, <1>7, <1>8 DEF IsWord, new

(* One glyph more on the line.                                             *)
LEMMA WordedStep ==
    ASSUME NEW gs, Listed(gs), NEW st, NEW a \in 1 .. Len(gs), NEW e \in a - 1 .. Len(gs) - 1,
           \A i \in a .. e + 1 : LineStarts(gs)[i] = a, Worded(gs, st, a, e)
    PROVE  Worded(gs, AddGlyph(gs, st, e + 1), a, e + 1)
<1> DEFINE i == e + 1
           new == AddGlyph(gs, st, i)
<1>0. /\ Len(gs) \in Nat /\ a \in Int /\ e \in Int /\ i \in 1 .. Len(gs) /\ a <= i /\ i \in Int
      /\ i - 1 = e
  BY DEF Listed
<1>1. st = [words |-> st.words, word |-> st.word, prev |-> st.prev]
  BY DEF Worded
<1>2. e < a \/ gs[e].blank => ~ Joined(gs, i)
  <2>1. CASE e < a
    <3>1. i = a
      BY <1>0, <2>1
    <3>2. CASE i = 1
      BY <3>2 DEF Joined
    <3>3. CASE i # 1
      <4>1. LineStarts(gs)[i] = a
        BY <1>0
      <4>2. LineStarts(gs)[e] \in 1 .. e
        BY <1>0, <3>3, StartsAre
      <4>3. QED
        BY <1>0, <3>1, <4>1, <4>2 DEF Joined
    <3>4. QED
      BY <3>2, <3>3
  <2>2. CASE gs[e].blank
    BY <1>0, <2>2 DEF Joined
  <2>3. QED
    BY <2>1, <2>2
<1>3. CASE gs[i].blank
  <2>1. IsLine(gs, Flushed(st.words, st.word), a, e)
    BY <1>0, WordedFlushed
  <2>2. IsLine(gs, Flushed(st.words, st.word), a, i)
    BY <1>0, <1>3, <2>1, LineWithBlank
  <2>3. new = [words |-> Flushed(st.words, st.word), word |-> <<>>, prev |-> <<>>]
    BY <1>3 DEF AddGlyph
  <2> HIDE DEF new, i
  <2>4. QED
    BY <1>3, <2>2, <2>3 DEF Worded, i, new
<1>4. CASE ~ gs[i].blank /\ st.word = <<>>
  <2>1. st.prev = <<>> /\ IsLine(gs, st.words, a, e) /\ ~ Joined(gs, i)
    BY <1>2, <1>4 DEF Worded
  <2>2. new = [words |-> st.words, word |-> <<i>>, prev |-> <<i>>]
    <3>1. Append(<<>>, i) = <<i>>
      OBVIOUS
    <3>2. new = [st EXCEPT !.word = Append(@, i), !.prev = <<i>>]
      BY <1>4, <2>1 DEF AddGlyph
    <3>3. new = [[words |-> st.words, word |-> st.word, prev |-> st.prev] EXCEPT !.word = Append(@, i), !.prev = <<i>>]
      BY <1>1, <3>2
    <3> HIDE DEF new
    <3>4. QED
      BY <1>4, <3>1, <3>3
  <2>3. IsWord(gs, <<i>>, i, i) /\ <<i>> # <<>>
    BY <1>0, <1>4, <2>1, WordOfOne
  <2> HIDE DEF new
  <2>4. i \in a .. i
    BY <1>0
  <2>5. new.words = st.words /\ new.word = <<i>> /\ new.prev = <<i>>
        /\ new = [words |-> new.words, word |-> new.word, prev |-> new.prev]
    BY <2>2
  <2>6. IsLine(gs, new.words, a, i - 1)
    BY <1>0, <2>1, <2>5
  <2>7. Worded(gs, new, a, i)
    <3> HIDE DEF i
    <3>1. QED
      BY <2>3, <2>4, <2>5, <2>6 DEF Worded
  <2>8. QED
    BY <2>7 DEF new
<1>5. CASE ~ gs[i].blank /\ st.word # <<>>
  <2>1. /\ st.prev = <<e>> /\ st.prev # <<>> /\ st.prev[1] = e
        /\ \E lo \in a .. e : IsWord(gs, st.word, lo, e) /\ IsLine(gs, st.words, a, lo - 1)
    <3>1. <<e>> # <<>> /\ <<e>>[1] = e
      OBVIOUS
    <3>2. QED
      BY <1>5, <3>1 DEF Worded
  <2>2. PICK lo \in a .. e : IsWord(gs, st.word, lo, e) /\ IsLine(gs, st.words, a, lo - 1)
    BY <2>1
  <2>3. lo \in Int /\ lo <= e /\ ~ gs[e].blank
    BY <1>0, <2>2 DEF IsWord
  <2>4. CASE OpensGap(gs[e], gs[i])
    <3>1. new = [words |-> Flushed(st.words, st.word), word |-> <<i>>, prev |-> <<i>>]
      BY <1>5, <2>1, <2>4 DEF AddGlyph
    <3>2. IsLine(gs, Flushed(st.words, st.word), a, e)
      BY <1>0, WordedFlushed
    <3>3. ~ Joined(gs, i)
      BY <1>0, <2>4 DEF Joined
    <3>4. IsWord(gs, <<i>>, i, i) /\ <<i>> # <<>>
      BY <1>0, <1>5, <3>3, WordOfOne
    <3> HIDE DEF new
    <3>5. new.words = Flushed(st.words, st.word) /\ new.word = <<i>> /\ new.prev = <<i>>
          /\ new = [words |-> new.words, word |-> new.word, prev |-> new.prev]
      BY <3>1
    <3>6. i \in a .. i /\ IsLine(gs, new.words, a, i - 1)
      BY <1>0, <3>2, <3>5
    <3>7. Worded(gs, new, a, i)
      <4> HIDE DEF i
      <4>1. QED
        BY <3>4, <3>5, <3>6 DEF Worded
    <3>8. QED
      BY <3>7 DEF new
  <2>5. CASE ~ OpensGap(gs[e], gs[i])
    <3>1. new = [st EXCEPT !.word = Append(@, i), !.prev = <<i>>]
      BY <1>5, <2>1, <2>5 DEF AddGlyph
    <3>2. new = [[words |-> st.words, word |-> st.word, prev |-> st.prev] EXCEPT !.word = Append(@, i), !.prev = <<i>>]
      BY <1>1, <3>1
    <3>3. Joined(gs, i)
      <4>1. i > 1 /\ e \in a .. e + 1 /\ i \in a .. e + 1
        BY <1>0, <2>2, <2>3
      <4>2. QED
        BY <1>0, <1>5, <2>3, <2>5, <4>1 DEF Joined
    <3>4. IsWord(gs, Append(st.word, i), lo, i) /\ Append(st.word, i) # <<>>
      BY <1>0, <1>5, <2>2, <2>3, <3>3, WordWithGlyph
    <3> HIDE DEF new
    <3>5. new.words = st.words /\ new.word = Append(st.word, i) /\ new.prev = <<i>>
          /\ new = [words |-> new.words, word |-> new.word, prev |-> new.prev]
      BY <3>2
    <3>6. lo \in a .. i /\ IsLine(gs, new.words, a, lo - 1)
      BY <1>0, <2>2, <2>3, <3>5
    <3>7. Worded(gs, new, a, i)
      <4> HIDE DEF i
      <4>1. QED
        BY <3>4, <3>5, <3>6 DEF Worded
    <3>8. QED
      BY <3>7 DEF new
  <2>6. QED
    BY <2>4, <2>5
<1>6. QED
  BY <1>3, <1>4, <1>5

\* The places a to e, in their order.
Stretch(members, a, e) ==
    /\ Listed(members) /\ Len(members) = e - a + 1
    /\ \A k \in 1 .. Len(members) : members[k] = a + k - 1

(* What build_line makes of the glyphs of one line.                        *)
LEMMA BuiltLine ==
    ASSUME NEW gs, Listed(gs), NEW a \in 1 .. Len(gs), NEW e \in a .. Len(gs), NEW members,
           Stretch(members, a, e), \A i \in a .. e : LineStarts(gs)[i] = a
    PROVE  IsLine(gs, BuildLine(gs, members), a, e)
<1> DEFINE n == Len(members)
<1>0. n \in Nat /\ n = e - a + 1 /\ a \in Int /\ e \in Int /\ a >= 1 /\ e <= Len(gs) /\ Len(gs) \in Nat
      /\ \A k \in 1 .. n : members[k] = a + k - 1
  BY DEF Stretch, Listed
<1>1. PICK f : Wording(f, gs, members, n) /\ BuildLine(gs, members) = Flushed(f[n].words, f[n].word)
  BY <1>0, BuildLineIs
<1> HIDE DEF n
<1>2. /\ f[0] = NoWords
      /\ \A k \in 1 .. n : f[k] = AddGlyph(gs, f[k - 1], members[k])
  <2>1. \A k \in 0 .. n : f[k] = IF k = 0 THEN NoWords ELSE AddGlyph(gs, f[k - 1], members[k])
    BY <1>1 DEF Wording
  <2>2. 0 \in 0 .. n /\ \A k \in 1 .. n : k \in 0 .. n /\ k # 0
    BY <1>0
  <2>3. QED
    BY <2>1, <2>2
<1>3. Worded(gs, f[n], a, a + n - 1)
  <2> DEFINE bad == {k \in Nat : k <= n /\ ~ Worded(gs, f[k], a, a + k - 1)}
  <2>1. SUFFICES ASSUME bad # {} PROVE FALSE
    BY <1>0
  <2>2. PICK m \in bad : \A k \in bad : m <= k
    <3>1. bad \in SUBSET Nat
      OBVIOUS
    <3> HIDE DEF bad
    <3>2. QED
      BY <2>1, <3>1, LeastOne
  <2>3. m # 0
    <3>1. NoWords.words = <<>> /\ NoWords.word = <<>> /\ NoWords.prev = <<>>
          /\ NoWords = [words |-> NoWords.words, word |-> NoWords.word, prev |-> NoWords.prev]
      BY DEF NoWords
    <3>2. IsLine(gs, <<>>, a, a - 1) /\ a - 1 < a
      BY <1>0, EmptyLine
    <3>3. Worded(gs, NoWords, a, a - 1)
      BY <3>1, <3>2 DEF Worded
    <3>4. a + 0 - 1 = a - 1
      BY <1>0
    <3>5. QED
      BY <1>2, <2>2, <3>3, <3>4
  <2>4. m - 1 \in Nat /\ m - 1 <= n /\ m \in 1 .. n /\ m - 1 \notin bad
    BY <1>0, <2>2, <2>3
  <2> DEFINE x == a + (m - 1) - 1
  <2>5. Worded(gs, f[m - 1], a, x)
    BY <2>4
  <2>6. x \in a - 1 .. Len(gs) - 1 /\ x + 1 = a + m - 1 /\ \A i \in a .. x + 1 : i \in a .. e
    BY <1>0, <2>4
  <2>7. members[m] = x + 1
    BY <1>0, <2>4, <2>6
  <2> HIDE DEF x
  <2>8. Worded(gs, AddGlyph(gs, f[m - 1], x + 1), a, x + 1)
    BY <2>5, <2>6, WordedStep
  <2>9. Worded(gs, f[m], a, a + m - 1)
    BY <1>2, <2>4, <2>6, <2>7, <2>8
  <2>10. QED
    BY <2>2, <2>9
<1>4. a + n - 1 = e
  BY <1>0
<1>5. QED
  BY <1>0, <1>1, <1>3, <1>4, WordedFlushed

\* The lines of the glyphs up to b.
AreLines(gs, lines, b) ==
    /\ Listed(lines)
    /\ \A l \in 1 .. Len(lines) :
          /\ lines[l] # <<>>
          /\ \E a \in 1 .. b : \E e \in a .. b :
                IsLine(gs, lines[l], a, e) /\ \A i \in a .. e : LineStarts(gs)[i] = a
    /\ \A l \in 2 .. Len(lines) :
          /\ \A i \in Places(lines[l - 1]), j \in Places(lines[l]) : i < j
          /\ LineStarts(gs)[lines[l][1][1]] # LineStarts(gs)[lines[l - 1][1][1]]
    /\ \A i \in 1 .. b : ~ gs[i].blank => \E l \in 1 .. Len(lines) : i \in Places(lines[l])

(* The places of a line are its visible glyphs.                            *)
LEMMA PlacesAre ==
    ASSUME NEW gs, NEW line, NEW a \in Int, NEW e \in Int, IsLine(gs, line, a, e)
    PROVE  /\ Places(line) = {i \in a .. e : ~ gs[i].blank}
           /\ line # <<>> => line[1][1] \in Places(line)
<1>1. Len(line) \in Nat /\ DOMAIN line = 1 .. Len(line) /\ (line # <<>> => Len(line) # 0)
  BY EmptySeq DEF IsLine, Listed
<1>2. ASSUME NEW w \in 1 .. Len(line)
      PROVE  /\ DOMAIN line[w] = 1 .. Len(line[w]) /\ 1 \in DOMAIN line[w]
             /\ \A k \in DOMAIN line[w] : line[w][k] \in a .. e /\ ~ gs[line[w][k]].blank
  <2>1. PICK lo \in a .. e : \E hi \in a .. e : IsWord(gs, line[w], lo, hi)
    BY DEF IsLine
  <2>2. PICK hi \in a .. e : IsWord(gs, line[w], lo, hi)
    BY <2>1
  <2>3. lo \in Int /\ hi \in Int
    OBVIOUS
  <2>4. /\ Len(line[w]) \in Nat /\ DOMAIN line[w] = 1 .. Len(line[w]) /\ line[w] # <<>>
        /\ \A k \in 1 .. Len(line[w]) : line[w][k] \in lo .. hi /\ ~ gs[line[w][k]].blank
    BY <2>2, <2>3, WordEnds
  <2>5. Len(line[w]) # 0
    BY <2>2, <2>3 DEF IsWord
  <2>6. QED
    BY <2>3, <2>4, <2>5
<1>3. ASSUME NEW i PROVE i \in Places(line) <=> \E w \in DOMAIN line : \E k \in DOMAIN line[w] : line[w][k] = i
  BY DEF Places
<1>4. \A i \in Places(line) : i \in a .. e /\ ~ gs[i].blank
  BY <1>1, <1>2, <1>3
<1>5. \A i \in a .. e : ~ gs[i].blank => i \in Places(line)
  <2> SUFFICES ASSUME NEW i \in a .. e, ~ gs[i].blank PROVE i \in Places(line)
    OBVIOUS
  <2>1. PICK w \in 1 .. Len(line) : \E k \in 1 .. Len(line[w]) : line[w][k] = i
    BY DEF IsLine
  <2>2. QED
    BY <1>1, <1>2, <1>3, <2>1
<1>6. line # <<>> => line[1][1] \in Places(line)
  <2> SUFFICES ASSUME line # <<>> PROVE line[1][1] \in Places(line)
    OBVIOUS
  <2>1. 1 \in 1 .. Len(line)
    BY <1>1
  <2>2. QED
    BY <1>1, <1>2, <1>3, <2>1
<1>7. QED
  BY <1>4, <1>5, <1>6

(* One more line, unless it is empty.                                      *)
LEMMA LinesWithLine ==
    ASSUME NEW gs, Listed(gs), NEW lines, NEW line, NEW a \in 1 .. Len(gs), NEW e \in a .. Len(gs),
           AreLines(gs, lines, a - 1), IsLine(gs, line, a, e), \A i \in a .. e : LineStarts(gs)[i] = a
    PROVE  AreLines(gs, Flushed(lines, line), e)
<1>0. a \in Int /\ e \in Int /\ 1 <= a /\ a <= e /\ Len(gs) \in Nat /\ e <= Len(gs)
  BY DEF Listed
<1>1. /\ Places(line) = {i \in a .. e : ~ gs[i].blank}
      /\ line # <<>> => line[1][1] \in Places(line)
  BY <1>0, PlacesAre
<1>2. \A i : i \in 1 .. e <=> i \in 1 .. a - 1 \/ i \in a .. e
  BY <1>0
<1>3. ASSUME NEW l \in 1 .. Len(lines)
      PROVE  /\ lines[l] # <<>>
             /\ \E b \in 1 .. e : \E d \in b .. e :
                   IsLine(gs, lines[l], b, d) /\ \A i \in b .. d : LineStarts(gs)[i] = b
             /\ \A i \in Places(lines[l]) : i \in 1 .. a - 1
             /\ lines[l][1][1] \in Places(lines[l])
  <2>1. lines[l] # <<>>
    BY DEF AreLines
  <2>2. PICK b \in 1 .. a - 1 : \E d \in b .. a - 1 :
           IsLine(gs, lines[l], b, d) /\ \A i \in b .. d : LineStarts(gs)[i] = b
    BY DEF AreLines
  <2>3. PICK d \in b .. a - 1 : IsLine(gs, lines[l], b, d) /\ \A i \in b .. d : LineStarts(gs)[i] = b
    BY <2>2
  <2>4. b \in Int /\ d \in Int /\ b \in 1 .. e /\ d \in b .. e /\ \A i \in b .. d : i \in 1 .. a - 1
    BY <1>0
  <2>5. /\ Places(lines[l]) = {i \in b .. d : ~ gs[i].blank}
        /\ lines[l][1][1] \in Places(lines[l])
    BY <2>1, <2>3, <2>4, PlacesAre
  <2>6. QED
    BY <2>1, <2>3, <2>4, <2>5
<1>4. CASE line = <<>>
  <2>1. Places(line) = {}
    BY <1>4, EmptyIs DEF Places
  <2>2. \A i \in 1 .. e : ~ gs[i].blank => \E l \in 1 .. Len(lines) : i \in Places(lines[l])
    BY <1>1, <1>2, <2>1 DEF AreLines
  <2>3. Flushed(lines, line) = lines
    BY <1>4 DEF Flushed
  <2>4. QED
    BY <1>3, <2>2, <2>3 DEF AreLines
<1>5. CASE line # <<>>
  <2> DEFINE new == Append(lines, line)
             n == Len(lines)
  <2>1. /\ Listed(new) /\ n \in Nat /\ Len(new) = n + 1
        /\ \A l \in 1 .. n : new[l] = lines[l]
        /\ new[n + 1] = line
    BY AppendIs DEF AreLines
  <2>2. Flushed(lines, line) = new
    BY <1>5 DEF Flushed
  <2> HIDE DEF new
  <2>3. ASSUME NEW l \in 1 .. n + 1
        PROVE  /\ new[l] # <<>>
               /\ \E b \in 1 .. e : \E d \in b .. e :
                     IsLine(gs, new[l], b, d) /\ \A i \in b .. d : LineStarts(gs)[i] = b
    <3>1. CASE l \in 1 .. n
      BY <1>3, <2>1, <3>1
    <3>2. CASE l = n + 1
      <4>1. a \in 1 .. e /\ e \in a .. e
        BY <1>0
      <4>2. QED
        BY <1>5, <2>1, <3>2, <4>1
    <3>3. QED
      BY <2>1, <3>1, <3>2
  <2>4. ASSUME NEW l \in 2 .. n + 1
        PROVE  /\ \A i \in Places(new[l - 1]), j \in Places(new[l]) : i < j
               /\ LineStarts(gs)[new[l][1][1]] # LineStarts(gs)[new[l - 1][1][1]]
    <3>1. l - 1 \in 1 .. n /\ new[l - 1] = lines[l - 1]
      BY <2>1
    <3>2. CASE l \in 2 .. n
      <4>1. new[l] = lines[l]
        BY <2>1, <3>2
      <4>2. QED
        BY <3>1, <3>2, <4>1 DEF AreLines
    <3>3. CASE l = n + 1
      <4>1. new[l] = line
        BY <2>1, <3>3
      <4>2. \A i \in Places(lines[l - 1]), j \in Places(line) : i < j
        <5>1. \A i \in 1 .. a - 1, j \in a .. e : i < j
          BY <1>0
        <5>2. QED
          BY <1>1, <1>3, <3>1, <5>1
      <4>3. LineStarts(gs)[line[1][1]] = a
        BY <1>1, <1>5
      <4>4. lines[l - 1][1][1] \in 1 .. a - 1
        BY <1>3, <3>1
      <4>5. LineStarts(gs)[lines[l - 1][1][1]] # a
        <5> DEFINE x == lines[l - 1][1][1]
        <5>1. x \in 1 .. a - 1
          BY <4>4
        <5> HIDE DEF x
        <5>2. x \in 1 .. Len(gs) /\ x < a
          BY <1>0, <5>1
        <5>3. LineStarts(gs)[x] \in 1 .. x
          BY <5>2, StartsAre
        <5>4. LineStarts(gs)[x] # a
          BY <1>0, <5>2, <5>3
        <5>5. QED
          BY <5>4 DEF x
      <4>6. QED
        BY <3>1, <4>1, <4>2, <4>3, <4>5
    <3>4. QED
      BY <2>1, <3>2, <3>3
  <2>5. ASSUME NEW i \in 1 .. e, ~ gs[i].blank
        PROVE  \E l \in 1 .. n + 1 : i \in Places(new[l])
    <3>1. CASE i \in 1 .. a - 1
      <4>1. PICK l \in 1 .. n : i \in Places(lines[l])
        BY <2>5, <3>1 DEF AreLines
      <4>2. l \in 1 .. n + 1
        BY <2>1
      <4>3. QED
        BY <2>1, <4>1, <4>2
    <3>2. CASE i \in a .. e
      <4>1. n + 1 \in 1 .. n + 1 /\ i \in Places(line)
        BY <1>1, <2>1, <2>5, <3>2
      <4>2. QED
        BY <2>1, <4>1
    <3>3. QED
      BY <1>2, <3>1, <3>2
  <2>6. AreLines(gs, new, e)
    BY <2>1, <2>3, <2>4, <2>5 DEF AreLines
  <2>7. QED
    BY <2>2, <2>6
<1>6. QED
  BY <1>4, <1>5

\* The state of group_into_lines when it has read m glyphs.
Lined(gs, st, m) ==
    /\ st = [lines |-> st.lines, current |-> st.current]
    /\ IF m = 0 THEN st.lines = <<>> /\ st.current = <<>>
       ELSE \E a \in 1 .. m : /\ AreLines(gs, st.lines, a - 1) /\ Stretch(st.current, a, m)
                              /\ \A i \in a .. m : LineStarts(gs)[i] = a

LEMMA NoLinesAre ==
    ASSUME NEW gs
    PROVE  AreLines(gs, <<>>, 0)
BY EmptyIs DEF AreLines

(* One glyph more.                                                         *)
LEMMA LinedStep ==
    ASSUME NEW gs, Listed(gs), NEW st, NEW m \in 1 .. Len(gs), Lined(gs, st, m - 1)
    PROVE  Lined(gs, AddToLine(gs, st, m), m)
<1> DEFINE new == AddToLine(gs, st, m)
<1>0. Len(gs) \in Nat /\ m \in Int /\ m >= 1
  BY DEF Listed
<1>1. st = [lines |-> st.lines, current |-> st.current]
  BY DEF Lined
<1>2. CASE m = 1
  <2>1. st.lines = <<>> /\ st.current = <<>>
    BY <1>2 DEF Lined
  <2>2. new = [st EXCEPT !.current = Append(@, m)]
    BY <2>1 DEF AddToLine
  <2>3. new = [[lines |-> <<>>, current |-> <<>>] EXCEPT !.current = Append(@, m)]
    BY <1>1, <2>1, <2>2
  <2> HIDE DEF new
  <2>4. new = [lines |-> new.lines, current |-> new.current] /\ new.lines = <<>> /\ new.current = <<m>>
    <3>1. Append(<<>>, m) = <<m>>
      OBVIOUS
    <3>2. QED
      BY <2>3, <3>1
  <2>5. Stretch(<<m>>, 1, 1)
    <3>1. <<m>> \in Seq({m}) /\ Len(<<m>>) = 1 /\ <<m>>[1] = m
      OBVIOUS
    <3>2. \A k \in 1 .. 1 : <<m>>[k] = 1 + k - 1
      BY <1>2, <3>1
    <3>3. QED
      BY <3>1, <3>2 DEF Stretch, Listed
  <2>6. \A i \in 1 .. 1 : LineStarts(gs)[i] = 1
    BY <1>0, <1>2, StartsAre
  <2>7. 1 \in 1 .. m /\ m # 0 /\ AreLines(gs, new.lines, 1 - 1)
    BY <1>2, <2>4, NoLinesAre
  <2>8. Lined(gs, new, m)
    BY <1>2, <2>4, <2>5, <2>6, <2>7 DEF Lined
  <2>9. QED
    BY <2>8 DEF new
<1>3. CASE m # 1
  <2>0. m - 1 # 0 /\ m # 0
    BY <1>0, <1>3
  <2>1. PICK a \in 1 .. m - 1 : /\ AreLines(gs, st.lines, a - 1) /\ Stretch(st.current, a, m - 1)
                                /\ \A i \in a .. m - 1 : LineStarts(gs)[i] = a
    BY <2>0 DEF Lined
  <2>2. a \in Int /\ 1 <= a /\ a <= m - 1 /\ a \in 1 .. Len(gs) /\ m - 1 \in a .. Len(gs)
    BY <1>0
  <2>3. /\ Listed(st.current) /\ Len(st.current) = m - 1 - a + 1 /\ Len(st.current) >= 1
        /\ \A k \in 1 .. Len(st.current) : st.current[k] = a + k - 1
    BY <1>0, <2>1, <2>2 DEF Stretch
  <2>4. st.current # <<>> /\ st.current[1] = a
    BY <2>2, <2>3, EmptyIs
  <2>5. LineStarts(gs)[m - 1] = a
    BY <2>1, <2>2
  <2>6. LineStarts(gs)[m] = IF LeavesLine(gs[a], gs[m]) THEN m ELSE a
    BY <1>3, <2>5, StartsAre
  <2>7. CASE LeavesLine(gs[a], gs[m])
    <3>1. new = [lines |-> Flushed(st.lines, BuildLine(gs, st.current)), current |-> <<m>>]
      BY <2>4, <2>7 DEF AddToLine
    <3>2. IsLine(gs, BuildLine(gs, st.current), a, m - 1)
      BY <2>1, <2>2, BuiltLine
    <3>3. AreLines(gs, Flushed(st.lines, BuildLine(gs, st.current)), m - 1)
      BY <2>1, <2>2, <3>2, LinesWithLine
    <3>4. Stretch(<<m>>, m, m)
      <4>1. <<m>> \in Seq({m}) /\ Len(<<m>>) = 1 /\ <<m>>[1] = m /\ m - m + 1 = 1
        BY <1>0
      <4>2. \A k \in 1 .. 1 : <<m>>[k] = m + k - 1
        BY <1>0, <4>1
      <4>3. QED
        BY <4>1, <4>2 DEF Stretch, Listed
    <3>5. \A i \in m .. m : LineStarts(gs)[i] = m
      BY <1>0, <2>6, <2>7
    <3> HIDE DEF new
    <3>6. /\ new = [lines |-> new.lines, current |-> new.current] /\ new.current = <<m>>
          /\ new.lines = Flushed(st.lines, BuildLine(gs, st.current))
      BY <3>1
    <3>7. m \in 1 .. m
      BY <1>0
    <3>8. Lined(gs, new, m)
      BY <2>0, <3>3, <3>4, <3>5, <3>6, <3>7 DEF Lined
    <3>9. QED
      BY <3>8 DEF new
  <2>8. CASE ~ LeavesLine(gs[a], gs[m])
    <3>1. new = [st EXCEPT !.current = Append(@, m)]
      BY <2>4, <2>8 DEF AddToLine
    <3>2. new = [[lines |-> st.lines, current |-> st.current] EXCEPT !.current = Append(@, m)]
      BY <1>1, <3>1
    <3> HIDE DEF new
    <3>3. /\ new = [lines |-> new.lines, current |-> new.current] /\ new.lines = st.lines
          /\ new.current = Append(st.current, m)
      BY <3>2
    <3>4. Stretch(new.current, a, m)
      <4> DEFINE c == st.current
                 n == Len(c)
      <4>1. Listed(c) /\ n = m - 1 - a + 1 /\ \A k \in 1 .. n : c[k] = a + k - 1
        BY <2>3
      <4>2. /\ Listed(Append(c, m)) /\ n \in Nat /\ Len(Append(c, m)) = n + 1
            /\ \A k \in 1 .. n : Append(c, m)[k] = c[k]
            /\ Append(c, m)[n + 1] = m
        BY <4>1, AppendIs
      <4> DEFINE d == Append(c, m)
      <4>3. Listed(d) /\ Len(d) = n + 1 /\ (\A k \in 1 .. n : d[k] = c[k]) /\ d[n + 1] = m /\ new.current = d
        BY <3>3, <4>2
      <4> HIDE DEF d, c, n
      <4>4. \A k \in 1 .. n + 1 : d[k] = a + k - 1
        <5> SUFFICES ASSUME NEW k \in 1 .. n + 1 PROVE d[k] = a + k - 1
          OBVIOUS
        <5>1. CASE k \in 1 .. n
          BY <4>1, <4>3, <5>1
        <5>2. CASE k = n + 1
          <6>1. m = a + (n + 1) - 1
            BY <1>0, <2>2, <4>1
          <6>2. QED
            BY <4>3, <5>2, <6>1
        <5>3. QED
          BY <4>2, <5>1, <5>2
      <4>5. Len(d) = m - a + 1
        BY <1>0, <2>2, <4>1, <4>3
      <4>6. QED
        BY <4>3, <4>4, <4>5 DEF Stretch
    <3>5. \A i \in a .. m : LineStarts(gs)[i] = a
      <4>1. \A i \in a .. m : i \in a .. m - 1 \/ i = m
        BY <1>0
      <4>2. QED
        BY <2>1, <2>6, <2>8, <4>1
    <3>6. a \in 1 .. m
      BY <1>0, <2>2
    <3>7. Lined(gs, new, m)
      BY <2>0, <2>1, <3>3, <3>4, <3>5, <3>6 DEF Lined
    <3>8. QED
      BY <3>7 DEF new
  <2>9. QED
    BY <2>7, <2>8
<1>4. QED
  BY <1>2, <1>3

(* The lines of any text.                                                  *)
LEMMA LinesAre ==
    ASSUME NEW gs, Listed(gs)
    PROVE  AreLines(gs, GroupIntoLines(gs), Len(gs))
<1> DEFINE n == Len(gs)
           lines == GroupIntoLines(gs)
<1>0. n \in Nat
  BY DEF Listed
<1>1. PICK f : Lining(f, gs, n) /\ lines = Flushed(f[n].lines, BuildLine(gs, f[n].current))
  BY <1>0, GroupIntoLinesIs
<1> HIDE DEF n, lines
<1>2. f[0] = NoLines /\ \A k \in 1 .. n : f[k] = AddToLine(gs, f[k - 1], k)
  <2>1. \A k \in 0 .. n : f[k] = IF k = 0 THEN NoLines ELSE AddToLine(gs, f[k - 1], k)
    BY <1>1 DEF Lining
  <2>2. 0 \in 0 .. n /\ \A k \in 1 .. n : k \in 0 .. n /\ k # 0
    BY <1>0
  <2>3. QED
    BY <2>1, <2>2
<1>3. Lined(gs, f[n], n)
  <2> DEFINE bad == {k \in Nat : k <= n /\ ~ Lined(gs, f[k], k)}
  <2>1. SUFFICES ASSUME bad # {} PROVE FALSE
    BY <1>0
  <2>2. PICK m \in bad : \A k \in bad : m <= k
    <3>1. bad \in SUBSET Nat
      OBVIOUS
    <3> HIDE DEF bad
    <3>2. QED
      BY <2>1, <3>1, LeastOne
  <2>3. CASE m = 0
    <3>1. NoLines.lines = <<>> /\ NoLines.current = <<>>
          /\ NoLines = [lines |-> NoLines.lines, current |-> NoLines.current]
      BY DEF NoLines
    <3>2. QED
      BY <1>2, <2>2, <2>3, <3>1 DEF Lined
  <2>4. CASE m # 0
    <3>1. m - 1 \in Nat /\ m - 1 <= n /\ m \in 1 .. n /\ m - 1 \notin bad
      BY <1>0, <2>2, <2>4
    <3>2. Lined(gs, f[m - 1], m - 1)
      BY <3>1
    <3>3. Lined(gs, f[m], m)
      BY <1>2, <3>1, <3>2, LinedStep DEF n
    <3>4. QED
      BY <2>2, <3>3
  <2>5. QED
    BY <2>3, <2>4
<1>4. CASE n = 0
  <2>1. f[n].lines = <<>> /\ f[n].current = <<>>
    BY <1>3, <1>4 DEF Lined
  <2>2. BuildLine(gs, <<>>) = <<>>
    <3>1. PICK g : Wording(g, gs, <<>>, Len(<<>>)) /\ BuildLine(gs, <<>>) = Flushed(g[Len(<<>>)].words, g[Len(<<>>)].word)
      BY EmptyIs, BuildLineIs
    <3>2. Len(<<>>) = 0
      BY EmptyIs
    <3>3. g[0] = NoWords
      BY <3>1, <3>2 DEF Wording
    <3>4. QED
      BY <3>1, <3>2, <3>3 DEF NoWords, Flushed
  <2>3. lines = <<>>
    BY <1>1, <2>1, <2>2 DEF Flushed
  <2>4. QED
    BY <1>4, <2>3, NoLinesAre DEF n, lines
<1>5. CASE n # 0
  <2>1. PICK a \in 1 .. n : /\ AreLines(gs, f[n].lines, a - 1) /\ Stretch(f[n].current, a, n)
                            /\ \A i \in a .. n : LineStarts(gs)[i] = a
    BY <1>3, <1>5 DEF Lined
  <2>2. n \in a .. n
    BY <1>0
  <2>3. IsLine(gs, BuildLine(gs, f[n].current), a, n)
    BY <2>1, <2>2, BuiltLine DEF n
  <2>4. AreLines(gs, lines, n)
    BY <1>1, <2>1, <2>2, <2>3, LinesWithLine DEF n
  <2>5. QED
    BY <2>4 DEF lines, n
<1>6. QED
  BY <1>4, <1>5

(* A text object of any glyphs becomes lines of words that hold its        *)
(* visible glyphs each once and in order, split exactly at blanks, gaps    *)
(* and changes of line (group_into_lines), and it becomes nothing only     *)
(* when there is no visible glyph.                                         *)
THEOREM TextIsGrouped ==
    ASSUME NEW gs, Listed(gs)
    PROVE  /\ Grouped(gs, GroupIntoLines(gs))
           /\ GroupIntoLines(gs) = <<>> <=> \A i \in DOMAIN gs : gs[i].blank
<1> DEFINE n == Len(gs)
           lines == GroupIntoLines(gs)
<1>0. n \in Nat /\ DOMAIN gs = 1 .. n
  BY DEF Listed
<1>1. AreLines(gs, lines, n)
  BY LinesAre
<1> HIDE DEF n, lines
<1>2. /\ Listed(lines) /\ Len(lines) \in Nat /\ DOMAIN lines = 1 .. Len(lines)
      /\ lines # <<>> => 1 \in DOMAIN lines
  <2>1. Listed(lines)
    BY <1>1 DEF AreLines
  <2>2. PICK S : lines \in Seq(S)
    BY <2>1 DEF Listed
  <2>3. lines # <<>> => Len(lines) # 0
    BY <2>2, EmptySeq
  <2>4. QED
    BY <2>1, <2>2, <2>3
<1>3. ASSUME NEW l \in 1 .. Len(lines)
      PROVE  /\ lines[l] # <<>> /\ Places(lines[l]) \subseteq {i \in 1 .. n : ~ gs[i].blank}
             /\ lines[l][1][1] \in Places(lines[l])
             /\ \A w \in DOMAIN lines[l] :
                  LET word == lines[l][w]
                  IN  /\ word # <<>> /\ ~ Joined(gs, word[1])
                      /\ \A k \in 2 .. Len(word) : word[k] = word[k - 1] + 1 /\ Joined(gs, word[k])
                      /\ \A v \in 1 .. w - 1 : Last(lines[l][v]) < word[1]
                      /\ LineStarts(gs)[word[1]] = LineStarts(gs)[lines[l][1][1]]
  <2>1. PICK a \in 1 .. n : \E e \in a .. n : IsLine(gs, lines[l], a, e) /\ \A i \in a .. e : LineStarts(gs)[i] = a
    BY <1>1 DEF AreLines
  <2>2. PICK e \in a .. n : IsLine(gs, lines[l], a, e) /\ \A i \in a .. e : LineStarts(gs)[i] = a
    BY <2>1
  <2>3. a \in Int /\ e \in Int /\ 1 <= a /\ e <= n
    BY <1>0
  <2>4. lines[l] # <<>>
    BY <1>1 DEF AreLines
  <2> DEFINE line == lines[l]
  <2>5. /\ Places(line) = {i \in a .. e : ~ gs[i].blank}
        /\ line[1][1] \in Places(line)
    BY <2>2, <2>3, <2>4, PlacesAre
  <2>6. IsLine(gs, line, a, e) /\ line # <<>>
    BY <2>2, <2>4
  <2> HIDE DEF line
  <2>7. DOMAIN line = 1 .. Len(line)
    BY <2>6 DEF IsLine, Listed
  <2>8. ASSUME NEW w \in DOMAIN line
        PROVE  /\ line[w] # <<>> /\ ~ Joined(gs, line[w][1])
               /\ \A k \in 2 .. Len(line[w]) : line[w][k] = line[w][k - 1] + 1 /\ Joined(gs, line[w][k])
               /\ \A v \in 1 .. w - 1 : Last(line[v]) < line[w][1]
               /\ LineStarts(gs)[line[w][1]] = LineStarts(gs)[line[1][1]]
    <3>1. PICK lo \in a .. e : \E hi \in a .. e : IsWord(gs, line[w], lo, hi)
      BY <2>6, <2>7 DEF IsLine
    <3>2. PICK hi \in a .. e : IsWord(gs, line[w], lo, hi)
      BY <3>1
    <3> DEFINE word == line[w]
    <3>3. lo \in Int /\ hi \in Int /\ IsWord(gs, word, lo, hi)
      BY <3>2
    <3> HIDE DEF word
    <3>4. word # <<>> /\ word[1] = lo /\ Len(word) \in Nat
      BY <3>3, WordEnds
    <3>5. ~ Joined(gs, lo) /\ Len(word) = hi - lo + 1 /\ \A k \in 1 .. Len(word) : word[k] = lo + k - 1
      BY <3>3 DEF IsWord
    <3>6. ASSUME NEW k \in 2 .. Len(word) PROVE word[k] = word[k - 1] + 1 /\ Joined(gs, word[k])
      <4>1. k \in 1 .. Len(word) /\ k - 1 \in 1 .. Len(word) /\ lo + k - 1 \in lo + 1 .. hi
        BY <3>3, <3>4, <3>5
      <4>2. word[k] = lo + k - 1 /\ word[k - 1] = lo + (k - 1) - 1
        BY <3>5, <4>1
      <4>3. Joined(gs, lo + k - 1)
        BY <3>3, <4>1 DEF IsWord
      <4>4. QED
        BY <3>3, <4>2, <4>3
    <3>7. LineStarts(gs)[lo] = a /\ LineStarts(gs)[line[1][1]] = a
      BY <2>2, <2>5
    <3>8. \A v \in 1 .. w - 1 : Last(line[v]) < line[w][1]
      BY <2>6, <2>7 DEF IsLine
    <3>9. QED
      BY <3>4, <3>5, <3>6, <3>7, <3>8 DEF word
  <2>9. Places(line) \subseteq {i \in 1 .. n : ~ gs[i].blank}
    <3>1. \A i \in a .. e : i \in 1 .. n
      BY <1>0, <2>3
    <3>2. QED
      BY <2>5, <3>1
  <2>10. QED
    BY <2>4, <2>5, <2>8, <2>9 DEF line
<1>4. UNION {Places(lines[l]) : l \in DOMAIN lines} = {i \in DOMAIN gs : ~ gs[i].blank}
  <2>1. \A i \in 1 .. n : ~ gs[i].blank => \E l \in 1 .. Len(lines) : i \in Places(lines[l])
    BY <1>1 DEF AreLines
  <2> DEFINE P(l) == Places(lines[l])
             V == {i \in 1 .. n : ~ gs[i].blank}
  <2>2. \A i \in V : \E l \in DOMAIN lines : i \in P(l)
    BY <1>2, <2>1
  <2>3. \A l \in DOMAIN lines : P(l) \subseteq V
    BY <1>2, <1>3
  <2> HIDE DEF P, V
  <2>4. UNION {P(l) : l \in DOMAIN lines} = V
    BY <2>2, <2>3
  <2>5. QED
    BY <1>0, <2>4 DEF P, V
<1>5. \A l \in 2 .. Len(lines) :
         /\ \A i \in Places(lines[l - 1]), j \in Places(lines[l]) : i < j
         /\ LineStarts(gs)[lines[l][1][1]] # LineStarts(gs)[lines[l - 1][1][1]]
  BY <1>1 DEF AreLines
<1>6. Grouped(gs, lines)
  BY <1>2, <1>3, <1>4, <1>5 DEF Grouped
<1>7. lines = <<>> <=> \A i \in DOMAIN gs : gs[i].blank
  <2>1. CASE lines = <<>>
    <3>1. DOMAIN lines = {}
      BY <2>1, EmptyIs
    <3>2. QED
      BY <1>4, <2>1, <3>1
  <2>2. CASE lines # <<>>
    <3>1. lines[1][1][1] \in {i \in 1 .. n : ~ gs[i].blank}
      BY <1>2, <1>3, <2>2
    <3>2. QED
      BY <1>0, <2>2, <3>1
  <2>3. QED
    BY <2>1, <2>2
<1>8. QED
  BY <1>6, <1>7 DEF lines

(***************************************************************************)
(* The objects of a page.                                                  *)
(***************************************************************************)
(* What a record with more fields is.                                      *)
LEMMA WithIs ==
    ASSUME NEW r, NEW more
    PROVE  /\ \A x \in DOMAIN r : With(r, more)[x] = r[x]
           /\ \A x \in DOMAIN more : x \notin DOMAIN r => With(r, more)[x] = more[x]
BY DEF With

(* An object as it is met, and an element as it is written.                *)
LEMMA MetIs ==
    ASSUME NEW r, "is" \in DOMAIN r, "chain" \notin DOMAIN r
    PROVE  /\ With(r, [chain |-> chain]).chain = chain
           /\ With(r, [chain |-> chain]).is = r.is
           /\ \A x \in DOMAIN r : With(r, [chain |-> chain])[x] = r[x]
<1>1. DOMAIN [chain |-> chain] = {"chain"} /\ [chain |-> chain]["chain"] = chain
  OBVIOUS
<1>2. QED
  BY <1>1, WithIs

LEMMA ElementIs ==
    ASSUME NEW r, "is" \in DOMAIN r, "id" \notin DOMAIN r, "at" \notin DOMAIN r, NEW i, NEW a
    PROVE  LET e == With(r, [id |-> i, at |-> a])
           IN  e.id = i /\ e.at = a /\ e.is = r.is /\ \A x \in DOMAIN r : e[x] = r[x]
<1>1. /\ DOMAIN [id |-> i, at |-> a] = {"id", "at"}
      /\ [id |-> i, at |-> a]["id"] = i /\ [id |-> i, at |-> a]["at"] = a
  OBVIOUS
<1>2. QED
  BY <1>1, WithIs

\* The lists of a page.
PageListed == Listed(met) /\ Listed(elements) /\ Listed(glyphs) /\ Listed(chain) /\ Listed(forms)

\* An object that was met and has no element, and one that has.
Missed(o) ==
    /\ met' = Append(met, o) /\ elements' = elements /\ ~ Shown(o)
Placed(o, e) ==
    /\ met' = Append(met, o) /\ elements' = Append(elements, e) /\ Shown(o)
    /\ e.id = Len(elements) /\ e.at = Len(met')

\* What needs a warning.
Wanting(o) == o.is = "lost" \/ (o.is = "form" /\ Len(o.chain) >= MaxFormDepth)

\* ObjectsExact, and the same by its parts.
ExactAs(m, el, w) ==
    /\ {el[k].at : k \in DOMAIN el} = {i \in DOMAIN m : Shown(m[i])}
    /\ \A k \in DOMAIN el :
          /\ el[k].id = k - 1
          /\ \A j \in 1 .. k - 1 : el[j].at < el[k].at
          /\ Len(m[el[k].at].chain) <= MaxFormDepth
    /\ \A i \in DOMAIN m : Wanting(m[i]) => i \in w
Exact(m, el, w) ==
    /\ Listed(m) /\ Listed(el)
    /\ \A k \in 1 .. Len(el) :
          /\ el[k].at \in 1 .. Len(m) /\ Shown(m[el[k].at])
          /\ el[k].id = k - 1
          /\ \A j \in 1 .. k - 1 : el[j].at < el[k].at
          /\ Len(m[el[k].at].chain) <= MaxFormDepth
    /\ \A i \in 1 .. Len(m) : Shown(m[i]) => \E k \in 1 .. Len(el) : el[k].at = i
    /\ \A i \in 1 .. Len(m) : Wanting(m[i]) => i \in w

LEMMA ExactIs ==
    ASSUME NEW m, NEW el, NEW w, Listed(m), Listed(el)
    PROVE  ExactAs(m, el, w) <=> Exact(m, el, w)
<1>1. DOMAIN el = 1 .. Len(el) /\ DOMAIN m = 1 .. Len(m)
  BY DEF Listed
<1> DEFINE S == {i \in DOMAIN m : Shown(m[i])}
           at(k) == el[k].at
           show(i) == Shown(m[i])
<1>2. {at(k) : k \in DOMAIN el} = S <=>
         /\ \A k \in DOMAIN el : at(k) \in DOMAIN m /\ show(at(k))
         /\ \A i \in DOMAIN m : show(i) => \E k \in DOMAIN el : at(k) = i
  <2>1. S = {i \in DOMAIN m : show(i)}
    OBVIOUS
  <2> HIDE DEF S, at, show
  <2>2. QED
    BY <2>1
<1>3. QED
  BY <1>1, <1>2 DEF ExactAs, Exact

LEMMA ObjectsExactIs ==
    /\ PageListed => (ObjectsExact <=> Exact(met, elements, noted))
    /\ PageListed' => (ObjectsExact' <=> Exact(met', elements', noted'))
<1>1. (ObjectsExact <=> ExactAs(met, elements, noted)) /\ (ObjectsExact' <=> ExactAs(met', elements', noted'))
  BY DEF ObjectsExact, ExactAs, Wanting
<1>2. QED
  BY <1>1, ExactIs DEF PageListed

(* An object without an element.                                           *)
LEMMA ObjectMissed ==
    ASSUME Exact(met, elements, noted), NEW o, Missed(o), noted \subseteq noted',
           Wanting(o) => Len(met) + 1 \in noted'
    PROVE  Exact(met', elements', noted')
<1> DEFINE n == Len(met)
<1>1. /\ Listed(met') /\ n \in Nat /\ Len(met') = n + 1
      /\ \A i \in 1 .. n : met'[i] = met[i]
      /\ met'[n + 1] = o
  BY AppendIs DEF Exact, Missed
<1>2. elements' = elements /\ ~ Shown(o) /\ (Wanting(o) => n + 1 \in noted')
  BY DEF Missed
<1>3. \A i : i \in 1 .. n + 1 <=> i \in 1 .. n \/ i = n + 1
  BY <1>1
<1>4. /\ Listed(elements)
      /\ \A k \in 1 .. Len(elements) :
            /\ elements[k].at \in 1 .. n /\ Shown(met[elements[k].at])
            /\ elements[k].id = k - 1
            /\ \A j \in 1 .. k - 1 : elements[j].at < elements[k].at
            /\ Len(met[elements[k].at].chain) <= MaxFormDepth
      /\ \A i \in 1 .. n : Shown(met[i]) => \E k \in 1 .. Len(elements) : elements[k].at = i
      /\ \A i \in 1 .. n : Wanting(met[i]) => i \in noted
  BY DEF Exact
<1> HIDE DEF n
<1>5. \A k \in 1 .. Len(elements') :
         /\ elements'[k].at \in 1 .. n + 1 /\ Shown(met'[elements'[k].at])
         /\ elements'[k].id = k - 1
         /\ \A j \in 1 .. k - 1 : elements'[j].at < elements'[k].at
         /\ Len(met'[elements'[k].at].chain) <= MaxFormDepth
  BY <1>1, <1>2, <1>3, <1>4
<1>6. \A i \in 1 .. n + 1 : Shown(met'[i]) => \E k \in 1 .. Len(elements') : elements'[k].at = i
  BY <1>1, <1>2, <1>3, <1>4
<1>7. \A i \in 1 .. n + 1 : Wanting(met'[i]) => i \in noted'
  BY <1>1, <1>2, <1>3, <1>4
<1>8. QED
  BY <1>1, <1>2, <1>4, <1>5, <1>6, <1>7 DEF Exact

(* An object with its element.                                             *)
LEMMA ObjectPlaced ==
    ASSUME Exact(met, elements, noted), NEW o, NEW e, Placed(o, e), noted \subseteq noted',
           Wanting(o) => Len(met) + 1 \in noted', Len(o.chain) <= MaxFormDepth
    PROVE  /\ Exact(met', elements', noted')
           /\ Len(met) \in Nat /\ Len(met') = Len(met) + 1 /\ met'[Len(met) + 1] = o
           /\ Len(elements) \in Nat /\ Len(elements') = Len(elements) + 1
           /\ elements'[Len(elements) + 1] = e /\ e.at = Len(met) + 1
           /\ \A k \in 1 .. Len(elements) : elements'[k] = elements[k]
           /\ \A i \in 1 .. Len(met) : met'[i] = met[i]
<1> DEFINE n == Len(met)
           t == Len(elements)
<1>1. /\ Listed(met') /\ n \in Nat /\ Len(met') = n + 1
      /\ \A i \in 1 .. n : met'[i] = met[i]
      /\ met'[n + 1] = o
  BY AppendIs DEF Exact, Placed
<1>2. /\ Listed(elements') /\ t \in Nat /\ Len(elements') = t + 1
      /\ \A k \in 1 .. t : elements'[k] = elements[k]
      /\ elements'[t + 1] = e
  BY AppendIs DEF Exact, Placed
<1>3. Shown(o) /\ e.id = t /\ e.at = n + 1 /\ (Wanting(o) => n + 1 \in noted')
  BY <1>1 DEF Placed
<1>4. /\ \A k \in 1 .. t :
            /\ elements[k].at \in 1 .. n /\ Shown(met[elements[k].at])
            /\ elements[k].id = k - 1
            /\ \A j \in 1 .. k - 1 : elements[j].at < elements[k].at
            /\ Len(met[elements[k].at].chain) <= MaxFormDepth
      /\ \A i \in 1 .. n : Shown(met[i]) => \E k \in 1 .. t : elements[k].at = i
      /\ \A i \in 1 .. n : Wanting(met[i]) => i \in noted
  BY DEF Exact
<1> HIDE DEF n, t
<1>5. ASSUME NEW k \in 1 .. t + 1
      PROVE  /\ elements'[k].at \in 1 .. n + 1 /\ Shown(met'[elements'[k].at])
             /\ elements'[k].id = k - 1
             /\ \A j \in 1 .. k - 1 : elements'[j].at < elements'[k].at
             /\ Len(met'[elements'[k].at].chain) <= MaxFormDepth
  <2>1. CASE k \in 1 .. t
    <3>1. \A j \in 1 .. k - 1 : j \in 1 .. t
      BY <1>2, <2>1
    <3>2. \A i \in 1 .. n : i \in 1 .. n + 1
      BY <1>1
    <3>3. elements'[k] = elements[k] /\ elements[k].at \in 1 .. n
      BY <1>2, <1>4, <2>1
    <3>4. met'[elements[k].at] = met[elements[k].at]
      BY <1>1, <3>3
    <3>5. \A j \in 1 .. k - 1 : elements'[j] = elements[j] /\ elements[j].at < elements[k].at
      BY <1>2, <1>4, <2>1, <3>1
    <3>6. elements[k].id = k - 1 /\ Shown(met[elements[k].at])
          /\ Len(met[elements[k].at].chain) <= MaxFormDepth
      BY <1>4, <2>1
    <3>7. QED
      BY <3>2, <3>3, <3>4, <3>5, <3>6
  <2>2. CASE k = t + 1
    <3>1. \A j \in 1 .. k - 1 : j \in 1 .. t
      BY <1>2, <2>2
    <3>2. \A i \in 1 .. n : i < n + 1
      BY <1>1
    <3>3. n + 1 \in 1 .. n + 1 /\ k - 1 = t
      BY <1>1, <1>2, <2>2
    <3>4. QED
      BY <1>1, <1>2, <1>3, <1>4, <2>2, <3>1, <3>2, <3>3
  <2>3. QED
    BY <1>2, <2>1, <2>2
<1>6. ASSUME NEW i \in 1 .. n + 1
      PROVE  /\ Shown(met'[i]) => \E k \in 1 .. t + 1 : elements'[k].at = i
             /\ Wanting(met'[i]) => i \in noted'
  <2>1. \A k \in 1 .. t : k \in 1 .. t + 1
    BY <1>2
  <2>2. t + 1 \in 1 .. t + 1
    BY <1>2
  <2>3. CASE i \in 1 .. n
    BY <1>1, <1>2, <1>4, <2>1, <2>3
  <2>4. CASE i = n + 1
    BY <1>1, <1>2, <1>3, <2>2, <2>4
  <2>5. QED
    BY <1>1, <2>3, <2>4
<1>7. Exact(met', elements', noted')
  BY <1>1, <1>2, <1>5, <1>6 DEF Exact
<1>8. QED
  BY <1>1, <1>2, <1>3, <1>7 DEF n, t

(***************************************************************************)
(* Where an object lies on its page.                                       *)
(***************************************************************************)
Points == Int \X Int

(* One matrix after the other is their product.                            *)
LEMMA Product ==
    ASSUME NEW m \in Matrix, NEW n \in Matrix, NEW p \in Points
    PROVE  /\ Multiply(m, n) \in Matrix /\ TransformPoint(m, p) \in Points
           /\ TransformPoint(Multiply(m, n), p) = TransformPoint(n, TransformPoint(m, p))
<1> DEFINE x == p[1]  y == p[2]
<1>1. /\ m.a \in Int /\ m.b \in Int /\ m.c \in Int /\ m.d \in Int /\ m.e \in Int /\ m.f \in Int
      /\ n.a \in Int /\ n.b \in Int /\ n.c \in Int /\ n.d \in Int /\ n.e \in Int /\ n.f \in Int
      /\ x \in Int /\ y \in Int
  BY DEF Matrix, Points
<1>2. Multiply(m, n) \in Matrix
  BY <1>1 DEF Multiply, Matrix
<1>3. TransformPoint(m, p) = <<m.a * x + m.c * y + m.e, m.b * x + m.d * y + m.f>>
  BY DEF TransformPoint
<1> HIDE DEF x, y
<1>4. TransformPoint(m, p) \in Points
  BY <1>1, <1>3 DEF Points
<1>5. TransformPoint(n, TransformPoint(m, p)) =
         <<n.a * (m.a * x + m.c * y + m.e) + n.c * (m.b * x + m.d * y + m.f) + n.e,
           n.b * (m.a * x + m.c * y + m.e) + n.d * (m.b * x + m.d * y + m.f) + n.f>>
  BY <1>3 DEF TransformPoint
<1>6. TransformPoint(Multiply(m, n), p) =
         <<(m.a * n.a + m.b * n.c) * x + (m.c * n.a + m.d * n.c) * y + (m.e * n.a + m.f * n.c + n.e),
           (m.a * n.b + m.b * n.d) * x + (m.c * n.b + m.d * n.d) * y + (m.e * n.b + m.f * n.d + n.f)>>
  BY DEF TransformPoint, Multiply, x, y
<1>7. ASSUME NEW A \in Int, NEW B \in Int, NEW C \in Int, NEW D \in Int, NEW E \in Int, NEW F \in Int,
             NEW G \in Int, NEW H \in Int, NEW I \in Int
      PROVE  (A * G + B * H) * x + (C * G + D * H) * y + (E * G + F * H + I)
               = G * (A * x + C * y + E) + H * (B * x + D * y + F) + I
  BY <1>1
<1>8. (m.a * n.a + m.b * n.c) * x + (m.c * n.a + m.d * n.c) * y + (m.e * n.a + m.f * n.c + n.e)
        = n.a * (m.a * x + m.c * y + m.e) + n.c * (m.b * x + m.d * y + m.f) + n.e
  BY <1>1, <1>7
<1>9. (m.a * n.b + m.b * n.d) * x + (m.c * n.b + m.d * n.d) * y + (m.e * n.b + m.f * n.d + n.f)
        = n.b * (m.a * x + m.c * y + m.e) + n.d * (m.b * x + m.d * y + m.f) + n.f
  BY <1>1, <1>7
<1>10. QED
  BY <1>2, <1>4, <1>5, <1>6, <1>8, <1>9

\* The point after each of the forms, and the turns of the page.
Taking(f, c, p, n) ==
    f = [k \in 0 .. n |-> IF k = 0 THEN p ELSE TransformPoint(c[Len(c) - k + 1], f[k - 1])]
Turning(f, s, n) == f = [k \in 0 .. n |-> IF k = 0 THEN s ELSE Turn(f[k - 1])]

(* There is such a sequence of states.                                     *)
LEMMA TakingExists ==
    ASSUME NEW c, NEW p, NEW n \in Nat
    PROVE  \E f : Taking(f, c, p, n)
<1> DEFINE bad == {k \in Nat : ~ \E f : Taking(f, c, p, k)}
<1>1. SUFFICES ASSUME bad # {} PROVE FALSE
  OBVIOUS
<1>2. PICK m \in bad : \A k \in bad : m <= k
  <2>1. bad \in SUBSET Nat
    OBVIOUS
  <2> HIDE DEF bad
  <2>2. QED
    BY <1>1, <2>1, LeastOne
<1>3. CASE m = 0
  <2>1. Taking([k \in 0 .. 0 |-> p], c, p, 0)
    BY DEF Taking
  <2>2. QED
    BY <1>2, <1>3, <2>1
<1>4. CASE m # 0
  <2>1. m - 1 \in Nat /\ m - 1 \notin bad
    BY <1>2, <1>4
  <2>2. PICK f : Taking(f, c, p, m - 1)
    BY <2>1
  <2> DEFINE next(k, x) == TransformPoint(c[Len(c) - k + 1], x)
             g == [k \in 0 .. m |-> IF k = m THEN next(m, f[m - 1]) ELSE f[k]]
  <2>3. \A k \in 0 .. m - 1 : f[k] = IF k = 0 THEN p ELSE next(k, f[k - 1])
    BY <2>2 DEF Taking
  <2> HIDE DEF next
  <2>4. \A k \in 0 .. m - 1 : g[k] = f[k]
    BY <1>2
  <2>5. g[m] = next(m, f[m - 1])
    BY <2>1
  <2>6. g = [k \in 0 .. m |-> g[k]]
    OBVIOUS
  <2> HIDE DEF g
  <2>7. ASSUME NEW k \in 0 .. m
        PROVE  g[k] = IF k = 0 THEN p ELSE next(k, g[k - 1])
    <3>1. CASE k = m
      BY <1>4, <2>1, <2>4, <2>5, <3>1
    <3>2. CASE k # m
      <4>1. k \in 0 .. m - 1 /\ (k # 0 => k - 1 \in 0 .. m - 1)
        BY <3>2
      <4>2. QED
        BY <2>3, <2>4, <4>1
    <3>3. QED
      BY <3>1, <3>2
  <2>8. Taking(g, c, p, m)
    BY <2>6, <2>7 DEF Taking, next
  <2>9. QED
    BY <1>2, <2>8
<1>5. QED
  BY <1>3, <1>4

(* There is such a sequence of states.                                     *)
LEMMA TurningExists ==
    ASSUME NEW s, NEW n \in Nat
    PROVE  \E f : Turning(f, s, n)
<1> DEFINE bad == {k \in Nat : ~ \E f : Turning(f, s, k)}
<1>1. SUFFICES ASSUME bad # {} PROVE FALSE
  OBVIOUS
<1>2. PICK m \in bad : \A k \in bad : m <= k
  <2>1. bad \in SUBSET Nat
    OBVIOUS
  <2> HIDE DEF bad
  <2>2. QED
    BY <1>1, <2>1, LeastOne
<1>3. CASE m = 0
  <2>1. Turning([k \in 0 .. 0 |-> s], s, 0)
    BY DEF Turning
  <2>2. QED
    BY <1>2, <1>3, <2>1
<1>4. CASE m # 0
  <2>1. m - 1 \in Nat /\ m - 1 \notin bad
    BY <1>2, <1>4
  <2>2. PICK f : Turning(f, s, m - 1)
    BY <2>1
  <2> DEFINE next(k, x) == Turn(x)
             g == [k \in 0 .. m |-> IF k = m THEN next(m, f[m - 1]) ELSE f[k]]
  <2>3. \A k \in 0 .. m - 1 : f[k] = IF k = 0 THEN s ELSE next(k, f[k - 1])
    BY <2>2 DEF Turning
  <2> HIDE DEF next
  <2>4. \A k \in 0 .. m - 1 : g[k] = f[k]
    BY <1>2
  <2>5. g[m] = next(m, f[m - 1])
    BY <2>1
  <2>6. g = [k \in 0 .. m |-> g[k]]
    OBVIOUS
  <2> HIDE DEF g
  <2>7. ASSUME NEW k \in 0 .. m
        PROVE  g[k] = IF k = 0 THEN s ELSE next(k, g[k - 1])
    <3>1. CASE k = m
      BY <1>4, <2>1, <2>4, <2>5, <3>1
    <3>2. CASE k # m
      <4>1. k \in 0 .. m - 1 /\ (k # 0 => k - 1 \in 0 .. m - 1)
        BY <3>2
      <4>2. QED
        BY <2>3, <2>4, <4>1
    <3>3. QED
      BY <3>1, <3>2
  <2>8. Turning(g, s, m)
    BY <2>6, <2>7 DEF Turning, next
  <2>9. QED
    BY <1>2, <2>8
<1>5. QED
  BY <1>3, <1>4

\* child_to_page of the forms around an object, from their matrices.
Composite(c, fs) ==
    /\ Listed(c) /\ Listed(fs) /\ Len(fs) = Len(c)
    /\ \A k \in 1 .. Len(c) :
          /\ c[k] \in Matrix /\ fs[k] \in Matrix
          /\ fs[k] = IF k = 1 THEN c[1] ELSE Multiply(c[k], fs[k - 1])

(* The product of the matrices takes a point where they take it one after  *)
(* the other, from the inner form out.                                     *)
LEMMA ThroughIs ==
    ASSUME NEW c, NEW fs, Composite(c, fs), NEW p \in Points
    PROVE  Through(c, p) = IF c = <<>> THEN p ELSE TransformPoint(Last(fs), p)
<1> DEFINE n == Len(c)
           f == CHOOSE f : Taking(f, c, p, n)
<1>0. n \in Nat /\ Len(fs) = n /\ (c = <<>> <=> n = 0)
  <2>1. PICK S : c \in Seq(S)
    BY DEF Composite, Listed
  <2>2. QED
    BY <2>1, EmptySeq DEF Composite
<1>1. Taking(f, c, p, n)
  BY <1>0, TakingExists
<1>2. Through(c, p) = f[n]
  BY DEF Through, Taking
<1> HIDE DEF f, n
<1>3. f[0] = p /\ \A k \in 1 .. n : f[k] = TransformPoint(c[n - k + 1], f[k - 1])
  <2>1. \A k \in 0 .. n : f[k] = IF k = 0 THEN p ELSE TransformPoint(c[n - k + 1], f[k - 1])
    BY <1>1 DEF Taking, n
  <2>2. 0 \in 0 .. n /\ \A k \in 1 .. n : k \in 0 .. n /\ k # 0
    BY <1>0
  <2>3. QED
    BY <2>1, <2>2
<1>4. \A k \in 1 .. n : c[k] \in Matrix /\ fs[k] \in Matrix
  BY DEF Composite, n
<1>5. \A k \in 1 .. n : fs[k] = IF k = 1 THEN c[1] ELSE Multiply(c[k], fs[k - 1])
  BY DEF Composite, n
<1>6. CASE n = 0
  BY <1>0, <1>2, <1>3, <1>6
<1>7. CASE n # 0
  <2>1. Last(fs) = fs[n] /\ c # <<>>
    BY <1>0, <1>7 DEF Last
  <2> DEFINE q == TransformPoint(fs[n], p)
             ok(k) == f[k] \in Points /\ TransformPoint(fs[n - k], f[k]) = q
             bad == {k \in Nat : k < n /\ ~ ok(k)}
  <2>2. ok(0)
    BY <1>0, <1>3, <1>7
  <2>3. ASSUME NEW k \in Nat, k # 0, k < n, ok(k - 1) PROVE ok(k)
    <3> DEFINE m == n - k
    <3>1. m \in 1 .. n /\ m + 1 \in 1 .. n /\ m + 1 # 1 /\ n - (k - 1) = m + 1 /\ n - k + 1 = m + 1 /\ k \in 1 .. n
          /\ (m + 1) - 1 = m
      BY <1>0, <2>3
    <3>2. f[k - 1] \in Points /\ TransformPoint(fs[m + 1], f[k - 1]) = q
      BY <2>3, <3>1
    <3>3. f[k] = TransformPoint(c[m + 1], f[k - 1])
      BY <1>3, <3>1
    <3>4. fs[m + 1] = Multiply(c[m + 1], fs[m])
      BY <1>5, <3>1
    <3>5. c[m + 1] \in Matrix /\ fs[m] \in Matrix
      BY <1>4, <3>1
    <3> HIDE DEF m, q
    <3>6. /\ TransformPoint(c[m + 1], f[k - 1]) \in Points
          /\ TransformPoint(Multiply(c[m + 1], fs[m]), f[k - 1]) = TransformPoint(fs[m], TransformPoint(c[m + 1], f[k - 1]))
      BY <3>2, <3>5, Product
    <3>7. QED
      BY <3>2, <3>3, <3>4, <3>6 DEF m
  <2>4. bad = {}
    <3>1. SUFFICES ASSUME bad # {} PROVE FALSE
      OBVIOUS
    <3>2. PICK m \in bad : \A k \in bad : m <= k
      <4>1. bad \in SUBSET Nat
        OBVIOUS
      <4> HIDE DEF bad
      <4>2. QED
        BY <3>1, <4>1, LeastOne
    <3> HIDE DEF ok
    <3>3. m # 0 /\ m \in Nat /\ m < n /\ ~ ok(m)
      BY <2>2, <3>2
    <3>4. m - 1 \in Nat /\ m - 1 < n /\ ok(m - 1)
      <4>1. m - 1 \in Nat /\ m - 1 < n /\ ~ (m <= m - 1)
        BY <1>0, <3>3
      <4>2. QED
        BY <3>2, <4>1
    <3>5. QED
      BY <2>3, <3>3, <3>4
  <2>5. ok(n - 1) /\ n - 1 \in Nat /\ n - (n - 1) = 1 /\ n \in 1 .. n /\ n - n + 1 = 1
    <3>1. n - 1 \in Nat /\ n - 1 < n
      BY <1>0, <1>7
    <3> HIDE DEF ok
    <3>2. QED
      BY <1>0, <1>7, <2>4, <3>1
  <2>6. f[n] = TransformPoint(c[1], f[n - 1])
    BY <1>3, <2>5
  <2>7. fs[1] = c[1]
    BY <1>0, <1>5, <1>7
  <2>8. f[n] = q
    BY <2>5, <2>6, <2>7
  <2>9. QED
    BY <1>2, <2>1, <2>8
<1>8. QED
  BY <1>6, <1>7

(* One form more, and one less.                                            *)
LEMMA CompositeStep ==
    ASSUME NEW c, NEW fs, Composite(c, fs), NEW m \in Matrix
    PROVE  /\ Composite(Append(c, m), Append(fs, IF fs = <<>> THEN m ELSE Multiply(m, Last(fs))))
           /\ Len(Append(c, m)) = Len(c) + 1 /\ Append(c, m) # <<>> /\ (c = <<>> <=> fs = <<>>)
           /\ Last(Append(fs, IF fs = <<>> THEN m ELSE Multiply(m, Last(fs))))
                 = IF fs = <<>> THEN m ELSE Multiply(m, Last(fs))
<1> DEFINE n == Len(c)
           x == IF fs = <<>> THEN m ELSE Multiply(m, Last(fs))
           d == Append(c, m)
           gs == Append(fs, x)
<1>1. Listed(c) /\ Listed(fs) /\ Len(fs) = n /\ \A k \in 1 .. n : /\ c[k] \in Matrix /\ fs[k] \in Matrix
          /\ fs[k] = IF k = 1 THEN c[1] ELSE Multiply(c[k], fs[k - 1])
  BY DEF Composite
<1> HIDE DEF n, x
<1>2. /\ Listed(d) /\ n \in Nat /\ Len(d) = n + 1 /\ (\A k \in 1 .. n : d[k] = c[k]) /\ d[n + 1] = m
  BY <1>1, AppendIs DEF n
<1>3. /\ Listed(gs) /\ Len(gs) = n + 1 /\ (\A k \in 1 .. n : gs[k] = fs[k]) /\ gs[n + 1] = x
  BY <1>1, AppendIs
<1>4. (fs = <<>> <=> n = 0) /\ (c = <<>> <=> n = 0)
  <2>1. PICK S : fs \in Seq(S)
    BY <1>1 DEF Listed
  <2>2. PICK R : c \in Seq(R)
    BY <1>1 DEF Listed
  <2>3. QED
    BY <1>1, <2>1, <2>2, EmptySeq DEF n
<1>5. x \in Matrix /\ x = IF n = 0 THEN m ELSE Multiply(m, fs[n])
  <2>1. CASE n = 0
    BY <1>4, <2>1 DEF x
  <2>2. CASE n # 0
    <3>1. Last(fs) = fs[n] /\ fs[n] \in Matrix
      BY <1>1, <1>2, <2>2 DEF Last
    <3>2. Multiply(m, fs[n]) \in Matrix
      <4>1. <<0, 0>> \in Points
        BY DEF Points
      <4>2. QED
        BY <3>1, <4>1, Product
    <3>3. QED
      BY <1>4, <2>2, <3>1, <3>2 DEF x
  <2>3. QED
    BY <2>1, <2>2
<1> HIDE DEF d, gs
<1>6. ASSUME NEW k \in 1 .. n + 1
      PROVE  /\ d[k] \in Matrix /\ gs[k] \in Matrix
             /\ gs[k] = IF k = 1 THEN d[1] ELSE Multiply(d[k], gs[k - 1])
  <2>1. CASE k \in 1 .. n
    <3>1. 1 \in 1 .. n /\ (k # 1 => k - 1 \in 1 .. n)
      BY <1>2, <2>1
    <3>2. QED
      BY <1>1, <1>2, <1>3, <2>1, <3>1
  <2>2. CASE k = n + 1
    <3>1. k - 1 = n /\ (k = 1 <=> n = 0) /\ (n # 0 => n \in 1 .. n)
      BY <1>2, <2>2
    <3>2. QED
      BY <1>2, <1>3, <1>5, <2>2, <3>1
  <2>3. QED
    BY <1>2, <2>1, <2>2
<1>7. Composite(d, gs)
  BY <1>2, <1>3, <1>6 DEF Composite
<1>8. d # <<>>
  BY <1>2, EmptyIs
<1>9. Last(gs) = x
  BY <1>3 DEF Last
<1>10. QED
  BY <1>2, <1>4, <1>7, <1>8, <1>9 DEF d, gs, x, n

LEMMA FrontIs ==
    ASSUME NEW s, Listed(s), s # <<>>
    PROVE  /\ Listed(Front(s)) /\ Len(s) \in Nat /\ Len(s) # 0 /\ Len(Front(s)) = Len(s) - 1
           /\ \A i \in 1 .. Len(s) - 1 : Front(s)[i] = s[i]
<1>1. PICK S : s \in Seq(S)
  BY DEF Listed
<1> DEFINE n == Len(s) - 1
<1>2. Len(s) \in Nat /\ Len(s) # 0 /\ n \in Nat /\ n <= Len(s)
  BY <1>1, EmptySeq
<1>3. Front(s) = SubSeq(s, 1, n)
  BY DEF Front
<1> HIDE DEF n
<1>4. SubSeq(s, 1, n) \in Seq(S) /\ Len(SubSeq(s, 1, n)) = n
      /\ \A i \in 1 .. n : SubSeq(s, 1, n)[i] = s[i]
  BY <1>1, <1>2
<1>5. QED
  BY <1>2, <1>3, <1>4 DEF n, Listed

LEMMA CompositeBack ==
    ASSUME NEW c, NEW fs, Composite(c, fs), fs # <<>>
    PROVE  Composite(Front(c), Front(fs)) /\ Len(Front(c)) = Len(c) - 1 /\ Len(c) \in Nat
<1>1. /\ Listed(c) /\ Listed(fs) /\ Len(fs) = Len(c)
      /\ \A k \in 1 .. Len(c) : /\ c[k] \in Matrix /\ fs[k] \in Matrix
            /\ fs[k] = IF k = 1 THEN c[1] ELSE Multiply(c[k], fs[k - 1])
  BY DEF Composite
<1> DEFINE n == Len(c) - 1
           d == Front(c)
           gs == Front(fs)
<1>2. Len(fs) \in Nat /\ Len(fs) # 0 /\ Listed(gs) /\ Len(gs) = n /\ \A k \in 1 .. n : gs[k] = fs[k]
  BY <1>1, FrontIs
<1>3. c # <<>>
  BY <1>1, <1>2, EmptyIs
<1>4. Listed(d) /\ Len(d) = n /\ \A k \in 1 .. n : d[k] = c[k]
  BY <1>1, <1>3, FrontIs
<1>5. n \in Nat /\ \A k \in 1 .. n : k \in 1 .. Len(c) /\ 1 \in 1 .. n /\ (k # 1 => k - 1 \in 1 .. n)
  BY <1>1, <1>2
<1> HIDE DEF d, gs, n
<1>6. Composite(d, gs)
  BY <1>1, <1>2, <1>4, <1>5 DEF Composite
<1>7. QED
  BY <1>1, <1>2, <1>4, <1>6 DEF d, gs, n

\* A page turned by quarters, and a box on it.
Turns == [rotation : {0, 90, 180, 270}, w : Int, h : Int]
Boxed == Int \X Int \X Int \X Int

(* The place of a point on a turned page is where turning the page by      *)
(* quarters takes it.                                                      *)
LEMMA TurnedIs ==
    ASSUME NEW s \in Turns, NEW p \in Points
    PROVE  Turned(s.w, s.h, p, s.rotation \div 90) = Point(s, p)
<1> DEFINE w == s.w
           h == s.h
           x == p[1]
           y == p[2]
           q == s.rotation \div 90
           start == [w |-> w, h |-> h, at |-> <<x, h - y>>]
           f == CHOOSE f : Turning(f, start, q)
<1>1. w \in Int /\ h \in Int /\ x \in Int /\ y \in Int
  BY DEF Turns, Points
<1>2. /\ s.rotation \in {0, 90, 180, 270} /\ q \in 0 .. 3
      /\ s.rotation = 0 => q = 0
      /\ s.rotation = 90 => q = 1
      /\ s.rotation = 180 => q = 2
      /\ s.rotation = 270 => q = 3
  BY DEF Turns
<1>3. Turning(f, start, q)
  BY <1>2, TurningExists
<1>4. Turned(w, h, p, q) = f[q].at
  BY DEF Turned, Turning
<1> HIDE DEF f, start
<1>5. f[0] = start /\ \A k \in 1 .. q : f[k] = Turn(f[k - 1])
  <2>1. \A k \in 0 .. q : f[k] = IF k = 0 THEN start ELSE Turn(f[k - 1])
    BY <1>3 DEF Turning
  <2>2. 0 \in 0 .. q /\ \A k \in 1 .. q : k \in 0 .. q /\ k # 0
    BY <1>2
  <2>3. QED
    BY <2>1, <2>2
<1> HIDE DEF w, h, x, y, q
<1>6. f[0] = [w |-> w, h |-> h, at |-> <<x, h - y>>]
  BY <1>5 DEF start
<1>7. q >= 1 => f[1] = [w |-> h, h |-> w, at |-> <<y, x>>]
  <2>1. q >= 1 => f[1] = Turn(f[0])
    BY <1>2, <1>5
  <2>2. Turn(f[0]) = [w |-> h, h |-> w, at |-> <<h - (h - y), x>>]
    BY <1>6 DEF Turn
  <2>3. h - (h - y) = y
    BY <1>1
  <2>4. QED
    BY <2>1, <2>2, <2>3
<1>8. q >= 2 => f[2] = [w |-> w, h |-> h, at |-> <<w - x, y>>]
  <2>1. q >= 2 => f[2] = Turn(f[1]) /\ q >= 1
    BY <1>2, <1>5
  <2>2. q >= 1 => Turn(f[1]) = [w |-> w, h |-> h, at |-> <<w - x, y>>]
    BY <1>7 DEF Turn
  <2>3. QED
    BY <2>1, <2>2
<1>9. q >= 3 => f[3] = [w |-> h, h |-> w, at |-> <<h - y, w - x>>]
  <2>1. q >= 3 => f[3] = Turn(f[2]) /\ q >= 2
    BY <1>2, <1>5
  <2>2. q >= 2 => Turn(f[2]) = [w |-> h, h |-> w, at |-> <<h - y, w - x>>]
    BY <1>8 DEF Turn
  <2>3. QED
    BY <2>1, <2>2
<1>10. CASE s.rotation = 0
  BY <1>2, <1>4, <1>6, <1>10 DEF Point, w, h, x, y, q
<1>11. CASE s.rotation = 90
  BY <1>2, <1>4, <1>7, <1>11 DEF Point, w, h, x, y, q
<1>12. CASE s.rotation = 180
  BY <1>2, <1>4, <1>8, <1>12 DEF Point, w, h, x, y, q
<1>13. CASE s.rotation = 270
  BY <1>2, <1>4, <1>9, <1>13 DEF Point, w, h, x, y, q
<1>14. QED
  BY <1>2, <1>10, <1>11, <1>12, <1>13

\* A box around points that touches them on all four sides.
Covers(S, b) ==
    /\ S \subseteq Points /\ b \in Boxed
    /\ \A p \in S : b[1] <= p[1] /\ p[1] <= b[3] /\ b[2] <= p[2] /\ p[2] <= b[4]
    /\ (\E p \in S : p[1] = b[1]) /\ (\E p \in S : p[2] = b[2])
    /\ (\E p \in S : p[1] = b[3]) /\ (\E p \in S : p[2] = b[4])

LEMMA MinMaxIs ==
    ASSUME NEW T \in SUBSET Int, NEW x \in T
    PROVE  /\ (\A y \in T : x <= y) => Min(T) = x
           /\ (\A y \in T : y <= x) => Max(T) = x
<1>1. ASSUME \A y \in T : x <= y PROVE Min(T) = x
  <2> DEFINE m == Min(T)
  <2>1. m \in T /\ \A y \in T : m <= y
    BY <1>1 DEF Min
  <2> HIDE DEF m
  <2>2. m = x
    BY <1>1, <2>1
  <2>3. QED
    BY <2>2 DEF m
<1>2. ASSUME \A y \in T : y <= x PROVE Max(T) = x
  <2>1. \A y \in T : x >= y
    BY <1>2
  <2> DEFINE m == Max(T)
  <2>2. m \in T /\ \A y \in T : m >= y
    BY <2>1 DEF Max
  <2> HIDE DEF m
  <2>3. m = x
    BY <1>2, <2>2
  <2>4. QED
    BY <2>3 DEF m
<1>3. QED
  BY <1>1, <1>2

(* The hull of points is the box around them.                              *)
LEMMA HullIs ==
    ASSUME NEW S, NEW b, Covers(S, b)
    PROVE  Hull(S) = b
<1> DEFINE X == {p[1] : p \in S}
           Y == {p[2] : p \in S}
<1>1. /\ \A p \in S : p[1] \in Int /\ p[2] \in Int
      /\ b = <<b[1], b[2], b[3], b[4]>>
      /\ b[1] \in Int /\ b[2] \in Int /\ b[3] \in Int /\ b[4] \in Int
  BY DEF Covers, Points, Boxed
<1>2. X \in SUBSET Int /\ Y \in SUBSET Int
  BY <1>1
<1>3. b[1] \in X /\ b[2] \in Y /\ b[3] \in X /\ b[4] \in Y
  BY DEF Covers
<1>4. (\A x \in X : b[1] <= x /\ x <= b[3]) /\ (\A y \in Y : b[2] <= y /\ y <= b[4])
  BY DEF Covers
<1>5. Hull(S) = <<Min(X), Min(Y), Max(X), Max(Y)>>
  BY DEF Hull
<1> HIDE DEF X, Y
<1>6. Min(X) = b[1] /\ Max(X) = b[3] /\ Min(Y) = b[2] /\ Max(Y) = b[4]
  BY <1>2, <1>3, <1>4, MinMaxIs
<1>7. QED
  BY <1>1, <1>5, <1>6

(* Four points have a box around them.                                     *)
LEMMA FourSpanned ==
    ASSUME NEW o \in Points, NEW p \in Points, NEW q \in Points, NEW r \in Points
    PROVE  \E b : Covers({o, p, q, r}, b)
<1>1. ASSUME NEW w \in Int, NEW x \in Int, NEW y \in Int, NEW z \in Int
      PROVE  /\ \E l \in Int : l <= w /\ l <= x /\ l <= y /\ l <= z /\ (l = w \/ l = x \/ l = y \/ l = z)
             /\ \E l \in Int : w <= l /\ x <= l /\ y <= l /\ z <= l /\ (l = w \/ l = x \/ l = y \/ l = z)
  <2>1. \A s \in Int, t \in Int : \E l \in {s, t} : l <= s /\ l <= t
    OBVIOUS
  <2>2. \A s \in Int, t \in Int : \E l \in {s, t} : s <= l /\ t <= l
    OBVIOUS
  <2>3. PICK s \in {w, x} : s <= w /\ s <= x
    BY <2>1
  <2>4. PICK t \in {y, z} : t <= y /\ t <= z
    BY <2>1
  <2>5. PICK u \in {w, x} : w <= u /\ x <= u
    BY <2>2
  <2>6. PICK v \in {y, z} : y <= v /\ z <= v
    BY <2>2
  <2>7. s \in Int /\ t \in Int /\ u \in Int /\ v \in Int
    OBVIOUS
  <2>8. PICK l \in {s, t} : l <= s /\ l <= t
    BY <2>1, <2>7
  <2>9. PICK k \in {u, v} : u <= k /\ v <= k
    BY <2>2, <2>7
  <2>10. l \in Int /\ l <= w /\ l <= x /\ l <= y /\ l <= z /\ (l = w \/ l = x \/ l = y \/ l = z)
    BY <2>3, <2>4, <2>7, <2>8
  <2>11. k \in Int /\ w <= k /\ x <= k /\ y <= k /\ z <= k /\ (k = w \/ k = x \/ k = y \/ k = z)
    BY <2>5, <2>6, <2>7, <2>9
  <2>12. QED
    BY <2>10, <2>11
<1>2. /\ o[1] \in Int /\ p[1] \in Int /\ q[1] \in Int /\ r[1] \in Int
      /\ o[2] \in Int /\ p[2] \in Int /\ q[2] \in Int /\ r[2] \in Int
  BY DEF Points
<1>3. PICK x0 \in Int : x0 <= o[1] /\ x0 <= p[1] /\ x0 <= q[1] /\ x0 <= r[1]
                        /\ (x0 = o[1] \/ x0 = p[1] \/ x0 = q[1] \/ x0 = r[1])
  BY <1>1, <1>2
<1>4. PICK y0 \in Int : y0 <= o[2] /\ y0 <= p[2] /\ y0 <= q[2] /\ y0 <= r[2]
                        /\ (y0 = o[2] \/ y0 = p[2] \/ y0 = q[2] \/ y0 = r[2])
  BY <1>1, <1>2
<1>5. PICK x1 \in Int : o[1] <= x1 /\ p[1] <= x1 /\ q[1] <= x1 /\ r[1] <= x1
                        /\ (x1 = o[1] \/ x1 = p[1] \/ x1 = q[1] \/ x1 = r[1])
  BY <1>1, <1>2
<1>6. PICK y1 \in Int : o[2] <= y1 /\ p[2] <= y1 /\ q[2] <= y1 /\ r[2] <= y1
                        /\ (y1 = o[2] \/ y1 = p[2] \/ y1 = q[2] \/ y1 = r[2])
  BY <1>1, <1>2
<1> DEFINE b == <<x0, y0, x1, y1>>
<1>7. b \in Boxed /\ b[1] = x0 /\ b[2] = y0 /\ b[3] = x1 /\ b[4] = y1
  BY DEF Boxed
<1> HIDE DEF b
<1>8. Covers({o, p, q, r}, b)
  BY <1>3, <1>4, <1>5, <1>6, <1>7 DEF Covers
<1>9. QED
  BY <1>8

(* The corners of a box are spanned by it.                                 *)
LEMMA CornersSpanned ==
    ASSUME NEW b \in Boxed, b[1] <= b[3], b[2] <= b[4]
    PROVE  Covers(Corners(b), b)
<1>1. b[1] \in Int /\ b[2] \in Int /\ b[3] \in Int /\ b[4] \in Int
  BY DEF Boxed
<1>2. Corners(b) \subseteq Points
  BY <1>1 DEF Corners, Points
<1>3. QED
  BY <1>1, <1>2 DEF Covers, Corners

\* Where a box lies on a turned page.
TurnedBox(s, b) ==
    CASE s.rotation = 90  -> <<b[2], b[1], b[4], b[3]>>
      [] s.rotation = 180 -> <<s.w - b[3], b[2], s.w - b[1], b[4]>>
      [] s.rotation = 270 -> <<s.h - b[4], s.w - b[3], s.h - b[2], s.w - b[1]>>
      [] OTHER            -> <<b[1], s.h - b[4], b[3], s.h - b[2]>>

(* Turning a page keeps boxes boxes, and their corners corners.            *)
LEMMA SpansTurned ==
    ASSUME NEW s \in Turns, NEW S, NEW b, Covers(S, b)
    PROVE  Covers({Point(s, p) : p \in S}, TurnedBox(s, b))
<1> DEFINE w == s.w
           h == s.h
           R == {Point(s, p) : p \in S}
           t == TurnedBox(s, b)
<1>1. /\ w \in Int /\ h \in Int /\ s.rotation \in {0, 90, 180, 270}
      /\ \A p \in S : p[1] \in Int /\ p[2] \in Int
      /\ b[1] \in Int /\ b[2] \in Int /\ b[3] \in Int /\ b[4] \in Int
  BY DEF Turns, Covers, Points, Boxed
<1>2. PICK l \in S : l[1] = b[1]
  BY DEF Covers
<1>3. PICK d \in S : d[2] = b[2]
  BY DEF Covers
<1>4. PICK r \in S : r[1] = b[3]
  BY DEF Covers
<1>5. PICK u \in S : u[2] = b[4]
  BY DEF Covers
<1>6. \A p \in S : b[1] <= p[1] /\ p[1] <= b[3] /\ b[2] <= p[2] /\ p[2] <= b[4]
  BY DEF Covers
<1>7. ASSUME NEW i \in R, \A p \in S : i # Point(s, p) PROVE FALSE
  BY <1>7
<1>8. CASE s.rotation = 0
  <2>1. (\A p \in S : Point(s, p) = <<p[1], h - p[2]>>) /\ t = <<b[1], h - b[4], b[3], h - b[2]>>
    BY <1>8 DEF Point, TurnedBox
  <2> HIDE DEF w, h, t
  <2>2. R = {<<p[1], h - p[2]>> : p \in S}
    BY <2>1
  <2> HIDE DEF R
  <2>3. R \subseteq Points /\ t \in Boxed
    BY <1>1, <2>1, <2>2 DEF Points, Boxed
  <2>4. \A p \in R : t[1] <= p[1] /\ p[1] <= t[3] /\ t[2] <= p[2] /\ p[2] <= t[4]
    BY <1>1, <1>6, <2>1, <2>2
  <2>5. (\E p \in R : p[1] = t[1]) /\ (\E p \in R : p[2] = t[2])
        /\ (\E p \in R : p[1] = t[3]) /\ (\E p \in R : p[2] = t[4])
    BY <1>2, <1>3, <1>4, <1>5, <2>1, <2>2
  <2>6. QED
    BY <2>3, <2>4, <2>5 DEF Covers, R, t
<1>9. CASE s.rotation = 90
  <2>1. (\A p \in S : Point(s, p) = <<p[2], p[1]>>) /\ t = <<b[2], b[1], b[4], b[3]>>
    BY <1>9 DEF Point, TurnedBox
  <2> HIDE DEF w, h, t
  <2>2. R = {<<p[2], p[1]>> : p \in S}
    BY <2>1
  <2> HIDE DEF R
  <2>3. R \subseteq Points /\ t \in Boxed
    BY <1>1, <2>1, <2>2 DEF Points, Boxed
  <2>4. \A p \in R : t[1] <= p[1] /\ p[1] <= t[3] /\ t[2] <= p[2] /\ p[2] <= t[4]
    BY <1>1, <1>6, <2>1, <2>2
  <2>5. (\E p \in R : p[1] = t[1]) /\ (\E p \in R : p[2] = t[2])
        /\ (\E p \in R : p[1] = t[3]) /\ (\E p \in R : p[2] = t[4])
    BY <1>2, <1>3, <1>4, <1>5, <2>1, <2>2
  <2>6. QED
    BY <2>3, <2>4, <2>5 DEF Covers, R, t
<1>10. CASE s.rotation = 180
  <2>1. (\A p \in S : Point(s, p) = <<w - p[1], p[2]>>) /\ t = <<w - b[3], b[2], w - b[1], b[4]>>
    BY <1>10 DEF Point, TurnedBox
  <2> HIDE DEF w, h, t
  <2>2. R = {<<w - p[1], p[2]>> : p \in S}
    BY <2>1
  <2> HIDE DEF R
  <2>3. R \subseteq Points /\ t \in Boxed
    BY <1>1, <2>1, <2>2 DEF Points, Boxed
  <2>4. \A p \in R : t[1] <= p[1] /\ p[1] <= t[3] /\ t[2] <= p[2] /\ p[2] <= t[4]
    BY <1>1, <1>6, <2>1, <2>2
  <2>5. (\E p \in R : p[1] = t[1]) /\ (\E p \in R : p[2] = t[2])
        /\ (\E p \in R : p[1] = t[3]) /\ (\E p \in R : p[2] = t[4])
    BY <1>2, <1>3, <1>4, <1>5, <2>1, <2>2
  <2>6. QED
    BY <2>3, <2>4, <2>5 DEF Covers, R, t
<1>11. CASE s.rotation = 270
  <2>1. (\A p \in S : Point(s, p) = <<h - p[2], w - p[1]>>) /\ t = <<h - b[4], w - b[3], h - b[2], w - b[1]>>
    BY <1>11 DEF Point, TurnedBox
  <2> HIDE DEF w, h, t
  <2>2. R = {<<h - p[2], w - p[1]>> : p \in S}
    BY <2>1
  <2> HIDE DEF R
  <2>3. R \subseteq Points /\ t \in Boxed
    BY <1>1, <2>1, <2>2 DEF Points, Boxed
  <2>4. \A p \in R : t[1] <= p[1] /\ p[1] <= t[3] /\ t[2] <= p[2] /\ p[2] <= t[4]
    BY <1>1, <1>6, <2>1, <2>2
  <2>5. (\E p \in R : p[1] = t[1]) /\ (\E p \in R : p[2] = t[2])
        /\ (\E p \in R : p[1] = t[3]) /\ (\E p \in R : p[2] = t[4])
    BY <1>2, <1>3, <1>4, <1>5, <2>1, <2>2
  <2>6. QED
    BY <2>3, <2>4, <2>5 DEF Covers, R, t
<1>12. QED
  BY <1>1, <1>8, <1>9, <1>10, <1>11

LEMMA CornersTurned ==
    ASSUME NEW s \in Turns, NEW b \in Boxed
    PROVE  {Point(s, p) : p \in Corners(b)} = Corners(TurnedBox(s, b))
<1>1. {Point(s, p) : p \in Corners(b)} =
         {Point(s, <<b[1], b[2]>>), Point(s, <<b[3], b[2]>>), Point(s, <<b[3], b[4]>>), Point(s, <<b[1], b[4]>>)}
  BY DEF Corners
<1>2. s.rotation \in {0, 90, 180, 270}
  BY DEF Turns
<1>3. CASE s.rotation = 0
  BY <1>1, <1>3 DEF Corners, Point, TurnedBox
<1>4. CASE s.rotation = 90
  BY <1>1, <1>4 DEF Corners, Point, TurnedBox
<1>5. CASE s.rotation = 180
  BY <1>1, <1>5 DEF Corners, Point, TurnedBox
<1>6. CASE s.rotation = 270
  BY <1>1, <1>6 DEF Corners, Point, TurnedBox
<1>7. QED
  BY <1>2, <1>3, <1>4, <1>5, <1>6

(* The box of a box on the page is the box of what is in it.               *)
LEMMA HullTurned ==
    ASSUME NEW s \in Turns, NEW S, NEW b, Covers(S, b)
    PROVE  /\ Hull({Point(s, p) : p \in S}) = TurnedBox(s, b)
           /\ PageBox(s, Hull(S)) = TurnedBox(s, b)
<1>1. Hull({Point(s, p) : p \in S}) = TurnedBox(s, b)
  BY SpansTurned, HullIs
<1>2. b \in Boxed /\ b[1] <= b[3] /\ b[2] <= b[4]
  <2>1. b \in Boxed /\ b[1] \in Int /\ b[2] \in Int /\ b[3] \in Int /\ b[4] \in Int
    BY DEF Covers, Boxed
  <2>2. PICK p \in S : p[1] \in Int /\ p[2] \in Int
    BY DEF Covers, Points
  <2>3. b[1] <= p[1] /\ p[1] <= b[3] /\ b[2] <= p[2] /\ p[2] <= b[4]
    BY DEF Covers
  <2>4. QED
    BY <2>1, <2>2, <2>3
<1>3. Hull({Point(s, p) : p \in Corners(b)}) = TurnedBox(s, b)
  BY <1>2, CornersSpanned, SpansTurned, HullIs
<1>4. Hull(S) = b
  BY HullIs
<1>5. QED
  BY <1>1, <1>3, <1>4 DEF PageBox

\* Where points of an object are seen on a page, and where the product of the
\* matrices around it takes one.
SeenAt(s, c, points) == {Turned(s.w, s.h, Through(c, p), s.rotation \div 90) : p \in points}
Taken(fs, p) == IF fs = <<>> THEN p ELSE TransformPoint(Last(fs), p)

LEMMA TakenIs ==
    ASSUME NEW c, NEW fs, Composite(c, fs), NEW p \in Points
    PROVE  Taken(fs, p) \in Points /\ Through(c, p) = Taken(fs, p) /\ (c = <<>> <=> fs = <<>>)
<1>1. /\ Listed(fs) /\ Listed(c) /\ Len(fs) = Len(c)
      /\ \A k \in 1 .. Len(c) : fs[k] \in Matrix
  BY DEF Composite
<1>2. c = <<>> <=> fs = <<>>
  BY <1>1, EmptySeq, EmptyIs DEF Listed
<1>3. fs # <<>> => Last(fs) \in Matrix
  <2>1. fs # <<>> => Len(fs) \in Nat /\ Len(fs) # 0
    BY <1>1, FrontIs
  <2>2. fs # <<>> => Len(fs) \in 1 .. Len(c)
    BY <1>1, <2>1
  <2>3. QED
    BY <1>1, <2>2 DEF Last
<1>4. fs # <<>> => TransformPoint(Last(fs), p) \in Points
  BY <1>3, Product
<1>5. Through(c, p) = IF c = <<>> THEN p ELSE TransformPoint(Last(fs), p)
  BY ThroughIs
<1>6. QED
  BY <1>2, <1>4, <1>5 DEF Taken

LEMMA SeenIs ==
    ASSUME NEW s \in Turns, NEW c, NEW fs, Composite(c, fs), NEW S \in SUBSET Points
    PROVE  SeenAt(s, c, S) = {Point(s, Taken(fs, p)) : p \in S}
<1> DEFINE seen(p) == Turned(s.w, s.h, Through(c, p), s.rotation \div 90)
           at(p) == Point(s, Taken(fs, p))
<1>1. ASSUME NEW p \in S PROVE seen(p) = at(p)
  <2>1. Taken(fs, p) \in Points /\ Through(c, p) = Taken(fs, p)
    BY TakenIs
  <2>2. QED
    BY <2>1, TurnedIs
<1>2. SeenAt(s, c, S) = {seen(p) : p \in S}
  BY DEF SeenAt
<1> HIDE DEF seen, at
<1>3. {seen(p) : p \in S} = {at(p) : p \in S}
  BY <1>1
<1>4. QED
  BY <1>2, <1>3 DEF at

(* The box of four points, taken through the matrices and turned.          *)
LEMMA FourSeen ==
    ASSUME NEW s \in Turns, NEW c, NEW fs, Composite(c, fs),
           NEW o \in Points, NEW p \in Points, NEW q \in Points, NEW r \in Points
    PROVE  LET S == {o, p, q, r}
           IN  PageBox(s, Hull({Taken(fs, x) : x \in S})) = Hull(SeenAt(s, c, S))
<1> DEFINE S == {o, p, q, r}
           T == {Taken(fs, x) : x \in S}
<1>1. Taken(fs, o) \in Points /\ Taken(fs, p) \in Points /\ Taken(fs, q) \in Points /\ Taken(fs, r) \in Points
  BY TakenIs
<1>2. T = {Taken(fs, o), Taken(fs, p), Taken(fs, q), Taken(fs, r)}
  OBVIOUS
<1>3. PICK b : Covers(T, b)
  <2>1. \E b : Covers({Taken(fs, o), Taken(fs, p), Taken(fs, q), Taken(fs, r)}, b)
    <3> DEFINE u == Taken(fs, o)
               v == Taken(fs, p)
               w == Taken(fs, q)
               x == Taken(fs, r)
    <3>1. u \in Points /\ v \in Points /\ w \in Points /\ x \in Points
      BY <1>1
    <3> HIDE DEF u, v, w, x
    <3>2. \E b : Covers({u, v, w, x}, b)
      BY <3>1, FourSpanned
    <3>3. QED
      BY <3>2 DEF u, v, w, x
  <2>2. QED
    BY <1>2, <2>1
<1>4. PageBox(s, Hull(T)) = Hull({Point(s, x) : x \in T})
  BY <1>3, HullTurned
<1>5. {Point(s, x) : x \in T} = {Point(s, Taken(fs, x)) : x \in S}
  OBVIOUS
<1>6. S \in SUBSET Points
  OBVIOUS
<1>7. SeenAt(s, c, S) = {Point(s, Taken(fs, x)) : x \in S}
  BY <1>6, SeenIs
<1>8. QED
  BY <1>4, <1>5, <1>7

LEMMA CornersAre ==
    ASSUME NEW b \in Boxed
    PROVE  /\ <<b[1], b[2]>> \in Points /\ <<b[3], b[2]>> \in Points
           /\ <<b[3], b[4]>> \in Points /\ <<b[1], b[4]>> \in Points
           /\ Corners(b) = {<<b[1], b[2]>>, <<b[3], b[2]>>, <<b[3], b[4]>>, <<b[1], b[4]>>}
           /\ Corners(b) \in SUBSET Points
BY DEF Boxed, Points, Corners

(* A path lies where it is seen.                                           *)
LEMMA PathPlaced ==
    ASSUME NEW s \in Turns, NEW c, NEW fs, Composite(c, fs), NEW b \in Boxed
    PROVE  ObjectBox(b, IF fs = <<>> THEN <<>> ELSE <<Last(fs)>>, s) = Hull(SeenAt(s, c, Corners(b)))
<1>1. CASE fs = <<>>
  <2>0. Corners(b) \in SUBSET Points
    BY CornersAre
  <2>1. SeenAt(s, c, Corners(b)) = {Point(s, Taken(fs, p)) : p \in Corners(b)}
    BY <2>0, SeenIs
  <2>2. SeenAt(s, c, Corners(b)) = {Point(s, p) : p \in Corners(b)}
    BY <1>1, <2>1 DEF Taken
  <2>3. QED
    BY <1>1, <2>2 DEF ObjectBox, PageBox
<1>2. CASE fs # <<>>
  <2> DEFINE S == {<<b[1], b[2]>>, <<b[3], b[2]>>, <<b[3], b[4]>>, <<b[1], b[4]>>}
             v == <<Last(fs)>>
  <2>1. PageBox(s, Hull({Taken(fs, x) : x \in S})) = Hull(SeenAt(s, c, S))
    <3> DEFINE t == <<b[1], b[2]>>
               u == <<b[3], b[2]>>
               w == <<b[3], b[4]>>
               z == <<b[1], b[4]>>
    <3>1. t \in Points /\ u \in Points /\ w \in Points /\ z \in Points
      BY CornersAre
    <3> HIDE DEF t, u, w, z
    <3>2. PageBox(s, Hull({Taken(fs, x) : x \in {t, u, w, z}})) = Hull(SeenAt(s, c, {t, u, w, z}))
      BY <3>1, FourSeen
    <3>3. QED
      BY <3>2 DEF t, u, w, z
  <2>2. v # <<>> /\ v[1] = Last(fs)
    OBVIOUS
  <2>3. ObjectBox(b, v, s) = PageBox(s, Hull({TransformPoint(v[1], p) : p \in Corners(b)}))
    BY <2>2 DEF ObjectBox
  <2>4. {TransformPoint(v[1], p) : p \in Corners(b)} = {Taken(fs, x) : x \in S}
    BY <1>2, <2>2, CornersAre DEF Taken
  <2>5. QED
    BY <1>2, <2>1, <2>3, <2>4, CornersAre
<1>3. QED
  BY <1>1, <1>2

(* An image lies where the corners of its unit square are seen.            *)
LEMMA ImagePlaced ==
    ASSUME NEW s \in Turns, NEW c, NEW fs, Composite(c, fs), NEW m \in Matrix
    PROVE  LET whole == IF fs = <<>> THEN m ELSE Multiply(m, Last(fs))
               corners == SeenAt(s, Append(c, m), UnitSquare)
           IN  /\ UnitBox(whole, s) = Hull(corners)
               /\ Quad(<<whole>>, Hull(corners), s) = corners
<1> DEFINE whole == IF fs = <<>> THEN m ELSE Multiply(m, Last(fs))
           gs == Append(fs, whole)
           corners == SeenAt(s, Append(c, m), UnitSquare)
<1>1. Composite(Append(c, m), gs) /\ Last(gs) = whole /\ Append(c, m) # <<>>
  BY CompositeStep
<1>2. <<0, 0>> \in Points /\ <<1, 0>> \in Points /\ <<1, 1>> \in Points /\ <<0, 1>> \in Points
  BY DEF Points
<1>3. gs # <<>> /\ Listed(gs) /\ Len(gs) = Len(Append(c, m))
  BY <1>1, <1>2, TakenIs DEF Composite
<1>4. whole \in Matrix
  <2>1. Len(gs) \in Nat /\ Len(gs) # 0
    BY <1>3, FrontIs
  <2>2. gs[Len(gs)] \in Matrix
    BY <1>1, <1>3, <2>1 DEF Composite
  <2>3. QED
    BY <1>1, <2>2 DEF Last
<1> HIDE DEF whole, gs
<1>5. \A p : Taken(gs, p) = TransformPoint(whole, p)
  BY <1>1, <1>3 DEF Taken
<1> DEFINE S == {<<0, 0>>, <<1, 0>>, <<1, 1>>, <<0, 1>>}
           T == {TransformPoint(whole, p) : p \in S}
<1>6. UnitSquare = S /\ S \in SUBSET Points
  BY <1>2 DEF UnitSquare
<1>7. corners = {Point(s, TransformPoint(whole, p)) : p \in S}
  <2>1. corners = {Point(s, Taken(gs, p)) : p \in S}
    BY <1>1, <1>6, SeenIs
  <2>2. QED
    BY <1>5, <2>1
<1>8. UnitBox(whole, s) = Hull(corners)
  <2>1. PageBox(s, Hull({Taken(gs, x) : x \in S})) = Hull(SeenAt(s, Append(c, m), S))
    <3> DEFINE t == <<0, 0>>
               u == <<1, 0>>
               w == <<1, 1>>
               z == <<0, 1>>
    <3>1. t \in Points /\ u \in Points /\ w \in Points /\ z \in Points
      BY <1>2
    <3> HIDE DEF t, u, w, z
    <3>2. PageBox(s, Hull({Taken(gs, x) : x \in {t, u, w, z}})) = Hull(SeenAt(s, Append(c, m), {t, u, w, z}))
      BY <1>1, <3>1, FourSeen
    <3>3. QED
      BY <3>2 DEF t, u, w, z
  <2>2. {Taken(gs, x) : x \in S} = {TransformPoint(whole, p) : p \in S}
    BY <1>5
  <2>3. QED
    BY <1>6, <2>1, <2>2 DEF UnitBox
<1>9. Quad(<<whole>>, Hull(corners), s) = corners
  <2>1. <<whole>> # <<>> /\ <<whole>>[1] = whole
    OBVIOUS
  <2>2. CASE ~ Upright(whole)
    <3>1. Quad(<<whole>>, Hull(corners), s) = {Point(s, TransformPoint(<<whole>>[1], p)) : p \in UnitSquare}
      BY <2>1, <2>2 DEF Quad
    <3>2. QED
      BY <1>6, <1>7, <2>1, <3>1
  <2>3. CASE Upright(whole)
    <3> DEFINE x0 == whole.e
               y0 == whole.f
               x1 == whole.a + whole.e
               y1 == whole.d + whole.f
               b == <<x0, y0, x1, y1>>
    <3>1. /\ whole.a \in Int /\ whole.d \in Int /\ whole.e \in Int /\ whole.f \in Int
          /\ whole.b = 0 /\ whole.c = 0 /\ whole.a > 0 /\ whole.d > 0
      BY <1>4, <2>3 DEF Upright, Matrix
    <3>2. b \in Boxed /\ b[1] <= b[3] /\ b[2] <= b[4]
      BY <3>1 DEF Boxed
    <3>3. /\ TransformPoint(whole, <<0, 0>>) = <<x0, y0>> /\ TransformPoint(whole, <<1, 0>>) = <<x1, y0>>
          /\ TransformPoint(whole, <<1, 1>>) = <<x1, y1>> /\ TransformPoint(whole, <<0, 1>>) = <<x0, y1>>
      BY <3>1 DEF TransformPoint
    <3>4. T = {TransformPoint(whole, <<0, 0>>), TransformPoint(whole, <<1, 0>>),
               TransformPoint(whole, <<1, 1>>), TransformPoint(whole, <<0, 1>>)}
      OBVIOUS
    <3>5. T = Corners(b)
      BY <3>3, <3>4 DEF Corners
    <3>6. Covers(Corners(b), b)
      BY <3>2, CornersSpanned
    <3>7. corners = {Point(s, p) : p \in T}
      BY <1>7
    <3>8. corners = Corners(TurnedBox(s, b))
      BY <3>2, <3>5, <3>7, CornersTurned
    <3>9. Hull(corners) = TurnedBox(s, b)
      BY <3>5, <3>6, <3>7, HullTurned
    <3>10. Quad(<<whole>>, Hull(corners), s) = Corners(Hull(corners))
      BY <2>1, <2>3 DEF Quad
    <3>11. QED
      BY <3>8, <3>9, <3>10
  <2>4. QED
    BY <2>2, <2>3
<1>10. QED
  BY <1>8, <1>9 DEF whole

\* What PlacedExactly and TextGrouped say of an object and its element.
Right(s, o, e) ==
    /\ e.is \in {"path", "annotation"} /\ o.box # <<>> =>
          e.box = Hull(SeenAt(s, o.chain, Corners(o.box)))
    /\ e.is = "image" /\ o.m = <<>> /\ o.bounds # <<>> =>
          e.box = Hull(SeenAt(s, o.chain, Corners(o.bounds)))
    /\ e.is = "image" /\ o.m # <<>> /\ (o.chain # <<>> \/ o.bounds # <<>>) =>
          LET corners == SeenAt(s, [o EXCEPT !.chain = Append(@, o.m[1])].chain, UnitSquare)
          IN  e.box = Hull(corners) /\ e.quad = corners
    /\ e.is = "text" => Grouped(o.glyphs, e.lines)

AllRight(s, m, el) == \A k \in 1 .. Len(el) : Right(s, m[el[k].at], el[k])

\* What the steps on a page keep: the forms the code composes are the products
\* of the matrices met, and every object met so far is accounted for.
PageInv ==
    /\ PageListed
    /\ phase \notin InPage => met = <<>> /\ elements = <<>> /\ chain = <<>> /\ forms = <<>>
    /\ phase = "notes" => chain = <<>>
    /\ Composite(chain, forms) /\ Len(chain) <= MaxFormDepth
    /\ \E r \in {0, 90, 180, 270} : space = Space(r, Width, Height)
    /\ Exact(met, elements, noted)
    /\ AllRight(space, met, elements)

(* A step without an object, and one with it.                              *)
LEMMA NothingMet ==
    ASSUME PageInv, UNCHANGED <<met, elements, noted, space>>, Listed(glyphs'),
           phase' \in InPage, Composite(chain', forms'), Len(chain') <= MaxFormDepth,
           phase' = "notes" => chain' = <<>>
    PROVE  PageInv'
<1>1. Listed(chain') /\ Listed(forms')
  BY DEF Composite
<1>2. PageListed'
  BY <1>1 DEF PageInv, PageListed
<1>3. (\E r \in {0, 90, 180, 270} : space = Space(r, Width, Height))'
  BY DEF PageInv
<1>4. Exact(met', elements', noted')
  BY DEF PageInv
<1>5. AllRight(space', met', elements')
  BY DEF PageInv
<1>6. QED
  BY <1>2, <1>3, <1>4, <1>5 DEF PageInv

LEMMA MetAndMissed ==
    ASSUME PageInv, NEW o, Missed(o), noted \subseteq noted', Wanting(o) => Len(met) + 1 \in noted',
           space' = space, Listed(glyphs'), phase' \in InPage,
           Composite(chain', forms'), Len(chain') <= MaxFormDepth,
           phase' = "notes" => chain' = <<>>
    PROVE  PageInv'
<1>1. Listed(chain') /\ Listed(forms')
  BY DEF Composite
<1>2. Exact(met', elements', noted')
  BY ObjectMissed DEF PageInv
<1>3. PageListed'
  BY <1>1, <1>2 DEF PageListed, Exact
<1>4. (\E r \in {0, 90, 180, 270} : space = Space(r, Width, Height))'
  BY DEF PageInv
<1>5. AllRight(space', met', elements')
  <2>1. elements' = elements /\ met' = Append(met, o) /\ Listed(met)
    BY DEF Missed, PageInv, PageListed
  <2>2. \A i \in 1 .. Len(met) : met'[i] = met[i]
    BY <2>1, AppendIs
  <2>3. \A k \in 1 .. Len(elements) : elements[k].at \in 1 .. Len(met)
    BY DEF PageInv, Exact
  <2>4. \A k \in 1 .. Len(elements) : Right(space, met[elements[k].at], elements[k])
    BY DEF PageInv, AllRight
  <2>5. \A k \in 1 .. Len(elements) : Right(space, met'[elements[k].at], elements[k])
    BY <2>2, <2>3, <2>4
  <2>6. QED
    BY <2>1, <2>5 DEF AllRight
<1>6. QED
  BY <1>2, <1>3, <1>4, <1>5 DEF PageInv

LEMMA MetAndPlaced ==
    ASSUME PageInv, NEW o, NEW e, Placed(o, e), noted \subseteq noted', ~ Wanting(o),
           o.chain = chain, Right(space, o, e),
           space' = space, Listed(glyphs'), phase' \in InPage, UNCHANGED <<chain, forms>>,
           phase' = "notes" => chain' = <<>>
    PROVE  PageInv'
<1>1. Composite(chain', forms') /\ Len(chain') <= MaxFormDepth /\ Listed(chain') /\ Listed(forms')
  BY DEF PageInv, Composite
<1>2. Exact(met, elements, noted) /\ Len(o.chain) <= MaxFormDepth
  BY DEF PageInv
<1>3. /\ Exact(met', elements', noted')
      /\ Len(met) \in Nat /\ met'[Len(met) + 1] = o
      /\ Len(elements) \in Nat /\ Len(elements') = Len(elements) + 1
      /\ elements'[Len(elements) + 1] = e /\ e.at = Len(met) + 1
      /\ \A k \in 1 .. Len(elements) : elements'[k] = elements[k]
      /\ \A i \in 1 .. Len(met) : met'[i] = met[i]
  BY <1>2, ObjectPlaced
<1>4. PageListed'
  BY <1>1, <1>3 DEF PageListed, Exact
<1>5. (\E r \in {0, 90, 180, 270} : space = Space(r, Width, Height))'
  BY DEF PageInv
<1>6. AllRight(space', met', elements')
  <2>1. \A k \in 1 .. Len(elements) : elements[k].at \in 1 .. Len(met)
    BY DEF PageInv, Exact
  <2>2. \A k \in 1 .. Len(elements) : Right(space, met[elements[k].at], elements[k])
    BY DEF PageInv, AllRight
  <2>3. \A k \in 1 .. Len(elements) : Right(space, met'[elements'[k].at], elements'[k])
    BY <1>3, <2>1, <2>2
  <2>4. Right(space, met'[elements'[Len(elements) + 1].at], elements'[Len(elements) + 1])
    BY <1>3
  <2>5. \A k \in 1 .. Len(elements') : k \in 1 .. Len(elements) \/ k = Len(elements) + 1
    BY <1>3
  <2>6. QED
    BY <2>3, <2>4, <2>5 DEF AllRight
<1>7. QED
  BY <1>1, <1>3, <1>4, <1>5, <1>6 DEF PageInv

(* What the page is when an object is met.                                 *)
LEMMA PageIs ==
    ASSUME AnswersTyped, PageInv
    PROVE  /\ space \in Turns
           /\ Composite(chain, forms) /\ Len(chain) \in Nat /\ Len(met) \in Nat
           /\ Len(forms) = Len(chain) /\ (chain = <<>> <=> forms = <<>>)
           /\ \A o : met' = Append(met, o) => Len(met') = Len(met) + 1
<1>1. PICK r \in {0, 90, 180, 270} : space = Space(r, Width, Height)
  BY DEF PageInv
<1>2. space \in Turns
  BY <1>1 DEF AnswersTyped, Space, Turns
<1>3. Composite(chain, forms) /\ Listed(chain) /\ Listed(forms) /\ Len(forms) = Len(chain) /\ Listed(met)
  BY DEF PageInv, Composite, PageListed
<1>4. Len(chain) \in Nat
  BY <1>3, AppendIs
<1>5. chain = <<>> <=> forms = <<>>
  BY <1>3, EmptyIs, FrontIs
<1>6. Len(met) \in Nat /\ \A o : Len(Append(met, o)) = Len(met) + 1
  BY <1>3, AppendIs
<1>7. QED
  BY <1>2, <1>3, <1>4, <1>5, <1>6

(* An object that is lost, with its warning.                               *)
LEMMA LostKept ==
    ASSUME AnswersTyped, PageInv, Meets([is |-> "lost"]), Warns(Len(met')), UNCHANGED <<space, forms, elements, chain>>,
           Listed(glyphs'), phase' \in InPage, phase' = "notes" => chain' = <<>>
    PROVE  PageInv'
<1> DEFINE r == [is |-> "lost"]
           o == With(r, [chain |-> chain])
<1>1. DOMAIN r = {"is"} /\ r.is = "lost"
  OBVIOUS
<1>2. o.is = "lost"
  BY <1>1, MetIs
<1>3. met' = Append(met, o) /\ noted' = noted \cup {Len(met')}
  BY DEF Meets, Warns
<1> HIDE DEF o
<1>4. Missed(o)
  BY <1>2, <1>3 DEF Missed, Shown
<1>5. Len(met) + 1 \in noted' /\ noted \subseteq noted'
  BY <1>3, PageIs
<1>6. Composite(chain', forms') /\ Len(chain') <= MaxFormDepth
  BY DEF PageInv
<1>7. QED
  BY <1>4, <1>5, <1>6, MetAndMissed

LEMMA PathKept ==
    ASSUME AnswersTyped, PageInv, NEW box \in Boxes \cup {<<>>}, Path(box)
    PROVE  PageInv'
<1> DEFINE r == [is |-> "path", box |-> box]
           o == With(r, [chain |-> chain])
           b == IF box = <<>> THEN <<0, 0, 0, 0>> ELSE ObjectBox(box, Via, space)
           t == [is |-> "path", box |-> b]
           e == With(t, [id |-> Len(elements), at |-> Len(met')])
<1>1. DOMAIN r = {"is", "box"} /\ r["is"] = "path" /\ r["box"] = box
  OBVIOUS
<1>2. o.is = "path" /\ o.box = box /\ o.chain = chain
  <2>1. "is" \in DOMAIN r /\ "box" \in DOMAIN r /\ "chain" \notin DOMAIN r
    BY <1>1
  <2> HIDE DEF r
  <2>2. QED
    BY <1>1, <2>1, MetIs
<1>3. DOMAIN t = {"is", "box"} /\ t["is"] = "path" /\ t["box"] = b
  OBVIOUS
<1>4. e.is = "path" /\ e.box = b /\ e.id = Len(elements) /\ e.at = Len(met')
  <2>1. "is" \in DOMAIN t /\ "box" \in DOMAIN t /\ "id" \notin DOMAIN t /\ "at" \notin DOMAIN t
    BY <1>3
  <2> HIDE DEF t
  <2>2. QED
    BY <1>3, <2>1, ElementIs
<1>5. /\ met' = Append(met, o) /\ elements' = Append(elements, e) /\ noted \subseteq noted'
      /\ phase = "page" /\ UNCHANGED <<phase, space, chain, forms, glyphs>>
  BY DEF Path, Meets, Emits, Warns
<1> HIDE DEF o, e
<1>6. Placed(o, e) /\ ~ Wanting(o)
  BY <1>2, <1>4, <1>5 DEF Placed, Shown, Wanting
<1>7. box # <<>> => b = Hull(SeenAt(space, chain, Corners(box)))
  <2> SUFFICES ASSUME box # <<>> PROVE b = Hull(SeenAt(space, chain, Corners(box)))
    OBVIOUS
  <2>1. box \in Boxed /\ space \in Turns
    BY PageIs DEF AnswersTyped, Boxed
  <2>2. ObjectBox(box, IF forms = <<>> THEN <<>> ELSE <<Last(forms)>>, space) = Hull(SeenAt(space, chain, Corners(box)))
    BY <2>1, PageIs, PathPlaced
  <2>3. QED
    BY <2>2 DEF Via
<1> HIDE DEF b
<1>8. Right(space, o, e)
  BY <1>2, <1>4, <1>7 DEF Right
<1>9. Listed(glyphs') /\ phase' \in InPage /\ phase' # "notes"
  BY <1>5 DEF PageInv, PageListed, InPage
<1>10. QED
  BY <1>2, <1>5, <1>6, <1>8, <1>9, MetAndPlaced

LEMMA AnnotationKept ==
    ASSUME AnswersTyped, PageInv, NEW box \in Boxes \cup {<<>>}, Annotation(box)
    PROVE  PageInv'
<1> DEFINE r == [is |-> IF box = <<>> THEN "lost" ELSE "annotation", box |-> box]
           o == With(r, [chain |-> chain])
           t == [is |-> "annotation", box |-> PageBox(space, box)]
           e == With(t, [id |-> Len(elements), at |-> Len(met')])
<1>1. DOMAIN r = {"is", "box"} /\ r["is"] = (IF box = <<>> THEN "lost" ELSE "annotation") /\ r["box"] = box
  OBVIOUS
<1>2. o.is = (IF box = <<>> THEN "lost" ELSE "annotation") /\ o.box = box /\ o.chain = chain
  <2>1. "is" \in DOMAIN r /\ "box" \in DOMAIN r /\ "chain" \notin DOMAIN r
    BY <1>1
  <2> HIDE DEF r
  <2>2. QED
    BY <1>1, <2>1, MetIs
<1>3. DOMAIN t = {"is", "box"} /\ t["is"] = "annotation" /\ t["box"] = PageBox(space, box)
  OBVIOUS
<1>4. e.is = "annotation" /\ e.box = PageBox(space, box) /\ e.id = Len(elements) /\ e.at = Len(met')
  <2>1. "is" \in DOMAIN t /\ "box" \in DOMAIN t /\ "id" \notin DOMAIN t /\ "at" \notin DOMAIN t
    BY <1>3
  <2> HIDE DEF t
  <2>2. QED
    BY <1>3, <2>1, ElementIs
<1>5. /\ met' = Append(met, o)
      /\ box = <<>> => noted' = noted \cup {Len(met')} /\ elements' = elements
      /\ box # <<>> => elements' = Append(elements, e) /\ noted' = noted
      /\ phase = "notes" /\ UNCHANGED <<phase, space, chain, forms, glyphs>>
  BY DEF Annotation, Meets, Emits, Warns
<1>6. chain = <<>> /\ forms = <<>>
  BY <1>5, PageIs DEF PageInv
<1> HIDE DEF o, e
<1>7. Listed(glyphs') /\ phase' \in InPage /\ chain' = <<>>
  BY <1>5, <1>6 DEF PageInv, PageListed, InPage
<1>8. CASE box = <<>>
  <2>1. Missed(o)
    BY <1>2, <1>5, <1>8 DEF Missed, Shown
  <2>2. Len(met) + 1 \in noted' /\ noted \subseteq noted'
    BY <1>5, <1>8, PageIs
  <2>3. Composite(chain', forms') /\ Len(chain') <= MaxFormDepth
    BY <1>5 DEF PageInv
  <2>4. QED
    BY <1>5, <1>7, <2>1, <2>2, <2>3, MetAndMissed
<1>9. CASE box # <<>>
  <2>1. Placed(o, e) /\ ~ Wanting(o)
    BY <1>2, <1>4, <1>5, <1>9 DEF Placed, Shown, Wanting
  <2>2. box \in Boxed /\ space \in Turns
    BY <1>9, PageIs DEF AnswersTyped, Boxed
  <2>3. ObjectBox(box, IF forms = <<>> THEN <<>> ELSE <<Last(forms)>>, space) = Hull(SeenAt(space, chain, Corners(box)))
    BY <2>2, PageIs, PathPlaced
  <2>4. PageBox(space, box) = Hull(SeenAt(space, chain, Corners(box)))
    BY <1>6, <2>3 DEF ObjectBox
  <2>5. Right(space, o, e)
    BY <1>2, <1>4, <1>9, <2>4 DEF Right
  <2>6. QED
    BY <1>2, <1>5, <1>7, <1>9, <2>1, <2>5, MetAndPlaced
<1>10. QED
  BY <1>8, <1>9

LEMMA ImageKept ==
    ASSUME AnswersTyped, PageInv, NEW m \in Matrices \cup {<<>>}, 
           NEW bounds \in ImageBounds(m) \cup {<<>>}, Image(m, bounds)
    PROVE  PageInv'
<1> DEFINE r == [is |-> "image", m |-> m, bounds |-> bounds]
           o == With(r, [chain |-> chain])
           whole == Composed(m, Via)
           box == IF forms # <<>> /\ whole # <<>> THEN UnitBox(whole[1], space)
                  ELSE IF bounds # <<>> THEN ObjectBox(bounds, Via, space) ELSE <<0, 0, 0, 0>>
           quad == Quad(whole, box, space)
           t == [is |-> "image", box |-> box, quad |-> quad]
           e == With(t, [id |-> Len(elements), at |-> Len(met')])
<1>1. DOMAIN r = {"is", "m", "bounds"} /\ r["is"] = "image" /\ r["m"] = m /\ r["bounds"] = bounds
  OBVIOUS
<1>2. o.is = "image" /\ o.m = m /\ o.bounds = bounds /\ o.chain = chain /\ "chain" \in DOMAIN o
  <2>1. "is" \in DOMAIN r /\ "m" \in DOMAIN r /\ "bounds" \in DOMAIN r /\ "chain" \notin DOMAIN r
    BY <1>1
  <2>2. "chain" \in DOMAIN o
    BY DEF With
  <2> HIDE DEF r
  <2>3. QED
    BY <1>1, <2>1, <2>2, MetIs
<1>4. /\ met' = Append(met, o) /\ elements' = Append(elements, e) /\ noted \subseteq noted'
      /\ phase = "page" /\ UNCHANGED <<phase, space, chain, forms, glyphs>>
  BY DEF Image, Meets, Emits, Warns
<1> HIDE DEF box, quad, whole
<1>5. DOMAIN t = {"is", "box", "quad"} /\ t["is"] = "image" /\ t["box"] = box /\ t["quad"] = quad
  OBVIOUS
<1>6. e.is = "image" /\ e.box = box /\ e.quad = quad /\ e.id = Len(elements) /\ e.at = Len(met')
  <2>1. "is" \in DOMAIN t /\ "box" \in DOMAIN t /\ "quad" \in DOMAIN t /\ "id" \notin DOMAIN t /\ "at" \notin DOMAIN t
    BY <1>5
  <2> HIDE DEF t
  <2>2. QED
    BY <1>5, <2>1, ElementIs
<1> HIDE DEF o, e
<1>7. Placed(o, e) /\ ~ Wanting(o)
  BY <1>2, <1>4, <1>6 DEF Placed, Shown, Wanting
<1>8. ASSUME m # <<>>, chain # <<>> \/ bounds # <<>>
      PROVE  LET corners == SeenAt(space, Append(chain, m[1]), UnitSquare)
             IN  box = Hull(corners) /\ quad = corners
  <2> DEFINE corners == SeenAt(space, Append(chain, m[1]), UnitSquare)
             w == IF forms = <<>> THEN m[1] ELSE Multiply(m[1], Last(forms))
  <2>1. PICK x \in Matrix : m = <<x>>
    BY <1>8 DEF AnswersTyped
  <2>2. m[1] = x /\ m[1] \in Matrix
    BY <2>1
  <2>3. space \in Turns /\ Composite(chain, forms) /\ (chain = <<>> <=> forms = <<>>)
    BY PageIs DEF AnswersTyped
  <2>4. UnitBox(w, space) = Hull(corners) /\ Quad(<<w>>, Hull(corners), space) = corners
    BY <2>2, <2>3, ImagePlaced
  <2>5. whole = <<w>>
    <3>1. CASE forms = <<>>
      BY <2>1, <2>2, <3>1 DEF whole, Composed, Via
    <3>2. CASE forms # <<>>
      <4>1. Via # <<>> /\ Via[1] = Last(forms)
        BY <3>2 DEF Via
      <4>2. QED
        BY <1>8, <3>2, <4>1 DEF whole, Composed
    <3>3. QED
      BY <3>1, <3>2
  <2>6. whole # <<>> /\ whole[1] = w
    BY <2>5
  <2> HIDE DEF corners
  <2>7. box = Hull(corners)
    <3>1. CASE forms # <<>>
      BY <2>4, <2>6, <3>1 DEF box
    <3>2. CASE forms = <<>>
      <4>1. bounds # <<>> /\ box = ObjectBox(bounds, <<>>, space)
        BY <1>8, <2>3, <3>2 DEF box, Via
      <4>2. bounds = Hull({TransformPoint(m[1], p) : p \in UnitSquare})
        BY <1>8, <4>1 DEF ImageBounds
      <4>3. ObjectBox(bounds, <<>>, space) = UnitBox(m[1], space)
        BY <4>2 DEF ObjectBox, UnitBox
      <4>4. QED
        BY <2>4, <3>2, <4>1, <4>3
    <3>3. QED
      BY <3>1, <3>2
  <2> HIDE DEF w
  <2>8. quad = corners
    BY <2>4, <2>5, <2>7 DEF quad
  <2>9. QED
    BY <2>7, <2>8 DEF corners
<1>9. m # <<>> => [o EXCEPT !.chain = Append(@, o.m[1])].chain = Append(chain, m[1])
  BY <1>2
<1>10. ASSUME m = <<>>, bounds # <<>> PROVE box = Hull(SeenAt(space, chain, Corners(bounds)))
  <2>1. bounds \in Boxed /\ space \in Turns
    BY <1>10, PageIs DEF AnswersTyped, Boxed, ImageBounds
  <2>2. whole = <<>>
    BY <1>10 DEF whole, Composed
  <2>3. box = ObjectBox(bounds, Via, space)
    BY <1>10, <2>2 DEF box
  <2>4. ObjectBox(bounds, IF forms = <<>> THEN <<>> ELSE <<Last(forms)>>, space) = Hull(SeenAt(space, chain, Corners(bounds)))
    BY <2>1, PageIs, PathPlaced
  <2>5. QED
    BY <2>3, <2>4 DEF Via
<1>11. Right(space, o, e)
  BY <1>2, <1>6, <1>8, <1>9, <1>10 DEF Right
<1>12. Listed(glyphs') /\ phase' \in InPage /\ phase' # "notes"
  BY <1>4 DEF PageInv, PageListed, InPage
<1>13. QED
  BY <1>2, <1>4, <1>7, <1>11, <1>12, MetAndPlaced

LEMMA FormKept ==
    ASSUME AnswersTyped, PageInv, NEW m \in Matrices \cup {<<>>}, FormBegins(m)
    PROVE  PageInv'
<1> DEFINE r == [is |-> "form"]
           o == With(r, [chain |-> chain])
           local == IF m = <<>> THEN Identity ELSE m[1]
<1>1. DOMAIN r = {"is"} /\ r.is = "form"
  OBVIOUS
<1>2. o.is = "form" /\ o.chain = chain
  BY <1>1, MetIs
<1>3. /\ met' = Append(met, o) /\ phase = "page" /\ UNCHANGED <<phase, space, elements, glyphs>>
      /\ noted' = noted \/ noted' = noted \cup {Len(met')}
      /\ TooDeep => noted' = noted \cup {Len(met')} /\ UNCHANGED <<forms, chain>>
      /\ ~ TooDeep => forms' = Append(forms, ChildToPage(m)) /\ chain' = Append(chain, local)
  BY DEF FormBegins, Meets, Warns
<1> HIDE DEF o
<1>4. Missed(o)
  BY <1>2, <1>3 DEF Missed, Shown
<1>5. /\ Composite(chain, forms) /\ Len(chain) \in Nat /\ Len(forms) = Len(chain) /\ MaxFormDepth \in Nat
      /\ Len(met') = Len(met) + 1
  BY <1>3, PageIs DEF AnswersTyped
<1>6. Wanting(o) => Len(met) + 1 \in noted'
  <2>1. Wanting(o) => TooDeep
    BY <1>2, <1>5 DEF Wanting, TooDeep
  <2>2. QED
    BY <1>3, <1>5, <2>1
<1>7. Composite(chain', forms') /\ Len(chain') <= MaxFormDepth
  <2>1. CASE TooDeep
    BY <1>3, <2>1 DEF PageInv
  <2>2. CASE ~ TooDeep
    <3>1. local \in Matrix
      <4>1. Identity \in Matrix
        BY DEF Identity, Matrix
      <4>2. m # <<>> => \E x \in Matrix : m = <<x>>
        BY DEF AnswersTyped
      <4>3. QED
        BY <4>1, <4>2
    <3>2. ChildToPage(m) = IF forms = <<>> THEN local ELSE Multiply(local, Last(forms))
      BY DEF ChildToPage
    <3> HIDE DEF local
    <3>3. Composite(Append(chain, local), Append(forms, ChildToPage(m))) /\ Len(Append(chain, local)) = Len(chain) + 1
      BY <1>5, <3>1, <3>2, CompositeStep
    <3>4. forms' = Append(forms, ChildToPage(m)) /\ chain' = Append(chain, local)
      BY <1>3, <2>2 DEF local
    <3>5. Len(chain) + 1 <= MaxFormDepth
      BY <1>5, <2>2 DEF TooDeep
    <3>6. QED
      BY <3>3, <3>4, <3>5
  <2>3. QED
    BY <2>1, <2>2
<1>8. Listed(glyphs') /\ phase' \in InPage /\ phase' # "notes" /\ noted \subseteq noted' /\ space' = space
  BY <1>3 DEF PageInv, PageListed, InPage
<1>9. QED
  BY <1>4, <1>6, <1>7, <1>8, MetAndMissed

LEMMA FormEndKept == AnswersTyped /\ PageInv /\ FormEnds => PageInv'
<1> SUFFICES ASSUME AnswersTyped, PageInv, FormEnds PROVE PageInv'
  OBVIOUS
<1>1. /\ phase' = "page" /\ forms # <<>> /\ forms' = Front(forms) /\ chain' = Front(chain)
      /\ UNCHANGED <<met, elements, noted, space, glyphs>>
  BY DEF FormEnds
<1>2. Composite(chain, forms) /\ Len(chain) <= MaxFormDepth
  BY DEF PageInv
<1>3. Composite(chain', forms') /\ Len(chain') = Len(chain) - 1 /\ Len(chain) \in Nat
  BY <1>1, <1>2, CompositeBack
<1>4. Len(chain') <= MaxFormDepth
  BY <1>2, <1>3 DEF AnswersTyped
<1>5. Listed(glyphs') /\ phase' \in InPage /\ phase' # "notes"
  BY <1>1 DEF PageInv, PageListed, InPage
<1>6. QED
  BY <1>1, <1>3, <1>4, <1>5, NothingMet

LEMMA TextKept ==
    ASSUME PageInv, TextEnds
    PROVE  PageInv'
<1> DEFINE lines == GroupIntoLines(glyphs)
           r == [is |-> "text", glyphs |-> glyphs]
           o == With(r, [chain |-> chain])
           t == [is |-> "text", lines |-> lines]
           e == With(t, [id |-> Len(elements), at |-> Len(met')])
<1>1. DOMAIN r = {"is", "glyphs"} /\ r["is"] = "text" /\ r["glyphs"] = glyphs
  OBVIOUS
<1>2. o.is = "text" /\ o.glyphs = glyphs /\ o.chain = chain
  <2>1. "is" \in DOMAIN r /\ "glyphs" \in DOMAIN r /\ "chain" \notin DOMAIN r
    BY <1>1
  <2> HIDE DEF r
  <2>2. QED
    BY <1>1, <2>1, MetIs
<1>3. /\ met' = Append(met, o) /\ noted' = noted /\ phase' = "page" /\ glyphs' = <<>>
      /\ lines = <<>> => elements' = elements
      /\ lines # <<>> => elements' = Append(elements, e)
      /\ UNCHANGED <<space, chain, forms>>
  BY DEF TextEnds, Meets, Emits
<1>4. Grouped(glyphs, lines) /\ (lines = <<>> <=> \A i \in DOMAIN glyphs : glyphs[i].blank)
  BY TextIsGrouped DEF PageInv, PageListed
<1> HIDE DEF lines
<1>5. DOMAIN t = {"is", "lines"} /\ t["is"] = "text" /\ t["lines"] = lines
  OBVIOUS
<1>6. e.is = "text" /\ e.lines = lines /\ e.id = Len(elements) /\ e.at = Len(met')
  <2>1. "is" \in DOMAIN t /\ "lines" \in DOMAIN t /\ "id" \notin DOMAIN t /\ "at" \notin DOMAIN t
    BY <1>5
  <2> HIDE DEF t
  <2>2. QED
    BY <1>5, <2>1, ElementIs
<1> HIDE DEF o, e
<1>7. Shown(o) <=> lines # <<>>
  BY <1>2, <1>4 DEF Shown
<1>8. ~ Wanting(o)
  BY <1>2 DEF Wanting
<1>9. Listed(glyphs') /\ phase' \in InPage /\ phase' # "notes"
  BY <1>3, EmptyIs DEF InPage
<1>10. CASE lines = <<>>
  <2>1. Missed(o)
    BY <1>3, <1>7, <1>10 DEF Missed
  <2>2. Composite(chain', forms') /\ Len(chain') <= MaxFormDepth
    BY <1>3 DEF PageInv
  <2>3. QED
    BY <1>3, <1>8, <1>9, <2>1, <2>2, MetAndMissed
<1>11. CASE lines # <<>>
  <2>1. Placed(o, e)
    BY <1>3, <1>6, <1>7, <1>11 DEF Placed
  <2>2. Right(space, o, e)
    BY <1>2, <1>4, <1>6 DEF Right
  <2>3. QED
    BY <1>2, <1>3, <1>8, <1>9, <2>1, <2>2, MetAndPlaced
<1>12. QED
  BY <1>10, <1>11

\* A page without anything on it.
NoneMet == met = <<>> /\ elements = <<>> /\ chain = <<>> /\ forms = <<>>

LEMMA PageEmpty ==
    AnswersTyped => Composite(<<>>, <<>>) /\ Len(<<>>) <= MaxFormDepth
                    /\ (\A w : Exact(<<>>, <<>>, w)) /\ (\A s : AllRight(s, <<>>, <<>>))
BY EmptyIs DEF AnswersTyped, Composite, Exact, AllRight

LEMMA PageStarts ==
    ASSUME AnswersTyped, NoneMet', Listed(glyphs'),
           (\E r \in {0, 90, 180, 270} : space = Space(r, Width, Height))'
    PROVE  PageInv'
<1>1. PageListed'
  BY EmptyIs DEF PageListed, NoneMet
<1>2. QED
  BY <1>1, PageEmpty DEF PageInv, NoneMet

LEMMA PageInvInit == AnswersTyped /\ Init => PageInv
<1> SUFFICES ASSUME AnswersTyped, Init PROVE PageInv
  OBVIOUS
<1>1. PageListed
  BY EmptyIs DEF Init, PageListed
<1>2. met = <<>> /\ elements = <<>> /\ chain = <<>> /\ forms = <<>> /\ space = Space(0, Width, Height) /\ phase = "open"
  BY DEF Init
<1>3. QED
  BY <1>1, <1>2, PageEmpty DEF PageInv

LEMMA PageInvNext == AnswersTyped /\ PageInv /\ [Next]_vars => PageInv'
<1> SUFFICES ASSUME AnswersTyped, PageInv, [Next]_vars PROVE PageInv'
  OBVIOUS
<1>1. CASE UNCHANGED vars
  BY <1>1 DEF vars, current, PageInv, PageListed
<1>2. ASSUME phase \notin InPage, UNCHANGED current PROVE PageInv'
  <2>1. NoneMet' /\ Listed(glyphs') /\ space' = space
    BY <1>2 DEF PageInv, PageListed, NoneMet, current
  <2>2. (\E r \in {0, 90, 180, 270} : space = Space(r, Width, Height))'
    BY <2>1 DEF PageInv
  <2>3. QED
    BY <2>1, <2>2, PageStarts
<1>3. CASE OpenFails \/ Finished
  BY <1>2, <1>3 DEF OpenFails, Finished, InPage
<1>4. ASSUME NEW sel, NEW limit, NEW n, Open(sel, limit, n) PROVE PageInv'
  BY <1>2, <1>4 DEF Open, InPage
<1>5. ASSUME NEW what, PageFails(what) PROVE PageInv'
  BY <1>2, <1>5 DEF PageFails, InPage
<1>6. ASSUME NEW r \in Rotations, PageBegins(r) PROVE PageInv'
  <2>1. phase = "pages" /\ space' = Space(r, Width, Height) /\ UNCHANGED <<forms, elements, glyphs, met, chain>>
    BY <1>6 DEF PageBegins
  <2>2. NoneMet' /\ Listed(glyphs')
    BY <2>1 DEF PageInv, PageListed, NoneMet, InPage
  <2>3. (\E x \in {0, 90, 180, 270} : space = Space(x, Width, Height))'
    BY <2>1 DEF AnswersTyped
  <2>4. QED
    BY <2>2, <2>3, PageStarts
<1>7. CASE PageEnds
  <2>1. NoneMet' /\ glyphs' = <<>> /\ space' = Space(0, Width, Height)
    BY <1>7 DEF PageEnds, NoneMet
  <2>2. QED
    BY <2>1, EmptyIs, PageStarts
<1>8. CASE Document
  BY <1>3, <1>4, <1>5, <1>6, <1>7, <1>8 DEF Document
<1>9. ASSUME ObjectFails \/ FormFails PROVE PageInv'
  BY <1>9, LostKept DEF ObjectFails, FormFails, PageInv, PageListed, InPage
<1>10. CASE ObjectsEnd
  <2>1. forms = <<>> /\ phase' = "notes" /\ UNCHANGED current
    BY <1>10 DEF ObjectsEnd
  <2>2. chain' = <<>> /\ UNCHANGED <<met, elements, noted, space, glyphs, chain, forms>>
    BY <2>1, PageIs DEF current
  <2>3. Composite(chain', forms') /\ Len(chain') <= MaxFormDepth /\ Listed(glyphs')
    BY <2>2 DEF PageInv, PageListed
  <2>4. QED
    BY <2>1, <2>2, <2>3, NothingMet DEF InPage
<1>11. CASE Objects
  <2>1. ASSUME NEW box \in Boxes \cup {<<>>}, Path(box) \/ Annotation(box) PROVE PageInv'
    BY <2>1, PathKept, AnnotationKept
  <2>2. ASSUME NEW m \in Matrices \cup {<<>>},
               FormBegins(m) \/ \E bounds \in ImageBounds(m) \cup {<<>>} : Image(m, bounds)
        PROVE  PageInv'
    BY <2>2, ImageKept, FormKept
  <2>3. QED
    BY <1>9, <1>10, <1>11, <2>1, <2>2, FormEndKept DEF Objects
<1>12. CASE TextBegins
  <2>1. phase' = "text" /\ glyphs' = <<>> /\ UNCHANGED <<met, elements, noted, space, chain, forms>>
    BY <1>12 DEF TextBegins
  <2>2. Composite(chain', forms') /\ Len(chain') <= MaxFormDepth
    BY <2>1 DEF PageInv
  <2>3. QED
    BY <2>1, <2>2, EmptyIs, NothingMet DEF InPage
<1>13. ASSUME NEW g, Glyph(g) PROVE PageInv'
  <2>1. phase' = "text" /\ glyphs' = Append(glyphs, g) /\ UNCHANGED <<met, elements, noted, space, chain, forms>>
    BY <1>13 DEF Glyph
  <2>2. Composite(chain', forms') /\ Len(chain') <= MaxFormDepth
    BY <2>1 DEF PageInv
  <2>3. Listed(glyphs')
    BY <2>1, AppendIs DEF PageInv, PageListed
  <2>4. QED
    BY <2>1, <2>2, <2>3, NothingMet DEF InPage
<1>14. CASE TextFails
  BY <1>14, LostKept, EmptyIs DEF TextFails, InPage
<1>15. CASE TextObject
  BY <1>12, <1>13, <1>14, <1>15, TextKept DEF TextObject
<1>16. QED
  BY <1>1, <1>8, <1>11, <1>15 DEF Next

LEMMA PageAlways == ASSUME AnswersTyped PROVE Spec => []PageInv
<1>1. AnswersTyped
  OBVIOUS
<1>2. Init => PageInv
  BY <1>1, PageInvInit
<1>3. PageInv /\ [Next]_vars => PageInv'
  BY <1>1, PageInvNext
<1>4. QED
  BY <1>2, <1>3, PTL DEF Spec

(* The elements of a page are its objects in the order of the page, forms  *)
(* flattened, numbered without gaps, and whatever has no place among them  *)
(* has a warning, for any page, any depth of forms and any failures.       *)
THEOREM ObjectsAreExact == ASSUME AnswersTyped PROVE Spec => []ObjectsExact
<1>1. PageInv => ObjectsExact
  BY ObjectsExactIs DEF PageInv
<1>2. QED
  BY <1>1, PageAlways, PTL

(* What each element of a page says is right of its object.                *)
LEMMA ElementsRight ==
    ASSUME PageInv, NEW k \in DOMAIN elements
    PROVE  Right(space, met[elements[k].at], elements[k])
<1>1. DOMAIN elements = 1 .. Len(elements)
  BY DEF PageInv, PageListed, Listed
<1>2. QED
  BY <1>1 DEF PageInv, AllRight

(* The words of a text are its visible glyphs, each once and in order,     *)
(* split exactly at blanks, at gaps and where the line changes, whatever   *)
(* the glyphs are and wherever the text is on the page.                    *)
THEOREM TextsAreGrouped == ASSUME AnswersTyped PROVE Spec => []TextGrouped
<1>1. PageInv => TextGrouped
  BY ElementsRight DEF TextGrouped, Right
<1>2. QED
  BY <1>1, PageAlways, PTL

(* A path, an image or an annotation lies where the matrices of the forms  *)
(* around it, the inner ones first, and the turn of the page put it, for   *)
(* any matrices, any depth of forms and any page.                          *)
THEOREM ObjectsArePlaced == ASSUME AnswersTyped PROVE Spec => []PlacedExactly
<1>1. ASSUME PageInv, NEW k \in DOMAIN elements
      PROVE  LET e == elements[k]  o == met[e.at]
             IN  /\ e.is \in {"path", "annotation"} /\ o.box # <<>> => e.box = Hull(Seen(o, Corners(o.box)))
                 /\ e.is = "image" /\ o.m = <<>> /\ o.bounds # <<>> => e.box = Hull(Seen(o, Corners(o.bounds)))
                 /\ e.is = "image" /\ o.m # <<>> /\ (o.chain # <<>> \/ o.bounds # <<>>) =>
                       LET corners == Seen([o EXCEPT !.chain = Append(@, o.m[1])], UnitSquare)
                       IN  e.box = Hull(corners) /\ e.quad = corners
  <2>1. PICK r \in {0, 90, 180, 270} : space = Space(r, Width, Height)
    BY <1>1 DEF PageInv
  <2>2. ASSUME NEW o, NEW S PROVE Seen(o, S) = SeenAt(space, o.chain, S)
    BY <2>1 DEF Seen, SeenAt, Space
  <2>3. Right(space, met[elements[k].at], elements[k])
    BY <1>1, ElementsRight
  <2> DEFINE e == elements[k]
             o == met[e.at]
             x == [o EXCEPT !.chain = Append(@, o.m[1])]
  <2>4. /\ Seen(o, Corners(o.box)) = SeenAt(space, o.chain, Corners(o.box))
        /\ Seen(o, Corners(o.bounds)) = SeenAt(space, o.chain, Corners(o.bounds))
        /\ Seen(x, UnitSquare) = SeenAt(space, x.chain, UnitSquare)
    BY <2>2
  <2>5. /\ e.is \in {"path", "annotation"} /\ o.box # <<>> => e.box = Hull(SeenAt(space, o.chain, Corners(o.box)))
        /\ e.is = "image" /\ o.m = <<>> /\ o.bounds # <<>> => e.box = Hull(SeenAt(space, o.chain, Corners(o.bounds)))
        /\ e.is = "image" /\ o.m # <<>> /\ (o.chain # <<>> \/ o.bounds # <<>>) =>
              e.box = Hull(SeenAt(space, x.chain, UnitSquare)) /\ e.quad = SeenAt(space, x.chain, UnitSquare)
    BY <2>3 DEF Right
  <2> HIDE DEF x
  <2>6. /\ e.is \in {"path", "annotation"} /\ o.box # <<>> => e.box = Hull(Seen(o, Corners(o.box)))
        /\ e.is = "image" /\ o.m = <<>> /\ o.bounds # <<>> => e.box = Hull(Seen(o, Corners(o.bounds)))
        /\ e.is = "image" /\ o.m # <<>> /\ (o.chain # <<>> \/ o.bounds # <<>>) =>
              e.box = Hull(Seen(x, UnitSquare)) /\ e.quad = Seen(x, UnitSquare)
    BY <2>4, <2>5
  <2>7. QED
    BY <2>6 DEF x
<1>2. PageInv => PlacedExactly
  BY <1>1 DEF PlacedExactly
<1>3. QED
  BY <1>2, PageAlways, PTL

(***************************************************************************)
(* A page whose elements are single glyphs, as GlyphRegroup has it.        *)
(***************************************************************************)
(* What Less says of three and of four numbers.                            *)
LEMMA LessOfThree ==
    ASSUME NEW a1, NEW a2, NEW a3, NEW b1, NEW b2, NEW b3
    PROVE  Less(<<a1, a2, a3>>, <<b1, b2, b3>>)
             <=> a1 < b1 \/ (a1 = b1 /\ (a2 < b2 \/ (a2 = b2 /\ a3 < b3)))
<1>1. DOMAIN <<a1, a2, a3>> = {1, 2, 3}
  OBVIOUS
<1>2. /\ \A j \in 1 .. 1 - 1 : FALSE
      /\ \A j \in 1 .. 2 - 1 : j = 1
      /\ \A j \in 1 .. 3 - 1 : j = 1 \/ j = 2
      /\ 1 \in 1 .. 2 - 1 /\ 1 \in 1 .. 3 - 1 /\ 2 \in 1 .. 3 - 1
  OBVIOUS
<1>3. QED
  BY <1>1, <1>2 DEF Less

(* The same of four.                                                       *)
LEMMA LessOfFour ==
    ASSUME NEW a1, NEW a2, NEW a3, NEW a4, NEW b1, NEW b2, NEW b3, NEW b4
    PROVE  Less(<<a1, a2, a3, a4>>, <<b1, b2, b3, b4>>)
             <=> a1 < b1 \/ (a1 = b1 /\ (a2 < b2 \/ (a2 = b2 /\ (a3 < b3 \/ (a3 = b3 /\ a4 < b4)))))
<1>1. DOMAIN <<a1, a2, a3, a4>> = {1, 2, 3, 4}
  OBVIOUS
<1>2. /\ \A j \in 1 .. 1 - 1 : FALSE
      /\ \A j \in 1 .. 2 - 1 : j = 1
      /\ \A j \in 1 .. 3 - 1 : j = 1 \/ j = 2
      /\ \A j \in 1 .. 4 - 1 : j = 1 \/ j = 2 \/ j = 3
      /\ 1 \in 1 .. 2 - 1 /\ 1 \in 1 .. 3 - 1 /\ 2 \in 1 .. 3 - 1
      /\ 1 \in 1 .. 4 - 1 /\ 2 \in 1 .. 4 - 1 /\ 3 \in 1 .. 4 - 1
  OBVIOUS
<1>3. QED
  BY <1>1, <1>2 DEF Less

\* Keys of which any two are in one order.
Ordered(keys, n) ==
    /\ DOMAIN keys = 1 .. n
    /\ \A i \in 1 .. n : ~ Less(keys[i], keys[i])
    /\ \A i, j \in 1 .. n : i # j => Less(keys[i], keys[j]) \/ Less(keys[j], keys[i])
    /\ \A i, j, k \in 1 .. n : Less(keys[i], keys[j]) /\ Less(keys[j], keys[k]) => Less(keys[i], keys[k])

(* Counting what is before each puts them in that order.                   *)
LEMMA InOrderIs ==
    ASSUME NEW n \in Nat, NEW keys, Ordered(keys, n)
    PROVE  /\ Reorders(InOrder(keys), n)
           /\ \A i, j \in 1 .. n : i < j => Less(keys[InOrder(keys)[i]], keys[InOrder(keys)[j]])
<1> DEFINE D == DOMAIN keys
           before(i) == {j \in D : Less(keys[j], keys[i])}
           rank == [i \in D |-> Cardinality(before(i))]
           p == InOrder(keys)
<1>1. IsFiniteSet(D) /\ Cardinality(D) = n /\ D = 1 .. n
  BY FS_Interval DEF Ordered
<1>2. ASSUME NEW i \in D
      PROVE  /\ IsFiniteSet(before(i)) /\ rank[i] \in Nat /\ rank[i] < n
             /\ i \notin before(i) /\ before(i) \in SUBSET D
  <2>1. before(i) \in SUBSET D /\ i \notin before(i)
    BY DEF Ordered
  <2> DEFINE B == before(i)
  <2>2. rank[i] = Cardinality(B)
    OBVIOUS
  <2> HIDE DEF B, rank
  <2>3. IsFiniteSet(B) /\ Cardinality(B) <= n /\ (Cardinality(B) = n => B = D)
    BY <1>1, <2>1, FS_Subset DEF B
  <2>4. Cardinality(B) \in Nat
    BY <2>3, FS_CardinalityType
  <2>5. Cardinality(B) # n
    BY <2>1, <2>3 DEF B
  <2>6. QED
    BY <2>1, <2>2, <2>3, <2>4, <2>5 DEF B
<1>3. ASSUME NEW i \in D, NEW j \in D, Less(keys[i], keys[j])
      PROVE  rank[i] < rank[j]
  <2> DEFINE A == before(i)
             B == before(j)
  <2>1. A \in SUBSET B /\ i \in B /\ i \notin A
    BY <1>2, <1>3 DEF Ordered
  <2>2. IsFiniteSet(A) /\ IsFiniteSet(B) /\ rank[i] = Cardinality(A) /\ rank[j] = Cardinality(B)
    BY <1>2
  <2>3. rank[i] \in Nat /\ rank[j] \in Nat
    BY <1>2
  <2> HIDE DEF A, B, rank
  <2>4. Cardinality(A) <= Cardinality(B) /\ (Cardinality(B) = Cardinality(A) => A = B)
    BY <2>1, <2>2, FS_Subset
  <2>5. QED
    BY <2>1, <2>2, <2>3, <2>4
<1>4. \A i, j \in D : rank[i] < rank[j] => Less(keys[i], keys[j])
  <2> SUFFICES ASSUME NEW i \in D, NEW j \in D, rank[i] < rank[j], ~ Less(keys[i], keys[j]) PROVE FALSE
    OBVIOUS
  <2>1. rank[i] \in Nat /\ rank[j] \in Nat
    BY <1>2
  <2> HIDE DEF rank
  <2>2. i # j
    BY <2>1
  <2>3. Less(keys[j], keys[i])
    BY <2>2 DEF Ordered
  <2>4. rank[j] < rank[i]
    BY <1>3, <2>3
  <2>5. QED
    BY <2>1, <2>4
<1>5. \A i, j \in D : rank[i] = rank[j] => i = j
  <2> SUFFICES ASSUME NEW i \in D, NEW j \in D, rank[i] = rank[j], i # j PROVE FALSE
    OBVIOUS
  <2>1. rank[i] \in Nat /\ rank[j] \in Nat
    BY <1>2
  <2> HIDE DEF rank
  <2>2. Less(keys[i], keys[j]) \/ Less(keys[j], keys[i])
    BY DEF Ordered
  <2>3. rank[i] < rank[j] \/ rank[j] < rank[i]
    BY <1>3, <2>2
  <2>4. QED
    BY <2>1, <2>3
<1>6. ASSUME NEW i \in D, \E k \in D : Cardinality(before(k)) = i - 1
      PROVE  p[i] \in D /\ Cardinality(before(p[i])) = i - 1
  BY <1>6 DEF InOrder
<1>7. p = [i \in D |-> p[i]]
  BY DEF InOrder
<1> HIDE DEF p
<1>8. \A i \in D : \E k \in D : rank[k] = i - 1
  <2> DEFINE T == 0 .. n - 1
  <2>1. rank \in [D -> T]
    <3>1. \A i \in D : rank[i] \in T
      <4>1. \A i \in D : rank[i] \in Nat /\ rank[i] < n
        BY <1>2
      <4> HIDE DEF rank, D
      <4>2. QED
        BY <4>1
    <3>2. QED
      BY <3>1
  <2>2. rank \in Injection(D, T)
    BY <1>5, <2>1 DEF Injection, IsInjective
  <2>3. IsFiniteSet(T) /\ Cardinality(T) = n
    BY FS_Interval
  <2> HIDE DEF rank, T
  <2>4. rank \in Surjection(D, T)
    BY <1>1, <2>2, <2>3, FS_Injection
  <2>5. \A x \in T : \E k \in D : rank[k] = x
    BY <2>4 DEF Surjection
  <2>6. QED
    BY <1>1, <2>5 DEF T
<1>9. \A i \in D : p[i] \in D /\ rank[p[i]] = i - 1
  BY <1>6, <1>8
<1> HIDE DEF rank
<1>10. p \in [D -> D]
  BY <1>7, <1>9
<1>11. \A i, j \in D : p[i] = p[j] => i = j
  <2> SUFFICES ASSUME NEW i \in D, NEW j \in D, p[i] = p[j] PROVE i = j
    OBVIOUS
  <2>1. i - 1 = j - 1
    BY <1>9
  <2>2. QED
    BY <1>1, <2>1
<1>12. \A i \in D : \E j \in D : p[j] = i
  <2> SUFFICES ASSUME NEW i \in D PROVE \E j \in D : p[j] = i
    OBVIOUS
  <2>1. rank[i] \in Nat /\ rank[i] < n
    BY <1>2
  <2>2. PICK j \in D : j = rank[i] + 1
    BY <1>1, <2>1
  <2>3. rank[p[j]] = rank[i] /\ p[j] \in D
    BY <1>9, <2>1, <2>2
  <2>4. QED
    BY <1>5, <2>3
<1>13. \A i, j \in D : i < j => Less(keys[p[i]], keys[p[j]])
  <2> SUFFICES ASSUME NEW i \in D, NEW j \in D, i < j PROVE Less(keys[p[i]], keys[p[j]])
    OBVIOUS
  <2>1. rank[p[i]] < rank[p[j]] /\ p[i] \in D /\ p[j] \in D
    BY <1>1, <1>9
  <2>2. QED
    BY <1>4, <2>1
<1>14. QED
  BY <1>1, <1>10, <1>11, <1>12, <1>13 DEF Reorders, p

\* What is pooled of a word, a line, an element, and of the first n elements.
PiecesOfWord(i, l, w) ==
    (IF w = 1 THEN {} ELSE {WordSeparator(i, l, w)})
      \cup {Raw(i, l, w, k) : k \in 1 .. Len(given[i].lines[l].words[w])}
PiecesOfLine(i, l) == UNION {PiecesOfWord(i, l, w) : w \in 1 .. Len(given[i].lines[l].words)}
PiecesOf(i) == UNION {PiecesOfLine(i, l) : l \in 1 .. Len(given[i].lines)}
PiecesOfFirst(n) == UNION {PiecesOf(i) : i \in {j \in 1 .. n : given[j].is = "text"}}

(* What a page is.                                                         *)
LEMMA GivenIs ==
    ASSUME given \in Seq(PageElement)
    PROVE  /\ Len(given) \in Nat /\ DOMAIN given = 1 .. Len(given)
           /\ \A i \in 1 .. Len(given) :
                /\ given[i].is \in {"text", "other"} /\ given[i].style \in Int /\ given[i].size \in Int
                /\ given[i].at = <<given[i].at[1], given[i].at[2]>> /\ given[i].at[1] \in Int /\ given[i].at[2] \in Int
                /\ Len(given[i].lines) \in Nat /\ DOMAIN given[i].lines = 1 .. Len(given[i].lines)
                /\ \A l \in 1 .. Len(given[i].lines) : given[i].lines[l] \in PageLine
<1>1. Len(given) \in Nat /\ DOMAIN given = 1 .. Len(given)
  OBVIOUS
<1>2. ASSUME NEW i \in 1 .. Len(given)
      PROVE  /\ given[i].is \in {"text", "other"} /\ given[i].style \in Int /\ given[i].size \in Int
             /\ given[i].at = <<given[i].at[1], given[i].at[2]>> /\ given[i].at[1] \in Int /\ given[i].at[2] \in Int
             /\ Len(given[i].lines) \in Nat /\ DOMAIN given[i].lines = 1 .. Len(given[i].lines)
             /\ \A l \in 1 .. Len(given[i].lines) : given[i].lines[l] \in PageLine
  <2>1. given[i] \in PageElement
    OBVIOUS
  <2>2. /\ given[i].is \in {"text", "other"} /\ given[i].style \in Int /\ given[i].size \in Int
        /\ given[i].at \in Int \X Int /\ given[i].lines \in Seq(PageLine)
    BY <2>1 DEF PageElement
  <2>3. /\ Len(given[i].lines) \in Nat /\ DOMAIN given[i].lines = 1 .. Len(given[i].lines)
        /\ \A l \in 1 .. Len(given[i].lines) : given[i].lines[l] \in PageLine
    BY <2>2
  <2>4. QED
    BY <2>2, <2>3
<1>3. QED
  BY <1>1, <1>2

(* What a line of it is.                                                   *)
LEMMA LineIs ==
    ASSUME NEW line \in PageLine
    PROVE  /\ line.base \in Int /\ Len(line.words) \in Nat /\ DOMAIN line.words = 1 .. Len(line.words)
           /\ \A w \in 1 .. Len(line.words) :
                /\ Len(line.words[w]) \in Nat /\ DOMAIN line.words[w] = 1 .. Len(line.words[w])
                /\ Len(line.words[w]) # 0 /\ 1 \in 1 .. Len(line.words[w])
                /\ \A k \in 1 .. Len(line.words[w]) :
                     /\ line.words[w][k].char \in Int \ {BlankCode}
                     /\ line.words[w][k].box[1] \in Int /\ line.words[w][k].box[2] \in Int
                     /\ line.words[w][k].box[3] \in Int /\ line.words[w][k].box[4] \in Int
<1>1. line.base \in Int /\ line.words \in Seq(Seq(BoxedGlyph) \ {<<>>})
  BY DEF PageLine
<1>2. Len(line.words) \in Nat /\ DOMAIN line.words = 1 .. Len(line.words)
  BY <1>1
<1>3. ASSUME NEW w \in 1 .. Len(line.words)
      PROVE  /\ Len(line.words[w]) \in Nat /\ DOMAIN line.words[w] = 1 .. Len(line.words[w])
             /\ Len(line.words[w]) # 0 /\ 1 \in 1 .. Len(line.words[w])
             /\ \A k \in 1 .. Len(line.words[w]) :
                  /\ line.words[w][k].char \in Int \ {BlankCode}
                  /\ line.words[w][k].box[1] \in Int /\ line.words[w][k].box[2] \in Int
                  /\ line.words[w][k].box[3] \in Int /\ line.words[w][k].box[4] \in Int
  <2> DEFINE word == line.words[w]
  <2>1. word \in Seq(BoxedGlyph) /\ word # <<>>
    BY <1>1
  <2> HIDE DEF word
  <2>2. Len(word) \in Nat /\ DOMAIN word = 1 .. Len(word) /\ Len(word) # 0
    BY <2>1, EmptySeq
  <2>3. ASSUME NEW k \in 1 .. Len(word)
        PROVE  /\ word[k].char \in Int \ {BlankCode}
               /\ word[k].box[1] \in Int /\ word[k].box[2] \in Int /\ word[k].box[3] \in Int /\ word[k].box[4] \in Int
    <3>1. word[k] \in BoxedGlyph
      BY <2>1, <2>3
    <3>2. word[k].char \in Int \ {BlankCode} /\ word[k].box \in Int \X Int \X Int \X Int
      BY <3>1 DEF BoxedGlyph
    <3>3. QED
      BY <3>2
  <2>4. QED
    BY <2>2, <2>3 DEF word
<1>4. QED
  BY <1>1, <1>2, <1>3

(* The box around a word.                                                  *)
LEMMA OuterIs ==
    ASSUME NEW line \in PageLine, NEW w \in 1 .. Len(line.words)
    PROVE  /\ Outer(line.words[w]).x0 \in Int /\ Outer(line.words[w]).x1 \in Int /\ Outer(line.words[w]).y0 \in Int
           /\ \A k \in 1 .. Len(line.words[w]) : Outer(line.words[w]).x0 <= line.words[w][k].box[1]
<1> DEFINE word == line.words[w]
           n == Len(word)
           x == [k \in 1 .. n |-> word[k].box[1]]
           y == [k \in 1 .. n |-> word[k].box[2]]
           z == [k \in 1 .. n |-> word[k].box[3]]
<1>1. /\ n \in Nat /\ DOMAIN word = 1 .. n /\ 1 .. n # {}
      /\ \A k \in 1 .. n : x[k] \in Int /\ y[k] \in Int /\ z[k] \in Int
  BY LineIs
<1>2. /\ Outer(word).x0 = Min({x[k] : k \in 1 .. n})
      /\ Outer(word).x1 = Max({z[k] : k \in 1 .. n})
      /\ Outer(word).y0 = Min({y[k] : k \in 1 .. n})
  <2>1. /\ {word[k].box[1] : k \in DOMAIN word} = {x[k] : k \in 1 .. n}
        /\ {word[k].box[2] : k \in DOMAIN word} = {y[k] : k \in 1 .. n}
        /\ {word[k].box[3] : k \in DOMAIN word} = {z[k] : k \in 1 .. n}
    BY <1>1
  <2> HIDE DEF word, x, y, z
  <2>2. QED
    BY <2>1 DEF Outer
<1>3. \A k \in 1 .. n : x[k] = word[k].box[1]
  OBVIOUS
<1> HIDE DEF word, n, x, y, z
<1>4. Min({x[k] : k \in 1 .. n}) \in Int /\ \A k \in 1 .. n : Min({x[j] : j \in 1 .. n}) <= x[k]
  BY <1>1, EndsAre
<1>5. Min({y[k] : k \in 1 .. n}) \in Int
  BY <1>1, EndsAre
<1>6. Max({z[k] : k \in 1 .. n}) \in Int
  BY <1>1, EndsAre
<1>7. QED
  BY <1>2, <1>3, <1>4, <1>5, <1>6 DEF word, n

(* What is pooled of a glyph and of a blank.                               *)
LEMMA RawIs ==
    ASSUME given \in Seq(PageElement), NEW i \in 1 .. Len(given), NEW l \in 1 .. Len(given[i].lines),
           NEW w \in 1 .. Len(given[i].lines[l].words), NEW k \in 1 .. Len(given[i].lines[l].words[w]),
           NEW c, c = Raw(i, l, w, k)
    PROVE  /\ ~ c.blank /\ c.base = given[i].lines[l].base /\ c.base \in Int /\ c.x0 \in Int /\ c.y0 \in Int
           /\ c.char \in Int /\ c.char # BlankCode /\ c.from = <<i, l, w, k>> /\ c.key = KeyAt(<<i, l, w, k>>)
           /\ c.x0 = GlyphAt(<<i, l, w, k>>).box[1] /\ c.char = GlyphAt(<<i, l, w, k>>).char
<1>1. given[i].lines[l] \in PageLine
  BY GivenIs
<1>2. /\ given[i].lines[l].base \in Int
      /\ given[i].lines[l].words[w][k].char \in Int \ {BlankCode}
      /\ given[i].lines[l].words[w][k].box[1] \in Int /\ given[i].lines[l].words[w][k].box[2] \in Int
  BY <1>1, LineIs
<1>3. GlyphAt(<<i, l, w, k>>) = given[i].lines[l].words[w][k]
  BY DEF GlyphAt
<1>4. QED
  BY <1>2, <1>3 DEF Raw, KeyAt

(* The blank before a word is not after the word's glyphs.                 *)
LEMMA SeparatorIs ==
    ASSUME given \in Seq(PageElement), NEW i \in 1 .. Len(given), NEW l \in 1 .. Len(given[i].lines),
           NEW w \in 1 .. Len(given[i].lines[l].words), w # 1, NEW c, c = WordSeparator(i, l, w)
    PROVE  /\ c.blank /\ c.base = given[i].lines[l].base /\ c.base \in Int /\ c.x0 \in Int /\ c.y0 \in Int
           /\ c.char = BlankCode /\ c.from = <<i, l, w, 0>>
           /\ \A k \in 1 .. Len(given[i].lines[l].words[w]) : c.x0 <= GlyphAt(<<i, l, w, k>>).box[1]
<1> DEFINE line == given[i].lines[l]
           before == Outer(line.words[w - 1])
           after == Outer(line.words[w])
           x == Min({before.x1, after.x0})
<1>1. line \in PageLine
  BY GivenIs
<1>2. line.base \in Int /\ Len(line.words) \in Nat
  BY <1>1, LineIs
<1>3. w - 1 \in 1 .. Len(line.words)
  BY <1>2
<1>4. before.x1 \in Int
  BY <1>1, <1>3, OuterIs
<1>5. /\ after.x0 \in Int /\ after.y0 \in Int
      /\ \A k \in 1 .. Len(line.words[w]) : after.x0 <= line.words[w][k].box[1]
  BY <1>1, OuterIs
<1>6. \A k \in 1 .. Len(line.words[w]) : GlyphAt(<<i, l, w, k>>) = line.words[w][k] /\ line.words[w][k].box[1] \in Int
  BY <1>1, LineIs DEF GlyphAt
<1>7. /\ c.blank /\ c.base = line.base /\ c.x0 = x /\ c.y0 = after.y0
      /\ c.char = BlankCode /\ c.from = <<i, l, w, 0>>
  BY DEF WordSeparator
<1> HIDE DEF before, after
<1>8. x \in Int /\ x <= after.x0
  <2> DEFINE V == {before.x1, after.x0}
  <2>1. V \subseteq Int /\ \E m \in V : \A y \in V : m <= y
    BY <1>4, <1>5
  <2>2. x \in V /\ \A y \in V : x <= y
    BY <2>1 DEF Min
  <2>3. QED
    BY <2>1, <2>2
<1> HIDE DEF line, x
<1>9. ASSUME NEW k \in 1 .. Len(line.words[w]) PROVE x <= GlyphAt(<<i, l, w, k>>).box[1]
  <2> DEFINE b == line.words[w][k].box[1]
  <2>1. b \in Int /\ after.x0 <= b /\ GlyphAt(<<i, l, w, k>>).box[1] = b
    BY <1>5, <1>6
  <2> HIDE DEF b
  <2>2. QED
    BY <1>5, <1>8, <2>1
<1>10. QED
  BY <1>2, <1>5, <1>7, <1>8, <1>9 DEF line

(* A word is pooled.                                                       *)
LEMMA WordPooled ==
    ASSUME given \in Seq(PageElement), NEW i \in 1 .. Len(given), NEW l \in 1 .. Len(given[i].lines),
           NEW w \in 1 .. Len(given[i].lines[l].words)
    PROVE  Enumerates(PooledWord(i, l, w), PiecesOfWord(i, l, w))
<1> DEFINE n == Len(given[i].lines[l].words[w])
           s == [k \in 1 .. n |-> Raw(i, l, w, k)]
           G == {Raw(i, l, w, k) : k \in 1 .. n}
           t == IF w = 1 THEN <<>> ELSE <<WordSeparator(i, l, w)>>
           H == IF w = 1 THEN {} ELSE {WordSeparator(i, l, w)}
<1>1. given[i].lines[l] \in PageLine
  BY GivenIs
<1>2. n \in Nat /\ DOMAIN given[i].lines[l].words[w] = 1 .. n
  BY <1>1, LineIs
<1>3. \A k \in 1 .. n : Raw(i, l, w, k).from = <<i, l, w, k>> /\ ~ Raw(i, l, w, k).blank
  BY RawIs
<1>4. Enumerates(s, G)
  <2>1. \A k \in 1 .. n : s[k] = Raw(i, l, w, k)
    OBVIOUS
  <2>2. Listed(s) /\ Len(s) = n
    BY <1>2, BuiltIs
  <2>3. \A j, k \in 1 .. n : s[j] = s[k] => j = k
    <3> SUFFICES ASSUME NEW j \in 1 .. n, NEW k \in 1 .. n, s[j] = s[k] PROVE j = k
      OBVIOUS
    <3>1. <<i, l, w, j>> = <<i, l, w, k>>
      BY <1>3, <2>1
    <3>2. QED
      BY <3>1
  <2>4. \A x \in G : \E k \in 1 .. n : s[k] = x
    BY <2>1
  <2>5. \A k \in 1 .. n : s[k] \in G
    BY <2>1
  <2> HIDE DEF s, G, n
  <2>6. QED
    BY <2>2, <2>3, <2>4, <2>5 DEF Enumerates
<1>5. Enumerates(t, H)
  <2>1. CASE w = 1
    BY <2>1, NothingEnumerated
  <2>2. CASE w # 1
    BY <2>2, OneEnumerated
  <2>3. QED
    BY <2>1, <2>2
<1>6. H \cap G = {}
  <2>1. CASE w = 1
    BY <2>1
  <2>2. CASE w # 1
    <3>1. WordSeparator(i, l, w).blank
      BY <2>2, SeparatorIs
    <3>2. QED
      BY <1>3, <3>1
  <2>3. QED
    BY <2>1, <2>2
<1>7. PooledWord(i, l, w) = t \o s /\ PiecesOfWord(i, l, w) = H \cup G
  BY <1>2 DEF PooledWord, PiecesOfWord
<1> HIDE DEF s, t, G, H
<1>8. QED
  BY <1>4, <1>5, <1>6, <1>7, EnumeratedJoin

(* The pieces of a word, by where they are from.                           *)
LEMMA PieceOfWordIs ==
    ASSUME given \in Seq(PageElement), NEW i \in 1 .. Len(given), NEW l \in 1 .. Len(given[i].lines),
           NEW w \in 1 .. Len(given[i].lines[l].words), NEW c \in PiecesOfWord(i, l, w)
    PROVE  c.from[1] = i /\ c.from[2] = l /\ c.from[3] = w
<1>1. CASE w # 1 /\ c = WordSeparator(i, l, w)
  <2>1. c.from = <<i, l, w, 0>>
    BY <1>1, SeparatorIs
  <2>2. QED
    BY <2>1
<1>2. ASSUME NEW k \in 1 .. Len(given[i].lines[l].words[w]), c = Raw(i, l, w, k)
      PROVE  c.from[1] = i /\ c.from[2] = l /\ c.from[3] = w
  <2>1. c.from = <<i, l, w, k>>
    BY <1>2, RawIs
  <2>2. QED
    BY <2>1
<1>3. QED
  BY <1>1, <1>2 DEF PiecesOfWord

(* A line is pooled.                                                       *)
LEMMA LinePooled ==
    ASSUME given \in Seq(PageElement), NEW i \in 1 .. Len(given), NEW l \in 1 .. Len(given[i].lines)
    PROVE  /\ Enumerates(PooledLine(i, l), PiecesOfLine(i, l))
           /\ \A c \in PiecesOfLine(i, l) : c.from[1] = i /\ c.from[2] = l
<1> DEFINE n == Len(given[i].lines[l].words)
           ss == [w \in 1 .. n |-> PooledWord(i, l, w)]
           G == [w \in 1 .. n |-> PiecesOfWord(i, l, w)]
<1>1. given[i].lines[l] \in PageLine
  BY GivenIs
<1>2. n \in Nat /\ DOMAIN given[i].lines[l].words = 1 .. n
  BY <1>1, LineIs
<1>3. ASSUME NEW w \in 1 .. n, NEW c \in G[w]
      PROVE  c.from[1] = i /\ c.from[2] = l /\ c.from[3] = w
  <2>1. c \in PiecesOfWord(i, l, w)
    OBVIOUS
  <2>2. QED
    BY <2>1, PieceOfWordIs
<1>4. \A w \in 1 .. n : Enumerates(ss[w], G[w])
  BY WordPooled
<1>5. \A v, w \in 1 .. n : v # w => G[v] \cap G[w] = {}
  <2> HIDE DEF G, n
  <2>1. QED
    BY <1>3
<1>6. ss = [w \in 1 .. n |-> ss[w]]
  OBVIOUS
<1>7. PooledLine(i, l) = FlattenSeq(ss) /\ PiecesOfLine(i, l) = AllOf(G, n)
  <2>1. PooledLine(i, l) = FlattenSeq(ss)
    BY <1>2 DEF PooledLine
  <2>2. {G[w] : w \in 1 .. n} = {PiecesOfWord(i, l, w) : w \in 1 .. n}
    OBVIOUS
  <2>3. QED
    BY <2>1, <2>2 DEF PiecesOfLine, AllOf
<1> HIDE DEF ss, G, n
<1>8. Enumerates(FlattenSeq(ss), AllOf(G, n))
  <2>1. AllEnumerate(ss, G, n)
    BY <1>2, <1>4, <1>5, <1>6 DEF AllEnumerate
  <2>2. QED
    BY <2>1, EnumeratedFlat
<1>9. \A c \in AllOf(G, n) : c.from[1] = i /\ c.from[2] = l
  BY <1>3 DEF AllOf
<1>10. QED
  BY <1>7, <1>8, <1>9

\* What PoolElement adds for an element.
Fresh(i) == FlattenSeq([l \in DOMAIN given[i].lines |-> PooledLine(i, l)])

(* An element is pooled.                                                   *)
LEMMA ElementPooled ==
    ASSUME given \in Seq(PageElement), NEW i \in 1 .. Len(given)
    PROVE  Enumerates(Fresh(i), PiecesOf(i)) /\ \A c \in PiecesOf(i) : c.from[1] = i
<1> DEFINE n == Len(given[i].lines)
           ss == [l \in 1 .. n |-> PooledLine(i, l)]
           G == [l \in 1 .. n |-> PiecesOfLine(i, l)]
<1>1. n \in Nat /\ DOMAIN given[i].lines = 1 .. n
  BY GivenIs
<1>2. \A l \in 1 .. n : Enumerates(ss[l], G[l]) /\ \A c \in G[l] : c.from[1] = i /\ c.from[2] = l
  BY LinePooled
<1>3. \A l, m \in 1 .. n : l # m => G[l] \cap G[m] = {}
  <2> HIDE DEF G, n, ss
  <2>1. QED
    BY <1>2
<1>4. ss = [l \in 1 .. n |-> ss[l]]
  OBVIOUS
<1>5. Fresh(i) = FlattenSeq(ss) /\ PiecesOf(i) = AllOf(G, n)
  <2>1. Fresh(i) = FlattenSeq(ss)
    BY <1>1 DEF Fresh
  <2>2. {G[l] : l \in 1 .. n} = {PiecesOfLine(i, l) : l \in 1 .. n}
    OBVIOUS
  <2>3. QED
    BY <2>1, <2>2 DEF PiecesOf, AllOf
<1> HIDE DEF ss, G, n
<1>6. Enumerates(FlattenSeq(ss), AllOf(G, n))
  <2>1. AllEnumerate(ss, G, n)
    BY <1>1, <1>2, <1>3, <1>4 DEF AllEnumerate
  <2>2. QED
    BY <2>1, EnumeratedFlat
<1>7. \A c \in AllOf(G, n) : c.from[1] = i
  BY <1>2 DEF AllOf
<1>8. QED
  BY <1>5, <1>6, <1>7

(* One element more.                                                       *)
LEMMA PiecesGrow ==
    ASSUME given \in Seq(PageElement), NEW n \in Nat, n + 1 \in 1 .. Len(given)
    PROVE  /\ PiecesOfFirst(n + 1) = IF given[n + 1].is = "text" THEN PiecesOfFirst(n) \cup PiecesOf(n + 1)
                                     ELSE PiecesOfFirst(n)
           /\ PiecesOfFirst(n) \cap PiecesOf(n + 1) = {}
<1> DEFINE T(m) == {j \in 1 .. m : given[j].is = "text"}
<1>1. T(n + 1) = IF given[n + 1].is = "text" THEN T(n) \cup {n + 1} ELSE T(n)
  <2>1. \A j : j \in 1 .. n + 1 <=> (j \in 1 .. n \/ j = n + 1)
    OBVIOUS
  <2>2. QED
    BY <2>1
<1>2. \A j \in T(n) : j \in 1 .. Len(given) /\ j # n + 1
  <2>1. \A j \in 1 .. n : j \in 1 .. Len(given) /\ j # n + 1
    BY GivenIs
  <2>2. QED
    BY <2>1
<1>3. PiecesOfFirst(n) = UNION {PiecesOf(j) : j \in T(n)} /\ PiecesOfFirst(n + 1) = UNION {PiecesOf(j) : j \in T(n + 1)}
  BY DEF PiecesOfFirst
<1> HIDE DEF T
<1>4. \A j \in T(n) : PiecesOf(j) \cap PiecesOf(n + 1) = {}
  <2> SUFFICES ASSUME NEW j \in T(n), NEW c \in PiecesOf(j), c \in PiecesOf(n + 1) PROVE FALSE
    OBVIOUS
  <2>1. c.from[1] = j /\ c.from[1] = n + 1
    BY <1>2, ElementPooled
  <2>2. QED
    BY <1>2, <2>1
<1>5. PICK before, now : before = T(n) /\ now = T(n + 1)
  OBVIOUS
<1>6. /\ PiecesOfFirst(n + 1) = IF given[n + 1].is = "text" THEN PiecesOfFirst(n) \cup PiecesOf(n + 1)
                                ELSE PiecesOfFirst(n)
  <2>1. CASE given[n + 1].is = "text"
    <3>1. now = before \cup {n + 1}
      BY <1>1, <1>5, <2>1
    <3>2. UNION {PiecesOf(j) : j \in before \cup {n + 1}} = (UNION {PiecesOf(j) : j \in before}) \cup PiecesOf(n + 1)
      OBVIOUS
    <3>3. QED
      BY <1>3, <1>5, <2>1, <3>1, <3>2
  <2>2. CASE given[n + 1].is # "text"
    BY <1>1, <1>3, <2>2
  <2>3. QED
    BY <2>1, <2>2
<1>7. PiecesOfFirst(n) \cap PiecesOf(n + 1) = {}
  BY <1>3, <1>4
<1>8. QED
  BY <1>6, <1>7

\* The glyphs of the first n elements, and what the map says of their styles.
GlyphsOfFirst(n) == UNION {GlyphsOf(i) : i \in {j \in 1 .. n : given[j].is = "text"}}
LatestStyle(n, key, style) ==
    \E g \in GlyphsOfFirst(n) :
      /\ KeyAt(g) = key /\ style = given[g[1]].style
      /\ \A h \in GlyphsOfFirst(n) : KeyAt(h) = key => h[1] <= g[1]
(* The glyphs of an element.                                               *)
LEMMA GlyphsOfIs ==
    ASSUME given \in Seq(PageElement), NEW i \in 1 .. Len(given)
    PROVE  \A g : g \in GlyphsOf(i) <=>
              \E l \in 1 .. Len(given[i].lines) : \E w \in 1 .. Len(given[i].lines[l].words) :
                 \E k \in 1 .. Len(given[i].lines[l].words[w]) : g = <<i, l, w, k>>
<1>1. DOMAIN given[i].lines = 1 .. Len(given[i].lines)
  BY GivenIs
<1>2. ASSUME NEW l \in 1 .. Len(given[i].lines)
      PROVE  /\ DOMAIN given[i].lines[l].words = 1 .. Len(given[i].lines[l].words)
             /\ \A w \in 1 .. Len(given[i].lines[l].words) :
                  DOMAIN given[i].lines[l].words[w] = 1 .. Len(given[i].lines[l].words[w])
  <2>1. given[i].lines[l] \in PageLine
    BY GivenIs
  <2>2. QED
    BY <2>1, LineIs
<1>3. \A g : g \in GlyphsOf(i) <=>
        \E l \in DOMAIN given[i].lines : \E w \in DOMAIN given[i].lines[l].words :
           \E k \in DOMAIN given[i].lines[l].words[w] : g = <<i, l, w, k>>
  BY DEF GlyphsOf
<1> DEFINE L == 1 .. Len(given[i].lines)
           W(l) == 1 .. Len(given[i].lines[l].words)
           K(l, w) == 1 .. Len(given[i].lines[l].words[w])
<1>4. /\ DOMAIN given[i].lines = L
      /\ \A l \in L : DOMAIN given[i].lines[l].words = W(l)
      /\ \A l \in L : \A w \in W(l) : DOMAIN given[i].lines[l].words[w] = K(l, w)
  BY <1>1, <1>2
<1> HIDE DEF L, W, K
<1>5. \A g : g \in GlyphsOf(i) <=> \E l \in L : \E w \in W(l) : \E k \in K(l, w) : g = <<i, l, w, k>>
  <2>1. ASSUME NEW g, g \in GlyphsOf(i) PROVE \E l \in L : \E w \in W(l) : \E k \in K(l, w) : g = <<i, l, w, k>>
    BY <1>3, <1>4, <2>1
  <2>2. ASSUME NEW g, NEW l \in L, NEW w \in W(l), NEW k \in K(l, w), g = <<i, l, w, k>> PROVE g \in GlyphsOf(i)
    BY <1>3, <1>4, <2>2
  <2>3. QED
    BY <2>1, <2>2
<1>6. QED
  BY <1>5 DEF L, W, K

(* The glyphs and the blanks are what is pooled.                           *)
LEMMA PiecesAre ==
    ASSUME given \in Seq(PageElement), NEW i \in 1 .. Len(given)
    PROVE  /\ \A g \in GlyphsOf(i) : Raw(g[1], g[2], g[3], g[4]) \in PiecesOf(i)
           /\ \A c \in PiecesOf(i) : ~ c.blank => c.from \in GlyphsOf(i) /\ c = Raw(c.from[1], c.from[2], c.from[3], c.from[4])
<1>1. ASSUME NEW g \in GlyphsOf(i) PROVE Raw(g[1], g[2], g[3], g[4]) \in PiecesOf(i)
  <2>1. PICK l \in 1 .. Len(given[i].lines) : \E w \in 1 .. Len(given[i].lines[l].words) :
                 \E k \in 1 .. Len(given[i].lines[l].words[w]) : g = <<i, l, w, k>>
    BY GlyphsOfIs
  <2>2. PICK w \in 1 .. Len(given[i].lines[l].words) :
                 \E k \in 1 .. Len(given[i].lines[l].words[w]) : g = <<i, l, w, k>>
    BY <2>1
  <2>3. PICK k \in 1 .. Len(given[i].lines[l].words[w]) : g = <<i, l, w, k>>
    BY <2>2
  <2>4. Raw(i, l, w, k) \in PiecesOfWord(i, l, w)
    BY DEF PiecesOfWord
  <2>5. Raw(i, l, w, k) \in PiecesOfLine(i, l)
    BY <2>4 DEF PiecesOfLine
  <2>6. Raw(i, l, w, k) \in PiecesOf(i)
    BY <2>5 DEF PiecesOf
  <2>7. QED
    BY <2>3, <2>6
<1>2. ASSUME NEW c \in PiecesOf(i), ~ c.blank
      PROVE  c.from \in GlyphsOf(i) /\ c = Raw(c.from[1], c.from[2], c.from[3], c.from[4])
  <2>1. PICK l \in 1 .. Len(given[i].lines) : c \in PiecesOfLine(i, l)
    BY DEF PiecesOf
  <2>2. PICK w \in 1 .. Len(given[i].lines[l].words) : c \in PiecesOfWord(i, l, w)
    BY <2>1 DEF PiecesOfLine
  <2>3. ~ (w # 1 /\ c = WordSeparator(i, l, w))
    BY <1>2, SeparatorIs
  <2>4. PICK k \in 1 .. Len(given[i].lines[l].words[w]) : c = Raw(i, l, w, k)
    BY <2>2, <2>3 DEF PiecesOfWord
  <2>5. c.from = <<i, l, w, k>>
    BY <2>4, RawIs
  <2>6. c.from \in GlyphsOf(i)
    BY <2>5, GlyphsOfIs
  <2>7. QED
    BY <2>4, <2>5, <2>6
<1>3. QED
  BY <1>1, <1>2

(* The keys of what is added are those of the element's glyphs.            *)
LEMMA FreshKeys ==
    ASSUME given \in Seq(PageElement), NEW i \in 1 .. Len(given)
    PROVE  {Fresh(i)[n].key : n \in {m \in DOMAIN Fresh(i) : ~ Fresh(i)[m].blank}} = {KeyAt(g) : g \in GlyphsOf(i)}
<1> DEFINE s == Fresh(i)
<1>1. Enumerates(s, PiecesOf(i))
  BY ElementPooled
<1>2. DOMAIN s = 1 .. Len(s)
  BY <1>1, ListIs DEF Enumerates
<1> HIDE DEF s
<1>3. ASSUME NEW g \in GlyphsOf(i)
      PROVE  LET c == Raw(g[1], g[2], g[3], g[4]) IN ~ c.blank /\ c.key = KeyAt(g)
  <2>1. PICK l \in 1 .. Len(given[i].lines) : \E w \in 1 .. Len(given[i].lines[l].words) :
                 \E k \in 1 .. Len(given[i].lines[l].words[w]) : g = <<i, l, w, k>>
    BY GlyphsOfIs
  <2>2. PICK w \in 1 .. Len(given[i].lines[l].words) :
                 \E k \in 1 .. Len(given[i].lines[l].words[w]) : g = <<i, l, w, k>>
    BY <2>1
  <2>3. PICK k \in 1 .. Len(given[i].lines[l].words[w]) : g = <<i, l, w, k>>
    BY <2>2
  <2>4. QED
    BY <2>3, RawIs
<1>4. ASSUME NEW n \in DOMAIN s, ~ s[n].blank PROVE s[n].from \in GlyphsOf(i) /\ s[n].key = KeyAt(s[n].from)
  <2>1. s[n] \in PiecesOf(i)
    BY <1>1, <1>2 DEF Enumerates
  <2>2. s[n].from \in GlyphsOf(i) /\ s[n] = Raw(s[n].from[1], s[n].from[2], s[n].from[3], s[n].from[4])
    BY <1>4, <2>1, PiecesAre
  <2>3. QED
    BY <1>3, <2>2
<1>5. ASSUME NEW g \in GlyphsOf(i) PROVE \E n \in DOMAIN s : ~ s[n].blank /\ s[n].key = KeyAt(g)
  <2>1. Raw(g[1], g[2], g[3], g[4]) \in PiecesOf(i)
    BY PiecesAre
  <2>2. PICK n \in 1 .. Len(s) : s[n] = Raw(g[1], g[2], g[3], g[4])
    BY <1>1, <2>1 DEF Enumerates
  <2>3. QED
    BY <1>2, <1>3, <2>2
<1>6. {s[n].key : n \in {m \in DOMAIN s : ~ s[m].blank}} = {KeyAt(g) : g \in GlyphsOf(i)}
  BY <1>4, <1>5
<1>7. QED
  BY <1>6 DEF s

(* Nothing of this changes while the page stays.                           *)
LEMMA PieceStays ==
    ASSUME given' = given
    PROVE  /\ \A i, l, w, k : Raw(i, l, w, k)' = Raw(i, l, w, k)
           /\ \A i, l, w : WordSeparator(i, l, w)' = WordSeparator(i, l, w)
<1>1. ASSUME NEW i, NEW l, NEW w, NEW k PROVE Raw(i, l, w, k)' = Raw(i, l, w, k)
  BY DEF Raw, Key
<1>2. ASSUME NEW i, NEW l, NEW w PROVE WordSeparator(i, l, w)' = WordSeparator(i, l, w)
  BY DEF WordSeparator, Outer
<1>3. QED
  BY <1>1, <1>2

(* Nor do the pieces of a page change.                                     *)
LEMMA PiecesStay ==
    ASSUME given' = given
    PROVE  \A n : PiecesOfFirst(n)' = PiecesOfFirst(n)
<1>1. ASSUME NEW i, NEW l, NEW w PROVE PiecesOfWord(i, l, w)' = PiecesOfWord(i, l, w)
  BY PieceStays DEF PiecesOfWord
<1>2. ASSUME NEW i, NEW l PROVE PiecesOfLine(i, l)' = PiecesOfLine(i, l)
  BY <1>1 DEF PiecesOfLine
<1>3. ASSUME NEW i PROVE PiecesOf(i)' = PiecesOf(i)
  BY <1>2 DEF PiecesOf
<1>4. QED
  BY <1>3 DEF PiecesOfFirst

(* The glyphs of a page stay with the page.                                *)
LEMMA GlyphsStay ==
    ASSUME given' = given
    PROVE  /\ \A n : GlyphsOfFirst(n)' = GlyphsOfFirst(n)
           /\ \A g : KeyAt(g)' = KeyAt(g)
<1>1. ASSUME NEW i PROVE GlyphsOf(i)' = GlyphsOf(i)
  BY DEF GlyphsOf
<1>2. ASSUME NEW n PROVE GlyphsOfFirst(n)' = GlyphsOfFirst(n)
  BY <1>1 DEF GlyphsOfFirst
<1>3. ASSUME NEW g PROVE KeyAt(g)' = KeyAt(g)
  BY DEF KeyAt, GlyphAt, Key
<1>4. QED
  BY <1>2, <1>3

\* What is in the pool and in the map after n elements.
PoolIs(s, map, n) ==
    /\ Enumerates(s, PiecesOfFirst(n))
    /\ DOMAIN map = {KeyAt(g) : g \in GlyphsOfFirst(n)}
    /\ \A key \in DOMAIN map : LatestStyle(n, key, map[key])

(* So does what the pool and the map have of it.                           *)
LEMMA PoolStays ==
    ASSUME given' = given, NEW n
    PROVE  PoolIs(pool, styles, n)' <=> PoolIs(pool', styles', n)
<1>1. PiecesOfFirst(n)' = PiecesOfFirst(n)
  BY PiecesStay
<1>2. GlyphsOfFirst(n)' = GlyphsOfFirst(n) /\ \A g : KeyAt(g)' = KeyAt(g)
  BY GlyphsStay
<1>3. \A key, style : LatestStyle(n, key, style)' <=> LatestStyle(n, key, style)
  BY <1>2 DEF LatestStyle
<1>4. {KeyAt(g) : g \in GlyphsOfFirst(n)}' = {KeyAt(g) : g \in GlyphsOfFirst(n)}
  BY <1>2
<1>5. QED
  BY <1>1, <1>3, <1>4 DEF PoolIs

(* The glyphs of one element more.                                         *)
LEMMA GlyphsGrow ==
    ASSUME given \in Seq(PageElement), NEW n \in Nat, n + 1 \in 1 .. Len(given)
    PROVE  /\ GlyphsOfFirst(n + 1) = IF given[n + 1].is = "text" THEN GlyphsOfFirst(n) \cup GlyphsOf(n + 1)
                                     ELSE GlyphsOfFirst(n)
           /\ \A g \in GlyphsOfFirst(n) : g[1] \in 1 .. n
           /\ \A g \in GlyphsOf(n + 1) : g[1] = n + 1
<1> DEFINE T(m) == {j \in 1 .. m : given[j].is = "text"}
<1>1. T(n + 1) = IF given[n + 1].is = "text" THEN T(n) \cup {n + 1} ELSE T(n)
  <2>1. \A j : j \in 1 .. n + 1 <=> (j \in 1 .. n \/ j = n + 1)
    OBVIOUS
  <2>2. QED
    BY <2>1
<1>2. \A j \in T(n) : j \in 1 .. Len(given) /\ j \in 1 .. n
  <2>1. \A j \in 1 .. n : j \in 1 .. Len(given)
    BY GivenIs
  <2>2. QED
    BY <2>1
<1>3. GlyphsOfFirst(n) = UNION {GlyphsOf(j) : j \in T(n)} /\ GlyphsOfFirst(n + 1) = UNION {GlyphsOf(j) : j \in T(n + 1)}
  BY DEF GlyphsOfFirst
<1> HIDE DEF T
<1>4. ASSUME NEW j \in 1 .. Len(given), NEW g \in GlyphsOf(j) PROVE g[1] = j
  <2>1. \E l, w, k : g = <<j, l, w, k>>
    BY GlyphsOfIs
  <2>2. QED
    BY <2>1
<1>5. \A g \in GlyphsOfFirst(n) : g[1] \in 1 .. n
  BY <1>2, <1>3, <1>4
<1>6. \A g \in GlyphsOf(n + 1) : g[1] = n + 1
  BY <1>4
<1>7. GlyphsOfFirst(n + 1) = IF given[n + 1].is = "text" THEN GlyphsOfFirst(n) \cup GlyphsOf(n + 1) ELSE GlyphsOfFirst(n)
  BY <1>1, <1>3
<1>8. QED
  BY <1>5, <1>6, <1>7

(* One element more in the pool and in the map.                            *)
LEMMA PoolSkips ==
    ASSUME given \in Seq(PageElement), NEW n \in Nat, n + 1 \in 1 .. Len(given), given[n + 1].is # "text",
           NEW s, NEW map, PoolIs(s, map, n)
    PROVE  PoolIs(s, map, n + 1)
<1>1. PiecesOfFirst(n + 1) = PiecesOfFirst(n) /\ GlyphsOfFirst(n + 1) = GlyphsOfFirst(n)
  BY PiecesGrow, GlyphsGrow
<1>2. QED
  BY <1>1 DEF PoolIs, LatestStyle

\* The map with the styles of an element.
Restyled(map, i) ==
    LET keys == {Fresh(i)[n].key : n \in {m \in DOMAIN Fresh(i) : ~ Fresh(i)[m].blank}}
    IN  [key \in keys \cup DOMAIN map |-> IF key \in keys THEN given[i].style ELSE map[key]]

(* They are added after what is there, and their styles are the latest.    *)
LEMMA PoolGrows ==
    ASSUME given \in Seq(PageElement), NEW n \in Nat, n + 1 \in 1 .. Len(given), given[n + 1].is = "text",
           NEW s, NEW map, PoolIs(s, map, n)
    PROVE  PoolIs(s \o Fresh(n + 1), Restyled(map, n + 1), n + 1)
<1> DEFINE i == n + 1
           new == Restyled(map, i)
           keys == {KeyAt(g) : g \in GlyphsOf(i)}
<1>1. Enumerates(s \o Fresh(i), PiecesOfFirst(i))
  <2>1. Enumerates(s, PiecesOfFirst(n)) /\ Enumerates(Fresh(i), PiecesOf(i))
    BY ElementPooled DEF PoolIs
  <2>2. PiecesOfFirst(i) = PiecesOfFirst(n) \cup PiecesOf(i) /\ PiecesOfFirst(n) \cap PiecesOf(i) = {}
    BY PiecesGrow
  <2>3. QED
    BY <2>1, <2>2, EnumeratedJoin
<1>2. new = [key \in keys \cup DOMAIN map |-> IF key \in keys THEN given[i].style ELSE map[key]]
  BY FreshKeys DEF Restyled
<1>3. /\ GlyphsOfFirst(i) = GlyphsOfFirst(n) \cup GlyphsOf(i)
      /\ \A g \in GlyphsOfFirst(n) : g[1] \in 1 .. n
      /\ \A g \in GlyphsOf(i) : g[1] = i
  BY GlyphsGrow
<1>4. DOMAIN map = {KeyAt(g) : g \in GlyphsOfFirst(n)} /\ \A key \in DOMAIN map : LatestStyle(n, key, map[key])
  BY DEF PoolIs
<1> HIDE DEF new
<1>5. DOMAIN new = {KeyAt(g) : g \in GlyphsOfFirst(i)}
  BY <1>2, <1>3, <1>4
<1>6. ASSUME NEW key \in DOMAIN new PROVE LatestStyle(i, key, new[key])
  <2>1. CASE key \in keys
    <3>1. PICK g \in GlyphsOf(i) : KeyAt(g) = key
      BY <2>1
    <3>2. new[key] = given[i].style /\ g[1] = i /\ g \in GlyphsOfFirst(i)
      BY <1>2, <1>3, <2>1, <3>1
    <3>3. \A h \in GlyphsOfFirst(i) : h[1] <= i
      BY <1>3
    <3> HIDE DEF i
    <3>4. QED
      BY <3>1, <3>2, <3>3 DEF LatestStyle
  <2>2. CASE key \notin keys
    <3>1. key \in DOMAIN map /\ new[key] = map[key]
      BY <1>2, <2>2
    <3>2. PICK g \in GlyphsOfFirst(n) : /\ KeyAt(g) = key /\ map[key] = given[g[1]].style
                                        /\ \A h \in GlyphsOfFirst(n) : KeyAt(h) = key => h[1] <= g[1]
      BY <1>4, <3>1 DEF LatestStyle
    <3>3. \A h \in GlyphsOfFirst(i) : KeyAt(h) = key => h \in GlyphsOfFirst(n)
      BY <1>3, <2>2
    <3>4. g \in GlyphsOfFirst(i)
      BY <1>3
    <3> HIDE DEF i, keys
    <3>5. QED
      BY <3>1, <3>2, <3>3, <3>4 DEF LatestStyle
  <2>3. QED
    BY <2>1, <2>2
<1>7. QED
  BY <1>1, <1>5, <1>6 DEF PoolIs, new

\* Sorted by baseline, place and content.
NotAfter(c, d) ==
    c.base < d.base \/ (c.base = d.base /\ (c.x0 < d.x0 \/ (c.x0 = d.x0 /\ c.char <= d.char)))
Sorted(s) == \A i, j \in 1 .. Len(s) : i < j => NotAfter(s[i], s[j])

(* What is in the pool has numbers to sort it by, and is from the page.    *)
LEMMA PooledIs ==
    ASSUME given \in Seq(PageElement), NEW c \in PiecesOfFirst(Len(given))
    PROVE  /\ c.base \in Int /\ c.x0 \in Int /\ c.y0 \in Int /\ c.char \in Int
           /\ ~ c.blank => c.from \in GlyphsOfPage /\ c = Raw(c.from[1], c.from[2], c.from[3], c.from[4])
<1>1. PICK i \in 1 .. Len(given) : given[i].is = "text" /\ c \in PiecesOf(i)
  BY DEF PiecesOfFirst
<1>2. PICK l \in 1 .. Len(given[i].lines) : c \in PiecesOfLine(i, l)
  BY <1>1 DEF PiecesOf
<1>3. PICK w \in 1 .. Len(given[i].lines[l].words) : c \in PiecesOfWord(i, l, w)
  BY <1>2 DEF PiecesOfLine
<1>4. c.base \in Int /\ c.x0 \in Int /\ c.y0 \in Int /\ c.char \in Int
  <2>1. CASE w # 1 /\ c = WordSeparator(i, l, w)
    <3>1. c.base \in Int /\ c.x0 \in Int /\ c.y0 \in Int /\ c.char = BlankCode
      BY <2>1, SeparatorIs
    <3>2. QED
      BY <3>1 DEF BlankCode
  <2>2. ASSUME NEW k \in 1 .. Len(given[i].lines[l].words[w]), c = Raw(i, l, w, k)
        PROVE  c.base \in Int /\ c.x0 \in Int /\ c.y0 \in Int /\ c.char \in Int
    BY <2>2, RawIs
  <2>3. QED
    BY <1>3, <2>1, <2>2 DEF PiecesOfWord
<1>5. ASSUME ~ c.blank PROVE c.from \in GlyphsOfPage /\ c = Raw(c.from[1], c.from[2], c.from[3], c.from[4])
  <2>1. c.from \in GlyphsOf(i) /\ c = Raw(c.from[1], c.from[2], c.from[3], c.from[4])
    BY <1>1, <1>5, PiecesAre
  <2>2. i \in {j \in DOMAIN given : given[j].is = "text"}
    BY <1>1, GivenIs
  <2>3. QED
    BY <2>1, <2>2 DEF GlyphsOfPage
<1>6. QED
  BY <1>4, <1>5

(* The pool is sorted.                                                     *)
LEMMA PoolSorted ==
    ASSUME given \in Seq(PageElement), NEW s, NEW map, PoolIs(s, map, Len(given)),
           NEW p, p = InOrder([i \in DOMAIN s |-> SortKey(s[i], i)]), NEW t, t = [i \in DOMAIN s |-> s[p[i]]]
    PROVE  PoolIs(t, map, Len(given)) /\ Sorted(t)
<1> DEFINE n == Len(s)
           keys == [i \in DOMAIN s |-> SortKey(s[i], i)]
<1>1. Enumerates(s, PiecesOfFirst(Len(given))) /\ n \in Nat /\ DOMAIN s = 1 .. n
  BY ListIs DEF PoolIs, Enumerates
<1> DEFINE B(i) == s[i].base
           X(i) == s[i].x0
           C(i) == s[i].char
<1>2. \A i \in 1 .. n : B(i) \in Int /\ X(i) \in Int /\ C(i) \in Int
  BY <1>1, PooledIs DEF Enumerates
<1>3. ASSUME NEW i \in 1 .. n, NEW j \in 1 .. n
      PROVE  Less(keys[i], keys[j]) <=>
               B(i) < B(j) \/ (B(i) = B(j) /\ (X(i) < X(j) \/ (X(i) = X(j) /\ (C(i) < C(j) \/ (C(i) = C(j) /\ i < j)))))
  <2>1. keys[i] = <<B(i), X(i), C(i), i>> /\ keys[j] = <<B(j), X(j), C(j), j>>
    BY <1>1 DEF SortKey
  <2> HIDE DEF keys, n, B, X, C
  <2>2. Less(<<B(i), X(i), C(i), i>>, <<B(j), X(j), C(j), j>>) <=>
          B(i) < B(j) \/ (B(i) = B(j) /\ (X(i) < X(j) \/ (X(i) = X(j) /\ (C(i) < C(j) \/ (C(i) = C(j) /\ i < j)))))
    BY LessOfFour
  <2>3. QED
    BY <2>1, <2>2
<1>4. DOMAIN keys = 1 .. n
  BY <1>1
<1> HIDE DEF keys, B, X, C
<1>5. Ordered(keys, n)
  <2>1. ASSUME NEW i \in 1 .. n PROVE ~ Less(keys[i], keys[i])
    BY <1>1, <1>2, <1>3
  <2>2. ASSUME NEW i \in 1 .. n, NEW j \in 1 .. n, i # j PROVE Less(keys[i], keys[j]) \/ Less(keys[j], keys[i])
    BY <1>1, <1>2, <1>3, <2>2
  <2>3. ASSUME NEW i \in 1 .. n, NEW j \in 1 .. n, NEW k \in 1 .. n, Less(keys[i], keys[j]), Less(keys[j], keys[k])
        PROVE  Less(keys[i], keys[k])
    <3>1. i \in Int /\ j \in Int /\ k \in Int
      OBVIOUS
    <3> HIDE DEF n
    <3>2. /\ B(i) \in Int /\ X(i) \in Int /\ C(i) \in Int
          /\ B(j) \in Int /\ X(j) \in Int /\ C(j) \in Int
          /\ B(k) \in Int /\ X(k) \in Int /\ C(k) \in Int
      BY <1>2
    <3>3. B(i) < B(j) \/ (B(i) = B(j) /\ (X(i) < X(j) \/ (X(i) = X(j) /\ (C(i) < C(j) \/ (C(i) = C(j) /\ i < j)))))
      BY <1>3, <2>3
    <3>4. B(j) < B(k) \/ (B(j) = B(k) /\ (X(j) < X(k) \/ (X(j) = X(k) /\ (C(j) < C(k) \/ (C(j) = C(k) /\ j < k)))))
      BY <1>3, <2>3
    <3>5. B(i) < B(k) \/ (B(i) = B(k) /\ (X(i) < X(k) \/ (X(i) = X(k) /\ (C(i) < C(k) \/ (C(i) = C(k) /\ i < k)))))
      BY <3>1, <3>2, <3>3, <3>4
    <3>6. QED
      BY <1>3, <3>5
  <2>4. QED
    BY <1>4, <2>1, <2>2, <2>3 DEF Ordered
<1>6. Reorders(p, n) /\ \A i, j \in 1 .. n : i < j => Less(keys[p[i]], keys[p[j]])
  BY <1>1, <1>5, InOrderIs DEF keys
<1>7. Enumerates(t, PiecesOfFirst(Len(given))) /\ Len(t) = n
  BY <1>1, <1>6, EnumeratedReordered
<1>8. Sorted(t)
  <2> SUFFICES ASSUME NEW i \in 1 .. n, NEW j \in 1 .. n, i < j PROVE NotAfter(t[i], t[j])
    BY <1>7 DEF Sorted
  <2>1. p[i] \in 1 .. n /\ p[j] \in 1 .. n /\ t[i] = s[p[i]] /\ t[j] = s[p[j]]
    BY <1>1, <1>6 DEF Reorders
  <2>2. Less(keys[p[i]], keys[p[j]])
    BY <1>6
  <2> DEFINE a == p[i]
             b == p[j]
  <2>3. /\ a \in 1 .. n /\ b \in 1 .. n
        /\ B(a) \in Int /\ X(a) \in Int /\ C(a) \in Int /\ B(b) \in Int /\ X(b) \in Int /\ C(b) \in Int
    BY <1>2, <2>1
  <2>4. B(a) < B(b) \/ (B(a) = B(b) /\ (X(a) < X(b) \/ (X(a) = X(b) /\ (C(a) < C(b) \/ (C(a) = C(b) /\ a < b)))))
    BY <1>3, <2>2, <2>3
  <2>5. B(a) < B(b) \/ (B(a) = B(b) /\ (X(a) < X(b) \/ (X(a) = X(b) /\ C(a) <= C(b))))
    BY <2>3, <2>4
  <2>6. QED
    BY <2>1, <2>5 DEF NotAfter, B, X, C
<1>9. QED
  BY <1>7, <1>8 DEF PoolIs

\* The output of a fragmented page, from its lines.
Others == FlattenSeq([i \in DOMAIN given |-> IF given[i].is = "text" THEN <<>> ELSE <<i>>])
Items ==
    [l \in DOMAIN pageLines |-> CompactLine(pageLines[l])]
      \o [i \in DOMAIN Others |-> [is |-> "element", at |-> given[Others[i]].at, index |-> Others[i]]]
Order == InOrder([i \in DOMAIN Items |-> <<Items[i].at[1], Items[i].at[2], i>>])

\* The pool holds the page when it is grouped, and sorted.
Regrouping == PoolIs(pool, styles, Len(given)) /\ Sorted(pool) /\ pageLines = GroupIntoLines(pool)
RegroupInv ==
    /\ given \in Seq(PageElement) /\ stage \in {"look", "pool", "project", "done"}
    /\ stage = "look" => pooled = 0 /\ pool = <<>> /\ styles = <<>>
    /\ stage = "pool" => \E n \in 0 .. Len(given) : pooled = n /\ PoolIs(pool, styles, n)
    /\ stage = "project" => Regrouping
    /\ stage = "done" /\ pool # <<>> => Regrouping /\ output = [i \in DOMAIN Items |-> Items[Order[i]]]

(* These, too, stay.                                                       *)
LEMMA RegroupingStays ==
    ASSUME UNCHANGED <<given, pool, styles, pageLines>>
    PROVE  (Regrouping' <=> Regrouping) /\ Items' = Items /\ Order' = Order
<1>1. given' = given /\ pool' = pool /\ styles' = styles /\ pageLines' = pageLines
  OBVIOUS
<1>2. Regrouping' <=> Regrouping
  <2>1. PICK n : n = Len(given)
    OBVIOUS
  <2>2. PoolIs(pool, styles, n)' <=> PoolIs(pool', styles', n)
    BY <1>1, PoolStays
  <2>3. PoolIs(pool, styles, Len(given))' <=> PoolIs(pool, styles, n)'
    BY <1>1, <2>1
  <2>4. Regrouping' <=> PoolIs(pool, styles, Len(given))' /\ Sorted(pool') /\ pageLines' = GroupIntoLines(pool')
    BY DEF Regrouping
  <2>5. QED
    BY <1>1, <2>1, <2>2, <2>3, <2>4 DEF Regrouping
<1>3. ASSUME NEW i PROVE CharStyle(i)' = CharStyle(i)
  BY <1>1 DEF CharStyle
<1>4. ASSUME NEW line PROVE Spelled(line)' = Spelled(line)
  BY <1>3 DEF Spelled
<1>5. ASSUME NEW line PROVE BuildRuns(line)' = BuildRuns(line)
  BY <1>4 DEF BuildRuns
<1>6. ASSUME NEW line PROVE CompactLine(line)' = CompactLine(line)
  BY <1>1, <1>3, <1>5 DEF CompactLine
<1>7. Others' = Others
  BY <1>1 DEF Others
<1>8. Items' = Items
  BY <1>1, <1>6, <1>7 DEF Items
<1>9. Order' = Order
  BY <1>8 DEF Order
<1>10. QED
  BY <1>2, <1>8, <1>9

(* The invariant holds when the page comes in.                             *)
LEMMA RegroupInvInit == PagesTyped /\ RegroupInit => RegroupInv
<1> SUFFICES ASSUME PagesTyped, RegroupInit PROVE RegroupInv
  OBVIOUS
<1>1. given \in Seq(PageElement)
  BY DEF PagesTyped, RegroupInit
<1>2. QED
  BY <1>1 DEF RegroupInit, RegroupInv

(* The invariant holds through every step.                                 *)
LEMMA RegroupInvNext == RegroupInv /\ [RegroupNext]_regroupVars => RegroupInv'
<1> SUFFICES ASSUME RegroupInv, [RegroupNext]_regroupVars PROVE RegroupInv'
  OBVIOUS
<1>0. given \in Seq(PageElement) /\ Len(given) \in Nat
  BY GivenIs DEF RegroupInv
<1>1. CASE Look
  <2>1. given' = given /\ pooled' = 0 /\ pool' = <<>> /\ styles' = <<>> /\ stage' \in {"pool", "done"}
    BY <1>1 DEF Look, RegroupInv
  <2>2. PoolIs(<<>>, <<>>, 0)
    <3>1. PiecesOfFirst(0) = {} /\ GlyphsOfFirst(0) = {}
      <4>1. 1 .. 0 = {}
        OBVIOUS
      <4>2. QED
        BY <4>1 DEF PiecesOfFirst, GlyphsOfFirst
    <3>2. DOMAIN <<>> = {}
      OBVIOUS
    <3>3. QED
      BY <3>1, <3>2, NothingEnumerated DEF PoolIs
  <2>3. PoolIs(pool, styles, 0)'
    BY <2>1, <2>2, PoolStays
  <2>4. (\E n \in 0 .. Len(given) : pooled = n /\ PoolIs(pool, styles, n))'
    BY <1>0, <2>1, <2>3
  <2>5. QED
    BY <1>0, <2>1, <2>4 DEF RegroupInv
<1>2. CASE PoolElement
  <2>1. PICK n \in 0 .. Len(given) : pooled = n /\ PoolIs(pool, styles, n)
    BY <1>2 DEF PoolElement, RegroupInv
  <2>2. /\ n < Len(given) /\ pooled' = n + 1 /\ given' = given /\ stage' = "pool"
        /\ IF given[n + 1].is = "text"
           THEN pool' = pool \o Fresh(n + 1) /\ styles' = Restyled(styles, n + 1)
           ELSE pool' = pool /\ styles' = styles
    <3>1. /\ pooled < Len(given) /\ pooled' = pooled + 1 /\ given' = given /\ stage' = stage /\ stage = "pool"
          /\ IF given[pooled + 1].is = "text"
             THEN pool' = pool \o Fresh(pooled + 1) /\ styles' = Restyled(styles, pooled + 1)
             ELSE pool' = pool /\ styles' = styles
      BY <1>2 DEF PoolElement, Fresh, Restyled
    <3>2. QED
      BY <2>1, <3>1
  <2>3. n \in Nat /\ n + 1 \in 1 .. Len(given) /\ n + 1 \in 0 .. Len(given)
    BY <1>0, <2>2
  <2>4. PoolIs(pool', styles', n + 1)
    <3>1. CASE given[n + 1].is = "text"
      BY <1>0, <2>1, <2>2, <2>3, <3>1, PoolGrows
    <3>2. CASE given[n + 1].is # "text"
      BY <1>0, <2>1, <2>2, <2>3, <3>2, PoolSkips
    <3>3. QED
      BY <3>1, <3>2
  <2>5. PICK m : m = n + 1
    OBVIOUS
  <2>6. PoolIs(pool, styles, m)'
    BY <2>2, <2>4, <2>5, PoolStays
  <2>7. (\E k \in 0 .. Len(given) : pooled = k /\ PoolIs(pool, styles, k))'
    BY <2>2, <2>3, <2>5, <2>6
  <2>8. QED
    BY <1>0, <2>2, <2>7 DEF RegroupInv
<1>3. CASE RegroupPageLines
  <2>1. PICK n \in 0 .. Len(given) : pooled = n /\ PoolIs(pool, styles, n)
    BY <1>3 DEF RegroupPageLines, RegroupInv
  <2> DEFINE p == InOrder([i \in DOMAIN pool |-> SortKey(pool[i], i)])
  <2>2. /\ n = Len(given) /\ given' = given /\ styles' = styles /\ stage' = "project"
        /\ pool' = [i \in DOMAIN pool |-> pool[p[i]]] /\ pageLines' = GroupIntoLines(pool')
    BY <1>3, <2>1 DEF RegroupPageLines
  <2> HIDE DEF p
  <2>3. PoolIs(pool', styles', n) /\ Sorted(pool')
    BY <1>0, <2>1, <2>2, PoolSorted DEF p
  <2>4. PoolIs(pool, styles, n)'
    BY <2>2, <2>3, PoolStays
  <2>5. Regrouping'
    BY <2>2, <2>3, <2>4 DEF Regrouping
  <2>6. QED
    BY <1>0, <2>2, <2>5 DEF RegroupInv
<1>4. CASE CompactFragmentedElements
  <2>1. /\ stage = "project" /\ stage' = "done" /\ UNCHANGED <<given, pool, styles, pageLines>>
        /\ output' = [i \in DOMAIN Items |-> Items[Order[i]]]
    BY <1>4 DEF CompactFragmentedElements, Items, Order, Others
  <2>2. Regrouping' /\ Items' = Items /\ Order' = Order
    BY <2>1, RegroupingStays DEF RegroupInv
  <2>3. QED
    BY <1>0, <2>1, <2>2 DEF RegroupInv
<1>5. CASE UNCHANGED regroupVars
  <2>1. UNCHANGED <<given, stage, pooled, pool, styles, pageLines, output>>
    BY <1>5 DEF regroupVars
  <2>2. (Regrouping' <=> Regrouping) /\ Items' = Items /\ Order' = Order
    BY <2>1, RegroupingStays
  <2>3. ASSUME NEW n PROVE PoolIs(pool, styles, n)' <=> PoolIs(pool, styles, n)
    BY <2>1, PoolStays
  <2>4. QED
    BY <2>1, <2>2, <2>3 DEF RegroupInv
<1>6. QED
  BY <1>1, <1>2, <1>3, <1>4, <1>5 DEF RegroupNext

(***************************************************************************)
(* Lines, and the runs of their glyphs.                                    *)
(***************************************************************************)
(* The glyphs of a line come before those of the lines after it.           *)
LEMMA LinesApart ==
    ASSUME NEW gs, Listed(gs), NEW rows, AreLines(gs, rows, Len(gs))
    PROVE  /\ \A l \in 1 .. Len(rows) : Places(rows[l]) \subseteq 1 .. Len(gs) /\ Places(rows[l]) # {}
           /\ \A l, m \in 1 .. Len(rows) : l < m => \A i \in Places(rows[l]), j \in Places(rows[m]) : i < j
<1> DEFINE n == Len(gs)
           r == Len(rows)
           P(l) == Places(rows[l])
<1>0. n \in Nat /\ r \in Nat
  BY ListIs DEF AreLines
<1>1. ASSUME NEW l \in 1 .. r PROVE P(l) \subseteq 1 .. n /\ P(l) # {}
  <2>1. PICK a \in 1 .. n : \E e \in a .. n : IsLine(gs, rows[l], a, e)
    BY DEF AreLines
  <2>2. PICK e \in a .. n : IsLine(gs, rows[l], a, e)
    BY <2>1
  <2>3. a \in Int /\ e \in Int /\ a .. e \subseteq 1 .. n
    BY <1>0
  <2>4. rows[l] # <<>>
    BY DEF AreLines
  <2>5. P(l) = {i \in a .. e : ~ gs[i].blank} /\ rows[l][1][1] \in P(l)
    BY <2>2, <2>3, <2>4, PlacesAre
  <2>6. QED
    BY <2>3, <2>5
<1>2. \A l \in 2 .. r : \A i \in P(l - 1), j \in P(l) : i < j
  BY DEF AreLines
<1> HIDE DEF n, r, P
<1> DEFINE S == {m \in 0 .. r : \A l \in 1 .. m - 1 : \A i \in P(l), j \in P(m) : i < j}
<1>3. 0 \in S
  BY <1>0
<1>4. ASSUME NEW m \in 1 .. r, m - 1 \in S PROVE m \in S
  <2>1. SUFFICES ASSUME NEW l \in 1 .. m - 1, NEW i \in P(l), NEW j \in P(m) PROVE i < j
    BY <1>0
  <2>2. m \in 2 .. r /\ m - 1 \in 1 .. r /\ l \in 1 .. r
    BY <1>0
  <2>3. i \in Int /\ j \in Int
    BY <1>0, <1>1, <2>2
  <2>4. CASE l = m - 1
    BY <1>2, <2>2, <2>4
  <2>5. CASE l # m - 1
    <3>1. PICK x : x \in P(m - 1)
      BY <1>1, <2>2
    <3>2. x \in Int
      BY <1>0, <1>1, <2>2, <3>1
    <3>3. l \in 1 .. (m - 1) - 1
      BY <2>2, <2>5
    <3>4. i < x
      BY <1>4, <3>1, <3>3
    <3>5. x < j
      BY <1>2, <2>2, <3>1
    <3>6. QED
      BY <2>3, <3>2, <3>4, <3>5
  <2>6. QED
    BY <2>4, <2>5
<1>5. \A m \in 0 .. r : m \in S
  <2> HIDE DEF S
  <2>1. QED
    BY <1>0, <1>3, <1>4, ByCounting
<1>6. ASSUME NEW l \in 1 .. r, NEW m \in 1 .. r, l < m
      PROVE  \A i \in P(l), j \in P(m) : i < j
  <2>1. m \in S /\ l \in 1 .. m - 1
    BY <1>0, <1>5, <1>6
  <2>2. QED
    BY <2>1
<1>7. QED
  BY <1>1, <1>6 DEF n, r, P

\* Places that follow each other.
FollowOn(word) == \A k \in 1 .. Len(word) : k # 1 => word[k] = word[k - 1] + 1

\* Lines whose words have every visible glyph in one place, and in each word
\* glyphs that follow each other.
Located(gs, rows) ==
    /\ Listed(rows)
    /\ \A l \in 1 .. Len(rows) :
         /\ Listed(rows[l]) /\ Len(rows[l]) # 0
         /\ \A w \in 1 .. Len(rows[l]) :
              /\ Listed(rows[l][w]) /\ Len(rows[l][w]) # 0
              /\ \A k \in 1 .. Len(rows[l][w]) : rows[l][w][k] \in 1 .. Len(gs) /\ ~ gs[rows[l][w][k]].blank
              /\ FollowOn(rows[l][w])
    /\ \A i \in 1 .. Len(gs) : ~ gs[i].blank =>
         \E l \in 1 .. Len(rows) : \E w \in 1 .. Len(rows[l]) : \E k \in 1 .. Len(rows[l][w]) : rows[l][w][k] = i
    /\ \A l, m \in 1 .. Len(rows) : \A w \in 1 .. Len(rows[l]), v \in 1 .. Len(rows[m]) :
         \A k \in 1 .. Len(rows[l][w]), j \in 1 .. Len(rows[m][v]) :
           rows[l][w][k] = rows[m][v][j] => l = m /\ w = v /\ k = j

(* The places of a line of words.                                          *)
LEMMA InPlaces ==
    ASSUME NEW line, Listed(line), \A w \in 1 .. Len(line) : Listed(line[w])
    PROVE  \A i : i \in Places(line) <=> \E w \in 1 .. Len(line) : \E k \in 1 .. Len(line[w]) : line[w][k] = i
<1>1. DOMAIN line = 1 .. Len(line) /\ \A w \in 1 .. Len(line) : DOMAIN line[w] = 1 .. Len(line[w])
  BY ListIs
<1>2. \A i : i \in Places(line) <=> \E w \in DOMAIN line : \E k \in DOMAIN line[w] : line[w][k] = i
  BY DEF Places
<1>3. QED
  BY <1>1, <1>2

(* No glyph is twice in a line.                                            *)
LEMMA LineApart ==
    ASSUME NEW gs, NEW line, NEW a \in Int, NEW e \in Int, IsLine(gs, line, a, e),
           NEW w \in 1 .. Len(line), NEW v \in 1 .. Len(line),
           NEW k \in 1 .. Len(line[w]), NEW j \in 1 .. Len(line[v]), line[w][k] = line[v][j]
    PROVE  w = v /\ k = j
<1>1. ASSUME NEW u \in 1 .. Len(line)
      PROVE  \E lo \in Int : \E hi \in Int : IsWord(gs, line[u], lo, hi)
  BY DEF IsLine
<1>2. PICK lo \in Int : \E hi \in Int : IsWord(gs, line[w], lo, hi)
  BY <1>1
<1>3. PICK hi \in Int : IsWord(gs, line[w], lo, hi)
  BY <1>2
<1>4. PICK lo2 \in Int : \E hi2 \in Int : IsWord(gs, line[v], lo2, hi2)
  BY <1>1
<1>5. PICK hi2 \in Int : IsWord(gs, line[v], lo2, hi2)
  BY <1>4
<1>6. Len(line) \in Nat
  BY ListIs DEF IsLine
<1>7. /\ line[w][1] = lo /\ Last(line[w]) = hi /\ line[w][k] \in lo .. hi /\ line[w][k] = lo + k - 1
      /\ Len(line[w]) \in Nat
  BY <1>3, WordEnds DEF IsWord
<1>8. /\ line[v][1] = lo2 /\ Last(line[v]) = hi2 /\ line[v][j] \in lo2 .. hi2 /\ line[v][j] = lo2 + j - 1
      /\ Len(line[v]) \in Nat
  BY <1>5, WordEnds DEF IsWord
<1>9. /\ v \in 1 .. w - 1 => Last(line[v]) < line[w][1]
      /\ w \in 1 .. v - 1 => Last(line[w]) < line[v][1]
  BY DEF IsLine
<1>10. w = v
  <2>1. CASE v < w
    BY <1>6, <1>7, <1>8, <1>9, <2>1
  <2>2. CASE w < v
    BY <1>6, <1>7, <1>8, <1>9, <2>2
  <2>3. QED
    BY <2>1, <2>2
<1>11. k = j
  <2>1. lo = lo2 /\ k \in Int /\ j \in Int
    BY <1>7, <1>8, <1>10
  <2>2. lo + k - 1 = lo2 + j - 1
    BY <1>7, <1>8
  <2>3. QED
    BY <2>1, <2>2
<1>12. QED
  BY <1>10, <1>11

(* No glyph is twice on a page, nor is one missing.                        *)
LEMMA LinesLocated ==
    ASSUME NEW gs, Listed(gs), NEW rows, AreLines(gs, rows, Len(gs))
    PROVE  Located(gs, rows)
<1> DEFINE n == Len(gs)
           r == Len(rows)
<1>0. n \in Nat /\ r \in Nat /\ Listed(rows)
  BY ListIs DEF AreLines
<1>1. ASSUME NEW l \in 1 .. r
      PROVE  \E a \in 1 .. n : \E e \in a .. n : IsLine(gs, rows[l], a, e)
  BY DEF AreLines
<1>2. ASSUME NEW l \in 1 .. r
      PROVE  /\ Listed(rows[l]) /\ Len(rows[l]) # 0
             /\ \A w \in 1 .. Len(rows[l]) :
                  /\ Listed(rows[l][w]) /\ Len(rows[l][w]) # 0
                  /\ \A k \in 1 .. Len(rows[l][w]) : rows[l][w][k] \in 1 .. n /\ ~ gs[rows[l][w][k]].blank
                  /\ FollowOn(rows[l][w])
  <2> DEFINE line == rows[l]
  <2>1. PICK a \in 1 .. n : \E e \in a .. n : IsLine(gs, line, a, e)
    BY <1>1
  <2>2. PICK e \in a .. n : IsLine(gs, line, a, e)
    BY <2>1
  <2>3. a \in Int /\ e \in Int /\ a .. e \subseteq 1 .. n
    BY <1>0
  <2>4. line # <<>>
    BY DEF AreLines
  <2> HIDE DEF line
  <2>5. Listed(line) /\ Len(line) # 0
    <3>1. PICK T : line \in Seq(T)
      BY <2>2 DEF IsLine, Listed
    <3>2. QED
      BY <2>2, <2>4, <3>1, EmptySeq DEF IsLine
  <2>6. ASSUME NEW w \in 1 .. Len(line)
        PROVE  /\ Listed(line[w]) /\ Len(line[w]) # 0
               /\ \A k \in 1 .. Len(line[w]) : line[w][k] \in 1 .. n /\ ~ gs[line[w][k]].blank
               /\ FollowOn(line[w])
    <3>1. PICK lo \in a .. e : \E hi \in a .. e : IsWord(gs, line[w], lo, hi)
      BY <2>2 DEF IsLine
    <3>2. PICK hi \in a .. e : IsWord(gs, line[w], lo, hi)
      BY <3>1
    <3> DEFINE word == line[w]
    <3>3. lo \in Int /\ hi \in Int /\ lo .. hi \subseteq 1 .. n /\ IsWord(gs, word, lo, hi)
      BY <2>3, <3>2
    <3> HIDE DEF word
    <3>4. /\ Listed(word) /\ Len(word) \in Nat /\ Len(word) = hi - lo + 1 /\ lo <= hi
          /\ \A k \in 1 .. Len(word) : word[k] = lo + k - 1
          /\ \A k \in 1 .. Len(word) : word[k] \in lo .. hi /\ ~ gs[word[k]].blank
      BY <3>3, WordEnds DEF IsWord
    <3>5. FollowOn(word)
      <4> SUFFICES ASSUME NEW k \in 1 .. Len(word), k # 1 PROVE word[k] = word[k - 1] + 1
        BY DEF FollowOn
      <4>1. k - 1 \in 1 .. Len(word)
        BY <3>4
      <4>2. word[k] = lo + k - 1 /\ word[k - 1] = lo + (k - 1) - 1
        BY <3>4, <4>1
      <4>3. QED
        BY <3>3, <4>2
    <3>6. /\ lo \in Int /\ hi \in Int /\ lo .. hi \subseteq 1 .. n /\ IsWord(gs, line[w], lo, hi)
          /\ Listed(line[w]) /\ FollowOn(line[w])
      BY <3>3, <3>4, <3>5 DEF word
    <3>7. QED
      BY <3>4, <3>6 DEF word
  <2>7. QED
    BY <2>5, <2>6 DEF line
<1> DEFINE InLine(l, i) == \E w \in 1 .. Len(rows[l]) : \E k \in 1 .. Len(rows[l][w]) : rows[l][w][k] = i
<1>3. ASSUME NEW l \in 1 .. r PROVE \A i : i \in Places(rows[l]) <=> InLine(l, i)
  <2> DEFINE line == rows[l]
  <2>1. Listed(line) /\ \A w \in 1 .. Len(line) : Listed(line[w])
    BY <1>2
  <2> HIDE DEF line
  <2>2. \A i : i \in Places(line) <=> \E w \in 1 .. Len(line) : \E k \in 1 .. Len(line[w]) : line[w][k] = i
    BY <2>1, InPlaces
  <2>3. QED
    BY <2>2 DEF line
<1>4. \A i \in 1 .. n : ~ gs[i].blank => \E l \in 1 .. r : InLine(l, i)
  <2>1. \A i \in 1 .. n : ~ gs[i].blank => \E l \in 1 .. r : i \in Places(rows[l])
    BY DEF AreLines
  <2>2. QED
    BY <1>3, <2>1
<1>5. ASSUME NEW l \in 1 .. r, NEW m \in 1 .. r, NEW w \in 1 .. Len(rows[l]), NEW v \in 1 .. Len(rows[m]),
             NEW k \in 1 .. Len(rows[l][w]), NEW j \in 1 .. Len(rows[m][v]), rows[l][w][k] = rows[m][v][j]
      PROVE  l = m /\ w = v /\ k = j
  <2> DEFINE i == rows[l][w][k]
  <2>1. InLine(l, i) /\ InLine(m, i)
    BY <1>5
  <2> HIDE DEF InLine
  <2>2. i \in Places(rows[l]) /\ i \in Places(rows[m])
    BY <1>3, <2>1
  <2>3. i \in Int
    BY <1>0, <1>2
  <2> HIDE DEF i
  <2>4. ~ (l < m) /\ ~ (m < l)
    <3>1. l < m => i < i
      BY <2>2, LinesApart
    <3>2. m < l => i < i
      BY <2>2, LinesApart
    <3>3. QED
      BY <2>3, <3>1, <3>2
  <2>5. l = m
    BY <1>0, <2>4
  <2>6. PICK a \in 1 .. n : \E e \in a .. n : IsLine(gs, rows[l], a, e)
    BY <1>1
  <2>7. PICK e \in a .. n : IsLine(gs, rows[l], a, e)
    BY <2>6
  <2>8. a \in Int /\ e \in Int
    BY <1>0
  <2>9. w = v /\ k = j
    BY <1>5, <2>5, <2>7, <2>8, LineApart
  <2>10. QED
    BY <2>5, <2>9
<1> HIDE DEF n, r
<1>6. QED
  BY <1>0, <1>2, <1>4, <1>5 DEF Located, n, r

\* Runs that spell places in the styles R has for them, neighbours in two.
RunSet(V) == [style : V, content : Seq(Nat)]
RunsAre(runs, V, R, spelled) ==
    /\ runs \in Seq(RunSet(V))
    /\ FlattenSeq([r \in DOMAIN runs |-> runs[r].content]) = spelled
    /\ \A r \in 2 .. Len(runs) : runs[r].style # runs[r - 1].style
    /\ \A r \in 1 .. Len(runs) : \A k \in 1 .. Len(runs[r].content) : <<runs[r].content[k], runs[r].style>> \in R

(* The contents of runs with one more.                                     *)
LEMMA ContentsWith ==
    ASSUME NEW V, NEW runs \in Seq(RunSet(V)), NEW run \in RunSet(V)
    PROVE  /\ Append(runs, run) \in Seq(RunSet(V))
           /\ FlattenSeq([r \in DOMAIN Append(runs, run) |-> Append(runs, run)[r].content])
                = FlattenSeq([r \in DOMAIN runs |-> runs[r].content]) \o run.content
           /\ FlattenSeq([r \in DOMAIN runs |-> runs[r].content]) \in Seq(Nat)
<1> DEFINE n == Len(runs)
           all == Append(runs, run)
           ss == [r \in DOMAIN runs |-> runs[r].content]
           tt == [r \in DOMAIN all |-> all[r].content]
<1>1. /\ n \in Nat /\ DOMAIN runs = 1 .. n /\ DOMAIN all = 1 .. n + 1 /\ all \in Seq(RunSet(V))
      /\ \A r \in 1 .. n : all[r] = runs[r] /\ runs[r] \in RunSet(V)
      /\ all[n + 1] = run
  OBVIOUS
<1>2. run.content \in Seq(Nat) /\ \A r \in 1 .. n : runs[r].content \in Seq(Nat)
  BY <1>1 DEF RunSet
<1>3. ss = [r \in 1 .. n |-> ss[r]] /\ \A r \in 1 .. n : ss[r] = runs[r].content
  BY <1>1
<1>4. tt = [r \in 1 .. n + 1 |-> tt[r]] /\ \A r \in 1 .. n + 1 : tt[r] = all[r].content
  BY <1>1
<1> HIDE DEF n, all, ss, tt
<1>5. ss \in Seq(Seq(Nat)) /\ Len(ss) = n
  BY <1>1, <1>2, <1>3, SeqIs
<1>6. tt = Append(ss, run.content)
  <2>1. n + 1 \in Nat /\ \A r \in 1 .. n + 1 : tt[r] \in Seq(Nat)
    BY <1>1, <1>2, <1>4
  <2>2. tt \in Seq(Seq(Nat)) /\ Len(tt) = n + 1
    BY <1>4, <2>1, SeqIs
  <2>3. /\ Append(ss, run.content) \in Seq(Seq(Nat)) /\ Len(Append(ss, run.content)) = n + 1
        /\ \A r \in 1 .. n : Append(ss, run.content)[r] = ss[r]
        /\ Append(ss, run.content)[n + 1] = run.content
    BY <1>2, <1>5
  <2>4. \A r \in 1 .. n + 1 : tt[r] = Append(ss, run.content)[r]
    <3>1. \A r \in 1 .. n + 1 : r \in 1 .. n \/ r = n + 1
      BY <1>1
    <3>2. QED
      BY <1>1, <1>3, <1>4, <2>3, <3>1
  <2>5. QED
    BY <2>2, <2>3, <2>4
<1>7. Append(ss, run.content) = ss \o <<run.content>> /\ <<run.content>> \in Seq(Seq(Nat))
  BY <1>2, <1>5
<1>8. FlattenSeq(tt) = FlattenSeq(ss) \o FlattenSeq(<<run.content>>)
  BY <1>5, <1>6, <1>7, FlattenConcat
<1>9. FlattenSeq(<<run.content>>) = run.content
  BY <1>2, FlattenOne
<1>10. FlattenSeq(ss) \in Seq(Nat)
  BY <1>5, FlattenPlaces
<1>11. QED
  BY <1>1, <1>8, <1>9, <1>10 DEF ss, tt, all

(* One glyph more in the runs.                                             *)
LEMMA RunsPut ==
    ASSUME NEW V, NEW R, NEW runs, NEW spelled, RunsAre(runs, V, R, spelled),
           NEW c, c.place \in Nat, c.style \in V, <<c.place, c.style>> \in R
    PROVE  RunsAre(Put(runs, c), V, R, Append(spelled, c.place)) /\ Put(runs, c) # <<>>
<1> DEFINE n == Len(runs)
           one == [style |-> c.style, content |-> <<c.place>>]
           C(s) == FlattenSeq([r \in DOMAIN s |-> s[r].content])
<1>1. /\ runs \in Seq(RunSet(V)) /\ n \in Nat /\ DOMAIN runs = 1 .. n
      /\ C(runs) = spelled
      /\ \A r \in 2 .. n : runs[r].style # runs[r - 1].style
      /\ \A r \in 1 .. n : \A k \in 1 .. Len(runs[r].content) : <<runs[r].content[k], runs[r].style>> \in R
  BY DEF RunsAre
<1>2. /\ one \in RunSet(V) /\ one.style = c.style /\ one.content = <<c.place>> /\ Len(one.content) = 1
      /\ one.content[1] = c.place
  BY DEF RunSet
<1> HIDE DEF n, one, C
<1>3. spelled \in Seq(Nat) /\ Append(spelled, c.place) = spelled \o <<c.place>>
  <2>1. spelled \in Seq(Nat)
    BY <1>1, <1>2, ContentsWith DEF C
  <2>2. QED
    BY <2>1
<1>4. CASE ~ (runs # <<>> /\ Last(runs).style = c.style)
  <2> DEFINE new == Append(runs, one)
  <2>1. Put(runs, c) = new
    BY <1>4 DEF Put, one
  <2>2. new \in Seq(RunSet(V)) /\ C(new) = spelled \o <<c.place>>
    BY <1>1, <1>2, ContentsWith DEF C
  <2>3. Len(new) = n + 1 /\ new # <<>> /\ new[n + 1] = one /\ \A r \in 1 .. n : new[r] = runs[r]
    BY <1>1 DEF n
  <2>4. n # 0 => runs # <<>> /\ Last(runs) = runs[n]
    BY <1>1 DEF Last, n
  <2> HIDE DEF new
  <2>5. \A r \in 2 .. n + 1 : new[r].style # new[r - 1].style
    <3> SUFFICES ASSUME NEW r \in 2 .. n + 1 PROVE new[r].style # new[r - 1].style
      OBVIOUS
    <3>1. CASE r = n + 1
      <4>1. n # 0 /\ r - 1 = n /\ n \in 1 .. n
        BY <1>1, <3>1
      <4>2. new[r - 1] = runs[n] /\ new[r] = one
        BY <2>3, <3>1, <4>1
      <4>3. QED
        BY <1>2, <1>4, <2>4, <4>1, <4>2
    <3>2. CASE r # n + 1
      <4>1. r \in 2 .. n /\ r \in 1 .. n /\ r - 1 \in 1 .. n
        BY <1>1, <3>2
      <4>2. QED
        BY <1>1, <2>3, <4>1
    <3>3. QED
      BY <3>1, <3>2
  <2>6. \A r \in 1 .. n + 1 : \A k \in 1 .. Len(new[r].content) : <<new[r].content[k], new[r].style>> \in R
    <3> SUFFICES ASSUME NEW r \in 1 .. n + 1, NEW k \in 1 .. Len(new[r].content)
                 PROVE  <<new[r].content[k], new[r].style>> \in R
      OBVIOUS
    <3>1. CASE r = n + 1
      <4>1. new[r] = one
        BY <2>3, <3>1
      <4>2. k \in 1 .. 1
        BY <1>2, <4>1
      <4>3. k = 1
        BY ONLY <4>2
      <4>4. new[r].content[k] = c.place /\ new[r].style = c.style
        BY <1>2, <4>1, <4>3
      <4>5. QED
        BY <4>4
    <3>2. CASE r # n + 1
      <4>1. r \in 1 .. n
        BY <1>1, <3>2
      <4>2. QED
        BY <1>1, <2>3, <4>1
    <3>3. QED
      BY <3>1, <3>2
  <2>7. QED
    BY <1>3, <2>1, <2>2, <2>3, <2>5, <2>6 DEF RunsAre, C
<1>5. CASE runs # <<>> /\ Last(runs).style = c.style
  <2> DEFINE old == SubSeq(runs, 1, n - 1)
             last == runs[n]
             more == [style |-> c.style, content |-> Append(last.content, c.place)]
             new == Append(old, more)
  <2>1. n # 0 /\ n - 1 \in Nat /\ n \in 1 .. n
    BY <1>1, <1>5, EmptySeq DEF n
  <2>2. /\ old \in Seq(RunSet(V)) /\ Len(old) = n - 1 /\ \A r \in 1 .. n - 1 : old[r] = runs[r]
    BY <1>1, <2>1 DEF n
  <2>3. last \in RunSet(V) /\ last.content \in Seq(Nat) /\ last.style = c.style
    <3>1. last \in RunSet(V)
      BY <1>1, <2>1
    <3>2. last.content \in Seq(Nat)
      BY <3>1 DEF RunSet
    <3>3. last.style = c.style
      BY <1>5 DEF Last, n
    <3>4. QED
      BY <3>1, <3>2, <3>3
  <2>4. /\ more.style = c.style /\ more.content = Append(last.content, c.place) /\ more.content \in Seq(Nat)
        /\ more.content = last.content \o <<c.place>>
        /\ more \in RunSet(V) /\ Len(more.content) = Len(last.content) + 1
        /\ \A k \in 1 .. Len(last.content) : more.content[k] = last.content[k]
        /\ more.content[Len(last.content) + 1] = c.place
        /\ Len(last.content) \in Nat
    <3> DEFINE lc == last.content
    <3>1. more.style = c.style /\ more.content = Append(lc, c.place)
      OBVIOUS
    <3>2. lc \in Seq(Nat)
      BY <2>3
    <3> HIDE DEF lc, more, last
    <3>3. /\ Append(lc, c.place) \in Seq(Nat) /\ Append(lc, c.place) = lc \o <<c.place>>
          /\ Len(Append(lc, c.place)) = Len(lc) + 1
          /\ \A k \in 1 .. Len(lc) : Append(lc, c.place)[k] = lc[k]
          /\ Append(lc, c.place)[Len(lc) + 1] = c.place
          /\ Len(lc) \in Nat
      <4>1. PICK q \in Nat : q = c.place
        OBVIOUS
      <4>2. Append(lc, q) \in Seq(Nat) /\ Append(lc, q) = lc \o <<q>>
        BY <3>2
      <4>3. /\ Len(Append(lc, q)) = Len(lc) + 1 /\ Len(lc) \in Nat
            /\ \A k \in 1 .. Len(lc) : Append(lc, q)[k] = lc[k]
            /\ Append(lc, q)[Len(lc) + 1] = q
        BY <3>2
      <4>4. QED
        BY <4>1, <4>2, <4>3
    <3>4. more \in RunSet(V)
      BY <3>2, <3>3 DEF RunSet, more, lc
    <3>5. QED
      BY <3>1, <3>3, <3>4 DEF lc
  <2> HIDE DEF old, more
  <2>5. /\ new \in Seq(RunSet(V)) /\ C(new) = C(old) \o more.content /\ C(old) \in Seq(Nat)
    BY <2>2, <2>4, ContentsWith DEF C
  <2>6. /\ Len(new) = n /\ new[n] = more /\ \A r \in 1 .. n - 1 : new[r] = runs[r]
        /\ DOMAIN new = 1 .. n
    BY <2>1, <2>2
  <2>7. runs = Append(old, last)
    <3>1. /\ Append(old, last) \in Seq(RunSet(V)) /\ Len(Append(old, last)) = n
          /\ \A r \in 1 .. n - 1 : Append(old, last)[r] = old[r]
          /\ Append(old, last)[n] = last
      BY <2>1, <2>2, <2>3
    <3>2. \A r \in 1 .. n : r \in 1 .. n - 1 \/ r = n
      BY <2>1
    <3>3. \A r \in 1 .. n : Append(old, last)[r] = runs[r]
      BY <2>2, <3>1, <3>2
    <3>4. runs \in Seq(RunSet(V)) /\ Len(runs) = n
      BY <1>1 DEF n
    <3>5. QED
      BY ONLY <3>1, <3>3, <3>4
  <2>8. spelled = C(old) \o last.content
    BY <1>1, <2>2, <2>3, <2>7, ContentsWith DEF C
  <2> HIDE DEF new, last
  <2>9. C(new) = spelled \o <<c.place>>
    <3>1. PICK o \in Seq(Nat) : o = C(old)
      BY <2>5
    <3>2. PICK lc \in Seq(Nat) : lc = last.content
      BY <2>3
    <3>3. o \o (lc \o <<c.place>>) = (o \o lc) \o <<c.place>>
      OBVIOUS
    <3>4. QED
      BY <2>4, <2>5, <2>8, <3>1, <3>2, <3>3
  <2>10. Put(runs, c) = new
    <3>1. Put(runs, c) = [runs EXCEPT ![n] = [style |-> c.style, content |-> Append(@.content, c.place)]]
      BY <1>5 DEF Put, n
    <3>2. [runs EXCEPT ![n] = [style |-> c.style, content |-> Append(@.content, c.place)]]
            = [r \in 1 .. n |-> IF r = n THEN more ELSE runs[r]]
      BY <1>1 DEF more, last
    <3>3. new = [r \in 1 .. n |-> new[r]]
      BY <2>5, <2>6
    <3>4. \A r \in 1 .. n : new[r] = IF r = n THEN more ELSE runs[r]
      <4>1. \A r \in 1 .. n : r \in 1 .. n - 1 \/ r = n
        BY <2>1
      <4>2. QED
        BY <2>1, <2>6, <4>1
    <3>5. QED
      BY <3>1, <3>2, <3>3, <3>4
  <2>11. \A r \in 2 .. n : new[r].style # new[r - 1].style
    <3> SUFFICES ASSUME NEW r \in 2 .. n PROVE new[r].style # new[r - 1].style
      OBVIOUS
    <3>1. r - 1 \in 1 .. n - 1 /\ (r = n \/ r \in 1 .. n - 1)
      BY <2>1
    <3>2. new[r].style = runs[r].style /\ new[r - 1] = runs[r - 1]
      BY <2>3, <2>4, <2>6, <3>1 DEF last
    <3>3. QED
      BY <1>1, <3>2
  <2>12. \A r \in 1 .. n : \A k \in 1 .. Len(new[r].content) : <<new[r].content[k], new[r].style>> \in R
    <3> SUFFICES ASSUME NEW r \in 1 .. n, NEW k \in 1 .. Len(new[r].content)
                 PROVE  <<new[r].content[k], new[r].style>> \in R
      OBVIOUS
    <3>1. CASE r = n
      <4>1. new[r] = more /\ (k \in 1 .. Len(last.content) \/ k = Len(last.content) + 1)
        BY <2>4, <2>6, <3>1
      <4>2. CASE k \in 1 .. Len(last.content)
        <5>1. <<last.content[k], last.style>> \in R
          BY <1>1, <2>1, <4>2 DEF last
        <5>2. QED
          BY <2>3, <2>4, <4>1, <4>2, <5>1
      <4>3. CASE k = Len(last.content) + 1
        BY <2>4, <4>1, <4>3
      <4>4. QED
        BY <4>1, <4>2, <4>3
    <3>2. CASE r # n
      <4>1. r \in 1 .. n - 1
        BY <2>1, <3>2
      <4>2. QED
        BY <1>1, <2>6, <4>1
    <3>3. QED
      BY <3>1, <3>2
  <2>13. new # <<>>
    BY <2>1, <2>5, <2>6
  <2>14. QED
    BY <1>3, <2>5, <2>6, <2>9, <2>10, <2>11, <2>12, <2>13 DEF RunsAre, C
<1>6. QED
  BY <1>4, <1>5

\* As BuildRuns has it.
Building(f, s) == f = [n \in 0 .. Len(s) |-> IF n = 0 THEN <<>> ELSE Put(f[n - 1], s[n])]

\* A place and its style, for each pair of a relation.
Styling(R) == {[place |-> p[1], style |-> p[2]] : p \in R}

(* No runs for nothing.                                                    *)
LEMMA NoRunsAre ==
    ASSUME NEW V, NEW R
    PROVE  RunsAre(<<>>, V, R, <<>>) /\ <<>> \in Seq(RunSet(V))
<1>1. <<>> \in Seq(RunSet(V)) /\ Len(<<>>) = 0
  OBVIOUS
<1>2. \A runs : runs = <<>> => [r \in DOMAIN runs |-> runs[r].content] = <<>>
  OBVIOUS
<1>3. FlattenSeq([r \in DOMAIN <<>> |-> <<>>[r].content]) = <<>>
  BY <1>2, FlattenNone
<1>4. QED
  BY <1>1, <1>3 DEF RunsAre

(* The runs of glyphs that come one after the other.                       *)
LEMMA RunsExist ==
    ASSUME NEW V, NEW R \in SUBSET (Nat \X V), NEW s \in Seq(Styling(R))
    PROVE  \E f : Building(f, s)
<1> DEFINE n == Len(s)
           S == {r \in Seq(RunSet(V)) : \E spelled : RunsAre(r, V, R, spelled)}
           step == [p \in (1 .. n) \X S |-> Put(p[2], s[p[1]])]
<1>1. n \in Nat /\ \A k \in 1 .. n : s[k] \in Styling(R)
  OBVIOUS
<1>2. <<>> \in S
  BY NoRunsAre
<1>3. ASSUME NEW k \in 1 .. n, NEW x \in S PROVE Put(x, s[k]) \in S /\ step[<<k, x>>] = Put(x, s[k])
  <2>1. PICK p \in R : s[k] = [place |-> p[1], style |-> p[2]]
    BY <1>1 DEF Styling
  <2>2. s[k].place \in Nat /\ s[k].style \in V /\ <<s[k].place, s[k].style>> \in R
    BY <2>1
  <2>3. PICK spelled : RunsAre(x, V, R, spelled)
    OBVIOUS
  <2>4. PICK c : c = s[k]
    OBVIOUS
  <2>5. c.place \in Nat /\ c.style \in V /\ <<c.place, c.style>> \in R
    BY <2>2, <2>4
  <2>6. RunsAre(Put(x, c), V, R, Append(spelled, c.place))
    BY ONLY <2>3, <2>5, RunsPut
  <2>7. Put(x, c) \in Seq(RunSet(V))
    BY <2>6 DEF RunsAre
  <2>8. Put(x, c) \in S
    BY <2>6, <2>7
  <2>9. <<k, x>> \in (1 .. n) \X S
    OBVIOUS
  <2>10. step[<<k, x>>] = Put(x, s[k])
    BY <2>9
  <2>11. QED
    BY <2>4, <2>8, <2>10
<1> HIDE DEF S, step, n
<1>4. PICK f : Stepwise(f, n, S, <<>>, step)
  BY <1>1, <1>2, <1>3, StepsExist
<1>5. ASSUME NEW k \in 1 .. n PROVE f[k] = Put(f[k - 1], s[k])
  <2>1. k - 1 \in 0 .. n
    BY <1>1
  <2>2. f[k] = step[<<k, f[k - 1]>>] /\ f[k - 1] \in S
    BY <1>4, <2>1 DEF Stepwise
  <2>3. QED
    BY <1>3, <2>2
<1>6. f = [k \in 0 .. n |-> f[k]] /\ f[0] = <<>>
  BY <1>4 DEF Stepwise
<1>7. \A k \in 0 .. n : f[k] = IF k = 0 THEN <<>> ELSE Put(f[k - 1], s[k])
  <2>1. \A k \in 0 .. n : k = 0 \/ k \in 1 .. n
    BY <1>1
  <2>2. QED
    BY <1>5, <1>6, <2>1
<1>8. QED
  BY <1>6, <1>7 DEF Building, n

(* BuildRuns makes these of what a line spells.                            *)
LEMMA BuildRunsIs ==
    ASSUME NEW V, NEW R \in SUBSET (Nat \X V), NEW line, Spelled(line) \in Seq(Styling(R))
    PROVE  /\ RunsAre(BuildRuns(line), V, R, [k \in 1 .. Len(Spelled(line)) |-> Spelled(line)[k].place])
           /\ Spelled(line) # <<>> => BuildRuns(line) # <<>>
<1> DEFINE s == Spelled(line)
           n == Len(s)
           f == CHOOSE f : Building(f, s)
           sp(k) == [j \in 1 .. k |-> s[j].place]
<1>1. s \in Seq(Styling(R))
  OBVIOUS
<1>2. BuildRuns(line) = f[n]
  BY DEF BuildRuns, Building
<1> HIDE DEF s
<1>3. Building(f, s)
  BY <1>1, RunsExist
<1> HIDE DEF f
<1>4. n \in Nat /\ \A k \in 1 .. n : s[k] \in Styling(R)
  BY <1>1
<1>5. ASSUME NEW k \in 1 .. n
      PROVE  s[k].place \in Nat /\ s[k].style \in V /\ <<s[k].place, s[k].style>> \in R
  <2>1. PICK p \in R : s[k] = [place |-> p[1], style |-> p[2]]
    BY <1>4 DEF Styling
  <2>2. QED
    BY <2>1
<1>6. f[0] = <<>> /\ \A k \in 1 .. n : f[k] = Put(f[k - 1], s[k])
  <2>1. 0 \in 0 .. n /\ \A k \in 1 .. n : k \in 0 .. n /\ k # 0
    BY <1>4
  <2>2. QED
    BY <1>3, <2>1 DEF Building
<1> DEFINE S == {k \in 0 .. n : RunsAre(f[k], V, R, sp(k)) /\ (k # 0 => f[k] # <<>>)}
<1>7. 0 \in S
  <2>1. sp(0) = <<>>
    OBVIOUS
  <2>2. RunsAre(f[0], V, R, sp(0))
    BY <1>6, <2>1, NoRunsAre
  <2>3. QED
    BY <1>4, <2>2
<1>8. ASSUME NEW k \in 1 .. n, k - 1 \in S PROVE k \in S
  <2>1. RunsAre(f[k - 1], V, R, sp(k - 1))
    BY <1>8
  <2>2. PICK c : c = s[k]
    OBVIOUS
  <2>3. c.place \in Nat /\ c.style \in V /\ <<c.place, c.style>> \in R
    BY <1>5, <2>2
  <2>4. Append(sp(k - 1), c.place) = sp(k)
    <3>1. k - 1 \in Nat /\ k \in Nat /\ (k - 1) + 1 = k
      BY <1>4
    <3>0. \A j \in 1 .. k : s[j].place \in Nat
      <4>1. \A j \in 1 .. k : j \in 1 .. n
        BY <1>4
      <4>2. QED
        BY <1>5, <4>1
    <3>2. \A j \in 1 .. k - 1 : sp(k - 1)[j] \in Nat
      <4>1. \A j \in 1 .. k - 1 : j \in 1 .. k
        BY <1>4
      <4>2. QED
        BY <3>0, <4>1
    <3>3. sp(k - 1) = [j \in 1 .. k - 1 |-> sp(k - 1)[j]] /\ sp(k) = [j \in 1 .. k |-> sp(k)[j]]
      OBVIOUS
    <3>4. \A j \in 1 .. k : sp(k)[j] \in Nat
      BY <3>0
    <3>5. \A j \in 1 .. k : sp(k)[j] = IF j = k THEN c.place ELSE sp(k - 1)[j]
      BY <1>4, <2>2
    <3>6. PICK a : a = sp(k - 1)
      OBVIOUS
    <3>7. PICK b : b = sp(k)
      OBVIOUS
    <3> HIDE DEF sp
    <3>8. a \in Seq(Nat) /\ Len(a) = k - 1
      BY ONLY <3>1, <3>2, <3>3, <3>6, SeqIs
    <3>9. b \in Seq(Nat) /\ Len(b) = k
      BY ONLY <3>1, <3>3, <3>4, <3>7, SeqIs
    <3>10. \A j \in 1 .. k : b[j] = IF j = k THEN c.place ELSE a[j]
      BY <3>5, <3>6, <3>7
    <3>11. Append(a, c.place) = b
      BY ONLY <2>3, <3>1, <3>8, <3>9, <3>10
    <3>12. QED
      BY <3>6, <3>7, <3>11
  <2> HIDE DEF sp
  <2>5. RunsAre(Put(f[k - 1], c), V, R, Append(sp(k - 1), c.place)) /\ Put(f[k - 1], c) # <<>>
    BY ONLY <2>1, <2>3, RunsPut
  <2>6. f[k] = Put(f[k - 1], c) /\ k \in 0 .. n
    BY <1>4, <1>6, <2>2
  <2>7. QED
    BY <2>4, <2>5, <2>6
<1>9. n \in S
  <2>1. \A k \in 0 .. n : k \in S
    <3> HIDE DEF S, n
    <3>1. QED
      BY <1>4, <1>7, <1>8, ByCounting
  <2>2. n \in 0 .. n
    BY <1>4
  <2>3. QED
    BY <2>1, <2>2
<1>10. s # <<>> => n # 0
  BY <1>1, EmptySeq
<1>11. QED
  BY <1>2, <1>9, <1>10 DEF s

\* A line of words of places.
WordsOfPlaces(line) ==
    /\ Listed(line) /\ Len(line) # 0
    /\ \A w \in 1 .. Len(line) :
         Listed(line[w]) /\ Len(line[w]) # 0 /\ \A k \in 1 .. Len(line[w]) : line[w][k] \in Nat \ {0}

\* The styles of its glyphs, alone and with what they are the styles of.
StylesOf(line) == {CharStyle(i) : i \in Places(line)}
Pairs(line) == {<<0, CharStyle(i)>> : i \in Places(line)} \cup {<<i, CharStyle(i)>> : i \in Places(line)}
Spaced(line) == [w \in DOMAIN line |-> (IF w = 1 THEN <<>> ELSE <<0>>) \o line[w]]

(* What a line spells.                                                     *)
LEMMA SpelledIs ==
    ASSUME NEW line, WordsOfPlaces(line)
    PROVE  /\ Pairs(line) \in SUBSET (Nat \X StylesOf(line))
           /\ Spelled(line) \in Seq(Styling(Pairs(line)))
           /\ [k \in 1 .. Len(Spelled(line)) |-> Spelled(line)[k].place] = FlattenSeq(Spaced(line))
           /\ \A i \in Places(line) : \E k \in 1 .. Len(Spelled(line)) : Spelled(line)[k].place = i
<1> DEFINE n == Len(line)
           T == Styling(Pairs(line))
           m == [c \in T |-> c.place]
           visible(w) == [k \in DOMAIN line[w] |-> [place |-> line[w][k], style |-> CharStyle(line[w][k])]]
           blank(w) == IF w = 1 THEN <<>> ELSE <<[place |-> 0, style |-> CharStyle(Last(line[w - 1]))]>>
           zero(w) == IF w = 1 THEN <<>> ELSE <<0>>
           ss == [w \in 1 .. n |-> blank(w) \o visible(w)]
           tt == [w \in 1 .. n |-> Mapped(m, ss[w])]
<1>1. /\ n \in Nat /\ n # 0 /\ DOMAIN line = 1 .. n
      /\ \A w \in 1 .. n : /\ Listed(line[w]) /\ Len(line[w]) # 0 /\ Len(line[w]) \in Nat
                           /\ DOMAIN line[w] = 1 .. Len(line[w])
                           /\ \A k \in 1 .. Len(line[w]) : line[w][k] \in Nat /\ line[w][k] # 0
  BY ListIs DEF WordsOfPlaces
<1>2. \A i : i \in Places(line) <=> \E w \in 1 .. n : \E k \in 1 .. Len(line[w]) : line[w][k] = i
  <2>1. Listed(line) /\ \A w \in 1 .. Len(line) : Listed(line[w])
    BY DEF WordsOfPlaces
  <2>2. QED
    BY ONLY <2>1, InPlaces
<1>3. \A i \in Places(line) : i \in Nat /\ i # 0
  BY <1>1, <1>2
<1>4. Pairs(line) \in SUBSET (Nat \X StylesOf(line))
  BY <1>3 DEF Pairs, StylesOf
<1>5. /\ \A i \in Places(line) : [place |-> 0, style |-> CharStyle(i)] \in T /\ [place |-> i, style |-> CharStyle(i)] \in T
      /\ \A c \in T : m[c] = c.place /\ c.place \in Nat
  <2>1. ASSUME NEW i \in Places(line)
        PROVE  [place |-> 0, style |-> CharStyle(i)] \in T /\ [place |-> i, style |-> CharStyle(i)] \in T
    <3>1. <<0, CharStyle(i)>> \in Pairs(line) /\ <<i, CharStyle(i)>> \in Pairs(line)
      BY DEF Pairs
    <3>2. \A p \in Pairs(line) : [place |-> p[1], style |-> p[2]] \in T
      BY DEF Styling
    <3>3. QED
      BY <3>1, <3>2
  <2>2. ASSUME NEW c \in T PROVE m[c] = c.place /\ c.place \in Nat
    <3>1. PICK p \in Pairs(line) : c = [place |-> p[1], style |-> p[2]]
      BY DEF Styling
    <3>2. QED
      BY <1>4, <3>1
  <2>3. QED
    BY <2>1, <2>2
<1> HIDE DEF T, m
<1>6. ASSUME NEW w \in 1 .. n
      PROVE  blank(w) \o visible(w) \in Seq(T) /\ Mapped(m, blank(w) \o visible(w)) = zero(w) \o line[w]
  <2>1. visible(w) \in Seq(T) /\ Mapped(m, visible(w)) = line[w]
    <3>1. ASSUME NEW k \in 1 .. Len(line[w])
          PROVE  visible(w)[k] \in T /\ visible(w)[k].place = line[w][k] /\ m[visible(w)[k]] = line[w][k]
      <4>1. line[w][k] \in Places(line)
        BY <1>2
      <4>2. visible(w)[k] = [place |-> line[w][k], style |-> CharStyle(line[w][k])]
        BY <1>1
      <4>3. QED
        BY <1>5, <4>1, <4>2
    <3>2. visible(w) = [k \in 1 .. Len(line[w]) |-> visible(w)[k]]
      BY <1>1
    <3>3. PICK g : g = visible(w)
      OBVIOUS
    <3>4. PICK l : l = Len(line[w])
      OBVIOUS
    <3> HIDE DEF visible
    <3>5. g \in Seq(T) /\ Len(g) = l /\ DOMAIN g = 1 .. l
      <4>1. g = [k \in 1 .. l |-> g[k]] /\ l \in Nat /\ \A k \in 1 .. l : g[k] \in T
        BY <1>1, <3>1, <3>2, <3>3, <3>4
      <4>2. QED
        BY ONLY <4>1, SeqIs
    <3>6. Mapped(m, g) = [k \in 1 .. l |-> m[g[k]]]
      BY <3>5 DEF Mapped
    <3>7. line[w] = [k \in 1 .. l |-> line[w][k]]
      <4>1. PICK S : line[w] \in Seq(S)
        BY <1>1 DEF Listed
      <4>2. QED
        BY <3>4, <4>1
    <3>8. \A k \in 1 .. l : m[g[k]] = line[w][k]
      BY <3>1, <3>3, <3>4
    <3>9. QED
      BY <3>3, <3>5, <3>6, <3>7, <3>8
  <2>2. blank(w) \in Seq(T) /\ Mapped(m, blank(w)) = zero(w)
    <3>1. CASE w = 1
      BY <3>1 DEF Mapped
    <3>2. CASE w # 1
      <4> DEFINE i == Last(line[w - 1])
                 c == [place |-> 0, style |-> CharStyle(i)]
      <4>1. w - 1 \in 1 .. n
        BY <1>1, <3>2
      <4>2. i = line[w - 1][Len(line[w - 1])] /\ Len(line[w - 1]) \in 1 .. Len(line[w - 1])
        BY <1>1, <4>1 DEF Last
      <4>3. i \in Places(line)
        BY <1>2, <4>1, <4>2
      <4>4. c \in T /\ m[c] = 0
        BY <1>5, <4>3
      <4>5. blank(w) = <<c>> /\ zero(w) = <<0>>
        BY <3>2
      <4> HIDE DEF c
      <4>6. <<c>> \in Seq(T) /\ Mapped(m, <<c>>) = <<0>>
        BY <4>4 DEF Mapped
      <4>7. QED
        BY <4>5, <4>6
    <3>3. QED
      BY <3>1, <3>2
  <2>3. PICK g : g = visible(w)
    OBVIOUS
  <2>4. PICK b : b = blank(w)
    OBVIOUS
  <2>5. g \in Seq(T) /\ b \in Seq(T) /\ Mapped(m, g) = line[w] /\ Mapped(m, b) = zero(w)
    BY <2>1, <2>2, <2>3, <2>4
  <2>6. \A c \in T : m[c] \in Nat
    BY <1>5
  <2>7. Splits(m, b, g)
    BY ONLY <2>5, <2>6, MappedIs
  <2>8. Mapped(m, b \o g) = zero(w) \o line[w] /\ b \o g \in Seq(T)
    BY <2>5, <2>7 DEF Splits
  <2>9. QED
    BY <2>3, <2>4, <2>8
<1>7. Spelled(line) = FlattenSeq(ss)
  BY <1>1 DEF Spelled
<1>8. /\ ss = [w \in 1 .. n |-> ss[w]] /\ \A w \in 1 .. n : ss[w] = blank(w) \o visible(w)
      /\ tt = [w \in 1 .. n |-> tt[w]] /\ \A w \in 1 .. n : tt[w] = Mapped(m, ss[w])
  OBVIOUS
<1>9. tt = Spaced(line) /\ \A w \in 1 .. n : tt[w] = zero(w) \o line[w]
  <2>1. Spaced(line) = [w \in 1 .. n |-> zero(w) \o line[w]]
    BY <1>1 DEF Spaced
  <2>2. \A w \in 1 .. n : tt[w] = zero(w) \o line[w]
    BY <1>6, <1>8
  <2>3. tt = [w \in 1 .. n |-> zero(w) \o line[w]]
    BY <1>8, <2>2
  <2>4. QED
    BY <2>1, <2>2, <2>3
<1>10. \A w \in 1 .. n : ss[w] \in Seq(T)
  BY <1>6, <1>8
<1> HIDE DEF ss, tt, visible, blank, n
<1>11. ss \in Seq(Seq(T)) /\ Len(ss) = n
  BY <1>1, <1>8, <1>10, SeqIs
<1>12. tt = [w \in 1 .. Len(ss) |-> Mapped(m, ss[w])]
  <2>1. tt = [w \in 1 .. n |-> Mapped(m, ss[w])]
    BY <1>8
  <2>2. QED
    BY <1>11, <2>1
<1>13. FlattenSeq(tt) = Mapped(m, FlattenSeq(ss)) /\ tt \in Seq(Seq(Nat))
  <2>1. \A c \in T : m[c] \in Nat
    BY <1>5
  <2>2. PICK a : a = ss
    OBVIOUS
  <2>3. PICK b : b = tt
    OBVIOUS
  <2>4. a \in Seq(Seq(T)) /\ EachMapped(m, a, b)
    BY <1>11, <1>12, <2>2, <2>3 DEF EachMapped
  <2>5. FlattenSeq(b) = Mapped(m, FlattenSeq(a)) /\ b \in Seq(Seq(Nat))
    BY ONLY <2>1, <2>4, FlattenMembers
  <2>6. QED
    BY <2>2, <2>3, <2>5
<1>14. FlattenSeq(ss) \in Seq(T)
  BY <1>11, FlattenPlaces
<1>15. PICK u \in Seq(T) : u = Spelled(line) /\ u = FlattenSeq(ss)
  BY <1>7, <1>14
<1>16. /\ DOMAIN u = 1 .. Len(u) /\ Len(u) \in Nat /\ \A k \in 1 .. Len(u) : u[k] \in T
  OBVIOUS
<1>17. [k \in 1 .. Len(u) |-> u[k].place] = FlattenSeq(Spaced(line))
  <2>1. FlattenSeq(tt) = [k \in 1 .. Len(u) |-> m[u[k]]]
    BY <1>13, <1>15, <1>16 DEF Mapped
  <2>2. \A k \in 1 .. Len(u) : m[u[k]] = u[k].place
    BY <1>5, <1>16
  <2>3. QED
    BY <1>9, <2>1, <2>2
<1>18. ASSUME NEW i \in Places(line) PROVE \E k \in 1 .. Len(u) : u[k].place = i
  <2>1. PICK w \in 1 .. n : \E k \in 1 .. Len(line[w]) : line[w][k] = i
    BY <1>2
  <2>2. PICK k \in 1 .. Len(line[w]) : line[w][k] = i
    BY <2>1
  <2>3. PICK at : Laid(at, tt, Len(tt), FlattenSeq(tt))
    BY <1>13, FlattenPlaces
  <2>4. Len(tt) = n /\ n \in Nat
    BY <1>1, <1>8, BuiltIs
  <2>5. \E j \in 1 .. Len(tt[w]) : tt[w][j] = i
    <3>1. tt[w] = zero(w) \o line[w] /\ Listed(line[w])
      BY <1>1, <1>9
    <3>2. Listed(zero(w))
      BY EmptyIs, OneIs
    <3>3. PICK z : z = zero(w)
      OBVIOUS
    <3> HIDE DEF zero
    <3>4. /\ Len(tt[w]) = Len(z) + Len(line[w]) /\ tt[w][Len(z) + k] = line[w][k] /\ Len(z) \in Nat
          /\ Len(line[w]) \in Nat
      BY <3>1, <3>2, <3>3, JoinIs, ListIs
    <3>5. Len(z) + k \in 1 .. Len(tt[w])
      BY <3>4
    <3>6. QED
      BY <2>2, <3>4, <3>5
  <2>6. PICK j \in 1 .. Len(tt[w]) : tt[w][j] = i
    BY <2>5
  <2>7. /\ at[w - 1] + j \in 1 .. Len(FlattenSeq(tt)) /\ FlattenSeq(tt)[at[w - 1] + j] = i
    BY <2>3, <2>4, <2>6 DEF Laid
  <2>8. PICK q : q = at[w - 1] + j
    OBVIOUS
  <2>9. q \in 1 .. Len(FlattenSeq(tt)) /\ FlattenSeq(tt)[q] = i
    BY <2>7, <2>8
  <2>10. FlattenSeq(tt) = [k1 \in 1 .. Len(u) |-> u[k1].place]
    BY <1>9, <1>17
  <2>11. Len(FlattenSeq(tt)) = Len(u)
    BY <1>16, <2>10
  <2>12. u[q].place = i
    BY <2>9, <2>10, <2>11
  <2>13. QED
    BY <2>9, <2>11, <2>12
<1>19. QED
  BY <1>4, <1>15, <1>17, <1>18 DEF T

(* The runs of a line.                                                     *)
LEMMA LineSpells ==
    ASSUME NEW line, WordsOfPlaces(line), NEW runs, runs = BuildRuns(line)
    PROVE  /\ Len(runs) \in Nat /\ DOMAIN runs = 1 .. Len(runs) /\ runs # <<>>
           /\ Len(runs) > 1 =>
                /\ FlattenSeq([r \in DOMAIN runs |-> runs[r].content]) = FlattenSeq(Spaced(line))
                /\ \A r \in DOMAIN runs :
                     /\ r > 1 => runs[r].style # runs[r - 1].style
                     /\ \A k \in DOMAIN runs[r].content :
                           runs[r].content[k] # 0 => CharStyle(runs[r].content[k]) = runs[r].style
           /\ ~ (Len(runs) > 1) => \A i, j \in Places(line) : CharStyle(i) = CharStyle(j)
<1> DEFINE s == Spelled(line)
           V == StylesOf(line)
           R == Pairs(line)
<1>1. /\ R \in SUBSET (Nat \X V) /\ s \in Seq(Styling(R))
      /\ [k \in 1 .. Len(s) |-> s[k].place] = FlattenSeq(Spaced(line))
      /\ \A i \in Places(line) : \E k \in 1 .. Len(s) : s[k].place = i
  BY SpelledIs
<1>2. Listed(line) /\ Len(line) # 0 /\ \A w \in 1 .. Len(line) : Listed(line[w]) /\ Len(line[w]) # 0
  BY DEF WordsOfPlaces
<1>3. line[1][1] \in Places(line) /\ \A i \in Places(line) : i # 0
  <2>1. 1 \in 1 .. Len(line)
    BY <1>2, ListIs
  <2>2. 1 \in 1 .. Len(line[1])
    BY <1>2, <2>1, ListIs
  <2>3. \A i : i \in Places(line) <=> \E w \in 1 .. Len(line) : \E k \in 1 .. Len(line[w]) : line[w][k] = i
    BY <1>2, InPlaces
  <2>4. \A w \in 1 .. Len(line) : \A k \in 1 .. Len(line[w]) : line[w][k] # 0
    BY DEF WordsOfPlaces
  <2>5. QED
    BY <2>1, <2>2, <2>3, <2>4
<1> HIDE DEF V, R
<1>4. PICK k0 \in 1 .. Len(s) : s[k0].place = line[1][1]
  BY <1>1, <1>3
<1>5. Spelled(line) # <<>>
  BY <1>1, <1>4
<1>6. RunsAre(runs, V, R, FlattenSeq(Spaced(line))) /\ runs # <<>>
  <2>1. RunsAre(BuildRuns(line), V, R, [k \in 1 .. Len(s) |-> s[k].place]) /\ BuildRuns(line) # <<>>
    BY <1>1, <1>5, BuildRunsIs
  <2>2. QED
    BY <1>1, <2>1
<1>7. ASSUME NEW i, NEW v, <<i, v>> \in R, i # 0 PROVE v = CharStyle(i)
  BY <1>7 DEF R, Pairs
<1>8. /\ runs \in Seq(RunSet(V)) /\ Len(runs) \in Nat /\ DOMAIN runs = 1 .. Len(runs)
      /\ FlattenSeq([r \in DOMAIN runs |-> runs[r].content]) = FlattenSeq(Spaced(line))
      /\ \A r \in 2 .. Len(runs) : runs[r].style # runs[r - 1].style
      /\ \A r \in 1 .. Len(runs) : \A k \in 1 .. Len(runs[r].content) : <<runs[r].content[k], runs[r].style>> \in R
  BY <1>6 DEF RunsAre
<1>9. \A r \in 1 .. Len(runs) : runs[r].content \in Seq(Nat)
  <2>1. \A r \in 1 .. Len(runs) : runs[r] \in RunSet(V)
    BY <1>8
  <2>2. QED
    BY <2>1 DEF RunSet
<1>10. ASSUME NEW r \in DOMAIN runs
       PROVE  /\ r > 1 => runs[r].style # runs[r - 1].style
              /\ \A k \in DOMAIN runs[r].content :
                    runs[r].content[k] # 0 => CharStyle(runs[r].content[k]) = runs[r].style
  <2>1. r > 1 => r \in 2 .. Len(runs)
    BY <1>8
  <2>2. ASSUME NEW k \in DOMAIN runs[r].content, runs[r].content[k] # 0
        PROVE  CharStyle(runs[r].content[k]) = runs[r].style
    <3>1. k \in 1 .. Len(runs[r].content)
      BY <1>8, <1>9
    <3>2. <<runs[r].content[k], runs[r].style>> \in R
      BY <1>8, <3>1
    <3>3. QED
      BY <1>7, <2>2, <3>2
  <2>3. QED
    BY <1>8, <2>1, <2>2
<1>11. ASSUME ~ (Len(runs) > 1), NEW i \in Places(line), NEW j \in Places(line)
       PROVE  CharStyle(i) = CharStyle(j)
  <2>1. Len(runs) = 1 /\ 1 \in DOMAIN runs
    <3>1. Len(runs) # 0
      BY <1>6, <1>8, EmptySeq
    <3>2. QED
      BY <1>8, <1>11, <3>1
  <2>2. PICK c \in Seq(Nat) : c = runs[1].content
    BY <1>8, <1>9, <2>1
  <2>3. [r \in DOMAIN runs |-> runs[r].content] = <<c>>
    <3>1. DOMAIN runs = {1}
      BY <1>8, <2>1
    <3>2. [r \in DOMAIN runs |-> runs[r].content] = [r \in {1} |-> c]
      BY <2>2, <3>1
    <3>3. <<c>> = [r \in {1} |-> c]
      OBVIOUS
    <3>4. QED
      BY <3>2, <3>3
  <2>4. FlattenSeq(<<c>>) = c
    BY <2>2, FlattenOne
  <2>5. c = [k \in 1 .. Len(s) |-> s[k].place]
    <3>1. c = FlattenSeq(Spaced(line))
      BY <1>8, <2>3, <2>4
    <3>2. QED
      BY <1>1, <3>1
  <2>6. ASSUME NEW x \in Places(line) PROVE CharStyle(x) = runs[1].style
    <3>1. PICK k \in 1 .. Len(s) : s[k].place = x
      BY <1>1
    <3>2. k \in DOMAIN c /\ c[k] = x
      BY <2>5, <3>1
    <3>3. k \in DOMAIN runs[1].content /\ runs[1].content[k] = x /\ x # 0
      BY <1>3, <2>2, <3>2
    <3>4. QED
      BY <1>10, <2>1, <3>3
  <2>7. QED
    BY <2>6
<1>12. QED
  BY <1>6, <1>8, <1>10, <1>11

(***************************************************************************)
(* What is out.                                                            *)
(***************************************************************************)
LEMMA LessOfTwo ==
    ASSUME NEW a1, NEW a2, NEW b1, NEW b2
    PROVE  Less(<<a1, a2>>, <<b1, b2>>) <=> a1 < b1 \/ (a1 = b1 /\ a2 < b2)
<1>1. DOMAIN <<a1, a2>> = {1, 2}
  OBVIOUS
<1>2. (\A j \in 1 .. 1 - 1 : FALSE) /\ (\A j \in 1 .. 2 - 1 : j = 1) /\ 1 \in 1 .. 2 - 1
  OBVIOUS
<1>3. QED
  BY <1>1, <1>2 DEF Less

(* What is known when the pool has been grouped.                           *)
LEMMA LinesOfPool ==
    ASSUME given \in Seq(PageElement), Regrouping
    PROVE  /\ Enumerates(pool, PiecesOfFirst(Len(given))) /\ Len(pool) \in Nat /\ DOMAIN pool = 1 .. Len(pool)
           /\ \A i \in 1 .. Len(pool) :
                /\ pool[i].base \in Int /\ pool[i].x0 \in Int /\ pool[i].y0 \in Int /\ pool[i].char \in Int
                /\ ~ pool[i].blank => /\ pool[i].from \in GlyphsOfPage
                                      /\ pool[i] = Raw(pool[i].from[1], pool[i].from[2], pool[i].from[3], pool[i].from[4])
           /\ Grouped(pool, pageLines) /\ Located(pool, pageLines)
           /\ Len(pageLines) \in Nat /\ DOMAIN pageLines = 1 .. Len(pageLines)
<1>1. Enumerates(pool, PiecesOfFirst(Len(given))) /\ pageLines = GroupIntoLines(pool)
  BY DEF Regrouping, PoolIs
<1>2. Listed(pool)
  BY <1>1 DEF Enumerates
<1>3. Len(pool) \in Nat /\ DOMAIN pool = 1 .. Len(pool)
  BY <1>2, ListIs
<1>4. Grouped(pool, pageLines)
  BY <1>1, <1>2, TextIsGrouped
<1>5. AreLines(pool, pageLines, Len(pool))
  BY <1>1, <1>2, LinesAre
<1>6. Located(pool, pageLines)
  BY <1>2, <1>5, LinesLocated
<1>7. Len(pageLines) \in Nat /\ DOMAIN pageLines = 1 .. Len(pageLines)
  BY <1>5, ListIs DEF AreLines
<1>8. ASSUME NEW i \in 1 .. Len(pool)
      PROVE  /\ pool[i].base \in Int /\ pool[i].x0 \in Int /\ pool[i].y0 \in Int /\ pool[i].char \in Int
             /\ ~ pool[i].blank => /\ pool[i].from \in GlyphsOfPage
                                   /\ pool[i] = Raw(pool[i].from[1], pool[i].from[2], pool[i].from[3], pool[i].from[4])
  <2>1. pool[i] \in PiecesOfFirst(Len(given))
    BY <1>1 DEF Enumerates
  <2>2. PICK c : c = pool[i]
    OBVIOUS
  <2>3. /\ c.base \in Int /\ c.x0 \in Int /\ c.y0 \in Int /\ c.char \in Int
        /\ ~ c.blank => c.from \in GlyphsOfPage /\ c = Raw(c.from[1], c.from[2], c.from[3], c.from[4])
    BY <2>1, <2>2, PooledIs
  <2>4. QED
    BY <2>2, <2>3
<1>9. QED
  BY <1>1, <1>3, <1>4, <1>6, <1>7, <1>8

(* A line has a corner, and words of glyphs.                               *)
LEMMA CompactIs ==
    ASSUME given \in Seq(PageElement), Regrouping, NEW l \in 1 .. Len(pageLines), NEW c, c = CompactLine(pageLines[l])
    PROVE  /\ WordsOfPlaces(pageLines[l]) /\ pageLines[l][1][1] \in Places(pageLines[l])
           /\ \E x, y \in Int : c.at = <<x, y>>
           /\ c.is = "line" /\ c.words = pageLines[l] /\ c.style = CharStyle(pageLines[l][1][1])
           /\ c.runs = IF Len(BuildRuns(pageLines[l])) > 1 THEN BuildRuns(pageLines[l]) ELSE <<>>
<1> DEFINE line == pageLines[l]
           n == Len(pool)
           P == Places(line)
           x == [i \in P |-> pool[i].x0]
           y == [i \in P |-> pool[i].y0]
<1>1. n \in Nat /\ Located(pool, pageLines) /\ \A i \in 1 .. n : pool[i].x0 \in Int /\ pool[i].y0 \in Int
  BY LinesOfPool
<1>2. /\ Listed(line) /\ Len(line) # 0
      /\ \A w \in 1 .. Len(line) :
           /\ Listed(line[w]) /\ Len(line[w]) # 0
           /\ \A k \in 1 .. Len(line[w]) : line[w][k] \in 1 .. n
  BY <1>1 DEF Located
<1>3. WordsOfPlaces(line)
  BY <1>1, <1>2 DEF WordsOfPlaces
<1>4. \A i : i \in P <=> \E w \in 1 .. Len(line) : \E k \in 1 .. Len(line[w]) : line[w][k] = i
  <2>1. Listed(line) /\ \A w \in 1 .. Len(line) : Listed(line[w])
    BY <1>2
  <2>2. QED
    BY ONLY <2>1, InPlaces
<1>5. line[1][1] \in P
  <2>1. 1 \in 1 .. Len(line)
    BY <1>2, ListIs
  <2>2. 1 \in 1 .. Len(line[1])
    BY <1>2, <2>1, ListIs
  <2>3. QED
    BY <1>4, <2>1, <2>2
<1>6. P \in SUBSET (1 .. n) /\ P # {}
  BY <1>2, <1>4, <1>5
<1>7. /\ \A i \in P : x[i] \in Int /\ y[i] \in Int
      /\ {pool[i].x0 : i \in P} = {x[i] : i \in P} /\ {pool[i].y0 : i \in P} = {y[i] : i \in P}
  BY <1>1, <1>6
<1>8. /\ c.at = <<Min({pool[i].y0 : i \in P}), Min({pool[i].x0 : i \in P})>>
      /\ c.is = "line" /\ c.words = line /\ c.style = CharStyle(line[1][1])
      /\ c.runs = IF Len(BuildRuns(line)) > 1 THEN BuildRuns(line) ELSE <<>>
  BY DEF CompactLine
<1> HIDE DEF P, n, x, y
<1>9. Min({x[i] : i \in P}) \in Int
  <2>1. n \in Nat /\ \A i \in P : x[i] \in Int
    BY <1>1, <1>7
  <2>2. QED
    BY ONLY <1>6, <2>1, EndsAre
<1>10. Min({y[i] : i \in P}) \in Int
  <2>1. n \in Nat /\ \A i \in P : y[i] \in Int
    BY <1>1, <1>7
  <2>2. QED
    BY ONLY <1>6, <2>1, EndsAre
<1>11. QED
  BY <1>3, <1>5, <1>7, <1>8, <1>9, <1>10 DEF P

OthersOf == {i \in 1 .. Len(given) : given[i].is # "text"}

(* Everything else, once each.                                             *)
LEMMA OthersAre ==
    ASSUME given \in Seq(PageElement)
    PROVE  Enumerates(Others, OthersOf)
<1> DEFINE n == Len(given)
           ss == [i \in 1 .. n |-> IF given[i].is = "text" THEN <<>> ELSE <<i>>]
           G == [i \in 1 .. n |-> IF given[i].is = "text" THEN {} ELSE {i}]
<1>1. n \in Nat /\ DOMAIN given = 1 .. n
  OBVIOUS
<1>2. /\ ss = [i \in 1 .. n |-> ss[i]]
      /\ \A i \in 1 .. n : Enumerates(ss[i], G[i])
      /\ \A i, j \in 1 .. n : i # j => G[i] \cap G[j] = {}
  BY NothingEnumerated, OneEnumerated
<1>3. Others = FlattenSeq(ss)
  BY <1>1 DEF Others
<1>4. AllOf(G, n) = OthersOf
  BY DEF AllOf, OthersOf
<1> HIDE DEF ss, G
<1>5. AllEnumerate(ss, G, n)
  BY <1>1, <1>2 DEF AllEnumerate
<1>6. Enumerates(FlattenSeq(ss), AllOf(G, n))
  BY <1>5, EnumeratedFlat
<1>7. QED
  BY <1>3, <1>4, <1>6

\* What an element that is not text becomes.
Untouched(i) == [is |-> "element", at |-> given[i].at, index |-> i]

(* What there is to put out.                                               *)
LEMMA ItemsAre ==
    ASSUME given \in Seq(PageElement), Regrouping
    PROVE  /\ Listed(Items) /\ Len(Items) = Len(pageLines) + Len(Others) /\ Len(Others) \in Nat
           /\ \A l \in 1 .. Len(pageLines) : Items[l] = CompactLine(pageLines[l])
           /\ \A k \in 1 .. Len(Others) : Items[Len(pageLines) + k] = Untouched(Others[k])
           /\ \A i \in 1 .. Len(Items) : \E x, y \in Int : Items[i].at = <<x, y>>
<1> DEFINE s == [l \in 1 .. Len(pageLines) |-> CompactLine(pageLines[l])]
           t == [k \in 1 .. Len(Others) |-> Untouched(Others[k])]
<1>1. Len(pageLines) \in Nat /\ DOMAIN pageLines = 1 .. Len(pageLines)
  BY LinesOfPool
<1>2. Enumerates(Others, OthersOf)
  BY OthersAre
<1>3. Len(Others) \in Nat /\ DOMAIN Others = 1 .. Len(Others)
  BY <1>2, ListIs DEF Enumerates
<1>4. Items = s \o t
  BY <1>1, <1>3 DEF Items, Untouched
<1>5. /\ s = [l \in 1 .. Len(pageLines) |-> s[l]] /\ t = [k \in 1 .. Len(Others) |-> t[k]]
      /\ \A l \in 1 .. Len(pageLines) : s[l] = CompactLine(pageLines[l])
      /\ \A k \in 1 .. Len(Others) : t[k] = Untouched(Others[k])
  OBVIOUS
<1> HIDE DEF s, t
<1>6. Listed(s) /\ Len(s) = Len(pageLines) /\ Listed(t) /\ Len(t) = Len(Others)
  BY <1>1, <1>3, <1>5, BuiltIs
<1>7. /\ Listed(Items) /\ Len(Items) = Len(pageLines) + Len(Others)
      /\ \A l \in 1 .. Len(pageLines) : Items[l] = s[l]
      /\ \A k \in 1 .. Len(Others) : Items[Len(pageLines) + k] = t[k]
  <2>1. /\ Listed(s \o t) /\ Len(s \o t) = Len(s) + Len(t)
        /\ \A l \in 1 .. Len(s) : (s \o t)[l] = s[l]
        /\ \A k \in 1 .. Len(t) : (s \o t)[Len(s) + k] = t[k]
    BY ONLY <1>6, JoinIs
  <2>2. QED
    BY <1>4, <1>6, <2>1
<1>8. ASSUME NEW i \in 1 .. Len(Items) PROVE \E x, y \in Int : Items[i].at = <<x, y>>
  <2>1. CASE i <= Len(pageLines)
    <3>1. i \in 1 .. Len(pageLines)
      BY <1>1, <1>3, <1>7, <2>1
    <3>2. PICK c : c = CompactLine(pageLines[i])
      OBVIOUS
    <3>3. \E x, y \in Int : c.at = <<x, y>>
      BY <3>1, <3>2, CompactIs
    <3>4. Items[i] = c
      BY <1>5, <1>7, <3>1, <3>2
    <3>5. QED
      BY <3>3, <3>4
  <2>2. CASE ~ (i <= Len(pageLines))
    <3> DEFINE k == i - Len(pageLines)
    <3>1. k \in 1 .. Len(Others) /\ i = Len(pageLines) + k
      BY <1>1, <1>3, <1>7, <2>2
    <3>2. Items[i] = Untouched(Others[k])
      BY <1>5, <1>7, <3>1
    <3>3. Others[k] \in 1 .. Len(given)
      BY <1>2, <3>1 DEF Enumerates, OthersOf
    <3>4. PICK j \in 1 .. Len(given) : j = Others[k]
      BY <3>3
    <3>5. given[j].at = <<given[j].at[1], given[j].at[2]>> /\ given[j].at[1] \in Int /\ given[j].at[2] \in Int
      BY GivenIs
    <3>6. Items[i].at = given[j].at
      BY <3>2, <3>4 DEF Untouched
    <3>7. QED
      BY <3>5, <3>6
  <2>3. QED
    BY <2>1, <2>2
<1>9. QED
  BY <1>3, <1>5, <1>7, <1>8

(* The order in which it is put out.                                       *)
LEMMA ItemsOrdered ==
    ASSUME given \in Seq(PageElement), Regrouping
    PROVE  /\ Reorders(Order, Len(Items)) /\ DOMAIN Items = 1 .. Len(Items) /\ Len(Items) \in Nat
           /\ \A i, j \in 1 .. Len(Items) : i < j => ~ Less(Items[Order[j]].at, Items[Order[i]].at)
<1> DEFINE n == Len(Items)
           X(i) == Items[i].at[1]
           Y(i) == Items[i].at[2]
           keys == [i \in DOMAIN Items |-> <<Items[i].at[1], Items[i].at[2], i>>]
<1>1. Listed(Items) /\ \A i \in 1 .. n : \E x, y \in Int : Items[i].at = <<x, y>>
  BY ItemsAre
<1>2. n \in Nat /\ DOMAIN Items = 1 .. n
  BY <1>1, ListIs
<1>3. \A i \in 1 .. n : X(i) \in Int /\ Y(i) \in Int /\ Items[i].at = <<X(i), Y(i)>> /\ i \in Int
  BY <1>1, <1>2
<1>4. ASSUME NEW i \in 1 .. n, NEW j \in 1 .. n
      PROVE  Less(keys[i], keys[j]) <=> X(i) < X(j) \/ (X(i) = X(j) /\ (Y(i) < Y(j) \/ (Y(i) = Y(j) /\ i < j)))
  <2>1. keys[i] = <<X(i), Y(i), i>> /\ keys[j] = <<X(j), Y(j), j>>
    BY <1>2
  <2>2. Less(<<X(i), Y(i), i>>, <<X(j), Y(j), j>>) <=>
          X(i) < X(j) \/ (X(i) = X(j) /\ (Y(i) < Y(j) \/ (Y(i) = Y(j) /\ i < j)))
    BY LessOfThree
  <2>3. QED
    BY <2>1, <2>2
<1>5. ASSUME NEW i \in 1 .. n, NEW j \in 1 .. n
      PROVE  Less(Items[i].at, Items[j].at) <=> X(i) < X(j) \/ (X(i) = X(j) /\ Y(i) < Y(j))
  <2>1. Items[i].at = <<X(i), Y(i)>> /\ Items[j].at = <<X(j), Y(j)>>
    BY <1>3
  <2>2. Less(<<X(i), Y(i)>>, <<X(j), Y(j)>>) <=> X(i) < X(j) \/ (X(i) = X(j) /\ Y(i) < Y(j))
    BY LessOfTwo
  <2>3. QED
    BY <2>1, <2>2
<1>6. DOMAIN keys = 1 .. n
  BY <1>2
<1> HIDE DEF keys, X, Y, n
<1>7. Ordered(keys, n)
  <2>1. \A i \in 1 .. n : ~ Less(keys[i], keys[i])
    BY <1>3, <1>4
  <2>2. ASSUME NEW i \in 1 .. n, NEW j \in 1 .. n, i # j PROVE Less(keys[i], keys[j]) \/ Less(keys[j], keys[i])
    BY <1>3, <1>4, <2>2
  <2>3. ASSUME NEW i \in 1 .. n, NEW j \in 1 .. n, NEW k \in 1 .. n, Less(keys[i], keys[j]), Less(keys[j], keys[k])
        PROVE  Less(keys[i], keys[k])
    <3>1. /\ X(i) \in Int /\ Y(i) \in Int /\ i \in Int /\ X(j) \in Int /\ Y(j) \in Int /\ j \in Int
          /\ X(k) \in Int /\ Y(k) \in Int /\ k \in Int
      BY <1>3
    <3>2. X(i) < X(j) \/ (X(i) = X(j) /\ (Y(i) < Y(j) \/ (Y(i) = Y(j) /\ i < j)))
      BY <1>4, <2>3
    <3>3. X(j) < X(k) \/ (X(j) = X(k) /\ (Y(j) < Y(k) \/ (Y(j) = Y(k) /\ j < k)))
      BY <1>4, <2>3
    <3>4. X(i) < X(k) \/ (X(i) = X(k) /\ (Y(i) < Y(k) \/ (Y(i) = Y(k) /\ i < k)))
      BY <3>1, <3>2, <3>3
    <3>5. QED
      BY <1>4, <3>4
  <2>4. QED
    BY <1>6, <2>1, <2>2, <2>3 DEF Ordered
<1>8. Order = InOrder(keys)
  BY DEF Order, keys
<1>9. n \in Nat
  BY <1>2
<1>10. Reorders(Order, n) /\ \A i, j \in 1 .. n : i < j => Less(keys[Order[i]], keys[Order[j]])
  BY <1>7, <1>8, <1>9, InOrderIs
<1>11. ASSUME NEW i \in 1 .. n, NEW j \in 1 .. n, i < j
       PROVE  ~ Less(Items[Order[j]].at, Items[Order[i]].at)
  <2>1. PICK a \in 1 .. n : a = Order[i]
    BY <1>10 DEF Reorders
  <2>2. PICK b \in 1 .. n : b = Order[j]
    BY <1>10 DEF Reorders
  <2>3. Less(keys[a], keys[b])
    BY <1>10, <1>11, <2>1, <2>2
  <2>4. X(a) < X(b) \/ (X(a) = X(b) /\ (Y(a) < Y(b) \/ (Y(a) = Y(b) /\ a < b)))
    BY <1>4, <2>3
  <2>5. X(a) \in Int /\ Y(a) \in Int /\ X(b) \in Int /\ Y(b) \in Int
    BY <1>3
  <2>6. ~ (X(b) < X(a) \/ (X(b) = X(a) /\ Y(b) < Y(a)))
    BY <2>4, <2>5
  <2>7. ~ Less(Items[b].at, Items[a].at)
    BY <1>5, <2>6
  <2>8. QED
    BY <2>1, <2>2, <2>7
<1>12. QED
  BY <1>2, <1>10, <1>11 DEF n

\* The page is out.
PageOutIs ==
    /\ given \in Seq(PageElement) /\ Regrouping
    /\ output = [i \in DOMAIN Items |-> Items[Order[i]]]

(* Where what is out comes from.                                           *)
LEMMA OutputIs ==
    ASSUME PageOutIs
    PROVE  /\ DOMAIN output = 1 .. Len(Items) /\ Reorders(Order, Len(Items)) /\ LinesOut \subseteq 1 .. Len(Items)
           /\ \A o \in 1 .. Len(Items) :
                \/ /\ o \in LinesOut /\ Order[o] \in 1 .. Len(pageLines) /\ output[o] = CompactLine(pageLines[Order[o]])
                   /\ output[o].words = pageLines[Order[o]]
                \/ /\ o \notin LinesOut /\ Order[o] - Len(pageLines) \in 1 .. Len(Others)
                   /\ output[o] = Untouched(Others[Order[o] - Len(pageLines)])
<1>1. /\ Reorders(Order, Len(Items)) /\ DOMAIN Items = 1 .. Len(Items) /\ Len(Items) \in Nat
  BY ItemsOrdered DEF PageOutIs
<1>2. DOMAIN output = 1 .. Len(Items) /\ \A o \in 1 .. Len(Items) : output[o] = Items[Order[o]]
  BY <1>1 DEF PageOutIs
<1>3. ASSUME NEW o \in 1 .. Len(Items)
      PROVE  \/ /\ o \in LinesOut /\ Order[o] \in 1 .. Len(pageLines) /\ output[o] = CompactLine(pageLines[Order[o]])
                /\ output[o].words = pageLines[Order[o]]
             \/ /\ o \notin LinesOut /\ Order[o] - Len(pageLines) \in 1 .. Len(Others)
                /\ output[o] = Untouched(Others[Order[o] - Len(pageLines)])
  <2>1. PICK p \in 1 .. Len(Items) : p = Order[o]
    BY <1>1 DEF Reorders
  <2>2. output[o] = Items[p]
    BY <1>2, <2>1
  <2>3. /\ Len(Items) = Len(pageLines) + Len(Others) /\ Len(Others) \in Nat
        /\ \A l \in 1 .. Len(pageLines) : Items[l] = CompactLine(pageLines[l])
        /\ \A k \in 1 .. Len(Others) : Items[Len(pageLines) + k] = Untouched(Others[k])
    BY ItemsAre DEF PageOutIs
  <2>4. Len(pageLines) \in Nat
    BY LinesOfPool DEF PageOutIs
  <2>5. CASE p <= Len(pageLines)
    <3>1. p \in 1 .. Len(pageLines)
      BY <2>5
    <3>2. output[o] = CompactLine(pageLines[p])
      BY <2>2, <2>3, <3>1
    <3>3. output[o].is = "line" /\ output[o].words = pageLines[p]
      BY <3>1, <3>2, CompactIs DEF PageOutIs
    <3>4. o \in LinesOut
      BY <1>2, <3>3 DEF LinesOut
    <3>5. QED
      BY <2>1, <3>1, <3>2, <3>3, <3>4
  <2>6. CASE ~ (p <= Len(pageLines))
    <3>1. p - Len(pageLines) \in 1 .. Len(Others) /\ p = Len(pageLines) + (p - Len(pageLines))
      BY <2>3, <2>4, <2>6
    <3>2. output[o] = Untouched(Others[p - Len(pageLines)])
      BY <2>2, <2>3, <3>1
    <3>3. output[o].is = "element"
      BY <3>2 DEF Untouched
    <3>4. o \notin LinesOut
      BY <3>3 DEF LinesOut
    <3>5. QED
      BY <2>1, <3>1, <3>2, <3>4
  <2>7. QED
    BY <2>5, <2>6
<1>4. LinesOut \subseteq 1 .. Len(Items)
  BY <1>2 DEF LinesOut
<1>5. QED
  BY <1>1, <1>2, <1>3, <1>4

\* The spot a glyph is at: in the line that is put out o-th.
SpotIs(s) ==
    \E o \in LinesOut : \E w \in 1 .. Len(pageLines[Order[o]]) : \E k \in 1 .. Len(pageLines[Order[o]][w]) : s = <<o, w, k>>

(* The spots and the glyphs of the pool there.                             *)
LEMMA SpotsAre ==
    ASSUME PageOutIs
    PROVE  /\ \A o \in LinesOut : Order[o] \in 1 .. Len(pageLines)
           /\ \A s : s \in Spots <=> SpotIs(s)
           /\ \A o \in LinesOut : \A w, k : PlaceAt(<<o, w, k>>) = pageLines[Order[o]][w][k]
<1>1. \A o \in LinesOut : Order[o] \in 1 .. Len(pageLines) /\ output[o].words = pageLines[Order[o]]
  BY OutputIs
<1>2. \A o \in LinesOut : \A w, k : PlaceAt(<<o, w, k>>) = pageLines[Order[o]][w][k]
  BY <1>1 DEF PlaceAt
<1>3. Located(pool, pageLines)
  BY LinesOfPool DEF PageOutIs
<1>4. \A l \in 1 .. Len(pageLines) :
        /\ DOMAIN pageLines[l] = 1 .. Len(pageLines[l])
        /\ \A w \in 1 .. Len(pageLines[l]) : DOMAIN pageLines[l][w] = 1 .. Len(pageLines[l][w])
  BY <1>3, ListIs DEF Located
<1>5. \A s : s \in Spots <=>
        \E o \in LinesOut : \E w \in DOMAIN output[o].words : \E k \in DOMAIN output[o].words[w] : s = <<o, w, k>>
  BY DEF Spots
<1>6. ASSUME NEW o \in LinesOut
      PROVE  /\ DOMAIN output[o].words = 1 .. Len(pageLines[Order[o]])
             /\ \A w \in 1 .. Len(pageLines[Order[o]]) :
                  DOMAIN output[o].words[w] = 1 .. Len(pageLines[Order[o]][w])
  <2>1. PICK l \in 1 .. Len(pageLines) : l = Order[o]
    BY <1>1
  <2>2. output[o].words = pageLines[l]
    BY <1>1, <2>1
  <2>3. QED
    BY <1>4, <2>1, <2>2
<1>7. \A s : s \in Spots <=> SpotIs(s)
  <2> DEFINE W(o) == 1 .. Len(pageLines[Order[o]])
             K(o, w) == 1 .. Len(pageLines[Order[o]][w])
  <2>1. \A s : SpotIs(s) <=> \E o \in LinesOut : \E w \in W(o) : \E k \in K(o, w) : s = <<o, w, k>>
    BY DEF SpotIs
  <2>2. \A o \in LinesOut : DOMAIN output[o].words = W(o) /\ \A w \in W(o) : DOMAIN output[o].words[w] = K(o, w)
    BY <1>6
  <2> HIDE DEF W, K
  <2>3. ASSUME NEW s, s \in Spots PROVE SpotIs(s)
    BY <1>5, <2>1, <2>2, <2>3
  <2>4. ASSUME NEW s, SpotIs(s) PROVE s \in Spots
    BY <1>5, <2>1, <2>2, <2>4
  <2>5. QED
    BY <2>3, <2>4
<1>8. QED
  BY <1>1, <1>2, <1>7

(* What a spot holds.                                                      *)
LEMMA SpotHolds ==
    ASSUME PageOutIs, NEW s \in Spots
    PROVE  /\ PlaceAt(s) \in 1 .. Len(pool) /\ ~ pool[PlaceAt(s)].blank
           /\ Origin(s) \in GlyphsOfPage /\ Origin(s) = pool[PlaceAt(s)].from
           /\ pool[PlaceAt(s)] = Raw(Origin(s)[1], Origin(s)[2], Origin(s)[3], Origin(s)[4])
<1>1. PICK o \in LinesOut : \E w \in 1 .. Len(pageLines[Order[o]]) :
         \E k \in 1 .. Len(pageLines[Order[o]][w]) : s = <<o, w, k>>
  BY SpotsAre DEF SpotIs
<1>2. PICK l \in 1 .. Len(pageLines) : l = Order[o]
  BY SpotsAre
<1>3. PICK w \in 1 .. Len(pageLines[l]) : \E k \in 1 .. Len(pageLines[l][w]) : s = <<o, w, k>>
  BY <1>1, <1>2
<1>4. PICK k \in 1 .. Len(pageLines[l][w]) : s = <<o, w, k>>
  BY <1>3
<1>5. PlaceAt(s) = pageLines[l][w][k]
  BY <1>2, <1>4, SpotsAre
<1>6. Located(pool, pageLines)
  BY LinesOfPool DEF PageOutIs
<1>7. PICK i \in 1 .. Len(pool) : i = PlaceAt(s) /\ ~ pool[i].blank
  <2>1. pageLines[l][w][k] \in 1 .. Len(pool) /\ ~ pool[pageLines[l][w][k]].blank
    BY <1>6 DEF Located
  <2>2. QED
    BY <1>5, <2>1
<1>8. /\ pool[i].from \in GlyphsOfPage
      /\ pool[i] = Raw(pool[i].from[1], pool[i].from[2], pool[i].from[3], pool[i].from[4])
  BY <1>7, LinesOfPool DEF PageOutIs
<1>9. Origin(s) = pool[i].from
  BY <1>7 DEF Origin
<1>10. QED
  BY <1>7, <1>8, <1>9

(* A glyph of the page.                                                    *)
LEMMA GlyphOfPageIs ==
    ASSUME given \in Seq(PageElement), NEW g \in GlyphsOfPage
    PROVE  /\ g[1] \in 1 .. Len(given) /\ given[g[1]].is = "text"
           /\ g[2] \in 1 .. Len(given[g[1]].lines) /\ g[3] \in 1 .. Len(given[g[1]].lines[g[2]].words)
           /\ g[4] \in 1 .. Len(given[g[1]].lines[g[2]].words[g[3]]) /\ g = <<g[1], g[2], g[3], g[4]>>
           /\ g \in GlyphsOfFirst(Len(given)) /\ GlyphsOfFirst(Len(given)) = GlyphsOfPage
<1>1. DOMAIN given = 1 .. Len(given)
  OBVIOUS
<1>2. GlyphsOfFirst(Len(given)) = GlyphsOfPage
  BY <1>1 DEF GlyphsOfFirst, GlyphsOfPage
<1>3. PICK i \in 1 .. Len(given) : given[i].is = "text" /\ g \in GlyphsOf(i)
  BY <1>1 DEF GlyphsOfPage
<1>4. PICK l \in 1 .. Len(given[i].lines) : \E w \in 1 .. Len(given[i].lines[l].words) :
               \E k \in 1 .. Len(given[i].lines[l].words[w]) : g = <<i, l, w, k>>
  BY <1>3, GlyphsOfIs
<1>5. PICK w \in 1 .. Len(given[i].lines[l].words) :
               \E k \in 1 .. Len(given[i].lines[l].words[w]) : g = <<i, l, w, k>>
  BY <1>4
<1>6. PICK k \in 1 .. Len(given[i].lines[l].words[w]) : g = <<i, l, w, k>>
  BY <1>5
<1>7. g[1] = i /\ g[2] = l /\ g[3] = w /\ g[4] = k
  BY <1>6
<1>8. QED
  BY <1>2, <1>3, <1>6, <1>7

(* Every glyph of the page is out, once.                                   *)
LEMMA GlyphsAreKept ==
    ASSUME PageOutIs
    PROVE  GlyphsKept
<1>0. given \in Seq(PageElement) /\ Regrouping
  BY DEF PageOutIs
<1>1. Enumerates(pool, PiecesOfFirst(Len(given))) /\ Located(pool, pageLines)
  BY <1>0, LinesOfPool
<1>2. \A s \in Spots : Origin(s) \in GlyphsOfPage
  BY SpotHolds
<1>3. ASSUME NEW g \in GlyphsOfPage PROVE \E s \in Spots : Origin(s) = g
  <2>1. /\ g[1] \in 1 .. Len(given) /\ given[g[1]].is = "text" /\ g \in GlyphsOf(g[1])
    <3>1. PICK i \in 1 .. Len(given) : given[i].is = "text" /\ g \in GlyphsOf(i)
      <4>1. DOMAIN given = 1 .. Len(given)
        BY <1>0
      <4>2. QED
        BY <4>1 DEF GlyphsOfPage
    <3>2. g[1] = i
      BY <1>0, <3>1, GlyphsOfIs
    <3>3. QED
      BY <3>1, <3>2
  <2>2. PICK c : c = Raw(g[1], g[2], g[3], g[4])
    OBVIOUS
  <2>3. c \in PiecesOf(g[1])
    BY <1>0, <2>1, <2>2, PiecesAre
  <2>4. c \in PiecesOfFirst(Len(given))
    BY <2>1, <2>3 DEF PiecesOfFirst
  <2>5. ~ c.blank /\ c.from = g
    <3>1. /\ g[2] \in 1 .. Len(given[g[1]].lines) /\ g[3] \in 1 .. Len(given[g[1]].lines[g[2]].words)
          /\ g[4] \in 1 .. Len(given[g[1]].lines[g[2]].words[g[3]]) /\ g = <<g[1], g[2], g[3], g[4]>>
      BY <1>0, GlyphOfPageIs
    <3>2. ~ c.blank /\ c.from = <<g[1], g[2], g[3], g[4]>>
      BY <1>0, <2>1, <2>2, <3>1, RawIs
    <3>3. QED
      BY <3>1, <3>2
  <2>6. PICK i \in 1 .. Len(pool) : pool[i] = c
    BY <1>1, <2>4 DEF Enumerates
  <2>7. PICK l \in 1 .. Len(pageLines) : \E w \in 1 .. Len(pageLines[l]) :
           \E k \in 1 .. Len(pageLines[l][w]) : pageLines[l][w][k] = i
    BY <1>1, <2>5, <2>6 DEF Located
  <2>8. PICK w \in 1 .. Len(pageLines[l]) : \E k \in 1 .. Len(pageLines[l][w]) : pageLines[l][w][k] = i
    BY <2>7
  <2>9. PICK k \in 1 .. Len(pageLines[l][w]) : pageLines[l][w][k] = i
    BY <2>8
  <2>10. PICK o \in LinesOut : Order[o] = l
    <3>1. Len(Items) = Len(pageLines) + Len(Others) /\ Len(Others) \in Nat /\ Len(pageLines) \in Nat
      BY <1>0, ItemsAre, LinesOfPool
    <3>2. l \in 1 .. Len(Items)
      BY <3>1
    <3>3. Reorders(Order, Len(Items))
      BY OutputIs
    <3>4. PICK o \in 1 .. Len(Items) : Order[o] = l
      BY <3>2, <3>3 DEF Reorders
    <3>5. ~ (l - Len(pageLines) \in 1 .. Len(Others))
      BY <3>1
    <3>6. o \in LinesOut
      BY <3>4, <3>5, OutputIs
    <3>7. QED
      BY <3>4, <3>6
  <2>11. <<o, w, k>> \in Spots
    BY <2>10, SpotsAre DEF SpotIs
  <2>12. PlaceAt(<<o, w, k>>) = i
    BY <2>9, <2>10, SpotsAre
  <2>13. Origin(<<o, w, k>>) = g
    BY <2>5, <2>6, <2>12 DEF Origin
  <2>14. QED
    BY <2>11, <2>13
<1>4. ASSUME NEW s \in Spots, NEW t \in Spots, Origin(s) = Origin(t) PROVE s = t
  <2>1. /\ PlaceAt(s) \in 1 .. Len(pool) /\ PlaceAt(t) \in 1 .. Len(pool) /\ pool[PlaceAt(s)] = pool[PlaceAt(t)]
    BY <1>4, SpotHolds
  <2>2. PlaceAt(s) = PlaceAt(t)
    BY <1>1, <2>1 DEF Enumerates
  <2>3. PICK o \in LinesOut : \E w \in 1 .. Len(pageLines[Order[o]]) :
           \E k \in 1 .. Len(pageLines[Order[o]][w]) : s = <<o, w, k>>
    BY SpotsAre DEF SpotIs
  <2>4. PICK w \in 1 .. Len(pageLines[Order[o]]) : \E k \in 1 .. Len(pageLines[Order[o]][w]) : s = <<o, w, k>>
    BY <2>3
  <2>5. PICK k \in 1 .. Len(pageLines[Order[o]][w]) : s = <<o, w, k>>
    BY <2>4
  <2>6. PICK p \in LinesOut : \E v \in 1 .. Len(pageLines[Order[p]]) :
           \E j \in 1 .. Len(pageLines[Order[p]][v]) : t = <<p, v, j>>
    BY SpotsAre DEF SpotIs
  <2>7. PICK v \in 1 .. Len(pageLines[Order[p]]) : \E j \in 1 .. Len(pageLines[Order[p]][v]) : t = <<p, v, j>>
    BY <2>6
  <2>8. PICK j \in 1 .. Len(pageLines[Order[p]][v]) : t = <<p, v, j>>
    BY <2>7
  <2>9. PICK l \in 1 .. Len(pageLines) : l = Order[o]
    BY SpotsAre
  <2>10. PICK m \in 1 .. Len(pageLines) : m = Order[p]
    BY SpotsAre
  <2>11. pageLines[l][w][k] = pageLines[m][v][j]
    <3>1. PlaceAt(s) = pageLines[l][w][k]
      BY <2>5, <2>9, SpotsAre
    <3>2. PlaceAt(t) = pageLines[m][v][j]
      BY <2>8, <2>10, SpotsAre
    <3>3. QED
      BY <2>2, <3>1, <3>2
  <2>12. /\ w \in 1 .. Len(pageLines[l]) /\ k \in 1 .. Len(pageLines[l][w])
         /\ v \in 1 .. Len(pageLines[m]) /\ j \in 1 .. Len(pageLines[m][v])
    BY <2>4, <2>5, <2>7, <2>8, <2>9, <2>10
  <2>13. l = m /\ w = v /\ k = j
    <3>1. \A l1, m1 \in 1 .. Len(pageLines) : \A w1 \in 1 .. Len(pageLines[l1]), v1 \in 1 .. Len(pageLines[m1]) :
            \A k1 \in 1 .. Len(pageLines[l1][w1]), j1 \in 1 .. Len(pageLines[m1][v1]) :
              pageLines[l1][w1][k1] = pageLines[m1][v1][j1] => l1 = m1 /\ w1 = v1 /\ k1 = j1
      BY <1>1 DEF Located
    <3>2. \A w1 \in 1 .. Len(pageLines[l]), v1 \in 1 .. Len(pageLines[m]) :
            \A k1 \in 1 .. Len(pageLines[l][w1]), j1 \in 1 .. Len(pageLines[m][v1]) :
              pageLines[l][w1][k1] = pageLines[m][v1][j1] => l = m /\ w1 = v1 /\ k1 = j1
      BY <3>1
    <3>3. \A k1 \in 1 .. Len(pageLines[l][w]), j1 \in 1 .. Len(pageLines[m][v]) :
              pageLines[l][w][k1] = pageLines[m][v][j1] => l = m /\ w = v /\ k1 = j1
      BY <2>12, <3>2
    <3>4. QED
      BY <2>11, <2>12, <3>3
  <2>14. o = p
    <3>1. Reorders(Order, Len(Items)) /\ LinesOut \subseteq 1 .. Len(Items)
      BY OutputIs
    <3>2. Order[o] = Order[p]
      BY <2>9, <2>10, <2>13
    <3>3. QED
      BY <3>1, <3>2 DEF Reorders
  <2>15. QED
    BY <2>5, <2>8, <2>13, <2>14
<1>5. QED
  BY <1>2, <1>3, <1>4 DEF GlyphsKept

(* What is pooled of a glyph of the page.                                  *)
LEMMA PooledGlyph ==
    ASSUME given \in Seq(PageElement), NEW g \in GlyphsOfPage, NEW c, c = Raw(g[1], g[2], g[3], g[4])
    PROVE  /\ g[3] \in Nat /\ c.base = given[g[1]].lines[g[2]].base /\ c.x0 = GlyphAt(g).box[1]
           /\ c.char = GlyphAt(g).char /\ c.char # BlankCode
<1>1. /\ g[1] \in 1 .. Len(given) /\ g[2] \in 1 .. Len(given[g[1]].lines)
      /\ g[3] \in 1 .. Len(given[g[1]].lines[g[2]].words)
      /\ g[4] \in 1 .. Len(given[g[1]].lines[g[2]].words[g[3]]) /\ g = <<g[1], g[2], g[3], g[4]>>
  BY GlyphOfPageIs
<1>2. PICK i \in 1 .. Len(given) : i = g[1]
  BY <1>1
<1>3. PICK l \in 1 .. Len(given[i].lines) : l = g[2]
  BY <1>1, <1>2
<1>4. PICK w \in 1 .. Len(given[i].lines[l].words) : w = g[3]
  BY <1>1, <1>2, <1>3
<1>5. PICK k \in 1 .. Len(given[i].lines[l].words[w]) : k = g[4]
  BY <1>1, <1>2, <1>3, <1>4
<1>6. c = Raw(i, l, w, k) /\ g = <<i, l, w, k>>
  BY <1>1, <1>2, <1>3, <1>4, <1>5
<1>7. /\ c.base = given[i].lines[l].base /\ c.x0 = GlyphAt(<<i, l, w, k>>).box[1]
      /\ c.char = GlyphAt(<<i, l, w, k>>).char /\ c.char # BlankCode
  BY <1>6, RawIs
<1>8. given[i].lines[l] \in PageLine
  BY GivenIs
<1>9. Len(given[i].lines[l].words) \in Nat
  BY <1>8, LineIs
<1>10. QED
  BY <1>2, <1>3, <1>4, <1>6, <1>7, <1>9

(* The blank before its word, which is in the pool.                        *)
LEMMA PooledBlank ==
    ASSUME given \in Seq(PageElement), NEW g \in GlyphsOfPage, g[3] # 1, NEW c, c = WordSeparator(g[1], g[2], g[3])
    PROVE  /\ c.blank /\ c.base = given[g[1]].lines[g[2]].base /\ c.char = BlankCode /\ c.x0 \in Int /\ c.base \in Int
           /\ c.x0 <= GlyphAt(g).box[1] /\ c \in PiecesOfFirst(Len(given))
<1>1. /\ g[1] \in 1 .. Len(given) /\ given[g[1]].is = "text" /\ g[2] \in 1 .. Len(given[g[1]].lines)
      /\ g[3] \in 1 .. Len(given[g[1]].lines[g[2]].words)
      /\ g[4] \in 1 .. Len(given[g[1]].lines[g[2]].words[g[3]]) /\ g = <<g[1], g[2], g[3], g[4]>>
  BY GlyphOfPageIs
<1>2. PICK i \in 1 .. Len(given) : i = g[1] /\ given[i].is = "text"
  BY <1>1
<1>3. PICK l \in 1 .. Len(given[i].lines) : l = g[2]
  BY <1>1, <1>2
<1>4. PICK w \in 1 .. Len(given[i].lines[l].words) : w = g[3]
  BY <1>1, <1>2, <1>3
<1>5. PICK k \in 1 .. Len(given[i].lines[l].words[w]) : k = g[4]
  BY <1>1, <1>2, <1>3, <1>4
<1>6. c = WordSeparator(i, l, w) /\ w # 1 /\ g = <<i, l, w, k>>
  BY <1>1, <1>2, <1>3, <1>4, <1>5
<1>7. /\ c.blank /\ c.base = given[i].lines[l].base /\ c.char = BlankCode /\ c.x0 \in Int /\ c.base \in Int
      /\ c.x0 <= GlyphAt(<<i, l, w, k>>).box[1]
  BY <1>6, SeparatorIs
<1>8. c \in PiecesOfFirst(Len(given))
  <2>1. c \in PiecesOfWord(i, l, w)
    BY <1>6 DEF PiecesOfWord
  <2>2. c \in PiecesOfLine(i, l)
    BY <2>1 DEF PiecesOfLine
  <2>3. c \in PiecesOf(i)
    BY <2>2 DEF PiecesOf
  <2>4. QED
    BY <1>2, <2>3 DEF PiecesOfFirst
<1>9. QED
  BY <1>2, <1>3, <1>6, <1>7, <1>8

(* A blank between two words sorts between them, or not before the second. *)
LEMMA BoundariesAreKept ==
    ASSUME PageOutIs
    PROVE  BoundariesKept
<1>0. given \in Seq(PageElement) /\ Regrouping
  BY DEF PageOutIs
<1>1. /\ Enumerates(pool, PiecesOfFirst(Len(given))) /\ Located(pool, pageLines) /\ Len(pool) \in Nat
      /\ \A i \in 1 .. Len(pool) : pool[i].base \in Int /\ pool[i].x0 \in Int /\ pool[i].char \in Int
  BY <1>0, LinesOfPool
<1>2. Sorted(pool)
  BY <1>0 DEF Regrouping
<1> SUFFICES ASSUME NEW s \in Spots, s[3] > 1,
                    NEW a, a = Origin(<<s[1], s[2], s[3] - 1>>), NEW b, b = Origin(s),
                    a[1] = b[1], a[2] = b[2], a[3] < b[3]
             PROVE  GlyphAt(a).box[1] >= WordSeparator(b[1], b[2], b[3]).x0 \/ GlyphAt(b).char < BlankCode
  BY DEF BoundariesKept
<1>3. PICK o \in LinesOut : \E w \in 1 .. Len(pageLines[Order[o]]) :
         \E k \in 1 .. Len(pageLines[Order[o]][w]) : s = <<o, w, k>>
  BY SpotsAre DEF SpotIs
<1>4. PICK l \in 1 .. Len(pageLines) : l = Order[o]
  BY SpotsAre
<1>5. PICK w \in 1 .. Len(pageLines[l]) : \E k \in 1 .. Len(pageLines[l][w]) : s = <<o, w, k>>
  BY <1>3, <1>4
<1>6. PICK k \in 1 .. Len(pageLines[l][w]) : s = <<o, w, k>>
  BY <1>5
<1>7. PICK t : t = <<o, w, k - 1>>
  OBVIOUS
<1>8. t = <<s[1], s[2], s[3] - 1>> /\ s[3] = k /\ k > 1
  BY <1>6, <1>7
<1>9. k - 1 \in 1 .. Len(pageLines[l][w]) /\ k # 1
  <2>1. Len(pageLines[l][w]) \in Nat
    <3>1. Listed(pageLines[l][w])
      BY <1>1 DEF Located
    <3>2. QED
      BY <3>1, ListIs
  <2>2. QED
    BY <1>8, <2>1
<1>10. t \in Spots
  BY <1>4, <1>7, <1>9, SpotsAre DEF SpotIs
<1>11. PICK i : i = PlaceAt(t)
  OBVIOUS
<1>12. PICK j : j = PlaceAt(s)
  OBVIOUS
<1>13. /\ i \in 1 .. Len(pool) /\ ~ pool[i].blank /\ a = Origin(t) /\ a = pool[i].from /\ a \in GlyphsOfPage
       /\ pool[i] = Raw(a[1], a[2], a[3], a[4])
  BY <1>8, <1>10, <1>11, SpotHolds
<1>14. /\ j \in 1 .. Len(pool) /\ ~ pool[j].blank /\ b = pool[j].from /\ b \in GlyphsOfPage
       /\ pool[j] = Raw(b[1], b[2], b[3], b[4])
  BY <1>12, SpotHolds
<1>15. j = i + 1
  <2>1. i = pageLines[l][w][k - 1] /\ j = pageLines[l][w][k]
    BY <1>4, <1>6, <1>7, <1>11, <1>12, SpotsAre
  <2>2. pageLines[l][w][k] = pageLines[l][w][k - 1] + 1
    <3>1. \A m \in 1 .. Len(pageLines) : \A v \in 1 .. Len(pageLines[m]) : FollowOn(pageLines[m][v])
      BY <1>1 DEF Located
    <3>2. FollowOn(pageLines[l][w])
      BY <3>1
    <3>3. QED
      BY <1>9, <3>2 DEF FollowOn
  <2>3. QED
    BY <1>9, <2>1, <2>2
<1>18. /\ pool[i].base = given[a[1]].lines[a[2]].base /\ pool[i].x0 = GlyphAt(a).box[1] /\ a[3] \in Nat
  <2>1. PICK c : c = pool[i]
    OBVIOUS
  <2>2. c.base = given[a[1]].lines[a[2]].base /\ c.x0 = GlyphAt(a).box[1] /\ a[3] \in Nat
    BY <1>0, <1>13, <2>1, PooledGlyph
  <2>3. QED
    BY <2>1, <2>2
<1>19. /\ pool[j].base = given[b[1]].lines[b[2]].base /\ pool[j].char # BlankCode
       /\ pool[j].x0 = GlyphAt(b).box[1] /\ pool[j].char = GlyphAt(b).char /\ b[3] \in Nat
  <2>1. PICK c : c = pool[j]
    OBVIOUS
  <2>2. /\ c.base = given[b[1]].lines[b[2]].base /\ c.char # BlankCode
        /\ c.x0 = GlyphAt(b).box[1] /\ c.char = GlyphAt(b).char /\ b[3] \in Nat
    BY <1>0, <1>14, <2>1, PooledGlyph
  <2>3. QED
    BY <2>1, <2>2
<1>20. PICK c : c = WordSeparator(b[1], b[2], b[3])
  OBVIOUS
<1>21. b[3] # 1
  <2>1. GlyphsOfPage # {} /\ a[3] # 0
    BY <1>0, <1>13, GlyphOfPageIs
  <2>2. QED
    BY <1>18, <1>19, <2>1
<1>22. /\ c.blank /\ c.base = given[b[1]].lines[b[2]].base /\ c.char = BlankCode /\ c.x0 \in Int /\ c.base \in Int
       /\ c.x0 <= GlyphAt(b).box[1] /\ c \in PiecesOfFirst(Len(given))
  BY <1>0, <1>14, <1>20, <1>21, PooledBlank
<1>24. PICK q \in 1 .. Len(pool) : pool[q] = c
  BY <1>1, <1>22 DEF Enumerates
<1>25. q < i \/ j < q
  <2>1. q # i /\ q # j
    BY <1>13, <1>14, <1>22, <1>24
  <2>2. q \in Int /\ i \in Int /\ j \in Int
    BY <1>13, <1>14
  <2>3. QED
    BY <1>15, <2>1, <2>2
<1>26. /\ pool[i].x0 \in Int /\ pool[j].x0 \in Int /\ pool[j].char \in Int
       /\ pool[i].base = c.base /\ pool[j].base = c.base
  <2>1. given[a[1]].lines[a[2]].base = given[b[1]].lines[b[2]].base
    OBVIOUS
  <2>2. QED
    BY <1>1, <1>13, <1>14, <1>18, <1>19, <1>22, <2>1
<1>27. CASE q < i
  <2>1. NotAfter(c, pool[i])
    BY <1>2, <1>13, <1>24, <1>27 DEF Sorted
  <2>2. c.x0 <= pool[i].x0
    <3>1. c.base < pool[i].base \/ (c.base = pool[i].base /\ (c.x0 < pool[i].x0 \/ c.x0 = pool[i].x0))
      BY <2>1 DEF NotAfter
    <3>2. c.base \in Int /\ c.x0 \in Int /\ pool[i].x0 \in Int /\ pool[i].base = c.base
      BY <1>22, <1>26
    <3>3. QED
      BY ONLY <3>1, <3>2
  <2>3. QED
    BY <1>18, <1>20, <1>22, <1>26, <2>2
<1>28. CASE j < q
  <2>1. NotAfter(pool[j], c)
    BY <1>2, <1>14, <1>24, <1>28 DEF Sorted
  <2>2. pool[j].char <= BlankCode
    <3>1. /\ pool[j].base < c.base \/ (pool[j].base = c.base /\ (pool[j].x0 < c.x0 \/ (pool[j].x0 = c.x0 /\ pool[j].char <= c.char)))
      BY <2>1 DEF NotAfter
    <3>2. c.x0 <= pool[j].x0 /\ c.base \in Int /\ c.x0 \in Int /\ pool[j].x0 \in Int /\ pool[j].base = c.base
      BY <1>19, <1>22, <1>26
    <3>3. pool[j].char <= c.char
      BY ONLY <3>1, <3>2
    <3>4. QED
      BY <1>22, <3>3
  <2>3. pool[j].char < BlankCode
    BY <1>19, <1>26, <2>2 DEF BlankCode
  <2>4. QED
    BY <1>19, <2>3
<1>29. QED
  BY <1>25, <1>27, <1>28

(* The map has the style of the last element with that glyph.              *)
LEMMA StylesAreKept ==
    ASSUME PageOutIs
    PROVE  StylesKept
<1>0. given \in Seq(PageElement) /\ PoolIs(pool, styles, Len(given))
  BY DEF PageOutIs, Regrouping
<1> SUFFICES ASSUME NEW s \in Spots
             PROVE  \E g \in GlyphsOfPage :
                      /\ KeyAt(g) = KeyAt(Origin(s)) /\ CharStyle(PlaceAt(s)) = given[g[1]].style
                      /\ \A h \in GlyphsOfPage : KeyAt(h) = KeyAt(Origin(s)) => h[1] <= g[1]
  BY DEF StylesKept
<1>1. PICK f \in GlyphsOfPage : f = Origin(s) /\ pool[PlaceAt(s)] = Raw(f[1], f[2], f[3], f[4])
  BY SpotHolds
<1>2. /\ f[1] \in 1 .. Len(given) /\ f[2] \in 1 .. Len(given[f[1]].lines)
      /\ f[3] \in 1 .. Len(given[f[1]].lines[f[2]].words)
      /\ f[4] \in 1 .. Len(given[f[1]].lines[f[2]].words[f[3]]) /\ f = <<f[1], f[2], f[3], f[4]>>
      /\ GlyphsOfFirst(Len(given)) = GlyphsOfPage
  BY <1>0, GlyphOfPageIs
<1>3. pool[PlaceAt(s)].key = KeyAt(f)
  <2>1. pool[PlaceAt(s)].key = KeyAt(<<f[1], f[2], f[3], f[4]>>)
    BY <1>0, <1>1, <1>2, RawIs
  <2>2. QED
    BY <1>2, <2>1
<1>4. KeyAt(f) \in DOMAIN styles /\ LatestStyle(Len(given), KeyAt(f), styles[KeyAt(f)])
  BY <1>0, <1>2 DEF PoolIs
<1>5. CharStyle(PlaceAt(s)) = styles[KeyAt(f)]
  BY <1>3 DEF CharStyle
<1>6. QED
  BY <1>1, <1>2, <1>4, <1>5 DEF LatestStyle

(* Everything else is out, once, and in order.                             *)
LEMMA OthersAreKept ==
    ASSUME PageOutIs
    PROVE  OthersKept
<1>0. given \in Seq(PageElement) /\ Regrouping /\ Enumerates(Others, OthersOf) /\ DOMAIN given = 1 .. Len(given)
  BY OthersAre DEF PageOutIs
<1>1. /\ DOMAIN output = 1 .. Len(Items) /\ Reorders(Order, Len(Items))
  BY OutputIs
<1>2. ASSUME NEW o \in DOMAIN output \ LinesOut
      PROVE  Order[o] - Len(pageLines) \in 1 .. Len(Others) /\ output[o] = Untouched(Others[Order[o] - Len(pageLines)])
  BY <1>1, OutputIs
<1>3. Len(Items) = Len(pageLines) + Len(Others) /\ Len(Others) \in Nat /\ Len(pageLines) \in Nat
  BY <1>0, ItemsAre, LinesOfPool
<1>4. ASSUME NEW i \in DOMAIN given, given[i].is # "text"
      PROVE  \E o \in DOMAIN output : output[o] = [is |-> "element", at |-> given[i].at, index |-> i]
  <2>1. i \in OthersOf
    BY <1>0, <1>4 DEF OthersOf
  <2>2. PICK k \in 1 .. Len(Others) : Others[k] = i
    BY <1>0, <2>1 DEF Enumerates
  <2>3. Len(pageLines) + k \in 1 .. Len(Items) /\ ~ (Len(pageLines) + k \in 1 .. Len(pageLines))
    BY <1>3
  <2>4. PICK o \in 1 .. Len(Items) : Order[o] = Len(pageLines) + k
    BY <1>1, <2>3 DEF Reorders
  <2>5. o \notin LinesOut
    BY <2>3, <2>4, OutputIs
  <2>6. Order[o] - Len(pageLines) = k
    BY <1>3, <2>4
  <2>7. output[o] = Untouched(i)
    BY <1>1, <1>2, <2>2, <2>5, <2>6
  <2>8. QED
    BY <1>1, <2>7 DEF Untouched
<1>5. ASSUME NEW o \in DOMAIN output \ LinesOut
      PROVE  /\ output[o].index \in DOMAIN given /\ given[output[o].index].is # "text"
             /\ \A p \in DOMAIN output \ LinesOut : output[p].index = output[o].index => p = o
  <2>1. PICK k \in 1 .. Len(Others) : k = Order[o] - Len(pageLines)
    BY <1>2
  <2>2. output[o].index = Others[k]
    BY <1>2, <2>1 DEF Untouched
  <2>3. Others[k] \in OthersOf
    BY <1>0 DEF Enumerates
  <2>4. ASSUME NEW p \in DOMAIN output \ LinesOut, output[p].index = output[o].index PROVE p = o
    <3>1. PICK j \in 1 .. Len(Others) : j = Order[p] - Len(pageLines)
      BY <1>2
    <3>2. output[p].index = Others[j]
      BY <1>2, <3>1 DEF Untouched
    <3>3. j = k
      BY <1>0, <2>2, <2>4, <3>2 DEF Enumerates
    <3>4. Order[p] \in Int /\ Order[o] \in Int
      <4>1. PICK u : u = Order
        OBVIOUS
      <4>2. u \in [1 .. Len(Items) -> 1 .. Len(Items)]
        BY <1>1, <4>1 DEF Reorders
      <4>3. p \in 1 .. Len(Items) /\ o \in 1 .. Len(Items)
        BY <1>1, <2>4
      <4>4. u[p] \in 1 .. Len(Items) /\ u[o] \in 1 .. Len(Items)
        BY <4>2, <4>3
      <4>5. QED
        BY <4>1, <4>4
    <3>5. Order[p] = Order[o]
      BY <1>3, <2>1, <3>1, <3>3, <3>4
    <3>6. o \in 1 .. Len(Items) /\ p \in 1 .. Len(Items)
      BY <1>1, <2>4
    <3>7. \A i, m \in 1 .. Len(Items) : Order[i] = Order[m] => i = m
      <4>1. PICK u : u = Order
        OBVIOUS
      <4>2. Reorders(u, Len(Items))
        BY <1>1, <4>1
      <4>3. \A i, m \in 1 .. Len(Items) : u[i] = u[m] => i = m
        BY <4>2 DEF Reorders
      <4>4. QED
        BY <4>1, <4>3
    <3>8. QED
      BY <3>5, <3>6, <3>7
  <2>5. QED
    BY <1>0, <2>2, <2>3, <2>4 DEF OthersOf
<1>6. ASSUME NEW p \in DOMAIN output, NEW o \in DOMAIN output, p < o
      PROVE  ~ Less(output[o].at, output[p].at)
  <2>1. \A i, j \in 1 .. Len(Items) : i < j => ~ Less(Items[Order[j]].at, Items[Order[i]].at)
    BY <1>0, ItemsOrdered
  <2>2. output[o] = Items[Order[o]] /\ output[p] = Items[Order[p]]
    BY <1>0, <1>1, ItemsOrdered DEF PageOutIs
  <2>3. QED
    BY <1>1, <1>6, <2>1, <2>2
<1>7. QED
  BY <1>4, <1>5, <1>6 DEF OthersKept

(* The runs of a line spell it.                                            *)
LEMMA RunsAreSpelled ==
    ASSUME PageOutIs, NEW o \in LinesOut
    PROVE  RunsSpell(o) /\ \E l \in DOMAIN pageLines : output[o].words = pageLines[l]
<1>0. given \in Seq(PageElement) /\ Regrouping
  BY DEF PageOutIs
<1>1. PICK l \in 1 .. Len(pageLines) : l = Order[o]
  BY SpotsAre
<1>2. output[o] = CompactLine(pageLines[l]) /\ output[o].words = pageLines[l]
  BY <1>1, OutputIs
<1>3. DOMAIN pageLines = 1 .. Len(pageLines)
  BY <1>0, LinesOfPool
<1>4. PICK line : line = pageLines[l]
  OBVIOUS
<1>5. PICK built : built = BuildRuns(line)
  OBVIOUS
<1>6. /\ WordsOfPlaces(line) /\ line[1][1] \in Places(line) /\ output[o].style = CharStyle(line[1][1])
      /\ output[o].runs = IF Len(built) > 1 THEN built ELSE <<>>
  BY <1>0, <1>2, <1>4, <1>5, CompactIs
<1>7. /\ Len(built) \in Nat /\ DOMAIN built = 1 .. Len(built) /\ built # <<>>
      /\ Len(built) > 1 =>
           /\ FlattenSeq([r \in DOMAIN built |-> built[r].content]) = FlattenSeq(Spaced(line))
           /\ \A r \in DOMAIN built :
                /\ r > 1 => built[r].style # built[r - 1].style
                /\ \A k \in DOMAIN built[r].content :
                      built[r].content[k] # 0 => CharStyle(built[r].content[k]) = built[r].style
      /\ ~ (Len(built) > 1) => \A i, j \in Places(line) : CharStyle(i) = CharStyle(j)
  BY <1>5, <1>6, LineSpells
<1>8. output[o].words = line
  BY <1>2, <1>4
<1>9. CASE Len(built) > 1
  <2>1. output[o].runs = built
    BY <1>6, <1>9
  <2>2. QED
    BY <1>2, <1>3, <1>7, <1>8, <1>9, <2>1 DEF RunsSpell, Spaced
<1>10. CASE ~ (Len(built) > 1)
  <2>1. output[o].runs = <<>>
    BY <1>6, <1>10
  <2>2. QED
    BY <1>2, <1>3, <1>6, <1>7, <1>8, <1>10, <2>1 DEF RunsSpell
<1>11. QED
  BY <1>9, <1>10

(* What holds in the end is what is promised.                              *)
LEMMA RegroupInvRegroups == RegroupInv => Regrouped
<1> SUFFICES ASSUME RegroupInv, stage = "done", pool # <<>> PROVE Regrouped
  BY DEF Regrouped
<1>1. PageOutIs
  BY DEF RegroupInv, PageOutIs
<1>2. Grouped(pool, pageLines)
  BY <1>1, LinesOfPool DEF PageOutIs
<1>3. GlyphsKept /\ BoundariesKept /\ StylesKept /\ OthersKept
  BY <1>1, GlyphsAreKept, BoundariesAreKept, StylesAreKept, OthersAreKept
<1>4. \A o \in LinesOut : RunsSpell(o) /\ \E l \in DOMAIN pageLines : output[o].words = pageLines[l]
  BY <1>1, RunsAreSpelled
<1>5. QED
  BY <1>2, <1>3, <1>4 DEF Regrouped

(* A page whose text came out one glyph at a time comes out as lines of    *)
(* words: every glyph once, a word boundary of the source kept where the   *)
(* boxes leave room for it, each glyph in the style of the last element    *)
(* that has it there, the runs of a line spelling its words, and           *)
(* everything else of the page among the lines in the order of the         *)
(* corners, for any page (regroup_page_lines, build_runs and               *)
(* compact_fragmented_elements).                                           *)
THEOREM PagesAreRegrouped == ASSUME PagesTyped PROVE RegroupSpec => []Regrouped
<1>1. RegroupInit => RegroupInv
  BY RegroupInvInit
<1>2. RegroupInv /\ [RegroupNext]_regroupVars => RegroupInv'
  BY RegroupInvNext
<1>3. RegroupInv => Regrouped
  BY RegroupInvRegroups
<1>4. QED
  BY <1>1, <1>2, <1>3, PTL DEF RegroupSpec
=============================================================================
