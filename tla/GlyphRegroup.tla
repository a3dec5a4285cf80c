---------------------------- MODULE GlyphRegroup ----------------------------
(***************************************************************************)
(* The compact projection of a page whose text came out one glyph at a     *)
(* time (docray-model: regroup.rs, compact_page of lib.rs).  Such a page's *)
(* glyphs are pooled, with a blank for every word boundary the source had, *)
(* sorted, grouped into lines again and given back their styles by a map   *)
(* keyed on the box and the content of a glyph.                            *)
(*                                                                         *)
(*   element [is, at, style, size, lines]   is: "text" or "other"          *)
(*   at <<y0, x0>> of its box; a line is [base, words], a word a sequence  *)
(*   of glyphs [box, char]; char is the place of the content in the order  *)
(*   of strings, where the blank has the place BlankCode: a control        *)
(*   character sorts before it                                             *)
(***************************************************************************)
EXTENDS TextLines, Integers, FiniteSets, FiniteSetsExt

CONSTANTS Pages, MinElements

BlankCode == 0

BoxedGlyph == [box : Int \X Int \X Int \X Int, char : Int \ {BlankCode}]
PageLine == [base : Int, words : Seq(Seq(BoxedGlyph) \ {<<>>})]
PageElement == [is : {"text", "other"}, at : Int \X Int, style : Int, size : Int, lines : Seq(PageLine)]

\* What pages are: a word of a line has a glyph, and no glyph is a blank.
PagesTyped == Pages \subseteq Seq(PageElement)

VARIABLES given, stage, pooled, pool, styles, pageLines, output

regroupVars == <<given, stage, pooled, pool, styles, pageLines, output>>

RegroupInit ==
    /\ given \in Pages
    /\ stage = "look" /\ pooled = 0
    /\ pool = <<>> /\ styles = <<>> /\ pageLines = <<>> /\ output = <<>>

GlyphCount(e) == FoldLeft(LAMBDA n, line : n + FoldLeft(LAMBDA m, w : m + Len(w), 0, line.words), 0, e.lines)

\* At least MinElements text elements with glyphs, three in five of them with
\* a single one.
IsGlyphFragmented ==
    LET inked == {i \in DOMAIN given : given[i].is = "text" /\ GlyphCount(given[i]) > 0}
        single == {i \in inked : GlyphCount(given[i]) = 1}
    IN  Cardinality(inked) >= MinElements /\ 10 * Cardinality(single) >= 6 * Cardinality(inked)

Less(a, b) == \E i \in DOMAIN a : a[i] < b[i] /\ \A j \in 1 .. i - 1 : a[j] = b[j]

\* The places of distinct keys, those with fewer keys before them first.
InOrder(keys) ==
    [n \in DOMAIN keys |->
        CHOOSE i \in DOMAIN keys : Cardinality({j \in DOMAIN keys : Less(keys[j], keys[i])}) = n - 1]

Look ==
    /\ stage = "look"
    /\ IF IsGlyphFragmented THEN stage' = "pool" /\ UNCHANGED output
       ELSE /\ stage' = "done"
            /\ output' = [i \in DOMAIN given |-> [is |-> "element", at |-> given[i].at, index |-> i]]
    /\ UNCHANGED <<given, pooled, pool, styles, pageLines>>
-----------------------------------------------------------------------------
(* Pooling *)

Key(box, char) == <<box, char>>

\* Glyph k of word w of line l of element i.
Raw(i, l, w, k) ==
    LET line == given[i].lines[l]
        g == line.words[w][k]
    IN  [blank |-> FALSE, x0 |-> g.box[1], x1 |-> g.box[3], base |-> line.base, size |-> given[i].size,
         y0 |-> g.box[2], char |-> g.char, key |-> Key(g.box, g.char), from |-> <<i, l, w, k>>]

Outer(word) == [x0 |-> Min({word[k].box[1] : k \in DOMAIN word}), x1 |-> Max({word[k].box[3] : k \in DOMAIN word}),
                y0 |-> Min({word[k].box[2] : k \in DOMAIN word})]

\* Mutant of WordSeparator: the blank sits after the word it should precede.
WordSeparatorLate(i, l, w) ==
    LET line == given[i].lines[l]
        after == Outer(line.words[w])
    IN  [blank |-> TRUE, x0 |-> after.x1, x1 |-> after.x1, base |-> line.base, size |-> given[i].size,
         y0 |-> after.y0, char |-> BlankCode, key |-> <<>>, from |-> <<i, l, w, 0>>]

\* The blank between two words of a source line spans the gap, or sits where
\* the next word starts when their boxes overlap.
WordSeparator(i, l, w) ==
    LET line == given[i].lines[l]
        before == Outer(line.words[w - 1])
        after == Outer(line.words[w])
        x0 == Min({before.x1, after.x0})
    IN  [blank |-> TRUE, x0 |-> x0, x1 |-> Max({after.x0, x0}), base |-> line.base, size |-> given[i].size,
         y0 |-> after.y0, char |-> BlankCode, key |-> <<>>, from |-> <<i, l, w, 0>>]

PooledWord(i, l, w) ==
    (IF w = 1 THEN <<>> ELSE <<WordSeparator(i, l, w)>>)
      \o [k \in DOMAIN given[i].lines[l].words[w] |-> Raw(i, l, w, k)]
PooledLine(i, l) == FlattenSeq([w \in DOMAIN given[i].lines[l].words |-> PooledWord(i, l, w)])

\* The glyphs of one element; a key seen before takes the later style.
PoolElement ==
    LET i == pooled + 1
        e == given[i]
        fresh == FlattenSeq([l \in DOMAIN e.lines |-> PooledLine(i, l)])
        keys == {fresh[n].key : n \in {m \in DOMAIN fresh : ~ fresh[m].blank}}
    IN  /\ stage = "pool" /\ pooled < Len(given)
        /\ IF e.is = "text"
           THEN /\ pool' = pool \o fresh
                /\ styles' = [key \in keys \cup DOMAIN styles |-> IF key \in keys THEN e.style ELSE styles[key]]
           ELSE UNCHANGED <<pool, styles>>
        /\ pooled' = i
        /\ UNCHANGED <<given, stage, pageLines, output>>
-----------------------------------------------------------------------------
(* Regrouping: a total order by baseline, place, content and origin *)

SortKey(c, i) == <<c.base, c.x0, c.char, i>>

RegroupPageLines ==
    LET places == InOrder([i \in DOMAIN pool |-> SortKey(pool[i], i)])
    IN  /\ stage = "pool" /\ pooled = Len(given)
        /\ pool' = [i \in DOMAIN pool |-> pool[places[i]]]
        /\ pageLines' = GroupIntoLines(pool')
        /\ stage' = "project"
        /\ UNCHANGED <<given, pooled, styles, output>>

\* The style map is only ever looked up.
CharStyle(i) == styles[pool[i].key]

\* The places of a line's words, and 0 for the blank between two words, which
\* takes the style of the glyph before it.
Spelled(line) ==
    FlattenSeq([w \in DOMAIN line |->
      (IF w = 1 THEN <<>> ELSE <<[place |-> 0, style |-> CharStyle(Last(line[w - 1]))]>>)
        \o [k \in DOMAIN line[w] |-> [place |-> line[w][k], style |-> CharStyle(line[w][k])]]])

\* Neighbours of one style are one run.
Put(runs, c) ==
    IF runs # <<>> /\ Last(runs).style = c.style
    THEN [runs EXCEPT ![Len(runs)] = [style |-> c.style, content |-> Append(@.content, c.place)]]
    ELSE Append(runs, [style |-> c.style, content |-> <<c.place>>])
BuildRuns(line) ==
    LET spelled == Spelled(line)
        runs[n \in 0 .. Len(spelled)] == IF n = 0 THEN <<>> ELSE Put(runs[n - 1], spelled[n])
    IN  runs[Len(spelled)]

CompactLine(line) ==
    LET runs == BuildRuns(line)
    IN  [is |-> "line", at |-> <<Min({pool[i].y0 : i \in Places(line)}), Min({pool[i].x0 : i \in Places(line)})>>,
         words |-> line, style |-> CharStyle(line[1][1]), runs |-> IF Len(runs) > 1 THEN runs ELSE <<>>]

\* Lines, then everything else, in the order of their upper left corners.
CompactFragmentedElements ==
    LET others == FlattenSeq([i \in DOMAIN given |-> IF given[i].is = "text" THEN <<>> ELSE <<i>>])
        items == [l \in DOMAIN pageLines |-> CompactLine(pageLines[l])]
                   \o [i \in DOMAIN others |-> [is |-> "element", at |-> given[others[i]].at, index |-> others[i]]]
        order == InOrder([i \in DOMAIN items |-> <<items[i].at[1], items[i].at[2], i>>])
    IN  /\ stage = "project"
        /\ output' = [i \in DOMAIN items |-> items[order[i]]]
        /\ stage' = "done"
        /\ UNCHANGED <<given, pooled, pool, styles, pageLines>>

RegroupNext == Look \/ PoolElement \/ RegroupPageLines \/ CompactFragmentedElements

RegroupSpec == RegroupInit /\ [][RegroupNext]_regroupVars
-----------------------------------------------------------------------------
(* Properties *)

\* The glyphs of an element and of the page, as <<element, line, word, glyph>>.
GlyphsOf(i) ==
    UNION {UNION {{<<i, l, w, k>> : k \in DOMAIN given[i].lines[l].words[w]} :
                  w \in DOMAIN given[i].lines[l].words} :
           l \in DOMAIN given[i].lines}
GlyphsOfPage == UNION {GlyphsOf(i) : i \in {j \in DOMAIN given : given[j].is = "text"}}
GlyphAt(g) == given[g[1]].lines[g[2]].words[g[3]][g[4]]
KeyAt(g) == Key(GlyphAt(g).box, GlyphAt(g).char)

\* The glyphs of the lines that are out, as <<place of the line, word, glyph>>.
LinesOut == {o \in DOMAIN output : output[o].is = "line"}
Spots ==
    UNION {UNION {{<<o, w, k>> : k \in DOMAIN output[o].words[w]} : w \in DOMAIN output[o].words} : o \in LinesOut}
PlaceAt(s) == output[s[1]].words[s[2]][s[3]]
Origin(s) == pool[PlaceAt(s)].from

\* Every glyph of the page comes out once.
GlyphsKept ==
    /\ {Origin(s) : s \in Spots} = GlyphsOfPage
    /\ \A s, t \in Spots : Origin(s) = Origin(t) => s = t

\* Two words that the source kept apart on a line are not one word, unless
\* the first one reaches to where the blank before the second one sits, or
\* the second one starts with a control character there.
BoundariesKept ==
    \A s \in Spots : s[3] > 1 =>
      LET a == Origin(<<s[1], s[2], s[3] - 1>>)
          b == Origin(s)
      IN  a[1] = b[1] /\ a[2] = b[2] /\ a[3] < b[3]
            => GlyphAt(a).box[1] >= WordSeparator(b[1], b[2], b[3]).x0 \/ GlyphAt(b).char < BlankCode

\* The runs of a line spell its words with one blank between them, each in the
\* style of its glyphs and no two neighbours in the same; without runs the
\* line has one style.
RunsSpell(o) ==
    LET runs == output[o].runs
        words == output[o].words
    IN  IF runs = <<>> THEN \A i \in Places(words) : CharStyle(i) = output[o].style
        ELSE /\ FlattenSeq([r \in DOMAIN runs |-> runs[r].content])
                  = FlattenSeq([w \in DOMAIN words |-> (IF w = 1 THEN <<>> ELSE <<0>>) \o words[w]])
             /\ \A r \in DOMAIN runs :
                  /\ r > 1 => runs[r].style # runs[r - 1].style
                  /\ \A k \in DOMAIN runs[r].content :
                        runs[r].content[k] # 0 => CharStyle(runs[r].content[k]) = runs[r].style

\* A glyph has the style of its own element unless a later one has a glyph
\* with the same content in exactly the same place.
StylesKept ==
    \A s \in Spots : \E g \in GlyphsOfPage :
      /\ KeyAt(g) = KeyAt(Origin(s)) /\ CharStyle(PlaceAt(s)) = given[g[1]].style
      /\ \A h \in GlyphsOfPage : KeyAt(h) = KeyAt(Origin(s)) => h[1] <= g[1]

\* Everything that is not text comes out once, in the order of the corners.
OthersKept ==
    /\ \A i \in DOMAIN given : given[i].is # "text" =>
         \E o \in DOMAIN output : output[o] = [is |-> "element", at |-> given[i].at, index |-> i]
    /\ \A o \in DOMAIN output \ LinesOut :
         /\ output[o].index \in DOMAIN given /\ given[output[o].index].is # "text"
         /\ \A p \in DOMAIN output \ LinesOut : output[p].index = output[o].index => p = o
    /\ \A p, o \in DOMAIN output : p < o => ~ Less(output[o].at, output[p].at)

\* The glyphs of a fragmented page come out again as lines and words, each
\* once, with their boundaries and styles, among everything else of the page
\* (regroup.rs 101-350).
Regrouped ==
    stage = "done" /\ pool # <<>> =>
      /\ Grouped(pool, pageLines) /\ \A o \in LinesOut : \E l \in DOMAIN pageLines : output[o].words = pageLines[l]
      /\ GlyphsKept /\ BoundariesKept /\ StylesKept /\ OthersKept
      /\ \A o \in LinesOut : RunsSpell(o)
=============================================================================
