------------------------------ MODULE MCMarkdown ------------------------------
(* The documents that are written as Markdown in MCConversions; places are *)
(* in halves of a point. A grid of two rows and three columns with any     *)
(* of its inner walls drawn, with every cell filled or one empty; pages of *)
(* two columns whose lines are whole, split, bullets, numbers, larger or   *)
(* bold, with and without a title across; tables without rulings; slides   *)
(* with a table and hidden text.                                           *)
EXTENDS Integers, Sequences

PlainText(id, box) ==
  [id |-> id, box |-> box, size |-> 20, bold |-> FALSE, chars |-> 12, words |-> 2,
   label |-> FALSE, mark |-> "none", rest |-> FALSE, role |-> 0]
Outline(x0, y0, x1, y1) ==
  [box |-> << x0 - 2, y0 - 2, x1 + 2, y1 + 2 >>, stroke |-> TRUE, fill |-> FALSE, width |-> 2]
Rule(x0, y0, x1, y1) ==
  [box |-> IF x0 = x1 THEN << x0 - 1, y0, x1 + 1, y1 >> ELSE << x0, y0 - 1, x1, y1 + 1 >>,
   stroke |-> TRUE, fill |-> FALSE, width |-> 2]
PageWith(texts, paths) ==
  [width |-> 1200, texts |-> texts, paths |-> paths, links |-> << >>, tables |-> << >>, hidden |-> << >>]
PdfWith(page) == [format |-> "pdf", pages |-> << page >>, warnings |-> 0]

InnerWalls ==
  << Rule(80, 0, 80, 40), Rule(160, 0, 160, 40), Rule(80, 40, 80, 80), Rule(160, 40, 160, 80),
     Rule(0, 40, 80, 40), Rule(80, 40, 160, 40), Rule(160, 40, 240, 40) >>
Drawn(on) ==
  LET which == SelectSeq(<< 1, 2, 3, 4, 5, 6, 7 >>, LAMBDA i : on[i]) IN [i \in DOMAIN which |-> InnerWalls[which[i]]]
GridCell(k) ==
  LET x == 80 * ((k - 1) % 3)
      y == 40 * ((k - 1) \div 3)
  IN PlainText(k, << x + 10, y + 10, x + 50, y + 30 >>)
GridTexts(empty) ==
  SelectSeq([k \in 1..6 |-> GridCell(k)], LAMBDA t : t.id # empty) \o << PlainText(7, << 0, 200, 300, 220 >>) >>
GridDocuments ==
  { PdfWith(PageWith(GridTexts(empty), << Outline(0, 0, 240, 80) >> \o Drawn(on))) :
      empty \in {0, 5}, on \in [1..7 -> BOOLEAN] }

LineShapes == {"line", "split", "bullet", "large", "larger", "bold", "number"}
TextLine(id, shape, x, y) ==
  LET t == [PlainText(id, << x, y, x + 400, y + 20 >>) EXCEPT !.chars = 40, !.words = 8]
  IN CASE shape = "line" -> << t >>
       [] shape = "split" -> << [t EXCEPT !.box = << x, y, x + 200, y + 20 >>],
                                [t EXCEPT !.id = id + 1, !.box = << x + 210, y + 4, x + 400, y + 24 >>] >>
       [] shape = "bullet" -> << [t EXCEPT !.box = << x, y, x + 10, y + 20 >>, !.mark = "bullet", !.chars = 1, !.words = 1],
                                 [t EXCEPT !.id = id + 1, !.box = << x + 30, y, x + 400, y + 20 >>] >>
       [] shape = "large" -> << [t EXCEPT !.size = 30, !.box = << x, y, x + 300, y + 24 >>] >>
       [] shape = "larger" -> << [t EXCEPT !.size = 40, !.box = << x, y, x + 300, y + 24 >>] >>
       [] shape = "bold" -> << [t EXCEPT !.bold = TRUE] >>
       [] shape = "number" -> << [t EXCEPT !.mark = "number", !.rest = TRUE] >>
Titled(title, lines) ==
  LET heading == [PlainText(1, << 100, 40, 1000, 80 >>) EXCEPT !.size = 60, !.chars = 30]
      page == PageWith(IF title THEN << heading >> \o lines ELSE lines, << >>)
  IN IF title THEN [page EXCEPT !.links = << [box |-> << 100, 195, 200, 210 >>, uri |-> 1],
                                             [box |-> << 100, 120, 560, 210 >>, uri |-> 2] >>]
     ELSE page
FlowDocuments ==
  { PdfWith(Titled(title, TextLine(10, a, 100, 120) \o TextLine(20, b, 100, 150) \o TextLine(30, "line", 100, 200)
      \o TextLine(40, c, right, 120) \o TextLine(50, "line", right, 146) \o TextLine(60, d, right, 190))) :
      title \in BOOLEAN, a \in LineShapes, b \in {"line", "split", "bullet", "bold"},
      c \in {"line", "number", "larger"}, d \in {"line", "large"}, right \in {560, 510} }

\* Nine texts in three columns, some gone, one that reaches across.
BareText(k, words, label) ==
  LET x == 200 * ((k - 1) % 3)
      y == 40 * ((k - 1) \div 3)
  IN [PlainText(k, << x, y, x + 100, y + 20 >>) EXCEPT !.words = words, !.label = label]
BareDocuments ==
  { PdfWith(PageWith(SelectSeq([k \in 1..9 |-> IF k = 4 /\ wide THEN [BareText(k, words, label) EXCEPT !.box[3] = 300]
                                               ELSE BareText(k, words, label)],
                               LAMBDA t : t.id \notin gone), << >>)) :
      wide \in BOOLEAN, label \in BOOLEAN, words \in {1, 4},
      gone \in {{}, {5}, {2, 5, 8}, {3, 6, 9}, {5, 6, 8, 9}, {2, 3, 5, 9}} }

RuledGrid(x, y, w, h) ==
  << Outline(x, y, x + 2 * w, y + 2 * h), Rule(x + w, y, x + w, y + 2 * h), Rule(x, y + h, x + 2 * w, y + h) >>
RuledTexts(id, x, y, w, h) ==
  [k \in 1..4 |-> PlainText(id + k, << x + w * ((k - 1) % 2) + 4, y + h * ((k - 1) \div 2) + 4,
                                       x + w * ((k - 1) % 2) + w - 4, y + h * ((k - 1) \div 2) + h - 4 >>)]
\* Two grids whose edges nearly meet, above texts that line up with them.
BesideDocument ==
  PdfWith(PageWith(RuledTexts(10, 0, 0, 100, 40) \o RuledTexts(20, 204, 0, 100, 40)
                     \o RuledTexts(30, 0, 100, 100, 40) \o RuledTexts(40, 300, 100, 100, 40),
                   RuledGrid(0, 0, 100, 40) \o RuledGrid(204, 0, 100, 40)))
\* A grid within a cell of another.
NestedDocument ==
  PdfWith(PageWith(RuledTexts(10, 0, 0, 200, 200) \o RuledTexts(20, 20, 20, 60, 40),
                   RuledGrid(0, 0, 200, 200) \o RuledGrid(20, 20, 60, 40)))
SlideDocuments ==
  { [format |-> "pptx", warnings |-> Len(h), pages |->
      << [PageWith(<< [PlainText(1, << 0, 0, 300, 40 >>) EXCEPT !.role = 1], PlainText(2, << 0, 100, 300, 120 >>) >>,
                   RuledGrid(0, 0, 200, 200))
           EXCEPT !.tables = << [id |-> 3, box |-> << 0, 200, 300, 300 >>,
                                 cells |-> << [row |-> 1, col |-> 1, rowSpan |-> 1, colSpan |-> 2, texts |-> << 4 >>] >>] >>,
                  !.hidden = h],
         PageWith(<< PlainText(5, << 0, 0, 300, 40 >>) >>, << >>) >>] : h \in { << >>, << 9 >> } }
\* A cover of large text alone, before the body of the document.
CoverDocument ==
  [PdfWith(PageWith(TextLine(50, "large", 100, 120) \o TextLine(60, "larger", 100, 200), << >>)) EXCEPT
     !.pages = Append(@, Titled(TRUE, TextLine(10, "line", 100, 120) \o TextLine(20, "split", 100, 150)
                                        \o TextLine(30, "line", 100, 200)))]

MarkdownDocuments ==
  GridDocuments \cup FlowDocuments \cup BareDocuments \cup SlideDocuments
    \cup {BesideDocument, NestedDocument, CoverDocument}
===============================================================================
