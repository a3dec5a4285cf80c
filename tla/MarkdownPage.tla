---------------------------- MODULE MarkdownPage ----------------------------
(***************************************************************************)
(* The Markdown projection of a paged document (docray-model, markdown.rs: *)
(* Extraction::write_markdown).  Page by page: rulings, their components,  *)
(* ruled and borderless tables, blocks, links; then with the body size of  *)
(* the whole document: columns, inline merging, headings, reading order,   *)
(* paragraphs; at the end warnings and hidden items.                       *)
(*                                                                         *)
(*   page  [width, texts, paths, links, tables, hidden]                    *)
(*   text  [id, box, size, bold, chars, words, label, mark, rest, role]    *)
(*         mark: list marker it starts with; rest: something follows it;   *)
(*         role: heading level its hidden placeholder role gives, or 0     *)
(*   link  [box, uri]       tables: the first-class tables of a PPTX page  *)
(* Strings are numbers; escaping, styles and the letters of a marker are   *)
(* left out.                                                               *)
(***************************************************************************)
EXTENDS MarkdownAlign

CONSTANTS Documents   \* [format, pages, warnings], the number of warnings of the extraction

VARIABLES doc, stage, at, rulings, parents, row, tables, notes, blocks, out

vars == << doc, stage, at, rulings, parents, row, tables, notes, blocks, out >>

page == doc.pages[at]

Init ==
  /\ doc \in Documents
  /\ stage = "rulings" /\ at = 1
  /\ rulings = << >> /\ parents = << >> /\ row = 0
  /\ tables = << >> /\ notes = doc.warnings /\ blocks = << >> /\ out = << >>

-----------------------------------------------------------------------------
(* Tables *)

TableKey(t) == << t.box[2], t.box[1], t.box[4], t.box[3] >>
Sorted(found) == SortSeq(found, LAMBDA a, b : Before(TableKey(a), TableKey(b)))
TablesIn(found) == SelectSeq(found, LAMBDA f : f.kind = "table")
WarningsIn(found) == Len(SelectSeq(found, LAMBDA f : f.kind = "rejected"))

Gridlike(found) == Len(Along(found, "h")) >= 3 /\ Len(Along(found, "v")) >= 3

FindRulings ==
  /\ stage = "rulings"
  /\ \E found \in { RulingsOf(page.paths) } :
       IF doc.format # "pdf" THEN stage' = "blocks" /\ UNCHANGED << rulings, parents, notes >>
       ELSE IF Len(found) > MaxRulings THEN /\ notes' = notes + (IF Gridlike(found) THEN 1 ELSE 0)
                                            /\ stage' = "borderless"
                                            /\ UNCHANGED << rulings, parents >>
       ELSE IF ~Gridlike(found) THEN stage' = "borderless" /\ UNCHANGED << rulings, parents, notes >>
       ELSE /\ rulings' = found /\ parents' = Apart(found)
            /\ stage' = "components" /\ UNCHANGED notes
  /\ row' = 1
  /\ UNCHANGED << doc, at, tables, blocks, out >>

JoinRulings ==
  /\ stage = "components" /\ row <= Len(Along(rulings, "h"))
  /\ parents' = Crossed(rulings, parents, row)
  /\ row' = row + 1
  /\ UNCHANGED << doc, stage, at, rulings, tables, notes, blocks, out >>

TablesOf(components) == [c \in DOMAIN components |-> TableFromComponent(components[c], page.texts)]

ReconstructTables ==
  /\ stage = "components" /\ row > Len(Along(rulings, "h"))
  /\ \E found \in { TablesOf(ComponentsOf(rulings, parents)) } :
       /\ tables' = Sorted(TablesIn(found))
       /\ notes' = notes + WarningsIn(found)
  /\ stage' = "borderless"
  /\ UNCHANGED << doc, at, rulings, parents, row, blocks, out >>

FindBorderless ==
  /\ stage = "borderless"
  /\ \E found \in { AlignmentTables(page.texts, tables) } :
       /\ tables' = Sorted(tables \o TablesIn(found))
       /\ notes' = notes + WarningsIn(found)
  /\ stage' = "blocks"
  /\ UNCHANGED << doc, at, rulings, parents, row, blocks, out >>

-----------------------------------------------------------------------------
(* Blocks: one per text that no table took, one per table *)

ConsumedOnPage == UNION { Consumed(tables[i]) : i \in DOMAIN tables }

TextBlock(t) ==
  [id |-> t.id, box |-> t.box, table |-> << >>, spans |-> FALSE, size |-> t.size, bold |-> t.bold,
   chars |-> t.chars, words |-> t.words, mark |-> t.mark, rest |-> t.rest,
   parts |-> << [text |-> t.id, link |-> 0] >>, column |-> 0, heading |-> t.role]

TableBlock(id, t) ==
  [id |-> id, box |-> t.box, table |-> t.cells, size |-> 0, bold |-> FALSE,
   spans |-> \E i \in DOMAIN t.cells : t.cells[i].rowSpan > 1 \/ t.cells[i].colSpan > 1,
   chars |-> 0, words |-> 0, mark |-> "none", rest |-> FALSE, parts |-> << >>, column |-> 0, heading |-> 0]

IsTable(b) == b.table # << >>

\* Mutant of FlowText: the text of a ruled table is printed as well.
FlowTextAll(p, consumed) == p.texts
FlowText(p, consumed) == SelectSeq(p.texts, LAMBDA t : t.id \notin consumed)

OverlapArea(b, box) ==
  Larger(Smaller(b.box[3], box[3]) - Larger(b.box[1], box[1]), 0)
    * Larger(Smaller(b.box[4], box[4]) - Larger(b.box[2], box[2]), 0)

DistanceToBox(b, box) ==
  LET dx == b.box[1] + b.box[3] - box[1] - box[3]
      dy == b.box[2] + b.box[4] - box[2] - box[4]
  IN dx * dx + dy * dy

LinkKey(b, box) == << 0 - OverlapArea(b, box), DistanceToBox(b, box), b.box[2], b.box[1], b.id >>

\* A link goes to the block it overlaps most, else to the nearest one; parts
\* that have a link keep it.
Linked(bs, link) ==
  LET best == CHOOSE i \in DOMAIN bs :
                \A j \in DOMAIN bs \ {i} : Before(LinkKey(bs[i], link.box), LinkKey(bs[j], link.box))
      given(part) == IF part.link = 0 THEN [part EXCEPT !.link = link.uri] ELSE part
  IN IF bs = << >> THEN bs
     ELSE [bs EXCEPT ![best].parts = [i \in DOMAIN @ |-> given(@[i])]]

BlocksForPage(p) ==
  LET flow == FlowText(p, ConsumedOnPage)
      own == IF doc.format = "pptx" THEN p.tables ELSE << >>
      texts == [i \in DOMAIN flow |-> TextBlock(flow[i])]
      authored == [i \in DOMAIN own |-> [TableBlock(own[i].id, own[i]) EXCEPT !.spans = FALSE]]
      detected == [i \in DOMAIN tables |-> TableBlock(100 + i, tables[i])]
  IN FoldLeft(Linked, texts \o authored \o detected, p.links)

MakeBlocks ==
  /\ stage = "blocks"
  /\ blocks' = Append(blocks, BlocksForPage(page))
  /\ tables' = << >> /\ rulings' = << >> /\ parents' = << >> /\ row' = 0
  /\ IF at < Len(doc.pages) THEN at' = at + 1 /\ stage' = "rulings"
                            ELSE at' = 1 /\ stage' = "render"
  /\ UNCHANGED << doc, notes, out >>

-----------------------------------------------------------------------------
(* The body size of the document, doubled *)

BodySize2 ==
  LET sized == SelectSeq(FlattenSeq(blocks), LAMBDA b : ~IsTable(b) /\ b.size > 0)
      weight(b) == Smaller(Larger(b.chars \div 8, 1), 12)
      weighted == FlattenSeq([i \in DOMAIN sized |-> [n \in 1..weight(sized[i]) |-> sized[i].size]])
  IN IF sized = << >> THEN 40 ELSE Median2(weighted)

-----------------------------------------------------------------------------
(* Columns *)

BlockWidth(b) == Larger(b.box[3] - b.box[1], 0)
BlockHeight(b) == Larger(b.box[4] - b.box[2], 0)

Anchors(bs, width) ==
  SelectSeq(bs, LAMBDA b : ~IsTable(b) /\ (b.chars >= 20 \/ 100 * BlockWidth(b) >= 16 * width))

\* Unions of the narrow anchors' x ranges that no gutter separates.
ColumnRuns(narrow, width) ==
  LET sorted == SortSeq(narrow, LAMBDA a, b : Before(<< a.box[1], a.box[3] >>, << b.box[1], b.box[3] >>))
      put(runs, b) ==
        IF runs # << >> /\ 100 * b.box[1] <= 100 * runs[Len(runs)].x1 + Larger(2 * width, 1200)
        THEN [runs EXCEPT ![Len(runs)] =
                [x0 |-> @.x0, x1 |-> Larger(@.x1, b.box[3]), y0 |-> Smaller(@.y0, b.box[2]),
                 y1 |-> Larger(@.y1, b.box[4]), support |-> @.support + 1]]
        ELSE Append(runs, [x0 |-> b.box[1], x1 |-> b.box[3], y0 |-> b.box[2], y1 |-> b.box[4], support |-> 1])
  IN FoldLeft(put, << >>, sorted)

DetectColumns(bs, width) ==
  LET anchors == Anchors(bs, width)
      side(n) == [i \in DOMAIN anchors |-> anchors[i].box[n]]
      contentWidth == MaxOf(side(3)) - MinOf(side(1))
      contentHeight == MaxOf(side(4)) - MinOf(side(2))
      narrow == SelectSeq(anchors, LAMBDA b : 10 * BlockWidth(b) <= 6 * contentWidth)
      supported == SelectSeq(ColumnRuns(narrow, width), LAMBDA r :
                     /\ r.support >= Larger(3, Len(narrow) \div 8)
                     /\ 10 * (r.x1 - r.x0) >= width
                     /\ 2 * (r.y1 - r.y0) >= contentHeight)
  IN IF Len(anchors) < 4 THEN << >>
     ELSE IF contentWidth <= 0 \/ contentHeight <= 0 \/ Len(narrow) < 4 \/ Len(supported) < 2 THEN << >>
     ELSE supported

ColumnDistance(x, c) == Larger(Larger(c.x0 - x, x - c.x1), 0)

\* Mutant of ColumnFor: the right edge decides.
ColumnForRight(b, columns) ==
  IF columns = << >> THEN 0
  ELSE Min({ i \in DOMAIN columns : \A j \in DOMAIN columns :
               ColumnDistance(b.box[3], columns[i]) <= ColumnDistance(b.box[3], columns[j]) })
ColumnFor(b, columns) ==
  IF columns = << >> THEN 0
  ELSE Min({ i \in DOMAIN columns : \A j \in DOMAIN columns :
               ColumnDistance(b.box[1], columns[i]) <= ColumnDistance(b.box[1], columns[j]) })

AssignColumns(bs, width) ==
  LET columns == DetectColumns(bs, width)
  IN [i \in DOMAIN bs |-> [bs[i] EXCEPT !.column = ColumnFor(bs[i], columns)]]

-----------------------------------------------------------------------------
(* Fragments of one line become one block *)

VerticalOverlap(a, b) == Larger(Smaller(a.box[4], b.box[4]) - Larger(a.box[2], b.box[2]), 0)

Beside(line, b) ==
  /\ ~IsTable(line[1]) /\ line[1].column = b.column
  /\ 100 * MaxOf([i \in DOMAIN line |-> VerticalOverlap(line[i], b)])
       > 35 * Smaller(MaxOf([i \in DOMAIN line |-> BlockHeight(line[i])]), BlockHeight(b))

RowGap2(line, b) == LET d == Median2([i \in DOMAIN line |-> line[i].box[2]]) - 2 * b.box[2]
                    IN Larger(d, 0 - d)

InlineRows(bs) ==
  LET sorted == SortSeq(bs, LAMBDA a, b : Before(<< a.column, a.box[2], a.box[1], a.id >>,
                                                 << b.column, b.box[2], b.box[1], b.id >>))
      put(lines, b) ==
        LET near == { i \in DOMAIN lines : Beside(lines[i], b) }
            best == Min({ i \in near : \A j \in near : RowGap2(lines[i], b) <= RowGap2(lines[j], b) })
        IN IF IsTable(b) \/ near = {} THEN Append(lines, << b >>)
           ELSE [lines EXCEPT ![best] = Append(@, b)]
  IN FoldLeft(put, << >>, sorted)

Spaced(left, right) == 100 * (right.box[1] - left.box[3]) > Larger(200, 12 * right.size)

MergeRow(items) ==
  LET line == SortSeq(items, LAMBDA a, b : Before(<< a.box[1], a.box[3], a.id >>, << b.box[1], b.box[3], b.id >>))
      side(n) == [i \in DOMAIN line |-> line[i].box[n]]
      gaps == Cardinality({ i \in 2..Len(line) : Spaced(line[i - 1], line[i]) })
      headings == { line[i].heading : i \in DOMAIN line } \ {0}
  IN IF Len(items) = 1 THEN items[1]
     ELSE [line[1] EXCEPT
             !.id = MinOf([i \in DOMAIN line |-> line[i].id]),
             !.box = << MinOf(side(1)), MinOf(side(2)), MaxOf(side(3)), MaxOf(side(4)) >>,
             !.size = MaxOf([i \in DOMAIN line |-> line[i].size]),
             !.bold = \A i \in DOMAIN line : line[i].bold,
             !.heading = IF headings = {} THEN 0 ELSE Min(headings),
             !.chars = SumOver(line, LAMBDA b : b.chars) + gaps,
             !.words = SumOver(line, LAMBDA b : b.words) - (Len(line) - 1 - gaps),
             !.rest = line[1].rest \/ Spaced(line[1], line[2]),
             !.mark = IF line[1].rest \/ Spaced(line[1], line[2]) THEN line[1].mark ELSE "none",
             !.parts = FlattenSeq([i \in DOMAIN line |-> line[i].parts])]

MergeInlineBlocks(bs) ==
  LET lines == InlineRows(bs) IN [i \in DOMAIN lines |-> MergeRow(lines[i])]

IsListItem(b) == b.mark # "none" /\ b.rest

-----------------------------------------------------------------------------
(* Headings *)

HeadingCandidate(b, body2) ==
  /\ ~IsTable(b)
  /\ \/ 200 * b.size >= Larger(100 * body2 + 400, 112 * body2)
     \/ b.bold /\ 200 * b.size >= 98 * body2 /\ b.words <= 12 /\ b.chars <= 100

\* Sizes from large to small; a size joins the last cluster when it is close
\* to that cluster's median.  The result is the doubled median of each.
ClusterSizes(sizes, body2) ==
  LET put(clusters, s) ==
        IF clusters # << >>
           /\ 100 * (Median2(clusters[Len(clusters)]) - 2 * s) <= Larger(160, 4 * body2)
        THEN [clusters EXCEPT ![Len(clusters)] = Append(@, s)]
        ELSE Append(clusters, << s >>)
      clusters == FoldLeft(put, << >>, SortSeq(SetToSeq(sizes), >))
  IN [c \in DOMAIN clusters |-> Median2(clusters[c])]

NearestRank(ranks, size) ==
  LET away(r) == Larger(ranks[r] - 2 * size, 2 * size - ranks[r])
  IN Min({ r \in DOMAIN ranks : \A q \in DOMAIN ranks : away(r) <= away(q) })

HeadingLevel(b, ranks) ==
  LET level == Smaller(NearestRank(ranks, b.size), 4)
  IN IF b.bold /\ level > 1 THEN level - 1 ELSE level

InferHeadings(bs, body2) ==
  LET open(b) == b.heading = 0 /\ HeadingCandidate(b, body2)
      ranks == ClusterSizes({ bs[i].size : i \in { j \in DOMAIN bs : open(bs[j]) } }, body2)
  IN [i \in DOMAIN bs |-> IF open(bs[i]) THEN [bs[i] EXCEPT !.heading = HeadingLevel(bs[i], ranks)]
                                         ELSE bs[i]]

-----------------------------------------------------------------------------
(* Rendering *)

NeedsParagraphBreak(prev, b, body2) ==
  LET dx == b.box[1] - prev.box[1]
  IN \/ IsTable(prev) \/ IsTable(b) \/ prev.heading # 0 \/ b.heading # 0
     \/ IsListItem(prev) \/ IsListItem(b)
     \/ 200 * (b.box[2] - prev.box[4]) > Larger(1600, 65 * body2)
     \/ 200 * Larger(dx, 0 - dx) > Larger(7200, 180 * body2)

BlockKey(b) == << b.column, b.box[2], b.box[1], b.box[4], b.id >>

PageOrder(bs, width, body2) ==
  SortSeq(InferHeadings(MergeInlineBlocks(AssignColumns(bs, width)), body2),
          LAMBDA a, b : Before(BlockKey(a), BlockKey(b)))

Rendered(b) ==
  [page |-> at, kind |-> CASE IsTable(b) -> IF b.spans THEN "html" ELSE "pipe"
                           [] IsListItem(b) -> b.mark
                           [] b.heading # 0 -> "heading"
                           [] OTHER -> "text",
   level |-> Smaller(b.heading, 6), parts |-> b.parts, cells |-> b.table, size |-> b.size, bold |-> b.bold]

RenderPage ==
  /\ stage = "render"
  /\ \E body2 \in { BodySize2 } : \E ordered \in { PageOrder(blocks[at], page.width, body2) } :
       LET starts(i) == i = 1 \/ NeedsParagraphBreak(ordered[i - 1], ordered[i], body2)
       IN out' = out \o [i \in DOMAIN ordered |-> [block |-> Rendered(ordered[i]), starts |-> starts(i)]]
  /\ IF at < Len(doc.pages) THEN at' = at + 1 /\ UNCHANGED stage
                            ELSE at' = 1 /\ stage' = "context"
  /\ UNCHANGED << doc, rulings, parents, row, tables, notes, blocks >>

\* Warnings and hidden items of all pages follow the last page.
WriteTrailingContext ==
  LET hidden == FlattenSeq([p \in DOMAIN doc.pages |-> doc.pages[p].hidden])
      aside(kind, n) == [block |-> [kind |-> kind, count |-> n], starts |-> TRUE]
  IN /\ stage = "context"
     /\ out' = out \o (IF notes = 0 THEN << >> ELSE << aside("warnings", notes) >>)
                   \o (IF hidden = << >> THEN << >> ELSE << aside("hidden", Len(hidden)) >>)
     /\ stage' = "done"
     /\ UNCHANGED << doc, at, rulings, parents, row, tables, notes, blocks >>

Next ==
  \/ FindRulings \/ JoinRulings \/ ReconstructTables \/ FindBorderless
  \/ MakeBlocks \/ RenderPage \/ WriteTrailingContext

Spec == Init /\ [][Next]_vars

-----------------------------------------------------------------------------
(* Properties *)

AllTexts == FlattenSeq([p \in DOMAIN doc.pages |-> doc.pages[p].texts])
IsAside(entry) == entry.block.kind \in {"warnings", "hidden"}
Written(entry) ==
  IF IsAside(entry) THEN << >>
  ELSE [i \in DOMAIN entry.block.parts |-> entry.block.parts[i].text]
         \o FlattenSeq([c \in DOMAIN entry.block.cells |-> entry.block.cells[c].texts])
Everything == FlattenSeq([i \in DOMAIN out |-> Written(out[i])])
TimesIn(written, t) == Cardinality({ i \in DOMAIN written : written[i] = t.id })

\* Tables of its page around a text's centre.
TablesAround(t, p) ==
  { i \in DOMAIN blocks[p] : IsTable(blocks[p][i]) /\ InsideBox(t, blocks[p][i].box) }

\* Every visible text of the document is written, and written once unless two
\* tables of its page lie around it: no text is lost or doubled between ruled
\* tables, borderless tables and the reading order (markdown.rs 375-535).
TextWritten ==
  stage = "done" =>
    \A written \in { Everything } : \A p \in DOMAIN doc.pages : \A i \in DOMAIN doc.pages[p].texts :
      LET t == doc.pages[p].texts[i]
          n == TimesIn(written, t)
      IN n >= 1 /\ (Cardinality(TablesAround(t, p)) <= 1 => n = 1)

\* Cell text is removed from the reading order "so it appears exactly once"
\* (book/src/output-formats.md:61).  A grid drawn inside a cell of another is
\* a component of its own, and both take the text.
TextOnce ==
  stage = "done" =>
    \A written \in { Everything } : \A p \in DOMAIN doc.pages : \A i \in DOMAIN doc.pages[p].texts :
      TimesIn(written, doc.pages[p].texts[i]) = 1

\* What start reaches along the edges << from, to >>.
Reach(start, edges) ==
  FoldLeft(LAMBDA S, n : S \cup { e[2] : e \in { d \in edges : d[1] \in S } }, { start },
           [n \in 1..Cardinality({ e[1] : e \in edges }) |-> n])
BothWays(edges) == edges \cup { << e[2], e[1] >> : e \in edges }

Crossings == { p \in (DOMAIN rulings) \X (DOMAIN rulings) : RulingsIntersect(rulings[p[1]], rulings[p[2]]) }

Squares(rows, cols) == (1..rows) \X (1..cols)
Openings(rows, cols, vwalls, hwalls) ==
  { << << s[1], s[2] - 1 >>, s >> : s \in (Squares(rows, cols) \ ((1..rows) \X {1})) \ vwalls }
    \cup { << << s[1] - 1, s[2] >>, s >> : s \in (Squares(rows, cols) \ ({1} \X (1..cols))) \ hwalls }

Rectangle(S) ==
  LET rs == { s[1] : s \in S }
      cs == { s[2] : s \in S }
  IN S = (Min(rs)..Max(rs)) \X (Min(cs)..Max(cs))
CellSquares(c) == (c.row..(c.row + c.rowSpan - 1)) \X (c.col..(c.col + c.colSpan - 1))

\* The cells of a component's table fill its grid and none reaches through a
\* wall into another open area; when every open area is a rectangle there is
\* one cell for each, with the text whose centre lies in it and no other.
TableFollowsWalls(component, table, xs, ys) ==
  \A edges \in { BothWays(Openings(table.rows, table.cols, VerticalWalls(component, xs, ys),
                                   HorizontalWalls(component, xs, ys))) } :
  \A areas \in { { Reach(s, edges) : s \in Squares(table.rows, table.cols) } } :
    LET within(t, c) ==
          /\ t.box[1] + t.box[3] \in (2 * xs[c.col])..(2 * xs[c.col + c.colSpan])
          /\ t.box[2] + t.box[4] \in (2 * ys[c.row])..(2 * ys[c.row + c.rowSpan])
    IN /\ \A s \in Squares(table.rows, table.cols) : \E c \in DOMAIN table.cells : s \in CellSquares(table.cells[c])
       /\ \A c \in DOMAIN table.cells : \E area \in areas : CellSquares(table.cells[c]) \subseteq area
       /\ (\A area \in areas : Rectangle(area)) =>
         /\ { CellSquares(table.cells[c]) : c \in DOMAIN table.cells } = areas
         /\ Len(table.cells) = Cardinality(areas)
         /\ \A c \in DOMAIN table.cells : \A i \in DOMAIN page.texts :
              page.texts[i].id \in Range(table.cells[c].texts) <=> within(page.texts[i], table.cells[c])

\* Rulings are grouped exactly as far as crossings connect them, and every
\* table follows its walls (markdown.rs 542-627, 1143-1311).
TablesExact ==
  stage = "borderless" /\ rulings # << >> =>
    /\ \A edges \in { BothWays(Crossings) } : \A i \in DOMAIN rulings :
         Reach(i, edges) = { j \in DOMAIN rulings : Root(parents, i) = Root(parents, j) }
    /\ \A components \in { ComponentsOf(rulings, parents) } : \A c \in DOMAIN components :
       \A table \in { TableFromComponent(components[c], page.texts) } :
         table.kind = "table" =>
           TableFollowsWalls(components[c], table, Separators(components[c], "v"), Separators(components[c], "h"))

FlowEntries == SelectSeq(out, LAMBDA e : ~IsAside(e) /\ e.block.cells = << >>)
TextsOf(entry) == Range(Written(entry))

\* Texts whose heights overlap, directly or through others.
OneRow(p, a, b) ==
  LET overlap(s, t) == s.box[2] < t.box[4] /\ t.box[2] < s.box[4]
      touching == { e \in (DOMAIN p.texts) \X (DOMAIN p.texts) : overlap(p.texts[e[1]], p.texts[e[2]]) }
  IN b \in Reach(a, touching)

Position(written, id) == Min({ i \in DOMAIN written : written[i] = id })

\* Within a column what stands wholly above comes first; where a page parts
\* into columns, all of the left one comes before the right one.  Text that
\* overlaps in height is one row and not ordered by this (markdown.rs
\* 322-330, 1615-1867).
ReadingOrder ==
  stage = "done" /\ doc.format = "pdf" =>
    \A written \in { Everything } : \A p \in DOMAIN doc.pages :
      \A columns \in { DetectColumns(blocks[p], doc.pages[p].width) } :
      LET pg == doc.pages[p]
          begins(t, c) == t.box[1] \in columns[c].x0..columns[c].x1
          sameColumn(a, b) == columns = << >> \/ \E c \in DOMAIN columns : begins(a, c) /\ begins(b, c)
          leftOf(a, b) == \E c, d \in DOMAIN columns : c < d /\ begins(a, c) /\ begins(b, d)
      IN \A i, j \in DOMAIN pg.texts :
           LET a == pg.texts[i]
               b == pg.texts[j]
           IN /\ TablesAround(a, p) = {} /\ TablesAround(b, p) = {}
              /\ \/ a.box[4] <= b.box[2] /\ sameColumn(a, b) /\ ~OneRow(pg, i, j)
                 \/ leftOf(a, b)
              => Position(written, a.id) < Position(written, b.id)

\* Of two headings of a page that no role set, the larger never has the
\* deeper level, bold against bold and plain against plain (markdown.rs
\* 1542-1571, 1587-1613).
HeadingsRanked ==
  \A i, j \in DOMAIN FlowEntries :
    LET a == FlowEntries[i].block
        b == FlowEntries[j].block
        byRole(e) == \E k \in DOMAIN AllTexts : AllTexts[k].id \in TextsOf(e) /\ AllTexts[k].role # 0
    IN /\ a.page = b.page /\ a.kind = "heading" /\ b.kind = "heading" /\ a.bold = b.bold
       /\ ~byRole(FlowEntries[i]) /\ ~byRole(FlowEntries[j]) /\ a.size > b.size
       => a.level <= b.level

\* No text clearly larger than the body of the whole document is left in a
\* paragraph: whatever it was merged with, and whatever else its page holds,
\* it is in a heading or a list item (markdown.rs 1542-1583, 1826-1867).
LargeTextStandsOut ==
  LET large(t) == 2 * t.size >= BodySize2 + 4 /\ 200 * t.size >= 112 * BodySize2
  IN \A i \in DOMAIN FlowEntries : \A k \in DOMAIN AllTexts :
       FlowEntries[i].block.kind = "text" /\ large(AllTexts[k]) => AllTexts[k].id \notin TextsOf(FlowEntries[i])
=============================================================================
