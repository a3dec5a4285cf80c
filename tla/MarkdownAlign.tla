--------------------------- MODULE MarkdownAlign ---------------------------
(***************************************************************************)
(* Borderless tables of a PDF page (docray-model/src/markdown.rs): the     *)
(* text no ruled table claimed is put into visual lines, lines into        *)
(* regions, and a region whose white space makes stable gutters becomes a  *)
(* table when it passes the gate.  Units as in MarkdownGrid; a text also   *)
(* has words, chars (of its cleaned content) and label (it ends with ":"). *)
(***************************************************************************)
EXTENDS MarkdownGrid

CONSTANTS MaxAlignLines, MaxBuckets

Bucket == 6
MinAlignRows == 3
MinAlignCols == 2
ColumnEdgeStdev == 9
RowGapFloor == 6

SumOf(s) == FoldLeft(+, 0, s)
MinOf(s) == Min(Range(s))
MaxOf(s) == Max(Range(s))
SumOver(s, of(_)) == SumOf([i \in DOMAIN s |-> of(s[i])])

InsideBox(t, box) ==
  LET cx == t.box[1] + t.box[3]
      cy == t.box[2] + t.box[4]
  IN /\ cx \in (2 * (box[1] - SnapTolerance))..(2 * (box[3] + SnapTolerance))
     /\ cy \in (2 * (box[2] - SnapTolerance))..(2 * (box[4] + SnapTolerance))

FreeText(texts, ruled) ==
  SelectSeq(texts, LAMBDA t :
    /\ t.box[3] >= t.box[1] /\ t.box[4] >= t.box[2]
    /\ \A i \in DOMAIN ruled : t.id \notin Consumed(ruled[i]) /\ ~InsideBox(t, ruled[i].box))

-----------------------------------------------------------------------------
(* Lines and regions *)

LineOf(items) ==
  [x0 |-> MinOf([i \in DOMAIN items |-> items[i].box[1]]), y0 |-> MinOf([i \in DOMAIN items |-> items[i].box[2]]),
   x1 |-> MaxOf([i \in DOMAIN items |-> items[i].box[3]]), y1 |-> MaxOf([i \in DOMAIN items |-> items[i].box[4]]),
   items |-> SortSeq(items, LAMBDA a, b : Before(<< a.box[1], a.box[3], a.id >>, << b.box[1], b.box[3], b.id >>))]

OnLine(line, t) ==
  LET overlap == Smaller(line.y1, t.box[4]) - Larger(line.y0, t.box[2])
      height == Larger(Smaller(line.y1 - line.y0, t.box[4] - t.box[2]), 2)
  IN 100 * Larger(overlap, 0) > 35 * height

\* Only the last line can take the next item.
VisualLines(texts) ==
  LET sorted == SortSeq(texts, LAMBDA a, b : Before(<< a.box[2], a.box[1], a.id >>, << b.box[2], b.box[1], b.id >>))
      put(lines, t) == IF lines # << >> /\ OnLine(lines[Len(lines)], t)
                       THEN [lines EXCEPT ![Len(lines)] = LineOf(Append(@.items, t))]
                       ELSE Append(lines, LineOf(<< t >>))
  IN FoldLeft(put, << >>, sorted)

\* Regions end where the gap to the next line is wider than 1.5 median line
\* heights (and than the floor).
Regions(lines) ==
  LET median2 == Median2([i \in DOMAIN lines |-> Larger(lines[i].y1 - lines[i].y0, 2)])
      wide(i) == 4 * (lines[i].y0 - lines[i - 1].y1) > Larger(4 * RowGapFloor, 3 * median2)
      ends == SelectSeq(Indices(lines), LAMBDA i : i = Len(lines) \/ wide(i + 1))
  IN [r \in DOMAIN ends |-> SubSeq(lines, IF r = 1 THEN 1 ELSE ends[r - 1] + 1, ends[r])]

-----------------------------------------------------------------------------
(* Columns of a region *)

RegionLeft(lines) == MinOf([i \in DOMAIN lines |-> lines[i].x0])
RegionRight(lines) == MaxOf([i \in DOMAIN lines |-> lines[i].x1])

BucketCount(lines) == (RegionRight(lines) - RegionLeft(lines) + Bucket - 1) \div Bucket + 1

BucketAt(lines, x) == (x - RegionLeft(lines)) \div Bucket

\* Buckets that are white space in seven lines out of ten.
Gutters(lines) ==
  LET inks(line, b) == \E i \in DOMAIN line.items :
                         b \in BucketAt(lines, line.items[i].box[1])..BucketAt(lines, line.items[i].box[3])
  IN { b \in 0..(BucketCount(lines) - 1) :
         Cardinality({ l \in DOMAIN lines : inks(lines[l], b) }) <= (3 * Len(lines)) \div 10 }

\* Maximal runs of other buckets, as the x range each covers.
GutterColumns(lines) ==
  LET gutters == Gutters(lines)
      count == BucketCount(lines)
      opens == SelectSeq([b \in 1..count |-> b - 1], LAMBDA b : b \notin gutters /\ (b = 0 \/ b - 1 \in gutters))
      close(b) == Min({ e \in b..count : e = count \/ e \in gutters })
      at(b) == RegionLeft(lines) + b * Bucket
  IN [c \in DOMAIN opens |-> << at(opens[c]), at(close(opens[c])) >>]

\* The columns a text overlaps; << >> when none.
ColumnSpanOf(t, columns) ==
  LET hit == { c \in DOMAIN columns : /\ t.box[3] > columns[c][1] - SnapTolerance
                                      /\ t.box[1] < columns[c][2] + SnapTolerance }
  IN IF hit = {} THEN << >> ELSE << Min(hit), Max(hit) >>

\* Population deviation within the limit; fewer than two values say nothing.
Loose(s) ==
  LET n == Len(s)
  IN n >= 2 /\ n * SumOver(s, LAMBDA v : v * v) - SumOf(s) * SumOf(s)
                 > n * n * ColumnEdgeStdev * ColumnEdgeStdev

RaggedColumn(items, columns, c) ==
  LET own == SelectSeq(items, LAMBDA t : ColumnSpanOf(t, columns) = << c, c >>)
  IN Loose([i \in DOMAIN own |-> own[i].box[1]]) /\ Loose([i \in DOMAIN own |-> own[i].box[3]])

\* Cells of one line: an item joins the cell that owns its first column, or
\* opens one there; its last column widens that cell.
RowCells(row, line, columns) ==
  LET place(cells, t) ==
        LET span == ColumnSpanOf(t, columns)
            owners == { i \in DOMAIN cells : span[1] \in cells[i].col..(cells[i].col + cells[i].colSpan - 1) }
        IN IF span = << >> THEN cells
           ELSE IF owners = {}
           THEN Append(cells, [row |-> row, col |-> span[1], rowSpan |-> 1,
                               colSpan |-> span[2] - span[1] + 1, items |-> << t >>])
           ELSE [cells EXCEPT ![Max(owners)] =
                   [@ EXCEPT !.colSpan = Larger(@, span[2] - cells[Max(owners)].col + 1),
                             !.items = Append(@, t)]]
  IN FoldLeft(place, << >>, line.items)

-----------------------------------------------------------------------------
(* The gate *)

Tabular(cell) ==
  /\ SumOver(cell.items, LAMBDA t : t.words) <= 3
  /\ SumOver(cell.items, LAMBDA t : t.chars) + Len(cell.items) - 1 <= 24

KeyValueForm(cells) ==
  LET first == SelectSeq(cells, LAMBDA c : c.col = 1)
      labels == SelectSeq(first, LAMBDA c : c.items[Len(c.items)].label)
  IN first # << >> /\ 2 * Len(labels) >= Len(first)

InCellOrder(c) ==
  [c EXCEPT !.items = SortSeq(@, LAMBDA a, b : Before(<< a.box[1], a.id >>, << b.box[1], b.id >>))]

NoTable == [kind |-> "none"]
NearMiss == [kind |-> "rejected"]

\* The table of a region with these columns and these cells, by row and in order.
GatedTable(lines, columns, byRow, cells) ==
  LET items == FlattenSeq([l \in DOMAIN lines |-> lines[l].items])
      squares == Len(lines) * Len(columns)
      filled == SumOver(cells, LAMBDA c : c.colSpan)
      reaching == SelectSeq(byRow, LAMBDA r : Len(r) >= 2)
      box == << RegionLeft(lines), MinOf([l \in DOMAIN lines |-> lines[l].y0]),
                RegionRight(lines), MaxOf([l \in DOMAIN lines |-> lines[l].y1]) >>
      cell(c) == [row |-> c.row, col |-> c.col, rowSpan |-> 1, colSpan |-> c.colSpan,
                  texts |-> [i \in DOMAIN c.items |-> c.items[i].id]]
  IN CASE RegionRight(lines) <= RegionLeft(lines) \/ BucketCount(lines) > MaxBuckets -> NoTable
       [] Len(columns) < MinAlignCols \/ Len(columns) > MaxSeparators -> NoTable
       [] \E c \in DOMAIN columns : RaggedColumn(items, columns, c) -> NoTable
       [] 10 * Len(reaching) < 6 * Len(lines) -> NoTable
       [] 10 * filled < 4 * squares -> IF 100 * filled >= 25 * squares THEN NearMiss ELSE NoTable
       [] 10 * Len(SelectSeq(cells, Tabular)) < 6 * Len(cells) -> NoTable
       [] Len(columns) = 2 /\ KeyValueForm(cells) -> NoTable
       [] OTHER -> Detected(box, Len(lines), Len(columns), [i \in DOMAIN cells |-> cell(cells[i])])

InOrder(cells) == [i \in DOMAIN cells |-> InCellOrder(cells[i])]

RowsGated(lines, columns, byRow) == GatedTable(lines, columns, byRow, InOrder(FlattenSeq(byRow)))

ColumnsGated(lines, columns) ==
  RowsGated(lines, columns, [l \in DOMAIN lines |-> RowCells(l, lines[l], columns)])

AlignmentRegionTable(lines) == ColumnsGated(lines, GutterColumns(lines))

BoxesOverlap(a, b) == a[3] > b[1] /\ a[1] < b[3] /\ a[4] > b[2] /\ a[2] < b[4]

\* What the detector finds on a page, in the order of its regions.
AlignmentTables(texts, ruled) ==
  LET items == FreeText(texts, ruled)
      lines == VisualLines(items)
      regions == SelectSeq(Regions(lines), LAMBDA r : Len(r) >= MinAlignRows)
      found == [r \in DOMAIN regions |-> AlignmentRegionTable(regions[r])]
  IN IF Len(items) \notin (MinAlignRows * MinAlignCols)..MaxAlignLines \/ Len(lines) < MinAlignRows THEN << >>
     ELSE SelectSeq(found, LAMBDA f :
            \/ f.kind = "rejected"
            \/ f.kind = "table" /\ \A i \in DOMAIN ruled : ~BoxesOverlap(f.box, ruled[i].box))
=============================================================================
