----------------------------- MODULE PptxTable ------------------------------
(***************************************************************************)
(* Tables and charts of a slide (docray-pptx, extract.rs): the tracks of   *)
(* the grid with what PowerPoint leaves to be sized, the cells with their  *)
(* merges, and the points of a chart's series.  Lengths are integers, and  *)
(* the extents a grid is spread over are multiples of what they are        *)
(* divided by.                                                             *)
(*                                                                         *)
(* A table is [columns, heights, rows]: rows are sequences of cells        *)
(* [covered, across, down], covered when hMerge or vMerge is set.          *)
(***************************************************************************)
EXTENDS Integers, Sequences, SequencesExt, FiniteSetsExt

CONSTANTS AutoRow   \* DEFAULT_AUTO_ROW_EMU

\* The sums of the tracks up to each of them.
Sums(tracks) ==
    LET sum[i \in 0 .. Len(tracks)] == IF i = 0 THEN 0 ELSE sum[i - 1] + tracks[i]
    IN  sum

Total(tracks) == Sums(tracks)[Len(tracks)]

\* What the frame has left is a multiple of the tracks without a size.
Divides(tracks, extent) ==
    LET auto == Cardinality({i \in DOMAIN tracks : tracks[i] = 0})
        left == extent - Total(tracks)
    IN  auto # 0 /\ left > 0 => left % auto = 0

IsTable(table) ==
    /\ table.columns \in Seq(Nat) /\ table.heights \in Seq(Nat)
    /\ table.rows \in Seq(Range(table.rows)) /\ Len(table.rows) = Len(table.heights)
    /\ \A row \in Range(table.rows) :
          row \in Seq(Range(row)) /\ \A cell \in Range(row) : cell.across \in Int /\ cell.down \in Int

\* distribute_track: tracks without a size share what the frame has left.
Distribute(tracks, extent) ==
    LET auto == Cardinality({i \in DOMAIN tracks : tracks[i] = 0})
        left == extent - Total(tracks)
    IN  IF auto = 0 \/ left <= 0 THEN tracks
        ELSE [i \in DOMAIN tracks |-> IF tracks[i] = 0 THEN left \div auto ELSE tracks[i]]

\* prefix_sums: where each track begins, and where the last one ends.
Prefix(tracks) == [i \in 1 .. Len(tracks) + 1 |-> Sums(tracks)[i - 1]]

\* clamped_span
Span(n, remaining) == Min({Max({n, 1}), remaining})

\* The tracks of a table in its frame; <<>> when there is no width to be had.
Columns(table, frame) == Distribute(table.columns, frame.ext[1])

\* Rows without any height of their own or of the frame get a nominal one.
Synthesized(table, frame) == Total(Distribute(table.heights, frame.ext[2])) <= 0

Heights(table, frame) ==
    IF Synthesized(table, frame) THEN [i \in DOMAIN table.heights |-> AutoRow]
    ELSE Distribute(table.heights, frame.ext[2])

Skipped(table, frame) ==
    table.columns = <<>> \/ table.heights = <<>> \/ Total(Columns(table, frame)) <= 0

\* The cells, row by row: where each one is in the grid and in the frame.
Cells(table, frame) ==
    LET wide == Prefix(Columns(table, frame))
        high == Prefix(Heights(table, frame))
        cols == Len(table.columns)
        rows == Len(table.heights)
        Cell(r, c) ==
          LET cell == table.rows[r][c]
              across == Span(cell.across, cols - c + 1)
              down   == Span(cell.down, rows - r + 1)
          IN  [row |-> r, col |-> c, across |-> across, down |-> down,
               box |-> <<frame.off[1] + wide[c], frame.off[2] + high[r],
                         frame.off[1] + wide[c + across], frame.off[2] + high[r + down]>>]
        Of(r) == FlattenSeq([c \in DOMAIN table.rows[r] |->
                               IF c <= cols /\ ~ table.rows[r][c].covered THEN <<Cell(r, c)>> ELSE <<>>])
    IN  FlattenSeq([r \in DOMAIN table.rows |-> Of(r)])

\* chart_element, for one series: categories and values are functions of the
\* index; the pairs in the order of the index, then the values without a
\* category; a category without a value is dropped.
Ordered(S) ==
    IF S = {} THEN <<>> ELSE FlattenSeq([i \in 1 .. Max(S) + 1 |-> IF i - 1 \in S THEN <<i - 1>> ELSE <<>>])

Points(categories, values) ==
    LET both == Ordered(DOMAIN categories \cap DOMAIN values)
        bare == Ordered(DOMAIN values \ DOMAIN categories)
    IN  [i \in DOMAIN both |-> [category |-> <<categories[both[i]]>>, value |-> values[both[i]]]]
          \o [i \in DOMAIN bare |-> [category |-> <<>>, value |-> values[bare[i]]]]
-----------------------------------------------------------------------------
Squares(cell) == (cell.row .. cell.row + cell.down - 1) \X (cell.col .. cell.col + cell.across - 1)

\* Merges as an editor writes them: each covered cell lies in one merge and no
\* other cell does, and no merge leaves the grid.
WellMerged(table) ==
    LET cols == Len(table.columns)  rows == Len(table.heights)
        grid == (1 .. rows) \X (1 .. cols)
        At(p) == table.rows[p[1]][p[2]]
        Merge(p) == (p[1] .. p[1] + At(p).down - 1) \X (p[2] .. p[2] + At(p).across - 1)
        anchors == {p \in grid : ~ At(p).covered}
    IN  /\ Len(table.rows) = rows /\ \A r \in 1 .. rows : Len(table.rows[r]) = cols
        /\ \A p \in anchors : At(p).across > 0 /\ At(p).down > 0 /\ Merge(p) \subseteq grid
        /\ \A q \in grid : Cardinality({p \in anchors : q \in Merge(p)}) = 1

(* A chart has each value of a series once, those with a category first,   *)
(* both in the order of their index.                                       *)
PointsExact(categories, values) ==
    LET points == Points(categories, values)
        Before(i, j) == IF (i \in DOMAIN categories) = (j \in DOMAIN categories) THEN i < j
                        ELSE i \in DOMAIN categories
        Place(i) == Cardinality({j \in DOMAIN values : Before(j, i)}) + 1
    IN  /\ Len(points) = Cardinality(DOMAIN values)
        /\ \A i \in DOMAIN values :
              points[Place(i)] = [category |-> IF i \in DOMAIN categories THEN <<categories[i]>> ELSE <<>>,
                                  value |-> values[i]]

(* Whatever the merges say, no cell leaves the grid, and cells that meet   *)
(* at a line of the grid meet in the frame.  Merges as an editor writes    *)
(* them leave cells that tile the grid.  A frame larger than its sized     *)
(* tracks is filled when a track is left to be sized.                      *)
TableExact(table, frame) ==
    ~ Skipped(table, frame) =>
      LET cells == Range(Cells(table, frame))
          cols  == Len(table.columns)
          rows  == Len(table.heights)
          wide  == Columns(table, frame)
      IN  /\ \A cell \in cells :
                /\ Squares(cell) \subseteq (1 .. rows) \X (1 .. cols)
                /\ \A other \in cells :
                      /\ cell.col + cell.across = other.col => cell.box[3] = other.box[1]
                      /\ cell.row + cell.down = other.row => cell.box[4] = other.box[2]
          /\ WellMerged(table) =>
                \A p \in (1 .. rows) \X (1 .. cols) :
                   Cardinality({cell \in cells : p \in Squares(cell)}) = 1
          /\ (\E c \in 1 .. cols : table.columns[c] = 0) /\ Total(table.columns) <= frame.ext[1]
                => Total(wide) = frame.ext[1]
          /\ \A c \in 1 .. cols : table.columns[c] > 0 => wide[c] = table.columns[c]
=============================================================================
