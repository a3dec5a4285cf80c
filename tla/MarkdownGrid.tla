---------------------------- MODULE MarkdownGrid ----------------------------
(***************************************************************************)
(* Ruled tables of a PDF page (docray-model/src/markdown.rs): thin painted *)
(* paths become rulings, crossing rulings are joined into components, and  *)
(* a component that closes a grid becomes a table whose missing interior   *)
(* separators are spans.  Coordinates count half points, so that the       *)
(* tolerances of the source are whole numbers; y grows downwards.          *)
(*                                                                         *)
(*   path   [box, stroke, fill, width]    box is <<x0, y0, x1, y1>>        *)
(*   text   [id, box, ...]                                                 *)
(*   ruling [axis, at, from, to]                                           *)
(***************************************************************************)
EXTENDS Integers, Sequences, FiniteSets, TLC, SequencesExt, FiniteSetsExt

CONSTANTS MaxRulings, MaxSeparators

SnapTolerance == 3
JoinTolerance == 4
MinRulingLength == 16

Larger(a, b) == IF a < b THEN b ELSE a
Smaller(a, b) == IF a < b THEN a ELSE b
Indices(s) == [i \in DOMAIN s |-> i]

\* Order of the keys of a chain of total_cmp(..).then_with(..).
Before(a, b) ==
  \E i \in DOMAIN a : a[i] < b[i] /\ \A j \in 1..(i - 1) : a[j] = b[j]

Median2(s) ==
  LET sorted == SortSeq(s, <)
      middle == Len(s) \div 2
  IN IF Len(s) % 2 = 0 THEN sorted[middle] + sorted[middle + 1] ELSE 2 * sorted[middle + 1]

-----------------------------------------------------------------------------
(* Rulings *)

Ruling(axis, at, from, to) == [axis |-> axis, at |-> at, from |-> from, to |-> to]

ThinLimit(p) == IF p.stroke THEN Smaller(Larger(2 * p.width, 3), 12) ELSE 6

RulingsForPath(p) ==
  LET x0 == p.box[1]  y0 == p.box[2]  x1 == p.box[3]  y1 == p.box[4]
      width == x1 - x0
      height == y1 - y0
      inset == Smaller(p.width, Smaller(width \div 2, height \div 2))
  IN CASE x1 < x0 \/ y1 < y0 -> << >>
       [] ~p.stroke /\ ~p.fill -> << >>
       [] p.stroke /\ p.width > 6 -> << >>
       [] width >= MinRulingLength /\ height <= ThinLimit(p) ->
            << Ruling("h", (y0 + y1) \div 2, x0, x1) >>
       [] height >= MinRulingLength /\ width <= ThinLimit(p) ->
            << Ruling("v", (x0 + x1) \div 2, y0, y1) >>
       [] ~p.stroke \/ width < MinRulingLength \/ height < MinRulingLength -> << >>
       [] OTHER ->
            << Ruling("h", y0 + inset, x0 + inset, x1 - inset),
               Ruling("h", y1 - inset, x0 + inset, x1 - inset),
               Ruling("v", x0 + inset, y0 + inset, y1 - inset),
               Ruling("v", x1 - inset, y0 + inset, y1 - inset) >>

RulingKey(r) == << IF r.axis = "h" THEN 0 ELSE 1, r.at, r.from, r.to >>

RulingsOf(paths) ==
  SortSeq(FlattenSeq([i \in DOMAIN paths |-> RulingsForPath(paths[i])]),
          LAMBDA a, b : Before(RulingKey(a), RulingKey(b)))

Along(rulings, axis) == SelectSeq(rulings, LAMBDA r : r.axis = axis)

RulingsIntersect(h, v) ==
  /\ h.axis = "h" /\ v.axis = "v"
  /\ v.at \in (h.from - SnapTolerance)..(h.to + SnapTolerance)
  /\ h.at \in (v.from - SnapTolerance)..(v.to + SnapTolerance)

-----------------------------------------------------------------------------
(* The disjoint set.  find halves the path it walks; that shortens later   *)
(* walks and changes no root, so only the roots are kept here.             *)

Apart(rulings) == [i \in DOMAIN rulings |-> i]

Root(parents, i) ==
  LET root[k \in DOMAIN parents] == IF parents[k] = k THEN k ELSE root[parents[k]]
  IN root[i]

Union(parents, left, right) ==
  LET l == Root(parents, left)
      r == Root(parents, right)
  IN IF l = r THEN parents ELSE [parents EXCEPT ![Larger(l, r)] = Smaller(l, r)]

\* One turn of the outer loop: horizontal h against every vertical ruling.
Crossed(rulings, parents, h) ==
  FoldLeft(LAMBDA acc, v : IF RulingsIntersect(rulings[h], rulings[v])
                           THEN Union(acc, h, v) ELSE acc,
           parents, SelectSeq(Indices(rulings), LAMBDA i : rulings[i].axis = "v"))

ComponentsOf(rulings, parents) ==
  LET roots == SelectSeq(Indices(rulings), LAMBDA i : Root(parents, i) = i)
      members(r) == SelectSeq(Indices(rulings), LAMBDA i : Root(parents, i) = r)
  IN [c \in DOMAIN roots |-> [i \in DOMAIN members(roots[c]) |-> rulings[members(roots[c])[i]]]]

-----------------------------------------------------------------------------
(* A table from a component *)

ClusteredPositions(values) ==
  LET put(clusters, v) ==
        IF clusters # << >> /\ v - Head(clusters[Len(clusters)]) <= SnapTolerance
        THEN [clusters EXCEPT ![Len(clusters)] = Append(@, v)]
        ELSE Append(clusters, << v >>)
      clusters == FoldLeft(put, << >>, SortSeq(values, <))
  IN [c \in DOMAIN clusters |-> Median2(clusters[c]) \div 2]

Separators(component, axis) ==
  LET lines == Along(component, axis) IN ClusteredPositions([i \in DOMAIN lines |-> lines[i].at])

\* Covered length of from..to by the rulings at a position; pieces less than
\* the join tolerance apart count as one, with the gap between them.
RulingCoverage(component, axis, at, from, to) ==
  LET near == SelectSeq(component, LAMBDA r :
                /\ r.axis = axis /\ r.at \in (at - SnapTolerance)..(at + SnapTolerance)
                /\ Smaller(r.to, to) > Larger(r.from, from))
      pieces == SortSeq([i \in DOMAIN near |-> << Larger(near[i].from, from), Smaller(near[i].to, to) >>],
                        Before)
      lay(acc, p) == IF p[1] <= acc.to + JoinTolerance
                     THEN [acc EXCEPT !.to = Larger(@, p[2])]
                     ELSE [sum |-> acc.sum + (acc.to - acc.from), from |-> p[1], to |-> p[2]]
      laid == FoldLeft(lay, [sum |-> 0, from |-> pieces[1][1], to |-> pieces[1][2]], pieces)
  IN IF to <= from \/ pieces = << >> THEN 0 ELSE laid.sum + (laid.to - laid.from)

AtLeast(part, whole, percent) == whole > 0 /\ 100 * part >= percent * whole

\* First interval of separators that holds the doubled value v2, 0 if none.
SeparatorInterval(separators, v2) ==
  LET holds == { i \in 1..(Len(separators) - 1) :
                   /\ v2 >= 2 * (separators[i] - SnapTolerance)
                   /\ v2 <= 2 * (separators[i + 1] + SnapTolerance) }
  IN IF holds = {} THEN 0 ELSE Min(holds)

TextKey(t) == << t.box[2], t.box[1], t.box[4], t.id >>

\* The text elements whose centre lies in each square of the grid.
Assigned(xs, ys, texts) ==
  LET square(t) == << SeparatorInterval(ys, t.box[2] + t.box[4]),
                      SeparatorInterval(xs, t.box[1] + t.box[3]) >>
  IN [s \in (1..(Len(ys) - 1)) \X (1..(Len(xs) - 1)) |->
        { i \in DOMAIN texts : square(texts[i]) = s }]

EnoughText(assigned, rows, cols) ==
  LET full == { s \in DOMAIN assigned : assigned[s] # {} }
  IN /\ Cardinality(full) >= Larger(4, (rows * cols + 2) \div 3)
     /\ Cardinality({ s[1] : s \in full }) >= 2
     /\ Cardinality({ s[2] : s \in full }) >= 2

ClosedGrid(component, xs, ys) ==
  LET across(i) == RulingCoverage(component, "h", ys[i], xs[1], xs[Len(xs)])
      down(i) == RulingCoverage(component, "v", xs[i], ys[1], ys[Len(ys)])
      width == xs[Len(xs)] - xs[1]
      height == ys[Len(ys)] - ys[1]
  IN /\ \A i \in {1, Len(ys)} : AtLeast(across(i), width, 90)
     /\ \A i \in {1, Len(xs)} : AtLeast(down(i), height, 90)
     /\ \A i \in DOMAIN ys : AtLeast(across(i), width, 45)
     /\ \A i \in DOMAIN xs : AtLeast(down(i), height, 45)

\* Separators that are present: << row, col >> in VerticalWalls has a wall on
\* its left, in HorizontalWalls one above it.
VerticalWalls(component, xs, ys) ==
  { s \in (1..(Len(ys) - 1)) \X (2..(Len(xs) - 1)) :
      AtLeast(RulingCoverage(component, "v", xs[s[2]], ys[s[1]], ys[s[1] + 1]), ys[s[1] + 1] - ys[s[1]], 50) }
HorizontalWalls(component, xs, ys) ==
  { s \in (2..(Len(ys) - 1)) \X (1..(Len(xs) - 1)) :
      AtLeast(RulingCoverage(component, "h", ys[s[1]], xs[s[2]], xs[s[2] + 1]), xs[s[2] + 1] - xs[s[2]], 50) }

\* The span of the cell at << row, col >>: right while no wall stands in its
\* own row, then down while no wall stands under any column of it.
ColSpan(row, col, cols, walls) ==
  Min({ n \in 1..(cols - col + 1) : col + n > cols \/ << row, col + n >> \in walls })
\* Mutant of RowSpan: only the anchor's own column is looked at.
RowSpanAnchor(row, col, span, rows, walls) ==
  Min({ n \in 1..(rows - row + 1) : row + n > rows \/ << row + n, col >> \in walls })

RowSpan(row, col, span, rows, walls) ==
  Min({ n \in 1..(rows - row + 1) :
          row + n > rows \/ \E c \in col..(col + span - 1) : << row + n, c >> \in walls })

\* The squares in row-major order, each either covered already or the anchor
\* of a cell that takes what is still assigned inside its rectangle.
CellsOf(assigned, rows, cols, vwalls, hwalls, texts) ==
  LET place(acc, k) ==
        LET row == ((k - 1) \div cols) + 1
            col == ((k - 1) % cols) + 1
            across == ColSpan(row, col, cols, vwalls)
            down == RowSpan(row, col, across, rows, hwalls)
            rect == (row..(row + down - 1)) \X (col..(col + across - 1))
            items == UNION { assigned[s] : s \in rect } \ acc.taken
        IN IF << row, col >> \in acc.covered THEN acc
           ELSE [covered |-> acc.covered \cup (rect \ { << row, col >> }),
                 taken |-> acc.taken \cup items,
                 cells |-> Append(acc.cells,
                   [row |-> row, col |-> col, rowSpan |-> down, colSpan |-> across,
                    texts |-> LET inside == SortSeq(SelectSeq(Indices(texts), LAMBDA i : i \in items),
                                              LAMBDA i, j : Before(TextKey(texts[i]), TextKey(texts[j])))
                              IN [i \in DOMAIN inside |-> texts[inside[i]].id]])]
  IN FoldLeft(place, [covered |-> {}, taken |-> {}, cells |-> << >>],
              [k \in 1..(rows * cols) |-> k]).cells

NotGrid == [kind |-> "notGrid"]
Rejected == [kind |-> "rejected"]
Detected(box, rows, cols, cells) ==
  [kind |-> "table", box |-> box, rows |-> rows, cols |-> cols, cells |-> cells]

\* The table of a component with these separators and this text in its squares.
TableIn(component, texts, xs, ys, assigned) ==
  LET rows == Len(ys) - 1
      cols == Len(xs) - 1
  IN CASE Len(xs) < 3 \/ Len(ys) < 3 -> NotGrid
       [] Len(xs) > MaxSeparators \/ Len(ys) > MaxSeparators -> Rejected
       [] ~ClosedGrid(component, xs, ys) -> Rejected
       [] ~EnoughText(assigned, rows, cols) -> Rejected
       [] OTHER -> Detected(<< xs[1], ys[1], xs[Len(xs)], ys[Len(ys)] >>, rows, cols,
                     CellsOf(assigned, rows, cols, VerticalWalls(component, xs, ys),
                             HorizontalWalls(component, xs, ys), texts))

TableBetween(component, texts, xs, ys) == TableIn(component, texts, xs, ys, Assigned(xs, ys, texts))

TableFromComponent(component, texts) ==
  TableBetween(component, texts, Separators(component, "v"), Separators(component, "h"))

\* The text a table takes out of the flow (consumed_text).
Consumed(table) == UNION { Range(table.cells[i].texts) : i \in DOMAIN table.cells }
=============================================================================
