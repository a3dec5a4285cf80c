----------------------------- MODULE DocxTable ------------------------------
(***************************************************************************)
(* A table of a Word document (docray-docx, extract_table): its cells in   *)
(* the columns that the cells before them leave, vertical merges that are  *)
(* told cell by cell, and stories in the cells, which may hold textboxes   *)
(* and tables again.  Then the table as Markdown has it (docray-model,     *)
(* render_flow_table).                                                     *)
(*                                                                         *)
(* The environment writes the table.  A cell starts with one text, whose   *)
(* name is its number; written and dropped are history.  Rows and columns  *)
(* count from 0.  Breaks, page hints and the block cap inside a cell are   *)
(* those of any story (DocxStory) and left out.                            *)
(***************************************************************************)
EXTENDS Integers, Sequences, SequencesExt, FiniteSetsExt

CONSTANTS
    MaxNesting,   \* MAX_TEXTBOX_DEPTH
    MaxSpan,      \* 10 000
    Spans,        \* what gridSpan says in the documents
    MaxColumn, Fuel   \* bounds: the column of a cell; rows, cells, texts and containers

VARIABLES
    open,      \* the tables and textboxes that are being read, the outermost first
    finished,  \* the tables that came out
    texts,     \* how many texts there were
    dropped,   \* those in cells that continue another
    unanchored, refused,   \* what there is a warning of
    remaining  \* bound: of Fuel

vars == <<open, finished, texts, dropped, unanchored, refused, remaining>>

\* A table has at least the columns whose width its grid tells.
TableFrame(depth, gridCols) ==
    [is |-> "table", depth |-> depth, rows |-> 0, cols |-> gridCols, column |-> 0, inCell |-> FALSE,
     span |-> 0, cells |-> <<>>, blocks |-> <<>>, written |-> <<>>, first |-> texts + 1]
TextboxFrame(depth) == [is |-> "textbox", depth |-> depth, blocks |-> <<>>]

Init ==
    /\ texts = 0 /\ dropped = {} /\ unanchored = 0 /\ refused = 0 /\ remaining = Fuel
    /\ finished = <<>>
    /\ \E gridCols \in 0 .. 1 : open = <<TableFrame(0, gridCols)>>

Inner == Last(open)
Becomes(frame) == open' = Append(Front(open), frame)
Burn == remaining > 0 /\ remaining' = remaining - 1
InTable == open # <<>> /\ Inner.is = "table" /\ ~ Inner.inCell
InStory == open # <<>> /\ (Inner.is = "table" => Inner.inCell)

TextBlock(n) == [is |-> "text", texts |-> <<n>>]

\* block_text
ContentOf(blocks) == FlattenSeq([i \in DOMAIN blocks |-> blocks[i].texts])
-----------------------------------------------------------------------------
RowBegins ==
    /\ InTable /\ Burn
    /\ Becomes([Inner EXCEPT !.rows = @ + 1, !.column = 0])
    /\ UNCHANGED <<finished, texts, dropped, unanchored, refused>>

\* gridSpan, when it is missing or out of range as well.
Clamped(n) == Max({1, Min({n, MaxSpan})})

\* The cell that a continued merge belongs to: the last of that column and span.
Anchor(cells, column, span) ==
    LET there == {i \in DOMAIN cells : cells[i].col = column /\ cells[i].across = span}
    IN  IF there = {} THEN <<>> ELSE <<Max(there)>>

\* The cell of the table with its place, whatever becomes of it.
Wider(span, merge) ==
    [Inner EXCEPT !.cols = Max({@, Inner.column + span}),
                  !.written = Append(@, [row |-> Inner.rows - 1, col |-> Inner.column, across |-> span,
                                         down |-> 1, merge |-> merge])]

\* A cell that continues the one above: its content is not read.
Continues(n) ==
    /\ InTable /\ Inner.rows > 0 /\ Inner.column < MaxColumn /\ Burn
    /\ texts' = texts + 1 /\ dropped' = dropped \cup {texts + 1}
    /\ LET span   == Clamped(n)
           anchor == Anchor(Inner.cells, Inner.column, span)
           frame  == [Wider(span, "continue") EXCEPT !.column = @ + span]
       IN  /\ Becomes(IF anchor = <<>> THEN frame ELSE [frame EXCEPT !.cells[anchor[1]].down = @ + 1])
           /\ unanchored' = IF anchor = <<>> THEN unanchored + 1 ELSE unanchored
    /\ UNCHANGED <<finished, refused>>

CellBegins(n, merge) ==
    /\ InTable /\ Inner.rows > 0 /\ Inner.column < MaxColumn /\ Burn
    /\ texts' = texts + 1
    /\ LET span == Clamped(n)
       IN  Becomes([Wider(span, merge) EXCEPT !.inCell = TRUE, !.span = span, !.blocks = <<TextBlock(texts + 1)>>])
    /\ UNCHANGED <<finished, dropped, unanchored, refused>>

CellEnds ==
    /\ open # <<>> /\ Inner.is = "table" /\ Inner.inCell
    /\ Becomes([Inner EXCEPT
           !.cells = Append(@, [row |-> Inner.rows - 1, col |-> Inner.column, down |-> 1, across |-> Inner.span,
                                content |-> ContentOf(Inner.blocks)]),
           !.column = @ + Inner.span, !.inCell = FALSE, !.blocks = <<>>])
    /\ UNCHANGED <<finished, texts, dropped, unanchored, refused, remaining>>
-----------------------------------------------------------------------------
\* The text after a textbox or a table, or of a textbox.
Text ==
    /\ InStory /\ Burn
    /\ texts' = texts + 1
    /\ Becomes([Inner EXCEPT !.blocks = Append(@, TextBlock(texts + 1))])
    /\ UNCHANGED <<finished, dropped, unanchored, refused>>

\* A table in a cell is one deeper, one in a textbox as deep as its text.
NestedTable ==
    /\ InStory /\ Burn
    /\ IF Inner.is = "table" /\ Inner.depth >= MaxNesting
       THEN refused' = refused + 1 /\ UNCHANGED open
       ELSE /\ open' = Append(open, TableFrame(IF Inner.is = "table" THEN Inner.depth + 1 ELSE Inner.depth, 0))
            /\ UNCHANGED refused
    /\ UNCHANGED <<finished, texts, dropped, unanchored>>

\* A textbox that is too deep is there, without content.
TextboxBegins ==
    /\ InStory /\ Burn
    /\ IF Inner.depth >= MaxNesting
       THEN /\ Becomes([Inner EXCEPT !.blocks = Append(@, [is |-> "textbox", texts |-> <<>>])])
            /\ refused' = refused + 1
       ELSE open' = Append(open, TextboxFrame(Inner.depth + 1)) /\ UNCHANGED refused
    /\ UNCHANGED <<finished, texts, dropped, unanchored>>

\* What a container is to the story around it.
AsBlock(frame) ==
    IF frame.is = "textbox" THEN [is |-> "textbox", texts |-> ContentOf(frame.blocks)]
    ELSE [is |-> "table", texts |-> FlattenSeq([c \in DOMAIN frame.cells |-> frame.cells[c].content])]

ContainerEnds ==
    /\ open # <<>> /\ (Inner.is = "table" => ~ Inner.inCell)
    /\ finished' = IF Inner.is = "textbox" THEN finished
                   ELSE Append(finished, [rows |-> Inner.rows, cols |-> Inner.cols, cells |-> Inner.cells,
                                          written |-> Inner.written, between |-> <<Inner.first, texts>>])
    /\ open' = IF Len(open) = 1 THEN <<>>
               ELSE LET around == Front(open)
                    IN  [around EXCEPT ![Len(around)].blocks = Append(@, AsBlock(Inner))]
    /\ UNCHANGED <<texts, dropped, unanchored, refused, remaining>>

Next ==
    \/ RowBegins \/ CellEnds \/ Text \/ NestedTable \/ TextboxBegins \/ ContainerEnds
    \/ \E n \in Spans : Continues(n) \/ \E merge \in {"none", "restart"} : CellBegins(n, merge)

Spec == Init /\ [][Next]_vars
-----------------------------------------------------------------------------
\* render_flow_table: the contents row by row; a later cell would replace one
\* in the same place, one outside would be left out.
Rendered(table) ==
    LET At(r, c) == {i \in DOMAIN table.cells : table.cells[i].row = r /\ table.cells[i].col = c}
        Shown(r, c) == IF At(r, c) = {} THEN <<>> ELSE table.cells[Max(At(r, c))].content
        Row(r) == FlattenSeq([c \in 1 .. table.cols |-> Shown(r - 1, c - 1)])
    IN  FlattenSeq([r \in 1 .. table.rows |-> Row(r)])

Squares(cell) == (cell.row .. cell.row + cell.down - 1) \X (cell.col .. cell.col + cell.across - 1)

\* Merges as an editor writes them: whatever is continued starts right above.
WellMerged(table) == \A i \in DOMAIN table.written :
    LET cell == table.written[i]
    IN  cell.merge = "continue" =>
          \E k \in DOMAIN table.written :
             /\ table.written[k].row = cell.row - 1
             /\ table.written[k].col = cell.col /\ table.written[k].across = cell.across
             /\ table.written[k].merge # "none"

(* Every text that is not in a continued cell or too deep is in one place  *)
(* of the table, and of each table and textbox around it, in the order of  *)
(* the document; no two cells have one place (from which the ids of their  *)
(* blocks are made), and none leaves the table, whatever the spans say.    *)
(* Merges as an editor writes them leave cells that cover what the cells   *)
(* of the document cover, without overlap.  No container is open that is   *)
(* deeper than the limit (extract.rs 1035-1193).                           *)
CellsExact ==
    /\ \A i \in DOMAIN open : open[i].depth <= MaxNesting
    /\ \A n \in DOMAIN finished :
          LET table == finished[n]
              kept == SelectSeq([t \in 1 .. table.between[2] |-> t],
                                LAMBDA t : t >= table.between[1] /\ t \notin dropped)
              cells == Range(table.cells)
          IN  /\ Rendered(table) = kept
              /\ \A cell \in cells :
                    Squares(cell) \subseteq (0 .. table.rows - 1) \X (0 .. table.cols - 1)
              /\ WellMerged(table) =>
                    /\ UNION {Squares(cell) : cell \in cells}
                         = UNION {Squares(cell) : cell \in Range(table.written)}
                    /\ \A i, k \in DOMAIN table.cells :
                          i # k => Squares(table.cells[i]) \cap Squares(table.cells[k]) = {}
=============================================================================
