-------------------------------- MODULE MCPdf --------------------------------
(* What the PDF documents of MCConversions are made of: two matrices, one  *)
(* that turns the page upside down and one that swaps the axes, glyphs     *)
(* that touch, leave a gap, are blank or suspect, and what may be asked.   *)
EXTENDS Integers

Stretched == [a |-> 2, b |-> 0, c |-> 0, d |-> 3, e |-> 1, f |-> 0]
Quartered == [a |-> 0, b |-> 1, c |-> -1, d |-> 0, e |-> 4, f |-> 1]
PdfMatrices == {<<Stretched>>, <<Quartered>>}
PdfBoxes == {<<0, 0, 2, 1>>}

PdfGlyph(blank, suspect, x, base) ==
    [blank |-> blank, suspect |-> suspect, x0 |-> x, x1 |-> x + 4, base |-> base, size |-> 4]
PdfGlyphs ==
    {PdfGlyph(FALSE, FALSE, 0, 0), PdfGlyph(FALSE, TRUE, 6, 1),
     PdfGlyph(TRUE, FALSE, 4, 0), PdfGlyph(FALSE, FALSE, 12, 3)}

\* No selection, and each one of the numbers up to 2 (MaxU32, and the most pages
\* of a document): within the document, across its end, past it; of one page, of
\* more than the limit, and of the whole range of the numbers.
PdfSelections ==
    {<<>>} \cup {<<s>> : s \in {r \in [start : 1 .. 2, end : 1 .. 2] : r.start <= r.end}}
PdfLimits == {<<>>, <<1>>}
==============================================================================
