--------------------------- MODULE PageSelection ----------------------------
(***************************************************************************)
(* The page selections of docray-core (selection.rs): "7" or "1-200".  A   *)
(* text is what is left of it between the separators, one number per field *)
(* and NaN for a field that is no number; the empty sequence is the empty  *)
(* text.  Page numbers are u32: MaxU32 is their largest value.             *)
(***************************************************************************)
EXTENDS Integers, Sequences

CONSTANT MaxU32

ASSUME WidthAssumption == MaxU32 \in Nat \ {0}

NaN == -1

\* A page number is in the range of u32 and not 0.
ParsePage(field) == field \in 1 .. MaxU32

\* from_str: one page, or two in order.
Parses(text) ==
    /\ Len(text) \in {1, 2}
    /\ \A i \in DOMAIN text : ParsePage(text[i])
    /\ text[1] <= text[Len(text)]

Parsed(text) == [start |-> text[1], end |-> text[Len(text)]]

\* count(), in the arithmetic of u32.
Count(sel) == (sel.end - sel.start + 1) % (MaxU32 + 1)

\* What the job table and the command line of the worker hold.
ToText(sel) == <<sel.start, sel.end>>

\* The selections there are.
PageSelections == {s \in [start : 1 .. MaxU32, end : 1 .. MaxU32] : s.start <= s.end}
=============================================================================
