------------------------------- MODULE MCGlyphs -------------------------------
(* The fragmented pages of MCConversions: three elements of one glyph, in  *)
(* two styles, on one line, on lines that nearly agree or apart, and an    *)
(* element of two words (the second one starting with a control character, *)
(* too), of two lines, with overlapping words, of another kind, or in      *)
(* between.                                                                *)
EXTENDS Integers, Sequences

GlyphAt(x, y, char) == [box |-> <<x, y, x + 6, y + 10>>, char |-> char]
LineAt(y, words) == [base |-> y + 10, words |-> words]
TextAt(style, y, rows) == [is |-> "text", at |-> <<y, 0>>, style |-> style, size |-> 12, lines |-> rows]
SingleGlyph(style, x, y, char) == TextAt(style, y, <<LineAt(y, <<<<GlyphAt(x, y, char)>>>>)>>)
NotText(y, x) == [is |-> "other", at |-> <<y, x>>, style |-> 0, size |-> 0, lines |-> <<>>]

Singles(style) == {SingleGlyph(style, x, y, 1) : x \in {0, 8, 30}, y \in {0, 4}} \cup {SingleGlyph(style, 8, 40, 1)}
TwoWords(x, char) == LineAt(0, <<<<GlyphAt(0, 0, 1), GlyphAt(7, 0, 2)>>, <<GlyphAt(x, 0, char)>>>>)
Overlapping == LineAt(0, <<<<GlyphAt(0, 0, 1), GlyphAt(7, 0, 2)>>, <<GlyphAt(5, 0, 3), GlyphAt(10, 0, 4)>>>>)
Longer ==
    {TextAt(3, 0, <<TwoWords(x, 3)>>) : x \in {10, 14, 20}}
    \cup {TextAt(3, 0, <<TwoWords(10, -1), LineAt(40, <<<<GlyphAt(2, 40, 3)>>>>)>>), TextAt(3, 0, <<Overlapping>>)}
    \cup {NotText(0, 0), NotText(20, 5), SingleGlyph(1, 4, 0, 2)}

FragmentedPages ==
    {<<a, b, c, d>> : a \in Singles(1), b \in Singles(1) \cup {SingleGlyph(2, 8, 0, 1)}, c \in Singles(2), d \in Longer}
===============================================================================
