------------------------------- MODULE MCSlides -------------------------------
(* What the slides of MCConversions are made of: shapes with and without a *)
(* placeholder and a place of their own, texts with every way a style may  *)
(* come to a run, tables with merged, overlong and missing cells, charts,  *)
(* and groups that turn, flip, stretch or have no extent.                  *)
EXTENDS Integers, Sequences, TLC

Xfrm(x, y, w, h, flipH, flipV, turn) ==
    [off |-> <<x, y>>, ext |-> <<w, h>>, flipH |-> flipH, flipV |-> flipV, turn |-> turn]
FlatAt == <<Xfrm(0, 0, 4, 2, FALSE, FALSE, 0)>>
WideAt == <<Xfrm(0, 0, 8, 4, FALSE, FALSE, 0)>>
QuarterAt == <<Xfrm(1, 0, 4, 2, TRUE, FALSE, 1)>>
HalfAt == <<Xfrm(0, 3, 2, 6, FALSE, TRUE, 2)>>
ThirdAt == <<Xfrm(0, 3, 2, 4, FALSE, FALSE, 3)>>
NowhereAt == <<"malformed", "place">>

GroupXfrm(x, chOff, chExt) == <<x @@ [chOff |-> chOff, chExt |-> chExt]>>
SlideGroups ==
    {<<>>,
     GroupXfrm(Xfrm(2, 1, 4, 8, FALSE, TRUE, 1), <<1, 0>>, <<2, 4>>),
     GroupXfrm(Xfrm(0, 0, 6, 2, TRUE, FALSE, 3), <<0, 1>>, <<2, 2>>),
     GroupXfrm(FlatAt[1], <<0, 0>>, <<0, 2>>)}

RunStyle(size, bold) == [size |-> size, bold |-> bold]
NoStyle == RunStyle(<<>>, <<>>)
Holder(idx, kind, at, style) == [idx |-> idx, kind |-> kind, at |-> at, style |-> style]
SlidePlaceholders ==
    [layout |-> <<Holder(1, "body", <<>>, RunStyle(<<20>>, <<>>)), Holder(0, "ctrTitle", QuarterAt, NoStyle),
                  Holder(2, "pic", NowhereAt, NoStyle), Holder(3, "dt", <<>>, NoStyle)>>,
     master |-> <<Holder(1, "body", HalfAt, NoStyle), Holder(0, "title", FlatAt, NoStyle),
                  Holder(2, "dt", FlatAt, NoStyle)>>]
SlideMasterStyles == [title |-> RunStyle(<<44>>, <<TRUE>>), body |-> NoStyle, other |-> NoStyle]
SlideDefault == [size |-> 18, bold |-> FALSE]

RunItem(text, style, link) == [is |-> "run", text |-> text, style |-> style, link |-> link]
BreakItem == [is |-> "break", text |-> <<>>, style |-> NoStyle, link |-> 0]
FormulaItem == [is |-> "formula", text |-> <<"x">>, style |-> NoStyle, link |-> 0]
EndItem == [is |-> "end", text |-> <<>>, style |-> NoStyle, link |-> 1]
Para(own, level, list) == [own |-> own, level |-> level, items |-> list]
TextBody(paragraphs) ==
    [lists |-> <<RunStyle(<<12>>, <<>>), NoStyle, RunStyle(<<10>>, <<TRUE>>)>>, paragraphs |-> paragraphs]
PlainBody == TextBody(<<Para(<<>>, 0, <<RunItem(<<"t">>, NoStyle, 0)>>)>>)
SlideBodies ==
    {TextBody(<<>>), TextBody(<<Para(<<>>, 0, <<BreakItem>>)>>),
     TextBody(<<Para(<<>>, 5, <<RunItem(<<>>, RunStyle(<<9>>, <<>>), 0), RunItem(<<"a">>, NoStyle, 1),
                                BreakItem, RunItem(<<"b">>, RunStyle(<<7>>, <<>>), 2)>>),
                Para(<<>>, 0, <<>>),
                Para(<<RunStyle(<<>>, <<TRUE>>)>>, 1, <<RunItem(<<"c">>, NoStyle, 0), EndItem>>)>>),
     TextBody(<<Para(<<>>, 1, <<RunItem(<<>>, NoStyle, 1), BreakItem>>),
                Para(<<>>, 0, <<RunItem(<<"d">>, NoStyle, 1)>>)>>),
     TextBody(<<Para(<<>>, 2, <<FormulaItem>>),
                Para(<<>>, 0, <<FormulaItem, RunItem(<<"e">>, RunStyle(<<7>>, <<>>), 0)>>)>>),
     TextBody(<<Para(<<>>, 2, <<FormulaItem, RunItem(<<"f">>, NoStyle, 0)>>)>>)}

Held(idx, kind) == <<[idx |-> idx, kind |-> kind]>>
SlideShapes ==
    {[holds |-> h, at |-> a, body |-> PlainBody, alt |-> TRUE, geometry |-> FALSE] :
        h \in {<<>>, Held(0, "title"), Held(1, "body"), Held(2, "x"), Held(0, "none"), Held(3, "dt")},
        a \in {<<>>, NowhereAt}}
    \cup {[holds |-> h, at |-> ThirdAt, body |-> b, alt |-> FALSE, geometry |-> h = <<>>] :
            h \in {<<>>, Held(1, "obj")}, b \in SlideBodies}
SlidePictures ==
    {[at |-> QuarterAt, alt |-> TRUE, hashed |-> FALSE], [at |-> NowhereAt, alt |-> FALSE, hashed |-> FALSE],
     [at |-> FlatAt, alt |-> FALSE, hashed |-> TRUE]}

Cell(covered, across, down) == [covered |-> covered, across |-> across, down |-> down]
MergedTable ==
    [columns |-> <<2, 0>>, heights |-> <<0, 0>>,
     rows |-> <<<<Cell(FALSE, 1, 2), Cell(FALSE, 1, 1)>>, <<Cell(TRUE, 1, 1), Cell(FALSE, 1, 1)>>>>]
OverlongTable ==
    [columns |-> <<1, 3, 2>>, heights |-> <<2>>,
     rows |-> <<<<Cell(FALSE, 2, 1), Cell(TRUE, 1, 1), Cell(FALSE, 5, 0), Cell(FALSE, 1, 1)>>>>]
EmptyTable == [columns |-> <<>>, heights |-> <<1>>, rows |-> <<<<>>>>]
NoTable == [columns |-> <<>>, heights |-> <<>>, rows |-> <<>>]
SparseChart == <<(0 :> "x" @@ 2 :> "y" @@ 3 :> "z"), (1 :> 5 @@ 2 :> 6 @@ 0 :> 7)>>

FrameOf(is, at, readable, table) ==
    [is |-> is, at |-> at, readable |-> readable, alt |-> TRUE, table |-> table, chart |-> SparseChart]
SlideFrames ==
    {FrameOf("table", WideAt, TRUE, MergedTable), FrameOf("table", ThirdAt, TRUE, MergedTable),
     FrameOf("table", QuarterAt, TRUE, OverlongTable), FrameOf("table", FlatAt, TRUE, EmptyTable),
     FrameOf("chart", QuarterAt, TRUE, NoTable), FrameOf("chart", FlatAt, FALSE, NoTable),
     FrameOf("picture", FlatAt, FALSE, NoTable), FrameOf("other", NowhereAt, TRUE, NoTable),
     FrameOf("other", FlatAt, TRUE, NoTable), FrameOf("other", FlatAt, FALSE, NoTable)}
SlideLayers == {<<"master", "layout", "slide">>}
==============================================================================
