------------------------------- MODULE MCDecks -------------------------------
(* The decks of MCConversions: a deck of two slides that share a layout,   *)
(* and that deck with a part missing, damaged, or of another size, with    *)
(* two such defects, with other entries, relations and calls.              *)
EXTENDS Integers, Sequences, SequencesExt, TLC

PresentationPart == <<"ppt", "presentation.xml">>
CorePart == <<"docProps", "core.xml">>
RelsOfPart(part) == Front(part) \o <<"_rels", Last(part) \o ".rels">>
Slide1 == <<"ppt", "slides", "s1.xml">>
Slide2 == <<"ppt", "slides", "s2.xml">>
LayoutPart == <<"ppt", "layouts", "l.xml">>
MasterPart == <<"ppt", "masters", "m.xml">>
ThemePart == <<"ppt", "theme", "t.xml">>
MediaPart == <<"ppt", "media", "i.png">>
NotesPart == <<"ppt", "notes", "n.xml">>

RelTo(id, kind, absolute, segments) ==
    [id |-> id, kind |-> kind, external |-> FALSE,
     target |-> [absolute |-> absolute, segments |-> segments]]
ImageRel == RelTo(8, "image", FALSE, <<"..", "media", ".", "i.png">>)

ImageTargets ==
    {ImageRel.target,
     [absolute |-> FALSE, segments |-> <<"..", "..", "..", "media", "i.png">>],
     [absolute |-> TRUE, segments |-> <<"ppt", "x", "", "..", "media", "i.png">>],
     [absolute |-> FALSE, segments |-> <<"..", "media", "none.png">>]}

DeckRels(image, external) ==
    (PresentationPart :> <<RelTo(1, "slide", FALSE, <<"slides", "s1.xml">>),
                       RelTo(2, "slide", TRUE, <<"ppt", "slides", "s2.xml">>),
                       [RelTo(3, "slide", FALSE, <<"x">>) EXCEPT !.external = TRUE],
                       RelTo(4, "slide", FALSE, <<"..", "..", "x">>)>>)
    @@ (Slide1 :> <<RelTo(1, "slideLayout", FALSE, <<"..", "layouts", "l.xml">>),
                    [ImageRel EXCEPT !.target = image, !.external = external],
                    RelTo(5, "notesSlide", FALSE, <<"..", "notes", "n.xml">>)>>)
    @@ (Slide2 :> <<RelTo(1, "slideLayout", FALSE, <<"..", "layouts", "l.xml">>)>>)
    @@ (LayoutPart :> <<RelTo(1, "slideMaster", FALSE, <<"..", "masters", "m.xml">>), ImageRel>>)
    @@ (MasterPart :> <<RelTo(1, "theme", FALSE, <<"..", "theme", "t.xml">>), ImageRel>>)

Parts ==
    <<PresentationPart, CorePart, Slide1, Slide2, LayoutPart, MasterPart, ThemePart, NotesPart, MediaPart>>
    \o [i \in 1 .. 5 |-> RelsOfPart(<<PresentationPart, Slide1, Slide2, LayoutPart, MasterPart>>[i])]
PartNames == Range(Parts)

Stored(part) == [name |-> part, unsafe |-> FALSE, size |-> 1, packed |-> 1, real |-> 1]
Sample ==
    [archive |-> [i \in DOMAIN Parts |-> Stored(Parts[i])], xml |-> PartNames \ {MediaPart},
     rels |-> DeckRels(ImageRel.target, FALSE), listed |-> <<1, 2>>, sized |-> TRUE,
     pictures |-> (Slide1 :> 8 @@ LayoutPart :> 8 @@ MasterPart :> 8 @@ Slide2 :> 9),
     hides |-> {}, limit |-> <<>>, selected |-> FALSE, legacy |-> FALSE]

\* One part missing, damaged, impossible to open, or larger than it says.
Lost(d, part) == [d EXCEPT !.archive = SelectSeq(@, LAMBDA e : e.name # part)]
Damaged(d, part) == [d EXCEPT !.xml = @ \ {part}]
Grown(d, part, real) ==
    [d EXCEPT !.archive = [i \in DOMAIN @ |-> IF @[i].name = part THEN [@[i] EXCEPT !.real = real] ELSE @[i]]]
Defects(d) ==
    {Lost(d, p) : p \in PartNames} \cup {Damaged(d, p) : p \in PartNames}
    \cup {Grown(d, p, r) : p \in {Slide1, LayoutPart, MediaPart, RelsOfPart(Slide1)}, r \in {-2, -1, 0, 3, 4, 9}}

Related ==
    {[Sample EXCEPT !.hides = h] : h \in SUBSET {Slide1, LayoutPart}}
    \cup {[Sample EXCEPT !.rels = DeckRels(t, e)] : t \in ImageTargets, e \in BOOLEAN}
Called ==
    {[Sample EXCEPT !.listed = l, !.limit = m] :
        l \in {<<>>, <<1>>, <<2, 1>>, <<1, 3>>, <<4>>, <<0, 1>>, <<5>>, <<1, 1>>}, m \in {<<>>, <<1>>}}
    \cup {[Sample EXCEPT !.selected = TRUE], [Sample EXCEPT !.legacy = TRUE], [Sample EXCEPT !.sized = FALSE]}
Packed ==
    {[Sample EXCEPT !.archive = Append(@, e)] :
        e \in [name : {<<"x">>, Slide1}, unsafe : BOOLEAN, size : 0 .. 5, packed : 0 .. 2, real : {1}]}
\* As many entries as an archive may have, and one more.
Crowded ==
    {[Sample EXCEPT !.archive = @ \o [i \in 1 .. n |-> Stored(<<"x">>)]] : n \in {1, 2}}
\* Decks whose declared sizes meet and cross the total.
Sized ==
    {[Sample EXCEPT !.archive = [i \in DOMAIN @ |-> IF i <= k THEN [@[i] EXCEPT !.size = 2] ELSE @[i]]] :
        k \in 8 .. 11}

SampleDecks ==
    Sized \cup Crowded \cup Related \cup Called \cup Packed \cup UNION {Defects(d) : d \in Related \cup Defects(Sample)}
==============================================================================
