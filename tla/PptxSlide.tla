----------------------------- MODULE PptxSlide ------------------------------
(***************************************************************************)
(* The shapes of a slide (docray-pptx, extract.rs): the shape trees of the *)
(* master, the layout and the slide one after the other, with their        *)
(* groups, the placeholders that take their place from the layout or the   *)
(* master, and what each shape leaves in the page and among its hidden     *)
(* items.                                                                  *)
(*                                                                         *)
(* A transform is [off, ext, flipH, flipV, turn], the turn in quarters     *)
(* clockwise; a group has chOff and chExt as well.  Lengths are integers,  *)
(* extents even, and those of a group multiples of its inner ones.  A      *)
(* place in the file is <<transform>>, <<>> when there is none, or Bad     *)
(* when it is malformed; what comes of it is a transform or <<>>.          *)
(*                                                                         *)
(* The environment writes the trees, one shape per step; met is what it    *)
(* wrote: history, the code never reads it.                                *)
(***************************************************************************)
EXTENDS PptxText, PptxTable, PdfGeometry

CONSTANTS
    MaxGroupDepth,  \* MAX_GROUP_DEPTH
    Layers,         \* the sequences of layers that may show
    Placeholders,   \* of the layout and the master: [idx, kind, at, style]
    MasterStyles,   \* the text styles of the master: "title", "body", "other"
    Externals,      \* the relationships that lead out of the package
    Shapes,         \* [holds, at, body, alt, geometry]
    Pictures,       \* [at, alt, hashed]
    Frames,         \* [is, at, readable, alt, table, chart]
    Groups,         \* the transforms of groups, <<transform>>, or <<>> when missing or malformed
    Fuel            \* bound: two per shape of the page, one per group

\* A transform, and a place: there, missing or malformed.
Transform == [off : Int \X Int, ext : Nat \X Nat, flipH : BOOLEAN, flipV : BOOLEAN, turn : 0 .. 3]

Bad == <<"malformed", "place">>

Given(at) == Len(at) = 1

IsPlace(at) == at = <<>> \/ at = Bad \/ (Given(at) /\ at = <<at[1]>> /\ at[1] \in Transform)

\* The extents of a group are multiples of its inner ones.
IsGroup(g) ==
    /\ g \in [off : Int \X Int, ext : Nat \X Nat, flipH : BOOLEAN, flipV : BOOLEAN, turn : 0 .. 3,
              chOff : Int \X Int, chExt : Nat \X Nat]
    /\ \A i \in {1, 2} : g.chExt[i] # 0 => g.ext[i] % g.chExt[i] = 0

\* What the parser of a slide hands over.
SlidesTyped ==
    /\ \A l \in Layers : l \in Seq({"master", "layout", "slide"})
    /\ \A root \in {"layout", "master"} :
          /\ Placeholders[root] \in Seq(Range(Placeholders[root]))
          /\ \A c \in Range(Placeholders[root]) : IsPlace(c.at)
    /\ 0 \notin Externals /\ AutoRow \in Nat
    /\ \A s \in Shapes : IsPlace(s.at) /\ IsBody(s.body)
    /\ \A p \in Pictures : IsPlace(p.at)
    /\ \A f \in Frames :
          /\ IsPlace(f.at) /\ IsTable(f.table)
          /\ Given(f.at) => Divides(f.table.columns, f.at[1].ext[1])
          /\ DOMAIN f.chart[1] \subseteq Nat /\ IsFiniteSet(DOMAIN f.chart[1])
          /\ DOMAIN f.chart[2] \subseteq Nat /\ IsFiniteSet(DOMAIN f.chart[2])
    /\ \A g \in Groups : g = <<>> \/ IsGroup(g[1])

VARIABLES
    layer,      \* the layers still to come, the current one first
    groups,     \* the transforms of the groups around
    elements,   \* of the page
    hidden,     \* its hidden items: [kind, of, content]
    met, noted

vars == <<layer, groups, elements, hidden, met, noted>>

\* A record with more fields.
With(r, more) == [x \in DOMAIN r \cup DOMAIN more |-> IF x \in DOMAIN r THEN r[x] ELSE more[x]]

Init ==
    /\ layer \in Layers
    /\ groups = <<>> /\ elements = <<>> /\ hidden = <<>> /\ met = <<>> /\ noted = {}

Inherited == layer[1] # "slide"

\* flip_rotate: about a centre, the flips first.
FlipRotate(p, c, x) ==
    LET flipped == <<IF x.flipH THEN 2 * c[1] - p[1] ELSE p[1], IF x.flipV THEN 2 * c[2] - p[2] ELSE p[2]>>
        d == <<flipped[1] - c[1], flipped[2] - c[2]>>
    IN  CASE x.turn = 1 -> <<c[1] - d[2], c[2] + d[1]>>
          [] x.turn = 2 -> <<c[1] - d[1], c[2] - d[2]>>
          [] x.turn = 3 -> <<c[1] + d[2], c[2] - d[1]>>
          [] OTHER      -> flipped

Centre(x) == <<x.off[1] + x.ext[1] \div 2, x.off[2] + x.ext[2] \div 2>>

\* transform_group
TransformGroup(p, g) ==
    FlipRotate(<<g.off[1] + ((p[1] - g.chOff[1]) * g.ext[1]) \div g.chExt[1],
                 g.off[2] + ((p[2] - g.chOff[2]) * g.ext[2]) \div g.chExt[2]>>, Centre(g), g)

\* The groups from the outer one in.
OutwardFrom(p) ==
    LET at[i \in 0 .. Len(groups)] == IF i = 0 THEN p ELSE TransformGroup(at[i - 1], groups[i])
    IN  at[Len(groups)]

\* The groups from the inner one out.
Outward(p) ==
    LET at[i \in 0 .. Len(groups)] ==
          IF i = 0 THEN p ELSE TransformGroup(at[i - 1], groups[Len(groups) - i + 1])
    IN  at[Len(groups)]

\* transformed_corners: box is turned with the shape x it belongs to, then taken
\* through the groups, the inner one first.
TransformedCorners(box, x) == {Outward(FlipRotate(p, Centre(x), x)) : p \in Corners(box)}

BoxOf(x) == <<x.off[1], x.off[2], x.off[1] + x.ext[1], x.off[2] + x.ext[2]>>

\* find_placeholder: by the index when there is one, else by the kind, where
\* the two kinds of titles are one.
Title == {"title", "ctrTitle"}

Matches(wanted, candidate) ==
    IF wanted.idx # 0 THEN candidate.idx = wanted.idx
    ELSE wanted.kind = candidate.kind \/ (wanted.kind \in Title /\ candidate.kind \in Title)

FindPlaceholder(root, wanted) ==
    LET i == SelectInSeq(Placeholders[root], LAMBDA c : Matches(wanted, c))
    IN  IF i = 0 THEN <<>> ELSE <<Placeholders[root][i]>>

\* The transform of the placeholder a layer above has for it.
AtIn(root, wanted) ==
    LET found == FindPlaceholder(root, wanted)
    IN  IF found = <<>> \/ ~ Given(found[1].at) THEN <<>> ELSE found[1].at

\* The transform of a shape: its own, malformed or not, before the layout's and
\* the master's.
Resolve(at, holds) ==
    IF at = Bad THEN <<>>
    ELSE IF Given(at) \/ holds = <<>> THEN at
    ELSE IF AtIn("layout", holds[1]) # <<>> THEN AtIn("layout", holds[1])
    ELSE AtIn("master", holds[1])
-----------------------------------------------------------------------------
\* history: a shape of the page
Spent == Len(met) + Cardinality({i \in DOMAIN met : met[i].is # "group"})

Meets(shape) ==
    /\ layer # <<>> /\ Spent + (IF shape.is = "group" THEN 1 ELSE 2) <= Fuel
    /\ met' = Append(met, With(shape, [chain |-> groups, layer |-> layer[1]]))

Warns == noted' = noted \cup {Len(met')}

Left == UNCHANGED <<layer, groups>>

Nothing == UNCHANGED <<elements, hidden>>

\* The items about a shape's element, and at the end of an inherited shape one
\* for each element it has left.
Items(kinds) == [i \in DOMAIN kinds |-> [kind |-> kinds[i], of |-> Len(elements), at |-> Len(met')]]

Tagged ==
    IF ~ Inherited THEN <<>>
    ELSE [i \in 1 .. Len(elements') - Len(elements) |->
            [kind |-> layer[1], of |-> Len(elements) + i - 1, at |-> Len(met')]]

Emits(new, kinds) ==
    /\ elements' = elements \o [i \in DOMAIN new |->
                      With(new[i], [id |-> Len(elements) + i - 1, at |-> Len(met')])]
    /\ hidden' = hidden \o Items(kinds) \o Tagged

If(test, kind) == IF test THEN <<kind>> ELSE <<>>

\* A shape marked hidden, and a child of a kind that is not handled, whatever
\* it holds (mc:AlternateContent, contentPart): no element, no warning.
Unseen == Meets([is |-> "unseen"]) /\ Left /\ Nothing /\ UNCHANGED noted

\* The styles a shape's text inherits: of its layout placeholder, and of the
\* master for its kind (master_text_style).
StyleName(holds) ==
    IF holds = <<>> THEN "other"
    ELSE IF holds[1].kind \in Title THEN "title"
    ELSE IF holds[1].kind \in {"none", "body", "subTitle", "obj"} THEN "body" ELSE "other"

InheritedStyles(holds) ==
    LET found == IF holds = <<>> THEN <<>> ELSE FindPlaceholder("layout", holds[1])
    IN  <<IF found = <<>> THEN Silent ELSE found[1].style, MasterStyles[StyleName(holds)]>>

TextOf(s, box) ==
    [is |-> "text", box |-> box, font |-> Summary(s.body, InheritedStyles(s.holds)),
     runs |-> Runs(s.body, InheritedStyles(s.holds), Externals)]

\* extract_shape: the text with its links, else the outline, else nothing.
Shape(s) ==
    LET x     == Resolve(s.at, s.holds)
        box   == Hull(TransformedCorners(BoxOf(x[1]), x[1]))
        text  == Content(s.body)
        links == Links(s.body, Externals)
        kinds == If(s.holds # <<>>, "role") \o If(s.alt, "alt")
    IN  /\ Meets([is |-> "shape", s |-> s])
        /\ Left
        /\ IF Inherited /\ s.holds # <<>> THEN Nothing /\ UNCHANGED noted
           ELSE IF x = <<>> THEN Nothing /\ Warns
           ELSE /\ UNCHANGED noted
                /\ IF text # <<>>
                   THEN Emits(<<TextOf(s, box)>> \o
                              [i \in DOMAIN links |-> [is |-> "link", box |-> box]], kinds)
                   ELSE IF s.geometry THEN Emits(<<[is |-> "path", box |-> box]>>, kinds)
                   ELSE Nothing

\* extract_path, a connector.
Connector(at, alt) ==
    /\ Meets([is |-> "connector", at |-> at])
    /\ Left
    /\ IF ~ Given(at) THEN Nothing /\ Warns
       ELSE /\ Emits(<<[is |-> "path", box |-> Hull(TransformedCorners(BoxOf(at[1]), at[1]))]>>, If(alt, "alt"))
            /\ UNCHANGED noted

\* extract_picture: the picture comes out whatever its media is.
Image(x) ==
    [is |-> "image", box |-> Hull(TransformedCorners(BoxOf(x), x)), quad |-> TransformedCorners(BoxOf(x), x)]

Picture(p) ==
    /\ Meets([is |-> "picture", at |-> p.at])
    /\ Left
    /\ IF ~ Given(p.at) THEN Nothing /\ Warns
       ELSE /\ Emits(<<Image(p.at[1])>>, If(p.alt, "alt"))
            /\ IF p.hashed THEN UNCHANGED noted ELSE Warns

\* A table's cells turn with the frame, not each about itself.
TableOf(f, x) ==
    LET cells == Cells(f.table, x)
    IN  [is |-> "table", box |-> Hull(TransformedCorners(BoxOf(x), x)),
         cells |-> [i \in DOMAIN cells |->
                      [cells[i] EXCEPT !.box = Hull(TransformedCorners(@, x))]]]

\* extract_graphic_frame: a chart, a diagram or another object whose part or
\* text cannot be had leaves a warning in its place.
Frame(f) ==
    LET x   == f.at[1]
        box == Hull(TransformedCorners(BoxOf(x), x))
    IN  /\ Meets([is |-> "frame", f |-> f])
        /\ Left
        /\ IF ~ Given(f.at) THEN Nothing /\ Warns
           ELSE CASE f.is = "table" ->
                       IF Skipped(f.table, x) THEN Nothing /\ Warns
                       ELSE /\ Emits(<<TableOf(f, x)>>, <<>>)
                            /\ IF Synthesized(f.table, x) THEN Warns ELSE UNCHANGED noted
                  [] f.is = "picture" ->
                       /\ Emits(<<Image(x)>>, If(f.alt, "alt"))
                       /\ IF f.readable THEN UNCHANGED noted ELSE Warns
                  [] f.is = "chart" ->
                       IF f.readable
                       THEN /\ Emits(<<[is |-> "chart", box |-> box,
                                        points |-> Points(f.chart[1], f.chart[2])]>>, <<>>)
                            /\ UNCHANGED noted
                       ELSE Nothing /\ Warns
                  [] OTHER ->
                       IF f.readable THEN Emits(<<[is |-> "text", box |-> box]>>, <<>>) /\ UNCHANGED noted
                       ELSE Nothing /\ Warns

\* A group that is nested too deep, or has no usable transform, is skipped with
\* all that is in it.
Refused(g) ==
    Len(groups) >= MaxGroupDepth \/ g = <<>> \/ g[1].chExt[1] = 0 \/ g[1].chExt[2] = 0

GroupBegins(g) ==
    /\ Meets([is |-> "group", g |-> g])
    /\ IF Refused(g) THEN Warns /\ UNCHANGED groups
       ELSE groups' = Append(groups, g[1]) /\ UNCHANGED noted
    /\ UNCHANGED layer /\ Nothing

\* The elements of a group were tagged one by one already.
GroupEnds ==
    /\ groups # <<>> /\ groups' = Front(groups)
    /\ UNCHANGED <<layer, elements, hidden, met, noted>>

LayerEnds ==
    /\ layer # <<>> /\ groups = <<>>
    /\ layer' = Tail(layer)
    /\ UNCHANGED <<groups, elements, hidden, met, noted>>

Next ==
    \/ Unseen
    \/ \E s \in Shapes : Shape(s)
    \/ \E p \in Pictures : Picture(p) \/ Connector(p.at, p.alt)
    \/ \E f \in Frames : Frame(f)
    \/ \E g \in Groups : GroupBegins(g)
    \/ GroupEnds \/ LayerEnds

Spec == Init /\ [][Next]_vars
-----------------------------------------------------------------------------
\* Where a shape gets its place: the first it has of its own, the layout's and
\* the master's placeholder for it, a malformed one of its own being final.
Placed(shape) ==
    LET Sane(at) == IF Given(at) THEN at ELSE <<>>
        Theirs(root) == {i \in DOMAIN Placeholders[root] : Matches(shape.s.holds[1], Placeholders[root][i])}
        First(root) == IF Theirs(root) = {} THEN <<>> ELSE Sane(Placeholders[root][Min(Theirs(root))].at)
        places == IF shape.s.holds = <<>> THEN <<shape.s.at>>
                  ELSE <<shape.s.at, First("layout"), First("master")>>
        given == SelectInSeq(places, LAMBDA at : at # <<>>)
    IN  CASE shape.is = "shape" ->
               IF (shape.layer # "slide" /\ shape.s.holds # <<>>) \/ given = 0 THEN <<>>
               ELSE Sane(places[given])
          [] shape.is \in {"connector", "picture"} -> Sane(shape.at)
          [] shape.is = "frame" -> Sane(shape.f.at)
          [] OTHER -> <<>>

\* What a shape is to leave in the page.
Expected(shape) ==
    IF Placed(shape) = <<>> THEN <<>>
    ELSE CASE shape.is = "shape" ->
                IF Content(shape.s.body) # <<>>
                THEN <<"text">> \o [i \in DOMAIN Links(shape.s.body, Externals) |-> "link"]
                ELSE If(shape.s.geometry, "path")
           [] shape.is = "connector" -> <<"path">>
           [] shape.is = "picture" -> <<"image">>
           [] OTHER -> IF shape.f.is = "picture" THEN <<"image">>
                       ELSE IF shape.f.is = "table" THEN If(~ Skipped(shape.f.table, shape.f.at[1]), "table")
                       ELSE If(shape.f.readable, IF shape.f.is = "chart" THEN "chart" ELSE "text")

\* A shape with nothing to show, and a placeholder of a layer above.
Silently(shape) ==
    shape.is = "shape" /\ (Placed(shape) # <<>> \/ (shape.layer # "slide" /\ shape.s.holds # <<>>))

(* The elements of a page are its shapes, the master's first, in the order *)
(* of the trees and numbered without gaps; each element of a layer above   *)
(* is said to be of that layer exactly once, one of the slide never; roles *)
(* and descriptions are of the first element of their shape; a shape that  *)
(* is handled and left out for a fault of the file has a warning.          *)
ShapesExact ==
    /\ \A i \in DOMAIN met :
          LET kinds == Expected(met[i])
          IN  \E before \in 0 .. Len(elements) :
                 /\ {k \in DOMAIN elements : elements[k].at = i} = before + 1 .. before + Len(kinds)
                 /\ \A j \in DOMAIN kinds : elements[before + j].is = kinds[j]
    /\ \A k \in DOMAIN elements :
          /\ elements[k].at \in DOMAIN met
          /\ elements[k].id = k - 1
          /\ k > 1 => elements[k - 1].at <= elements[k].at
          /\ LET tags == {i \in DOMAIN hidden : hidden[i].of = k - 1 /\ hidden[i].kind \in {"master", "layout"}}
                 above == met[elements[k].at].layer
             IN  IF above = "slide" THEN tags = {}
                 ELSE Cardinality(tags) = 1 /\ \A i \in tags : hidden[i].kind = above
    /\ \A i \in DOMAIN hidden :
          /\ hidden[i].of \in {elements[k].id : k \in DOMAIN elements}
          /\ elements[hidden[i].of + 1].at = hidden[i].at
          /\ hidden[i].kind \in {"role", "alt"} =>
                hidden[i].of = 0 \/ elements[hidden[i].of].at # hidden[i].at
    /\ \A i \in DOMAIN met :
          met[i].is \notin {"group", "unseen"} /\ Expected(met[i]) = <<>> /\ ~ Silently(met[i]) => i \in noted

\* A flip or turn about a centre, and a group, as matrices.
Shift(d) == [Identity EXCEPT !.e = d[1], !.f = d[2]]

Turning(x) ==
    LET flip == [Identity EXCEPT !.a = IF x.flipH THEN -1 ELSE 1, !.d = IF x.flipV THEN -1 ELSE 1]
        quarter == [a |-> 0, b |-> 1, c |-> -1, d |-> 0, e |-> 0, f |-> 0]
        turned[q \in 0 .. x.turn] == IF q = 0 THEN flip ELSE Multiply(turned[q - 1], quarter)
        back == Centre(x)
    IN  Multiply(Multiply(Shift(<<0 - back[1], 0 - back[2]>>), turned[x.turn]), Shift(back))

Scaling(g) ==
    [Identity EXCEPT !.a = g.ext[1] \div g.chExt[1], !.d = g.ext[2] \div g.chExt[2],
                     !.e = g.off[1] - g.chOff[1] * (g.ext[1] \div g.chExt[1]),
                     !.f = g.off[2] - g.chOff[2] * (g.ext[2] \div g.chExt[2])]

\* The whole way of a shape, its own turn first and the outermost group last.
Way(x, chain) ==
    LET way[i \in 0 .. Len(chain)] ==
          IF i = 0 THEN Turning(x)
          ELSE LET g == chain[Len(chain) - i + 1]
               IN  Multiply(way[i - 1], Multiply(Scaling(g), Turning(g)))
    IN  way[Len(chain)]

(* A shape lies where its own turn and the groups around it, the inner     *)
(* ones first, put it; the cells of a table tile it in the same place, its *)
(* merges within the grid; a chart has its values, and the text of a shape *)
(* agrees with its runs.                                                   *)
ShapesPlaced == \A k \in DOMAIN elements :
    LET e == elements[k]
        shape == met[e.at]
        x == Placed(shape)[1]
        Lies(box) == Hull({TransformPoint(Way(x, shape.chain), p) : p \in Corners(box)})
    IN  /\ e.box = Lies(BoxOf(x))
        /\ e.is = "table" =>
              LET cells == Cells(shape.f.table, x)
              IN  /\ TableExact(shape.f.table, x)
                  /\ [i \in DOMAIN e.cells |-> e.cells[i].box] = [i \in DOMAIN cells |-> Lies(cells[i].box)]
        /\ e.is = "chart" => PointsExact(shape.f.chart[1], shape.f.chart[2])
        /\ shape.is = "shape" => TextConsistent(shape.s.body, InheritedStyles(shape.s.holds), Externals)
=============================================================================
