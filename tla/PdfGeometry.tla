---------------------------- MODULE PdfGeometry -----------------------------
(***************************************************************************)
(* Where an object of a PDF page lies on the visible page (docray-pdf,     *)
(* coords.rs and the matrices of extract.rs).  Numbers are integers: the   *)
(* rounding to three digits is the identity on them.  A matrix maps        *)
(* <<x, y>> to <<a x + c y + e, b x + d y + f>>, a box is                  *)
(* <<left, bottom, right, top>> or, on the page, <<x0, y0, x1, y1>>.       *)
(***************************************************************************)
EXTENDS Integers, Sequences, FiniteSetsExt

Identity == [a |-> 1, b |-> 0, c |-> 0, d |-> 1, e |-> 0, f |-> 0]

\* PdfMatrix::multiply: m, then n.
Multiply(m, n) ==
    [a |-> m.a * n.a + m.b * n.c, b |-> m.a * n.b + m.b * n.d,
     c |-> m.c * n.a + m.d * n.c, d |-> m.c * n.b + m.d * n.d,
     e |-> m.e * n.a + m.f * n.c + n.e, f |-> m.e * n.b + m.f * n.d + n.f]

TransformPoint(m, p) ==
    <<m.a * p[1] + m.c * p[2] + m.e, m.b * p[1] + m.d * p[2] + m.f>>

Hull(points) ==
    <<Min({p[1] : p \in points}), Min({p[2] : p \in points}),
      Max({p[1] : p \in points}), Max({p[2] : p \in points})>>

Corners(box) == {<<box[1], box[2]>>, <<box[3], box[2]>>, <<box[3], box[4]>>, <<box[1], box[4]>>}

UnitSquare == {<<0, 0>>, <<1, 0>>, <<1, 1>>, <<0, 1>>}

\* PageSpace: the size is that of the visible page; width and height swap back
\* for a page on its side.
Space(rotation, w, h) ==
    [rotation |-> rotation, w |-> IF rotation \in {90, 270} THEN h ELSE w,
                            h |-> IF rotation \in {90, 270} THEN w ELSE h]

Point(space, p) ==
    CASE space.rotation = 90  -> <<p[2], p[1]>>
      [] space.rotation = 180 -> <<space.w - p[1], p[2]>>
      [] space.rotation = 270 -> <<space.h - p[2], space.w - p[1]>>
      [] OTHER                -> <<p[1], space.h - p[2]>>

PageBox(space, box) == Hull({Point(space, p) : p \in Corners(box)})

\* object_bbox: the bounds of an object, taken through the forms around it.
\* via is <<>> for an object of the page itself.
ObjectBox(bounds, via, space) ==
    IF via = <<>> THEN PageBox(space, bounds)
    ELSE PageBox(space, Hull({TransformPoint(via[1], p) : p \in Corners(bounds)}))

\* unit_square_bbox
UnitBox(m, space) == PageBox(space, Hull({TransformPoint(m, p) : p \in UnitSquare}))

\* image_quad, as the set of its corners: the box when the image is upright.
Upright(m) == m.b = 0 /\ m.c = 0 /\ m.a > 0 /\ m.d > 0

Quad(m, box, space) ==
    IF m = <<>> \/ Upright(m[1]) THEN Corners(box)
    ELSE {Point(space, TransformPoint(m[1], p)) : p \in UnitSquare}
-----------------------------------------------------------------------------
(***************************************************************************)
(* The reference: a point is taken through the matrices of the forms one   *)
(* after the other, from the inner one out, and the page, upright with its *)
(* origin at the top left, is turned clockwise a quarter at a time.        *)
(***************************************************************************)
\* The size of the upright page, a point on it, and both after a quarter turn.
Turn(st) == [w |-> st.h, h |-> st.w, at |-> <<st.h - st.at[2], st.at[1]>>]

Turned(w, h, p, quarters) ==
    LET st[q \in 0 .. quarters] ==
          IF q = 0 THEN [w |-> w, h |-> h, at |-> <<p[1], h - p[2]>>] ELSE Turn(st[q - 1])
    IN  st[quarters].at

Through(chain, p) ==
    LET at[i \in 0 .. Len(chain)] ==
          IF i = 0 THEN p ELSE TransformPoint(chain[Len(chain) - i + 1], at[i - 1])
    IN  at[Len(chain)]
=============================================================================
