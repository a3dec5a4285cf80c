----------------------------- MODULE PdfExtract -----------------------------
(***************************************************************************)
(* The extraction of a PDF (docray-pdf, extract.rs): the selected pages    *)
(* one by one, the objects of a page with the forms among them, the glyphs *)
(* of a text object, the annotations.  PDFium may fail at every call, and  *)
(* what it fails at is left out with a warning or replaced by a stand-in.  *)
(*                                                                         *)
(* The environment writes the document, one object or glyph per step.      *)
(* met is what it wrote of the current page: history, the code never       *)
(* reads it.                                                               *)
(***************************************************************************)
EXTENDS PageSelection, TextLines, PdfGeometry

CONSTANTS
    Selections,    \* what is asked for: <<>> or <<selection>>
    Limits,        \* max_pages: <<>> or <<limit>>
    MaxFormDepth,  \* MAX_FORM_DEPTH
    MinSuspects,   \* GARBLED_TEXT_MIN_SUSPECT_GLYPHS
    Width, Height, \* the visible page
    Rotations, Matrices, Boxes, Glyphs,   \* what the documents are made of
    MaxPages, Fuel                        \* bounds: pages; two per object, one per glyph

Matrix == [a : Int, b : Int, c : Int, d : Int, e : Int, f : Int]

\* What a caller may ask for and PDFium may answer.
AnswersTyped ==
    /\ \A sel \in Selections : sel = <<>> \/ (sel = <<sel[1]>> /\ sel[1] \in PageSelections)
    /\ MaxFormDepth \in Nat /\ MaxPages \in Nat
    /\ Width \in Int /\ Height \in Int /\ Rotations \subseteq {0, 90, 180, 270}
    /\ \A m \in Matrices : m = <<m[1]>> /\ m[1] \in Matrix
    /\ Boxes \subseteq Int \X Int \X Int \X Int

VARIABLES
    phase,     \* "open", "pages", "page", "text", "notes" (annotations), "done", "failed"
    error,     \* the code of the ExtractError
    pages,     \* the pages that are out
    count,     \* page_count
    range,     \* the selected pages, <<first, last>>
    warned,    \* the pages there is a warning about as a whole
    noted,     \* the objects of the current page with a warning
    space,     \* the PageSpace of the current page
    forms,     \* child_to_page of the forms around the current object
    elements,  \* of the current page
    quality,   \* PageTextQuality: the glyphs of the page and the suspect ones
    glyphs,    \* of the current text object
    met, chain, left

doc == <<count, range, error>>
current == <<space, forms, elements, quality, glyphs, met, chain, noted>>
vars == <<phase, pages, warned, left, doc, current>>

Blank == [glyphs |-> 0, suspects |-> 0]

Init ==
    /\ phase = "open" /\ error = "none" /\ pages = <<>> /\ count = 0 /\ range = <<1, 0>>
    /\ warned = {} /\ left = Fuel
    /\ space = Space(0, Width, Height) /\ forms = <<>> /\ elements = <<>>
    /\ quality = Blank /\ glyphs = <<>> /\ met = <<>> /\ chain = <<>> /\ noted = {}

\* The page number of the next page to come out, absolute.
Number == range[1] + Len(pages)

OpenFails ==
    /\ phase = "open" /\ phase' = "failed"
    /\ error' \in {"unsupported_format", "io_error", "encrypted_pdf", "parse_failure"}
    /\ UNCHANGED <<pages, warned, left, count, range, current>>

Covered(sel, n) == IF sel = <<>> THEN n ELSE Count(sel[1])

OutOfRangeStart(sel, n) == sel # <<>> /\ sel[1].start > n

OutOfRange(sel, n) == sel # <<>> /\ sel[1].end > n

\* extract, up to its loop: the range, checked against the document first and
\* against the limit then.
Open(sel, limit, n) ==
    /\ phase = "open"
    /\ count' = n
    /\ range' = IF sel = <<>> THEN <<1, n>> ELSE <<sel[1].start, sel[1].end>>
    /\ error' = IF OutOfRange(sel, n) THEN "page_out_of_range"
                ELSE IF limit # <<>> /\ Covered(sel, n) > limit[1] THEN "too_many_pages"
                ELSE "none"
    /\ phase' = IF error' = "none" THEN "pages" ELSE "failed"
    /\ UNCHANGED <<pages, warned, left, current>>

\* A page that cannot be loaded or has no text page: a stand-in, with the
\* dimensions if they can be read.
PageFails(what) ==
    /\ phase = "pages" /\ count > 0 /\ Number <= range[2]
    /\ pages' = Append(pages, [number |-> Number, is |-> what, scanned |-> FALSE, garbled |-> FALSE])
    /\ warned' = warned \cup {Number}
    /\ UNCHANGED <<phase, left, doc, current>>

PageBegins(rotation) ==
    /\ phase = "pages" /\ count > 0 /\ Number <= range[2]
    /\ phase' = "page"
    /\ space' = Space(rotation, Width, Height)
    /\ UNCHANGED <<pages, warned, left, doc, forms, elements, quality, glyphs, met, chain, noted>>

Finished ==
    /\ phase = "pages" /\ (count = 0 \/ Number > range[2])
    /\ phase' = "done"
    /\ UNCHANGED <<pages, warned, left, doc, current>>
-----------------------------------------------------------------------------
Via == IF forms = <<>> THEN <<>> ELSE <<Last(forms)>>

\* A record with more fields.
With(r, more) == [x \in DOMAIN r \cup DOMAIN more |-> IF x \in DOMAIN r THEN r[x] ELSE more[x]]

\* history: an object of the page, and the forms around it
Meets(object) ==
    /\ left > 1 /\ left' = left - 2
    /\ met' = Append(met, With(object, [chain |-> chain]))

Warns(what) == noted' = noted \cup {what}

Emits(element) ==
    elements' = Append(elements, With(element, [id |-> Len(elements), at |-> Len(met')]))

\* An object that cannot be loaded, or one of no supported kind.
ObjectFails ==
    /\ phase = "page"
    /\ Meets([is |-> "lost"]) /\ Warns(Len(met'))
    /\ UNCHANGED <<phase, pages, warned, doc, space, forms, elements, quality, glyphs, chain>>

\* A path; bounds that cannot be read leave a box of zeros and a warning.
Path(box) ==
    /\ phase = "page"
    /\ Meets([is |-> "path", box |-> box])
    /\ Emits([is |-> "path", box |-> IF box = <<>> THEN <<0, 0, 0, 0>> ELSE ObjectBox(box, Via, space)])
    /\ IF box = <<>> THEN Warns(Len(met')) ELSE UNCHANGED noted
    /\ UNCHANGED <<phase, pages, warned, doc, space, forms, quality, glyphs, chain>>

\* image_element: m is the matrix of the image or <<>>.
Composed(m, via) == IF via = <<>> \/ m = <<>> THEN m ELSE <<Multiply(m[1], via[1])>>

\* The bounds PDFium has of an image, when they can be read: those of the unit
\* square under its matrix, and any when that cannot be read.
ImageBounds(m) ==
    IF m = <<>> THEN Boxes ELSE {Hull({TransformPoint(m[1], p) : p \in UnitSquare})}

Image(m, bounds) ==
    LET whole == Composed(m, Via)
        box == IF forms # <<>> /\ whole # <<>> THEN UnitBox(whole[1], space)
               ELSE IF bounds # <<>> THEN ObjectBox(bounds, Via, space) ELSE <<0, 0, 0, 0>>
    IN  /\ phase = "page"
        /\ Meets([is |-> "image", m |-> m, bounds |-> bounds])
        /\ Emits([is |-> "image", box |-> box, quad |-> Quad(whole, box, space)])
        /\ IF m = <<>> \/ (forms = <<>> /\ bounds = <<>>) THEN Warns(Len(met')) ELSE UNCHANGED noted
        /\ UNCHANGED <<phase, pages, warned, doc, space, forms, quality, glyphs, chain>>

TooDeep == Len(forms) >= MaxFormDepth

\* A form: skipped when it is nested too deep or its number of children is an
\* error; a matrix that cannot be read counts as the identity.
ChildToPage(m) ==
    LET local == IF m = <<>> THEN Identity ELSE m[1]
    IN  IF forms = <<>> THEN local ELSE Multiply(local, Last(forms))

FormBegins(m) ==
    /\ phase = "page"
    /\ Meets([is |-> "form"])
    /\ IF TooDeep
       THEN Warns(Len(met')) /\ UNCHANGED <<forms, chain>>
       ELSE /\ forms' = Append(forms, ChildToPage(m))
            /\ chain' = Append(chain, IF m = <<>> THEN Identity ELSE m[1])
            /\ IF m = <<>> THEN Warns(Len(met')) ELSE UNCHANGED noted
    /\ UNCHANGED <<phase, pages, warned, doc, space, elements, quality, glyphs>>

FormFails ==
    /\ phase = "page" /\ ~ TooDeep
    /\ Meets([is |-> "lost"]) /\ Warns(Len(met'))
    /\ UNCHANGED <<phase, pages, warned, doc, space, forms, elements, quality, glyphs, chain>>

FormEnds ==
    /\ phase = "page" /\ forms # <<>>
    /\ forms' = Front(forms) /\ chain' = Front(chain)
    /\ UNCHANGED <<phase, pages, warned, left, doc, space, elements, quality, glyphs, met, noted>>
-----------------------------------------------------------------------------
\* A text object: its glyphs are counted as they are read, and a failure at any
\* of them drops the object.
TextBegins ==
    /\ phase = "page" /\ left > 1 /\ phase' = "text" /\ glyphs' = <<>>
    /\ UNCHANGED <<pages, warned, left, doc, space, forms, elements, quality, met, chain, noted>>

Observed(g) == [glyphs |-> quality.glyphs + 1,
                suspects |-> quality.suspects + (IF g.suspect THEN 1 ELSE 0)]

Glyph(g) ==
    /\ phase = "text" /\ left > 2 /\ left' = left - 1
    /\ glyphs' = Append(glyphs, g) /\ quality' = Observed(g)
    /\ UNCHANGED <<phase, pages, warned, doc, space, forms, elements, met, chain, noted>>

TextFails ==
    /\ phase = "text" /\ phase' = "page"
    /\ \/ glyphs = <<>> /\ UNCHANGED quality
       \/ \E g \in Glyphs : quality' = Observed(g)
    /\ Meets([is |-> "lost"]) /\ Warns(Len(met')) /\ glyphs' = <<>>
    /\ UNCHANGED <<pages, warned, doc, space, forms, elements, chain>>

\* A text without a visible glyph is no element, and no loss.
TextEnds ==
    LET lines == GroupIntoLines(glyphs)
    IN  /\ phase = "text" /\ phase' = "page"
        /\ Meets([is |-> "text", glyphs |-> glyphs])
        /\ IF lines = <<>> THEN UNCHANGED elements ELSE Emits([is |-> "text", lines |-> lines])
        /\ glyphs' = <<>>
        /\ UNCHANGED <<pages, warned, doc, space, forms, quality, chain, noted>>
-----------------------------------------------------------------------------
\* The objects are done: the annotations follow in the same numbering.
ObjectsEnd ==
    /\ phase = "page" /\ forms = <<>> /\ phase' = "notes"
    /\ UNCHANGED <<pages, warned, left, doc, current>>

Annotation(box) ==
    /\ phase = "notes"
    /\ Meets([is |-> IF box = <<>> THEN "lost" ELSE "annotation", box |-> box])
    /\ IF box = <<>> THEN Warns(Len(met')) /\ UNCHANGED elements
       ELSE Emits([is |-> "annotation", box |-> PageBox(space, box)]) /\ UNCHANGED noted
    /\ UNCHANGED <<phase, pages, warned, doc, space, forms, quality, glyphs, chain>>

Area(box) == (box[3] - box[1]) * (box[4] - box[2])

\* page_is_scanned: no text, and one image over 85 percent of the page.
Scanned ==
    /\ Width * Height > 0
    /\ \A k \in DOMAIN elements : elements[k].is # "text"
    /\ \E k \in DOMAIN elements :
          elements[k].is = "image" /\ 100 * Area(elements[k].box) >= 85 * Width * Height

\* is_likely_garbled
Garbled == quality.suspects >= MinSuspects /\ 100 * quality.suspects >= 50 * quality.glyphs

\* The garbled text of a page is a warning; all else of the page is local.
PageEnds ==
    /\ phase = "notes" /\ phase' = "pages"
    /\ pages' = Append(pages, [number |-> Number, is |-> "read", scanned |-> Scanned, garbled |-> Garbled])
    /\ forms' = <<>> /\ elements' = <<>> /\ quality' = Blank /\ glyphs' = <<>>
    /\ met' = <<>> /\ chain' = <<>> /\ noted' = {} /\ space' = Space(0, Width, Height)
    /\ UNCHANGED <<left, doc, warned>>

Document ==
    \/ OpenFails
    \/ \E sel \in Selections, limit \in Limits, n \in 0 .. MaxPages : Open(sel, limit, n)
    \/ PageFails("lost") \/ PageFails("unread")
    \/ \E r \in Rotations : PageBegins(r)
    \/ PageEnds \/ Finished

Objects ==
    \/ ObjectFails
    \/ \E box \in Boxes \cup {<<>>} : Path(box) \/ Annotation(box)
    \/ \E m \in Matrices \cup {<<>>} :
          FormBegins(m) \/ \E bounds \in ImageBounds(m) \cup {<<>>} : Image(m, bounds)
    \/ FormFails \/ FormEnds \/ ObjectsEnd

TextObject == TextBegins \/ (\E g \in Glyphs : Glyph(g)) \/ TextFails \/ TextEnds

Next == Document \/ Objects \/ TextObject

Spec == Init /\ [][Next]_vars
-----------------------------------------------------------------------------
\* What is asked for is a page selection or none, a limit or none.
Asked == range[1] .. range[2]
Exceeds(span) == \E limit \in Limits : limit # <<>> /\ span[2] - span[1] + 1 > limit[1]

(* Every page asked for comes out once, in order and under its number in   *)
(* the document, and one that could not be read has a stand-in and a       *)
(* warning; nothing is asked of a document that has not got it, and only   *)
(* what is longer than a limit is turned away for its length.              *)
PagesExact ==
    /\ \A k \in DOMAIN pages :
          /\ pages[k].number = range[1] + k - 1
          /\ pages[k].number \in Asked \cap 1 .. count
          /\ pages[k].is # "read" => pages[k].number \in warned /\ ~ pages[k].scanned
    /\ phase = "done" => {pages[k].number : k \in DOMAIN pages} = Asked
    /\ error = "too_many_pages" => Asked \subseteq 1 .. count /\ Exceeds(range)
    /\ phase # "failed" => \A p \in Asked : p \in 1 .. count

\* An object with a place in the output.
Shown(object) ==
    \/ object.is \in {"path", "image", "annotation"}
    \/ object.is = "text" /\ \E i \in DOMAIN object.glyphs : ~ object.glyphs[i].blank

(* The elements of a page are its objects in the order of the page, forms  *)
(* flattened, numbered without gaps; whatever has no place among them has  *)
(* a warning, forms nested beyond the limit and blank texts aside.         *)
ObjectsExact ==
    /\ {elements[k].at : k \in DOMAIN elements} = {i \in DOMAIN met : Shown(met[i])}
    /\ \A k \in DOMAIN elements :
          /\ elements[k].id = k - 1
          /\ \A j \in 1 .. k - 1 : elements[j].at < elements[k].at
          /\ Len(met[elements[k].at].chain) <= MaxFormDepth
    /\ \A i \in DOMAIN met :
          met[i].is = "lost" \/ (met[i].is = "form" /\ Len(met[i].chain) >= MaxFormDepth)
          => i \in noted

\* Where a point of an object is seen, by the reference.
Seen(object, points) ==
    LET w == IF space.rotation \in {90, 270} THEN Height ELSE Width
        h == IF space.rotation \in {90, 270} THEN Width ELSE Height
    IN  {Turned(w, h, Through(object.chain, p), space.rotation \div 90) : p \in points}

(* A path, an image or an annotation lies where the matrices of all the    *)
(* forms around it, the inner ones first, and the turn of the page put it. *)
PlacedExactly == \A k \in DOMAIN elements :
    LET e == elements[k]  o == met[e.at]
    IN  /\ e.is \in {"path", "annotation"} /\ o.box # <<>> => e.box = Hull(Seen(o, Corners(o.box)))
        /\ e.is = "image" /\ o.m = <<>> /\ o.bounds # <<>> => e.box = Hull(Seen(o, Corners(o.bounds)))
        /\ e.is = "image" /\ o.m # <<>> /\ (o.chain # <<>> \/ o.bounds # <<>>) =>
              LET corners == Seen([o EXCEPT !.chain = Append(@, o.m[1])], UnitSquare)
              IN  e.box = Hull(corners) /\ e.quad = corners

(* The words of a text are its visible glyphs, each once and in order,     *)
(* split exactly at blanks, at gaps and where the line changes.            *)
TextGrouped == \A k \in DOMAIN elements :
    elements[k].is = "text" => Grouped(met[elements[k].at].glyphs, elements[k].lines)
=============================================================================
