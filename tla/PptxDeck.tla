------------------------------ MODULE PptxDeck ------------------------------
(***************************************************************************)
(* The extraction of a presentation (docray-pptx, extract.rs) down to the  *)
(* parts of a slide: its own part, the layout it names, the master that    *)
(* one names and its theme, all read again for each slide through one      *)
(* package; the pictures of the layers that show; the notes.               *)
(*                                                                         *)
(* A deck is [archive, xml, rels, listed, sized, pictures, hides, limit,   *)
(* selected, legacy]: the entries, which parts parse, the relationships of *)
(* each part, the relationship ids in the slide list (0 for a slide        *)
(* without one), whether the slide size is valid, the relationship each    *)
(* part's picture embeds, the parts with showMasterSp="0", and what was    *)
(* asked for.                                                              *)
(***************************************************************************)
EXTENDS OpcPackage

CONSTANTS Decks

\* Any archive, and any list of slides.
DecksTyped == LimitsTyped /\ \A d \in Decks : IsArchive(d.archive) /\ d.listed \in Seq(Range(d.listed))

\* Relations are read of parts that were found; their targets are any paths.
RelationsTyped == \A d \in Decks : \A part \in DOMAIN d.rels :
    /\ part \in Seq(Range(part)) /\ part # <<>> /\ \A k \in 1 .. Len(part) : Plain(part[k])
    /\ \A i \in DOMAIN d.rels[part] :
          LET target == d.rels[part][i].target
          IN  target.absolute \in BOOLEAN /\ target.segments \in Seq(Range(target.segments))

VARIABLES
    deck,
    phase,     \* "call", "opening", "presentation", "relations", "metadata", "slides",
               \* "part", "rels", "layers", "notes", "done", "failed"
    error,     \* the code of the ExtractError
    paths,     \* the slides of the deck
    pages,     \* the pages that are out: [number, is, pictures, over]
    level,     \* the part of the chain that is being read
    chain,     \* the parts of the current slide that were read
    layers,    \* those whose shapes are still to come, and the pictures so far
    pictures

current == <<level, chain, layers, pictures>>
vars == <<package, deck, phase, error, paths, pages, current>>

Presentation == <<"ppt", "presentation.xml">>
Core == <<"docProps", "core.xml">>

\* The chain from a slide to its theme, by the kind of the relationship that
\* leads to each part.
Kinds == <<"slide", "slideLayout", "slideMaster", "theme">>

Init ==
    /\ deck \in Decks
    /\ PackageInit({deck.archive})
    /\ phase = "call" /\ error = "none" /\ paths = <<>> /\ pages = <<>>
    /\ level = 1 /\ chain = <<>> /\ layers = <<>> /\ pictures = <<>>

Fail(code) == phase' = "failed" /\ error' = code

Goes(to) == phase' = to /\ UNCHANGED error

\* extract, before the package is opened.
Call ==
    /\ phase = "call"
    /\ IF deck.selected THEN Fail("page_selection_unsupported")
       ELSE IF deck.legacy THEN Fail("unsupported_format") ELSE Goes("opening")
    /\ UNCHANGED <<package, deck, paths, pages, current>>

Open ==
    /\ phase = "opening"
    /\ OpenPackage
    /\ IF opened' = "refused" THEN Fail("parse_failure")
       ELSE IF opened' = "no" THEN UNCHANGED <<phase, error>>
       ELSE IF Kind = "pptx" THEN Goes("presentation") ELSE Fail("unsupported_format")
    /\ UNCHANGED <<deck, paths, pages, current>>

\* xml_required: the part is there, is delivered and parses.
Loads(part) == Outcome(part) = "ok" /\ part \in deck.xml

\* A part one can do without, but that must be whole when it is there.
LoadsIfThere(part) == Outcome(part) = "absent" \/ Loads(part)

RelsOf(part) == IF Outcome(RelsPath(part)) = "absent" THEN <<>> ELSE deck.rels[part]

ReadPresentation ==
    /\ phase = "presentation"
    /\ Read(Presentation)
    /\ IF Loads(Presentation) THEN Goes("relations") ELSE Fail("parse_failure")
    /\ UNCHANGED <<deck, paths, pages, current>>

\* slide_paths: an id that is missing, leads nowhere, out of the package or out
\* of its root is the end of the document.
SlidePath(id) ==
    LET found == Relation(RelsOf(Presentation), id)
    IN  IF found = <<>> \/ found[1].external THEN <<>>
        ELSE ResolveTarget(Presentation, found[1].target)

ReadRelations ==
    LET whole == /\ LoadsIfThere(RelsPath(Presentation)) /\ deck.sized
                 /\ \A k \in DOMAIN deck.listed : SlidePath(deck.listed[k]) # <<>>
    IN  /\ phase = "relations"
        /\ Read(RelsPath(Presentation))
        /\ IF ~ whole THEN Fail("parse_failure") /\ UNCHANGED paths
           ELSE /\ paths' = [k \in DOMAIN deck.listed |-> SlidePath(deck.listed[k])[1]]
                /\ IF deck.limit # <<>> /\ Len(paths') > deck.limit[1]
                   THEN Fail("too_many_pages") ELSE Goes("metadata")
        /\ UNCHANGED <<deck, pages, current>>

\* The properties of the document must parse, unlike a slide.
ReadMetadata ==
    /\ phase = "metadata"
    /\ Read(Core)
    /\ IF LoadsIfThere(Core) THEN Goes("slides") ELSE Fail("parse_failure")
    /\ UNCHANGED <<deck, paths, pages, current>>
-----------------------------------------------------------------------------
Number == Len(pages) + 1

BeginSlide ==
    /\ phase = "slides" /\ Number <= Len(paths)
    /\ phase' = "part"
    /\ level' = 1 /\ chain' = <<paths[Number]>> /\ layers' = <<>> /\ pictures' = <<>>
    /\ UNCHANGED <<package, deck, error, paths, pages>>

Finish ==
    /\ phase = "slides" /\ Number > Len(paths)
    /\ phase' = "done"
    /\ UNCHANGED <<package, deck, error, paths, pages, current>>

\* The page of a slide; one that failed is empty, with a warning.
Emit(is) ==
    /\ pages' = Append(pages, [number |-> Number, is |-> is, over |-> broken',
                               pictures |-> IF is = "read" THEN pictures ELSE <<>>])
    /\ phase' = "slides"
    /\ level' = 1 /\ chain' = <<>> /\ layers' = <<>> /\ pictures' = <<>>

FailSlide == Emit("failed")

\* One part of the chain: it is required once it is named.
ReadPart ==
    /\ phase = "part"
    /\ Read(chain[level])
    /\ IF ~ Loads(chain[level]) THEN FailSlide
       ELSE /\ phase' = IF level = Len(Kinds) THEN "layers" ELSE "rels"
            /\ layers' = IF level = Len(Kinds) THEN chain ELSE layers
            /\ UNCHANGED <<pages, level, chain, pictures>>
    /\ UNCHANGED <<deck, error, paths>>

\* The relationships of that part, and the next one they name.
ReadRels ==
    LET part == chain[level]
        next == FirstInternal(RelsOf(part), Kinds[level + 1])
    IN  /\ phase = "rels"
        /\ Read(RelsPath(part))
        /\ IF ~ LoadsIfThere(RelsPath(part)) THEN FailSlide
           ELSE IF next = <<>>
           THEN /\ phase' = "layers" /\ layers' = chain
                /\ UNCHANGED <<pages, level, chain, pictures>>
           ELSE IF ResolveTarget(part, next[1].target) = <<>> THEN FailSlide
           ELSE /\ chain' = Append(chain, ResolveTarget(part, next[1].target)[1])
                /\ level' = level + 1 /\ phase' = "part"
                /\ UNCHANGED <<pages, layers, pictures>>
        /\ UNCHANGED <<deck, error, paths>>

\* Whether the shapes of the layer come out: those of the layout unless the
\* slide hides them, those of the master unless either does.
Shows(k) == k < 4 /\ \A i \in 1 .. k - 1 : chain[i] \notin deck.hides

\* The picture of the layer that is on, the layers from the master up; whatever
\* happens to its media, the picture comes out.
Embedded(part) == Relation(RelsOf(part), deck.pictures[part])

Layer ==
    /\ phase = "layers" /\ layers # <<>>
    /\ LET k      == Len(layers)
           part   == layers[k]
           drawn  == Shows(k) /\ part \in DOMAIN deck.pictures
           named  == Embedded(part)
           media  == IF named = <<>> \/ named[1].external THEN <<>> ELSE ResolveTarget(part, named[1].target)
       IN  IF ~ drawn THEN UNCHANGED <<package, pictures>>
           ELSE IF media = <<>>
           THEN pictures' = Append(pictures, [of |-> k, hashed |-> FALSE]) /\ UNCHANGED package
           ELSE /\ Read(media[1])
                /\ pictures' = Append(pictures, [of |-> k, hashed |-> Outcome(media[1]) = "ok"])
    /\ layers' = Front(layers)
    /\ UNCHANGED <<deck, phase, error, paths, pages, level, chain>>

LayersEnd ==
    /\ phase = "layers" /\ layers = <<>> /\ phase' = "notes"
    /\ UNCHANGED <<package, deck, error, paths, pages, current>>

\* notes_text: notes that cannot be had are a warning.
Notes ==
    LET named == FirstInternal(RelsOf(chain[1]), "notesSlide")
        path  == IF named = <<>> THEN <<>> ELSE ResolveTarget(chain[1], named[1].target)
    IN  /\ phase = "notes"
        /\ IF path = <<>> THEN UNCHANGED package ELSE Read(path[1])
        /\ Emit("read")
        /\ UNCHANGED <<deck, error, paths>>

Next ==
    \/ Call \/ Open \/ ReadPresentation \/ ReadRelations \/ ReadMetadata
    \/ BeginSlide \/ ReadPart \/ ReadRels \/ Layer \/ LayersEnd \/ Notes \/ Finish

Spec == Init /\ [][Next]_vars
-----------------------------------------------------------------------------
\* The parts of a slide's chain as the file has them, whoever reads them when:
\* <<>> when one of them is missing, damaged or out of the package.  A part can
\* do without relations, and one whose relations cannot be opened has none.
Sane(part) ==
    /\ HasPart(part) /\ part \in deck.xml
    /\ Named(part).real \in 0 .. MaxEntrySize

SaneRels(part) == Opens(RelsPath(part)) => Sane(RelsPath(part))

\* What is known of the chain after its k-th part.
Above(chained, k) ==
    IF Len(chained) < k THEN chained
    ELSE IF ~ Sane(chained[k]) \/ (k < 4 /\ ~ SaneRels(chained[k])) THEN <<>>
    ELSE IF k = 4 THEN chained
    ELSE LET next == FirstInternal(RelsOf(chained[k]), Kinds[k + 1])
             path == ResolveTarget(chained[k], next[1].target)
         IN  IF next = <<>> THEN chained ELSE IF path = <<>> THEN <<>> ELSE Append(chained, path[1])

Chain(slide) ==
    LET up[k \in 0 .. 4] == IF k = 0 THEN <<slide>> ELSE Above(up[k - 1], k)
    IN  up[4]

(* Every slide has its page, in the order of the list.  Whether a page     *)
(* could be read is a matter of the parts of that slide alone: neither     *)
(* another slide, nor a picture, nor the notes take a page down, except    *)
(* that the limit on what is read of a package is shared and everything    *)
(* after its crossing fails.  A page that was read has the pictures of     *)
(* every layer that shows, the lowest layer first.                         *)
SlidesExact ==
    /\ phase = "done" => Len(pages) = Len(deck.listed)
    /\ phase = "failed" => pages = <<>>
    /\ \A n \in DOMAIN pages :
          LET chained == Chain(paths[n])
              page    == pages[n]
              shown   == {k \in 1 .. Len(chained) :
                            /\ k < 4 /\ chained[k] \in DOMAIN deck.pictures
                            /\ {chained[i] : i \in 1 .. k - 1} \cap deck.hides = {}}
          IN  /\ page.number = n
              /\ page.is = "read" => chained # <<>>
              /\ page.is = "failed" => chained = <<>> \/ page.over
              /\ page.over => \A later \in n + 1 .. Len(pages) : pages[later].is = "failed"
              /\ page.is = "read" =>
                    /\ {page.pictures[i].of : i \in DOMAIN page.pictures} = shown
                    /\ \A i, j \in DOMAIN page.pictures :
                          i < j => page.pictures[j].of < page.pictures[i].of

(* The target of a relationship is resolved as a path is read.             *)
TargetsExact ==
    phase = "call" => \A part \in DOMAIN deck.rels : \A i \in DOMAIN deck.rels[part] :
                          TargetResolved(part, deck.rels[part][i].target)
=============================================================================
