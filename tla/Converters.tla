------------------------------ MODULE Converters ------------------------------
(***************************************************************************)
(* The converters, one instance of each: the extraction of a PDF, of a     *)
(* presentation with its package, and of the shapes of a slide; the XML    *)
(* reader; Markdown; the labels of lists; the regrouping of glyphs; the    *)
(* tables of a Word document.  They share nothing: a behaviour of this     *)
(* module is one of the converter that mode names, the variables of the    *)
(* others stay idle.  The lists are the module this one extends, and the   *)
(* instances about whose components there are theorems are those of the    *)
(* modules with the proofs.                                                *)
(***************************************************************************)
EXTENDS DocxNumbering

CONSTANTS
    MaxU32, Selections, Limits, MaxFormDepth, MinSuspects, Width, Height, Rotations, Matrices, Boxes,
    Glyphs, MaxPages, PdfFuel,                                            \* PdfExtract
    MaxEntries, MaxEntrySize, MaxTotalSize, MaxRatio, Decks,              \* PptxDeck
    Attributes, Default, MaxTextLevel, AutoRow, MaxGroupDepth, Layers, Placeholders, MasterStyles,
    Externals, Shapes, Pictures, Frames, Groups, SlideFuel,               \* PptxSlide
    MaxDepth, MaxNodes, MaxBranches, Supported, Grammar, MaxEvents, TextsWithin,   \* XmlTree
    Documents, MaxRulings, MaxSeparators, MaxAlignLines, MaxBuckets,      \* MarkdownPage
    Pages, MinElements,                                                   \* GlyphRegroup
    MaxNesting, MaxSpan, Spans, MaxColumn, TableFuel                      \* DocxTable

VARIABLES
    mode,
    count, range, warned, space, forms, quality, glyphs, left,            \* PdfExtract
    phase, error, pages, chain,                                           \* ... and PptxDeck
    archive, opened, inspected, total, bytesRead, delivered, broken,
    deck, paths, level, layers, pictures,                                 \* PptxDeck
    layer, groups, hidden,                                                \* PptxSlide
    elements, met, noted,                                                 \* ... and PdfExtract
    events, stack, scopes, root, verdict,                                 \* XmlTree, with count
    doc, at, rulings, parents, row, tables, notes, blocks, out,           \* MarkdownPage
    given, pooled, pool, styles, pageLines, output,                       \* GlyphRegroup
    stage,                                                                \* ... and MarkdownPage
    open, finished, texts, dropped, unanchored, refused, remaining        \* DocxTable

Pdf == INSTANCE PdfExtractProofs WITH Fuel <- PdfFuel
Deck == INSTANCE PackageProofs
Slide == INSTANCE SlideProofs WITH MaxLevel <- MaxTextLevel, Fuel <- SlideFuel
Xml == INSTANCE XmlTree
Markdown == INSTANCE MarkdownPage
Word == INSTANCE DocxTable WITH Fuel <- TableFuel

\* What each converter is given is what its component says it may be.
ASSUME ConvertersAssumption ==
    MaxU32 \in Nat \ {0} /\ Pdf!AnswersTyped /\ Pdf!PagesTyped /\ Deck!DecksTyped /\ Deck!RelationsTyped
    /\ Slide!SlidesTyped /\ NumberingsTyped

\* The variables by the converters they belong to.
OfDeck == <<archive, opened, inspected, total, bytesRead, delivered, broken, deck, paths, level, layers, pictures>>
OfPages == <<phase, error, pages, chain>>
OfPdf == <<range, warned, space, forms, quality, glyphs, left>>
OfPage == <<elements, met, noted>>
OfSlide == <<layer, groups, hidden>>
OfXml == <<events, stack, scopes, root, verdict>>
OfMarkdown == <<doc, at, rulings, parents, row, tables, notes, blocks, out>>
OfLists == <<numbering, values, items>>
OfGlyphs == <<given, pooled, pool, styles, pageLines, output>>
OfWord == <<open, finished, texts, dropped, unanchored, refused, remaining>>

Idle(v) == v = "idle"
NoDeck ==
    /\ Idle(archive) /\ Idle(opened) /\ Idle(inspected) /\ Idle(total) /\ Idle(bytesRead) /\ Idle(delivered)
    /\ Idle(broken) /\ Idle(deck) /\ Idle(paths) /\ Idle(level) /\ Idle(layers) /\ Idle(pictures)
NoPages == Idle(phase) /\ Idle(error) /\ Idle(pages) /\ Idle(chain)
NoPdf == Idle(range) /\ Idle(warned) /\ Idle(space) /\ Idle(forms) /\ Idle(quality) /\ Idle(glyphs) /\ Idle(left)
NoPage == Idle(elements) /\ Idle(met) /\ Idle(noted)
NoSlide == Idle(layer) /\ Idle(groups) /\ Idle(hidden)
NoXml == Idle(events) /\ Idle(stack) /\ Idle(scopes) /\ Idle(root) /\ Idle(verdict)
NoMarkdown ==
    /\ Idle(doc) /\ Idle(at) /\ Idle(rulings) /\ Idle(parents) /\ Idle(row) /\ Idle(tables)
    /\ Idle(notes) /\ Idle(blocks) /\ Idle(out)
NoLists == Idle(numbering) /\ Idle(values) /\ Idle(items)
NoGlyphs == Idle(given) /\ Idle(pooled) /\ Idle(pool) /\ Idle(styles) /\ Idle(pageLines) /\ Idle(output)
NoWord ==
    /\ Idle(open) /\ Idle(finished) /\ Idle(texts) /\ Idle(dropped) /\ Idle(unanchored)
    /\ Idle(refused) /\ Idle(remaining)

ConverterInit ==
    \/ /\ mode = "pdf" /\ Pdf!Init
       /\ NoDeck /\ NoSlide /\ NoXml /\ NoMarkdown /\ Idle(stage) /\ NoLists /\ NoGlyphs /\ NoWord
    \/ /\ mode = "deck" /\ Deck!Init
       /\ NoPdf /\ Idle(count) /\ NoPage /\ NoSlide /\ NoXml /\ NoMarkdown /\ Idle(stage) /\ NoLists /\ NoGlyphs /\ NoWord
    \/ /\ mode = "slide" /\ Slide!Init
       /\ NoDeck /\ NoPages /\ NoPdf /\ Idle(count) /\ NoXml /\ NoMarkdown /\ Idle(stage) /\ NoLists /\ NoGlyphs /\ NoWord
    \/ /\ mode = "xml" /\ Xml!Init
       /\ NoDeck /\ NoPages /\ NoPdf /\ NoPage /\ NoSlide /\ NoMarkdown /\ Idle(stage) /\ NoLists /\ NoGlyphs /\ NoWord
    \/ /\ mode = "markdown" /\ Markdown!Init
       /\ NoDeck /\ NoPages /\ NoPdf /\ Idle(count) /\ NoPage /\ NoSlide /\ NoXml /\ NoLists /\ NoGlyphs /\ NoWord
    \/ /\ mode = "lists" /\ Init
       /\ NoDeck /\ NoPages /\ NoPdf /\ Idle(count) /\ NoPage /\ NoSlide /\ NoXml /\ NoMarkdown /\ Idle(stage) /\ NoGlyphs /\ NoWord
    \/ /\ mode = "glyphs" /\ Pdf!RegroupInit
       /\ NoDeck /\ NoPages /\ NoPdf /\ Idle(count) /\ NoPage /\ NoSlide /\ NoXml /\ NoMarkdown /\ NoLists /\ NoWord
    \/ /\ mode = "table" /\ Word!Init
       /\ NoDeck /\ NoPages /\ NoPdf /\ Idle(count) /\ NoPage /\ NoSlide /\ NoXml /\ NoMarkdown
       /\ Idle(stage) /\ NoLists /\ NoGlyphs

ConverterNext ==
    /\ UNCHANGED mode
    /\ \/ /\ mode = "pdf" /\ Pdf!Next
          /\ UNCHANGED <<OfDeck, OfSlide, OfXml, OfMarkdown, stage, OfLists, OfGlyphs, OfWord>>
       \/ /\ mode = "deck" /\ Deck!Next
          /\ UNCHANGED <<OfPdf, count, OfPage, OfSlide, OfXml, OfMarkdown, stage, OfLists, OfGlyphs, OfWord>>
       \/ /\ mode = "slide" /\ Slide!Next
          /\ UNCHANGED <<OfDeck, OfPages, OfPdf, count, OfXml, OfMarkdown, stage, OfLists, OfGlyphs, OfWord>>
       \/ /\ mode = "xml" /\ Xml!Next
          /\ UNCHANGED <<OfDeck, OfPages, OfPdf, OfPage, OfSlide, OfMarkdown, stage, OfLists, OfGlyphs, OfWord>>
       \/ /\ mode = "markdown" /\ Markdown!Next
          /\ UNCHANGED <<OfDeck, OfPages, OfPdf, count, OfPage, OfSlide, OfXml, OfLists, OfGlyphs, OfWord>>
       \/ /\ mode = "lists" /\ Next
          /\ UNCHANGED <<OfDeck, OfPages, OfPdf, count, OfPage, OfSlide, OfXml, OfMarkdown, stage, OfGlyphs, OfWord>>
       \/ /\ mode = "glyphs" /\ Pdf!RegroupNext
          /\ UNCHANGED <<OfDeck, OfPages, OfPdf, count, OfPage, OfSlide, OfXml, OfMarkdown, OfLists, OfWord>>
       \/ /\ mode = "table" /\ Word!Next
          /\ UNCHANGED <<OfDeck, OfPages, OfPdf, count, OfPage, OfSlide, OfXml, OfMarkdown, stage, OfLists, OfGlyphs>>

all == <<mode, OfDeck, OfPages, OfPdf, count, OfPage, OfSlide, OfXml, OfMarkdown, stage, OfLists, OfGlyphs, OfWord>>

ConverterSpec == ConverterInit /\ [][ConverterNext]_all
------------------------------------------------------------------------------
(* The pages asked for come out once each, in order and under their number *)
(* in the document: pages of a PDF (PdfExtract), slides of a deck          *)
(* (PptxDeck).                                                             *)
PagesExact ==
    /\ mode = "pdf" => Pdf!PagesExact
    /\ mode = "deck" => Deck!SlidesExact

(* What a page has is there once, with the content and in the place it has *)
(* on the page through every form and group around it: objects of a PDF    *)
(* (PdfExtract), shapes of a slide (PptxSlide).                            *)
ObjectsExact ==
    /\ mode = "pdf" => Pdf!ObjectsExact /\ Pdf!PlacedExactly
    /\ mode = "slide" => Slide!ShapesExact /\ Slide!ShapesPlaced

(* Glyphs become lines and words without one being lost, doubled or        *)
(* reordered: those of a text object (PdfExtract), those of a page whose   *)
(* elements are single glyphs (GlyphRegroup).                              *)
TextGrouped ==
    /\ mode = "pdf" => Pdf!TextGrouped
    /\ mode = "glyphs" => Pdf!Regrouped

(* The limits of a package and of its parts hold over any sequence of      *)
(* reads and tags, a relation leads to the part it names, and the tree is  *)
(* the part's, one branch of each alternate (PptxDeck with OpcPackage,     *)
(* XmlTree).                                                               *)
PackageRead ==
    /\ mode = "deck" => Deck!PackageSound /\ Deck!TargetsExact
    /\ mode = "xml" => Xml!TreeExact /\ Xml!BranchesExact

(* Every text of a document is written (MarkdownPage).                     *)
TextWritten == mode = "markdown" => Markdown!TextWritten

(* The tables of a page have the cells that its rulings and gaps close off *)
(* (MarkdownPage), and those of a Word document the cells that its merges  *)
(* leave (DocxTable).                                                      *)
TablesExact ==
    /\ mode = "markdown" => Markdown!TablesExact
    /\ mode = "table" => Word!CellsExact

(* Columns are read one after the other, headings are ranked by size, and  *)
(* clearly larger text is a heading or a list item (MarkdownPage).         *)
ReadingOrder ==
    mode = "markdown" => Markdown!ReadingOrder /\ Markdown!HeadingsRanked /\ Markdown!LargeTextStandsOut

(* List items are counted within their instance and level since something  *)
(* restarted them (DocxNumbering).                                         *)
LabelsCounted == mode = "lists" => ListsCounted
==============================================================================
