------------------------------ MODULE PptxText ------------------------------
(***************************************************************************)
(* The text of a shape or table cell of a slide (docray-pptx, extract.rs): *)
(* its content, its runs and their styles, and the one style that stands   *)
(* for the whole.                                                          *)
(*                                                                         *)
(* A body is [lists, paragraphs]: the default style of each list level and *)
(* the paragraphs, [own, level, items], own the paragraph's default style  *)
(* as <<style>>, or <<>>.  An item is [is, text, style, link], is "run" (a *)
(* field counts as one), "break" or something else, which may have text of *)
(* its own, as a formula does; link names a relationship.  A style maps    *)
(* each attribute to <<value>> or, when it is silent, to <<>>; no style is *)
(* one that is silent of everything.  Sizes are those before the scale of  *)
(* the autofit, which multiplies all of a body's alike.                    *)
(***************************************************************************)
EXTENDS Integers, Sequences, SequencesExt

CONSTANTS Attributes, Default, MaxLevel

Broken == "line break"

\* A text that is read from an element has no line break of its own.
IsBody(body) ==
    /\ body.paragraphs \in Seq(Range(body.paragraphs))
    /\ \A p \in Range(body.paragraphs) :
          /\ p.items \in Seq(Range(p.items))
          /\ \A item \in Range(p.items) : item.text \in Seq(Range(item.text) \ {Broken})

\* text_content: runs and breaks paragraph by paragraph, paragraphs that have
\* nothing left out, the others separated by a line break.
Piece(item) == IF item.is = "run" THEN item.text ELSE IF item.is = "break" THEN <<Broken>> ELSE <<>>

ParagraphContent(paragraph) ==
    FlattenSeq([i \in DOMAIN paragraph.items |-> Piece(paragraph.items[i])])

Content(body) ==
    LET text == [i \in DOMAIN body.paragraphs |-> ParagraphContent(body.paragraphs[i])]
        Begins(i) == \A j \in 1 .. i - 1 : text[j] = <<>>
    IN  FlattenSeq([i \in DOMAIN text |->
                      IF text[i] = <<>> \/ Begins(i) THEN text[i] ELSE <<Broken>> \o text[i]])

\* combine_styles: the first of the styles that says something of an attribute.
Combined(styles) ==
    [a \in Attributes |->
        LET said == SelectSeq([i \in DOMAIN styles |-> styles[i][a]], LAMBDA v : v # <<>>)
        IN  IF said = <<>> THEN Default[a] ELSE said[1][1]]

\* paragraph_default_style: a default of the paragraph's own, else that of its
\* list level, the deepest for a level beyond it.
Lesser(a, b) == IF a < b THEN a ELSE b

ParagraphStyle(body, paragraph) ==
    IF paragraph.own # <<>> THEN paragraph.own[1] ELSE body.lists[Lesser(paragraph.level, MaxLevel) + 1]

Styled(body, paragraph, item, inherited) ==
    Combined(<<item.style, ParagraphStyle(body, paragraph)>> \o inherited)

\* resolve_runs: also the runs without text; an internal link is none.
Runs(body, inherited, external) ==
    LET Run(p, item) == [text |-> item.text, style |-> Styled(body, p, item, inherited),
                         href |-> IF item.link \in external THEN item.link ELSE 0]
        Of(p) == FlattenSeq([i \in DOMAIN p.items |->
                               IF p.items[i].is = "run" THEN <<Run(p, p.items[i])>> ELSE <<>>])
    IN  FlattenSeq([i \in DOMAIN body.paragraphs |-> Of(body.paragraphs[i])])

\* resolve_text_style: the first paragraph that has any text, in runs or not,
\* and of it the first run with text, or the style of the paragraph alone;
\* with no such paragraph only what is inherited.
Silent == [a \in Attributes |-> <<>>]

Textual(item) == item.is = "run" /\ item.text # <<>>
HasText(paragraph) == \E i \in DOMAIN paragraph.items : paragraph.items[i].text # <<>>

Summary(body, inherited) ==
    LET found == SelectInSeq(body.paragraphs, HasText)
        p == body.paragraphs[found]
        run == SelectInSeq(p.items, Textual)
    IN  IF found = 0 THEN Combined(inherited)
        ELSE IF run = 0 THEN Combined(<<ParagraphStyle(body, p)>> \o inherited)
        ELSE Styled(body, p, p.items[run], inherited)

\* The links of a shape: annotations of their own, by the same rule.
Links(body, external) ==
    LET Of(p) == FlattenSeq([i \in DOMAIN p.items |->
                               IF p.items[i].link \in external THEN <<p.items[i].link>> ELSE <<>>])
    IN  FlattenSeq([i \in DOMAIN body.paragraphs |-> Of(body.paragraphs[i])])
-----------------------------------------------------------------------------
(* The runs spell the content, line breaks aside; the style that stands    *)
(* for the whole is that of the first run one can read, unless a paragraph *)
(* has text outside of its runs only, as a formula alone in its paragraph; *)
(* when only runs carry links, the links of the runs are those that become *)
(* annotations.                                                            *)
TextInRuns(body) ==
    \A p \in Range(body.paragraphs) : HasText(p) => \E i \in DOMAIN p.items : Textual(p.items[i])

TextConsistent(body, inherited, external) ==
    LET runs == Runs(body, inherited, external)
        visible == SelectInSeq(runs, LAMBDA r : r.text # <<>>)
        content == Content(body)
    IN  /\ FlattenSeq([i \in DOMAIN runs |-> runs[i].text])
             = FlattenSeq([i \in DOMAIN content |-> IF content[i] = Broken THEN <<>> ELSE <<content[i]>>])
        /\ visible # 0 /\ TextInRuns(body) => Summary(body, inherited) = runs[visible].style
        /\ (\A k \in DOMAIN body.paragraphs : \A i \in DOMAIN body.paragraphs[k].items :
               body.paragraphs[k].items[i].link # 0 => body.paragraphs[k].items[i].is = "run")
           => Links(body, external)
             = FlattenSeq([i \in DOMAIN runs |-> IF runs[i].href = 0 THEN <<>> ELSE <<runs[i].href>>])
=============================================================================
