----------------------------- MODULE DocxStory ------------------------------
(***************************************************************************)
(* The body of a Word document on its way to blocks (docray-docx,          *)
(* extract.rs): paragraphs are cut into segments at breaks, page hints and *)
(* drawings, complex fields hide their instructions, breaks wait for the   *)
(* next block, and notes are appended to the section they are referenced   *)
(* from.                                                                   *)
(*                                                                         *)
(* The environment writes the document, one element per step; src is the   *)
(* document so far and nest the true nesting of its fields.  Both are      *)
(* history: the code never reads them.  A text, a break or an object is    *)
(* its place in src.                                                       *)
(***************************************************************************)
EXTENDS Integers, Sequences, SequencesExt

CONSTANTS
    MaxDepth,   \* MAX_FIELD_DEPTH
    MaxBlocks,  \* MAX_BLOCKS_PER_STORY
    Fuel        \* bound on the elements of the document

ASSUME DocxAssumption == MaxDepth \in Nat /\ MaxBlocks \in Nat /\ Fuel \in Nat

VARIABLES
    mode,       \* "flow", in a paragraph "para", then "notes" and "done"
    stack,      \* FieldMachine.stack: has the field reached its result?
    overflow,   \* FieldMachine.overflow
    count,      \* StoryState.block_count
    warned,     \* StoryState.cap_warned
    page,       \* Context.body_page
    cur,        \* the paragraph: what was read of it, and what waits for a block
    blocks,     \* the section so far
    refs,       \* its references to notes: the ids of the blocks they are in
    sections,   \* the sections that are complete
    noted,      \* attach_notes: the section it is at
    src, nest, left

field == <<stack, overflow>>
story == <<count, warned>>
out == <<blocks, refs, sections, noted>>
vars == <<mode, field, story, page, cur, out, src, nest, left>>

Kinds == {"text", "deep", "code", "break", "object", "gone"}

(* The machine keeps at most MaxDepth fields, however deep they nest.      *)
TypeOK ==
    /\ mode \in {"flow", "para", "notes", "done"}
    /\ stack \in Seq(BOOLEAN) /\ Len(stack) <= MaxDepth
    /\ overflow \in Nat
    /\ count \in Nat /\ warned \in BOOLEAN
    /\ page \in Nat \ {0}
    /\ cur.pending \in Seq(1 .. Len(src)) /\ cur.runs \in Seq(1 .. Len(src))
    /\ cur.nextId \in Nat
    /\ refs \in Seq(Nat)
    /\ noted \in 1 .. Len(sections) + 1
    /\ \A p \in 1 .. Len(src) : src[p].is \in Kinds /\ src[p].page \in 1 .. page
    /\ nest \in Seq(BOOLEAN)
    /\ left \in 0 .. Fuel

\* What a paragraph starts from: its segments, the text of the next one, and
\* what goes on from paragraph to paragraph.
Fresh(pending, nextId) ==
    [local |-> <<>>, runs |-> <<>>, emitted |-> FALSE,
     pending |-> pending, nextId |-> nextId]

Init ==
    /\ mode = "flow"
    /\ stack = <<>> /\ overflow = 0
    /\ count = 0 /\ warned = FALSE
    /\ page = 1
    /\ cur = Fresh(<<>>, 0)
    /\ blocks = <<>> /\ refs = <<>> /\ sections = <<>> /\ noted = 1
    /\ src = <<>> /\ nest = <<>> /\ left = Fuel

Here == Len(src) + 1
Reads(kind) == src' = Append(src, [is |-> kind, page |-> page])
Burn == left > 0 /\ left' = left - 1

AllTrue(s) == \A i \in 1 .. Len(s) : s[i]

-----------------------------------------------------------------------------
(* Blocks.                                                                 *)

Object(id, size) == [type |-> "object", id |-> id, size |-> size, at |-> Here]
BreakBlocks(s) == [i \in 1 .. Len(s) |-> [type |-> "break", at |-> s[i]]]
SectionBreak == [type |-> "break", at |-> 0]

\* Mutant of Flush: the breaks stay pending.
FlushCopies(c) ==
    IF c.runs = <<>> /\ c.emitted THEN c
    ELSE [c EXCEPT !.local = Append(@, [type |-> "paragraph", id |-> c.nextId, size |-> 1,
                                        texts |-> c.runs, breaks |-> c.pending, page |-> page]),
                   !.runs = <<>>, !.nextId = @ + 1, !.emitted = TRUE]

\* flush_paragraph_segment: a second empty segment is not made.
Flush(c) ==
    IF c.runs = <<>> /\ c.emitted THEN c
    ELSE [c EXCEPT !.local = Append(@, [type |-> "paragraph", id |-> c.nextId, size |-> 1,
                                        texts |-> c.runs, breaks |-> c.pending, page |-> page]),
                   !.runs = <<>>, !.pending = <<>>, !.nextId = @ + 1, !.emitted = TRUE]

\* Mutant of Exceeds: the limit is looked at before the block is counted.
ExceedsBefore(n, size) == n > MaxBlocks
Exceeds(n, size) == n + size > MaxBlocks

\* One turn of the loop of push_blocks.
PushOne(s, b) ==
    IF s.full THEN s
    ELSE LET par  == b.type = "paragraph"
             dest == IF par THEN s.dest ELSE s.dest \o BreakBlocks(s.pending)
             blk  == IF par THEN [b EXCEPT !.breaks = @ \o s.pending] ELSE b
         IN  IF Exceeds(s.count, b.size)
             THEN [dest |-> dest, pending |-> <<>>, count |-> MaxBlocks, full |-> TRUE]
             ELSE [dest |-> Append(dest, blk), pending |-> <<>>,
                   count |-> s.count + b.size, full |-> FALSE]

\* push_blocks; after[n] is the state after n turns.
Pushed(dest, pending, source) ==
    LET after[n \in 0 .. Len(source)] ==
            IF n = 0
            THEN [dest |-> dest, pending |-> pending, count |-> count, full |-> count >= MaxBlocks]
            ELSE PushOne(after[n - 1], source[n])
    IN  after[Len(source)]

-----------------------------------------------------------------------------
(* extract_paragraph.                                                      *)

Visible == overflow = 0 /\ AllTrue(stack)

StartParagraph(breakBefore) ==
    /\ mode = "flow" /\ count < MaxBlocks /\ Burn
    /\ mode' = "para"
    /\ IF breakBefore
       THEN /\ Reads("break")
            /\ cur' = Fresh(Append(cur.pending, Here), cur.nextId)
       ELSE /\ cur' = Fresh(cur.pending, cur.nextId)
            /\ UNCHANGED src
    /\ UNCHANGED <<field, story, page, out, nest>>

Text ==
    /\ mode = "para" /\ Burn
    /\ Reads(IF ~ AllTrue(nest) THEN "code" ELSE IF Len(nest) > MaxDepth THEN "deep" ELSE "text")
    /\ cur' = IF Visible THEN [cur EXCEPT !.runs = Append(@, Here)] ELSE cur
    /\ UNCHANGED <<mode, field, story, page, out, nest>>

FieldBegin ==
    /\ mode = "para" /\ Burn
    /\ nest' = Append(nest, FALSE)
    /\ IF Len(stack) >= MaxDepth
       THEN overflow' = overflow + 1 /\ UNCHANGED stack
       ELSE stack' = Append(stack, FALSE) /\ UNCHANGED overflow
    /\ UNCHANGED <<mode, story, page, cur, out, src>>

Reached(s) == IF s = <<>> THEN s ELSE [s EXCEPT ![Len(s)] = TRUE]
Closed(s) == IF s = <<>> THEN s ELSE Front(s)

FieldSeparate ==
    /\ mode = "para" /\ Burn
    /\ nest' = Reached(nest)
    /\ stack' = IF overflow > 0 THEN stack ELSE Reached(stack)
    /\ UNCHANGED <<mode, overflow, story, page, cur, out, src>>

\* Mutant of FieldEnd: the end of a suppressed field closes its parent.
FieldEndPops ==
    /\ mode = "para" /\ Burn
    /\ nest' = Closed(nest)
    /\ stack' = Closed(stack)
    /\ UNCHANGED <<mode, overflow, story, page, cur, out, src>>

FieldEnd ==
    /\ mode = "para" /\ Burn
    /\ nest' = Closed(nest)
    /\ IF overflow > 0
       THEN overflow' = overflow - 1 /\ UNCHANGED stack
       ELSE stack' = Closed(stack) /\ UNCHANGED overflow
    /\ UNCHANGED <<mode, story, page, cur, out, src>>

\* A break or a hint ends the segment, but not within an instruction where
\* there is nothing to end.
Segmented == IF cur.runs # <<>> \/ Visible THEN Flush(cur) ELSE cur

Break ==
    /\ mode = "para" /\ Burn
    /\ Reads("break")
    /\ cur' = [Segmented EXCEPT !.pending = Append(@, Here)]
    /\ UNCHANGED <<mode, field, story, page, out, nest>>

\* Mutant of PageHint: the text before the hint counts for the next page.
PageHintJoins ==
    /\ mode = "para" /\ Burn
    /\ page' = page + 1
    /\ UNCHANGED <<mode, field, story, cur, out, src, nest>>

PageHint ==
    /\ mode = "para" /\ Burn
    /\ cur' = Segmented
    /\ page' = page + 1
    /\ UNCHANGED <<mode, field, story, out, src, nest>>

\* An image, or a textbox whose story (with a state of its own) has size - 1
\* blocks and some hints; shape: Office art that is skipped.
Drawing(size, hints, shape) ==
    /\ mode = "para" /\ Burn
    /\ LET c == IF cur.runs # <<>> THEN Flush(cur) ELSE cur
       IN  IF shape
           THEN cur' = c /\ UNCHANGED <<page, src>>
           ELSE /\ Reads("object")
                /\ cur' = [c EXCEPT !.local = Append(@, Object(c.nextId, size)),
                                    !.nextId = @ + 1, !.emitted = TRUE]
                /\ page' = page + hints
    /\ UNCHANGED <<mode, field, story, out, nest>>

\* A note's reference is recorded for the next block's id.
Note ==
    /\ mode = "para" /\ Burn
    /\ refs' = Append(refs, cur.nextId)
    /\ UNCHANGED <<mode, field, story, page, cur, blocks, sections, noted, src, nest>>

-----------------------------------------------------------------------------
(* extract_body.                                                           *)

\* The section ends with a paragraph that has a w:sectPr.
CloseSection(bs, pending) ==
    /\ sections' = Append(sections, [blocks |-> Append(bs, SectionBreak), refs |-> refs])
    /\ blocks' = <<>> /\ refs' = <<>>
    /\ cur' = Fresh(pending, 0)

EndParagraph(sectPr) ==
    /\ mode = "para"
    /\ mode' = "flow"
    /\ LET c == IF cur.runs # <<>> \/ ~ cur.emitted THEN Flush(cur) ELSE cur
           s == Pushed(blocks, c.pending, c.local)
       IN  /\ count' = s.count
           /\ warned' = (warned \/ s.full)
           /\ IF sectPr
              THEN CloseSection(s.dest, s.pending)
              ELSE /\ blocks' = s.dest
                   /\ cur' = Fresh(s.pending, c.nextId)
                   /\ UNCHANGED <<refs, sections>>
    /\ UNCHANGED <<field, page, noted, src, nest, left>>

\* A table: its rows of cells, each with a story of its own, are size - 1 blocks.
Table(size, hints) ==
    /\ mode = "flow" /\ count < MaxBlocks /\ Burn
    /\ Reads("object")
    /\ page' = page + hints
    /\ LET s == Pushed(blocks, cur.pending, <<Object(cur.nextId, size)>>)
       IN  /\ count' = s.count
           /\ warned' = (warned \/ s.full)
           /\ blocks' = s.dest
           /\ cur' = Fresh(s.pending, cur.nextId + 1)
    /\ UNCHANGED <<mode, field, refs, sections, noted, nest>>

\* story_cap_reached: a paragraph or table that is not read any more.
Skip(sectPr) ==
    /\ mode = "flow" /\ count >= MaxBlocks /\ Burn
    /\ Reads("gone")
    /\ warned' = TRUE
    /\ IF sectPr
       THEN CloseSection(blocks, cur.pending)
       ELSE UNCHANGED <<cur, blocks, refs, sections>>
    /\ UNCHANGED <<mode, field, count, page, noted, nest>>

\* finish_story, and the last section.
Finish ==
    /\ mode = "flow"
    /\ mode' = "notes"
    /\ sections' = Append(sections, [blocks |-> blocks \o BreakBlocks(cur.pending), refs |-> refs])
    /\ blocks' = <<>> /\ refs' = <<>>
    /\ cur' = Fresh(<<>>, 0)
    /\ stack' = <<>> /\ overflow' = 0 /\ nest' = <<>>
    /\ UNCHANGED <<story, page, noted, src, left>>

-----------------------------------------------------------------------------
(* attach_notes.                                                           *)

\* Mutant of NoteBase: images and tables are not counted.
NoteBaseParagraphs(s) == Len(SelectSeq(s.blocks, LAMBDA b : b.type = "paragraph"))
NoteBase(s) == Len(s.blocks)

\* A note of n paragraphs and a trailing break, or none.
NoteBlocks(base, n, brk) ==
    [i \in 1 .. n |-> [type |-> "paragraph", id |-> base + i - 1, size |-> 1, texts |-> <<>>,
                       breaks |-> <<>>, page |-> 0]]
    \o (IF brk THEN <<SectionBreak>> ELSE <<>>)

\* The next reference: a note, one that was attached before, or a missing one.
AttachNote(n, brk) ==
    /\ mode = "notes" /\ noted <= Len(sections)
    /\ sections[noted].refs # <<>>
    /\ sections' = [sections EXCEPT
           ![noted].refs = Tail(@),
           ![noted].blocks = @ \o NoteBlocks(NoteBase(sections[noted]), n, brk)]
    /\ UNCHANGED <<mode, field, story, page, cur, blocks, refs, noted, src, nest, left>>

NextSection ==
    /\ mode = "notes" /\ noted <= Len(sections)
    /\ sections[noted].refs = <<>>
    /\ noted' = noted + 1
    /\ mode' = IF noted = Len(sections) THEN "done" ELSE mode
    /\ UNCHANGED <<field, story, page, cur, blocks, refs, sections, src, nest, left>>

Done == mode = "done" /\ UNCHANGED vars

Inline ==
    \/ Text \/ FieldBegin \/ FieldSeparate \/ FieldEnd \/ Break \/ PageHint \/ Note
    \/ \E size \in 1 .. 2 : Drawing(size, size - 1, FALSE)
    \/ Drawing(1, 0, TRUE)
Flow ==
    \/ \E b \in BOOLEAN : StartParagraph(b) \/ EndParagraph(b) \/ Skip(b)
    \/ \E size \in 1 .. 2 : Table(size, size - 1)
    \/ Finish
Notes ==
    \/ AttachNote(0, FALSE) \/ AttachNote(2, TRUE)
    \/ NextSection

Next == Inline \/ Flow \/ Notes \/ Done

Spec == Init /\ [][Next]_vars

-----------------------------------------------------------------------------
\* The segment to come, as a block.
Coming == [type |-> "paragraph", id |-> cur.nextId, size |-> 0,
           texts |-> cur.runs, breaks |-> cur.pending, page |-> page]

\* The blocks: those of the sections, of the section that is read, and of the
\* paragraph that is read.
Parts == [k \in 1 .. Len(sections) + 2 |->
             IF k <= Len(sections) THEN sections[k].blocks
             ELSE IF k = Len(sections) + 1 THEN blocks ELSE Append(cur.local, Coming)]
Spots == UNION {{<<k, i>> : i \in 1 .. Len(Parts[k])} : k \in 1 .. Len(Parts)}
At(s) == Parts[s[1]][s[2]]
Before(s, t) == s[1] < t[1] \/ (s[1] = t[1] /\ s[2] < t[2])

TextsOf(b) == IF b.type = "paragraph" THEN b.texts ELSE <<>>

Increasing(s) == \A i, k \in 1 .. Len(s) : i < k => s[i] < s[k]

Shown(p) == \E s \in Spots : p \in ToSet(TextsOf(At(s)))
IsText(p) == src[p].is = "text"

(* The visible text is the document's text without field instructions: each
   piece once and in order, whatever the nesting, and whatever paragraphs,
   breaks, hints and sections a field spans.  Over the block limit it stops,
   with a warning, and does not start again.                               *)
TextExact ==
    /\ \A s \in Spots : Increasing(TextsOf(At(s)))
    /\ \A s, t \in Spots : Before(s, t) =>
           \A p \in ToSet(TextsOf(At(s))), q \in ToSet(TextsOf(At(t))) : p < q
    /\ \A p \in 1 .. Len(src) : Shown(p) =>
           IsText(p) /\ \A q \in 1 .. p : IsText(q) => Shown(q)
    /\ ~ warned => \A p \in 1 .. Len(src) : IsText(p) => Shown(p)

BreaksOf(b) ==
    CASE b.type = "paragraph" -> b.breaks
      [] b.type = "break" -> IF b.at = 0 THEN <<>> ELSE <<b.at>>
      [] OTHER -> <<>>

(* No break is written twice, and none is lost but over the block limit.   *)
BreaksOnce ==
    /\ \A s, t \in Spots :
           \A i \in 1 .. Len(BreaksOf(At(s))), k \in 1 .. Len(BreaksOf(At(t))) :
               BreaksOf(At(s))[i] = BreaksOf(At(t))[k] => s = t /\ i = k
    /\ \A s \in Spots : \A p \in ToSet(BreaksOf(At(s))) : src[p].is = "break"
    /\ ~ warned => \A p \in 1 .. Len(src) :
           src[p].is = "break" => \E s \in Spots : p \in ToSet(BreaksOf(At(s)))

IdsDistinct(bs) ==
    \A i, k \in 1 .. Len(bs) :
        bs[i].type # "break" /\ bs[k].type # "break" /\ bs[i].id = bs[k].id => i = k

(* Ids are unique in a section, with the notes that are appended to it: they
   count on from the number of blocks, not of ids.                         *)
IdsUnique ==
    /\ \A k \in 1 .. Len(sections) : IdsDistinct(sections[k].blocks)
    /\ IdsDistinct(blocks \o Append(cur.local, Coming))

(* The page of a paragraph is the page that each of its texts is on.       *)
PageExact ==
    \A s \in Spots : \A p \in ToSet(TextsOf(At(s))) : src[p].page = At(s).page

\* The blocks of the body, nested ones included.
Nested == UNION {{<<s, n>> : n \in 1 .. At(s).size} :
                    s \in {s \in Spots : s[1] <= Len(sections) + 1 /\ At(s).type # "break"}}

(* The body has at most MaxBlocks blocks, nested ones included and break
   blocks not (the code does not count them), and nothing is left out
   without a warning.                                                      *)
CapHolds ==
    /\ mode \in {"flow", "para"} => Cardinality(Nested) <= MaxBlocks
    /\ \A p \in 1 .. Len(src) : src[p].is = "gone" => warned

(* What a paragraph has as breaks_before comes before its text.            *)
BreaksInPlace ==
    \A s \in Spots : s[1] <= Len(sections) + 1 =>
        \A b \in ToSet(BreaksOf(At(s))), t \in ToSet(TextsOf(At(s))) : b < t

-----------------------------------------------------------------------------
\* What the steps keep, from which the properties above follow.

Par == [type : {"paragraph"}, id : Nat, size : {1}, texts : Seq(Nat), breaks : Seq(Nat), page : Nat]
Obj == [type : {"object"}, id : Nat, size : Nat \ {0}, at : Nat]
Brk == [type : {"break"}, at : Nat]
Block == Par \cup Obj \cup Brk
Reading == [local : Seq(Par \cup Obj), runs : Seq(Nat), emitted : BOOLEAN,
            pending : Seq(Nat), nextId : Nat]

\* The blocks are blocks; the cap was not reached where a paragraph is read, and
\* is reached for good once there was a warning.
BlockInv ==
    /\ mode \in {"flow", "para", "notes", "done"}
    /\ cur \in Reading
    /\ blocks \in Seq(Block) /\ refs \in Seq(Nat)
    /\ sections \in Seq([blocks : Seq(Block), refs : Seq(Nat)])
    /\ noted \in Nat \ {0}
    /\ src \in Seq([is : Kinds, page : Nat])
    /\ page \in Nat /\ warned \in BOOLEAN
    /\ count \in 0 .. MaxBlocks
    /\ mode = "para" => count < MaxBlocks
    /\ mode # "para" => cur.local = <<>> /\ cur.runs = <<>>
    /\ mode \in {"notes", "done"} => blocks = <<>> /\ cur.pending = <<>>
    /\ warned => count = MaxBlocks

\* The texts of blocks are on their pages, in the document d.
OnPage(d, p, n) == p \in 1 .. Len(d) /\ d[p].page = n
OnPages(d, bs) ==
    \A i \in 1 .. Len(bs) : \A k \in 1 .. Len(TextsOf(bs[i])) : OnPage(d, TextsOf(bs[i])[k], bs[i].page)

\* The texts that wait are on the page that is read.
PageInv ==
    /\ \A k \in 1 .. Len(sections) : OnPages(src, sections[k].blocks)
    /\ OnPages(src, blocks)
    /\ OnPages(src, cur.local)
    /\ \A i \in 1 .. Len(cur.runs) : OnPage(src, cur.runs[i], page)

\* Ids rise, and an id is less than the place of its block.
Rising(bs) ==
    \A i \in 1 .. Len(bs) : bs[i].type # "break" =>
        /\ bs[i].id < i
        /\ \A k \in 1 .. i - 1 : bs[k].type # "break" => bs[k].id < bs[i].id
IdsBelow(bs, n) == \A i \in 1 .. Len(bs) : bs[i].type # "break" => bs[i].id < n

\* The ids of a paragraph count on from those of the section.
FirstId == cur.nextId - Len(cur.local)
IdsInv ==
    /\ \A k \in 1 .. Len(sections) : Rising(sections[k].blocks)
    /\ Rising(blocks) /\ IdsBelow(blocks, FirstId)
    /\ FirstId \in Nat
    /\ \A i \in 1 .. Len(cur.local) : cur.local[i].id = FirstId + i - 1
    /\ count < MaxBlocks => FirstId <= Len(blocks)

\* Texts that come in the order of the document.
TextSet(bs) == UNION {ToSet(TextsOf(bs[i])) : i \in 1 .. Len(bs)}
AllBefore(A, B) == \A p \in A, q \in B : p < q
InOrder(bs) ==
    \A i \in 1 .. Len(bs) :
        /\ Increasing(TextsOf(bs[i]))
        /\ \A k \in 1 .. i - 1 : AllBefore(ToSet(TextsOf(bs[k])), ToSet(TextsOf(bs[i])))

SectionTexts(secs) == UNION {TextSet(secs[k].blocks) : k \in 1 .. Len(secs)}
SectionsInOrder(secs) ==
    \A k \in 1 .. Len(secs) :
        /\ InOrder(secs[k].blocks)
        /\ \A l \in 1 .. k - 1 : AllBefore(TextSet(secs[l].blocks), TextSet(secs[k].blocks))

\* The paragraph c.
TextsRead(c) == TextSet(c.local) \cup ToSet(c.runs)
ReadInOrder(c) == InOrder(c.local) /\ Increasing(c.runs) /\ AllBefore(TextSet(c.local), ToSet(c.runs))

\* A has the texts of the document d up to some place, and all of them unless
\* there was a warning.
Complete(A, d, warning) ==
    /\ \A p \in A : /\ p \in 1 .. Len(d) /\ d[p].is = "text"
                    /\ \A q \in 1 .. p : d[q].is = "text" => q \in A
    /\ ~ warning => \A p \in 1 .. Len(d) : d[p].is = "text" => p \in A

TextInv ==
    /\ SectionsInOrder(sections) /\ InOrder(blocks) /\ ReadInOrder(cur)
    /\ AllBefore(SectionTexts(sections), TextSet(blocks))
    /\ AllBefore(SectionTexts(sections) \cup TextSet(blocks), TextsRead(cur))
    /\ Complete(SectionTexts(sections) \cup TextSet(blocks) \cup TextsRead(cur), src, warned)

\* Breaks that are written once each.
Once(s) == \A i, k \in 1 .. Len(s) : s[i] = s[k] => i = k
Apart(A, B) == \A p \in A : p \notin B
BreakSet(bs) == UNION {ToSet(BreaksOf(bs[i])) : i \in 1 .. Len(bs)}
OnceEach(bs) ==
    \A i \in 1 .. Len(bs) :
        /\ Once(BreaksOf(bs[i]))
        /\ \A k \in 1 .. i - 1 : Apart(ToSet(BreaksOf(bs[k])), ToSet(BreaksOf(bs[i])))

SectionBreaks(secs) == UNION {BreakSet(secs[k].blocks) : k \in 1 .. Len(secs)}
SectionsOnce(secs) ==
    \A k \in 1 .. Len(secs) :
        /\ OnceEach(secs[k].blocks)
        /\ \A l \in 1 .. k - 1 : Apart(BreakSet(secs[l].blocks), BreakSet(secs[k].blocks))

\* Those of the paragraph c, and those that wait for a block.
BreaksRead(c) == BreakSet(c.local) \cup ToSet(c.pending)
ReadOnce(c) == OnceEach(c.local) /\ Once(c.pending) /\ Apart(BreakSet(c.local), ToSet(c.pending))

\* A has only breaks of the document d, and all of them unless there was a warning.
AllBreaks(A, d, warning) ==
    /\ \A p \in A : p \in 1 .. Len(d) /\ d[p].is = "break"
    /\ ~ warning => \A p \in 1 .. Len(d) : d[p].is = "break" => p \in A

BreakInv ==
    /\ SectionsOnce(sections) /\ OnceEach(blocks) /\ ReadOnce(cur)
    /\ Apart(SectionBreaks(sections), BreakSet(blocks))
    /\ Apart(SectionBreaks(sections) \cup BreakSet(blocks), BreaksRead(cur))
    /\ AllBreaks(SectionBreaks(sections) \cup BreakSet(blocks) \cup BreaksRead(cur), src, warned)

\* The nested blocks of the blocks bs, and those of the sections and of the one
\* that is read.
Sizes(bs) ==
    UNION {{<<i, n>> : n \in 1 .. bs[i].size} : i \in {i \in 1 .. Len(bs) : bs[i].type # "break"}}
Held(k, S) == {<<<<k, y[1]>>, y[2]>> : y \in S}
Body(secs, bs) ==
    UNION {Held(k, Sizes(IF k <= Len(secs) THEN secs[k].blocks ELSE bs)) : k \in 1 .. Len(secs) + 1}

\* What is counted is at least what is written.
CapInv ==
    /\ mode \in {"flow", "para"} =>
          IsFiniteSet(Body(sections, blocks)) /\ Cardinality(Body(sections, blocks)) <= count
    /\ \A p \in 1 .. Len(src) : src[p].is = "gone" => warned
=============================================================================
