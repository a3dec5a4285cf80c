----------------------------- MODULE TextLines ------------------------------
(***************************************************************************)
(* The glyphs of a text object on their way to lines and words             *)
(* (docray-model, grouping.rs).  A glyph is [blank, x0, x1, base, size]:   *)
(* whether it is white space (an unmapped one counts as such), its extent  *)
(* along the line, its baseline and its font size.  A word is the sequence *)
(* of the places of its glyphs.                                            *)
(***************************************************************************)
EXTENDS Integers, Sequences, SequencesExt

Apart(a, b) == IF a < b THEN b - a ELSE a - b

\* The baseline left the one the line started with: by more than half of the
\* font size.
LeavesLine(start, c) == 2 * Apart(c.base, start.base) > c.size

\* The gap after the visible glyph before is more than a quarter of the size.
OpensGap(prev, c) == 4 * (c.x0 - prev.x1) > c.size

Flushed(seq, item) == IF item = <<>> THEN seq ELSE Append(seq, item)

\* build_line: the words of one line, given by the places of its glyphs.
\* prev is the visible glyph right before, <<>> when there is none.
AddGlyph(glyphs, st, i) ==
    IF glyphs[i].blank
      THEN [words |-> Flushed(st.words, st.word), word |-> <<>>, prev |-> <<>>]
    ELSE IF st.prev # <<>> /\ OpensGap(glyphs[st.prev[1]], glyphs[i])
      THEN [words |-> Flushed(st.words, st.word), word |-> <<i>>, prev |-> <<i>>]
      ELSE [st EXCEPT !.word = Append(@, i), !.prev = <<i>>]

NoWords == [words |-> <<>>, word |-> <<>>, prev |-> <<>>]

BuildLine(glyphs, members) ==
    LET st[n \in 0 .. Len(members)] ==
          IF n = 0 THEN NoWords ELSE AddGlyph(glyphs, st[n - 1], members[n])
    IN  Flushed(st[Len(members)].words, st[Len(members)].word)

\* group_into_lines; a line without a word is dropped.
AddToLine(glyphs, st, i) ==
    IF st.current # <<>> /\ LeavesLine(glyphs[st.current[1]], glyphs[i])
    THEN [lines |-> Flushed(st.lines, BuildLine(glyphs, st.current)), current |-> <<i>>]
    ELSE [st EXCEPT !.current = Append(@, i)]

GroupIntoLines(glyphs) ==
    LET st[n \in 0 .. Len(glyphs)] ==
          IF n = 0 THEN [lines |-> <<>>, current |-> <<>>] ELSE AddToLine(glyphs, st[n - 1], n)
    IN  Flushed(st[Len(glyphs)].lines, BuildLine(glyphs, st[Len(glyphs)].current))
-----------------------------------------------------------------------------
(***************************************************************************)
(* What the grouping promises, without its passes: the glyph a line starts *)
(* with, the glyphs that share a word, and the words in reading order.     *)
(***************************************************************************)
LineStarts(glyphs) ==
    LET start[i \in DOMAIN glyphs] ==
          IF i = 1 \/ LeavesLine(glyphs[start[i - 1]], glyphs[i]) THEN i ELSE start[i - 1]
    IN  start

Joined(glyphs, i) ==
    /\ i > 1 /\ ~ glyphs[i].blank /\ ~ glyphs[i - 1].blank
    /\ LineStarts(glyphs)[i] = LineStarts(glyphs)[i - 1]
    /\ ~ OpensGap(glyphs[i - 1], glyphs[i])

\* The places of glyphs that a line of words holds.
Places(line) == UNION {{line[w][k] : k \in DOMAIN line[w]} : w \in DOMAIN line}

\* The lines hold every visible glyph, and in order, hence once; neighbours
\* share a word exactly when they are joined, and a line exactly when they
\* started from the same glyph.
Grouped(glyphs, lines) ==
    /\ UNION {Places(lines[l]) : l \in DOMAIN lines} = {i \in DOMAIN glyphs : ~ glyphs[i].blank}
    /\ \A l \in DOMAIN lines : lines[l] # <<>> /\ \A w \in DOMAIN lines[l] :
          LET word == lines[l][w]
          IN  /\ word # <<>> /\ ~ Joined(glyphs, word[1])
              /\ \A k \in 2 .. Len(word) : word[k] = word[k - 1] + 1 /\ Joined(glyphs, word[k])
              /\ \A v \in 1 .. w - 1 : Last(lines[l][v]) < word[1]
              /\ LineStarts(glyphs)[word[1]] = LineStarts(glyphs)[lines[l][1][1]]
    /\ \A l \in 2 .. Len(lines) :
          /\ \A i \in Places(lines[l - 1]), j \in Places(lines[l]) : i < j
          /\ LineStarts(glyphs)[lines[l][1][1]] # LineStarts(glyphs)[lines[l - 1][1][1]]
=============================================================================
