-------------------------- MODULE DocxStoryProofs ---------------------------
(***************************************************************************)
(* A Word document on its way to blocks, for every document, every limit   *)
(* of blocks and every depth of fields: fields, pages, ids, breaks, texts  *)
(* and the cap.                                                            *)
(***************************************************************************)
EXTENDS DocxStory, SequenceTheorems, FiniteSetTheorems, WellFoundedInduction, TLAPS

(***************************************************************************)
(* The field machine against the true nesting of the fields: dropping the  *)
(* fields beyond the limit and counting them (FieldMachine.overflow) never *)
(* confuses whose end an end is.                                           *)
(***************************************************************************)

(* Text is shown exactly where every field around it has reached its result
   and none of them is beyond the limit.                                   *)
VisibleExact == Visible <=> (AllTrue(nest) /\ Len(nest) <= MaxDepth)

(* The stack is the nesting up to the limit, overflow the rest of it.      *)
FieldInv ==
    /\ stack \in Seq(BOOLEAN) /\ nest \in Seq(BOOLEAN)
    /\ overflow \in Nat
    /\ Len(stack) <= MaxDepth
    /\ Len(nest) = Len(stack) + overflow
    /\ overflow > 0 => Len(stack) = MaxDepth
    /\ \A i \in 1 .. Len(stack) : stack[i] = nest[i]

(* What w:fldChar begin does to a nesting.                                 *)
LEMMA BeginNesting ==
    ASSUME NEW S, NEW s \in Seq(S), NEW e \in S
    PROVE  /\ Append(s, e) \in Seq(S)
           /\ Len(s) \in Nat
           /\ Len(Append(s, e)) = Len(s) + 1
           /\ \A i \in 1 .. Len(s) : Append(s, e)[i] = s[i]
           /\ Append(s, e)[Len(s) + 1] = e
  BY AppendProperties, LenProperties

(* What a separator does: the last field reaches its result.               *)
LEMMA SeparateNesting ==
    ASSUME NEW S, TRUE \in S, NEW s \in Seq(S)
    PROVE  /\ Reached(s) \in Seq(S)
           /\ Len(s) \in Nat
           /\ Len(Reached(s)) = Len(s)
           /\ \A i \in 1 .. Len(s) : Reached(s)[i] = IF i = Len(s) THEN TRUE ELSE s[i]
<1>0. Len(s) \in Nat
  BY LenProperties
<1>1. CASE s = <<>>
  <2>1. Reached(s) = s /\ Len(s) = 0
    BY <1>1, EmptySeq DEF Reached
  <2>. QED  BY <1>0, <2>1
<1>2. CASE s # <<>>
  <2>1. Len(s) \in 1 .. Len(s)
    BY <1>2, EmptySeq
  <2>2. Reached(s) = [s EXCEPT ![Len(s)] = TRUE]
    BY <1>2 DEF Reached
  <2>3. /\ [s EXCEPT ![Len(s)] = TRUE] \in Seq(S)
        /\ Len([s EXCEPT ![Len(s)] = TRUE]) = Len(s)
        /\ \A i \in 1 .. Len(s) :
              [s EXCEPT ![Len(s)] = TRUE][i] = IF i = Len(s) THEN TRUE ELSE s[i]
    <3>1. ASSUME NEW k \in 1 .. Len(s), NEW e \in S
          PROVE  /\ [s EXCEPT ![k] = e] \in Seq(S)
                 /\ Len([s EXCEPT ![k] = e]) = Len(s)
                 /\ \A i \in 1 .. Len(s) : [s EXCEPT ![k] = e][i] = IF i = k THEN e ELSE s[i]
      BY ExceptSeq
    <3>. QED  BY <2>1, <3>1, TRUE \in S, Zenon
  <2>. QED  BY <1>0, <2>2, <2>3, Zenon
<1>. QED  BY <1>1, <1>2

(* What an end does: the last field goes, if there is one.                 *)
LEMMA EndNesting ==
    ASSUME NEW S, NEW s \in Seq(S)
    PROVE  /\ Closed(s) \in Seq(S)
           /\ Len(s) \in Nat
           /\ Len(Closed(s)) = IF Len(s) = 0 THEN 0 ELSE Len(s) - 1
           /\ \A i \in 1 .. Len(Closed(s)) : Closed(s)[i] = s[i]
<1>0. Len(s) \in Nat
  BY LenProperties
<1>1. CASE s = <<>>
  <2>1. Closed(s) = s /\ Len(s) = 0
    BY <1>1, EmptySeq DEF Closed
  <2>. QED  BY <1>0, <2>1
<1>2. CASE s # <<>>
  <2>1. Len(s) \in Nat \ {0}
    BY <1>2, EmptySeq
  <2>2. Closed(s) = SubSeq(s, 1, Len(s) - 1)
    BY <1>2 DEF Closed, Front
  <2>3. \A i \in 1 .. Len(s) - 1 : s[i] \in S
    BY <2>1, ElementOfSeq
  <2>4. /\ SubSeq(s, 1, Len(s) - 1) \in Seq(S)
        /\ Len(SubSeq(s, 1, Len(s) - 1)) = IF 1 <= Len(s) - 1 THEN Len(s) - 1 - 1 + 1 ELSE 0
        /\ \A i \in 1 .. Len(s) - 1 - 1 + 1 : SubSeq(s, 1, Len(s) - 1)[i] = s[1 + i - 1]
    BY <2>1, <2>3, SubSeqProperties
  <2>5. Len(Closed(s)) = Len(s) - 1
    <3>1. Len(Closed(s)) = IF 1 <= Len(s) - 1 THEN Len(s) - 1 - 1 + 1 ELSE 0
      BY <2>2, <2>4, Zenon
    <3>2. \A n \in Nat \ {0} : (IF 1 <= n - 1 THEN n - 1 - 1 + 1 ELSE 0) = n - 1
      OBVIOUS
    <3>. QED  BY <2>1, <3>1, <3>2, Zenon
  <2>6. \A i \in 1 .. Len(s) - 1 : Closed(s)[i] = s[i]
    <3>. SUFFICES ASSUME NEW i \in 1 .. Len(s) - 1
                  PROVE  Closed(s)[i] = s[i]
      OBVIOUS
    <3>1. i \in 1 .. Len(s) - 1 - 1 + 1 /\ 1 + i - 1 = i
      BY <2>1
    <3>. QED  BY <2>2, <2>4, <3>1, Zenon
  <2>. QED  BY <2>1, <2>2, <2>4, <2>5, <2>6
<1>. QED  BY <1>1, <1>2

(* The machine starts with no field, as the document does.                 *)
LEMMA FieldInvInit == Init => FieldInv
  BY DocxAssumption DEF Init, FieldInv

(* Only the field characters and the end of the story touch the machine.   *)
LEMMA FieldInvNext == FieldInv /\ [Next]_vars => FieldInv'
<1>. SUFFICES ASSUME FieldInv, [Next]_vars
              PROVE  FieldInv'
  OBVIOUS
<1>. USE DocxAssumption
<1>0. CASE UNCHANGED <<stack, overflow, nest>>
  BY <1>0 DEF FieldInv
<1>a. /\ stack \in Seq(BOOLEAN) /\ nest \in Seq(BOOLEAN)
      /\ Len(stack) \in Nat /\ Len(nest) \in Nat
  BY LenProperties DEF FieldInv
\* With no field beyond the limit both are the same sequence.
<1>b. overflow = 0 => stack = nest
  <2>. SUFFICES ASSUME overflow = 0
                PROVE  stack = nest
    OBVIOUS
  <2>1. Len(stack) = Len(nest) /\ \A i \in 1 .. Len(stack) : stack[i] = nest[i]
    BY <1>a DEF FieldInv
  <2>. QED  BY <1>a, <2>1, SeqEqual
<1>c. ASSUME nest' = stack', nest' \in Seq(BOOLEAN), overflow' = 0, Len(nest') <= MaxDepth
      PROVE  FieldInv'
  <2>1. Len(nest') \in Nat
    BY <1>c, LenProperties
  <2>. QED  BY <1>c, <2>1 DEF FieldInv
\* Beyond the limit only the nesting changes, and not within the limit.
<1>d. ASSUME stack' = stack, Len(stack) = MaxDepth, nest' \in Seq(BOOLEAN), overflow' \in Nat,
             Len(nest') = MaxDepth + overflow',
             \A i \in 1 .. MaxDepth : nest'[i] = nest[i]
      PROVE  FieldInv'
  BY <1>d DEF FieldInv
<1>1. CASE FieldBegin
  <2>1. nest' = Append(nest, FALSE)
    BY <1>1 DEF FieldBegin
  <2>2. /\ nest' \in Seq(BOOLEAN) /\ Len(nest') = Len(nest) + 1
        /\ \A i \in 1 .. Len(nest) : nest'[i] = nest[i]
    BY <1>a, <2>1, BeginNesting
  <2>3. CASE Len(stack) >= MaxDepth
    <3>1. overflow' = overflow + 1 /\ stack' = stack
      BY <1>1, <2>3 DEF FieldBegin
    <3>2. /\ Len(stack) = MaxDepth /\ overflow' \in Nat
          /\ Len(nest') = MaxDepth + overflow' /\ MaxDepth <= Len(nest)
      BY <1>a, <2>2, <2>3, <3>1 DEF FieldInv
    <3>3. \A i \in 1 .. MaxDepth : nest'[i] = nest[i]
      BY <1>a, <2>2, <3>2
    <3>. QED  BY <1>d, <2>2, <3>1, <3>2, <3>3
  <2>4. CASE ~ Len(stack) >= MaxDepth
    <3>1. stack' = Append(stack, FALSE) /\ overflow' = overflow
      BY <1>1, <2>4 DEF FieldBegin
    <3>2. overflow = 0 /\ Len(stack) < MaxDepth
      <4>1. Len(stack) <= MaxDepth /\ overflow \in Nat /\ (overflow > 0 => Len(stack) = MaxDepth)
        BY DEF FieldInv
      <4>. QED  BY <1>a, <2>4, <4>1
    <3>3. nest' = stack' /\ overflow' = 0
      BY <1>b, <2>1, <3>1, <3>2
    <3>4. Len(nest') <= MaxDepth
      BY <1>a, <1>b, <2>2, <3>2
    <3>. QED  BY <1>c, <2>2, <3>3, <3>4
  <2>. QED  BY <2>3, <2>4
<1>2. CASE FieldSeparate
  <2>1. nest' = Reached(nest) /\ overflow' = overflow
    BY <1>2 DEF FieldSeparate
  <2>2. /\ nest' \in Seq(BOOLEAN) /\ Len(nest') = Len(nest)
        /\ \A i \in 1 .. Len(nest) : i # Len(nest) => nest'[i] = nest[i]
    BY <1>a, <2>1, SeparateNesting
  <2>3. CASE overflow > 0
    <3>1. stack' = stack
      BY <1>2, <2>3 DEF FieldSeparate
    <3>2. /\ Len(stack) = MaxDepth /\ overflow' \in Nat
          /\ Len(nest') = MaxDepth + overflow' /\ MaxDepth < Len(nest)
      BY <1>a, <2>1, <2>2, <2>3 DEF FieldInv
    <3>3. \A i \in 1 .. MaxDepth : nest'[i] = nest[i]
      BY <1>a, <2>2, <3>2
    <3>. QED  BY <1>d, <2>2, <3>1, <3>2, <3>3
  <2>4. CASE overflow = 0
    <3>1. stack' = Reached(stack)
      BY <1>2, <2>4 DEF FieldSeparate
    <3>2. Len(nest') <= MaxDepth
      BY <1>b, <2>2, <2>4 DEF FieldInv
    <3>. QED  BY <1>b, <1>c, <2>1, <2>2, <2>4, <3>1, <3>2
  <2>. QED  BY <2>3, <2>4 DEF FieldInv
<1>3. CASE FieldEnd
  <2>1. nest' = Closed(nest)
    BY <1>3 DEF FieldEnd
  <2>2. /\ nest' \in Seq(BOOLEAN)
        /\ Len(nest') = IF Len(nest) = 0 THEN 0 ELSE Len(nest) - 1
        /\ \A i \in 1 .. Len(nest') : nest'[i] = nest[i]
    BY <1>a, <2>1, EndNesting
  <2>3. CASE overflow > 0
    <3>1. overflow' = overflow - 1 /\ stack' = stack
      BY <1>3, <2>3 DEF FieldEnd
    <3>2. /\ Len(stack) = MaxDepth /\ overflow' \in Nat
          /\ Len(nest') = MaxDepth + overflow' /\ MaxDepth <= Len(nest')
      BY <1>a, <2>2, <2>3, <3>1 DEF FieldInv
    <3>3. \A i \in 1 .. MaxDepth : nest'[i] = nest[i]
      <4>. SUFFICES ASSUME NEW i \in 1 .. MaxDepth
                    PROVE  nest'[i] = nest[i]
        OBVIOUS
      <4>1. i \in 1 .. Len(nest')
        <5>1. Len(nest') \in Nat
          BY <2>2, LenProperties
        <5>2. MaxDepth \in Nat /\ MaxDepth <= Len(nest')
          BY <3>2
        <5>. QED  BY <5>1, <5>2
      <4>. QED  BY <2>2, <4>1, Zenon
    <3>. QED  BY <1>d, <2>2, <3>1, <3>2, <3>3
  <2>4. CASE overflow = 0
    <3>1. stack' = Closed(stack) /\ overflow' = overflow
      BY <1>3, <2>4 DEF FieldEnd
    <3>2. Len(nest') <= MaxDepth
      <4>1. Len(nest) <= MaxDepth /\ Len(nest) \in Nat
        BY <1>a, <1>b, <2>4 DEF FieldInv
      <4>. QED  BY <2>2, <4>1
    <3>. QED  BY <1>b, <1>c, <2>1, <2>2, <2>4, <3>1, <3>2
  <2>. QED  BY <2>3, <2>4 DEF FieldInv
<1>4. CASE Finish
  BY <1>4 DEF Finish, FieldInv
<1>5. CASE Inline /\ ~ FieldBegin /\ ~ FieldSeparate /\ ~ FieldEnd
  BY <1>0, <1>5 DEF Inline, Text, Break, PageHint, Note, Drawing, field
<1>6. CASE Flow /\ ~ Finish
  <2>1. ASSUME NEW b \in BOOLEAN, StartParagraph(b) \/ EndParagraph(b) \/ Skip(b)
        PROVE  UNCHANGED <<stack, overflow, nest>>
    BY <2>1 DEF StartParagraph, EndParagraph, Skip, field
  <2>2. ASSUME NEW size \in 1 .. 2, Table(size, size - 1)
        PROVE  UNCHANGED <<stack, overflow, nest>>
    BY <2>2 DEF Table, field
  <2>. QED  BY <1>0, <1>6, <2>1, <2>2 DEF Flow
<1>7. CASE Notes
  BY <1>0, <1>7 DEF Notes, AttachNote, NextSection, field
<1>8. CASE Done \/ UNCHANGED vars
  BY <1>0, <1>8 DEF Done, vars, field
<1>. QED  BY <1>1, <1>2, <1>3, <1>4, <1>5, <1>6, <1>7, <1>8 DEF Next

(* Beyond the limit the nesting is too long; below it the two are equal.   *)
LEMMA FieldInvVisible == FieldInv => VisibleExact
<1>. SUFFICES ASSUME FieldInv
              PROVE  VisibleExact
  OBVIOUS
<1>1. CASE overflow = 0
  <2>1. AllTrue(stack) <=> AllTrue(nest)
    BY <1>1 DEF FieldInv, AllTrue
  <2>. QED  BY <1>1, <2>1 DEF FieldInv, VisibleExact, Visible
<1>2. CASE overflow > 0
  BY <1>2, DocxAssumption DEF FieldInv, VisibleExact, Visible
<1>. QED  BY <1>1, <1>2 DEF FieldInv

(* Field instructions never show, results always do up to the limit, for
   every sequence of field characters, matched or not, over paragraphs,
   drawings, tables and sections.                                          *)
THEOREM FieldsAreExact == Spec => []VisibleExact
<1>. QED  BY FieldInvInit, FieldInvNext, FieldInvVisible, PTL DEF Spec


(***************************************************************************)
(* push_blocks.                                                            *)
(***************************************************************************)
(* A set of natural numbers that is not empty has a least one: what holds  *)
(* of every number has no least exception.                                 *)
LEMMA LeastNumber ==
    ASSUME NEW S \in SUBSET Nat, S # {}
    PROVE  \E x \in S : \A y \in S : x <= y
<1>1. PICK x \in S : \A y \in S : <<y, x>> \notin OpToRel(<, Nat)
  BY NatLessThanWellFounded, WFMin
<1>2. ASSUME NEW y \in S PROVE x <= y
  <2>1. ~ (y < x)
    BY <1>1, <1>2 DEF OpToRel
  <2>2. QED
    BY <2>1
<1>3. QED
  BY <1>2

\* The states of push_blocks, one for each of its turns.
FirstTurn(dest, pending) ==
    [dest |-> dest, pending |-> pending, count |-> count, full |-> count >= MaxBlocks]
AreTurns(a, dest, pending, source, n) ==
    a = [k \in 0 .. n |-> IF k = 0 THEN FirstTurn(dest, pending) ELSE PushOne(a[k - 1], source[k])]

(* The turns of a number of blocks are there, whatever the number.         *)
LEMMA TurnsExist ==
    ASSUME NEW dest, NEW pending, NEW source, NEW n \in Nat
    PROVE  \E a : AreTurns(a, dest, pending, source, n)
<1> DEFINE bad == {k \in Nat : ~ \E a : AreTurns(a, dest, pending, source, k)}
<1>1. SUFFICES bad = {}
  OBVIOUS
<1>2. SUFFICES ASSUME bad # {} PROVE FALSE
  OBVIOUS
<1>3. PICK m \in bad : \A k \in bad : m <= k
  <2>1. bad \in SUBSET Nat
    OBVIOUS
  <2> HIDE DEF bad
  <2>2. QED
    BY <1>2, <2>1, LeastNumber
<1>4. CASE m = 0
  <2>1. AreTurns([k \in 0 .. 0 |-> FirstTurn(dest, pending)], dest, pending, source, 0)
    BY DEF AreTurns
  <2>2. QED
    BY <1>3, <1>4, <2>1
<1>5. CASE m # 0
  <2>1. m - 1 \in Nat /\ m - 1 \notin bad
    BY <1>3, <1>5
  <2>2. PICK a : AreTurns(a, dest, pending, source, m - 1)
    BY <2>1
  <2> DEFINE b == [k \in 0 .. m |-> IF k = m THEN PushOne(a[m - 1], source[m]) ELSE a[k]]
  <2>3. \A k \in 0 .. m - 1 : b[k] = a[k]
    BY <1>5
  <2>4. \A k \in 0 .. m - 1 :
          a[k] = IF k = 0 THEN FirstTurn(dest, pending) ELSE PushOne(a[k - 1], source[k])
    BY <2>2 DEF AreTurns
  <2>5. \A k \in 0 .. m :
          b[k] = IF k = 0 THEN FirstTurn(dest, pending) ELSE PushOne(b[k - 1], source[k])
    <3>1. ASSUME NEW k \in 0 .. m - 1
          PROVE  b[k] = IF k = 0 THEN FirstTurn(dest, pending) ELSE PushOne(b[k - 1], source[k])
      <4>1. CASE k = 0
        BY <2>3, <2>4, <4>1
      <4>2. CASE k # 0
        <5>1. k - 1 \in 0 .. m - 1
          BY <4>2
        <5>2. b[k] = a[k] /\ b[k - 1] = a[k - 1]
          BY <2>3, <5>1
        <5> HIDE DEF b
        <5>3. QED
          BY <2>4, <4>2, <5>2
      <4>3. QED
        BY <4>1, <4>2
    <3>2. b[m] = PushOne(a[m - 1], source[m]) /\ b[m - 1] = a[m - 1] /\ m \in 0 .. m
      BY <2>1, <1>5
    <3> HIDE DEF b
    <3>3. QED
      BY <1>5, <3>1, <3>2
  <2>6. b = [k \in 0 .. m |-> IF k = 0 THEN FirstTurn(dest, pending) ELSE PushOne(b[k - 1], source[k])]
    <3>1. b = [k \in 0 .. m |-> b[k]]
      OBVIOUS
    <3> HIDE DEF b
    <3>2. QED
      BY <2>5, <3>1
  <2>7. AreTurns(b, dest, pending, source, m)
    BY <2>6 DEF AreTurns
  <2>8. QED
    BY <1>3, <2>7
<1>6. QED
  BY <1>4, <1>5

(* push_blocks is its turns.                                               *)
PushesBy(a, dest, pending, source) ==
    /\ a[0] = FirstTurn(dest, pending)
    /\ \A n \in 1 .. Len(source) : a[n] = PushOne(a[n - 1], source[n])
    /\ Pushed(dest, pending, source) = a[Len(source)]

LEMMA PushedByTurns ==
    ASSUME NEW dest, NEW pending, NEW source, Len(source) \in Nat
    PROVE  \E a : PushesBy(a, dest, pending, source)
<1> DEFINE a == CHOOSE a : AreTurns(a, dest, pending, source, Len(source))
<1>1. AreTurns(a, dest, pending, source, Len(source))
  BY TurnsExist
<1>2. Pushed(dest, pending, source) = a[Len(source)]
  BY DEF Pushed, AreTurns, FirstTurn
<1> HIDE DEF a
<1>3. \A k \in 0 .. Len(source) :
        a[k] = IF k = 0 THEN FirstTurn(dest, pending) ELSE PushOne(a[k - 1], source[k])
  BY <1>1 DEF AreTurns
<1>4. a[0] = FirstTurn(dest, pending)
  BY <1>3
<1>5. \A n \in 1 .. Len(source) : a[n] = PushOne(a[n - 1], source[n])
  BY <1>3
<1>6. PushesBy(a, dest, pending, source)
  BY <1>2, <1>4, <1>5 DEF PushesBy
<1>7. QED
  BY <1>6

\* The blocks that wait before a block that is no paragraph, and the block as it
\* is written.
AheadOf(b, pending) == IF b.type = "paragraph" THEN 0 ELSE Len(pending)
WithBreaks(b, pending) == IF b.type = "paragraph" THEN [b EXCEPT !.breaks = @ \o pending] ELSE b

LEMMA BreakBlocksType ==
    ASSUME NEW pending \in Seq(Nat)
    PROVE  /\ BreakBlocks(pending) \in Seq(Block) /\ Len(BreakBlocks(pending)) = Len(pending)
           /\ Len(pending) \in Nat
           /\ \A i \in 1 .. Len(pending) : BreakBlocks(pending)[i] = [type |-> "break", at |-> pending[i]]
<1>1. Len(pending) \in Nat /\ \A i \in 1 .. Len(pending) : pending[i] \in Nat
  BY LenProperties, ElementOfSeq
<1>2. \A i \in 1 .. Len(pending) : [type |-> "break", at |-> pending[i]] \in Block
  BY <1>1 DEF Block, Brk
<1>3. BreakBlocks(pending) \in [1 .. Len(pending) -> Block]
  BY <1>2 DEF BreakBlocks
<1>4. BreakBlocks(pending) \in Seq(Block)
  BY <1>1, <1>3
<1>5. QED
  BY <1>1, <1>3, <1>4 DEF BreakBlocks

LEMMA WithBreaksType ==
    ASSUME NEW b \in Par \cup Obj, NEW pending \in Seq(Nat)
    PROVE  /\ WithBreaks(b, pending) \in Par \cup Obj
           /\ WithBreaks(b, pending).type = b.type /\ WithBreaks(b, pending).id = b.id
           /\ WithBreaks(b, pending).size = b.size
           /\ b \in Par => /\ WithBreaks(b, pending).texts = b.texts
                           /\ WithBreaks(b, pending).page = b.page
                           /\ WithBreaks(b, pending).breaks = b.breaks \o pending
           /\ b \in Obj => WithBreaks(b, pending) = b
           /\ pending = <<>> => WithBreaks(b, pending) = b
<1>1. CASE b \in Par
  <2>1. b.type = "paragraph" /\ b.breaks \in Seq(Nat)
    BY <1>1 DEF Par
  <2>2. b.breaks \o pending \in Seq(Nat)
    BY <2>1, ConcatProperties
  <2>3. WithBreaks(b, pending) = [b EXCEPT !.breaks = b.breaks \o pending]
    BY <2>1 DEF WithBreaks
  <2>4. pending = <<>> => b.breaks \o pending = b.breaks
    BY <2>1, ConcatEmptySeq
  <2>5. b \notin Obj
    BY <2>1 DEF Obj
  <2>6. QED
    BY <1>1, <2>2, <2>3, <2>4, <2>5 DEF Par
<1>2. CASE b \in Obj
  <2>1. b.type = "object"
    BY <1>2 DEF Obj
  <2>2. b \notin Par
    BY <2>1 DEF Par
  <2>3. QED
    BY <1>2, <2>1, <2>2 DEF WithBreaks
<1>3. QED
  BY <1>1, <1>2

(* One turn: the waiting breaks and the block, or, at the cap, only the    *)
(* breaks of an object.                                                    *)
LEMMA OneTurn ==
    ASSUME NEW s, NEW b \in Par \cup Obj, ~ s.full,
           s.dest \in Seq(Block), s.pending \in Seq(Nat), s.count \in 0 .. MaxBlocks
    PROVE  LET r == PushOne(s, b)
               here == Len(s.dest) + AheadOf(b, s.pending)
           IN  /\ r.dest \in Seq(Block) /\ r.pending = <<>> /\ r.full \in BOOLEAN
               /\ r.full => r.count = MaxBlocks /\ Len(r.dest) = here
               /\ ~ r.full => /\ r.count = s.count + b.size /\ r.count <= MaxBlocks
                              /\ Len(r.dest) = here + 1
                              /\ r.dest[here + 1] = WithBreaks(b, s.pending)
               /\ \A i \in 1 .. Len(s.dest) : r.dest[i] = s.dest[i]
               /\ \A i \in 1 .. AheadOf(b, s.pending) :
                     r.dest[Len(s.dest) + i] = [type |-> "break", at |-> s.pending[i]]
<1> DEFINE r == PushOne(s, b)
           dest == IF b.type = "paragraph" THEN s.dest ELSE s.dest \o BreakBlocks(s.pending)
           blk == WithBreaks(b, s.pending)
           ahead == AheadOf(b, s.pending)
<1>1. r = IF Exceeds(s.count, b.size)
          THEN [dest |-> dest, pending |-> <<>>, count |-> MaxBlocks, full |-> TRUE]
          ELSE [dest |-> Append(dest, blk), pending |-> <<>>, count |-> s.count + b.size, full |-> FALSE]
  BY DEF PushOne, WithBreaks
<1>2. /\ dest \in Seq(Block) /\ Len(dest) = Len(s.dest) + ahead /\ ahead \in Nat
      /\ Len(s.dest) \in Nat
      /\ \A i \in 1 .. Len(s.dest) : dest[i] = s.dest[i]
      /\ \A i \in 1 .. ahead : dest[Len(s.dest) + i] = [type |-> "break", at |-> s.pending[i]]
  <2>1. Len(s.dest) \in Nat
    BY LenProperties
  <2>2. CASE b.type = "paragraph"
    BY <2>1, <2>2 DEF AheadOf
  <2>3. CASE b.type # "paragraph"
    <3>1. ahead = Len(s.pending) /\ dest = s.dest \o BreakBlocks(s.pending)
      BY <2>3 DEF AheadOf
    <3> DEFINE bs == BreakBlocks(s.pending)
    <3>2. /\ bs \in Seq(Block) /\ Len(bs) = ahead /\ ahead \in Nat
          /\ \A i \in 1 .. ahead : bs[i] = [type |-> "break", at |-> s.pending[i]]
      BY <3>1, BreakBlocksType
    <3>3. dest = s.dest \o bs
      BY <3>1
    <3> HIDE DEF bs, dest, ahead
    <3>4. /\ dest \in Seq(Block) /\ Len(dest) = Len(s.dest) + ahead
          /\ \A i \in 1 .. Len(s.dest) + ahead :
                dest[i] = IF i <= Len(s.dest) THEN s.dest[i] ELSE bs[i - Len(s.dest)]
      BY <3>2, <3>3, ConcatProperties
    <3>5. \A i \in 1 .. ahead : /\ Len(s.dest) + i \in 1 .. Len(s.dest) + ahead
                                /\ ~ (Len(s.dest) + i <= Len(s.dest))
                                /\ Len(s.dest) + i - Len(s.dest) = i
      BY <2>1, <3>2
    <3>6. \A i \in 1 .. Len(s.dest) : i \in 1 .. Len(s.dest) + ahead /\ i <= Len(s.dest)
      BY <2>1, <3>2
    <3>7. \A i \in 1 .. Len(s.dest) : dest[i] = s.dest[i]
      BY <3>4, <3>6
    <3>8. \A i \in 1 .. ahead : dest[Len(s.dest) + i] = bs[i]
      BY <3>4, <3>5
    <3>9. QED
      BY <2>1, <3>2, <3>4, <3>7, <3>8
  <2>4. QED
    BY <2>2, <2>3
<1>3. blk \in Block /\ b.size \in Nat
  <2>1. blk \in Par \cup Obj
    BY WithBreaksType
  <2>2. b.size \in Nat
    BY DEF Par, Obj
  <2> HIDE DEF blk
  <2>3. QED
    BY <2>1, <2>2 DEF Block
<1> HIDE DEF dest, blk, ahead
<1>4. CASE Exceeds(s.count, b.size)
  <2>1. r = [dest |-> dest, pending |-> <<>>, count |-> MaxBlocks, full |-> TRUE]
    BY <1>1, <1>4
  <2> HIDE DEF r
  <2>2. r.dest = dest /\ r.pending = <<>> /\ r.count = MaxBlocks /\ r.full
    BY <2>1
  <2>3. QED
    BY <1>2, <2>2 DEF r, ahead
<1>5. CASE ~ Exceeds(s.count, b.size)
  <2>1. r = [dest |-> Append(dest, blk), pending |-> <<>>, count |-> s.count + b.size, full |-> FALSE]
    BY <1>1, <1>5
  <2> HIDE DEF r
  <2>2. r.dest = Append(dest, blk) /\ r.pending = <<>> /\ r.count = s.count + b.size /\ ~ r.full
        /\ r.full \in BOOLEAN
    BY <2>1
  <2>3. r.count <= MaxBlocks
    BY <1>3, <1>5, <2>2, DocxAssumption DEF Exceeds
  <2>4. /\ r.dest \in Seq(Block) /\ Len(r.dest) = Len(dest) + 1
        /\ r.dest[Len(dest) + 1] = blk
        /\ \A i \in 1 .. Len(dest) : r.dest[i] = dest[i]
    BY <1>2, <1>3, <2>2, AppendProperties
  <2>5. \A i \in 1 .. Len(s.dest) : r.dest[i] = s.dest[i]
    <3>1. \A i \in 1 .. Len(s.dest) : i \in 1 .. Len(dest)
      BY <1>2
    <3>2. QED
      BY <1>2, <2>4, <3>1
  <2>6. \A i \in 1 .. ahead : r.dest[Len(s.dest) + i] = [type |-> "break", at |-> s.pending[i]]
    <3>1. \A i \in 1 .. ahead : Len(s.dest) + i \in 1 .. Len(dest)
      BY <1>2
    <3>2. QED
      BY <1>2, <2>4, <3>1
  <2>7. QED
    BY <1>2, <2>2, <2>3, <2>4, <2>5, <2>6 DEF r, ahead, blk
<1>6. QED
  BY <1>4, <1>5

\* What n turns have written behind dest: the breaks that waited before the first
\* block if that is no paragraph, then m of the blocks; all of them below the cap.
Ahead(pending, source, n) == IF n = 0 THEN 0 ELSE AheadOf(source[1], pending)
Written(pending, source, i) == IF i = 1 THEN WithBreaks(source[1], pending) ELSE source[i]
Shape(r, dest, pending, source, n, m) ==
    LET ahead == Ahead(pending, source, n)
    IN  /\ m \in 0 .. n
        /\ r.dest \in Seq(Block) /\ Len(r.dest) = Len(dest) + ahead + m
        /\ \A i \in 1 .. Len(dest) : r.dest[i] = dest[i]
        /\ \A i \in 1 .. ahead : r.dest[Len(dest) + i] = [type |-> "break", at |-> pending[i]]
        /\ \A i \in 1 .. m : r.dest[Len(dest) + ahead + i] = Written(pending, source, i)
        /\ r.pending = IF n = 0 THEN pending ELSE <<>>
        /\ r.full \in BOOLEAN /\ r.count \in 0 .. MaxBlocks
        /\ r.full => r.count = MaxBlocks
        /\ ~ r.full => m = n

(* A turn of push_blocks goes on with the next block, until it is full.    *)
LEMMA ShapeStep ==
    ASSUME NEW dest \in Seq(Block), NEW pending \in Seq(Nat), NEW source \in Seq(Par \cup Obj),
           NEW n \in 1 .. Len(source), NEW s, NEW m, Shape(s, dest, pending, source, n - 1, m),
           n = 1 => ~ s.full
    PROVE  \E k : Shape(PushOne(s, source[n]), dest, pending, source, n, k)
<1> DEFINE r == PushOne(s, source[n])
           ahead == Ahead(pending, source, n)
           b == source[n]
<1>1. Len(source) \in Nat /\ n \in Nat \ {0} /\ Len(dest) \in Nat /\ Len(pending) \in Nat
  BY LenProperties
<1>2. b \in Par \cup Obj
  BY ElementOfSeq
<1>3. ahead \in Nat
  BY <1>1 DEF Ahead, AheadOf
<1>4. CASE s.full
  <2>1. r = s /\ n > 1
    BY <1>1, <1>4 DEF PushOne
  <2>2. Ahead(pending, source, n - 1) = ahead
    BY <1>1, <2>1 DEF Ahead
  <2> HIDE DEF r
  <2>3. /\ m \in 0 .. n - 1
        /\ r.dest \in Seq(Block) /\ Len(r.dest) = Len(dest) + ahead + m
        /\ \A i \in 1 .. Len(dest) : r.dest[i] = dest[i]
        /\ \A i \in 1 .. ahead : r.dest[Len(dest) + i] = [type |-> "break", at |-> pending[i]]
        /\ \A i \in 1 .. m : r.dest[Len(dest) + ahead + i] = Written(pending, source, i)
        /\ r.pending = <<>> /\ r.full \in BOOLEAN /\ r.count \in 0 .. MaxBlocks
        /\ r.full => r.count = MaxBlocks
    <3>1. n - 1 # 0
      BY <1>1, <2>1
    <3> HIDE DEF ahead
    <3>2. QED
      BY <2>1, <2>2, <3>1 DEF Shape
  <2>4. Shape(r, dest, pending, source, n, m)
    <3>1. m \in 0 .. n /\ n # 0
      BY <1>1, <2>3
    <3>2. QED
      BY <1>4, <2>1, <2>3, <3>1 DEF Shape
  <2>5. QED
    BY <2>4 DEF r
<1>5. CASE ~ s.full
  <2> DEFINE h == Len(s.dest) + AheadOf(b, s.pending)
  <2>0. /\ m = n - 1 /\ s.dest \in Seq(Block) /\ s.count \in 0 .. MaxBlocks
        /\ s.pending = IF n = 1 THEN pending ELSE <<>>
        /\ Len(s.dest) = Len(dest) + Ahead(pending, source, n - 1) + m
        /\ \A i \in 1 .. Len(dest) : s.dest[i] = dest[i]
        /\ \A i \in 1 .. Ahead(pending, source, n - 1) :
              s.dest[Len(dest) + i] = [type |-> "break", at |-> pending[i]]
        /\ \A i \in 1 .. m : s.dest[Len(dest) + Ahead(pending, source, n - 1) + i] = Written(pending, source, i)
    BY <1>1, <1>5 DEF Shape
  <2>1. s.pending \in Seq(Nat)
    BY <2>0
  <2>2. /\ r.dest \in Seq(Block) /\ r.pending = <<>> /\ r.full \in BOOLEAN
        /\ r.full => r.count = MaxBlocks /\ Len(r.dest) = h
        /\ ~ r.full => /\ r.count = s.count + b.size /\ r.count <= MaxBlocks
                       /\ Len(r.dest) = h + 1
                       /\ r.dest[h + 1] = WithBreaks(b, s.pending)
        /\ \A i \in 1 .. Len(s.dest) : r.dest[i] = s.dest[i]
        /\ \A i \in 1 .. AheadOf(b, s.pending) :
              r.dest[Len(s.dest) + i] = [type |-> "break", at |-> s.pending[i]]
    BY <1>2, <1>5, <2>0, <2>1, OneTurn
  <2>3. r.count \in 0 .. MaxBlocks
    <3>1. b.size \in Nat
      BY <1>2 DEF Par, Obj
    <3> HIDE DEF r, b
    <3>2. QED
      BY <2>0, <2>2, <3>1, DocxAssumption
  <2>4. h = Len(dest) + ahead + (n - 1) /\ Len(s.dest) <= h /\ Len(s.dest) \in Nat
    <3>1. CASE n = 1
      <4>1. Ahead(pending, source, n - 1) = 0 /\ ahead = AheadOf(b, s.pending)
        BY <2>0, <3>1 DEF Ahead
      <4>2. QED
        BY <1>1, <1>3, <2>0, <3>1, <4>1
    <3>2. CASE n > 1
      <4>1. Ahead(pending, source, n - 1) = ahead /\ AheadOf(b, s.pending) = 0
        BY <1>1, <2>0, <3>2 DEF Ahead, AheadOf
      <4>2. QED
        BY <1>1, <1>3, <2>0, <4>1
    <3>3. QED
      BY <1>1, <3>1, <3>2
  <2>5. WithBreaks(b, s.pending) = Written(pending, source, n)
    BY <1>1, <1>2, <2>0, <2>1, WithBreaksType DEF Written
  <2>6. \A i \in 1 .. Len(dest) : r.dest[i] = dest[i]
    <3>1. \A i \in 1 .. Len(dest) : i \in 1 .. Len(s.dest)
      BY <1>1, <2>0 DEF Ahead, AheadOf
    <3> HIDE DEF r
    <3>2. QED
      BY <2>0, <2>2, <3>1
  <2>7. ASSUME NEW i \in 1 .. ahead
        PROVE  r.dest[Len(dest) + i] = [type |-> "break", at |-> pending[i]]
    <3>1. CASE n = 1
      <4>1. ahead = AheadOf(b, s.pending) /\ s.pending = pending /\ Len(s.dest) = Len(dest)
        BY <1>1, <2>0, <3>1 DEF Ahead
      <4> HIDE DEF r, ahead, b
      <4>2. QED
        BY <2>2, <2>7, <4>1
    <3>2. CASE n > 1
      <4>1. Ahead(pending, source, n - 1) = ahead
        BY <1>1, <3>2 DEF Ahead
      <4>2. Len(dest) + i \in 1 .. Len(s.dest)
        BY <1>1, <1>3, <2>0, <2>7, <4>1
      <4> HIDE DEF r, ahead, b
      <4>3. QED
        BY <2>0, <2>2, <2>7, <4>1, <4>2
    <3>3. QED
      BY <1>1, <3>1, <3>2
  <2>8. ASSUME NEW i \in 1 .. n - 1
        PROVE  r.dest[Len(dest) + ahead + i] = Written(pending, source, i)
    <3>1. Ahead(pending, source, n - 1) = ahead
      BY <1>1, <2>8 DEF Ahead
    <3>2. Len(dest) + ahead + i \in 1 .. Len(s.dest)
      BY <1>1, <1>3, <2>0, <2>8, <3>1
    <3> HIDE DEF r, ahead, b
    <3>3. QED
      BY <2>0, <2>2, <2>8, <3>1, <3>2
  <2>9. CASE r.full
    <3>1. Len(r.dest) = Len(dest) + ahead + (n - 1)
      BY <2>2, <2>4, <2>9
    <3> HIDE DEF r, ahead, b
    <3>2. Shape(r, dest, pending, source, n, n - 1)
      BY <1>1, <2>2, <2>3, <2>6, <2>7, <2>8, <2>9, <3>1 DEF Shape, ahead
    <3>3. QED
      BY <3>2 DEF r, b
  <2>10. CASE ~ r.full
    <3>1. Len(r.dest) = Len(dest) + ahead + n
      BY <1>1, <1>3, <2>2, <2>4, <2>10
    <3>2. r.dest[Len(dest) + ahead + n] = Written(pending, source, n)
      <4>1. h + 1 = Len(dest) + ahead + n
        BY <1>1, <1>3, <2>4
      <4> HIDE DEF r, ahead, b, h
      <4>2. QED
        BY <2>2, <2>5, <2>10, <4>1
    <3>3. \A i \in 1 .. n : r.dest[Len(dest) + ahead + i] = Written(pending, source, i)
      <4> HIDE DEF r, ahead, b
      <4>1. \A i \in 1 .. n : i \in 1 .. n - 1 \/ i = n
        BY <1>1
      <4>2. QED
        BY <2>8, <3>2, <4>1
    <3> HIDE DEF r, ahead, b
    <3>4. Shape(r, dest, pending, source, n, n)
      BY <1>1, <2>2, <2>3, <2>6, <2>7, <2>10, <3>1, <3>3 DEF Shape, ahead
    <3>5. QED
      BY <3>4 DEF r, b
  <2>11. QED
    BY <2>2, <2>9, <2>10
<1>6. QED
  BY <1>4, <1>5

(* What push_blocks does, below the cap: it writes blocks in their order,  *)
(* each once, and leaves blocks out only where it reports so.              *)
LEMMA PushedShape ==
    ASSUME NEW dest \in Seq(Block), NEW pending \in Seq(Nat), NEW source \in Seq(Par \cup Obj),
           count \in 0 .. MaxBlocks, count < MaxBlocks
    PROVE  \E m : Shape(Pushed(dest, pending, source), dest, pending, source, Len(source), m)
<1>0. Len(source) \in Nat
  BY LenProperties
<1>a. PICK a : PushesBy(a, dest, pending, source)
  BY <1>0, PushedByTurns
<1>1. /\ a[0] = FirstTurn(dest, pending)
      /\ \A n \in 1 .. Len(source) : a[n] = PushOne(a[n - 1], source[n])
      /\ Pushed(dest, pending, source) = a[Len(source)]
  BY <1>a DEF PushesBy
<1> DEFINE bad == {n \in Nat : n <= Len(source) /\ ~ \E m : Shape(a[n], dest, pending, source, n, m)}
<1>2. SUFFICES ASSUME bad # {} PROVE FALSE
  <2>1. Len(source) \notin bad => \E m : Shape(a[Len(source)], dest, pending, source, Len(source), m)
    BY <1>0
  <2> HIDE DEF bad
  <2>2. QED
    BY <1>1, <2>1
<1>3. PICK n \in bad : \A k \in bad : n <= k
  <2>1. bad \in SUBSET Nat
    OBVIOUS
  <2> HIDE DEF bad
  <2>2. QED
    BY <1>2, <2>1, LeastNumber
<1>4. a[0].full = FALSE /\ Shape(a[0], dest, pending, source, 0, 0)
  <2>1. a[0] = [dest |-> dest, pending |-> pending, count |-> count, full |-> FALSE]
    <3>1. (count >= MaxBlocks) = FALSE
      BY DocxAssumption
    <3>2. QED
      BY <1>1, <3>1, Zenon DEF FirstTurn
  <2>2. Ahead(pending, source, 0) = 0 /\ Len(dest) \in Nat
    BY LenProperties DEF Ahead
  <2>3. QED
    BY <2>1, <2>2 DEF Shape
<1>5. n \in 1 .. Len(source)
  <2>1. n \in Nat /\ n <= Len(source) /\ ~ \E m : Shape(a[n], dest, pending, source, n, m)
    BY <1>3
  <2>2. n # 0
    BY <1>4, <2>1
  <2>3. QED
    BY <1>0, <2>1, <2>2
<1>6. PICK m : Shape(a[n - 1], dest, pending, source, n - 1, m)
  <2>1. n - 1 \in Nat /\ n - 1 <= Len(source) /\ ~ (n <= n - 1)
    BY <1>0, <1>5
  <2>2. n - 1 \notin bad
    BY <1>3, <2>1
  <2>3. QED
    BY <2>1, <2>2
<1>7. \E k : Shape(PushOne(a[n - 1], source[n]), dest, pending, source, n, k)
  <2>1. n = 1 => ~ a[n - 1].full
    BY <1>4
  <2>2. QED
    BY <1>5, <1>6, <2>1, ShapeStep
<1>8. QED
  BY <1>1, <1>3, <1>5, <1>7

(* What the callers of push_blocks need of it.                             *)
LEMMA PushedType ==
    ASSUME NEW dest \in Seq(Block), NEW pending \in Seq(Nat), NEW source \in Seq(Par \cup Obj),
           count \in 0 .. MaxBlocks, count < MaxBlocks
    PROVE  LET r == Pushed(dest, pending, source)
           IN  /\ r.dest \in Seq(Block) /\ r.pending \in Seq(Nat)
               /\ source # <<>> => r.pending = <<>>
               /\ r.full \in BOOLEAN /\ r.count \in 0 .. MaxBlocks
               /\ r.full => r.count = MaxBlocks
<1> DEFINE r == Pushed(dest, pending, source)
<1>1. PICK m : Shape(r, dest, pending, source, Len(source), m)
  BY PushedShape
<1>2. source # <<>> => Len(source) # 0
  BY EmptySeq
<1> HIDE DEF r
<1>3. QED
  BY <1>1, <1>2 DEF Shape, r

(***************************************************************************)
(* The types of the blocks, and the cap.                                   *)
(***************************************************************************)
(* flush_paragraph_segment adds a paragraph, or nothing.                   *)
LEMMA FlushType ==
    ASSUME NEW c \in Reading, page \in Nat
    PROVE  LET f == Flush(c)
               p == [type |-> "paragraph", id |-> c.nextId, size |-> 1,
                     texts |-> c.runs, breaks |-> c.pending, page |-> page]
           IN  /\ f \in Reading /\ p \in Par
               /\ f.emitted /\ f.runs = <<>>
               /\ \/ f = c
                  \/ /\ f.local = Append(c.local, p) /\ f.pending = <<>>
                     /\ f.nextId = c.nextId + 1
<1> DEFINE p == [type |-> "paragraph", id |-> c.nextId, size |-> 1,
                 texts |-> c.runs, breaks |-> c.pending, page |-> page]
           f == Flush(c)
<1>1. p \in Par
  BY DEF Reading, Par
<1>2. CASE c.runs = <<>> /\ c.emitted
  BY <1>1, <1>2 DEF Flush
<1>3. CASE ~ (c.runs = <<>> /\ c.emitted)
  <2>1. Append(c.local, p) \in Seq(Par \cup Obj)
    BY <1>1, AppendProperties DEF Reading
  <2>2. <<>> \in Seq(Nat) /\ c.nextId + 1 \in Nat
    BY EmptySeq DEF Reading
  <2> HIDE DEF p
  <2>3. f = [c EXCEPT !.local = Append(c.local, p), !.runs = <<>>,
                      !.pending = <<>>, !.nextId = c.nextId + 1, !.emitted = TRUE]
    BY <1>3 DEF Flush, p
  <2> HIDE DEF f
  <2>4. f \in Reading
    BY <2>1, <2>2, <2>3 DEF Reading
  <2>5. /\ f.local = Append(c.local, p) /\ f.runs = <<>> /\ f.pending = <<>>
        /\ f.nextId = c.nextId + 1 /\ f.emitted
    BY <2>3 DEF Reading
  <2>6. QED
    BY <1>1, <2>4, <2>5 DEF p, f
<1>4. QED
  BY <1>2, <1>3

(* A document starts with no block.                                        *)
LEMMA BlockInvInit == Init => BlockInv
<1> SUFFICES ASSUME Init PROVE BlockInv
  OBVIOUS
<1>1. ASSUME NEW S PROVE <<>> \in Seq(S)
  BY EmptySeq
<1>2. /\ cur = [local |-> <<>>, runs |-> <<>>, emitted |-> FALSE, pending |-> <<>>, nextId |-> 0]
      /\ cur \in Reading
  BY <1>1 DEF Fresh, Reading, Init
<1>3. /\ blocks \in Seq(Block) /\ refs \in Seq(Nat)
      /\ sections \in Seq([blocks : Seq(Block), refs : Seq(Nat)])
      /\ src \in Seq([is : Kinds, page : Nat])
  BY <1>1 DEF Init
<1>4. /\ mode \in {"flow", "para", "notes", "done"} /\ mode = "flow" /\ noted \in Nat \ {0}
      /\ page \in Nat /\ warned = FALSE /\ count = 0 /\ count \in 0 .. MaxBlocks
  BY DocxAssumption DEF Init
<1>5. QED
  BY <1>2, <1>3, <1>4 DEF BlockInv

\* The history goes on.
LEMMA ReadsType ==
    ASSUME NEW kind \in Kinds, Reads(kind), src \in Seq([is : Kinds, page : Nat]), page \in Nat
    PROVE  /\ src' \in Seq([is : Kinds, page : Nat])
           /\ Len(src) \in Nat /\ Here \in Nat /\ Len(src') = Here
           /\ src'[Here] = [is |-> kind, page |-> page]
           /\ \A i \in 1 .. Len(src) : src'[i] = src[i]
  BY AppendProperties, LenProperties DEF Reads, Here

LEMMA FreshType ==
    ASSUME NEW pending \in Seq(Nat), NEW nextId \in Nat
    PROVE  /\ Fresh(pending, nextId) \in Reading
           /\ Fresh(pending, nextId).local = <<>> /\ Fresh(pending, nextId).runs = <<>>
           /\ Fresh(pending, nextId).pending = pending
           /\ Fresh(pending, nextId).nextId = nextId
           /\ ~ Fresh(pending, nextId).emitted
<1>1. ASSUME NEW S PROVE <<>> \in Seq(S)
  BY EmptySeq
<1>2. QED
  BY <1>1 DEF Fresh, Reading

(* An image, a textbox or a table is a block.                              *)
LEMMA ObjectType ==
    ASSUME NEW id \in Nat, NEW size \in 1 .. 2, src \in Seq([is : Kinds, page : Nat])
    PROVE  Object(id, size) \in Obj /\ Object(id, size).id = id /\ Object(id, size).size = size
<1>1. Len(src) \in Nat
  BY LenProperties
<1>2. Here \in Nat /\ size \in Nat \ {0}
  BY <1>1 DEF Here
<1>3. QED
  BY <1>2 DEF Object, Obj

\* The section that is closed.
LEMMA CloseType ==
    ASSUME NEW bs \in Seq(Block), NEW pending \in Seq(Nat), CloseSection(bs, pending),
           sections \in Seq([blocks : Seq(Block), refs : Seq(Nat)]), refs \in Seq(Nat)
    PROVE  /\ sections' \in Seq([blocks : Seq(Block), refs : Seq(Nat)])
           /\ Len(sections) \in Nat /\ Len(sections') = Len(sections) + 1
           /\ \A k \in 1 .. Len(sections) : sections'[k] = sections[k]
           /\ sections'[Len(sections) + 1] = [blocks |-> Append(bs, SectionBreak), refs |-> refs]
           /\ blocks' = <<>> /\ blocks' \in Seq(Block)
           /\ refs' = <<>> /\ refs' \in Seq(Nat)
           /\ cur' = Fresh(pending, 0) /\ cur' \in Reading
           /\ cur'.local = <<>> /\ cur'.runs = <<>> /\ cur'.pending = pending /\ cur'.nextId = 0
<1>1. SectionBreak \in Block
  BY DEF SectionBreak, Block, Brk
<1>2. Append(bs, SectionBreak) \in Seq(Block)
  BY <1>1, AppendProperties
<1> DEFINE last == [blocks |-> Append(bs, SectionBreak), refs |-> refs]
           S == [blocks : Seq(Block), refs : Seq(Nat)]
<1>3. last \in S /\ sections' = Append(sections, last)
  BY <1>2 DEF CloseSection
<1> HIDE DEF last, S
<1>4. /\ sections' \in Seq(S) /\ Len(sections) \in Nat /\ Len(sections') = Len(sections) + 1
      /\ \A k \in 1 .. Len(sections) : sections'[k] = sections[k]
      /\ sections'[Len(sections) + 1] = last
  BY <1>3, AppendProperties, LenProperties DEF S
<1>5. <<>> \in Seq(Block) /\ <<>> \in Seq(Nat)
  BY EmptySeq
<1>6. /\ Fresh(pending, 0) \in Reading
      /\ Fresh(pending, 0).local = <<>> /\ Fresh(pending, 0).runs = <<>>
      /\ Fresh(pending, 0).pending = pending /\ Fresh(pending, 0).nextId = 0
  BY FreshType
<1>7. blocks' = <<>> /\ refs' = <<>> /\ cur' = Fresh(pending, 0)
  BY DEF CloseSection
<1> HIDE DEF last, S
<1>8. QED
  BY <1>4, <1>5, <1>6, <1>7 DEF last, S

\* The paragraph with an object.
LEMMA WithObjectType ==
    ASSUME NEW c \in Reading, NEW o \in Par \cup Obj, NEW d,
           d = [c EXCEPT !.local = Append(c.local, o), !.nextId = c.nextId + 1, !.emitted = TRUE]
    PROVE  /\ d \in Reading /\ d.local = Append(c.local, o) /\ d.nextId = c.nextId + 1
           /\ d.emitted /\ d.pending = c.pending /\ d.runs = c.runs
<1>1. Append(c.local, o) \in Seq(Par \cup Obj) /\ c.nextId + 1 \in Nat
  BY AppendProperties DEF Reading
<1> DEFINE l == Append(c.local, o)
           n == c.nextId + 1
<1>2. d = [c EXCEPT !.local = l, !.nextId = n, !.emitted = TRUE]
  OBVIOUS
<1>3. l \in Seq(Par \cup Obj) /\ n \in Nat
  BY <1>1
<1> HIDE DEF l, n
<1>4. d \in Reading /\ d.local = l /\ d.nextId = n /\ d.emitted /\ d.pending = c.pending /\ d.runs = c.runs
  BY <1>2, <1>3 DEF Reading
<1>5. QED
  BY <1>4 DEF l, n

(* The blocks of a note are those of its story, and perhaps a break.       *)
LEMMA NoteBlocksType ==
    ASSUME NEW base \in Nat, NEW n \in {0, 2}, NEW brk \in BOOLEAN
    PROVE  LET bs == NoteBlocks(base, n, brk)
           IN  /\ bs \in Seq(Block) /\ Len(bs) \in Nat
               /\ \A i \in 1 .. Len(bs) :
                     \/ i \in 1 .. n /\ bs[i] = [type |-> "paragraph", id |-> base + i - 1, size |-> 1,
                                               texts |-> <<>>, breaks |-> <<>>, page |-> 0]
                     \/ bs[i] = SectionBreak
<1> DEFINE p == [i \in 1 .. n |-> [type |-> "paragraph", id |-> base + i - 1, size |-> 1,
                                  texts |-> <<>>, breaks |-> <<>>, page |-> 0]]
           b == IF brk THEN <<SectionBreak>> ELSE <<>>
           bs == p \o b
<1>1. SectionBreak \in Block
  BY DEF SectionBreak, Block, Brk
<1>2. b \in Seq(Block) /\ Len(b) \in 0 .. 1 /\ (Len(b) = 1 => b[1] = SectionBreak)
  BY <1>1, EmptySeq
<1>3. p \in Seq(Block) /\ Len(p) = n
  <2>1. <<>> \in Seq(Nat)
    BY EmptySeq
  <2>2. \A i \in 1 .. n : p[i] \in Block
    BY <2>1 DEF Block, Par
  <2>3. p \in [1 .. n -> Block] /\ n \in Nat
    BY <2>2
  <2> HIDE DEF p
  <2>4. QED
    BY <2>3
<1> HIDE DEF b
<1>4. /\ bs \in Seq(Block) /\ Len(bs) = n + Len(b)
      /\ \A i \in 1 .. n + Len(b) : bs[i] = IF i <= n THEN p[i] ELSE b[i - n]
  <2> HIDE DEF p
  <2>1. QED
    BY <1>2, <1>3, ConcatProperties
<1>5. \A i \in 1 .. n : p[i] = [type |-> "paragraph", id |-> base + i - 1, size |-> 1,
                              texts |-> <<>>, breaks |-> <<>>, page |-> 0]
  OBVIOUS
<1>6. NoteBlocks(base, n, brk) = bs
  BY DEF NoteBlocks, b
<1> HIDE DEF p, bs
<1>7. \A i \in 1 .. Len(bs) : i \in 1 .. n \/ (i = n + 1 /\ Len(b) = 1 /\ i - n = 1)
  BY <1>2, <1>4
<1>8. QED
  BY <1>2, <1>4, <1>5, <1>6, <1>7

LEMMA SectionExcept ==
    ASSUME NEW A, NEW B, NEW x \in [blocks : A, refs : B], NEW e, NEW t
    PROVE  /\ [x EXCEPT !.refs = t] = [blocks |-> x.blocks, refs |-> t]
           /\ [[blocks |-> x.blocks, refs |-> t] EXCEPT !.blocks = e] = [blocks |-> e, refs |-> t]
<1>1. x = [blocks |-> x.blocks, refs |-> x.refs]
  OBVIOUS
<1>2. QED
  BY <1>1

(* A note is written behind its section, and its reference is done.        *)
LEMMA AttachType ==
    ASSUME NEW n \in {0, 2}, NEW b \in BOOLEAN, AttachNote(n, b), noted \in Nat \ {0},
           sections \in Seq([blocks : Seq(Block), refs : Seq(Nat)])
    PROVE  LET bs == NoteBlocks(Len(sections[noted].blocks), n, b)
           IN  /\ noted \in 1 .. Len(sections) /\ Len(sections) \in Nat
               /\ sections[noted] \in [blocks : Seq(Block), refs : Seq(Nat)]
               /\ sections' \in Seq([blocks : Seq(Block), refs : Seq(Nat)])
               /\ Len(sections') = Len(sections)
               /\ \A k \in 1 .. Len(sections) : k # noted => sections'[k] = sections[k]
               /\ sections'[noted].blocks = sections[noted].blocks \o bs
<1> DEFINE sec == sections[noted]
           new == [blocks |-> sec.blocks \o NoteBlocks(NoteBase(sec), n, b), refs |-> Tail(sec.refs)]
<1>1. noted \in 1 .. Len(sections) /\ Len(sections) \in Nat
  BY LenProperties DEF AttachNote
<1>2. sec \in [blocks : Seq(Block), refs : Seq(Nat)] /\ sec.refs # <<>>
  BY <1>1, ElementOfSeq DEF AttachNote
<1> HIDE DEF sec
<1>3. Tail(sec.refs) \in Seq(Nat)
  BY <1>2, HeadTailProperties
<1>4. NoteBase(sec) = Len(sec.blocks) /\ NoteBase(sec) \in Nat
  BY <1>2, LenProperties DEF NoteBase
<1>5. sec.blocks \o NoteBlocks(NoteBase(sec), n, b) \in Seq(Block)
  BY <1>2, <1>4, NoteBlocksType, ConcatProperties
<1>6. sections' = [sections EXCEPT ![noted] = new]
  <2> DEFINE t == Tail(sec.refs)
             e == sec.blocks \o NoteBlocks(NoteBase(sec), n, b)
             half == [sections EXCEPT ![noted] = [blocks |-> sec.blocks, refs |-> t]]
  <2>1. sections' = [sections EXCEPT ![noted].refs = t, ![noted].blocks = e]
    BY DEF AttachNote, sec
  <2> HIDE DEF t, e
  <2>10. /\ [sec EXCEPT !.refs = t] = [blocks |-> sec.blocks, refs |-> t]
         /\ [[blocks |-> sec.blocks, refs |-> t] EXCEPT !.blocks = e] = [blocks |-> e, refs |-> t]
    BY <1>2, SectionExcept
  <2>2. [sections EXCEPT ![noted].refs = t] = half
    BY <2>10, Zenon DEF sec
  <2>3. sections' = [half EXCEPT ![noted].blocks = e]
    BY <2>1, <2>2, Zenon
  <2>4. noted \in DOMAIN sections
    <3>1. DOMAIN sections = 1 .. Len(sections)
      BY LenProperties
    <3>2. QED
      BY <1>1, <3>1
  <2>5. half[noted] = [blocks |-> sec.blocks, refs |-> t]
    BY <2>4
  <2>6. [half[noted] EXCEPT !.blocks = e] = new
    BY <2>5, <2>10, Zenon DEF t, e
  <2> HIDE DEF half, new
  <2>7. sections' = [half EXCEPT ![noted] = new]
    BY <2>3, <2>6, Zenon
  <2>8. [half EXCEPT ![noted] = new] = [sections EXCEPT ![noted] = new]
    BY DEF half
  <2>9. QED
    BY <2>7, <2>8, Zenon
<1>7. new \in [blocks : Seq(Block), refs : Seq(Nat)]
  BY <1>3, <1>5
<1>8. new.blocks = sec.blocks \o NoteBlocks(Len(sec.blocks), n, b)
  BY <1>4
<1> HIDE DEF new
<1>9. /\ sections' \in Seq([blocks : Seq(Block), refs : Seq(Nat)]) /\ Len(sections') = Len(sections)
      /\ \A k \in 1 .. Len(sections) : sections'[k] = IF k = noted THEN new ELSE sections[k]
  BY <1>1, <1>6, <1>7, ExceptSeq
<1>10. QED
  BY <1>1, <1>2, <1>8, <1>9 DEF sec

\* The actions, one by one.
LEMMA Steps ==
    ASSUME [Next]_vars
    PROVE  \/ Text \/ FieldBegin \/ FieldSeparate \/ FieldEnd \/ Break \/ PageHint \/ Note
           \/ \E size \in 1 .. 2, hints \in Nat, shape \in BOOLEAN : Drawing(size, hints, shape)
           \/ \E b \in BOOLEAN : StartParagraph(b)
           \/ \E b \in BOOLEAN : EndParagraph(b)
           \/ \E b \in BOOLEAN : Skip(b)
           \/ \E size \in 1 .. 2, hints \in Nat : Table(size, hints)
           \/ Finish
           \/ \E n \in {0, 2}, b \in BOOLEAN : AttachNote(n, b)
           \/ NextSection
           \/ UNCHANGED vars
<1>1. CASE \E size \in 1 .. 2 : Drawing(size, size - 1, FALSE)
  <2>1. PICK size \in 1 .. 2 : Drawing(size, size - 1, FALSE)
    BY <1>1
  <2>2. size - 1 \in Nat /\ FALSE \in BOOLEAN
    BY <2>1
  <2>3. QED
    BY <2>1, <2>2
<1>2. CASE Drawing(1, 0, TRUE)
  <2>1. 1 \in 1 .. 2 /\ 0 \in Nat /\ TRUE \in BOOLEAN
    OBVIOUS
  <2>2. QED
    BY <1>2, <2>1
<1>3. CASE \E size \in 1 .. 2 : Table(size, size - 1)
  <2>1. PICK size \in 1 .. 2 : Table(size, size - 1)
    BY <1>3
  <2>2. size - 1 \in Nat
    BY <2>1
  <2>3. QED
    BY <2>1, <2>2
<1>4. CASE Notes
  BY <1>4 DEF Notes
<1>5. CASE Done \/ UNCHANGED vars
  BY <1>5 DEF Done
<1>6. CASE Inline /\ ~ (\E size \in 1 .. 2 : Drawing(size, size - 1, FALSE)) /\ ~ Drawing(1, 0, TRUE)
  BY <1>6 DEF Inline
<1>7. CASE Flow /\ ~ \E size \in 1 .. 2 : Table(size, size - 1)
  BY <1>7, Zenon DEF Flow
<1>8. QED
  BY <1>1, <1>2, <1>3, <1>4, <1>5, <1>6, <1>7 DEF Next

(* A paragraph is read only below the cap; a warning means the cap.        *)
LEMMA BlockInvNext == BlockInv /\ [Next]_vars => BlockInv'
<1> SUFFICES ASSUME BlockInv, [Next]_vars PROVE BlockInv'
  OBVIOUS
<1>a. /\ mode \in {"flow", "para", "notes", "done"}
      /\ cur \in Reading
      /\ blocks \in Seq(Block) /\ refs \in Seq(Nat)
      /\ sections \in Seq([blocks : Seq(Block), refs : Seq(Nat)])
      /\ noted \in Nat \ {0}
      /\ src \in Seq([is : Kinds, page : Nat])
      /\ page \in Nat /\ warned \in BOOLEAN
      /\ count \in 0 .. MaxBlocks
      /\ mode = "para" => count < MaxBlocks
      /\ mode # "para" => cur.local = <<>> /\ cur.runs = <<>>
      /\ mode \in {"notes", "done"} => blocks = <<>> /\ cur.pending = <<>>
      /\ warned => count = MaxBlocks
  BY DEF BlockInv
<1>b. /\ cur.local \in Seq(Par \cup Obj) /\ cur.runs \in Seq(Nat) /\ cur.pending \in Seq(Nat)
      /\ cur.nextId \in Nat /\ cur.emitted \in BOOLEAN
  BY <1>a DEF Reading
<1>c. Len(src) \in Nat /\ Here \in Nat
  BY <1>a, LenProperties DEF Here
\* In a paragraph the runs, the segments and the references change.
<1>d. ASSUME mode = "para", mode' = mode, UNCHANGED <<story, blocks, sections, noted>>,
             cur' \in Reading, refs' \in Seq(Nat), src' \in Seq([is : Kinds, page : Nat]), page' \in Nat
      PROVE  BlockInv'
  BY <1>a, <1>d DEF BlockInv, story
<1>1. CASE Text
  <2>1. \A k \in {"code", "deep", "text"} : k \in Kinds
    BY DEF Kinds
  <2>2. src' \in Seq([is : Kinds, page : Nat])
    BY <1>1, <1>a, <2>1, ReadsType DEF Text
  <2>3. Append(cur.runs, Here) \in Seq(Nat)
    BY <1>b, <1>c, AppendProperties
  <2>4. cur' \in Reading
    BY <1>1, <1>a, <2>3 DEF Text, Reading
  <2>5. QED
    BY <1>1, <1>a, <1>d, <2>2, <2>4 DEF Text, out
<1>2. CASE FieldBegin \/ FieldSeparate \/ FieldEnd
  BY <1>2, <1>a, <1>d DEF FieldBegin, FieldSeparate, FieldEnd, out
<1>3. CASE Break
  <2>1. src' \in Seq([is : Kinds, page : Nat])
    BY <1>3, <1>a, ReadsType DEF Break, Kinds
  <2>2. Segmented \in Reading
    BY <1>a, FlushType DEF Segmented
  <2>3. Append(Segmented.pending, Here) \in Seq(Nat)
    BY <2>2, <1>c, AppendProperties DEF Reading
  <2>4. cur' \in Reading
    BY <1>3, <2>2, <2>3 DEF Break, Reading
  <2>5. QED
    BY <1>3, <1>a, <1>d, <2>1, <2>4 DEF Break, out
<1>4. CASE PageHint
  <2>1. Segmented \in Reading
    BY <1>a, FlushType DEF Segmented
  <2>2. QED
    BY <1>4, <1>a, <1>d, <2>1 DEF PageHint, out
<1>5. CASE Note
  <2>1. refs' \in Seq(Nat)
    BY <1>5, <1>a, <1>b, AppendProperties DEF Note
  <2>2. QED
    BY <1>5, <1>a, <1>d, <2>1 DEF Note
<1>6. ASSUME NEW size \in 1 .. 2, NEW hints \in Nat, NEW shape \in BOOLEAN, Drawing(size, hints, shape)
      PROVE  BlockInv'
  <2> DEFINE c == IF cur.runs # <<>> THEN Flush(cur) ELSE cur
  <2>1. c \in Reading
    BY <1>a, FlushType
  <2>2. CASE shape
    BY <1>6, <1>a, <1>d, <2>1, <2>2 DEF Drawing, out
  <2>3. CASE ~ shape
    <3> HIDE DEF c
    <3>1. /\ Reads("object") /\ page' = page + hints
          /\ cur' = [c EXCEPT !.local = Append(c.local, Object(c.nextId, size)),
                              !.nextId = c.nextId + 1, !.emitted = TRUE]
      BY <1>6, <2>3 DEF Drawing, c
    <3>2. src' \in Seq([is : Kinds, page : Nat]) /\ page' \in Nat
      BY <1>a, <3>1, ReadsType DEF Kinds
    <3>3. c.nextId \in Nat /\ c.local \in Seq(Par \cup Obj)
      BY <2>1 DEF Reading
    <3>4. Object(c.nextId, size) \in Par \cup Obj
      BY <1>a, <3>3, ObjectType
    <3>5. cur' \in Reading
      BY <2>1, <3>1, <3>4, WithObjectType
    <3>6. QED
      BY <1>6, <1>a, <1>d, <3>2, <3>5 DEF Drawing, out
  <2>4. QED
    BY <2>2, <2>3
<1>7. ASSUME NEW b \in BOOLEAN, StartParagraph(b)
      PROVE  BlockInv'
  <2>1. src' \in Seq([is : Kinds, page : Nat])
    BY <1>7, <1>a, ReadsType DEF StartParagraph, Kinds
  <2>2. Append(cur.pending, Here) \in Seq(Nat)
    BY <1>b, <1>c, AppendProperties
  <2>3. cur' \in Reading
    BY <1>7, <1>b, <2>2, FreshType DEF StartParagraph
  <2>4. QED
    BY <1>7, <1>a, <2>1, <2>3 DEF StartParagraph, BlockInv, story, out
<1>8. ASSUME NEW b \in BOOLEAN, EndParagraph(b)
      PROVE  BlockInv'
  <2> DEFINE c == IF cur.runs # <<>> \/ ~ cur.emitted THEN Flush(cur) ELSE cur
             s == Pushed(blocks, c.pending, c.local)
  <2>0. mode = "para" /\ mode' = "flow" /\ count < MaxBlocks
    BY <1>8, <1>a DEF EndParagraph
  <2>1. /\ c \in Reading /\ c.pending \in Seq(Nat) /\ c.local \in Seq(Par \cup Obj) /\ c.nextId \in Nat
    BY <1>a, FlushType DEF Reading
  <2> HIDE DEF c
  <2>2. /\ s.dest \in Seq(Block) /\ s.pending \in Seq(Nat)
        /\ s.full \in BOOLEAN /\ s.count \in 0 .. MaxBlocks
        /\ s.full => s.count = MaxBlocks
    BY <1>a, <2>0, <2>1, PushedType
  <2> HIDE DEF s
  <2>3. /\ count' = s.count /\ warned' = (warned \/ s.full)
        /\ IF b THEN CloseSection(s.dest, s.pending)
           ELSE blocks' = s.dest /\ cur' = Fresh(s.pending, c.nextId) /\ UNCHANGED <<refs, sections>>
        /\ UNCHANGED <<page, noted, src>>
    BY <1>8 DEF EndParagraph, c, s
  <2>4. /\ cur' \in Reading /\ cur'.local = <<>> /\ cur'.runs = <<>>
        /\ blocks' \in Seq(Block) /\ refs' \in Seq(Nat)
        /\ sections' \in Seq([blocks : Seq(Block), refs : Seq(Nat)])
    <3>1. CASE b
      <4>1. CloseSection(s.dest, s.pending)
        BY <2>3, <3>1
      <4>2. QED
        BY <1>a, <2>2, <4>1, CloseType
    <3>2. CASE ~ b
      BY <1>a, <2>1, <2>2, <2>3, <3>2, FreshType
    <3>3. QED
      BY <3>1, <3>2
  <2>5. warned' \in BOOLEAN /\ count' \in 0 .. MaxBlocks /\ (warned' => count' = MaxBlocks)
    BY <1>a, <2>0, <2>2, <2>3, DocxAssumption
  <2>6. QED
    BY <1>a, <2>0, <2>3, <2>4, <2>5 DEF BlockInv
<1>9. ASSUME NEW b \in BOOLEAN, Skip(b)
      PROVE  BlockInv'
  <2>1. src' \in Seq([is : Kinds, page : Nat])
    BY <1>9, <1>a, ReadsType DEF Skip, Kinds
  <2>2. mode = "flow" /\ mode' = "flow" /\ count = MaxBlocks /\ warned' = TRUE
        /\ UNCHANGED <<count, page, noted>>
    BY <1>9, <1>a, DocxAssumption DEF Skip
  <2>3. /\ cur' \in Reading /\ cur'.local = <<>> /\ cur'.runs = <<>>
        /\ blocks' \in Seq(Block) /\ refs' \in Seq(Nat)
        /\ sections' \in Seq([blocks : Seq(Block), refs : Seq(Nat)])
    <3>1. CASE b
      <4>1. CloseSection(blocks, cur.pending)
        BY <1>9, <3>1 DEF Skip
      <4>2. QED
        BY <1>a, <1>b, <4>1, CloseType
    <3>2. CASE ~ b
      BY <1>9, <1>a, <2>2, <3>2 DEF Skip
    <3>3. QED
      BY <3>1, <3>2
  <2>4. QED
    BY <1>a, <2>1, <2>2, <2>3 DEF BlockInv
<1>10. ASSUME NEW size \in 1 .. 2, NEW hints \in Nat, Table(size, hints)
       PROVE  BlockInv'
  <2> DEFINE o == Object(cur.nextId, size)
             s == Pushed(blocks, cur.pending, <<o>>)
  <2>0. mode = "flow" /\ mode' = "flow" /\ count < MaxBlocks /\ page' = page + hints
    BY <1>10, <1>a DEF Table
  <2>1. <<o>> \in Seq(Par \cup Obj)
    BY <1>a, <1>b, ObjectType
  <2> HIDE DEF o
  <2>2. /\ s.dest \in Seq(Block) /\ s.pending \in Seq(Nat)
        /\ s.full \in BOOLEAN /\ s.count \in 0 .. MaxBlocks
        /\ s.full => s.count = MaxBlocks
    BY <1>a, <1>b, <2>0, <2>1, PushedType
  <2> HIDE DEF s
  <2>3. /\ count' = s.count /\ warned' = (warned \/ s.full)
        /\ blocks' = s.dest /\ cur' = Fresh(s.pending, cur.nextId + 1)
        /\ UNCHANGED <<refs, sections, noted>>
    BY <1>10 DEF Table, s, o
  <2>4. cur' \in Reading /\ cur'.local = <<>> /\ cur'.runs = <<>>
    <3>1. cur.nextId + 1 \in Nat
      BY <1>b
    <3>2. QED
      BY <2>2, <2>3, <3>1, FreshType
  <2>5. src' \in Seq([is : Kinds, page : Nat])
    BY <1>10, <1>a, ReadsType DEF Table, Kinds
  <2>6. warned' \in BOOLEAN /\ count' \in 0 .. MaxBlocks /\ (warned' => count' = MaxBlocks)
    BY <1>a, <2>0, <2>2, <2>3, DocxAssumption
  <2>7. QED
    BY <1>a, <2>0, <2>2, <2>3, <2>4, <2>5, <2>6 DEF BlockInv
<1>11. CASE Finish
  <2>1. mode' = "notes" /\ blocks' = <<>> /\ refs' = <<>> /\ cur' = Fresh(<<>>, 0)
        /\ UNCHANGED <<count, warned, page, noted, src>>
    BY <1>11 DEF Finish, story
  <2>2. <<>> \in Seq(Block) /\ <<>> \in Seq(Nat)
    BY EmptySeq
  <2>3. /\ cur' \in Reading /\ cur'.local = <<>> /\ cur'.runs = <<>> /\ cur'.pending = <<>>
    BY <2>1, <2>2, FreshType
  <2> DEFINE last == [blocks |-> blocks \o BreakBlocks(cur.pending), refs |-> refs]
  <2>4. blocks \o BreakBlocks(cur.pending) \in Seq(Block)
    BY <1>a, <1>b, BreakBlocksType, ConcatProperties
  <2>5. last \in [blocks : Seq(Block), refs : Seq(Nat)]
    BY <1>a, <2>4
  <2>6. sections' = Append(sections, last)
    BY <1>11 DEF Finish
  <2> HIDE DEF last
  <2>7. sections' \in Seq([blocks : Seq(Block), refs : Seq(Nat)])
    BY <1>a, <2>5, <2>6, AppendProperties
  <2>8. QED
    BY <1>a, <2>1, <2>2, <2>3, <2>7 DEF BlockInv
<1>12. ASSUME NEW n \in {0, 2}, NEW b \in BOOLEAN, AttachNote(n, b)
       PROVE  BlockInv'
  <2>1. sections' \in Seq([blocks : Seq(Block), refs : Seq(Nat)])
    BY <1>12, <1>a, AttachType
  <2>2. QED
    BY <1>12, <1>a, <2>1 DEF AttachNote, BlockInv, story
<1>13. CASE NextSection
  BY <1>13, <1>a DEF NextSection, BlockInv, story
<1>14. CASE UNCHANGED vars
  BY <1>14, <1>a DEF vars, BlockInv, story, out
<1>15. QED
  BY <1>1, <1>2, <1>3, <1>4, <1>5, <1>6, <1>7, <1>8, <1>9, <1>10, <1>11, <1>12, <1>13, <1>14, Steps

(* The blocks and the cap are as they should be, at every limit.           *)
LEMMA BlocksAlways == Spec => []BlockInv
<1> QED  BY BlockInvInit, BlockInvNext, PTL DEF Spec

(***************************************************************************)
(* Pages.                                                                  *)
(***************************************************************************)
\* A document and what it grew from.
Grown(d, e) == Len(d) \in Nat /\ Len(e) \in Nat /\ Len(d) <= Len(e) /\ \A i \in 1 .. Len(d) : e[i] = d[i]

LEMMA ReadsGrow ==
    ASSUME src \in Seq([is : Kinds, page : Nat])
    PROVE  /\ Grown(src, src)
           /\ \A kind \in Kinds : Reads(kind) => Grown(src, src')
<1>1. Len(src) \in Nat
  BY LenProperties
<1>2. ASSUME NEW kind \in Kinds, Reads(kind) PROVE Grown(src, src')
  <2>1. src' = Append(src, [is |-> kind, page |-> page])
    BY <1>2 DEF Reads
  <2>2. Len(src') = Len(src) + 1 /\ \A i \in 1 .. Len(src) : src'[i] = src[i]
    BY <2>1
  <2>3. QED
    BY <1>1, <2>2 DEF Grown
<1>3. QED
  BY <1>1, <1>2 DEF Grown

LEMMA PagesGrow ==
    ASSUME NEW d, NEW e, Grown(d, e)
    PROVE  /\ \A p, n : OnPage(d, p, n) => OnPage(e, p, n)
           /\ \A bs : OnPages(d, bs) => OnPages(e, bs)
<1>1. \A p, n : OnPage(d, p, n) => OnPage(e, p, n)
  BY DEF Grown, OnPage
<1>2. QED
  BY <1>1 DEF OnPages

\* A block has no text, or its texts are those of a block on their page.
LEMMA PagesAppend ==
    ASSUME NEW d, NEW S, NEW bs \in Seq(S), NEW b \in S, OnPages(d, bs),
           \A k \in 1 .. Len(TextsOf(b)) : OnPage(d, TextsOf(b)[k], b.page)
    PROVE  OnPages(d, Append(bs, b))
<1> DEFINE cs == Append(bs, b)
<1>1. /\ Len(bs) \in Nat /\ Len(cs) = Len(bs) + 1 /\ cs[Len(bs) + 1] = b
      /\ \A i \in 1 .. Len(bs) : cs[i] = bs[i]
  BY AppendProperties, LenProperties
<1> HIDE DEF cs
<1>2. ASSUME NEW i \in 1 .. Len(cs), NEW k \in 1 .. Len(TextsOf(cs[i]))
      PROVE  OnPage(d, TextsOf(cs[i])[k], cs[i].page)
  <2>1. CASE i \in 1 .. Len(bs)
    BY <1>1, <1>2, <2>1 DEF OnPages
  <2>2. CASE i = Len(bs) + 1
    BY <1>1, <1>2, <2>2
  <2>3. QED
    BY <1>1, <2>1, <2>2
<1>3. QED
  BY <1>2 DEF OnPages, cs

LEMMA PagesConcat ==
    ASSUME NEW d, NEW S, NEW bs \in Seq(S), NEW cs \in Seq(S), OnPages(d, bs), OnPages(d, cs)
    PROVE  OnPages(d, bs \o cs)
<1> DEFINE ds == bs \o cs
<1>1. /\ Len(bs) \in Nat /\ Len(cs) \in Nat /\ Len(ds) = Len(bs) + Len(cs)
      /\ \A i \in 1 .. Len(bs) + Len(cs) : ds[i] = IF i <= Len(bs) THEN bs[i] ELSE cs[i - Len(bs)]
  BY ConcatProperties, LenProperties
<1> HIDE DEF ds
<1>2. ASSUME NEW i \in 1 .. Len(ds), NEW k \in 1 .. Len(TextsOf(ds[i]))
      PROVE  OnPage(d, TextsOf(ds[i])[k], ds[i].page)
  <2>1. CASE i <= Len(bs)
    <3>1. i \in 1 .. Len(bs) /\ ds[i] = bs[i]
      BY <1>1, <1>2, <2>1
    <3>2. QED
      BY <1>2, <3>1 DEF OnPages
  <2>2. CASE ~ i <= Len(bs)
    <3>1. i - Len(bs) \in 1 .. Len(cs) /\ ds[i] = cs[i - Len(bs)]
      BY <1>1, <1>2, <2>2
    <3>2. QED
      BY <1>2, <3>1 DEF OnPages
  <2>3. QED
    BY <2>1, <2>2
<1>3. QED
  BY <1>2 DEF OnPages, ds

LEMMA BreaksHaveNoText ==
    /\ TextsOf(SectionBreak) = <<>>
    /\ \A n : TextsOf([type |-> "break", at |-> n]) = <<>>
    /\ \A o \in Obj : TextsOf(o) = <<>>
    /\ \A d : \A pending \in Seq(Nat) : OnPages(d, BreakBlocks(pending))
  BY DEF SectionBreak, TextsOf, Obj, OnPages, BreakBlocks

\* push_blocks keeps the type, the id, the texts and the page of a block.
LEMMA WrittenType ==
    ASSUME NEW pending \in Seq(Nat), NEW source \in Seq(Par \cup Obj), NEW i \in 1 .. Len(source)
    PROVE  LET b == Written(pending, source, i)
           IN  /\ b \in Par \cup Obj /\ source[i] \in Par \cup Obj
               /\ b.type = source[i].type /\ b.id = source[i].id /\ b.size = source[i].size
               /\ TextsOf(b) = TextsOf(source[i])
               /\ b.type = "paragraph" => b.page = source[i].page
<1>1. source[i] \in Par \cup Obj
  BY ElementOfSeq
<1>2. CASE i = 1
  <2>1. Written(pending, source, i) = WithBreaks(source[i], pending)
    BY <1>2 DEF Written
  <2>2. CASE source[i] \in Par
    <3>1. source[i].type = "paragraph"
      BY <2>2 DEF Par
    <3>2. QED
      BY <1>1, <2>1, <2>2, <3>1, WithBreaksType DEF TextsOf
  <2>3. CASE source[i] \in Obj
    <3>1. Written(pending, source, i) = source[i] /\ source[i].type # "paragraph"
      BY <1>1, <2>1, <2>3, WithBreaksType DEF Obj
    <3>2. QED
      BY <1>1, <3>1 DEF TextsOf
  <2>4. QED
    BY <1>1, <2>2, <2>3
<1>3. CASE i # 1
  BY <1>1, <1>3 DEF Written
<1>4. QED
  BY <1>2, <1>3

\* Where a block of the section was before push_blocks: in the section, in
\* pending, or in source; m blocks of source are written.
Parted(bs, dest, pending, source, ahead, m) ==
    /\ bs \in Seq(Block) /\ Len(dest) \in Nat /\ ahead \in Nat /\ m \in 0 .. Len(source)
    /\ Len(bs) = Len(dest) + ahead + m
    /\ ahead = Ahead(pending, source, Len(source))
    /\ \A i \in 1 .. Len(dest) : bs[i] = dest[i]
    /\ \A i \in 1 .. ahead : bs[Len(dest) + i] = [type |-> "break", at |-> pending[i]]
    /\ \A i \in 1 .. m : bs[Len(dest) + ahead + i] = Written(pending, source, i)

LEMMA PushedParts ==
    ASSUME NEW dest \in Seq(Block), NEW pending \in Seq(Nat), NEW source \in Seq(Par \cup Obj),
           count \in 0 .. MaxBlocks, count < MaxBlocks
    PROVE  \E ahead, m :
               LET r == Pushed(dest, pending, source)
               IN  /\ Parted(r.dest, dest, pending, source, ahead, m)
                   /\ r.full => r.count = MaxBlocks
                   /\ ~ r.full => m = Len(source)
<1> DEFINE r == Pushed(dest, pending, source)
           ahead == Ahead(pending, source, Len(source))
<1>1. PICK m : Shape(r, dest, pending, source, Len(source), m)
  BY PushedShape
<1>2. Len(dest) \in Nat /\ Len(pending) \in Nat /\ Len(source) \in Nat
  BY LenProperties
<1>3. ahead \in Nat
  BY <1>2 DEF Ahead, AheadOf
<1> HIDE DEF r
<1>4. Parted(r.dest, dest, pending, source, ahead, m)
  BY <1>1, <1>2, <1>3 DEF Shape, Parted
<1>5. (r.full => r.count = MaxBlocks) /\ (~ r.full => m = Len(source))
  BY <1>1 DEF Shape
<1>6. QED
  BY <1>4, <1>5 DEF r

Origin(bs, i, dest, pending, source, ahead, m) ==
    \/ i \in 1 .. Len(dest) /\ bs[i] = dest[i]
    \/ \E k \in 1 .. ahead : i = Len(dest) + k /\ bs[i] = [type |-> "break", at |-> pending[k]]
    \/ \E k \in 1 .. m : i = Len(dest) + ahead + k /\ k \in 1 .. Len(source)
                         /\ bs[i] = Written(pending, source, k)

LEMMA PartedCases ==
    ASSUME NEW bs, NEW dest, NEW pending, NEW source, NEW ahead, NEW m, Len(source) \in Nat,
           Parted(bs, dest, pending, source, ahead, m), NEW i \in 1 .. Len(bs)
    PROVE  Origin(bs, i, dest, pending, source, ahead, m)
<1>0. /\ Len(dest) \in Nat /\ ahead \in Nat /\ m \in 0 .. Len(source)
      /\ Len(bs) = Len(dest) + ahead + m
  BY DEF Parted
<1>1. CASE i <= Len(dest)
  BY <1>0, <1>1 DEF Parted, Origin
<1>2. CASE Len(dest) < i /\ i <= Len(dest) + ahead
  <2>1. i - Len(dest) \in 1 .. ahead /\ i = Len(dest) + (i - Len(dest))
    BY <1>0, <1>2
  <2>2. QED
    BY <2>1 DEF Parted, Origin
<1>3. CASE Len(dest) + ahead < i
  <2> DEFINE k == i - Len(dest) - ahead
  <2>1. k \in 1 .. m /\ i = Len(dest) + ahead + k /\ k \in 1 .. Len(source)
    BY <1>0, <1>3
  <2> HIDE DEF k
  <2>2. QED
    BY <2>1 DEF Parted, Origin
<1>4. QED
  BY <1>0, <1>1, <1>2, <1>3

LEMMA PagesPushed ==
    ASSUME NEW d, NEW dest \in Seq(Block), NEW pending \in Seq(Nat), NEW source \in Seq(Par \cup Obj),
           count \in 0 .. MaxBlocks, count < MaxBlocks, OnPages(d, dest), OnPages(d, source)
    PROVE  OnPages(d, Pushed(dest, pending, source).dest)
<1> DEFINE bs == Pushed(dest, pending, source).dest
<1>1. PICK ahead, m : Parted(bs, dest, pending, source, ahead, m)
  BY PushedParts
<1>2. Len(source) \in Nat
  BY LenProperties
<1> HIDE DEF bs
<1>3. ASSUME NEW i \in 1 .. Len(bs), NEW k \in 1 .. Len(TextsOf(bs[i]))
      PROVE  OnPage(d, TextsOf(bs[i])[k], bs[i].page)
  <2>1. CASE i \in 1 .. Len(dest) /\ bs[i] = dest[i]
    BY <1>3, <2>1 DEF OnPages
  <2>2. ASSUME NEW n \in 1 .. ahead, bs[i] = [type |-> "break", at |-> pending[n]]
        PROVE  OnPage(d, TextsOf(bs[i])[k], bs[i].page)
    <3>1. TextsOf(bs[i]) = <<>>
      BY <2>2, BreaksHaveNoText
    <3>2. QED
      BY <1>3, <3>1
  <2>3. ASSUME NEW n \in 1 .. Len(source), bs[i] = Written(pending, source, n)
        PROVE  OnPage(d, TextsOf(bs[i])[k], bs[i].page)
    <3>1. /\ bs[i].type = source[n].type /\ TextsOf(bs[i]) = TextsOf(source[n])
          /\ bs[i].type = "paragraph" => bs[i].page = source[n].page
      BY <2>3, WrittenType
    <3>2. bs[i].type = "paragraph"
      BY <1>3 DEF TextsOf
    <3>3. QED
      BY <1>3, <3>1, <3>2 DEF OnPages
  <2>4. Origin(bs, i, dest, pending, source, ahead, m)
    BY <1>1, <1>2, PartedCases
  <2>5. QED
    BY <2>1, <2>2, <2>3, <2>4 DEF Origin
<1>4. QED
  BY <1>3 DEF OnPages, bs

\* What waits of a paragraph, at page n of the document d.
Waits(c, d, n) == OnPages(d, c.local) /\ \A i \in 1 .. Len(c.runs) : OnPage(d, c.runs[i], n)

LEMMA PagesFlushed ==
    ASSUME NEW c \in Reading, NEW d, page \in Nat, Waits(c, d, page)
    PROVE  \A n : Waits(Flush(c), d, n)
<1> DEFINE f == Flush(c)
           p == [type |-> "paragraph", id |-> c.nextId, size |-> 1,
                 texts |-> c.runs, breaks |-> c.pending, page |-> page]
<1>1. /\ f.runs = <<>> /\ p \in Par
      /\ f = c \/ f.local = Append(c.local, p)
  BY FlushType
<1>2. TextsOf(p) = c.runs /\ p.page = page
  BY DEF TextsOf
<1> HIDE DEF f, p
<1>3. OnPages(d, f.local)
  <2>1. CASE f = c
    BY <2>1 DEF Waits
  <2>2. CASE f.local = Append(c.local, p)
    <3>1. c.local \in Seq(Par \cup Obj) /\ p \in Par \cup Obj /\ OnPages(d, c.local)
      BY <1>1 DEF Waits, Reading
    <3>2. \A k \in 1 .. Len(TextsOf(p)) : OnPage(d, TextsOf(p)[k], p.page)
      BY <1>2 DEF Waits
    <3>3. OnPages(d, Append(c.local, p))
      BY <3>1, <3>2, PagesAppend
    <3>4. QED
      BY <2>2, <3>3
  <2>3. QED
    BY <1>1, <2>1, <2>2
<1>4. QED
  BY <1>1, <1>3 DEF Waits, f

(* Text joins the runs on the page it is on; a hint ends them first.       *)
LEMMA PageInvNext == BlockInv /\ PageInv /\ [Next]_vars => PageInv'
<1> SUFFICES ASSUME BlockInv, PageInv, [Next]_vars PROVE PageInv'
  OBVIOUS
<1>a. /\ cur \in Reading /\ blocks \in Seq(Block) /\ refs \in Seq(Nat)
      /\ sections \in Seq([blocks : Seq(Block), refs : Seq(Nat)])
      /\ noted \in Nat \ {0} /\ src \in Seq([is : Kinds, page : Nat]) /\ page \in Nat
      /\ count \in 0 .. MaxBlocks
      /\ mode = "para" => count < MaxBlocks
  BY DEF BlockInv
<1>b. /\ cur.local \in Seq(Par \cup Obj) /\ cur.runs \in Seq(Nat) /\ cur.pending \in Seq(Nat)
      /\ cur.nextId \in Nat
  BY <1>a DEF Reading
<1>c. /\ Waits(cur, src, page) /\ OnPages(src, blocks)
      /\ \A k \in 1 .. Len(sections) : OnPages(src, sections[k].blocks)
      /\ Grown(src, src) /\ \A d : OnPages(d, <<>>)
  <2>1. Waits(cur, src, page) /\ OnPages(src, blocks)
    BY DEF PageInv, Waits
  <2>2. \A k \in 1 .. Len(sections) : OnPages(src, sections[k].blocks)
    BY DEF PageInv
  <2>3. Grown(src, src)
    BY <1>a, ReadsGrow
  <2>4. \A d : OnPages(d, <<>>)
    BY DEF OnPages
  <2>5. QED
    BY <2>1, <2>2, <2>3, <2>4
\* The blocks that are there already stay on their pages.
<1>d. ASSUME NEW d, Grown(src, d)
      PROVE  /\ Waits(cur, d, page) /\ OnPages(d, blocks)
             /\ \A k \in 1 .. Len(sections) : OnPages(d, sections[k].blocks)
  BY <1>c, <1>d, PagesGrow DEF Waits
\* What the actions leave to show.
<1>e. ASSUME NEW d, d = src', Waits(cur', d, page'), OnPages(d, blocks'),
             \A k \in 1 .. Len(sections') : OnPages(d, sections'[k].blocks)
      PROVE  PageInv'
  BY <1>e DEF PageInv, Waits
\* A fresh paragraph has nothing.
<1>f. ASSUME NEW d, NEW n, NEW pending \in Seq(Nat), NEW id \in Nat
      PROVE  Waits(Fresh(pending, id), d, n)
  BY <1>c, FreshType DEF Waits
<1>g. ASSUME NEW d, NEW bs \in Seq(Block), NEW pending \in Seq(Nat), CloseSection(bs, pending),
             Grown(src, d), OnPages(d, bs)
      PROVE  /\ \A n : Waits(cur', d, n)
             /\ OnPages(d, blocks')
             /\ \A k \in 1 .. Len(sections') : OnPages(d, sections'[k].blocks)
  <2>1. /\ Len(sections) \in Nat /\ Len(sections') = Len(sections) + 1
        /\ \A k \in 1 .. Len(sections) : sections'[k] = sections[k]
        /\ sections'[Len(sections) + 1] = [blocks |-> Append(bs, SectionBreak), refs |-> refs]
        /\ blocks' = <<>> /\ cur' = Fresh(pending, 0)
    BY <1>a, <1>g, CloseType
  <2>2. OnPages(d, Append(bs, SectionBreak))
    <3>1. SectionBreak \in Block /\ TextsOf(SectionBreak) = <<>>
      BY BreaksHaveNoText DEF SectionBreak, Block, Brk
    <3>2. QED
      BY <1>g, <3>1, PagesAppend
  <2> DEFINE now == sections'
  <2>3. /\ Len(sections) \in Nat /\ Len(now) = Len(sections) + 1
        /\ \A k \in 1 .. Len(sections) : now[k] = sections[k]
        /\ now[Len(sections) + 1].blocks = Append(bs, SectionBreak)
    BY <2>1
  <2> HIDE DEF now
  <2>4. \A k \in 1 .. Len(now) : OnPages(d, now[k].blocks)
    <3>1. \A k \in 1 .. Len(now) : k \in 1 .. Len(sections) \/ k = Len(sections) + 1
      BY <2>3
    <3>2. \A k \in 1 .. Len(sections) : OnPages(d, sections[k].blocks)
      BY <1>d, <1>g
    <3>3. QED
      BY <2>2, <2>3, <3>1, <3>2
  <2>5. QED
    BY <1>c, <1>f, <1>g, <2>1, <2>4 DEF now
<1>1. CASE Text
  <2> DEFINE d == src'
  <2>1. \A k \in {"code", "deep", "text"} : k \in Kinds
    BY DEF Kinds
  <2>2. PICK kind \in Kinds : Reads(kind)
    BY <1>1, <2>1 DEF Text
  <2>3. Grown(src, d) /\ OnPage(d, Here, page)
    <3>1. Grown(src, d) /\ Len(d) = Here /\ Here \in Nat \ {0} /\ d[Here] = [is |-> kind, page |-> page]
      <4>1. Len(src) \in Nat
        BY <1>a, LenProperties
      <4>2. QED
        <5>1. Grown(src, src')
          BY <1>a, <2>2, ReadsGrow
        <5>2. Len(src') = Here /\ src'[Here] = [is |-> kind, page |-> page]
          BY <1>a, <2>2, ReadsType
        <5>3. Here \in Nat \ {0}
          BY <4>1 DEF Here
        <5>4. QED
          BY <5>1, <5>2, <5>3
    <3> HIDE DEF d
    <3>2. Here \in 1 .. Len(d) /\ d[Here].page = page
      BY <3>1
    <3>3. QED
      BY <3>1, <3>2 DEF OnPage
  <2>4. UNCHANGED <<page, blocks, sections>>
    BY <1>1 DEF Text, out
  <2> HIDE DEF d
  <2>5. Waits(cur', d, page)
    <3>1. CASE Visible
      <4>1. cur' = [cur EXCEPT !.runs = Append(cur.runs, Here)]
        BY <1>1, <3>1 DEF Text
      <4>2. cur'.runs = Append(cur.runs, Here) /\ cur'.local = cur.local
        BY <1>a, <4>1 DEF Reading
      <4>3. /\ Len(cur.runs) \in Nat /\ Len(cur'.runs) = Len(cur.runs) + 1
            /\ cur'.runs[Len(cur.runs) + 1] = Here
            /\ \A i \in 1 .. Len(cur.runs) : cur'.runs[i] = cur.runs[i]
        BY <1>b, <4>2, LenProperties
      <4>4. Waits(cur, d, page)
        BY <1>d, <2>3
      <4>5. \A i \in 1 .. Len(cur'.runs) : i \in 1 .. Len(cur.runs) \/ i = Len(cur.runs) + 1
        BY <4>3
      <4>6. \A i \in 1 .. Len(cur'.runs) : OnPage(d, cur'.runs[i], page)
        BY <2>3, <4>3, <4>4, <4>5 DEF Waits
      <4>7. QED
        BY <4>2, <4>4, <4>6 DEF Waits
    <3>2. CASE ~ Visible
      <4>1. cur' = cur
        BY <1>1, <3>2 DEF Text
      <4>2. QED
        BY <1>d, <2>3, <4>1
    <3>3. QED
      BY <3>1, <3>2
  <2>6. QED
    BY <1>d, <1>e, <2>3, <2>4, <2>5 DEF d
<1>2. CASE FieldBegin \/ FieldSeparate \/ FieldEnd \/ Note
  BY <1>2, <1>c, <1>e DEF FieldBegin, FieldSeparate, FieldEnd, Note, out
<1>3. CASE Break
  <2> DEFINE d == src'
  <2>1. Grown(src, d)
    BY <1>3, <1>a, ReadsGrow DEF Break, Kinds
  <2>2. UNCHANGED <<page, blocks, sections>> /\ cur' = [Segmented EXCEPT !.pending = Append(@, Here)]
    BY <1>3 DEF Break, out
  <2> HIDE DEF d
  <2>3. Segmented \in Reading /\ Waits(Segmented, d, page)
    BY <1>a, <1>d, <2>1, FlushType, PagesFlushed DEF Segmented
  <2>4. cur'.local = Segmented.local /\ cur'.runs = Segmented.runs
    BY <2>2, <2>3 DEF Reading
  <2>5. Waits(cur', d, page)
    BY <2>3, <2>4 DEF Waits
  <2>6. QED
    BY <1>d, <1>e, <2>1, <2>2, <2>5 DEF d
<1>4. CASE PageHint
  <2>1. UNCHANGED <<src, blocks, sections>> /\ cur' = Segmented
    BY <1>4 DEF PageHint, out
  <2>2. Segmented.runs = <<>> /\ Waits(Segmented, src, page)
    <3>1. CASE cur.runs # <<>> \/ Visible
      BY <1>a, <1>c, <3>1, FlushType, PagesFlushed DEF Segmented
    <3>2. CASE ~ (cur.runs # <<>> \/ Visible)
      BY <1>c, <3>2 DEF Segmented
    <3>3. QED
      BY <3>1, <3>2
  <2>3. \A n : Waits(cur', src, n)
    BY <2>1, <2>2 DEF Waits
  <2>4. QED
    BY <1>c, <1>e, <2>1, <2>3
<1>6. ASSUME NEW size \in 1 .. 2, NEW hints \in Nat, NEW shape \in BOOLEAN, Drawing(size, hints, shape)
      PROVE  PageInv'
  <2> DEFINE c == IF cur.runs # <<>> THEN Flush(cur) ELSE cur
             d == src'
  <2>1. c \in Reading /\ c.runs = <<>> /\ Waits(c, src, page)
    BY <1>a, <1>c, FlushType, PagesFlushed
  <2>2. UNCHANGED <<blocks, sections>>
    BY <1>6 DEF Drawing, out
  <2>3. CASE shape
    <3> HIDE DEF c
    <3>1. cur' = c /\ UNCHANGED <<page, src>>
      BY <1>6, <2>3 DEF Drawing, c
    <3>2. QED
      BY <1>c, <1>e, <2>1, <2>2, <3>1
  <2>4. CASE ~ shape
    <3> HIDE DEF c
    <3>1. /\ Reads("object")
          /\ cur' = [c EXCEPT !.local = Append(c.local, Object(c.nextId, size)),
                              !.nextId = c.nextId + 1, !.emitted = TRUE]
      BY <1>6, <2>4 DEF Drawing, c
    <3>2. Grown(src, d)
      BY <1>a, <3>1, ReadsGrow DEF Kinds
    <3> HIDE DEF d
    <3> DEFINE o == Object(c.nextId, size)
    <3>3. o \in Obj
      BY <1>a, <2>1, ObjectType DEF Reading
    <3> HIDE DEF o
    <3>4. cur'.local = Append(c.local, o) /\ cur'.runs = <<>>
      <4>1. cur' = [c EXCEPT !.local = Append(c.local, o), !.nextId = c.nextId + 1, !.emitted = TRUE]
        BY <3>1 DEF o
      <4>2. c \in Reading /\ o \in Par \cup Obj /\ c.runs = <<>>
        BY <2>1, <3>3
      <4> HIDE DEF o
      <4>3. cur'.local = Append(c.local, o) /\ cur'.runs = c.runs
        BY <4>1, <4>2, WithObjectType
      <4>4. QED
        BY <4>2, <4>3
    <3>5. OnPages(d, c.local)
      BY <2>1, <3>2, PagesGrow DEF Waits
    <3>6. OnPages(d, cur'.local)
      <4>1. c.local \in Seq(Par \cup Obj) /\ o \in Par \cup Obj /\ TextsOf(o) = <<>>
        BY <2>1, <3>3, BreaksHaveNoText DEF Reading
      <4>2. \A k \in 1 .. Len(TextsOf(o)) : OnPage(d, TextsOf(o)[k], o.page)
        BY <4>1
      <4>3. QED
        BY <3>4, <3>5, <4>1, <4>2, PagesAppend
    <3>7. \A n : Waits(cur', d, n)
      BY <3>4, <3>6 DEF Waits
    <3>8. QED
      BY <1>d, <1>e, <2>2, <3>2, <3>7 DEF d
  <2>5. QED
    BY <2>3, <2>4
<1>7. ASSUME NEW b \in BOOLEAN, StartParagraph(b)
      PROVE  PageInv'
  <2> DEFINE d == src'
  <2>1. Grown(src, d)
    BY <1>7, <1>a, <1>c, ReadsGrow DEF StartParagraph, Kinds
  <2>2. UNCHANGED <<page, blocks, sections>>
    BY <1>7 DEF StartParagraph, out
  <2> HIDE DEF d
  <2>3. Append(cur.pending, Here) \in Seq(Nat)
    <3>1. Here \in Nat
      BY <1>a, LenProperties DEF Here
    <3>2. QED
      BY <1>b, <3>1, AppendProperties
  <2>4. Waits(cur', d, page)
    BY <1>7, <1>b, <1>f, <2>3 DEF StartParagraph
  <2>5. QED
    BY <1>d, <1>e, <2>1, <2>2, <2>4 DEF d
<1>8. ASSUME NEW b \in BOOLEAN, EndParagraph(b)
      PROVE  PageInv'
  <2> DEFINE c == IF cur.runs # <<>> \/ ~ cur.emitted THEN Flush(cur) ELSE cur
             s == Pushed(blocks, c.pending, c.local)
  <2>1. /\ c \in Reading /\ Waits(c, src, page) /\ count < MaxBlocks
    BY <1>8, <1>a, <1>c, FlushType, PagesFlushed DEF EndParagraph
  <2>2. c.pending \in Seq(Nat) /\ c.local \in Seq(Par \cup Obj) /\ c.nextId \in Nat
    BY <2>1 DEF Reading
  <2> HIDE DEF c
  <2>3. s.dest \in Seq(Block) /\ s.pending \in Seq(Nat) /\ OnPages(src, s.dest)
    BY <1>a, <1>c, <2>1, <2>2, PushedType, PagesPushed DEF Waits
  <2> HIDE DEF s
  <2>4. /\ IF b THEN CloseSection(s.dest, s.pending)
           ELSE blocks' = s.dest /\ cur' = Fresh(s.pending, c.nextId) /\ UNCHANGED <<refs, sections>>
        /\ UNCHANGED <<page, src>>
    BY <1>8 DEF EndParagraph, c, s
  <2>5. /\ Waits(cur', src, page) /\ OnPages(src, blocks')
        /\ \A k \in 1 .. Len(sections') : OnPages(src, sections'[k].blocks)
    <3>1. CASE b
      <4>1. CloseSection(s.dest, s.pending)
        BY <2>4, <3>1
      <4>2. QED
        BY <1>c, <1>g, <2>3, <4>1
    <3>2. CASE ~ b
      BY <1>c, <1>f, <2>2, <2>3, <2>4, <3>2
    <3>3. QED
      BY <3>1, <3>2
  <2>6. QED
    BY <1>e, <2>4, <2>5
<1>9. ASSUME NEW b \in BOOLEAN, Skip(b)
      PROVE  PageInv'
  <2> DEFINE d == src'
  <2>1. Grown(src, d) /\ page' = page
    BY <1>9, <1>a, ReadsGrow DEF Skip, Kinds
  <2> HIDE DEF d
  <2>2. CASE b
    <3>1. CloseSection(blocks, cur.pending)
      BY <1>9, <2>2 DEF Skip
    <3>2. OnPages(d, blocks)
      BY <1>d, <2>1
    <3>3. /\ Waits(cur', d, page) /\ OnPages(d, blocks')
          /\ \A k \in 1 .. Len(sections') : OnPages(d, sections'[k].blocks)
      BY <1>a, <1>b, <1>g, <2>1, <3>1, <3>2
    <3>4. QED
      BY <1>e, <2>1, <3>3 DEF d
  <2>3. CASE ~ b
    BY <1>9, <1>d, <1>e, <2>1, <2>3 DEF Skip, d
  <2>4. QED
    BY <2>2, <2>3
<1>10. ASSUME NEW size \in 1 .. 2, NEW hints \in Nat, Table(size, hints)
       PROVE  PageInv'
  <2> DEFINE o == Object(cur.nextId, size)
             s == Pushed(blocks, cur.pending, <<o>>)
             d == src'
  <2>1. Grown(src, d) /\ count < MaxBlocks
    BY <1>10, <1>a, ReadsGrow DEF Table, Kinds
  <2>2. o \in Obj
    BY <1>a, <1>b, ObjectType
  <2>3. blocks' = s.dest /\ cur' = Fresh(s.pending, cur.nextId + 1) /\ UNCHANGED sections
    BY <1>10 DEF Table
  <2> HIDE DEF o, d
  <2>4. <<o>> \in Seq(Par \cup Obj) /\ OnPages(d, <<o>>)
    <3>1. TextsOf(o) = <<>>
      BY <2>2, BreaksHaveNoText
    <3>2. Len(<<o>>) = 1 /\ <<o>>[1] = o /\ <<o>> \in Seq(Par \cup Obj)
      BY <2>2
    <3>3. QED
      BY <3>1, <3>2 DEF OnPages
  <2>5. s.dest \in Seq(Block) /\ s.pending \in Seq(Nat) /\ OnPages(d, s.dest)
    BY <1>a, <1>b, <1>d, <2>1, <2>4, PushedType, PagesPushed
  <2> HIDE DEF s
  <2>6. cur.nextId + 1 \in Nat
    BY <1>b
  <2>7. Waits(cur', d, page')
    BY <1>f, <2>3, <2>5, <2>6
  <2>8. QED
    BY <1>d, <1>e, <2>1, <2>3, <2>5, <2>7 DEF d
<1>11. CASE Finish
  <2> DEFINE bs == blocks \o BreakBlocks(cur.pending)
             last == [blocks |-> bs, refs |-> refs]
  <2>1. /\ blocks' = <<>> /\ cur' = Fresh(<<>>, 0) /\ sections' = Append(sections, last)
        /\ UNCHANGED <<page, src>>
    BY <1>11 DEF Finish
  <2>2. OnPages(src, bs)
    BY <1>a, <1>b, <1>c, BreakBlocksType, BreaksHaveNoText, PagesConcat
  <2>3. last.blocks = bs
    OBVIOUS
  <2> HIDE DEF bs, last
  <2>4. /\ Len(sections) \in Nat /\ Len(sections') = Len(sections) + 1
        /\ \A k \in 1 .. Len(sections) : sections'[k] = sections[k]
        /\ sections'[Len(sections) + 1] = last
    BY <1>a, <2>1, LenProperties
  <2>5. \A k \in 1 .. Len(sections') : k \in 1 .. Len(sections) \/ k = Len(sections) + 1
    BY <2>4
  <2>6. \A k \in 1 .. Len(sections') : OnPages(src, sections'[k].blocks)
    BY <1>c, <2>2, <2>3, <2>4, <2>5
  <2>7. Waits(cur', src, page)
    BY <1>f, <2>1, EmptySeq
  <2>8. QED
    BY <1>c, <1>e, <2>1, <2>6, <2>7
<1>12. ASSUME NEW n \in {0, 2}, NEW b \in BOOLEAN, AttachNote(n, b)
       PROVE  PageInv'
  <2> DEFINE old == sections[noted].blocks
             bs == NoteBlocks(Len(old), n, b)
  <2>1. /\ noted \in 1 .. Len(sections) /\ Len(sections') = Len(sections)
        /\ old \in Seq(Block)
        /\ \A k \in 1 .. Len(sections) : k # noted => sections'[k] = sections[k]
        /\ sections'[noted].blocks = old \o bs
    BY <1>12, <1>a, AttachType
  <2>2. Len(old) \in Nat
    BY <2>1, LenProperties
  <2> HIDE DEF old
  <2>3. bs \in Seq(Block) /\ OnPages(src, bs)
    <3>1. /\ bs \in Seq(Block)
          /\ \A i \in 1 .. Len(bs) :
                \/ bs[i] = [type |-> "paragraph", id |-> Len(old) + i - 1, size |-> 1,
                            texts |-> <<>>, breaks |-> <<>>, page |-> 0]
                \/ bs[i] = SectionBreak
      BY <2>2, NoteBlocksType
    <3> HIDE DEF bs
    <3>2. ASSUME NEW i \in 1 .. Len(bs) PROVE TextsOf(bs[i]) = <<>>
      <4>1. CASE bs[i] = SectionBreak
        BY <4>1, BreaksHaveNoText
      <4>2. CASE bs[i] = [type |-> "paragraph", id |-> Len(old) + i - 1, size |-> 1,
                          texts |-> <<>>, breaks |-> <<>>, page |-> 0]
        BY <4>2 DEF TextsOf
      <4>3. QED
        BY <3>1, <4>1, <4>2
    <3>3. QED
      BY <3>1, <3>2 DEF OnPages
  <2> HIDE DEF bs
  <2>4. OnPages(src, old)
    BY <1>c, <2>1 DEF old
  <2>5. OnPages(src, old \o bs)
    BY <2>1, <2>3, <2>4, PagesConcat
  <2>6. \A k \in 1 .. Len(sections') : OnPages(src, sections'[k].blocks)
    BY <1>c, <2>1, <2>5
  <2>7. UNCHANGED <<cur, blocks, page, src>>
    BY <1>12 DEF AttachNote
  <2>8. QED
    BY <1>c, <1>e, <2>6, <2>7
<1>13. CASE NextSection
  BY <1>13, <1>c, <1>e DEF NextSection
<1>14. CASE UNCHANGED vars
  BY <1>14, <1>c, <1>e DEF vars, out
<1>15. QED
  BY <1>1, <1>2, <1>3, <1>4, <1>6, <1>7, <1>8, <1>9, <1>10, <1>11, <1>12, <1>13, <1>14, Steps

(***************************************************************************)
(* The places of blocks.                                                   *)
(***************************************************************************)
(* A spot is a block of a complete section, of the section that is read,   *)
(* or of the paragraph that is read.                                       *)
LEMMA SpotsAre ==
    ASSUME BlockInv
    PROVE  /\ Len(sections) \in Nat /\ Len(Parts) = Len(sections) + 2
           /\ \A k \in 1 .. Len(sections) : Parts[k] = sections[k].blocks
           /\ Parts[Len(sections) + 1] = blocks
           /\ Parts[Len(sections) + 2] = Append(cur.local, Coming)
           /\ \A k \in 1 .. Len(Parts) :
                 k \in 1 .. Len(sections) \/ k = Len(sections) + 1 \/ k = Len(sections) + 2
           /\ \A s : s \in Spots <=> \E k \in 1 .. Len(Parts) : \E i \in 1 .. Len(Parts[k]) : s = <<k, i>>
           /\ \A k, i : At(<<k, i>>) = Parts[k][i]
<1>1. Len(sections) \in Nat
  BY LenProperties DEF BlockInv
<1> DEFINE n == Len(sections) + 2
           e(k) == IF k <= Len(sections) THEN sections[k].blocks
                   ELSE IF k = Len(sections) + 1 THEN blocks ELSE Append(cur.local, Coming)
<1>2. n \in Nat /\ Parts = [k \in 1 .. n |-> e(k)]
  BY <1>1 DEF Parts
<1> HIDE DEF e
<1>3. Len(Parts) = n /\ \A k \in 1 .. n : Parts[k] = e(k)
  BY <1>2
<1>4. /\ \A k \in 1 .. Len(sections) : Parts[k] = sections[k].blocks
      /\ Parts[Len(sections) + 1] = blocks
      /\ Parts[Len(sections) + 2] = Append(cur.local, Coming)
  BY <1>1, <1>3 DEF e
<1>5. \A k \in 1 .. n : k \in 1 .. Len(sections) \/ k = Len(sections) + 1 \/ k = Len(sections) + 2
  BY <1>1
<1>6. ASSUME NEW s
      PROVE  s \in Spots <=> \E k \in 1 .. Len(Parts) : \E i \in 1 .. Len(Parts[k]) : s = <<k, i>>
  <2> DEFINE in(k) == {<<k, i>> : i \in 1 .. Len(Parts[k])}
  <2>1. Spots = UNION {in(k) : k \in 1 .. Len(Parts)}
    BY DEF Spots
  <2>2. \A k : s \in in(k) <=> \E i \in 1 .. Len(Parts[k]) : s = <<k, i>>
    OBVIOUS
  <2> HIDE DEF in
  <2>3. s \in Spots <=> \E k \in 1 .. Len(Parts) : s \in in(k)
    BY <2>1
  <2>4. QED
    BY <2>2, <2>3
<1>7. \A k, i : At(<<k, i>>) = Parts[k][i]
  BY DEF At
<1>8. QED
  BY <1>1, <1>3, <1>4, <1>5, <1>6, <1>7

\* The paragraph to come, behind those that are written.
LEMMA ComingAre ==
    ASSUME BlockInv
    PROVE  LET bs == Append(cur.local, Coming)
           IN  /\ Len(cur.local) \in Nat /\ Len(bs) = Len(cur.local) + 1
               /\ \A i \in 1 .. Len(cur.local) : bs[i] = cur.local[i]
               /\ bs[Len(cur.local) + 1] = Coming
               /\ \A i \in 1 .. Len(bs) : i \in 1 .. Len(cur.local) \/ i = Len(cur.local) + 1
               /\ TextsOf(Coming) = cur.runs /\ Coming.page = page
               /\ Coming.type = "paragraph" /\ Coming.id = cur.nextId /\ Coming.breaks = cur.pending
<1>1. cur.local \in Seq(Par \cup Obj)
  BY DEF BlockInv, Reading
<1>2. Len(cur.local) \in Nat
  BY <1>1, LenProperties
<1> DEFINE bs == Append(cur.local, Coming)
<1>3. /\ Len(bs) = Len(cur.local) + 1 /\ bs[Len(cur.local) + 1] = Coming
      /\ \A i \in 1 .. Len(cur.local) : bs[i] = cur.local[i]
  BY <1>1, <1>2
<1>4. \A i \in 1 .. Len(cur.local) + 1 : i \in 1 .. Len(cur.local) \/ i = Len(cur.local) + 1
  BY <1>2
<1>5. /\ TextsOf(Coming) = cur.runs /\ Coming.page = page
      /\ Coming.type = "paragraph" /\ Coming.id = cur.nextId /\ Coming.breaks = cur.pending
  BY DEF Coming, TextsOf
<1>6. QED
  BY <1>2, <1>3, <1>4, <1>5

LEMMA PageInvExact == BlockInv /\ PageInv => PageExact
<1> SUFFICES ASSUME BlockInv, PageInv, NEW s \in Spots, NEW p \in ToSet(TextsOf(At(s)))
             PROVE  src[p].page = At(s).page
  BY DEF PageExact
<1>0. PICK k \in 1 .. Len(Parts) : \E i \in 1 .. Len(Parts[k]) : s = <<k, i>>
  BY SpotsAre
<1>1. PICK i \in 1 .. Len(Parts[k]) : s = <<k, i>>
  BY <1>0
<1> DEFINE b == Parts[k][i]
<1>2. At(s) = b
  BY <1>1, SpotsAre
<1>3. \A j \in 1 .. Len(TextsOf(b)) : OnPage(src, TextsOf(b)[j], b.page)
  <2>1. CASE k \in 1 .. Len(sections)
    BY <2>1, SpotsAre DEF PageInv, OnPages
  <2>2. CASE k = Len(sections) + 1
    BY <2>2, SpotsAre DEF PageInv, OnPages
  <2>3. CASE k = Len(sections) + 2
    <3>1. Parts[k] = Append(cur.local, Coming)
      BY <2>3, SpotsAre
    <3>2. CASE i \in 1 .. Len(cur.local)
      BY <3>1, <3>2, ComingAre DEF PageInv, OnPages
    <3>3. CASE i = Len(cur.local) + 1
      <4>1. TextsOf(b) = cur.runs /\ b.page = page
        BY <3>1, <3>3, ComingAre
      <4>2. QED
        BY <4>1 DEF PageInv
    <3>4. QED
      BY <3>1, <3>2, <3>3, ComingAre
  <2>4. QED
    BY <2>1, <2>2, <2>3, SpotsAre
<1> HIDE DEF b
<1>4. PICK j \in 1 .. Len(TextsOf(b)) : p = TextsOf(b)[j]
  BY <1>2 DEF ToSet
<1>5. QED
  BY <1>2, <1>3, <1>4 DEF OnPage

LEMMA PageInvInit == Init => PageInv
<1> SUFFICES ASSUME Init PROVE PageInv
  OBVIOUS
<1>1. blocks = <<>> /\ sections = <<>> /\ cur = Fresh(<<>>, 0)
  BY DEF Init
<1>2. cur.local = <<>> /\ cur.runs = <<>>
  BY <1>1 DEF Fresh
<1>3. QED
  BY <1>1, <1>2 DEF PageInv, OnPages

(* A paragraph is on the page that each of its texts is on: the hints and  *)
(* breaks that turn the page end the segment first, in every document.     *)
THEOREM PagesAreExact == Spec => []PageExact
<1>1. Init => BlockInv /\ PageInv
  BY BlockInvInit, PageInvInit
<1>2. BlockInv /\ PageInv /\ [Next]_vars => (BlockInv /\ PageInv)'
  BY BlockInvNext, PageInvNext
<1>3. BlockInv /\ PageInv => PageExact
  BY PageInvExact
<1> QED
  BY <1>1, <1>2, <1>3, PTL DEF Spec

(***************************************************************************)
(* Ids.                                                                    *)
(***************************************************************************)
\* What is written behind a section keeps the ids rising.
LEMMA RisingConcat ==
    ASSUME NEW bs \in Seq(Block), NEW cs \in Seq(Block), Rising(bs),
           \A i \in 1 .. Len(cs) : cs[i].type = "break" \/ cs[i].id = Len(bs) + i - 1
    PROVE  Rising(bs \o cs)
<1> DEFINE ds == bs \o cs
           n == Len(bs)
<1>1. /\ n \in Nat /\ Len(cs) \in Nat /\ Len(ds) = n + Len(cs)
      /\ \A i \in 1 .. n + Len(cs) : ds[i] = IF i <= n THEN bs[i] ELSE cs[i - n]
  BY ConcatProperties, LenProperties
<1> HIDE DEF ds, n
<1>2. ASSUME NEW i \in 1 .. Len(ds), i <= n
      PROVE  i \in 1 .. n /\ ds[i] = bs[i]
  BY <1>1, <1>2
<1>3. ASSUME NEW i \in 1 .. Len(ds), ~ i <= n, ds[i].type # "break"
      PROVE  ds[i].id = i - 1
  <2>1. i - n \in 1 .. Len(cs) /\ ds[i] = cs[i - n]
    BY <1>1, <1>3
  <2>2. ds[i].id = n + (i - n) - 1
    BY <1>3, <2>1 DEF n
  <2>3. QED
    BY <1>1, <1>3, <2>2
<1>4. ASSUME NEW i \in 1 .. Len(ds), ds[i].type # "break"
      PROVE  /\ ds[i].id < i
             /\ \A k \in 1 .. i - 1 : ds[k].type # "break" => ds[k].id < ds[i].id
  <2>1. CASE i <= n
    <3>1. i \in 1 .. n /\ ds[i] = bs[i] /\ \A k \in 1 .. i - 1 : ds[k] = bs[k]
      BY <1>1, <1>2, <2>1
    <3>2. QED
      BY <1>4, <3>1 DEF Rising, n
  <2>2. CASE ~ i <= n
    <3>1. ds[i].id = i - 1
      BY <1>3, <1>4, <2>2
    <3>2. ASSUME NEW k \in 1 .. i - 1, ds[k].type # "break"
          PROVE  ds[k].id < i - 1
      <4>1. k \in 1 .. Len(ds)
        BY <1>1
      <4>2. CASE k <= n
        <5>1. k \in 1 .. n /\ bs[k].type # "break" /\ ds[k].id = bs[k].id
          BY <1>2, <3>2, <4>1, <4>2
        <5>2. bs[k].id < k
          BY <5>1 DEF Rising, n
        <5>3. bs[k].id \in Nat
          <6>1. bs[k] \in Block
            BY <5>1, ElementOfSeq DEF n
          <6>2. QED
            BY <5>1, <6>1 DEF Block, Par, Obj, Brk
        <5>4. QED
          BY <1>1, <5>1, <5>2, <5>3
      <4>3. CASE ~ k <= n
        <5>1. ds[k].id = k - 1
          BY <1>3, <3>2, <4>1, <4>3
        <5>2. QED
          BY <1>1, <5>1
      <4>4. QED
        BY <4>2, <4>3
    <3>3. QED
      BY <1>1, <3>1, <3>2
  <2>3. QED
    BY <2>1, <2>2
<1>5. QED
  BY <1>4 DEF Rising, ds

LEMMA RisingAppend ==
    ASSUME NEW bs \in Seq(Block), Rising(bs)
    PROVE  Rising(Append(bs, SectionBreak))
<1>1. SectionBreak \in Block /\ SectionBreak.type = "break"
  BY DEF SectionBreak, Block, Brk
<1> DEFINE ds == Append(bs, SectionBreak)
<1>2. /\ Len(bs) \in Nat /\ Len(ds) = Len(bs) + 1 /\ ds[Len(bs) + 1] = SectionBreak
      /\ \A i \in 1 .. Len(bs) : ds[i] = bs[i]
  BY <1>1, AppendProperties, LenProperties
<1> HIDE DEF ds
<1>3. ASSUME NEW i \in 1 .. Len(ds), ds[i].type # "break"
      PROVE  /\ ds[i].id < i
             /\ \A k \in 1 .. i - 1 : ds[k].type # "break" => ds[k].id < ds[i].id
  <2>1. i \in 1 .. Len(bs)
    BY <1>1, <1>2, <1>3
  <2>2. ds[i] = bs[i] /\ \A k \in 1 .. i - 1 : ds[k] = bs[k]
    BY <1>2, <2>1
  <2>3. QED
    BY <1>3, <2>1, <2>2 DEF Rising
<1>4. QED
  BY <1>3 DEF Rising, ds

(* push_blocks writes the ids of a paragraph behind those of the section.  *)
LEMMA RisingPushed ==
    ASSUME NEW dest \in Seq(Block), NEW pending \in Seq(Nat), NEW source \in Seq(Par \cup Obj),
           NEW bs, NEW ahead, NEW m, Parted(bs, dest, pending, source, ahead, m),
           NEW f \in Nat, Rising(dest), IdsBelow(dest, f), f <= Len(dest),
           \A i \in 1 .. Len(source) : source[i].id = f + i - 1
    PROVE  /\ Rising(bs) /\ IdsBelow(bs, f + Len(source))
           /\ m = Len(source) => f + Len(source) <= Len(bs)
<1>1. /\ Len(source) \in Nat /\ Len(dest) \in Nat /\ ahead \in Nat /\ m \in 0 .. Len(source)
      /\ Len(bs) = Len(dest) + ahead + m
  BY LenProperties DEF Parted
\* A block that was there, or the k-th of the paragraph.
<1>2. ASSUME NEW i \in 1 .. Len(bs), bs[i].type # "break"
      PROVE  \/ i \in 1 .. Len(dest) /\ bs[i] = dest[i]
             \/ /\ i - Len(dest) - ahead \in 1 .. Len(source)
                /\ bs[i].id = f + (i - Len(dest) - ahead) - 1
  <2>1. CASE i \in 1 .. Len(dest) /\ bs[i] = dest[i]
    BY <2>1
  <2>2. ASSUME NEW k \in 1 .. ahead, bs[i] = [type |-> "break", at |-> pending[k]]
        PROVE  FALSE
    BY <1>2, <2>2
  <2>3. ASSUME NEW k \in 1 .. m, i = Len(dest) + ahead + k, k \in 1 .. Len(source),
               bs[i] = Written(pending, source, k)
        PROVE  /\ i - Len(dest) - ahead \in 1 .. Len(source)
               /\ bs[i].id = f + (i - Len(dest) - ahead) - 1
    <3>1. bs[i].id = source[k].id
      BY <2>3, WrittenType
    <3>2. i - Len(dest) - ahead = k
      BY <1>1, <2>3
    <3>3. QED
      BY <2>3, <3>1, <3>2
  <2>4. Origin(bs, i, dest, pending, source, ahead, m)
    BY <1>1, PartedCases
  <2>5. QED
    BY <2>1, <2>2, <2>3, <2>4 DEF Origin
<1>3. ASSUME NEW i \in 1 .. Len(dest), dest[i].type # "break"
      PROVE  dest[i].id \in Nat /\ dest[i].id < f /\ dest[i].id < i
             /\ \A k \in 1 .. i - 1 : dest[k].type # "break" => dest[k].id < dest[i].id
  <2>1. dest[i] \in Block
    BY ElementOfSeq
  <2>2. QED
    BY <1>3, <2>1 DEF Rising, IdsBelow, Block, Par, Obj, Brk
<1>4. IdsBelow(bs, f + Len(source))
  <2>1. ASSUME NEW i \in 1 .. Len(bs), bs[i].type # "break" PROVE bs[i].id < f + Len(source)
    <3>1. CASE i \in 1 .. Len(dest) /\ bs[i] = dest[i]
      <4>1. dest[i].id \in Nat /\ dest[i].id < f
        BY <1>3, <2>1, <3>1
      <4>2. QED
        BY <1>1, <3>1, <4>1
    <3>2. CASE /\ i - Len(dest) - ahead \in 1 .. Len(source)
               /\ bs[i].id = f + (i - Len(dest) - ahead) - 1
      BY <1>1, <3>2
    <3>3. QED
      BY <1>2, <2>1, <3>1, <3>2
  <2>2. QED
    BY <2>1 DEF IdsBelow
<1>5. Rising(bs)
  <2>1. ASSUME NEW i \in 1 .. Len(bs), bs[i].type # "break"
        PROVE  /\ bs[i].id < i
               /\ \A k \in 1 .. i - 1 : bs[k].type # "break" => bs[k].id < bs[i].id
    <3>1. CASE i \in 1 .. Len(dest) /\ bs[i] = dest[i]
      <4>1. \A k \in 1 .. i - 1 : bs[k] = dest[k]
        BY <1>1, <3>1 DEF Parted
      <4>2. QED
        BY <1>3, <2>1, <3>1, <4>1
    <3>2. CASE /\ i - Len(dest) - ahead \in 1 .. Len(source)
               /\ bs[i].id = f + (i - Len(dest) - ahead) - 1
      <4>1. bs[i].id < i
        BY <1>1, <3>2
      <4>2. ASSUME NEW k \in 1 .. i - 1, bs[k].type # "break"
            PROVE  bs[k].id < bs[i].id
        <5>1. k \in 1 .. Len(bs)
          BY <1>1
        <5>2. CASE k \in 1 .. Len(dest) /\ bs[k] = dest[k]
          <6>1. bs[k].id \in Nat /\ bs[k].id < f
            BY <1>3, <4>2, <5>2
          <6>2. QED
            BY <1>1, <3>2, <6>1
        <5>3. CASE /\ k - Len(dest) - ahead \in 1 .. Len(source)
                   /\ bs[k].id = f + (k - Len(dest) - ahead) - 1
          BY <1>1, <3>2, <5>3
        <5>4. QED
          BY <1>2, <4>2, <5>1, <5>2, <5>3
      <4>3. QED
        BY <4>1, <4>2
    <3>3. QED
      BY <1>2, <2>1, <3>1, <3>2
  <2>2. QED
    BY <2>1 DEF Rising
<1>6. QED
  BY <1>1, <1>4, <1>5

\* The ids of a paragraph count on from n.
Counts(c, n) == c.nextId = n + Len(c.local) /\ \A i \in 1 .. Len(c.local) : c.local[i].id = n + i - 1

LEMMA CountsAppend ==
    ASSUME NEW c \in Reading, NEW n \in Nat, Counts(c, n), NEW d, NEW b \in Par \cup Obj,
           b.id = c.nextId, d.local = Append(c.local, b), d.nextId = c.nextId + 1
    PROVE  Counts(d, n)
<1>1. c.local \in Seq(Par \cup Obj) /\ c.nextId \in Nat
  BY DEF Reading
<1>2. /\ Len(c.local) \in Nat /\ Len(d.local) = Len(c.local) + 1
      /\ d.local[Len(c.local) + 1] = b
      /\ \A i \in 1 .. Len(c.local) : d.local[i] = c.local[i]
  BY <1>1, AppendProperties, LenProperties
<1>3. ASSUME NEW i \in 1 .. Len(d.local) PROVE d.local[i].id = n + i - 1
  <2>1. CASE i \in 1 .. Len(c.local)
    BY <1>2, <2>1 DEF Counts
  <2>2. CASE i = Len(c.local) + 1
    BY <1>2, <2>2 DEF Counts
  <2>3. QED
    BY <1>2, <2>1, <2>2
<1>4. d.nextId = n + Len(d.local)
  BY <1>2 DEF Counts
<1>5. QED
  BY <1>3, <1>4 DEF Counts

LEMMA CountsFlushed ==
    ASSUME NEW c \in Reading, NEW n \in Nat, Counts(c, n), page \in Nat
    PROVE  Counts(Flush(c), n)
<1> DEFINE f == Flush(c)
           p == [type |-> "paragraph", id |-> c.nextId, size |-> 1,
                 texts |-> c.runs, breaks |-> c.pending, page |-> page]
<1>1. /\ p \in Par
      /\ f = c \/ (f.local = Append(c.local, p) /\ f.nextId = c.nextId + 1)
  BY FlushType
<1>2. p.id = c.nextId /\ p \in Par \cup Obj
  BY <1>1
<1> HIDE DEF f, p
<1>3. CASE f = c
  BY <1>3 DEF f
<1>4. CASE f.local = Append(c.local, p) /\ f.nextId = c.nextId + 1
  BY <1>2, <1>4, CountsAppend DEF f
<1>5. QED
  BY <1>1, <1>3, <1>4

(* Ids rise through paragraphs, objects, sections and notes; over the cap  *)
(* they may jump, but then nothing follows them.                           *)
LEMMA IdsInvNext == BlockInv /\ IdsInv /\ [Next]_vars => IdsInv'
<1> SUFFICES ASSUME BlockInv, IdsInv, [Next]_vars PROVE IdsInv'
  OBVIOUS
<1>a. /\ cur \in Reading /\ blocks \in Seq(Block) /\ refs \in Seq(Nat)
      /\ sections \in Seq([blocks : Seq(Block), refs : Seq(Nat)])
      /\ noted \in Nat \ {0} /\ src \in Seq([is : Kinds, page : Nat]) /\ page \in Nat
      /\ count \in 0 .. MaxBlocks
      /\ mode = "para" => count < MaxBlocks
      /\ mode # "para" => cur.local = <<>>
  BY DEF BlockInv
<1>b. /\ cur.local \in Seq(Par \cup Obj) /\ cur.runs \in Seq(Nat) /\ cur.pending \in Seq(Nat)
      /\ cur.nextId \in Nat /\ Len(cur.local) \in Nat
  BY <1>a, LenProperties DEF Reading
<1>c. /\ \A k \in 1 .. Len(sections) : Rising(sections[k].blocks)
      /\ Rising(blocks) /\ IdsBelow(blocks, FirstId) /\ FirstId \in Nat
      /\ Counts(cur, FirstId)
      /\ count < MaxBlocks => FirstId <= Len(blocks)
      /\ Rising(<<>>) /\ \A n : IdsBelow(<<>>, n)
  BY <1>b DEF IdsInv, FirstId, Counts, Rising, IdsBelow
\* What the actions leave to show: the number that the ids of the paragraph
\* count on from.
<1>e. ASSUME cur' \in Reading, NEW n \in Nat, Counts(cur', n), IdsBelow(blocks', n), Rising(blocks'),
             count' < MaxBlocks => n <= Len(blocks'),
             \A k \in 1 .. Len(sections') : Rising(sections'[k].blocks)
      PROVE  IdsInv'
  <2>1. Len(cur'.local) \in Nat /\ cur'.nextId \in Nat
    BY <1>e, LenProperties DEF Reading
  <2>2. FirstId' = n
    BY <1>e, <2>1 DEF FirstId, Counts
  <2>3. QED
    BY <1>e, <2>2 DEF IdsInv, Counts
\* In a paragraph.
<1>f. ASSUME cur' \in Reading, Counts(cur', FirstId), UNCHANGED <<story, blocks, sections>>
      PROVE  IdsInv'
  BY <1>c, <1>e, <1>f DEF story
<1>g. ASSUME NEW pending \in Seq(Nat), NEW n \in Nat
      PROVE  Fresh(pending, n) \in Reading /\ Counts(Fresh(pending, n), n)
  <2>1. Len(<<>>) = 0
    OBVIOUS
  <2>2. QED
    BY <1>g, <2>1, FreshType DEF Counts
\* A section that is closed.
<1>h. ASSUME NEW bs \in Seq(Block), NEW pending \in Seq(Nat), CloseSection(bs, pending), Rising(bs)
      PROVE  IdsInv'
  <2> DEFINE now == sections'
  <2>1. /\ Len(sections) \in Nat /\ Len(now) = Len(sections) + 1
        /\ \A k \in 1 .. Len(sections) : now[k] = sections[k]
        /\ now[Len(sections) + 1].blocks = Append(bs, SectionBreak)
        /\ blocks' = <<>> /\ cur' = Fresh(pending, 0)
    <3>1. /\ Len(sections) \in Nat /\ Len(sections') = Len(sections) + 1
          /\ \A k \in 1 .. Len(sections) : sections'[k] = sections[k]
          /\ sections'[Len(sections) + 1] = [blocks |-> Append(bs, SectionBreak), refs |-> refs]
          /\ blocks' = <<>> /\ cur' = Fresh(pending, 0)
      BY <1>a, <1>h, CloseType
    <3>2. QED
      BY <3>1
  <2> HIDE DEF now
  <2>2. \A k \in 1 .. Len(now) : Rising(now[k].blocks)
    <3>1. \A k \in 1 .. Len(now) : k \in 1 .. Len(sections) \/ k = Len(sections) + 1
      BY <2>1
    <3>2. Rising(Append(bs, SectionBreak))
      BY <1>h, RisingAppend
    <3>3. QED
      BY <1>c, <2>1, <3>1, <3>2
  <2>3. cur' \in Reading /\ Counts(cur', 0) /\ 0 <= Len(blocks')
    BY <1>g, <1>h, <2>1
  <2>4. QED
    BY <1>c, <1>e, <2>1, <2>2, <2>3 DEF now
<1>1. CASE Text
  <2>1. cur' \in Reading
    BY <1>1, BlockInvNext DEF BlockInv
  <2>2. cur'.local = cur.local /\ cur'.nextId = cur.nextId
    BY <1>1, <1>a DEF Text, Reading
  <2>3. Counts(cur', FirstId)
    BY <1>c, <2>2 DEF Counts
  <2>4. QED
    BY <1>1, <1>f, <2>1, <2>3 DEF Text, out
<1>2. CASE FieldBegin \/ FieldSeparate \/ FieldEnd \/ Note
  <2>1. UNCHANGED <<cur, story, blocks, sections>>
    BY <1>2 DEF FieldBegin, FieldSeparate, FieldEnd, Note, out
  <2>2. QED
    BY <1>a, <1>c, <1>f, <2>1
<1>3. CASE Break
  <2>1. UNCHANGED <<story, blocks, sections>> /\ cur' = [Segmented EXCEPT !.pending = Append(@, Here)]
    BY <1>3 DEF Break, out
  <2>2. Segmented \in Reading /\ Counts(Segmented, FirstId)
    BY <1>a, <1>c, FlushType, CountsFlushed DEF Segmented
  <2>3. cur'.local = Segmented.local /\ cur'.nextId = Segmented.nextId
    BY <2>1, <2>2 DEF Reading
  <2>4. Counts(cur', FirstId)
    BY <2>2, <2>3 DEF Counts
  <2>5. cur' \in Reading
    BY BlockInvNext DEF BlockInv
  <2>6. QED
    BY <1>f, <2>1, <2>4, <2>5
<1>4. CASE PageHint
  <2>1. UNCHANGED <<story, blocks, sections>> /\ cur' = Segmented
    BY <1>4 DEF PageHint, out
  <2>2. Segmented \in Reading /\ Counts(Segmented, FirstId)
    BY <1>a, <1>c, FlushType, CountsFlushed DEF Segmented
  <2>3. QED
    BY <1>f, <2>1, <2>2
<1>6. ASSUME NEW size \in 1 .. 2, NEW hints \in Nat, NEW shape \in BOOLEAN, Drawing(size, hints, shape)
      PROVE  IdsInv'
  <2> DEFINE c == IF cur.runs # <<>> THEN Flush(cur) ELSE cur
  <2>1. c \in Reading /\ Counts(c, FirstId)
    BY <1>a, <1>c, FlushType, CountsFlushed
  <2>2. UNCHANGED <<story, blocks, sections>>
    BY <1>6 DEF Drawing, out
  <2>3. CASE shape
    <3> HIDE DEF c
    <3>1. cur' = c
      BY <1>6, <2>3 DEF Drawing, c
    <3>2. QED
      BY <1>f, <2>1, <2>2, <3>1
  <2>4. CASE ~ shape
    <3> HIDE DEF c
    <3> DEFINE o == Object(c.nextId, size)
    <3>1. cur' = [c EXCEPT !.local = Append(c.local, o), !.nextId = c.nextId + 1, !.emitted = TRUE]
      BY <1>6, <2>4 DEF Drawing, c
    <3>2. o \in Par \cup Obj /\ o.id = c.nextId
      BY <1>a, <2>1, ObjectType DEF Reading
    <3> HIDE DEF o
    <3>3. cur' \in Reading /\ cur'.local = Append(c.local, o) /\ cur'.nextId = c.nextId + 1
      <4>1. cur' \in Reading
        BY BlockInvNext DEF BlockInv
      <4>2. cur'.local = Append(c.local, o) /\ cur'.nextId = c.nextId + 1
        BY <2>1, <3>1 DEF Reading
      <4>3. QED
        BY <4>1, <4>2
    <3>4. Counts(cur', FirstId)
      BY <1>c, <2>1, <3>2, <3>3, CountsAppend
    <3>5. QED
      BY <1>f, <2>2, <3>3, <3>4
  <2>5. QED
    BY <2>3, <2>4
<1>7. ASSUME NEW b \in BOOLEAN, StartParagraph(b)
      PROVE  IdsInv'
  <2>1. UNCHANGED <<story, blocks, sections>> /\ mode = "flow"
    BY <1>7 DEF StartParagraph, out
  <2>2. FirstId = cur.nextId
    BY <1>a, <1>b, <2>1 DEF FirstId
  <2>3. Append(cur.pending, Here) \in Seq(Nat)
    <3>1. Here \in Nat
      BY <1>a, LenProperties DEF Here
    <3>2. QED
      BY <1>b, <3>1, AppendProperties
  <2>4. cur' \in Reading /\ Counts(cur', cur.nextId)
    BY <1>7, <1>b, <1>g, <2>3 DEF StartParagraph
  <2>5. QED
    BY <1>f, <2>1, <2>2, <2>4
<1>8. ASSUME NEW b \in BOOLEAN, EndParagraph(b)
      PROVE  IdsInv'
  <2> DEFINE c == IF cur.runs # <<>> \/ ~ cur.emitted THEN Flush(cur) ELSE cur
             s == Pushed(blocks, c.pending, c.local)
  <2>1. /\ c \in Reading /\ Counts(c, FirstId) /\ count < MaxBlocks
    BY <1>8, <1>a, <1>c, FlushType, CountsFlushed DEF EndParagraph
  <2>2. c.pending \in Seq(Nat) /\ c.local \in Seq(Par \cup Obj) /\ c.nextId \in Nat
    BY <2>1 DEF Reading
  <2> HIDE DEF c
  <2>3. PICK ahead, m : /\ Parted(s.dest, blocks, c.pending, c.local, ahead, m)
                        /\ s.full => s.count = MaxBlocks
                        /\ ~ s.full => m = Len(c.local)
    BY <1>a, <2>1, <2>2, PushedParts
  <2>4. s.dest \in Seq(Block) /\ s.pending \in Seq(Nat)
    BY <1>a, <2>1, <2>2, PushedType
  <2> HIDE DEF s
  <2>5. /\ Rising(s.dest) /\ IdsBelow(s.dest, c.nextId)
        /\ ~ s.full => c.nextId <= Len(s.dest)
    <3>1. FirstId + Len(c.local) = c.nextId /\ \A i \in 1 .. Len(c.local) : c.local[i].id = FirstId + i - 1
      BY <2>1 DEF Counts
    <3>2. /\ Rising(s.dest) /\ IdsBelow(s.dest, FirstId + Len(c.local))
          /\ m = Len(c.local) => FirstId + Len(c.local) <= Len(s.dest)
      BY <1>a, <1>c, <2>1, <2>2, <2>3, <3>1, RisingPushed
    <3>3. QED
      BY <2>3, <3>1, <3>2
  <2>6. /\ IF b THEN CloseSection(s.dest, s.pending)
           ELSE blocks' = s.dest /\ cur' = Fresh(s.pending, c.nextId) /\ UNCHANGED <<refs, sections>>
        /\ count' = s.count
    BY <1>8 DEF EndParagraph, c, s
  <2>7. CASE b
    <3>1. CloseSection(s.dest, s.pending)
      BY <2>6, <2>7
    <3>2. QED
      BY <1>h, <2>4, <2>5, <3>1
  <2>8. CASE ~ b
    <3>1. blocks' = s.dest /\ cur' = Fresh(s.pending, c.nextId) /\ sections' = sections
      BY <2>6, <2>8
    <3>2. cur' \in Reading /\ Counts(cur', c.nextId)
      BY <1>g, <2>2, <2>4, <3>1
    <3>3. count' < MaxBlocks => c.nextId <= Len(blocks')
      BY <2>3, <2>5, <2>6, <3>1, DocxAssumption
    <3>4. QED
      BY <1>c, <1>e, <2>2, <2>5, <3>1, <3>2, <3>3
  <2>9. QED
    BY <2>7, <2>8
<1>9. ASSUME NEW b \in BOOLEAN, Skip(b)
      PROVE  IdsInv'
  <2>1. CASE b
    <3>1. CloseSection(blocks, cur.pending)
      BY <1>9, <2>1 DEF Skip
    <3>2. QED
      BY <1>a, <1>b, <1>c, <1>h, <3>1
  <2>2. CASE ~ b
    <3>1. UNCHANGED <<cur, blocks, sections, count>>
      BY <1>9, <2>2 DEF Skip
    <3>2. QED
      BY <1>a, <1>c, <1>e, <3>1
  <2>3. QED
    BY <2>1, <2>2
<1>10. ASSUME NEW size \in 1 .. 2, NEW hints \in Nat, Table(size, hints)
       PROVE  IdsInv'
  <2> DEFINE o == Object(cur.nextId, size)
             s == Pushed(blocks, cur.pending, <<o>>)
  <2>1. mode = "flow" /\ count < MaxBlocks
    BY <1>10 DEF Table
  <2>2. o \in Obj /\ o.id = cur.nextId
    BY <1>a, <1>b, ObjectType
  <2>3. /\ blocks' = s.dest /\ cur' = Fresh(s.pending, cur.nextId + 1) /\ UNCHANGED sections
        /\ count' = s.count
    BY <1>10 DEF Table
  <2> HIDE DEF o
  <2>4. <<o>> \in Seq(Par \cup Obj) /\ Len(<<o>>) = 1 /\ <<o>>[1] = o
    BY <2>2
  <2>5. PICK ahead, m : /\ Parted(s.dest, blocks, cur.pending, <<o>>, ahead, m)
                        /\ s.full => s.count = MaxBlocks
                        /\ ~ s.full => m = Len(<<o>>)
    BY <1>a, <1>b, <2>1, <2>4, PushedParts
  <2>6. s.dest \in Seq(Block) /\ s.pending \in Seq(Nat)
    BY <1>a, <1>b, <2>1, <2>4, PushedType
  <2> HIDE DEF s
  <2>7. FirstId = cur.nextId
    BY <1>a, <1>b, <2>1 DEF FirstId
  <2>8. /\ Rising(s.dest) /\ IdsBelow(s.dest, cur.nextId + 1)
        /\ ~ s.full => cur.nextId + 1 <= Len(s.dest)
    <3>1. \A i \in 1 .. Len(<<o>>) : <<o>>[i].id = cur.nextId + i - 1
      BY <1>b, <2>2, <2>4
    <3> DEFINE l == <<o>>
    <3>2. /\ l \in Seq(Par \cup Obj) /\ Len(l) = 1 /\ Parted(s.dest, blocks, cur.pending, l, ahead, m)
          /\ \A i \in 1 .. Len(l) : l[i].id = cur.nextId + i - 1
          /\ ~ s.full => m = Len(l)
      BY <2>4, <2>5, <3>1
    <3> HIDE DEF l
    <3>3. cur.nextId <= Len(blocks) /\ IdsBelow(blocks, cur.nextId)
      BY <1>c, <2>1, <2>7
    <3>4. /\ Rising(s.dest) /\ IdsBelow(s.dest, cur.nextId + Len(l))
          /\ m = Len(l) => cur.nextId + Len(l) <= Len(s.dest)
      BY <1>a, <1>b, <1>c, <3>2, <3>3, RisingPushed
    <3>5. QED
      BY <3>2, <3>4
  <2>9. cur.nextId + 1 \in Nat
    BY <1>b
  <2>10. cur' \in Reading /\ Counts(cur', cur.nextId + 1)
    BY <1>g, <2>3, <2>6, <2>9
  <2>11. count' < MaxBlocks => cur.nextId + 1 <= Len(blocks')
    BY <2>3, <2>5, <2>8, DocxAssumption
  <2>12. QED
    BY <1>c, <1>e, <2>3, <2>8, <2>9, <2>10, <2>11
<1>11. CASE Finish
  <2> DEFINE bs == blocks \o BreakBlocks(cur.pending)
             last == [blocks |-> bs, refs |-> refs]
             now == sections'
  <2>1. /\ blocks' = <<>> /\ cur' = Fresh(<<>>, 0) /\ now = Append(sections, last)
    BY <1>11 DEF Finish
  <2>2. Rising(bs)
    <3> DEFINE w == BreakBlocks(cur.pending)
    <3>1. /\ w \in Seq(Block) /\ Len(w) = Len(cur.pending)
          /\ \A i \in 1 .. Len(cur.pending) : w[i] = [type |-> "break", at |-> cur.pending[i]]
      BY <1>b, BreakBlocksType
    <3> HIDE DEF w
    <3>2. ASSUME NEW i \in 1 .. Len(w) PROVE w[i].type = "break"
      <4>1. w[i] = [type |-> "break", at |-> cur.pending[i]]
        BY <3>1
      <4>2. QED
        BY <4>1
    <3>3. Rising(blocks \o w)
      BY <1>a, <1>c, <3>1, <3>2, RisingConcat
    <3>4. QED
      BY <3>3 DEF w
  <2>3. last.blocks = bs
    OBVIOUS
  <2> HIDE DEF bs, last, now
  <2>4. /\ Len(sections) \in Nat /\ Len(now) = Len(sections) + 1
        /\ \A k \in 1 .. Len(sections) : now[k] = sections[k]
        /\ now[Len(sections) + 1] = last
    BY <1>a, <2>1, LenProperties
  <2>5. \A k \in 1 .. Len(now) : k \in 1 .. Len(sections) \/ k = Len(sections) + 1
    BY <2>4
  <2>6. \A k \in 1 .. Len(now) : Rising(now[k].blocks)
    BY <1>c, <2>2, <2>3, <2>4, <2>5
  <2>7. cur' \in Reading /\ Counts(cur', 0) /\ 0 <= Len(blocks')
    <3>1. <<>> \in Seq(Nat) /\ 0 \in Nat
      BY EmptySeq
    <3>2. cur' \in Reading /\ Counts(cur', 0)
      BY <1>g, <2>1, <3>1
    <3>3. Len(blocks') = 0
      BY <2>1
    <3>4. QED
      BY <3>2, <3>3
  <2>8. QED
    BY <1>c, <1>e, <2>1, <2>6, <2>7 DEF now
<1>12. ASSUME NEW n \in {0, 2}, NEW b \in BOOLEAN, AttachNote(n, b)
       PROVE  IdsInv'
  <2> DEFINE old == sections[noted].blocks
             bs == NoteBlocks(Len(old), n, b)
             now == sections'
  <2>1. /\ noted \in 1 .. Len(sections) /\ Len(now) = Len(sections)
        /\ old \in Seq(Block)
        /\ \A k \in 1 .. Len(sections) : k # noted => now[k] = sections[k]
        /\ now[noted].blocks = old \o bs
    BY <1>12, <1>a, AttachType
  <2>2. Len(old) \in Nat
    BY <2>1, LenProperties
  <2>3. Rising(old)
    BY <1>c, <2>1
  <2> HIDE DEF old, now
  <2>4. bs \in Seq(Block) /\ \A i \in 1 .. Len(bs) : bs[i].type = "break" \/ bs[i].id = Len(old) + i - 1
    <3>1. /\ bs \in Seq(Block)
          /\ \A i \in 1 .. Len(bs) :
                \/ bs[i] = [type |-> "paragraph", id |-> Len(old) + i - 1, size |-> 1,
                            texts |-> <<>>, breaks |-> <<>>, page |-> 0]
                \/ bs[i] = SectionBreak
      BY <2>2, NoteBlocksType
    <3> HIDE DEF bs
    <3>2. ASSUME NEW i \in 1 .. Len(bs) PROVE bs[i].type = "break" \/ bs[i].id = Len(old) + i - 1
      <4>1. CASE bs[i] = SectionBreak
        BY <4>1 DEF SectionBreak
      <4>2. CASE bs[i] = [type |-> "paragraph", id |-> Len(old) + i - 1, size |-> 1,
                          texts |-> <<>>, breaks |-> <<>>, page |-> 0]
        BY <4>2
      <4>3. QED
        BY <3>1, <4>1, <4>2
    <3>3. QED
      BY <3>1, <3>2
  <2> HIDE DEF bs
  <2>5. Rising(old \o bs)
    BY <2>1, <2>3, <2>4, RisingConcat
  <2>6. \A k \in 1 .. Len(now) : Rising(now[k].blocks)
    BY <1>c, <2>1, <2>5
  <2>7. UNCHANGED <<cur, blocks, count>>
    BY <1>12 DEF AttachNote, story
  <2>8. QED
    BY <1>a, <1>c, <1>e, <2>6, <2>7 DEF now
<1>13. CASE NextSection
  <2>1. UNCHANGED <<cur, blocks, sections, count>>
    BY <1>13 DEF NextSection, story
  <2>2. QED
    BY <1>a, <1>c, <1>e, <2>1
<1>14. CASE UNCHANGED vars
  <2>1. UNCHANGED <<cur, blocks, sections, count>>
    BY <1>14 DEF vars, story, out
  <2>2. QED
    BY <1>a, <1>c, <1>e, <2>1
<1>15. QED
  BY <1>1, <1>2, <1>3, <1>4, <1>6, <1>7, <1>8, <1>9, <1>10, <1>11, <1>12, <1>13, <1>14, Steps

LEMMA IdsInvInit == Init => IdsInv
<1> SUFFICES ASSUME Init PROVE IdsInv
  OBVIOUS
<1>1. blocks = <<>> /\ sections = <<>> /\ cur = Fresh(<<>>, 0)
  BY DEF Init
<1>2. cur.local = <<>> /\ cur.nextId = 0
  BY <1>1 DEF Fresh
<1>3. Len(blocks) = 0 /\ Len(sections) = 0 /\ Len(cur.local) = 0
  BY <1>1, <1>2
<1>4. QED
  BY <1>2, <1>3 DEF IdsInv, FirstId, Rising, IdsBelow

\* Ids that rise are unique.
LEMMA RisingDistinct ==
    ASSUME NEW bs \in Seq(Block), Rising(bs)
    PROVE  IdsDistinct(bs)
<1>1. SUFFICES ASSUME NEW i \in 1 .. Len(bs), NEW k \in 1 .. Len(bs),
                      bs[i].type # "break", bs[k].type # "break", bs[i].id = bs[k].id
               PROVE  i = k
  BY DEF IdsDistinct
<1>2. Len(bs) \in Nat
  BY LenProperties
<1>3. bs[i].id \in Nat /\ bs[k].id \in Nat
  <2>1. bs[i] \in Block /\ bs[k] \in Block
    BY ElementOfSeq
  <2>2. QED
    BY <1>1, <2>1 DEF Block, Par, Obj, Brk
<1>4. CASE i < k
  <2>1. i \in 1 .. k - 1
    BY <1>2, <1>4
  <2>2. bs[i].id < bs[k].id
    BY <1>1, <2>1 DEF Rising
  <2>3. QED
    BY <1>1, <1>3, <2>2
<1>5. CASE k < i
  <2>1. k \in 1 .. i - 1
    BY <1>2, <1>5
  <2>2. bs[k].id < bs[i].id
    BY <1>1, <2>1 DEF Rising
  <2>3. QED
    BY <1>1, <1>3, <2>2
<1>6. QED
  BY <1>2, <1>4, <1>5

LEMMA IdsInvUnique == BlockInv /\ IdsInv => IdsUnique
<1> SUFFICES ASSUME BlockInv, IdsInv PROVE IdsUnique
  OBVIOUS
<1>1. \A k \in 1 .. Len(sections) : IdsDistinct(sections[k].blocks)
  <2>1. ASSUME NEW k \in 1 .. Len(sections) PROVE IdsDistinct(sections[k].blocks)
    <3>1. sections[k] \in [blocks : Seq(Block), refs : Seq(Nat)]
      BY ElementOfSeq DEF BlockInv
    <3>2. Rising(sections[k].blocks)
      BY DEF IdsInv
    <3>3. QED
      BY <3>1, <3>2, RisingDistinct
  <2>2. QED
    BY <2>1
<1>2. /\ cur.local \in Seq(Par \cup Obj) /\ blocks \in Seq(Block)
      /\ Len(cur.local) \in Nat /\ Len(blocks) \in Nat /\ cur.nextId \in Nat
  <2>1. cur.local \in Seq(Par \cup Obj) /\ blocks \in Seq(Block) /\ cur.nextId \in Nat
    BY DEF BlockInv, Reading
  <2>2. QED
    BY <2>1, LenProperties
<1> DEFINE tail == Append(cur.local, Coming)
           bs == blocks \o tail
           n == Len(blocks)
<1>3. /\ Len(tail) = Len(cur.local) + 1
      /\ \A i \in 1 .. Len(tail) : tail[i].id = FirstId + i - 1
  <2>1. /\ Len(tail) = Len(cur.local) + 1
        /\ \A i \in 1 .. Len(cur.local) : tail[i] = cur.local[i]
        /\ tail[Len(cur.local) + 1] = Coming /\ Coming.id = cur.nextId
        /\ \A i \in 1 .. Len(tail) : i \in 1 .. Len(cur.local) \/ i = Len(cur.local) + 1
    BY ComingAre
  <2>2. cur.nextId = FirstId + (Len(cur.local) + 1) - 1
    BY <1>2 DEF FirstId
  <2>3. \A i \in 1 .. Len(cur.local) : cur.local[i].id = FirstId + i - 1
    BY DEF IdsInv
  <2> HIDE DEF tail
  <2>4. QED
    BY <2>1, <2>2, <2>3
<1>4. /\ Len(bs) = n + Len(tail)
      /\ \A i \in 1 .. n + Len(tail) : bs[i] = IF i <= n THEN blocks[i] ELSE tail[i - n]
  <2>1. /\ Len(tail) \in Nat
        /\ tail \in Seq(Par \cup Obj \cup {Coming}) /\ blocks \in Seq(Block \cup Par \cup Obj \cup {Coming})
    <3>1. cur.local \in Seq(Par \cup Obj \cup {Coming})
      BY <1>2
    <3>2. QED
      BY <1>2, <1>3, <3>1, AppendProperties
  <2> DEFINE T == Block \cup Par \cup Obj \cup {Coming}
  <2>2. tail \in Seq(T) /\ blocks \in Seq(T)
    BY <2>1
  <2> HIDE DEF tail, T
  <2>3. QED
    BY <2>2, ConcatProperties
<1>5. FirstId \in Nat /\ \A i \in 1 .. n : blocks[i].type # "break" => blocks[i].id \in Nat /\ blocks[i].id < FirstId
  <2>1. FirstId \in Nat /\ \A i \in 1 .. n : blocks[i].type # "break" => blocks[i].id < FirstId
    BY DEF IdsInv, IdsBelow
  <2>2. ASSUME NEW i \in 1 .. n, blocks[i].type # "break" PROVE blocks[i].id \in Nat
    <3>1. blocks[i] \in Block
      BY <1>2, ElementOfSeq
    <3>2. QED
      BY <2>2, <3>1 DEF Block, Par, Obj, Brk
  <2>3. QED
    BY <2>1, <2>2
<1>6. IdsDistinct(blocks)
  BY <1>2, RisingDistinct DEF IdsInv
<1> HIDE DEF tail, bs, n
<1>7. IdsDistinct(bs)
  <2>1. SUFFICES ASSUME NEW i \in 1 .. Len(bs), NEW k \in 1 .. Len(bs),
                        bs[i].type # "break", bs[k].type # "break", bs[i].id = bs[k].id
                 PROVE  i = k
    BY DEF IdsDistinct
  <2>2. n \in Nat /\ Len(tail) \in Nat
    BY <1>2, <1>3 DEF n
  <2>3. ASSUME NEW j \in 1 .. Len(bs), ~ j <= n
        PROVE  bs[j].id = FirstId + (j - n) - 1 /\ j - n \in 1 .. Len(tail)
    BY <1>3, <1>4, <2>2, <2>3
  <2>4. ASSUME NEW j \in 1 .. Len(bs), j <= n, bs[j].type # "break"
        PROVE  j \in 1 .. n /\ bs[j] = blocks[j] /\ bs[j].id \in Nat /\ bs[j].id < FirstId
    BY <1>4, <1>5, <2>2, <2>4
  <2>5. CASE i <= n /\ k <= n
    BY <1>6, <2>1, <2>4, <2>5 DEF IdsDistinct, n
  <2>6. CASE ~ i <= n /\ ~ k <= n
    <3>1. /\ bs[i].id = FirstId + (i - n) - 1 /\ bs[k].id = FirstId + (k - n) - 1
      BY <2>3, <2>6
    <3>2. i \in Nat /\ k \in Nat
      BY <1>4, <2>2
    <3>3. FirstId + (i - n) - 1 = FirstId + (k - n) - 1
      BY <2>1, <3>1
    <3>4. FirstId \in Int /\ i \in Int /\ k \in Int /\ n \in Int
      BY <1>5, <2>2, <3>2
    <3>5. QED
      BY <3>3, <3>4
  <2>7. CASE i <= n /\ ~ k <= n
    BY <1>5, <2>1, <2>2, <2>3, <2>4, <2>7
  <2>8. CASE ~ i <= n /\ k <= n
    BY <1>5, <2>1, <2>2, <2>3, <2>4, <2>8
  <2>9. QED
    BY <2>5, <2>6, <2>7, <2>8
<1>8. QED
  BY <1>1, <1>7 DEF IdsUnique, bs, tail

(* Ids are unique in a section with its notes, however many paragraphs,    *)
(* images, textboxes and tables are before them, and whatever was left out *)
(* at the cap.                                                             *)
THEOREM IdsAreUnique == Spec => []IdsUnique
<1>1. Init => BlockInv /\ IdsInv
  BY BlockInvInit, IdsInvInit
<1>2. BlockInv /\ IdsInv /\ [Next]_vars => (BlockInv /\ IdsInv)'
  BY BlockInvNext, IdsInvNext
<1>3. BlockInv /\ IdsInv => IdsUnique
  BY IdsInvUnique
<1> QED
  BY <1>1, <1>2, <1>3, PTL DEF Spec

(***************************************************************************)
(* Texts.                                                                  *)
(***************************************************************************)
LEMMA TextSetIs ==
    /\ \A bs, p : p \in TextSet(bs) <=> \E i \in 1 .. Len(bs) : p \in ToSet(TextsOf(bs[i]))
    /\ \A secs, p : p \in SectionTexts(secs) <=> \E k \in 1 .. Len(secs) : p \in TextSet(secs[k].blocks)
    /\ TextSet(<<>>) = {} /\ InOrder(<<>>) /\ ToSet(<<>>) = {} /\ Increasing(<<>>)
    /\ SectionTexts(<<>>) = {} /\ SectionsInOrder(<<>>)
<1>1. ASSUME NEW bs, NEW p
      PROVE  p \in TextSet(bs) <=> \E i \in 1 .. Len(bs) : p \in ToSet(TextsOf(bs[i]))
  BY DEF TextSet
<1>2. ASSUME NEW secs, NEW p
      PROVE  p \in SectionTexts(secs) <=> \E k \in 1 .. Len(secs) : p \in TextSet(secs[k].blocks)
  BY DEF SectionTexts
<1>3. Len(<<>>) = 0
  OBVIOUS
<1>4. ToSet(<<>>) = {} /\ Increasing(<<>>) /\ InOrder(<<>>) /\ SectionsInOrder(<<>>)
  BY <1>3 DEF ToSet, Increasing, InOrder, SectionsInOrder
<1>5. TextSet(<<>>) = {} /\ SectionTexts(<<>>) = {}
  BY <1>3 DEF TextSet, SectionTexts
<1>6. QED
  BY <1>1, <1>2, <1>4, <1>5

\* A block behind a sequence of blocks.
LEMMA TextAppend ==
    ASSUME NEW S, NEW bs \in Seq(S), NEW b \in S
    PROVE  /\ TextSet(Append(bs, b)) = TextSet(bs) \cup ToSet(TextsOf(b))
           /\ InOrder(bs) /\ Increasing(TextsOf(b)) /\ AllBefore(TextSet(bs), ToSet(TextsOf(b)))
                 => InOrder(Append(bs, b))
<1> DEFINE cs == Append(bs, b)
           n == Len(bs)
<1>1. /\ n \in Nat /\ Len(cs) = n + 1 /\ cs[n + 1] = b
      /\ \A i \in 1 .. n : cs[i] = bs[i]
  BY AppendProperties, LenProperties
<1> HIDE DEF cs, n
<1>2. \A i \in 1 .. Len(cs) : i \in 1 .. n \/ i = n + 1
  BY <1>1
<1>3. TextSet(cs) = TextSet(bs) \cup ToSet(TextsOf(b))
  <2>1. ASSUME NEW p \in TextSet(cs) PROVE p \in TextSet(bs) \cup ToSet(TextsOf(b))
    <3>1. PICK i \in 1 .. Len(cs) : p \in ToSet(TextsOf(cs[i]))
      BY <2>1, TextSetIs
    <3>2. CASE i \in 1 .. n
      BY <1>1, <3>1, <3>2, TextSetIs DEF n
    <3>3. CASE i = n + 1
      BY <1>1, <3>1, <3>3
    <3>4. QED
      BY <1>2, <3>2, <3>3
  <2>2. ASSUME NEW p \in TextSet(bs) PROVE p \in TextSet(cs)
    <3>1. PICK i \in 1 .. n : p \in ToSet(TextsOf(bs[i]))
      BY <2>2, TextSetIs DEF n
    <3>2. i \in 1 .. Len(cs) /\ cs[i] = bs[i]
      BY <1>1
    <3>3. QED
      BY <3>1, <3>2, TextSetIs
  <2>3. ASSUME NEW p \in ToSet(TextsOf(b)) PROVE p \in TextSet(cs)
    <3>1. n + 1 \in 1 .. Len(cs) /\ cs[n + 1] = b
      BY <1>1
    <3>2. QED
      BY <2>3, <3>1, TextSetIs
  <2>4. QED
    BY <2>1, <2>2, <2>3
<1>4. ASSUME InOrder(bs), Increasing(TextsOf(b)), AllBefore(TextSet(bs), ToSet(TextsOf(b)))
      PROVE  InOrder(cs)
  <2>1. ASSUME NEW i \in 1 .. Len(cs)
        PROVE  /\ Increasing(TextsOf(cs[i]))
               /\ \A k \in 1 .. i - 1 : AllBefore(ToSet(TextsOf(cs[k])), ToSet(TextsOf(cs[i])))
    <3>1. CASE i \in 1 .. n
      <4>1. cs[i] = bs[i] /\ \A k \in 1 .. i - 1 : cs[k] = bs[k]
        BY <1>1, <3>1
      <4>2. QED
        BY <1>4, <3>1, <4>1 DEF InOrder, n
    <3>2. CASE i = n + 1
      <4>1. cs[i] = b /\ \A k \in 1 .. i - 1 : k \in 1 .. n /\ cs[k] = bs[k]
        BY <1>1, <3>2
      <4>2. \A k \in 1 .. n : ToSet(TextsOf(bs[k])) \subseteq TextSet(bs)
        BY TextSetIs DEF n
      <4>3. QED
        BY <1>4, <4>1, <4>2 DEF AllBefore
    <3>3. QED
      BY <1>2, <3>1, <3>2
  <2>2. QED
    BY <2>1 DEF InOrder
<1>5. QED
  BY <1>3, <1>4 DEF cs

\* Blocks without text behind a sequence of blocks.
LEMMA TextSilent ==
    ASSUME NEW S, NEW bs \in Seq(S), NEW cs \in Seq(S), \A i \in 1 .. Len(cs) : TextsOf(cs[i]) = <<>>
    PROVE  /\ TextSet(bs \o cs) = TextSet(bs)
           /\ InOrder(bs) => InOrder(bs \o cs)
<1> DEFINE ds == bs \o cs
           n == Len(bs)
<1>1. /\ n \in Nat /\ Len(cs) \in Nat /\ Len(ds) = n + Len(cs)
      /\ \A i \in 1 .. n + Len(cs) : ds[i] = IF i <= n THEN bs[i] ELSE cs[i - n]
  BY ConcatProperties, LenProperties
<1> HIDE DEF ds, n
<1>2. ASSUME NEW i \in 1 .. Len(ds)
      PROVE  (i \in 1 .. n /\ ds[i] = bs[i]) \/ (i > n /\ TextsOf(ds[i]) = <<>>)
  <2>1. CASE i <= n
    BY <1>1, <2>1
  <2>2. CASE ~ i <= n
    <3>1. i - n \in 1 .. Len(cs) /\ ds[i] = cs[i - n]
      BY <1>1, <2>2
    <3>2. QED
      BY <1>1, <2>2, <3>1
  <2>3. QED
    BY <2>1, <2>2
<1>3. \A i \in 1 .. n : i \in 1 .. Len(ds) /\ ds[i] = bs[i]
  BY <1>1
<1>4. TextSet(ds) = TextSet(bs)
  <2>1. ASSUME NEW p \in TextSet(ds) PROVE p \in TextSet(bs)
    <3>1. PICK i \in 1 .. Len(ds) : p \in ToSet(TextsOf(ds[i]))
      BY <2>1, TextSetIs
    <3>2. i \in 1 .. n /\ ds[i] = bs[i]
      BY <1>2, <3>1, TextSetIs
    <3>3. QED
      BY <3>1, <3>2, TextSetIs DEF n
  <2>2. ASSUME NEW p \in TextSet(bs) PROVE p \in TextSet(ds)
    <3>1. PICK i \in 1 .. n : p \in ToSet(TextsOf(bs[i]))
      BY <2>2, TextSetIs DEF n
    <3>2. QED
      BY <1>3, <3>1, TextSetIs
  <2>3. QED
    BY <2>1, <2>2
<1>5. ASSUME InOrder(bs) PROVE InOrder(ds)
  <2>1. ASSUME NEW i \in 1 .. Len(ds)
        PROVE  /\ Increasing(TextsOf(ds[i]))
               /\ \A k \in 1 .. i - 1 : AllBefore(ToSet(TextsOf(ds[k])), ToSet(TextsOf(ds[i])))
    <3>1. CASE i \in 1 .. n /\ ds[i] = bs[i]
      <4>1. \A k \in 1 .. i - 1 : ds[k] = bs[k]
        BY <1>1, <1>3, <3>1
      <4>2. QED
        BY <1>5, <3>1, <4>1 DEF InOrder, n
    <3>2. CASE TextsOf(ds[i]) = <<>>
      BY <3>2, TextSetIs DEF AllBefore
    <3>3. QED
      BY <1>2, <3>1, <3>2
  <2>2. QED
    BY <2>1 DEF InOrder
<1>6. QED
  BY <1>4, <1>5 DEF ds

\* A section behind the sections.
LEMMA TextSections ==
    ASSUME NEW S, NEW secs \in Seq(S), NEW sec \in S
    PROVE  /\ SectionTexts(Append(secs, sec)) = SectionTexts(secs) \cup TextSet(sec.blocks)
           /\ SectionsInOrder(secs) /\ InOrder(sec.blocks)
                 /\ AllBefore(SectionTexts(secs), TextSet(sec.blocks))
                 => SectionsInOrder(Append(secs, sec))
<1> DEFINE cs == Append(secs, sec)
           n == Len(secs)
<1>1. /\ n \in Nat /\ Len(cs) = n + 1 /\ cs[n + 1] = sec
      /\ \A i \in 1 .. n : cs[i] = secs[i]
  BY AppendProperties, LenProperties
<1> HIDE DEF cs, n
<1>2. \A i \in 1 .. Len(cs) : i \in 1 .. n \/ i = n + 1
  BY <1>1
<1>3. SectionTexts(cs) = SectionTexts(secs) \cup TextSet(sec.blocks)
  <2>1. ASSUME NEW p \in SectionTexts(cs) PROVE p \in SectionTexts(secs) \cup TextSet(sec.blocks)
    <3>1. PICK i \in 1 .. Len(cs) : p \in TextSet(cs[i].blocks)
      BY <2>1, TextSetIs
    <3>2. CASE i \in 1 .. n
      BY <1>1, <3>1, <3>2, TextSetIs DEF n
    <3>3. CASE i = n + 1
      BY <1>1, <3>1, <3>3
    <3>4. QED
      BY <1>2, <3>2, <3>3
  <2>2. ASSUME NEW p \in SectionTexts(secs) PROVE p \in SectionTexts(cs)
    <3>1. PICK i \in 1 .. n : p \in TextSet(secs[i].blocks)
      BY <2>2, TextSetIs DEF n
    <3>2. i \in 1 .. Len(cs) /\ cs[i] = secs[i]
      BY <1>1
    <3>3. QED
      BY <3>1, <3>2, TextSetIs
  <2>3. ASSUME NEW p \in TextSet(sec.blocks) PROVE p \in SectionTexts(cs)
    <3>1. n + 1 \in 1 .. Len(cs) /\ cs[n + 1] = sec
      BY <1>1
    <3>2. QED
      BY <2>3, <3>1, TextSetIs
  <2>4. QED
    BY <2>1, <2>2, <2>3
<1>4. ASSUME SectionsInOrder(secs), InOrder(sec.blocks), AllBefore(SectionTexts(secs), TextSet(sec.blocks))
      PROVE  SectionsInOrder(cs)
  <2>1. ASSUME NEW i \in 1 .. Len(cs)
        PROVE  /\ InOrder(cs[i].blocks)
               /\ \A k \in 1 .. i - 1 : AllBefore(TextSet(cs[k].blocks), TextSet(cs[i].blocks))
    <3>1. CASE i \in 1 .. n
      <4>1. cs[i] = secs[i] /\ \A k \in 1 .. i - 1 : cs[k] = secs[k]
        BY <1>1, <3>1
      <4>2. QED
        BY <1>4, <3>1, <4>1 DEF SectionsInOrder, n
    <3>2. CASE i = n + 1
      <4>1. cs[i] = sec /\ \A k \in 1 .. i - 1 : k \in 1 .. n /\ cs[k] = secs[k]
        BY <1>1, <3>2
      <4>2. \A k \in 1 .. n : TextSet(secs[k].blocks) \subseteq SectionTexts(secs)
        BY TextSetIs DEF n
      <4>3. QED
        BY <1>4, <4>1, <4>2 DEF AllBefore
    <3>3. QED
      BY <1>2, <3>1, <3>2
  <2>2. QED
    BY <2>1 DEF SectionsInOrder
<1>5. QED
  BY <1>3, <1>4 DEF cs

\* Sections with the same texts.
LEMMA TextSameSections ==
    ASSUME NEW secs, NEW now, Len(now) = Len(secs),
           \A k \in 1 .. Len(secs) : /\ TextSet(now[k].blocks) = TextSet(secs[k].blocks)
                                     /\ InOrder(secs[k].blocks) => InOrder(now[k].blocks)
    PROVE  /\ SectionTexts(now) = SectionTexts(secs)
           /\ Len(secs) \in Nat /\ SectionsInOrder(secs) => SectionsInOrder(now)
<1>1. SectionTexts(now) = SectionTexts(secs)
  <2>1. \A p : p \in SectionTexts(now) <=> p \in SectionTexts(secs)
    BY TextSetIs
  <2>2. QED
    BY <2>1
<1>2. ASSUME Len(secs) \in Nat, SectionsInOrder(secs) PROVE SectionsInOrder(now)
  <2>1. ASSUME NEW k \in 1 .. Len(secs), NEW l \in 1 .. k - 1
        PROVE  l \in 1 .. Len(secs)
    BY <1>2
  <2>2. QED
    BY <1>2, <2>1 DEF SectionsInOrder
<1>3. QED
  BY <1>1, <1>2

(* push_blocks keeps the texts in order, and what it leaves out is the end *)
(* of them.                                                                *)
LEMMA TextPushed ==
    ASSUME NEW dest \in Seq(Block), NEW pending \in Seq(Nat), NEW source \in Seq(Par \cup Obj),
           NEW bs, NEW ahead, NEW m, Parted(bs, dest, pending, source, ahead, m),
           InOrder(dest), InOrder(source), AllBefore(TextSet(dest), TextSet(source))
    PROVE  /\ InOrder(bs)
           /\ TextSet(dest) \subseteq TextSet(bs)
           /\ TextSet(bs) \subseteq TextSet(dest) \cup TextSet(source)
           /\ m = Len(source) => TextSet(source) \subseteq TextSet(bs)
           /\ \A p \in TextSet(bs), q \in TextSet(source) : q \in TextSet(bs) \/ p < q
<1>1. /\ Len(source) \in Nat /\ Len(dest) \in Nat /\ ahead \in Nat /\ m \in 0 .. Len(source)
      /\ Len(bs) = Len(dest) + ahead + m
  BY LenProperties DEF Parted
<1> DEFINE base == Len(dest) + ahead
\* Where a text of the section was.
<1>2. ASSUME NEW i \in 1 .. Len(bs)
      PROVE  \/ i \in 1 .. Len(dest) /\ TextsOf(bs[i]) = TextsOf(dest[i])
             \/ TextsOf(bs[i]) = <<>>
             \/ i > base /\ i - base \in 1 .. m /\ TextsOf(bs[i]) = TextsOf(source[i - base])
  <2>1. CASE i \in 1 .. Len(dest) /\ bs[i] = dest[i]
    BY <2>1
  <2>2. ASSUME NEW k \in 1 .. ahead, bs[i] = [type |-> "break", at |-> pending[k]]
        PROVE  TextsOf(bs[i]) = <<>>
    BY <2>2, BreaksHaveNoText
  <2>3. ASSUME NEW k \in 1 .. m, i = Len(dest) + ahead + k, k \in 1 .. Len(source),
               bs[i] = Written(pending, source, k)
        PROVE  i > base /\ i - base \in 1 .. m /\ TextsOf(bs[i]) = TextsOf(source[i - base])
    <3>1. TextsOf(bs[i]) = TextsOf(source[k])
      BY <2>3, WrittenType
    <3>2. i - base = k /\ i > base
      BY <1>1, <2>3
    <3>3. QED
      BY <3>1, <3>2
  <2>4. Origin(bs, i, dest, pending, source, ahead, m)
    BY <1>1, PartedCases
  <2>5. QED
    BY <2>1, <2>2, <2>3, <2>4 DEF Origin
<1>3. \A i \in 1 .. Len(dest) : i \in 1 .. Len(bs) /\ bs[i] = dest[i]
  BY <1>1 DEF Parted
<1>4. ASSUME NEW k \in 1 .. m
      PROVE  /\ base + k \in 1 .. Len(bs) /\ k \in 1 .. Len(source)
             /\ TextsOf(bs[base + k]) = TextsOf(source[k])
  <2>1. k \in 1 .. Len(source) /\ base + k \in 1 .. Len(bs)
    BY <1>1
  <2>2. bs[base + k] = Written(pending, source, k)
    BY <1>4 DEF Parted
  <2>3. QED
    BY <2>1, <2>2, WrittenType
<1> HIDE DEF base
<1>5. base \in Nat /\ Len(dest) <= base
  BY <1>1 DEF base
<1>6. TextSet(dest) \subseteq TextSet(bs)
  BY <1>3, TextSetIs
<1>7. ASSUME NEW p \in TextSet(bs)
      PROVE  p \in TextSet(dest) \/ \E k \in 1 .. m : p \in ToSet(TextsOf(source[k]))
  <2>1. PICK i \in 1 .. Len(bs) : p \in ToSet(TextsOf(bs[i]))
    BY <1>7, TextSetIs
  <2>2. QED
    BY <1>2, <2>1, TextSetIs
<1>8. \A k \in 1 .. m : ToSet(TextsOf(source[k])) \subseteq TextSet(source)
  BY <1>1, TextSetIs
<1>9. TextSet(bs) \subseteq TextSet(dest) \cup TextSet(source)
  BY <1>7, <1>8
<1>10. ASSUME NEW k \in 1 .. m, NEW p \in ToSet(TextsOf(source[k]))
       PROVE  p \in TextSet(bs)
  BY <1>4, <1>10, TextSetIs
<1>11. m = Len(source) => TextSet(source) \subseteq TextSet(bs)
  BY <1>10, TextSetIs
<1>12. ASSUME NEW p \in TextSet(bs), NEW q \in TextSet(source), q \notin TextSet(bs)
       PROVE  p < q
  <2>1. PICK l \in 1 .. Len(source) : q \in ToSet(TextsOf(source[l]))
    BY TextSetIs
  <2>2. ~ (l \in 1 .. m)
    BY <1>10, <1>12, <2>1
  <2>3. CASE p \in TextSet(dest)
    BY <2>3 DEF AllBefore
  <2>4. ASSUME NEW k \in 1 .. m, p \in ToSet(TextsOf(source[k])) PROVE p < q
    <3>1. k \in 1 .. l - 1
      BY <1>1, <2>2
    <3>2. AllBefore(ToSet(TextsOf(source[k])), ToSet(TextsOf(source[l])))
      BY <3>1 DEF InOrder
    <3>3. QED
      BY <2>1, <2>4, <3>2 DEF AllBefore
  <2>5. QED
    BY <1>7, <2>3, <2>4
<1>13. InOrder(bs)
  <2>1. ASSUME NEW i \in 1 .. Len(bs)
        PROVE  /\ Increasing(TextsOf(bs[i]))
               /\ \A k \in 1 .. i - 1 : AllBefore(ToSet(TextsOf(bs[k])), ToSet(TextsOf(bs[i])))
    <3>1. CASE i \in 1 .. Len(dest) /\ TextsOf(bs[i]) = TextsOf(dest[i])
      <4>1. \A k \in 1 .. i - 1 : k \in 1 .. Len(dest) /\ bs[k] = dest[k]
        BY <1>1, <1>3, <3>1
      <4>2. QED
        BY <3>1, <4>1 DEF InOrder
    <3>2. CASE TextsOf(bs[i]) = <<>>
      BY <3>2, TextSetIs DEF AllBefore
    <3>3. CASE i > base /\ i - base \in 1 .. m /\ TextsOf(bs[i]) = TextsOf(source[i - base])
      <4> DEFINE l == i - base
      <4>1. l \in 1 .. m /\ l \in 1 .. Len(source) /\ TextsOf(bs[i]) = TextsOf(source[l])
        BY <1>1, <3>3
      <4> HIDE DEF l
      <4>2. Increasing(TextsOf(bs[i]))
        BY <4>1 DEF InOrder
      <4>3. ASSUME NEW k \in 1 .. i - 1
            PROVE  AllBefore(ToSet(TextsOf(bs[k])), ToSet(TextsOf(source[l])))
        <5>1. k \in 1 .. Len(bs)
          BY <1>1
        <5>2. CASE k \in 1 .. Len(dest) /\ TextsOf(bs[k]) = TextsOf(dest[k])
          <6>1. ToSet(TextsOf(dest[k])) \subseteq TextSet(dest) /\ ToSet(TextsOf(source[l])) \subseteq TextSet(source)
            BY <1>8, <4>1, <5>2, TextSetIs
          <6>2. QED
            BY <5>2, <6>1 DEF AllBefore
        <5>3. CASE TextsOf(bs[k]) = <<>>
          BY <5>3, TextSetIs DEF AllBefore
        <5>4. CASE k > base /\ k - base \in 1 .. m /\ TextsOf(bs[k]) = TextsOf(source[k - base])
          <6>1. k - base \in 1 .. l - 1
            BY <1>1, <1>5, <5>4 DEF l
          <6>2. QED
            BY <4>1, <5>4, <6>1 DEF InOrder
        <5>5. QED
          BY <1>2, <5>1, <5>2, <5>3, <5>4
      <4>4. QED
        BY <4>1, <4>2, <4>3
    <3>4. QED
      BY <1>2, <3>1, <3>2, <3>3
  <2>2. QED
    BY <2>1 DEF InOrder
<1>14. QED
  BY <1>6, <1>9, <1>11, <1>12, <1>13

\* flush_paragraph_segment makes a block of the runs.
LEMMA TextFlushed ==
    ASSUME NEW c \in Reading, page \in Nat, ReadInOrder(c)
    PROVE  LET f == Flush(c)
           IN  f.runs = <<>> /\ ReadInOrder(f) /\ TextsRead(f) = TextsRead(c) /\ TextSet(f.local) = TextsRead(c)
<1> DEFINE f == Flush(c)
           p == [type |-> "paragraph", id |-> c.nextId, size |-> 1,
                 texts |-> c.runs, breaks |-> c.pending, page |-> page]
<1>1. /\ p \in Par /\ f.runs = <<>> /\ c.local \in Seq(Par \cup Obj)
      /\ f = c \/ f.local = Append(c.local, p)
  BY FlushType DEF Reading
<1>2. TextsOf(p) = c.runs /\ p \in Par \cup Obj
  BY <1>1 DEF TextsOf
<1> HIDE DEF f, p
<1>3. CASE f = c
  BY <1>1, <1>3, TextSetIs DEF TextsRead, f
<1>4. CASE f.local = Append(c.local, p)
  <2>1. TextSet(f.local) = TextSet(c.local) \cup ToSet(c.runs) /\ InOrder(f.local)
    BY <1>1, <1>2, <1>4, TextAppend DEF ReadInOrder
  <2>2. QED
    BY <1>1, <2>1, TextSetIs DEF ReadInOrder, TextsRead, AllBefore, f
<1>5. QED
  BY <1>1, <1>3, <1>4

\* What the document gets more.
LEMMA CompleteGrows ==
    ASSUME NEW A, NEW d, NEW e, NEW w \in BOOLEAN, Complete(A, d, w), Len(d) \in Nat, Len(e) = Len(d) + 1,
           \A i \in 1 .. Len(d) : e[i] = d[i]
    PROVE  /\ e[Len(e)].is # "text" => Complete(A, e, w)
           /\ e[Len(e)].is = "text" /\ ~ w => Complete(A \cup {Len(e)}, e, w)
<1>1. \A p \in 1 .. Len(e) : p \in 1 .. Len(d) \/ p = Len(e)
  OBVIOUS
<1>2. \A p \in 1 .. Len(d) : p \in 1 .. Len(e) /\ \A q \in 1 .. p : q \in 1 .. Len(d)
  OBVIOUS
<1>3. ASSUME NEW p \in A
      PROVE  /\ p \in 1 .. Len(e) /\ e[p].is = "text"
             /\ \A q \in 1 .. p : e[q].is = "text" => q \in A
  BY <1>2, <1>3 DEF Complete
<1>4. ASSUME e[Len(e)].is # "text" PROVE Complete(A, e, w)
  <2>1. ASSUME ~ w, NEW p \in 1 .. Len(e), e[p].is = "text" PROVE p \in A
    BY <1>1, <1>4, <2>1 DEF Complete
  <2>2. QED
    BY <1>3, <2>1 DEF Complete
<1>5. ASSUME e[Len(e)].is = "text", ~ w PROVE Complete(A \cup {Len(e)}, e, w)
  <2> DEFINE B == A \cup {Len(e)}
  <2>1. ASSUME NEW p \in 1 .. Len(e), e[p].is = "text" PROVE p \in B
    BY <1>1, <1>5, <2>1 DEF Complete
  <2>2. ASSUME NEW p \in B
        PROVE  /\ p \in 1 .. Len(e) /\ e[p].is = "text"
               /\ \A q \in 1 .. p : e[q].is = "text" => q \in B
    <3>1. p \in 1 .. Len(e) /\ e[p].is = "text"
      BY <1>3, <1>5, <2>2
    <3>2. \A q \in 1 .. p : q \in 1 .. Len(e)
      BY <3>1
    <3>3. QED
      BY <2>1, <3>1, <3>2
  <2> HIDE DEF B
  <2>3. Complete(B, e, w)
    BY <2>1, <2>2 DEF Complete
  <2>4. QED
    BY <2>3 DEF B
<1>6. QED
  BY <1>4, <1>5

\* Only a part of the texts, but none out of the middle.
LEMMA CompleteCut ==
    ASSUME NEW A, NEW B, NEW d, NEW w \in BOOLEAN, Complete(A, d, FALSE), B \subseteq A, Len(d) \in Nat,
           \A p \in B, q \in A : q \in B \/ p < q,
           ~ w => B = A
    PROVE  Complete(B, d, w)
<1>1. ASSUME NEW p \in B
      PROVE  /\ p \in 1 .. Len(d) /\ d[p].is = "text"
             /\ \A q \in 1 .. p : d[q].is = "text" => q \in B
  <2>1. p \in 1 .. Len(d) /\ d[p].is = "text" /\ \A q \in 1 .. p : d[q].is = "text" => q \in A
    BY DEF Complete
  <2>2. ASSUME NEW q \in 1 .. p, d[q].is = "text" PROVE q \in B
    <3>1. q \in A /\ ~ (p < q)
      BY <2>1, <2>2
    <3>2. QED
      BY <3>1
  <2>3. QED
    BY <2>1, <2>2
<1>2. ~ w => \A p \in 1 .. Len(d) : d[p].is = "text" => p \in B
  BY DEF Complete
<1>3. QED
  BY <1>1, <1>2 DEF Complete

(* Texts are read in order where the fields show them; the cap only cuts   *)
(* the end of them off, and nothing is read after it.                      *)
LEMMA TextInvNext == FieldInv /\ BlockInv /\ TextInv /\ [Next]_vars => TextInv'
<1> SUFFICES ASSUME FieldInv, BlockInv, TextInv, [Next]_vars PROVE TextInv'
  OBVIOUS
<1>a. /\ cur \in Reading /\ blocks \in Seq(Block) /\ refs \in Seq(Nat)
      /\ sections \in Seq([blocks : Seq(Block), refs : Seq(Nat)])
      /\ noted \in Nat \ {0} /\ src \in Seq([is : Kinds, page : Nat]) /\ page \in Nat
      /\ count \in 0 .. MaxBlocks /\ warned \in BOOLEAN
      /\ mode = "para" => count < MaxBlocks
      /\ mode # "para" => cur.local = <<>> /\ cur.runs = <<>>
      /\ warned => count = MaxBlocks
  BY DEF BlockInv
<1>b. /\ cur.local \in Seq(Par \cup Obj) /\ cur.runs \in Seq(Nat) /\ cur.pending \in Seq(Nat)
      /\ cur.nextId \in Nat /\ Len(src) \in Nat
  BY <1>a, LenProperties DEF Reading
<1> DEFINE A == SectionTexts(sections)
           B == TextSet(blocks)
           C == TextsRead(cur)
<1>c. /\ SectionsInOrder(sections) /\ InOrder(blocks) /\ ReadInOrder(cur)
      /\ AllBefore(A, B) /\ AllBefore(A \cup B, C) /\ Complete(A \cup B \cup C, src, warned)
  BY DEF TextInv
<1>d. count < MaxBlocks => ~ warned
  BY <1>a, DocxAssumption
\* What the actions leave to show: the texts of the sections, of the blocks and
\* of the paragraph.
<1>e. ASSUME NEW A1, NEW B1, NEW C1,
             A1 = SectionTexts(sections'), B1 = TextSet(blocks'), C1 = TextsRead(cur'),
             SectionsInOrder(sections'), InOrder(blocks'), ReadInOrder(cur'),
             AllBefore(A1, B1), AllBefore(A1 \cup B1, C1), Complete(A1 \cup B1 \cup C1, src', warned')
      PROVE  TextInv'
  BY <1>e DEF TextInv
\* In a paragraph that reads no text.
<1>f. ASSUME UNCHANGED <<blocks, sections>>, TextsRead(cur') = C, ReadInOrder(cur'),
             Complete(A \cup B \cup C, src', warned')
      PROVE  TextInv'
  BY <1>c, <1>f DEF TextInv
<1>g. ASSUME NEW kind \in Kinds \ {"text"}, Reads(kind)
      PROVE  \A X : Complete(X, src, warned) => Complete(X, src', warned)
  <2>1. /\ Len(src') = Len(src) + 1 /\ src'[Len(src')].is = kind
        /\ \A i \in 1 .. Len(src) : src'[i] = src[i]
    <3>1. /\ Len(src') = Here /\ src'[Here] = [is |-> kind, page |-> page]
          /\ \A i \in 1 .. Len(src) : src'[i] = src[i]
      BY <1>a, <1>g, ReadsType
    <3>2. QED
      BY <3>1 DEF Here
  <2>2. QED
    BY <1>a, <1>b, <1>g, <2>1, CompleteGrows
<1>h. ASSUME NEW pending \in Seq(Nat), NEW n \in Nat
      PROVE  TextsRead(Fresh(pending, n)) = {} /\ ReadInOrder(Fresh(pending, n))
  BY <1>h, FreshType, TextSetIs DEF TextsRead, ReadInOrder, AllBefore
<1>i. mode # "para" => C = {}
  BY <1>a, TextSetIs DEF TextsRead
\* A section that is closed.
<1>j. ASSUME NEW bs \in Seq(Block), NEW pending \in Seq(Nat), CloseSection(bs, pending),
             InOrder(bs), AllBefore(A, TextSet(bs))
      PROVE  /\ SectionTexts(sections') = A \cup TextSet(bs) /\ SectionsInOrder(sections')
             /\ TextSet(blocks') = {} /\ InOrder(blocks')
             /\ TextsRead(cur') = {} /\ ReadInOrder(cur')
  <2> DEFINE sec == [blocks |-> Append(bs, SectionBreak), refs |-> refs]
             S == [blocks : Seq(Block), refs : Seq(Nat)]
  <2>1. sections' = Append(sections, sec) /\ blocks' = <<>> /\ cur' = Fresh(pending, 0)
    BY <1>j DEF CloseSection
  <2>2. TextsOf(SectionBreak) = <<>> /\ SectionBreak \in Block
    BY BreaksHaveNoText DEF SectionBreak, Block, Brk
  <2>3. TextSet(Append(bs, SectionBreak)) = TextSet(bs) /\ InOrder(Append(bs, SectionBreak))
    <3>1. /\ Increasing(TextsOf(SectionBreak)) /\ ToSet(TextsOf(SectionBreak)) = {}
          /\ AllBefore(TextSet(bs), ToSet(TextsOf(SectionBreak)))
      BY <2>2, TextSetIs DEF AllBefore
    <3> HIDE DEF SectionBreak
    <3>2. ASSUME NEW b \in Block
          PROVE  /\ TextSet(Append(bs, b)) = TextSet(bs) \cup ToSet(TextsOf(b))
                 /\ InOrder(bs) /\ Increasing(TextsOf(b)) /\ AllBefore(TextSet(bs), ToSet(TextsOf(b)))
                       => InOrder(Append(bs, b))
      BY ZenonT(30), <1>j, TextAppend
    <3>3. QED
      BY <1>j, <2>2, <3>1, <3>2
  <2>4. sec \in S /\ sec.blocks = Append(bs, SectionBreak) /\ sections \in Seq(S)
    BY <1>a, <1>j, <2>2, AppendProperties
  <2> HIDE DEF sec, S
  <2>5. SectionTexts(sections') = A \cup TextSet(bs) /\ SectionsInOrder(sections')
    <3>1. InOrder(sec.blocks) /\ TextSet(sec.blocks) = TextSet(bs)
      BY <2>3, <2>4
    <3>2. SectionsInOrder(sections) /\ AllBefore(SectionTexts(sections), TextSet(sec.blocks))
      BY <1>c, <1>j, <3>1
    <3>3. /\ SectionTexts(Append(sections, sec)) = SectionTexts(sections) \cup TextSet(sec.blocks)
          /\ SectionsInOrder(sections) /\ InOrder(sec.blocks)
                /\ AllBefore(SectionTexts(sections), TextSet(sec.blocks))
                => SectionsInOrder(Append(sections, sec))
      BY ZenonT(30), <2>4, TextSections
    <3>4. QED
      BY <2>1, <3>1, <3>2, <3>3
  <2>6. TextsRead(cur') = {} /\ ReadInOrder(cur')
    BY <1>h, <1>j, <2>1
  <2>7. QED
    BY <2>1, <2>5, <2>6, TextSetIs
<1>1. CASE Text
  <2>1. mode = "para" /\ UNCHANGED <<blocks, sections, warned>> /\ ~ warned
    BY <1>1, <1>a, <1>d DEF Text, out, story
  <2>2. Visible <=> (AllTrue(nest) /\ Len(nest) <= MaxDepth)
    BY FieldInvVisible DEF VisibleExact
  <2>3. Len(nest) \in Nat
    BY LenProperties DEF FieldInv
  <2>4. CASE Visible
    <3>1. Reads("text") /\ cur' = [cur EXCEPT !.runs = Append(cur.runs, Here)]
      BY <1>1, <2>2, <2>3, <2>4, DocxAssumption DEF Text
    <3>2. /\ Len(src') = Here /\ src'[Here] = [is |-> "text", page |-> page] /\ Here = Len(src) + 1
          /\ \A i \in 1 .. Len(src) : src'[i] = src[i]
      BY <1>a, <3>1, ReadsType DEF Kinds, Here
    <3>3. Complete(A \cup B \cup C \cup {Here}, src', warned')
      <4>1. src'[Len(src')].is = "text" /\ Len(src') = Len(src) + 1
        BY <3>2
      <4> DEFINE X == A \cup B \cup C
      <4>2. Complete(X, src, warned)
        BY <1>c
      <4> HIDE DEF X
      <4>3. Complete(X \cup {Len(src')}, src', warned)
        BY <1>a, <1>b, <2>1, <3>2, <4>1, <4>2, CompleteGrows
      <4>4. QED
        BY <2>1, <3>2, <4>3 DEF X
    <3>4. \A p \in A \cup B \cup C : p \in Nat /\ p < Here
      <4>1. \A p \in A \cup B \cup C : p \in 1 .. Len(src)
        BY <1>c DEF Complete
      <4>2. QED
        BY <1>b, <3>2, <4>1
    <3>5. cur'.runs = Append(cur.runs, Here) /\ cur'.local = cur.local
      BY <1>a, <3>1 DEF Reading
    <3>6. /\ Len(cur.runs) \in Nat /\ Len(cur'.runs) = Len(cur.runs) + 1
          /\ cur'.runs[Len(cur.runs) + 1] = Here
          /\ \A i \in 1 .. Len(cur.runs) : cur'.runs[i] = cur.runs[i]
      BY <1>b, <3>5, LenProperties
    <3> DEFINE r == cur.runs
               t == cur'.runs
    <3>7. ToSet(t) = ToSet(r) \cup {Here} /\ \A i \in 1 .. Len(r) : r[i] \in C
      <4>1. \A i \in 1 .. Len(t) : i \in 1 .. Len(r) \/ i = Len(r) + 1
        BY <3>6
      <4>2. \A i \in 1 .. Len(r) : i \in 1 .. Len(t)
        BY <3>6
      <4>3. Len(r) + 1 \in 1 .. Len(t)
        BY <3>6
      <4>4. \A p : p \in ToSet(t) <=> \E i \in 1 .. Len(t) : p = t[i]
        BY DEF ToSet
      <4>5. \A p : p \in ToSet(r) <=> \E i \in 1 .. Len(r) : p = r[i]
        BY DEF ToSet
      <4>6. t[Len(r) + 1] = Here /\ \A i \in 1 .. Len(r) : t[i] = r[i]
        BY <3>6
      <4> HIDE DEF r, t
      <4>7. ToSet(t) = ToSet(r) \cup {Here}
        BY <4>1, <4>2, <4>3, <4>4, <4>5, <4>6
      <4>8. ToSet(r) \subseteq C
        BY DEF TextsRead, r
      <4>9. QED
        BY <4>5, <4>7, <4>8
    <3>8. TextsRead(cur') = C \cup {Here}
      BY <3>5, <3>7 DEF TextsRead
    <3>9. Increasing(t)
      <4>1. ASSUME NEW i \in 1 .. Len(t), NEW k \in 1 .. Len(t), i < k
            PROVE  t[i] < t[k]
        <5>1. i \in 1 .. Len(r) /\ (k \in 1 .. Len(r) \/ k = Len(r) + 1)
          BY <3>6, <4>1
        <5>2. CASE k \in 1 .. Len(r)
          BY <1>c, <3>6, <4>1, <5>1, <5>2 DEF ReadInOrder, Increasing
        <5>3. CASE k = Len(r) + 1
          BY <3>4, <3>6, <3>7, <5>1, <5>3
        <5>4. QED
          BY <5>1, <5>2, <5>3
      <4>2. QED
        BY <4>1 DEF Increasing
    <3>10. ReadInOrder(cur')
      <4>1. TextSet(cur.local) \subseteq C
        BY DEF TextsRead
      <4>2. AllBefore(TextSet(cur.local), ToSet(t))
        BY <1>c, <3>4, <3>7, <4>1 DEF ReadInOrder, AllBefore
      <4>3. QED
        BY <1>c, <3>5, <3>9, <4>2 DEF ReadInOrder
    <3>11. AllBefore(A \cup B, C \cup {Here})
      BY <1>c, <3>4 DEF AllBefore
    <3> HIDE DEF A, B, C
    <3>12. QED
      BY <1>c, <1>e, <2>1, <3>3, <3>8, <3>10, <3>11 DEF A, B
  <2>5. CASE ~ Visible
    <3>1. cur' = cur /\ (Reads("code") \/ Reads("deep"))
      BY <1>1, <2>2, <2>3, <2>5, DocxAssumption DEF Text
    <3>2. Complete(A \cup B \cup C, src', warned)
      BY <1>c, <1>g, <3>1 DEF Kinds
    <3>3. QED
      BY <1>c, <1>f, <2>1, <3>1, <3>2
  <2>6. QED
    BY <2>4, <2>5
<1>2. CASE FieldBegin \/ FieldSeparate \/ FieldEnd \/ Note
  <2>1. UNCHANGED <<cur, blocks, sections, src, warned>>
    BY <1>2 DEF FieldBegin, FieldSeparate, FieldEnd, Note, out, story
  <2>2. QED
    BY <1>c, <1>f, <2>1
<1>3. CASE Break
  <2>1. /\ UNCHANGED <<blocks, sections, warned>> /\ Reads("break")
        /\ cur' = [Segmented EXCEPT !.pending = Append(@, Here)]
    BY <1>3 DEF Break, out, story
  <2>2. Segmented \in Reading /\ TextsRead(Segmented) = C /\ ReadInOrder(Segmented)
    BY <1>a, <1>c, FlushType, TextFlushed DEF Segmented
  <2>3. cur'.local = Segmented.local /\ cur'.runs = Segmented.runs
    BY <2>1, <2>2 DEF Reading
  <2>4. TextsRead(cur') = C /\ ReadInOrder(cur')
    BY <2>2, <2>3 DEF TextsRead, ReadInOrder
  <2>5. Complete(A \cup B \cup C, src', warned)
    BY <1>c, <1>g, <2>1 DEF Kinds
  <2>6. QED
    BY <1>f, <2>1, <2>4, <2>5
<1>4. CASE PageHint
  <2>1. UNCHANGED <<blocks, sections, warned, src>> /\ cur' = Segmented
    BY <1>4 DEF PageHint, out, story
  <2>2. TextsRead(Segmented) = C /\ ReadInOrder(Segmented)
    BY <1>a, <1>c, TextFlushed DEF Segmented
  <2>3. QED
    BY <1>c, <1>f, <2>1, <2>2
<1>6. ASSUME NEW size \in 1 .. 2, NEW hints \in Nat, NEW shape \in BOOLEAN, Drawing(size, hints, shape)
      PROVE  TextInv'
  <2> DEFINE c == IF cur.runs # <<>> THEN Flush(cur) ELSE cur
  <2>1. c \in Reading /\ TextsRead(c) = C /\ ReadInOrder(c) /\ c.runs = <<>>
    BY <1>a, <1>c, FlushType, TextFlushed
  <2>2. UNCHANGED <<blocks, sections, warned>>
    BY <1>6 DEF Drawing, out, story
  <2>3. CASE shape
    <3> HIDE DEF c
    <3>1. cur' = c /\ src' = src
      BY <1>6, <2>3 DEF Drawing, c
    <3>2. QED
      BY <1>c, <1>f, <2>1, <2>2, <3>1
  <2>4. CASE ~ shape
    <3> HIDE DEF c
    <3> DEFINE o == Object(c.nextId, size)
    <3>1. /\ Reads("object")
          /\ cur' = [c EXCEPT !.local = Append(c.local, o), !.nextId = c.nextId + 1, !.emitted = TRUE]
      BY <1>6, <2>4 DEF Drawing, c
    <3>2. o \in Obj
      BY <1>a, <2>1, ObjectType DEF Reading
    <3> HIDE DEF o
    <3>3. o \in Par \cup Obj /\ TextsOf(o) = <<>> /\ c.local \in Seq(Par \cup Obj)
      BY <2>1, <3>2, BreaksHaveNoText DEF Reading
    <3>4. cur'.local = Append(c.local, o) /\ cur'.runs = c.runs
      BY <2>1, <3>1 DEF Reading
    <3>5. TextSet(cur'.local) = TextSet(c.local) /\ InOrder(cur'.local)
      <4>1. /\ Increasing(TextsOf(o)) /\ ToSet(TextsOf(o)) = {} /\ InOrder(c.local)
            /\ AllBefore(TextSet(c.local), ToSet(TextsOf(o)))
        BY <2>1, <3>3, TextSetIs DEF AllBefore, ReadInOrder
      <4>2. /\ TextSet(Append(c.local, o)) = TextSet(c.local) \cup ToSet(TextsOf(o))
            /\ InOrder(c.local) /\ Increasing(TextsOf(o)) /\ AllBefore(TextSet(c.local), ToSet(TextsOf(o)))
                  => InOrder(Append(c.local, o))
        BY ZenonT(30), <3>3, TextAppend
      <4>3. QED
        BY <3>4, <4>1, <4>2
    <3>6. TextsRead(cur') = C /\ ReadInOrder(cur')
      BY <2>1, <3>4, <3>5 DEF ReadInOrder, TextsRead
    <3>7. Complete(A \cup B \cup C, src', warned)
      BY <1>c, <1>g, <3>1 DEF Kinds
    <3>8. QED
      BY <1>f, <2>2, <3>6, <3>7
  <2>5. QED
    BY <2>3, <2>4
<1>7. ASSUME NEW b \in BOOLEAN, StartParagraph(b)
      PROVE  TextInv'
  <2>1. UNCHANGED <<blocks, sections, warned>> /\ C = {}
    BY <1>7, <1>i DEF StartParagraph, out, story
  <2>2. Append(cur.pending, Here) \in Seq(Nat)
    <3>1. Here \in Nat
      BY <1>b DEF Here
    <3>2. QED
      BY <1>b, <3>1, AppendProperties
  <2>3. TextsRead(cur') = {} /\ ReadInOrder(cur')
    BY <1>7, <1>b, <1>h, <2>2 DEF StartParagraph
  <2>4. Complete(A \cup B \cup C, src', warned)
    BY <1>7, <1>c, <1>g DEF StartParagraph, Kinds
  <2>5. QED
    BY <1>f, <2>1, <2>3, <2>4
<1>8. ASSUME NEW b \in BOOLEAN, EndParagraph(b)
      PROVE  TextInv'
  <2> DEFINE c == IF cur.runs # <<>> \/ ~ cur.emitted THEN Flush(cur) ELSE cur
             s == Pushed(blocks, c.pending, c.local)
  <2>1. /\ c \in Reading /\ ReadInOrder(c) /\ TextSet(c.local) = C /\ count < MaxBlocks /\ ~ warned
    <3>1. count < MaxBlocks
      BY <1>8, <1>a DEF EndParagraph
    <3>2. c \in Reading
      BY <1>a, FlushType
    <3>3. ReadInOrder(c) /\ TextSet(c.local) = C
      <4>1. CASE cur.runs # <<>> \/ ~ cur.emitted
        BY <1>a, <1>c, <4>1, TextFlushed
      <4>2. CASE ~ (cur.runs # <<>> \/ ~ cur.emitted)
        BY <1>c, <4>2, TextSetIs DEF TextsRead
      <4>3. QED
        BY <4>1, <4>2
    <3>4. QED
      BY <1>d, <3>1, <3>2, <3>3
  <2>2. c.pending \in Seq(Nat) /\ c.local \in Seq(Par \cup Obj) /\ c.nextId \in Nat
    BY <2>1 DEF Reading
  <2> HIDE DEF c
  <2>3. PICK ahead, m : /\ Parted(s.dest, blocks, c.pending, c.local, ahead, m)
                        /\ s.full => s.count = MaxBlocks
                        /\ ~ s.full => m = Len(c.local)
    BY <1>a, <2>1, <2>2, PushedParts
  <2>4. s.dest \in Seq(Block) /\ s.pending \in Seq(Nat) /\ s.full \in BOOLEAN
    BY <1>a, <2>1, <2>2, PushedType
  <2> HIDE DEF s
  <2> DEFINE D == TextSet(s.dest)
  <2>5. /\ InOrder(s.dest) /\ B \subseteq D /\ D \subseteq B \cup C
        /\ ~ s.full => C \subseteq D
        /\ \A p \in D, q \in C : q \in D \/ p < q
    <3>1. AllBefore(TextSet(blocks), TextSet(c.local))
      BY <1>c, <2>1 DEF AllBefore
    <3>2. InOrder(c.local)
      BY <2>1 DEF ReadInOrder
    <3>3. /\ InOrder(s.dest)
          /\ TextSet(blocks) \subseteq TextSet(s.dest)
          /\ TextSet(s.dest) \subseteq TextSet(blocks) \cup TextSet(c.local)
          /\ m = Len(c.local) => TextSet(c.local) \subseteq TextSet(s.dest)
          /\ \A p \in TextSet(s.dest), q \in TextSet(c.local) : q \in TextSet(s.dest) \/ p < q
      BY <1>a, <1>c, <2>2, <2>3, <3>1, <3>2, TextPushed
    <3> HIDE DEF C
    <3>4. QED
      BY <2>1, <2>3, <3>3
  <2>6. /\ IF b THEN CloseSection(s.dest, s.pending)
           ELSE blocks' = s.dest /\ cur' = Fresh(s.pending, c.nextId) /\ UNCHANGED <<refs, sections>>
        /\ warned' = (warned \/ s.full) /\ src' = src
    BY <1>8 DEF EndParagraph, c, s
  <2>7. AllBefore(A, D)
    BY <1>c, <2>5 DEF AllBefore
  <2>8. Complete(A \cup D, src', warned')
    <3> HIDE DEF A, B, C, D
    <3>1. Complete(A \cup B \cup C, src, FALSE)
      BY <1>c, <2>1 DEF Complete
    <3>2. \A p \in A \cup D, q \in A \cup B \cup C : q \in A \cup D \/ p < q
      BY <1>c, <2>5 DEF AllBefore
    <3>3. A \cup D \subseteq A \cup B \cup C
      BY <2>5
    <3>4. warned' \in BOOLEAN /\ (~ warned' => A \cup D = A \cup B \cup C)
      BY <1>a, <2>1, <2>4, <2>5, <2>6
    <3>5. Complete(A \cup D, src, warned')
      <4> DEFINE X == A \cup B \cup C
                 Y == A \cup D
                 w == warned'
      <4>1. /\ Complete(X, src, FALSE) /\ Y \subseteq X /\ Len(src) \in Nat /\ w \in BOOLEAN
            /\ \A p \in Y, q \in X : q \in Y \/ p < q
            /\ ~ w => Y = X
        BY <1>b, <3>1, <3>2, <3>3, <3>4
      <4> HIDE DEF X, Y, w
      <4>2. Complete(Y, src, w)
        BY <4>1, CompleteCut
      <4>3. QED
        BY <4>2 DEF Y, w
    <3>6. QED
      BY <2>6, <3>5
  <2>9. CASE b
    <3>1. CloseSection(s.dest, s.pending)
      BY <2>6, <2>9
    <3>2. /\ SectionTexts(sections') = A \cup D /\ SectionsInOrder(sections')
          /\ TextSet(blocks') = {} /\ InOrder(blocks')
          /\ TextsRead(cur') = {} /\ ReadInOrder(cur')
      BY <1>j, <2>4, <2>5, <2>7, <3>1
    <3> HIDE DEF A, D
    <3>3. AllBefore(A \cup D, {}) /\ AllBefore(A \cup D \cup {}, {}) /\ Complete(A \cup D \cup {} \cup {}, src', warned')
      BY <2>8 DEF AllBefore
    <3>4. QED
      BY <1>e, <3>2, <3>3
  <2>10. CASE ~ b
    <3>1. blocks' = s.dest /\ cur' = Fresh(s.pending, c.nextId) /\ sections' = sections
      BY <2>6, <2>10
    <3>2. TextsRead(cur') = {} /\ ReadInOrder(cur')
      BY <1>h, <2>2, <2>4, <3>1
    <3>3. A = SectionTexts(sections') /\ D = TextSet(blocks') /\ SectionsInOrder(sections')
      BY <1>c, <3>1
    <3> HIDE DEF A, D
    <3>4. AllBefore(A \cup D, {}) /\ Complete(A \cup D \cup {}, src', warned')
      BY <2>8 DEF AllBefore
    <3>5. InOrder(blocks')
      BY <2>5, <3>1
    <3>6. QED
      BY <1>e, <2>7, <3>2, <3>3, <3>4, <3>5
  <2>11. QED
    BY <2>9, <2>10
<1>9. ASSUME NEW b \in BOOLEAN, Skip(b)
      PROVE  TextInv'
  <2>1. Reads("gone") /\ warned' = TRUE /\ C = {}
    BY <1>9, <1>i DEF Skip
  <2>2. Complete(A \cup B, src', warned')
    <3>1. Complete(A \cup B, src', warned)
      BY <1>c, <1>g, <2>1 DEF Kinds
    <3>2. QED
      BY <2>1, <3>1 DEF Complete
  <2>3. CASE b
    <3>1. CloseSection(blocks, cur.pending)
      BY <1>9, <2>3 DEF Skip
    <3>2. /\ SectionTexts(sections') = A \cup B /\ SectionsInOrder(sections')
          /\ TextSet(blocks') = {} /\ InOrder(blocks')
          /\ TextsRead(cur') = {} /\ ReadInOrder(cur')
      BY <1>a, <1>b, <1>c, <1>j, <3>1
    <3> HIDE DEF A, B
    <3>3. AllBefore(A \cup B, {}) /\ AllBefore(A \cup B \cup {}, {}) /\ Complete(A \cup B \cup {} \cup {}, src', warned')
      BY <2>2 DEF AllBefore
    <3>4. QED
      BY <1>e, <3>2, <3>3
  <2>4. CASE ~ b
    <3>1. UNCHANGED <<cur, blocks, sections>>
      BY <1>9, <2>4 DEF Skip
    <3>2. Complete(A \cup B \cup C, src', warned')
      BY <2>1, <2>2
    <3>3. QED
      BY <1>c, <1>f, <3>1, <3>2
  <2>5. QED
    BY <2>3, <2>4
<1>10. ASSUME NEW size \in 1 .. 2, NEW hints \in Nat, Table(size, hints)
       PROVE  TextInv'
  <2> DEFINE o == Object(cur.nextId, size)
             l == <<o>>
             s == Pushed(blocks, cur.pending, l)
             D == TextSet(s.dest)
  <2>1. mode = "flow" /\ count < MaxBlocks /\ ~ warned /\ Reads("object") /\ C = {}
    BY <1>10, <1>d, <1>i DEF Table
  <2>2. o \in Obj
    BY <1>a, <1>b, ObjectType
  <2>3. /\ blocks' = s.dest /\ cur' = Fresh(s.pending, cur.nextId + 1) /\ UNCHANGED sections
        /\ warned' = (warned \/ s.full)
    BY <1>10 DEF Table
  <2> HIDE DEF o
  <2>4. /\ l \in Seq(Par \cup Obj) /\ TextSet(l) = {} /\ InOrder(l) /\ Len(l) = 1
    <3>1. TextsOf(o) = <<>>
      BY <2>2, BreaksHaveNoText
    <3>2. Len(l) = 1 /\ l[1] = o /\ l \in Seq(Par \cup Obj)
      BY <2>2
    <3> HIDE DEF l
    <3>3. \A i \in 1 .. Len(l) : i = 1 /\ ToSet(TextsOf(l[i])) = {}
      BY <3>1, <3>2, TextSetIs
    <3>4. TextSet(l) = {}
      BY <3>3, TextSetIs
    <3>5. InOrder(l)
      BY <3>1, <3>2, <3>3, TextSetIs DEF InOrder, AllBefore
    <3>6. QED
      BY <3>2, <3>4, <3>5
  <2> HIDE DEF l
  <2>5. PICK ahead, m : /\ Parted(s.dest, blocks, cur.pending, l, ahead, m)
                        /\ s.full => s.count = MaxBlocks
                        /\ ~ s.full => m = Len(l)
    BY <1>a, <1>b, <2>1, <2>4, PushedParts
  <2>6. s.dest \in Seq(Block) /\ s.pending \in Seq(Nat) /\ s.full \in BOOLEAN
    BY <1>a, <1>b, <2>1, <2>4, PushedType
  <2> HIDE DEF s
  <2>7. InOrder(s.dest) /\ D = B
    <3>1. AllBefore(TextSet(blocks), TextSet(l))
      BY <2>4 DEF AllBefore
    <3>2. /\ InOrder(s.dest)
          /\ TextSet(blocks) \subseteq TextSet(s.dest)
          /\ TextSet(s.dest) \subseteq TextSet(blocks) \cup TextSet(l)
      <4>1. /\ blocks \in Seq(Block) /\ cur.pending \in Seq(Nat) /\ l \in Seq(Par \cup Obj)
            /\ InOrder(blocks) /\ InOrder(l)
            /\ Parted(s.dest, blocks, cur.pending, l, ahead, m)
        BY <1>a, <1>b, <1>c, <2>4, <2>5
      <4> HIDE DEF Parted
      <4>2. QED
        BY <3>1, <4>1, TextPushed
    <3>3. QED
      BY <2>4, <3>2
  <2>8. TextsRead(cur') = {} /\ ReadInOrder(cur')
    <3>1. cur.nextId + 1 \in Nat
      BY <1>b
    <3>2. QED
      BY <1>h, <2>3, <2>6, <3>1
  <2>9. Complete(A \cup B, src', warned')
    <3>1. Complete(A \cup B, src', warned)
      BY <1>c, <1>g, <2>1 DEF Kinds
    <3>2. QED
      BY <2>1, <2>3, <3>1 DEF Complete
  <2>10. A = SectionTexts(sections') /\ B = TextSet(blocks') /\ SectionsInOrder(sections') /\ InOrder(blocks')
    BY <1>c, <2>3, <2>7
  <2> HIDE DEF A, B
  <2>11. AllBefore(A \cup B, {}) /\ Complete(A \cup B \cup {}, src', warned')
    BY <2>9 DEF AllBefore
  <2>12. QED
    BY <1>c, <1>e, <2>8, <2>10, <2>11
<1>11. CASE Finish
  <2> DEFINE w == BreakBlocks(cur.pending)
             bs == blocks \o w
             last == [blocks |-> bs, refs |-> refs]
             S == [blocks : Seq(Block), refs : Seq(Nat)]
  <2>1. /\ blocks' = <<>> /\ cur' = Fresh(<<>>, 0) /\ sections' = Append(sections, last)
        /\ UNCHANGED <<warned, src>> /\ C = {}
    BY <1>11, <1>i DEF Finish, story
  <2>2. bs \in Seq(Block) /\ TextSet(bs) = B /\ InOrder(bs)
    <3>1. /\ w \in Seq(Block) /\ Len(w) = Len(cur.pending)
          /\ \A i \in 1 .. Len(cur.pending) : w[i] = [type |-> "break", at |-> cur.pending[i]]
      BY <1>b, BreakBlocksType
    <3> HIDE DEF w
    <3>2. ASSUME NEW i \in 1 .. Len(w) PROVE TextsOf(w[i]) = <<>>
      <4>1. w[i] = [type |-> "break", at |-> cur.pending[i]]
        BY <3>1
      <4>2. QED
        BY <4>1, BreaksHaveNoText
    <3>3. QED
      BY <1>a, <1>c, <3>1, <3>2, TextSilent, ConcatProperties
  <2>3. last \in S /\ last.blocks = bs /\ sections \in Seq(S)
    BY <1>a, <2>2
  <2> HIDE DEF bs, last, S
  <2>4. SectionTexts(sections') = A \cup B /\ SectionsInOrder(sections')
    BY <1>c, <2>1, <2>2, <2>3, TextSections
  <2>5. TextsRead(cur') = {} /\ ReadInOrder(cur') /\ TextSet(blocks') = {} /\ InOrder(blocks')
    BY <1>h, <2>1, EmptySeq, TextSetIs
  <2> HIDE DEF A, B, C
  <2>6. /\ AllBefore(A \cup B, {}) /\ AllBefore(A \cup B \cup {}, {})
        /\ Complete(A \cup B \cup {} \cup {}, src', warned')
    BY <1>c, <2>1 DEF AllBefore
  <2>7. QED
    BY <1>e, <2>4, <2>5, <2>6
<1>12. ASSUME NEW n \in {0, 2}, NEW b \in BOOLEAN, AttachNote(n, b)
       PROVE  TextInv'
  <2> DEFINE old == sections[noted].blocks
             bs == NoteBlocks(Len(old), n, b)
             now == sections'
  <2>1. /\ noted \in 1 .. Len(sections) /\ Len(now) = Len(sections) /\ Len(sections) \in Nat
        /\ old \in Seq(Block)
        /\ \A k \in 1 .. Len(sections) : k # noted => now[k] = sections[k]
        /\ now[noted].blocks = old \o bs
    BY <1>12, <1>a, AttachType
  <2>2. Len(old) \in Nat
    BY <2>1, LenProperties
  <2> HIDE DEF old, now
  <2>3. bs \in Seq(Block) /\ \A i \in 1 .. Len(bs) : TextsOf(bs[i]) = <<>>
    <3>1. /\ bs \in Seq(Block)
          /\ \A i \in 1 .. Len(bs) :
                \/ bs[i] = [type |-> "paragraph", id |-> Len(old) + i - 1, size |-> 1,
                            texts |-> <<>>, breaks |-> <<>>, page |-> 0]
                \/ bs[i] = SectionBreak
      BY <2>2, NoteBlocksType
    <3> HIDE DEF bs
    <3>2. ASSUME NEW i \in 1 .. Len(bs) PROVE TextsOf(bs[i]) = <<>>
      <4>1. CASE bs[i] = SectionBreak
        BY <4>1, BreaksHaveNoText
      <4>2. CASE bs[i] = [type |-> "paragraph", id |-> Len(old) + i - 1, size |-> 1,
                          texts |-> <<>>, breaks |-> <<>>, page |-> 0]
        BY <4>2 DEF TextsOf
      <4>3. QED
        BY <3>1, <4>1, <4>2
    <3>3. QED
      BY <3>1, <3>2
  <2> HIDE DEF bs
  <2>4. TextSet(old \o bs) = TextSet(old) /\ (InOrder(old) => InOrder(old \o bs))
    BY <2>1, <2>3, TextSilent
  <2>5. \A k \in 1 .. Len(sections) : /\ TextSet(now[k].blocks) = TextSet(sections[k].blocks)
                                      /\ InOrder(sections[k].blocks) => InOrder(now[k].blocks)
    <3>1. \A k \in 1 .. Len(sections) : k # noted =>
              /\ TextSet(now[k].blocks) = TextSet(sections[k].blocks)
              /\ InOrder(sections[k].blocks) => InOrder(now[k].blocks)
      BY <2>1
    <3>2. /\ TextSet(now[noted].blocks) = TextSet(sections[noted].blocks)
          /\ InOrder(sections[noted].blocks) => InOrder(now[noted].blocks)
      BY <2>1, <2>4 DEF old
    <3>3. QED
      BY <3>1, <3>2
  <2>6. SectionTexts(now) = A /\ SectionsInOrder(now)
    BY <1>c, <2>1, <2>5, TextSameSections
  <2>7. UNCHANGED <<cur, blocks, src, warned>>
    BY <1>12 DEF AttachNote, story
  <2>8. QED
    BY <1>c, <2>6, <2>7 DEF TextInv, now
<1>13. CASE NextSection
  <2>1. UNCHANGED <<cur, blocks, sections, src, warned>>
    BY <1>13 DEF NextSection, story
  <2>2. QED
    BY <1>c, <1>f, <2>1
<1>14. CASE UNCHANGED vars
  <2>1. UNCHANGED <<cur, blocks, sections, src, warned>>
    BY <1>14 DEF vars, story, out
  <2>2. QED
    BY <1>c, <1>f, <2>1
<1>15. QED
  BY <1>1, <1>2, <1>3, <1>4, <1>6, <1>7, <1>8, <1>9, <1>10, <1>11, <1>12, <1>13, <1>14, Steps

LEMMA TextInvInit == Init => TextInv
<1> SUFFICES ASSUME Init PROVE TextInv
  OBVIOUS
<1>1. blocks = <<>> /\ sections = <<>> /\ cur = Fresh(<<>>, 0) /\ src = <<>>
  BY DEF Init
<1>2. cur.local = <<>> /\ cur.runs = <<>> /\ Len(src) = 0
  BY <1>1 DEF Fresh
<1>3. SectionTexts(sections) = {} /\ TextSet(blocks) = {} /\ TextsRead(cur) = {}
  BY <1>1, <1>2, TextSetIs DEF TextsRead
<1>4. SectionsInOrder(sections) /\ InOrder(blocks) /\ ReadInOrder(cur)
  BY <1>1, <1>2, TextSetIs DEF ReadInOrder, AllBefore
<1>5. Complete({}, src, warned)
  BY <1>2 DEF Complete
<1>6. AllBefore({}, {}) /\ AllBefore({} \cup {}, {}) /\ {} \cup {} \cup {} = {}
  BY DEF AllBefore
<1>7. QED
  BY <1>3, <1>4, <1>5, <1>6 DEF TextInv

\* The texts of the parts.
LEMMA PartTexts ==
    ASSUME BlockInv, TextInv
    PROVE  /\ \A k \in 1 .. Len(Parts) : InOrder(Parts[k])
           /\ \A k, l \in 1 .. Len(Parts) : k < l => AllBefore(TextSet(Parts[k]), TextSet(Parts[l]))
           /\ \A p : (\E k \in 1 .. Len(Parts) : p \in TextSet(Parts[k]))
                 <=> p \in SectionTexts(sections) \cup TextSet(blocks) \cup TextsRead(cur)
<1> DEFINE n == Len(sections)
           last == Append(cur.local, Coming)
           A == SectionTexts(sections)
           B == TextSet(blocks)
           C == TextsRead(cur)
<1>1. /\ n \in Nat /\ Len(Parts) = n + 2 /\ \A k \in 1 .. n : Parts[k] = sections[k].blocks
      /\ Parts[n + 1] = blocks /\ Parts[n + 2] = last
      /\ \A k \in 1 .. Len(Parts) : k \in 1 .. n \/ k = n + 1 \/ k = n + 2
  BY SpotsAre
<1>2. /\ SectionsInOrder(sections) /\ InOrder(blocks) /\ ReadInOrder(cur)
      /\ AllBefore(A, B) /\ AllBefore(A \cup B, C)
  BY DEF TextInv
<1>3. TextSet(last) = C /\ InOrder(last)
  <2> DEFINE S == Par \cup Obj \cup {Coming}
  <2>1. cur.local \in Seq(S) /\ Coming \in S /\ TextsOf(Coming) = cur.runs
    <3>1. cur.local \in Seq(Par \cup Obj)
      BY DEF BlockInv, Reading
    <3>2. QED
      BY <3>1, ComingAre
  <2> HIDE DEF S
  <2>2. /\ TextSet(Append(cur.local, Coming)) = TextSet(cur.local) \cup ToSet(TextsOf(Coming))
        /\ InOrder(cur.local) /\ Increasing(TextsOf(Coming))
              /\ AllBefore(TextSet(cur.local), ToSet(TextsOf(Coming)))
              => InOrder(Append(cur.local, Coming))
    BY ZenonT(30), <2>1, TextAppend
  <2>3. QED
    BY <1>2, <2>1, <2>2 DEF ReadInOrder, TextsRead
<1> HIDE DEF last, n
<1>4. ASSUME NEW k \in 1 .. Len(Parts) PROVE InOrder(Parts[k])
  <2>1. CASE k \in 1 .. n
    BY <1>1, <1>2, <2>1 DEF SectionsInOrder, n
  <2>2. QED
    BY <1>1, <1>2, <1>3, <2>1
<1>5. \A k \in 1 .. n : TextSet(Parts[k]) \subseteq A
  BY <1>1, TextSetIs DEF n
<1> HIDE DEF A, B, C
<1>6. TextSet(Parts[n + 1]) = B /\ TextSet(Parts[n + 2]) = C
  BY <1>1, <1>3 DEF B
<1>7. ASSUME NEW k \in 1 .. Len(Parts), NEW l \in 1 .. Len(Parts), k < l
      PROVE  AllBefore(TextSet(Parts[k]), TextSet(Parts[l]))
  <2>1. CASE l \in 1 .. n
    <3>1. k \in 1 .. l - 1 /\ k \in 1 .. n
      BY <1>1, <1>7, <2>1
    <3>2. AllBefore(TextSet(sections[k].blocks), TextSet(sections[l].blocks))
      BY <1>2, <2>1, <3>1 DEF SectionsInOrder, n
    <3>3. QED
      BY <1>1, <2>1, <3>1, <3>2
  <2>2. CASE l = n + 1
    <3>1. k \in 1 .. n
      BY <1>1, <1>7, <2>2
    <3>2. TextSet(Parts[k]) \subseteq A
      BY <1>5, <3>1
    <3>3. QED
      BY <1>2, <1>6, <2>2, <3>2 DEF AllBefore
  <2>3. CASE l = n + 2
    <3>1. TextSet(Parts[k]) \subseteq A \cup B
      BY <1>1, <1>5, <1>6, <1>7, <2>3
    <3>2. QED
      BY <1>2, <1>6, <2>3, <3>1 DEF AllBefore
  <2>4. QED
    BY <1>1, <2>1, <2>2, <2>3
<1>8. ASSUME NEW p
      PROVE  (\E k \in 1 .. Len(Parts) : p \in TextSet(Parts[k])) <=> p \in A \cup B \cup C
  <2>1. p \in A <=> \E k \in 1 .. n : p \in TextSet(Parts[k])
    BY <1>1, TextSetIs DEF A, n
  <2>2. n + 1 \in 1 .. Len(Parts) /\ n + 2 \in 1 .. Len(Parts) /\ \A k \in 1 .. n : k \in 1 .. Len(Parts)
    BY <1>1
  <2>3. QED
    BY <1>1, <1>6, <2>1, <2>2
<1>9. QED
  BY <1>4, <1>7, <1>8 DEF A, B, C

LEMMA TextInvExact == BlockInv /\ TextInv => TextExact
<1> SUFFICES ASSUME BlockInv, TextInv PROVE TextExact
  OBVIOUS
<1> DEFINE T == SectionTexts(sections) \cup TextSet(blocks) \cup TextsRead(cur)
<1>1. ASSUME NEW s \in Spots
      PROVE  \E k \in 1 .. Len(Parts) : \E i \in 1 .. Len(Parts[k]) :
                 /\ s = <<k, i>> /\ At(s) = Parts[k][i]
                 /\ Increasing(TextsOf(At(s))) /\ ToSet(TextsOf(At(s))) \subseteq TextSet(Parts[k])
  <2>1. PICK k \in 1 .. Len(Parts) : \E i \in 1 .. Len(Parts[k]) : s = <<k, i>>
    BY SpotsAre
  <2>2. PICK i \in 1 .. Len(Parts[k]) : s = <<k, i>>
    BY <2>1
  <2>3. At(s) = Parts[k][i]
    BY <2>2, SpotsAre
  <2>4. Increasing(TextsOf(Parts[k][i]))
    BY PartTexts DEF InOrder
  <2>5. ToSet(TextsOf(Parts[k][i])) \subseteq TextSet(Parts[k])
    BY TextSetIs
  <2>6. QED
    BY <2>2, <2>3, <2>4, <2>5
<1>2. \A s \in Spots : Increasing(TextsOf(At(s)))
  BY <1>1
<1>3. ASSUME NEW s \in Spots, NEW t \in Spots, Before(s, t),
             NEW p \in ToSet(TextsOf(At(s))), NEW q \in ToSet(TextsOf(At(t)))
      PROVE  p < q
  <2>1. PICK k \in 1 .. Len(Parts) : \E i \in 1 .. Len(Parts[k]) :
                 s = <<k, i>> /\ At(s) = Parts[k][i] /\ ToSet(TextsOf(At(s))) \subseteq TextSet(Parts[k])
    BY <1>1
  <2>2. PICK i \in 1 .. Len(Parts[k]) :
                 s = <<k, i>> /\ At(s) = Parts[k][i] /\ ToSet(TextsOf(At(s))) \subseteq TextSet(Parts[k])
    BY <2>1
  <2>3. PICK l \in 1 .. Len(Parts) : \E j \in 1 .. Len(Parts[l]) :
                 t = <<l, j>> /\ At(t) = Parts[l][j] /\ ToSet(TextsOf(At(t))) \subseteq TextSet(Parts[l])
    BY <1>1
  <2>4. PICK j \in 1 .. Len(Parts[l]) :
                 t = <<l, j>> /\ At(t) = Parts[l][j] /\ ToSet(TextsOf(At(t))) \subseteq TextSet(Parts[l])
    BY <2>3
  <2>5. k < l \/ (k = l /\ i < j)
    BY <1>3, <2>2, <2>4 DEF Before
  <2>6. CASE k < l
    <3>1. AllBefore(TextSet(Parts[k]), TextSet(Parts[l]))
      BY <2>6, PartTexts
    <3>2. QED
      BY <2>2, <2>4, <3>1 DEF AllBefore
  <2>7. CASE k = l /\ i < j
    <3>1. InOrder(Parts[l]) /\ i \in 1 .. j - 1
      BY <2>7, PartTexts
    <3>2. AllBefore(ToSet(TextsOf(Parts[l][i])), ToSet(TextsOf(Parts[l][j])))
      BY <3>1 DEF InOrder
    <3>3. QED
      BY <2>2, <2>4, <2>7, <3>2 DEF AllBefore
  <2>8. QED
    BY <2>5, <2>6, <2>7
<1>4. ASSUME NEW p PROVE Shown(p) <=> p \in T
  <2>1. ASSUME NEW s \in Spots, p \in ToSet(TextsOf(At(s))) PROVE p \in T
    <3>1. \E k \in 1 .. Len(Parts) : p \in TextSet(Parts[k])
      BY <1>1, <2>1
    <3>2. QED
      BY <3>1, PartTexts
  <2>2. ASSUME p \in T PROVE \E s \in Spots : p \in ToSet(TextsOf(At(s)))
    <3>1. PICK k \in 1 .. Len(Parts) : p \in TextSet(Parts[k])
      BY <2>2, PartTexts
    <3>2. PICK i \in 1 .. Len(Parts[k]) : p \in ToSet(TextsOf(Parts[k][i]))
      BY <3>1, TextSetIs
    <3>3. <<k, i>> \in Spots /\ At(<<k, i>>) = Parts[k][i]
      BY SpotsAre
    <3>4. QED
      BY <3>2, <3>3
  <2> HIDE DEF T
  <2>3. QED
    BY <2>1, <2>2 DEF Shown
<1>5. Complete(T, src, warned)
  BY DEF TextInv
<1> HIDE DEF T
<1>6. /\ \A p \in 1 .. Len(src) : Shown(p) => IsText(p) /\ \A q \in 1 .. p : IsText(q) => Shown(q)
      /\ ~ warned => \A p \in 1 .. Len(src) : IsText(p) => Shown(p)
  BY <1>4, <1>5 DEF Complete, IsText
<1>7. QED
  BY <1>2, <1>3, <1>6 DEF TextExact

(* The text that is shown is the document's without its field instructions, *)
(* in order and each piece once, whatever spans what; over the limit of     *)
(* blocks it ends, with a warning, and nothing comes after the gap.         *)
THEOREM TextsAreExact == Spec => []TextExact
<1>1. Init => FieldInv /\ BlockInv /\ TextInv
  BY FieldInvInit, BlockInvInit, TextInvInit
<1>2. FieldInv /\ BlockInv /\ TextInv /\ [Next]_vars => (FieldInv /\ BlockInv /\ TextInv)'
  BY FieldInvNext, BlockInvNext, TextInvNext
<1>3. FieldInv /\ BlockInv /\ TextInv => TextExact
  BY TextInvExact
<1> QED
  BY <1>1, <1>2, <1>3, PTL DEF Spec

(***************************************************************************)
(* Breaks.                                                                 *)
(***************************************************************************)
LEMMA BreakSetIs ==
    /\ \A bs, p : p \in BreakSet(bs) <=> \E i \in 1 .. Len(bs) : p \in ToSet(BreaksOf(bs[i]))
    /\ \A secs, p : p \in SectionBreaks(secs) <=> \E k \in 1 .. Len(secs) : p \in BreakSet(secs[k].blocks)
    /\ BreakSet(<<>>) = {} /\ OnceEach(<<>>) /\ ToSet(<<>>) = {} /\ Once(<<>>)
    /\ SectionBreaks(<<>>) = {} /\ SectionsOnce(<<>>)
<1>1. ASSUME NEW bs, NEW p
      PROVE  p \in BreakSet(bs) <=> \E i \in 1 .. Len(bs) : p \in ToSet(BreaksOf(bs[i]))
  BY DEF BreakSet
<1>2. ASSUME NEW secs, NEW p
      PROVE  p \in SectionBreaks(secs) <=> \E k \in 1 .. Len(secs) : p \in BreakSet(secs[k].blocks)
  BY DEF SectionBreaks
<1>3. Len(<<>>) = 0
  OBVIOUS
<1>4. ToSet(<<>>) = {} /\ Once(<<>>) /\ OnceEach(<<>>) /\ SectionsOnce(<<>>)
  BY <1>3 DEF ToSet, Once, OnceEach, SectionsOnce
<1>5. BreakSet(<<>>) = {} /\ SectionBreaks(<<>>) = {}
  BY <1>3 DEF BreakSet, SectionBreaks
<1>6. QED
  BY <1>1, <1>2, <1>4, <1>5

\* A block behind a sequence of blocks.
LEMMA BreaksAppend ==
    ASSUME NEW S, NEW bs \in Seq(S), NEW b \in S
    PROVE  /\ BreakSet(Append(bs, b)) = BreakSet(bs) \cup ToSet(BreaksOf(b))
           /\ OnceEach(bs) /\ Once(BreaksOf(b)) /\ Apart(BreakSet(bs), ToSet(BreaksOf(b)))
                 => OnceEach(Append(bs, b))
<1> DEFINE cs == Append(bs, b)
           n == Len(bs)
<1>1. /\ n \in Nat /\ Len(cs) = n + 1 /\ cs[n + 1] = b
      /\ \A i \in 1 .. n : cs[i] = bs[i]
  BY AppendProperties, LenProperties
<1> HIDE DEF cs, n
<1>2. \A i \in 1 .. Len(cs) : i \in 1 .. n \/ i = n + 1
  BY <1>1
<1>3. BreakSet(cs) = BreakSet(bs) \cup ToSet(BreaksOf(b))
  <2>1. ASSUME NEW p \in BreakSet(cs) PROVE p \in BreakSet(bs) \cup ToSet(BreaksOf(b))
    <3>1. PICK i \in 1 .. Len(cs) : p \in ToSet(BreaksOf(cs[i]))
      BY <2>1, BreakSetIs
    <3>2. CASE i \in 1 .. n
      BY <1>1, <3>1, <3>2, BreakSetIs DEF n
    <3>3. CASE i = n + 1
      BY <1>1, <3>1, <3>3
    <3>4. QED
      BY <1>2, <3>2, <3>3
  <2>2. ASSUME NEW p \in BreakSet(bs) PROVE p \in BreakSet(cs)
    <3>1. PICK i \in 1 .. n : p \in ToSet(BreaksOf(bs[i]))
      BY <2>2, BreakSetIs DEF n
    <3>2. i \in 1 .. Len(cs) /\ cs[i] = bs[i]
      BY <1>1
    <3>3. QED
      BY <3>1, <3>2, BreakSetIs
  <2>3. ASSUME NEW p \in ToSet(BreaksOf(b)) PROVE p \in BreakSet(cs)
    <3>1. n + 1 \in 1 .. Len(cs) /\ cs[n + 1] = b
      BY <1>1
    <3>2. QED
      BY <2>3, <3>1, BreakSetIs
  <2>4. QED
    BY <2>1, <2>2, <2>3
<1>4. ASSUME OnceEach(bs), Once(BreaksOf(b)), Apart(BreakSet(bs), ToSet(BreaksOf(b)))
      PROVE  OnceEach(cs)
  <2>1. ASSUME NEW i \in 1 .. Len(cs)
        PROVE  /\ Once(BreaksOf(cs[i]))
               /\ \A k \in 1 .. i - 1 : Apart(ToSet(BreaksOf(cs[k])), ToSet(BreaksOf(cs[i])))
    <3>1. CASE i \in 1 .. n
      <4>1. cs[i] = bs[i] /\ \A k \in 1 .. i - 1 : cs[k] = bs[k]
        BY <1>1, <3>1
      <4>2. QED
        BY <1>4, <3>1, <4>1 DEF OnceEach, n
    <3>2. CASE i = n + 1
      <4>1. cs[i] = b /\ \A k \in 1 .. i - 1 : k \in 1 .. n /\ cs[k] = bs[k]
        BY <1>1, <3>2
      <4>2. \A k \in 1 .. n : ToSet(BreaksOf(bs[k])) \subseteq BreakSet(bs)
        BY BreakSetIs DEF n
      <4>3. QED
        BY <1>4, <4>1, <4>2 DEF Apart
    <3>3. QED
      BY <1>2, <3>1, <3>2
  <2>2. QED
    BY <2>1 DEF OnceEach
<1>5. QED
  BY <1>3, <1>4 DEF cs

\* Blocks without breaks behind a sequence of blocks.
LEMMA BreaksSilent ==
    ASSUME NEW S, NEW bs \in Seq(S), NEW cs \in Seq(S), \A i \in 1 .. Len(cs) : BreaksOf(cs[i]) = <<>>
    PROVE  /\ BreakSet(bs \o cs) = BreakSet(bs)
           /\ OnceEach(bs) => OnceEach(bs \o cs)
<1> DEFINE ds == bs \o cs
           n == Len(bs)
<1>1. /\ n \in Nat /\ Len(cs) \in Nat /\ Len(ds) = n + Len(cs)
      /\ \A i \in 1 .. n + Len(cs) : ds[i] = IF i <= n THEN bs[i] ELSE cs[i - n]
  BY ConcatProperties, LenProperties
<1> HIDE DEF ds, n
<1>2. ASSUME NEW i \in 1 .. Len(ds)
      PROVE  (i \in 1 .. n /\ ds[i] = bs[i]) \/ (i > n /\ BreaksOf(ds[i]) = <<>>)
  <2>1. CASE i <= n
    BY <1>1, <2>1
  <2>2. CASE ~ i <= n
    <3>1. i - n \in 1 .. Len(cs) /\ ds[i] = cs[i - n]
      BY <1>1, <2>2
    <3>2. QED
      BY <1>1, <2>2, <3>1
  <2>3. QED
    BY <2>1, <2>2
<1>3. \A i \in 1 .. n : i \in 1 .. Len(ds) /\ ds[i] = bs[i]
  BY <1>1
<1>4. BreakSet(ds) = BreakSet(bs)
  <2>1. ASSUME NEW p \in BreakSet(ds) PROVE p \in BreakSet(bs)
    <3>1. PICK i \in 1 .. Len(ds) : p \in ToSet(BreaksOf(ds[i]))
      BY <2>1, BreakSetIs
    <3>2. i \in 1 .. n /\ ds[i] = bs[i]
      BY <1>2, <3>1, BreakSetIs
    <3>3. QED
      BY <3>1, <3>2, BreakSetIs DEF n
  <2>2. ASSUME NEW p \in BreakSet(bs) PROVE p \in BreakSet(ds)
    <3>1. PICK i \in 1 .. n : p \in ToSet(BreaksOf(bs[i]))
      BY <2>2, BreakSetIs DEF n
    <3>2. QED
      BY <1>3, <3>1, BreakSetIs
  <2>3. QED
    BY <2>1, <2>2
<1>5. ASSUME OnceEach(bs) PROVE OnceEach(ds)
  <2>1. ASSUME NEW i \in 1 .. Len(ds)
        PROVE  /\ Once(BreaksOf(ds[i]))
               /\ \A k \in 1 .. i - 1 : Apart(ToSet(BreaksOf(ds[k])), ToSet(BreaksOf(ds[i])))
    <3>1. CASE i \in 1 .. n /\ ds[i] = bs[i]
      <4>1. \A k \in 1 .. i - 1 : ds[k] = bs[k]
        BY <1>1, <1>3, <3>1
      <4>2. QED
        BY <1>5, <3>1, <4>1 DEF OnceEach, n
    <3>2. CASE BreaksOf(ds[i]) = <<>>
      BY <3>2, BreakSetIs DEF Apart
    <3>3. QED
      BY <1>2, <3>1, <3>2
  <2>2. QED
    BY <2>1 DEF OnceEach
<1>6. QED
  BY <1>4, <1>5 DEF ds

\* A section behind the sections.
LEMMA BreaksSections ==
    ASSUME NEW S, NEW secs \in Seq(S), NEW sec \in S
    PROVE  /\ SectionBreaks(Append(secs, sec)) = SectionBreaks(secs) \cup BreakSet(sec.blocks)
           /\ SectionsOnce(secs) /\ OnceEach(sec.blocks)
                 /\ Apart(SectionBreaks(secs), BreakSet(sec.blocks))
                 => SectionsOnce(Append(secs, sec))
<1> DEFINE cs == Append(secs, sec)
           n == Len(secs)
<1>1. /\ n \in Nat /\ Len(cs) = n + 1 /\ cs[n + 1] = sec
      /\ \A i \in 1 .. n : cs[i] = secs[i]
  BY AppendProperties, LenProperties
<1> HIDE DEF cs, n
<1>2. \A i \in 1 .. Len(cs) : i \in 1 .. n \/ i = n + 1
  BY <1>1
<1>3. SectionBreaks(cs) = SectionBreaks(secs) \cup BreakSet(sec.blocks)
  <2>1. ASSUME NEW p \in SectionBreaks(cs) PROVE p \in SectionBreaks(secs) \cup BreakSet(sec.blocks)
    <3>1. PICK i \in 1 .. Len(cs) : p \in BreakSet(cs[i].blocks)
      BY <2>1, BreakSetIs
    <3>2. CASE i \in 1 .. n
      BY <1>1, <3>1, <3>2, BreakSetIs DEF n
    <3>3. CASE i = n + 1
      BY <1>1, <3>1, <3>3
    <3>4. QED
      BY <1>2, <3>2, <3>3
  <2>2. ASSUME NEW p \in SectionBreaks(secs) PROVE p \in SectionBreaks(cs)
    <3>1. PICK i \in 1 .. n : p \in BreakSet(secs[i].blocks)
      BY <2>2, BreakSetIs DEF n
    <3>2. i \in 1 .. Len(cs) /\ cs[i] = secs[i]
      BY <1>1
    <3>3. QED
      BY <3>1, <3>2, BreakSetIs
  <2>3. ASSUME NEW p \in BreakSet(sec.blocks) PROVE p \in SectionBreaks(cs)
    <3>1. n + 1 \in 1 .. Len(cs) /\ cs[n + 1] = sec
      BY <1>1
    <3>2. QED
      BY <2>3, <3>1, BreakSetIs
  <2>4. QED
    BY <2>1, <2>2, <2>3
<1>4. ASSUME SectionsOnce(secs), OnceEach(sec.blocks), Apart(SectionBreaks(secs), BreakSet(sec.blocks))
      PROVE  SectionsOnce(cs)
  <2>1. ASSUME NEW i \in 1 .. Len(cs)
        PROVE  /\ OnceEach(cs[i].blocks)
               /\ \A k \in 1 .. i - 1 : Apart(BreakSet(cs[k].blocks), BreakSet(cs[i].blocks))
    <3>1. CASE i \in 1 .. n
      <4>1. cs[i] = secs[i] /\ \A k \in 1 .. i - 1 : cs[k] = secs[k]
        BY <1>1, <3>1
      <4>2. QED
        BY <1>4, <3>1, <4>1 DEF SectionsOnce, n
    <3>2. CASE i = n + 1
      <4>1. cs[i] = sec /\ \A k \in 1 .. i - 1 : k \in 1 .. n /\ cs[k] = secs[k]
        BY <1>1, <3>2
      <4>2. \A k \in 1 .. n : BreakSet(secs[k].blocks) \subseteq SectionBreaks(secs)
        BY BreakSetIs DEF n
      <4>3. QED
        BY <1>4, <4>1, <4>2 DEF Apart
    <3>3. QED
      BY <1>2, <3>1, <3>2
  <2>2. QED
    BY <2>1 DEF SectionsOnce
<1>5. QED
  BY <1>3, <1>4 DEF cs

\* Sections with the same breaks.
LEMMA BreaksSameSections ==
    ASSUME NEW secs, NEW now, Len(now) = Len(secs),
           \A k \in 1 .. Len(secs) : /\ BreakSet(now[k].blocks) = BreakSet(secs[k].blocks)
                                     /\ OnceEach(secs[k].blocks) => OnceEach(now[k].blocks)
    PROVE  /\ SectionBreaks(now) = SectionBreaks(secs)
           /\ Len(secs) \in Nat /\ SectionsOnce(secs) => SectionsOnce(now)
<1>1. SectionBreaks(now) = SectionBreaks(secs)
  <2>1. \A p : p \in SectionBreaks(now) <=> p \in SectionBreaks(secs)
    BY BreakSetIs
  <2>2. QED
    BY <2>1
<1>2. ASSUME Len(secs) \in Nat, SectionsOnce(secs) PROVE SectionsOnce(now)
  <2>1. ASSUME NEW k \in 1 .. Len(secs), NEW l \in 1 .. k - 1
        PROVE  l \in 1 .. Len(secs)
    BY <1>2
  <2>2. QED
    BY <1>2, <2>1 DEF SectionsOnce
<1>3. QED
  BY <1>1, <1>2

LEMMA OnceConcat ==
    ASSUME NEW S, NEW s \in Seq(S), NEW t \in Seq(S)
    PROVE  /\ ToSet(s \o t) = ToSet(s) \cup ToSet(t)
           /\ Once(s) /\ Once(t) /\ Apart(ToSet(s), ToSet(t)) => Once(s \o t)
<1> DEFINE u == s \o t
           n == Len(s)
<1>1. /\ n \in Nat /\ Len(t) \in Nat /\ Len(u) = n + Len(t)
      /\ \A i \in 1 .. n + Len(t) : u[i] = IF i <= n THEN s[i] ELSE t[i - n]
  BY ConcatProperties, LenProperties
<1> HIDE DEF u
<1>2. ASSUME NEW i \in 1 .. Len(u)
      PROVE  (i \in 1 .. n /\ u[i] = s[i]) \/ (i > n /\ i - n \in 1 .. Len(t) /\ u[i] = t[i - n])
  BY <1>1
<1>3. ASSUME NEW i \in 1 .. n PROVE i \in 1 .. Len(u) /\ u[i] = s[i]
  BY <1>1
<1>4. ASSUME NEW i \in 1 .. Len(t) PROVE n + i \in 1 .. Len(u) /\ u[n + i] = t[i]
  BY <1>1
<1> HIDE DEF n
<1>5. \A x : /\ x \in ToSet(u) <=> \E i \in 1 .. Len(u) : x = u[i]
             /\ x \in ToSet(s) <=> \E i \in 1 .. n : x = s[i]
             /\ x \in ToSet(t) <=> \E i \in 1 .. Len(t) : x = t[i]
  BY DEF ToSet, n
<1>6. ASSUME NEW x \in ToSet(u) PROVE x \in ToSet(s) \cup ToSet(t)
  BY <1>2, <1>5
<1>7. ASSUME NEW x \in ToSet(s) \cup ToSet(t) PROVE x \in ToSet(u)
  BY <1>3, <1>4, <1>5
<1>8. ASSUME Once(s), Once(t), Apart(ToSet(s), ToSet(t)) PROVE Once(u)
  <2>1. ASSUME NEW i \in 1 .. Len(u), NEW k \in 1 .. Len(u), u[i] = u[k] PROVE i = k
    <3>1. CASE i \in 1 .. n /\ u[i] = s[i] /\ k \in 1 .. n /\ u[k] = s[k]
      BY <1>8, <2>1, <3>1 DEF Once, n
    <3>2. CASE i > n /\ i - n \in 1 .. Len(t) /\ u[i] = t[i - n] /\ k > n /\ k - n \in 1 .. Len(t) /\ u[k] = t[k - n]
      <4>1. i - n = k - n
        BY <1>8, <2>1, <3>2 DEF Once
      <4>2. QED
        BY <1>1, <4>1
    <3>3. ASSUME NEW x \in ToSet(s), x \in ToSet(t) PROVE FALSE
      BY <1>8, <3>3 DEF Apart
    <3>4. QED
      BY <1>2, <1>5, <2>1, <3>1, <3>2, <3>3
  <2>2. QED
    BY <2>1 DEF Once
<1>9. QED
  BY <1>6, <1>7, <1>8 DEF u

\* The break that a block of its own is.
LEMMA BreakOfOne ==
    ASSUME NEW n \in Nat \ {0}
    PROVE  LET b == [type |-> "break", at |-> n]
           IN  ToSet(BreaksOf(b)) = {n} /\ Once(BreaksOf(b))
<1> DEFINE b == [type |-> "break", at |-> n]
<1>1. BreaksOf(b) = <<n>>
  BY DEF BreaksOf
<1>2. Len(<<n>>) = 1 /\ <<n>>[1] = n
  OBVIOUS
<1> HIDE DEF b
<1>3. ToSet(BreaksOf(b)) = {n}
  BY <1>1, <1>2 DEF ToSet
<1>4. Once(BreaksOf(b))
  BY <1>1, <1>2 DEF Once
<1>5. QED
  BY <1>3, <1>4 DEF b

LEMMA ObjectsHaveNoBreaks ==
    /\ BreaksOf(SectionBreak) = <<>> /\ \A o \in Obj : BreaksOf(o) = <<>>
  BY DEF SectionBreak, BreaksOf, Obj

\* push_blocks writes the waiting breaks behind those of a first paragraph.
LEMMA BreaksWritten ==
    ASSUME NEW pending \in Seq(Nat), NEW source \in Seq(Par \cup Obj), NEW k \in 1 .. Len(source)
    PROVE  LET b == Written(pending, source, k)
               more == k = 1 /\ source[1].type = "paragraph"
           IN  /\ ToSet(BreaksOf(b)) = ToSet(BreaksOf(source[k])) \cup (IF more THEN ToSet(pending) ELSE {})
               /\ Once(BreaksOf(source[k])) /\ Once(pending)
                     /\ Apart(ToSet(BreaksOf(source[k])), ToSet(pending))
                     => Once(BreaksOf(b))
<1> DEFINE b == Written(pending, source, k)
           more == k = 1 /\ source[1].type = "paragraph"
<1>1. source[k] \in Par \cup Obj
  BY ElementOfSeq
<1>2. CASE k = 1 /\ source[k] \in Par
  <2>1. more /\ b = WithBreaks(source[k], pending)
    BY <1>2 DEF Written, Par
  <2>2. b.type = "paragraph" /\ b.breaks = source[k].breaks \o pending
    <3>1. source[k].type = "paragraph"
      BY <1>2 DEF Par
    <3> HIDE DEF b, more
    <3>2. QED
      BY <1>1, <1>2, <2>1, <3>1, WithBreaksType
  <2>3. BreaksOf(b) = source[k].breaks \o pending /\ BreaksOf(source[k]) = source[k].breaks
    BY <1>2, <2>2 DEF BreaksOf, Par
  <2>4. source[k].breaks \in Seq(Nat)
    BY <1>2 DEF Par
  <2> DEFINE s == source[k].breaks
  <2> HIDE DEF s, b, more
  <2>5. /\ ToSet(s \o pending) = ToSet(s) \cup ToSet(pending)
        /\ Once(s) /\ Once(pending) /\ Apart(ToSet(s), ToSet(pending)) => Once(s \o pending)
    BY ZenonT(30), <2>4, OnceConcat DEF s
  <2>6. QED
    BY <2>1, <2>3, <2>5 DEF s, b, more
<1>3. CASE ~ (k = 1 /\ source[k] \in Par)
  <2>1. ~ more /\ b = source[k]
    <3>1. CASE k = 1
      <4>1. source[k] \in Obj
        BY <1>1, <1>3, <3>1
      <4>2. source[k].type = "object"
        BY <4>1 DEF Obj
      <4>3. QED
        BY <1>1, <3>1, <4>1, <4>2, WithBreaksType DEF Written
    <3>2. CASE k # 1
      BY <3>2 DEF Written
    <3>3. QED
      BY <3>1, <3>2
  <2> HIDE DEF b, more
  <2>2. QED
    BY <2>1 DEF b, more
<1>4. QED
  BY <1>2, <1>3

\* flush_paragraph_segment writes the waiting breaks into its block.
LEMMA BreaksFlushed ==
    ASSUME NEW c \in Reading, page \in Nat, ReadOnce(c)
    PROVE  LET f == Flush(c)
           IN  ReadOnce(f) /\ BreaksRead(f) = BreaksRead(c)
<1> DEFINE f == Flush(c)
           p == [type |-> "paragraph", id |-> c.nextId, size |-> 1,
                 texts |-> c.runs, breaks |-> c.pending, page |-> page]
<1>1. /\ p \in Par /\ c.local \in Seq(Par \cup Obj)
      /\ f = c \/ (f.local = Append(c.local, p) /\ f.pending = <<>>)
  BY FlushType DEF Reading
<1>2. BreaksOf(p) = c.pending /\ p \in Par \cup Obj
  BY <1>1 DEF BreaksOf
<1> HIDE DEF f, p
<1>3. CASE f = c
  BY <1>3 DEF f
<1>4. CASE f.local = Append(c.local, p) /\ f.pending = <<>>
  <2>1. /\ BreakSet(Append(c.local, p)) = BreakSet(c.local) \cup ToSet(BreaksOf(p))
        /\ OnceEach(c.local) /\ Once(BreaksOf(p)) /\ Apart(BreakSet(c.local), ToSet(BreaksOf(p)))
              => OnceEach(Append(c.local, p))
    BY ZenonT(30), <1>1, <1>2, BreaksAppend
  <2>2. BreakSet(f.local) = BreakSet(c.local) \cup ToSet(c.pending) /\ OnceEach(f.local)
    BY <1>2, <1>4, <2>1 DEF ReadOnce
  <2>3. QED
    BY <1>4, <2>2, BreakSetIs DEF ReadOnce, BreaksRead, Apart, f
<1>5. QED
  BY <1>1, <1>3, <1>4

(* push_blocks writes every break that waits, once: behind the breaks of   *)
(* the first paragraph, or in front of the first object.                   *)
LEMMA BreaksPushed ==
    ASSUME NEW dest \in Seq(Block), NEW pending \in Seq(Nat), NEW source \in Seq(Par \cup Obj),
           count \in 0 .. MaxBlocks, count < MaxBlocks,
           OnceEach(dest), OnceEach(source), Once(pending), 0 \notin ToSet(pending),
           Apart(BreakSet(dest), ToSet(pending)), Apart(BreakSet(dest), BreakSet(source)),
           Apart(BreakSet(source), ToSet(pending))
    PROVE  LET r == Pushed(dest, pending, source)
               all == BreakSet(dest) \cup ToSet(pending) \cup BreakSet(source)
           IN  /\ OnceEach(r.dest) /\ Once(r.pending) /\ Apart(BreakSet(r.dest), ToSet(r.pending))
               /\ BreakSet(dest) \subseteq BreakSet(r.dest)
               /\ BreakSet(r.dest) \cup ToSet(r.pending) \subseteq all
               /\ ~ r.full => all \subseteq BreakSet(r.dest) \cup ToSet(r.pending)
<1> DEFINE r == Pushed(dest, pending, source)
           bs == r.dest
           ahead == Ahead(pending, source, Len(source))
           base == Len(dest) + ahead
           par == source[1].type = "paragraph"
           all == BreakSet(dest) \cup ToSet(pending) \cup BreakSet(source)
<1>1. PICK m : Shape(r, dest, pending, source, Len(source), m)
  BY PushedShape
<1>2. Len(dest) \in Nat /\ Len(pending) \in Nat /\ Len(source) \in Nat
  BY LenProperties
<1>3. /\ ahead \in Nat /\ base \in Nat
      /\ Len(source) = 0 => ahead = 0
      /\ Len(source) # 0 /\ par => ahead = 0
      /\ Len(source) # 0 /\ ~ par => ahead = Len(pending)
      /\ ahead <= Len(pending)
  BY <1>2 DEF Ahead, AheadOf
<1> HIDE DEF r
<1>4. /\ m \in 0 .. Len(source) /\ bs \in Seq(Block) /\ Len(bs) = base + m
      /\ \A i \in 1 .. Len(dest) : bs[i] = dest[i]
      /\ \A i \in 1 .. ahead : bs[Len(dest) + i] = [type |-> "break", at |-> pending[i]]
      /\ \A i \in 1 .. m : bs[base + i] = Written(pending, source, i)
      /\ r.pending = IF Len(source) = 0 THEN pending ELSE <<>>
      /\ ~ r.full => m = Len(source)
  BY <1>1 DEF Shape
<1>5. \A x : x \in ToSet(pending) <=> \E k \in 1 .. Len(pending) : x = pending[k]
  BY DEF ToSet
<1> DEFINE part(i) == ToSet(BreaksOf(bs[i]))
           of(k) == ToSet(BreaksOf(source[k]))
<1> HIDE DEF bs, ahead, base, par
\* The breaks of the section, those that wait, and those of the blocks.
<1>6. ASSUME NEW i \in 1 .. Len(dest)
      PROVE  i \in 1 .. Len(bs) /\ bs[i] = dest[i] /\ Once(BreaksOf(bs[i])) /\ part(i) \subseteq BreakSet(dest)
  <2>1. i \in 1 .. Len(bs) /\ bs[i] = dest[i]
    BY <1>2, <1>3, <1>4 DEF base
  <2>2. QED
    BY <2>1, BreakSetIs DEF OnceEach
<1>7. ASSUME NEW k \in 1 .. ahead
      PROVE  /\ Len(dest) + k \in 1 .. Len(bs) /\ Once(BreaksOf(bs[Len(dest) + k]))
             /\ part(Len(dest) + k) = {pending[k]} /\ pending[k] \in ToSet(pending)
  <2>1. k \in 1 .. Len(pending) /\ Len(dest) + k \in 1 .. Len(bs)
    BY <1>2, <1>3, <1>4 DEF base
  <2>2. pending[k] \in Nat \ {0} /\ pending[k] \in ToSet(pending)
    BY <1>5, <2>1, ElementOfSeq
  <2>3. bs[Len(dest) + k] = [type |-> "break", at |-> pending[k]]
    BY <1>4
  <2>4. QED
    BY <2>1, <2>2, <2>3, BreakOfOne
<1>8. ASSUME NEW k \in 1 .. Len(source)
      PROVE  /\ Once(BreaksOf(source[k])) /\ of(k) \subseteq BreakSet(source) /\ Apart(of(k), ToSet(pending))
             /\ \A l \in 1 .. Len(source) : l < k => Apart(of(l), of(k))
  <2>1. Once(BreaksOf(source[k])) /\ of(k) \subseteq BreakSet(source)
    BY BreakSetIs DEF OnceEach
  <2>2. ASSUME NEW l \in 1 .. Len(source), l < k PROVE l \in 1 .. k - 1
    BY <1>2, <2>2
  <2>3. QED
    BY <2>1, <2>2 DEF OnceEach, Apart
<1>9. ASSUME NEW k \in 1 .. m
      PROVE  /\ base + k \in 1 .. Len(bs) /\ k \in 1 .. Len(source) /\ Once(BreaksOf(bs[base + k]))
             /\ part(base + k) = of(k) \cup (IF k = 1 /\ par THEN ToSet(pending) ELSE {})
  <2>1. k \in 1 .. Len(source) /\ base + k \in 1 .. Len(bs) /\ bs[base + k] = Written(pending, source, k)
    BY <1>2, <1>3, <1>4
  <2>2. Once(BreaksOf(source[k])) /\ Apart(of(k), ToSet(pending))
    BY <1>8, <2>1
  <2>3. QED
    BY <2>1, <2>2, BreaksWritten DEF par
<1>10. ASSUME NEW i \in 1 .. Len(bs)
       PROVE  \/ i \in 1 .. Len(dest)
              \/ \E k \in 1 .. ahead : i = Len(dest) + k
              \/ \E k \in 1 .. m : i = base + k
  <2>1. CASE i <= Len(dest)
    BY <1>2, <2>1
  <2>2. CASE Len(dest) < i /\ i <= base
    <3>1. i - Len(dest) \in 1 .. ahead /\ i = Len(dest) + (i - Len(dest))
      BY <1>2, <1>3, <2>2 DEF base
    <3>2. QED
      BY <3>1
  <2>3. CASE base < i
    <3>1. i - base \in 1 .. m /\ i = base + (i - base)
      BY <1>3, <1>4, <2>3
    <3>2. QED
      BY <3>1
  <2>4. QED
    BY <1>2, <1>3, <2>1, <2>2, <2>3
<1> HIDE DEF part, of
<1>11. ASSUME NEW i \in 1 .. Len(bs), NEW j \in 1 .. i - 1 PROVE Apart(part(j), part(i))
  <2>0. j \in 1 .. Len(bs) /\ j < i /\ Len(dest) <= base
    BY <1>2, <1>3, <1>4 DEF base
  <2>1. CASE i \in 1 .. Len(dest)
    <3>1. j \in 1 .. Len(dest)
      BY <1>2, <2>0, <2>1
    <3>2. part(j) = ToSet(BreaksOf(dest[j])) /\ part(i) = ToSet(BreaksOf(dest[i]))
      BY <1>6, <2>1, <3>1 DEF part
    <3>3. QED
      BY <2>1, <3>2 DEF OnceEach
  <2>2. ASSUME NEW k \in 1 .. ahead, i = Len(dest) + k PROVE Apart(part(j), part(i))
    <3>1. part(i) = {pending[k]} /\ pending[k] \in ToSet(pending)
      BY <1>7, <2>2
    <3>2. CASE j \in 1 .. Len(dest)
      BY <1>6, <3>1, <3>2 DEF Apart
    <3>3. ASSUME NEW l \in 1 .. ahead, j = Len(dest) + l PROVE Apart(part(j), part(i))
      <4>1. l # k /\ l \in 1 .. Len(pending) /\ k \in 1 .. Len(pending)
        BY <1>2, <1>3, <2>0, <2>2, <3>3
      <4>2. part(j) = {pending[l]} /\ pending[l] # pending[k]
        BY <1>7, <3>3, <4>1 DEF Once
      <4>3. QED
        BY <3>1, <4>2 DEF Apart
    <3>4. ASSUME NEW l \in 1 .. m, j = base + l PROVE FALSE
      BY <1>2, <1>3, <1>4, <2>0, <2>2, <3>4 DEF base
    <3>5. QED
      BY <1>10, <2>0, <3>2, <3>3, <3>4
  <2>3. ASSUME NEW k \in 1 .. m, i = base + k PROVE Apart(part(j), part(i))
    <3>1. /\ part(i) = of(k) \cup (IF k = 1 /\ par THEN ToSet(pending) ELSE {})
          /\ k \in 1 .. Len(source) /\ of(k) \subseteq BreakSet(source) /\ Apart(of(k), ToSet(pending))
      BY <1>8, <1>9, <2>3
    <3>2. CASE j \in 1 .. Len(dest)
      BY <1>6, <3>1, <3>2 DEF Apart
    <3>3. ASSUME NEW l \in 1 .. ahead, j = Len(dest) + l PROVE Apart(part(j), part(i))
      <4>1. ~ par
        BY <1>2, <1>3, <3>1, <3>3
      <4>2. part(j) \subseteq ToSet(pending)
        BY <1>7, <3>3
      <4>3. QED
        BY <3>1, <4>1, <4>2 DEF Apart
    <3>4. ASSUME NEW l \in 1 .. m, j = base + l PROVE Apart(part(j), part(i))
      <4>1. l < k /\ k # 1 /\ l \in 1 .. Len(source)
        BY <1>2, <1>3, <1>4, <2>0, <2>3, <3>4
      <4>2. part(j) \subseteq of(l) \cup ToSet(pending) /\ Apart(of(l), of(k))
        BY <1>8, <1>9, <3>1, <3>4, <4>1
      <4>3. part(i) = of(k)
        BY <3>1, <4>1
      <4>4. QED
        BY <3>1, <4>2, <4>3 DEF Apart
    <3>5. QED
      BY <1>10, <2>0, <3>2, <3>3, <3>4
  <2>4. QED
    BY <1>10, <2>1, <2>2, <2>3
<1>12. OnceEach(bs)
  <2>1. ASSUME NEW i \in 1 .. Len(bs) PROVE Once(BreaksOf(bs[i]))
    BY <1>6, <1>7, <1>9, <1>10
  <2>2. QED
    BY <1>11, <2>1 DEF OnceEach, part
<1>13. \A x : x \in BreakSet(bs) <=> \E i \in 1 .. Len(bs) : x \in part(i)
  BY BreakSetIs DEF part
<1>14. BreakSet(dest) \subseteq BreakSet(bs)
  <2>1. ASSUME NEW x \in BreakSet(dest) PROVE x \in BreakSet(bs)
    <3>1. PICK i \in 1 .. Len(dest) : x \in ToSet(BreaksOf(dest[i]))
      BY BreakSetIs
    <3>2. QED
      BY <1>6, <1>13, <3>1 DEF part
  <2>2. QED
    BY <2>1
<1>15. BreakSet(bs) \subseteq all
  <2>1. ASSUME NEW i \in 1 .. Len(bs) PROVE part(i) \subseteq all
    <3>1. ASSUME NEW k \in 1 .. ahead, i = Len(dest) + k PROVE part(i) \subseteq all
      BY <1>7, <3>1
    <3>2. ASSUME NEW k \in 1 .. m, i = base + k PROVE part(i) \subseteq all
      <4>1. /\ part(i) = of(k) \cup (IF k = 1 /\ par THEN ToSet(pending) ELSE {})
            /\ of(k) \subseteq BreakSet(source)
        BY <1>8, <1>9, <3>2
      <4>2. QED
        BY <4>1
    <3>3. QED
      BY <1>6, <1>10, <3>1, <3>2
  <2> HIDE DEF all
  <2>2. QED
    BY <1>13, <2>1
<1>16. ASSUME m = Len(source), Len(source) # 0 PROVE all \subseteq BreakSet(bs)
  <2>1. ASSUME NEW x \in BreakSet(source) PROVE x \in BreakSet(bs)
    <3>1. PICK k \in 1 .. Len(source) : x \in of(k)
      BY BreakSetIs DEF of
    <3>2. base + k \in 1 .. Len(bs) /\ x \in part(base + k)
      BY <1>9, <1>16, <3>1
    <3>3. QED
      BY <1>13, <3>2
  <2>2. ASSUME NEW x \in ToSet(pending) PROVE x \in BreakSet(bs)
    <3>1. CASE par
      <4>1. 1 \in 1 .. m
        BY <1>2, <1>16
      <4>2. base + 1 \in 1 .. Len(bs) /\ x \in part(base + 1)
        BY <1>9, <3>1, <4>1
      <4>3. QED
        BY <1>13, <4>2
    <3>2. CASE ~ par
      <4>1. PICK k \in 1 .. Len(pending) : x = pending[k]
        BY <1>5
      <4>2. k \in 1 .. ahead
        BY <1>3, <1>16, <3>2
      <4>3. Len(dest) + k \in 1 .. Len(bs) /\ x \in part(Len(dest) + k)
        BY <1>7, <4>1, <4>2
      <4>4. QED
        BY <1>13, <4>3
    <3>3. QED
      BY <3>1, <3>2
  <2>3. QED
    BY <1>14, <2>1, <2>2
<1>17. CASE Len(source) = 0
  <2>1. r.pending = pending /\ m = 0 /\ ahead = 0 /\ Len(bs) = Len(dest)
    BY <1>2, <1>3, <1>4, <1>17 DEF base
  <2>2. BreakSet(bs) \subseteq BreakSet(dest) /\ BreakSet(source) = {}
    <3>1. ASSUME NEW x \in BreakSet(bs) PROVE x \in BreakSet(dest)
      BY <1>6, <1>13, <2>1
    <3>2. BreakSet(source) = {}
      BY <1>17, BreakSetIs
    <3>3. QED
      BY <3>1, <3>2
  <2>3. Apart(BreakSet(bs), ToSet(r.pending))
    BY <2>1, <2>2 DEF Apart
  <2>4. all \subseteq BreakSet(bs) \cup ToSet(r.pending) /\ ToSet(r.pending) \subseteq all
    BY <1>14, <2>1, <2>2
  <2> HIDE DEF all
  <2>5. QED
    BY <1>12, <1>14, <1>15, <2>1, <2>3, <2>4 DEF r, bs, all
<1>18. CASE Len(source) # 0
  <2>1. r.pending = <<>>
    BY <1>4, <1>18
  <2>2. ToSet(r.pending) = {} /\ Once(r.pending)
    BY <2>1, BreakSetIs
  <2>3. Apart(BreakSet(bs), ToSet(r.pending))
    BY <2>2 DEF Apart
  <2> HIDE DEF all
  <2>4. ~ r.full => all \subseteq BreakSet(bs) \cup ToSet(r.pending)
    BY <1>4, <1>16, <1>18
  <2>5. BreakSet(bs) \cup ToSet(r.pending) \subseteq all
    BY <1>15, <2>2
  <2>6. QED
    BY <1>12, <1>14, <2>2, <2>3, <2>4, <2>5 DEF r, bs, all
<1>19. QED
  BY <1>17, <1>18

\* The breaks that are left at the end.
LEMMA BreaksLast ==
    ASSUME NEW bs \in Seq(Block), NEW pending \in Seq(Nat),
           OnceEach(bs), Once(pending), 0 \notin ToSet(pending), Apart(BreakSet(bs), ToSet(pending))
    PROVE  LET cs == bs \o BreakBlocks(pending)
           IN  BreakSet(cs) = BreakSet(bs) \cup ToSet(pending) /\ OnceEach(cs)
<1> DEFINE w == BreakBlocks(pending)
           cs == bs \o w
           n == Len(bs)
<1>1. /\ w \in Seq(Block) /\ Len(w) = Len(pending) /\ Len(pending) \in Nat
      /\ \A i \in 1 .. Len(pending) : w[i] = [type |-> "break", at |-> pending[i]]
  BY BreakBlocksType
<1> HIDE DEF w
<1>2. /\ n \in Nat /\ Len(cs) = n + Len(w)
      /\ \A i \in 1 .. n + Len(w) : cs[i] = IF i <= n THEN bs[i] ELSE w[i - n]
  BY <1>1, ConcatProperties, LenProperties
<1> HIDE DEF cs, n
<1> DEFINE part(i) == ToSet(BreaksOf(cs[i]))
<1>3. \A x : x \in ToSet(pending) <=> \E k \in 1 .. Len(pending) : x = pending[k]
  BY DEF ToSet
<1>4. ASSUME NEW i \in 1 .. n
      PROVE  i \in 1 .. Len(cs) /\ cs[i] = bs[i] /\ Once(BreaksOf(cs[i])) /\ part(i) \subseteq BreakSet(bs)
  <2>1. i \in 1 .. Len(cs) /\ cs[i] = bs[i]
    BY <1>1, <1>2
  <2>2. QED
    BY <2>1, BreakSetIs DEF OnceEach, n
<1>5. ASSUME NEW k \in 1 .. Len(pending)
      PROVE  /\ n + k \in 1 .. Len(cs) /\ Once(BreaksOf(cs[n + k]))
             /\ part(n + k) = {pending[k]} /\ pending[k] \in ToSet(pending)
  <2>1. n + k \in 1 .. Len(cs) /\ cs[n + k] = w[k]
    BY <1>1, <1>2
  <2>2. pending[k] \in Nat \ {0} /\ pending[k] \in ToSet(pending)
    BY <1>3, ElementOfSeq
  <2>3. QED
    BY <1>1, <2>1, <2>2, BreakOfOne
<1>6. ASSUME NEW i \in 1 .. Len(cs)
      PROVE  i \in 1 .. n \/ \E k \in 1 .. Len(pending) : i = n + k
  <2>1. CASE i <= n
    BY <1>2, <2>1
  <2>2. CASE i > n
    <3>1. i - n \in 1 .. Len(pending) /\ i = n + (i - n)
      BY <1>1, <1>2, <2>2
    <3>2. QED
      BY <3>1
  <2>3. QED
    BY <1>2, <2>1, <2>2
<1> HIDE DEF part
<1>7. ASSUME NEW i \in 1 .. Len(cs), NEW j \in 1 .. i - 1 PROVE Apart(part(j), part(i))
  <2>0. j \in 1 .. Len(cs) /\ j < i
    BY <1>1, <1>2
  <2>1. CASE i \in 1 .. n
    <3>1. j \in 1 .. n
      BY <1>2, <2>0, <2>1
    <3>2. part(j) = ToSet(BreaksOf(bs[j])) /\ part(i) = ToSet(BreaksOf(bs[i]))
      BY <1>4, <2>1, <3>1 DEF part
    <3>3. QED
      BY <2>1, <3>2 DEF OnceEach, n
  <2>2. ASSUME NEW k \in 1 .. Len(pending), i = n + k PROVE Apart(part(j), part(i))
    <3>1. part(i) = {pending[k]} /\ pending[k] \in ToSet(pending)
      BY <1>5, <2>2
    <3>2. CASE j \in 1 .. n
      BY <1>4, <3>1, <3>2 DEF Apart
    <3>3. ASSUME NEW l \in 1 .. Len(pending), j = n + l PROVE Apart(part(j), part(i))
      <4>1. l # k
        BY <1>2, <2>0, <2>2, <3>3
      <4>2. part(j) = {pending[l]} /\ pending[l] # pending[k]
        BY <1>5, <3>3, <4>1 DEF Once
      <4>3. QED
        BY <3>1, <4>2 DEF Apart
    <3>4. QED
      BY <1>6, <2>0, <3>2, <3>3
  <2>3. QED
    BY <1>6, <2>1, <2>2
<1>8. OnceEach(cs)
  <2>1. ASSUME NEW i \in 1 .. Len(cs) PROVE Once(BreaksOf(cs[i]))
    BY <1>4, <1>5, <1>6
  <2>2. QED
    BY <1>7, <2>1 DEF OnceEach, part
<1>9. \A x : x \in BreakSet(cs) <=> \E i \in 1 .. Len(cs) : x \in part(i)
  BY BreakSetIs DEF part
<1>10. ASSUME NEW x \in BreakSet(cs) PROVE x \in BreakSet(bs) \cup ToSet(pending)
  <2>1. PICK i \in 1 .. Len(cs) : x \in part(i)
    BY <1>9, <1>10
  <2>2. ASSUME NEW k \in 1 .. Len(pending), i = n + k PROVE x \in ToSet(pending)
    BY <1>5, <2>1, <2>2
  <2>3. QED
    BY <1>4, <1>6, <2>1, <2>2
<1>11. ASSUME NEW x \in BreakSet(bs) PROVE x \in BreakSet(cs)
  <2>1. PICK i \in 1 .. n : x \in ToSet(BreaksOf(bs[i]))
    BY BreakSetIs DEF n
  <2>2. QED
    BY <1>4, <1>9, <2>1 DEF part
<1>12. ASSUME NEW x \in ToSet(pending) PROVE x \in BreakSet(cs)
  <2>1. PICK k \in 1 .. Len(pending) : x = pending[k]
    BY <1>3
  <2>2. n + k \in 1 .. Len(cs) /\ x \in part(n + k)
    BY <1>5, <2>1
  <2>3. QED
    BY <1>9, <2>2
<1>13. QED
  BY <1>8, <1>10, <1>11, <1>12 DEF cs, w

\* What the document gets more.
LEMMA AllBreaksGrow ==
    ASSUME NEW A, NEW d, NEW e, NEW w \in BOOLEAN, AllBreaks(A, d, w), Len(d) \in Nat, Len(e) = Len(d) + 1,
           \A i \in 1 .. Len(d) : e[i] = d[i]
    PROVE  /\ e[Len(e)].is # "break" => AllBreaks(A, e, w)
           /\ e[Len(e)].is = "break" => AllBreaks(A \cup {Len(e)}, e, w)
<1>1. \A p \in 1 .. Len(e) : p \in 1 .. Len(d) \/ p = Len(e)
  OBVIOUS
<1>2. \A p \in 1 .. Len(d) : p \in 1 .. Len(e) /\ e[p] = d[p]
  OBVIOUS
<1>3. Len(e) \in 1 .. Len(e)
  OBVIOUS
<1>4. \A p \in A : p \in 1 .. Len(e) /\ e[p].is = "break"
  BY <1>2 DEF AllBreaks
<1>5. \A p \in 1 .. Len(e) : ~ w /\ e[p].is = "break" => p \in A \/ p = Len(e)
  BY <1>1, <1>2 DEF AllBreaks
<1>6. ASSUME e[Len(e)].is # "break" PROVE AllBreaks(A, e, w)
  BY <1>4, <1>5, <1>6 DEF AllBreaks
<1>7. ASSUME e[Len(e)].is = "break" PROVE AllBreaks(A \cup {Len(e)}, e, w)
  <2> DEFINE B == A \cup {Len(e)}
  <2>1. \A p : p \in B <=> p \in A \/ p = Len(e)
    OBVIOUS
  <2> HIDE DEF B
  <2>2. AllBreaks(B, e, w)
    BY <1>3, <1>4, <1>5, <1>7, <2>1 DEF AllBreaks
  <2>3. QED
    BY <2>2 DEF B
<1>8. QED
  BY <1>6, <1>7

(* Every step keeps each break in one place: it waits, or is in a block.   *)
LEMMA BreakInvNext == BlockInv /\ BreakInv /\ [Next]_vars => BreakInv'
<1> SUFFICES ASSUME BlockInv, BreakInv, [Next]_vars PROVE BreakInv'
  OBVIOUS
<1>a. /\ cur \in Reading /\ blocks \in Seq(Block) /\ refs \in Seq(Nat)
      /\ sections \in Seq([blocks : Seq(Block), refs : Seq(Nat)])
      /\ noted \in Nat \ {0} /\ src \in Seq([is : Kinds, page : Nat]) /\ page \in Nat
      /\ count \in 0 .. MaxBlocks /\ warned \in BOOLEAN
      /\ mode = "para" => count < MaxBlocks
      /\ mode # "para" => cur.local = <<>> /\ cur.runs = <<>>
      /\ warned => count = MaxBlocks
  BY DEF BlockInv
<1>b. /\ cur.local \in Seq(Par \cup Obj) /\ cur.runs \in Seq(Nat) /\ cur.pending \in Seq(Nat)
      /\ cur.nextId \in Nat /\ Len(src) \in Nat
  BY <1>a, LenProperties DEF Reading
<1> DEFINE A == SectionBreaks(sections)
           B == BreakSet(blocks)
           C == BreaksRead(cur)
<1>c. /\ SectionsOnce(sections) /\ OnceEach(blocks) /\ ReadOnce(cur)
      /\ Apart(A, B) /\ Apart(A \cup B, C) /\ AllBreaks(A \cup B \cup C, src, warned)
  BY DEF BreakInv
<1>d. count < MaxBlocks => ~ warned
  BY <1>a, DocxAssumption
<1>e. ASSUME NEW A1, NEW B1, NEW C1,
             A1 = SectionBreaks(sections'), B1 = BreakSet(blocks'), C1 = BreaksRead(cur'),
             SectionsOnce(sections'), OnceEach(blocks'), ReadOnce(cur'),
             Apart(A1, B1), Apart(A1 \cup B1, C1), AllBreaks(A1 \cup B1 \cup C1, src', warned')
      PROVE  BreakInv'
  BY <1>e DEF BreakInv
\* In a paragraph that reads no break.
<1>f. ASSUME UNCHANGED <<blocks, sections>>, BreaksRead(cur') = C, ReadOnce(cur'),
             AllBreaks(A \cup B \cup C, src', warned')
      PROVE  BreakInv'
  BY <1>c, <1>f DEF BreakInv
<1>g. ASSUME NEW kind \in Kinds, Reads(kind), NEW X, AllBreaks(X, src, warned)
      PROVE  /\ kind # "break" => AllBreaks(X, src', warned)
             /\ kind = "break" => AllBreaks(X \cup {Here}, src', warned)
             /\ Here \in Nat \ {0} /\ Here \notin X
  <2>1. /\ Len(src') = Len(src) + 1 /\ src'[Len(src')].is = kind
        /\ \A i \in 1 .. Len(src) : src'[i] = src[i]
        /\ Here = Len(src')
    <3>1. /\ Len(src') = Here /\ src'[Here] = [is |-> kind, page |-> page]
          /\ \A i \in 1 .. Len(src) : src'[i] = src[i]
      BY <1>a, <1>g, ReadsType
    <3>2. QED
      BY <3>1 DEF Here
  <2>2. Here \in Nat \ {0} /\ Here \notin X
    <3>1. \A p \in X : p \in 1 .. Len(src)
      BY <1>g DEF AllBreaks
    <3>2. QED
      BY <1>b, <3>1 DEF Here
  <2>3. QED
    BY <1>a, <1>b, <1>g, <2>1, <2>2, AllBreaksGrow
<1>h. ASSUME NEW pending \in Seq(Nat), NEW n \in Nat, Once(pending)
      PROVE  BreaksRead(Fresh(pending, n)) = ToSet(pending) /\ ReadOnce(Fresh(pending, n))
  <2>1. BreakSet(Fresh(pending, n).local) = {} /\ OnceEach(Fresh(pending, n).local)
        /\ Fresh(pending, n).pending = pending
    BY FreshType, BreakSetIs
  <2>2. QED
    BY <1>h, <2>1 DEF BreaksRead, ReadOnce, Apart
<1>i. mode # "para" => C = ToSet(cur.pending)
  BY <1>a, BreakSetIs DEF BreaksRead
\* A break that is read and has to wait for a block.
<1>k. ASSUME UNCHANGED <<blocks, sections, warned>>, Reads("break"), NEW c, c.pending \in Seq(Nat),
             ReadOnce(c), BreaksRead(c) = C,
             cur'.local = c.local, cur'.pending = Append(c.pending, Here)
      PROVE  BreakInv'
  <2>1. /\ AllBreaks(A \cup B \cup C \cup {Here}, src', warned)
        /\ Here \in Nat \ {0} /\ Here \notin A \cup B \cup C
    <3> DEFINE X == A \cup B \cup C
    <3>1. AllBreaks(X, src, warned) /\ "break" \in Kinds
      BY <1>c DEF Kinds
    <3> HIDE DEF X
    <3>2. AllBreaks(X \cup {Here}, src', warned) /\ Here \in Nat \ {0} /\ Here \notin X
      BY <1>g, <1>k, <3>1
    <3>3. QED
      BY <3>2 DEF X
  <2> DEFINE s == c.pending
             one == <<Here>>
  <2>2. Append(s, Here) = s \o one /\ one \in Seq(Nat) /\ s \in Seq(Nat)
    <3>1. s \in Seq(Nat) /\ Here \in Nat /\ one \in Seq(Nat)
      BY <1>k, <2>1
    <3>2. Append(s, Here) = s \o <<Here>>
      BY <3>1, AppendIsConcat
    <3>3. QED
      BY <3>1, <3>2
  <2>3. ToSet(one) = {Here} /\ Once(one)
    <3>1. Len(one) = 1 /\ one[1] = Here
      OBVIOUS
    <3> HIDE DEF one
    <3>2. QED
      BY <3>1 DEF ToSet, Once
  <2>4. Once(s) /\ ToSet(s) \subseteq C /\ Apart(BreakSet(c.local), ToSet(s)) /\ BreakSet(c.local) \cup ToSet(s) = C
    BY <1>k DEF ReadOnce, BreaksRead
  <2> HIDE DEF s, one
  <2>5. /\ ToSet(s \o one) = ToSet(s) \cup ToSet(one)
        /\ Once(s) /\ Once(one) /\ Apart(ToSet(s), ToSet(one)) => Once(s \o one)
    BY ZenonT(30), <2>2, OnceConcat
  <2>6. Apart(ToSet(s), ToSet(one))
    BY <2>1, <2>3, <2>4 DEF Apart
  <2>7. cur'.pending = s \o one /\ cur'.local = c.local
    BY <1>k, <2>2 DEF s
  <2>8. ToSet(cur'.pending) = ToSet(s) \cup {Here} /\ Once(cur'.pending)
    BY <2>3, <2>4, <2>5, <2>6, <2>7
  <2>9. BreaksRead(cur') = C \cup {Here}
    BY <2>4, <2>7, <2>8 DEF BreaksRead
  <2>10. ReadOnce(cur')
    <3>1. Apart(BreakSet(c.local), ToSet(s) \cup {Here})
      BY <2>1, <2>4 DEF Apart
    <3>2. OnceEach(c.local)
      BY <1>k DEF ReadOnce
    <3>3. QED
      BY <2>7, <2>8, <3>1, <3>2 DEF ReadOnce
  <2>11. Apart(A \cup B, C \cup {Here})
    BY <1>c, <2>1 DEF Apart
  <2>12. A = SectionBreaks(sections') /\ B = BreakSet(blocks') /\ SectionsOnce(sections') /\ OnceEach(blocks')
    BY <1>c, <1>k
  <2> HIDE DEF A, B, C
  <2>13. AllBreaks(A \cup B \cup (C \cup {Here}), src', warned')
    <3>1. A \cup B \cup (C \cup {Here}) = A \cup B \cup C \cup {Here}
      OBVIOUS
    <3>2. QED
      BY <1>k, <2>1, <3>1
  <2>14. QED
    BY <1>c, <1>e, <2>9, <2>10, <2>11, <2>12, <2>13
\* A section that is closed.
<1>j. ASSUME NEW bs \in Seq(Block), NEW pending \in Seq(Nat), CloseSection(bs, pending),
             OnceEach(bs), Apart(A, BreakSet(bs)), Once(pending)
      PROVE  /\ SectionBreaks(sections') = A \cup BreakSet(bs) /\ SectionsOnce(sections')
             /\ BreakSet(blocks') = {} /\ OnceEach(blocks')
             /\ BreaksRead(cur') = ToSet(pending) /\ ReadOnce(cur')
  <2> DEFINE sec == [blocks |-> Append(bs, SectionBreak), refs |-> refs]
             S == [blocks : Seq(Block), refs : Seq(Nat)]
  <2>1. sections' = Append(sections, sec) /\ blocks' = <<>> /\ cur' = Fresh(pending, 0)
    BY <1>j DEF CloseSection
  <2>2. BreaksOf(SectionBreak) = <<>> /\ SectionBreak \in Block
    BY ObjectsHaveNoBreaks DEF SectionBreak, Block, Brk
  <2>3. BreakSet(Append(bs, SectionBreak)) = BreakSet(bs) /\ OnceEach(Append(bs, SectionBreak))
    <3>1. /\ Once(BreaksOf(SectionBreak)) /\ ToSet(BreaksOf(SectionBreak)) = {}
          /\ Apart(BreakSet(bs), ToSet(BreaksOf(SectionBreak)))
      BY <2>2, BreakSetIs DEF Apart
    <3>2. ASSUME NEW b \in Block
          PROVE  /\ BreakSet(Append(bs, b)) = BreakSet(bs) \cup ToSet(BreaksOf(b))
                 /\ OnceEach(bs) /\ Once(BreaksOf(b)) /\ Apart(BreakSet(bs), ToSet(BreaksOf(b)))
                       => OnceEach(Append(bs, b))
      BY ZenonT(30), <1>j, BreaksAppend
    <3>3. QED
      BY <1>j, <2>2, <3>1, <3>2
  <2>4. sec \in S /\ sec.blocks = Append(bs, SectionBreak) /\ sections \in Seq(S)
    BY <1>a, <1>j, <2>2, AppendProperties
  <2> HIDE DEF sec, S
  <2>5. SectionBreaks(sections') = A \cup BreakSet(bs) /\ SectionsOnce(sections')
    <3>1. OnceEach(sec.blocks) /\ BreakSet(sec.blocks) = BreakSet(bs)
      BY <2>3, <2>4
    <3>2. SectionsOnce(sections) /\ Apart(SectionBreaks(sections), BreakSet(sec.blocks))
      BY <1>c, <1>j, <3>1
    <3>3. /\ SectionBreaks(Append(sections, sec)) = SectionBreaks(sections) \cup BreakSet(sec.blocks)
          /\ SectionsOnce(sections) /\ OnceEach(sec.blocks)
                /\ Apart(SectionBreaks(sections), BreakSet(sec.blocks))
                => SectionsOnce(Append(sections, sec))
      BY ZenonT(30), <2>4, BreaksSections
    <3>4. QED
      BY <2>1, <3>1, <3>2, <3>3
  <2>6. BreaksRead(cur') = ToSet(pending) /\ ReadOnce(cur')
    BY <1>h, <1>j, <2>1
  <2>7. QED
    BY <2>1, <2>5, <2>6, BreakSetIs
\* Blocks that are written with push_blocks, and what waits behind them.
<1>l. ASSUME NEW pending \in Seq(Nat), NEW source \in Seq(Par \cup Obj), count < MaxBlocks,
             OnceEach(source), Once(pending), Apart(BreakSet(source), ToSet(pending)),
             BreakSet(source) \cup ToSet(pending) = C
      PROVE  LET s == Pushed(blocks, pending, source)
                 D == BreakSet(s.dest)
                 E == ToSet(s.pending)
             IN  /\ s.dest \in Seq(Block) /\ s.pending \in Seq(Nat) /\ s.full \in BOOLEAN
                 /\ OnceEach(s.dest) /\ Once(s.pending)
                 /\ Apart(A, D) /\ Apart(A \cup D, E) /\ AllBreaks(A \cup D \cup E, src, s.full)
  <2> DEFINE s == Pushed(blocks, pending, source)
             D == BreakSet(s.dest)
             E == ToSet(s.pending)
  <2>1. s.dest \in Seq(Block) /\ s.pending \in Seq(Nat) /\ s.full \in BOOLEAN
    BY <1>a, <1>l, PushedType
  <2>2. 0 \notin ToSet(pending)
    <3>1. \A p \in C : p \in 1 .. Len(src)
      BY <1>c DEF AllBreaks
    <3>2. QED
      BY <1>b, <1>l, <3>1
  <2>3. Apart(BreakSet(blocks), ToSet(pending)) /\ Apart(BreakSet(blocks), BreakSet(source))
    BY <1>c, <1>l DEF Apart
  <2>4. /\ OnceEach(s.dest) /\ Once(s.pending) /\ Apart(D, E) /\ B \subseteq D
        /\ D \cup E \subseteq BreakSet(blocks) \cup ToSet(pending) \cup BreakSet(source)
        /\ ~ s.full => BreakSet(blocks) \cup ToSet(pending) \cup BreakSet(source) \subseteq D \cup E
    BY <1>a, <1>c, <1>l, <2>2, <2>3, BreaksPushed
  <2> HIDE DEF s
  <2>5. D \cup E \subseteq B \cup C /\ (~ s.full => B \cup C \subseteq D \cup E)
    BY <1>l, <2>4
  <2> HIDE DEF A, B, C, D, E
  <2>6. Apart(A, D) /\ Apart(A \cup D, E)
    BY <1>c, <2>4, <2>5 DEF Apart
  <2>7. AllBreaks(A \cup D \cup E, src, s.full)
    <3>1. ~ warned
      BY <1>d, <1>l
    <3> DEFINE X == A \cup B \cup C
               Y == A \cup D \cup E
    <3>2. AllBreaks(X, src, warned) /\ Y \subseteq X /\ (~ s.full => X \subseteq Y)
      BY <1>c, <2>5
    <3> HIDE DEF X, Y
    <3>3. AllBreaks(Y, src, s.full)
      BY <3>1, <3>2 DEF AllBreaks
    <3>4. QED
      BY <3>3 DEF Y
  <2>8. QED
    BY <2>1, <2>4, <2>6, <2>7 DEF s, D, E
<1>1. CASE Text \/ FieldBegin \/ FieldSeparate \/ FieldEnd \/ Note
  <2>1. UNCHANGED <<blocks, sections, warned>> /\ cur'.local = cur.local /\ cur'.pending = cur.pending
    <3>1. CASE Text
      <4>1. UNCHANGED <<blocks, sections, warned>>
            /\ (cur' = cur \/ cur' = [cur EXCEPT !.runs = Append(cur.runs, Here)])
        BY <3>1 DEF Text, out, story
      <4>2. QED
        BY <1>a, <4>1 DEF Reading
    <3>2. CASE FieldBegin \/ FieldSeparate \/ FieldEnd \/ Note
      BY <3>2 DEF FieldBegin, FieldSeparate, FieldEnd, Note, out, story
    <3>3. QED
      BY <1>1, <3>1, <3>2
  <2>2. BreaksRead(cur') = C /\ ReadOnce(cur')
    BY <1>c, <2>1 DEF BreaksRead, ReadOnce
  <2>3. AllBreaks(A \cup B \cup C, src', warned)
    <3>1. CASE Text
      <4>1. \E kind \in Kinds \ {"break"} : Reads(kind)
        BY <3>1 DEF Text, Kinds
      <4>2. QED
        BY <1>c, <1>g, <4>1
    <3>2. CASE FieldBegin \/ FieldSeparate \/ FieldEnd \/ Note
      BY <1>c, <3>2 DEF FieldBegin, FieldSeparate, FieldEnd, Note
    <3>3. QED
      BY <1>1, <3>1, <3>2
  <2>4. QED
    BY <1>f, <2>1, <2>2, <2>3
<1>3. CASE Break
  <2> DEFINE c == Segmented
  <2>1. /\ UNCHANGED <<blocks, sections, warned>> /\ Reads("break")
        /\ cur' = [c EXCEPT !.pending = Append(c.pending, Here)]
    BY <1>3 DEF Break, out, story
  <2>2. c \in Reading /\ BreaksRead(c) = C /\ ReadOnce(c)
    BY <1>a, <1>c, FlushType, BreaksFlushed DEF Segmented
  <2> HIDE DEF c
  <2>3. cur'.local = c.local /\ cur'.pending = Append(c.pending, Here) /\ c.pending \in Seq(Nat)
    BY <2>1, <2>2 DEF Reading
  <2>4. QED
    BY <1>k, <2>1, <2>2, <2>3
<1>4. CASE PageHint
  <2>1. UNCHANGED <<blocks, sections, warned, src>> /\ cur' = Segmented
    BY <1>4 DEF PageHint, out, story
  <2>2. BreaksRead(Segmented) = C /\ ReadOnce(Segmented)
    BY <1>a, <1>c, BreaksFlushed DEF Segmented
  <2>3. QED
    BY <1>c, <1>f, <2>1, <2>2
<1>6. ASSUME NEW size \in 1 .. 2, NEW hints \in Nat, NEW shape \in BOOLEAN, Drawing(size, hints, shape)
      PROVE  BreakInv'
  <2> DEFINE c == IF cur.runs # <<>> THEN Flush(cur) ELSE cur
  <2>1. c \in Reading /\ BreaksRead(c) = C /\ ReadOnce(c)
    BY <1>a, <1>c, FlushType, BreaksFlushed
  <2>2. UNCHANGED <<blocks, sections, warned>>
    BY <1>6 DEF Drawing, out, story
  <2>3. CASE shape
    <3> HIDE DEF c
    <3>1. cur' = c /\ src' = src
      BY <1>6, <2>3 DEF Drawing, c
    <3>2. QED
      BY <1>c, <1>f, <2>1, <2>2, <3>1
  <2>4. CASE ~ shape
    <3> HIDE DEF c
    <3> DEFINE o == Object(c.nextId, size)
    <3>1. /\ Reads("object")
          /\ cur' = [c EXCEPT !.local = Append(c.local, o), !.nextId = c.nextId + 1, !.emitted = TRUE]
      BY <1>6, <2>4 DEF Drawing, c
    <3>2. o \in Obj
      BY <1>a, <2>1, ObjectType DEF Reading
    <3> HIDE DEF o
    <3>3. o \in Par \cup Obj /\ BreaksOf(o) = <<>> /\ c.local \in Seq(Par \cup Obj)
      BY <2>1, <3>2, ObjectsHaveNoBreaks DEF Reading
    <3>4. cur'.local = Append(c.local, o) /\ cur'.pending = c.pending
      BY <2>1, <3>1 DEF Reading
    <3>5. BreakSet(cur'.local) = BreakSet(c.local) /\ OnceEach(cur'.local)
      <4>1. /\ Once(BreaksOf(o)) /\ ToSet(BreaksOf(o)) = {} /\ OnceEach(c.local)
            /\ Apart(BreakSet(c.local), ToSet(BreaksOf(o)))
        BY <2>1, <3>3, BreakSetIs DEF Apart, ReadOnce
      <4>2. /\ BreakSet(Append(c.local, o)) = BreakSet(c.local) \cup ToSet(BreaksOf(o))
            /\ OnceEach(c.local) /\ Once(BreaksOf(o)) /\ Apart(BreakSet(c.local), ToSet(BreaksOf(o)))
                  => OnceEach(Append(c.local, o))
        BY ZenonT(30), <3>3, BreaksAppend
      <4>3. QED
        BY <3>4, <4>1, <4>2
    <3>6. BreaksRead(cur') = C /\ ReadOnce(cur')
      BY <2>1, <3>4, <3>5 DEF ReadOnce, BreaksRead
    <3>7. AllBreaks(A \cup B \cup C, src', warned)
      BY <1>c, <1>g, <3>1 DEF Kinds
    <3>8. QED
      BY <1>f, <2>2, <3>6, <3>7
  <2>5. QED
    BY <2>3, <2>4
<1>7. ASSUME NEW b \in BOOLEAN, StartParagraph(b)
      PROVE  BreakInv'
  <2>1. UNCHANGED <<blocks, sections, warned>> /\ mode # "para"
    BY <1>7 DEF StartParagraph, out, story
  <2>2. CASE b
    <3>1. Here \in Nat
      BY <1>b DEF Here
    <3>2. Reads("break") /\ cur' = Fresh(Append(cur.pending, Here), cur.nextId) /\ Append(cur.pending, Here) \in Seq(Nat)
      BY <1>7, <1>b, <2>2, <3>1, AppendProperties DEF StartParagraph
    <3>3. cur'.local = cur.local /\ cur'.pending = Append(cur.pending, Here)
      <4>1. cur.local = <<>>
        BY <1>a, <2>1
      <4>2. cur'.local = <<>> /\ cur'.pending = Append(cur.pending, Here)
        BY <1>b, <3>2, FreshType
      <4>3. QED
        BY <4>1, <4>2
    <3>4. QED
      BY <1>b, <1>c, <1>k, <2>1, <3>2, <3>3
  <2>3. CASE ~ b
    <3>1. src' = src /\ cur' = Fresh(cur.pending, cur.nextId)
      BY <1>7, <2>3 DEF StartParagraph
    <3>2. BreaksRead(cur') = C /\ ReadOnce(cur')
      BY <1>b, <1>c, <1>h, <1>i, <2>1, <3>1 DEF ReadOnce
    <3>3. QED
      BY <1>c, <1>f, <2>1, <3>1, <3>2
  <2>4. QED
    BY <2>2, <2>3
<1>8. ASSUME NEW b \in BOOLEAN, EndParagraph(b)
      PROVE  BreakInv'
  <2> DEFINE c == IF cur.runs # <<>> \/ ~ cur.emitted THEN Flush(cur) ELSE cur
             s == Pushed(blocks, c.pending, c.local)
             D == BreakSet(s.dest)
             E == ToSet(s.pending)
  <2>1. c \in Reading /\ ReadOnce(c) /\ BreaksRead(c) = C /\ count < MaxBlocks /\ ~ warned
    <3>1. count < MaxBlocks
      BY <1>8, <1>a DEF EndParagraph
    <3>2. c \in Reading /\ ReadOnce(c) /\ BreaksRead(c) = C
      BY <1>a, <1>c, FlushType, BreaksFlushed
    <3>3. QED
      BY <1>d, <3>1, <3>2
  <2>2. c.pending \in Seq(Nat) /\ c.local \in Seq(Par \cup Obj) /\ c.nextId \in Nat
    BY <2>1 DEF Reading
  <2> HIDE DEF c
  <2>3. /\ OnceEach(c.local) /\ Once(c.pending) /\ Apart(BreakSet(c.local), ToSet(c.pending))
        /\ BreakSet(c.local) \cup ToSet(c.pending) = C
    BY <2>1 DEF ReadOnce, BreaksRead
  <2>4. /\ s.dest \in Seq(Block) /\ s.pending \in Seq(Nat) /\ s.full \in BOOLEAN
        /\ OnceEach(s.dest) /\ Once(s.pending)
        /\ Apart(A, D) /\ Apart(A \cup D, E) /\ AllBreaks(A \cup D \cup E, src, s.full)
    <3> HIDE DEF A, C
    <3>1. QED
      BY <1>l, <2>1, <2>2, <2>3
  <2>5. /\ IF b THEN CloseSection(s.dest, s.pending)
           ELSE blocks' = s.dest /\ cur' = Fresh(s.pending, c.nextId) /\ UNCHANGED <<refs, sections>>
        /\ warned' = (warned \/ s.full) /\ src' = src
    BY <1>8 DEF EndParagraph, c
  <2> HIDE DEF s
  <2>6. warned' = s.full
    BY <2>1, <2>4, <2>5
  <2>7. CASE b
    <3>1. CloseSection(s.dest, s.pending)
      BY <2>5, <2>7
    <3>2. /\ SectionBreaks(sections') = A \cup D /\ SectionsOnce(sections')
          /\ BreakSet(blocks') = {} /\ OnceEach(blocks')
          /\ BreaksRead(cur') = E /\ ReadOnce(cur')
      BY <1>j, <2>4, <3>1
    <3> HIDE DEF A, D, E
    <3>3. Apart(A \cup D, {}) /\ Apart(A \cup D \cup {}, E) /\ AllBreaks(A \cup D \cup {} \cup E, src', warned')
      <4>1. A \cup D \cup {} = A \cup D
        OBVIOUS
      <4>2. QED
        BY <2>4, <2>5, <2>6, <4>1 DEF Apart
    <3>4. QED
      BY <1>e, <3>2, <3>3
  <2>8. CASE ~ b
    <3>1. blocks' = s.dest /\ cur' = Fresh(s.pending, c.nextId) /\ sections' = sections
      BY <2>5, <2>8
    <3>2. BreaksRead(cur') = E /\ ReadOnce(cur')
      BY <1>h, <2>2, <2>4, <3>1
    <3>3. A = SectionBreaks(sections') /\ D = BreakSet(blocks') /\ SectionsOnce(sections') /\ OnceEach(blocks')
      BY <1>c, <2>4, <3>1
    <3> HIDE DEF A, D, E
    <3>4. AllBreaks(A \cup D \cup E, src', warned')
      BY <2>4, <2>5, <2>6
    <3>5. QED
      BY <1>e, <2>4, <3>2, <3>3, <3>4
  <2>9. QED
    BY <2>7, <2>8
<1>9. ASSUME NEW b \in BOOLEAN, Skip(b)
      PROVE  BreakInv'
  <2>1. Reads("gone") /\ warned' = TRUE /\ mode # "para"
    BY <1>9 DEF Skip
  <2>2. AllBreaks(A \cup B \cup C, src', warned')
    <3>1. AllBreaks(A \cup B \cup C, src', warned)
      BY <1>c, <1>g, <2>1 DEF Kinds
    <3>2. QED
      BY <2>1, <3>1 DEF AllBreaks
  <2>3. CASE b
    <3>1. CloseSection(blocks, cur.pending) /\ Once(cur.pending)
      BY <1>9, <1>c, <2>3 DEF Skip, ReadOnce
    <3>2. /\ SectionBreaks(sections') = A \cup B /\ SectionsOnce(sections')
          /\ BreakSet(blocks') = {} /\ OnceEach(blocks')
          /\ BreaksRead(cur') = C /\ ReadOnce(cur')
      BY <1>a, <1>b, <1>c, <1>i, <1>j, <2>1, <3>1
    <3> HIDE DEF A, B, C
    <3>3. Apart(A \cup B, {}) /\ Apart(A \cup B \cup {}, C) /\ AllBreaks(A \cup B \cup {} \cup C, src', warned')
      <4>1. A \cup B \cup {} = A \cup B
        OBVIOUS
      <4>2. QED
        BY <1>c, <2>2, <4>1 DEF Apart
    <3>4. QED
      BY <1>e, <3>2, <3>3
  <2>4. CASE ~ b
    <3>1. UNCHANGED <<cur, blocks, sections>>
      BY <1>9, <2>4 DEF Skip
    <3>2. QED
      BY <1>c, <1>f, <2>2, <3>1
  <2>5. QED
    BY <2>3, <2>4
<1>10. ASSUME NEW size \in 1 .. 2, NEW hints \in Nat, Table(size, hints)
       PROVE  BreakInv'
  <2> DEFINE o == Object(cur.nextId, size)
             l == <<o>>
             s == Pushed(blocks, cur.pending, l)
             D == BreakSet(s.dest)
             E == ToSet(s.pending)
  <2>1. mode # "para" /\ count < MaxBlocks /\ ~ warned /\ Reads("object")
    BY <1>10, <1>d DEF Table
  <2>2. o \in Obj
    BY <1>a, <1>b, ObjectType
  <2>3. /\ blocks' = s.dest /\ cur' = Fresh(s.pending, cur.nextId + 1) /\ UNCHANGED sections
        /\ warned' = (warned \/ s.full)
    BY <1>10 DEF Table
  <2> HIDE DEF o
  <2>4. l \in Seq(Par \cup Obj) /\ BreakSet(l) = {} /\ OnceEach(l)
    <3>1. BreaksOf(o) = <<>>
      BY <2>2, ObjectsHaveNoBreaks
    <3>2. Len(l) = 1 /\ l[1] = o /\ l \in Seq(Par \cup Obj)
      BY <2>2
    <3> HIDE DEF l
    <3>3. \A i \in 1 .. Len(l) : i = 1 /\ ToSet(BreaksOf(l[i])) = {}
      BY <3>1, <3>2, BreakSetIs
    <3>4. BreakSet(l) = {}
      BY <3>3, BreakSetIs
    <3>5. OnceEach(l)
      BY <3>1, <3>2, <3>3, BreakSetIs DEF OnceEach
    <3>6. QED
      BY <3>2, <3>4, <3>5
  <2> HIDE DEF l
  <2>5. Once(cur.pending) /\ Apart(BreakSet(l), ToSet(cur.pending)) /\ BreakSet(l) \cup ToSet(cur.pending) = C
    <3>1. C = ToSet(cur.pending) /\ Once(cur.pending)
      BY <1>c, <1>i, <2>1 DEF ReadOnce
    <3> HIDE DEF C
    <3>2. QED
      BY <2>4, <3>1 DEF Apart
  <2>6. /\ s.dest \in Seq(Block) /\ s.pending \in Seq(Nat) /\ s.full \in BOOLEAN
        /\ OnceEach(s.dest) /\ Once(s.pending)
        /\ Apart(A, D) /\ Apart(A \cup D, E) /\ AllBreaks(A \cup D \cup E, src, s.full)
    <3> HIDE DEF A, C
    <3>1. QED
      BY <1>b, <1>l, <2>1, <2>4, <2>5
  <2> HIDE DEF s
  <2>7. BreaksRead(cur') = E /\ ReadOnce(cur')
    <3>1. cur.nextId + 1 \in Nat
      BY <1>b
    <3>2. QED
      BY <1>h, <2>3, <2>6, <3>1
  <2>8. AllBreaks(A \cup D \cup E, src', warned')
    <3> DEFINE X == A \cup D \cup E
    <3>1. AllBreaks(X, src, s.full) /\ warned' = s.full
      BY <2>1, <2>3, <2>6
    <3>2. Len(src') = Len(src) + 1 /\ \A i \in 1 .. Len(src) : src'[i] = src[i]
      BY <1>a, <2>1, ReadsType DEF Kinds, Here
    <3>3. src'[Len(src')].is # "break"
      <4>1. src'[Here] = [is |-> "object", page |-> page] /\ Len(src') = Here
        BY <1>a, <2>1, ReadsType DEF Kinds
      <4>2. QED
        BY <4>1
    <3> HIDE DEF X
    <3>4. AllBreaks(X, src', s.full)
      BY <1>b, <2>6, <3>1, <3>2, <3>3, AllBreaksGrow
    <3>5. QED
      BY <3>1, <3>4 DEF X
  <2>9. A = SectionBreaks(sections') /\ D = BreakSet(blocks') /\ SectionsOnce(sections') /\ OnceEach(blocks')
    BY <1>c, <2>3, <2>6
  <2> HIDE DEF A, D, E
  <2>10. QED
    BY <1>e, <2>6, <2>7, <2>8, <2>9
<1>11. CASE Finish
  <2> DEFINE w == BreakBlocks(cur.pending)
             bs == blocks \o w
             last == [blocks |-> bs, refs |-> refs]
             S == [blocks : Seq(Block), refs : Seq(Nat)]
  <2>1. /\ blocks' = <<>> /\ cur' = Fresh(<<>>, 0) /\ sections' = Append(sections, last)
        /\ UNCHANGED <<warned, src>> /\ C = ToSet(cur.pending) /\ Once(cur.pending)
    BY <1>11, <1>c, <1>i DEF Finish, story, ReadOnce
  <2>2. 0 \notin ToSet(cur.pending) /\ Apart(BreakSet(blocks), ToSet(cur.pending))
    <3>1. \A p \in C : p \in 1 .. Len(src)
      BY <1>c DEF AllBreaks
    <3>2. Apart(B, C)
      BY <1>c DEF Apart
    <3>3. QED
      BY <1>b, <2>1, <3>1, <3>2
  <2>3. bs \in Seq(Block) /\ BreakSet(bs) = B \cup C /\ OnceEach(bs)
    <3>1. w \in Seq(Block)
      BY <1>b, BreakBlocksType
    <3> HIDE DEF w
    <3>2. bs \in Seq(Block)
      BY <1>a, <3>1, ConcatProperties
    <3>3. BreakSet(bs) = BreakSet(blocks) \cup ToSet(cur.pending) /\ OnceEach(bs)
      BY <1>a, <1>b, <1>c, <2>1, <2>2, BreaksLast DEF w
    <3> HIDE DEF bs
    <3>4. QED
      BY <2>1, <3>2, <3>3
  <2>4. last \in S /\ last.blocks = bs /\ sections \in Seq(S)
    BY <1>a, <2>3
  <2> HIDE DEF bs, last, S
  <2>5. SectionBreaks(sections') = A \cup (B \cup C) /\ SectionsOnce(sections')
    <3>1. OnceEach(last.blocks) /\ BreakSet(last.blocks) = B \cup C
      BY <2>3, <2>4
    <3>2. SectionsOnce(sections) /\ Apart(SectionBreaks(sections), BreakSet(last.blocks))
      <4>1. Apart(A, B \cup C)
        BY <1>c DEF Apart
      <4>2. QED
        BY <1>c, <3>1, <4>1
    <3>3. /\ SectionBreaks(Append(sections, last)) = SectionBreaks(sections) \cup BreakSet(last.blocks)
          /\ SectionsOnce(sections) /\ OnceEach(last.blocks)
                /\ Apart(SectionBreaks(sections), BreakSet(last.blocks))
                => SectionsOnce(Append(sections, last))
      BY ZenonT(30), <2>4, BreaksSections
    <3>4. QED
      BY <2>1, <3>1, <3>2, <3>3
  <2>6. BreaksRead(cur') = {} /\ ReadOnce(cur') /\ BreakSet(blocks') = {} /\ OnceEach(blocks')
    BY <1>h, <2>1, EmptySeq, BreakSetIs
  <2> HIDE DEF A, B, C
  <2>7. /\ Apart(A \cup (B \cup C), {}) /\ Apart(A \cup (B \cup C) \cup {}, {})
        /\ AllBreaks(A \cup (B \cup C) \cup {} \cup {}, src', warned')
    <3>1. A \cup (B \cup C) \cup {} \cup {} = A \cup B \cup C
      OBVIOUS
    <3>2. QED
      BY <1>c, <2>1, <3>1 DEF Apart
  <2>8. QED
    BY <1>e, <2>5, <2>6, <2>7
<1>12. ASSUME NEW n \in {0, 2}, NEW b \in BOOLEAN, AttachNote(n, b)
       PROVE  BreakInv'
  <2> DEFINE old == sections[noted].blocks
             bs == NoteBlocks(Len(old), n, b)
             now == sections'
  <2>1. /\ noted \in 1 .. Len(sections) /\ Len(now) = Len(sections) /\ Len(sections) \in Nat
        /\ old \in Seq(Block)
        /\ \A k \in 1 .. Len(sections) : k # noted => now[k] = sections[k]
        /\ now[noted].blocks = old \o bs
    BY <1>12, <1>a, AttachType
  <2>2. Len(old) \in Nat
    BY <2>1, LenProperties
  <2> HIDE DEF old, now
  <2>3. bs \in Seq(Block) /\ \A i \in 1 .. Len(bs) : BreaksOf(bs[i]) = <<>>
    <3>1. /\ bs \in Seq(Block)
          /\ \A i \in 1 .. Len(bs) :
                \/ bs[i] = [type |-> "paragraph", id |-> Len(old) + i - 1, size |-> 1,
                            texts |-> <<>>, breaks |-> <<>>, page |-> 0]
                \/ bs[i] = SectionBreak
      BY <2>2, NoteBlocksType
    <3> HIDE DEF bs
    <3>2. ASSUME NEW i \in 1 .. Len(bs) PROVE BreaksOf(bs[i]) = <<>>
      <4>1. CASE bs[i] = SectionBreak
        BY <4>1, ObjectsHaveNoBreaks
      <4>2. CASE bs[i] = [type |-> "paragraph", id |-> Len(old) + i - 1, size |-> 1,
                          texts |-> <<>>, breaks |-> <<>>, page |-> 0]
        BY <4>2 DEF BreaksOf
      <4>3. QED
        BY <3>1, <4>1, <4>2
    <3>3. QED
      BY <3>1, <3>2
  <2> HIDE DEF bs
  <2>4. BreakSet(old \o bs) = BreakSet(old) /\ (OnceEach(old) => OnceEach(old \o bs))
    BY <2>1, <2>3, BreaksSilent
  <2>5. \A k \in 1 .. Len(sections) : /\ BreakSet(now[k].blocks) = BreakSet(sections[k].blocks)
                                      /\ OnceEach(sections[k].blocks) => OnceEach(now[k].blocks)
    <3>1. \A k \in 1 .. Len(sections) : k # noted =>
              /\ BreakSet(now[k].blocks) = BreakSet(sections[k].blocks)
              /\ OnceEach(sections[k].blocks) => OnceEach(now[k].blocks)
      BY <2>1
    <3>2. /\ BreakSet(now[noted].blocks) = BreakSet(sections[noted].blocks)
          /\ OnceEach(sections[noted].blocks) => OnceEach(now[noted].blocks)
      BY <2>1, <2>4 DEF old
    <3>3. QED
      BY <3>1, <3>2
  <2>6. SectionBreaks(now) = A /\ SectionsOnce(now)
    BY <1>c, <2>1, <2>5, BreaksSameSections
  <2>7. UNCHANGED <<cur, blocks, src, warned>>
    BY <1>12 DEF AttachNote, story
  <2>8. QED
    BY <1>c, <2>6, <2>7 DEF BreakInv, now
<1>13. CASE NextSection
  <2>1. UNCHANGED <<cur, blocks, sections, src, warned>>
    BY <1>13 DEF NextSection, story
  <2>2. QED
    BY <1>c, <1>f, <2>1
<1>14. CASE UNCHANGED vars
  <2>1. UNCHANGED <<cur, blocks, sections, src, warned>>
    BY <1>14 DEF vars, story, out
  <2>2. QED
    BY <1>c, <1>f, <2>1
<1>15. QED
  BY <1>1, <1>3, <1>4, <1>6, <1>7, <1>8, <1>9, <1>10, <1>11, <1>12, <1>13, <1>14, Steps

LEMMA BreakInvInit == Init => BreakInv
<1> SUFFICES ASSUME Init PROVE BreakInv
  OBVIOUS
<1>1. blocks = <<>> /\ sections = <<>> /\ cur = Fresh(<<>>, 0) /\ src = <<>>
  BY DEF Init
<1>2. cur.local = <<>> /\ cur.pending = <<>> /\ Len(src) = 0
  BY <1>1 DEF Fresh
<1>3. SectionBreaks(sections) = {} /\ BreakSet(blocks) = {} /\ BreaksRead(cur) = {}
  BY <1>1, <1>2, BreakSetIs DEF BreaksRead
<1>4. SectionsOnce(sections) /\ OnceEach(blocks) /\ ReadOnce(cur)
  BY <1>1, <1>2, BreakSetIs DEF ReadOnce, Apart
<1>5. AllBreaks({}, src, warned)
  BY <1>2 DEF AllBreaks
<1>6. Apart({}, {}) /\ Apart({} \cup {}, {}) /\ {} \cup {} \cup {} = {}
  BY DEF Apart
<1>7. QED
  BY <1>3, <1>4, <1>5, <1>6 DEF BreakInv

\* The breaks of the parts.
LEMMA PartBreaks ==
    ASSUME BlockInv, BreakInv
    PROVE  /\ \A k \in 1 .. Len(Parts) : OnceEach(Parts[k])
           /\ \A k, l \in 1 .. Len(Parts) : k < l => Apart(BreakSet(Parts[k]), BreakSet(Parts[l]))
           /\ \A p : (\E k \in 1 .. Len(Parts) : p \in BreakSet(Parts[k]))
                 <=> p \in SectionBreaks(sections) \cup BreakSet(blocks) \cup BreaksRead(cur)
<1> DEFINE n == Len(sections)
           last == Append(cur.local, Coming)
           A == SectionBreaks(sections)
           B == BreakSet(blocks)
           C == BreaksRead(cur)
<1>1. /\ n \in Nat /\ Len(Parts) = n + 2 /\ \A k \in 1 .. n : Parts[k] = sections[k].blocks
      /\ Parts[n + 1] = blocks /\ Parts[n + 2] = last
      /\ \A k \in 1 .. Len(Parts) : k \in 1 .. n \/ k = n + 1 \/ k = n + 2
  BY SpotsAre
<1>2. /\ SectionsOnce(sections) /\ OnceEach(blocks) /\ ReadOnce(cur)
      /\ Apart(A, B) /\ Apart(A \cup B, C)
  BY DEF BreakInv
<1>3. BreakSet(last) = C /\ OnceEach(last)
  <2> DEFINE S == Par \cup Obj \cup {Coming}
  <2>1. cur.local \in Seq(S) /\ Coming \in S /\ BreaksOf(Coming) = cur.pending
    <3>1. cur.local \in Seq(Par \cup Obj)
      BY DEF BlockInv, Reading
    <3>2. BreaksOf(Coming) = cur.pending
      BY ComingAre DEF BreaksOf
    <3>3. QED
      BY <3>1, <3>2
  <2> HIDE DEF S
  <2>2. /\ BreakSet(Append(cur.local, Coming)) = BreakSet(cur.local) \cup ToSet(BreaksOf(Coming))
        /\ OnceEach(cur.local) /\ Once(BreaksOf(Coming))
              /\ Apart(BreakSet(cur.local), ToSet(BreaksOf(Coming)))
              => OnceEach(Append(cur.local, Coming))
    BY ZenonT(30), <2>1, BreaksAppend
  <2>3. QED
    BY <1>2, <2>1, <2>2 DEF ReadOnce, BreaksRead
<1> HIDE DEF last, n
<1>4. ASSUME NEW k \in 1 .. Len(Parts) PROVE OnceEach(Parts[k])
  <2>1. CASE k \in 1 .. n
    BY <1>1, <1>2, <2>1 DEF SectionsOnce, n
  <2>2. QED
    BY <1>1, <1>2, <1>3, <2>1
<1>5. \A k \in 1 .. n : BreakSet(Parts[k]) \subseteq A
  BY <1>1, BreakSetIs DEF n
<1> HIDE DEF A, B, C
<1>6. BreakSet(Parts[n + 1]) = B /\ BreakSet(Parts[n + 2]) = C
  BY <1>1, <1>3 DEF B
<1>7. ASSUME NEW k \in 1 .. Len(Parts), NEW l \in 1 .. Len(Parts), k < l
      PROVE  Apart(BreakSet(Parts[k]), BreakSet(Parts[l]))
  <2>1. CASE l \in 1 .. n
    <3>1. k \in 1 .. l - 1 /\ k \in 1 .. n
      BY <1>1, <1>7, <2>1
    <3>2. Apart(BreakSet(sections[k].blocks), BreakSet(sections[l].blocks))
      BY <1>2, <2>1, <3>1 DEF SectionsOnce, n
    <3>3. QED
      BY <1>1, <2>1, <3>1, <3>2
  <2>2. CASE l = n + 1
    <3>1. k \in 1 .. n
      BY <1>1, <1>7, <2>2
    <3>2. BreakSet(Parts[k]) \subseteq A
      BY <1>5, <3>1
    <3>3. QED
      BY <1>2, <1>6, <2>2, <3>2 DEF Apart
  <2>3. CASE l = n + 2
    <3>1. BreakSet(Parts[k]) \subseteq A \cup B
      BY <1>1, <1>5, <1>6, <1>7, <2>3
    <3>2. QED
      BY <1>2, <1>6, <2>3, <3>1 DEF Apart
  <2>4. QED
    BY <1>1, <2>1, <2>2, <2>3
<1>8. ASSUME NEW p
      PROVE  (\E k \in 1 .. Len(Parts) : p \in BreakSet(Parts[k])) <=> p \in A \cup B \cup C
  <2>1. p \in A <=> \E k \in 1 .. n : p \in BreakSet(Parts[k])
    BY <1>1, BreakSetIs DEF A, n
  <2>2. n + 1 \in 1 .. Len(Parts) /\ n + 2 \in 1 .. Len(Parts) /\ \A k \in 1 .. n : k \in 1 .. Len(Parts)
    BY <1>1
  <2>3. QED
    BY <1>1, <1>6, <2>1, <2>2
<1>9. QED
  BY <1>4, <1>7, <1>8 DEF A, B, C

LEMMA BreakInvOnce == BlockInv /\ BreakInv => BreaksOnce
<1> SUFFICES ASSUME BlockInv, BreakInv PROVE BreaksOnce
  OBVIOUS
<1> DEFINE T == SectionBreaks(sections) \cup BreakSet(blocks) \cup BreaksRead(cur)
<1>1. ASSUME NEW s \in Spots
      PROVE  \E k \in 1 .. Len(Parts) : \E i \in 1 .. Len(Parts[k]) : s = <<k, i>> /\ At(s) = Parts[k][i]
  BY SpotsAre
<1>2. ASSUME NEW k \in 1 .. Len(Parts), NEW i \in 1 .. Len(Parts[k])
      PROVE  /\ Once(BreaksOf(Parts[k][i]))
             /\ ToSet(BreaksOf(Parts[k][i])) \subseteq BreakSet(Parts[k])
  BY PartBreaks, BreakSetIs DEF OnceEach
\* Two blocks do not share a break.
<1>3. ASSUME NEW s \in Spots, NEW t \in Spots, NEW p \in ToSet(BreaksOf(At(s))), p \in ToSet(BreaksOf(At(t)))
      PROVE  s = t
  <2>1. PICK k \in 1 .. Len(Parts) : \E i \in 1 .. Len(Parts[k]) : s = <<k, i>> /\ At(s) = Parts[k][i]
    BY <1>1
  <2>2. PICK i \in 1 .. Len(Parts[k]) : s = <<k, i>> /\ At(s) = Parts[k][i]
    BY <2>1
  <2>3. PICK l \in 1 .. Len(Parts) : \E j \in 1 .. Len(Parts[l]) : t = <<l, j>> /\ At(t) = Parts[l][j]
    BY <1>1
  <2>4. PICK j \in 1 .. Len(Parts[l]) : t = <<l, j>> /\ At(t) = Parts[l][j]
    BY <2>3
  <2>5. p \in BreakSet(Parts[k]) /\ p \in BreakSet(Parts[l])
    BY <1>2, <1>3, <2>2, <2>4
  <2>6. Len(Parts) \in Nat
    BY SpotsAre
  <2>7. k = l
    <3>1. CASE k < l
      BY <2>5, <3>1, PartBreaks DEF Apart
    <3>2. CASE l < k
      BY <2>5, <3>2, PartBreaks DEF Apart
    <3>3. QED
      BY <2>6, <3>1, <3>2
  <2>8. i = j
    <3>1. \A x, y \in 1 .. Len(Parts[k]) : x < y => Apart(ToSet(BreaksOf(Parts[k][x])), ToSet(BreaksOf(Parts[k][y])))
      <4>1. ASSUME NEW x \in 1 .. Len(Parts[k]), NEW y \in 1 .. Len(Parts[k]), x < y PROVE x \in 1 .. y - 1
        BY <4>1
      <4>2. OnceEach(Parts[k])
        BY PartBreaks
      <4>3. QED
        BY <4>1, <4>2 DEF OnceEach
    <3>2. i \in Int /\ j \in Int /\ j \in 1 .. Len(Parts[k])
      BY <2>7
    <3>3. CASE i < j
      BY <1>3, <2>2, <2>4, <2>7, <3>1, <3>2, <3>3 DEF Apart
    <3>4. CASE j < i
      BY <1>3, <2>2, <2>4, <2>7, <3>1, <3>2, <3>4 DEF Apart
    <3>5. QED
      BY <3>2, <3>3, <3>4
  <2>9. QED
    BY <2>2, <2>4, <2>7, <2>8
<1>4. \A s \in Spots : Once(BreaksOf(At(s)))
  BY <1>1, <1>2
<1>5. ASSUME NEW s \in Spots, NEW t \in Spots,
             NEW i \in 1 .. Len(BreaksOf(At(s))), NEW k \in 1 .. Len(BreaksOf(At(t))),
             BreaksOf(At(s))[i] = BreaksOf(At(t))[k]
      PROVE  s = t /\ i = k
  <2>1. BreaksOf(At(s))[i] \in ToSet(BreaksOf(At(s))) /\ BreaksOf(At(t))[k] \in ToSet(BreaksOf(At(t)))
    BY DEF ToSet
  <2>2. s = t
    BY <1>3, <1>5, <2>1
  <2>3. QED
    BY <1>4, <1>5, <2>2 DEF Once
<1>6. ASSUME NEW p PROVE p \in T <=> \E s \in Spots : p \in ToSet(BreaksOf(At(s)))
  <2>1. ASSUME NEW s \in Spots, p \in ToSet(BreaksOf(At(s))) PROVE p \in T
    <3>1. \E k \in 1 .. Len(Parts) : p \in BreakSet(Parts[k])
      BY <1>1, <1>2, <2>1
    <3>2. QED
      BY <3>1, PartBreaks
  <2>2. ASSUME p \in T PROVE \E s \in Spots : p \in ToSet(BreaksOf(At(s)))
    <3>1. PICK k \in 1 .. Len(Parts) : p \in BreakSet(Parts[k])
      BY <2>2, PartBreaks
    <3>2. PICK i \in 1 .. Len(Parts[k]) : p \in ToSet(BreaksOf(Parts[k][i]))
      BY <3>1, BreakSetIs
    <3>3. <<k, i>> \in Spots /\ At(<<k, i>>) = Parts[k][i]
      BY SpotsAre
    <3>4. QED
      BY <3>2, <3>3
  <2> HIDE DEF T
  <2>3. QED
    BY <2>1, <2>2
<1>7. AllBreaks(T, src, warned)
  BY DEF BreakInv
<1> HIDE DEF T
<1>8. /\ \A s \in Spots : \A p \in ToSet(BreaksOf(At(s))) : src[p].is = "break"
      /\ ~ warned => \A p \in 1 .. Len(src) :
             src[p].is = "break" => \E s \in Spots : p \in ToSet(BreaksOf(At(s)))
  BY <1>6, <1>7 DEF AllBreaks
<1>9. QED
  BY <1>5, <1>8 DEF BreaksOnce

(* Every break that was read waits for a block or is in one, and in one    *)
(* place only, through segments, drawings, sections and the end of the     *)
(* document; only over the limit of blocks is one left out.                *)
THEOREM BreaksAreOnce == Spec => []BreaksOnce
<1>1. Init => BlockInv /\ BreakInv
  BY BlockInvInit, BreakInvInit
<1>2. BlockInv /\ BreakInv /\ [Next]_vars => (BlockInv /\ BreakInv)'
  BY BlockInvNext, BreakInvNext
<1>3. BlockInv /\ BreakInv => BreaksOnce
  BY BreakInvOnce
<1> QED
  BY <1>1, <1>2, <1>3, PTL DEF Spec

(***************************************************************************)
(* The limit of blocks.                                                    *)
(***************************************************************************)
LEMMA FewInUnion ==
    ASSUME NEW S, IsFiniteSet(S), NEW T, IsFiniteSet(T)
    PROVE  /\ IsFiniteSet(S \cup T)
           /\ Cardinality(S) \in Nat /\ Cardinality(T) \in Nat /\ Cardinality(S \cup T) \in Nat
           /\ Cardinality(S \cup T) <= Cardinality(S) + Cardinality(T)
<1>1. IsFiniteSet(S \cup T) /\ Cardinality(S \cup T) = Cardinality(S) + Cardinality(T) - Cardinality(S \cap T)
  BY FS_Union
<1>2. IsFiniteSet(S \cap T)
  BY FS_Intersection
<1>3. /\ Cardinality(S) \in Nat /\ Cardinality(T) \in Nat /\ Cardinality(S \cap T) \in Nat
      /\ Cardinality(S \cup T) \in Nat
  BY <1>1, <1>2, FS_CardinalityType
<1>4. QED
  BY <1>1, <1>3

LEMMA FewHeld ==
    ASSUME NEW k, NEW S, IsFiniteSet(S)
    PROVE  IsFiniteSet(Held(k, S)) /\ Cardinality(Held(k, S)) <= Cardinality(S)
<1> DEFINE T == Held(k, S)
           f == [y \in S |-> <<<<k, y[1]>>, y[2]>>]
<1>1. f \in [S -> T]
  BY DEF Held
<1>2. \A t \in T : \E y \in S : f[y] = t
  BY DEF Held
<1> HIDE DEF f, T
<1>3. f \in Surjection(S, T)
  BY <1>1, <1>2 DEF Surjection
<1>4. QED
  BY <1>3, FS_Surjection DEF T

LEMMA SizesAre ==
    /\ \A bs, x : x \in Sizes(bs) <=> \E i \in 1 .. Len(bs) : bs[i].type # "break" /\ \E n \in 1 .. bs[i].size : x = <<i, n>>
    /\ Sizes(<<>>) = {}
<1>1. ASSUME NEW bs, NEW x
      PROVE  x \in Sizes(bs) <=> \E i \in 1 .. Len(bs) : bs[i].type # "break" /\ \E n \in 1 .. bs[i].size : x = <<i, n>>
  <2> DEFINE in(i) == {<<i, n>> : n \in 1 .. bs[i].size}
             I == {i \in 1 .. Len(bs) : bs[i].type # "break"}
  <2>1. Sizes(bs) = UNION {in(i) : i \in I}
    BY DEF Sizes
  <2>2. \A i : x \in in(i) <=> \E n \in 1 .. bs[i].size : x = <<i, n>>
    OBVIOUS
  <2> HIDE DEF in
  <2>3. x \in Sizes(bs) <=> \E i \in I : x \in in(i)
    BY <2>1
  <2>4. QED
    BY <2>2, <2>3
<1>2. Len(<<>>) = 0
  OBVIOUS
<1>3. Sizes(<<>>) = {}
  BY <1>1, <1>2
<1>4. QED
  BY <1>1, <1>3

\* The nested blocks of one block.
LEMMA FewOfOne ==
    ASSUME NEW h, NEW n \in Nat
    PROVE  LET T == {h} \X (1 .. n)
           IN  IsFiniteSet(T) /\ Cardinality(T) = n
<1>1. IsFiniteSet({h}) /\ Cardinality({h}) = 1
  BY FS_Singleton
<1>2. IsFiniteSet(1 .. n) /\ Cardinality(1 .. n) = n
  <2>1. /\ IsFiniteSet(1 .. n)
        /\ Cardinality(1 .. n) = IF 1 > n THEN 0 ELSE n - 1 + 1
    BY FS_Interval
  <2>2. QED
    BY <2>1
<1>3. IsFiniteSet({h} \X (1 .. n)) /\ Cardinality({h} \X (1 .. n)) = 1 * n
  <2>1. /\ IsFiniteSet({h} \X (1 .. n))
        /\ Cardinality({h} \X (1 .. n)) = Cardinality({h}) * Cardinality(1 .. n)
    BY <1>1, <1>2, FS_Product
  <2>2. QED
    BY <1>1, <1>2, <2>1
<1>4. QED
  BY <1>3

\* What a state of push_blocks has written more than dest is counted.
Counted(r, dest) ==
    /\ r.dest \in Seq(Block) /\ r.pending \in Seq(Nat) /\ r.full \in BOOLEAN
    /\ r.count \in 0 .. MaxBlocks /\ count <= r.count
    /\ IsFiniteSet(Sizes(r.dest) \ Sizes(dest))
    /\ Cardinality(Sizes(r.dest) \ Sizes(dest)) <= r.count - count

LEMMA CountedTurn ==
    ASSUME NEW dest, NEW s, NEW b \in Par \cup Obj, count \in 0 .. MaxBlocks, Counted(s, dest)
    PROVE  Counted(PushOne(s, b), dest)
<1> DEFINE r == PushOne(s, b)
<1>1. CASE s.full
  <2>1. r = s
    BY <1>1 DEF PushOne
  <2>2. QED
    BY <2>1
<1>2. CASE ~ s.full
  <2> DEFINE h == Len(s.dest) + AheadOf(b, s.pending)
             T == {h + 1} \X (1 .. b.size)
             old == Sizes(s.dest) \ Sizes(dest)
             new == Sizes(r.dest) \ Sizes(dest)
  <2>0. /\ s.dest \in Seq(Block) /\ s.pending \in Seq(Nat) /\ s.count \in 0 .. MaxBlocks /\ count <= s.count
        /\ IsFiniteSet(old) /\ Cardinality(old) <= s.count - count
    BY DEF Counted
  <2>1. /\ r.dest \in Seq(Block) /\ r.pending = <<>> /\ r.full \in BOOLEAN
        /\ r.full => r.count = MaxBlocks /\ Len(r.dest) = h
        /\ ~ r.full => /\ r.count = s.count + b.size /\ r.count <= MaxBlocks
                       /\ Len(r.dest) = h + 1
                       /\ r.dest[h + 1] = WithBreaks(b, s.pending)
        /\ \A i \in 1 .. Len(s.dest) : r.dest[i] = s.dest[i]
        /\ \A i \in 1 .. AheadOf(b, s.pending) :
              r.dest[Len(s.dest) + i] = [type |-> "break", at |-> s.pending[i]]
    BY <1>2, <2>0, OneTurn
  <2>2. Len(s.dest) \in Nat /\ AheadOf(b, s.pending) \in Nat /\ b.size \in Nat
    <3>1. Len(s.dest) \in Nat /\ Len(s.pending) \in Nat
      BY <2>0, LenProperties
    <3>2. b.size \in Nat
      BY DEF Par, Obj
    <3>3. QED
      BY <3>1, <3>2 DEF AheadOf
  <2> DEFINE ahead == AheadOf(b, s.pending)
  <2> HIDE DEF r, ahead
  <2>3. ASSUME NEW i \in 1 .. Len(r.dest), r.dest[i].type # "break"
        PROVE  \/ i \in 1 .. Len(s.dest) /\ r.dest[i] = s.dest[i]
               \/ ~ r.full /\ i = h + 1 /\ r.dest[i].size = b.size
    <3>1. CASE i <= Len(s.dest)
      BY <2>1, <2>2, <3>1
    <3>2. CASE Len(s.dest) < i /\ i <= h
      <4>1. i - Len(s.dest) \in 1 .. ahead /\ Len(s.dest) + (i - Len(s.dest)) = i
        BY <2>2, <3>2 DEF ahead
      <4>2. r.dest[Len(s.dest) + (i - Len(s.dest))] = [type |-> "break", at |-> s.pending[i - Len(s.dest)]]
        BY <2>1, <4>1 DEF ahead
      <4>3. QED
        BY <2>3, <4>1, <4>2
    <3>3. CASE h < i
      <4>1. ~ r.full /\ i = h + 1
        BY <2>1, <2>2, <3>3
      <4>2. r.dest[i].size = b.size
        BY <2>0, <2>1, <4>1, WithBreaksType
      <4>3. QED
        BY <4>1, <4>2
    <3>4. QED
      BY <2>2, <3>1, <3>2, <3>3
  <2>4. ASSUME NEW x \in new PROVE x \in old \/ (~ r.full /\ x \in T)
    <3>1. PICK i \in 1 .. Len(r.dest) : r.dest[i].type # "break" /\ \E n \in 1 .. r.dest[i].size : x = <<i, n>>
      BY SizesAre
    <3>2. PICK n \in 1 .. r.dest[i].size : x = <<i, n>>
      BY <3>1
    <3>3. CASE i \in 1 .. Len(s.dest) /\ r.dest[i] = s.dest[i]
      <4>1. x \in Sizes(s.dest)
        BY <3>1, <3>2, <3>3, SizesAre
      <4>2. QED
        BY <4>1
    <3>4. CASE ~ r.full /\ i = h + 1 /\ r.dest[i].size = b.size
      BY <3>2, <3>4
    <3>5. QED
      BY <2>3, <3>1, <3>3, <3>4
  <2>5. IsFiniteSet(T) /\ Cardinality(T) = b.size
    BY <2>2, FewOfOne
  <2> HIDE DEF T, old, new
  <2>6. /\ IsFiniteSet(old \cup T) /\ Cardinality(old) \in Nat /\ Cardinality(old \cup T) \in Nat
        /\ Cardinality(old \cup T) <= Cardinality(old) + b.size
    BY <2>0, <2>5, FewInUnion
  <2>7. CASE r.full
    <3>1. new \in SUBSET old
      BY <2>4, <2>7
    <3>2. IsFiniteSet(new) /\ Cardinality(new) <= Cardinality(old)
      BY <2>0, <3>1, FS_Subset
    <3>3. Cardinality(new) \in Nat
      BY <3>2, FS_CardinalityType
    <3>4. r.count \in 0 .. MaxBlocks /\ count <= r.count /\ Cardinality(new) <= r.count - count
      BY <2>0, <2>1, <2>6, <2>7, <3>2, <3>3, DocxAssumption
    <3>5. QED
      BY <2>1, <3>2, <3>4, EmptySeq DEF Counted, new, r
  <2>8. CASE ~ r.full
    <3>1. new \in SUBSET (old \cup T)
      BY <2>4
    <3>2. IsFiniteSet(new) /\ Cardinality(new) <= Cardinality(old \cup T)
      BY <2>6, <3>1, FS_Subset
    <3>3. Cardinality(new) \in Nat
      BY <3>2, FS_CardinalityType
    <3>4. r.count \in 0 .. MaxBlocks /\ count <= r.count /\ Cardinality(new) <= r.count - count
      <4> DEFINE x == Cardinality(new)
                 y == Cardinality(old \cup T)
                 z == Cardinality(old)
                 k == b.size
                 from == s.count
                 to == r.count
      <4>1. /\ x \in Nat /\ y \in Nat /\ z \in Nat /\ k \in Nat /\ from \in Nat /\ count \in Nat
            /\ x <= y /\ y <= z + k /\ z <= from - count /\ count <= from
            /\ to = from + k /\ to <= MaxBlocks
        BY <2>0, <2>1, <2>2, <2>6, <2>8, <3>2, <3>3, DocxAssumption
      <4> HIDE DEF x, y, z, k, from, to
      <4>2. to \in 0 .. MaxBlocks /\ count <= to /\ x <= to - count
        BY <4>1, DocxAssumption
      <4>3. QED
        BY <4>2 DEF to, x
    <3>5. QED
      BY <2>1, <3>2, <3>4, EmptySeq DEF Counted, new, r
  <2>9. QED
    BY <2>1, <2>7, <2>8
<1>3. QED
  BY <1>1, <1>2 DEF Counted

(* push_blocks counts each block that it writes, nested ones included, and *)
(* writes none that is over the limit.                                     *)
LEMMA CountedPushed ==
    ASSUME NEW dest \in Seq(Block), NEW pending \in Seq(Nat), NEW source \in Seq(Par \cup Obj),
           count \in 0 .. MaxBlocks
    PROVE  Counted(Pushed(dest, pending, source), dest)
<1>0. Len(source) \in Nat
  BY LenProperties
<1>a. PICK a : PushesBy(a, dest, pending, source)
  BY <1>0, PushedByTurns
<1>1. /\ a[0] = FirstTurn(dest, pending)
      /\ \A n \in 1 .. Len(source) : a[n] = PushOne(a[n - 1], source[n])
      /\ Pushed(dest, pending, source) = a[Len(source)]
  BY <1>a DEF PushesBy
<1> DEFINE bad == {n \in Nat : n <= Len(source) /\ ~ Counted(a[n], dest)}
<1>2. SUFFICES ASSUME bad # {} PROVE FALSE
  <2>1. Len(source) \notin bad => Counted(a[Len(source)], dest)
    BY <1>0
  <2> HIDE DEF bad
  <2>2. QED
    BY <1>1, <2>1
<1>3. PICK n \in bad : \A k \in bad : n <= k
  <2>1. bad \in SUBSET Nat
    OBVIOUS
  <2> HIDE DEF bad
  <2>2. QED
    BY <1>2, <2>1, LeastNumber
<1>4. Counted(a[0], dest)
  <2>1. a[0] = [dest |-> dest, pending |-> pending, count |-> count, full |-> count >= MaxBlocks]
    BY <1>1 DEF FirstTurn
  <2> DEFINE r == a[0]
  <2>2. r.dest = dest /\ r.pending = pending /\ r.count = count /\ r.full \in BOOLEAN
    BY <2>1
  <2> HIDE DEF r
  <2>3. Sizes(r.dest) \ Sizes(dest) = {}
    BY <2>2
  <2>4. IsFiniteSet({}) /\ Cardinality({}) = 0
    BY FS_EmptySet
  <2>5. Counted(r, dest)
    <3>1. IsFiniteSet(Sizes(r.dest) \ Sizes(dest)) /\ Cardinality(Sizes(r.dest) \ Sizes(dest)) = 0
      BY <2>3, <2>4
    <3>2. count <= r.count /\ 0 <= r.count - count
      BY <2>2, DocxAssumption
    <3>3. QED
      BY <2>2, <3>1, <3>2 DEF Counted
  <2>6. QED
    BY <2>5 DEF r
<1>5. n \in 1 .. Len(source)
  <2>1. n \in Nat /\ n <= Len(source) /\ ~ Counted(a[n], dest)
    BY <1>3
  <2>2. n # 0
    BY <1>4, <2>1
  <2>3. QED
    BY <1>0, <2>1, <2>2
<1>6. Counted(a[n - 1], dest)
  <2>1. n - 1 \in Nat /\ n - 1 <= Len(source) /\ ~ (n <= n - 1)
    BY <1>0, <1>5
  <2>2. n - 1 \notin bad
    BY <1>3, <2>1
  <2>3. QED
    BY <2>1, <2>2
<1>7. Counted(PushOne(a[n - 1], source[n]), dest)
  <2>1. source[n] \in Par \cup Obj
    BY <1>5, ElementOfSeq
  <2>2. QED
    BY <1>6, <2>1, CountedTurn
<1>8. QED
  BY <1>1, <1>3, <1>5, <1>7

LEMMA BodyIs ==
    ASSUME NEW secs, Len(secs) \in Nat, NEW bs
    PROVE  \A x : x \in Body(secs, bs)
               <=> \/ \E k \in 1 .. Len(secs) : x \in Held(k, Sizes(secs[k].blocks))
                   \/ x \in Held(Len(secs) + 1, Sizes(bs))
<1> DEFINE n == Len(secs)
           in(k) == Held(k, Sizes(IF k <= n THEN secs[k].blocks ELSE bs))
<1>1. Body(secs, bs) = UNION {in(k) : k \in 1 .. n + 1}
  BY DEF Body
<1>2. \A k \in 1 .. n : in(k) = Held(k, Sizes(secs[k].blocks))
  OBVIOUS
<1>3. in(n + 1) = Held(n + 1, Sizes(bs))
  OBVIOUS
<1>4. /\ \A k \in 1 .. n + 1 : k \in 1 .. n \/ k = n + 1
      /\ \A k \in 1 .. n : k \in 1 .. n + 1
      /\ n + 1 \in 1 .. n + 1
  OBVIOUS
<1> HIDE DEF in
<1>5. \A x : x \in Body(secs, bs) <=> \E k \in 1 .. n + 1 : x \in in(k)
  BY <1>1
<1> HIDE DEF n
<1>6. \A x : x \in Body(secs, bs) <=> (\E k \in 1 .. n : x \in Held(k, Sizes(secs[k].blocks))) \/ x \in Held(n + 1, Sizes(bs))
  BY <1>2, <1>3, <1>4, <1>5
<1>7. QED
  BY <1>6 DEF n

\* More blocks in the section that is read.
LEMMA BodyGrows ==
    ASSUME NEW secs, Len(secs) \in Nat, NEW bs, NEW ds, NEW n \in Nat,
           IsFiniteSet(Body(secs, bs)), IsFiniteSet(Sizes(ds) \ Sizes(bs)), Cardinality(Sizes(ds) \ Sizes(bs)) <= n
    PROVE  /\ IsFiniteSet(Body(secs, ds))
           /\ Cardinality(Body(secs, ds)) <= Cardinality(Body(secs, bs)) + n
<1> DEFINE old == Body(secs, bs)
           new == Sizes(ds) \ Sizes(bs)
           more == Held(Len(secs) + 1, new)
<1>1. Body(secs, ds) \subseteq old \cup more
  <2>1. ASSUME NEW x \in Held(Len(secs) + 1, Sizes(ds)) PROVE x \in Held(Len(secs) + 1, Sizes(bs)) \/ x \in more
    BY DEF Held
  <2> HIDE DEF old, more
  <2>2. \A x \in Body(secs, ds) : x \in old \/ x \in more
    BY <2>1, BodyIs DEF old
  <2>3. QED
    BY <2>2
<1> HIDE DEF new
<1>2. IsFiniteSet(more) /\ Cardinality(more) <= Cardinality(new)
  BY FewHeld DEF new
<1> HIDE DEF old, more
<1>3. /\ IsFiniteSet(old \cup more) /\ Cardinality(old \cup more) <= Cardinality(old) + Cardinality(more)
      /\ Cardinality(old) \in Nat /\ Cardinality(more) \in Nat /\ Cardinality(old \cup more) \in Nat
  BY <1>2, FewInUnion DEF old
<1>4. /\ IsFiniteSet(Body(secs, ds)) /\ Cardinality(Body(secs, ds)) <= Cardinality(old \cup more)
  BY <1>1, <1>3, FS_Subset
<1>5. Cardinality(Body(secs, ds)) \in Nat /\ Cardinality(new) \in Nat /\ Cardinality(new) <= n
  BY <1>4, FS_CardinalityType DEF new
<1>6. Cardinality(Body(secs, ds)) <= Cardinality(old) + n
  BY <1>2, <1>3, <1>4, <1>5
<1>7. QED
  BY <1>4, <1>6 DEF old

\* A section that is closed holds what was read of it.
LEMMA BodyCloses ==
    ASSUME NEW S, NEW secs \in Seq(S), NEW sec \in S, NEW bs, Sizes(sec.blocks) = Sizes(bs)
    PROVE  Body(Append(secs, sec), <<>>) = Body(secs, bs)
<1> DEFINE cs == Append(secs, sec)
           n == Len(secs)
<1>1. /\ n \in Nat /\ Len(cs) = n + 1 /\ cs[n + 1] = sec
      /\ \A i \in 1 .. n : cs[i] = secs[i]
  BY AppendProperties, LenProperties
<1> HIDE DEF cs, n
<1>2. Held(n + 2, Sizes(<<>>)) = {}
  BY SizesAre DEF Held
<1>3. \A x : x \in Body(cs, <<>>) <=> \E k \in 1 .. n + 1 : x \in Held(k, Sizes(cs[k].blocks))
  <2>1. Len(cs) \in Nat /\ Len(cs) + 1 = n + 2
    BY <1>1
  <2>2. QED
    BY <1>1, <1>2, <2>1, BodyIs
<1>4. /\ \A k \in 1 .. n + 1 : k \in 1 .. n \/ k = n + 1
      /\ \A k \in 1 .. n : k \in 1 .. n + 1
      /\ n + 1 \in 1 .. n + 1
  BY <1>1
<1>5. \A x : x \in Body(secs, bs) <=> (\E k \in 1 .. n : x \in Held(k, Sizes(secs[k].blocks))) \/ x \in Held(n + 1, Sizes(bs))
  BY <1>1, BodyIs DEF n
<1>6. \A x : x \in Body(cs, <<>>) <=> x \in Body(secs, bs)
  BY <1>1, <1>3, <1>4, <1>5
<1>7. QED
  BY <1>6 DEF cs

\* A break is no block.
LEMMA SizesWithBreak ==
    ASSUME NEW bs \in Seq(Block)
    PROVE  Sizes(Append(bs, SectionBreak)) = Sizes(bs)
<1> DEFINE cs == Append(bs, SectionBreak)
           n == Len(bs)
<1>1. SectionBreak \in Block /\ SectionBreak.type = "break"
  BY DEF SectionBreak, Block, Brk
<1>2. /\ n \in Nat /\ Len(cs) = n + 1 /\ cs[n + 1] = SectionBreak
      /\ \A i \in 1 .. n : cs[i] = bs[i]
  BY <1>1, AppendProperties, LenProperties
<1> HIDE DEF cs, n
<1>3. \A i \in 1 .. Len(cs) : cs[i].type # "break" => i \in 1 .. n
  BY <1>1, <1>2
<1>4. \A i \in 1 .. n : i \in 1 .. Len(cs) /\ cs[i] = bs[i]
  BY <1>2
<1>5. \A x : x \in Sizes(cs) <=> x \in Sizes(bs)
  BY <1>3, <1>4, SizesAre DEF n
<1>6. QED
  BY <1>5 DEF cs

(* A block is counted before it is written, and nothing is skipped before  *)
(* the warning.                                                            *)
LEMMA CapInvNext == BlockInv /\ CapInv /\ [Next]_vars => CapInv'
<1> SUFFICES ASSUME BlockInv, CapInv, [Next]_vars PROVE CapInv'
  OBVIOUS
<1>a. /\ mode \in {"flow", "para", "notes", "done"}
      /\ cur \in Reading /\ blocks \in Seq(Block) /\ refs \in Seq(Nat)
      /\ sections \in Seq([blocks : Seq(Block), refs : Seq(Nat)])
      /\ src \in Seq([is : Kinds, page : Nat]) /\ page \in Nat
      /\ count \in 0 .. MaxBlocks /\ warned \in BOOLEAN
      /\ mode = "para" => count < MaxBlocks
  BY DEF BlockInv
<1>b. /\ cur.local \in Seq(Par \cup Obj) /\ cur.pending \in Seq(Nat) /\ cur.nextId \in Nat
      /\ Len(src) \in Nat /\ Len(sections) \in Nat
  BY <1>a, LenProperties DEF Reading
<1> DEFINE small(m, secs, bs, n) == m \in {"flow", "para"} =>
                                       IsFiniteSet(Body(secs, bs)) /\ Cardinality(Body(secs, bs)) <= n
           known(d, w) == \A p \in 1 .. Len(d) : d[p].is = "gone" => w
<1>c. small(mode, sections, blocks, count) /\ known(src, warned)
  BY DEF CapInv
<1>d. ASSUME small(mode', sections', blocks', count'), known(src', warned') PROVE CapInv'
  BY <1>d DEF CapInv
\* Nothing is skipped.
<1>e. ASSUME NEW kind \in Kinds, Reads(kind), kind = "gone" => warned', warned => warned'
      PROVE  known(src', warned')
  <2>1. /\ Len(src') = Here /\ src'[Here] = [is |-> kind, page |-> page]
        /\ \A i \in 1 .. Len(src) : src'[i] = src[i]
    BY <1>a, <1>e, ReadsType
  <2>2. \A i \in 1 .. Len(src') : i \in 1 .. Len(src) \/ i = Here
    BY <1>b, <2>1 DEF Here
  <2>3. QED
    BY <1>c, <1>e, <2>1, <2>2
\* A section that is closed.
<1>f. ASSUME NEW bs \in Seq(Block), NEW pending, CloseSection(bs, pending)
      PROVE  Body(sections', blocks') = Body(sections, bs)
  <2> DEFINE sec == [blocks |-> Append(bs, SectionBreak), refs |-> refs]
             S == [blocks : Seq(Block), refs : Seq(Nat)]
  <2>1. sections' = Append(sections, sec) /\ blocks' = <<>>
    BY <1>f DEF CloseSection
  <2>2. SectionBreak \in Block
    BY DEF SectionBreak, Block, Brk
  <2>3. sec \in S /\ sections \in Seq(S) /\ sec.blocks = Append(bs, SectionBreak)
    BY <1>a, <1>f, <2>2, AppendProperties
  <2> HIDE DEF sec, S
  <2>4. Sizes(sec.blocks) = Sizes(bs)
    BY <2>3, SizesWithBreak
  <2>5. Body(Append(sections, sec), <<>>) = Body(sections, bs)
    BY ZenonT(30), <2>3, <2>4, BodyCloses
  <2>6. QED
    BY <2>1, <2>5
\* Blocks that are written.
<1>g. ASSUME mode \in {"flow", "para"}, NEW pending \in Seq(Nat), NEW source \in Seq(Par \cup Obj)
      PROVE  LET s == Pushed(blocks, pending, source)
             IN  /\ s.dest \in Seq(Block) /\ IsFiniteSet(Body(sections, s.dest))
                 /\ Cardinality(Body(sections, s.dest)) <= s.count
  <2> DEFINE s == Pushed(blocks, pending, source)
             new == Sizes(s.dest) \ Sizes(blocks)
  <2>1. Counted(s, blocks)
    BY <1>a, <1>g, CountedPushed
  <2> HIDE DEF s
  <2>2. /\ s.dest \in Seq(Block) /\ s.count \in 0 .. MaxBlocks /\ count <= s.count
        /\ IsFiniteSet(new) /\ Cardinality(new) <= s.count - count
    BY <2>1 DEF Counted
  <2>3. s.count - count \in Nat /\ s.count \in Nat /\ count \in Nat
    BY <1>a, <2>2, DocxAssumption
  <2>4. IsFiniteSet(Body(sections, blocks)) /\ Cardinality(Body(sections, blocks)) <= count
    BY <1>c, <1>g
  <2>5. /\ IsFiniteSet(Body(sections, s.dest))
        /\ Cardinality(Body(sections, s.dest)) <= Cardinality(Body(sections, blocks)) + (s.count - count)
    BY <1>b, <2>2, <2>3, <2>4, BodyGrows
  <2>6. Cardinality(Body(sections, s.dest)) \in Nat /\ Cardinality(Body(sections, blocks)) \in Nat
    BY <2>4, <2>5, FS_CardinalityType
  <2>7. Cardinality(Body(sections, s.dest)) <= s.count
    <3> DEFINE x == Cardinality(Body(sections, s.dest))
               y == Cardinality(Body(sections, blocks))
               z == s.count
    <3> HIDE DEF x, y, z
    <3>1. x \in Nat /\ y \in Nat /\ z \in Nat /\ count \in Nat /\ y <= count /\ x <= y + (z - count)
      BY <2>3, <2>4, <2>5, <2>6 DEF x, y, z
    <3>2. x <= z
      BY <3>1
    <3>3. QED
      BY <3>2 DEF x, z
  <2>8. QED
    BY <2>2, <2>5, <2>7 DEF s
<1>1. CASE Text \/ FieldBegin \/ FieldSeparate \/ FieldEnd \/ Break \/ PageHint \/ Note
  <2>1. mode = "para" /\ mode' = "para" /\ UNCHANGED <<sections, blocks, count, warned>>
    BY <1>1 DEF Text, FieldBegin, FieldSeparate, FieldEnd, Break, PageHint, Note, out, story
  <2>2. known(src', warned')
    <3>1. CASE Text \/ Break
      <4>1. \E kind \in Kinds \ {"gone"} : Reads(kind)
        BY <3>1 DEF Text, Break, Kinds
      <4> HIDE DEF known
      <4>2. QED
        BY <1>e, <2>1, <4>1
    <3>2. CASE ~ (Text \/ Break)
      <4>1. src' = src
        BY <1>1, <3>2 DEF FieldBegin, FieldSeparate, FieldEnd, PageHint, Note, out
      <4>2. QED
        BY <1>c, <2>1, <4>1
    <3>3. QED
      BY <3>1, <3>2
  <2>3. QED
    BY <1>c, <1>d, <2>1, <2>2
<1>6. ASSUME NEW size \in 1 .. 2, NEW hints \in Nat, NEW shape \in BOOLEAN, Drawing(size, hints, shape)
      PROVE  CapInv'
  <2>1. mode = "para" /\ mode' = "para" /\ UNCHANGED <<sections, blocks, count, warned>>
        /\ (src' = src \/ Reads("object"))
    BY <1>6 DEF Drawing, out, story
  <2>2. known(src', warned')
    <3>1. CASE src' = src
      BY <1>c, <2>1, <3>1
    <3>2. CASE Reads("object")
      <4>1. "object" \in Kinds /\ "object" # "gone"
        BY DEF Kinds
      <4> HIDE DEF known
      <4>2. QED
        BY <1>e, <2>1, <3>2, <4>1
    <3>3. QED
      BY <2>1, <3>1, <3>2
  <2>3. QED
    BY <1>c, <1>d, <2>1, <2>2
<1>7. ASSUME NEW b \in BOOLEAN, StartParagraph(b)
      PROVE  CapInv'
  <2>1. mode = "flow" /\ mode' = "para" /\ UNCHANGED <<sections, blocks, count, warned>>
        /\ (src' = src \/ Reads("break"))
    BY <1>7 DEF StartParagraph, out, story
  <2>2. known(src', warned')
    <3>1. CASE src' = src
      BY <1>c, <2>1, <3>1
    <3>2. CASE Reads("break")
      <4>1. "break" \in Kinds /\ "break" # "gone"
        BY DEF Kinds
      <4> HIDE DEF known
      <4>2. QED
        BY <1>e, <2>1, <3>2, <4>1
    <3>3. QED
      BY <2>1, <3>1, <3>2
  <2>3. QED
    BY <1>c, <1>d, <2>1, <2>2
<1>8. ASSUME NEW b \in BOOLEAN, EndParagraph(b)
      PROVE  CapInv'
  <2> DEFINE c == IF cur.runs # <<>> \/ ~ cur.emitted THEN Flush(cur) ELSE cur
             s == Pushed(blocks, c.pending, c.local)
  <2>1. mode = "para" /\ c \in Reading
    BY <1>8, <1>a, FlushType DEF EndParagraph
  <2>2. c.pending \in Seq(Nat) /\ c.local \in Seq(Par \cup Obj)
    BY <2>1 DEF Reading
  <2>3. /\ IF b THEN CloseSection(s.dest, s.pending)
           ELSE blocks' = s.dest /\ UNCHANGED sections
        /\ count' = s.count /\ warned' = (warned \/ s.full) /\ src' = src
    BY <1>8 DEF EndParagraph
  <2> HIDE DEF c
  <2>4. /\ s.dest \in Seq(Block) /\ IsFiniteSet(Body(sections, s.dest))
        /\ Cardinality(Body(sections, s.dest)) <= s.count
    BY <1>g, <2>1, <2>2
  <2> HIDE DEF s
  <2>5. Body(sections', blocks') = Body(sections, s.dest)
    <3>1. CASE b
      BY <1>f, <2>3, <2>4, <3>1
    <3>2. CASE ~ b
      BY <2>3, <3>2
    <3>3. QED
      BY <3>1, <3>2
  <2>6. known(src', warned')
    BY <1>c, <2>3
  <2>7. small(mode', sections', blocks', count')
    BY <2>3, <2>4, <2>5
  <2>8. QED
    BY <1>d, <2>6, <2>7
<1>9. ASSUME NEW b \in BOOLEAN, Skip(b)
      PROVE  CapInv'
  <2>1. Reads("gone") /\ warned' = TRUE /\ mode = "flow" /\ mode' = "flow" /\ count' = count /\ "gone" \in Kinds
    BY <1>9 DEF Skip, Kinds
  <2>2. Body(sections', blocks') = Body(sections, blocks)
    <3>1. CASE b
      <4>1. CloseSection(blocks, cur.pending)
        BY <1>9, <3>1 DEF Skip
      <4>2. QED
        BY <1>a, <1>f, <4>1
    <3>2. CASE ~ b
      BY <1>9, <3>2 DEF Skip
    <3>3. QED
      BY <3>1, <3>2
  <2>3. known(src', warned')
    BY <2>1
  <2>4. small(mode', sections', blocks', count')
    BY <1>c, <2>1, <2>2
  <2>5. QED
    BY <1>d, <2>3, <2>4
<1>10. ASSUME NEW size \in 1 .. 2, NEW hints \in Nat, Table(size, hints)
       PROVE  CapInv'
  <2> DEFINE o == Object(cur.nextId, size)
             l == <<o>>
             s == Pushed(blocks, cur.pending, l)
  <2>1. mode = "flow" /\ Reads("object") /\ "object" \in Kinds /\ "object" # "gone"
    BY <1>10 DEF Table, Kinds
  <2>2. o \in Obj
    BY <1>a, <1>b, ObjectType
  <2>3. blocks' = s.dest /\ UNCHANGED sections /\ count' = s.count /\ warned' = (warned \/ s.full)
    BY <1>10 DEF Table
  <2> HIDE DEF o
  <2>4. l \in Seq(Par \cup Obj)
    BY <2>2
  <2> HIDE DEF l
  <2>5. /\ IsFiniteSet(Body(sections, s.dest)) /\ Cardinality(Body(sections, s.dest)) <= s.count
    BY <1>b, <1>g, <2>1, <2>4
  <2> HIDE DEF s
  <2>6. small(mode', sections', blocks', count')
    BY <2>3, <2>5
  <2>7. warned => warned'
    BY <2>3
  <2> HIDE DEF known
  <2>8. known(src', warned')
    BY <1>e, <2>1, <2>7
  <2>9. QED
    BY <1>d, <2>6, <2>8
<1>11. CASE Finish
  <2>1. mode' = "notes" /\ UNCHANGED <<src, warned>>
    BY <1>11 DEF Finish, story
  <2>2. QED
    BY <1>c, <1>d, <2>1
<1>12. ASSUME NEW n \in {0, 2}, NEW b \in BOOLEAN, AttachNote(n, b)
       PROVE  CapInv'
  <2>1. mode' = "notes" /\ UNCHANGED <<src, warned>>
    BY <1>12 DEF AttachNote, story
  <2>2. QED
    BY <1>c, <1>d, <2>1
<1>13. CASE NextSection
  <2>1. mode' \in {"notes", "done"} /\ UNCHANGED <<src, warned>>
    BY <1>13 DEF NextSection, story
  <2>2. QED
    BY <1>c, <1>d, <2>1
<1>14. CASE UNCHANGED vars
  <2>1. UNCHANGED <<mode, blocks, sections, src, warned, count>>
    BY <1>14 DEF vars, story, out
  <2>2. QED
    BY <1>c, <1>d, <2>1
<1>15. QED
  BY <1>1, <1>6, <1>7, <1>8, <1>9, <1>10, <1>11, <1>12, <1>13, <1>14, Steps

LEMMA CapInvInit == Init => CapInv
<1> SUFFICES ASSUME Init PROVE CapInv
  OBVIOUS
<1>1. blocks = <<>> /\ sections = <<>> /\ count = 0 /\ Len(src) = 0 /\ Len(sections) = 0
  BY DEF Init
<1>2. Body(sections, blocks) = {}
  <2>1. Held(Len(sections) + 1, Sizes(blocks)) = {}
    BY <1>1, SizesAre DEF Held
  <2>2. QED
    BY <1>1, <2>1, BodyIs
<1>3. IsFiniteSet({}) /\ Cardinality({}) = 0
  BY FS_EmptySet
<1>4. Cardinality(Body(sections, blocks)) <= count
  <2>1. Cardinality(Body(sections, blocks)) = 0
    BY ZenonT(30), <1>2, <1>3
  <2>2. QED
    BY <1>1, <2>1
<1>5. IsFiniteSet(Body(sections, blocks))
  BY ZenonT(30), <1>2, <1>3
<1>6. QED
  BY <1>1, <1>4, <1>5 DEF CapInv

\* The blocks of the body.
LEMMA NestedIs == BlockInv => Nested = Body(sections, blocks)
<1> SUFFICES ASSUME BlockInv PROVE Nested = Body(sections, blocks)
  OBVIOUS
<1> DEFINE n == Len(sections)
           B == {s \in Spots : s[1] <= n + 1 /\ At(s).type # "break"}
           in(s) == {<<s, j>> : j \in 1 .. At(s).size}
<1>1. /\ n \in Nat /\ Len(Parts) = n + 2 /\ \A k \in 1 .. n : Parts[k] = sections[k].blocks
      /\ Parts[n + 1] = blocks
      /\ \A s : s \in Spots <=> \E k \in 1 .. Len(Parts) : \E i \in 1 .. Len(Parts[k]) : s = <<k, i>>
      /\ \A k, i : At(<<k, i>>) = Parts[k][i]
  BY SpotsAre
<1>2. Nested = UNION {in(s) : s \in B}
  BY DEF Nested
<1>3. \A s, x : x \in in(s) <=> \E j \in 1 .. At(s).size : x = <<s, j>>
  OBVIOUS
<1> HIDE DEF in
<1>4. \A x : x \in Nested <=> \E s \in B : \E j \in 1 .. At(s).size : x = <<s, j>>
  BY <1>2, <1>3
<1>5. ASSUME NEW k, NEW x
      PROVE  x \in Held(k, Sizes(Parts[k]))
                <=> \E i \in 1 .. Len(Parts[k]) : /\ Parts[k][i].type # "break"
                                                  /\ \E j \in 1 .. Parts[k][i].size : x = <<<<k, i>>, j>>
  <2>1. ASSUME NEW y \in Sizes(Parts[k]), x = <<<<k, y[1]>>, y[2]>>
        PROVE  \E i \in 1 .. Len(Parts[k]) : /\ Parts[k][i].type # "break"
                                             /\ \E j \in 1 .. Parts[k][i].size : x = <<<<k, i>>, j>>
    <3>1. PICK i \in 1 .. Len(Parts[k]) : Parts[k][i].type # "break" /\ \E j \in 1 .. Parts[k][i].size : y = <<i, j>>
      BY SizesAre
    <3>2. PICK j \in 1 .. Parts[k][i].size : y = <<i, j>>
      BY <3>1
    <3>3. x = <<<<k, i>>, j>>
      BY <2>1, <3>2
    <3>4. QED
      BY <3>1, <3>3
  <2>2. ASSUME NEW i \in 1 .. Len(Parts[k]), Parts[k][i].type # "break",
               NEW j \in 1 .. Parts[k][i].size, x = <<<<k, i>>, j>>
        PROVE  x \in Held(k, Sizes(Parts[k]))
    <3>1. <<i, j>> \in Sizes(Parts[k])
      BY <2>2, SizesAre
    <3>2. x = <<<<k, <<i, j>>[1]>>, <<i, j>>[2]>>
      BY <2>2
    <3>3. QED
      BY <3>1, <3>2 DEF Held
  <2>3. x \in Held(k, Sizes(Parts[k])) <=> \E y \in Sizes(Parts[k]) : x = <<<<k, y[1]>>, y[2]>>
    BY DEF Held
  <2>4. QED
    BY <2>1, <2>2, <2>3
<1>6. \A x : x \in Nested <=> \E k \in 1 .. n + 1 : x \in Held(k, Sizes(Parts[k]))
  <2>1. ASSUME NEW x \in Nested PROVE \E k \in 1 .. n + 1 : x \in Held(k, Sizes(Parts[k]))
    <3>1. PICK s \in B : \E j \in 1 .. At(s).size : x = <<s, j>>
      BY <1>4
    <3>2. PICK k \in 1 .. Len(Parts) : \E i \in 1 .. Len(Parts[k]) : s = <<k, i>>
      BY <1>1
    <3>3. PICK i \in 1 .. Len(Parts[k]) : s = <<k, i>>
      BY <3>2
    <3>4. At(s) = Parts[k][i] /\ k \in 1 .. n + 1 /\ At(s).type # "break"
      BY <1>1, <3>3
    <3>5. QED
      BY <1>5, <3>1, <3>3, <3>4
  <2>2. ASSUME NEW k \in 1 .. n + 1, NEW x \in Held(k, Sizes(Parts[k])) PROVE x \in Nested
    <3>0. \E i \in 1 .. Len(Parts[k]) : /\ Parts[k][i].type # "break"
                                        /\ \E j \in 1 .. Parts[k][i].size : x = <<<<k, i>>, j>>
      <4>1. PICK y \in Sizes(Parts[k]) : x = <<<<k, y[1]>>, y[2]>>
        BY DEF Held
      <4>2. PICK i \in 1 .. Len(Parts[k]) : /\ Parts[k][i].type # "break"
                                            /\ \E j \in 1 .. Parts[k][i].size : y = <<i, j>>
        BY SizesAre
      <4>3. PICK j \in 1 .. Parts[k][i].size : y = <<i, j>>
        BY <4>2
      <4>4. x = <<<<k, i>>, j>>
        BY <4>1, <4>3
      <4>5. QED
        BY <4>2, <4>4
    <3>1. PICK i \in 1 .. Len(Parts[k]) : Parts[k][i].type # "break" /\ \E j \in 1 .. Parts[k][i].size : x = <<<<k, i>>, j>>
      BY <3>0
    <3>2. <<k, i>> \in Spots /\ At(<<k, i>>) = Parts[k][i] /\ <<k, i>>[1] <= n + 1
      BY <1>1
    <3>3. <<k, i>> \in B
      BY <3>1, <3>2
    <3>4. QED
      BY <1>4, <3>1, <3>2, <3>3
  <2>3. QED
    BY <2>1, <2>2
<1>7. \A x : x \in Body(sections, blocks)
          <=> (\E k \in 1 .. n : x \in Held(k, Sizes(sections[k].blocks))) \/ x \in Held(n + 1, Sizes(blocks))
  BY <1>1, BodyIs
<1>8. /\ \A k \in 1 .. n + 1 : k \in 1 .. n \/ k = n + 1
      /\ \A k \in 1 .. n : k \in 1 .. n + 1
      /\ n + 1 \in 1 .. n + 1
  BY <1>1
<1> HIDE DEF n
<1>9. \A x : x \in Nested <=> x \in Body(sections, blocks)
  BY <1>1, <1>6, <1>7, <1>8
<1>10. QED
  BY <1>9

LEMMA CapInvHolds == BlockInv /\ CapInv => CapHolds
<1> SUFFICES ASSUME BlockInv, CapInv PROVE CapHolds
  OBVIOUS
<1>1. ASSUME mode \in {"flow", "para"} PROVE Cardinality(Nested) <= MaxBlocks
  <2>1. IsFiniteSet(Nested) /\ Cardinality(Nested) <= count
    BY <1>1, NestedIs DEF CapInv
  <2>2. Cardinality(Nested) \in Nat /\ count \in 0 .. MaxBlocks
    BY <2>1, FS_CardinalityType DEF BlockInv
  <2>3. QED
    BY <2>1, <2>2, DocxAssumption
<1>2. QED
  BY <1>1 DEF CapHolds, CapInv

(* The limit of blocks holds for every limit and every document, with the  *)
(* blocks of tables and textboxes; what is left out is left with a warning. *)
THEOREM CapAlwaysHolds == Spec => []CapHolds
<1>1. Init => BlockInv /\ CapInv
  BY BlockInvInit, CapInvInit
<1>2. BlockInv /\ CapInv /\ [Next]_vars => (BlockInv /\ CapInv)'
  BY BlockInvNext, CapInvNext
<1>3. BlockInv /\ CapInv => CapHolds
  BY CapInvHolds
<1> QED
  BY <1>1, <1>2, <1>3, PTL DEF Spec
=============================================================================
