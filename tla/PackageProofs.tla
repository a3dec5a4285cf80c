---------------------------- MODULE PackageProofs ----------------------------
(***************************************************************************)
(* The limits of a package, the walk of its targets and the slides of a    *)
(* deck: for every archive, every limit and every order of reads that the  *)
(* extraction of a presentation makes.                                     *)
(***************************************************************************)
EXTENDS PptxDeck, ListProofs, TLAPS

(***************************************************************************)
(* The sum of what the entries declare.                                    *)
(***************************************************************************)
Sums(f, a, n) == f = [k \in 0 .. n |-> IF k = 0 THEN 0 ELSE f[k - 1] + a[k].size]

(* There is a sum of the entries, however many they are.                   *)
LEMMA SumsExist ==
    ASSUME NEW a, NEW n \in Nat
    PROVE  \E f : Sums(f, a, n)
<1> DEFINE bad == {k \in Nat : ~ \E f : Sums(f, a, k)}
<1>1. SUFFICES ASSUME bad # {} PROVE FALSE
  OBVIOUS
<1>2. PICK m \in bad : \A k \in bad : m <= k
  <2>1. bad \in SUBSET Nat
    OBVIOUS
  <2> HIDE DEF bad
  <2>2. QED
    BY <1>1, <2>1, LeastOne
<1>3. CASE m = 0
  <2>1. Sums([k \in 0 .. 0 |-> 0], a, 0)
    BY DEF Sums
  <2>2. QED
    BY <1>2, <1>3, <2>1
<1>4. CASE m # 0
  <2>1. m - 1 \in Nat /\ m - 1 \notin bad
    BY <1>2, <1>4
  <2>2. PICK f : Sums(f, a, m - 1)
    BY <2>1
  <2> DEFINE g == [k \in 0 .. m |-> IF k = m THEN f[m - 1] + a[m].size ELSE f[k]]
  <2>3. \A k \in 0 .. m - 1 : g[k] = f[k]
    BY <1>2
  <2>4. \A k \in 0 .. m - 1 : f[k] = IF k = 0 THEN 0 ELSE f[k - 1] + a[k].size
    BY <2>2 DEF Sums
  <2>5. g[m] = f[m - 1] + a[m].size
    BY <2>1
  <2>6. g = [k \in 0 .. m |-> g[k]]
    OBVIOUS
  <2> HIDE DEF g
  <2>7. ASSUME NEW k \in 0 .. m
        PROVE  g[k] = IF k = 0 THEN 0 ELSE g[k - 1] + a[k].size
    <3>1. CASE k = m
      BY <1>4, <2>1, <2>3, <2>5, <3>1
    <3>2. CASE k # m
      <4>1. k \in 0 .. m - 1 /\ (k # 0 => k - 1 \in 0 .. m - 1)
        BY <3>2
      <4>2. QED
        BY <2>3, <2>4, <4>1
    <3>3. QED
      BY <3>1, <3>2
  <2>8. Sums(g, a, m)
    BY <2>6, <2>7 DEF Sums
  <2>9. QED
    BY <1>2, <2>8
<1>5. QED
  BY <1>3, <1>4

(* What one entry adds to it.                                              *)
LEMMA DeclaredIs ==
    ASSUME IsArchive(archive)
    PROVE  /\ Declared[0] = 0
           /\ \A k \in 1 .. Len(archive) : Declared[k] = Declared[k - 1] + archive[k].size
<1>0. Len(archive) \in Nat
  BY DEF IsArchive
<1>1. Sums(Declared, archive, Len(archive))
  BY <1>0, SumsExist DEF Declared, Sums
<1>2. QED
  BY <1>0, <1>1 DEF Sums

(* Sums of sizes are numbers and grow.                                     *)
LEMMA DeclaredGrows ==
    ASSUME IsArchive(archive)
    PROVE  /\ \A k \in 0 .. Len(archive) : Declared[k] \in Nat
           /\ \A k \in 0 .. Len(archive) : Declared[k] <= Declared[Len(archive)]
<1> DEFINE n == Len(archive)
<1>0. n \in Nat /\ \A k \in 1 .. n : archive[k].size \in Nat
  BY DEF IsArchive
<1>1. Declared[0] = 0 /\ \A k \in 1 .. n : Declared[k] = Declared[k - 1] + archive[k].size
  BY DeclaredIs
<1> HIDE DEF n
<1>2. \A k \in 0 .. n : Declared[k] \in Nat
  <2> DEFINE bad == {k \in Nat : k <= n /\ Declared[k] \notin Nat}
  <2>1. SUFFICES ASSUME bad # {} PROVE FALSE
    BY <1>0
  <2>2. PICK m \in bad : \A k \in bad : m <= k
    <3>1. bad \in SUBSET Nat
      OBVIOUS
    <3> HIDE DEF bad
    <3>2. QED
      BY <2>1, <3>1, LeastOne
  <2>3. m # 0
    BY <1>1, <2>2
  <2>4. Declared[m - 1] \in Nat
    BY <1>0, <2>2, <2>3
  <2>5. Declared[m] = Declared[m - 1] + archive[m].size /\ archive[m].size \in Nat
    BY <1>0, <1>1, <2>2, <2>3
  <2>6. QED
    BY <2>2, <2>4, <2>5
<1>3. \A k \in 0 .. n : Declared[n - k] <= Declared[n]
  <2> DEFINE grown(k) == Declared[n - k] <= Declared[n]
             bad == {k \in Nat : k <= n /\ ~ grown(k)}
  <2>a. ASSUME bad = {}, NEW k \in 0 .. n PROVE grown(k)
    <3>1. k \in Nat /\ k <= n
      BY <1>0
    <3> HIDE DEF grown
    <3>2. QED
      BY <2>a, <3>1
  <2>1. SUFFICES ASSUME bad # {} PROVE FALSE
    BY <2>a
  <2>2. PICK m \in bad : \A k \in bad : m <= k
    <3>1. bad \in SUBSET Nat
      OBVIOUS
    <3> HIDE DEF bad
    <3>2. QED
      BY <2>1, <3>1, LeastOne
  <2>3. m # 0
    BY <1>0, <1>2, <2>2
  <2>4. Declared[n - (m - 1)] <= Declared[n]
    BY <1>0, <2>2, <2>3
  <2>5. n - (m - 1) \in 1 .. n /\ n - m \in 0 .. n /\ (n - (m - 1)) - 1 = n - m
    BY <1>0, <2>2, <2>3
  <2>6. Declared[n - (m - 1)] = Declared[n - m] + archive[n - (m - 1)].size
    BY <1>1, <2>5
  <2>7. /\ Declared[n - m] \in Nat /\ Declared[n] \in Nat /\ Declared[n - (m - 1)] \in Nat
        /\ archive[n - (m - 1)].size \in Nat
    BY <1>0, <1>2, <2>5
  <2>8. Declared[n - m] <= Declared[n]
    BY <2>4, <2>6, <2>7
  <2>9. QED
    BY <2>2, <2>8
<1>4. ASSUME NEW k \in 0 .. n PROVE Declared[k] <= Declared[n]
  <2>1. n - k \in 0 .. n /\ n - (n - k) = k
    BY <1>0
  <2>2. QED
    BY <1>3, <2>1
<1>5. QED
  BY <1>2, <1>4 DEF n

(***************************************************************************)
(* Reading.                                                                *)
(***************************************************************************)
(* A part that is there is an entry.                                       *)
LEMMA NamedIsEntry ==
    ASSUME IsArchive(archive), NEW name, HasPart(name)
    PROVE  \E i \in 1 .. Len(archive) : Named(name) = archive[i]
<1> DEFINE I == {i \in 1 .. Len(archive) : archive[i].name = name}
<1>1. Len(archive) \in Nat /\ I \in SUBSET Nat /\ I # {}
  BY DEF IsArchive, HasPart
<1>2. SelectInSeq(archive, LAMBDA e : e.name = name) = Min(I)
  BY <1>1 DEF SelectInSeq
<1>3. Min(I) \in I
  <2> HIDE DEF I
  <2>1. \E x \in I : \A y \in I : x <= y
    BY <1>1, LeastOne
  <2>2. QED
    BY <2>1 DEF Min
<1>4. QED
  BY <1>2, <1>3 DEF Named

(* What a read counts is a number, whatever comes out of the entry.        *)
LEMMA InflatedIs ==
    ASSUME LimitsTyped, NEW e, e.real \in Int, e.real >= 0
    PROVE  Inflated(e) \in Nat
<1> DEFINE S == {e.real, MaxEntrySize + 1}
<1>1. S \in SUBSET Nat /\ S # {}
  BY DEF LimitsTyped
<1>2. Min(S) \in S
  <2> HIDE DEF S
  <2>1. \E x \in S : \A y \in S : x <= y
    BY <1>1, LeastOne
  <2>2. QED
    BY <2>1 DEF Min
<1>3. Min(S) \in Nat
  BY <1>1, <1>2
<1>4. QED
  BY <1>3 DEF Inflated

(* A part is delivered only while the total allows, and one that is over   *)
(* it crosses it.                                                          *)
LEMMA OutcomeIs ==
    ASSUME LimitsTyped, IsArchive(archive), NEW name
    PROVE  /\ Outcome(name) \in {"ok", "over"} => Inflated(Named(name)) \in Nat
           /\ Outcome(name) = "ok" => ~ (bytesRead + Inflated(Named(name)) > MaxTotalSize)
           /\ Outcome(name) = "over" => bytesRead + Inflated(Named(name)) > MaxTotalSize
<1>1. ASSUME Outcome(name) \in {"ok", "over"} PROVE Inflated(Named(name)) \in Nat
  <2>1. HasPart(name) /\ Named(name).real # -1 /\ Named(name).real # -2
    BY <1>1 DEF Outcome, Opens
  <2>2. Named(name).real \in Int /\ Named(name).real >= -2
    BY <2>1, NamedIsEntry DEF IsArchive
  <2>3. QED
    BY <2>1, <2>2, InflatedIs
<1>2. QED
  BY <1>1 DEF Outcome

(* A read keeps what was delivered below what was counted, and that below  *)
(* the total as long as parts are delivered.                               *)
LEMMA ReadKeeps ==
    ASSUME LimitsTyped, IsArchive(archive), PackageInv, NEW name, Read(name)
    PROVE  PackageInv'
<1> DEFINE n == Inflated(Named(name))
<1>1. UNCHANGED <<archive, opened, inspected, total>>
  BY DEF Read
<1>2. /\ opened' = opened /\ inspected' = inspected /\ total' = total
      /\ Len(archive)' = Len(archive) /\ Declared' = Declared /\ Fits(inspected)' = Fits(inspected)
  BY <1>1 DEF Declared, Fits
<1>3. bytesRead \in Nat /\ delivered \in Nat /\ delivered <= bytesRead /\ delivered <= MaxTotalSize
      /\ broken \in BOOLEAN /\ (broken => bytesRead > MaxTotalSize) /\ MaxTotalSize \in Nat
  BY DEF PackageInv, LimitsTyped
<1>4. /\ bytesRead' \in Nat /\ delivered' \in Nat /\ delivered' <= bytesRead' /\ delivered' <= MaxTotalSize
      /\ broken' \in BOOLEAN /\ (broken' => bytesRead' > MaxTotalSize)
  <2>1. CASE Outcome(name) = "ok"
    <3>1. bytesRead' = bytesRead + n /\ delivered' = delivered + n /\ broken' = broken
      BY <1>3, <2>1 DEF Read, Counted
    <3>2. n \in Nat /\ bytesRead + n <= MaxTotalSize
      <4>1. n \in Nat /\ ~ (bytesRead + n > MaxTotalSize)
        BY <2>1, OutcomeIs
      <4> HIDE DEF n
      <4>2. QED
        BY <1>3, <4>1
    <3> HIDE DEF n
    <3>3. QED
      BY <1>3, <3>1, <3>2
  <2>2. CASE Outcome(name) = "over"
    <3>1. bytesRead' = bytesRead + n /\ delivered' = delivered /\ broken' = TRUE
      BY <2>2 DEF Read, Counted
    <3>2. n \in Nat /\ bytesRead + n > MaxTotalSize
      BY <2>2, OutcomeIs
    <3> HIDE DEF n
    <3>3. QED
      BY <1>3, <3>1, <3>2
  <2>3. CASE Outcome(name) \notin {"ok", "over"}
    <3>1. bytesRead' = bytesRead /\ delivered' = delivered /\ broken' = broken
      BY <1>3, <2>3 DEF Read
    <3>2. QED
      BY <1>3, <3>1
  <2>4. QED
    BY <2>1, <2>2, <2>3
<1>5. QED
  BY <1>2, <1>4 DEF PackageInv

(***************************************************************************)
(* Opening.                                                                *)
(***************************************************************************)
(* One more entry fits when Package::open does not refuse it.              *)
LEMMA EntryFits ==
    ASSUME LimitsTyped, IsArchive(archive), inspected \in 0 .. Len(archive) - 1, Fits(inspected), NEW sum
    PROVE  Refused(Entry, sum) <=> sum > MaxTotalSize \/ ~ Fits(inspected + 1)
<1> DEFINE m == inspected + 1
           e == archive[m]
<1>1. /\ m \in 1 .. Len(archive) /\ inspected \in Nat /\ m \in Nat /\ m - 1 = inspected
      /\ e.unsafe \in BOOLEAN /\ e.size \in Nat /\ e.packed \in Nat /\ Entry = e
      /\ MaxEntrySize \in Nat /\ MaxRatio \in Nat
  BY DEF IsArchive, Entry, LimitsTyped
<1>2. Inflates(e) <=> ~ (e.size <= e.packed * MaxRatio)
  <2>1. e.packed * MaxRatio \in Nat /\ (e.packed = 0 => e.packed * MaxRatio = 0)
    BY <1>1
  <2> DEFINE p == e.packed * MaxRatio
  <2>2. e.size \in Nat /\ p \in Nat /\ (e.packed = 0 => p = 0)
    BY <1>1, <2>1
  <2>3. Inflates(e) <=> e.size > 0 /\ (e.packed = 0 \/ e.size > p)
    BY DEF Inflates
  <2> HIDE DEF p, e
  <2>4. Inflates(e) <=> ~ (e.size <= p)
    BY <2>2, <2>3
  <2>5. QED
    BY <2>4 DEF p
<1>3. \A i : i \in 1 .. m <=> i \in 1 .. inspected \/ i = m
  BY <1>1
<1>4. Fits(m) <=> /\ ~ e.unsafe /\ e.size <= MaxEntrySize /\ ~ Inflates(e)
                  /\ \A i \in 1 .. inspected : archive[i].name # e.name
  <2>1. m \notin 1 .. inspected
    BY <1>1
  <2>2. ASSUME Fits(m)
        PROVE  /\ ~ e.unsafe /\ e.size <= MaxEntrySize /\ ~ Inflates(e)
               /\ \A i \in 1 .. inspected : archive[i].name # e.name
    BY <1>2, <1>3, <2>1, <2>2 DEF Fits
  <2>3. ASSUME ~ e.unsafe, e.size <= MaxEntrySize, ~ Inflates(e),
               \A i \in 1 .. inspected : archive[i].name # e.name
        PROVE  Fits(m)
    <3>1. e.size <= e.packed * MaxRatio
      BY <1>2, <2>3
    <3>2. SUFFICES ASSUME NEW i \in 1 .. m
                   PROVE  /\ ~ archive[i].unsafe /\ archive[i].size <= MaxEntrySize
                          /\ archive[i].size <= archive[i].packed * MaxRatio
                          /\ \A j \in 1 .. m : archive[i].name = archive[j].name => i = j
      BY DEF Fits
    <3>3. CASE i = m
      BY <1>3, <2>3, <3>1, <3>3
    <3>4. CASE i \in 1 .. inspected
      BY <1>3, <2>3, <3>4 DEF Fits
    <3>5. QED
      BY <1>3, <3>3, <3>4
  <2>4. QED
    BY <2>2, <2>3
<1>5. Refused(e, sum) <=> \/ e.unsafe \/ e.size > MaxEntrySize \/ sum > MaxTotalSize \/ Inflates(e)
                          \/ \E i \in 1 .. inspected : archive[i].name = e.name
  BY DEF Refused
<1>6. e.size > MaxEntrySize <=> ~ (e.size <= MaxEntrySize)
  <2> HIDE DEF e
  <2>1. QED
    BY <1>1
<1>7. QED
  <2> HIDE DEF e
  <2>1. QED
    BY <1>1, <1>4, <1>5, <1>6 DEF m

LEMMA OpenKeeps ==
    ASSUME LimitsTyped, IsArchive(archive), PackageInv, OpenPackage
    PROVE  PackageInv'
<1>1. /\ opened = "no" /\ Len(archive) \in Nat /\ inspected \in 0 .. Len(archive)
      /\ total = Declared[inspected] /\ total <= MaxTotalSize /\ Fits(inspected)
      /\ (inspected > 0 => Len(archive) <= MaxEntries)
      /\ MaxEntries \in Nat /\ MaxTotalSize \in Nat
  BY DEF OpenPackage, PackageInv, IsArchive, LimitsTyped
<1>2. UNCHANGED <<archive, bytesRead, delivered, broken>>
  BY DEF OpenPackage
<1>3. Len(archive)' = Len(archive) /\ Declared' = Declared /\ \A n : Fits(n)' = Fits(n)
  BY <1>2 DEF Declared, Fits
<1>4. /\ bytesRead' \in Nat /\ delivered' \in 0 .. bytesRead' /\ delivered' <= MaxTotalSize
      /\ broken' \in BOOLEAN /\ (broken' => bytesRead' > MaxTotalSize)
  BY <1>2 DEF PackageInv
<1>5. CASE Len(archive) > MaxEntries
  <2>1. opened' = "refused" /\ inspected' = inspected /\ total' = total
    BY <1>5 DEF OpenPackage
  <2>2. ~ (inspected > 0)
    BY <1>1, <1>5
  <2>3. QED
    BY <1>1, <1>2, <1>3, <1>4, <1>5, <2>1, <2>2 DEF PackageInv
<1>6. CASE ~ (Len(archive) > MaxEntries) /\ inspected = Len(archive)
  <2>1. opened' = "yes" /\ inspected' = inspected /\ total' = total
    BY <1>6 DEF OpenPackage
  <2>2. Fits(inspected)'
    BY <1>1, <1>2, <2>1 DEF Fits
  <2>3. Len(archive) <= MaxEntries
    BY <1>1, <1>6
  <2>4. QED
    BY <1>1, <1>2, <1>3, <1>4, <1>6, <2>1, <2>2, <2>3 DEF PackageInv
<1>7. CASE ~ (Len(archive) > MaxEntries) /\ inspected # Len(archive)
  <2> DEFINE m == inspected + 1
  <2>1. total' = total + Entry.size /\ inspected' = m
        /\ opened' = IF Refused(Entry, total') THEN "refused" ELSE "no"
    BY <1>7 DEF OpenPackage
  <2>2. m \in 1 .. Len(archive) /\ m - 1 = inspected /\ inspected \in 0 .. Len(archive) - 1
    BY <1>1, <1>7
  <2>3. Declared[m] = Declared[m - 1] + archive[m].size /\ Declared[m] \in Nat
    BY <2>2, DeclaredIs, DeclaredGrows
  <2>4. total' = Declared[m] /\ total' \in Nat
    BY <1>1, <2>1, <2>2, <2>3 DEF Entry
  <2>5. Refused(Entry, total') <=> total' > MaxTotalSize \/ ~ Fits(m)
    BY <1>1, <2>2, EntryFits
  <2>6. Len(archive) <= MaxEntries
    BY <1>1, <1>7
  <2>7. /\ Fits(inspected)' <=> Fits(m)
        /\ Declared'[inspected'] = Declared[m] /\ inspected' \in 0 .. Len(archive)'
    <3>1. Fits(inspected)' <=> Fits(m)
      BY <1>2, <2>1 DEF Fits
    <3>2. inspected' \in 0 .. Len(archive)'
      BY <1>1, <1>3, <2>1, <2>2
    <3>3. QED
      BY <1>3, <2>1, <3>1, <3>2
  <2>8. CASE opened' = "refused"
    <3>1. total' > MaxTotalSize \/ ~ Fits(m)
      BY <2>1, <2>5, <2>8
    <3>2. QED
      BY <1>2, <1>3, <1>4, <2>4, <2>6, <2>7, <2>8, <3>1 DEF PackageInv
  <2>9. CASE opened' = "no"
    <3>1. total' <= MaxTotalSize /\ Fits(m)
      <4>1. ~ Refused(Entry, total')
        BY <2>1, <2>9
      <4>2. ~ (total' > MaxTotalSize) /\ Fits(m)
        BY <2>5, <4>1
      <4>3. QED
        BY <1>1, <2>4, <4>2
    <3>2. QED
      BY <1>2, <1>3, <1>4, <2>4, <2>6, <2>7, <2>9, <3>1 DEF PackageInv
  <2>10. QED
    BY <2>1, <2>8, <2>9
<1>8. QED
  BY <1>5, <1>6, <1>7

(* Over the total no part is delivered any more.                           *)
LEMMA NoneDelivered ==
    ASSUME LimitsTyped, IsArchive(archive), bytesRead \in Nat, bytesRead > MaxTotalSize, NEW name
    PROVE  Outcome(name) # "ok"
<1> SUFFICES ASSUME Outcome(name) = "ok" PROVE FALSE
  OBVIOUS
<1>1. Inflated(Named(name)) \in Nat /\ ~ (bytesRead + Inflated(Named(name)) > MaxTotalSize)
  BY OutcomeIs
<1>2. MaxTotalSize \in Nat
  BY DEF LimitsTyped
<1>3. QED
  BY <1>1, <1>2

LEMMA PackageInvSound ==
    ASSUME LimitsTyped, IsArchive(archive), PackageInv
    PROVE  PackageSound
<1> DEFINE n == Len(archive)
           sane == n <= MaxEntries /\ Declared[n] <= MaxTotalSize /\ Fits(n)
<1>1. n \in Nat /\ MaxEntries \in Nat /\ MaxTotalSize \in Nat /\ inspected \in 0 .. n
  BY DEF IsArchive, LimitsTyped, PackageInv
<1>2. opened = "yes" => sane
  BY DEF PackageInv
<1>3. opened = "refused" => ~ sane
  <2>1. SUFFICES ASSUME opened = "refused", sane PROVE FALSE
    OBVIOUS
  <2>2. n > MaxEntries \/ Declared[inspected] > MaxTotalSize \/ ~ Fits(inspected)
    BY <2>1 DEF PackageInv
  <2>3. ~ (n > MaxEntries)
    BY <1>1, <2>1
  <2>4. ~ (Declared[inspected] > MaxTotalSize)
    <3>1. Declared[inspected] \in Nat /\ Declared[n] \in Nat /\ Declared[inspected] <= Declared[n]
      BY <1>1, DeclaredGrows
    <3>2. QED
      BY <1>1, <2>1, <3>1
  <2>5. Fits(inspected)
    <3>1. \A i \in 1 .. inspected : i \in 1 .. n
      BY <1>1
    <3>2. QED
      BY <2>1, <3>1 DEF Fits
  <2>6. QED
    BY <2>2, <2>3, <2>4, <2>5
<1>4. broken => \A i \in DOMAIN archive : Outcome(archive[i].name) # "ok"
  BY NoneDelivered DEF PackageInv
<1>5. QED
  BY <1>2, <1>3, <1>4 DEF PackageSound, PackageInv

(***************************************************************************)
(* The extraction.                                                         *)
(***************************************************************************)
ArchiveInv == IsArchive(archive) /\ PackageInv

LEMMA ArchiveInvInit == ASSUME DecksTyped, Init PROVE ArchiveInv
<1>1. archive = deck.archive /\ deck \in Decks /\ opened = "no" /\ inspected = 0 /\ total = 0
      /\ bytesRead = 0 /\ delivered = 0 /\ broken = FALSE
  BY DEF Init, PackageInit
<1>2. IsArchive(archive)
  BY <1>1 DEF DecksTyped
<1>3. Len(archive) \in Nat /\ MaxTotalSize \in Nat /\ Declared[0] = 0
  BY <1>2, DeclaredIs DEF DecksTyped, LimitsTyped, IsArchive
<1>4. Fits(inspected)
  BY <1>1 DEF Fits
<1>5. inspected \in 0 .. Len(archive) /\ ~ (inspected > 0) /\ delivered \in 0 .. bytesRead
      /\ bytesRead \in Nat /\ delivered <= MaxTotalSize /\ total <= MaxTotalSize
      /\ total = Declared[inspected]
  BY <1>1, <1>3
<1>6. PackageInv
  BY <1>1, <1>4, <1>5 DEF PackageInv
<1>7. QED
  BY <1>2, <1>6 DEF ArchiveInv

LEMMA ArchiveInvNext == ASSUME DecksTyped, ArchiveInv, [Next]_vars PROVE ArchiveInv'
<1>1. IsArchive(archive) /\ PackageInv /\ LimitsTyped
  BY DEF ArchiveInv, DecksTyped
\* A step reads a part, looks at an entry, or leaves the package alone.
<1>2. \/ OpenPackage \/ \E name : Read(name) \/ UNCHANGED package
  BY DEF Next, Call, Open, ReadPresentation, ReadRelations, ReadMetadata, BeginSlide, ReadPart,
         ReadRels, Layer, LayersEnd, Notes, Finish, vars
<1>3. archive' = archive
  BY <1>2 DEF OpenPackage, Read, package
<1>4. IsArchive(archive)'
  BY <1>1, <1>3 DEF IsArchive
<1>5. PackageInv'
  <2>1. CASE OpenPackage
    BY <1>1, <2>1, OpenKeeps
  <2>2. CASE \E name : Read(name)
    BY <1>1, <2>2, ReadKeeps
  <2>3. CASE UNCHANGED package
    BY <1>1, <2>3 DEF package, PackageInv, Declared, Fits
  <2>4. QED
    BY <1>2, <2>1, <2>2, <2>3
<1>6. QED
  BY <1>4, <1>5 DEF ArchiveInv

(* Package::open accepts exactly the archives that keep to the limits by   *)
(* what they declare, and the parts that come out of Package::read keep to *)
(* them by what they hold, whatever the archive claims: for every archive, *)
(* every limit and every read that the slides of a deck ask for.           *)
THEOREM PackagesAreSound ==
    ASSUME DecksTyped
    PROVE  Spec => []PackageSound
<1>1. Init => ArchiveInv
  BY ArchiveInvInit
<1>2. ArchiveInv /\ [Next]_vars => ArchiveInv'
  BY ArchiveInvNext
<1>3. ArchiveInv => PackageSound
  BY PackageInvSound DEF ArchiveInv, DecksTyped
<1>4. QED
  BY <1>1, <1>2, <1>3, PTL DEF Spec

(***************************************************************************)
(* Targets.                                                                *)
(***************************************************************************)
Climb(segment) == IF Plain(segment) THEN 1 ELSE IF segment = ".." THEN -1 ELSE 0

(* A property of the numbers up to n holds once more or as often as before. *)
LEMMA CountStep ==
    ASSUME NEW n \in Nat, n # 0, NEW H
    PROVE  /\ Cardinality({i \in 1 .. n : i \in H}) \in Nat
           /\ Cardinality({i \in 1 .. n - 1 : i \in H}) \in Nat
           /\ Cardinality({i \in 1 .. n : i \in H})
                = IF n \in H THEN Cardinality({i \in 1 .. n - 1 : i \in H}) + 1
                  ELSE Cardinality({i \in 1 .. n - 1 : i \in H})
<1> DEFINE A == {i \in 1 .. n : i \in H}
           B == {i \in 1 .. n - 1 : i \in H}
<1>1. \A i : i \in 1 .. n <=> i \in 1 .. n - 1 \/ i = n
  OBVIOUS
<1>2. n \notin 1 .. n - 1
  OBVIOUS
<1>3. IsFiniteSet(1 .. n) /\ A \in SUBSET (1 .. n) /\ B \in SUBSET (1 .. n)
  BY <1>1, FS_Interval
<1>4. IsFiniteSet(A) /\ IsFiniteSet(B)
  <2> HIDE DEF A, B
  <2>1. QED
    BY <1>3, FS_Subset
<1>5. Cardinality(A) \in Nat /\ Cardinality(B) \in Nat
  <2> HIDE DEF A, B
  <2>1. QED
    BY <1>4, FS_CardinalityType
<1>6. CASE n \in H
  <2>1. A = B \cup {n} /\ n \notin B
    BY <1>1, <1>2, <1>6
  <2>2. Cardinality(A) = Cardinality(B) + 1
    <3> HIDE DEF A, B
    <3>1. QED
      BY <1>4, <2>1, FS_AddElement
  <2>3. QED
    BY <1>5, <1>6, <2>2
<1>7. CASE n \notin H
  <2>1. A = B
    BY <1>1, <1>7
  <2>2. QED
    BY <1>5, <1>7, <2>1
<1>8. QED
  BY <1>6, <1>7

(* Each segment leads down, up, or nowhere.                                *)
LEMMA DepthStep ==
    ASSUME NEW path, NEW n \in Nat
    PROVE  /\ Depth(path, 0) = 0
           /\ Depth(path, n) \in Int
           /\ n # 0 => Depth(path, n) = Depth(path, n - 1) + Climb(path[n])
<1>1. Depth(path, 0) = 0
  <2>1. {i \in 1 .. 0 : Plain(path[i])} = {} /\ {i \in 1 .. 0 : path[i] = ".."} = {}
    OBVIOUS
  <2>2. QED
    BY <2>1, FS_EmptySet DEF Depth
<1>2. CASE n = 0
  BY <1>1, <1>2
<1>3. CASE n # 0
  <2> DEFINE down == {i \in 1 .. n : Plain(path[i])}
             up == {i \in 1 .. n : path[i] = ".."}
             D == Cardinality({i \in 1 .. n : i \in down})
             U == Cardinality({i \in 1 .. n : i \in up})
             d == Cardinality({i \in 1 .. n - 1 : i \in down})
             u == Cardinality({i \in 1 .. n - 1 : i \in up})
  <2>1. (n \in down <=> Plain(path[n])) /\ (n \in up <=> path[n] = "..")
    BY <1>3
  <2>2. Depth(path, n) = D - U
    <3>1. /\ {i \in 1 .. n : i \in down} = {i \in 1 .. n : Plain(path[i])}
          /\ {i \in 1 .. n : i \in up} = {i \in 1 .. n : path[i] = ".."}
      OBVIOUS
    <3>2. QED
      BY <3>1 DEF Depth
  <2>3. Depth(path, n - 1) = d - u
    <3>1. /\ {i \in 1 .. n - 1 : i \in down} = {i \in 1 .. n - 1 : Plain(path[i])}
          /\ {i \in 1 .. n - 1 : i \in up} = {i \in 1 .. n - 1 : path[i] = ".."}
      OBVIOUS
    <3>2. QED
      BY <3>1 DEF Depth
  <2> HIDE DEF down, up
  <2>4. D \in Nat /\ d \in Nat /\ D = IF n \in down THEN d + 1 ELSE d
    BY <1>3, <2>1, CountStep
  <2>5. U \in Nat /\ u \in Nat /\ U = IF n \in up THEN u + 1 ELSE u
    BY <1>3, <2>1, CountStep
  <2> HIDE DEF D, d, U, u
  <2>6. ~ (Plain(path[n]) /\ path[n] = "..")
    BY DEF Plain
  <2>7. CASE Plain(path[n])
    BY <1>1, <1>3, <2>1, <2>2, <2>3, <2>4, <2>5, <2>6, <2>7 DEF Climb
  <2>8. CASE path[n] = ".."
    BY <1>1, <1>3, <2>1, <2>2, <2>3, <2>4, <2>5, <2>6, <2>8 DEF Climb
  <2>9. CASE ~ Plain(path[n]) /\ path[n] # ".."
    BY <1>1, <1>3, <2>1, <2>2, <2>3, <2>4, <2>5, <2>9 DEF Climb
  <2>10. QED
    BY <2>7, <2>8, <2>9
<1>4. QED
  BY <1>2, <1>3

\* What the walk has after n segments of the path: nothing when it climbed out,
\* else the segments that are kept, at at.
StandsAt(at, stack, path, n) ==
    /\ Depth(path, n) \in Nat
    /\ at \in [1 .. Depth(path, n) -> 1 .. n]
    /\ \A k, l \in 1 .. Depth(path, n) : k < l => at[k] < at[l]
    /\ \A k \in 1 .. Depth(path, n) : at[k] \in Kept(path, n) /\ Depth(path, at[k]) = k
    /\ \A i \in Kept(path, n) : \E k \in 1 .. Depth(path, n) : i = at[k]
    /\ stack = <<[k \in 1 .. Depth(path, n) |-> path[at[k]]]>>
ClimbsOut(path, n) == \E m \in 1 .. n : Depth(path, m) < 0
Stands(stack, path, n) ==
    IF ClimbsOut(path, n) THEN stack = <<>> ELSE \E at : StandsAt(at, stack, path, n)

(* Who climbed out does not come back.                                     *)
LEMMA ClimbsOutStep ==
    ASSUME NEW path, NEW n \in Nat, n # 0
    PROVE  ClimbsOut(path, n) <=> ClimbsOut(path, n - 1) \/ Depth(path, n) < 0
<1>1. \A i : i \in 1 .. n <=> i \in 1 .. n - 1 \/ i = n
  OBVIOUS
<1>2. QED
  BY <1>1 DEF ClimbsOut

(* What is kept after one more segment.                                    *)
LEMMA KeptStep ==
    ASSUME NEW path, NEW n \in Nat, n # 0
    PROVE  \A i : i \in Kept(path, n) <=>
              \/ i \in Kept(path, n - 1) /\ Depth(path, n) >= Depth(path, i)
              \/ i = n /\ Plain(path[n])
<1>1. \A i : i \in 1 .. n <=> i \in 1 .. n - 1 \/ i = n
  OBVIOUS
<1>2. ASSUME NEW i \in 1 .. n - 1, NEW k
      PROVE  k \in i .. n <=> k \in i .. n - 1 \/ k = n
  OBVIOUS
<1>3. \A k \in n .. n : k = n
  OBVIOUS
<1>4. Depth(path, n) >= Depth(path, n)
  <2>1. Depth(path, n) \in Int
    BY DepthStep
  <2>2. QED
    BY <2>1
<1>5. n \notin 1 .. n - 1
  OBVIOUS
<1>6. ASSUME NEW i \in 1 .. n - 1
      PROVE  i \in Kept(path, n) <=> i \in Kept(path, n - 1) /\ Depth(path, n) >= Depth(path, i)
  <2>1. (\A k \in i .. n : Depth(path, k) >= Depth(path, i)) <=>
           (\A k \in i .. n - 1 : Depth(path, k) >= Depth(path, i)) /\ Depth(path, n) >= Depth(path, i)
    BY <1>2
  <2>2. i \in 1 .. n
    BY <1>1
  <2>3. QED
    BY <2>1, <2>2 DEF Kept
<1>7. n \in Kept(path, n) <=> Plain(path[n])
  BY <1>1, <1>3, <1>4 DEF Kept
<1>8. n \notin Kept(path, n - 1)
  BY <1>5 DEF Kept
<1>9. \A i : i \in Kept(path, n) => i \in 1 .. n
  BY DEF Kept
<1>10. \A i : i \in Kept(path, n - 1) => i \in 1 .. n - 1
  BY DEF Kept
<1>11. QED
  BY <1>1, <1>6, <1>7, <1>8, <1>9, <1>10

(* One segment of the walk: a name is put on the stack, ".." takes the last *)
(* one from it, or climbs out where it is empty.                           *)
LEMMA StandsStep ==
    ASSUME NEW Names, NEW path \in Seq(Names), NEW n \in 1 .. Len(path), NEW stack,
           Stands(stack, path, n - 1)
    PROVE  Stands(Walk(stack, path[n]), path, n)
<1> DEFINE d == Depth(path, n - 1)
           c == path[n]
<1>1. n \in Nat /\ n # 0 /\ n - 1 \in Nat /\ d \in Int /\ Depth(path, n) = d + Climb(c)
  BY DepthStep
<1>2. ClimbsOut(path, n) <=> ClimbsOut(path, n - 1) \/ Depth(path, n) < 0
  BY <1>1, ClimbsOutStep
<1>3. CASE ClimbsOut(path, n - 1)
  <2>1. stack = <<>> /\ Walk(stack, c) = <<>>
    BY <1>3 DEF Stands, Walk
  <2>2. QED
    BY <1>2, <1>3, <2>1 DEF Stands
<1>4. CASE ~ ClimbsOut(path, n - 1)
  <2>1. PICK at : StandsAt(at, stack, path, n - 1)
    BY <1>4 DEF Stands
  <2> DEFINE s == [k \in 1 .. d |-> path[at[k]]]
  <2>2. /\ d \in Nat /\ at \in [1 .. d -> 1 .. n - 1]
        /\ \A k, l \in 1 .. d : k < l => at[k] < at[l]
        /\ \A k \in 1 .. d : at[k] \in Kept(path, n - 1) /\ Depth(path, at[k]) = k
        /\ \A i \in Kept(path, n - 1) : \E k \in 1 .. d : i = at[k]
        /\ stack = <<s>>
    BY <2>1 DEF StandsAt
  <2>3. \A k \in 1 .. d : at[k] \in 1 .. n - 1 /\ at[k] \in 1 .. n /\ at[k] < n /\ at[k] \in Nat
    <3>1. \A k \in 1 .. d : at[k] \in 1 .. n - 1
      BY <2>2
    <3>2. \A i \in 1 .. n - 1 : i \in 1 .. n /\ i < n /\ i \in Nat
      BY <1>1
    <3>3. QED
      BY <3>1, <3>2
  <2>4. stack # <<>> /\ stack[1] = s /\ s \in Seq(Names) /\ Len(s) = d
    <3>1. \A k \in 1 .. d : path[at[k]] \in Names
      BY <2>3
    <3>2. s \in [1 .. d -> Names]
      BY <3>1
    <3>3. s \in Seq(Names) /\ Len(s) = d
      <4> HIDE DEF s
      <4>1. QED
        BY <2>2, <3>2
    <3>4. QED
      BY <2>2, <3>3
  <2> HIDE DEF d, c
  <2>5. CASE Plain(c)
    <3>1. Depth(path, n) = d + 1 /\ ~ (Depth(path, n) < 0)
      BY <1>1, <2>2, <2>5 DEF Climb
    <3>2. Walk(stack, c) = <<Append(s, c)>>
      BY <2>4, <2>5 DEF Walk, Plain
    <3> DEFINE new == [k \in 1 .. d + 1 |-> IF k = d + 1 THEN n ELSE at[k]]
    <3>3. \A k : k \in 1 .. d + 1 <=> k \in 1 .. d \/ k = d + 1
      BY <2>2
    <3>4. (\A k \in 1 .. d : new[k] = at[k]) /\ new[d + 1] = n /\ d + 1 \notin 1 .. d
      BY <2>2, <3>3
    <3>5. new \in [1 .. d + 1 -> 1 .. n]
      BY <1>1, <2>3, <3>3
    <3>6. Append(s, c) = [k \in 1 .. d + 1 |-> path[new[k]]]
      <4> DEFINE t == [k \in 1 .. d + 1 |-> path[new[k]]]
      <4>1. Append(s, c) = [k \in 1 .. d + 1 |-> Append(s, c)[k]]
        <5>1. c \in Names
          BY DEF c
        <5> HIDE DEF s, new
        <5>2. Append(s, c) \in Seq(Names) /\ Len(Append(s, c)) = d + 1
          BY <2>2, <2>4, <5>1
        <5> DEFINE x == Append(s, c)
        <5>3. x \in Seq(Names) /\ Len(x) = d + 1
          BY <5>2
        <5> HIDE DEF x
        <5>4. x = [k \in 1 .. Len(x) |-> x[k]]
          BY <5>3
        <5>5. x = [k \in 1 .. d + 1 |-> x[k]]
          BY <5>3, <5>4
        <5>6. QED
          BY <5>5 DEF x
      <4>2. ASSUME NEW k \in 1 .. d + 1 PROVE Append(s, c)[k] = path[new[k]]
        <5>1. CASE k \in 1 .. d
          <6>1. Append(s, c)[k] = s[k]
            <7> HIDE DEF s
            <7>1. QED
              BY <2>4, <5>1
          <6>2. s[k] = path[at[k]] /\ new[k] = at[k]
            BY <3>4, <5>1
          <6>3. QED
            BY <6>1, <6>2
        <5>2. CASE k = d + 1
          <6>1. Append(s, c)[k] = c
            <7> HIDE DEF s
            <7>1. QED
              BY <2>4, <5>2
          <6>2. QED
            BY <3>4, <5>2, <6>1 DEF c
        <5>3. QED
          BY <3>3, <5>1, <5>2
      <4> HIDE DEF s, new
      <4>3. QED
        BY <4>1, <4>2
    <3> HIDE DEF new
    <3>7. \A k, l \in 1 .. d + 1 : k < l => new[k] < new[l]
      <4>1. SUFFICES ASSUME NEW k \in 1 .. d + 1, NEW l \in 1 .. d + 1, k < l PROVE new[k] < new[l]
        OBVIOUS
      <4>2. k \in 1 .. d
        BY <2>2, <4>1
      <4>3. CASE l \in 1 .. d
        BY <2>2, <3>4, <4>1, <4>2, <4>3
      <4>4. CASE l = d + 1
        BY <2>3, <3>4, <4>2, <4>4
      <4>5. QED
        BY <3>3, <4>3, <4>4
    <3>8. \A i : i \in Kept(path, n) <=> i \in Kept(path, n - 1) \/ i = n
      <4>1. ASSUME NEW i \in Kept(path, n - 1) PROVE Depth(path, n) >= Depth(path, i)
        <5>1. PICK k \in 1 .. d : i = at[k]
          BY <2>2
        <5>2. QED
          BY <2>2, <3>1, <5>1
      <4>2. QED
        BY <1>1, <2>5, <4>1, KeptStep DEF c
    <3>9. \A k \in 1 .. d + 1 : new[k] \in Kept(path, n) /\ Depth(path, new[k]) = k
      BY <2>2, <3>1, <3>3, <3>4, <3>8
    <3>10. \A i \in Kept(path, n) : \E k \in 1 .. d + 1 : i = new[k]
      BY <2>2, <3>3, <3>4, <3>8
    <3>11. StandsAt(new, Walk(stack, c), path, n)
      <4> HIDE DEF s
      <4>a. d + 1 \in Nat
        BY <2>2
      <4>b. Walk(stack, c) = <<[k \in 1 .. d + 1 |-> path[new[k]]]>>
        BY <3>2, <3>6
      <4>1. Walk(stack, c) = <<[k \in 1 .. d + 1 |-> path[new[k]]]>> /\ d + 1 \in Nat
        BY <4>a, <4>b
      <4>2. Depth(path, n) = d + 1
        BY <3>1
      <4>3. QED
        BY <3>5, <3>7, <3>9, <3>10, <4>1, <4>2 DEF StandsAt
    <3>12. QED
      BY <1>2, <1>4, <3>1, <3>11 DEF Stands, c
  <2>6. CASE c = ".." /\ d = 0
    <3>1. Depth(path, n) < 0
      BY <1>1, <2>6 DEF Climb, Plain
    <3>2. s = <<>>
      <4> HIDE DEF s
      <4>1. QED
        BY <2>4, <2>6
    <3>3. Walk(stack, c) = <<>>
      BY <2>4, <2>6, <3>2 DEF Walk
    <3>4. QED
      BY <1>2, <3>1, <3>3 DEF Stands, c
  <2>7. CASE c = ".." /\ d # 0
    <3>1. d - 1 \in Nat /\ Depth(path, n) = d - 1 /\ ~ (Depth(path, n) < 0)
      BY <1>1, <2>2, <2>7 DEF Climb, Plain
    <3>2. Walk(stack, c) = <<Front(s)>>
      <4>1. s # <<>>
        <5> HIDE DEF s
        <5>1. QED
          BY <2>4, <2>7
      <4>2. QED
        BY <2>4, <2>7, <4>1 DEF Walk
    <3> DEFINE new == [k \in 1 .. d - 1 |-> at[k]]
    <3>3. \A k \in 1 .. d - 1 : k \in 1 .. d /\ new[k] = at[k]
      BY <2>2
    <3>4. \A k \in 1 .. d : k \in 1 .. d - 1 <=> k <= d - 1
      BY <2>2
    <3>5. new \in [1 .. d - 1 -> 1 .. n]
      BY <2>3, <3>3
    <3>6. Front(s) = [k \in 1 .. d - 1 |-> path[new[k]]]
      <4>1. Front(s) = [k \in 1 .. d - 1 |-> s[k]]
        <5> HIDE DEF s
        <5>1. QED
          BY <2>2, <2>4, <3>1 DEF Front
      <4>2. \A k \in 1 .. d - 1 : s[k] = path[new[k]]
        BY <3>3
      <4> HIDE DEF s, new
      <4>3. QED
        BY <4>1, <4>2
    <3> HIDE DEF new
    <3>7. \A k, l \in 1 .. d - 1 : k < l => new[k] < new[l]
      BY <2>2, <3>3
    <3>8. ASSUME NEW k \in 1 .. d
          PROVE  at[k] \in Kept(path, n) <=> k \in 1 .. d - 1
      <4>1. at[k] \in Kept(path, n - 1) /\ Depth(path, at[k]) = k /\ at[k] # n
        BY <2>2, <2>3
      <4>2. at[k] \in Kept(path, n) <=> d - 1 >= k
        BY <1>1, <3>1, <4>1, KeptStep
      <4>3. QED
        BY <2>2, <4>2
    <3>9. \A k \in 1 .. d - 1 : new[k] \in Kept(path, n) /\ Depth(path, new[k]) = k
      BY <2>2, <3>3, <3>8
    <3>10. ASSUME NEW i \in Kept(path, n) PROVE \E k \in 1 .. d - 1 : i = new[k]
      <4>1. ~ Plain(path[n])
        BY <2>7 DEF c, Plain
      <4>2. i \in Kept(path, n - 1)
        BY <1>1, <4>1, KeptStep
      <4>3. PICK k \in 1 .. d : i = at[k]
        BY <2>2, <4>2
      <4>4. k \in 1 .. d - 1
        BY <3>8, <4>3
      <4>5. QED
        BY <3>3, <4>3, <4>4
    <3>11. StandsAt(new, Walk(stack, c), path, n)
      BY <3>1, <3>2, <3>5, <3>6, <3>7, <3>9, <3>10 DEF StandsAt
    <3>12. QED
      BY <1>2, <1>4, <3>1, <3>11 DEF Stands, c
  <2>8. CASE ~ Plain(c) /\ c # ".."
    <3>1. Depth(path, n) = d /\ ~ (Depth(path, n) < 0)
      BY <1>1, <2>2, <2>8 DEF Climb
    <3>2. Walk(stack, c) = stack
      BY <2>8 DEF Walk, Plain
    <3>3. \A i : i \in Kept(path, n) <=> i \in Kept(path, n - 1)
      <4>1. ASSUME NEW i \in Kept(path, n - 1) PROVE Depth(path, n) >= Depth(path, i)
        <5>1. PICK k \in 1 .. d : i = at[k]
          BY <2>2
        <5>2. QED
          BY <2>2, <3>1, <5>1
      <4>2. ~ Plain(path[n])
        BY <2>8 DEF c
      <4>3. QED
        BY <1>1, <4>1, <4>2, KeptStep
    <3>4. at \in [1 .. d -> 1 .. n]
      BY <2>2, <2>3
    <3>5. StandsAt(at, Walk(stack, c), path, n)
      BY <2>2, <3>1, <3>2, <3>3, <3>4 DEF StandsAt
    <3>6. QED
      BY <1>2, <1>4, <3>1, <3>5 DEF Stands, c
  <2>9. QED
    BY <2>5, <2>6, <2>7, <2>8
<1>5. QED
  BY <1>3, <1>4

\* The states of the walk, one for each segment.
Walks(f, first, a, n) == f = [k \in 0 .. n |-> IF k = 0 THEN first ELSE Walk(f[k - 1], a[k])]

LEMMA WalksExist ==
    ASSUME NEW first, NEW a, NEW n \in Nat
    PROVE  \E f : Walks(f, first, a, n)
<1> DEFINE bad == {k \in Nat : ~ \E f : Walks(f, first, a, k)}
<1>1. SUFFICES ASSUME bad # {} PROVE FALSE
  OBVIOUS
<1>2. PICK m \in bad : \A k \in bad : m <= k
  <2>1. bad \in SUBSET Nat
    OBVIOUS
  <2> HIDE DEF bad
  <2>2. QED
    BY <1>1, <2>1, LeastOne
<1>3. CASE m = 0
  <2>1. Walks([k \in 0 .. 0 |-> first], first, a, 0)
    BY DEF Walks
  <2>2. QED
    BY <1>2, <1>3, <2>1
<1>4. CASE m # 0
  <2>1. m - 1 \in Nat /\ m - 1 \notin bad
    BY <1>2, <1>4
  <2>2. PICK f : Walks(f, first, a, m - 1)
    BY <2>1
  <2> DEFINE g == [k \in 0 .. m |-> IF k = m THEN Walk(f[m - 1], a[m]) ELSE f[k]]
  <2>3. \A k \in 0 .. m - 1 : g[k] = f[k]
    BY <1>2
  <2>4. \A k \in 0 .. m - 1 : f[k] = IF k = 0 THEN first ELSE Walk(f[k - 1], a[k])
    BY <2>2 DEF Walks
  <2>5. g[m] = Walk(f[m - 1], a[m])
    BY <2>1
  <2>6. g = [k \in 0 .. m |-> g[k]]
    OBVIOUS
  <2> HIDE DEF g
  <2>7. ASSUME NEW k \in 0 .. m
        PROVE  g[k] = IF k = 0 THEN first ELSE Walk(g[k - 1], a[k])
    <3>1. CASE k = m
      BY <1>4, <2>1, <2>3, <2>5, <3>1
    <3>2. CASE k # m
      <4>1. k \in 0 .. m - 1 /\ (k # 0 => k - 1 \in 0 .. m - 1)
        BY <3>2
      <4>2. QED
        BY <2>3, <2>4, <4>1
    <3>3. QED
      BY <3>1, <3>2
  <2>8. Walks(g, first, a, m)
    BY <2>6, <2>7 DEF Walks
  <2>9. QED
    BY <1>2, <2>8
<1>5. QED
  BY <1>3, <1>4

(* The folder of a part, and then the segments of the target, are walked as *)
(* one path.                                                               *)
LEMMA FolderStands ==
    ASSUME NEW Names, NEW path \in Seq(Names), NEW b \in 0 .. Len(path), \A i \in 1 .. b : Plain(path[i])
    PROVE  Stands(<<SubSeq(path, 1, b)>>, path, b)
<1> DEFINE ok(n) == Stands(<<SubSeq(path, 1, n)>>, path, n)
           bad == {n \in Nat : n <= b /\ ~ ok(n)}
<1>0. Len(path) \in Nat /\ b \in Nat
  BY LenProperties
<1>1. SUFFICES ASSUME bad # {} PROVE FALSE
  <2> HIDE DEF ok
  <2>1. bad = {} => ok(b)
    BY <1>0
  <2>2. QED
    BY <2>1 DEF ok
<1>2. PICK m \in bad : \A k \in bad : m <= k
  <2>1. bad \in SUBSET Nat
    OBVIOUS
  <2> HIDE DEF bad
  <2>2. QED
    BY <1>1, <2>1, LeastOne
<1>3. m \in Nat /\ m <= b /\ ~ ok(m) /\ \A k \in Nat : k < m => ok(k)
  <2> HIDE DEF ok
  <2>1. QED
    BY <1>0, <1>2
<1>4. CASE m = 0
  <2>1. Depth(path, 0) = 0 /\ Kept(path, 0) = {} /\ ~ ClimbsOut(path, 0)
    BY DepthStep DEF Kept, ClimbsOut
  <2>2. SubSeq(path, 1, 0) = <<>>
    BY <1>0
  <2>3. StandsAt(<<>>, <<<<>>>>, path, 0)
    <3>1. <<>> \in [1 .. 0 -> 1 .. 0] /\ <<>> = [k \in 1 .. 0 |-> path[<<>>[k]]]
      OBVIOUS
    <3>2. QED
      BY <2>1, <3>1 DEF StandsAt
  <2>4. Stands(<<<<>>>>, path, 0)
    BY <2>1, <2>3 DEF Stands
  <2>5. QED
    BY <1>3, <1>4, <2>2, <2>4
<1>5. CASE m # 0
  <2>1. m \in 1 .. b /\ m \in 1 .. Len(path) /\ m - 1 \in Nat /\ m - 1 < m
    BY <1>0, <1>3, <1>5
  <2>2. ok(m - 1)
    <3> HIDE DEF ok
    <3>1. QED
      BY <1>3, <2>1
  <2> DEFINE s == SubSeq(path, 1, m - 1)
             t == SubSeq(path, 1, m)
  <2>3. Walk(<<s>>, path[m]) = <<Append(s, path[m])>>
    <3>1. Plain(path[m])
      BY <2>1
    <3>2. QED
      BY <3>1 DEF Walk, Plain
  <2>4. t = Append(s, path[m])
    BY <1>0, <2>1
  <2>5. Stands(Walk(<<s>>, path[m]), path, m)
    BY <2>1, <2>2, StandsStep
  <2>6. ok(m)
    BY <2>3, <2>4, <2>5
  <2>7. QED
    BY <1>3, <2>6
<1>6. QED
  BY <1>4, <1>5

(* Where the walk of a target ends.                                        *)
LEMMA TargetStands ==
    ASSUME NEW Names, NEW folder \in Seq(Names), \A i \in 1 .. Len(folder) : Plain(folder[i]),
           NEW segments \in Seq(Names), NEW w, Walks(w, <<folder>>, segments, Len(segments))
    PROVE  Stands(w[Len(segments)], folder \o segments, Len(folder \o segments))
<1> DEFINE path == folder \o segments
           b == Len(folder)
           n == Len(segments)
           ok(k) == Stands(w[k], path, b + k)
           bad == {k \in Nat : k <= n /\ ~ ok(k)}
<1>0. /\ b \in Nat /\ n \in Nat /\ path \in Seq(Names) /\ Len(path) = b + n
      /\ \A i \in 1 .. b : path[i] = folder[i]
      /\ \A k \in 1 .. n : path[b + k] = segments[k]
  BY LenProperties
<1>1. w[0] = <<folder>> /\ \A k \in 1 .. n : w[k] = Walk(w[k - 1], segments[k])
  BY <1>0 DEF Walks
<1> HIDE DEF path, b, n
<1>2. SUFFICES ASSUME bad # {} PROVE FALSE
  <2> HIDE DEF ok
  <2>1. bad = {} => ok(n)
    BY <1>0
  <2>2. ok(n) => Stands(w[n], path, Len(path))
    BY <1>0 DEF ok
  <2>3. QED
    BY <2>1, <2>2 DEF n, path
<1>3. PICK m \in bad : \A k \in bad : m <= k
  <2>1. bad \in SUBSET Nat
    OBVIOUS
  <2> HIDE DEF bad
  <2>2. QED
    BY <1>2, <2>1, LeastOne
<1>4. m \in Nat /\ m <= n /\ ~ ok(m) /\ \A k \in Nat : k < m => ok(k)
  <2> HIDE DEF ok
  <2>1. QED
    BY <1>0, <1>3
<1>5. CASE m = 0
  <2>1. SubSeq(path, 1, b) = folder
    BY <1>0 DEF b
  <2>2. b \in 0 .. Len(path) /\ \A i \in 1 .. b : Plain(path[i])
    BY <1>0 DEF b
  <2>3. Stands(<<SubSeq(path, 1, b)>>, path, b)
    BY <1>0, <2>2, FolderStands
  <2>4. b + 0 = b
    BY <1>0
  <2>5. QED
    BY <1>1, <1>4, <1>5, <2>1, <2>3, <2>4
<1>6. CASE m # 0
  <2>1. m \in 1 .. n /\ m - 1 \in Nat /\ m - 1 < m /\ b + m \in 1 .. Len(path) /\ b + (m - 1) = (b + m) - 1
    BY <1>0, <1>4, <1>6
  <2>2. ok(m - 1)
    <3> HIDE DEF ok
    <3>1. QED
      BY <1>4, <2>1
  <2>3. Stands(w[m - 1], path, (b + m) - 1)
    BY <2>1, <2>2
  <2>4. Stands(Walk(w[m - 1], path[b + m]), path, b + m)
    BY <1>0, <2>1, <2>3, StandsStep
  <2>5. ok(m)
    BY <1>0, <1>1, <2>1, <2>4
  <2>6. QED
    BY <1>4, <2>5
<1>7. QED
  BY <1>5, <1>6

(* resolve_target follows a target as a path is read, from the folder of   *)
(* the part or from the root, however often it goes up and down: what it   *)
(* finds is made of the names that are not taken back, and a target that   *)
(* leaves the package at any point is an error.                            *)
THEOREM TargetsAreResolved ==
    ASSUME NEW Names, NEW source \in Seq(Names), source # <<>>, \A i \in 1 .. Len(source) : Plain(source[i]),
           NEW target, target.absolute \in BOOLEAN, target.segments \in Seq(Names)
    PROVE  /\ TargetResolved(source, target)
           /\ ResolveTarget(source, target) # <<>> =>
                 \A i \in DOMAIN ResolveTarget(source, target)[1] : Plain(ResolveTarget(source, target)[1][i])
<1> DEFINE folder == Folder(source, target)
           segments == target.segments
           path == folder \o segments
           end == Len(path)
           result == ResolveTarget(source, target)
<1>1. folder \in Seq(Names) /\ \A i \in 1 .. Len(folder) : Plain(folder[i])
  <2>1. CASE target.absolute
    BY <2>1 DEF Folder
  <2>2. CASE ~ target.absolute
    <3>1. folder = Front(source)
      BY <2>2 DEF Folder
    <3>2. Len(source) \in Nat /\ Len(source) # 0
      BY LenProperties, EmptySeq
    <3>3. Front(source) \in Seq(Names) /\ Len(Front(source)) = Len(source) - 1
          /\ \A i \in 1 .. Len(source) - 1 : Front(source)[i] = source[i]
      <4> DEFINE n == Len(source) - 1
      <4>1. n \in Nat /\ n <= Len(source)
        BY <3>2
      <4>2. Front(source) = SubSeq(source, 1, n)
        BY DEF Front
      <4> HIDE DEF n
      <4>3. SubSeq(source, 1, n) \in Seq(Names) /\ Len(SubSeq(source, 1, n)) = n
            /\ \A i \in 1 .. n : SubSeq(source, 1, n)[i] = source[i]
        BY <3>2, <4>1
      <4>4. QED
        BY <4>2, <4>3 DEF n
    <3>4. QED
      BY <3>1, <3>2, <3>3
  <2>3. QED
    BY <2>1, <2>2
<1>2. Len(segments) \in Nat
  BY LenProperties
<1>3. PICK w : Walks(w, <<folder>>, segments, Len(segments)) /\ result = w[Len(segments)]
  <2>1. DEFINE w == CHOOSE w : Walks(w, <<folder>>, segments, Len(segments))
  <2>2. Walks(w, <<folder>>, segments, Len(segments))
    BY <1>2, WalksExist
  <2>3. result = w[Len(segments)]
    BY DEF ResolveTarget, Walks
  <2> HIDE DEF w, result, folder, segments
  <2>4. QED
    BY <2>2, <2>3
<1>4. Stands(result, path, end)
  <2> HIDE DEF result, folder
  <2>1. segments \in Seq(Names)
    OBVIOUS
  <2> HIDE DEF segments
  <2>2. QED
    BY <1>1, <1>3, <2>1, TargetStands
<1>5. CASE ClimbsOut(path, end)
  <2>1. result = <<>>
    <3> HIDE DEF result, path, end
    <3>1. QED
      BY <1>4, <1>5 DEF Stands
  <2>2. \E n \in 1 .. end : Depth(path, n) < 0
    BY <1>5 DEF ClimbsOut
  <2>3. TargetResolved(source, target)
    BY <2>1, <2>2 DEF TargetResolved
  <2>4. QED
    BY <2>1, <2>3
<1>6. CASE ~ ClimbsOut(path, end)
  <2>1. ~ \E n \in 1 .. end : Depth(path, n) < 0
    BY <1>6 DEF ClimbsOut
  <2>2. PICK at : StandsAt(at, result, path, end)
    <3> HIDE DEF result, path, end
    <3>1. QED
      BY <1>4, <1>6 DEF Stands
  <2> DEFINE d == Depth(path, end)
  <2> HIDE DEF path, end, result
  <2>3. /\ d \in Nat /\ at \in [1 .. d -> 1 .. end] /\ DOMAIN at = 1 .. d
        /\ \A k, l \in 1 .. d : k < l => at[k] < at[l]
        /\ \A k \in 1 .. d : at[k] \in Kept(path, end)
        /\ \A i \in Kept(path, end) : \E k \in 1 .. d : i = at[k]
        /\ result = <<[k \in 1 .. d |-> path[at[k]]]>>
    BY <2>2 DEF StandsAt
  <2> HIDE DEF d
  <2>4. {at[k] : k \in 1 .. d} = Kept(path, end)
    BY <2>3
  <2>5. \E p \in [1 .. Depth(path, end) -> 1 .. end] :
           /\ \A k, l \in DOMAIN p : k < l => p[k] < p[l]
           /\ {p[k] : k \in DOMAIN p} = Kept(path, end)
           /\ result = <<[k \in DOMAIN p |-> path[p[k]]]>>
    <3>1. /\ \A k, l \in DOMAIN at : k < l => at[k] < at[l]
          /\ {at[k] : k \in DOMAIN at} = Kept(path, end)
          /\ result = <<[k \in DOMAIN at |-> path[at[k]]]>>
      BY <2>3, <2>4
    <3>2. at \in [1 .. Depth(path, end) -> 1 .. end]
      BY <2>3 DEF d
    <3>3. QED
      BY <3>1, <3>2
  <2>6. TargetResolved(source, target)
    BY <2>1, <2>5 DEF TargetResolved, path, end, result
  <2>7. \A i \in DOMAIN result[1] : Plain(result[1][i])
    <3>1. \A k \in 1 .. d : Plain(path[at[k]])
      BY <2>3 DEF Kept
    <3>2. result[1] = [k \in 1 .. d |-> path[at[k]]]
      BY <2>3
    <3>3. QED
      BY <3>1, <3>2
  <2>8. QED
    BY <2>6, <2>7 DEF result
<1>7. QED
  BY <1>5, <1>6

LEMMA FrontIs ==
    ASSUME NEW s, Listed(s), s # <<>>
    PROVE  /\ Listed(Front(s)) /\ Len(s) \in Nat /\ Len(s) # 0 /\ Len(Front(s)) = Len(s) - 1
           /\ \A i \in 1 .. Len(s) - 1 : Front(s)[i] = s[i]
<1>1. PICK S : s \in Seq(S)
  BY DEF Listed
<1> DEFINE n == Len(s) - 1
<1>2. Len(s) \in Nat /\ Len(s) # 0 /\ n \in Nat /\ n <= Len(s)
  BY <1>1
<1>3. Front(s) = SubSeq(s, 1, n)
  BY DEF Front
<1> HIDE DEF n
<1>4. SubSeq(s, 1, n) \in Seq(S) /\ Len(SubSeq(s, 1, n)) = n
      /\ \A i \in 1 .. n : SubSeq(s, 1, n)[i] = s[i]
  BY <1>1, <1>2
<1>5. QED
  BY <1>2, <1>3, <1>4 DEF n, Listed

\* What comes of a chain from its k-th part on.
Reaches(c, k, r) ==
    \E d, e, f : /\ d = IF k = 1 THEN Above(c, 1) ELSE c
                 /\ e = IF k <= 2 THEN Above(d, 2) ELSE d
                 /\ f = IF k <= 3 THEN Above(e, 3) ELSE e
                 /\ r = Above(f, 4)

(* The chain of a slide, by its four steps.                                *)
LEMMA ChainIs ==
    /\ \A slide : Reaches(<<slide>>, 1, Chain(slide))
    /\ \A c, k, r, q : Reaches(c, k, r) /\ Reaches(c, k, q) => r = q
<1>1. ASSUME NEW slide PROVE Reaches(<<slide>>, 1, Chain(slide))
  <2> DEFINE d == Above(<<slide>>, 1)
             e == Above(d, 2)
             f == Above(e, 3)
             r == Above(f, 4)
             up == [k \in 0 .. 4 |-> IF k = 0 THEN <<slide>> ELSE IF k = 1 THEN d ELSE IF k = 2 THEN e
                                     ELSE IF k = 3 THEN f ELSE r]
             is(g) == g = [k \in 0 .. 4 |-> IF k = 0 THEN <<slide>> ELSE Above(g[k - 1], k)]
             v == CHOOSE g : is(g)
  <2>1. is(up)
    <3>1. up[0] = <<slide>> /\ up[1] = d /\ up[2] = e /\ up[3] = f /\ up[4] = r
      OBVIOUS
    <3>2. d = Above(up[1 - 1], 1) /\ e = Above(up[2 - 1], 2) /\ f = Above(up[3 - 1], 3) /\ r = Above(up[4 - 1], 4)
      BY <3>1
    <3> HIDE DEF d, e, f, r
    <3>3. \A k \in 0 .. 4 : k = 0 \/ k = 1 \/ k = 2 \/ k = 3 \/ k = 4
      OBVIOUS
    <3>4. up = [k \in 0 .. 4 |-> up[k]]
      OBVIOUS
    <3> HIDE DEF up
    <3>5. \A k \in 0 .. 4 : up[k] = IF k = 0 THEN <<slide>> ELSE Above(up[k - 1], k)
      BY <3>1, <3>2, <3>3
    <3>6. QED
      BY <3>4, <3>5
  <2>2. is(v)
    BY <2>1
  <2>3. Chain(slide) = v[4]
    BY DEF Chain
  <2> HIDE DEF v
  <2>4. v[0] = <<slide>> /\ v[1] = Above(v[0], 1) /\ v[2] = Above(v[1], 2) /\ v[3] = Above(v[2], 3) /\ v[4] = Above(v[3], 4)
    <3>1. \A k \in 0 .. 4 : v[k] = IF k = 0 THEN <<slide>> ELSE Above(v[k - 1], k)
      BY <2>2
    <3>2. 0 \in 0 .. 4 /\ 1 \in 0 .. 4 /\ 2 \in 0 .. 4 /\ 3 \in 0 .. 4 /\ 4 \in 0 .. 4
          /\ 1 - 1 = 0 /\ 2 - 1 = 1 /\ 3 - 1 = 2 /\ 4 - 1 = 3
      OBVIOUS
    <3> HIDE DEF is
    <3>3. QED
      BY <3>1, <3>2
  <2>5. QED
    BY <2>3, <2>4 DEF Reaches
<1>2. QED
  BY <1>1 DEF Reaches

(* Reading changes nothing of it.                                          *)
LEMMA AboveKept ==
    ASSUME UNCHANGED <<archive, deck>>
    PROVE  /\ \A c, k : Above(c, k)' = Above(c, k)
           /\ \A c, k, r : Reaches(c, k, r)' <=> Reaches(c, k, r)
<1>1. \A p : HasPart(p)' <=> HasPart(p)
  BY DEF HasPart
<1>2. \A p : Named(p)' = Named(p)
  BY DEF Named, SelectInSeq
<1>3. \A p : RelsOf(p)' = RelsOf(p)
  <2>1. \A p : (Outcome(p) = "absent" <=> ~ Opens(p)) /\ (Outcome(p)' = "absent" <=> ~ Opens(p)')
    BY DEF Outcome
  <2>2. \A p : Opens(p)' <=> Opens(p)
    BY <1>1, <1>2 DEF Opens
  <2>3. QED
    BY <2>1, <2>2 DEF RelsOf
<1>4. \A p : (Sane(p)' <=> Sane(p)) /\ (SaneRels(p)' <=> SaneRels(p))
  BY <1>1, <1>2 DEF Sane, SaneRels, Opens
<1>5. \A c, k : Above(c, k)' = Above(c, k)
  BY <1>3, <1>4 DEF Above
<1>6. QED
  BY <1>5 DEF Reaches

(* A chain that ends, and one that goes on.                                *)
LEMMA ChainEnds ==
    ASSUME NEW c, NEW k \in 1 .. 4, NEW x, Above(c, k) = x, Len(x) \in Nat, Len(x) <= k
    PROVE  \A r : Reaches(c, k, r) <=> r = x
<1>1. \A j \in 1 .. 4 : j > k => Above(x, j) = x
  BY DEF Above
<1>2. CASE k = 1
  BY <1>1, <1>2 DEF Reaches
<1>3. CASE k = 2
  BY <1>1, <1>3 DEF Reaches
<1>4. CASE k = 3
  BY <1>1, <1>4 DEF Reaches
<1>5. CASE k = 4
  BY <1>5 DEF Reaches
<1>6. QED
  BY <1>2, <1>3, <1>4, <1>5

LEMMA ChainClimbs ==
    ASSUME NEW c, NEW k \in 1 .. 3
    PROVE  \A r : Reaches(c, k, r) <=> Reaches(Above(c, k), k + 1, r)
<1>1. CASE k = 1
  BY <1>1 DEF Reaches
<1>2. CASE k = 2
  BY <1>2 DEF Reaches
<1>3. CASE k = 3
  BY <1>3 DEF Reaches
<1>4. QED
  BY <1>1, <1>2, <1>3

(* A part is delivered when it is sane, but for the limit on what is read. *)
LEMMA LoadsIs ==
    ASSUME DecksTyped, ArchiveInv, opened = "yes", NEW part
    PROVE  /\ Loads(part) => Sane(part)
           /\ Sane(part) => Loads(part) \/ Outcome(part) = "over"
           /\ broken => ~ Loads(part)
           /\ Outcome(part) = "absent" <=> ~ Opens(part)
<1>1. LimitsTyped /\ IsArchive(archive) /\ PackageInv
  BY DEF DecksTyped, ArchiveInv
<1>2. broken => Outcome(part) # "ok"
  BY <1>1, NoneDelivered DEF PackageInv
<1> DEFINE e == Named(part)
<1>3. HasPart(part) => e.size <= MaxEntrySize /\ e.size \in Nat /\ e.real \in Int /\ e.real >= -2
  BY <1>1, NamedIsEntry DEF PackageInv, Fits, IsArchive
<1>4. MaxEntrySize \in Nat
  BY <1>1 DEF LimitsTyped
<1>5. HasPart(part) /\ e.real >= 0 => (Inflated(e) > MaxEntrySize <=> e.real > MaxEntrySize)
  <2> SUFFICES ASSUME HasPart(part), e.real >= 0 PROVE Inflated(e) > MaxEntrySize <=> e.real > MaxEntrySize
    OBVIOUS
  <2> DEFINE S == {e.real, MaxEntrySize + 1}
             m == Min(S)
  <2>1. S \in SUBSET Nat /\ S # {}
    BY <1>3, <1>4
  <2>2. m \in S /\ \A y \in S : m <= y
    <3> HIDE DEF S
    <3>1. \E x \in S : \A y \in S : x <= y
      BY <2>1, LeastOne
    <3>2. QED
      BY <3>1 DEF Min
  <2>3. Inflated(e) = m
    BY DEF Inflated
  <2> HIDE DEF m
  <2>4. (m = e.real \/ m = MaxEntrySize + 1) /\ m <= e.real /\ m <= MaxEntrySize + 1
    BY <2>2
  <2> HIDE DEF e
  <2>5. QED
    BY <1>3, <1>4, <2>3, <2>4
<1>6. Outcome(part) = "ok" =>
          HasPart(part) /\ e.real # -1 /\ e.real # -2 /\ ~ (Inflated(e) > MaxEntrySize)
  BY DEF Outcome, Opens
<1>7. HasPart(part) /\ e.real # -1 /\ e.real # -2 /\ ~ (Inflated(e) > MaxEntrySize) /\ ~ (e.size > MaxEntrySize)
        => Outcome(part) \in {"ok", "over"}
  BY DEF Outcome, Opens
<1>8. Outcome(part) = "absent" <=> ~ Opens(part)
  BY DEF Outcome
<1> HIDE DEF e
<1>9. Outcome(part) = "ok" => e.real \in 0 .. MaxEntrySize
  BY <1>3, <1>4, <1>5, <1>6
<1>10. HasPart(part) /\ e.real \in 0 .. MaxEntrySize => Outcome(part) \in {"ok", "over"}
  BY <1>3, <1>4, <1>5, <1>7
<1>11. QED
  BY <1>2, <1>6, <1>8, <1>9, <1>10 DEF Loads, Sane, e

\* The layers of a chain whose pictures come out, and what is said of a page
\* when the chain of its slide is c.
Drawn(d, c) ==
    {k \in 1 .. Len(c) : k < 4 /\ c[k] \in DOMAIN d.pictures /\ {c[i] : i \in 1 .. k - 1} \cap d.hides = {}}

Falling(list, S) ==
    /\ {list[i].of : i \in DOMAIN list} = S
    /\ \A i, j \in DOMAIN list : i < j => list[j].of < list[i].of

Fine(d, page, c) ==
    /\ page.is = "read" => c # <<>> /\ Falling(page.pictures, Drawn(d, c))
    /\ page.is = "failed" => c = <<>> \/ page.over

OnSlide == {"part", "rels", "layers", "notes"}
Overs == \E n \in 1 .. Len(pages) : pages[n].over

\* What the steps keep, from which SlidesExact follows: the pages out are fine,
\* and the rest of the chain of the slide is what comes of the parts that were
\* read.
OutInv ==
    /\ Listed(pages) /\ Listed(deck.listed) /\ Len(paths) \in Nat
    /\ phase \in {"call", "opening", "presentation", "relations", "metadata", "failed"} => pages = <<>>
    /\ phase \notin {"call", "opening", "failed"} => opened = "yes"
    /\ phase \in OnSlide \cup {"metadata", "slides", "done"} =>
          Len(paths) = Len(deck.listed) /\ Len(pages) <= Len(paths)
    /\ phase \in OnSlide => Number <= Len(paths)
    /\ phase = "done" => Number > Len(paths)
    /\ \A n \in 1 .. Len(pages) :
          /\ pages[n].number = n
          /\ pages[n].over => broken /\ \A m \in n + 1 .. Len(pages) : pages[m].is = "failed"
          /\ \A slide, c : slide = paths[n] /\ Reaches(<<slide>>, 1, c) => Fine(deck, pages[n], c)
    /\ Overs => phase \notin {"rels", "layers", "notes"}

SlideInv ==
    /\ phase \in {"part", "rels"} =>
          /\ Listed(chain) /\ level \in 1 .. 4 /\ Len(chain) = level /\ pictures = <<>>
          /\ \A slide, c, k, r : slide = paths[Number] /\ c = chain /\ k = level =>
                (Reaches(<<slide>>, 1, r) <=> Reaches(c, k, r))
    /\ phase = "rels" => level < 4 /\ Sane(chain[level])
    /\ phase \in {"layers", "notes"} =>
          /\ Listed(chain) /\ chain # <<>> /\ Len(chain) <= 4
          /\ \A slide, c : slide = paths[Number] /\ c = chain => Reaches(<<slide>>, 1, c)
          /\ Listed(layers) /\ Len(layers) <= Len(chain)
          /\ \A k \in 1 .. Len(layers) : layers[k] = chain[k]
          /\ Listed(pictures) /\ Falling(pictures, {k \in Drawn(deck, chain) : k > Len(layers)})
    /\ phase = "notes" => layers = <<>>

(* A page comes out.                                                       *)
LEMMA SlideOut ==
    ASSUME OutInv, phase \in OnSlide, phase' = "slides", UNCHANGED <<archive, opened, deck, paths>>,
           broken => broken', NEW p, pages' = Append(pages, p), p.number = Number,
           p.over => broken', Overs => p.is = "failed",
           \A slide, c : slide = paths[Number] /\ Reaches(<<slide>>, 1, c) => Fine(deck, p, c)
    PROVE  OutInv' /\ SlideInv'
<1>1. /\ Len(pages) \in Nat /\ Listed(pages') /\ Len(pages') = Len(pages) + 1
      /\ \A i \in 1 .. Len(pages) : pages'[i] = pages[i]
      /\ pages'[Len(pages) + 1] = p
  BY AppendIs DEF OutInv
<1>2. Number = Len(pages) + 1 /\ Number <= Len(paths) /\ Len(paths) = Len(deck.listed) /\ Len(paths) \in Nat
  BY DEF Number, OutInv
<1>3. \A c, k, r : Reaches(c, k, r)' <=> Reaches(c, k, r)
  BY AboveKept
<1>4. ASSUME NEW n \in 1 .. Len(pages')
      PROVE  /\ pages'[n].number = n
             /\ pages'[n].over => broken' /\ \A m \in n + 1 .. Len(pages') : pages'[m].is = "failed"
             /\ \A slide, c : slide = paths[n] /\ Reaches(<<slide>>, 1, c) => Fine(deck, pages'[n], c)
  <2>1. CASE n = Len(pages) + 1
    <3>1. \A m : m \notin n + 1 .. Len(pages')
      BY <1>1, <2>1
    <3>2. QED
      BY <1>1, <1>2, <2>1, <3>1
  <2>2. CASE n \in 1 .. Len(pages)
    <3>1. /\ pages[n].number = n
          /\ pages[n].over => broken /\ \A m \in n + 1 .. Len(pages) : pages[m].is = "failed"
          /\ \A slide, c : slide = paths[n] /\ Reaches(<<slide>>, 1, c) => Fine(deck, pages[n], c)
      BY <2>2 DEF OutInv
    <3>2. \A m \in n + 1 .. Len(pages') : (m \in n + 1 .. Len(pages) /\ m \in 1 .. Len(pages)) \/ m = Len(pages) + 1
      BY <1>1, <2>2
    <3>3. pages[n].over => p.is = "failed"
      BY <2>2 DEF Overs
    <3>4. QED
      BY <1>1, <2>2, <3>1, <3>2, <3>3
  <2>3. QED
    BY <1>1, <2>1, <2>2
<1>5. OutInv'
  <2>1. \A n \in 1 .. Len(pages') :
           /\ pages'[n].number = n
           /\ pages'[n].over => broken' /\ \A m \in n + 1 .. Len(pages') : pages'[m].is = "failed"
           /\ \A slide, c : slide = paths'[n] /\ Reaches(<<slide>>, 1, c)' => Fine(deck', pages'[n], c)
    BY <1>3, <1>4
  <2>2. opened' = "yes" /\ Listed(deck'.listed) /\ Len(paths') \in Nat
    BY DEF OutInv, OnSlide
  <2>3. Len(paths') = Len(deck'.listed) /\ Len(pages') <= Len(paths')
    BY <1>1, <1>2
  <2>4. QED
    BY <1>1, <2>1, <2>2, <2>3 DEF OutInv, OnSlide
<1>6. SlideInv'
  BY DEF SlideInv
<1>7. QED
  BY <1>5, <1>6

(* A step on a slide that brings no page.                                  *)
LEMMA SlideGoesOn ==
    ASSUME OutInv, phase \in OnSlide, phase' \in OnSlide, UNCHANGED <<archive, opened, deck, paths, pages>>,
           broken => broken', Overs => phase' \notin {"rels", "layers", "notes"}
    PROVE  OutInv'
<1>1. \A c, k, r : Reaches(c, k, r)' <=> Reaches(c, k, r)
  BY AboveKept
<1>2. \A n \in 1 .. Len(pages') :
         /\ pages'[n].number = n
         /\ pages'[n].over => broken' /\ \A m \in n + 1 .. Len(pages') : pages'[m].is = "failed"
         /\ \A slide, c : slide = paths'[n] /\ Reaches(<<slide>>, 1, c)' => Fine(deck', pages'[n], c)
  BY <1>1 DEF OutInv
<1>3. Number' = Number /\ Overs' = Overs
  BY DEF Number, Overs
<1>4. QED
  BY <1>2, <1>3 DEF OutInv, OnSlide

(* Before the first slide there is no page.                                *)
LEMMA BeforeSlides ==
    ASSUME OutInv, pages = <<>>, UNCHANGED <<deck, pages>>, Len(paths') \in Nat,
           phase' \in {"call", "opening", "presentation", "relations", "metadata", "slides", "failed"},
           phase' \notin {"call", "opening", "failed"} => opened' = "yes",
           phase' \in {"metadata", "slides"} => Len(paths') = Len(deck.listed)
    PROVE  OutInv' /\ SlideInv'
<1>1. Len(pages') = 0 /\ pages' = <<>> /\ ~ Overs'
  BY EmptyIs DEF Overs
<1>2. OutInv'
  <2>1. 1 .. Len(pages') = {}
    BY <1>1
  <2>2. Listed(pages') /\ Listed(deck'.listed)
    BY DEF OutInv
  <2>3. phase' \notin OnSlide /\ phase' # "done" /\ 0 <= Len(paths')
    BY DEF OnSlide
  <2>4. QED
    BY <1>1, <2>1, <2>2, <2>3 DEF OutInv
<1>3. SlideInv'
  BY DEF SlideInv
<1>4. QED
  BY <1>2, <1>3

LEMMA SlidesInit ==
    ASSUME DecksTyped, Init
    PROVE  OutInv /\ SlideInv
<1>1. phase = "call" /\ pages = <<>> /\ paths = <<>> /\ Listed(deck.listed)
  BY DEF Init, DecksTyped, Listed
<1>2. Len(pages) = 0 /\ Len(paths) = 0 /\ Listed(pages) /\ ~ Overs
  BY <1>1, EmptyIs DEF Overs
<1>3. 1 .. Len(pages) = {}
  BY <1>2
<1>4. OutInv
  BY <1>1, <1>2, <1>3 DEF OutInv, OnSlide
<1>5. SlideInv
  BY <1>1 DEF SlideInv
<1>6. QED
  BY <1>4, <1>5

LEMMA BeforeSlidesKept ==
    ASSUME OutInv, deck \in Decks,
           Call \/ Open \/ ReadPresentation \/ ReadRelations \/ ReadMetadata
    PROVE  OutInv' /\ SlideInv'
<1>1. CASE Call
  BY <1>1, BeforeSlides DEF Call, Fail, Goes, OutInv
<1>2. CASE Open
  <2>1. /\ phase = "opening" /\ phase' \in {"opening", "presentation", "failed"}
        /\ phase' = "presentation" => opened' = "yes"
        /\ UNCHANGED <<deck, paths, pages>>
    <3>1. opened' \in {"refused", "no", "yes"}
      BY <1>2 DEF Open, OpenPackage
    <3>2. QED
      BY <1>2, <3>1 DEF Open, Fail, Goes
  <2>2. QED
    BY <2>1, BeforeSlides DEF OutInv
<1>3. CASE ReadPresentation
  <2>1. phase = "presentation" /\ phase' \in {"relations", "failed"} /\ UNCHANGED <<deck, paths, pages>> /\ opened' = opened
    BY <1>3 DEF ReadPresentation, Read, Fail, Goes
  <2>2. QED
    BY <2>1, BeforeSlides DEF OutInv
<1>4. CASE ReadRelations
  <2>1. /\ phase = "relations" /\ UNCHANGED <<deck, pages>> /\ opened' = opened
        /\ \/ phase' = "failed" /\ paths' = paths
           \/ phase' \in {"failed", "metadata"} /\ paths' = [k \in DOMAIN deck.listed |-> SlidePath(deck.listed[k])[1]]
    BY <1>4 DEF ReadRelations, Read, Fail, Goes
  <2>2. Len([k \in DOMAIN deck.listed |-> SlidePath(deck.listed[k])[1]]) = Len(deck.listed) /\ Len(deck.listed) \in Nat
    <3> DEFINE path(k) == SlidePath(deck.listed[k])[1]
               n == Len(deck.listed)
    <3>1. n \in Nat /\ DOMAIN deck.listed = 1 .. n
      BY DEF OutInv, Listed
    <3> HIDE DEF path, n
    <3>2. Len([k \in 1 .. n |-> path(k)]) = n
      <4>1. [k \in 1 .. n |-> path(k)] \in Seq({path(k) : k \in 1 .. n})
        BY <3>1
      <4>2. QED
        BY <3>1, <4>1
    <3>3. QED
      BY <3>1, <3>2 DEF path, n
  <2>3. QED
    BY <2>1, <2>2, BeforeSlides DEF OutInv
<1>5. CASE ReadMetadata
  <2>1. phase = "metadata" /\ phase' \in {"slides", "failed"} /\ UNCHANGED <<deck, paths, pages>> /\ opened' = opened
    BY <1>5 DEF ReadMetadata, Read, Fail, Goes
  <2>2. QED
    BY <2>1, BeforeSlides DEF OutInv, OnSlide
<1>6. QED
  BY <1>1, <1>2, <1>3, <1>4, <1>5

LEMMA BeginSlideKept ==
    ASSUME OutInv, BeginSlide
    PROVE  OutInv' /\ SlideInv'
<1>1. /\ phase = "slides" /\ phase' = "part" /\ Number <= Len(paths)
      /\ level' = 1 /\ chain' = <<paths[Number]>> /\ pictures' = <<>>
      /\ UNCHANGED <<deck, paths, pages, archive, opened, broken>>
  BY DEF BeginSlide, package
<1>2. \A c, k, r : Reaches(c, k, r)' <=> Reaches(c, k, r)
  BY <1>1, AboveKept
<1>3. Number' = Number /\ Overs' = Overs
  BY <1>1 DEF Number, Overs
<1>4. \A n \in 1 .. Len(pages') :
         /\ pages'[n].number = n
         /\ pages'[n].over => broken' /\ \A m \in n + 1 .. Len(pages') : pages'[m].is = "failed"
         /\ \A slide, c : slide = paths'[n] /\ Reaches(<<slide>>, 1, c)' => Fine(deck', pages'[n], c)
  BY <1>1, <1>2 DEF OutInv
<1>5. OutInv'
  BY <1>1, <1>3, <1>4 DEF OutInv, OnSlide
<1>6. Listed(chain') /\ Len(chain') = level' /\ level' \in 1 .. 4 /\ pictures' = <<>>
  BY <1>1, OneIs
<1>7. \A slide, c, k, r : slide = paths'[Number'] /\ c = chain' /\ k = level' =>
                (Reaches(<<slide>>, 1, r)' <=> Reaches(c, k, r)')
  BY <1>1, <1>3
<1>8. SlideInv'
  BY <1>1, <1>6, <1>7 DEF SlideInv
<1>9. QED
  BY <1>5, <1>8

(* A page of a slide that failed.                                          *)
LEMMA SlideFailed ==
    ASSUME OutInv, phase \in OnSlide, FailSlide, UNCHANGED <<archive, opened, deck, paths>>,
           broken => broken',
           broken' \/ \A slide, c : slide = paths[Number] /\ Reaches(<<slide>>, 1, c) => c = <<>>
    PROVE  OutInv' /\ SlideInv'
<1> DEFINE p == [number |-> Number, is |-> "failed", over |-> broken', pictures |-> <<>>]
<1>1. phase' = "slides" /\ pages' = Append(pages, p)
  BY DEF FailSlide, Emit
<1>2. p.number = Number /\ p.is = "failed" /\ p.over = broken'
  OBVIOUS
<1> HIDE DEF p
<1>3. \A slide, c : slide = paths[Number] /\ Reaches(<<slide>>, 1, c) => Fine(deck, p, c)
  BY <1>2 DEF Fine
<1>4. QED
  BY <1>1, <1>2, <1>3, SlideOut

LEMMA ReadIs ==
    ASSUME NEW name, Read(name)
    PROVE  /\ UNCHANGED <<archive, opened>>
           /\ broken' = (broken \/ Outcome(name) = "over")
BY DEF Read

(* The chain of the slide that is being read, taken one part up.           *)
LEMMA ReadPartKept ==
    ASSUME DecksTyped, ArchiveInv, OutInv, SlideInv, ReadPart
    PROVE  OutInv' /\ SlideInv'
<1> DEFINE part == chain[level]
<1>1. /\ phase = "part" /\ Read(part) /\ UNCHANGED <<deck, error, paths>>
      /\ opened = "yes" /\ UNCHANGED <<archive, opened>>
      /\ broken' = (broken \/ Outcome(part) = "over") /\ broken \in BOOLEAN
  BY ReadIs DEF ReadPart, OutInv, ArchiveInv, PackageInv
<1>2. /\ Listed(chain) /\ level \in 1 .. 4 /\ Len(chain) = level /\ pictures = <<>>
      /\ \A slide, r : slide = paths[Number] => (Reaches(<<slide>>, 1, r) <=> Reaches(chain, level, r))
  BY <1>1 DEF SlideInv
<1>3. /\ Loads(part) => Sane(part)
      /\ Sane(part) => Loads(part) \/ Outcome(part) = "over"
      /\ broken => ~ Loads(part)
  BY <1>1, LoadsIs
<1>4. \A c, k, r : Reaches(c, k, r)' <=> Reaches(c, k, r)
  BY <1>1, AboveKept
<1>5. CASE ~ Loads(part)
  <2>1. FailSlide
    BY <1>5 DEF ReadPart
  <2>2. ~ broken' => Above(chain, level) = <<>>
    <3>1. ~ broken' => ~ Sane(chain[level])
      BY <1>1, <1>3, <1>5
    <3>2. ~ (Len(chain) < level)
      BY <1>2
    <3>3. QED
      BY <3>1, <3>2 DEF Above
  <2>3. ~ broken' => \A r : Reaches(chain, level, r) <=> r = <<>>
    BY <1>2, <2>2, EmptyIs, ChainEnds
  <2>4. broken' \/ \A slide, c : slide = paths[Number] /\ Reaches(<<slide>>, 1, c) => c = <<>>
    BY <1>2, <2>3
  <2>5. QED
    BY <1>1, <2>1, <2>4, SlideFailed DEF OnSlide
<1>6. CASE Loads(part) /\ level = Len(Kinds)
  <2>1. level = 4 /\ phase' = "layers" /\ layers' = chain /\ UNCHANGED <<pages, level, chain, pictures>>
    BY <1>6 DEF ReadPart, Kinds
  <2>2. ~ Overs
    BY <1>3, <1>6 DEF Overs, OutInv
  <2>3. OutInv'
    BY <1>1, <2>1, <2>2, SlideGoesOn DEF OnSlide
  <2>4. Above(chain, level) = chain
    BY <1>2, <1>3, <1>6, <2>1 DEF Above
  <2>5. \A r : Reaches(chain, level, r) <=> r = chain
    BY <1>2, <2>4, ChainEnds
  <2>6. Number' = Number /\ chain # <<>>
    BY <1>2, <2>1, EmptyIs DEF Number
  <2>7. \A slide, c : slide = paths'[Number'] /\ c = chain' => Reaches(<<slide>>, 1, c)'
    BY <1>1, <1>2, <1>4, <2>1, <2>5, <2>6
  <2>8. Listed(pictures') /\ Falling(pictures', {k \in Drawn(deck', chain') : k > Len(layers')})
    <3>1. {k \in Drawn(deck', chain') : k > Len(layers')} = {}
      BY <1>2, <2>1 DEF Drawn
    <3>2. pictures' = <<>>
      BY <1>2, <2>1
    <3>3. QED
      BY <3>1, <3>2, EmptyIs DEF Falling
  <2>9. SlideInv'
    <3>1. /\ Listed(chain') /\ chain' # <<>> /\ Len(chain') <= 4 /\ Listed(layers') /\ Len(layers') <= Len(chain')
          /\ \A k \in 1 .. Len(layers') : layers'[k] = chain'[k]
      <4>1. chain' = chain /\ layers' = chain /\ Len(chain) = 4
        BY <1>2, <2>1
      <4>2. Listed(chain) /\ chain # <<>>
        BY <1>2, <2>6
      <4>3. Len(chain) <= 4 /\ Len(chain) <= Len(chain)
        BY <4>1
      <4> HIDE DEF part
      <4>4. QED
        BY <4>1, <4>2, <4>3
    <3>2. phase' = "layers"
      BY <2>1
    <3>3. QED
      BY <2>7, <2>8, <3>1, <3>2 DEF SlideInv
  <2>10. QED
    BY <2>3, <2>9
<1>7. CASE Loads(part) /\ level # Len(Kinds)
  <2>1. level < 4 /\ phase' = "rels" /\ UNCHANGED <<pages, level, chain, pictures>>
    BY <1>2, <1>7 DEF ReadPart, Kinds
  <2>2. ~ Overs
    BY <1>3, <1>7 DEF Overs, OutInv
  <2>3. OutInv'
    BY <1>1, <2>1, <2>2, SlideGoesOn DEF OnSlide
  <2>4. Number' = Number
    BY <2>1 DEF Number
  <2>5. \A slide, c, k, r : slide = paths'[Number'] /\ c = chain' /\ k = level' =>
                (Reaches(<<slide>>, 1, r)' <=> Reaches(c, k, r)')
    BY <1>1, <1>2, <1>4, <2>1, <2>4
  <2>6. Sane(chain[level])'
    <3>1. Sane(part)' <=> Sane(part)
      <4>1. Named(part)' = Named(part) /\ (HasPart(part)' <=> HasPart(part)) /\ part' = part
        BY <1>1, <2>1 DEF Named, HasPart, SelectInSeq
      <4>2. QED
        BY <1>1, <4>1 DEF Sane
    <3>2. QED
      BY <1>3, <1>7, <3>1
  <2>7. SlideInv'
    BY <1>2, <2>1, <2>5, <2>6 DEF SlideInv
  <2>8. QED
    BY <2>3, <2>7
<1>8. QED
  BY <1>5, <1>6, <1>7

LEMMA ReadRelsKept ==
    ASSUME DecksTyped, ArchiveInv, OutInv, SlideInv, ReadRels
    PROVE  OutInv' /\ SlideInv'
<1> DEFINE part == chain[level]
           rels == RelsPath(part)
           next == FirstInternal(RelsOf(part), Kinds[level + 1])
           path == ResolveTarget(part, next[1].target)
<1>1. /\ phase = "rels" /\ Read(rels) /\ UNCHANGED <<deck, error, paths>>
      /\ opened = "yes" /\ UNCHANGED <<archive, opened>>
      /\ broken' = (broken \/ Outcome(rels) = "over") /\ broken \in BOOLEAN
  BY ReadIs DEF ReadRels, OutInv, ArchiveInv, PackageInv
<1>2. /\ Listed(chain) /\ level \in 1 .. 3 /\ Len(chain) = level /\ pictures = <<>> /\ Sane(part)
      /\ \A slide, r : slide = paths[Number] => (Reaches(<<slide>>, 1, r) <=> Reaches(chain, level, r))
  BY <1>1 DEF SlideInv
<1>3. /\ Loads(rels) => Sane(rels)
      /\ Sane(rels) => Loads(rels) \/ Outcome(rels) = "over"
      /\ Outcome(rels) = "absent" <=> ~ Opens(rels)
  BY <1>1, LoadsIs
<1>4. \A c, k, r : Reaches(c, k, r)' <=> Reaches(c, k, r)
  BY <1>1, AboveKept
<1>5. ~ Overs
  BY <1>1 DEF OutInv
<1>6. LoadsIfThere(rels) => SaneRels(part)
  BY <1>3 DEF LoadsIfThere, SaneRels
<1>7. SaneRels(part) => LoadsIfThere(rels) \/ Outcome(rels) = "over"
  BY <1>3 DEF LoadsIfThere, SaneRels
<1>8. Above(chain, level) = IF ~ SaneRels(part) THEN <<>> ELSE IF next = <<>> THEN chain
                            ELSE IF path = <<>> THEN <<>> ELSE Append(chain, path[1])
  BY <1>2 DEF Above
<1>9. /\ ~ LoadsIfThere(rels) => FailSlide
      /\ LoadsIfThere(rels) /\ next = <<>> =>
            phase' = "layers" /\ layers' = chain /\ UNCHANGED <<pages, level, chain, pictures>>
      /\ LoadsIfThere(rels) /\ next # <<>> /\ path = <<>> => FailSlide
      /\ LoadsIfThere(rels) /\ next # <<>> /\ path # <<>> =>
            /\ chain' = Append(chain, path[1])
            /\ level' = level + 1 /\ phase' = "part" /\ UNCHANGED <<pages, layers, pictures>>
  BY DEF ReadRels
<1> HIDE DEF rels, next, path
<1>10. CASE ~ LoadsIfThere(rels) \/ (next # <<>> /\ path = <<>>)
  <2>1. FailSlide
    BY <1>9, <1>10
  <2>2. ~ broken' => Above(chain, level) = <<>>
    BY <1>1, <1>7, <1>8, <1>10
  <2>3. ~ broken' => \A r : Reaches(chain, level, r) <=> r = <<>>
    BY <1>2, <2>2, EmptyIs, ChainEnds
  <2>4. broken' \/ \A slide, c : slide = paths[Number] /\ Reaches(<<slide>>, 1, c) => c = <<>>
    BY <1>2, <2>3
  <2>5. QED
    BY <1>1, <2>1, <2>4, SlideFailed DEF OnSlide
<1>11. CASE LoadsIfThere(rels) /\ next = <<>>
  <2>1. phase' = "layers" /\ layers' = chain /\ UNCHANGED <<pages, level, chain, pictures>>
    BY <1>9, <1>11
  <2>2. OutInv'
    BY <1>1, <1>5, <2>1, SlideGoesOn DEF OnSlide
  <2>3. Above(chain, level) = chain
    BY <1>6, <1>8, <1>11
  <2>4. \A r : Reaches(chain, level, r) <=> r = chain
    BY <1>2, <2>3, ChainEnds
  <2>5. Number' = Number /\ chain # <<>>
    BY <1>2, <2>1, EmptyIs DEF Number
  <2>6. \A slide, c : slide = paths'[Number'] /\ c = chain' => Reaches(<<slide>>, 1, c)'
    BY <1>1, <1>2, <1>4, <2>1, <2>4, <2>5
  <2>7. Listed(pictures') /\ Falling(pictures', {k \in Drawn(deck', chain') : k > Len(layers')})
    <3>1. {k \in Drawn(deck', chain') : k > Len(layers')} = {}
      BY <1>2, <2>1 DEF Drawn
    <3>2. pictures' = <<>>
      BY <1>2, <2>1
    <3>3. QED
      BY <3>1, <3>2, EmptyIs DEF Falling
  <2>8. SlideInv'
    BY <1>2, <2>1, <2>5, <2>6, <2>7 DEF SlideInv
  <2>9. QED
    BY <2>2, <2>8
<1>12. CASE LoadsIfThere(rels) /\ next # <<>> /\ path # <<>>
  <2>1. /\ chain' = Append(chain, path[1])
        /\ level' = level + 1 /\ phase' = "part" /\ UNCHANGED <<pages, layers, pictures>>
    BY <1>9, <1>12
  <2>2. OutInv'
    BY <1>1, <1>5, <2>1, SlideGoesOn DEF OnSlide
  <2>3. Above(chain, level) = chain'
    BY <1>6, <1>8, <1>12, <2>1
  <2>4. \A r : Reaches(chain, level, r) <=> Reaches(chain', level', r)
    <3>1. \A r : Reaches(chain, level, r) <=> Reaches(Above(chain, level), level + 1, r)
      BY <1>2, ChainClimbs
    <3>2. level' = level + 1
      BY <2>1
    <3>3. QED
      BY <2>3, <3>1, <3>2
  <2>5. Number' = Number
    BY <2>1 DEF Number
  <2>6. \A slide, c, k, r : slide = paths'[Number'] /\ c = chain' /\ k = level' =>
                (Reaches(<<slide>>, 1, r)' <=> Reaches(c, k, r)')
    BY <1>1, <1>2, <1>4, <2>4, <2>5
  <2>7. Listed(chain') /\ Len(chain') = level' /\ level' \in 1 .. 4 /\ pictures' = <<>>
    BY <1>2, <2>1, AppendIs
  <2>8. SlideInv'
    BY <2>1, <2>6, <2>7 DEF SlideInv
  <2>9. QED
    BY <2>2, <2>8
<1>13. QED
  BY <1>10, <1>11, <1>12

(* The pictures of the layers, from the top of the chain down.             *)
LEMMA FallingOn ==
    ASSUME NEW list, NEW S, NEW r, Listed(list), Falling(list, S), \A k \in S : r.of < k
    PROVE  Listed(Append(list, r)) /\ Falling(Append(list, r), S \cup {r.of})
<1> DEFINE more == Append(list, r)
           n == Len(list)
<1>1. /\ Listed(more) /\ n \in Nat /\ DOMAIN list = 1 .. n /\ DOMAIN more = 1 .. n + 1
      /\ \A i \in 1 .. n : more[i] = list[i]
      /\ more[n + 1] = r
  BY AppendIs
<1> HIDE DEF more, n
<1>2. {more[i].of : i \in DOMAIN more} = S \cup {r.of}
  <2>1. {list[i].of : i \in DOMAIN list} = S
    BY DEF Falling
  <2>2. \A i \in DOMAIN more : (i \in DOMAIN list /\ more[i].of = list[i].of) \/ (i = n + 1 /\ more[i].of = r.of)
    BY <1>1
  <2>3. (\A i \in DOMAIN list : i \in DOMAIN more /\ more[i].of = list[i].of) /\ n + 1 \in DOMAIN more
        /\ more[n + 1].of = r.of
    BY <1>1
  <2>4. QED
    BY <2>1, <2>2, <2>3
<1>3. ASSUME NEW i \in DOMAIN more, NEW j \in DOMAIN more, i < j PROVE more[j].of < more[i].of
  <2>1. i \in DOMAIN list /\ more[i] = list[i] /\ list[i].of \in S
    BY <1>1, <1>3 DEF Falling
  <2>2. CASE j = n + 1
    BY <1>1, <2>1, <2>2
  <2>3. CASE j # n + 1
    <3>1. j \in DOMAIN list /\ more[j] = list[j]
      BY <1>1, <2>3
    <3>2. QED
      BY <1>3, <2>1, <3>1 DEF Falling
  <2>4. QED
    BY <2>2, <2>3
<1>4. QED
  BY <1>1, <1>2, <1>3 DEF Falling, more

LEMMA LayerKept ==
    ASSUME ArchiveInv, OutInv, SlideInv, Layer
    PROVE  OutInv' /\ SlideInv'
<1> DEFINE n == Len(layers)
           part == layers[n]
           drawn == Shows(n) /\ part \in DOMAIN deck.pictures
           S == {k \in Drawn(deck, chain) : k > n}
           T == {k \in Drawn(deck, chain) : k > n - 1}
<1>1. /\ phase = "layers" /\ phase' = "layers" /\ layers # <<>> /\ layers' = Front(layers)
      /\ UNCHANGED <<deck, paths, pages, level, chain>>
      /\ ~ drawn => UNCHANGED <<package, pictures>>
      /\ drawn => \E r : r.of = n /\ pictures' = Append(pictures, r)
      /\ UNCHANGED package \/ \E name : Read(name)
  <2>1. [of |-> n, hashed |-> FALSE].of = n /\ \A b : [of |-> n, hashed |-> b].of = n
    OBVIOUS
  <2>2. drawn => \E r : r.of = n /\ pictures' = Append(pictures, r)
    <3> SUFFICES ASSUME drawn PROVE \E r : r.of = n /\ pictures' = Append(pictures, r)
      OBVIOUS
    <3>1. \E b : pictures' = Append(pictures, [of |-> n, hashed |-> b])
      BY DEF Layer
    <3>2. QED
      BY <2>1, <3>1
  <2>3. QED
    BY <2>2 DEF Layer
<1>2. UNCHANGED <<archive, opened>> /\ (broken => broken')
  BY <1>1, ReadIs DEF package, ArchiveInv, PackageInv
<1>3. /\ Listed(chain) /\ chain # <<>> /\ Len(chain) <= 4
      /\ \A slide, c : slide = paths[Number] /\ c = chain => Reaches(<<slide>>, 1, c)
      /\ Listed(layers) /\ n <= Len(chain)
      /\ \A k \in 1 .. n : layers[k] = chain[k]
      /\ Listed(pictures) /\ Falling(pictures, S)
  BY <1>1 DEF SlideInv
<1>4. /\ Listed(layers') /\ n \in Nat /\ n # 0 /\ Len(layers') = n - 1
      /\ \A i \in 1 .. n - 1 : layers'[i] = layers[i]
  BY <1>1, <1>3, FrontIs
<1>5. Len(chain) \in Nat
  BY <1>3 DEF Listed
<1>6. OutInv'
  BY <1>1, <1>2, SlideGoesOn DEF OnSlide, OutInv
<1>7. drawn <=> n \in Drawn(deck, chain)
  <2>1. n \in 1 .. n /\ n \in 1 .. Len(chain)
    BY <1>3, <1>4, <1>5
  <2>2. part = chain[n]
    BY <1>3, <2>1
  <2>3. Shows(n) <=> n < 4 /\ {chain[i] : i \in 1 .. n - 1} \cap deck.hides = {}
    BY DEF Shows
  <2> HIDE DEF part
  <2>4. QED
    BY <2>1, <2>2, <2>3 DEF Drawn
<1>8. Drawn(deck, chain) \subseteq Nat
  BY <1>5 DEF Drawn
<1>9. Listed(pictures') /\ Falling(pictures', T)
  <2>1. CASE drawn
    <3>1. PICK r : r.of = n /\ pictures' = Append(pictures, r)
      BY <1>1, <2>1
    <3>2. T = S \cup {n}
      <4>1. \A k \in Nat : k > n - 1 <=> k > n \/ k = n
        BY <1>4
      <4> HIDE DEF n
      <4>2. QED
        BY <1>7, <1>8, <2>1, <4>1
    <3>3. \A k \in S : r.of < k
      BY <1>4, <1>8, <3>1
    <3> HIDE DEF S, T
    <3>4. QED
      BY <1>3, <3>1, <3>2, <3>3, FallingOn
  <2>2. CASE ~ drawn
    <3>1. T = S
      <4>1. \A k \in Nat : k > n - 1 <=> k > n \/ k = n
        BY <1>4
      <4> HIDE DEF n
      <4>2. QED
        BY <1>7, <1>8, <2>2, <4>1
    <3>2. QED
      BY <1>1, <1>3, <2>2, <3>1
  <2>3. QED
    BY <2>1, <2>2
<1>10. \A c, k, r : Reaches(c, k, r)' <=> Reaches(c, k, r)
  BY <1>1, <1>2, AboveKept
<1>11. \A slide, c : slide = paths'[Number'] /\ c = chain' => Reaches(<<slide>>, 1, c)'
  <2>1. Number' = Number
    BY <1>1 DEF Number
  <2>2. QED
    BY <1>1, <1>3, <1>10, <2>1
<1>12. SlideInv'
  <2>1. phase' = "layers" /\ chain' = chain /\ deck' = deck
    BY <1>1
  <2>2. Len(layers') <= Len(chain) /\ \A k \in 1 .. Len(layers') : layers'[k] = chain[k]
    BY <1>3, <1>4, <1>5
  <2>3. Falling(pictures', {k \in Drawn(deck', chain') : k > Len(layers')})
    BY <1>4, <1>9, <2>1
  <2> HIDE DEF n, S, T, part, drawn
  <2>4. QED
    BY <1>3, <1>4, <1>9, <1>11, <2>1, <2>2, <2>3 DEF SlideInv
<1>13. QED
  BY <1>6, <1>12

LEMMA LayersEndKept ==
    ASSUME OutInv, SlideInv, LayersEnd
    PROVE  OutInv' /\ SlideInv'
<1>1. /\ phase = "layers" /\ phase' = "notes" /\ layers = <<>>
      /\ UNCHANGED <<deck, paths, pages, archive, opened, broken, level, chain, layers, pictures>>
  BY DEF LayersEnd, package, current
<1>2. OutInv'
  BY <1>1, SlideGoesOn DEF OnSlide, OutInv
<1>3. \A c, k, r : Reaches(c, k, r)' <=> Reaches(c, k, r)
  BY <1>1, AboveKept
<1>4. Number' = Number
  BY <1>1 DEF Number
<1>5. \A slide, c : slide = paths'[Number'] /\ c = chain' => Reaches(<<slide>>, 1, c)'
  BY <1>1, <1>3, <1>4 DEF SlideInv
<1>6. SlideInv'
  BY <1>1, <1>5 DEF SlideInv
<1>7. QED
  BY <1>2, <1>6

LEMMA NotesKept ==
    ASSUME ArchiveInv, OutInv, SlideInv, Notes
    PROVE  OutInv' /\ SlideInv'
<1> DEFINE p == [number |-> Number, is |-> "read", over |-> broken', pictures |-> pictures]
<1>1. /\ phase = "notes" /\ phase' = "slides" /\ pages' = Append(pages, p) /\ UNCHANGED <<deck, paths>>
      /\ UNCHANGED package \/ \E name : Read(name)
  BY DEF Notes, Emit
<1>2. UNCHANGED <<archive, opened>> /\ (broken => broken')
  BY <1>1, ReadIs DEF package, ArchiveInv, PackageInv
<1>3. p.number = Number /\ p.is = "read" /\ p.over = broken' /\ p.pictures = pictures
  OBVIOUS
<1> HIDE DEF p
<1>4. /\ chain # <<>> /\ layers = <<>> /\ Listed(chain)
      /\ Falling(pictures, {k \in Drawn(deck, chain) : k > Len(layers)})
      /\ \A slide : slide = paths[Number] => Reaches(<<slide>>, 1, chain)
  BY <1>1 DEF SlideInv
<1>5. Falling(pictures, Drawn(deck, chain))
  <2>1. {k \in Drawn(deck, chain) : k > Len(layers)} = Drawn(deck, chain)
    BY <1>4, EmptyIs DEF Drawn, Listed
  <2>2. QED
    BY <1>4, <2>1
<1>6. \A slide, c : slide = paths[Number] /\ Reaches(<<slide>>, 1, c) => Fine(deck, p, c)
  <2>1. \A slide, c : slide = paths[Number] /\ Reaches(<<slide>>, 1, c) => c = chain
    BY <1>4, ChainIs
  <2>2. QED
    BY <1>3, <1>4, <1>5, <2>1 DEF Fine
<1>7. ~ Overs
  BY <1>1 DEF OutInv
<1>8. QED
  BY <1>1, <1>2, <1>3, <1>6, <1>7, SlideOut DEF OnSlide

LEMMA FinishKept ==
    ASSUME OutInv, Finish \/ UNCHANGED vars, SlideInv
    PROVE  OutInv' /\ SlideInv'
<1>1. /\ UNCHANGED <<deck, paths, pages, archive, opened, broken, level, chain, layers, pictures>>
      /\ phase' = phase \/ (phase = "slides" /\ phase' = "done" /\ Number > Len(paths))
  BY DEF Finish, vars, package, current
<1>2. \A c, k, r : Reaches(c, k, r)' <=> Reaches(c, k, r)
  BY <1>1, AboveKept
<1>3. Number' = Number /\ Overs' = Overs
  BY <1>1 DEF Number, Overs
<1>4. \A n \in 1 .. Len(pages') :
         /\ pages'[n].number = n
         /\ pages'[n].over => broken' /\ \A m \in n + 1 .. Len(pages') : pages'[m].is = "failed"
         /\ \A slide, c : slide = paths'[n] /\ Reaches(<<slide>>, 1, c)' => Fine(deck', pages'[n], c)
  BY <1>1, <1>2 DEF OutInv
<1>5. OutInv'
  BY <1>1, <1>3, <1>4 DEF OutInv, OnSlide
<1>6. \A slide, c : slide = paths'[Number'] /\ c = chain' /\ phase \in {"layers", "notes"} => Reaches(<<slide>>, 1, c)'
  BY <1>1, <1>2, <1>3 DEF SlideInv
<1>7. \A slide, c, k, r : slide = paths'[Number'] /\ c = chain' /\ k = level' /\ phase \in {"part", "rels"} =>
                (Reaches(<<slide>>, 1, r)' <=> Reaches(c, k, r)')
  BY <1>1, <1>2, <1>3 DEF SlideInv
<1>8. phase = "rels" => (Sane(chain[level])' <=> Sane(chain[level]))
  <2> DEFINE part == chain[level]
  <2>1. Named(part)' = Named(part) /\ (HasPart(part)' <=> HasPart(part)) /\ part' = part
    BY <1>1 DEF Named, HasPart, SelectInSeq
  <2>2. QED
    BY <1>1, <2>1 DEF Sane
<1>9. SlideInv'
  BY <1>1, <1>6, <1>7, <1>8 DEF SlideInv
<1>10. QED
  BY <1>5, <1>9

\* The deck stays.
DeckInv == deck \in Decks /\ ArchiveInv /\ OutInv /\ SlideInv

LEMMA DeckInvNext == ASSUME DecksTyped, DeckInv, [Next]_vars PROVE DeckInv'
<1>0. deck \in Decks /\ ArchiveInv /\ OutInv /\ SlideInv
  BY DEF DeckInv
<1>1. ArchiveInv'
  BY <1>0, ArchiveInvNext
<1>2. deck' = deck
  BY DEF Next, Call, Open, ReadPresentation, ReadRelations, ReadMetadata, BeginSlide, ReadPart,
         ReadRels, Layer, LayersEnd, Notes, Finish, vars
<1>3. OutInv' /\ SlideInv'
  BY <1>0, BeforeSlidesKept, BeginSlideKept, ReadPartKept, ReadRelsKept, LayerKept, LayersEndKept,
     NotesKept, FinishKept DEF Next
<1>4. QED
  BY <1>0, <1>1, <1>2, <1>3 DEF DeckInv

LEMMA OutInvExact ==
    ASSUME OutInv
    PROVE  SlidesExact
<1>1. Listed(pages) /\ DOMAIN pages = 1 .. Len(pages) /\ Len(pages) \in Nat
  BY DEF OutInv, Listed
<1>2. phase = "done" => Len(pages) = Len(deck.listed)
  BY <1>1 DEF OutInv, Number
<1>3. phase = "failed" => pages = <<>>
  BY DEF OutInv
<1>4. ASSUME NEW n \in DOMAIN pages
      PROVE  LET chained == Chain(paths[n])
                 page    == pages[n]
                 shown   == {k \in 1 .. Len(chained) :
                               /\ k < 4 /\ chained[k] \in DOMAIN deck.pictures
                               /\ {chained[i] : i \in 1 .. k - 1} \cap deck.hides = {}}
             IN  /\ page.number = n
                 /\ page.is = "read" => chained # <<>>
                 /\ page.is = "failed" => chained = <<>> \/ page.over
                 /\ page.over => \A later \in n + 1 .. Len(pages) : pages[later].is = "failed"
                 /\ page.is = "read" =>
                       /\ {page.pictures[i].of : i \in DOMAIN page.pictures} = shown
                       /\ \A i, j \in DOMAIN page.pictures :
                             i < j => page.pictures[j].of < page.pictures[i].of
  <2> DEFINE c == Chain(paths[n])
  <2>1. Reaches(<<paths[n]>>, 1, c)
    BY ChainIs
  <2>2. Fine(deck, pages[n], c)
    BY <1>1, <1>4, <2>1 DEF OutInv
  <2>3. pages[n].number = n /\ (pages[n].over => \A m \in n + 1 .. Len(pages) : pages[m].is = "failed")
    BY <1>1, <1>4 DEF OutInv
  <2> HIDE DEF c
  <2>4. QED
    BY <2>2, <2>3 DEF Fine, Falling, Drawn, c
<1>5. QED
  BY <1>2, <1>3, <1>4 DEF SlidesExact

(* Every slide of the list has its page in its place, and whether it could *)
(* be read is a matter of the parts of its own chain alone, but for the    *)
(* limit all reads of a package share; a page that was read has the        *)
(* pictures of every layer that shows.  For every deck, every limit and    *)
(* every way its parts may be missing, damaged or out of the package.      *)
THEOREM SlidesAreExact ==
    ASSUME DecksTyped
    PROVE  Spec => []SlidesExact
<1>1. DecksTyped
  OBVIOUS
<1>2. Init => DeckInv
  BY <1>1, ArchiveInvInit, SlidesInit DEF DeckInv, Init
<1>3. DeckInv /\ [Next]_vars => DeckInv'
  BY <1>1, DeckInvNext
<1>4. DeckInv => SlidesExact
  BY OutInvExact DEF DeckInv
<1>5. QED
  BY <1>2, <1>3, <1>4, PTL DEF Spec

(* Every target of every deck leads where a reader of paths would follow   *)
(* it.                                                                     *)
THEOREM TargetsAreExact ==
    ASSUME DecksTyped, RelationsTyped
    PROVE  Spec => []TargetsExact
<1>1. DecksTyped /\ RelationsTyped
  OBVIOUS
<1>2. Init => DeckInv
  BY <1>1, ArchiveInvInit, SlidesInit DEF DeckInv, Init
<1>3. DeckInv /\ [Next]_vars => DeckInv'
  BY <1>1, DeckInvNext
<1>4. DeckInv => TargetsExact
  <2>1. SUFFICES ASSUME DeckInv, NEW part \in DOMAIN deck.rels, NEW i \in DOMAIN deck.rels[part]
                 PROVE  TargetResolved(part, deck.rels[part][i].target)
    BY DEF TargetsExact
  <2> DEFINE target == deck.rels[part][i].target
             Names == Range(part) \cup Range(target.segments)
  <2>2. /\ part \in Seq(Range(part)) /\ part # <<>> /\ \A k \in 1 .. Len(part) : Plain(part[k])
        /\ target.absolute \in BOOLEAN /\ target.segments \in Seq(Range(target.segments))
    BY <1>1, <2>1 DEF DeckInv, RelationsTyped
  <2>3. part \in Seq(Names) /\ target.segments \in Seq(Names)
    <3>1. ASSUME NEW A, NEW B, NEW s \in Seq(A) PROVE s \in Seq(A \cup B) /\ s \in Seq(B \cup A)
      OBVIOUS
    <3> HIDE DEF target
    <3>2. QED
      BY <2>2, <3>1
  <2> HIDE DEF target, Names
  <2>4. TargetResolved(part, target)
    BY <2>2, <2>3, TargetsAreResolved
  <2>5. QED
    BY <2>4 DEF target
<1>5. QED
  BY <1>2, <1>3, <1>4, PTL DEF Spec
=============================================================================
