----------------------------- MODULE OpcPackage -----------------------------
(***************************************************************************)
(* The package of a PPTX or DOCX file (docray-ooxml, package.rs and        *)
(* relationships.rs).  Opening inspects what the central directory says of *)
(* each entry; reading inflates an entry, which may be larger or smaller   *)
(* than what was said, and keeps account of all that was read.             *)
(*                                                                         *)
(* A part's name is the sequence of its segments.  An entry is             *)
(* [name, unsafe, size, packed, real]: unsafe when the name starts with    *)
(* "/" or holds "..", size and packed as declared, real the bytes that     *)
(* come out, -1 when the stream is damaged, -2 when it cannot even be      *)
(* opened: its header is broken, or it is packed in a way or encrypted so  *)
(* that the ZIP library will not read it.                                  *)
(***************************************************************************)
EXTENDS Integers, Sequences, SequencesExt, FiniteSetsExt

CONSTANTS MaxEntries, MaxEntrySize, MaxTotalSize, MaxRatio

VARIABLES
    archive,    \* the entries
    opened,     \* "no", "yes", "refused"
    inspected,  \* how many entries were inspected
    total,      \* the declared sizes so far
    bytesRead,  \* Package.bytes_read
    delivered,  \* history: the bytes of the parts that were delivered
    broken      \* history: the cap was crossed by a read

package == <<archive, opened, inspected, total, bytesRead, delivered, broken>>

PackageInit(archives) ==
    /\ archive \in archives
    /\ opened = "no" /\ inspected = 0 /\ total = 0
    /\ bytesRead = 0 /\ delivered = 0 /\ broken = FALSE

Entry == archive[inspected + 1]

Inflates(e) == e.size > 0 /\ (e.packed = 0 \/ e.size > e.packed * MaxRatio)

\* What Package::open refuses at one entry; the sum cannot overflow a u64, since
\* the size of the entry was bounded before.
Refused(e, sum) ==
    \/ e.unsafe
    \/ \E i \in 1 .. inspected : archive[i].name = e.name
    \/ e.size > MaxEntrySize
    \/ sum > MaxTotalSize
    \/ Inflates(e)

OpenPackage ==
    /\ opened = "no"
    /\ IF Len(archive) > MaxEntries THEN opened' = "refused" /\ UNCHANGED <<inspected, total>>
       ELSE IF inspected = Len(archive) THEN opened' = "yes" /\ UNCHANGED <<inspected, total>>
       ELSE /\ total' = total + Entry.size
            /\ inspected' = inspected + 1
            /\ opened' = IF Refused(Entry, total') THEN "refused" ELSE "no"
    /\ UNCHANGED <<archive, bytesRead, delivered, broken>>

HasPart(name) == \E i \in DOMAIN archive : archive[i].name = name

Named(name) == archive[SelectInSeq(archive, LAMBDA e : e.name = name)]

\* by_name finds the entry and opens it.
Opens(name) == HasPart(name) /\ Named(name).real # -2

\* What is counted of a part: take() ends the reading one byte past the limit.
Inflated(e) == Min({e.real, MaxEntrySize + 1})

\* What is read is counted whether it fits or not.
Counted(n) == bytesRead + n

\* Package::read: what it returns, and what it leaves behind.  The second test
\* of the size is the one that counts: the first is of what was declared.  A
\* part that is there and cannot be opened is taken for one that is not there.
Outcome(name) ==
    IF ~ Opens(name) THEN "absent"
    ELSE LET e == Named(name)
         IN  IF e.size > MaxEntrySize \/ e.real = -1 \/ Inflated(e) > MaxEntrySize THEN "error"
             ELSE IF bytesRead + Inflated(e) > MaxTotalSize THEN "over" ELSE "ok"

Read(name) ==
    /\ LET n == IF Outcome(name) \in {"ok", "over"} THEN Inflated(Named(name)) ELSE 0
       IN  /\ bytesRead' = IF Outcome(name) \in {"ok", "over"} THEN Counted(n) ELSE bytesRead
           /\ delivered' = IF Outcome(name) = "ok" THEN delivered + n ELSE delivered
           /\ broken' = (broken \/ Outcome(name) = "over")
    /\ UNCHANGED <<archive, opened, inspected, total>>
-----------------------------------------------------------------------------
\* sniff_opc
Kind == IF HasPart(<<"ppt", "presentation.xml">>) THEN "pptx"
        ELSE IF HasPart(<<"word", "document.xml">>) THEN "docx" ELSE "other"

RelsPath(part) == Front(part) \o <<"_rels", Last(part) \o ".rels">>

\* A path that leads above the package stays at its root.
WalkClamped(path, segment) ==
    IF path = <<>> \/ segment \in {"", "."} THEN path
    ELSE IF segment # ".." THEN <<Append(path[1], segment)>>
    ELSE IF path[1] = <<>> THEN path ELSE <<Front(path[1])>>

\* resolve_target: a target is [absolute, segments]; "" stands for an empty
\* segment.  <<>> is the error, <<path>> the part.
Walk(path, segment) ==
    IF path = <<>> \/ segment \in {"", "."} THEN path
    ELSE IF segment # ".." THEN <<Append(path[1], segment)>>
    ELSE IF path[1] = <<>> THEN <<>> ELSE <<Front(path[1])>>

Folder(source, target) == IF target.absolute THEN <<>> ELSE Front(source)

ResolveTarget(source, target) ==
    LET walked[n \in 0 .. Len(target.segments)] ==
          IF n = 0 THEN <<Folder(source, target)>> ELSE Walk(walked[n - 1], target.segments[n])
    IN  walked[Len(target.segments)]

\* Relationships: of one id the last one counts, and of one kind the one with
\* the least id.
Relation(rels, id) ==
    LET named == {i \in DOMAIN rels : rels[i].id = id}
    IN  IF named = {} THEN <<>> ELSE <<rels[Max(named)]>>

FirstInternal(rels, kind) ==
    LET ids == {rels[i].id : i \in DOMAIN rels}
        found == {id \in ids : ~ Relation(rels, id)[1].external /\ Relation(rels, id)[1].kind = kind}
    IN  IF found = {} THEN <<>> ELSE Relation(rels, Min(found))
-----------------------------------------------------------------------------
\* The bytes that the first n entries declare, and what is asked of these entries.
Declared[n \in 0 .. Len(archive)] == IF n = 0 THEN 0 ELSE Declared[n - 1] + archive[n].size

Fits(n) ==
    \A i \in 1 .. n :
        /\ ~ archive[i].unsafe /\ archive[i].size <= MaxEntrySize
        /\ archive[i].size <= archive[i].packed * MaxRatio
        /\ \A j \in 1 .. n : archive[i].name = archive[j].name => i = j

(* An opened package declares no more than the limits allow and names each *)
(* part once, and one that was refused had a reason.  Whatever the archive *)
(* declared, the parts that are delivered stay within the limit in sum,    *)
(* and after the read that crosses it no part is delivered any more.       *)
PackageSound ==
    LET sane == /\ Len(archive) <= MaxEntries /\ Declared[Len(archive)] <= MaxTotalSize
                /\ Fits(Len(archive))
    IN  /\ opened = "yes" => sane
        /\ opened = "refused" => ~ sane
        /\ delivered <= MaxTotalSize
        /\ broken => bytesRead > MaxTotalSize
        /\ broken => \A i \in DOMAIN archive : Outcome(archive[i].name) # "ok"

\* A path, read segment by segment: how deep its first n segments lead, and the
\* segments that are not taken back later.
Plain(segment) == segment \notin {"", ".", ".."}
Depth(path, n) ==
    Cardinality({i \in 1 .. n : Plain(path[i])}) - Cardinality({i \in 1 .. n : path[i] = ".."})
Kept(path, n) ==
    {i \in 1 .. n : Plain(path[i]) /\ \A k \in i .. n : Depth(path, k) >= Depth(path, i)}

(* The part a target names is found the way a reader of paths would: its   *)
(* plain segments that are not taken back later, in their order, and an    *)
(* error exactly when some beginning of the path takes back more than      *)
(* there is.                                                               *)
TargetResolved(source, target) ==
    LET path == Folder(source, target) \o target.segments
        end  == Len(path)
    IN  IF \E n \in 1 .. end : Depth(path, n) < 0 THEN ResolveTarget(source, target) = <<>>
        ELSE \E at \in [1 .. Depth(path, end) -> 1 .. end] :
                /\ \A k, l \in DOMAIN at : k < l => at[k] < at[l]
                /\ {at[k] : k \in DOMAIN at} = Kept(path, end)
                /\ ResolveTarget(source, target) = <<[k \in DOMAIN at |-> path[at[k]]]>>
-----------------------------------------------------------------------------
\* What the steps keep, from which PackageSound follows: the entries that were
\* inspected fit, but for the one that refused the package; what was delivered
\* was counted.
PackageInv ==
    /\ opened \in {"no", "yes", "refused"}
    /\ inspected \in 0 .. Len(archive) /\ total = Declared[inspected]
    /\ inspected > 0 \/ opened = "yes" => Len(archive) <= MaxEntries
    /\ IF opened = "refused"
       THEN Len(archive) > MaxEntries \/ total > MaxTotalSize \/ ~ Fits(inspected)
       ELSE total <= MaxTotalSize /\ Fits(inspected)
    /\ opened = "yes" => inspected = Len(archive)
    /\ bytesRead \in Nat /\ delivered \in 0 .. bytesRead /\ delivered <= MaxTotalSize
    /\ broken \in BOOLEAN /\ (broken => bytesRead > MaxTotalSize)

\* The limits are numbers, and an archive is a sequence of entries, whose
\* names may be anything.
LimitsTyped == MaxEntries \in Nat /\ MaxEntrySize \in Nat /\ MaxTotalSize \in Nat /\ MaxRatio \in Nat
IsArchive(a) ==
    /\ Len(a) \in Nat /\ DOMAIN a = 1 .. Len(a)
    /\ \A i \in 1 .. Len(a) :
          /\ a[i].unsafe \in BOOLEAN /\ a[i].size \in Nat /\ a[i].packed \in Nat
          /\ a[i].real \in Int /\ a[i].real >= -2
=============================================================================
