-------------------------- MODULE FrontEndProofs ---------------------------
(***************************************************************************)
(* The ways into the program for every set of messages, every size of the  *)
(* window the PDF marker is looked for in, every width of page numbers and *)
(* every set of page texts.                                                *)
(***************************************************************************)
EXTENDS MCFrontEnds, ListProofs, TLAPS

(***************************************************************************)
(* The worker of the browser.                                              *)
(***************************************************************************)
(* The Rust module and the worker agree on what a PDF is, wherever the     *)
(* markers stand.                                                          *)
THEOREM SniffersAgree ==
    \A f \in BrowserFiles : Web!IsPdf(f) <=> Web!JsIsPdf(f)
<1> SUFFICES ASSUME NEW f \in BrowserFiles PROVE Web!IsPdf(f) <=> Web!JsIsPdf(f)
  OBVIOUS
<1> DEFINE found == {p \in f.marks : p + Marker <= Web!Lesser(f.len, Header + Marker - 1)}
<1>1. f.len \in Nat /\ f.marks \subseteq Nat
  BY WindowAssumption DEF BrowserFiles
<1>2. \A p \in f.marks : p \in found <=> p <= Web!Lesser(f.len - Marker, Header - 1)
  BY <1>1, WindowAssumption DEF Web!Lesser
<1>3. \A p \in found : p < Header
  BY <1>1, WindowAssumption DEF Web!Lesser
<1>4. found # {} => (CHOOSE p \in found : \A q \in found : p <= q) \in found
  <2>1. found \subseteq Nat
    BY <1>1
  <2> HIDE DEF found
  <2>2. QED
    BY <2>1, LeastOne
<1>5. Web!IsPdf(f) <=> found # {}
  BY <1>3, <1>4 DEF Web!IsPdf
<1>6. Web!JsIsPdf(f) <=> found # {}
  BY <1>2 DEF Web!JsIsPdf
<1>7. QED
  BY <1>5, <1>6

LEMMA WorkerStarts == FrontInit => WorkerInv
  BY DEF FrontInit, WorkerInv, WebInv, Web!Init, Idle

(* One reply, for a message that had none.                                 *)
LEMMA ReplyKept ==
    ASSUME WebInv, NEW i \in Ids, NEW is, at[i] # "done", Web!Reply(i, is)
    PROVE  /\ at' \in [Ids -> {"unsent", "queued", "wasm", "pdfium", "done"}]
           /\ \A k \in Ids : at'[k] = "pdfium" => at[k] = "pdfium"
           /\ \A k \in Ids : at'[k] = "done" => \E r \in replies' : r.id = k
           /\ \A r \in replies' : r.id \in Ids /\ at'[r.id] = "done"
           /\ \A r, q \in replies' : r.id = q.id => r = q
<1> DEFINE new == [id |-> i, is |-> is]
<1>1. new.id = i /\ replies' = replies \cup {new}
  BY DEF Web!Reply
<1> HIDE DEF new
<1>2. /\ at \in [Ids -> {"unsent", "queued", "wasm", "pdfium", "done"}]
      /\ at' = [at EXCEPT ![i] = "done"]
  BY DEF WebInv, Web!Reply
<1>3. \A r \in replies : r.id \in Ids /\ at[r.id] = "done"
  BY DEF WebInv
<1>4. \A r \in replies : r.id # i
  BY <1>3
<1>5. \A r \in replies' : r.id \in Ids /\ at'[r.id] = "done"
  BY <1>1, <1>2, <1>3
<1>6. \A r, q \in replies' : r.id = q.id => r = q
  BY <1>1, <1>4 DEF WebInv
<1>7. ASSUME NEW k \in Ids, at'[k] = "done" PROVE \E r \in replies' : r.id = k
  <2>1. CASE k = i
    BY <1>1, <2>1
  <2>2. CASE k # i
    BY <1>1, <1>2, <1>7, <2>2 DEF WebInv
  <2>3. QED
    BY <2>1, <2>2
<1>8. QED
  BY <1>2, <1>5, <1>6, <1>7

(* The extraction of a message that had no reply, with PDFium if it needs  *)
(* it.                                                                     *)
LEMMA ExtractKept ==
    ASSUME WebInv, NEW i \in Ids, at[i] # "done", Web!Extract(i),
           UNCHANGED <<pdfium, inits, file>>,
           Web!JsIsPdf(file[i]) => pdfium = "resolved"
    PROVE  WebInv'
<1>1. PICK is : Web!Reply(i, is)
  BY DEF Web!Extract
<1>2. \A c \in calls' : c.id \in Ids /\ (Web!JsIsPdf(file'[c.id]) => c.ready)
  <2> DEFINE new == [id |-> i, ready |-> pdfium = "resolved"]
  <2>1. new.id = i /\ (new.ready <=> pdfium = "resolved")
    OBVIOUS
  <2>2. calls' = calls \cup {new}
    BY DEF Web!Extract
  <2> HIDE DEF new
  <2>3. ASSUME NEW c \in calls' PROVE c.id \in Ids /\ (Web!JsIsPdf(file'[c.id]) => c.ready)
    <3>1. CASE c \in calls
      BY <3>1 DEF WebInv
    <3>2. CASE c = new
      BY <2>1, <3>2
    <3>3. QED
      BY <2>2, <3>1, <3>2
  <2>4. QED
    BY <2>3
<1>3. QED
  BY <1>1, <1>2, ReplyKept DEF WebInv

LEMMA WorkerSteps == WorkerInv /\ [FrontNext]_<<side, asked, web, extraction>> => WorkerInv'
<1> SUFFICES ASSUME side = "web", WebInv, Web!Next PROVE WebInv'
  BY DEF WorkerInv, FrontNext, web, WebInv
<1>1. ASSUME Web!Loads PROVE WebInv'
  BY <1>1 DEF WebInv, Web!Loads, Web!Settle, Web!SettlePdfium
<1>2. ASSUME NEW i \in Ids, Web!Send(i) PROVE WebInv'
  BY <1>2 DEF WebInv, Web!Send
<1>3. ASSUME NEW i \in Ids, Web!Handle(i) PROVE WebInv'
  BY <1>3 DEF WebInv, Web!Handle
<1>4. ASSUME NEW i \in Ids, Web!Resume(i) PROVE WebInv'
  <2>0. at[i] = "wasm" /\ UNCHANGED file
    BY <1>4 DEF Web!Resume
  <2>1. CASE Web!Reply(i, "crash") /\ UNCHANGED <<pdfium, inits, calls>>
    BY <2>0, <2>1, ReplyKept DEF WebInv
  <2>2. CASE /\ at' = [at EXCEPT ![i] = "pdfium"] /\ Web!StartPdfium
             /\ UNCHANGED <<replies, calls>>
    <3>1. pdfium' # "none" /\ inits' = 1
      BY <2>2 DEF WebInv, Web!StartPdfium
    <3>2. pdfium' \in {"none", "pending", "resolved", "rejected"}
      BY <2>2 DEF WebInv, Web!StartPdfium
    <3>3. QED
      BY <2>0, <2>2, <3>1, <3>2 DEF WebInv
  <2>3. CASE ~ Web!JsIsPdf(file[i]) /\ Web!Extract(i) /\ UNCHANGED <<pdfium, inits>>
    BY <2>0, <2>3, ExtractKept
  <2>4. QED
    BY <1>4, <2>1, <2>2, <2>3 DEF Web!Resume
<1>5. ASSUME NEW i \in Ids, Web!ResumePdf(i) PROVE WebInv'
  <2>0. at[i] = "pdfium" /\ UNCHANGED <<pdfium, inits, file>>
    BY <1>5 DEF Web!ResumePdf
  <2>1. CASE pdfium = "rejected"
    BY <1>5, <2>0, <2>1, ReplyKept DEF WebInv, Web!ResumePdf
  <2>2. CASE pdfium # "rejected"
    <3>1. pdfium = "resolved" /\ Web!Extract(i)
      BY <1>5, <2>2 DEF Web!ResumePdf, Web!Settled
    <3>2. QED
      BY <2>0, <3>1, ExtractKept
  <2>3. QED
    BY <2>1, <2>2
<1>6. QED
  BY <1>1, <1>2, <1>3, <1>4, <1>5 DEF Web!Next, Web!Loop

(* One reply is one element.                                               *)
LEMMA RepliesCounted == WorkerInv => PdfiumReady
<1> SUFFICES ASSUME side = "web", WebInv PROVE Web!PdfiumReady /\ Web!AnsweredOnce
  BY DEF WorkerInv, PdfiumReady
<1>1. Web!PdfiumReady
  BY SniffersAgree DEF WebInv, Web!PdfiumReady
<1>2. ASSUME NEW i \in Ids, at[i] = "done"
      PROVE  Cardinality({r \in replies : r.id = i}) = 1
  <2>1. PICK r \in replies : r.id = i
    BY <1>2 DEF WebInv
  <2>2. {q \in replies : q.id = i} = {r}
    BY <2>1 DEF WebInv
  <2>3. QED
    BY <2>2, FS_Singleton
<1>3. \A r \in replies : at[r.id] = "done"
  BY DEF WebInv
<1>4. Web!AnsweredOnce
  <2>1. \A i \in Ids : at[i] = "done" => Cardinality({r \in replies : r.id = i}) = 1
    BY <1>2
  <2>2. QED
    BY <1>3, <2>1, Zenon DEF Web!AnsweredOnce, Web!Cardinality, Cardinality
<1>5. QED
  BY <1>1, <1>4

(* However the handlers interleave at their awaits, PDFium is started once,*)
(* a PDF is extracted only when it is ready, and a message is answered     *)
(* once.                                                                   *)
THEOREM PdfiumAlwaysReady == FrontSpec => []PdfiumReady
<1>1. FrontSpec => []WorkerInv
  BY WorkerStarts, WorkerSteps, PTL DEF FrontSpec
<1>2. QED
  BY <1>1, RepliesCounted, PTL

(***************************************************************************)
(* The checks of the ways, in their order.                                 *)
(***************************************************************************)
Fails(s, i) == s[i][1]

(* The first of the checks that fails decides, and no check that fails     *)
(* lets through.                                                           *)
LEMMA FirstDecides ==
    ASSUME NEW s, NEW n \in Nat, DOMAIN s = 1 .. n, NEW o
    PROVE  \/ FirstOf(s, o) = o /\ \A i \in 1 .. n : ~ Fails(s, i)
           \/ \E i \in 1 .. n :
                 /\ Fails(s, i) /\ FirstOf(s, o) = Error(s[i][2])
                 /\ \A k \in 1 .. n : k < i => ~ Fails(s, k)
<1> DEFINE failed == {i \in DOMAIN s : s[i][1]}
<1>1. FirstOf(s, o) = IF failed = {} THEN o ELSE Error(s[Min(failed)][2])
  BY DEF FirstOf
<1>2. failed \in SUBSET Nat /\ \A i \in 1 .. n : i \in failed <=> Fails(s, i)
  BY DEF Fails
<1>3. failed \subseteq 1 .. n
  OBVIOUS
<1> HIDE DEF failed
<1>4. CASE failed = {}
  BY <1>1, <1>2, <1>4
<1>5. CASE failed # {}
  <2>1. Min(failed) \in failed /\ \A k \in failed : Min(failed) <= k
    BY <1>2, <1>5, MinIsLeast
  <2>2. Min(failed) \in Nat
    BY <1>2, <2>1
  <2>3. ASSUME NEW k \in 1 .. n, k < Min(failed) PROVE ~ Fails(s, k)
    <3>1. ~ (Min(failed) <= k)
      BY <2>2, <2>3
    <3>2. QED
      BY <1>2, <2>1, <3>1
  <2>4. QED
    BY <1>1, <1>2, <1>3, <1>5, <2>1, <2>3
<1>6. QED
  BY <1>4, <1>5

(* The extractors, one check after the other.                              *)
LEMMA BackendInOrder ==
    ASSUME NEW q, NEW sel, NEW limit, NEW o
    PROVE  Backend(q, sel, limit, o) =
             IF q.input = "pdf"
             THEN IF q.document.broken # "no" THEN Error(q.document.broken)
                  ELSE IF sel # <<>> /\ sel[1].end > q.document.pages THEN Error("page_out_of_range")
                  ELSE IF Beyond(q.document, sel, limit) THEN Error("too_many_pages") ELSE o
             ELSE IF sel # <<>> THEN Error("page_selection_unsupported")
                  ELSE IF q.input = "cfb" THEN Error("unsupported_format")
                  ELSE IF q.document.broken # "no" THEN Error("parse_failure")
                  ELSE IF Beyond(q.document, sel, limit) THEN Error("too_many_pages") ELSE o
<1>1. CASE q.input = "pdf"
  <2> DEFINE s == <<<<q.document.broken # "no", q.document.broken>>,
                   <<sel # <<>> /\ sel[1].end > q.document.pages, "page_out_of_range">>,
                   <<Beyond(q.document, sel, limit), "too_many_pages">>>>
  <2>1. /\ DOMAIN s = 1 .. 3
        /\ s[1][2] = q.document.broken /\ s[2][2] = "page_out_of_range"
        /\ s[3][2] = "too_many_pages"
    OBVIOUS
  <2>2. /\ Fails(s, 1) <=> q.document.broken # "no"
        /\ Fails(s, 2) <=> sel # <<>> /\ sel[1].end > q.document.pages
        /\ Fails(s, 3) <=> Beyond(q.document, sel, limit)
    BY DEF Fails
  <2>3. Backend(q, sel, limit, o) = FirstOf(s, o)
    BY <1>1 DEF Backend
  <2> HIDE DEF s
  <2>4. \/ FirstOf(s, o) = o /\ \A i \in 1 .. 3 : ~ Fails(s, i)
        \/ \E i \in 1 .. 3 :
              /\ Fails(s, i) /\ FirstOf(s, o) = Error(s[i][2])
              /\ \A k \in 1 .. 3 : k < i => ~ Fails(s, k)
    BY <2>1, FirstDecides
  <2>5. QED
    BY <1>1, <2>1, <2>2, <2>3, <2>4
<1>2. CASE q.input # "pdf"
  <2> DEFINE s == <<<<sel # <<>>, "page_selection_unsupported">>,
                   <<q.input = "cfb", "unsupported_format">>,
                   <<q.document.broken # "no", "parse_failure">>,
                   <<Beyond(q.document, sel, limit), "too_many_pages">>>>
  <2>1. /\ DOMAIN s = 1 .. 4
        /\ s[1][2] = "page_selection_unsupported" /\ s[2][2] = "unsupported_format"
        /\ s[3][2] = "parse_failure" /\ s[4][2] = "too_many_pages"
    OBVIOUS
  <2>2. /\ Fails(s, 1) <=> sel # <<>>
        /\ Fails(s, 2) <=> q.input = "cfb"
        /\ Fails(s, 3) <=> q.document.broken # "no"
        /\ Fails(s, 4) <=> Beyond(q.document, sel, limit)
    BY DEF Fails
  <2>3. Backend(q, sel, limit, o) = FirstOf(s, o)
    BY <1>2 DEF Backend
  <2> HIDE DEF s
  <2>4. \/ FirstOf(s, o) = o /\ \A i \in 1 .. 4 : ~ Fails(s, i)
        \/ \E i \in 1 .. 4 :
              /\ Fails(s, i) /\ FirstOf(s, o) = Error(s[i][2])
              /\ \A k \in 1 .. 4 : k < i => ~ Fails(s, k)
    BY <2>1, FirstDecides
  <2>5. QED
    BY <1>2, <2>1, <2>2, <2>3, <2>4
<1>3. QED
  BY <1>1, <1>2

(* requested_output, one check after the other.                            *)
LEMMA RefusalInOrder ==
    ASSUME NEW q
    PROVE  Refusal(q) =
             IF q.level = "bad" THEN Error("bad_granularity")
             ELSE IF q.format = "bad" THEN Error("bad_format")
             ELSE IF q.classify /\ q.format # "json" THEN Error("bad_format")
             ELSE IF PagesBad(q.pages) THEN Error("bad_pages")
             ELSE IF Reading(q.format) /\ q.level = "char" THEN Error("bad_format") ELSE <<>>
<1> DEFINE s == <<<<q.level = "bad", "bad_granularity">>,
                  <<q.format = "bad", "bad_format">>,
                  <<q.classify /\ q.format # "json", "bad_format">>,
                  <<PagesBad(q.pages), "bad_pages">>,
                  <<Reading(q.format) /\ q.level = "char", "bad_format">>>>
<1>1. /\ DOMAIN s = 1 .. 5
      /\ s[1][2] = "bad_granularity" /\ s[2][2] = "bad_format" /\ s[3][2] = "bad_format"
      /\ s[4][2] = "bad_pages" /\ s[5][2] = "bad_format"
  OBVIOUS
<1>2. /\ Fails(s, 1) <=> q.level = "bad"
      /\ Fails(s, 2) <=> q.format = "bad"
      /\ Fails(s, 3) <=> q.classify /\ q.format # "json"
      /\ Fails(s, 4) <=> PagesBad(q.pages)
      /\ Fails(s, 5) <=> Reading(q.format) /\ q.level = "char"
  BY DEF Fails
<1>3. Refusal(q) = FirstOf(s, <<>>)
  BY DEF Refusal
<1> HIDE DEF s
<1>4. \/ FirstOf(s, <<>>) = <<>> /\ \A i \in 1 .. 5 : ~ Fails(s, i)
      \/ \E i \in 1 .. 5 :
            /\ Fails(s, i) /\ FirstOf(s, <<>>) = Error(s[i][2])
            /\ \A k \in 1 .. 5 : k < i => ~ Fails(s, k)
  BY <1>1, FirstDecides
<1>5. QED
  BY <1>1, <1>2, <1>3, <1>4

(* run_extract, one check after the other.                                 *)
LEMMA CliInOrder ==
    ASSUME NEW q, NEW limit
    PROVE  Cli(q, limit) =
             IF q.level = "bad" THEN Error("usage")
             ELSE IF q.format = "bad" THEN Error("bad_format")
             ELSE IF q.classify /\ q.format # "json" THEN Error("bad_format")
             ELSE IF Reading(q.format) /\ q.level = "char" THEN Error("bad_format")
             ELSE IF q.input = "missing" THEN Error("io_error")
             ELSE IF q.input = "badzip" THEN Error("parse_failure")
             ELSE IF q.input \in {"zip", "other"} THEN Error("unsupported_format")
             ELSE IF PagesBad(q.pages) THEN Error("bad_pages")
             ELSE IF Unavailable(q.input, CliLevel(q)) THEN Error("granularity_unavailable")
             ELSE Backend(q, Selection(q.pages), limit,
                          Rendered(q.input, CliLevel(q), q.format, q.classify))
<1> DEFINE s == <<<<q.level = "bad", "usage">>,
                  <<q.format = "bad", "bad_format">>,
                  <<q.classify /\ q.format # "json", "bad_format">>,
                  <<Reading(q.format) /\ q.level = "char", "bad_format">>,
                  <<q.input = "missing", "io_error">>,
                  Sniffed(q.input), NoBackend(q.input),
                  <<PagesBad(q.pages), "bad_pages">>,
                  <<Unavailable(q.input, CliLevel(q)), "granularity_unavailable">>>>
           o == Backend(q, Selection(q.pages), limit,
                        Rendered(q.input, CliLevel(q), q.format, q.classify))
<1>1. /\ DOMAIN s = 1 .. 9
      /\ s[1][2] = "usage" /\ s[2][2] = "bad_format" /\ s[3][2] = "bad_format"
      /\ s[4][2] = "bad_format" /\ s[5][2] = "io_error" /\ s[6][2] = "parse_failure"
      /\ s[7][2] = "unsupported_format" /\ s[8][2] = "bad_pages"
      /\ s[9][2] = "granularity_unavailable"
  BY DEF Sniffed, NoBackend
<1>2. /\ Fails(s, 1) <=> q.level = "bad"
      /\ Fails(s, 2) <=> q.format = "bad"
      /\ Fails(s, 3) <=> q.classify /\ q.format # "json"
      /\ Fails(s, 4) <=> Reading(q.format) /\ q.level = "char"
      /\ Fails(s, 5) <=> q.input = "missing"
      /\ Fails(s, 6) <=> q.input = "badzip"
      /\ Fails(s, 7) <=> q.input \in {"zip", "other"}
      /\ Fails(s, 8) <=> PagesBad(q.pages)
      /\ Fails(s, 9) <=> Unavailable(q.input, CliLevel(q))
  BY DEF Fails, Sniffed, NoBackend
<1>3. Cli(q, limit) = FirstOf(s, o)
  BY DEF Cli
<1> HIDE DEF s, o
<1>4. \/ FirstOf(s, o) = o /\ \A i \in 1 .. 9 : ~ Fails(s, i)
      \/ \E i \in 1 .. 9 :
            /\ Fails(s, i) /\ FirstOf(s, o) = Error(s[i][2])
            /\ \A k \in 1 .. 9 : k < i => ~ Fails(s, k)
  BY <1>1, FirstDecides
<1>5. QED
  BY <1>1, <1>2, <1>3, <1>4 DEF o

(* The Rust module of the browser, one check after the other.              *)
LEMMA WasmInOrder ==
    ASSUME NEW q, NEW f
    PROVE  Wasm(q, f) =
             IF f = "large" THEN Error("too_large")
             ELSE IF Reading(q.format) /\ q.level \in {"char", "bad"} THEN Error("bad_format")
             ELSE IF q.level = "bad" THEN Error("parse_failure")
             ELSE IF q.input = "badzip" THEN Error("parse_failure")
             ELSE IF q.input \in {"zip", "other"} THEN Error("unsupported_format")
             ELSE IF q.input # "cfb" /\ Unavailable(q.input, WasmLevel(q))
             THEN Error("granularity_unavailable")
             ELSE Capped(Backend(q, <<>>, <<>>,
                                 Rendered(q.input, WasmLevel(q), q.format, q.classify)), f)
<1> DEFINE s == <<<<f = "large", "too_large">>,
                  <<Reading(q.format) /\ q.level \in {"char", "bad"}, "bad_format">>,
                  <<q.level = "bad", "parse_failure">>,
                  Sniffed(q.input), NoBackend(q.input),
                  <<q.input # "cfb" /\ Unavailable(q.input, WasmLevel(q)), "granularity_unavailable">>>>
           o == Capped(Backend(q, <<>>, <<>>,
                               Rendered(q.input, WasmLevel(q), q.format, q.classify)), f)
<1>1. /\ DOMAIN s = 1 .. 6
      /\ s[1][2] = "too_large" /\ s[2][2] = "bad_format" /\ s[3][2] = "parse_failure"
      /\ s[4][2] = "parse_failure" /\ s[5][2] = "unsupported_format"
      /\ s[6][2] = "granularity_unavailable"
  BY DEF Sniffed, NoBackend
<1>2. /\ Fails(s, 1) <=> f = "large"
      /\ Fails(s, 2) <=> Reading(q.format) /\ q.level \in {"char", "bad"}
      /\ Fails(s, 3) <=> q.level = "bad"
      /\ Fails(s, 4) <=> q.input = "badzip"
      /\ Fails(s, 5) <=> q.input \in {"zip", "other"}
      /\ Fails(s, 6) <=> q.input # "cfb" /\ Unavailable(q.input, WasmLevel(q))
  BY DEF Fails, Sniffed, NoBackend
<1>3. Wasm(q, f) = FirstOf(s, o)
  BY DEF Wasm
<1> HIDE DEF s, o
<1>4. \/ FirstOf(s, o) = o /\ \A i \in 1 .. 6 : ~ Fails(s, i)
      \/ \E i \in 1 .. 6 :
            /\ Fails(s, i) /\ FirstOf(s, o) = Error(s[i][2])
            /\ \A k \in 1 .. 6 : k < i => ~ Fails(s, k)
  BY <1>1, FirstDecides
<1>5. QED
  BY <1>1, <1>2, <1>3, <1>4 DEF o

(* run_extraction, one failure after the other.                            *)
LEMMA ChildInOrder ==
    ASSUME NEW q, NEW limit, NEW f
    PROVE  Child(q, limit, f) =
             IF f = "io" THEN Error("io_error")
             ELSE IF f = "timeout" THEN Error("timeout")
             ELSE IF f = "killed" \/ Cli(q, limit) = Panic THEN Error("crash")
             ELSE IF f = "bulky" /\ IsOutput(Cli(q, limit)) THEN Error("output_too_large")
             ELSE IF Cli(q, limit) = Error("usage") THEN Error("exit_2") ELSE Cli(q, limit)
<1> DEFINE dies == f = "killed" \/ Cli(q, limit) = Panic
           over == f = "bulky" /\ IsOutput(Cli(q, limit))
           s == <<<<f = "io", "io_error">>,
                  <<f = "timeout", "timeout">>,
                  <<dies, "crash">>,
                  <<over, "output_too_large">>,
                  <<Cli(q, limit) = Error("usage"), "exit_2">>>>
           o == Cli(q, limit)
<1>0. dies \in BOOLEAN /\ over \in BOOLEAN
  OBVIOUS
<1>3. Child(q, limit, f) = FirstOf(s, o)
  BY DEF Child
<1> HIDE DEF dies, over
<1>1. /\ DOMAIN s = 1 .. 5
      /\ s[1][2] = "io_error" /\ s[2][2] = "timeout" /\ s[3][2] = "crash"
      /\ s[4][2] = "output_too_large" /\ s[5][2] = "exit_2"
  OBVIOUS
<1>2. /\ Fails(s, 1) <=> f = "io"
      /\ Fails(s, 2) <=> f = "timeout"
      /\ Fails(s, 3) <=> dies
      /\ Fails(s, 4) <=> over
      /\ Fails(s, 5) <=> Cli(q, limit) = Error("usage")
  BY <1>0 DEF Fails
<1> HIDE DEF s, o
<1>4. \/ FirstOf(s, o) = o /\ \A i \in 1 .. 5 : ~ Fails(s, i)
      \/ \E i \in 1 .. 5 :
            /\ Fails(s, i) /\ FirstOf(s, o) = Error(s[i][2])
            /\ \A k \in 1 .. 5 : k < i => ~ Fails(s, k)
  BY <1>1, FirstDecides
<1>5. QED
  BY <1>1, <1>2, <1>3, <1>4 DEF o, dies, over

(* The synchronous route, one failure after the other.                     *)
LEMMA SyncInOrder ==
    ASSUME NEW q, NEW f
    PROVE  Sync(q, f) =
             IF Refusal(q) # <<>> THEN Refusal(q)
             ELSE IF q.input = "missing" THEN Error("missing_file")
             ELSE IF f = "large" THEN Error("too_large")
             ELSE IF f = "disk" THEN Error("io_error") ELSE Child(Options(q), <<SyncLimit>>, f)
<1> DEFINE s == <<<<q.input = "missing", "missing_file">>, <<f = "large", "too_large">>,
                  <<f = "disk", "io_error">>>>
           o == Child(Options(q), <<SyncLimit>>, f)
<1>1. DOMAIN s = 1 .. 3 /\ s[1][2] = "missing_file" /\ s[2][2] = "too_large" /\ s[3][2] = "io_error"
  OBVIOUS
<1>2. /\ Fails(s, 1) <=> q.input = "missing"
      /\ Fails(s, 2) <=> f = "large"
      /\ Fails(s, 3) <=> f = "disk"
  BY DEF Fails
<1>3. Sync(q, f) = IF Refusal(q) # <<>> THEN Refusal(q) ELSE FirstOf(s, o)
  BY DEF Sync
<1> HIDE DEF s, o
<1>4. \/ FirstOf(s, o) = o /\ \A i \in 1 .. 3 : ~ Fails(s, i)
      \/ \E i \in 1 .. 3 :
            /\ Fails(s, i) /\ FirstOf(s, o) = Error(s[i][2])
            /\ \A k \in 1 .. 3 : k < i => ~ Fails(s, k)
  BY <1>1, FirstDecides
<1>5. QED
  BY <1>1, <1>2, <1>3, <1>4 DEF o

(* create_job, one failure after the other.                                *)
LEMMA CreateInOrder ==
    ASSUME NEW q, NEW f
    PROVE  Create(q, f) =
             IF Refusal(q) # <<>> THEN Refusal(q)
             ELSE IF f = "disk" THEN Error("io_error")
             ELSE IF q.input = "missing" THEN Error("missing_file")
             ELSE IF f = "large" THEN Error("too_large")
             ELSE IF f = "store" THEN Error("store_error") ELSE <<>>
<1> DEFINE s == <<<<f = "disk", "io_error">>, <<q.input = "missing", "missing_file">>,
                  <<f = "large", "too_large">>, <<f = "store", "store_error">>>>
<1>1. /\ DOMAIN s = 1 .. 4
      /\ s[1][2] = "io_error" /\ s[2][2] = "missing_file" /\ s[3][2] = "too_large"
      /\ s[4][2] = "store_error"
  OBVIOUS
<1>2. /\ Fails(s, 1) <=> f = "disk"
      /\ Fails(s, 2) <=> q.input = "missing"
      /\ Fails(s, 3) <=> f = "large"
      /\ Fails(s, 4) <=> f = "store"
  BY DEF Fails
<1>3. Create(q, f) = IF Refusal(q) # <<>> THEN Refusal(q) ELSE FirstOf(s, <<>>)
  BY DEF Create
<1> HIDE DEF s
<1>4. \/ FirstOf(s, <<>>) = <<>> /\ \A i \in 1 .. 4 : ~ Fails(s, i)
      \/ \E i \in 1 .. 4 :
            /\ Fails(s, i) /\ FirstOf(s, <<>>) = Error(s[i][2])
            /\ \A k \in 1 .. 4 : k < i => ~ Fails(s, k)
  BY <1>1, FirstDecides
<1>5. QED
  BY <1>1, <1>2, <1>3, <1>4

(***************************************************************************)
(* Page selections.                                                        *)
(***************************************************************************)
(* A text that parses is a selection; the text it is handed on as parses   *)
(* to the same one.                                                        *)
THEOREM SelectionsRoundTrip ==
    \A t \in Seq(Int) : Parses(t) =>
        /\ Parsed(t) \in PageSelections
        /\ Parses(ToText(Parsed(t))) /\ Parsed(ToText(Parsed(t))) = Parsed(t)
<1> SUFFICES ASSUME NEW t \in Seq(Int), Parses(t)
             PROVE  /\ Parsed(t) \in PageSelections
                    /\ Parses(ToText(Parsed(t))) /\ Parsed(ToText(Parsed(t))) = Parsed(t)
  OBVIOUS
<1> DEFINE a == t[1]
           b == t[Len(t)]
<1>1. a \in 1 .. MaxU32 /\ b \in 1 .. MaxU32 /\ a <= b
  BY DEF Parses, ParsePage
<1>2. Parsed(t) = [start |-> a, end |-> b]
  BY DEF Parsed
<1> HIDE DEF a, b
<1>3. Parsed(t) \in PageSelections
  BY <1>1, <1>2 DEF PageSelections
<1>4. ToText(Parsed(t)) = <<a, b>>
  BY <1>2 DEF ToText
<1>5. Parses(<<a, b>>)
  BY <1>1 DEF Parses, ParsePage
<1>6. Parsed(<<a, b>>) = [start |-> a, end |-> b]
  BY DEF Parsed
<1>7. QED
  BY <1>2, <1>3, <1>4, <1>5, <1>6

(* The number of pages of a selection fits u32, whatever its ends.         *)
THEOREM CountsAreExact ==
    \A s \in PageSelections : Count(s) = s.end - s.start + 1 /\ Count(s) \in 1 .. MaxU32
<1> SUFFICES ASSUME NEW s \in PageSelections
             PROVE  Count(s) = s.end - s.start + 1 /\ Count(s) \in 1 .. MaxU32
  OBVIOUS
<1> DEFINE n == s.end - s.start + 1
<1>1. n \in 1 .. MaxU32
  BY WidthAssumption DEF PageSelections
<1> HIDE DEF n
<1>2. n % (MaxU32 + 1) = n
  BY <1>1, WidthAssumption
<1>3. QED
  BY <1>1, <1>2 DEF Count, n

(***************************************************************************)
(* The answers of the ways.                                                *)
(***************************************************************************)
(* The kinds of answers are told apart, and errors by their codes.         *)
LEMMA AnswersDiffer ==
    /\ \A c, d : Error(c) = Error(d) => c = d
    /\ \A c : Error(c) # Panic /\ Error(c) # <<>> /\ Error(c)[1].is = "error"
    /\ \A l, f, k : /\ Output(l, f, k) # <<>> /\ Output(l, f, k) # Panic
                    /\ Output(l, f, k)[1].is = "output"
                    /\ \A c : Output(l, f, k) # Error(c)
<1>1. ASSUME NEW c, NEW d, Error(c) = Error(d) PROVE c = d
  <2>1. Error(c)[1].code = c /\ Error(d)[1].code = d
    BY DEF Error
  <2>2. QED
    BY <1>1, <2>1
<1>2. Panic[1].is = "panic" /\ Panic # <<>>
  BY DEF Panic
<1>3. \A c : Error(c)[1].is = "error" /\ Error(c) # <<>>
  BY DEF Error
<1>4. \A l, f, k : Output(l, f, k)[1].is = "output" /\ Output(l, f, k) # <<>>
  BY DEF Output
<1>5. QED
  BY <1>1, <1>2, <1>3, <1>4

Reasons == {"bad_format", "io_error", "parse_failure", "unsupported_format", "bad_pages",
          "granularity_unavailable", "page_out_of_range", "too_many_pages", "encrypted_pdf",
          "page_selection_unsupported"}

DocumentOK(q) == q.document.broken \in {"no", "encrypted_pdf", "parse_failure"}

LEMMA RequestsReadable == \A q \in Requests : DocumentOK(q)
  BY DEF Requests, Documents, DocumentOK

(* The extractors fail with a code of theirs, or go on.                    *)
LEMMA BackendOutcome ==
    ASSUME NEW q, DocumentOK(q), NEW sel, NEW limit, NEW o
    PROVE  \/ Backend(q, sel, limit, o) = o
           \/ \E c \in Reasons \ {"bad_format", "bad_pages"} : Backend(q, sel, limit, o) = Error(c)
  BY BackendInOrder DEF DocumentOK, Reasons

(* The command line gives an output or an error with a code, unless its    *)
(* parser refuses the level: no expect and no unreachable! is reached.     *)
LEMMA CliOutcome ==
    ASSUME NEW q \in Requests, NEW limit, q.level # "bad"
    PROVE  \/ \E l, f, k : Cli(q, limit) = Output(l, f, k)
           \/ \E c \in Reasons : Cli(q, limit) = Error(c)
<1> DEFINE o == Rendered(q.input, CliLevel(q), q.format, q.classify)
           b == Backend(q, Selection(q.pages), limit, o)
<1>1. \/ \E c \in Reasons : Cli(q, limit) = Error(c)
      \/ /\ Cli(q, limit) = b
         /\ ~ (Reading(q.format) /\ q.level = "char")
         /\ ~ Unavailable(q.input, CliLevel(q))
  <2> HIDE DEF b
  <2>1. Cli(q, limit) = b \/ \E c \in Reasons : Cli(q, limit) = Error(c)
    BY CliInOrder DEF Reasons, b
  <2>2. CASE Reading(q.format) /\ q.level = "char"
    <3>1. Cli(q, limit) = Error("bad_format")
      BY CliInOrder, <2>2
    <3>2. QED
      BY <3>1 DEF Reasons
  <2>3. CASE Unavailable(q.input, CliLevel(q))
    BY CliInOrder, <2>3 DEF Reasons
  <2>4. QED
    BY <2>1, <2>2, <2>3
<1>2. ASSUME ~ (Reading(q.format) /\ q.level = "char"), ~ Unavailable(q.input, CliLevel(q))
      PROVE  \E l, f, k : o = Output(l, f, k)
  <2>1. q.level \in Levels
    BY DEF Requests
  <2>2. ~ (q.format = "lean" /\ CliLevel(q) \in {"none", "char"})
    BY <1>2, <2>1 DEF CliLevel, Reading
  <2>3. ~ (q.input = "docx" /\ q.format # "md" /\ CliLevel(q) # "element")
    BY <1>2, <2>1 DEF CliLevel, Reading, Finest, Rank, Unavailable, Levels
  <2>4. QED
    BY <2>2, <2>3 DEF Rendered
<1>3. b = o \/ \E c \in Reasons : b = Error(c)
  BY BackendOutcome, RequestsReadable
<1>4. QED
  BY <1>1, <1>2, <1>3

(* The options that are handed on select the same pages, level and format: *)
(* the command line they are given to answers as if given the request.     *)
LEMMA OptionsHandedOn ==
    ASSUME NEW q \in Requests, NEW limit, Refusal(q) = <<>>
    PROVE  /\ Options(q).pages # <<>> => Parses(Options(q).pages[1])
           /\ Cli(Options(q), limit) = Cli(q, limit)
<1> DEFINE p == Options(q)
           pages == IF q.pages = <<>> THEN <<>> ELSE <<ToText(Parsed(q.pages[1]))>>
           level == IF Reading(q.format) /\ q.level = "none" THEN "element" ELSE q.level
<1>1. /\ q.level # "bad" /\ q.format # "bad" /\ ~ (q.classify /\ q.format # "json")
      /\ ~ PagesBad(q.pages) /\ ~ (Reading(q.format) /\ q.level = "char")
  BY RefusalInOrder, AnswersDiffer
<1>2. /\ q.input \in Inputs /\ q.level \in Levels /\ q.format \in Formats
      /\ q.classify \in BOOLEAN
      /\ q.pages \in {<<>>} \cup {<<t>> : t \in Texts}
  BY DEF Requests
<1>3. /\ p = [q EXCEPT !.level = level, !.pages = pages]
      /\ p.input = q.input /\ p.format = q.format /\ p.classify = q.classify
      /\ p.level = level /\ p.pages = pages
      /\ p.document = q.document
  BY DEF Requests, Options
<1> HIDE DEF p
<1>4. level \in Levels /\ level # "bad"
  BY <1>1, <1>2 DEF Levels
<1>5. q.pages # <<>> => q.pages[1] \in Seq(Int) /\ Parses(q.pages[1])
  BY <1>1, <1>2, TextsAssumption DEF PagesBad
<1>6. /\ ~ PagesBad(pages) /\ Selection(pages) = Selection(q.pages)
      /\ pages # <<>> => Parses(pages[1])
  <2>1. CASE q.pages = <<>>
    BY <2>1 DEF PagesBad, Selection
  <2>2. CASE q.pages # <<>>
    <3>1. pages # <<>> /\ pages[1] = ToText(Parsed(q.pages[1]))
      BY <2>2
    <3>2. Parses(pages[1]) /\ Parsed(pages[1]) = Parsed(q.pages[1])
      BY <1>5, <2>2, <3>1, SelectionsRoundTrip
    <3> HIDE DEF pages
    <3>3. QED
      BY <1>1, <2>2, <3>1, <3>2 DEF PagesBad, Selection
  <2>3. QED
    BY <2>1, <2>2
<1>7. CliLevel(p) = CliLevel(q)
  BY <1>3 DEF CliLevel
<1>8. Cli(p, limit) = Cli(q, limit)
  <2> DEFINE Go(r) == IF r.input = "missing" THEN Error("io_error")
                      ELSE IF r.input = "badzip" THEN Error("parse_failure")
                      ELSE IF r.input \in {"zip", "other"} THEN Error("unsupported_format")
                      ELSE IF PagesBad(r.pages) THEN Error("bad_pages")
                      ELSE IF Unavailable(r.input, CliLevel(r)) THEN Error("granularity_unavailable")
                      ELSE Backend(r, Selection(r.pages), limit,
                                   Rendered(r.input, CliLevel(r), r.format, r.classify))
  <2>1. Cli(q, limit) = Go(q)
    BY <1>1, CliInOrder
  <2>2. ~ (Reading(p.format) /\ p.level = "char")
    BY <1>1, <1>3
  <2>3. Cli(p, limit) = Go(p)
    <3> HIDE DEF pages, level
    <3>1. QED
      BY <1>1, <1>3, <1>4, <2>2, CliInOrder
  <2>4. Go(p) = Go(q)
    <3> HIDE DEF pages, level
    <3>1. ASSUME NEW sel, NEW o PROVE Backend(p, sel, limit, o) = Backend(q, sel, limit, o)
      <4>1. p.input = q.input /\ p.document = q.document
        BY <1>3
      <4>2. Beyond(p.document, sel, limit) <=> Beyond(q.document, sel, limit)
        BY <4>1
      <4>3. QED
        BY <4>1, <4>2, BackendInOrder
    <3>2. Selection(p.pages) = Selection(q.pages) /\ (PagesBad(p.pages) <=> PagesBad(q.pages))
      BY <1>1, <1>3, <1>6
    <3>3. /\ Rendered(p.input, CliLevel(p), p.format, p.classify)
               = Rendered(q.input, CliLevel(q), q.format, q.classify)
          /\ Unavailable(p.input, CliLevel(p)) <=> Unavailable(q.input, CliLevel(q))
      BY <1>3, <1>7
    <3> DEFINE last(r) == Backend(r, Selection(r.pages), limit,
                                  Rendered(r.input, CliLevel(r), r.format, r.classify))
    <3>4. last(p) = last(q)
      BY <3>1, <3>2, <3>3
    <3> HIDE DEF last
    <3>5. \A r : Go(r) = IF r.input = "missing" THEN Error("io_error")
                         ELSE IF r.input = "badzip" THEN Error("parse_failure")
                         ELSE IF r.input \in {"zip", "other"} THEN Error("unsupported_format")
                         ELSE IF PagesBad(r.pages) THEN Error("bad_pages")
                         ELSE IF Unavailable(r.input, CliLevel(r)) THEN Error("granularity_unavailable")
                         ELSE last(r)
      BY DEF last
    <3> HIDE DEF Go
    <3>6. QED
      BY <1>3, <3>2, <3>3, <3>4, <3>5
  <2>5. QED
    BY <2>1, <2>3, <2>4
<1>9. QED
  BY <1>3, <1>6, <1>8 DEF p

(* What the server lets through, the command line answers with an output   *)
(* or one of the structured errors.                                        *)
LEMMA LetThrough ==
    ASSUME NEW q \in Requests, NEW limit, Refusal(q) = <<>>
    PROVE  \/ \E l, f, k : Cli(q, limit) = Output(l, f, k)
           \/ \E c \in Reasons \ {"bad_format", "bad_pages"} : Cli(q, limit) = Error(c)
<1>1. /\ q.level # "bad" /\ q.format # "bad" /\ ~ (q.classify /\ q.format # "json")
      /\ ~ PagesBad(q.pages) /\ ~ (Reading(q.format) /\ q.level = "char")
  BY RefusalInOrder, AnswersDiffer
<1>2. \/ \E l, f, k : Cli(q, limit) = Output(l, f, k)
      \/ \E c \in Reasons : Cli(q, limit) = Error(c)
  BY <1>1, CliOutcome
<1>3. Cli(q, limit) # Error("bad_format") /\ Cli(q, limit) # Error("bad_pages")
  <2> DEFINE o == Rendered(q.input, CliLevel(q), q.format, q.classify)
             b == Backend(q, Selection(q.pages), limit, o)
  <2>1. \/ Cli(q, limit) = b
        \/ \E c \in Reasons \ {"bad_format", "bad_pages"} : Cli(q, limit) = Error(c)
    <3> HIDE DEF b
    <3>1. QED
      BY <1>1, CliInOrder DEF Reasons, b
  <2>2. b = o \/ \E c \in Reasons \ {"bad_format", "bad_pages"} : b = Error(c)
    BY BackendOutcome, RequestsReadable
  <2>3. o = Panic \/ \E l, f, k : o = Output(l, f, k)
    BY DEF Rendered
  <2> HIDE DEF o, b
  <2>4. QED
    BY <2>1, <2>2, <2>3, AnswersDiffer
<1>4. QED
  BY <1>2, <1>3

(* The child of the server answers what the command line answers, unless   *)
(* something went wrong that it answers for.                               *)
LEMMA ChildAnswers ==
    ASSUME NEW q \in Requests, NEW limit, NEW f, Refusal(q) = <<>>
    PROVE  \/ Child(Options(q), limit, f) = Cli(q, limit)
           \/ /\ f # "none" /\ Child(Options(q), limit, f) = Error(CodeOf(f))
              /\ f = "bulky" => IsOutput(Cli(q, limit))
<1>1. Cli(Options(q), limit) = Cli(q, limit)
  BY OptionsHandedOn
<1>2. Cli(q, limit) # Panic /\ Cli(q, limit) # Error("usage")
  BY LetThrough, AnswersDiffer DEF Reasons
<1> DEFINE given == Child(Options(q), limit, f)
           said == Cli(q, limit)
<1>3. given = IF f = "io" THEN Error("io_error") ELSE IF f = "timeout" THEN Error("timeout")
              ELSE IF f = "killed" THEN Error("crash")
              ELSE IF f = "bulky" /\ IsOutput(said) THEN Error("output_too_large") ELSE said
  <2> HIDE DEF given, said
  <2>1. QED
    BY <1>1, <1>2, ChildInOrder DEF given, said
<1> HIDE DEF given, said
<1>4. CodeOf("io") = "io_error" /\ CodeOf("timeout") = "timeout" /\ CodeOf("killed") = "crash"
      /\ CodeOf("bulky") = "output_too_large"
  BY DEF CodeOf
<1>5. QED
  BY <1>3, <1>4 DEF given, said

(* The browser gives an output or an error with a code.                    *)
LEMMA WasmOutcome ==
    ASSUME NEW q \in Requests, NEW f, q.format # "bad"
    PROVE  \/ \E l, t, k : Wasm(q, f) = Output(l, t, k)
           \/ \E c \in Reasons \cup {"too_large", "output_too_large"} : Wasm(q, f) = Error(c)
<1> DEFINE o == Rendered(q.input, WasmLevel(q), q.format, q.classify)
           b == Backend(q, <<>>, <<>>, o)
<1>1. Wasm(q, f) = Capped(b, f) \/ \E c \in Reasons \cup {"too_large"} : Wasm(q, f) = Error(c)
  <2> HIDE DEF b
  <2>1. QED
    BY WasmInOrder DEF Reasons, b
<1>2. CASE f = "large"
  BY <1>2, WasmInOrder
<1>3. CASE f # "large" /\ Reading(q.format) /\ q.level \in {"char", "bad"}
  BY <1>3, WasmInOrder DEF Reasons
<1>4. CASE f # "large" /\ q.level = "bad"
  BY <1>4, WasmInOrder DEF Reasons
<1>5. CASE f # "large" /\ q.input # "cfb" /\ Unavailable(q.input, WasmLevel(q))
  BY <1>5, WasmInOrder DEF Reasons
<1>6. CASE /\ ~ (Reading(q.format) /\ q.level \in {"char", "bad"}) /\ q.level # "bad"
           /\ ~ (q.input # "cfb" /\ Unavailable(q.input, WasmLevel(q)))
  <2>1. q.level \in Levels
    BY DEF Requests
  <2>2. ~ (q.format = "lean" /\ WasmLevel(q) \in {"none", "char"})
    BY <1>6, <2>1 DEF WasmLevel, Reading
  <2>3. ~ (q.input = "docx" /\ q.format # "md" /\ WasmLevel(q) # "element")
    BY <1>6, <2>1 DEF WasmLevel, Reading, Finest, Rank, Unavailable, Levels
  <2>4. \E l, t, k : o = Output(l, t, k)
    BY <2>2, <2>3 DEF Rendered
  <2>5. b = o \/ \E c \in Reasons : b = Error(c)
    BY BackendOutcome, RequestsReadable
  <2>6. Capped(b, f) \in {b, Error("output_too_large")}
    BY DEF Capped
  <2> HIDE DEF b, o
  <2>7. QED
    BY <1>1, <2>4, <2>5, <2>6
<1>7. QED
  BY <1>2, <1>3, <1>4, <1>5, <1>6

LEMMA WaysStart == FrontInit => AskedInv
<1> SUFFICES ASSUME Init PROVE WaysInv
  BY DEF FrontInit, AskedInv
<1>1. QED
  BY DEF Init, WaysInv

LEMMA WaysSteps == AskedInv /\ [FrontNext]_<<side, asked, web, extraction>> => AskedInv'
<1> SUFFICES ASSUME side = "asked", WaysInv, Next \/ UNCHANGED asked PROVE WaysInv'
  BY DEF AskedInv, FrontNext
<1>1. CASE UNCHANGED asked
  BY <1>1 DEF asked, WaysInv
<1>2. CASE RunCli
  BY <1>2 DEF RunCli, Asked, WaysInv
<1>3. CASE SyncExtract
  BY <1>3 DEF SyncExtract, Asked, WaysInv
<1>4. CASE CreateJob
  <2>1. row = <<>> /\ way = "job" /\ UNCHANGED <<request, way>> /\ answer' = Create(request, fault')
    BY <1>4 DEF CreateJob, Asked
  <2>2. CASE answer' # <<>>
    BY <1>4, <2>1, <2>2 DEF CreateJob, WaysInv
  <2>3. CASE answer' = <<>>
    <3>1. row' = <<Options(request)>>
      BY <1>4, <2>3 DEF CreateJob
    <3>2. Create(request, "none") = <<>>
      <4>1. Refusal(request) = <<>>
        BY <2>1, <2>3, CreateInOrder
      <4>2. request.input # "missing"
        BY <2>1, <2>3, <4>1, CreateInOrder, AnswersDiffer
      <4>3. QED
        BY <4>1, <4>2, CreateInOrder
    <3>3. QED
      BY <2>1, <2>3, <3>1, <3>2 DEF WaysInv
  <2>4. QED
    BY <2>2, <2>3
<1>5. CASE ProcessJob
  BY <1>5 DEF ProcessJob, Asked, WaysInv
<1>6. CASE Browse
  BY <1>6 DEF Browse, Asked, WaysInv
<1>7. QED
  BY <1>1, <1>2, <1>3, <1>4, <1>5, <1>6 DEF Next

(* What the server refuses the command line refuses, or fails before.      *)
LEMMA RefusedIsError ==
    ASSUME NEW q, NEW limit, Refusal(q) # <<>>
    PROVE  Cli(q, limit)[1].is = "error"
<1>1. \/ q.level = "bad" \/ q.format = "bad" \/ (q.classify /\ q.format # "json")
      \/ PagesBad(q.pages) \/ (Reading(q.format) /\ q.level = "char")
  BY RefusalInOrder
<1>2. \E c : Cli(q, limit) = Error(c)
  BY <1>1, CliInOrder
<1>3. QED
  BY <1>2, AnswersDiffer

(* A limit of pages is the last thing to fail.                             *)
LEMMA LimitIsLast ==
    ASSUME NEW q \in Requests, NEW limit
    PROVE  \/ Cli(q, limit) = Cli(q, <<>>)
           \/ /\ Cli(q, limit) = Error("too_many_pages")
              /\ Cli(q, <<>>) = Rendered(q.input, CliLevel(q), q.format, q.classify)
<1> DEFINE sel == Selection(q.pages)
           o == Rendered(q.input, CliLevel(q), q.format, q.classify)
<1>1. ~ Beyond(q.document, sel, <<>>)
  BY DEF Beyond
<1> HIDE DEF sel, o
<1>2. \/ Backend(q, sel, limit, o) = Backend(q, sel, <<>>, o)
      \/ Backend(q, sel, limit, o) = Error("too_many_pages") /\ Backend(q, sel, <<>>, o) = o
  BY <1>1, BackendInOrder
<1>3. \/ Cli(q, limit) = Cli(q, <<>>)
      \/ /\ Cli(q, limit) = Backend(q, sel, limit, o)
         /\ Cli(q, <<>>) = Backend(q, sel, <<>>, o)
  BY CliInOrder DEF sel, o
<1>4. QED
  BY <1>2, <1>3 DEF o

(* A limit lets through what it bounds and turns away what it does not.    *)
LEMMA LimitDecides ==
    ASSUME NEW q \in Requests, NEW limit
    PROVE  /\ Cli(q, limit) = Error("too_many_pages") =>
                ~ PagesBad(q.pages) /\ Beyond(q.document, Selection(q.pages), limit)
           /\ IsOutput(Cli(q, limit)) =>
                ~ PagesBad(q.pages) /\ ~ Beyond(q.document, Selection(q.pages), limit)
<1> DEFINE sel == Selection(q.pages)
           o == Rendered(q.input, CliLevel(q), q.format, q.classify)
           b == Backend(q, sel, limit, o)
<1>1. o = Panic \/ \E l, f, k : o = Output(l, f, k)
  BY DEF Rendered
<1>2. \/ Cli(q, limit) = b /\ ~ PagesBad(q.pages)
      \/ \E c \in (Reasons \cup {"usage"}) \ {"too_many_pages"} : Cli(q, limit) = Error(c)
  <2> HIDE DEF b
  <2>1. QED
    BY CliInOrder DEF Reasons, b, sel, o
<1>3. \A c : ~ IsOutput(Error(c))
  BY AnswersDiffer DEF IsOutput
<1>4. o # Error("too_many_pages")
  <2> HIDE DEF o
  <2>1. QED
    BY <1>1, AnswersDiffer
<1>5. /\ b = Error("too_many_pages") => Beyond(q.document, sel, limit)
      /\ IsOutput(b) => ~ Beyond(q.document, sel, limit)
  <2>1. DocumentOK(q)
    BY RequestsReadable
  <2> HIDE DEF sel, o
  <2>2. QED
    BY <1>3, <1>4, <2>1, BackendInOrder, AnswersDiffer DEF DocumentOK
<1> HIDE DEF b, o
<1>6. QED
  BY <1>2, <1>3, <1>5, AnswersDiffer DEF Reasons

(* The pages of a limit are those asked for, also at the ends of u32.      *)
LEMMA LimitCounts ==
    ASSUME request \in Requests, ~ PagesBad(request.pages)
    PROVE  Beyond(request.document, Selection(request.pages), <<SyncLimit>>) <=> PagesAsked > SyncLimit
<1>1. CASE request.pages = <<>>
  BY <1>1 DEF Beyond, Selection, PagesAsked
<1>2. CASE request.pages # <<>>
  <2> DEFINE text == request.pages[1]
  <2>1. text \in Seq(Int) /\ Parses(text)
    BY <1>2, TextsAssumption DEF Requests, PagesBad
  <2>2. Selection(request.pages) = <<Parsed(text)>>
    BY <1>2 DEF Selection
  <2>3. Count(Parsed(text)) = Parsed(text).end - Parsed(text).start + 1
    BY <2>1, SelectionsRoundTrip, CountsAreExact
  <2>4. PagesAsked = text[Len(text)] - text[1] + 1
    BY <1>2 DEF PagesAsked
  <2> HIDE DEF text
  <2>5. Parsed(text).end = text[Len(text)] /\ Parsed(text).start = text[1]
    BY DEF Parsed
  <2>6. QED
    BY <2>2, <2>3, <2>4, <2>5 DEF Beyond
<1>3. QED
  BY <1>1, <1>2

LEMMA PagesAreInt == request \in Requests /\ ~ PagesBad(request.pages) => PagesAsked \in Int
<1> SUFFICES ASSUME request \in Requests, ~ PagesBad(request.pages) PROVE PagesAsked \in Int
  OBVIOUS
<1>1. CASE request.pages = <<>>
  <2>1. request.document \in Documents
    BY DEF Requests
  <2>2. request.document.pages \in Sizes
    BY <2>1 DEF Documents
  <2>3. PagesAsked = request.document.pages
    BY <1>1 DEF PagesAsked
  <2>4. \A n \in Sizes : n \in Int
    BY PagesAssumption
  <2>5. QED
    BY <2>2, <2>3, <2>4, Zenon
<1>2. CASE request.pages # <<>>
  <2>1. request.pages[1] \in Seq(Int) /\ Len(request.pages[1]) \in {1, 2}
    BY <1>2, TextsAssumption DEF Requests, PagesBad, Parses
  <2> DEFINE text == request.pages[1]
  <2>2. PagesAsked = text[Len(text)] - text[1] + 1
    BY <1>2 DEF PagesAsked
  <2>3. text \in Seq(Int) /\ Len(text) \in {1, 2}
    BY <2>1
  <2> HIDE DEF text
  <2>4. text[Len(text)] \in Int /\ text[1] \in Int
    BY <2>3
  <2>5. QED
    BY <2>2, <2>4
<1>3. QED
  BY <1>1, <1>2

(* The browser answers as the command line does, but for what it refuses   *)
(* by itself.                                                              *)
LEMMA BrowserAgrees ==
    ASSUME NEW q \in Requests, CanBrowse(q), NEW f
    PROVE  \/ Wasm(q, f) = Cli(q, <<>>)
           \/ f = "large" /\ Wasm(q, f) = Error("too_large")
           \/ f = "bulky" /\ Wasm(q, f) = Error("output_too_large") /\ IsOutput(Cli(q, <<>>))
           \/ q.level = "bad" /\ Cli(q, <<>>) = Error("usage")
           \/ q.input = "cfb" /\ Cli(q, <<>>) = Error("granularity_unavailable")
<1>1. /\ q.level \in Levels /\ q.input \in Inputs
      /\ q.input # "missing" /\ q.pages = <<>> /\ q.format # "bad"
      /\ q.classify => q.format = "json"
  BY DEF Requests, CanBrowse
<1>2. CASE q.level = "bad"
  BY <1>1, <1>2, CliInOrder
<1>3. CASE f = "large"
  BY <1>3, WasmInOrder
<1>4. CASE Reading(q.format) /\ q.level = "char" /\ f # "large"
  BY <1>1, <1>4, CliInOrder, WasmInOrder
<1>5. CASE /\ q.level # "bad" /\ f # "large" /\ ~ (Reading(q.format) /\ q.level = "char")
           /\ q.input \in {"badzip", "zip", "other"}
  BY <1>1, <1>5, CliInOrder, WasmInOrder
<1>6. CASE /\ q.level # "bad" /\ f # "large" /\ ~ (Reading(q.format) /\ q.level = "char")
           /\ q.input \notin {"badzip", "zip", "other"}
  <2> DEFINE cli == Backend(q, <<>>, <<>>, Rendered(q.input, CliLevel(q), q.format, q.classify))
             wasm0 == Backend(q, <<>>, <<>>, Rendered(q.input, WasmLevel(q), q.format, q.classify))
  <2>1. ~ PagesBad(q.pages) /\ Selection(q.pages) = <<>>
    BY <1>1 DEF PagesBad, Selection
  <2>2. Cli(q, <<>>) = IF Unavailable(q.input, CliLevel(q)) THEN Error("granularity_unavailable") ELSE cli
    <3> HIDE DEF cli
    <3>1. QED
      BY <1>1, <1>6, <2>1, CliInOrder DEF cli
  <2>3. Wasm(q, f) = IF q.input # "cfb" /\ Unavailable(q.input, WasmLevel(q))
                  THEN Error("granularity_unavailable") ELSE Capped(wasm0, f)
    <3> HIDE DEF wasm0
    <3>1. QED
      BY <1>1, <1>6, WasmInOrder DEF wasm0
  <2>4. CASE q.input = "cfb"
    <3>1. cli = Error("unsupported_format") /\ wasm0 = Error("unsupported_format")
      BY <2>4, BackendInOrder
    <3> HIDE DEF cli, wasm0
    <3>2. Capped(wasm0, f) = wasm0
      BY <3>1, AnswersDiffer DEF Capped, IsOutput
    <3>3. QED
      BY <2>2, <2>3, <2>4, <3>1, <3>2
  <2>5. CASE q.input # "cfb"
    <3>1. q.input \in {"pdf", "pptx", "docx"}
      BY <1>1, <1>6, <2>5 DEF Inputs
    <3>2. CliLevel(q) = WasmLevel(q)
      BY <1>6, <3>1 DEF CliLevel, WasmLevel, Finest
    <3>3. cli = wasm0
      BY <3>2
    <3> HIDE DEF cli, wasm0
    <3>4. CASE Unavailable(q.input, CliLevel(q))
      BY <2>2, <2>3, <2>5, <3>2, <3>4
    <3>5. CASE ~ Unavailable(q.input, CliLevel(q))
      BY <2>2, <2>3, <2>5, <3>2, <3>3, <3>5 DEF Capped
    <3>6. QED
      BY <3>4, <3>5
  <2>6. QED
    BY <2>4, <2>5
<1>7. QED
  BY <1>2, <1>3, <1>4, <1>5, <1>6

(* The browser has no limit of pages.                                      *)
LEMMA BrowserSays ==
    ASSUME NEW q \in Requests, NEW f
    PROVE  Wasm(q, f) # Error("too_many_pages")
<1> DEFINE o == Rendered(q.input, WasmLevel(q), q.format, q.classify)
           b == Backend(q, <<>>, <<>>, o)
<1>1. ~ Beyond(q.document, <<>>, <<>>)
  BY DEF Beyond
<1>2. o # Error("too_many_pages")
  BY AnswersDiffer DEF Rendered
<1>3. b # Error("too_many_pages")
  <2>1. DocumentOK(q)
    BY RequestsReadable
  <2> HIDE DEF o
  <2>2. QED
    BY <1>1, <1>2, <2>1, BackendInOrder, AnswersDiffer DEF DocumentOK
<1>4. Capped(b, f) # Error("too_many_pages")
  <2> HIDE DEF b
  <2>1. QED
    BY <1>3, AnswersDiffer DEF Capped
<1>5. Wasm(q, f) = Capped(b, f) \/ \E c \in (Reasons \cup {"too_large"}) \ {"too_many_pages"} : Wasm(q, f) = Error(c)
  <2> HIDE DEF b
  <2>1. QED
    BY WasmInOrder DEF Reasons, b
<1>6. QED
  BY <1>4, <1>5, AnswersDiffer

(* A file that cannot be written, or is.                                   *)
LEMMA WrittenOrNot ==
    ASSUME NEW said, NEW f
    PROVE  \/ Written(said, f) = said
           \/ f = "disk" /\ Written(said, f) = Error("io_error")
  BY DEF Written

(* What a way says: a refusal of its own, the code of what went wrong, or  *)
(* what the command line says.                                             *)
LEMMA WaysSay ==
    ASSUME WaysInv, answer # <<>>
    PROVE  \/ /\ way \in {"sync", "job"}
              /\ Refusal(request) # <<>> /\ answer = Refusal(request)
           \/ /\ way \in {"sync", "job"} /\ Refusal(request) = <<>>
              /\ request.input = "missing" /\ answer = Error("missing_file")
           \/ /\ fault # "none" /\ answer = Error(CodeOf(fault))
              /\ fault = "bulky" => IsOutput(Cli(request, <<>>))
           \/ way = "cli" /\ answer = Cli(request, <<>>)
           \/ way = "job" /\ Refusal(request) = <<>> /\ answer = Cli(request, <<>>)
           \/ way = "sync" /\ Refusal(request) = <<>> /\ answer = Cli(request, <<SyncLimit>>)
           \/ way = "browser" /\ CanBrowse(request) /\ answer = Wasm(request, fault)
<1>1. request \in Requests
  BY DEF WaysInv
<1>2. /\ CodeOf("large") = "too_large" /\ CodeOf("disk") = "io_error" /\ CodeOf("store") = "store_error"
  BY DEF CodeOf
<1>3. CASE way = "cli" /\ answer = Written(Cli(request, <<>>), fault)
  BY <1>2, <1>3, WrittenOrNot
<1>4. CASE way = "sync" /\ answer = Sync(request, fault)
  <2>1. CASE Refusal(request) # <<>>
    BY <1>4, <2>1, SyncInOrder
  <2>2. CASE Refusal(request) = <<>> /\ request.input = "missing"
    BY <1>4, <2>2, SyncInOrder
  <2>3. CASE Refusal(request) = <<>> /\ request.input # "missing" /\ fault \in {"large", "disk"}
    BY <1>2, <1>4, <2>3, SyncInOrder
  <2>4. CASE Refusal(request) = <<>> /\ request.input # "missing" /\ fault \notin {"large", "disk"}
    <3>1. answer = Child(Options(request), <<SyncLimit>>, fault)
      BY <1>4, <2>4, SyncInOrder
    <3>2. IsOutput(Cli(request, <<SyncLimit>>)) => IsOutput(Cli(request, <<>>))
      BY <1>1, LimitIsLast, AnswersDiffer DEF IsOutput
    <3>3. QED
      BY <1>1, <1>4, <2>4, <3>1, <3>2, ChildAnswers
  <2>5. QED
    BY <2>1, <2>2, <2>3, <2>4
<1>5. CASE way = "job" /\ answer = Create(request, fault)
  <2>1. CASE Refusal(request) # <<>>
    BY <1>5, <2>1, CreateInOrder
  <2>2. CASE Refusal(request) = <<>> /\ fault = "disk"
    BY <1>2, <1>5, <2>2, CreateInOrder
  <2>3. CASE Refusal(request) = <<>> /\ fault # "disk" /\ request.input = "missing"
    BY <1>5, <2>3, CreateInOrder
  <2>4. CASE Refusal(request) = <<>> /\ fault # "disk" /\ request.input # "missing"
    BY <1>2, <1>5, <2>4, CreateInOrder
  <2>5. QED
    BY <2>1, <2>2, <2>3, <2>4
<1>6. CASE /\ way = "job" /\ row = <<Options(request)>> /\ Create(request, "none") = <<>>
           /\ answer = Written(Claimed(row[1], Child(row[1], <<>>, fault)), fault)
  <2>1. Refusal(request) = <<>>
    BY <1>6, CreateInOrder
  <2>2. Claimed(row[1], Child(row[1], <<>>, fault)) = Child(Options(request), <<>>, fault)
    BY <1>1, <1>6, <2>1, OptionsHandedOn DEF Claimed
  <2>3. answer = Written(Child(Options(request), <<>>, fault), fault)
    BY <1>6, <2>2
  <2>4. CASE answer = Child(Options(request), <<>>, fault)
    BY <1>1, <1>6, <2>1, <2>4, ChildAnswers
  <2>5. CASE fault = "disk" /\ answer = Error("io_error")
    BY <1>2, <2>5
  <2>6. QED
    BY <2>3, <2>4, <2>5, WrittenOrNot
<1>7. CASE way = "browser" /\ answer = Wasm(request, fault) /\ CanBrowse(request)
  BY <1>7
<1>8. QED
  BY <1>3, <1>4, <1>5, <1>6, <1>7 DEF WaysInv

(* An answer of any way is an output or a structured error.                *)
LEMMA NobodyPanics == WaysInv => NoPanic
<1> SUFFICES ASSUME WaysInv PROVE NoPanic
  OBVIOUS
<1> DEFINE Bad(a) == a \in {Panic, Error("exit_2")}
<1>1. request \in Requests
  BY DEF WaysInv
<1>2. \A c \in Reasons \cup {"usage", "bad_granularity", "too_large", "output_too_large", "missing_file"} :
         ~ Bad(Error(c)) /\ Error(c) # Error("crash")
  BY AnswersDiffer DEF Reasons
<1>3. ~ Bad(<<>>) /\ <<>> # Error("crash") /\ ~ Refused(<<>>)
  BY AnswersDiffer DEF Panic, Refused
<1>4. \A l, f, k : ~ Bad(Output(l, f, k)) /\ Output(l, f, k) # Error("crash") /\ ~ Refused(Output(l, f, k))
  BY AnswersDiffer DEF Refused
<1>5. Refusal(request) # <<>> =>
        \E c \in {"bad_granularity", "bad_format", "bad_pages"} : Refusal(request) = Error(c)
  BY RefusalInOrder
<1>6. \A c : c \notin {"usage", "bad_granularity", "bad_format", "bad_pages"} => ~ Refused(Error(c))
  BY AnswersDiffer DEF Refused
<1>7. ASSUME NEW limit, Refusal(request) = <<>>
      PROVE  LET a == Cli(request, limit) IN ~ Bad(a) /\ a # Error("crash") /\ ~ Refused(a)
  <2> HIDE DEF Bad
  <2>1. \/ \E l, f, k : Cli(request, limit) = Output(l, f, k)
        \/ \E c \in Reasons \ {"bad_format", "bad_pages"} : Cli(request, limit) = Error(c)
    BY <1>1, <1>7, LetThrough
  <2>2. \A c \in Reasons \ {"bad_format", "bad_pages"} :
           ~ Bad(Error(c)) /\ Error(c) # Error("crash") /\ ~ Refused(Error(c))
    BY <1>2, <1>6 DEF Reasons
  <2>3. QED
    BY <1>4, <2>1, <2>2
<1>8. LET a == Cli(request, <<>>) IN ~ Bad(a) /\ a # Error("crash")
  <2> HIDE DEF Bad
  <2>1. CASE request.level = "bad"
    BY <1>2, <2>1, CliInOrder
  <2>2. CASE request.level # "bad"
    BY <1>1, <1>2, <1>4, <2>2, CliOutcome
  <2>3. QED
    BY <2>1, <2>2
<1>9. ASSUME CanBrowse(request)
      PROVE  ~ Bad(Wasm(request, fault)) /\ Wasm(request, fault) # Error("crash")
  <2> HIDE DEF Bad
  <2>1. request.format # "bad"
    BY <1>9 DEF CanBrowse
  <2>2. QED
    BY <1>1, <1>2, <1>4, <2>1, WasmOutcome
<1>10. /\ ~ Bad(Error(CodeOf(fault))) /\ ~ Refused(Error(CodeOf(fault)))
       /\ Error(CodeOf(fault)) = Error("crash") => fault = "killed"
  <2>1. /\ CodeOf(fault) \in {"too_large", "io_error", "store_error", "timeout", "crash", "output_too_large"}
        /\ CodeOf(fault) = "crash" => fault = "killed"
    BY DEF CodeOf
  <2>2. QED
    BY <1>6, <2>1, AnswersDiffer
<1>11. CASE answer = <<>>
  BY <1>3, <1>11 DEF NoPanic
<1>12. CASE answer # <<>>
  <2> HIDE DEF Bad
  <2>1. /\ ~ Bad(answer)
        /\ answer = Error("crash") => fault = "killed"
        /\ way \in {"sync", "job"} /\ Refused(answer) => answer = Refusal(request)
    <3>1. CASE answer = Refusal(request) /\ Refusal(request) # <<>>
      BY <1>2, <1>5, <3>1 DEF Reasons
    <3>2. CASE answer = Error("missing_file")
      BY <1>2, <1>6, <3>2
    <3>3. CASE answer = Error(CodeOf(fault))
      BY <1>10, <3>3
    <3>4. CASE way = "cli" /\ answer = Cli(request, <<>>)
      BY <1>8, <3>4
    <3>5. CASE Refusal(request) = <<>> /\ \E limit : answer = Cli(request, limit)
      BY <1>7, <3>5
    <3>6. CASE way = "browser" /\ CanBrowse(request) /\ answer = Wasm(request, fault)
      BY <1>9, <3>6
    <3>7. QED
      BY <1>12, <3>1, <3>2, <3>3, <3>4, <3>5, <3>6, WaysSay
  <2>2. QED
    BY <2>1 DEF NoPanic, Bad
<1>13. QED
  BY <1>11, <1>12

(* No request, document or stored row reaches an expect or an              *)
(* unreachable!, in any of the ways, whatever texts of pages are asked     *)
(* with and whatever goes wrong; and the child never refuses what the      *)
(* server let through.                                                     *)
THEOREM NoPanicEver == FrontSpec => []NoPanicAnywhere
<1>1. FrontSpec => []AskedInv
  BY WaysStart, WaysSteps, PTL DEF FrontSpec
<1>2. AskedInv => NoPanicAnywhere
  BY NobodyPanics DEF AskedInv, NoPanicAnywhere
<1>3. QED
  BY <1>1, <1>2, PTL

(* A way other than the command line, held against it.                     *)
LEMMA AnswerMatches == WaysInv /\ answer # <<>> => SameAsCli
<1> SUFFICES ASSUME WaysInv, answer # <<>> PROVE SameAsCli
  OBVIOUS
<1>1. request \in Requests
  BY DEF WaysInv
<1>2. CASE way \in {"sync", "job"} /\ Refusal(request) # <<>>
  BY <1>2, RefusedIsError DEF SameAsCli
<1>3. CASE way \in {"sync", "job"} /\ request.input = "missing" /\ answer = Error("missing_file")
  BY <1>3 DEF SameAsCli
<1>4. CASE fault # "none" /\ answer = Error(CodeOf(fault)) /\ (fault = "bulky" => IsOutput(Cli(request, <<>>)))
  BY <1>4 DEF SameAsCli
<1>5. CASE answer = Cli(request, <<>>)
  BY <1>5 DEF SameAsCli
<1>6. CASE way = "sync" /\ Refusal(request) = <<>> /\ answer = Cli(request, <<SyncLimit>>)
  <2>1. CASE answer = Cli(request, <<>>)
    BY <2>1 DEF SameAsCli
  <2>2. CASE /\ answer = Error("too_many_pages")
             /\ Cli(request, <<>>) = Rendered(request.input, CliLevel(request), request.format, request.classify)
    <3>1. \/ \E l, f, k : Cli(request, <<>>) = Output(l, f, k)
          \/ \E c \in Reasons : Cli(request, <<>>) = Error(c)
      BY <1>1, <1>6, LetThrough
    <3>2. Cli(request, <<>>) = Panic \/ \E l, f, k : Cli(request, <<>>) = Output(l, f, k)
      BY <2>2 DEF Rendered
    <3>3. IsOutput(Cli(request, <<>>))
      BY <3>1, <3>2, AnswersDiffer DEF IsOutput
    <3>4. QED
      BY <1>6, <2>2, <3>3 DEF SameAsCli
  <2>3. QED
    BY <1>1, <1>6, <2>1, <2>2, LimitIsLast
<1>7. CASE way = "browser" /\ CanBrowse(request) /\ answer = Wasm(request, fault)
  <2>1. CodeOf("large") = "too_large" /\ CodeOf("bulky") = "output_too_large"
    BY DEF CodeOf
  <2>2. QED
    BY <1>1, <1>7, <2>1, BrowserAgrees DEF SameAsCli
<1>8. QED
  BY <1>2, <1>3, <1>4, <1>5, <1>6, <1>7, WaysSay

(* Only the synchronous route turns away for the number of pages.          *)
LEMMA OnlySyncLimits ==
    ASSUME WaysInv, answer # <<>>
    PROVE  /\ answer = Error("too_many_pages") => way = "sync" /\ PagesAsked > SyncLimit
           /\ way = "sync" /\ IsOutput(answer) => PagesAsked <= SyncLimit
<1>1. request \in Requests
  BY DEF WaysInv
<1>2. \A c : ~ IsOutput(Error(c))
  BY AnswersDiffer DEF IsOutput
<1>3. CodeOf(fault) # "too_many_pages"
  BY DEF CodeOf
<1>4. Cli(request, <<>>) # Error("too_many_pages")
  <2>1. ~ Beyond(request.document, Selection(request.pages), <<>>)
    BY DEF Beyond
  <2>2. QED
    BY <1>1, <2>1, LimitDecides
<1>5. CASE way = "sync" /\ answer = Cli(request, <<SyncLimit>>)
  <2>1. CASE answer = Error("too_many_pages")
    <3>1. ~ PagesBad(request.pages) /\ Beyond(request.document, Selection(request.pages), <<SyncLimit>>)
      BY <1>1, <1>5, <2>1, LimitDecides
    <3>2. QED
      BY <1>1, <1>2, <1>5, <2>1, <3>1, LimitCounts
  <2>2. CASE IsOutput(answer)
    <3>1. ~ PagesBad(request.pages) /\ ~ Beyond(request.document, Selection(request.pages), <<SyncLimit>>)
      BY <1>1, <1>5, <2>2, LimitDecides
    <3>2. PagesAsked \in Int /\ ~ (PagesAsked > SyncLimit)
      BY <1>1, <3>1, LimitCounts, PagesAreInt
    <3>3. PagesAsked <= SyncLimit
      BY <3>2, PagesAssumption
    <3>4. QED
      BY <1>2, <2>2, <3>3
  <2>3. QED
    BY <2>1, <2>2
<1>6. CASE answer = Refusal(request) /\ Refusal(request) # <<>>
  <2>1. \E c \in {"bad_granularity", "bad_format", "bad_pages"} : Refusal(request) = Error(c)
    BY <1>6, RefusalInOrder
  <2>2. QED
    BY <1>2, <1>6, <2>1, AnswersDiffer
<1>7. CASE answer = Error("missing_file") \/ answer = Error(CodeOf(fault))
  BY <1>2, <1>3, <1>7, AnswersDiffer
<1>8. CASE way # "sync" /\ answer = Cli(request, <<>>)
  BY <1>4, <1>8
<1>9. CASE way = "browser" /\ CanBrowse(request) /\ answer = Wasm(request, fault)
  <2>1. request.pages = <<>>
    BY <1>9 DEF CanBrowse
  <2>2. answer # Error("too_many_pages")
    BY <1>1, <1>4, <1>9, BrowserSays, AnswersDiffer
  <2>3. QED
    BY <1>9, <2>2
<1>10. QED
  BY <1>5, <1>6, <1>7, <1>8, <1>9, WaysSay

LEMMA EveryWayAgrees == WaysInv => WaysAgree
  BY AnswerMatches, OnlySyncLimits DEF WaysAgree

(* Any request has the same outcome in every way, up to the checks and     *)
(* limits that are a way's own and to what goes wrong on it.               *)
THEOREM WaysAlwaysAgree == FrontSpec => []WaysAgreeAlways
<1>1. FrontSpec => []AskedInv
  BY WaysStart, WaysSteps, PTL DEF FrontSpec
<1>2. AskedInv => WaysAgreeAlways
  BY EveryWayAgrees DEF AskedInv, WaysAgreeAlways
<1>3. QED
  BY <1>1, <1>2, PTL

(***************************************************************************)
(* The child process that extracts for the server.                         *)
(***************************************************************************)
\* Both streams in full, up to what was never read for lack of a working pipe.
ChildInv ==
    /\ child = "none" => pc \in {"spawn", "returned"}
    /\ pc = "spawn" => child = "none" /\ outcome = "none"
    /\ child = "dead" <=> code # "none"
    /\ ~ osError /\ child = "running" => reading /\ errTask = "running"
    /\ ~ osError /\ code \in {"zero", "structured"} => sent = want /\ sentErr = wantErr
    /\ pc \in {"reap", "timedout", "returned", "dropped"} => child # "running"

StreamInv ==
    /\ reading <=> pc = "stdout"
    /\ pc \in {"spawn", "stdout", "stderr", "wait"} => out = seen
    /\ ~ osError /\ pc \in {"stderr", "wait"} => child = "dead" /\ seen = sent
    /\ ~ osError /\ errTask = "done" => child = "dead" /\ seenErr = sentErr
    /\ err = Least(ErrCap, seenErr)
    /\ pc = "wait" => errTask = "done"
    /\ out <= Cap
    /\ pc = "reap" => sent > Cap

OutcomeInv ==
    /\ outcome # "none" <=> pc = "returned"
    /\ SuccessIsComplete
    /\ CapIsExact
    /\ MessageIsWhole

IInv == TypeOK /\ ChildInv /\ StreamInv /\ OutcomeInv

(* The strengthening, step by step: where the child, the two readers and the
   caller stand to each other at every await of run_extraction.             *)
THEOREM IInvAlways == ExtractionSpec => []IInv
<1>1. ExtractionInit => IInv
  <2> SUFFICES ASSUME ExtractionInit PROVE IInv
    OBVIOUS
  <2> USE SizesAssumption DEF ExtractionInit
  <2>1. TypeOK
    <3>1. /\ want \in 0 .. MaxOut /\ wantErr \in 0 .. MaxErr
          /\ sent \in 0 .. want /\ sentErr \in 0 .. wantErr
          /\ seen \in 0 .. sent /\ out \in 0 .. seen
          /\ seenErr \in 0 .. sentErr /\ err \in 0 .. ErrCap
      OBVIOUS
    <3>2. reading \in BOOLEAN /\ hangs \in BOOLEAN /\ osError \in BOOLEAN
      BY Zenon
    <3>3. QED
      BY <3>1, <3>2 DEF TypeOK, Codes
  <2>2. ChildInv
    BY DEF ChildInv
  <2>3. StreamInv
    BY DEF StreamInv, Least
  <2>4. OutcomeInv
    BY DEF OutcomeInv, SuccessIsComplete, CapIsExact, MessageIsWhole
  <2>5. QED
    BY <2>1, <2>2, <2>3, <2>4 DEF IInv
<1>2. IInv /\ [ExtractionNext]_extraction => IInv'
  <2> SUFFICES ASSUME IInv, [ExtractionNext]_extraction PROVE IInv'
    OBVIOUS
  <2> USE SizesAssumption
      DEF IInv, TypeOK, ChildInv, StreamInv, OutcomeInv, SuccessIsComplete, CapIsExact,
          MessageIsWhole, Codes, Least, intent, childv, caller, errv
  <2>1. CASE WriteOut
    BY <2>1 DEF WriteOut
  <2>2. CASE WriteErr
    BY <2>2 DEF WriteErr
  <2>3. CASE Exit
    BY <2>3 DEF Exit, Ends
  <2>4. CASE Die
    BY <2>4 DEF Die, Ends
  <2>5. CASE Spawn
    BY <2>5 DEF Spawn
  <2>6. CASE SpawnFails
    BY <2>6 DEF SpawnFails, Return
  <2>7. CASE \E n \in 1 .. Buf : ReadOut(n)
    BY <2>7 DEF ReadOut, Chunk, OverCap
  <2>8. CASE \E n \in 1 .. Buf : Breach(n)
    <3>1. PICK n \in 1 .. Buf : Breach(n)
      BY <2>8
    <3>2. TypeOK'
      <4>1. reading' \in BOOLEAN
        BY <3>1, Zenon DEF Breach
      <4>2. QED
        BY <3>1, <4>1 DEF Breach, Chunk, OverCap, Kill
    <3>3. ChildInv'
      BY <3>1 DEF Breach, Chunk, OverCap, Kill
    <3>4. StreamInv'
      BY <3>1 DEF Breach, Chunk, OverCap, Kill
    <3>5. OutcomeInv'
      BY <3>1 DEF Breach, Chunk, OverCap, Kill
    <3>6. QED
      BY <3>2, <3>3, <3>4, <3>5
  <2>9. CASE OutEnds
    BY <2>9 DEF OutEnds, Drained
  <2>10. CASE OutReadFails
    BY <2>10 DEF OutReadFails
  <2>11. CASE JoinErr
    BY <2>11 DEF JoinErr
  <2>12. CASE Wait
    BY <2>12 DEF Wait, Return, Classify
  <2>13. CASE Reap
    BY <2>13 DEF Reap, Return
  <2>14. CASE TimerFires
    BY <2>14 DEF TimerFires, Kill
  <2>15. CASE TimeoutReap
    BY <2>15 DEF TimeoutReap, Return
  <2>16. CASE CallerGone
    BY <2>16 DEF CallerGone, Kill
  <2>17. CASE \E n \in 1 .. Buf : ReadErr(n)
    BY <2>17 DEF ReadErr, TakeErr, Kept
  <2>18. CASE ErrEnds
    BY <2>18 DEF ErrEnds, Drained
  <2>19. CASE ErrReadFails
    BY <2>19 DEF ErrReadFails
  <2>20. CASE UNCHANGED extraction
    BY <2>20 DEF extraction
  <2>21. QED
    BY <2>1, <2>2, <2>3, <2>4, <2>5, <2>6, <2>7, <2>8, <2>9, <2>10, <2>11, <2>12, <2>13, <2>14, <2>15, <2>16, <2>17, <2>18, <2>19, <2>20
    DEF ExtractionNext, ChildStep, ReadStep, WaitStep, ErrStep, Over
<1>3. QED
  BY <1>1, <1>2, PTL DEF ExtractionSpec

(* A 200 carries the whole document: a Success is the complete output of a
   child that exited with 0, unless reading the pipe itself failed.         *)
THEOREM SuccessAlwaysComplete == ExtractionSpec => []SuccessIsComplete
<1>1. IInv => SuccessIsComplete
  BY DEF IInv, OutcomeInv
<1>2. QED
  BY <1>1, IInvAlways, PTL

(* The output cap bounds what is kept and nothing else is called too large.  *)
THEOREM CapAlwaysExact == ExtractionSpec => []CapIsExact
<1>1. IInv => CapIsExact
  BY DEF IInv, OutcomeInv
<1>2. QED
  BY <1>1, IInvAlways, PTL

(* No child is left running behind an outcome or a caller that went away.    *)
THEOREM ChildNeverSurvives == ExtractionSpec => []NoChildSurvives
<1>1. IInv => NoChildSurvives
  BY DEF IInv, ChildInv, NoChildSurvives
<1>2. QED
  BY <1>1, IInvAlways, PTL

(* A structured failure is parsed from everything the child said, or from the
   first ErrCap bytes of it.                                                 *)
THEOREM MessageAlwaysWhole == ExtractionSpec => []MessageIsWhole
<1>1. IInv => MessageIsWhole
  BY DEF IInv, OutcomeInv
<1>2. QED
  BY <1>1, IInvAlways, PTL
=============================================================================
