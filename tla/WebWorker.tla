----------------------------- MODULE WebWorker ------------------------------
(***************************************************************************)
(* The worker of the browser build (web/worker.js): one thread, messages   *)
(* handled by an async function that awaits the Rust module and, for a     *)
(* PDF, PDFium.  Handlers interleave at their awaits; an extraction itself *)
(* runs to its end.  The promises of the two modules are made once and     *)
(* kept, also when they are rejected.                                      *)
(*                                                                         *)
(* A file is [len, marks]: its length and the places where "%PDF-" starts  *)
(* in it; Header is the window the marker may start in (1024 in the code). *)
(***************************************************************************)
EXTENDS Integers, FiniteSets

CONSTANTS
    Ids,      \* the messages of the page
    Files,    \* what they carry
    Header,   \* 1024
    Marker,   \* 5, the length of the marker
    UnitCap   \* OUTPUT_CAP_UNITS

VARIABLES
    wasm,      \* wasmInitPromise: "none", "pending", "resolved" or "rejected"
    pdfium,    \* pdfiumInitPromise
    inits,     \* how often PDFium was initialised
    file,      \* the file of each message
    at,        \* each message: "unsent", "queued", "wasm", "pdfium", "done"
    replies,   \* what was posted, in order: [id, is]
    calls      \* history: the messages that were extracted, and whether PDFium was there

vars == <<wasm, pdfium, inits, file, at, replies, calls>>

Settled(promise) == promise \in {"resolved", "rejected"}

\* sniff_format of docray-core: a marker in the first Header + Marker - 1 bytes
\* that starts before Header; the first one decides.
Lesser(a, b) == IF a < b THEN a ELSE b

IsPdf(f) ==
    LET found == {p \in f.marks : p + Marker <= Lesser(f.len, Header + Marker - 1)}
    IN  found # {} /\ (CHOOSE p \in found : \A q \in found : p <= q) < Header

\* sniffFormat of the worker, one place too short.
JsIsPdfShort(f) == \E p \in f.marks : p <= Lesser(f.len - Marker, Header - 2)

\* sniffFormat of the worker.
JsIsPdf(f) == \E p \in f.marks : p <= Lesser(f.len - Marker, Header - 1)

\* The Rust module is loaded eagerly.
Init ==
    /\ wasm = "pending" /\ pdfium = "none" /\ inits = 0
    /\ file \in [Ids -> Files]
    /\ at = [i \in Ids |-> "unsent"] /\ replies = {} /\ calls = {}

Send(i) ==
    /\ at[i] = "unsent" /\ at' = [at EXCEPT ![i] = "queued"]
    /\ UNCHANGED <<wasm, pdfium, inits, file, replies, calls>>

Settle(outcome) ==
    /\ wasm = "pending" /\ wasm' = outcome
    /\ UNCHANGED <<pdfium, inits, file, at, replies, calls>>

SettlePdfium(outcome) ==
    /\ pdfium = "pending" /\ pdfium' = outcome
    /\ UNCHANGED <<wasm, inits, file, at, replies, calls>>

\* onmessage, to its first await; the promise is there already.
Handle(i) ==
    /\ at[i] = "queued" /\ at' = [at EXCEPT ![i] = "wasm"]
    /\ UNCHANGED <<wasm, pdfium, inits, file, replies, calls>>

Reply(i, is) ==
    /\ at' = [at EXCEPT ![i] = "done"]
    /\ replies' = replies \cup {[id |-> i, is |-> is]}

\* The answer that is too large is not posted.
ExtractSilent(i) ==
    /\ calls' = calls \cup {[id |-> i, ready |-> pdfium = "resolved"]}
    /\ \/ Reply(i, "error") \/ Reply(i, "crash") \/ Reply(i, "ok")
       \/ at' = [at EXCEPT ![i] = "done"] /\ UNCHANGED replies

\* The synchronous part: the extraction and the check of the output's length.
Extract(i) ==
    /\ calls' = calls \cup {[id |-> i, ready |-> pdfium = "resolved"]}
    /\ \/ Reply(i, "error") \/ Reply(i, "crash")
       \/ \E units \in {UnitCap, UnitCap + 1} :
             Reply(i, IF units > UnitCap THEN "output_too_large" ELSE "ok")

\* After the first await: PDFium is started by the first PDF.
StartPdfium ==
    IF pdfium = "none" THEN pdfium' = "pending" /\ inits' = inits + 1
    ELSE UNCHANGED <<pdfium, inits>>

Resume(i) ==
    /\ at[i] = "wasm" /\ Settled(wasm)
    /\ \/ /\ wasm = "rejected" /\ Reply(i, "crash")
          /\ UNCHANGED <<pdfium, inits, calls>>
       \/ /\ wasm = "resolved" /\ JsIsPdf(file[i])
          /\ at' = [at EXCEPT ![i] = "pdfium"] /\ StartPdfium
          /\ UNCHANGED <<replies, calls>>
       \/ /\ wasm = "resolved" /\ ~ JsIsPdf(file[i])
          /\ Extract(i) /\ UNCHANGED <<pdfium, inits>>
    /\ UNCHANGED <<wasm, file>>

ResumePdf(i) ==
    /\ at[i] = "pdfium" /\ Settled(pdfium)
    /\ IF pdfium = "rejected" THEN Reply(i, "crash") /\ UNCHANGED calls ELSE Extract(i)
    /\ UNCHANGED <<wasm, pdfium, inits, file>>

Loads == \E outcome \in {"resolved", "rejected"} : Settle(outcome) \/ SettlePdfium(outcome)

Loop(i) == Handle(i) \/ Resume(i) \/ ResumePdf(i)

Next == Loads \/ \E i \in Ids : Send(i) \/ Loop(i)

\* The event loop takes every message and every continuation in its turn, and a
\* load comes to an end.
Fairness == WF_vars(Loads) /\ \A i \in Ids : WF_vars(Loop(i))

Spec == Init /\ [][Next]_vars

FairSpec == Spec /\ Fairness
-----------------------------------------------------------------------------
(* A PDF reaches the Rust module only when PDFium was initialised, and     *)
(* that is done once however the handlers interleave; the worker and the   *)
(* Rust module agree on what a PDF is, wherever its marker stands.         *)
PdfiumReady ==
    /\ inits <= 1
    /\ \A c \in calls : IsPdf(file[c.id]) => c.ready

(* Every message is answered once, under its id, also when a module could  *)
(* not be loaded.                                                          *)
AnsweredOnce ==
    /\ \A i \in Ids : at[i] = "done" => Cardinality({r \in replies : r.id = i}) = 1
    /\ \A r \in replies : at[r.id] = "done"

EveryMessageAnswered ==
    \A i \in Ids : at[i] = "queued" ~> \E r \in replies : r.id = i
=============================================================================
