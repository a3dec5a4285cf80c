----------------------------- MODULE MCFrontEnds -----------------------------
(***************************************************************************)
(* The ways into the program: a request asked of the command line, the     *)
(* service or the Rust module of the browser (FrontEnds), messages in the  *)
(* worker of the browser (WebWorker), or the child process that the two    *)
(* routes of the service go through (WorkerProcess). A behaviour is one of *)
(* the three; the variables of the others rest.                            *)
(***************************************************************************)
EXTENDS FrontEnds, WorkerProcess

CONSTANTS Ids, Header, Marker, UnitCap   \* those of WebWorker

ASSUME WindowAssumption == Header \in Nat /\ Marker \in Nat

VARIABLES side, wasm, pdfium, inits, file, at, replies, calls

\* Page texts as the numbers between their dashes.
PageTexts ==
    {<<2>>, <<0>>, <<1, 3>>, <<3, 2>>, <<1, 2, 3>>, <<>>, <<NaN, 2>>, <<0, 4>>, <<1, 4>>, <<4>>, <<4, 5>>}

\* Every file of up to Header + Marker units, with a marker wherever it fits.
BrowserFiles ==
    {f \in [len : 0 .. Header + Marker, marks : SUBSET (0 .. Header)] : \A p \in f.marks : p + Marker <= f.len}

Web == INSTANCE WebWorker WITH Files <- BrowserFiles

asked == <<request, way, row, fault, answer>>
web == <<wasm, pdfium, inits, file, at, replies, calls>>

Idle(v) == v = "idle"

\* No child is or was.
NoExtraction ==
    /\ want = 0 /\ wantErr = 0 /\ plan = "zero" /\ hangs = FALSE
    /\ child = "none" /\ code = "none" /\ sent = 0 /\ sentErr = 0
    /\ pc = "returned" /\ reading = FALSE /\ seen = 0 /\ out = 0 /\ outcome = "none"
    /\ errTask = "none" /\ seenErr = 0 /\ err = 0 /\ osError = FALSE

FrontInit ==
    \/ /\ side = "asked" /\ Init /\ NoExtraction
       /\ Idle(wasm) /\ Idle(pdfium) /\ Idle(inits) /\ Idle(file) /\ Idle(at) /\ Idle(replies) /\ Idle(calls)
    \/ /\ side = "web" /\ Web!Init /\ NoExtraction
       /\ Idle(request) /\ Idle(way) /\ Idle(row) /\ Idle(fault) /\ Idle(answer)
    \/ /\ side = "child" /\ ExtractionInit
       /\ Idle(request) /\ Idle(way) /\ Idle(row) /\ Idle(fault) /\ Idle(answer)
       /\ Idle(wasm) /\ Idle(pdfium) /\ Idle(inits) /\ Idle(file) /\ Idle(at) /\ Idle(replies) /\ Idle(calls)

FrontNext ==
    /\ UNCHANGED side
    /\ \/ side = "asked" /\ Next /\ UNCHANGED <<web, extraction>>
       \/ side = "web" /\ Web!Next /\ UNCHANGED <<asked, extraction>>
       \/ side = "child" /\ ExtractionNext /\ UNCHANGED <<asked, web>>

\* WebWorker!Fairness, of the behaviours that are its own.
WebFairness ==
    /\ WF_web(side = "web" /\ Web!Loads)
    /\ \A i \in Ids : WF_web(side = "web" /\ Web!Loop(i))

FrontSpec ==
    /\ FrontInit /\ [][FrontNext]_<<side, asked, web, extraction>>
    /\ WebFairness /\ ExtractionFairness
------------------------------------------------------------------------------
(* No input, options or stored row reach a panic (FrontEnds).              *)
NoPanicAnywhere == side = "asked" => NoPanic

(* The ways answer one request alike, up to what each says of itself       *)
(* (FrontEnds).                                                            *)
WaysAgreeAlways == side = "asked" => WaysAgree

(* The Rust module gets a PDF only once PDFium is ready, which is started  *)
(* once, and a message is answered once (WebWorker).                       *)
PdfiumReady == side = "web" => Web!PdfiumReady /\ Web!AnsweredOnce

(* Every message the worker takes is answered, also when a module could    *)
(* not be loaded (WebWorker).                                              *)
EveryMessageAnswered ==
    \A i \in Ids : (side = "web" /\ at[i] = "queued") ~> (side = "web" /\ \E r \in replies : r.id = i)

\* What the steps of the worker keep, from which PdfiumReady follows: PDFium is
\* started when the first PDF waits for it, and what is at "pdfium" is answered
\* after that; replies are posted by handlers that end there.
WebInv ==
    /\ pdfium \in {"none", "pending", "resolved", "rejected"}
    /\ inits = IF pdfium = "none" THEN 0 ELSE 1
    /\ file \in [Ids -> BrowserFiles]
    /\ at \in [Ids -> {"unsent", "queued", "wasm", "pdfium", "done"}]
    /\ \A i \in Ids : at[i] = "pdfium" => pdfium # "none"
    /\ \A i \in Ids : at[i] = "done" => \E r \in replies : r.id = i
    /\ \A r \in replies : r.id \in Ids /\ at[r.id] = "done"
    /\ \A r, q \in replies : r.id = q.id => r = q
    /\ \A c \in calls : c.id \in Ids /\ (Web!JsIsPdf(file[c.id]) => c.ready)

WorkerInv == side = "web" => WebInv

\* What the steps of the ways keep, from which NoPanic and WaysAgree follow: an
\* answer is what the way says of the request and of what went wrong.
WaysInv ==
    /\ request \in Requests /\ way \in Ways
    /\ row # <<>> => way = "job" /\ row = <<Options(request)>> /\ Create(request, "none") = <<>>
    /\ answer # <<>> =>
         \/ /\ way = "cli" /\ fault \in {"none", "disk"}
            /\ answer = Written(Cli(request, <<>>), fault)
         \/ way = "sync" /\ answer = Sync(request, fault)
         \/ way = "job" /\ row = <<>> /\ answer = Create(request, fault)
         \/ /\ way = "job" /\ row # <<>>
            /\ answer = Written(Claimed(row[1], Child(row[1], <<>>, fault)), fault)
         \/ way = "browser" /\ answer = Wasm(request, fault) /\ CanBrowse(request)

AskedInv == side = "asked" => WaysInv
==============================================================================
