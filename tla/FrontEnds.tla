----------------------------- MODULE FrontEnds ------------------------------
(***************************************************************************)
(* One document asked for in one of four ways: from the command line       *)
(* (docray-cli), from the server with the answer awaited or as a job       *)
(* (docray-server), and from the browser build (docray-wasm).  Each checks *)
(* the options and the input itself, in its own order; the server hands    *)
(* both on to a command line, through a row of the job table for a job.    *)
(*                                                                         *)
(* A request is [input, document, level, format, classify, pages]: input   *)
(* is what the first bytes say it is and document what is behind them, its *)
(* pages and whether it can be read; level is the granularity, "none" when *)
(* it is absent and "bad" when it is no granularity; pages is <<>> or      *)
(* <<text>>, a text of PageSelection.  The input "missing" is a path that  *)
(* cannot be read, or an upload without a file.                            *)
(*                                                                         *)
(* One thing may go wrong beside the request (fault).  "large": the input  *)
(* is over the size cap of its way (or the upload breaks off, which the    *)
(* synchronous route answers alike); "disk": a file of the way itself      *)
(* cannot be written; "store": the row cannot be; and of the child,        *)
(* "io": it cannot be started, or cannot read or write; "timeout";         *)
(* "killed": it dies of a signal, its own memory limit included;           *)
(* "bulky": its output, or that of the browser build, is over the cap.     *)
(***************************************************************************)
EXTENDS PageSelection, FiniteSetsExt

CONSTANTS
    Texts,      \* the page texts asked with
    SyncLimit,  \* the page limit of POST /v1/extract
    Sizes       \* page counts of the documents

Inputs == {"pdf", "pptx", "docx", "zip", "badzip", "cfb", "other", "missing"}
Levels == {"none", "element", "word", "char", "bad"}
Formats == {"json", "lean", "md", "bad"}
Ways == {"cli", "sync", "job", "browser"}

ASSUME TextsAssumption == Texts \subseteq Seq(Int)

ASSUME PagesAssumption == Sizes \subseteq Nat /\ SyncLimit \in Nat

ChildFaults == {"io", "timeout", "killed", "bulky"}

VARIABLES
    request,
    way,     \* the way it is asked for
    row,     \* the row of the job, <<>> before there is one
    fault,   \* what went wrong, "none" before anything did
    answer   \* what was answered, <<>> before it was

vars == <<request, way, row, fault, answer>>

Error(code) == <<[is |-> "error", code |-> code]>>
Panic == <<[is |-> "panic"]>>
Output(level, format, classify) ==
    <<[is |-> "output", level |-> level, format |-> format, classify |-> classify]>>

\* The first of a sequence of <<failed, code>> that failed decides.
FirstOf(checks, otherwise) ==
    LET failed == {i \in DOMAIN checks : checks[i][1]}
    IN  IF failed = {} THEN otherwise ELSE Error(checks[Min(failed)][2])

Reading(format) == format \in {"lean", "md"}

Rank(level) == CASE level = "element" -> 1 [] level = "word" -> 2 [] OTHER -> 3

\* The extractors' capabilities; an OLE2 file goes to the PowerPoint one.
Finest(input) == IF input = "pdf" THEN "char" ELSE "element"

\* check_granularity: no level is the finest one.
Unavailable(input, level) == Rank(level) > Rank(Finest(input))

\* sniff_format and sniff_opc: a broken package, and what has no backend.
Sniffed(input) == <<input = "badzip", "parse_failure">>

NoBackend(input) == <<input \in {"zip", "other"}, "unsupported_format">>

\* check_page_limit: the pages there are or the pages selected.
Beyond(document, sel, limit) ==
    limit # <<>> /\ (IF sel = <<>> THEN document.pages ELSE Count(sel[1])) > limit[1]

\* The three extractors, up to their first page.
Backend(q, sel, limit, otherwise) ==
    IF q.input = "pdf"
    THEN FirstOf(<<<<q.document.broken # "no", q.document.broken>>,
                   <<sel # <<>> /\ sel[1].end > q.document.pages, "page_out_of_range">>,
                   <<Beyond(q.document, sel, limit), "too_many_pages">>>>, otherwise)
    ELSE FirstOf(<<<<sel # <<>>, "page_selection_unsupported">>,
                   <<q.input = "cfb", "unsupported_format">>,
                   <<q.document.broken # "no", "parse_failure">>,
                   <<Beyond(q.document, sel, limit), "too_many_pages">>>>, otherwise)

PagesBad(pages) == pages # <<>> /\ ~ Parses(pages[1])

Selection(pages) == IF pages = <<>> \/ PagesBad(pages) THEN <<>> ELSE <<Parsed(pages[1])>>
-----------------------------------------------------------------------------
\* A Word file is flow: it has one level only, and the code expects to have
\* been given that.
Rendered(input, level, format, classify) ==
    IF \/ format = "lean" /\ level \in {"none", "char"}
       \/ input = "docx" /\ format # "md" /\ level # "element"
    THEN Panic
    ELSE Output(IF format = "md" \/ level = "none" THEN "whole" ELSE level, format,
                classify /\ input # "docx")

\* The default of the format forgotten.
CliLevelPlain(q) ==
    IF q.level # "none" THEN q.level
    ELSE IF Reading(q.format) THEN "element" ELSE "none"

\* The level of a reading format, and of a format that has no finer one.
CliLevel(q) ==
    IF q.level # "none" THEN q.level
    ELSE IF Reading(q.format) \/ Finest(q.input) # "char" THEN "element" ELSE "none"

\* The order of the checks of run_extract; the parser of the command line sees
\* the granularity first.
Cli(q, limit) ==
    FirstOf(<<<<q.level = "bad", "usage">>,
              <<q.format = "bad", "bad_format">>,
              <<q.classify /\ q.format # "json", "bad_format">>,
              <<Reading(q.format) /\ q.level = "char", "bad_format">>,
              <<q.input = "missing", "io_error">>,
              Sniffed(q.input), NoBackend(q.input),
              <<PagesBad(q.pages), "bad_pages">>,
              <<Unavailable(q.input, CliLevel(q)), "granularity_unavailable">>>>,
            Backend(q, Selection(q.pages), limit,
                    Rendered(q.input, CliLevel(q), q.format, q.classify)))

\* The reading formats let through with any level.
RefusalPlain(q) ==
    FirstOf(<<<<q.level = "bad", "bad_granularity">>,
              <<q.format = "bad", "bad_format">>,
              <<q.classify /\ q.format # "json", "bad_format">>,
              <<PagesBad(q.pages), "bad_pages">>>>, <<>>)

\* requested_output of the server.
Refusal(q) ==
    FirstOf(<<<<q.level = "bad", "bad_granularity">>,
              <<q.format = "bad", "bad_format">>,
              <<q.classify /\ q.format # "json", "bad_format">>,
              <<PagesBad(q.pages), "bad_pages">>,
              <<Reading(q.format) /\ q.level = "char", "bad_format">>>>, <<>>)

\* The options as they are handed on, to the row or to the command line.
Options(q) ==
    [q EXCEPT !.level = IF Reading(q.format) /\ @ = "none" THEN "element" ELSE @,
              !.pages = IF @ = <<>> THEN <<>> ELSE <<ToText(Parsed(@[1]))>>]

IsOutput(said) == said[1].is = "output"

\* What is said is written down, to stdout or to the result's file.
Written(said, f) == IF f = "disk" /\ IsOutput(said) THEN Error("io_error") ELSE said

\* CappedVec, CappedString: an output over the cap of the browser build.
Capped(said, f) == IF f = "bulky" /\ IsOutput(said) THEN Error("output_too_large") ELSE said

\* run_extraction: the command line of the child, and what becomes of it; a
\* panic is an exit out of the structured ones, a refusal of the parser leaves
\* no error object.
Child(options, limit, f) ==
    LET said == Cli(options, limit)
    IN  FirstOf(<<<<f = "io", "io_error">>,
                  <<f = "timeout", "timeout">>,
                  <<f = "killed" \/ said = Panic, "crash">>,
                  <<f = "bulky" /\ IsOutput(said), "output_too_large">>,
                  <<said = Error("usage"), "exit_2">>>>, said)

\* sync_extract: the options, the upload, the temporary file, the child.
Sync(q, f) ==
    IF Refusal(q) # <<>> THEN Refusal(q)
    ELSE FirstOf(<<<<q.input = "missing", "missing_file">>,
                   <<f = "large", "too_large">>,
                   <<f = "disk", "io_error">>>>, Child(Options(q), <<SyncLimit>>, f))

\* create_job: the options, the upload streamed to disk, the row.
Create(q, f) ==
    IF Refusal(q) # <<>> THEN Refusal(q)
    ELSE FirstOf(<<<<f = "disk", "io_error">>,
                   <<q.input = "missing", "missing_file">>,
                   <<f = "large", "too_large">>,
                   <<f = "store", "store_error">>>>, <<>>)

\* claim_next: a text that does not parse ends the worker.
Claimed(r, said) == IF r.pages # <<>> /\ ~ Parses(r.pages[1]) THEN Panic ELSE said

\* reading_granularity of the browser build; its JSON has the level parsed.
WasmLevel(q) ==
    IF q.level = "none" /\ (Reading(q.format) \/ q.input \in {"pptx", "docx"}) THEN "element" ELSE q.level

\* extract_inner, extract_lean_inner, extract_markdown_inner, then
\* extract_document.  An OLE2 file goes to the extractor unchecked.
Wasm(q, f) ==
    FirstOf(<<<<f = "large", "too_large">>,
              <<Reading(q.format) /\ q.level \in {"char", "bad"}, "bad_format">>,
              <<q.level = "bad", "parse_failure">>,
              Sniffed(q.input), NoBackend(q.input),
              <<q.input # "cfb" /\ Unavailable(q.input, WasmLevel(q)), "granularity_unavailable">>>>,
            Capped(Backend(q, <<>>, <<>>, Rendered(q.input, WasmLevel(q), q.format, q.classify)), f))
-----------------------------------------------------------------------------
Documents ==
    {d \in [pages : Sizes, broken : {"no", "encrypted_pdf", "parse_failure"}] :
       d.broken # "no" => d.pages = Min(Sizes)}

Requests ==
    [input : Inputs, document : Documents, level : Levels, format : Formats, classify : BOOLEAN,
     pages : {<<>>} \cup {<<t>> : t \in Texts}]

Init ==
    /\ request \in Requests /\ way \in Ways
    /\ row = <<>> /\ fault = "none" /\ answer = <<>>

Asked(w) ==
    /\ way = w /\ answer = <<>>
    /\ UNCHANGED <<request, way>>

RunCli ==
    /\ Asked("cli") /\ UNCHANGED row
    /\ fault' \in {"none", "disk"}
    /\ answer' = Written(Cli(request, <<>>), fault')

SyncExtract ==
    /\ Asked("sync") /\ UNCHANGED row
    /\ fault' \in {"none", "large", "disk"} \cup ChildFaults
    /\ answer' = Sync(request, fault')

CreateJob ==
    /\ Asked("job") /\ row = <<>>
    /\ fault' \in {"none", "large", "disk", "store"}
    /\ answer' = Create(request, fault')
    /\ row' = IF answer' = <<>> THEN <<Options(request)>> ELSE <<>>

\* What is recorded of it in the row; when nothing can be, see JobSystem.
ProcessJob ==
    /\ Asked("job") /\ row # <<>> /\ UNCHANGED row
    /\ fault' \in {"none", "disk"} \cup ChildFaults
    /\ answer' = Written(Claimed(row[1], Child(row[1], <<>>, fault')), fault')

\* The browser build has no pages to select and no format of another name.
CanBrowse(q) ==
    /\ q.input # "missing" /\ q.pages = <<>> /\ q.format # "bad"
    /\ q.classify => q.format = "json"

Browse ==
    /\ Asked("browser") /\ CanBrowse(request) /\ UNCHANGED row
    /\ fault' \in {"none", "large", "bulky"}
    /\ answer' = Wasm(request, fault')

Next == RunCli \/ SyncExtract \/ CreateJob \/ ProcessJob \/ Browse

Spec == Init /\ [][Next]_vars
-----------------------------------------------------------------------------
\* The codes by which each way refuses the options.
Refused(said) == said \in {Error(c) : c \in {"usage", "bad_granularity", "bad_format", "bad_pages"}}

(* No input and no options reach an expect or an unreachable!, neither in  *)
(* the command line nor in the browser, nor the worker that reads a row: a *)
(* crash is reported only of a child that was killed; and the child of the *)
(* server never refuses an option the server let through, which it would   *)
(* report as a failure of its own.                                         *)
NoPanic ==
    /\ answer \notin {Panic, Error("exit_2")}
    /\ answer = Error("crash") => fault = "killed"
    /\ way \in {"sync", "job"} /\ Refused(answer) => answer = Refusal(request)

\* The code each fault is answered with.
CodeOf(f) ==
    CASE f = "large" -> "too_large" [] f \in {"disk", "io"} -> "io_error" [] f = "store" -> "store_error"
      [] f = "timeout" -> "timeout" [] f = "killed" -> "crash" [] OTHER -> "output_too_large"

\* What a way may differ in from what the command line says: it answers for
\* what went wrong in it, the options are checked before or after the input,
\* the server wants an upload and has a limit of pages, an OLE2 file is not
\* checked in the browser.
SameAsCli ==
    LET said == Cli(request, <<>>)
    IN  \/ answer = said
        \/ fault # "none" /\ answer = Error(CodeOf(fault)) /\ (fault = "bulky" => IsOutput(said))
        \/ way \in {"sync", "job"} /\ Refusal(request) # <<>> /\ said[1].is = "error"
        \/ way \in {"sync", "job"} /\ request.input = "missing" /\ answer = Error("missing_file")
        \/ way = "sync" /\ answer = Error("too_many_pages") /\ IsOutput(said)
        \/ way = "browser" /\ request.level = "bad" /\ said = Error("usage")
        \/ way = "browser" /\ request.input = "cfb" /\ said = Error("granularity_unavailable")

\* The pages asked for, all of them or from the first to the last.
PagesAsked ==
    IF request.pages = <<>> THEN request.document.pages
    ELSE LET text == request.pages[1] IN text[Len(text)] - text[1] + 1

(* The same document and options have the same outcome in every way: the   *)
(* same output, or an error with the same code, but for what SameAsCli     *)
(* lists.  The synchronous route gives out nothing over its limit of pages *)
(* and turns away for it only what is over it, also where the selection    *)
(* ends at the last number a page can have.                                *)
WaysAgree ==
    answer # <<>> =>
        /\ SameAsCli
        /\ way = "sync" /\ IsOutput(answer) => PagesAsked <= SyncLimit
        /\ answer = Error("too_many_pages") => way = "sync" /\ PagesAsked > SyncLimit
=============================================================================
