# docray in TLA+

docray extracts PDF, PPTX and DOCX files to JSON, lean text or Markdown. It is a
Rust workspace: a document model, four extraction crates, a command line program,
a browser build, and an HTTP server that runs the command line program as a child
process per document. This directory specifies the service with its failures and
interleavings, the ways into the program, and the converters with their limits and
geometry; checks them with TLC on small instances; and proves with TLAPS, for all
instances, the main results about the service, the ways in, the stories of a Word document,
the pages and texts of a PDF, the regrouping of its glyphs, the OOXML package, the slides of a presentation and the labels of lists.

## 1. Inventory

Paths are relative to `src/crates/` unless they start with `src/`.

| Component | State it keeps | Operations | What is hard, and what makes it correct |
|---|---|---|---|
| Job store, `docray-server/src/jobs.rs` | SQLite table `jobs` (status, times, paths, options) behind a mutex | `new` (requeues `running` rows), `create`, `claim_next`, `mark_succeeded`, `mark_failed`, `get`, `sweep_expired` | Each call is atomic, the work between two calls is not. A job has one worker; an outcome is final; nothing is deleted before its time; a crash loses no accepted job |
| Server process, `docray-server/src/main.rs` | worker tasks, sweeper task, listener | start, bind, crash, graceful shutdown, `process_job` | Store opened and workers running before the port is bound; outcomes recorded in several steps; errors while recording are only logged |
| Job routes, `docray-server/src/http.rs` | `uploads/<id>`, `results/<id>.<ext>` | `create_job`, `stream_upload_to_file`, `job_status`, `job_result` | Row and files are updated separately; an upload can break off anywhere; the sweeper works without the lock |
| Sync route, same file | semaphore, temporary file, active counter | `sync_extract`, `read_upload`, `outcome_to_response` | Cancellation at any await; the bound on children; everything given back |
| Extraction child, `docray-server/src/worker.rs` | child process, two pipes, stderr task, timer | `run_extraction` | Two pipes drained concurrently, cap, timer and cancellation racing each other and the child |
| Configuration, `docray-server/src/config.rs` | environment values | `from_env` | Extreme values: 0 workers, a time to live beyond i64 |
| Telemetry, `docray-server/src/telemetry.rs` | counters, active count | `begin_extraction`, `record`, `shutdown` | The active counter under cancellation; what is counted when |
| Command line, `docray-cli/src/main.rs` | none | `run_extract`, `write_stdout`, exit codes | Order of validation; the exit codes the server classifies |
| Core, `docray-core/src/` | none | `sniff_format`, `PageSelection`, `check_granularity`, `ExtractError` | Page ranges at the ends of u32; CLI, server and browser agreeing on errors |
| Browser build, `docray-wasm/src/lib.rs`, `src/web/worker.js` | initialisation promises | `extract`, message handler | Same dispatch as the CLI; handlers that interleave at their awaits over promises that are kept, also rejected ones |
| OOXML, `docray-ooxml/src/` | bytes read so far, element stack | `OpcPackage::read`, `resolve_target`, `parse` | Limits that must hold over any sequence of reads and tags; names that must not leave the package; one branch of each alternate |
| DOCX, `docray-docx/src/` | field machine, list counters, story and page state | `extract` | Nested fields cut off by their container; counters over levels and overrides; page estimate against a page cap |
| PPTX, `docray-pptx/src/` | package, group stack, warnings | `extract` | One slide failing, three layers per slide, places inherited from placeholders and composed through groups |
| PDF, `docray-pdf/src/` | page buffer, form stack, text quality | `extract`, `bind` | Page range against cap and document length; one page, object or form failing; matrices of nested forms on a turned page |
| Model, `docray-model/src/` | none | grouping, regrouping, Markdown, lean | Glyphs to lines, lines to blocks, rulings to tables: every text once, in order, and the cells the rulings close off |

How they interact: the HTTP handlers and the worker tasks share the job store
(calls under a mutex) and the data directory (plain files); a worker task and a
sync handler each call `run_extraction`, which talks to its child by two pipes
and an exit status; the child is the command line program, which calls core and
one extraction crate. The sweeper shares table and files with everybody.
Everything but the table and the files is lost when the process dies.

`PROJECT.json` lists the components with their status and, under `hazards`, what
in this code is hard to test, each at its line, with the properties that cover it.

## 2. Modules

| Module | Models | Notes |
|---|---|---|
| `JobLifecycle` | what a client is promised | one phase per job; the abstract specification |
| `JobSystem` | job store, server process, worker loops, sweeper, `POST /v1/jobs` | the core; states its own properties |
| `JobReaders` | `JobSystem` with clients polling `GET /v1/jobs/{id}/result` | composition: every step of the service, plus the two steps of a read |
| `WorkerProcess` | `run_extraction` with its child | |
| `BoundedPool` | what the documentation promises of synchronous extractions | at most N children, the others wait; the abstract specification |
| `SyncPool` | `sync_extract`, the semaphore, the active counter of both pools | states its own properties |
| `FrontEnds` | the options and the input on their four ways in: command line, `POST /v1/extract`, `POST /v1/jobs`, browser | uses `PageSelection` |
| `PageSelection` | `selection.rs`: parsing, printing, counting in u32 | operators |
| `WebWorker` | `worker.js`: promises, messages, sniffing | |
| `DocxStory` | the body of a Word document on its way to blocks: fields, breaks, page hints, cap, sections, notes | states its own properties |
| `DocxTable` | tables of a Word document: spans, merges, cell stories, nesting, and as Markdown | |
| `DocxNumbering` | list counters and labels | |
| `PdfExtract` | pages, objects, forms, glyphs and annotations of a PDF | uses `PdfGeometry` (matrices, page turn), `TextLines` (glyphs to lines and words), `PageSelection` |
| `OpcPackage` | opening a package, reading its parts, relations and targets | |
| `PptxDeck` | a presentation down to the parts of each slide | extends `OpcPackage` |
| `PptxSlide` | the shapes of a slide through layers, groups and placeholders | uses `PptxText`, `PptxTable`, `PdfGeometry` |
| `XmlTree` | the XML reader: limits, scopes, alternate content | |
| `GlyphRegroup` | pages whose text came out one glyph at a time | extends `TextLines` |
| `MarkdownPage` | the Markdown of a paged document | on `MarkdownAlign` (borderless tables) on `MarkdownGrid` (ruled tables) |
| `MCJobs` | instance of `JobSystem` for TLC | symmetry of jobs and worker slots |
| `MCFrontEnds` | `FrontEnds`, `WebWorker` and `WorkerProcess` side by side | a behaviour is one of the three; the state of the others rests |
| `Converters` | the converters side by side | a behaviour is one of the converter `mode` names |
| `MCConversions` | instance of `Converters` for TLC | `MCPdf`, `MCDecks`, `MCSlides`, `MCXml`, `MCMarkdown`, `MCLists`, `MCGlyphs` hold the documents |
| `MCNestedGrids` | `MarkdownPage` on two pages | section 4 |
| `ListProofs` | lemmas on numbers, lists, `FlattenSeq` and what is computed step by step | the other modules with proofs extend it |
| `ServerProofs` | theorems on `JobSystem`, `JobReaders` and `SyncPool` | section 5 |
| `FrontEndProofs` | theorems on `FrontEnds`, `PageSelection` and `WebWorker`, and on the child, `WorkerProcess` | section 5 |
| `DocxStoryProofs` | theorems on `DocxStory`: the fields; blocks, pages, ids, texts, breaks and the cap | section 5 |
| `PdfExtractProofs` | theorems on `PdfExtract`, `TextLines`, `PdfGeometry` and `GlyphRegroup`: pages, objects, places, lines and words, glyphs that are grouped again | section 5 |
| `PackageProofs` | theorems on `OpcPackage` and `PptxDeck`: limits, targets, slides | section 5 |
| `SlideProofs` | theorems on `PptxSlide`, `PptxText` and `PptxTable`: shapes, places, texts, tables, charts | section 5 |
| `ConverterProofs` | theorems on `Converters`, and on `DocxNumbering`: counters and labels | section 5 |

### JobSystem

*State.* `status`, `created`, `updated`, `hasResult` are the columns of the table
that steer anything (a missing row is `"absent"`); `upload` and `result` are the
two files of a job (`"none"`, `"partial"`, `"full"`). Per server process `up`, per
job the program counter `hpc` of its `create_job`, per worker task `wpc` and the
claimed job `wjob`, per server the sweeper's `spc` with the lists it holds while
the lock is released: candidates `cand`, those whose row had a `result_path`
(`named`), and `cleaned`. `claims` and `stranded` are history. `now` is the clock
in seconds.

*Steps.* A step is what happens between two points where another task, a crash
or an error can come in:

| Code | Actions |
|---|---|
| `main`, up to the listener: `JobStore::new`, `tokio::spawn` of workers and sweeper | `StartServer` |
| `TcpListener::bind` | `Bind`, `BindFails` (exit 1 with the workers running) |
| process death; SIGTERM with `with_graceful_shutdown` | `Crash`; `Shutdown` |
| `create_job` / `stream_upload_to_file` | `BeginUpload`, `FinishUpload` (ends with the clock read of `create`), `UploadFails`, `Insert`, `InsertFails` |
| worker loop | `Claim` (the one UPDATE ... RETURNING), `PollEmpty` |
| `process_job` | `ExtractSucceeds`, `ExtractFails` (every other outcome, and the caught panic), `OpenResult`, `FillResult`, `SaveFails` (`std::fs::write` truncates, writes, or leaves a part), `MarkSucceeded`, `MarkFailed`, `MarkErrors` |
| `sweep_expired` (a), (b), (c) | `SweepCollect`, `SweepFiles` per candidate, `SweepRows` |

`MarkRow` does what the two UPDATEs do: it changes the row whatever status it
has, and nothing when it is gone. That no outcome is ever overwritten is
therefore a property of the whole system and not of a guard.

`Cutoff` keeps the width of `now() - ttl_secs as i64`: `Half` stands for 2^63,
the cast and the subtraction wrap (release builds do not trap overflow).

`Crash` is the death of the process alone (a signal, no memory left): uploads and results are
written without `fsync`, so a loss of power could take files back that the model keeps, and
nothing here speaks of that.

Several servers may share the data directory. That is how the first finding
comes out, and which results need one server is visible in the theorems.

### JobReaders

Adds, per job, a client that asks for the result: `Look` is the row
(`JobStore::get`, which may fail: `store_error`), `ReadFile` the `std::fs::read` after it
(which finds no file, or fails on one that is there: `io_error`). `seen` is the last answer,
`known` the last one that says something of the job: a client may get an error of the
moment after its result, and the result again after that. Requests in flight
die with the serving process.

### WorkerProcess

Both streams are counted in bytes: what the child will write (`want`,
`wantErr`), how it will end and whether it hangs are chosen at the start; `sent`
and `seen` count what went into and out of each pipe. `ReadOut` and `Breach` are
the two branches of the read loop, `OutEnds` its `Ok(0)`, `OutReadFails` its
`Err`; then `JoinErr`, `Wait`. The stderr task is `ReadErr`, `ErrEnds`,
`ErrReadFails`. `TimerFires` and `CallerGone` may come at every await,
`Die` (signal, memory limit) at every moment of the child's life.
How much a read returns is left open (1 to `Buf` bytes).

### SyncPool

One client sends one request after the other; `pc` is where its handler is, named
for what the handler holds by then. The steps end at an await or where another
task can see the difference: `Store` (upload read, temporary file written),
`Acquire` (the fair queue of tokio's semaphore: `queue`, `permits`), `Begin`
(`begin_extraction` and the child), `Outcome`, and the locals dropped in the reverse
of their order: `Deactivate` (explicitly, before the response), `Record`, `Free`,
`Clean`. A client that goes away drops the future where it awaits: `LeaveQueue`,
`LeaveGranted` (the permit had been handed over, but the task was not polled),
`LeaveRunning` (child killed by `kill_on_drop`, then the same drops). `ServerDies` drops
nothing. `JobBegin`, `JobRecord`, `JobDrop` are the part of `process_job` that
shares the counter; a panic inside it drops the guard, too. What the child does
between `Begin` and `Outcome` is `WorkerProcess`.

### DocxStory

The code walks over a finished XML tree; here the document is written by the
environment, one element per step, and the code's reaction is part of the step.
`mode` is where `extract_body` is. `cur` holds the locals of `extract_paragraph`
(`runs`, `local` for its blocks, `emitted`), the id allocator `nextId`, and
`pending`, the breaks of `StoryState`; `stack` and `overflow` are the
`FieldMachine`, `count` and `warned` the block cap, `page` the body page. `src` is
the document so far and `nest` the true nesting of its fields: history, which the
code does not have. A text, a break or an object is its place in `src`. The properties
speak of `Spots`, the places of blocks in the sections, in the section that is read, and in the
paragraph that is read (with the segment to come).

| Code | Actions |
|---|---|
| `extract_paragraph`, its events | `StartParagraph` (with `pageBreakBefore`), `Text`, `FieldBegin`, `FieldSeparate`, `FieldEnd`, `Break`, `PageHint`, `Drawing`, `Note` |
| its end, `push_blocks`, the `sectPr` branch of `extract_body` | `EndParagraph` |
| `tbl` branch; `story_cap_reached` | `Table`; `Skip` |
| `finish_story`, `make_section` | `Finish` |
| `attach_notes` | `AttachNote`, `NextSection` |

A table or a textbox has stories of its own, with their own state, in the code;
of these the body sees a block that counts for several and page hints, and so
does this module; what is in them is in `DocxTable`. `fldSimple` is a begin, a separator, texts and an end.

### FrontEnds and PageSelection

A request is the input by what its first bytes say it is (`Sniffed`), the document behind them (its
pages, or why it cannot be read), and the options; `missing` is a path that cannot be read, or an upload
without a file. It takes one `way`: `RunCli` (`run_extract`),
`SyncExtract`, `CreateJob` (which leaves a `row`) and `ProcessJob` (`claim_next` reads
the row back), or `Browse` (the Rust module). Each keeps its own order of checks (`FirstOf`),
which is what the answers can differ by. Both routes of the server hand the options on to a
child, which is `Cli` again, and classify its exit code. One thing may go wrong on the way
(`fault`): the input is over the size cap of the way, its file or the row cannot be
written, the child cannot be started or cannot read or write, runs into its timeout, is killed, or writes more than
the cap, as the output of the browser build may be. `expect` and `unreachable!` are the
answer `Panic`. The page limit is that of the extractors (`Beyond`, with `Count` of a selection). A page
text is kept as the numbers between its dashes; `Count`, `ToText` and `Parsed` have
the width of u32 as `MaxU32`.

### WebWorker

One thread: a step is what runs between two awaits. `wasm` and `pdfium` are the two
promises, made once and kept; `at` is where the handler of each message is.

| Code | Actions |
|---|---|
| `postMessage` of the page | `Send` |
| the modules load or do not | `Settle`, `SettlePdfium` |
| `onmessage` to its first await; after it; after the await of PDFium | `Handle`; `Resume`; `ResumePdf` |

`JsIsPdf` is the worker's search for the marker, `IsPdf` that of the Rust module.

### PdfExtract

The document is written by the environment, one object, glyph or annotation per
step, within a `fuel`; PDFium may fail at each call. `phase` is where the extraction
is, `forms` the forms that are open with their composed matrices, `space` the page's
box and turn, `quality` the `TextQuality` counts, `glyphs` the text object at hand,
`met` what was written of the page (history).

| Code | Actions |
|---|---|
| open, count, selection against count and limit | `OpenFails`, `Open` |
| its page loop: page, size, stand-in, end | `PageBegins`, `PageFails`, `PageEnds`, `Finished` |
| the objects of a page and its forms | `ObjectFails`, `Path`, `Image`, `FormBegins`, `FormFails`, `FormEnds`, `ObjectsEnd` |
| a text object, glyph by glyph | `TextBegins`, `Glyph`, `TextFails`, `TextEnds` |
| annotations | `Annotation` |

`TextLines` keeps what `grouping.rs` does to the glyphs of a line; a word is the
sequence of the places of its glyphs. `PdfGeometry` multiplies matrices and turns
boxes on whole numbers, on which the rounding to three digits is the identity. An image is placed by its matrix, or where
PDFium gives none by its bounds (`ImageBounds`), and left out with a warning when it gives neither.

### OpcPackage and PptxDeck

An entry of the archive is what the directory declares of it and what comes out of
it, which may be more, less, or damaged; an entry that cannot be opened (encrypted, of another compression) is
absent to a reader, as in the code. `OpenPackage` inspects one entry per step;
`Read` keeps account of every inflated byte, those of a refused part included. A
name is a sequence of segments, so that `ResolveTarget` really walks them. `PptxDeck`
goes from `Call` over `Open`, `ReadPresentation`, `ReadRelations` and
`ReadMetadata` to its slides; a slide is `BeginSlide`, `ReadPart`, `ReadRels`, one
`Layer` per step of slide, layout and master with theme and picture, `LayersEnd`,
`Notes`, `Emit`, or `FailSlide` from any of them.

### PptxSlide, PptxText, PptxTable

The shape trees are written one shape per step, with fuel. `layer` is the tree at
hand, `groups` the groups that are open, `elements`, `hidden` and `noted` what came
out. `Shape`, `Connector`, `Picture`, `Frame` are the arms of the walk, `GroupBegins`
and `GroupEnds` the recursion with its depth limit, `LayerEnds` the end of a tree.
`Resolve` finds the place of a placeholder (slide, layout, master), `Outward`
composes a place through the groups around it, the reverse of their nesting. `Unseen` is a shape that is hidden
and a child of a kind that is not handled (`mc:AlternateContent`, `contentPart`), which the code drops without a warning.
`PptxText` has the content of a body, the inherited style of its runs, and the one style that stands for the
body (`Summary`: the first paragraph that has any text, also that of a formula, and in it the first run with text or none), `PptxTable` the tracks,
cells and merges of a grid and the points of a chart; the grid is placed in the frame.

### XmlTree

The pull parser's events are the environment's: `Start`, `Empty`, `Text`, `End`,
`Malformed`, `Eof`. `stack` holds the open elements, `scopes` the
declarations; limits are checked where the code does, on start tags and, one level
deeper, on empty ones. At the end `Preprocess` replaces alternate content; it
recurses over the nodes of the tree.

### DocxTable

`open` is the recursion of `extract_table` and the textbox branch of `extract_drawing`,
a frame with its locals for each table or textbox that is being read; the
environment writes the document. A table's frame has `column`, `cols`, `cells` and
the `blocks` of the cell at hand. `RowBegins` is an iteration over `tr`;
`Continues` the `continue` branch of a cell, with its `anchor` or the warning for none;
`CellBegins` and `CellEnds` the rest of it; `Text`, `NestedTable` and `TextboxBegins` what a
story holds, with the two depth checks; `ContainerEnds` the return, and the block in
the story around. `Rendered` is `render_flow_table`. Breaks, pages and the cap in a
cell are those of any story and left to `DocxStory`.

### DocxNumbering

`NextItem` is `Numbering::next` for a paragraph that names an instance and a level: the
counters of that instance (`values`), deeper levels reset by their trigger, the label
put together and formatted. The definitions that may be asked are sets of
`numbering.xml` parts; letters are written one by one and Roman numerals as how often
each comes, since the property reads them back. Counters stop at `MaxNumber`, as
`saturating_add` does.

### GlyphRegroup

`Look` decides whether a page is fragmented (`is_glyph_fragmented`); one that is not comes
out as it is. `PoolElement` puts the glyphs of one text element in `pool`, with a blank
before each word but the first of a line (`WordSeparator`), and their style in the map
`styles`, keyed on box and content, where a later element overwrites an earlier one. `RegroupPageLines` sorts
the pool by baseline, place, content and origin and groups it. `CompactFragmentedElements` makes an element of
each line, with runs of one style each (`BuildRuns`: a blank between two words takes the style before it), and
puts lines and everything else in the order of their corners. Contents are numbers in the order of
strings, in which control characters come before the blank.

### MarkdownPage, MarkdownAlign, MarkdownGrid

Page by page: `FindRulings` (thin paths to rulings, snapped), `JoinRulings` (the
union-find, one horizontal ruling per step), `ReconstructTables` (one table per component that closes a
grid), `FindBorderless` (gutters of what is left), `MakeBlocks` (texts and tables to
blocks, links to their best block); then, with the body size of all pages,
`RenderPage` (columns, inline merging, headings, order, paragraphs) and at the end
`WriteTrailingContext`. Coordinates count half points, so that the tolerances are
whole numbers; text is an id, and the marks on it are what the algorithm looks at.

## 3. What the runs check

| Run | Instance | Shows |
|---|---|---|
| `jobs_safety` | 2 jobs, 1 server, 2 worker tasks, time to live 1, clock 0..2, 2 deaths, 1 fault | the invariants, the action properties and the refinement below |
| `jobs_liveness` | 2 jobs, 1 worker task, time to live 0, clock 0..1, 2 deaths, 1 fault | `AcceptedTerminates`, `ExpiredSwept` |
| `readers` | 1 job, time to live 1, clock 0..3, 2 deaths, 1 fault | `ReadsSound`, `AnswersAdvance` |
| `sync_pool` | 3 clients, 1 permit, 1 job task, 1 death | permits, counter, children, temporary files; a queued request is served; the refinement below |
| `docx_story` | every document of at most 6 elements, fields nested 1 deep before the limit, 2 blocks before the cap | text, breaks, ids, pages and the cap below |
| `conversions` | small documents of every converter (bounds below) | `PagesExact`, `ObjectsExact`, `TextGrouped`, `PackageRead`, `TextWritten`, `TablesExact`, `ReadingOrder`, `LabelsCounted` |
| `front_ends` | every request over 8 inputs, documents of 1 and 4 pages or unreadable, 5 levels, 4 formats, 11 page texts or none, in each of the 4 ways with each fault it has; every pair of messages in the browser; a child with a cap of 2 bytes, a stderr cap of 1, pipes and buffers of 2, up to 4 and 3 bytes written | `NoPanicAnywhere`, `WaysAgreeAlways`, `PdfiumReady`, `EveryMessageAnswered`; of the child `SuccessIsComplete`, `CapIsExact`, `NoChildSurvives`, `MessageIsWhole`, `ExtractionEnds` |
| `second_process`, `orphan_result`, `ttl_wrap` | 1 job | the first three findings (section 4) |
| `nested_grids` | two pages of rulings | the fourth finding |
| `docx_breaks` | documents of at most 3 elements | the fifth finding |

*Job system.* `ClaimExclusive`: no two workers hold one job.
`RunningHasOwner`: a row that says running has a worker, or a restart is due, or
recording its outcome failed. `InputHeld`: what is still to run has its complete
input. `ResultHeld`: an announced result is complete, and there for its time to
live. `BoundedReruns`: a job is claimed at most once per start of the server.
`UploadOwned`: an upload without a row has a handler, or its handler died with
the process, or removing it failed. `DeletesAreDue`: nothing is swept before its time
(that outcomes are final is in the refinement, and proved). `ImplementsLifecycle`: the refinement,
with `phase` read off the status and the handler.

*Readers.* `ReadsSound`: no client gets part of a result, and a file that is gone
belongs to a job that is gone or expired. `AnswersAdvance`: what a client is
told of the job never goes back, over restarts and reruns; an error of the database or the disk tells
nothing of the job and takes nothing back.

*Child process.* `SuccessIsComplete`: a success carries all that the child had to
write and comes of exit code 0, unless reading the pipe failed, which the code takes for
its end. `CapIsExact`: nothing over the cap is kept, and only what is over it is refused.
`NoChildSurvives`: no child outlives its extraction. `MessageIsWhole`: what a failed
child says of itself is read to its end, or to the cap, before it is parsed.
`ExtractionEnds`: the extraction and the stderr task end, for a child that does not hang
without the help of the timer.

*Synchronous route.* `PermitsConserved`: permits free and held add up, also when the
client leaves between the hand-over of a permit and its own turn.
`ActiveIsExact`: the counter is the number of extractions of both pools, and so
its `fetch_sub` never wraps. `HoldingsSound`: no extraction is told of more than
both pools allow, which needs the guard to go before the permit (`InFlightBounded`);
children and files have an owner, or the server was killed (`ChildServed`, `TempOwned`). `QueuedRuns`: whoever queues is served or leaves. `ImplementsPool`: the
refinement, with `waiting` and `busy` read off the handlers and the children.

*Word documents.* `TextExact`: the text of the blocks is the document's text without
field instructions, each piece once and in order, however fields nest, break off
or span paragraphs and sections; past the cap it stops for good and says so.
`BreaksOnce`: no break is lost or doubled on its way to the next block.
`IdsUnique`: also where note blocks are appended, whose ids come from another
count. `PageExact`: a paragraph's page is the page of each of its texts.
`CapHolds`: the cap, over nested blocks too, and no silent loss.

*Converters.* `PagesExact`: the pages or slides asked for come out once each, in
order and under their number; one that could not be read has a stand-in and a warning. A
document is refused for the number of its pages exactly when those asked for are more than the limit.
`ObjectsExact`: what the document has on a page is in the output once, in order,
with its content, and where the matrices of all forms (or the transforms of all
groups and placeholders) and the turn of the page put it, computed anew
from the document as it was written; whatever is missing has a warning or a
hidden item. `TextGrouped`: lines and words hold the visible glyphs each once and
split exactly at blanks, gaps and changes of line; on a fragmented page each comes
out once, in the style of the last element that has that content in that place, words of the source stay
apart unless the first reaches over the blank between them, the runs of a line spell its words, and everything
that is no text stays, in its order (`Regrouped`). `PackageRead`: whatever the entries claim, the bytes delivered stay below
the caps, a broken budget delivers nothing more, a target leads to
the part made of its plain segments, in order, that no later `..` takes back, and is an error exactly
where some beginning of it takes back more than there is (`TargetResolved`); and the tree has the
elements, texts and prefixes of the events, one branch of each alternate, below the
limits. `TextWritten`: no text of a page is lost or doubled between ruled tables,
borderless tables and the reading order, except where two tables lie around it.
`TablesExact`: components are what crossings connect, and the cells of a ruled table
are the areas that its walls close off, with the texts inside them; a Word table, and each
table and textbox in it, has every text once and in order, no cell leaves it, and where
merges start right above what continues them the cells cover what the document's
cells cover, without overlap. `ReadingOrder`: within a
column from top to bottom, the left column before the right; larger
headings never rank below smaller ones of their page (`HeadingsRanked`); and text clearly larger than the body of the
whole document is in a heading or a list item, whatever it was merged with and whatever else its page
holds (`LargeTextStandsOut`). `LabelsCounted` (`ListsCounted` of `DocxNumbering`): every number of every label,
read back, is the start plus the items counted since the last restart.

*Ways in.* `NoPanicAnywhere`: no `expect` or `unreachable!` is reached, a stored row
can always be read back, and the child never refuses options that the server let
through; a crash is reported only of a child that was killed. `WaysAgreeAlways`: a way answers what
the command line answers, or the code of what went wrong on it, but for the differences that `SameAsCli` lists; and
the synchronous route gives out nothing over its page limit and refuses for it only what is over it, for selections up to the end of u32, too.
`PdfiumReady`: PDFium is initialised at most
once, no PDF reaches the module before, wherever the marker stands at the edge of
the header, and a message has one answer. `EveryMessageAnswered`: also when a
module never loads.

*Bounds.* Three clients are the least for two waiters behind one holder, where order
and hand-over matter. Two jobs and two workers are the least for a double claim, for the
order of `created_at` and for a sweep that cleans one job of two. Two deaths
allow a crash during the work that a previous crash caused. One fault is enough
for every single-failure path; the clock reaches one second beyond the time to
live. A job that was swept and one that was never sent are different
(`hpc`), so ids are not reused, as with uuid v4. The pipes of the child in `front_ends` are
smaller than both streams, so both writers block; the cap is crossed inside a
chunk, at its start, and met exactly.

The limits of `docx_story` are constants of the code (16 and 250 000) that matter
only by being reached: with a depth of 1 two begins overflow, with a cap of 2 a
paragraph, a drawing and a table each cross it. Six elements hold a suppressed
field that ends before text, a field that spans two paragraphs, a break around an
object, and a note in a section that has breaks.

In `conversions` each limit is small enough to be reached by the documents: PDF of 2
pages and less, all three selections of them and none, a limit of one page or none, u32 as 2, 6 units of fuel, forms 2 deep before the limit,
all four turns; 15 entries, met and exceeded, of 3 bytes and 23 in all, ratio 2; XML 4 deep, 6 nodes, 10 events, one level of alternates; slides
with 4 units of fuel and groups 2 deep. Decks are one good deck with up to two defects
(a part missing, damaged, impossible to open or of another size), every call, entry and target. Grids of 2 by 3 cells
come with every subset of their inner walls, which has every kind of span, joined
cells that are no rectangle, and grids that fall apart. A page with large text only comes before one with
body text. Two-column pages come with whole, split,
bulleted and larger lines, borderless ones of 3 by 3 with gaps. Lists have 4
items over 3 levels and start next to the carries of letters and Roman numerals,
and next to the largest number (4000). Word tables have 6 rows, cells, texts and containers in
all, cells that start in the first 2 columns, spans of 0, 1 and 3 where the limit is 2, and one level of nesting, so that a merge passes over a
nested table and both depth limits are met. In
`front_ends` `MaxU32` is 4, a page limit of 1 lies between the documents' 1 and 4 pages, and the page texts reach
the last number (`4`, `1-4`) and cross it (`4-5`); the header is 3 and the marker 2 units long.

*Symmetry.* `jobs_safety` uses the symmetry of jobs and slots; no liveness
property is checked with it.

*Fairness.* `JobSystem!Fairness` has weak fairness for each loop of the server: the
tasks are polled by tokio, an extraction ends by its timeout, the sweeper wakes
up every ten minutes; and for `StartServer`, since the deployment restarts the
process (`src/book/src/deployment.md`). Nothing is assumed of clients, of the clock or of which
failure happens. In `WorkerProcess` a child that hangs gets no fairness, and the
timer is fair only for such a child: `ExtractionEnds` would be hollow if the
timer could save a deadlocked drain. In `SyncPool` a handler that has its permit is
polled (`Begin`), an extraction ends (that is `ExtractionEnds`), and the rest of
`sync_extract` has no await left to hang on; nothing is assumed of clients.
In `WebWorker` the event loop takes every message and every continuation, and a load
comes to an end, in success or not; whether the page sends anything is open.

*Stopping.* Deadlock is checked in the runs of the service and of `DocxStory`:
`PollEmpty` and `Over` are the steps of a system that has nothing to do. In `conversions`,
`front_ends` and `nested_grids` it is not: a conversion ends, and a request that was
answered everywhere is over. That the child and its parent never block each other is
`ExtractionEnds`, which any such state would violate.

## 4. Findings

1. `second_process`: opening the store requeues every running row, also one that
   a live process is working on; `main` does this before it tries the port. One
   instance per data directory is the supported deployment, but a second process
   that only fails to bind is enough.
2. `orphan_result`: a failed `std::fs::write` of a result leaves its part on disk;
   the failed row has no `result_path`, so the sweep forgets the file.
3. `ttl_wrap`: a time to live of 2^63 seconds or more is negative as an i64, so the
   cutoff lies in the future and every finished job is swept at once, where
   `src/book/src/configuration.md` says that it is kept that long.
4. `nested_grids`: a ruled grid inside a cell of another is a component and a table of its own.
   Each table takes every text whose centre lies in its box, so the inner
   text is written twice, where `src/book/src/output-formats.md` promises once.
5. `docx_breaks`: a page or column break at the end of a paragraph ("text", then
   `w:br`) is put before that paragraph, because `push_blocks` gives what is still
   pending to the first block of the paragraph that it belongs after. The golden
   file `testdata/golden/docx/breaks.lean.txt` shows it: `BR column` comes before
   the text that precedes it in the document.

Observations that no run singles out, at the definition that shows them:

- `JobSystem`: an upload whose handler died with the process stays for good
  (`UploadOwned` says so); a sweep between row and file answers `io_error` for an expired job (`JobReaders`).
- `FrontEnds`: the differences in `SameAsCli`. The browser checks the input before the
  options, has a size limit, and does not look into OLE2 files; the server checks options first.
- `WebWorker`: the worker goes on with the module after a crash it caught, although
  the comment at the top of `worker.js` says never to reuse it.
- `PdfExtract`: a text object whose bounds fail is left out with a warning, and its page may
  then count as scanned; glyphs without a character count as white space; the corners of an
  image are in a canonical order only for an upright matrix.
- `OpcPackage`, `PptxDeck`: one budget is shared by all reads, so slides after the
  one that crosses it fail, too; a broken `docProps/core.xml` fails the whole deck.
- `XmlTree`: an empty element passes at a depth where a start tag is refused; a
  root that is alternate content keeps only its last node.
- `PptxSlide`: the master is searched with the placeholder of the slide, so date, footer
  and number placeholders that the layout numbers anew find no place there. `PptxText`: a formula that stands
  before the first run in a paragraph of its own gives the shape a font that no run has (`TextInRuns`).
- `MarkdownGrid`: an area that is no rectangle gives spans that overlap.
  `MarkdownPage`: a link whose best block is a table is dropped; staggered lines chain into one row.
- `DocxTable`: the text of a continued cell is dropped without a warning if the cell has an
  anchor; a merge that goes on after a row without it extends its anchor over that row. Of
  the depth checks, the one on entering `extract_table` (`extract.rs:1045`) is never reached.
- `DocxNumbering`: instances of one definition count independently of each other.
- `GlyphRegroup`: the sort by baseline comes before the grouping, so glyphs of
  slightly different baselines are ordered by baseline first.

## 5. What is proved

The theorems hold for every set of jobs, workers, servers and clients, every request and
page text, every document, every time to live and every bound. Two assumptions are made
explicit where they are needed: `SingleServer` (one process on the data directory) and
`NoWrap` (`TTL < Half`). The other assumptions are those of the modules on their constants. What a converter is given is
described by a definition of its module, `AnswersTyped`, `PagesTyped`, `DecksTyped`, `RelationsTyped`,
`SlidesTyped` and `NumberingsTyped`; `Converters` assumes them all (`ConvertersAssumption`), and
TLC evaluates that for the documents of `conversions`.

| Theorem | Needs | Statement |
|---|---|---|
| `TypeCorrect` | | `Spec => []TypeOK` |
| `InputAlwaysHeld` | | `Spec => []InputHeld` |
| `RerunsAreBounded`, `UploadsAreOwned` | | `BoundedReruns`, `UploadOwned` |
| `OneWorkerPerJob`, `NoRowIsStuck` | one server | `ClaimExclusive`, `RunningHasOwner` |
| `ResultsAreKept` | one server, no wrap | `ResultHeld` |
| `LifecycleImplemented` | one server | `Spec => ImplementsLifecycle` |
| `OutcomesAreFinal` | one server | `TerminalIsFinal`, from the refinement; no run of its own |
| `SweepsAreDue` | one server, no wrap | `DeletesAreDue` |
| `ReadsAreSound`, `AnswersOnlyAdvance` | one server, no wrap | `RSpec => []ReadsSound`, `RSpec => AnswersAdvance` |
| `SuccessAlwaysComplete`, `CapAlwaysExact`, `ChildNeverSurvives`, `MessageAlwaysWhole` | | the safety invariants of `WorkerProcess` |
| `PermitsAreConserved`, `ActiveCountIsExact`, `RouteIsSafe` | | the safety invariants of `SyncPool`: `RouteIsSafe` is its `RouteTyped` and `HoldingsSound` |
| `RouteImplementsPool` | | `RouteSpec => ImplementsPool` |
| `NoPanicEver`, `WaysAlwaysAgree` | | `NoPanicAnywhere`, `WaysAgreeAlways` |
| `PdfiumAlwaysReady`, `SniffersAgree` | | `PdfiumReady`; the worker and the Rust module call the same files a PDF |
| `SelectionsRoundTrip`, `CountsAreExact` | | a page text that parses, parses to the same selection when it is handed on; the number of its pages is exact in u32 |
| `FieldsAreExact` | | text is shown exactly where all fields around it have their result and none is beyond the limit |
| `PagesAreExact`, `IdsAreUnique`, `TextsAreExact`, `BreaksAreOnce`, `CapAlwaysHolds` of `DocxStoryProofs` | | the invariants of `DocxStory` that `docx_story` checks |
| `PackagesAreSound`, `SlidesAreExact` | `DecksTyped` | `PackageSound` and `SlidesExact` of `PptxDeck`: the package half of `PackageRead`, the slide half of `PagesExact` |
| `TargetsAreResolved` | the source is a path of plain segments | `TargetResolved(source, target)` |
| `TargetsAreExact` | `DecksTyped`, `RelationsTyped` | `TargetsExact` of `PptxDeck`; with `PackageSound` the deck half of `PackageRead` |
| `PagesAreExact`, `ObjectsAreExact`, `ObjectsArePlaced`, `TextsAreGrouped` of `PdfExtractProofs` | `AnswersTyped` | `PagesExact`, `ObjectsExact`, `PlacedExactly`, `TextGrouped` of `PdfExtract`: its part of the properties of those names in `conversions` |
| `PagesAreRegrouped` | `PagesTyped` | `Regrouped` of `GlyphRegroup` |
| `ListsAreCounted` | `NumberingsTyped` | `ListsCounted` of `DocxNumbering` |
| `TextHolds`, `PointsHold`, `TableHolds` | a body, two caches, a table as the parser hands them over | `TextConsistent` (the one style of a text where text is in runs), `PointsExact`, `TableExact` |
| `ShapesAreExact`, `ShapesArePlaced` | `SlidesTyped` | `ShapesExact`, `ShapesPlaced` of `PptxSlide` |
| `ConvertedPagesAreExact`, `ConvertedObjectsAreExact`, `ConvertedTextIsGrouped`, `ConvertedLabelsAreCounted` | `ConvertersAssumption` | `PagesExact`, `ObjectsExact`, `TextGrouped`, `LabelsCounted` of `Converters`, as `conversions` checks them |
| `TextIsGrouped` | | for every list of glyphs: their lines and words hold the visible ones once and in order, split where they should be |

*The argument for the job system* has three layers, each inductive given the one
before. `BaseInv` needs no assumption: a task has a job exactly while it works
and is off exactly when its process is down; a row exists only after acceptance;
a stored upload is complete; and whatever a sweep holds is finished for good,
because ids are not reused and nothing leaves a terminal status but the sweep.
From it `InputHeld` is inductive: the only step that removes an upload with a row
looks at a candidate, and a candidate is never queued or running again.
`WorkInv` adds one server: a held job is running, and no two tasks hold the same,
because recovery happens only when no task exists. `BusyRunning` is what makes
the unconditional UPDATEs of `MarkRow` harmless. `RetentionInv` adds the clock:
what a sweep holds is expired, what it calls cleaned has no files, and it knows
which rows name a result. The refinement maps each step by these facts: a mark is
`Finish` because its row is running, a `DELETE` is `Forget` because its rows are
terminal or gone, a start is `Restart`.

Two more invariants need no single server. `RerunInv`: a claim takes a queued row, and
each start can queue a row again at most once, so claims never outnumber the starts, counted as
the stops so far and the processes that run (`IsFiniteSet(Running)` is part of it, since
`Server` may be infinite). A queued row has a claim in hand: it is either new, while some
process serves and no claim was made, or requeued by a start that was just counted.
`UploadInv`: an upload loses its row only in a sweep, and a sweep deletes only rows of
jobs it has cleaned, which have no upload left.

*The argument for readers* (`ReaderInv`) is that the gap between row and file is harmless
since a client that saw `succeeded` is past the outcome of the job: the row can only
go, the file can only go before it, and a file that is there is whole. From a place in
the order of `Answers` no step leads back, and `Errors` are not in that order: they leave `known` as it is.

*The argument for the child process* is one inductive invariant, `IInv`: what the
child wrote by the time it ended as planned, what an end of file means, and where
the caller is. The read errors are carried by `osError`.

*The argument for the synchronous route* counts. `PoolInv` says that free permits and
handlers in a class of places add up, and that the counter is the number of
handlers and tasks in another; lemmas on finite sets say how a count changes when
one element moves in, out, or within (`CountEnter`, `CountLeave`, `CountStay`). The
queue holds each waiter once and only waiters (`QueueInv`), so a released permit
has exactly one new holder; what a handler has at each place is `GuardInv`. The
child that starts is one of at most `Permits` because it has a permit itself.

*The argument for the ways in.* `FirstOf` picks the least check that fails (`MinIsLeast`,
from the well-foundedness of the numbers), so each way is equal to a nested case
distinction, one lemma per way; `WaysInv` says that what was answered is that function of the request and
of what went wrong. With that, `NoPanicAnywhere` and `WaysAgreeAlways` are comparisons of
such distinctions, with the lemmas on page texts where a text is printed by one
program and parsed by another. *In the browser*, `WebInv`: PDFium is started when
the first PDF waits for it, a handler that is past that await saw the
promise settle, and only a handler that ends posts a reply. `PdfiumReady` speaks
of what the Rust module calls a PDF and the worker decides by its own search;
`SniffersAgree` closes that gap.

*The argument for fields.* `FieldInv` relates the machine to the true nesting: `stack`
is its first `Len(stack)` fields, `overflow` counts the rest, and there is a rest
only when the stack is full. With no rest the two are the same sequence, so each
field character does the same to both; with a rest it changes only what lies
beyond the limit.

*The argument for blocks.* `push_blocks` is a loop, here a recursive function (`Pushed`);
`PushedShape` says what it returns: what was there, the breaks that waited where the first
block takes none, then a first part of the blocks in their order, all of them unless the cap
was reached. It is proved for every length by the least place where the loop would go wrong.
On it rest six invariants:

- `BlockInv`: blocks are well formed; a paragraph is read only below the cap; once something
  was left out, the count is at the cap for good. The others use it.
- `PageInv`: the texts of blocks are on the pages of their blocks, those that wait on
  the page that is read. Hints and breaks that turn the page end the segment first.
- `IdsInv`: ids rise along a section, and an id is less than the place of its block,
  for breaks take a place and no id. That is why ids that count on from the number of blocks,
  as those of notes do, cannot meet one that was given out.
- `TextInv`: sections, blocks, the paragraph and its runs come in the order of the document,
  and their texts together are those of the document up to some place; up to its end
  as long as nothing was left out. That a field hides the right texts is `FieldInv`.
- `BreakInv`: a break is either in one block or waits, and in one place only.
- `CapInv`: the nested blocks that were written are at most those that were counted. Both sides of
  a push are compared by the cardinality of finite sets.

*The argument for the package* (`PackageInv`): the sizes an archive declares, added up, are the total
that `OpenPackage` keeps, so the archive is refused by the first entry that crosses a limit and accepted
without one. `Read` counts before it delivers, so the delivered bytes are at most the counted ones, and once
the count is past the limit nothing is delivered, whatever is asked for (`broken`). `DecksTyped` says
that the limits are numbers and that a deck is an archive with a list of slides.

*The argument for targets* is about the stack after `n` segments: it holds exactly the plain
segments of the first `n` that none of the first `n` takes back, in their order, and its height is
`Depth`; the walk has failed exactly if the depth was below zero somewhere. The least `n` at which
this would be false is reached by a segment that is plain, `..` or empty, and each of these keeps it.

*The argument for slides.* A slide is read over many steps, while its page is judged by the
deck alone. `Reaches` relates the two: from the part in hand the same chain of slide, layout and master is
still to come as from the slide itself. `SlideInv` says so for every step between `BeginSlide` and
`Emit`, and that the pictures found so far are those of the layers already drawn; `OutInv` says of a page that
is out that it is what its chain makes it, or that the limit of the whole package was crossed, and
then every later page failed, too.

*The argument for the pages of a PDF* (`PagesInv`): the range was checked against the document
before the first page, and the pages that are out are a first part of it. `AnswersTyped` says that a selection
is one that a page text can have, that matrices and boxes are whole numbers, and that pages are turned by
quarters. Which of PDFium's calls fail is open.

*The argument for lines and words.* `build_line` and `group_into_lines` are loops, here recursive
functions over the number of glyphs taken. After `n` glyphs, the words and the open word hold the visible ones of
the first `n`, and between two words there was a blank, a gap, or a change of line; the least `n` where this
fails does not exist, for any glyphs.

*The argument for glyphs that are grouped again* (`RegroupInv`). After `n` elements the pool lists the glyphs of the
text elements among the first `n`, and the blanks between their words, each once (`Enumerates`), and the map has for
each box and content the style of the last of them (`LatestStyle`). `InOrder` gives a permutation for
any keys that differ, as these do by their last part, the origin: the place of a key is the
number of keys before it, so no two get the same and none is left (`InOrderIs`). Hence the
sorted pool lists the same glyphs, and what `TextIsGrouped` says of any glyphs holds of it: the
places in the lines are those of the visible glyphs, rising, so that each is in one word of one line
(`LinesLocated`), and no word goes across a blank. A blank between two words of the source is sorted between
their glyphs unless the first one starts at or behind it, or the second one is a control character in its place;
then, and only then, may the words become one. The runs of a line are a loop over its glyphs; after each, what the runs hold is what
was spelled so far, and neighbours differ (`RunsPut`). `PagesTyped` says what the extraction of a PDF hands
over: a word has a glyph, and no glyph is a blank.

*The argument for objects* (`PageInv`). `Exact` says that what was met in the walk over the page and its
forms is, in order, the elements with their numbers and the objects with a warning. `Composite` says that the
matrix in hand is the product of the matrices of the open forms, the inner ones first, so an
element is where that product puts it (`AllRight`). A box that is turned and then hulled is the
hull of the turned corners (`HullTurned`), for all whole numbers: so it does not matter where the code
takes the hull before the turn.

*The argument for lists* (`CountInv`): each counter of an instance is the number of items at its level since the
last restart, on top of the start, or empty without one; the label of an item was made of the
counters right after it was counted. An item either joins the items counted at a level, or clears
them, or leaves them alone (`SinceGrows`), and it clears exactly the levels that it restarts, since a level in force
is never below the deepest (`ResolvedIs`, where the keys of levels are bounded as u32 are). That a number can
be read back (`WrittenReadsBack`) holds for letters and Roman numerals of any length, by the least
place where what was read differs from what was left to write. `NumberingsTyped` says what `from_xml`
makes: starts up to the largest i64, triggers and keys that are not negative.

*The argument for slides' shapes* (`Inv` of `SlideProofs`) has two parts. What a shape adds to the page follows
from its kind, its layer and whether it has a place (`Kept`): the elements of each shape are
neighbours, in the order and number that `Expected` gives, and a shape that came out as less than
that has a warning or a hidden item. And its box is right (`AllRight`): the corners that the code moves
outward through the groups, one at a time, are those of one matrix, the product of the moves of all the
groups around. Extents are whole multiples of the inner ones (`IsGroup`), so that the scaling of a group is
a matrix of whole numbers; turns are by quarters. Then the hull of the corners is the hull of the
moved rectangle for any number of groups. A placeholder without a place of its own gets the first one
of layout and master, by the least index that matches on either side.

*The arguments for texts, charts and tables* are about loops that lay sequences end to end. `EndToEnd`
says what such a loop has put together after `k` steps, so that the text of a body, its runs and its links
are compared paragraph by paragraph. The points of a chart are placed by counting the indices before
each (`Below`). The cells of a table are placed by the sums of the tracks before them (`SumsAre`), so
neighbours meet; a frame is filled since the rest of it is a multiple of the unsized tracks (`Divides`).
That each square of the grid lies in one cell is carried over from the merges of the document.

*Side by side.* A behaviour of `Converters` that starts in a mode stays in it and takes the steps of
that converter (`PdfSteps`, `DeckSteps`, `SlideSteps`, `GlyphSteps`, `ListSteps`), so what is proved of
each converter alone holds of it there. The theorems about a component are cited through the instance of
its module of proofs.

## 6. Only model-checked, and not modelled

Liveness (`AcceptedTerminates`, `ExpiredSwept`, `ExtractionEnds`, `QueuedRuns`,
`EveryMessageAnswered`) is out of the prover's reach and checked by TLC only. So is
what compares the output with a reference definition that is recursive over trees or grids, since what
that computes for every input takes an induction over data that the provers do not
have: of `conversions`, the tree half of `PackageRead` (`XmlTree`), `TextWritten`, `TablesExact` and `ReadingOrder`. Where the recursion is over numbers the
least counterexample does instead: so `Pushed`, the walk of a target, the grouping of glyphs and the runs of a line, the letters of a
label and the way of a shape through its groups are proved. The findings (section 4) are counterexamples of TLC.

Not modelled: the migrations of the table, parsing of the environment, the wording of
errors and logs, metrics, a clock that is set back; theme colours, fonts and all
floating-point arithmetic beyond whole numbers; style inheritance, headers, footers
of Word documents; loading PDFium and decoding JPEG 2000; the
Markdown of flow documents but for its tables, lean output and page classification, which are
sequential and have golden files. `PROJECT.json` gives the reason for each component.

## 7. Plan

1. done: `JobLifecycle`, `JobSystem`, `JobReaders`, `WorkerProcess` and their proofs.
2. done: `BoundedPool`, `SyncPool` and their proofs.
3. done: `FrontEnds`, `PageSelection`, `WebWorker`.
4. done: `OpcPackage`, `XmlTree`, `PptxDeck`, `PptxSlide` with text and tables.
5. done: `DocxStory` with its field proofs, `DocxNumbering`. `DocxTable`. Left: styles, hidden items
   and their targets, headers and footers.
6. done: `PdfExtract`, `TextLines`, `GlyphRegroup`, `MarkdownPage`. Left: the Markdown of flow
   documents with its list nesting, lean output, classification.
7. done: proofs of the invariants of the job system and its readers, of the ways in, of
   `DocxStory`, of the package, its targets and the slides of a deck, of the shapes of slides, of pages,
   objects, places and texts of `PdfExtract`, of `GlyphRegroup`, and of list labels, alone and in `Converters`. Left,
   model-checked so far: `TreeExact`, `TextWritten`, `TablesExact`, `ReadingOrder`, as
   far as their reference definitions allow.
