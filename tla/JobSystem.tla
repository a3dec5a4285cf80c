----------------------------- MODULE JobSystem -----------------------------
(***************************************************************************)
(* The asynchronous job service of docray-server: the SQLite job table     *)
(* (jobs.rs), the upload and result files in the data directory, the       *)
(* POST /v1/jobs handler (http.rs), the worker loops, the TTL sweeper and  *)
(* the life of the server process (main.rs).                               *)
(*                                                                         *)
(* Everything that survives the process is the table and the files; the    *)
(* rest (handlers, workers, sweeper) disappears at any step of a crash and *)
(* comes back with the next start.  A crash is the death of the process    *)
(* alone: uploads and results are flushed to the system and never synced   *)
(* to the disk, so what a loss of power leaves of them is not modelled.    *)
(* Several server processes may be pointed at one data directory: nothing  *)
(* but the TCP port, which is bound last, keeps a second one out.          *)
(***************************************************************************)
EXTENDS Integers, FiniteSets

CONSTANTS
    Job,        \* job ids (uuid v4: never reused)
    NoJob,      \* what a worker holds between two jobs
    Server,     \* server processes that share the data directory
    Slot,       \* worker tasks of one process (DOCRAY_WORKERS)
    TTL,        \* result_ttl_secs, a u64
    Half,       \* 2^63: half the range of a u64, the first value i64 lacks
    MaxTime,    \* bound of the clock
    MaxStops,   \* bound on the deaths of server processes
    MaxFaults   \* bound on disk and SQLite errors

ASSUME NoJobAssumption  == NoJob \notin Job
ASSUME TimeAssumption   == MaxTime \in Nat
ASSUME WidthAssumption  == Half \in Nat /\ MaxTime < Half
ASSUME TTLAssumption    == TTL \in 0 .. (2 * Half - 1)
ASSUME BoundsAssumption == MaxStops \in Nat /\ MaxFaults \in Nat

Worker == Server \X Slot
Terminal == {"succeeded", "failed"}
Status == {"absent", "queued", "running"} \cup Terminal
FileState == {"none", "partial", "full"}

VARIABLES
    \* the jobs table
    status,     \* "absent" when there is no row
    created,    \* created_at (before the row exists: the handler's time stamp)
    updated,    \* updated_at
    hasResult,  \* result_path is not NULL
    \* the data directory
    upload,     \* uploads/<id>
    result,     \* results/<id>.<ext>
    \* the processes
    up,         \* per server: "down", "starting" (port not bound) or "serving"
    hpc,        \* per job: where its POST /v1/jobs handler is
    wpc,        \* per worker task: where it is in its loop
    wjob,       \* per worker task: the job it claimed
    spc,        \* per server: where the sweeper is
    cand,       \* per server: the sweep's candidates not yet looked at
    named,      \* per server: the candidates whose row named a result file
    cleaned,    \* per server: the candidates whose files are gone
    \* the environment
    now,
    stops,
    faults,
    \* history
    claims,     \* per job: how often a worker claimed it
    stranded    \* per job: recording its outcome failed and no restart since

db      == <<status, created, updated, hasResult>>
disk    == <<upload, result>>
workers == <<wpc, wjob>>
sweeper == <<spc, cand, named, cleaned>>
hist    == <<claims, stranded>>
vars    == <<db, disk, up, hpc, workers, sweeper, now, stops, faults, hist>>

TypeOK ==
    /\ status \in [Job -> Status]
    /\ created \in [Job -> 0 .. MaxTime]
    /\ updated \in [Job -> 0 .. MaxTime]
    /\ hasResult \in [Job -> BOOLEAN]
    /\ upload \in [Job -> FileState]
    /\ result \in [Job -> FileState]
    /\ up \in [Server -> {"down", "starting", "serving"}]
    /\ hpc \in [Job -> {"idle", "receiving", "stored", "accepted", "refused", "lost"}]
    /\ wpc \in [Worker -> {"off", "idle", "extracting", "saving", "writing",
                           "written", "failing"}]
    /\ wjob \in [Worker -> Job \cup {NoJob}]
    /\ spc \in [Server -> {"off", "idle", "removing"}]
    /\ cand \in [Server -> SUBSET Job]
    /\ named \in [Server -> SUBSET Job]
    /\ cleaned \in [Server -> SUBSET Job]
    /\ now \in 0 .. MaxTime
    /\ stops \in 0 .. MaxStops
    /\ faults \in 0 .. MaxFaults
    /\ claims \in [Job -> Nat]
    /\ stranded \in [Job -> BOOLEAN]

\* A fresh data directory and no process.
Init ==
    /\ status = [j \in Job |-> "absent"]
    /\ created = [j \in Job |-> 0]
    /\ updated = [j \in Job |-> 0]
    /\ hasResult = [j \in Job |-> FALSE]
    /\ upload = [j \in Job |-> "none"]
    /\ result = [j \in Job |-> "none"]
    /\ up = [s \in Server |-> "down"]
    /\ hpc = [j \in Job |-> "idle"]
    /\ wpc = [w \in Worker |-> "off"]
    /\ wjob = [w \in Worker |-> NoJob]
    /\ spc = [s \in Server |-> "off"]
    /\ cand = [s \in Server |-> {}]
    /\ named = [s \in Server |-> {}]
    /\ cleaned = [s \in Server |-> {}]
    /\ now = 0
    /\ stops = 0
    /\ faults = 0
    /\ claims = [j \in Job |-> 0]
    /\ stranded = [j \in Job |-> FALSE]

\* A disk or SQLite error: the environment has MaxFaults of them.
Fault == faults < MaxFaults /\ faults' = faults + 1
Stop1 == stops < MaxStops /\ stops' = stops + 1

-----------------------------------------------------------------------------
(* The server process (main.rs).                                           *)

\* Mutants of Recovered: no recovery, of everything, to a misspelt status.
NothingRecovered == status
AllRecovered == [j \in Job |-> IF status[j] # "absent" THEN "queued" ELSE "absent"]
MisspeltRecovered == [j \in Job |-> IF status[j] = "running" THEN "pending" ELSE status[j]]

\* JobStore::new: "Recover jobs orphaned by a previous crash/restart".
Recovered == [j \in Job |-> IF status[j] = "running" THEN "queued" ELSE status[j]]

\* main() up to the listener: open the store, spawn the workers and the
\* sweeper.  They run from here on, before the port is bound.
StartServer(s) ==
    /\ up[s] = "down"
    /\ up' = [up EXCEPT ![s] = "starting"]
    /\ status' = Recovered
    /\ wpc' = [w \in Worker |-> IF w[1] = s THEN "idle" ELSE wpc[w]]
    /\ spc' = [spc EXCEPT ![s] = "idle"]
    /\ stranded' = [j \in Job |-> FALSE]
    /\ UNCHANGED <<created, updated, hasResult, disk, hpc, wjob, cand, named,
                   cleaned, now, stops, faults, claims>>

Bind(s) ==
    /\ up[s] = "starting"
    /\ \A t \in Server : up[t] # "serving"
    /\ up' = [up EXCEPT ![s] = "serving"]
    /\ UNCHANGED <<db, disk, hpc, workers, sweeper, now, stops, faults, hist>>

\* The process is gone, with its tasks; so are, if it was serving, the
\* handlers.  Table and files stay as they are.
GoDown(s) ==
    /\ up' = [up EXCEPT ![s] = "down"]
    /\ wpc' = [w \in Worker |-> IF w[1] = s THEN "off" ELSE wpc[w]]
    /\ wjob' = [w \in Worker |-> IF w[1] = s THEN NoJob ELSE wjob[w]]
    /\ spc' = [spc EXCEPT ![s] = "off"]
    /\ cand' = [cand EXCEPT ![s] = {}]
    /\ named' = [named EXCEPT ![s] = {}]
    /\ cleaned' = [cleaned EXCEPT ![s] = {}]
    /\ hpc' = [j \in Job |-> IF up[s] = "serving" /\ hpc[j] \in {"receiving", "stored"}
                             THEN "lost" ELSE hpc[j]]
    /\ UNCHANGED <<db, disk, now, faults, hist>>

\* The port is taken, by another server or by any other program: exit(1),
\* whatever the workers spawned above are doing.
BindFails(s) == up[s] = "starting" /\ Stop1 /\ GoDown(s)

\* Killed by a signal or for want of memory: the system keeps what was written.
Crash(s) == up[s] # "down" /\ Stop1 /\ GoDown(s)

\* SIGTERM or Ctrl+C: the requests in flight are answered first; the tasks are
\* dropped where they await, and sweep_expired or the code after the
\* extraction never does.
Shutdown(s) ==
    /\ up[s] = "serving"
    /\ \A j \in Job : hpc[j] \notin {"receiving", "stored"}
    /\ \A w \in Worker : w[1] = s => wpc[w] \in {"idle", "extracting"}
    /\ spc[s] = "idle"
    /\ Stop1
    /\ GoDown(s)

-----------------------------------------------------------------------------
(* POST /v1/jobs (http.rs, create_job and stream_upload_to_file).          *)

Serving == \E s \in Server : up[s] = "serving"

\* The "file" field arrives: File::create.
BeginUpload(j) ==
    /\ Serving
    /\ hpc[j] = "idle"
    /\ hpc' = [hpc EXCEPT ![j] = "receiving"]
    /\ upload' = [upload EXCEPT ![j] = "partial"]
    /\ UNCHANGED <<db, result, up, workers, sweeper, now, stops, faults, hist>>

\* The last chunk is written, and create() reads the clock, before it takes
\* the connection's lock.
FinishUpload(j) ==
    /\ hpc[j] = "receiving"
    /\ hpc' = [hpc EXCEPT ![j] = "stored"]
    /\ upload' = [upload EXCEPT ![j] = "full"]
    /\ created' = [created EXCEPT ![j] = now]
    /\ UNCHANGED <<status, updated, hasResult, result, up, workers, sweeper,
                   now, stops, faults, hist>>

\* Answer an error; the file is removed, unless removing it fails too.
Refuse(j) ==
    /\ hpc' = [hpc EXCEPT ![j] = "refused"]
    /\ created' = [created EXCEPT ![j] = 0]
    /\ UNCHANGED <<status, updated, hasResult, result, up, workers, sweeper,
                   now, stops, hist>>

\* Mutant of UploadFails: return without removing the file.
UploadFailsLeaks(j) == hpc[j] = "receiving" /\ Refuse(j) /\ UNCHANGED <<upload, faults>>

\* A chunk cannot be read (the client went away, the body is over the limit).
UploadFails(j) ==
    /\ hpc[j] = "receiving"
    /\ Refuse(j)
    /\ \/ upload' = [upload EXCEPT ![j] = "none"] /\ UNCHANGED faults
       \/ UNCHANGED upload /\ Fault

Insert(j) ==
    /\ hpc[j] = "stored"
    /\ hpc' = [hpc EXCEPT ![j] = "accepted"]
    /\ status' = [status EXCEPT ![j] = "queued"]
    /\ updated' = [updated EXCEPT ![j] = created[j]]
    /\ UNCHANGED <<created, hasResult, disk, up, workers, sweeper, now, stops,
                   faults, hist>>

\* The INSERT fails; the disk that failed it may keep the file as well.
InsertFails(j) ==
    /\ hpc[j] = "stored"
    /\ Refuse(j)
    /\ \E left \in {"none", "full"} : upload' = [upload EXCEPT ![j] = left]
    /\ Fault

-----------------------------------------------------------------------------
(* The worker loop and process_job (main.rs).                              *)

\* Mutants of Claimable: the status guard too wide, or failed jobs retried.
ClaimableUnguarded(j) == status[j] \in {"queued", "running"}
ClaimableRetry(j) == status[j] \in {"queued", "failed"}

\* claim_next: the oldest queued row; ties are broken by SQLite.
Claimable(j) ==
    /\ status[j] = "queued"
    /\ \A k \in Job : status[k] = "queued" => created[j] <= created[k]

Claim(w, j) ==
    /\ wpc[w] = "idle"
    /\ Claimable(j)
    /\ status' = [status EXCEPT ![j] = "running"]
    /\ updated' = [updated EXCEPT ![j] = now]
    /\ wpc' = [wpc EXCEPT ![w] = "extracting"]
    /\ wjob' = [wjob EXCEPT ![w] = j]
    /\ claims' = [claims EXCEPT ![j] = @ + 1]
    /\ UNCHANGED <<created, hasResult, disk, up, hpc, sweeper, now, stops,
                   faults, stranded>>

\* Nothing is queued: sleep and look again.
PollEmpty(w) ==
    /\ wpc[w] = "idle"
    /\ \A j \in Job : status[j] # "queued"
    /\ UNCHANGED vars

WorkerMoves(w, to) ==
    /\ wpc' = [wpc EXCEPT ![w] = to]
    /\ UNCHANGED <<db, upload, up, hpc, wjob, sweeper, now, stops, hist>>

\* run_extraction returns Success: the child has read a complete input.
ExtractSucceeds(w) ==
    /\ wpc[w] = "extracting"
    /\ upload[wjob[w]] = "full"
    /\ WorkerMoves(w, "saving")
    /\ UNCHANGED <<result, faults>>

\* Failed, Timeout, Crashed, OutputTooLarge, or a panic of process_job.
ExtractFails(w) ==
    /\ wpc[w] = "extracting"
    /\ WorkerMoves(w, "failing")
    /\ UNCHANGED <<result, faults>>

\* Mutant of OpenResult: recorded as succeeded before it is written.
OpenResultMarksEarly(w) ==
    /\ wpc[w] = "saving"
    /\ WorkerMoves(w, "written")
    /\ result' = [result EXCEPT ![wjob[w]] = "partial"]
    /\ UNCHANGED faults

\* std::fs::write truncates the file before it writes ...
OpenResult(w) ==
    /\ wpc[w] = "saving"
    /\ WorkerMoves(w, "writing")
    /\ result' = [result EXCEPT ![wjob[w]] = "partial"]
    /\ UNCHANGED faults

FillResult(w) ==
    /\ wpc[w] = "writing"
    /\ WorkerMoves(w, "written")
    /\ result' = [result EXCEPT ![wjob[w]] = "full"]
    /\ UNCHANGED faults

\* ... and leaves behind what it wrote when it fails.
SaveFails(w) ==
    /\ wpc[w] \in {"saving", "writing"}
    /\ WorkerMoves(w, "failing")
    /\ Fault
    /\ UNCHANGED result

\* UPDATE jobs ... WHERE id = ?: nothing when the row is gone, and no look at
\* the status the row has.
MarkRow(j, outcome) ==
    IF status[j] = "absent"
    THEN UNCHANGED <<status, updated, hasResult>>
    ELSE /\ status' = [status EXCEPT ![j] = outcome]
         /\ updated' = [updated EXCEPT ![j] = now]
         /\ hasResult' = [hasResult EXCEPT ![j] = @ \/ outcome = "succeeded"]

Release(w) ==
    /\ wpc' = [wpc EXCEPT ![w] = "idle"]
    /\ wjob' = [wjob EXCEPT ![w] = NoJob]
    /\ UNCHANGED <<created, disk, up, hpc, sweeper, now, stops, claims>>

MarkSucceeded(w) ==
    /\ wpc[w] = "written"
    /\ MarkRow(wjob[w], "succeeded")
    /\ Release(w)
    /\ UNCHANGED <<faults, stranded>>

MarkFailed(w) ==
    /\ wpc[w] = "failing"
    /\ MarkRow(wjob[w], "failed")
    /\ Release(w)
    /\ UNCHANGED <<faults, stranded>>

\* The UPDATE fails: the error is logged and the worker goes on.
MarkErrors(w) ==
    /\ wpc[w] \in {"written", "failing"}
    /\ Release(w)
    /\ Fault
    /\ stranded' = [stranded EXCEPT ![wjob[w]] = TRUE]
    /\ UNCHANGED <<status, updated, hasResult>>

-----------------------------------------------------------------------------
(* The TTL sweeper (jobs.rs, sweep_expired).                               *)

\* `now() - ttl_secs as i64`: the cast and the subtraction wrap.
AsI64(n) == IF n < Half THEN n ELSE n - 2 * Half

\* Mutant of Cutoff: the time to live left out.
CutoffNow == now
Cutoff == AsI64(now - AsI64(TTL))

\* Mutants of Due: no status filter, <= for <.
DueAnyStatus(j) == status[j] # "absent" /\ updated[j] < Cutoff
DueTooSoon(j) == status[j] \in Terminal /\ updated[j] <= Cutoff

Due(j) == status[j] \in Terminal /\ updated[j] < Cutoff

\* (a) Under the lock.
SweepCollect(s) ==
    /\ spc[s] = "idle"
    /\ \E j \in Job : Due(j)
    /\ spc' = [spc EXCEPT ![s] = "removing"]
    /\ cand' = [cand EXCEPT ![s] = {j \in Job : Due(j)}]
    /\ named' = [named EXCEPT ![s] = {j \in Job : Due(j) /\ hasResult[j]}]
    /\ UNCHANGED <<db, disk, up, hpc, workers, cleaned, now, stops, faults, hist>>

\* Mutant of RemoveOk: a missing file is an error.
RemoveOkStrict(f) == IF f = "none" THEN {FALSE} ELSE BOOLEAN

\* What removing a file in state f may return: an absent one counts as removed.
RemoveOk(f) == IF f = "none" THEN {TRUE} ELSE BOOLEAN

\* (b) With the lock released: the input, then, if that went well and the row
\* named one, the result.  The job is cleaned when everything is gone.
SweepFiles(s, j) ==
    /\ j \in cand[s]
    /\ cand' = [cand EXCEPT ![s] = @ \ {j}]
    /\ \E input \in RemoveOk(upload[j]) :
       \E all \in IF ~ input THEN {FALSE}
                  ELSE IF j \in named[s] THEN RemoveOk(result[j]) ELSE {TRUE} :
           /\ upload' = [upload EXCEPT ![j] = IF input THEN "none" ELSE @]
           /\ result' = [result EXCEPT ![j] = IF all /\ j \in named[s] THEN "none" ELSE @]
           /\ cleaned' = [cleaned EXCEPT ![s] = IF all THEN @ \cup {j} ELSE @]
           /\ IF all THEN UNCHANGED faults ELSE Fault
    /\ UNCHANGED <<db, up, hpc, workers, spc, named, now, stops, hist>>

DeleteRows(D) ==
    /\ status' = [j \in Job |-> IF j \in D THEN "absent" ELSE status[j]]
    /\ created' = [j \in Job |-> IF j \in D THEN 0 ELSE created[j]]
    /\ updated' = [j \in Job |-> IF j \in D THEN 0 ELSE updated[j]]
    /\ hasResult' = [j \in Job |-> hasResult[j] /\ j \notin D]

\* (c) Under the lock again, by id only; the first error abandons the rest.
SweepRows(s) ==
    /\ spc[s] = "removing"
    /\ cand[s] = {}
    /\ \/ DeleteRows(cleaned[s]) /\ UNCHANGED faults
       \/ \E D \in SUBSET cleaned[s] : D # cleaned[s] /\ DeleteRows(D) /\ Fault
    /\ spc' = [spc EXCEPT ![s] = "idle"]
    /\ named' = [named EXCEPT ![s] = {}]
    /\ cleaned' = [cleaned EXCEPT ![s] = {}]
    /\ UNCHANGED <<disk, up, hpc, workers, cand, now, stops, hist>>

-----------------------------------------------------------------------------
Tick ==
    /\ now < MaxTime
    /\ now' = now + 1
    /\ UNCHANGED <<db, disk, up, hpc, workers, sweeper, stops, faults, hist>>

Lifecycle(s) == StartServer(s) \/ Bind(s) \/ BindFails(s) \/ Crash(s) \/ Shutdown(s)
Submit(j) ==
    \/ BeginUpload(j) \/ FinishUpload(j) \/ UploadFails(j)
    \/ Insert(j) \/ InsertFails(j)
Work(w) ==
    \/ \E j \in Job : Claim(w, j)
    \/ PollEmpty(w) \/ ExtractSucceeds(w) \/ ExtractFails(w) \/ OpenResult(w)
    \/ FillResult(w) \/ SaveFails(w) \/ MarkSucceeded(w) \/ MarkFailed(w)
    \/ MarkErrors(w)
Sweep(s) ==
    \/ SweepCollect(s)
    \/ \E j \in Job : SweepFiles(s, j)
    \/ SweepRows(s)

Next ==
    \/ \E s \in Server : Lifecycle(s) \/ Sweep(s)
    \/ \E j \in Job : Submit(j)
    \/ \E w \in Worker : Work(w)
    \/ Tick

Spec == Init /\ [][Next]_vars

-----------------------------------------------------------------------------
(* What the service promises.                                              *)

Held(w) == wjob[w] # NoJob
Live(j) == \E w \in Worker : wjob[w] = j
Down == \A s \in Server : up[s] = "down"
\* Past its time to live, in the arithmetic the documentation has in mind.
Expired(j) == status[j] \in Terminal /\ updated[j] + TTL < now

(* No two workers hold the same job, across claims, requeues at start, and
   outcomes that could not be recorded (claim_next, jobs.rs).              *)
ClaimExclusive ==
    \A w, v \in Worker : Held(w) /\ wjob[w] = wjob[v] => w = v

(* A row that says "running" has a worker behind it, so it will get an
   outcome, unless the process died (the next start requeues it) or
   recording the outcome failed (process_job logs the error and goes on).   *)
RunningHasOwner ==
    \A j \in Job : status[j] = "running" => Live(j) \/ stranded[j] \/ Down

(* Whatever is still to be run, or run again after a crash, has its complete
   input on disk: create_job inserts the row after the last byte, and the
   sweeper leaves unfinished jobs alone.                                    *)
InputHeld ==
    \A j \in Job : status[j] \in {"queued", "running"} => upload[j] = "full"

(* A succeeded job's result is complete for as long as its time to live
   lasts, and after that complete or gone: GET .../result never serves a
   truncated file.                                                          *)
ResultHeld ==
    \A j \in Job : status[j] = "succeeded" =>
        /\ result[j] \in {"full", "none"}
        /\ ~ Expired(j) => result[j] = "full"

(* A job runs again only because the process was restarted: the claims of a
   job never outnumber the starts.                                          *)
Running == {s \in Server : up[s] # "down"}
Starts == stops + Cardinality(Running)
BoundedReruns == \A j \in Job : claims[j] <= Starts

(* An upload without a row is one whose handler is at work, died with the
   process, or could not remove it.                                         *)
UploadOwned ==
    \A j \in Job : upload[j] # "none" /\ status[j] = "absent" =>
        \/ hpc[j] \in {"receiving", "stored", "lost"}
        \/ hpc[j] = "refused" /\ faults > 0

(* A recorded outcome is never revised: a terminal row stays as it is until
   the sweeper deletes it (mark_succeeded and mark_failed do not look at the
   status they overwrite).                                                  *)
TerminalIsFinal ==
    [][\A j \in Job : status[j] \in Terminal =>
           status'[j] \in {status[j], "absent"}]_vars

(* The sweeper forgets a job only after its time to live, and only when the
   files its row names are gone (sweep_expired, "so we never orphan files on
   disk").                                                                  *)
DeletesAreDue ==
    [][\A j \in Job : status[j] # "absent" /\ status'[j] = "absent" =>
           /\ Expired(j)
           /\ upload'[j] = "none"
           /\ hasResult[j] => result'[j] = "none"]_vars

-----------------------------------------------------------------------------
(* What the invariants above rest on, step by step; the proofs use it.     *)

\* Any number of servers.
TaskShape ==
    \A w \in Worker :
        /\ wpc[w] \in {"off", "idle"} <=> wjob[w] = NoJob
        /\ wpc[w] = "off" <=> up[w[1]] = "down"
HandlerShape ==
    \A j \in Job :
        /\ hpc[j] # "accepted" => status[j] = "absent"
        /\ hpc[j] = "stored" => upload[j] = "full"
CandidatesDone ==
    \A s \in Server : \A j \in cand[s] \cup named[s] \cup cleaned[s] :
        hpc[j] = "accepted" /\ status[j] \in Terminal \cup {"absent"}
BaseInv == TypeOK /\ TaskShape /\ HandlerShape /\ CandidatesDone /\ InputHeld

\* A row that waits has a start ahead of its claims; a handler has its server.
RerunInv ==
    /\ IsFiniteSet(Running)
    /\ \A j \in Job :
        /\ claims[j] <= Starts
        /\ status[j] = "queued" => claims[j] < Starts
        /\ hpc[j] # "accepted" => claims[j] = 0
        /\ hpc[j] \in {"receiving", "stored"} => Serving

\* An id that was not used has no file, and a job that was cleaned has none left.
UploadInv ==
    /\ UploadOwned
    /\ \A j \in Job : hpc[j] = "idle" => upload[j] = "none"
    /\ \A s \in Server : \A j \in cleaned[s] : upload[j] = "none"

\* One server on the data directory; for RetentionInv also a time to live that
\* fits an i64.
SingleServer == \A s, t \in Server : s = t
NoWrap == TTL < Half

BusyRunning == \A w \in Worker : Held(w) => status[wjob[w]] = "running"
PathNamed == \A j \in Job : hasResult[j] <=> status[j] = "succeeded"
WrittenFull == \A w \in Worker : wpc[w] = "written" => result[wjob[w]] = "full"
CandidatesDue ==
    \A s \in Server :
        /\ \A j \in cand[s] \cup cleaned[s] : Expired(j) /\ (j \in named[s] <=> hasResult[j])
        /\ \A j \in cleaned[s] : upload[j] = "none" /\ (hasResult[j] => result[j] = "none")
WorkInv ==
    /\ BusyRunning /\ ClaimExclusive /\ RunningHasOwner /\ PathNamed /\ WrittenFull
RetentionInv == ResultHeld /\ CandidatesDue

-----------------------------------------------------------------------------
(* Statements of the repository that the code does not keep.               *)

(* jobs.rs:62: a start requeues "jobs orphaned by a previous crash/restart",
   never one that a live worker of another process is still running.        *)
RecoversOnlyOrphans ==
    [][\A j \in Job : status[j] = "running" /\ status'[j] = "queued" => ~ Live(j)]_vars

(* jobs.rs:250: "we never orphan files on disk": once the row of a job is
   swept, no result file of it is left.                                     *)
NoOrphanResult ==
    \A j \in Job : hpc[j] = "accepted" /\ status[j] = "absent" => result[j] = "none"

(* configuration.md:19: DOCRAY_RESULT_TTL_SECS is "How long finished jobs and
   results are kept", for whatever number of seconds a u64 holds: no row is
   deleted before.                                                          *)
FinishedKept ==
    [][\A j \in Job : status[j] # "absent" /\ status'[j] = "absent" => Expired(j)]_vars

-----------------------------------------------------------------------------
(* Fairness: every loop of the server keeps running (tokio schedules its
   tasks, an extraction ends by its timeout, the sweeper wakes up every ten
   minutes) and somebody starts the process again when it is down.          *)
Fairness ==
    /\ \A s \in Server :
        /\ WF_vars(StartServer(s))
        /\ WF_vars(SweepCollect(s))
        /\ WF_vars(\E j \in Job : SweepFiles(s, j))
        /\ WF_vars(SweepRows(s))
    /\ \A w \in Worker :
        /\ WF_vars(\E j \in Job : Claim(w, j))
        /\ WF_vars(ExtractSucceeds(w) \/ ExtractFails(w))
        /\ WF_vars(OpenResult(w) \/ FillResult(w) \/ SaveFails(w))
        /\ WF_vars(MarkSucceeded(w) \/ MarkFailed(w) \/ MarkErrors(w))

FairSpec == Spec /\ Fairness

(* A job the client got an id for reaches an outcome, whatever crashes on the
   way, unless recording the outcome fails.                                 *)
AcceptedTerminates ==
    \A j \in Job : hpc[j] = "accepted" ~>
        status[j] \in Terminal \cup {"absent"} \/ stranded[j]

(* An expired job's row and the files it names are removed in the end, also
   when a sweep was cut short by a crash, a file that would not go or a
   failing DELETE.                                                          *)
ExpiredSwept ==
    \A j \in Job : Expired(j) ~>
        status[j] = "absent" /\ upload[j] = "none"

-----------------------------------------------------------------------------
(* What a client of the service sees: JobLifecycle.                        *)

Phase == [j \in Job |-> IF status[j] # "absent" THEN status[j]
                        ELSE IF hpc[j] = "accepted" THEN "gone" ELSE "none"]

Promise == INSTANCE JobLifecycle WITH phase <- Phase

(* With one server on the data directory the table, the handlers, the
   workers, the sweeper and every crash in between implement the job
   life cycle.                                                              *)
ImplementsLifecycle == Promise!Spec

=============================================================================
