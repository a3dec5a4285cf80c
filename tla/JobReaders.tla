----------------------------- MODULE JobReaders -----------------------------
(***************************************************************************)
(* Clients that poll GET /v1/jobs/{id}/result while JobSystem runs.  The   *)
(* handler (http.rs, job_result) reads the row under the connection's lock *)
(* and then, without it, the file the row names; workers, sweeper and      *)
(* crashes act in between.                                                 *)
(***************************************************************************)
EXTENDS JobSystem

VARIABLES
    gpc,    \* per job: "reading" between the row and the file, else "idle"
    seen,   \* per job: the last answer its client got
    known   \* history, per job: the last answer that was no fault of the moment

\* What a client may be told of its job, in the order it may be told; "gone" is
\* the io_error of a file that is not there.
Answers == <<"nothing", "not_ready", "torn", "bytes", "gone", "not_found">>

\* A database or a disk that fails tells nothing of the job.
Errors == {"store_error", "io_error"}

rvars == <<vars, gpc, seen, known>>

RInit ==
    /\ Init
    /\ gpc = [j \in Job |-> "idle"]
    /\ seen = [j \in Job |-> "nothing"]
    /\ known = [j \in Job |-> "nothing"]

Answer(j, a) == seen' = [seen EXCEPT ![j] = a] /\ known' = [known EXCEPT ![j] = a]

Fails(j, e) == seen' = [seen EXCEPT ![j] = e] /\ UNCHANGED known

\* The row is read, or cannot be; only a succeeded job goes on to the file.
Look(j) ==
    /\ Serving
    /\ gpc[j] = "idle"
    /\ hpc[j] = "accepted"
    /\ \/ Fails(j, "store_error") /\ UNCHANGED gpc
       \/ status[j] = "absent" /\ Answer(j, "not_found") /\ UNCHANGED gpc
       \/ status[j] \in {"queued", "running", "failed"} /\ Answer(j, "not_ready") /\ UNCHANGED gpc
       \/ status[j] = "succeeded" /\ gpc' = [gpc EXCEPT ![j] = "reading"] /\ UNCHANGED <<seen, known>>
    /\ UNCHANGED vars

\* std::fs::read of the path the row had, which may fail on a file that is there.
ReadFile(j) ==
    /\ gpc[j] = "reading"
    /\ gpc' = [gpc EXCEPT ![j] = "idle"]
    /\ \/ result[j] = "full" /\ Answer(j, "bytes")
       \/ result[j] = "partial" /\ Answer(j, "torn")
       \/ result[j] = "none" /\ Answer(j, "gone")
       \/ result[j] # "none" /\ Fails(j, "io_error")
    /\ UNCHANGED vars

\* A step of the service; requests in flight die with the serving process.
ServiceStep ==
    /\ Next
    /\ gpc' = IF Serving' THEN gpc ELSE [j \in Job |-> "idle"]
    /\ UNCHANGED <<seen, known>>

RNext == ServiceStep \/ \E j \in Job : Look(j) \/ ReadFile(j)

RSpec == RInit /\ [][RNext]_rvars

-----------------------------------------------------------------------------
(* No client is ever answered 200 with part of a result, whatever happened
   between the row and the file (job_result takes no lock for both).        *)
NeverTorn == \A j \in Job : seen[j] # "torn"

(* A handler that saw "succeeded" finds the file gone only when the job has
   outlived its time to live.                                               *)
ErrorOnlyAfterTTL ==
    \A j \in Job : gpc[j] = "reading" /\ result[j] # "full" =>
        status[j] = "absent" \/ Expired(j)

(* What a reader gets is whole, or gone for a good reason: the two above.   *)
ReadsSound == NeverTorn /\ ErrorOnlyAfterTTL

(* What a client is told of its job only ever advances: not_ready, the
   result, an error of the sweep in progress, not_found.  A restart does not
   take a result back that was handed out, and a database or a disk that
   failed in between changes nothing of it.                                 *)
Rank(a) == CHOOSE i \in DOMAIN Answers : Answers[i] = a
AnswersAdvance ==
    [][\A j \in Job : seen'[j] \in Errors \/ Rank(known[j]) <= Rank(seen'[j])]_rvars

-----------------------------------------------------------------------------
\* What the two rest on: a reader, and a client that was answered, are past the
\* outcome of the job, and a file that was found gone stays so.
Settled(j) == hpc[j] = "accepted" /\ status[j] \in {"succeeded", "absent"}
ReaderInv ==
    /\ gpc \in [Job -> {"idle", "reading"}]
    /\ known \in [Job -> {Answers[i] : i \in DOMAIN Answers}]
    /\ DOMAIN seen = Job
    /\ \A j \in Job :
        /\ seen[j] \in Errors \cup {known[j]}
        /\ gpc[j] = "reading" => Settled(j) /\ result[j] \in {"full", "none"}
        /\ known[j] # "torn"
        /\ known[j] = "bytes" => Settled(j)
        /\ known[j] = "gone" => Settled(j) /\ result[j] = "none"
        /\ known[j] = "not_found" => Settled(j) /\ status[j] = "absent" /\ gpc[j] = "idle"
    /\ ReadsSound

=============================================================================
