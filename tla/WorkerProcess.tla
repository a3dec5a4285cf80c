--------------------------- MODULE WorkerProcess ---------------------------
(***************************************************************************)
(* One extraction in a child process (docray-server, worker.rs,            *)
(* run_extraction): the CLI is spawned with both output streams piped,     *)
(* stdout is drained up to a cap by the caller and stderr by a task of its *)
(* own, a timer runs over both, and the exit status becomes the outcome.   *)
(*                                                                         *)
(* Streams are counted, not spelt: byte k of a stream is its k-th byte.    *)
(***************************************************************************)
EXTENDS Integers

CONSTANTS
    Cap,        \* output_cap_bytes
    ErrCap,     \* STDERR_CAP
    PipeSize,   \* what the kernel buffers per pipe
    Buf,        \* the size of the read buffers
    MaxOut,     \* bound on what the child writes to stdout
    MaxErr      \* bound on what the child writes to stderr

ASSUME SizesAssumption ==
    /\ Cap \in Nat /\ ErrCap \in Nat /\ MaxOut \in Nat /\ MaxErr \in Nat
    /\ PipeSize \in Nat \ {0} /\ Buf \in Nat \ {0}

Codes == {"zero", "structured", "other"}    \* exit 0, exit 2..10, any other end

VARIABLES
    \* the child: what it is going to do ...
    want, wantErr, plan, hangs,
    \* ... and did
    child,      \* "none", "running" or "dead"
    code,       \* how it ended, "none" before
    sent, sentErr,
    \* the caller
    pc,         \* "spawn", "stdout", "stderr", "wait", "reap", "timedout",
                \* "returned", or "dropped" when its own caller went away
    reading,    \* the read end of stdout is open
    seen, out,  \* bytes read from stdout, and kept
    outcome,
    \* the stderr task
    errTask,    \* "none", "running", "done" or "aborted"
    seenErr, err,
    osError     \* a read or a wait failed

intent == <<want, wantErr, plan, hangs>>
childv == <<child, code, sent, sentErr>>
caller == <<pc, reading, seen, out, outcome>>
errv   == <<errTask, seenErr, err>>
extraction == <<intent, childv, caller, errv, osError>>

Least(a, b) == IF a <= b THEN a ELSE b

TypeOK ==
    /\ want \in 0 .. MaxOut /\ wantErr \in 0 .. MaxErr
    /\ plan \in Codes /\ hangs \in BOOLEAN
    /\ child \in {"none", "running", "dead"}
    /\ code \in Codes \cup {"none"}
    /\ sent \in 0 .. want /\ sentErr \in 0 .. wantErr
    /\ pc \in {"spawn", "stdout", "stderr", "wait", "reap", "timedout", "returned", "dropped"}
    /\ reading \in BOOLEAN
    /\ seen \in 0 .. sent /\ out \in 0 .. seen
    /\ outcome \in {"none", "Success", "Failed", "Timeout", "Crashed", "OutputTooLarge"}
    /\ errTask \in {"none", "running", "done", "aborted"}
    /\ seenErr \in 0 .. sentErr /\ err \in 0 .. ErrCap
    /\ osError \in BOOLEAN

ExtractionInit ==
    /\ want \in 0 .. MaxOut /\ wantErr \in 0 .. MaxErr
    /\ plan \in Codes /\ hangs \in BOOLEAN
    /\ child = "none" /\ code = "none" /\ sent = 0 /\ sentErr = 0
    /\ pc = "spawn" /\ reading = FALSE /\ seen = 0 /\ out = 0 /\ outcome = "none"
    /\ errTask = "none" /\ seenErr = 0 /\ err = 0
    /\ osError = FALSE

-----------------------------------------------------------------------------
(* The child: docray-cli, or whatever DOCRAY_CLI_PATH names.               *)

\* A write goes as far as the pipe has room, and blocks when it has none.
WriteOut ==
    /\ child = "running" /\ reading
    /\ sent < want /\ sent - seen < PipeSize
    /\ sent' = sent + 1
    /\ UNCHANGED <<intent, child, code, sentErr, caller, errv, osError>>

WriteErr ==
    /\ child = "running" /\ errTask = "running"
    /\ sentErr < wantErr /\ sentErr - seenErr < PipeSize
    /\ sentErr' = sentErr + 1
    /\ UNCHANGED <<intent, child, code, sent, caller, errv, osError>>

Ends(c) ==
    /\ child = "running"
    /\ child' = "dead"
    /\ code' = c
    /\ UNCHANGED <<intent, sent, sentErr, caller, errv, osError>>

\* It ends as planned when it has written everything; a stdout nobody reads
\* any more counts as written (write_stdout takes EPIPE for success).
Exit == /\ sent = want \/ ~ reading
        /\ sentErr = wantErr \/ errTask # "running"
        /\ Ends(plan)

\* A signal, the memory limit: at any moment.
Die == Ends("other")

Kill ==
    /\ child' = "dead"
    /\ code' = IF child = "running" THEN "other" ELSE code
    /\ UNCHANGED <<sent, sentErr>>

-----------------------------------------------------------------------------
(* The caller.                                                             *)

Return(o) == pc' = "returned" /\ outcome' = o

Spawn ==
    /\ pc = "spawn"
    /\ pc' = "stdout"
    /\ child' = "running"
    /\ reading' = TRUE
    /\ errTask' = "running"
    /\ UNCHANGED <<intent, code, sent, sentErr, seen, out, outcome, seenErr, err, osError>>

\* Also when the memory limit cannot be set: no unlimited child is run.
SpawnFails ==
    /\ pc = "spawn"
    /\ Return("Failed")
    /\ osError' = TRUE
    /\ UNCHANGED <<intent, childv, reading, seen, out, errv>>

Chunk(n) == n \in 1 .. Buf /\ n <= sent - seen

\* Mutant of OverCap: the chunk that crosses the cap is not counted.
OverCapLate(n) == out > Cap
OverCap(n) == out + n > Cap

ReadOut(n) ==
    /\ pc = "stdout"
    /\ Chunk(n)
    /\ ~ OverCap(n)
    /\ seen' = seen + n
    /\ out' = out + n
    /\ UNCHANGED <<intent, childv, pc, reading, outcome, errv, osError>>

\* The cap is breached: the child is killed in the same poll.
Breach(n) ==
    /\ pc = "stdout"
    /\ Chunk(n)
    /\ OverCap(n)
    /\ seen' = seen + n
    /\ pc' = "reap"
    /\ reading' = FALSE
    /\ Kill
    /\ UNCHANGED <<intent, out, outcome, errv, osError>>

\* Mutant of Drained: an empty pipe is taken for its end.
DrainedEarly(sentBytes, seenBytes) == sentBytes = seenBytes
\* End of file: the pipe is empty and its only writer is gone.
Drained(sentBytes, seenBytes) == sentBytes = seenBytes /\ child = "dead"

OutEnds ==
    /\ pc = "stdout"
    /\ Drained(sent, seen)
    /\ pc' = "stderr"
    /\ reading' = FALSE
    /\ UNCHANGED <<intent, childv, seen, out, outcome, errv, osError>>

\* A failing read is taken for the end of the stream.
OutReadFails ==
    /\ pc = "stdout"
    /\ pc' = "stderr"
    /\ reading' = FALSE
    /\ osError' = TRUE
    /\ UNCHANGED <<intent, childv, seen, out, outcome, errv>>

JoinErr ==
    /\ pc = "stderr"
    /\ errTask = "done"
    /\ pc' = "wait"
    /\ UNCHANGED <<intent, childv, reading, seen, out, outcome, errv, osError>>

Classify(c) ==
    CASE c = "zero" -> "Success" [] c = "structured" -> "Failed" [] c = "other" -> "Crashed"

Wait ==
    /\ pc = "wait"
    /\ child = "dead"
    /\ \/ Return(Classify(code)) /\ UNCHANGED osError
       \/ Return("Crashed") /\ osError' = TRUE
    /\ UNCHANGED <<intent, childv, reading, seen, out, errv>>

\* kill().await has reaped the child; the stderr task is aborted.
Reap ==
    /\ pc = "reap"
    /\ Return("OutputTooLarge")
    /\ errTask' = IF errTask = "running" THEN "aborted" ELSE errTask
    /\ UNCHANGED <<intent, childv, reading, seen, out, seenErr, err, osError>>

\* Mutant of TimerFires: the future is dropped and the child forgotten.
TimerForgets ==
    /\ pc \in {"stdout", "stderr", "wait", "reap"}
    /\ pc' = "timedout"
    /\ reading' = FALSE
    /\ UNCHANGED <<intent, childv, seen, out, outcome, errv, osError>>

\* The drain is dropped where it awaits, the stderr task is left to itself,
\* and the child is killed.
TimerFires ==
    /\ pc \in {"stdout", "stderr", "wait", "reap"}
    /\ pc' = "timedout"
    /\ reading' = FALSE
    /\ Kill
    /\ UNCHANGED <<intent, seen, out, outcome, errv, osError>>

TimeoutReap ==
    /\ pc = "timedout"
    /\ Return("Timeout")
    /\ UNCHANGED <<intent, childv, reading, seen, out, errv, osError>>

\* The caller's own future is dropped (a sync client went away): kill_on_drop.
CallerGone ==
    /\ pc \in {"stdout", "stderr", "wait", "reap", "timedout"}
    /\ pc' = "dropped"
    /\ reading' = FALSE
    /\ Kill
    /\ UNCHANGED <<intent, seen, out, outcome, errv, osError>>

-----------------------------------------------------------------------------
(* The stderr task: past its cap it reads on and throws away.              *)

Kept(n) == Least(ErrCap, err + n)

TakeErr(n) ==
    /\ n \in 1 .. Buf /\ n <= sentErr - seenErr
    /\ seenErr' = seenErr + n
    /\ err' = Kept(n)
    /\ UNCHANGED <<intent, childv, caller, errTask, osError>>

\* Mutant of ReadErr: only after stdout.
ReadErrAfterOut(n) == errTask = "running" /\ pc # "stdout" /\ TakeErr(n)

ReadErr(n) == errTask = "running" /\ TakeErr(n)

ErrEnds ==
    /\ errTask = "running"
    /\ Drained(sentErr, seenErr)
    /\ errTask' = "done"
    /\ UNCHANGED <<intent, childv, caller, seenErr, err, osError>>

ErrReadFails ==
    /\ errTask = "running"
    /\ errTask' = "done"
    /\ osError' = TRUE
    /\ UNCHANGED <<intent, childv, caller, seenErr, err>>

\* Everything has ended.
Over ==
    /\ pc \in {"returned", "dropped"}
    /\ errTask # "running"
    /\ UNCHANGED extraction

ChildStep == WriteOut \/ WriteErr \/ Exit
ReadStep  == (\E n \in 1 .. Buf : ReadOut(n) \/ Breach(n)) \/ OutEnds
WaitStep  == JoinErr \/ Wait \/ Reap \/ TimeoutReap
ErrStep   == (\E n \in 1 .. Buf : ReadErr(n)) \/ ErrEnds

ExtractionNext ==
    \/ ChildStep \/ Die
    \/ Spawn \/ SpawnFails \/ ReadStep \/ OutReadFails \/ WaitStep
    \/ TimerFires \/ CallerGone
    \/ ErrStep \/ ErrReadFails
    \/ Over

ExtractionSpec == ExtractionInit /\ [][ExtractionNext]_extraction

\* tokio polls what is ready; a child that does not hang gets on with its
\* work; one that hangs meets the timer.
ExtractionFairness ==
    /\ WF_extraction(Spawn \/ SpawnFails)
    /\ WF_extraction(ReadStep) /\ WF_extraction(WaitStep) /\ WF_extraction(ErrStep)
    /\ WF_extraction(~ hangs /\ WriteOut) /\ WF_extraction(~ hangs /\ WriteErr) /\ WF_extraction(~ hangs /\ Exit)
    /\ WF_extraction(hangs /\ TimerFires)

FairExtraction == ExtractionSpec /\ ExtractionFairness

-----------------------------------------------------------------------------
(* A Success carries the child's whole output: everything it had to write,
   from a child that ended with exit code 0; only a read error on the pipe
   can pass for its end.                                                    *)
SuccessIsComplete ==
    outcome = "Success" => osError \/ (code = "zero" /\ out = want)

(* The cap is exact: no more than Cap bytes are ever kept, and the outcome is
   OutputTooLarge only for a child that wrote more.                         *)
CapIsExact ==
    /\ out <= Cap
    /\ outcome = "OutputTooLarge" => sent > Cap

(* No child outlives its extraction, whether it was read to its end, over the
   cap, timed out, or the client left.                                      *)
NoChildSurvives == pc \in {"returned", "dropped"} => child # "running"

(* The error object of a failing child is seen whole, as far as the cap
   allows, before it is parsed.                                             *)
MessageIsWhole ==
    outcome = "Failed" /\ ~ osError => err = Least(ErrCap, wantErr)

(* A child that does not hang is never the victim of its own chatter: with no
   help from the timer the extraction ends, whatever it writes to which
   stream in which order; one that hangs is ended by the timer.  The stderr
   task ends as well, also when it was left to itself.                      *)
ExtractionEnds ==
    /\ <>(pc \in {"returned", "dropped"})
    /\ (errTask = "running") ~> (errTask # "running")

=============================================================================
