------------------------------ MODULE SyncPool ------------------------------
(***************************************************************************)
(* POST /v1/extract (docray-server, http.rs, sync_extract): the upload in a *)
(* temporary file, a permit of the semaphore, the telemetry's active       *)
(* counter, the child process, and the way back through all of them, also  *)
(* for a client that goes away at an await.  The job workers (process_job, *)
(* main.rs) share the counter but not the semaphore.                       *)
(*                                                                         *)
(* A request is a client that sends one request after the other.  What the *)
(* child does is WorkerProcess; here it runs and ends.                     *)
(***************************************************************************)
EXTENDS Integers, FiniteSets, Sequences

CONSTANTS
    Req,        \* clients of the synchronous route
    JobTask,    \* worker tasks of the job pool
    Permits,    \* cfg.workers
    MaxCrashes  \* bound on the deaths of the server

ASSUME PoolAssumption == Permits \in Nat \ {0} /\ MaxCrashes \in Nat
ASSUME FiniteAssumption == IsFiniteSet(Req) /\ IsFiniteSet(JobTask)

VARIABLES
    pc,         \* per client: where its handler is (see RouteTyped)
    queue,      \* the semaphore's waiters
    permits,    \* the semaphore's free permits
    tmp,        \* the temporary file exists
    child,      \* "none", "running", or "orphan" of a server that died
    active,     \* telemetry: active_count
    inFlight,   \* per client: the count its extraction saw, 0 before
    jpc,        \* per job task: "idle", "extracting" or "recorded"
    crashes

sem  == <<queue, permits>>
tele == <<active, inFlight>>
routeVars == <<pc, sem, tmp, child, tele, jpc, crashes>>

\* Handlers that have a permit, and those that count as active.
HasPermit == {"acquired", "granted", "running", "ended", "closing", "dropping", "freeing"}
Counted == {"running", "ended", "dropping"}

RouteTyped ==
    /\ pc \in [Req -> {"idle", "reading", "stored", "queued", "cleaning"} \cup HasPermit]
    /\ queue \in Seq(Req)
    /\ permits \in 0 .. Permits
    /\ tmp \in [Req -> BOOLEAN]
    /\ child \in [Req -> {"none", "running", "orphan"}]
    /\ active \in Nat
    /\ inFlight \in [Req -> Nat]
    /\ jpc \in [JobTask -> {"idle", "extracting", "recorded"}]
    /\ crashes \in 0 .. MaxCrashes

RouteInit ==
    /\ pc = [r \in Req |-> "idle"]
    /\ queue = <<>>
    /\ permits = Permits
    /\ tmp = [r \in Req |-> FALSE]
    /\ child = [r \in Req |-> "none"]
    /\ active = 0
    /\ inFlight = [r \in Req |-> 0]
    /\ jpc = [t \in JobTask |-> "idle"]
    /\ crashes = 0

Goes(r, from, to) == pc[r] = from /\ pc' = [pc EXCEPT ![r] = to]

-----------------------------------------------------------------------------
(* The handler, to the permit.                                             *)

\* A new request; what the last one lost with a dead server is not tracked on.
Arrive(r) ==
    /\ Goes(r, "idle", "reading")
    /\ inFlight' = [inFlight EXCEPT ![r] = 0]
    /\ tmp' = [tmp EXCEPT ![r] = FALSE]
    /\ child' = [child EXCEPT ![r] = "none"]
    /\ UNCHANGED <<sem, active, jpc, crashes>>

\* A bad query or body, a temporary file that cannot be made or written (then
\* it is removed), or a client that goes away.
TurnAway(r) ==
    /\ Goes(r, "reading", "idle")
    /\ UNCHANGED <<sem, tmp, child, tele, jpc, crashes>>

Store(r) ==
    /\ Goes(r, "reading", "stored")
    /\ tmp' = [tmp EXCEPT ![r] = TRUE]
    /\ UNCHANGED <<sem, child, tele, jpc, crashes>>

\* Mutant of Acquire: no semaphore.
AcquireUnbounded(r) ==
    /\ Goes(r, "stored", "acquired")
    /\ UNCHANGED <<sem, tmp, child, tele, jpc, crashes>>

\* Semaphore::acquire: tokio's semaphore is fair, it queues its waiters.
Acquire(r) ==
    /\ IF permits > 0
       THEN Goes(r, "stored", "acquired") /\ permits' = permits - 1 /\ UNCHANGED queue
       ELSE Goes(r, "stored", "queued") /\ queue' = Append(queue, r) /\ UNCHANGED permits
    /\ UNCHANGED <<tmp, child, tele, jpc, crashes>>

\* The queue without its i-th waiter.
Without(q, i) == [k \in 1 .. Len(q) - 1 |-> q[IF k < i THEN k ELSE k + 1]]

\* Mutant of First: last in, first out.
FirstIsLast(q) == Len(q)
First(q) == 1

\* Client r moves to pc "to" and gives its permit back: it goes to a waiter.
FreePermit(r, to) ==
    IF queue = <<>>
    THEN /\ permits' = permits + 1
         /\ pc' = [pc EXCEPT ![r] = to]
         /\ UNCHANGED queue
    ELSE /\ pc' = [pc EXCEPT ![r] = to, ![queue[First(queue)]] = "granted"]
         /\ queue' = Without(queue, First(queue))
         /\ UNCHANGED permits

-----------------------------------------------------------------------------
(* The extraction and the way back.  Locals are dropped in the reverse of   *)
(* their order: the child, the active guard, the permit, the file.         *)

Begin(r) ==
    /\ Goes(r, "acquired", "running") \/ Goes(r, "granted", "running")
    /\ active' = active + 1
    /\ inFlight' = [inFlight EXCEPT ![r] = active + 1]
    /\ child' = [child EXCEPT ![r] = "running"]
    /\ UNCHANGED <<sem, tmp, jpc, crashes>>

\* run_extraction returns.
Outcome(r) ==
    /\ Goes(r, "running", "ended")
    /\ child' = [child EXCEPT ![r] = "none"]
    /\ UNCHANGED <<sem, tmp, tele, jpc, crashes>>

\* ActiveExtraction::drop.
Deactivate(r) ==
    /\ Goes(r, "ended", "closing") \/ Goes(r, "dropping", "freeing")
    /\ active' = active - 1
    /\ UNCHANGED <<sem, tmp, child, inFlight, jpc, crashes>>

\* finish_response, also when a log line that cannot be printed panics.
Record(r) ==
    /\ Goes(r, "closing", "freeing")
    /\ UNCHANGED <<sem, tmp, child, tele, jpc, crashes>>

Free(r) ==
    /\ pc[r] = "freeing"
    /\ FreePermit(r, "cleaning")
    /\ UNCHANGED <<tmp, child, tele, jpc, crashes>>

\* NamedTempFile::drop.
Clean(r) ==
    /\ Goes(r, "cleaning", "idle")
    /\ tmp' = [tmp EXCEPT ![r] = FALSE]
    /\ UNCHANGED <<sem, child, tele, jpc, crashes>>

\* Mutant of LeaveQueue: the file is not removed on the way out.
LeaveQueueLitters(r) ==
    /\ Goes(r, "queued", "idle")
    /\ \E i \in 1 .. Len(queue) : queue[i] = r /\ queue' = Without(queue, i)
    /\ UNCHANGED <<permits, tmp, child, tele, jpc, crashes>>

\* The client goes away: the handler's future is dropped where it awaits.
LeaveQueue(r) ==
    /\ Goes(r, "queued", "cleaning")
    /\ \E i \in 1 .. Len(queue) : queue[i] = r /\ queue' = Without(queue, i)
    /\ UNCHANGED <<permits, tmp, child, tele, jpc, crashes>>

\* Mutant of LeaveGranted: the permit is lost with the client that was about
\* to get it.
LeaveGrantedLeaks(r) ==
    /\ Goes(r, "granted", "cleaning")
    /\ UNCHANGED <<sem, tmp, child, tele, jpc, crashes>>

\* The permit was handed to a waiter that leaves before it is polled.
LeaveGranted(r) ==
    /\ pc[r] = "granted"
    /\ FreePermit(r, "cleaning")
    /\ UNCHANGED <<tmp, child, tele, jpc, crashes>>

\* Mutant of LeaveRunning: a cancelled request goes on counting as active.
LeaveRunningCounted(r) ==
    /\ Goes(r, "running", "freeing")
    /\ child' = [child EXCEPT ![r] = "none"]
    /\ UNCHANGED <<sem, tmp, tele, jpc, crashes>>

\* kill_on_drop, then the guards of sync_extract.
LeaveRunning(r) ==
    /\ Goes(r, "running", "dropping")
    /\ child' = [child EXCEPT ![r] = "none"]
    /\ UNCHANGED <<sem, tmp, tele, jpc, crashes>>

-----------------------------------------------------------------------------
(* The job pool's use of the counter (process_job).                        *)

JobBegin(t) ==
    /\ jpc[t] = "idle"
    /\ jpc' = [jpc EXCEPT ![t] = "extracting"]
    /\ active' = active + 1
    /\ UNCHANGED <<pc, sem, tmp, child, inFlight, crashes>>

\* Recorded while it still counts; a panic drops the guard without it.
JobRecord(t) ==
    /\ jpc[t] = "extracting"
    /\ jpc' = [jpc EXCEPT ![t] = "recorded"]
    /\ UNCHANGED <<pc, sem, tmp, child, tele, crashes>>

JobDrop(t) ==
    /\ jpc[t] # "idle"
    /\ jpc' = [jpc EXCEPT ![t] = "idle"]
    /\ active' = active - 1
    /\ UNCHANGED <<pc, sem, tmp, child, inFlight, crashes>>

\* The server is killed: nothing is dropped, so its children live on and its
\* temporary files stay; the next server starts from scratch.
ServerDies ==
    /\ crashes < MaxCrashes
    /\ crashes' = crashes + 1
    /\ pc' = [r \in Req |-> "idle"]
    /\ queue' = <<>>
    /\ permits' = Permits
    /\ child' = [r \in Req |-> IF child[r] = "running" THEN "orphan" ELSE child[r]]
    /\ active' = 0
    /\ inFlight' = [r \in Req |-> 0]
    /\ jpc' = [t \in JobTask |-> "idle"]
    /\ UNCHANGED tmp

Leave(r) == LeaveQueue(r) \/ LeaveGranted(r) \/ LeaveRunning(r)
Return(r) == Outcome(r) \/ Deactivate(r) \/ Record(r) \/ Free(r) \/ Clean(r)
Handle(r) == TurnAway(r) \/ Store(r) \/ Acquire(r) \/ Begin(r) \/ Return(r)

RouteNext ==
    \/ \E r \in Req : Arrive(r) \/ Handle(r) \/ Leave(r)
    \/ \E t \in JobTask : JobBegin(t) \/ JobRecord(t) \/ JobDrop(t)
    \/ ServerDies

RouteSpec == RouteInit /\ [][RouteNext]_routeVars

\* Handlers are polled when they can go on, and extractions end (ExtractionEnds
\* of WorkerProcess).
RouteFairness == \A r \in Req : WF_routeVars(Begin(r)) /\ WF_routeVars(Return(r))

FairRoute == RouteSpec /\ RouteFairness

-----------------------------------------------------------------------------
Holders == {r \in Req : pc[r] \in HasPermit}

(* No permit is lost or made up, whoever leaves when: a leak would end with
   a route that never answers again.                                        *)
PermitsConserved == permits + Cardinality(Holders) = Permits

(* The counter is what it says, after any cancellation, panic or crash; it
   never runs below zero, which in the code would wrap to 2^64 - 1.         *)
ActiveIsExact ==
    active = Cardinality({r \in Req : pc[r] \in Counted})
             + Cardinality({t \in JobTask : jpc[t] # "idle"})

(* No extraction ever sees more in flight than both pools allow: guards are
   dropped before permits.                                                  *)
InFlightBounded ==
    \A r \in Req : inFlight[r] <= Permits + Cardinality(JobTask)

(* A child of the living server runs for a handler that waits for it, and
   finds its input: the file goes last.                                     *)
ChildServed ==
    \A r \in Req : child[r] = "running" => pc[r] = "running" /\ tmp[r]

(* Temporary files do not pile up: without a crash an idle client has left
   none behind.                                                             *)
TempOwned == \A r \in Req : tmp[r] /\ pc[r] = "idle" => crashes > 0

(* What a request holds is bounded, served and given back: the three above. *)
HoldingsSound == InFlightBounded /\ ChildServed /\ TempOwned

(* Nobody waits for ever: a queued request gets its turn or its client
   leaves, although new requests keep coming.                               *)
QueuedRuns == \A r \in Req : pc[r] = "queued" ~> pc[r] \in {"running", "cleaning", "idle"}

\* What the above rest on: the queue holds each waiter once, and what a handler
\* has at each stage; the proofs use it.
QueueInv ==
    /\ \A i \in 1 .. Len(queue) : pc[queue[i]] = "queued"
    /\ \A i, k \in 1 .. Len(queue) : queue[i] = queue[k] => i = k
GuardInv ==
    \A r \in Req :
        /\ child[r] = "running" <=> pc[r] = "running"
        /\ pc[r] = "reading" => ~ tmp[r]
        /\ tmp[r] /\ pc[r] = "idle" => crashes > 0
        /\ pc[r] \notin {"idle", "reading"} => tmp[r]

Pool == INSTANCE BoundedPool WITH
    N <- Permits,
    waiting <- {r \in Req : pc[r] \in {"stored", "queued", "acquired", "granted"}},
    busy <- {r \in Req : child[r] = "running"}

(* The route is the bounded pool of the documentation.                      *)
ImplementsPool == Pool!Spec

=============================================================================
