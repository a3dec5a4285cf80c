-------------------------- MODULE ServerProofs --------------------------
(* What JobSystem keeps: first for any number of server processes on one data
   directory, of jobs, workers, crashes and faults; then with one server on it
   and, where it matters, a time to live that fits an i64.                  *)
EXTENDS JobReaders, SyncPool, FiniteSetTheorems, TLAPS

(* An outcome is written to all three columns or to none.                   *)
LEMMA MarkRowTyped ==
    ASSUME TypeOK, NEW j, NEW outcome \in Terminal, MarkRow(j, outcome)
    PROVE  /\ status' \in [Job -> Status]
           /\ updated' \in [Job -> 0 .. MaxTime]
           /\ hasResult' \in [Job -> BOOLEAN]
<1>1. CASE status[j] = "absent"
  BY <1>1 DEF MarkRow, TypeOK
<1>2. CASE status[j] # "absent"
  <2>1. hasResult' = [hasResult EXCEPT ![j] = @ \/ outcome = "succeeded"]
    BY <1>2, Zenon DEF MarkRow
  <2>2. hasResult' \in [Job -> BOOLEAN]
    BY <2>1, Zenon DEF TypeOK
  <2>3. QED
    BY <1>2, <2>2 DEF MarkRow, TypeOK, Status
<1>3. QED
  BY <1>1, <1>2

(* The state of every component stays in its type: the bounds of the model
   are the guards' own, and no step leaves a row, a file or a task in a state
   the code has no name for.                                                *)
THEOREM TypeCorrect == Spec => []TypeOK
<1>1. Init => TypeOK
  BY TimeAssumption, BoundsAssumption
  DEF Init, TypeOK, Status, Terminal, FileState
<1>2. TypeOK /\ [Next]_vars => TypeOK'
  <2> SUFFICES ASSUME TypeOK, [Next]_vars PROVE TypeOK'
    OBVIOUS
  <2> USE TimeAssumption, BoundsAssumption
      DEF TypeOK, Status, Terminal, FileState, db, disk, workers, sweeper, hist
  <2>1. ASSUME NEW s \in Server, StartServer(s) PROVE TypeOK'
    BY <2>1 DEF StartServer, Recovered
  <2>2. ASSUME NEW s \in Server, Bind(s) PROVE TypeOK'
    BY <2>2 DEF Bind
  <2>3. ASSUME NEW s \in Server, GoDown(s), Stop1 PROVE TypeOK'
    BY <2>3 DEF GoDown, Stop1
  <2>4. ASSUME NEW j \in Job, BeginUpload(j) PROVE TypeOK'
    BY <2>4 DEF BeginUpload
  <2>5. ASSUME NEW j \in Job, FinishUpload(j) PROVE TypeOK'
    BY <2>5 DEF FinishUpload
  <2>6. ASSUME NEW j \in Job, UploadFails(j) PROVE TypeOK'
    BY <2>6 DEF UploadFails, Refuse, Fault
  <2>7. ASSUME NEW j \in Job, Insert(j) PROVE TypeOK'
    BY <2>7 DEF Insert
  <2>8. ASSUME NEW j \in Job, InsertFails(j) PROVE TypeOK'
    BY <2>8 DEF InsertFails, Refuse, Fault
  <2>9. ASSUME NEW w \in Worker, NEW j \in Job, Claim(w, j) PROVE TypeOK'
    BY <2>9 DEF Claim
  <2>10. ASSUME NEW w \in Worker, ExtractSucceeds(w) PROVE TypeOK'
    BY <2>10 DEF ExtractSucceeds, WorkerMoves
  <2>11. ASSUME NEW w \in Worker, ExtractFails(w) PROVE TypeOK'
    BY <2>11 DEF ExtractFails, WorkerMoves
  <2>12. ASSUME NEW w \in Worker, OpenResult(w) PROVE TypeOK'
    BY <2>12 DEF OpenResult, WorkerMoves
  <2>13. ASSUME NEW w \in Worker, FillResult(w) PROVE TypeOK'
    BY <2>13 DEF FillResult, WorkerMoves
  <2>14. ASSUME NEW w \in Worker, SaveFails(w) PROVE TypeOK'
    BY <2>14 DEF SaveFails, WorkerMoves, Fault
  <2>15. ASSUME NEW w \in Worker, MarkSucceeded(w) PROVE TypeOK'
    BY <2>15, MarkRowTyped DEF MarkSucceeded, Release
  <2>16. ASSUME NEW w \in Worker, MarkFailed(w) PROVE TypeOK'
    BY <2>16, MarkRowTyped DEF MarkFailed, Release
  <2>17. ASSUME NEW w \in Worker, MarkErrors(w) PROVE TypeOK'
    <3>1. stranded' \in [Job -> BOOLEAN]
      <4>1. stranded' = [stranded EXCEPT ![wjob[w]] = TRUE]
        BY <2>17, Zenon DEF MarkErrors
      <4>2. QED
        BY <4>1, Zenon DEF TypeOK
    <3>2. QED
      BY <2>17, <3>1 DEF MarkErrors, Release, Fault
  <2>18. ASSUME NEW s \in Server, SweepCollect(s) PROVE TypeOK'
    BY <2>18 DEF SweepCollect
  <2>19. ASSUME NEW s \in Server, NEW j \in Job, SweepFiles(s, j) PROVE TypeOK'
    BY <2>19 DEF SweepFiles, Fault
  <2>20. ASSUME NEW s \in Server, SweepRows(s) PROVE TypeOK'
    <3>1. PICK D \in SUBSET Job : DeleteRows(D)
      BY <2>20 DEF SweepRows
    <3>2. hasResult' \in [Job -> BOOLEAN]
      BY <3>1, Zenon DEF DeleteRows
    <3>3. /\ status' \in [Job -> Status]
          /\ created' \in [Job -> 0 .. MaxTime]
          /\ updated' \in [Job -> 0 .. MaxTime]
      BY <3>1 DEF DeleteRows
    <3>4. faults' \in 0 .. MaxFaults
      BY <2>20 DEF SweepRows, Fault
    <3>5. QED
      BY <2>20, <3>2, <3>3, <3>4 DEF SweepRows
  <2>21. ASSUME Tick PROVE TypeOK'
    BY <2>21 DEF Tick
  <2>22. CASE UNCHANGED vars
    BY <2>22 DEF vars
  <2>23. QED
    BY <2>1, <2>2, <2>3, <2>4, <2>5, <2>6, <2>7, <2>8, <2>9, <2>10, <2>11,
       <2>12, <2>13, <2>14, <2>15, <2>16, <2>17, <2>18, <2>19, <2>20, <2>21, <2>22
    DEF Next, Lifecycle, Sweep, Submit, Work, BindFails, Crash, Shutdown, PollEmpty
<1>3. QED
  BY <1>1, <1>2, PTL DEF Spec

(* The invariant under it: no task outlives its process, no row precedes its
   acceptance, and what a sweep holds is finished for good.                 *)
THEOREM BaseAlways == Spec => []BaseInv
<1>1. Init => BaseInv
  <2> SUFFICES ASSUME Init PROVE BaseInv
    OBVIOUS
  <2>1. TypeOK
    BY TimeAssumption, BoundsAssumption DEF Init, TypeOK, Status, Terminal, FileState
  <2>2. TaskShape
    <3>1. \A w \in Worker : w[1] \in Server
      BY DEF Worker
    <3>2. QED
      BY <3>1 DEF Init, TaskShape
  <2>3. HandlerShape /\ CandidatesDone /\ InputHeld
    BY DEF Init, HandlerShape, CandidatesDone, InputHeld
  <2>4. QED
    BY <2>1, <2>2, <2>3 DEF BaseInv
<1>2. BaseInv /\ [Next]_vars /\ TypeOK' => BaseInv'
  <2> SUFFICES ASSUME BaseInv, [Next]_vars, TypeOK'
               PROVE  TaskShape' /\ HandlerShape' /\ CandidatesDone' /\ InputHeld'
    BY DEF BaseInv
  <2> DEFINE Goal == TaskShape' /\ HandlerShape' /\ CandidatesDone' /\ InputHeld'
  <2>0. \A w \in Worker : w[1] \in Server
    BY DEF Worker
  <2> USE NoJobAssumption, <2>0
      DEF BaseInv, TypeOK, TaskShape, HandlerShape, CandidatesDone, InputHeld,
          Terminal, Status, FileState, db, disk, workers, sweeper, hist
  <2>1. ASSUME NEW s \in Server, StartServer(s) PROVE Goal
    BY <2>1 DEF StartServer, Recovered
  <2>2. ASSUME NEW s \in Server, Bind(s) PROVE Goal
    BY <2>2 DEF Bind
  <2>3. ASSUME NEW s \in Server, GoDown(s) PROVE Goal
    BY <2>3 DEF GoDown
  <2>4. ASSUME NEW j \in Job, BeginUpload(j) PROVE Goal
    BY <2>4 DEF BeginUpload
  <2>5. ASSUME NEW j \in Job, FinishUpload(j) PROVE Goal
    BY <2>5 DEF FinishUpload
  <2>6. ASSUME NEW j \in Job, UploadFails(j) PROVE Goal
    BY <2>6 DEF UploadFails, Refuse
  <2>7. ASSUME NEW j \in Job, Insert(j) PROVE Goal
    BY <2>7 DEF Insert
  <2>8. ASSUME NEW j \in Job, InsertFails(j) PROVE Goal
    BY <2>8 DEF InsertFails, Refuse
  <2>9. ASSUME NEW w \in Worker, NEW j \in Job, Claim(w, j) PROVE Goal
    BY <2>9 DEF Claim, Claimable
  <2>10. ASSUME NEW w \in Worker, ExtractSucceeds(w) PROVE Goal
    BY <2>10 DEF ExtractSucceeds, WorkerMoves
  <2>11. ASSUME NEW w \in Worker, ExtractFails(w) PROVE Goal
    BY <2>11 DEF ExtractFails, WorkerMoves
  <2>12. ASSUME NEW w \in Worker, OpenResult(w) PROVE Goal
    BY <2>12 DEF OpenResult, WorkerMoves
  <2>13. ASSUME NEW w \in Worker, FillResult(w) PROVE Goal
    BY <2>13 DEF FillResult, WorkerMoves
  <2>14. ASSUME NEW w \in Worker, SaveFails(w) PROVE Goal
    BY <2>14 DEF SaveFails, WorkerMoves
  <2>15. ASSUME NEW w \in Worker, MarkSucceeded(w) PROVE Goal
    BY <2>15 DEF MarkSucceeded, MarkRow, Release
  <2>16. ASSUME NEW w \in Worker, MarkFailed(w) PROVE Goal
    BY <2>16 DEF MarkFailed, MarkRow, Release
  <2>17. ASSUME NEW w \in Worker, MarkErrors(w) PROVE Goal
    BY <2>17 DEF MarkErrors, Release
  <2>18. ASSUME NEW s \in Server, SweepCollect(s) PROVE Goal
    BY <2>18 DEF SweepCollect, Due
  <2>19. ASSUME NEW s \in Server, NEW j \in Job, SweepFiles(s, j) PROVE Goal
    BY <2>19 DEF SweepFiles
  <2>20. ASSUME NEW s \in Server, SweepRows(s) PROVE Goal
    BY <2>20 DEF SweepRows, DeleteRows
  <2>21. ASSUME Tick PROVE Goal
    BY <2>21 DEF Tick
  <2>22. ASSUME UNCHANGED vars PROVE Goal
    BY <2>22 DEF vars
  <2>23. QED
    BY <2>1, <2>2, <2>3, <2>4, <2>5, <2>6, <2>7, <2>8, <2>9, <2>10, <2>11, <2>12, <2>13, <2>14, <2>15, <2>16, <2>17, <2>18, <2>19, <2>20, <2>21, <2>22
    DEF Next, Lifecycle, Sweep, Submit, Work, BindFails, Crash, Shutdown, PollEmpty
<1>3. QED
  BY <1>1, <1>2, TypeCorrect, PTL DEF Spec

(* Nothing that is still to be run loses its input: neither a crash, nor the
   sweeper, nor a second server on the same directory takes the upload of a
   queued or running job away.                                              *)
THEOREM InputAlwaysHeld == Spec => []InputHeld
<1>1. BaseInv => InputHeld
  BY DEF BaseInv
<1>2. QED
  BY <1>1, BaseAlways, PTL

(* The stops and the processes that are up count the starts.                *)
LEMMA StartsType ==
    ASSUME TypeOK, IsFiniteSet(Running)
    PROVE  /\ Starts \in Nat
           /\ Running # {} => Starts > 0
<1>1. Cardinality(Running) \in Nat /\ (Cardinality(Running) = 0 <=> Running = {})
  BY FS_CardinalityType, FS_EmptySet
<1>2. stops \in Nat
  BY BoundsAssumption DEF TypeOK
<1>3. QED
  BY <1>1, <1>2 DEF Starts

(* A start of a process is one more.                                        *)
LEMMA StartCounts ==
    ASSUME TypeOK, IsFiniteSet(Running), NEW s \in Server, StartServer(s)
    PROVE  IsFiniteSet(Running') /\ Starts' = Starts + 1
<1>1. Running' = Running \cup {s} /\ s \notin Running /\ stops' = stops
  BY DEF StartServer, Running, TypeOK
<1>2. IsFiniteSet(Running \cup {s}) /\ Cardinality(Running \cup {s}) = Cardinality(Running) + 1
  BY <1>1, FS_AddElement
<1>3. Cardinality(Running) \in Nat /\ stops \in Nat
  BY FS_CardinalityType, BoundsAssumption DEF TypeOK
<1>4. QED
  BY <1>1, <1>2, <1>3 DEF Starts

(* The end of one is counted by the stops.                                  *)
LEMMA StopCounts ==
    ASSUME TypeOK, IsFiniteSet(Running), NEW s \in Server, up[s] # "down", Stop1, GoDown(s)
    PROVE  IsFiniteSet(Running') /\ Starts' = Starts
<1>1. Running' = Running \ {s} /\ s \in Running /\ stops' = stops + 1
  BY DEF GoDown, Stop1, Running, TypeOK
<1>2. IsFiniteSet(Running \ {s}) /\ Cardinality(Running \ {s}) = Cardinality(Running) - 1
  BY <1>1, FS_RemoveElement
<1>3. Cardinality(Running) \in Nat /\ stops \in Nat
  BY FS_CardinalityType, BoundsAssumption DEF TypeOK
<1>4. QED
  BY <1>1, <1>2, <1>3 DEF Starts

(* Whatever else happens leaves the processes alone.                        *)
LEMMA StartsStay ==
    ASSUME Running' = Running, stops' = stops, IsFiniteSet(Running)
    PROVE  IsFiniteSet(Running') /\ Starts' = Starts
  BY DEF Starts

(* Every rerun of a job takes a start: with any number of servers on one
   directory, of which each start requeues what the others run, the claims
   of a job never outnumber the starts.                                     *)
THEOREM RerunsAreBounded == Spec => []BoundedReruns
<1>1. Init => RerunInv
  <2> SUFFICES ASSUME Init PROVE RerunInv
    OBVIOUS
  <2>1. Running = {} /\ stops = 0
    BY DEF Init, Running
  <2>2. IsFiniteSet(Running) /\ Starts = 0
    BY <2>1, FS_EmptySet DEF Starts
  <2>3. QED
    BY <2>2 DEF Init, RerunInv
<1>2. BaseInv /\ RerunInv /\ [Next]_vars => RerunInv'
  <2> SUFFICES ASSUME BaseInv, RerunInv, [Next]_vars PROVE RerunInv'
    OBVIOUS
  <2>a. TypeOK /\ HandlerShape /\ CandidatesDone /\ IsFiniteSet(Running)
    BY DEF BaseInv, RerunInv
  <2>b. Starts \in Nat /\ (Running # {} => Starts > 0)
    BY <2>a, StartsType
  <2>c. Serving => Starts > 0
    BY <2>b DEF Serving, Running
  \* What the rows and the handlers must do while no process starts or stops.
  <2>d. ASSUME UNCHANGED <<up, stops>>,
               \A j \in Job :
                  /\ claims'[j] <= Starts
                  /\ status'[j] = "queued" => claims'[j] < Starts
                  /\ hpc'[j] # "accepted" => claims'[j] = 0
                  /\ hpc'[j] \in {"receiving", "stored"} => Serving
        PROVE  RerunInv'
    <3>1. Running' = Running /\ Serving' = Serving
      BY <2>d DEF Running, Serving
    <3>2. IsFiniteSet(Running') /\ Starts' = Starts
      BY <2>a, <2>d, <3>1, StartsStay
    <3>3. QED
      BY <2>d, <3>1, <3>2 DEF RerunInv
  \* Most steps touch none of it.
  <2>e. ASSUME UNCHANGED <<status, hpc, up, stops, claims>> PROVE RerunInv'
    BY <2>d, <2>e DEF RerunInv
  <2>f. \A j \in Job :
           /\ claims[j] \in Nat /\ claims[j] <= Starts
           /\ status[j] = "queued" => claims[j] < Starts
           /\ hpc[j] # "accepted" => claims[j] = 0
           /\ hpc[j] \in {"receiving", "stored"} => Serving
    BY <2>a DEF RerunInv, TypeOK
  <2> USE DEF TypeOK, HandlerShape, CandidatesDone, db, disk, workers, sweeper, hist
  <2>1. ASSUME NEW s \in Server, StartServer(s) PROVE RerunInv'
    <3>1. IsFiniteSet(Running') /\ Starts' = Starts + 1
      BY <2>1, <2>a, StartCounts
    <3>2. Serving => Serving'
      BY <2>1, <2>a DEF StartServer, Serving
    <3>3. claims' = claims /\ hpc' = hpc
      BY <2>1 DEF StartServer
    <3>4. QED
      BY <2>b, <2>f, <3>1, <3>2, <3>3 DEF RerunInv
  <2>2. ASSUME NEW s \in Server, Bind(s) PROVE RerunInv'
    <3>1. Running' = Running /\ stops' = stops /\ Serving'
      BY <2>2, <2>a DEF Bind, Running, Serving
    <3>2. IsFiniteSet(Running') /\ Starts' = Starts
      BY <2>a, <3>1, StartsStay
    <3>3. claims' = claims /\ hpc' = hpc /\ status' = status
      BY <2>2 DEF Bind
    <3>4. QED
      BY <2>f, <3>1, <3>2, <3>3 DEF RerunInv
  <2>3. ASSUME NEW s \in Server, up[s] # "down", Stop1, GoDown(s) PROVE RerunInv'
    <3>1. IsFiniteSet(Running') /\ Starts' = Starts
      BY <2>3, <2>a, StopCounts
    <3>2. claims' = claims /\ status' = status
      BY <2>3 DEF GoDown
    <3>3. \A j \in Job : hpc'[j] # "accepted" => hpc[j] # "accepted"
      BY <2>3, <2>a DEF GoDown
    <3>4. ASSUME NEW j \in Job, hpc'[j] \in {"receiving", "stored"} PROVE Serving'
      <4>1. hpc[j] \in {"receiving", "stored"} /\ up[s] # "serving"
        BY <2>3, <2>a, <3>4 DEF GoDown
      <4>2. PICK t \in Server : up[t] = "serving"
        BY <4>1, <2>f DEF Serving
      <4>3. up'[t] = "serving"
        BY <2>3, <2>a, <4>1, <4>2 DEF GoDown
      <4>4. QED
        BY <4>3 DEF Serving
    <3>5. QED
      BY <2>f, <3>1, <3>2, <3>3, <3>4 DEF RerunInv
  <2>4. ASSUME NEW j \in Job, BeginUpload(j) PROVE RerunInv'
    BY <2>4, <2>a, <2>d, <2>f DEF BeginUpload
  <2>5. ASSUME NEW j \in Job, FinishUpload(j) PROVE RerunInv'
    BY <2>5, <2>a, <2>d, <2>f DEF FinishUpload
  <2>6. ASSUME NEW j \in Job, UploadFails(j) \/ InsertFails(j) PROVE RerunInv'
    BY <2>6, <2>a, <2>d, <2>f DEF UploadFails, InsertFails, Refuse
  <2>7. ASSUME NEW j \in Job, Insert(j) PROVE RerunInv'
    BY <2>7, <2>a, <2>c, <2>d, <2>f DEF Insert
  <2>8. ASSUME NEW w \in Worker, NEW j \in Job, Claim(w, j) PROVE RerunInv'
    BY <2>8, <2>a, <2>b, <2>d, <2>f DEF Claim, Claimable
  <2>9. ASSUME NEW w \in Worker, ExtractSucceeds(w) \/ ExtractFails(w) PROVE RerunInv'
    BY <2>9, <2>e DEF ExtractSucceeds, ExtractFails, WorkerMoves
  <2>10. ASSUME NEW w \in Worker, OpenResult(w) \/ FillResult(w) \/ SaveFails(w) PROVE RerunInv'
    BY <2>10, <2>e DEF OpenResult, FillResult, SaveFails, WorkerMoves
  <2>11. ASSUME NEW w \in Worker, MarkSucceeded(w) \/ MarkFailed(w) PROVE RerunInv'
    <3>1. \A j \in Job : status'[j] = "queued" => status[j] = "queued"
      BY <2>11, <2>a DEF MarkSucceeded, MarkFailed, MarkRow
    <3>2. UNCHANGED <<up, stops, claims, hpc>>
      BY <2>11 DEF MarkSucceeded, MarkFailed, Release
    <3>3. QED
      BY <2>d, <2>f, <3>1, <3>2
  <2>12. ASSUME NEW w \in Worker, MarkErrors(w) PROVE RerunInv'
    BY <2>12, <2>e DEF MarkErrors, Release
  <2>13. ASSUME NEW s \in Server, SweepCollect(s) PROVE RerunInv'
    BY <2>13, <2>e DEF SweepCollect
  <2>14. ASSUME NEW s \in Server, NEW j \in Job, SweepFiles(s, j) PROVE RerunInv'
    BY <2>14, <2>e DEF SweepFiles
  <2>15. ASSUME NEW s \in Server, SweepRows(s) PROVE RerunInv'
    <3>1. \A j \in Job : status'[j] = "queued" => status[j] = "queued"
      BY <2>15, <2>a DEF SweepRows, DeleteRows
    <3>2. UNCHANGED <<up, stops, claims, hpc>>
      BY <2>15 DEF SweepRows
    <3>3. QED
      BY <2>d, <2>f, <3>1, <3>2
  <2>16. ASSUME Tick PROVE RerunInv'
    BY <2>16, <2>e DEF Tick
  <2>17. ASSUME UNCHANGED vars PROVE RerunInv'
    BY <2>17, <2>e DEF vars
  <2>18. QED
    BY <2>1, <2>2, <2>3, <2>4, <2>5, <2>6, <2>7, <2>8, <2>9, <2>10, <2>11, <2>12, <2>13, <2>14, <2>15, <2>16, <2>17
    DEF Next, Lifecycle, Sweep, Submit, Work, BindFails, Crash, Shutdown, PollEmpty
<1>3. RerunInv => BoundedReruns
  BY DEF RerunInv, BoundedReruns
<1>4. QED
  BY <1>1, <1>2, <1>3, BaseAlways, PTL DEF Spec

(* No upload is lost sight of: one without a row belongs to a handler that is
   at work, to one that died with its process, or to a removal that failed.
   The sweep takes the files of a job before its row.                       *)
THEOREM UploadsAreOwned == Spec => []UploadOwned
<1>1. Init => UploadInv
  BY DEF Init, UploadInv, UploadOwned
<1>2. BaseInv /\ UploadInv /\ [Next]_vars => UploadInv'
  <2> SUFFICES ASSUME BaseInv, UploadInv, [Next]_vars PROVE UploadInv'
    OBVIOUS
  <2> USE BoundsAssumption
      DEF BaseInv, TypeOK, HandlerShape, CandidatesDone, UploadInv, UploadOwned,
          Terminal, Status, FileState, db, disk, workers, sweeper, hist
  <2>1. ASSUME NEW s \in Server, StartServer(s) PROVE UploadInv'
    BY <2>1 DEF StartServer, Recovered
  <2>2. ASSUME NEW s \in Server, Bind(s) PROVE UploadInv'
    BY <2>2 DEF Bind
  <2>3. ASSUME NEW s \in Server, GoDown(s) PROVE UploadInv'
    BY <2>3 DEF GoDown
  <2>4. ASSUME NEW j \in Job, BeginUpload(j) PROVE UploadInv'
    BY <2>4 DEF BeginUpload
  <2>5. ASSUME NEW j \in Job, FinishUpload(j) PROVE UploadInv'
    BY <2>5 DEF FinishUpload
  <2>6. ASSUME NEW j \in Job, UploadFails(j) PROVE UploadInv'
    BY <2>6 DEF UploadFails, Refuse, Fault
  <2>7. ASSUME NEW j \in Job, Insert(j) PROVE UploadInv'
    BY <2>7 DEF Insert
  <2>8. ASSUME NEW j \in Job, InsertFails(j) PROVE UploadInv'
    BY <2>8 DEF InsertFails, Refuse, Fault
  <2>9. ASSUME NEW w \in Worker, NEW j \in Job, Claim(w, j) PROVE UploadInv'
    BY <2>9 DEF Claim
  <2>10. ASSUME NEW w \in Worker, ExtractSucceeds(w) \/ ExtractFails(w) PROVE UploadInv'
    BY <2>10 DEF ExtractSucceeds, ExtractFails, WorkerMoves
  <2>11. ASSUME NEW w \in Worker, OpenResult(w) \/ FillResult(w) PROVE UploadInv'
    BY <2>11 DEF OpenResult, FillResult, WorkerMoves
  <2>12. ASSUME NEW w \in Worker, SaveFails(w) PROVE UploadInv'
    BY <2>12 DEF SaveFails, WorkerMoves, Fault
  <2>13. ASSUME NEW w \in Worker, MarkSucceeded(w) \/ MarkFailed(w) PROVE UploadInv'
    BY <2>13 DEF MarkSucceeded, MarkFailed, MarkRow, Release
  <2>14. ASSUME NEW w \in Worker, MarkErrors(w) PROVE UploadInv'
    BY <2>14 DEF MarkErrors, Release, Fault
  <2>15. ASSUME NEW s \in Server, SweepCollect(s) PROVE UploadInv'
    BY <2>15 DEF SweepCollect
  <2>16. ASSUME NEW s \in Server, NEW j \in Job, SweepFiles(s, j) PROVE UploadInv'
    <3>1. PICK input \in BOOLEAN, all \in BOOLEAN :
              /\ all => input
              /\ upload' = [upload EXCEPT ![j] = IF input THEN "none" ELSE @]
              /\ cleaned' = [cleaned EXCEPT ![s] = IF all THEN @ \cup {j} ELSE @]
      BY <2>16 DEF SweepFiles, RemoveOk
    <3>2. faults' >= faults /\ status' = status /\ hpc' = hpc
      BY <2>16 DEF SweepFiles, Fault
    <3>3. \A k \in Job : upload'[k] = upload[k] \/ upload'[k] = "none"
      BY <3>1
    <3>4. \A t \in Server : \A k \in cleaned'[t] : k \in cleaned[t] \/ upload'[k] = "none"
      BY <3>1
    <3>5. \A t \in Server : \A k \in cleaned'[t] : k \in Job
      BY <2>16, <3>1
    <3>6. faults > 0 => faults' > 0
      BY <3>2, <2>16 DEF SweepFiles, Fault
    <3>7. UploadOwned'
      BY <3>2, <3>3, <3>6
    <3>8. \A k \in Job : hpc'[k] = "idle" => upload'[k] = "none"
      BY <3>2, <3>3
    <3>9. \A t \in Server : \A k \in cleaned'[t] : upload'[k] = "none"
      BY <3>3, <3>4, <3>5
    <3>10. QED
      BY <3>7, <3>8, <3>9
  <2>17. ASSUME NEW s \in Server, SweepRows(s) PROVE UploadInv'
    BY <2>17 DEF SweepRows, DeleteRows, Fault
  <2>18. ASSUME Tick PROVE UploadInv'
    BY <2>18 DEF Tick
  <2>19. ASSUME UNCHANGED vars PROVE UploadInv'
    BY <2>19 DEF vars
  <2>20. QED
    BY <2>1, <2>2, <2>3, <2>4, <2>5, <2>6, <2>7, <2>8, <2>9, <2>10, <2>11, <2>12, <2>13, <2>14, <2>15, <2>16, <2>17, <2>18, <2>19
    DEF Next, Lifecycle, Sweep, Submit, Work, BindFails, Crash, Shutdown, PollEmpty
<1>3. UploadInv => UploadOwned
  BY DEF UploadInv
<1>4. QED
  BY <1>1, <1>2, <1>3, BaseAlways, PTL DEF Spec

-----------------------------------------------------------------------------
\* One server on the data directory.

(* The sweep picks exactly the jobs that are past their time to live.       *)
LEMMA DueIsExpired ==
    ASSUME NoWrap, TypeOK, NEW j \in Job
    PROVE  Due(j) <=> Expired(j)
  BY TimeAssumption, WidthAssumption, TTLAssumption
  DEF NoWrap, TypeOK, Due, Expired, Cutoff, AsI64

(* The workers' side: who runs what, and what is on disk when they record it. *)
THEOREM WorkAlways ==
    ASSUME SingleServer
    PROVE  Spec => []WorkInv
<1>1. Init => WorkInv
  BY NoJobAssumption
  DEF Init, WorkInv, BusyRunning, ClaimExclusive, Held, RunningHasOwner, PathNamed,
      WrittenFull, Worker
<1>2. BaseInv /\ WorkInv /\ [Next]_vars /\ TypeOK' => WorkInv'
  <2> SUFFICES ASSUME BaseInv, WorkInv, [Next]_vars, TypeOK' PROVE WorkInv'
    OBVIOUS
  <2>0. /\ \A w \in Worker : w[1] \in Server
        /\ \A s, t \in Server : s = t
    BY DEF Worker, SingleServer
  <2> USE NoJobAssumption, <2>0
      DEF BaseInv, TypeOK, TaskShape, HandlerShape, CandidatesDone, InputHeld,
          WorkInv, BusyRunning, ClaimExclusive, Held, RunningHasOwner, Live, Down,
          PathNamed, WrittenFull,
          Terminal, Status, FileState, db, disk, workers, sweeper, hist
  <2>1. ASSUME NEW s \in Server, StartServer(s) PROVE WorkInv'
    BY <2>1 DEF StartServer, Recovered
  <2>2. ASSUME NEW s \in Server, Bind(s) PROVE WorkInv'
    BY <2>2 DEF Bind
  <2>3. ASSUME NEW s \in Server, GoDown(s) PROVE WorkInv'
    BY <2>3 DEF GoDown
  <2>4. ASSUME NEW j \in Job, BeginUpload(j) PROVE WorkInv'
    <3>1. BusyRunning'
      BY <2>4 DEF BeginUpload
    <3>2. ClaimExclusive'
      BY <2>4 DEF BeginUpload
    <3>3. RunningHasOwner'
      BY <2>4 DEF BeginUpload
    <3>4. PathNamed'
      BY <2>4 DEF BeginUpload
    <3>5. WrittenFull'
      BY <2>4 DEF BeginUpload
    <3>6. QED
      BY <3>1, <3>2, <3>3, <3>4, <3>5 DEF WorkInv
  <2>5. ASSUME NEW j \in Job, FinishUpload(j) PROVE WorkInv'
    <3>1. BusyRunning'
      BY <2>5 DEF FinishUpload
    <3>2. ClaimExclusive'
      BY <2>5 DEF FinishUpload
    <3>3. RunningHasOwner'
      BY <2>5 DEF FinishUpload
    <3>4. PathNamed'
      BY <2>5 DEF FinishUpload
    <3>5. WrittenFull'
      BY <2>5 DEF FinishUpload
    <3>6. QED
      BY <3>1, <3>2, <3>3, <3>4, <3>5 DEF WorkInv
  <2>6. ASSUME NEW j \in Job, UploadFails(j) PROVE WorkInv'
    <3>1. BusyRunning'
      BY <2>6 DEF UploadFails, Refuse
    <3>2. ClaimExclusive'
      BY <2>6 DEF UploadFails, Refuse
    <3>3. RunningHasOwner'
      BY <2>6 DEF UploadFails, Refuse
    <3>4. PathNamed'
      BY <2>6 DEF UploadFails, Refuse
    <3>5. WrittenFull'
      BY <2>6 DEF UploadFails, Refuse
    <3>6. QED
      BY <3>1, <3>2, <3>3, <3>4, <3>5 DEF WorkInv
  <2>7. ASSUME NEW j \in Job, Insert(j) PROVE WorkInv'
    BY <2>7 DEF Insert
  <2>8. ASSUME NEW j \in Job, InsertFails(j) PROVE WorkInv'
    BY <2>8 DEF InsertFails, Refuse
  <2>9. ASSUME NEW w \in Worker, NEW j \in Job, Claim(w, j) PROVE WorkInv'
    BY <2>9 DEF Claim, Claimable
  <2>10. ASSUME NEW w \in Worker, ExtractSucceeds(w) PROVE WorkInv'
    BY <2>10 DEF ExtractSucceeds, WorkerMoves
  <2>11. ASSUME NEW w \in Worker, ExtractFails(w) PROVE WorkInv'
    BY <2>11 DEF ExtractFails, WorkerMoves
  <2>12. ASSUME NEW w \in Worker, OpenResult(w) PROVE WorkInv'
    BY <2>12 DEF OpenResult, WorkerMoves
  <2>13. ASSUME NEW w \in Worker, FillResult(w) PROVE WorkInv'
    BY <2>13 DEF FillResult, WorkerMoves
  <2>14. ASSUME NEW w \in Worker, SaveFails(w) PROVE WorkInv'
    <3>1. BusyRunning'
      BY <2>14 DEF SaveFails, WorkerMoves
    <3>2. ClaimExclusive'
      BY <2>14 DEF SaveFails, WorkerMoves
    <3>3. RunningHasOwner'
      BY <2>14 DEF SaveFails, WorkerMoves
    <3>4. PathNamed'
      BY <2>14 DEF SaveFails, WorkerMoves
    <3>5. WrittenFull'
      BY <2>14 DEF SaveFails, WorkerMoves
    <3>6. QED
      BY <3>1, <3>2, <3>3, <3>4, <3>5 DEF WorkInv
  <2>15. ASSUME NEW w \in Worker, MarkSucceeded(w) PROVE WorkInv'
    <3>1. BusyRunning'
      BY <2>15 DEF MarkSucceeded, MarkRow, Release
    <3>2. ClaimExclusive'
      BY <2>15 DEF MarkSucceeded, MarkRow, Release
    <3>3. RunningHasOwner'
      BY <2>15 DEF MarkSucceeded, MarkRow, Release
    <3>4. PathNamed'
      BY <2>15 DEF MarkSucceeded, MarkRow, Release
    <3>5. WrittenFull'
      BY <2>15 DEF MarkSucceeded, MarkRow, Release
    <3>6. QED
      BY <3>1, <3>2, <3>3, <3>4, <3>5 DEF WorkInv
  <2>16. ASSUME NEW w \in Worker, MarkFailed(w) PROVE WorkInv'
    <3>1. BusyRunning'
      BY <2>16 DEF MarkFailed, MarkRow, Release
    <3>2. ClaimExclusive'
      BY <2>16 DEF MarkFailed, MarkRow, Release
    <3>3. RunningHasOwner'
      BY <2>16 DEF MarkFailed, MarkRow, Release
    <3>4. PathNamed'
      BY <2>16 DEF MarkFailed, MarkRow, Release
    <3>5. WrittenFull'
      BY <2>16 DEF MarkFailed, MarkRow, Release
    <3>6. QED
      BY <3>1, <3>2, <3>3, <3>4, <3>5 DEF WorkInv
  <2>17. ASSUME NEW w \in Worker, MarkErrors(w) PROVE WorkInv'
    <3>1. BusyRunning'
      BY <2>17 DEF MarkErrors, Release
    <3>2. ClaimExclusive'
      BY <2>17 DEF MarkErrors, Release
    <3>3. RunningHasOwner'
      BY <2>17 DEF MarkErrors, Release
    <3>4. PathNamed'
      BY <2>17 DEF MarkErrors, Release
    <3>5. WrittenFull'
      BY <2>17 DEF MarkErrors, Release
    <3>6. QED
      BY <3>1, <3>2, <3>3, <3>4, <3>5 DEF WorkInv
  <2>18. ASSUME NEW s \in Server, SweepCollect(s) PROVE WorkInv'
    <3>1. BusyRunning'
      BY <2>18 DEF SweepCollect
    <3>2. ClaimExclusive'
      BY <2>18 DEF SweepCollect
    <3>3. RunningHasOwner'
      BY <2>18 DEF SweepCollect
    <3>4. PathNamed'
      BY <2>18 DEF SweepCollect
    <3>5. WrittenFull'
      BY <2>18 DEF SweepCollect
    <3>6. QED
      BY <3>1, <3>2, <3>3, <3>4, <3>5 DEF WorkInv
  <2>19. ASSUME NEW s \in Server, NEW j \in Job, SweepFiles(s, j) PROVE WorkInv'
    <3>1. BusyRunning'
      BY <2>19 DEF SweepFiles
    <3>2. ClaimExclusive'
      BY <2>19 DEF SweepFiles
    <3>3. RunningHasOwner'
      BY <2>19 DEF SweepFiles
    <3>4. PathNamed'
      BY <2>19 DEF SweepFiles
    <3>5. WrittenFull'
      BY <2>19 DEF SweepFiles
    <3>6. QED
      BY <3>1, <3>2, <3>3, <3>4, <3>5 DEF WorkInv
  <2>20. ASSUME NEW s \in Server, SweepRows(s) PROVE WorkInv'
    <3>sweep. \A k \in Job : status[k] = "running" <=> status'[k] = "running"
      <4>1. PICK D \in SUBSET cleaned[s] : DeleteRows(D)
        BY <2>20 DEF SweepRows
      <4>2. \A k \in D : status[k] # "running"
        BY <4>1
      <4>3. QED
        BY <4>1, <4>2 DEF DeleteRows
    <3>same. wpc' = wpc /\ wjob' = wjob /\ up' = up /\ stranded' = stranded
      BY <2>20 DEF SweepRows
    <3>1. BusyRunning'
      BY <3>sweep, <3>same
    <3>2. ClaimExclusive'
      BY <2>20 DEF SweepRows, DeleteRows
    <3>3. RunningHasOwner'
      <4>1. \A k \in Job : status'[k] = "running" => Live(k) \/ stranded[k] \/ Down
        BY <3>sweep
      <4>2. QED
        BY <4>1, <3>same
    <3>4. PathNamed'
      BY <2>20 DEF SweepRows, DeleteRows
    <3>5. WrittenFull'
      BY <2>20 DEF SweepRows, DeleteRows
    <3>6. QED
      BY <3>1, <3>2, <3>3, <3>4, <3>5 DEF WorkInv
  <2>21. ASSUME Tick PROVE WorkInv'
    BY <2>21 DEF Tick
  <2>22. ASSUME UNCHANGED vars PROVE WorkInv'
    BY <2>22 DEF vars
  <2>23. QED
    BY <2>1, <2>2, <2>3, <2>4, <2>5, <2>6, <2>7, <2>8, <2>9, <2>10, <2>11, <2>12, <2>13, <2>14, <2>15, <2>16, <2>17, <2>18, <2>19, <2>20, <2>21, <2>22
    DEF Next, Lifecycle, Sweep, Submit, Work, BindFails, Crash, Shutdown, PollEmpty
<1>3. QED
  BY <1>1, <1>2, TypeCorrect, BaseAlways, PTL DEF Spec

(* The sweeper's side: what it holds is expired, and what it calls cleaned is. *)
THEOREM RetentionAlways ==
    ASSUME SingleServer, NoWrap
    PROVE  Spec => []RetentionInv
<1>1. Init => RetentionInv
  BY DEF Init, RetentionInv, ResultHeld, CandidatesDue
<1>2. BaseInv /\ WorkInv /\ RetentionInv /\ [Next]_vars /\ TypeOK' => RetentionInv'
  <2> SUFFICES ASSUME BaseInv, WorkInv, RetentionInv, [Next]_vars, TypeOK'
               PROVE  RetentionInv'
    OBVIOUS
  <2>0. /\ \A w \in Worker : w[1] \in Server
        /\ \A s, t \in Server : s = t
    BY DEF Worker, SingleServer
  <2> USE NoJobAssumption, <2>0, TTLAssumption, TimeAssumption, WidthAssumption
      DEF BaseInv, TypeOK, TaskShape, HandlerShape, CandidatesDone, InputHeld,
          WorkInv, BusyRunning, Held, PathNamed, WrittenFull,
          RetentionInv, ResultHeld, CandidatesDue, Expired,
          Terminal, Status, FileState, db, disk, workers, sweeper, hist
  <2>1. ASSUME NEW s \in Server, StartServer(s) PROVE RetentionInv'
    BY <2>1 DEF StartServer, Recovered
  <2>2. ASSUME NEW s \in Server, Bind(s) PROVE RetentionInv'
    BY <2>2 DEF Bind
  <2>3. ASSUME NEW s \in Server, GoDown(s) PROVE RetentionInv'
    BY <2>3 DEF GoDown
  <2>4. ASSUME NEW j \in Job, BeginUpload(j) PROVE RetentionInv'
    <3>1. ResultHeld'
      BY <2>4 DEF BeginUpload
    <3>2. CandidatesDue'
      BY <2>4 DEF BeginUpload
    <3>3. QED
      BY <3>1, <3>2 DEF RetentionInv
  <2>5. ASSUME NEW j \in Job, FinishUpload(j) PROVE RetentionInv'
    <3>1. ResultHeld'
      BY <2>5 DEF FinishUpload
    <3>2. CandidatesDue'
      BY <2>5 DEF FinishUpload
    <3>3. QED
      BY <3>1, <3>2 DEF RetentionInv
  <2>6. ASSUME NEW j \in Job, UploadFails(j) PROVE RetentionInv'
    <3>1. ResultHeld'
      BY <2>6 DEF UploadFails, Refuse
    <3>2. CandidatesDue'
      BY <2>6 DEF UploadFails, Refuse
    <3>3. QED
      BY <3>1, <3>2 DEF RetentionInv
  <2>7. ASSUME NEW j \in Job, Insert(j) PROVE RetentionInv'
    BY <2>7 DEF Insert
  <2>8. ASSUME NEW j \in Job, InsertFails(j) PROVE RetentionInv'
    BY <2>8 DEF InsertFails, Refuse
  <2>9. ASSUME NEW w \in Worker, NEW j \in Job, Claim(w, j) PROVE RetentionInv'
    BY <2>9 DEF Claim, Claimable
  <2>10. ASSUME NEW w \in Worker, ExtractSucceeds(w) PROVE RetentionInv'
    BY <2>10 DEF ExtractSucceeds, WorkerMoves
  <2>11. ASSUME NEW w \in Worker, ExtractFails(w) PROVE RetentionInv'
    BY <2>11 DEF ExtractFails, WorkerMoves
  <2>12. ASSUME NEW w \in Worker, OpenResult(w) PROVE RetentionInv'
    BY <2>12 DEF OpenResult, WorkerMoves
  <2>13. ASSUME NEW w \in Worker, FillResult(w) PROVE RetentionInv'
    BY <2>13 DEF FillResult, WorkerMoves
  <2>14. ASSUME NEW w \in Worker, SaveFails(w) PROVE RetentionInv'
    <3>1. ResultHeld'
      BY <2>14 DEF SaveFails, WorkerMoves
    <3>2. CandidatesDue'
      BY <2>14 DEF SaveFails, WorkerMoves
    <3>3. QED
      BY <3>1, <3>2 DEF RetentionInv
  <2>15. ASSUME NEW w \in Worker, MarkSucceeded(w) PROVE RetentionInv'
    <3>1. ResultHeld'
      BY <2>15 DEF MarkSucceeded, MarkRow, Release
    <3>2. CandidatesDue'
      BY <2>15 DEF MarkSucceeded, MarkRow, Release
    <3>3. QED
      BY <3>1, <3>2 DEF RetentionInv
  <2>16. ASSUME NEW w \in Worker, MarkFailed(w) PROVE RetentionInv'
    <3>1. ResultHeld'
      BY <2>16 DEF MarkFailed, MarkRow, Release
    <3>2. CandidatesDue'
      BY <2>16 DEF MarkFailed, MarkRow, Release
    <3>3. QED
      BY <3>1, <3>2 DEF RetentionInv
  <2>17. ASSUME NEW w \in Worker, MarkErrors(w) PROVE RetentionInv'
    <3>1. ResultHeld'
      BY <2>17 DEF MarkErrors, Release
    <3>2. CandidatesDue'
      BY <2>17 DEF MarkErrors, Release
    <3>3. QED
      BY <3>1, <3>2 DEF RetentionInv
  <2>18. ASSUME NEW s \in Server, SweepCollect(s) PROVE RetentionInv'
    <3>1. ResultHeld'
      BY <2>18 DEF SweepCollect
    <3>2. CandidatesDue'
      BY <2>18, DueIsExpired DEF SweepCollect
    <3>3. QED
      BY <3>1, <3>2 DEF RetentionInv
  <2>19. ASSUME NEW s \in Server, NEW j \in Job, SweepFiles(s, j) PROVE RetentionInv'
    <3>1. ResultHeld'
      BY <2>19 DEF SweepFiles
    <3>2. CandidatesDue'
      <4>1. ASSUME NEW k \in Job PROVE (k \in cand[s]' => k \in cand[s])
                                       /\ (k \in cleaned[s]' => k \in cleaned[s] \/ k = j)
        BY <2>19 DEF SweepFiles
      <4>2. named' = named /\ db' = db /\ now' = now /\ j \in cand[s]
        BY <2>19 DEF SweepFiles
      <4>3. ASSUME NEW k \in (cand[s] \cup cleaned[s])'
            PROVE  Expired(k)' /\ (k \in named[s]' <=> hasResult[k]')
        BY <4>1, <4>2
      <4>4. ASSUME NEW k \in cleaned[s]'
            PROVE  upload[k]' = "none" /\ (hasResult[k]' => result[k]' = "none")
        <5>1. CASE k \in cleaned[s]
          BY <2>19, <5>1 DEF SweepFiles
        <5>2. CASE k \notin cleaned[s]
          <6>1. k = j /\ (hasResult[j]' => j \in named[s])
            BY <4>1, <4>2, <5>2
          <6>2. PICK input \in BOOLEAN, all \in BOOLEAN :
                    /\ all => input
                    /\ upload' = [upload EXCEPT ![j] = IF input THEN "none" ELSE @]
                    /\ result' = [result EXCEPT ![j] = IF all /\ j \in named[s] THEN "none" ELSE @]
                    /\ cleaned' = [cleaned EXCEPT ![s] = IF all THEN @ \cup {j} ELSE @]
            BY <2>19 DEF SweepFiles, RemoveOk
          <6>3. all = TRUE
            BY <5>2, <6>1, <6>2
          <6>4. QED
            BY <6>1, <6>2, <6>3
        <5>3. QED
          BY <5>1, <5>2
      <4>5. QED
        BY <4>3, <4>4
    <3>3. QED
      BY <3>1, <3>2 DEF RetentionInv
  <2>20. ASSUME NEW s \in Server, SweepRows(s) PROVE RetentionInv'
    <3>1. ResultHeld'
      BY <2>20 DEF SweepRows, DeleteRows
    <3>2. CandidatesDue'
      BY <2>20 DEF SweepRows, DeleteRows
    <3>3. QED
      BY <3>1, <3>2 DEF RetentionInv
  <2>21. ASSUME Tick PROVE RetentionInv'
    BY <2>21 DEF Tick
  <2>22. ASSUME UNCHANGED vars PROVE RetentionInv'
    BY <2>22 DEF vars
  <2>23. QED
    BY <2>1, <2>2, <2>3, <2>4, <2>5, <2>6, <2>7, <2>8, <2>9, <2>10, <2>11, <2>12, <2>13, <2>14, <2>15, <2>16, <2>17, <2>18, <2>19, <2>20, <2>21, <2>22
    DEF Next, Lifecycle, Sweep, Submit, Work, BindFails, Crash, Shutdown, PollEmpty
<1>3. QED
  BY <1>1, <1>2, TypeCorrect, BaseAlways, WorkAlways, PTL DEF Spec

(* A job has one worker at most, over claims, requeues, crashes and outcomes
   that could not be recorded.                                              *)
THEOREM OneWorkerPerJob ==
    ASSUME SingleServer
    PROVE  Spec => []ClaimExclusive
<1>1. WorkInv => ClaimExclusive
  BY DEF WorkInv
<1>2. QED
  BY <1>1, WorkAlways, PTL

(* No row says "running" for good without a worker that will record its
   outcome, a restart to come, or a store error that was logged.            *)
THEOREM NoRowIsStuck ==
    ASSUME SingleServer
    PROVE  Spec => []RunningHasOwner
<1>1. WorkInv => RunningHasOwner
  BY DEF WorkInv
<1>2. QED
  BY <1>1, WorkAlways, PTL

(* A result that is announced is complete, and stays on disk for its time to
   live.                                                                    *)
THEOREM ResultsAreKept ==
    ASSUME SingleServer, NoWrap
    PROVE  Spec => []ResultHeld
<1>1. RetentionInv => ResultHeld
  BY DEF RetentionInv
<1>2. QED
  BY <1>1, RetentionAlways, PTL

(****************************************************************************)
(* What a client sees: JobSystem with one server implements JobLifecycle,   *)
(* and what follows for the steps of a row and for the readers of its       *)
(* result.                                                                  *)
(****************************************************************************)
(* A client sees only the table's status and whether it got an id: a step that
   leaves both alone is invisible to it.                                    *)
LEMMA SamePhase ==
    ASSUME status' = status,
           \A j \in Job : hpc'[j] = "accepted" <=> hpc[j] = "accepted"
    PROVE  Phase' = Phase
  BY DEF Phase

\* A step of one row that stays in the table is a step of its phase.
LEMMA PhaseMoves ==
    ASSUME NEW j \in Job, NEW to, to # "absent", status \in [Job -> Status], status[j] # "absent",
           status' = [status EXCEPT ![j] = to], hpc' = hpc
    PROVE  Phase[j] = status[j] /\ Phase' = [Phase EXCEPT ![j] = to]
<1>1. Phase[j] = status[j]
  BY DEF Phase
<1>2. \A k \in Job : Phase'[k] = IF k = j THEN to ELSE Phase[k]
  BY DEF Phase
<1>3. /\ Phase = [k \in Job |-> Phase[k]]
      /\ Phase' = [k \in Job |-> Phase'[k]]
  BY DEF Phase
<1> HIDE DEF Phase
<1>4. Phase' = [k \in Job |-> IF k = j THEN to ELSE Phase[k]]
  BY <1>2, <1>3
<1>5. [Phase EXCEPT ![j] = to] = [k \in Job |-> IF k = j THEN to ELSE Phase[k]]
  BY <1>3
<1>6. QED
  BY <1>1, <1>4, <1>5

(* With one server, whatever the handlers, workers, the sweeper, faults and
   restarts do in between, a client sees nothing but the life of a job: every
   step is one of JobLifecycle or invisible.                                *)
THEOREM LifecycleImplemented ==
    ASSUME SingleServer
    PROVE  Spec => ImplementsLifecycle
<1>1. Init => Promise!Init
  BY DEF Init, Promise!Init, Phase
<1>2. BaseInv /\ WorkInv /\ [Next]_vars => [Promise!Next]_Phase
  <2> SUFFICES ASSUME BaseInv, WorkInv, [Next]_vars
               PROVE  [Promise!Next]_Phase
    OBVIOUS
  <2> USE DEF BaseInv, TypeOK, TaskShape, HandlerShape, CandidatesDone,
              WorkInv, BusyRunning, Held, Terminal, Status, db, disk, workers, sweeper, hist
  <2>1. ASSUME NEW s \in Server, StartServer(s) PROVE [Promise!Next]_Phase
    <3>1. Phase' = [j \in Job |-> IF Phase[j] = "running" THEN "queued" ELSE Phase[j]]
      BY <2>1 DEF StartServer, Recovered, Phase
    <3>2. QED
      BY <3>1 DEF Promise!Next, Promise!Restart
  <2>2. ASSUME NEW s \in Server, Bind(s) PROVE [Promise!Next]_Phase
    BY <2>2, SamePhase DEF Bind
  <2>3. ASSUME NEW s \in Server, GoDown(s) PROVE [Promise!Next]_Phase
    BY <2>3, SamePhase DEF GoDown
  <2>4. ASSUME NEW j \in Job, BeginUpload(j) PROVE [Promise!Next]_Phase
    BY <2>4, SamePhase DEF BeginUpload
  <2>5. ASSUME NEW j \in Job, FinishUpload(j) PROVE [Promise!Next]_Phase
    BY <2>5, SamePhase DEF FinishUpload
  <2>6. ASSUME NEW j \in Job, UploadFails(j) PROVE [Promise!Next]_Phase
    BY <2>6, SamePhase DEF UploadFails, Refuse
  <2>7. ASSUME NEW j \in Job, Insert(j) PROVE [Promise!Next]_Phase
    <3>1. Phase[j] = "none" /\ Phase' = [Phase EXCEPT ![j] = "queued"]
      BY <2>7 DEF Insert, Phase
    <3>2. QED
      BY <3>1 DEF Promise!Next, Promise!Accept
  <2>8. ASSUME NEW j \in Job, InsertFails(j) PROVE [Promise!Next]_Phase
    BY <2>8, SamePhase DEF InsertFails, Refuse
  <2>9. ASSUME NEW w \in Worker, NEW j \in Job, Claim(w, j) PROVE [Promise!Next]_Phase
    <3>1. status[j] = "queued" /\ status' = [status EXCEPT ![j] = "running"] /\ hpc' = hpc
      BY <2>9 DEF Claim, Claimable
    <3>2. Phase[j] = "queued" /\ Phase' = [Phase EXCEPT ![j] = "running"]
      <4>1. status \in [Job -> Status] /\ status[j] # "absent" /\ "running" # "absent"
        BY <3>1
      <4> HIDE DEF Status
      <4>2. Phase[j] = status[j] /\ Phase' = [Phase EXCEPT ![j] = "running"]
        BY ZenonT(30), <3>1, <4>1, PhaseMoves
      <4>3. QED
        BY <3>1, <4>2
    <3>3. QED
      BY <3>2 DEF Promise!Next, Promise!Start
  <2>10. ASSUME NEW w \in Worker, ExtractSucceeds(w) PROVE [Promise!Next]_Phase
    BY <2>10, SamePhase DEF ExtractSucceeds, WorkerMoves
  <2>11. ASSUME NEW w \in Worker, ExtractFails(w) PROVE [Promise!Next]_Phase
    BY <2>11, SamePhase DEF ExtractFails, WorkerMoves
  <2>12. ASSUME NEW w \in Worker, OpenResult(w) PROVE [Promise!Next]_Phase
    BY <2>12, SamePhase DEF OpenResult, WorkerMoves
  <2>13. ASSUME NEW w \in Worker, FillResult(w) PROVE [Promise!Next]_Phase
    BY <2>13, SamePhase DEF FillResult, WorkerMoves
  <2>14. ASSUME NEW w \in Worker, SaveFails(w) PROVE [Promise!Next]_Phase
    BY <2>14, SamePhase DEF SaveFails, WorkerMoves
  <2>15. ASSUME NEW w \in Worker, MarkSucceeded(w) PROVE [Promise!Next]_Phase
    <3>1. PICK j \in Job : j = wjob[w] /\ status[j] = "running"
      BY <2>15 DEF MarkSucceeded
    <3>2. status' = [status EXCEPT ![j] = "succeeded"] /\ hpc' = hpc
      BY <2>15, <3>1 DEF MarkSucceeded, MarkRow, Release
    <3>3. Phase[j] = "running" /\ Phase' = [Phase EXCEPT ![j] = "succeeded"]
      <4>1. status \in [Job -> Status] /\ status[j] # "absent" /\ "succeeded" # "absent"
        BY <3>1
      <4> HIDE DEF Status
      <4>2. Phase[j] = status[j] /\ Phase' = [Phase EXCEPT ![j] = "succeeded"]
        BY ZenonT(30), <3>1, <3>2, <4>1, PhaseMoves
      <4>3. QED
        BY <3>1, <3>2, <4>2
    <3>4. QED
      BY <3>3 DEF Promise!Next, Promise!Finish, Promise!Outcome
  <2>16. ASSUME NEW w \in Worker, MarkFailed(w) PROVE [Promise!Next]_Phase
    <3>1. PICK j \in Job : j = wjob[w] /\ status[j] = "running"
      BY <2>16 DEF MarkFailed
    <3>2. status' = [status EXCEPT ![j] = "failed"] /\ hpc' = hpc
      BY <2>16, <3>1 DEF MarkFailed, MarkRow, Release
    <3>3. Phase[j] = "running" /\ Phase' = [Phase EXCEPT ![j] = "failed"]
      <4>1. status \in [Job -> Status] /\ status[j] # "absent" /\ "failed" # "absent"
        BY <3>1
      <4> HIDE DEF Status
      <4>2. Phase[j] = status[j] /\ Phase' = [Phase EXCEPT ![j] = "failed"]
        BY ZenonT(30), <3>1, <3>2, <4>1, PhaseMoves
      <4>3. QED
        BY <3>1, <3>2, <4>2
    <3>4. QED
      BY <3>3 DEF Promise!Next, Promise!Finish, Promise!Outcome
  <2>17. ASSUME NEW w \in Worker, MarkErrors(w) PROVE [Promise!Next]_Phase
    BY <2>17, SamePhase DEF MarkErrors, Release
  <2>18. ASSUME NEW s \in Server, SweepCollect(s) PROVE [Promise!Next]_Phase
    BY <2>18, SamePhase DEF SweepCollect
  <2>19. ASSUME NEW s \in Server, NEW j \in Job, SweepFiles(s, j) PROVE [Promise!Next]_Phase
    BY <2>19, SamePhase DEF SweepFiles
  <2>20. ASSUME NEW s \in Server, SweepRows(s) PROVE [Promise!Next]_Phase
    <3>1. PICK D \in SUBSET cleaned[s] : DeleteRows(D)
      BY <2>20 DEF SweepRows
    <3>2. DEFINE S == {j \in D : status[j] # "absent"}
    <3>3. S \in SUBSET Job /\ \A j \in S : Phase[j] \in Promise!Outcome
      BY DEF Phase, Promise!Outcome
    <3>4. Phase' = [j \in Job |-> IF j \in S THEN "gone" ELSE Phase[j]]
      BY <2>20, <3>1 DEF SweepRows, DeleteRows, Phase
    <3>5. QED
      BY <3>3, <3>4 DEF Promise!Next, Promise!Forget
  <2>21. ASSUME Tick PROVE [Promise!Next]_Phase
    BY <2>21, SamePhase DEF Tick
  <2>22. ASSUME UNCHANGED vars PROVE [Promise!Next]_Phase
    BY <2>22, SamePhase DEF vars
  <2>23. QED
    BY <2>1, <2>2, <2>3, <2>4, <2>5, <2>6, <2>7, <2>8, <2>9, <2>10, <2>11, <2>12, <2>13, <2>14, <2>15, <2>16, <2>17, <2>18, <2>19, <2>20, <2>21, <2>22
    DEF Next, Lifecycle, Sweep, Submit, Work, BindFails, Crash, Shutdown, PollEmpty
<1>3. QED
  BY <1>1, <1>2, BaseAlways, WorkAlways, PTL DEF Spec, ImplementsLifecycle, Promise!Spec

(* An outcome is final: a step of the life cycle leaves a terminal row alone
   or sweeps it, whatever mark_succeeded and mark_failed would overwrite.   *)
THEOREM OutcomesAreFinal ==
    ASSUME SingleServer
    PROVE  Spec => TerminalIsFinal
<1>1. TypeOK /\ TypeOK' /\ [Promise!Next]_Phase =>
          \A j \in Job : status[j] \in Terminal => status'[j] \in {status[j], "absent"}
  <2> SUFFICES ASSUME TypeOK, TypeOK', [Promise!Next]_Phase,
                      NEW j \in Job, status[j] \in Terminal
               PROVE  status'[j] \in {status[j], "absent"}
    OBVIOUS
  <2>1. Phase[j] = status[j]
    BY DEF Phase, Terminal
  <2>2. Phase'[j] \in {status[j], "gone"}
    BY <2>1 DEF Promise!Next, Promise!Accept, Promise!Start, Promise!Finish, Promise!Restart,
                Promise!Forget, Phase, Terminal
  <2>3. QED
    BY <2>2 DEF Phase, TypeOK, Terminal, Status
<1>2. QED
  BY <1>1, TypeCorrect, LifecycleImplemented, PTL
  DEF ImplementsLifecycle, Promise!Spec, TerminalIsFinal

(* No step but the sweeper's DELETE removes a row.                          *)
LEMMA OnlySweepsDelete ==
    ASSUME TypeOK, [Next]_vars, NEW k \in Job, status[k] # "absent", status'[k] = "absent"
    PROVE  \E s \in Server : SweepRows(s)
<1> SUFFICES ASSUME \A s \in Server : ~ SweepRows(s)
             PROVE  status'[k] # "absent"
  OBVIOUS
<1> USE DEF TypeOK, db, disk, workers, sweeper, hist
<1>1. ASSUME NEW s \in Server, StartServer(s) PROVE status'[k] # "absent"
  BY <1>1 DEF StartServer, Recovered
<1>2. ASSUME NEW s \in Server, Bind(s) PROVE status'[k] # "absent"
  BY <1>2 DEF Bind
<1>3. ASSUME NEW s \in Server, GoDown(s) PROVE status'[k] # "absent"
  BY <1>3 DEF GoDown
<1>4. ASSUME NEW j \in Job, Submit(j) PROVE status'[k] # "absent"
  BY <1>4 DEF Submit, BeginUpload, FinishUpload, UploadFails, Insert, InsertFails, Refuse
<1>5. ASSUME NEW w \in Worker, NEW j \in Job, Claim(w, j) PROVE status'[k] # "absent"
  BY <1>5 DEF Claim
<1>6. ASSUME NEW w \in Worker, ExtractSucceeds(w) \/ ExtractFails(w) PROVE status'[k] # "absent"
  BY <1>6 DEF ExtractSucceeds, ExtractFails, WorkerMoves
<1>7. ASSUME NEW w \in Worker, OpenResult(w) \/ FillResult(w) \/ SaveFails(w) PROVE status'[k] # "absent"
  BY <1>7 DEF OpenResult, FillResult, SaveFails, WorkerMoves
<1>8. ASSUME NEW w \in Worker, MarkSucceeded(w) \/ MarkFailed(w) \/ MarkErrors(w) PROVE status'[k] # "absent"
  BY <1>8 DEF MarkSucceeded, MarkFailed, MarkErrors, MarkRow
<1>9. ASSUME NEW s \in Server, SweepCollect(s) PROVE status'[k] # "absent"
  BY <1>9 DEF SweepCollect
<1>10. ASSUME NEW s \in Server, NEW j \in Job, SweepFiles(s, j) PROVE status'[k] # "absent"
  BY <1>10 DEF SweepFiles
<1>11. ASSUME Tick PROVE status'[k] # "absent"
  BY <1>11 DEF Tick
<1>12. ASSUME UNCHANGED vars PROVE status'[k] # "absent"
  BY <1>12 DEF vars
<1>13. QED
  BY <1>1, <1>2, <1>3, <1>4, <1>5, <1>6, <1>7, <1>8, <1>9, <1>10, <1>11, <1>12
  DEF Next, Lifecycle, Sweep, Work, BindFails, Crash, Shutdown, PollEmpty

(* A row goes only when its time to live is over and the files it names are
   gone.                                                                    *)
THEOREM SweepsAreDue ==
    ASSUME SingleServer, NoWrap
    PROVE  Spec => DeletesAreDue
<1>1. BaseInv /\ RetentionInv /\ [Next]_vars =>
          \A j \in Job : status[j] # "absent" /\ status'[j] = "absent" =>
              /\ Expired(j)
              /\ upload'[j] = "none"
              /\ hasResult[j] => result'[j] = "none"
  <2> SUFFICES ASSUME BaseInv, RetentionInv, [Next]_vars,
                      NEW j \in Job, status[j] # "absent", status'[j] = "absent"
               PROVE  /\ Expired(j)
                      /\ upload'[j] = "none"
                      /\ hasResult[j] => result'[j] = "none"
    OBVIOUS
  <2>1. PICK s \in Server : SweepRows(s)
    BY OnlySweepsDelete DEF BaseInv
  <2>2. PICK D \in SUBSET cleaned[s] : DeleteRows(D)
    BY <2>1 DEF SweepRows
  <2>3. j \in cleaned[s]
    BY <2>2 DEF DeleteRows
  <2>4. upload' = upload /\ result' = result
    BY <2>1 DEF SweepRows, disk
  <2>5. QED
    BY <2>3, <2>4 DEF RetentionInv, CandidatesDue
<1>2. QED
  BY <1>1, BaseAlways, RetentionAlways, PTL DEF Spec, DeletesAreDue

-----------------------------------------------------------------------------
(* The service goes its way while clients read.                             *)
LEMMA ReadersOnService == RSpec => Spec
<1>1. RInit => Init
  BY DEF RInit
<1>2. [RNext]_rvars => [Next]_vars
  BY DEF RNext, rvars, ServiceStep, Look, ReadFile
<1>3. QED
  BY <1>1, <1>2, PTL DEF RSpec, Spec

(* Past its outcome a succeeded job only loses things: its row to the sweep,
   and its result, which no worker writes any more.                         *)
LEMMA SettledStays ==
    ASSUME BaseInv, WorkInv, [Next]_vars, NEW k \in Job, Settled(k)
    PROVE  /\ Settled(k)'
           /\ status[k] = "absent" => status'[k] = "absent"
           /\ result'[k] \in {result[k], "none"}
<1> DEFINE Goal == /\ Settled(k)'
                   /\ status[k] = "absent" => status'[k] = "absent"
                   /\ result'[k] \in {result[k], "none"}
<1>0. ASSUME UNCHANGED <<status, hpc, result>> PROVE Goal
  BY <1>0 DEF Settled
<1>a. /\ TypeOK /\ HandlerShape
      /\ \A w \in Worker : wjob[w] # NoJob => status[wjob[w]] = "running"
      /\ \A w \in Worker : wpc[w] \notin {"off", "idle"} => wjob[w] # NoJob
  BY DEF BaseInv, WorkInv, BusyRunning, Held, TaskShape
\* No worker holds the job.
<1>b. \A w \in Worker : wjob[w] # k
  BY <1>a, NoJobAssumption DEF Settled
<1> USE DEF Settled, TypeOK, HandlerShape, db, disk, workers, sweeper, hist
<1>1. ASSUME NEW s \in Server, StartServer(s) PROVE Goal
  BY <1>1, <1>a DEF StartServer, Recovered
<1>2. ASSUME NEW s \in Server, Bind(s) PROVE Goal
  BY <1>2, <1>0 DEF Bind
<1>3. ASSUME NEW s \in Server, GoDown(s) PROVE Goal
  BY <1>3, <1>a DEF GoDown
<1>4. ASSUME NEW j \in Job, BeginUpload(j) \/ FinishUpload(j) \/ UploadFails(j) PROVE Goal
  BY <1>4, <1>a DEF BeginUpload, FinishUpload, UploadFails, Refuse
<1>5. ASSUME NEW j \in Job, Insert(j) \/ InsertFails(j) PROVE Goal
  BY <1>5, <1>a DEF Insert, InsertFails, Refuse
<1>6. ASSUME NEW w \in Worker, NEW j \in Job, Claim(w, j) PROVE Goal
  BY <1>6, <1>a DEF Claim, Claimable
<1>7. ASSUME NEW w \in Worker, ExtractSucceeds(w) \/ ExtractFails(w) \/ SaveFails(w) PROVE Goal
  BY <1>7, <1>0 DEF ExtractSucceeds, ExtractFails, SaveFails, WorkerMoves
<1>8. ASSUME NEW w \in Worker, OpenResult(w) \/ FillResult(w) PROVE Goal
  BY <1>8, <1>a, <1>b DEF OpenResult, FillResult, WorkerMoves
<1>9. ASSUME NEW w \in Worker, MarkSucceeded(w) \/ MarkFailed(w) PROVE Goal
  BY <1>9, <1>a, <1>b DEF MarkSucceeded, MarkFailed, MarkRow, Release
<1>10. ASSUME NEW w \in Worker, MarkErrors(w) PROVE Goal
  BY <1>10, <1>0 DEF MarkErrors, Release
<1>11. ASSUME NEW s \in Server, SweepCollect(s) PROVE Goal
  BY <1>11, <1>0 DEF SweepCollect
<1>12. ASSUME NEW s \in Server, NEW j \in Job, SweepFiles(s, j) PROVE Goal
  BY <1>12, <1>a DEF SweepFiles
<1>13. ASSUME NEW s \in Server, SweepRows(s) PROVE Goal
  BY <1>13, <1>a DEF SweepRows, DeleteRows
<1>14. ASSUME Tick \/ UNCHANGED vars PROVE Goal
  BY <1>14, <1>0 DEF Tick, vars
<1>15. QED
  BY <1>1, <1>2, <1>3, <1>4, <1>5, <1>6, <1>7, <1>8, <1>9, <1>10, <1>11, <1>12, <1>13, <1>14
  DEF Next, Lifecycle, Sweep, Submit, Work, BindFails, Crash, Shutdown, PollEmpty

(* The answers there are.                                                   *)
LEMMA AnswerSet ==
    /\ {Answers[i] : i \in DOMAIN Answers}
         = {"nothing", "not_ready", "torn", "bytes", "gone", "not_found"}
    /\ \A i \in DOMAIN Answers : Answers[i] \notin Errors
<1>1. DOMAIN Answers = 1 .. 6
  BY DEF Answers
<1>2. /\ Answers[1] = "nothing" /\ Answers[2] = "not_ready" /\ Answers[3] = "torn"
      /\ Answers[4] = "bytes" /\ Answers[5] = "gone" /\ Answers[6] = "not_found"
  BY DEF Answers
<1>3. QED
  BY <1>1, <1>2 DEF Errors

(* Readers stay behind the outcome they saw.                                *)
THEOREM ReadersAlways ==
    ASSUME SingleServer, NoWrap
    PROVE  RSpec => []ReaderInv
<1>1. RInit => ReaderInv
  BY AnswerSet DEF RInit, ReaderInv, ReadsSound, NeverTorn, ErrorOnlyAfterTTL
<1>2. ASSUME BaseInv, BaseInv', WorkInv, RetentionInv, RetentionInv', ReaderInv, [RNext]_rvars
      PROVE  ReaderInv'
  <2>a. /\ gpc \in [Job -> {"idle", "reading"}]
        /\ known \in [Job -> {Answers[i] : i \in DOMAIN Answers}]
        /\ DOMAIN seen = Job
    BY <1>2 DEF ReaderInv
  <2>b. \A j \in Job :
          /\ seen[j] \in Errors \cup {known[j]}
          /\ gpc[j] = "reading" => Settled(j) /\ result[j] \in {"full", "none"}
          /\ known[j] # "torn"
          /\ known[j] = "bytes" => Settled(j)
          /\ known[j] = "gone" => Settled(j) /\ result[j] = "none"
          /\ known[j] = "not_found" => Settled(j) /\ status[j] = "absent" /\ gpc[j] = "idle"
    BY <1>2 DEF ReaderInv
  \* The file of a reader is gone only late, whatever the step.
  <2>c. ASSUME \A j \in Job : gpc'[j] = "reading" => Settled(j)'
        PROVE  ErrorOnlyAfterTTL'
    BY <1>2, <2>c DEF ErrorOnlyAfterTTL, RetentionInv, ResultHeld, Settled
  \* No answer is torn, whatever the step.
  <2>d. ASSUME \A j \in Job : seen'[j] \in Errors \cup {known'[j]} /\ known'[j] # "torn"
        PROVE  NeverTorn'
    BY <2>d DEF NeverTorn, Errors
  <2>1. CASE ServiceStep
    <3>1. seen' = seen /\ known' = known /\ [Next]_vars
      BY <2>1 DEF ServiceStep
    <3>2. gpc' \in [Job -> {"idle", "reading"}] /\ \A j \in Job : gpc'[j] \in {gpc[j], "idle"}
      BY <2>1, <2>a DEF ServiceStep
    <3>3. \A j \in Job : Settled(j) =>
             /\ Settled(j)'
             /\ status[j] = "absent" => status'[j] = "absent"
             /\ result'[j] \in {result[j], "none"}
      BY <1>2, <3>1, SettledStays
    <3>4. \A j \in Job :
            /\ seen'[j] \in Errors \cup {known'[j]}
            /\ gpc'[j] = "reading" => Settled(j)' /\ result'[j] \in {"full", "none"}
            /\ known'[j] # "torn"
            /\ known'[j] = "bytes" => Settled(j)'
            /\ known'[j] = "gone" => Settled(j)' /\ result'[j] = "none"
            /\ known'[j] = "not_found" => Settled(j)' /\ status'[j] = "absent" /\ gpc'[j] = "idle"
      BY <2>b, <3>1, <3>2, <3>3
    <3>5. QED
      BY <2>a, <2>c, <2>d, <3>1, <3>2, <3>4 DEF ReaderInv, ReadsSound
  <2>2. ASSUME NEW k \in Job, Look(k) PROVE ReaderInv'
    <3>0. UNCHANGED vars
      BY <2>2 DEF Look
    <3>1. \A j \in Job : Settled(j)' <=> Settled(j)
      BY <3>0 DEF Settled, vars, db
    <3>2. UNCHANGED <<status, hpc, result>>
      BY <3>0 DEF vars, db, disk
    <3>3. status[k] = "succeeded" => result[k] \in {"full", "none"}
      BY <1>2 DEF RetentionInv, ResultHeld
    <3>4. /\ gpc' \in [Job -> {"idle", "reading"}] /\ DOMAIN seen' = Job
          /\ known' \in [Job -> {Answers[i] : i \in DOMAIN Answers}]
      BY <2>2, <2>a, AnswerSet DEF Look, Answer, Fails
    <3>5. \A j \in Job :
            /\ seen'[j] \in Errors \cup {known'[j]}
            /\ gpc'[j] = "reading" => Settled(j) /\ result[j] \in {"full", "none"}
            /\ known'[j] # "torn"
            /\ known'[j] = "bytes" => Settled(j)
            /\ known'[j] = "gone" => Settled(j) /\ result[j] = "none"
            /\ known'[j] = "not_found" => Settled(j) /\ status[j] = "absent" /\ gpc'[j] = "idle"
      BY <2>2, <2>a, <2>b, <3>3 DEF Look, Answer, Fails, Settled, Errors
    <3>6. QED
      BY <2>c, <2>d, <3>1, <3>2, <3>4, <3>5 DEF ReaderInv, ReadsSound
  <2>3. ASSUME NEW k \in Job, ReadFile(k) PROVE ReaderInv'
    <3>0. UNCHANGED vars
      BY <2>3 DEF ReadFile
    <3>1. \A j \in Job : Settled(j)' <=> Settled(j)
      BY <3>0 DEF Settled, vars, db
    <3>2. UNCHANGED <<status, hpc, result>>
      BY <3>0 DEF vars, db, disk
    <3>3. \/ result[k] = "full" /\ Answer(k, "bytes")
          \/ result[k] = "none" /\ Answer(k, "gone")
          \/ Fails(k, "io_error")
      BY <2>3, <2>b DEF ReadFile
    <3>4. /\ gpc' \in [Job -> {"idle", "reading"}] /\ DOMAIN seen' = Job
          /\ known' \in [Job -> {Answers[i] : i \in DOMAIN Answers}]
      BY <2>3, <2>a, <3>3, AnswerSet DEF ReadFile, Answer, Fails
    <3>5. \A j \in Job :
            /\ seen'[j] \in Errors \cup {known'[j]}
            /\ gpc'[j] = "reading" => Settled(j) /\ result[j] \in {"full", "none"}
            /\ known'[j] # "torn"
            /\ known'[j] = "bytes" => Settled(j)
            /\ known'[j] = "gone" => Settled(j) /\ result[j] = "none"
            /\ known'[j] = "not_found" => Settled(j) /\ status[j] = "absent" /\ gpc'[j] = "idle"
      BY <2>3, <2>a, <2>b, <3>3 DEF ReadFile, Answer, Fails, Errors
    <3>6. QED
      BY <2>c, <2>d, <3>1, <3>2, <3>4, <3>5 DEF ReaderInv, ReadsSound
  <2>4. CASE UNCHANGED rvars
    <3>1. /\ UNCHANGED <<status, hpc, result, gpc, seen, known>>
          /\ \A j \in Job : Settled(j)' <=> Settled(j)
      BY <2>4 DEF rvars, vars, db, disk, Settled
    <3>2. QED
      BY <2>a, <2>b, <2>c, <2>d, <3>1 DEF ReaderInv, ReadsSound
  <2>5. QED
    BY <1>2, <2>1, <2>2, <2>3, <2>4 DEF RNext
<1>3. QED
  BY <1>1, <1>2, ReadersOnService, BaseAlways, WorkAlways, RetentionAlways, PTL DEF RSpec

(* GET .../result never serves part of a file, and says that the file is gone
   only for a job past its time to live, although it holds no lock between
   the row and the file.                                                    *)
THEOREM ReadsAreSound ==
    ASSUME SingleServer, NoWrap
    PROVE  RSpec => []ReadsSound
<1>1. ReaderInv => ReadsSound
  BY DEF ReaderInv
<1>2. QED
  BY <1>1, ReadersAlways, PTL

(* The place of each answer.                                                *)
LEMMA Ranks ==
    /\ Rank("nothing") = 1 /\ Rank("not_ready") = 2 /\ Rank("torn") = 3
    /\ Rank("bytes") = 4 /\ Rank("gone") = 5 /\ Rank("not_found") = 6
<1>1. DOMAIN Answers = 1 .. 6
  BY DEF Answers
<1>2. /\ Answers[1] = "nothing" /\ Answers[2] = "not_ready" /\ Answers[3] = "torn"
      /\ Answers[4] = "bytes" /\ Answers[5] = "gone" /\ Answers[6] = "not_found"
  BY DEF Answers
<1>3. ASSUME NEW n \in 1 .. 6
      PROVE  Rank(Answers[n]) = n
  <2>1. \A i \in DOMAIN Answers : Answers[i] = Answers[n] <=> i = n
    BY <1>1, <1>2
  <2>2. QED
    BY <1>1, <2>1 DEF Rank
<1>4. /\ Rank(Answers[1]) = 1 /\ Rank(Answers[2]) = 2 /\ Rank(Answers[3]) = 3
      /\ Rank(Answers[4]) = 4 /\ Rank(Answers[5]) = 5 /\ Rank(Answers[6]) = 6
  BY <1>3
<1>5. QED
  BY <1>2, <1>4

(* A client never loses what it was told: the answers for one job go from
   not_ready to the result, to an error of the sweep, to not_found, across
   reruns, crashes and restarts, and whatever errors are answered between
   them.                                                                    *)
THEOREM AnswersOnlyAdvance ==
    ASSUME SingleServer, NoWrap
    PROVE  RSpec => AnswersAdvance
<1>1. ReaderInv /\ [RNext]_rvars =>
        \A j \in Job : seen'[j] \in Errors \/ Rank(known[j]) <= Rank(seen'[j])
  <2> SUFFICES ASSUME ReaderInv, [RNext]_rvars, NEW j \in Job, seen'[j] \notin Errors
               PROVE  Rank(known[j]) <= Rank(seen'[j])
    OBVIOUS
  <2>1. /\ known[j] \in {"nothing", "not_ready", "bytes", "gone", "not_found"}
        /\ seen[j] \in Errors \cup {known[j]} /\ DOMAIN seen = Job
    BY AnswerSet DEF ReaderInv
  <2>2. CASE seen'[j] = seen[j]
    BY <2>1, <2>2, Ranks
  <2>3. CASE \E k \in Job : Look(k)
    <3>1. PICK k \in Job : Look(k)
      BY <2>3
    <3>2. seen'[j] = seen[j] \/ /\ seen'[j] = "not_found" /\ status[j] = "absent"
                               \/ /\ seen'[j] = "not_ready" /\ ~ Settled(j)
      BY <2>1, <3>1 DEF Look, Answer, Fails, Settled, Errors
    <3>3. QED
      BY <2>1, <2>2, <3>2, Ranks DEF ReaderInv
  <2>4. CASE \E k \in Job : ReadFile(k)
    <3>1. PICK k \in Job : ReadFile(k)
      BY <2>4
    <3>2. seen'[j] = seen[j] \/ /\ seen'[j] = "bytes" /\ result[j] = "full" /\ gpc[j] = "reading"
                               \/ /\ seen'[j] = "gone" /\ gpc[j] = "reading"
      BY <2>1, <3>1 DEF ReadFile, Answer, Fails, ReaderInv, Errors
    <3>3. QED
      BY <2>1, <2>2, <3>2, Ranks DEF ReaderInv
  <2>5. CASE ServiceStep \/ UNCHANGED rvars
    BY <2>2, <2>5 DEF ServiceStep, rvars
  <2>6. QED
    BY <2>3, <2>4, <2>5 DEF RNext
<1>2. QED
  BY <1>1, ReadersAlways, PTL DEF RSpec, AnswersAdvance

(***************************************************************************)
(* The synchronous route for every number of clients, job workers, permits *)
(* and crashes: permits, counter, children and files are always accounted  *)
(* for, and the route is the bounded pool of the documentation.            *)
(***************************************************************************)
Count(S, f, A) == Cardinality({x \in S : f[x] \in A})

(* A count is a natural number and no more than there are to be counted.   *)
LEMMA CountType ==
    ASSUME NEW S, NEW f, NEW A, IsFiniteSet(S)
    PROVE  Count(S, f, A) \in Nat /\ Count(S, f, A) <= Cardinality(S)
  BY FS_Subset, FS_CardinalityType DEF Count

(* A smaller class counts no more than a larger one.                       *)
LEMMA CountMonotone ==
    ASSUME NEW S, NEW f, NEW A, NEW B, IsFiniteSet(S), A \subseteq B
    PROVE  Count(S, f, A) <= Count(S, f, B)
<1> DEFINE X == {x \in S : f[x] \in A}
           Y == {x \in S : f[x] \in B}
<1>1. X \subseteq Y /\ IsFiniteSet(Y)
  BY FS_Subset
<1>2. QED
  BY <1>1, FS_Subset DEF Count

(* g is f but for one element.                                             *)
Differ(S, f, g, r) == \A x \in S : x # r => g[x] = f[x]

(* One element enters the class ...                                        *)
LEMMA CountEnter ==
    ASSUME NEW S, NEW f, NEW g, NEW A, NEW r \in S, IsFiniteSet(S),
           Differ(S, f, g, r), f[r] \notin A, g[r] \in A
    PROVE  Count(S, g, A) = Count(S, f, A) + 1
<1> DEFINE X == {x \in S : f[x] \in A}
           Y == {x \in S : g[x] \in A}
<1>1. Y = X \cup {r} /\ r \notin X
  BY DEF Differ
<1>2. IsFiniteSet(X)
  BY FS_Subset
<1> HIDE DEF X, Y
<1>3. Cardinality(Y) = Cardinality(X) + 1
  BY <1>1, <1>2, FS_AddElement
<1>4. QED
  BY <1>3 DEF Count, X, Y

(* ... leaves it ...                                                       *)
LEMMA CountLeave ==
    ASSUME NEW S, NEW f, NEW g, NEW A, NEW r \in S, IsFiniteSet(S),
           Differ(S, f, g, r), f[r] \in A, g[r] \notin A
    PROVE  Count(S, g, A) = Count(S, f, A) - 1
<1> DEFINE X == {x \in S : f[x] \in A}
           Y == {x \in S : g[x] \in A}
<1>1. Y = X \ {r} /\ r \in X
  BY DEF Differ
<1>2. IsFiniteSet(X)
  BY FS_Subset
<1> HIDE DEF X, Y
<1>3. Cardinality(Y) = Cardinality(X) - 1
  BY <1>1, <1>2, FS_RemoveElement
<1>4. QED
  BY <1>3 DEF Count, X, Y

(* ... or moves on this side of its border.                                *)
LEMMA CountStay ==
    ASSUME NEW S, NEW f, NEW g, NEW A, NEW r \in S,
           Differ(S, f, g, r), f[r] \in A <=> g[r] \in A
    PROVE  Count(S, g, A) = Count(S, f, A)
<1>1. {x \in S : g[x] \in A} = {x \in S : f[x] \in A}
  BY DEF Differ
<1>2. QED
  BY <1>1 DEF Count

(* Taking one waiter out of the queue leaves the others, once each.        *)
LEMMA WithoutIsShorter ==
    ASSUME NEW q \in Seq(Req), NEW i \in 1 .. Len(q),
           \A m, n \in 1 .. Len(q) : q[m] = q[n] => m = n
    PROVE  /\ Without(q, i) \in Seq(Req)
           /\ Len(Without(q, i)) = Len(q) - 1
           /\ \A m \in 1 .. Len(q) - 1 :
                \E n \in 1 .. Len(q) : n # i /\ Without(q, i)[m] = q[n]
           /\ \A m, n \in 1 .. Len(q) - 1 :
                Without(q, i)[m] = Without(q, i)[n] => m = n
<1> DEFINE w == Without(q, i)
           L == Len(q) - 1
<1>1. Len(q) \in Nat /\ L \in Nat /\ \A n \in 1 .. Len(q) : q[n] \in Req
  OBVIOUS
<1>2. \A m \in 1 .. L : w[m] = q[IF m < i THEN m ELSE m + 1]
  BY <1>1 DEF Without
<1>3. w \in [1 .. L -> Req]
  BY <1>1 DEF Without
<1>4. w \in Seq(Req) /\ Len(w) = L
  BY <1>1, <1>3
<1> HIDE DEF w
<1>5. \A m \in 1 .. L : \E n \in 1 .. Len(q) : n # i /\ w[m] = q[n]
  <2> TAKE m \in 1 .. L
  <2> WITNESS (IF m < i THEN m ELSE m + 1) \in 1 .. Len(q)
  <2> QED
    BY <1>1, <1>2
<1>6. \A m, n \in 1 .. L : w[m] = w[n] => m = n
  BY <1>1, <1>2
<1>7. QED
  BY <1>4, <1>5, <1>6 DEF w

-----------------------------------------------------------------------------
Working == {"extracting", "recorded"}
InFlight == Count(Req, pc, Counted) + Count(JobTask, jpc, Working)

PoolInv ==
    /\ RouteTyped
    /\ QueueInv
    /\ GuardInv
    /\ permits + Count(Req, pc, HasPermit) = Permits
    /\ active = InFlight
    /\ InFlightBounded

(* A handler that moves on changes each count by where it comes from and
   where it goes to.                                                       *)
LEMMA GoesCounts ==
    ASSUME RouteTyped, NEW r \in Req, NEW from, NEW to, Goes(r, from, to), NEW A
    PROVE  /\ (from \in A <=> to \in A) => Count(Req, pc', A) = Count(Req, pc, A)
           /\ from \notin A /\ to \in A => Count(Req, pc', A) = Count(Req, pc, A) + 1
           /\ from \in A /\ to \notin A => Count(Req, pc', A) = Count(Req, pc, A) - 1
<1>1. Differ(Req, pc, pc', r) /\ pc[r] = from /\ pc'[r] = to
  BY DEF RouteTyped, Goes, Differ
<1>2. (from \in A <=> to \in A) => Count(Req, pc', A) = Count(Req, pc, A)
  BY <1>1, CountStay
<1>3. from \notin A /\ to \in A => Count(Req, pc', A) = Count(Req, pc, A) + 1
  BY <1>1, FiniteAssumption, CountEnter
<1>4. from \in A /\ to \notin A => Count(Req, pc', A) = Count(Req, pc, A) - 1
  BY <1>1, FiniteAssumption, CountLeave
<1>5. QED
  BY <1>2, <1>3, <1>4

(* A handler that was not queued moves on: the queue is as good as before. *)
LEMMA GoesQueue ==
    ASSUME RouteTyped, QueueInv, NEW r \in Req, NEW from, NEW to, Goes(r, from, to),
           from # "queued", UNCHANGED queue
    PROVE  QueueInv'
<1>1. \A i \in 1 .. Len(queue) : queue[i] \in Req
  BY DEF RouteTyped
<1>2. QED
  BY <1>1 DEF QueueInv, Goes, RouteTyped

(* A permit that is given back is free again or has a new holder, who was
   waiting for it.                                                         *)
LEMMA ReleaseHandsOver ==
    ASSUME PoolInv, NEW r \in Req, pc[r] \in {"granted", "freeing"}, FreePermit(r, "cleaning")
    PROVE  /\ pc' \in [Req -> {"idle", "reading", "stored", "queued", "cleaning"} \cup HasPermit]
           /\ queue' \in Seq(Req) /\ permits' \in 0 .. Permits
           /\ QueueInv'
           /\ permits' + Count(Req, pc', HasPermit) = Permits
           /\ Count(Req, pc', Counted) = Count(Req, pc, Counted)
           /\ \A x \in Req : \/ pc'[x] = pc[x]
                             \/ (x = r /\ pc'[x] = "cleaning")
                             \/ (pc[x] = "queued" /\ pc'[x] = "granted")
<1> DEFINE V == {"idle", "reading", "stored", "queued", "cleaning"} \cup HasPermit
<1>a. PICK mid \in [Req -> V] : mid = [pc EXCEPT ![r] = "cleaning"]
  BY DEF PoolInv, RouteTyped
<1>1. /\ pc \in [Req -> V]
      /\ Differ(Req, pc, mid, r) /\ mid[r] = "cleaning"
  BY <1>a DEF PoolInv, RouteTyped, Differ
<1>2. pc[r] \in HasPermit /\ pc[r] \notin Counted /\ "cleaning" \notin HasPermit \cup Counted
  BY DEF HasPermit, Counted
<1>3. Count(Req, mid, HasPermit) = Count(Req, pc, HasPermit) - 1
  BY <1>1, <1>2, FiniteAssumption, CountLeave
<1>4. Count(Req, mid, Counted) = Count(Req, pc, Counted)
  BY <1>1, <1>2, CountStay
<1>5. Count(Req, mid, HasPermit) \in Nat /\ Count(Req, pc, HasPermit) \in Nat
  BY FiniteAssumption, CountType
<1>6. permits \in Nat /\ Permits \in Nat /\ permits + Count(Req, pc, HasPermit) = Permits
  BY PoolAssumption DEF PoolInv, RouteTyped
<1>7. CASE queue = <<>>
  <2>1. pc' = mid /\ permits' = permits + 1 /\ queue' = queue
    BY <1>7, <1>a DEF FreePermit
  <2>2. queue' \in Seq(Req) /\ QueueInv'
    BY <2>1, <1>7 DEF QueueInv, PoolInv, RouteTyped
  <2>3. permits' \in 0 .. Permits /\ permits' + Count(Req, pc', HasPermit) = Permits
    BY <2>1, <1>3, <1>5, <1>6
  <2>4. \A x \in Req : pc'[x] = pc[x] \/ (x = r /\ pc'[x] = "cleaning")
    <3> TAKE x \in Req
    <3>1. pc'[x] = mid[x] /\ (x # r => mid[x] = pc[x])
      BY <2>1, <1>1 DEF Differ
    <3>2. QED
      BY <3>1, <1>1
  <2>5. QED
    BY <1>1, <1>4, <2>1, <2>2, <2>3, <2>4
<1>8. CASE queue # <<>>
  <2> DEFINE w == queue[1]
  <2>1. /\ pc' = [mid EXCEPT ![w] = "granted"]
        /\ queue' = Without(queue, 1) /\ permits' = permits
    BY <1>8, <1>a DEF FreePermit, First
  <2>2. queue \in Seq(Req) /\ Len(queue) \in Nat /\ 1 \in 1 .. Len(queue) /\ w \in Req
    BY <1>8 DEF PoolInv, RouteTyped
  <2>3. /\ \A i \in 1 .. Len(queue) : queue[i] \in Req /\ pc[queue[i]] = "queued"
        /\ \A i, k \in 1 .. Len(queue) : queue[i] = queue[k] => i = k
    BY <2>2 DEF PoolInv, QueueInv
  <2>4. pc[w] = "queued" /\ w # r /\ mid[w] = "queued"
    BY <2>2, <2>3, <1>1, <1>2 DEF Differ, HasPermit
  <2>5. /\ Without(queue, 1) \in Seq(Req) /\ Len(Without(queue, 1)) = Len(queue) - 1
        /\ \A m \in 1 .. Len(queue) - 1 :
              \E n \in 1 .. Len(queue) : n # 1 /\ Without(queue, 1)[m] = queue[n]
        /\ \A m, n \in 1 .. Len(queue) - 1 :
              Without(queue, 1)[m] = Without(queue, 1)[n] => m = n
    BY <2>2, <2>3, WithoutIsShorter
  <2>6. "queued" \notin HasPermit \cup Counted /\ "granted" \in HasPermit \ Counted
    BY DEF HasPermit, Counted
  <2>x. Differ(Req, mid, pc', w) /\ pc'[w] = "granted"
    BY <2>1, <2>2 DEF Differ
  <2>7. Count(Req, pc', HasPermit) = Count(Req, mid, HasPermit) + 1
    BY <2>x, <2>2, <2>4, <2>6, FiniteAssumption, CountEnter
  <2>8. Count(Req, pc', Counted) = Count(Req, mid, Counted)
    BY <2>x, <2>2, <2>4, <2>6, CountStay
  <2>9. QueueInv'
    <3>1. \A m \in 1 .. Len(queue') : pc'[queue'[m]] = "queued"
      <4> SUFFICES ASSUME NEW m \in 1 .. Len(queue) - 1
                   PROVE  pc'[queue'[m]] = "queued"
        BY <2>1, <2>5
      <4>1. PICK n \in 1 .. Len(queue) : n # 1 /\ queue'[m] = queue[n]
        BY <2>1, <2>5
      <4>2. queue[n] # w /\ queue[n] # r /\ queue[n] \in Req /\ pc[queue[n]] = "queued"
        BY <4>1, <2>2, <2>3
      <4>3. QED
        BY <4>1, <4>2, <2>x, <1>1 DEF Differ
    <3>2. QED
      BY <3>1, <2>1, <2>5 DEF QueueInv
  <2>10. \A x \in Req : \/ pc'[x] = pc[x]
                       \/ (x = r /\ pc'[x] = "cleaning")
                       \/ (pc[x] = "queued" /\ pc'[x] = "granted")
    <3> TAKE x \in Req
    <3>1. (x # r => mid[x] = pc[x]) /\ (x # w => pc'[x] = mid[x])
      BY <2>x, <1>1 DEF Differ
    <3>2. QED
      BY <3>1, <2>x, <2>4, <1>1
  <2>11. pc' \in [Req -> V]
    BY <2>1, <1>1 DEF HasPermit
  <2>12. QED
    BY <2>1, <2>5, <2>7, <2>8, <2>9, <2>10, <2>11, <1>3, <1>4, <1>5, <1>6
<1>9. QED
  BY <1>7, <1>8

(* Where nothing is to be counted the count is zero.                       *)
LEMMA CountNone ==
    ASSUME NEW S, NEW f, NEW A, \A x \in S : f[x] \notin A
    PROVE  Count(S, f, A) = 0
<1>1. {x \in S : f[x] \in A} = {}
  OBVIOUS
<1>2. QED
  BY <1>1, FS_EmptySet DEF Count

(* At most Permits handlers count as active, and each job task once.       *)
LEMMA InFlightFits ==
    ASSUME NEW f, NEW j, NEW n \in Nat, n + Count(Req, f, HasPermit) = Permits
    PROVE  /\ Count(Req, f, Counted) + Count(JobTask, j, Working) \in Nat
           /\ Count(Req, f, Counted) + Count(JobTask, j, Working)
                <= Permits + Cardinality(JobTask)
<1>1. Counted \subseteq HasPermit
  BY DEF Counted, HasPermit
<1>2. /\ Count(Req, f, Counted) \in Nat /\ Count(Req, f, HasPermit) \in Nat
      /\ Count(JobTask, j, Working) \in Nat
      /\ Count(JobTask, j, Working) <= Cardinality(JobTask)
      /\ Cardinality(JobTask) \in Nat
  BY FiniteAssumption, CountType, FS_CardinalityType
<1>3. Count(Req, f, Counted) <= Count(Req, f, HasPermit)
  BY <1>1, FiniteAssumption, CountMonotone
<1>4. QED
  BY <1>2, <1>3, PoolAssumption

-----------------------------------------------------------------------------
(* The start of a server, with nothing in flight.                          *)
LEMMA FreshServer ==
    ASSUME NEW f, NEW j, f = [r \in Req |-> "idle"], j = [t \in JobTask |-> "idle"]
    PROVE  /\ Permits + Count(Req, f, HasPermit) = Permits
           /\ Count(Req, f, Counted) + Count(JobTask, j, Working) = 0
<1>1. Count(Req, f, HasPermit) = 0
  <2>1. \A r \in Req : f[r] \notin HasPermit
    BY DEF HasPermit
  <2>2. QED
    BY <2>1, CountNone
<1>2. Count(Req, f, Counted) = 0
  <2>1. \A r \in Req : f[r] \notin Counted
    BY DEF Counted
  <2>2. QED
    BY <2>1, CountNone
<1>3. Count(JobTask, j, Working) = 0
  <2>1. \A t \in JobTask : j[t] \notin Working
    BY DEF Working
  <2>2. QED
    BY <2>1, CountNone
<1>4. QED
  BY <1>1, <1>2, <1>3, PoolAssumption

(* Nothing is counted before the first request.                            *)
LEMMA PoolInit == RouteInit => PoolInv
<1> SUFFICES ASSUME RouteInit PROVE PoolInv
  OBVIOUS
<1>1. RouteTyped /\ QueueInv /\ GuardInv /\ InFlightBounded
  <2>1. Cardinality(JobTask) \in Nat
    BY FiniteAssumption, FS_CardinalityType
  <2>2. QED
    BY <2>1, PoolAssumption DEF RouteInit, RouteTyped, QueueInv, GuardInv, InFlightBounded, HasPermit
<1>2. QED
  BY <1>1, FreshServer DEF PoolInv, RouteInit, InFlight

(* A crash starts over; what it leaves behind is known as a crash's.       *)
LEMMA PoolCrash == PoolInv /\ ServerDies => PoolInv'
<1> SUFFICES ASSUME PoolInv, ServerDies PROVE PoolInv'
  OBVIOUS
<1>1. RouteTyped' /\ QueueInv' /\ InFlightBounded'
  <2>1. Cardinality(JobTask) \in Nat
    BY FiniteAssumption, FS_CardinalityType
  <2>2. QED
    BY <2>1, PoolAssumption
       DEF PoolInv, RouteTyped, ServerDies, QueueInv, InFlightBounded, HasPermit
<1>2. GuardInv'
  BY DEF PoolInv, RouteTyped, ServerDies, GuardInv
<1>3. /\ permits' + Count(Req, pc', HasPermit) = Permits
      /\ Count(Req, pc', Counted) + Count(JobTask, jpc', Working) = 0
  BY FreshServer DEF ServerDies
<1>4. QED
  BY <1>1, <1>2, <1>3 DEF PoolInv, ServerDies, InFlight

-----------------------------------------------------------------------------
(* A handler that moves on without the semaphore keeps or lacks its permit. *)
LEMMA MovesOn ==
    ASSUME PoolInv, NEW r \in Req, NEW from, NEW to, Goes(r, from, to), from # "queued",
           from \in HasPermit <=> to \in HasPermit, UNCHANGED sem
    PROVE  QueueInv' /\ permits' + Count(Req, pc', HasPermit) = Permits
<1>1. QueueInv'
  BY GoesQueue DEF PoolInv, sem
<1>2. Count(Req, pc', HasPermit) = Count(Req, pc, HasPermit)
  BY GoesCounts DEF PoolInv
<1>3. QED
  BY <1>1, <1>2 DEF PoolInv, sem

(* A handler that moves on and neither starts nor stops counting.          *)
LEMMA StaysCounted ==
    ASSUME PoolInv, NEW r \in Req, NEW from, NEW to, Goes(r, from, to),
           from \in Counted <=> to \in Counted, UNCHANGED <<active, jpc>>
    PROVE  active' = InFlight'
<1>1. Count(Req, pc', Counted) = Count(Req, pc, Counted)
  BY GoesCounts DEF PoolInv
<1>2. QED
  BY <1>1 DEF PoolInv, InFlight

(* Where a handler can be.                                                 *)
Places == {"idle", "reading", "stored", "queued", "cleaning"} \cup HasPermit

(* A handler that moves on stays within its code.                          *)
LEMMA MovesWithin ==
    ASSUME PoolInv, NEW r \in Req, NEW from, NEW to \in Places, Goes(r, from, to)
    PROVE  pc' \in [Req -> Places]
<1>1. pc \in [Req -> Places]
  BY DEF PoolInv, RouteTyped, Places
<1>2. QED
  BY <1>1 DEF Goes

(* The steps outside of the extraction and the semaphore.                  *)
LEMMA PoolOutside ==
    ASSUME PoolInv, NEW r \in Req,
           Arrive(r) \/ TurnAway(r) \/ Store(r) \/ Record(r) \/ Clean(r)
    PROVE  PoolInv'
<1>1. PICK from \in {"idle", "reading", "closing", "cleaning"},
           to \in {"reading", "idle", "stored", "freeing"} :
        /\ Goes(r, from, to)
        /\ from = "closing" <=> to = "freeing"
  BY DEF Arrive, TurnAway, Store, Record, Clean, Goes
<1>2. UNCHANGED <<sem, active, jpc, crashes>>
  BY DEF Arrive, TurnAway, Store, Record, Clean, tele
<1>3. /\ from \in HasPermit <=> to \in HasPermit
      /\ from \in Counted <=> to \in Counted
  BY <1>1 DEF HasPermit, Counted
<1>4. QueueInv' /\ permits' + Count(Req, pc', HasPermit) = Permits
  BY <1>1, <1>2, <1>3, MovesOn
<1>5. active' = InFlight'
  BY <1>1, <1>2, <1>3, StaysCounted
<1>6. RouteTyped' /\ InFlightBounded'
  <2>1. Cardinality(JobTask) \in Nat
    BY FiniteAssumption, FS_CardinalityType
  <2>a. pc' \in [Req -> Places]
    BY <1>1, MovesWithin DEF Places, HasPermit
  <2>b. /\ tmp' \in [Req -> BOOLEAN]
        /\ child' \in [Req -> {"none", "running", "orphan"}]
    BY DEF PoolInv, RouteTyped, Arrive, TurnAway, Store, Record, Clean
  <2>c. /\ inFlight' \in [Req -> Nat]
        /\ \A x \in Req : inFlight'[x] = inFlight[x] \/ inFlight'[x] = 0
    <3>1. inFlight \in [Req -> Nat]
      BY DEF PoolInv, RouteTyped
    <3>2. inFlight' = [inFlight EXCEPT ![r] = 0] \/ inFlight' = inFlight
      BY DEF Arrive, TurnAway, Store, Record, Clean, tele
    <3>3. QED
      BY <3>1, <3>2
  <2>2. RouteTyped'
    BY <1>2, <2>a, <2>b, <2>c DEF PoolInv, RouteTyped, Places, sem
  <2>3. InFlightBounded'
    <3> SUFFICES ASSUME NEW x \in Req PROVE inFlight'[x] <= Permits + Cardinality(JobTask)
      BY DEF InFlightBounded
    <3>1. inFlight[x] <= Permits + Cardinality(JobTask)
      BY DEF PoolInv, InFlightBounded
    <3>2. QED
      BY <3>1, <2>1, <2>c, PoolAssumption
  <2>4. QED
    BY <2>2, <2>3
<1>7. GuardInv'
  BY <1>2 DEF PoolInv, RouteTyped, GuardInv, Arrive, TurnAway, Store, Record, Clean, Goes, tele
<1>8. QED
  BY <1>4, <1>5, <1>6, <1>7 DEF PoolInv

(* Semaphore::acquire.                                                     *)
LEMMA PoolAcquire ==
    ASSUME PoolInv, NEW r \in Req, Acquire(r)
    PROVE  PoolInv'
<1>1. RouteTyped' /\ InFlightBounded' /\ GuardInv'
  <2>1. RouteTyped'
    <3>1. pc' \in [Req -> Places]
      BY MovesWithin DEF Acquire, Places, HasPermit
    <3>2. queue' \in Seq(Req) /\ permits' \in 0 .. Permits
      <4>1. queue \in Seq(Req) /\ permits \in 0 .. Permits /\ Permits \in Nat
        BY PoolAssumption DEF PoolInv, RouteTyped
      <4>2. \/ permits > 0 /\ permits' = permits - 1 /\ queue' = queue
            \/ queue' = Append(queue, r) /\ permits' = permits
        BY DEF Acquire
      <4>3. QED
        BY <4>1, <4>2
    <3>3. QED
      BY <3>1, <3>2 DEF PoolInv, RouteTyped, Acquire, Places, tele
  <2>2. InFlightBounded'
    BY DEF PoolInv, InFlightBounded, Acquire, tele
  <2>3. GuardInv'
    BY DEF PoolInv, RouteTyped, GuardInv, Acquire, Goes, tele
  <2>4. QED
    BY <2>1, <2>2, <2>3
<1>2. "stored" \notin HasPermit \cup Counted /\ "queued" \notin HasPermit \cup Counted
      /\ "acquired" \in HasPermit \ Counted
  BY DEF HasPermit, Counted
<1>3. active' = InFlight'
  BY <1>2, StaysCounted DEF Acquire, tele
<1>4. permits \in Nat /\ Count(Req, pc, HasPermit) \in Nat
      /\ permits + Count(Req, pc, HasPermit) = Permits
  BY FiniteAssumption, CountType DEF PoolInv, RouteTyped
<1>5. CASE permits > 0
  <2>1. Goes(r, "stored", "acquired") /\ permits' = permits - 1 /\ UNCHANGED queue
    BY <1>5 DEF Acquire
  <2>2. Count(Req, pc', HasPermit) = Count(Req, pc, HasPermit) + 1
    BY <2>1, <1>2, GoesCounts DEF PoolInv
  <2>3. QueueInv'
    BY <2>1, GoesQueue DEF PoolInv
  <2>4. QED
    BY <1>1, <1>3, <1>4, <2>1, <2>2, <2>3 DEF PoolInv
<1>6. CASE ~ (permits > 0)
  <2>1. Goes(r, "stored", "queued") /\ queue' = Append(queue, r) /\ UNCHANGED permits
    BY <1>6 DEF Acquire
  <2>2. Count(Req, pc', HasPermit) = Count(Req, pc, HasPermit)
    BY <2>1, <1>2, GoesCounts DEF PoolInv
  <2>3. QueueInv'
    <3>1. /\ queue \in Seq(Req) /\ pc[r] = "stored"
          /\ pc' \in [Req -> {"idle", "reading", "stored", "queued", "cleaning"} \cup HasPermit]
          /\ pc'[r] = "queued" /\ Differ(Req, pc, pc', r)
      BY <1>1, <2>1 DEF PoolInv, RouteTyped, Goes, Differ
    <3>2. /\ Len(queue) \in Nat /\ Len(queue') = Len(queue) + 1
          /\ queue'[Len(queue) + 1] = r
          /\ \A i \in 1 .. Len(queue) : queue'[i] = queue[i] /\ queue[i] \in Req
      BY <2>1, <3>1
    <3>3. \A i \in 1 .. Len(queue) : queue[i] # r /\ pc'[queue[i]] = "queued"
      BY <3>1, <3>2 DEF PoolInv, QueueInv, Differ
    <3>4. \A i \in 1 .. Len(queue') : i \in 1 .. Len(queue) \/ i = Len(queue) + 1
      BY <3>2
    <3>5. \A i, k \in 1 .. Len(queue) : queue[i] = queue[k] => i = k
      BY DEF PoolInv, QueueInv
    <3>6. QED
      BY <3>1, <3>2, <3>3, <3>4, <3>5 DEF QueueInv
  <2>4. QED
    BY <1>1, <1>3, <1>4, <2>1, <2>2, <2>3 DEF PoolInv
<1>7. QED
  BY <1>5, <1>6

(* The extraction starts, and sees no more in flight than both pools allow. *)
LEMMA PoolBegin ==
    ASSUME PoolInv, NEW r \in Req, Begin(r)
    PROVE  PoolInv'
<1>1. PICK from \in {"acquired", "granted"} : Goes(r, from, "running")
  BY DEF Begin
<1>2. /\ from \in HasPermit \ Counted /\ "running" \in HasPermit \cap Counted
      /\ UNCHANGED <<sem, jpc, crashes, tmp>> /\ active' = active + 1
  BY <1>1 DEF HasPermit, Counted, Begin
<1>3. QueueInv' /\ permits' + Count(Req, pc', HasPermit) = Permits
  BY <1>1, <1>2, MovesOn
<1>4. active' = InFlight'
  <2>1. Count(Req, pc', Counted) = Count(Req, pc, Counted) + 1
    BY <1>1, <1>2, GoesCounts DEF PoolInv
  <2>2. Count(Req, pc, Counted) \in Nat /\ Count(JobTask, jpc, Working) \in Nat
    BY FiniteAssumption, CountType
  <2>3. QED
    BY <1>2, <2>1, <2>2 DEF PoolInv, InFlight
<1>5. active' \in Nat /\ active' <= Permits + Cardinality(JobTask)
  <2>1. permits' \in Nat
    BY <1>2 DEF PoolInv, RouteTyped, sem
  <2>2. QED
    BY <1>3, <1>4, <2>1, InFlightFits DEF InFlight
<1>6. inFlight' = [inFlight EXCEPT ![r] = active'] /\ child' = [child EXCEPT ![r] = "running"]
  BY DEF Begin
<1>7. RouteTyped'
  <2>1. pc' \in [Req -> Places]
    BY <1>1, MovesWithin DEF Places, HasPermit
  <2>2. inFlight' \in [Req -> Nat] /\ child' \in [Req -> {"none", "running", "orphan"}]
    BY <1>5, <1>6 DEF PoolInv, RouteTyped
  <2>3. QED
    BY <2>1, <2>2, <1>2, <1>5 DEF PoolInv, RouteTyped, Places, sem
<1>8. InFlightBounded'
  BY <1>5, <1>6 DEF PoolInv, RouteTyped, InFlightBounded
<1>9. GuardInv'
  BY <1>1, <1>2, <1>6 DEF PoolInv, RouteTyped, GuardInv, Goes
<1>10. QED
  BY <1>3, <1>4, <1>7, <1>8, <1>9 DEF PoolInv

(* It returns, or its client goes away.                                    *)
LEMMA PoolEnd ==
    ASSUME PoolInv, NEW r \in Req, Outcome(r) \/ LeaveRunning(r)
    PROVE  PoolInv'
<1>1. PICK to \in {"ended", "dropping"} : Goes(r, "running", to)
  BY DEF Outcome, LeaveRunning
<1>2. /\ to \in HasPermit \cap Counted /\ "running" \in HasPermit \cap Counted
      /\ UNCHANGED <<sem, active, inFlight, jpc, crashes, tmp>>
      /\ child' = [child EXCEPT ![r] = "none"]
  BY <1>1 DEF HasPermit, Counted, Outcome, LeaveRunning, tele
<1>3. QueueInv' /\ permits' + Count(Req, pc', HasPermit) = Permits
  BY <1>1, <1>2, MovesOn
<1>4. active' = InFlight'
  BY <1>1, <1>2, StaysCounted
<1>5. RouteTyped'
  <2>1. pc' \in [Req -> Places]
    BY <1>1, MovesWithin DEF Places, HasPermit
  <2>2. child' \in [Req -> {"none", "running", "orphan"}]
    BY <1>2 DEF PoolInv, RouteTyped
  <2>3. QED
    BY <2>1, <2>2, <1>2 DEF PoolInv, RouteTyped, Places, sem
<1>6. InFlightBounded' /\ GuardInv'
  BY <1>1, <1>2 DEF PoolInv, RouteTyped, InFlightBounded, GuardInv, Goes
<1>7. QED
  BY <1>3, <1>4, <1>5, <1>6 DEF PoolInv

(* The active guard is dropped: the counter was not zero.                  *)
LEMMA PoolDeactivate ==
    ASSUME PoolInv, NEW r \in Req, Deactivate(r)
    PROVE  PoolInv'
<1>1. PICK from \in {"ended", "dropping"}, to \in {"closing", "freeing"} : Goes(r, from, to)
  BY DEF Deactivate
<1>2. /\ from \in HasPermit \cap Counted /\ to \in HasPermit \ Counted
      /\ UNCHANGED <<sem, tmp, child, inFlight, jpc, crashes>> /\ active' = active - 1
  BY <1>1 DEF HasPermit, Counted, Deactivate
<1>3. QueueInv' /\ permits' + Count(Req, pc', HasPermit) = Permits
  BY <1>1, <1>2, MovesOn
<1>4. active' = InFlight' /\ active' \in Nat
  <2>1. Count(Req, pc', Counted) = Count(Req, pc, Counted) - 1
    BY <1>1, <1>2, GoesCounts DEF PoolInv
  <2>2. /\ Count(Req, pc, Counted) \in Nat /\ Count(Req, pc', Counted) \in Nat
        /\ Count(JobTask, jpc, Working) \in Nat
    BY FiniteAssumption, CountType
  <2>3. QED
    BY <1>2, <2>1, <2>2 DEF PoolInv, InFlight
<1>5. RouteTyped'
  <2>1. pc' \in [Req -> Places]
    BY <1>1, MovesWithin DEF Places, HasPermit
  <2>2. QED
    BY <2>1, <1>2, <1>4 DEF PoolInv, RouteTyped, Places, sem
<1>6. InFlightBounded' /\ GuardInv'
  BY <1>1, <1>2 DEF PoolInv, RouteTyped, InFlightBounded, GuardInv, Goes
<1>7. QED
  BY <1>3, <1>4, <1>5, <1>6 DEF PoolInv

(* The permit goes to the next one in the queue, if there is one.          *)
LEMMA PoolRelease ==
    ASSUME PoolInv, NEW r \in Req, Free(r) \/ LeaveGranted(r)
    PROVE  PoolInv'
<1>1. /\ pc[r] \in {"granted", "freeing"} /\ FreePermit(r, "cleaning")
      /\ UNCHANGED <<tmp, child, tele, jpc, crashes>>
  BY DEF Free, LeaveGranted
<1>2. /\ pc' \in [Req -> Places]
      /\ queue' \in Seq(Req) /\ permits' \in 0 .. Permits /\ QueueInv'
      /\ permits' + Count(Req, pc', HasPermit) = Permits
      /\ Count(Req, pc', Counted) = Count(Req, pc, Counted)
      /\ \A x \in Req : \/ pc'[x] = pc[x]
                        \/ (x = r /\ pc'[x] = "cleaning")
                        \/ (pc[x] = "queued" /\ pc'[x] = "granted")
  BY <1>1, ReleaseHandsOver DEF Places
<1>3. RouteTyped' /\ InFlightBounded' /\ active' = InFlight'
  BY <1>1, <1>2 DEF PoolInv, RouteTyped, Places, InFlightBounded, InFlight, tele
<1>4. GuardInv'
  BY <1>1, <1>2 DEF PoolInv, GuardInv
<1>5. QED
  BY <1>2, <1>3, <1>4 DEF PoolInv

(* A queued client goes away: the others keep their turn.                  *)
LEMMA PoolLeaveQueue ==
    ASSUME PoolInv, NEW r \in Req, LeaveQueue(r)
    PROVE  PoolInv'
<1>1. PICK i \in 1 .. Len(queue) : queue[i] = r /\ queue' = Without(queue, i)
  BY DEF LeaveQueue
<1>2. /\ Goes(r, "queued", "cleaning")
      /\ UNCHANGED <<permits, tmp, child, active, inFlight, jpc, crashes>>
  BY DEF LeaveQueue, tele
<1>3. /\ "queued" \notin HasPermit \cup Counted /\ "cleaning" \notin HasPermit \cup Counted
  BY DEF HasPermit, Counted
<1>4. /\ queue \in Seq(Req)
      /\ \A m \in 1 .. Len(queue) : pc[queue[m]] = "queued" /\ queue[m] \in Req
      /\ \A m, n \in 1 .. Len(queue) : queue[m] = queue[n] => m = n
  BY DEF PoolInv, RouteTyped, QueueInv
<1>5. /\ queue' \in Seq(Req) /\ Len(queue') = Len(queue) - 1
      /\ \A m \in 1 .. Len(queue) - 1 :
            \E n \in 1 .. Len(queue) : n # i /\ queue'[m] = queue[n]
      /\ \A m, n \in 1 .. Len(queue) - 1 : queue'[m] = queue'[n] => m = n
  <2> DEFINE w == Without(queue, i)
  <2>1. /\ w \in Seq(Req) /\ Len(w) = Len(queue) - 1
        /\ \A m \in 1 .. Len(queue) - 1 :
              \E n \in 1 .. Len(queue) : n # i /\ w[m] = queue[n]
        /\ \A m, n \in 1 .. Len(queue) - 1 : w[m] = w[n] => m = n
    BY <1>4, WithoutIsShorter
  <2> HIDE DEF w
  <2>2. queue' = w
    BY <1>1 DEF w
  <2>3. QED
    BY <2>1, <2>2
<1>6. QueueInv'
  <2>1. \A m \in 1 .. Len(queue') : pc'[queue'[m]] = "queued"
    <3> SUFFICES ASSUME NEW m \in 1 .. Len(queue) - 1 PROVE pc'[queue'[m]] = "queued"
      BY <1>5
    <3>1. PICK n \in 1 .. Len(queue) : n # i /\ queue'[m] = queue[n]
      BY <1>5
    <3>2. queue[n] # r
      BY <3>1, <1>1, <1>4
    <3>3. QED
      BY <3>1, <3>2, <1>2, <1>4 DEF Goes, PoolInv, RouteTyped
  <2>2. QED
    BY <2>1, <1>5 DEF QueueInv
<1>7. permits' + Count(Req, pc', HasPermit) = Permits
  <2>1. Count(Req, pc', HasPermit) = Count(Req, pc, HasPermit)
    BY <1>2, <1>3, GoesCounts DEF PoolInv
  <2>2. QED
    BY <1>2, <2>1 DEF PoolInv
<1>8. active' = InFlight'
  BY <1>2, <1>3, StaysCounted
<1>9. RouteTyped'
  <2>1. pc' \in [Req -> Places]
    BY <1>2, MovesWithin DEF Places
  <2>2. QED
    BY <2>1, <1>2, <1>5 DEF PoolInv, RouteTyped, Places
<1>10. InFlightBounded' /\ GuardInv'
  BY <1>2 DEF PoolInv, RouteTyped, InFlightBounded, GuardInv, Goes
<1>11. QED
  BY <1>6, <1>7, <1>8, <1>9, <1>10 DEF PoolInv

(* The job pool takes its part of the counter and gives it back.           *)
LEMMA PoolJobs ==
    ASSUME PoolInv, NEW t \in JobTask, JobBegin(t) \/ JobRecord(t) \/ JobDrop(t)
    PROVE  PoolInv'
<1>1. UNCHANGED <<pc, sem, tmp, child, inFlight, crashes>>
  BY DEF JobBegin, JobRecord, JobDrop, tele
<1>2. /\ jpc \in [JobTask -> {"idle", "extracting", "recorded"}]
      /\ active \in Nat /\ active = InFlight
  BY DEF PoolInv, RouteTyped
<1>3. /\ Count(Req, pc, Counted) \in Nat /\ Count(JobTask, jpc, Working) \in Nat
      /\ Count(JobTask, jpc', Working) \in Nat
  BY FiniteAssumption, CountType
<1>4. /\ active' = Count(Req, pc, Counted) + Count(JobTask, jpc', Working)
      /\ jpc' \in [JobTask -> {"idle", "extracting", "recorded"}]
  <2>1. CASE JobBegin(t)
    <3>1. /\ Differ(JobTask, jpc, jpc', t) /\ jpc[t] \notin Working /\ jpc'[t] \in Working
          /\ jpc' \in [JobTask -> {"idle", "extracting", "recorded"}]
      BY <2>1, <1>2 DEF JobBegin, Differ, Working
    <3>2. Count(JobTask, jpc', Working) = Count(JobTask, jpc, Working) + 1
      BY <3>1, FiniteAssumption, CountEnter
    <3>3. QED
      BY <2>1, <3>1, <3>2, <1>2, <1>3 DEF JobBegin, InFlight
  <2>2. CASE JobRecord(t)
    <3>1. /\ Differ(JobTask, jpc, jpc', t) /\ jpc[t] \in Working /\ jpc'[t] \in Working
          /\ jpc' \in [JobTask -> {"idle", "extracting", "recorded"}]
      BY <2>2, <1>2 DEF JobRecord, Differ, Working
    <3>2. Count(JobTask, jpc', Working) = Count(JobTask, jpc, Working)
      BY <3>1, CountStay
    <3>3. QED
      BY <2>2, <3>1, <3>2, <1>2, <1>3 DEF JobRecord, InFlight, tele
  <2>3. CASE JobDrop(t)
    <3>1. /\ Differ(JobTask, jpc, jpc', t) /\ jpc[t] \in Working /\ jpc'[t] \notin Working
          /\ jpc' \in [JobTask -> {"idle", "extracting", "recorded"}]
      BY <2>3, <1>2 DEF JobDrop, Differ, Working
    <3>2. Count(JobTask, jpc', Working) = Count(JobTask, jpc, Working) - 1
      BY <3>1, FiniteAssumption, CountLeave
    <3>3. QED
      BY <2>3, <3>1, <3>2, <1>2, <1>3 DEF JobDrop, InFlight
  <2>4. QED
    BY <2>1, <2>2, <2>3
<1>5. RouteTyped' /\ active' = InFlight'
  BY <1>1, <1>3, <1>4 DEF PoolInv, RouteTyped, InFlight, sem
<1>6. QueueInv' /\ GuardInv' /\ InFlightBounded'
  BY <1>1 DEF PoolInv, QueueInv, GuardInv, InFlightBounded, sem
<1>7. permits' + Count(Req, pc', HasPermit) = Permits
  BY <1>1 DEF PoolInv, sem
<1>8. QED
  BY <1>5, <1>6, <1>7 DEF PoolInv

(* Every step keeps the invariant.                                         *)
LEMMA PoolNext == PoolInv /\ [RouteNext]_routeVars => PoolInv'
<1> SUFFICES ASSUME PoolInv, [RouteNext]_routeVars PROVE PoolInv'
  OBVIOUS
<1>1. CASE UNCHANGED routeVars
  BY <1>1 DEF PoolInv, RouteTyped, QueueInv, GuardInv, InFlight, InFlightBounded, routeVars, sem, tele
<1>2. ASSUME NEW r \in Req, Arrive(r) \/ Handle(r) \/ Leave(r)
      PROVE  PoolInv'
  <2>1. CASE Arrive(r) \/ TurnAway(r) \/ Store(r) \/ Record(r) \/ Clean(r)
    BY <2>1, PoolOutside
  <2>2. CASE Acquire(r)
    BY <2>2, PoolAcquire
  <2>3. CASE Begin(r)
    BY <2>3, PoolBegin
  <2>4. CASE Outcome(r) \/ LeaveRunning(r)
    BY <2>4, PoolEnd
  <2>5. CASE Deactivate(r)
    BY <2>5, PoolDeactivate
  <2>6. CASE Free(r) \/ LeaveGranted(r)
    BY <2>6, PoolRelease
  <2>7. CASE LeaveQueue(r)
    BY <2>7, PoolLeaveQueue
  <2>8. QED
    BY <1>2, <2>1, <2>2, <2>3, <2>4, <2>5, <2>6, <2>7 DEF Handle, Return, Leave
<1>3. ASSUME NEW t \in JobTask, JobBegin(t) \/ JobRecord(t) \/ JobDrop(t)
      PROVE  PoolInv'
  BY <1>3, PoolJobs
<1>4. CASE ServerDies
  BY <1>4, PoolCrash
<1>5. QED
  BY <1>1, <1>2, <1>3, <1>4 DEF RouteNext

(* The inductive invariant of the route.                                   *)
THEOREM PoolInvariant == RouteSpec => []PoolInv
<1>1. QED
  BY PoolInit, PoolNext, PTL DEF RouteSpec

-----------------------------------------------------------------------------
(* No permit is ever lost or made up, whoever leaves when.                 *)
THEOREM PermitsAreConserved == RouteSpec => []PermitsConserved
<1>1. PoolInv => PermitsConserved
  BY DEF PoolInv, PermitsConserved, Holders, Count
<1>2. QED
  BY <1>1, PoolInvariant, PTL

(* The active counter is the number of extractions, after any cancellation,
   panic or crash, and so is never decremented below zero.                 *)
THEOREM ActiveCountIsExact == RouteSpec => []ActiveIsExact
<1>1. PoolInv => ActiveIsExact
  <2> SUFFICES ASSUME PoolInv PROVE ActiveIsExact
    OBVIOUS
  <2>1. {t \in JobTask : jpc[t] # "idle"} = {t \in JobTask : jpc[t] \in Working}
    BY DEF PoolInv, RouteTyped, Working
  <2>2. QED
    BY <2>1 DEF PoolInv, ActiveIsExact, InFlight, Count
<1>2. QED
  BY <1>1, PoolInvariant, PTL

(* What an extraction sees in flight is bounded by the two pools; children
   have a handler and their input; temporary files outlive a request only
   with a crash; and every variable has its type.                          *)
THEOREM RouteIsSafe == RouteSpec => [](RouteTyped /\ HoldingsSound)
<1>1. PoolInv => RouteTyped /\ HoldingsSound
  BY DEF PoolInv, GuardInv, HoldingsSound, ChildServed, TempOwned
<1>2. QED
  BY <1>1, PoolInvariant, PTL

-----------------------------------------------------------------------------
(* What the documentation says of the route: at most Permits children, and
   the rest wait.                                                          *)
Waiting == {"stored", "queued", "acquired", "granted"}

(* The child that starts is one of at most Permits.                        *)
LEMMA StartHasRoom ==
    ASSUME PoolInv, NEW r \in Req, Begin(r)
    PROVE  Cardinality({x \in Req : child[x] = "running"}) < Permits
<1>1. PICK from \in {"acquired", "granted"} : Goes(r, from, "running")
  BY DEF Begin
<1>2. Count(Req, pc', {"running"}) = Count(Req, pc, {"running"}) + 1
  BY <1>1, GoesCounts DEF PoolInv
<1>3. Count(Req, pc', {"running"}) <= Count(Req, pc', HasPermit)
  BY FiniteAssumption, CountMonotone DEF HasPermit
<1>4. permits' + Count(Req, pc', HasPermit) = Permits /\ permits' \in Nat
  BY PoolBegin DEF PoolInv, RouteTyped
<1>5. /\ Count(Req, pc', {"running"}) \in Nat /\ Count(Req, pc', HasPermit) \in Nat
      /\ Count(Req, pc, {"running"}) \in Nat
  BY FiniteAssumption, CountType
<1>6. {x \in Req : child[x] = "running"} = {x \in Req : pc[x] \in {"running"}}
  BY DEF PoolInv, GuardInv
<1>7. QED
  BY <1>2, <1>3, <1>4, <1>5, <1>6, PoolAssumption DEF Count

(* The route implements the bounded pool.                                  *)
THEOREM RouteImplementsPool == RouteSpec => ImplementsPool
<1> DEFINE W == {r \in Req : pc[r] \in {"stored", "queued", "acquired", "granted"}}
           B == {r \in Req : child[r] = "running"}
<1>1. RouteInit => W = {} /\ B = {}
  BY DEF RouteInit
<1>2. PoolInv /\ PoolInv' /\ [RouteNext]_routeVars => [Pool!Next]_<<W, B>>
  <2> SUFFICES ASSUME PoolInv, PoolInv', [RouteNext]_routeVars PROVE [Pool!Next]_<<W, B>>
    OBVIOUS
  <2>0. /\ pc \in [Req -> Places] /\ child \in [Req -> {"none", "running", "orphan"}]
        /\ \A x \in Req : child[x] = "running" <=> pc[x] = "running"
        /\ \A x \in Req : child'[x] = "running" <=> pc'[x] = "running"
    BY DEF PoolInv, RouteTyped, Places, GuardInv
  <2>1. ASSUME NEW r \in Req, Begin(r) PROVE Pool!Next
    <3>1. Cardinality(B) < Permits
      BY <2>1, StartHasRoom
    <3>2. r \in W /\ W' = W \ {r} /\ B' = B \cup {r}
      BY <2>0, <2>1 DEF Begin, Goes
    <3>3. Pool!Start(r)
      BY <3>1, <3>2 DEF Pool!Start, Pool!Cardinality, Cardinality
    <3>4. QED
      BY <3>3 DEF Pool!Next
  <2>2. ASSUME NEW r \in Req, Store(r) PROVE Pool!Next
    <3>1. r \notin W \cup B /\ W' = W \cup {r} /\ B' = B
      BY <2>0, <2>2 DEF Store, Goes
    <3>2. QED
      BY <3>1 DEF Pool!Next, Pool!Join
  <2>3. ASSUME NEW r \in Req, Outcome(r) \/ LeaveRunning(r) \/ LeaveQueue(r)
        PROVE  Pool!Next
    <3>1. r \in W \cup B /\ W' = W \ {r} /\ B' = B \ {r}
      BY <2>0, <2>3 DEF Outcome, LeaveRunning, LeaveQueue, Goes
    <3>2. QED
      BY <3>1 DEF Pool!Next, Pool!Leave
  <2>4. ASSUME NEW r \in Req, Free(r) \/ LeaveGranted(r) PROVE [Pool!Next]_<<W, B>>
    <3>1. /\ pc[r] \in {"granted", "freeing"} /\ pc'[r] = "cleaning" /\ child' = child
          /\ \A x \in Req : \/ pc'[x] = pc[x]
                            \/ (x = r /\ pc'[x] = "cleaning")
                            \/ (pc[x] = "queued" /\ pc'[x] = "granted")
      <4>1. pc[r] \in {"granted", "freeing"} /\ FreePermit(r, "cleaning") /\ child' = child
        BY <2>4 DEF Free, LeaveGranted
      <4>2. \A x \in Req : \/ pc'[x] = pc[x]
                           \/ (x = r /\ pc'[x] = "cleaning")
                           \/ (pc[x] = "queued" /\ pc'[x] = "granted")
        BY <4>1, ReleaseHandsOver
      <4>3. pc'[r] = "cleaning"
        <5>1. ASSUME queue # <<>> PROVE queue[1] # r /\ queue[1] \in Req
          <6>1. queue \in Seq(Req) /\ 1 \in 1 .. Len(queue)
            BY <5>1 DEF PoolInv, RouteTyped
          <6>2. pc[queue[1]] = "queued"
            BY <6>1 DEF PoolInv, QueueInv
          <6>3. QED
            BY <6>1, <6>2, <4>1
        <5>2. QED
          BY <5>1, <4>1, <2>0 DEF FreePermit, First
      <4>4. QED
        BY <4>1, <4>2, <4>3
    <3>2. B' = B /\ (pc[r] = "freeing" => W' = W)
      BY <3>1, <2>0
    <3>3. pc[r] = "granted" => r \in W \cup B /\ W' = W \ {r} /\ B' = B \ {r}
      BY <3>1, <2>0
    <3>4. QED
      BY <3>1, <3>2, <3>3 DEF Pool!Next, Pool!Leave
  <2>5. ASSUME NEW r \in Req, Arrive(r) \/ TurnAway(r) \/ Acquire(r) \/ Deactivate(r)
                              \/ Record(r) \/ Clean(r)
        PROVE  UNCHANGED <<W, B>>
    <3>1. PICK from, to : Goes(r, from, to) /\ (from \in Waiting <=> to \in Waiting)
                          /\ from # "running" /\ to # "running"
      BY <2>5 DEF Arrive, TurnAway, Acquire, Deactivate, Record, Clean, Goes, Waiting
    <3>2. QED
      BY <3>1, <2>0 DEF Goes, Waiting
  <2>6. ASSUME NEW t \in JobTask, JobBegin(t) \/ JobRecord(t) \/ JobDrop(t)
        PROVE  UNCHANGED <<W, B>>
    BY <2>6 DEF JobBegin, JobRecord, JobDrop
  <2>7. CASE ServerDies
    <3>1. W' = {} /\ B' = {}
      BY <2>7, <2>0 DEF ServerDies
    <3>2. QED
      BY <3>1 DEF Pool!Next, Pool!Reset
  <2>8. CASE UNCHANGED routeVars
    BY <2>8 DEF routeVars
  <2>9. QED
    BY <2>1, <2>2, <2>3, <2>4, <2>5, <2>6, <2>7, <2>8 DEF RouteNext, Handle, Return, Leave
<1>3. QED
  BY <1>1, <1>2, PoolInvariant, PTL DEF RouteSpec, ImplementsPool, Pool!Spec, Pool!Init

=============================================================================
