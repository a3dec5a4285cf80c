---------------------------- MODULE JobLifecycle ----------------------------
(***************************************************************************)
(* The life of an asynchronous job as a client of docray-server sees it    *)
(* through POST /v1/jobs, GET /v1/jobs/{id} and GET /v1/jobs/{id}/result:  *)
(* what the job table, the workers, the sweeper and the restarts of the    *)
(* server implement together (JobSystem).                                  *)
(***************************************************************************)
CONSTANTS Job

VARIABLE phase      \* per job: "none" before it is accepted, "gone" once swept

Outcome == {"succeeded", "failed"}

Init == phase = [j \in Job |-> "none"]

\* 202 with the job's id.
Accept(j) == phase[j] = "none" /\ phase' = [phase EXCEPT ![j] = "queued"]

Start(j) == phase[j] = "queued" /\ phase' = [phase EXCEPT ![j] = "running"]

\* An outcome, from the run it belongs to and never after another outcome.
Finish(j) ==
    /\ phase[j] = "running"
    /\ \E o \in Outcome : phase' = [phase EXCEPT ![j] = o]

\* A restart: everything that was running is queued again, all at once.
Restart ==
    phase' = [j \in Job |-> IF phase[j] = "running" THEN "queued" ELSE phase[j]]

\* The retention period of some finished jobs is over.
Forget(S) ==
    /\ \A j \in S : phase[j] \in Outcome
    /\ phase' = [j \in Job |-> IF j \in S THEN "gone" ELSE phase[j]]

Next ==
    \/ \E j \in Job : Accept(j) \/ Start(j) \/ Finish(j)
    \/ Restart
    \/ \E S \in SUBSET Job : Forget(S)

Spec == Init /\ [][Next]_phase

=============================================================================
