---------------------------- MODULE BoundedPool ----------------------------
(***************************************************************************)
(* What the documentation promises of synchronous extractions (book,       *)
(* http-api.md, "Concurrency behavior"): at most N of them have a child    *)
(* process, the others wait, and whoever waits may leave.                  *)
(***************************************************************************)
EXTENDS Naturals, FiniteSets

CONSTANTS Req, N

VARIABLES waiting, busy

Init == waiting = {} /\ busy = {}

Join(r) ==
    /\ r \notin waiting \cup busy
    /\ waiting' = waiting \cup {r}
    /\ UNCHANGED busy

Start(r) ==
    /\ r \in waiting
    /\ Cardinality(busy) < N
    /\ waiting' = waiting \ {r}
    /\ busy' = busy \cup {r}

Leave(r) ==
    /\ r \in waiting \cup busy
    /\ waiting' = waiting \ {r}
    /\ busy' = busy \ {r}

\* The server dies; its clients' connections with it.
Reset == waiting' = {} /\ busy' = {}

Next == Reset \/ \E r \in Req : Join(r) \/ Start(r) \/ Leave(r)

Spec == Init /\ [][Next]_<<waiting, busy>>

=============================================================================
