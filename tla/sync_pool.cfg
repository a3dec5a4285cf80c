SPECIFICATION FairRoute
CONSTANTS
    Req = {r1, r2, r3}
    JobTask = {t1}
    Permits = 1
    MaxCrashes = 1
INVARIANTS
    PermitsConserved
    ActiveIsExact
    HoldingsSound
PROPERTIES
    QueuedRuns
    ImplementsPool
