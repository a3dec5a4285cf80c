SPECIFICATION Spec
CONSTANTS
    Job = {j1, j2}
    NoJob = NoJob
    Server = {s1}
    Slot = {a, b}
    TTL = 1
    Half = 8
    MaxTime = 2
    MaxStops = 2
    MaxFaults = 1
SYMMETRY Symmetry
INVARIANTS
    TypeOK
    ClaimExclusive
    RunningHasOwner
    InputHeld
    ResultHeld
    BoundedReruns
    UploadOwned
PROPERTIES
    DeletesAreDue
    ImplementsLifecycle
