SPECIFICATION Spec
CONSTANTS
    Job = {j1}
    NoJob = NoJob
    Server = {s1}
    Slot = {a}
    TTL = 0
    Half = 4
    MaxTime = 2
    MaxStops = 0
    MaxFaults = 1
INVARIANTS
    NoOrphanResult
