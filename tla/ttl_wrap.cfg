SPECIFICATION Spec
CONSTANTS
    Job = {j1}
    NoJob = NoJob
    Server = {s1}
    Slot = {a}
    TTL = 15
    Half = 8
    MaxTime = 2
    MaxStops = 0
    MaxFaults = 0
PROPERTIES
    FinishedKept
