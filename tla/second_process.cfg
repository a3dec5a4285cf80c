SPECIFICATION Spec
CONSTANTS
    Job = {j1}
    NoJob = NoJob
    Server = {s1, s2}
    Slot = {a}
    TTL = 0
    Half = 4
    MaxTime = 1
    MaxStops = 2
    MaxFaults = 1
PROPERTIES
    RecoversOnlyOrphans
