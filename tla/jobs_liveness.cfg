SPECIFICATION FairSpec
CONSTANTS
    Job = {j1, j2}
    NoJob = NoJob
    Server = {s1}
    Slot = {a}
    TTL = 0
    Half = 4
    MaxTime = 1
    MaxStops = 2
    MaxFaults = 1
PROPERTIES
    AcceptedTerminates
    ExpiredSwept
