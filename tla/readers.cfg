SPECIFICATION RSpec
CONSTANTS
    Job = {j1}
    NoJob = NoJob
    Server = {s1}
    Slot = {a}
    TTL = 1
    Half = 8
    MaxTime = 3
    MaxStops = 2
    MaxFaults = 1
INVARIANTS
    ReadsSound
PROPERTIES
    AnswersAdvance
