\* Clocks that are half an epoch apart.
SPECIFICATION Spec
CONSTANTS
    HalfEpoch = 4
    ResponseTimeout = 1
    CycleTime = 1
    SampleCount = 2
    RunTime = 10
    Skews <- MCHalfSkews
    NoSynchronization = NoSynchronization
INVARIANTS
    SamplesAccurate
\* The clocks stop after RunTime.
CHECK_DEADLOCK FALSE
