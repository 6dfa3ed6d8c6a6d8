\* Every delay of the exchange, over several epochs.
SPECIFICATION Spec
CONSTANTS
    HalfEpoch = 4
    ResponseTimeout = 1
    CycleTime = 1
    SampleCount = 2
    RunTime = 11
    Skews <- MCSkews
    NoSynchronization = NoSynchronization
INVARIANTS
    IInv
    SamplesAccurate
    NodeKnowsMasterTime
    MasterKnowsNodeTime
\* The clocks stop after RunTime.
CHECK_DEADLOCK FALSE
