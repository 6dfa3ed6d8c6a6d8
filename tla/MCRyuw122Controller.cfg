\* Two TAGs; answers up to the last moment of the drain; the clock wraps.
SPECIFICATION FairSpec
CONSTANTS
  Tags = {t1, t2}
  NoTag = NoTag
  NoResult = NoResult
  Timeout = 2
  DrainTime = 2
  AnswerTime = 3
  CycleTime = 2
  ClockModulus = 6
  FifoCapacity = 4
INVARIANTS
  IInv
PROPERTIES
  OneOwnResultPerCommand
  EveryCommandEnds
