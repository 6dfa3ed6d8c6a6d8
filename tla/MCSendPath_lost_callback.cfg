\* A lost callback and the wait for it.
SPECIFICATION FairSpec
CONSTANTS
  Destinations = {d1, d2}
  NoDestination = NoDestination
  NoOutcome = NoOutcome
  SendCapacity = 3
  CallbackCapacity = 1
  ResultCapacity = 2
  Faults = {"lostCallback"}
PROPERTIES
  SendWaitEnds
