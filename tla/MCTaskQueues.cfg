\* All queues overflow; ESP-NOW may fail to report a send; one consumer was not begun.
SPECIFICATION MCSpec
CONSTANTS
  Destinations = {d1, d2}
  NoDestination = NoDestination
  NoOutcome = NoOutcome
  SendCapacity = 3
  CallbackCapacity = 1
  ResultCapacity = 2
  Faults = {"lostCallback"}
  Consumers <- MCConsumers
  Begun = {"Broadcast", "Ntp"}
  Other = "Other"
  Capacity = 3
  CountModulus = 8
  MaxArrivalsPerCycle = 4
  Anchors = {1, 2}
  Distances = {near}
  NoDistance = NoDistance
  Nodes = {1}
  Headings = {heading}
  Visible = 1
  IsTag = TRUE
  NoSnapshot = NoSnapshot
  MaxPerCycle = 1
INVARIANTS
  IInv
  ReceiveInv
  ListsFollowResults
  NothingUnpublished
PROPERTIES
  NoCallbackDropped
  SentInOrder
  AllSent
  DiscardsOnlyUnowned
  FullQueueDrains
  DisplayCatchesUp
