\* Two TAGs and one or two ANCHORs; packets repeated and lost, also by short queues.
SPECIFICATION MCSpec
CONSTANTS
  Anchors = {1, 2}
  Tags = {3, 4}
  MasterTags = {3}
  AnchorLists <- MCAnchorLists
  TagLists <- BothTags
  NoSession = NoSession
  NoResult = NoResult
  MaxEpoch = 1
  RoundBound = 2
  SequenceModulus = 64
  HighCapacity = 2
  LowCapacity = 2
  InboxCapacity = 2
  Faults = {"duplicate", "loss", "startFailure"}
INVARIANTS
  AtMostOneRanging
  PublishedOnce
  SummariesAgree
  FollowersTrailMaster
PROPERTIES
  RangingAdvances
CHECK_DEADLOCK FALSE
