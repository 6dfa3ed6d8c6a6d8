\* A round closes with measurements missing and no deadline passed.
SPECIFICATION Spec
CONSTANTS
  Anchors = {1, 2}
  Tags = {3}
  MasterTags = {3}
  AnchorLists <- BothAnchors
  TagLists <- OneTag
  NoSession = NoSession
  NoResult = NoResult
  MaxEpoch = 1
  RoundBound = 1
  SequenceModulus = 64
  HighCapacity = 4
  LowCapacity = 80
  InboxCapacity = 16
  Faults = {"loss"}
PROPERTIES
  CompleteRoundsOnly
CHECK_DEADLOCK FALSE
