\* Two TAGs that both consider themselves master; nodes restart, lose their master and change it.
SPECIFICATION Spec
CONSTANTS
  Anchors = {1}
  Tags = {3, 4}
  MasterTags = {3, 4}
  AnchorLists <- OneAnchor
  TagLists <- AnyTags
  NoSession = NoSession
  NoResult = NoResult
  MaxEpoch = 1
  RoundBound = 1
  SequenceModulus = 64
  HighCapacity = 1
  LowCapacity = 1
  InboxCapacity = 2
  Faults = {"masterLost", "restart", "resync"}
INVARIANTS
  QueuedForCurrentSession
PROPERTIES
  RangesOnlyWhenSynchronized
CHECK_DEADLOCK FALSE
