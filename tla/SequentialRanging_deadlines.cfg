\* Two rounds that deadlines may cut short, each with any set of ANCHORs.
SPECIFICATION FairSpec
CONSTANTS
  Anchors = {1, 2}
  Tags = {3}
  MasterTags = {3}
  AnchorLists <- AnyAnchors
  TagLists <- OneTag
  NoSession = NoSession
  NoResult = NoResult
  MaxEpoch = 1
  RoundBound = 2
  SequenceModulus = 64
  HighCapacity = 4
  LowCapacity = 80
  InboxCapacity = 16
  Faults = {"deadline", "loss"}
INVARIANTS
  IInv
  MeasurementsFromTheirRound
  RouteAgreement
PROPERTIES
  RoundsAdvance
  RoundTerminates
  RouteTerminates
CHECK_DEADLOCK FALSE
