\* Power may go and calls of NVS may fail at any point; NVS tells the types apart
\* by its own type or, Float and Double, by the length of the value.
SPECIFICATION Spec
CONSTANTS
  Types = {"U8", "U16", "Float", "Double"}
  Storage <- Everywhere
  Values <- SomeValues
  Default <- Anchor
  Accepted <- RunModes
  Nothing = Nothing
  NoType = NoType
INVARIANTS
  IInv
  AcknowledgedSurvives
  ReadsWhatWasSet
PROPERTIES
  BootKeepsSettings
  BootUsesSetting
