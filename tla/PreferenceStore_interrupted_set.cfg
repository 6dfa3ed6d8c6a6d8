\* U8 and bool, which NVS stores as the same type.
SPECIFICATION Spec
CONSTANTS
  Types = {"Bool", "U8"}
  Storage <- Everywhere
  Values <- SomeValues
  Default <- Anchor
  Accepted <- RunModes
  Nothing = Nothing
  NoType = NoType
INVARIANTS
  ReadsWhatWasSet
