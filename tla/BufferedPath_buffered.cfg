SPECIFICATION Spec
CONSTANTS
  StructuredEnd <- StringEnd
  Messages <- MCFrozen
  Values <- MCValues
  CutSizes <- MCCutSizes
  None = None
INVARIANTS
  TypeOK
  UpdatedIsEncoded
  UpdatedIsDecoded
  TornInOnePlace
  WithinFields
