SPECIFICATION Spec
CONSTANTS
  StructuredEnd <- StringEnd
  Messages <- PairedFields
  Values <- MCValues
  CutSizes <- MCFullReceive
  None = None
INVARIANT ChangesSent
