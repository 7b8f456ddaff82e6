SPECIFICATION Spec
CONSTANTS
  StructuredEnd <- StringEnd
  Messages <- Shapes
  Shortfalls <- MCNoShortfall
  ReceiveSizes <- MCAllReceives
  None = None
INVARIANT ClearReadsWritten
