SPECIFICATION Spec
CONSTANTS
  StructuredEnd <- StringEnd
  Messages <- MCMessages
  Shortfalls <- MCAllShortfalls
  ReceiveSizes <- MCAllReceives
  None = None
INVARIANTS
  TypeOK
  RoundTrip
  TruncationDetected
  OnlySignatureLeaks
  SizeExact
PROPERTY ImplementsService
