SPECIFICATION FairSpec
CONSTANTS
  StructuredEnd <- StringEnd
  Datagrams <- AllDatagrams
  Decoded <- MCDecoded
  Shows <- MCShows
  MaxArrivals = 3
INVARIANTS
  TypeOK
  NoLeak
  CrashIffUnreadable
  OneAfterStop
  ReturnsForAReason
PROPERTIES
  ImplementsViewer
  StopEnds
CHECK_DEADLOCK FALSE
