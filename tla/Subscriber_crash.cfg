SPECIFICATION Spec
CONSTANTS
  StructuredEnd <- StringEnd
  Datagrams <- AllDatagrams
  Decoded <- MCDecoded
  Shows <- MCShows
  MaxArrivals = 3
INVARIANT NeverCrashes
CHECK_DEADLOCK FALSE
