SPECIFICATION Spec
CONSTANTS
  StructuredEnd <- StringEnd
  Datagrams <- AllDatagrams
  Decoded <- MCDecoded
  Shows <- MCShows
  MaxArrivals = 3
INVARIANT ContentShown
CHECK_DEADLOCK FALSE
