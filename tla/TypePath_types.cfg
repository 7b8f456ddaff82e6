SPECIFICATION Spec
CONSTANTS
  StructuredEnd <- StringEnd
  None = None
  Absent = Absent
  MaxRecursion = 2
  DataTypes <- MCDataTypes
  Items <- MCItems
  ChunkSizes <- MCChunkSizes
  Chunks = {0, 1, 3, 100}
  Margins <- MCMargins
  Strays = {FALSE, TRUE}
INVARIANTS TypeOK SizeExact ChunksAreEncoding RetrySafe RoundTrip CutRefused
