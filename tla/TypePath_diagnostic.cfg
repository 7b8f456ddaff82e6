SPECIFICATION Spec
CONSTANTS
  StructuredEnd <- StringEnd
  None = None
  Absent = Absent
  MaxRecursion = 2
  DataTypes <- MCDataTypes
  Items <- DiagnosticItems
  ChunkSizes = {100}
  Chunks = {1}
  Margins <- MCMargins
  Strays = {FALSE}
INVARIANT DiagnosticKept
