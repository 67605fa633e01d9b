CONSTANTS
  Graph <- ReturningGraphs
  Programs <- ReturningFunctions
  MidStarts = 8
  PathsSize = 30
  LoopsSize = 4
SPECIFICATION Spec
INVARIANTS PathsComplete MergeKeepsWays
PROPERTY PathsTerminate
