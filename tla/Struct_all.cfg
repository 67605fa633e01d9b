CONSTANTS
  Graph <- AllGraphs
  Programs <- AllFunctions
  MidStarts = 8
  PathsSize = 30
  LoopsSize = 4
  TailsMax = 5
SPECIFICATION StructSpec
INVARIANTS PathsComplete LoopsNatural DominatorsImmediate ExitsLeave TailsRight GivesUpLate
PROPERTY StructTerminates
