CONSTANTS
  Graph <- FourNodes
  Programs <- FourNodeFunctions
  MidStarts = 1
  PathsSize = 4
  LoopsSize = 2
SPECIFICATION Spec
INVARIANTS PathsTypeOK PathsSound
