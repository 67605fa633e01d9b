CONSTANTS
  Graph <- NestedGraphs
  Programs <- NestedOnly
  MidStarts = 8
  PathsSize = 30
  LoopsSize = 4
  Codes <- NestedCodes
  Registers <- RegisterNumbers
  ParamOrder <- ParamRegisters
SPECIFICATION TipSpec
INVARIANT PathsAgree
