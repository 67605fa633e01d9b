CONSTANTS
  Graph <- JoinGraphs
  Programs <- JoinOnly
  MidStarts = 8
  PathsSize = 30
  LoopsSize = 4
  Codes <- NestedCodes
  Registers <- RegisterNumbers
  ParamOrder <- ParamRegisters
SPECIFICATION TipSpec
INVARIANT ParamsEntered
