CONSTANTS
  Graph <- Graphs
  Programs <- Wide
  MidStarts = 8
  PathsSize = 30
  LoopsSize = 4
  Codes <- WideCodes
  Registers <- RegisterNumbers
  ParamOrder <- ParamRegisters
SPECIFICATION TipSpec
INVARIANTS ReadsRight PhiSourcesReach SizesAgree CallsPass
