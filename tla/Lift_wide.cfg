SPECIFICATION CheckedSpec
CONSTANTS
  WordBits = 8  HalfBits = 4
  SP0 = 128  BP0 = 192  IP0 = 64  TextSize = 60  DataSize = 32  NarrowBytes = 4
  Data <- Bytes  Helper <- HelperRows  Meaning <- Meanings  Insts <- WideInsts
  MaxInsts = 3  MaxSlots = 1
INVARIANTS LiftTypeOK RegistersExact CellsExact EntriesUnique StoresBounded ScopesKnown
CHECK_DEADLOCK FALSE
