SPECIFICATION CheckedSpec
CONSTANTS
  WordBits = 8  HalfBits = 4
  SP0 = 128  BP0 = 192  IP0 = 64  TextSize = 60  DataSize = 32  NarrowBytes = 4
  Data <- Bytes  Helper <- HelperRows  Meaning <- Meanings  Insts <- FrameInsts
  MaxInsts = 5  MaxSlots = 2
INVARIANTS BasesExact
CHECK_DEADLOCK FALSE
