CONSTANTS
  Programs <- FlagPrograms
  CodeSize = 7
  SlotCount = 8
  LogSize = 24
  UsedSize = 7
  MidCount = 4
  InstsOf <- LogInsts
  BackLimit = 6
  Garbage <- Registers
SPECIFICATION FlagsSpec
INVARIANTS LinksPaired BranchesTestTheirSetter
