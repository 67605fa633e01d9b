CONSTANTS
  Programs <- ExplorePrograms
  CodeSize = 5
  SlotCount = 6
  LogSize = 24
  UsedSize = 5
SPECIFICATION Spec
INVARIANTS TypeOK EdgesPaired DecodedOnce EdgesReal EdgesComplete SlotsSuffice
PROPERTIES Terminates ImplementsWorklist
