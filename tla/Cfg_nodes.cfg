CONSTANTS
  Programs <- CfgPrograms
  CodeSize = 7
  SlotCount = 6
  LogSize = 20
  UsedSize = 7
  MidCount = 3
SPECIFICATION CfgSpec
INVARIANTS CfgTypeOK
PROPERTIES NodesPartitionLog LinksFollowLog StartRight FunctionsPartition CfgTerminates MembersImplementWorklist
