SPECIFICATION FairSpec
CONSTANTS
  Thread = {th1, th2}
  MaxTasks = 2
  MaxGroups = 1
  Device = Device
  NoTask = NoTask
  NULL = NULL
  Addr = {x}
  FixedAccesses = 1
  Abis = {"patched"}
  Clauses <- MtxClause
  Attrs <- LiveAttrs
PROPERTY CommittedCompletes RegionEnds
