SPECIFICATION TgSpec
CONSTANTS
  Thread = {th1, th2}
  Master = th1
  MaxPasses = 1
  MaxTasks = 1
  MaxGroups = 0
  Device = Device
  NoTask = NoTask
  NULL = NULL
  Addr = {x}
  FixedAccesses = 1
  Abis = {"patched"}
  Clauses <- DepClauses
  Attrs <- UntiedAttrs
INVARIANT OneCommand
