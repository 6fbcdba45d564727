SPECIFICATION Spec
CONSTANTS
  Thread = {th1, th2}
  MaxTasks = 3
  MaxGroups = 2
  Device = Device
  NoTask = NoTask
  NULL = NULL
  Addr = {x}
  FixedAccesses = 1
  Abis = {"patched"}
  Clauses <- NoClauses
  Attrs <- HostAttrs
SYMMETRY ThreadSymmetry
INVARIANT TaskgroupDeep WaitsForLater
