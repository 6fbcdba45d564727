SPECIFICATION Spec
CONSTANTS
  Thread = {th1, th2}
  MaxTasks = 2
  MaxGroups = 0
  Device = Device
  NoTask = NoTask
  NULL = NULL
  Addr = {x}
  FixedAccesses = 1
  Abis = {"stock"}
  Clauses <- WriteThenAll
  Attrs <- HostAttrs
INVARIANT AllMemoryOrders
