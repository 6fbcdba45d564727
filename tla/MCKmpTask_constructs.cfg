SPECIFICATION Spec
CONSTANTS
  Thread = {th1, th2}
  MaxTasks = 2
  MaxGroups = 0
  Device = Device
  NoTask = NoTask
  NULL = NULL
  Addr = {x, y}
  FixedAccesses = 2
  Abis = {"patched", "stock"}
  Clauses <- ConstructClauses
  Attrs <- EveryAttr
SYMMETRY ThreadSymmetry
INVARIANT TypeOK SlotsConstructed WaitsForLater ToolSeesOrder
PROPERTY ImplementsTasking
