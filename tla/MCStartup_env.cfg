SPECIFICATION Spec
CONSTANTS
  InitialThread = InitialThread
  Workers = {w1}
  Outsiders = {o1}
  Process <- PlainProcess
  Changes <- OneChange
  Unset = Unset
  Empty = Empty
  Junk = Junk
  Cores = 4
  IntMax = 7
  Tried = {}
  MaxTried = 0
  DeviceCounts = {1, 2, 3}
  MaxCalls = 3
INVARIANT EnvOfStart
