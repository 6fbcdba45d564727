SPECIFICATION Spec
CONSTANTS
  InitialThread = InitialThread
  Workers = {w1}
  Outsiders = {o1}
  Process <- Processes
  Changes <- OneChange
  Unset = Unset
  Empty = Empty
  Junk = Junk
  Cores = 4
  IntMax = 7
  Tried <- EveryEvent
  MaxTried = 1
  DeviceCounts = {1, 3}
  MaxCalls = 3
INVARIANT TypeOK AnswersHold ThreadCountsAgree DeviceNumbers OneLibrary FinalizedOnce
