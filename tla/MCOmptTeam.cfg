SPECIFICATION OFairSpec
CONSTANTS
  InitialThread = InitialThread
  NumThreads <- ClampedClauses
  OMP_NUM_THREADS = 0
  OMP_THREAD_LIMIT = 2
  DefaultSize = 3
  MaxCachedTeams = 2
  Barriers = 1
  MaxRegions = 3
  MaxDepth = 2
  Finalizing <- EitherSide
INVARIANT TypeOK ArgsLive ClauseOfItsOwn TeamsFit EventsNest ToolSeesNesting NothingOpenAtEnd
PROPERTY ImplementsForkJoin RegionsJoin
