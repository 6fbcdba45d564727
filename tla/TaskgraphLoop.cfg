SPECIFICATION FairSpec
CONSTANTS
  OneUnroll = TRUE
  MaxTrips = 5
  MaxUnroll = 3
  MaxCalls = 3
INVARIANT TypeOK ExactTrips Overshoot
PROPERTY LoopReturns
