SPECIFICATION FairSpec
CONSTANTS
  r1 = r1
  r2 = r2
  Requests = {r1, r2}
  Workers = 1
  MaxDrops = 1
  MaxRestarts = 1
  MaxHostWrites = 1
INVARIANT TypeOK
INVARIANT FuturesMatchCalls
INVARIANT OkMeansShownUnlessCut
PROPERTY CallsAreAtomic
PROPERTY EveryCallReturns
PROPERTY PoolDrains
CHECK_DEADLOCK FALSE
