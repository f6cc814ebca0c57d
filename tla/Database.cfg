SPECIFICATION Spec
CONSTANTS
  Assets <- MCAssets
  Feeds <- MCFeeds
  MarketHours = {"Stocks"}
  Continuation <- MCContinuation
  Stored <- MCStored
  Stream <- MCStream
  BucketLength = 2
  MaxLoads = 2
  MaxRefreshes = 2
INVARIANTS
  EveryRowIsHandled
  NoForeignRows
  ResampledIsNotBehind
  NothingLost
\* The calls and the batches are bounded, and a crash is the end.
CHECK_DEADLOCK FALSE
