\* Two runs over one graph in which two transforms may throw.
SPECIFICATION FairSpec
CONSTANTS
  a1 = a1
  a2 = a2
  Nodes <- MCNodes
  Assets <- MCAssets
  Timeframes <- MCTimeframes
  Intraday <- MCIntraday
  Def <- MCDef
  Orders <- MCOrders
  Faulty = {"sig", "mkt"}
  StrategyAssets <- OnlyA1
  Feeds <- MCFeeds
  MaxRuns = 2
INVARIANTS
  TypeOK
  ProducersFirst
  FreshInputs
  ReturnedComplete
  FailureHasCause
  AcceptedOrders
PROPERTIES
  Implements
  Terminates
\* The orchestrator stops when nobody calls it again.
CHECK_DEADLOCK FALSE
