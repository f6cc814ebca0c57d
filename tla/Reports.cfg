\* Sinks of a graph, two bodies side by side or one after the other.
SPECIFICATION Spec
CONSTANTS
  a1 = a1
  a2 = a2
  Assets <- MCAssets
  StrategyAssets <- MCAssets
  Threads <- MCThreads
  Graphs <- MCGraphs
  Feeds <- MCFeeds
  MaxTransforms = 2
  MaxBodies = 2
INVARIANTS
  LocksCoverAccesses
  SomebodyProceeds
  EveryRunIsReported
\* Nobody has to call the pipeline again, and a crash is the end.
CHECK_DEADLOCK FALSE
