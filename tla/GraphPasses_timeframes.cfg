\* The scripts of GraphPasses.cfg, against what the documentation says of timeframes.
SPECIFICATION Spec
CONSTANTS
  Ids <- MCIds
  Types <- MCTypes
  Scripts <- MCScripts
  Sinks <- MCSinks
  Scalars <- MCScalars
  CseScalars <- MCScalars
  Executors <- MCExecutors
  SessionType = "sessions"
  SessionIds <- MCSessionIds
  Sessions <- MCSessions
  MaxTimeframe = 2
  Hash <- MCHash
INVARIANT
  InheritedFromInputsOnly
\* The compilation ends.
CHECK_DEADLOCK FALSE
