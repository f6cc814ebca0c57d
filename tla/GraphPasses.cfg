\* Every small script and some longer ones, strict and permissive.
SPECIFICATION FairSpec
CONSTANTS
  Ids <- MCIds
  Types <- MCTypes
  Scripts <- MCScripts
  Sinks <- MCSinks
  Scalars <- MCScalars
  CseScalars <- MCScalars
  Executors <- MCExecutors
  SessionType = "sessions"
  SessionIds <- MCSessionIds
  Sessions <- MCSessions
  MaxTimeframe = 2
  Hash <- MCHash
INVARIANTS
  SinksKeepTheirMeaning
  OrchestratorAccepts
  NothingUnused
  TimeframesFollowTheScript
  RejectedHasCause
PROPERTY
  Terminates
\* The compilation ends.
CHECK_DEADLOCK FALSE
