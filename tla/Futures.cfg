SPECIFICATION Spec
CONSTANTS
  Times <- MCTimes
  MaxContracts = 3
  Setups <- MCSetups
  Expiry <- MCExpiry
  MonthStart <- MCMonthStart
  Price <- MCPrice
  OpenInterest <- MCOpenInterest
  Junk <- MCJunk
INVARIANTS
  RollsMarkTheSwitches
  AlignedWithoutGaps
  SeriesAddsTheGaps
\* BuildBars returns.
CHECK_DEADLOCK FALSE
