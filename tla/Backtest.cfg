SPECIFICATION SSpec
CONSTANTS
  Candles <- RisingFallingFlat
  Lengths = {6, 7, 8, 10, 11}
  Specs <- AllSpecs
  RequiredHistory = 6
  YearSpan = 2
  Basis = 2
  Unit = 60
  Revisions <- OnePerStrategy
  Scenario <- Runs
  Ample <- AmpleSpec
  None = None
CHECK_DEADLOCK FALSE
INVARIANTS
  TypeOK
  CashMatchesTrades
  FillsFollowSignals
  TradesDoNotOverlap
  NeverOverdrawn
  PositionsFollowTheRule
