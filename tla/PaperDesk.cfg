SPECIFICATION DeskSpec
CONSTANTS
  s1 = s1 s2 = s2 nse = nse
  Sessions = {s1, s2}
  OrderIds = {1, 2, 3, 4, 5, 6, 7, 8}
  Instruments = {nse}
  Prices = {1}
  Stamps = {1}
  StartingCash = 1
  NoInstrument = NoInstrument
  NoCall = NoCall
  Intents <- BuyThenSell
  Assumptions <- DeepOnly
  ReadLimit = 1000
  SessionLimits = {1, 2}
  MaxOpenPositions = 2
  MaxRuns = 3
CHECK_DEADLOCK FALSE
SYMMETRY Alike
INVARIANTS
  DeskTypeOK
  KillSwitchBites
  OvershootIsBounded
  PositionsStayLong
