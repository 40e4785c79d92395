SPECIFICATION DeskSpec
CONSTANTS
  s1 = s1 s2 = s2 nse = nse
  Sessions = {s1}
  OrderIds = {1, 2, 3, 4, 5, 6, 7, 8, 9, 10, 11}
  Instruments = {nse}
  Prices = {1}
  Stamps = {1}
  StartingCash = 2
  NoInstrument = NoInstrument
  NoCall = NoCall
  Intents <- BuyThenSell
  Assumptions <- DeepOnly
  ReadLimit = 4
  SessionLimits = {3}
  MaxOpenPositions = 2
  MaxRuns = 3
CHECK_DEADLOCK FALSE
INVARIANT FiguresAreOfTheLedger
