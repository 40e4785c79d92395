SPECIFICATION Spec
CONSTANTS
  s1 = s1 s2 = s2 o1 = o1 nse = nse bse = bse
  Sessions = {s1, s2}
  OrderIds = {o1}
  Instruments = {nse}
  Prices = {1}
  Stamps = {1}
  StartingCash = 2
  NoInstrument = NoInstrument
  NoCall = NoCall
  Intents <- OneOrder
  Assumptions <- ClosedOrDeep
  ReadLimit = 1000
INVARIANT ClosedOrdersStayClosed
