SPECIFICATION Spec
CONSTANTS
  s1 = s1 s2 = s2 o1 = o1 nse = nse bse = bse
  Sessions = {s1}
  OrderIds = {o1}
  Instruments = {nse}
  Prices = {1}
  Stamps = {1, 2}
  StartingCash = 2
  NoInstrument = NoInstrument
  NoCall = NoCall
  Intents <- TwoLots
  Assumptions <- BeyondThinOrDeep
  ReadLimit = 1000
INVARIANTS
  OneProposalPerOrder
  StreamsStayReadable
  ClosedOrdersStayClosed
