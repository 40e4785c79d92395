SPECIFICATION SourcesSpec
CONSTANTS
  s1 = s1 s2 = s2 old = old new = new nse = nse
  Sessions = {s1, s2}
  Masters = {old, new}
  Instruments = {nse}
  Listed <- TwoMasters
  MaxAttempts = 2
  MaxAge = 1
  MaxNow = 3
  PerSecond = 2
  Absent = Absent
  Scripts = {s1, s2}
  b1 = b1
  Browsers = {b1}
  jwt1 = jwt1 jwt2 = jwt2
  Tokens = {jwt1, jwt2}
  Environment = env
  NoToken = NoToken
  Responses = {ohlcv}
  MaxCalls = 4
  Symbols = {sym1, sym2}
  DisplayNames = {name1, name2}
  Contracts = {con1, con2}
  NotListed = NotListed
SYMMETRY Alike
INVARIANTS
  SourcesTypeOK
  ChecksAreBacked
  AnswersAreServed
  CandlesAreGrounded
