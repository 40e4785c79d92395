SPECIFICATION GSpec
CONSTANTS
  s1 = s1 s2 = s2 v1 = v1 v2 = v2
  Sessions = {s1, s2}
  ALPHA = ALPHA BROKER = BROKER LONG = LONG SPARSE = SPARSE
  Datasets = {ALPHA, BROKER, LONG, SPARSE}
  Instruments = {ALPHA, BROKER, LONG, SPARSE}
  About <- Declared
  Requests <- AllRequests
  Versions = {v1, v2}
  Pinned = 0
  MaxPoints = 20
  RecentLimit = 1
  LegacyBatches <- OldBatch
  MaxCalls = 3
  Absent = Absent
  RobustnessDataset = ALPHA
  Categories = {"CALENDAR"}
  Grid <- GridOfTwo
  RequiredHistory <- History
  RobustnessAt = 1
  ReadLimit = 2
  MaxAge = 1
CHECK_DEADLOCK FALSE
SYMMETRY Alike
INVARIANTS
  GTypeOK
  BatchesStandOnManifests
  HandedOutIsRetained
  CompleteIsBacked
  ManifestIsCoherent
PROPERTY EvidenceIsImmutable
