SPECIFICATION Spec
CONSTANTS
  s1 = s1 s2 = s2
  Sessions = {s1, s2}
  Versions = {"v1"}
  Limits = {"tight", "loose"}
  MaxClock = 1
  MinTick = 0
  ChangeId <- InactiveAboveActive
  Absent = Absent
  NoCall = NoCall
CHECK_DEADLOCK FALSE
INVARIANTS
  TypeOK
  SnapshotsAgreeOnPolicies
  EnsuredControlsExist
  InitializationNeverDisarms
PROPERTY SnapshotsOnlyAdvance
