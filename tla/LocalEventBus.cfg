SPECIFICATION Spec
CONSTANTS
  e1 = e1 e2 = e2 e3 = e3
  audit = audit mirror = mirror
  Events = {e1, e2, e3}
  Subscribers = {audit, mirror}
  MaxEvents = 2
  MaxDeliveries = 3
  MaxDepth = 2
  MaxPublished = 4
  None = None
SYMMETRY Alike
INVARIANTS
  TypeOK
  EventsAreTheLatest
  AcceptedServesAll
  AuditCountsEachOnce
