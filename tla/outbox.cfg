SPECIFICATION Spec
CONSTANTS
  Assignments = {a1, a2}
  Publishers = {p1, p2}
  BatchSize = 2
  MaxCursor = 2
  MaxFaults = 2
  NoPublisher = NoPublisher
SYMMETRY Replicas
INVARIANTS
  TypeOK
  RegistryIsNeverAhead
  DeliveredIsProjected
PROPERTY ProjectionHasNoGaps
CHECK_DEADLOCK FALSE
