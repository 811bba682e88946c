SPECIFICATION Spec
CONSTANTS
  Generations = {1, 2}
  Specs <- EvaluationSpecs
  Messages <- EvaluationMessages
  Deliveries <- EvaluationDeliveries
  Workers = {w1, w2}
  Evaluations <- SomeEvaluations
  LeaseDuration = 1
  FinalizationGrace = 1
  NextTimes = {0}
  MaxTime = 3
  MaxLag = 1
  MaxLeases = 2
  NoSpec = NoSpec
  NoWorker = NoWorker
SYMMETRY WorkerSymmetry
INVARIANTS
  EvidenceStaysAttributed
  ReplayCheckpointIsCurrent
  WatermarkIsMonotone
  OneCommitPerLease
  OnlyCurrentIsLeased
PROPERTIES
  RegistryCursorAdvances
  RoutesAsPromised
