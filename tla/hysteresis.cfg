SPECIFICATION Spec
CONSTANTS
  Volumes <- Corridor
  EffectiveFrom = 0
  EffectiveUntil = 6
  HorizontalTolerance = 1
  VerticalTolerance = 1
  OpenAfterSamples = 2
  RecoverAfterSamples = 2
  Readings <- CorridorReadings
  MaxAdvance = 1
  MaxBatch = 2
  MaxObservations = 6
INVARIANTS
  TypeOK
  PhaseFollowsEvidence
  IncidentsAlternate
  ConditionIsTheWorstPhase
  CausalFromCoversEvidence
  ConformingMeansOneVolume
CHECK_DEADLOCK FALSE
