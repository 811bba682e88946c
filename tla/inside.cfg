SPECIFICATION Spec
CONSTANTS
  Volumes <- Wide
  EffectiveFrom = 0
  EffectiveUntil = 4
  HorizontalTolerance = 1
  VerticalTolerance = 1
  OpenAfterSamples = 2
  RecoverAfterSamples = 1
  Readings <- WideReadings
  MaxAdvance = 1
  MaxBatch = 1
  MaxObservations = 2
INVARIANT InsideIsNoLateralDeviation
CHECK_DEADLOCK FALSE
