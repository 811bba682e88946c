SPECIFICATION Spec
CONSTANTS
  Generations = {1, 2, 3}
  Specs <- LifecycleSpecs
  Messages <- LifecycleMessages
  Deliveries <- LifecycleDeliveries
  Workers = {w1}
  Evaluations <- None
  LeaseDuration = 1
  FinalizationGrace = 0
  NextTimes = {0}
  MaxTime = 2
  MaxLag = 0
  MaxLeases = 0
  NoSpec = NoSpec
  NoWorker = NoWorker
INVARIANT LifecycleReplyShowsTarget
