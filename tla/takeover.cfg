SPECIFICATION Spec
CONSTANTS
  w1 = w1
  w2 = w2
  NoWorker = NoWorker
  Workers = {w1, w2}
  Frames <- TakeoverFrames
  Skew <- TakeoverSkew
  Phase <- TakeoverPhase
  AuthorityFrom = 0
  AuthorityEnd = 3
  PollInterval = 1
  LeaseDuration = 1
  SettleDelay = 1
  OverlapWindow = 1
  MaxRows = 4
  VisibilityDelay = 1
  Latency = 1
  MaxTime = 5
  MaxFaults = 1
INVARIANTS
  TypeOK
  EvaluatedOnceInOrder
  RestoresNewestState
  NothingIsSkipped
CHECK_DEADLOCK FALSE
