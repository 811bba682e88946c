SPECIFICATION PunctualSpec
CONSTANTS
  w1 = w1
  w2 = w2
  NoWorker = NoWorker
  Workers = {w1}
  Frames <- NoFrames
  Skew <- SoloSkew
  Phase <- SoloSkew
  AuthorityFrom = 0
  AuthorityEnd = 7
  PollInterval = 3
  LeaseDuration = 3
  SettleDelay = 1
  OverlapWindow = 1
  MaxRows = 3
  VisibilityDelay = 1
  Latency = 1
  MaxTime = 14
  MaxFaults = 0
INVARIANTS
  FinalQueryReachesEnd
CHECK_DEADLOCK FALSE
