SPECIFICATION FairSpec
CONSTANTS
  Assignments = {a1}
  Publishers = {p1, p2}
  BatchSize = 1
  MaxCursor = 2
  MaxFaults = 2
  NoPublisher = NoPublisher
PROPERTY EverySummaryIsDelivered
CHECK_DEADLOCK FALSE
