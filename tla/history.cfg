SPECIFICATION Spec
CONSTANTS
  Violations = {1}
  FrameTimes <- SomeFrameTimes
  FirstFrames <- SomeFirstFrames
  EventRank <- SomeEventRank
  Queries <- SomeQueries
  PageSizes <- SomePageSizes
  DefaultPageSize = 2
  MaxPageSize = 2
  MaxCommits = 3
INVARIANTS
  LiveCommitsAreNeverRefused
  ResolutionIsEvidence
  PagesAreComplete
  OpeningIsSeen
PROPERTIES
  EvidenceIsImmutable
CHECK_DEADLOCK FALSE
