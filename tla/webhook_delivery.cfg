SPECIFICATION FairSpec
CONSTANTS
  Run = {r1}
  NoRun = NoRun
  MaxTries = 2
  Events = 2
  MaxAttempts = 2
  MaxFailures = 2
  Spacing = 1
  Lease = 2
  Hold = 1
  Pause = {2}
  MaxGeneration = 1
INVARIANTS LiveHasCredential NothingForgotten OneSender NotOvertakenInTime
PROPERTIES RespectsThrottle EventsSettle Reclaimed
CHECK_DEADLOCK FALSE
