SPECIFICATION FairSpec
CONSTANTS
  NumProxies = 2
  MaxFailures = 2
  Cooldown = 1
  MaxTime = 1
  Fetcher = {"static", "dynamic"}
  StartTier <- MixedStart
  MaxTier = 4
  HttpRetries = 1
  None = "nobody"
  MaxFaults = 1
INVARIANTS RotationFair OrphansExcused
PROPERTIES BurnedStaysOut EveryFetchEnds
