SPECIFICATION FairSpec
CONSTANTS
  Caller <- Everybody
  Requests <- Asked
  Redacts = TRUE
  Versions = 2
  Besides <- Apart
  Binary = {2}
  Routes <- Ways
  Allowed = {"eu"}
  MaxChanges = 1
  MaxFailures = 1
  MaxTime = 0
  Task = {"t1", "t2"}
  Other = {"other"}
  MaxRuns = 3
INVARIANTS ArchiveIsWhatWasSeen RawOnlyOfRefused GeoKept RefreshesChain
PROPERTIES EveryCallEnds
CHECK_DEADLOCK FALSE
