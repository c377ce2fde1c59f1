SPECIFICATION Spec
CONSTANTS
  Caller <- Everybody
  Requests <- Asked
  Redacts = TRUE
  Versions = 2
  Besides <- Apart
  Binary = {2}
  Routes <- Ways
  Allowed = {"eu"}
  MaxChanges = 1
  MaxFailures = 0
  MaxTime = 0
  Task = {"t1"}
  Other = {"other"}
  MaxRuns = 3
INVARIANTS ReusedUnchanged
CHECK_DEADLOCK FALSE
