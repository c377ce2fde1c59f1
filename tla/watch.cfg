SPECIFICATION FairServiceSpec
CONSTANTS
  Caller <- Everybody
  Requests <- Plain
  Redacts = TRUE
  Besides <- Apart
  Binary = {2}
  Allowed = {}
  Routes <- Direct
  Versions = 3
  MaxChanges = 1
  MaxFailures = 1
  MaxTime = 1
  Daemon = "daemon"
  User = {"other"}
  WatchId = {"w1", "w2"}
  Interval <- Hourly
  None = "-"
  Edited = {"w1"}
  Together = {{"w1", "w2"}, {"w1", "other"}}
INVARIANTS ChangesNotified
PROPERTIES MissesExplained ChecksSpaced DueGetsChecked
CHECK_DEADLOCK FALSE
