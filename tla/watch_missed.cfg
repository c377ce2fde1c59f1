SPECIFICATION ServiceSpec
CONSTANTS
  Caller <- Everybody
  Requests <- Plain
  Redacts = FALSE
  Besides <- Apart
  Binary = {}
  Allowed = {}
  Routes <- Direct
  Versions = 2
  MaxChanges = 1
  MaxFailures = 0
  MaxTime = 1
  Daemon = "daemon"
  User = {}
  WatchId = {"w1", "w2"}
  Edited = {}
  Together = {{"w1", "w2"}}
  Interval <- Hourly
  None = "-"
PROPERTIES NoMissedChange
CHECK_DEADLOCK FALSE
