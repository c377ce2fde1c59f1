SPECIFICATION FairPoliteSpec
CONSTANTS
  Task <- Rows
  Origin <- Origins
  Host <- Hosts
  OriginOf <- RowOrigin
  HostOf <- OriginHost
  Forbidden <- ForbiddenRows
  Delay <- Delays
  None = "-"
  Permits = 2
  MaxTime = 2
  MaxRaises = 1
INVARIANTS RulesKept SlotsSpaced
PROPERTIES EveryoneServed
