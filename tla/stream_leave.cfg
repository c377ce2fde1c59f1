SPECIFICATION FairSpec
CONSTANTS
  Page = {"p1", "p2", "p3", "p4"}
  MaxConcurrency = 1
  Generators = {"batch_scrape_stream"}
  MayLeave = TRUE
  MayBeCancelled = FALSE
PROPERTIES LeavingCloses
CHECK_DEADLOCK FALSE
