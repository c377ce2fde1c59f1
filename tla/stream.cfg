SPECIFICATION FairSpec
CONSTANTS
  Page = {"p1", "p2", "p3", "p4", "p5"}
  MaxConcurrency = 1
  Generators = {"batch_scrape_stream", "crawl_stream", "batch_scrape"}
  MayLeave = TRUE
  MayBeCancelled = TRUE
INVARIANTS StreamTidy
PROPERTIES KeepsContract StreamEnds
CHECK_DEADLOCK FALSE
