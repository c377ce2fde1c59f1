SPECIFICATION Spec
CONSTANTS
  Url <- Web
  Kept <- Site
  Seeds <- TwoSeeds
  LinksOf <- SiteLinks
  Origin <- Origins
  NoOrigin = "-"
  File <- Files
  RootOf <- Root
  Indexed <- Indexing
  Listed <- SomeListed
  MaxUrls = 7
  MaxDepth = 2
  MaxSitemaps = 3
  MaxFaults = 2
  Block <- Blocks
  MaxBlocks = 5
  Target = 8
  Overlaps = {0, 3}
  Kinds = {1, 2, 3}
  Reach = 1
  MaxStrays = 1
  Verb = {"goto", "once", "scroll_until", "click_until"}
  Rounds = {0, 2, 4}
  MaxSteps = 2
  MaxBatches = 2
  MaxHeight = 2
  MaxMishaps = 1
INVARIANTS Exact ChunksTile ChunksShaped OnlyNestedOrNear
PROPERTIES Returns ActionsDone
CHECK_DEADLOCK FALSE
