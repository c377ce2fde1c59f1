SPECIFICATION FairSpec
CONSTANTS
  Url <- Web
  Seeds <- TwoSeeds
  Scope <- Site
  NextPage <- SiteNext
  NoUrl = "-"
  Links <- SiteLinks
  Disallowed <- BlockedMore
  Flaky <- FlakyItem
  MaxDepth = 1
  MaxPages = 3
  MaxConcurrency = 2
  MaxCrashes = 1
  MaxErrors = 1
INVARIANTS TypeOK OneOwner StopsOnlyWhenDry LinksFollowed ScrapedIsDelivered
PROPERTIES OncePerPage Lifecycle CrawlEnds
