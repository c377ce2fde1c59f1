------------------------------ MODULE MC_Crawl ------------------------------
(***************************************************************************)
(* Instances of CrawlScheduler: a site of four pages.  "home" links to     *)
(* "list", "item" and "away", another host; "list" continues, by           *)
(* rel="next", on "more", and links to "home"; "item" links to "home" and, *)
(* too deep, to "more".                                                    *)
(***************************************************************************)
EXTENDS CrawlScheduler

Site == {"home", "list", "item", "more"}
Web == Site \cup {"away"}
SiteNext == [u \in Web |-> IF u = "list" THEN "more" ELSE "-"]
SiteLinks == [u \in Web |->
  CASE u = "home" -> {"list", "item", "away"}
    [] u = "item" -> {"home", "more"}
    [] OTHER -> {"home"}]

TwoSeeds == {"home", "list"}
FlakyItem == {"item"}
BlockedMore == {"more"}
=============================================================================
