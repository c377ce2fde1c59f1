------------------------------- MODULE SiteMap -------------------------------
(***************************************************************************)
(* map_site (crawl/mapper.py): the URLs of the origins' sitemaps           *)
(* (crawl/sitemap.py), then those of a breadth-first search over links     *)
(* from the seeds.                                                         *)
(*                                                                         *)
(* One coroutine does all of it; a step is a sitemap, a list of candidate  *)
(* URLs that is taken over, or a page of the frontier.  Where a cap cuts a *)
(* list short the model takes any part of that length; origins and the     *)
(* pages of a frontier come in any order.                                  *)
(***************************************************************************)
EXTENDS Integers, FiniteSets, SequencesExt

CONSTANTS
  Url,          \* normalized URLs
  Kept,         \* those in scope that are pages and pass the SSRF guard
  Seeds,
  LinksOf,      \* [Url -> SUBSET Url]
  Origin,       \* of the seeds
  File,         \* sitemaps
  RootOf,       \* [Origin -> File], /sitemap.xml
  Indexed,      \* [File -> Seq(File)], what a sitemap index lists
  Listed,       \* [File -> SUBSET Url], what a sitemap proper lists
  MaxUrls,
  MaxDepth,
  NoOrigin,
  MaxSitemaps,  \* discover_sitemap_urls' max_sitemaps
  MaxFaults     \* bound: sitemaps and pages that cannot be fetched

ASSUME SiteMapAssumption ==
  /\ IsFiniteSet(Url) /\ Kept \subseteq Url /\ Seeds \subseteq Url
  /\ LinksOf \in [Url -> SUBSET Url]
  /\ RootOf \in [Origin -> File] /\ IsFiniteSet(Origin) /\ NoOrigin \notin Origin
  /\ Indexed \in [File -> Seq(File)] /\ Listed \in [File -> SUBSET Url]
  /\ {MaxUrls, MaxDepth, MaxSitemaps, MaxFaults} \subseteq Nat

VARIABLES
  stage,       \* "idle", "origin", "sitemap", "seeds", "page", "done"
  origins,     \* those not asked yet
  asking,      \* the one being asked
  queue,       \* discover_sitemap_urls' queue
  seenFiles,   \* and its seen
  found,       \* and its found, as a set
  numFound,    \* len(found), which counts a URL each time it is listed
  discovered,
  frontier,    \* what is left of it
  next,        \* next_frontier
  depth,
  shadowed,    \* history: discovered when the search began
  failed,      \* history: pages that could not be fetched
  broken,      \* history: sitemaps that an origin's search could not read
  partial,     \* history: origins whose search was cut short, or raised
  faults

sitemapVars == <<origins, asking, queue, seenFiles, found, numFound>>
excuses == <<broken, partial>>
searchVars == <<frontier, next, depth, shadowed, failed>>
mapVars == <<stage, sitemapVars, discovered, searchVars, excuses, faults>>

MapLocals ==
  /\ origins = Origin /\ asking = NoOrigin
  /\ queue = <<>> /\ seenFiles = {} /\ found = {} /\ numFound = 0
  /\ discovered = {} /\ frontier = {} /\ next = {} /\ depth = 0
  /\ shadowed = {} /\ failed = {} /\ broken = {} /\ partial = {} /\ faults = 0

MapInit == stage = "origin" /\ MapLocals

Full == Cardinality(discovered) >= MaxUrls

(* Any n members of S, or all of them. *)
Some(S, n) == kSubset(Min({Cardinality(S), n}), S)

(* _is_mappable and _in_scope; _extract_links. *)
Mappable(S) == S \cap Kept
Links(u) == LinksOf[u]

(* _accept on a list of candidates, until max_urls are discovered; the      *)
(* deduplicator knows what was discovered.                                  *)
Accepted(S) == Some(Mappable(S) \ discovered, MaxUrls - Cardinality(discovered))

BeginOrigin ==
  /\ stage = "origin" /\ ~Full
  /\ \E o \in origins :
       /\ origins' = origins \ {o} /\ asking' = o
       /\ queue' = <<RootOf[o]>>
  /\ seenFiles' = {} /\ found' = {} /\ numFound' = 0
  /\ stage' = "sitemap"
  /\ UNCHANGED <<discovered, searchVars, excuses, faults>>

OriginsDone ==
  /\ stage = "origin" /\ (Full \/ origins = {})
  /\ stage' = "seeds"
  /\ UNCHANGED <<sitemapVars, discovered, searchVars, excuses, faults>>

(* The loop of discover_sitemap_urls goes on. *)
MoreSitemaps ==
  queue # <<>> /\ numFound < MaxUrls /\ Cardinality(seenFiles) < MaxSitemaps

(* Faulty: a sitemap that was read is read again. *)
ReadSitemapAgain ==
  /\ stage = "sitemap" /\ MoreSitemaps
  /\ LET f == Head(queue) IN
       /\ seenFiles' = seenFiles \cup {f}
       /\ queue' = Tail(queue) \o Indexed[f]
       /\ \E us \in Some(Listed[f], MaxUrls - numFound) :
            found' = found \cup us /\ numFound' = numFound + Cardinality(us)
  /\ UNCHANGED <<stage, origins, asking, discovered, searchVars, excuses, faults>>

(* The sitemap at the head of the queue is read, unless it was before.      *)
ReadSitemap ==
  /\ stage = "sitemap" /\ MoreSitemaps
  /\ LET f == Head(queue) IN
       /\ seenFiles' = seenFiles \cup {f}
       /\ \/ /\ f \notin seenFiles
             /\ queue' = Tail(queue) \o Indexed[f]
             /\ \E us \in Some(Listed[f], MaxUrls - numFound) :
                  found' = found \cup us /\ numFound' = numFound + Cardinality(us)
          \/ /\ f \in seenFiles
             /\ queue' = Tail(queue) /\ UNCHANGED <<found, numFound>>
  /\ UNCHANGED <<stage, origins, asking, discovered, searchVars, excuses, faults>>

(* It is missing, malformed, or refused by the SSRF guard.                  *)
SitemapFails ==
  /\ stage = "sitemap" /\ MoreSitemaps /\ faults < MaxFaults
  /\ Head(queue) \notin seenFiles
  /\ queue' = Tail(queue) /\ seenFiles' = seenFiles \cup {Head(queue)}
  /\ broken' = broken \cup {<<asking, Head(queue)>>}
  /\ faults' = faults + 1
  /\ UNCHANGED <<stage, origins, asking, found, numFound, discovered, searchVars, partial>>

(* max_urls or max_sitemaps ended it. *)
CutShort ==
  numFound >= MaxUrls \/ (queue # <<>> /\ Cardinality(seenFiles) >= MaxSitemaps)

(* map_site takes what the origin's sitemaps listed.                        *)
TakeSitemap ==
  /\ stage = "sitemap" /\ ~MoreSitemaps
  /\ \E us \in Accepted(found) : discovered' = discovered \cup us
  /\ partial' = partial \cup (IF CutShort THEN {asking} ELSE {})
  /\ stage' = "origin"
  /\ UNCHANGED <<sitemapVars, searchVars, broken, faults>>

(* discover_sitemap_urls raises: the origin contributes nothing.            *)
SitemapRaises ==
  /\ stage = "sitemap" /\ faults < MaxFaults
  /\ faults' = faults + 1
  /\ partial' = partial \cup {asking}
  /\ stage' = "origin"
  /\ UNCHANGED <<sitemapVars, discovered, searchVars, broken>>

(* The seeds that are newly accepted are the first frontier: those that no  *)
(* sitemap contributed.                                                     *)
TakeSeeds ==
  /\ stage = "seeds"
  /\ \E us \in Accepted(Seeds) :
       discovered' = discovered \cup us /\ frontier' = us
  /\ shadowed' = discovered
  /\ stage' = "page"
  /\ UNCHANGED <<sitemapVars, next, depth, failed, excuses, faults>>

Searching == frontier \cup next # {} /\ depth < MaxDepth /\ ~Full

(* Faulty: links join the frontier that is being searched. *)
FetchPageDeeper ==
  /\ stage = "page" /\ Searching
  /\ \E u \in frontier :
       /\ \E us \in Accepted(Links(u)) :
            discovered' = discovered \cup us /\ frontier' = (frontier \ {u}) \cup us
  /\ UNCHANGED <<stage, sitemapVars, next, depth, shadowed, failed, excuses, faults>>

(* A page of the frontier: its links that are newly accepted go to the next.*)
FetchPage ==
  /\ stage = "page" /\ Searching
  /\ \E u \in frontier :
       /\ frontier' = frontier \ {u}
       /\ \E us \in Accepted(Links(u)) :
            discovered' = discovered \cup us /\ next' = next \cup us
  /\ UNCHANGED <<stage, sitemapVars, depth, shadowed, failed, excuses, faults>>

(* fetch raises or returns None: the page contributes nothing.              *)
FetchFails ==
  /\ stage = "page" /\ Searching /\ faults < MaxFaults
  /\ \E u \in frontier : frontier' = frontier \ {u} /\ failed' = failed \cup {u}
  /\ faults' = faults + 1
  /\ UNCHANGED <<stage, sitemapVars, discovered, next, depth, shadowed, excuses>>

NextLevel ==
  /\ stage = "page" /\ frontier = {} /\ Searching
  /\ frontier' = next /\ next' = {} /\ depth' = depth + 1
  /\ UNCHANGED <<stage, sitemapVars, discovered, shadowed, failed, excuses, faults>>

MapDone ==
  /\ stage = "page" /\ ~Searching
  /\ stage' = "done"
  /\ UNCHANGED <<sitemapVars, discovered, searchVars, excuses, faults>>

MapNext ==
  \/ BeginOrigin \/ OriginsDone \/ ReadSitemap \/ SitemapFails \/ TakeSitemap
  \/ SitemapRaises \/ TakeSeeds \/ FetchPage \/ FetchFails \/ NextLevel \/ MapDone

-----------------------------------------------------------------------------
AskedTypeOK ==
  /\ asking \in Origin \cup {NoOrigin} /\ partial \subseteq Origin
  /\ broken \subseteq Origin \X File
  /\ stage = "sitemap" => asking \in Origin

(* Every variable has its type, within the caps.                            *)
MapTypeOK ==
  /\ stage \in {"idle", "origin", "sitemap", "seeds", "page", "done"}
  /\ origins \subseteq Origin /\ queue \in Seq(File) /\ seenFiles \subseteq File
  /\ Cardinality(seenFiles) <= MaxSitemaps
  /\ found \subseteq Url /\ Cardinality(found) <= numFound /\ numFound <= MaxUrls
  /\ discovered \subseteq Kept /\ Cardinality(discovered) <= MaxUrls
  /\ frontier \cup next \cup shadowed \subseteq discovered
  /\ depth \in 0..MaxDepth /\ faults \in 0..MaxFaults
  /\ failed \subseteq Kept
  /\ AskedTypeOK

(* Reference: what o's sitemaps list, read from its root through whatever   *)
(* the ones that can be read index: Sitemaps(o) is the least such set.      *)
Readable(f, o) == <<o, f>> \notin broken
Follows(S, o) ==
  RootOf[o] \in S /\ \A f \in S : Readable(f, o) => ToSet(Indexed[f]) \subseteq S
Sitemaps(o) == {f \in File : \A S \in SUBSET File : Follows(S, o) => f \in S}
ListedBy(o) == Kept \cap UNION {Listed[f] : f \in {g \in Sitemaps(o) : Readable(g, o)}}
InSitemaps == UNION {ListedBy(o) : o \in Origin}

(* Reference: the pages at most d links away from a seed that are not in    *)
(* skip, nor linked only by way of those or of pages in bad.                *)
Linked(skip, bad) ==
  LET W[d \in 0..MaxDepth] ==
        LET Pages(S) == (S \cap Kept) \ skip
        IN  IF d = 0 THEN Pages(Seeds)
            ELSE W[d - 1] \cup Pages(UNION {LinksOf[u] : u \in W[d - 1] \ bad})
  IN  W

Within == Linked({}, {})
Unlisted == Linked(InSitemaps, failed)

(* mapper.py:4 "Two sources are combined": the result has nothing that no   *)
(* sitemap lists and that is not within max_depth links of a seed.  Unless  *)
(* max_urls cut it short it has all of an origin's sitemaps, but for what a *)
(* cap or a fault kept discover_sitemap_urls from reading, and every page   *)
(* within max_depth links over pages that could be fetched and no sitemap   *)
(* lists: a listed page, a seed too, is not searched for links.             *)
Exact ==
  /\ MapTypeOK
  /\ stage = "done" =>
       /\ discovered \subseteq InSitemaps \cup Within[MaxDepth]
       /\ ~Full => /\ \A o \in Origin \ partial : ListedBy(o) \subseteq discovered
                   /\ Unlisted[MaxDepth] \subseteq discovered

=============================================================================
