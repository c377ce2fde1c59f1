# Scrapo in TLA+

Scrapo (`scrapo/`) is an asyncio web scraper: it crawls sites politely, climbs
from plain HTTP to a browser to an LLM agent when a page resists, extracts typed
data with cached selectors or an LLM, records every run, and watches pages for
changes. Its difficult parts are coroutines that interleave at every `await`,
share SQLite files, caches and pools, fail, get cancelled and restart. This
directory models those parts, checks them with TLC, and proves the core of them
with TLAPS.

`PROJECT.json` lists components, runs, mutants (for each property, a plausible
bug in the code that breaks it), the source lines of every definition, hazards,
and theorems. To repeat the checks:

    tlc -workers 2 -config crawl.cfg MC_Crawl      # any run: its cfg, its module
    tlapm CrawlProofs.tla                          # or another *Proofs module

## 1. Inventory

A *process* below is a coroutine; a step of a model ends where the code awaits
something that may suspend it. Between two such points nothing else runs, except
for what is in a database, which other programs share.

| Part (source) | State it keeps | Operations | What makes it correct |
|---|---|---|---|
| request queue (`crawl/queue.py`) | a row per URL of a crawl: status, attempts, depth, id | enqueue, claim, complete, fail | a row has one owner; it follows its lifecycle across restarts |
| crawl scheduler (`crawl/scheduler.py`, `crawl/dedup.py`) | workers, semaphore, `in_flight`, `pages_done`, seen URLs | claim loop, worker, link discovery, restart | ends exactly when nothing is left; pages once; no link lost |
| robots gate and host spacing (`policy/robots.py`, `scheduler._respect_host_delay`) | parser per origin, lock per origin, next slot per host | can_fetch, crawl_delay, slot reservation, the page's own gate in `scrape` | one set of rules in the crawl's gate, kept by every scrape; slots spaced |
| streams and `batch_scrape` (`crawl/batch.py`, `api.crawl_stream`) | bounded queue, workers, sentinel, ordered results | put, get, leave, cancel, callback | no result lost or repeated, no task left, memory bounded, the end comes |
| connection pool (`_db.py`) | idle connections, count, condition | acquire, release, close_all | one user per connection, clean check-out, no slot lost, no lost wake-up |
| synchronous facade (`sync.py`) | an event loop per call, on top of the pools that outlive it | run, nest, block the caller's loop | nobody sleeps in a loop that is over; blocks end |
| scrape(), replay store, snapshots, geo policy (`api.py`, `replay/`, `policy/geo.py`) | run rows, archive files | refusals, conditional GET, 304 reuse, redaction, record, load | an archive is what its run saw; personal data and forbidden regions stay out of it |
| Watch handle (`watch.Watch`) | `prev_run_id`, a lock | check, refresh, also side by side and cancelled | each result follows the one before |
| watch service (`watch.py`, `server/`) | rows with cursor and due time | tick, refresh, notify, edits | changes are noticed and notified, intervals kept, failures isolated |
| tier router, HTTP/browser/agent tiers (`access/router.py`, `http_tier.py`, `browser_tier.py`, `browser_pool.py`, `agent_tier.py`) | the browser, its driver, its lock | ladder, retries, launch, close | one browser at a time, no driver leaked, every fetch ends |
| proxy pool (`access/proxy_pool.py`) | cursor, cooldowns, failure counts | get_proxy, report | fair rotation, burned endpoints rest |
| hybrid extractor, selector cache, budget (`extract/hybrid.py`, `selector_cache.py`, `types.Budget`) | selector rows with failure counts, LLM calls made | extract, put, record, invalidate | budget overshoot bounded, eviction justified and in time |
| agent driver, action cache (`access/agent_drivers.py`, `action_cache.py`) | recorded script, failure count | replay, LLM loop, record, evict | steps bounded, a script is dropped for its failures, in time and never sooner |
| site mapper, sitemap reader (`crawl/mapper.py`, `crawl/sitemap.py`) | discovered URLs, frontier, sitemap queue | enumerate, search by levels | exact result, nothing beyond `max_depth`, termination |
| markdown chunker (`shape/chunker.py`) | trail, byte cursor, buffer | sections, paragraphs, overlap | exact ranges, nothing lost, size, trails |
| redaction (`policy/pii.py`, as `api.scrape` applies it) | hits of one text, cursor | scan, redact the markdown and each chunk | nothing of a value is left, nothing else is lost |
| page actions (`access/actions.py`) | page position, rounds without growth | run_actions, scroll_until, click_until | every step is tried; a loop that ends has loaded everything it could see |
| content shaping (rest of `shape/*`), audit, SSRF guard, proxy vendors, API providers, LLM adapters, CLI, web view, MCP server, export | little or none | mostly pure functions and I/O | see section 7 |

How they interact: `crawl` claims rows of the queue, asks the robots gate, waits
for its host's slot and calls `scrape`; `crawl_stream` runs a crawl behind a
bounded queue. `scrape` reads the last run of the URL for a conditional GET,
calls the router (which asks the proxy pool, the browser pool and the agent
driver), shapes and chunks the page, calls the extractor, and records the run.
The watch scheduler calls `scrape` through `Watch.refresh` and compares two
recorded runs. Every store goes through the connection pool, in whatever event
loop it is called from. The proxy pool,
selector cache, action cache, run store and connection pool are shared by
whatever runs concurrently.

The hazards this leads to are listed, with the line where each bites and the
properties that would catch it, under `hazards` in `PROJECT.json`.

## 2. Modules

| Module | Models | Notes |
|---|---|---|
| `RequestQueue` | `RequestQueue` of `crawl/queue.py` | columns as functions of the URL; each operator is one statement under the queue's lock |
| `CrawlScheduler` | `CrawlScheduler.crawl`, composing `RequestQueue` | main loop (`main`), one task per claimed row (`task`), `_enqueue` split at the `await` between dedup and INSERT; `Crash`, `Restart` |
| `RowLifecycle` | what a row promises | abstract; `CrawlScheduler` implements it (`Lifecycle`) |
| `ResultStream` | `batch_scrape_stream`, `crawl_stream`, `batch_scrape` | the generators share the shape; `IsCrawl` and `IsBatch` select what differs |
| `StreamContract` | what a stream promises its consumer | abstract; `ResultStream` implements it (`KeepsContract`) |
| `DbPool` | `_Pool`, `connect`, `close_all` | callers, connections, the condition's waiters, failures and cancellation at every await |
| `PoolLoops` | `sync._run` over `DbPool` | a stack of event loops; the last runs, those below are blocked in `join` |
| `PoliteWorker` | `RobotsGate`, `_respect_host_delay` | with time; tasks hold the crawl's permit while they sleep; `OwnGate` is the second gate, which `scrape` makes for the page |
| `ScrapeRuns` | `scrape` with its refusals, conditional GET, 304 path, geo policy, redaction and recording; `ReplayStore`, snapshot files | a run is a number in order of `started_at` |
| `WatchHandle` | one `Watch` shared by coroutines; composes `ScrapeRuns` | the handle's lock as a queue, `prev_run_id` as `prev`, the results as `chain` |
| `WatchService` | `WatchScheduler`, `WatchStore`, `Watch.refresh`, `_same_html`, notifier; composes `ScrapeRuns` | the daemon, other callers of `scrape`, the editor of the watch list |
| `ProxyPool` | `ProxyPool` | cursor, parking, what a fetch reports |
| `TierFetch` | router, tiers, browser pool; composes `ProxyPool` | one process per fetch |
| `ChangingSite` | the site that is learned from | a layout number stands for what a selector or a script was learned on |
| `HybridExtract` | `HybridExtractor`, `SelectorCache`, `Budget` | over `ChangingSite` |
| `AgentReplay` | `LLMAgentDriver`, `ActionCache` | over `ChangingSite`; a script leads from one point of the way to the goal to another |
| `SiteMap` | `map_site`, `discover_sitemap_urls` | one coroutine, unknown order of pages |
| `Chunker` | `chunk_markdown` | blocks with a level, two lengths, and the personal data in them |
| `Redaction` | `redact` on the markdown and on each of `Chunker`'s chunks | a text is two ranges of characters joined at a seam; `left` is what survives |
| `PageActions` | `run_actions`, `_scroll_until`, `_click_until` | a list that loads batches when it is scrolled at its end or clicked |
| `DistinctSeqs` | sequences without repetitions | waiters, queues, pools |
| `Sequential` | `SiteMap`, `Redaction` and `PageActions` side by side | they share no state: a behaviour runs one of them |
| `MC_*` | instances for TLC | sites, origins, documents; `MC_Learned` puts components that share nothing but the site side by side |
| `CrawlProofs`, `PoolProofs`, `StreamProofs`, `ScrapeProofs`, `LearnedProofs`, `SequentialProofs`, `FetchProofs`, `DistinctSeqsTheorems` | theorems about the modules above | section 5 |

Names are the source's where TLA+ allows it. Operators commented "Faulty:" are
mutants: they are used by no specification.

Composition: `CrawlScheduler` EXTENDS `RequestQueue`, `WatchService` and
`WatchHandle` EXTEND `ScrapeRuns`, `TierFetch` EXTENDS `ProxyPool`, `PoolLoops`
EXTENDS `DbPool`, `Redaction` EXTENDS `Chunker`, `AgentReplay` and
`HybridExtract` EXTEND `ChangingSite`, and `Sequential` its three algorithms; a
component's operators are the statements of another's action. `RowLifecycle` and `StreamContract` are the
abstract specifications, instantiated with a refinement mapping.

## 3. Runs

| Run | Question | Bounds, and why they are enough |
|---|---|---|
| `crawl` | does a crawl own, follow, deliver and end correctly, also across a crash? | four pages with a diamond, a cycle, `rel="next"`, an out-of-scope link, one page that fails and one robots.txt forbids; two workers are enough to race; one crash and one failing INSERT at any point; budget 3 of 4 |
| `stream` | are results delivered once, bounded, ended, and tasks cleaned up? | three generators, one per behaviour; five pages, concurrency 1, queue of 2: the queue fills while a worker puts and another page waits; leaving and cancelling at every point |
| `stream_leave` | *violation*: does leaving early clean up, as documented? | four pages fill the queue |
| `pool` | is the pool safe and live under failure, cancellation, `close_all` and several loops? | three callers on two connections: someone has to wait, and may wait a second time (five blocks); a third connection shows re-creation; two loops follow one another or nest |
| `polite` | does the crawl's gate tell all the same and is it kept, are slots spaced, is everybody served? | two origins that share a host with different delays, another host, two permits for four rows, every answer at both gates, one that raises |
| `watch` | are changes noticed and notified, failures isolated? | two watches with different intervals, or one of them and another caller (`Together`), the first also disabled, enabled and removed (`Edited`); a page that may change once, from text to PDF or to a text that differs in personal data only; `redact_snapshots` on; one fault at any point, so that one watch fails and the other does not; two seconds: every order of two scrapes and one change |
| `watch_missed` | *violation*: is a 304 "definitively unchanged" for a watch? | two watches, no faults: the smallest instance |
| `scrape` | are archives right, policies kept and results of a shared handle in order? | two coroutines on a handle and one other caller, three scrapes, a page that changes once from text to PDF, three routes, one fault anywhere |
| `scrape_binary` | *violation*: is content served from a 304 unchanged? | as `scrape`, one coroutine, no faults |
| `fetch` | does the ladder end, with fair proxies and no driver leaked? | two fetches, one entering at HTTP and one at the stealth browser, two proxies, one retry, one fault |
| `learned` | is the budget bounded; are selectors and scripts evicted rightly; do selectors that fit stay in use? | three extractions against two calls, two fields of which one is required, eviction after two failures (three in the code); two agents, a goal two steps away, two steps allowed, runs that start one step further on; one redesign and one fault |
| `sequential` | do the algorithms of one coroutine agree with their references? | map: two origins, an index that lists itself, a duplicate, pages beyond `max_depth`, a cap that can cut any source, two faults. chunks and redaction: every document of up to five blocks (9 330) with and without overlap; three levels allow nesting, skipping and climbing; lengths below, at and above the target, bytes above characters; values that nest, overlap, and are torn by an overlap that begins within them or between them; one value found at a cut or a seam that is none. actions: two steps, two batches, each up to two scrolls tall, one mishap |

Deadlock is checked except where the modelled program stops: a finished or
hanging stream, the runs of scrapes whose number or clock is bounded, and
`map_site`, `chunk_markdown` and `run_actions`, which return. `Actors` permutes
the drivers and the workers of `learned`, which differ in nothing and are
compared with nothing; none of its properties is a liveness property.

Fairness. Every coroutine that is ready runs eventually: asyncio's loop is first
in, first out, and its locks and semaphores serve waiters in order; so each
process has weak fairness, or strong fairness where it competes for a lock or a
permit (`crawl`, `polite`, and the workers of `stream`). Everything outside is
assumed to answer at last, since every request has a timeout. Beyond that: a
crawl (`crawl`) and a daemon (`watch`) that died is started again by somebody,
and the clock advances. In `pool` only the steps of callers in the loop that runs
are fair, and `EndLoop`: `asyncio.run` returns when its tasks are over. In
`sequential` the map has weak fairness. Faults, cancellation, leaving, and the
start of a loop have none. `learned` checks no liveness.

## 4. Abstractions

* URLs are normalized already; `Links`, `Scope`, `Kept` are what the link
  extractors and filters return. One site, one crawl id.
* A page's content is a version number; a run's `saw` is also its ETag. `Besides`
  says which versions are the same once personal data is masked.
  `snapshot_html` is on and a watch has no schema, as one loaded from disk. The
  geo policy's two lists of region codes are one set.
* Redaction is about places: what `scan` recognises is a given set of hits per
  paragraph. The overlap of a chunk cuts the text it begins in and is glued to the
  text behind it without a separator: within `Reach` characters of these two
  places `scan` may miss values of the document and find others, among them words
  on both sides of the seam that are none. `Reach` is 1 in the run, any number in
  the theorem.
* Rows that are due are checked in any order; the code's is by `created_at`.
* The order of the list that `batch_scrape` returns is not modelled; what it
  returns is.
* Outcomes of HTTP, browser, agent, LLM and metadata are choices, limited to what
  the code's branches tell apart. The proxy pool has no upstream vendor.
* A selector finds its field on the layout it was learned on and nothing on any
  other; which of those that the code trusts find a text that does not validate
  (`unfit`) is a choice. success counts are never read and left out.
* Clocks and counters of faults are bounded by constants named `Max...`; each is
  marked "bound" where it is declared.
* The chunker's documents are blocks separated by one blank line, as the markdown
  converter writes them.

## 5. Proofs

Every theorem holds for all values of the constants under the module's
assumptions (`CrawlAssumption`, `PoolAssumption` and so on), which say no more
than that sets are finite and bounds are numbers. The properties are seldom
inductive; each module has an `IInv` that is, one lemma per part with a step per
action, and follows by PTL.

`CrawlProofs` (`CrawlScheduler`, `PoliteWorker`):

* `TypeCorrect`, `RowHasOneOwner`, `InFlightCounts`, `NoEarlyStop`,
  `LinksReachTheQueue`, `ScrapedPagesDelivered`: the safety invariants of run
  `crawl`, and `InFlightExact`, which the others rest on;
* `PagesHandledOnce`: the action property `OncePerPage`;
* `RowsFollowLifecycle`: `CrawlScheduler` implements `RowLifecycle`.

That the crawl stops only when dry needs to know that an empty claim is still
empty when `in_flight` is read (`EmptyClaim`), which rests on the lock, and that
no task lives once `main` stopped (`StoppedIdle`). That links reach the queue
needs an account of every URL the deduplicator has seen (`SeenAccounted`: it has
a row, a task is about to insert it, or its INSERT raised) and of every link of
an expanded page (`LinksAccounted`). Once-only handling needs that a scraped page
is `done`, or `in_flight` with the task that scraped it or with none after a
crash (`ScrapedOnce`, `DeliveredDone`). Of `PoliteWorker`: `OneSetOfRules` rests on
`FetchLocked` (robots.txt is fetched with the origin's lock held, and only while
the cache has nothing: what a worker went by is what the cache keeps),
`SlotsAreSpaced` on `SlotsCounted` (a host's next slot lies behind every slot
taken, by the delay of whoever took it).

`PoolProofs` (`DbPool`, `PoolLoops`): `TypeCorrect`, `ConnectionsIsolated`,
`SlotsAlwaysAccounted`, `NoWakeupLost`; `LoopsRefinePool`, by which all of them
hold under any number of successive and nested loops; `SleepersHear`. The added
part is that the condition's waiters are distinct and asleep (`WaitersAsleep`):
then a notify makes exactly one sleeper awake, and room and wake-ups grow
together. For the loops, `LoopsInv`: a block lasts no longer than its loop, and
who waits or was woken is in the loop the condition belongs to.

`StreamProofs` (`ResultStream`): `StreamLeavesNothing`, and `StreamKeepsContract`,
the refinement of `StreamContract`. `ResultsOK` says that every result of a
finished page is queued or yielded, once, with nothing behind the sentinel;
`PhasesOK` ties consumer, cancellation and producer together; `SemOK` bounds the
holders of the semaphore.

`LearnedProofs` (`MC_Learned`, so `HybridExtract` and `AgentReplay`):
`OvershootBounded` from `CallsCharged` (calls under way passed the gate when the
charged ones left room for one); `EvictionsOnTime` from `FailuresExcused` (a
count above the threshold belongs to an extraction that will evict or that
raised) and `RunLocals`; `SelectorsStayInUse`, an action property whose
one excuse, `PutsLoose`, is a divergence of section 6. Of scripts no such thing is
claimed: one may hold steps that never did anything.

`FetchProofs` (`ProxyPool`, `TierFetch`): `RotationIsFair` from `Closing` (how often
a proxy was passed over, plus its distance from the cursor, stays below the
number of proxies); `BurnedProxiesRest` from `Parked`; `OrphansAreExcused` from
`Launching` (who launches has the lock, and there is no browser yet) and
`OrphansCounted`.

`ScrapeProofs` (`ScrapeRuns` under `WatchHandle`): `ArchivesAreWhatWasSeen`,
`SnapshotsRedacted`, `GeoPolicyKept` and `ResultsChain`. `Inv` has two halves. Of the
runs (`RunsInv`): everybody's scrape has a run of its own until it is recorded, a
request is conditional on a recorded run without an error, a row points to its own
archive or to one whose owner points to itself, and an answer that is not recorded
yet already fits its archive (`Fits`), which is what a 304's row takes over. Every
step of a scrape is a `Step` of at most one caller, which leaves the rows and the
other scrapes as they were except for lost archives (`StepKeeps`); the rest is one
lemma per action. Of the handle (`HandleInv`): whoever scrapes through it holds
its lock and started from `last`, where the chain ends. Assumed, beyond types, is
that a policy's regions do not contain the unknown one, which `is_allowed` tests
first (`RegionsAssumption`), and that the handle's coroutines are not among the
other callers (`HandleAssumption`).

Its second half is about `WatchService`, over the same lemmas: `ServiceTypeCorrect`,
`ChangesAreNotified`, and the action properties `ChecksAreSpaced` and
`MissesAreExplained`. `ServiceInv` adds to `RunsInv` that the cursors are numbers of
recorded runs, that whatever was noticed is handed on or still in the daemon's
hands (`NotesOK`), and when each watch was last tried (`SpacingOK`). A miss goes
back to an answer relative to somebody else's run, or to texts that redaction makes
equal: a settled run's archive determines its text (`SameText`), also behind a chain
of 304s, but equal bytes of masked archives do not (`EqualBytes`). The two halves are
about two specifications over one set of runs; the assumptions that say who the
callers are restrict neither (see the module's comment).

`SequentialProofs` (`Sequential`): five results about all inputs.

* `ActionsAreDone`: what is loaded, on its way and left is the list (`ActionInv`),
  and a measurement that does not grow was taken after the page had settled.
* `MapIsExact`: `ListedInv` relates what was taken from the sitemaps to the least
  set of them that is closed under the ones that can be read (`Sitemaps`), and
  `SearchOK` the search to the levels of the recursive reference `Linked`: a level
  is the one before it and what its pages link to. Both references speak of the
  site only, never of what the search has found.
* `ChunksAreTiled`, `ChunksAreShaped`: `ChunkInv` says of each phase which blocks
  are behind (`Covers`), that the sections and chunks made so far are right
  (`SectionsAre`, `ChunksAre`), and what is in hand (`Buffered`, `TailIs`). That a
  trail has the headings of the recursive reference `Enclosing` is `TrailCut`: in an
  outline, cutting at a level leaves exactly the ancestors.
* `RedactionHides`: the sort puts the hits in order (`SortedOrders`, by counting
  those before each), so what is left of a text is a row of gaps that do not
  overlap (`RedactedLeaves`); blocks, overlaps and chunks lie apart
  (`TextPlaced`), so a position in the text corresponds to one in the document and
  what is found to a value there (`FoundHolds`, `FoundRest`), or to something near
  a cut or a seam (`StrayIs`, `HoldsInside`).

Of the prover's library, the theorems that take an operator cannot be used, so
induction goes over *sets* of numbers: one that contains 0 and every successor is
`Nat`, because < is well-founded (`SetInduction`). From it come the existence of
functions defined by recursion (`Recursion`) and of folds over finite sets
(`FoldExists`), and with them `Within`, `Offset`, `Enclosing`, the sums, the filter
and `FlattenSeq`, each characterised once by a lemma.

`DistinctSeqsTheorems` has the facts about sequences that these share.

Every invariant and action property of the passing runs is a theorem about the
specification of which the run checks an instance. Model-checked only: liveness
(`CrawlEnds`, `StreamEnds`, `BlocksEnd`, `EveryoneServed`, `DueGetsChecked`,
`EveryCallEnds`, `EveryFetchEnds`, `Returns`), which needs ENABLED and is out of
the prover's reach.

## 6. Observed divergences

Shown by a run (`findings` in `PROJECT.json`):

* `stream_leave`: leaving `batch_scrape_stream` or `crawl_stream` while the queue
  is full hangs, because the cancelled producer waits for room for its sentinel
  (`crawl/batch.py:121`, `api.py:436`; `batch.py:98` promises clean-up).
* `scrape_binary`: a PDF or an image that is answered 304 comes back as its
  archived bytes decoded as text (`replay/store.py:176`; `results.py:61` says
  "content is unchanged").
* `watch_missed`: a watch misses a change that another scrape of the URL recorded
  first, because a 304 is relative to the last run of anybody (`watch.py:93`;
  `watch.py:36` says "definitively unchanged").

Met while modelling; the models reproduce those marked (M):

* (M) `max_pages` is compared with pages *done* (`crawl/scheduler.py:160`): workers
  already running take the crawl above it.
* (M) Rows of a crawl that died stay `in_flight`; claim takes only `pending`
  (`crawl/queue.py:90`; `queue.py:3` says it survives restarts).
* (M) `batch_scrape_stream` puts outside the semaphore, so the bounded queue does
  not hold back the scrapes (`crawl/batch.py:113`; `batch.py:96`, `:112`).
* (M) Archives are compared with their gzip header, which holds the second of
  compression: an unchanged page counts as changed (`replay/snapshots.py:127`,
  `replay/diff.py:129`).
* (M) `redact` puts the same placeholder for every value (`policy/pii.py:79`), and
  with `redact_snapshots` a run's archive is made of the redacted text
  (`api.py:281`): a watch takes a page that changed in personal data only for
  unchanged, without any 304 (`MaskedAway`, excused in `MissesExplained`).
* (M) An archive whose deflate stream is damaged makes `load_html` raise
  `zlib.error`, which `replay/store.py:177` does not catch, so that every scrape the
  server answers 304 raises until the page changes; the comment at `:172` says that a
  corrupt snapshot "falls back to a fresh fetch instead of raising".
* (M) An answer that is no robots file becomes an empty rule set, which allows
  everything, although the comment at `policy/robots.py:109` calls that wrong.
* (M) `scrape` makes a `RobotsGate` of its own for every page (`api.py:137`), so a
  crawl fetches robots.txt once for its gate and once more for every page, against
  `policy/robots.py:3` ("a single crawl never fetches the same robots.txt twice"),
  and the two answers may differ: a page the crawl allows after a transport error
  is refused by the rules that arrive later. `RulesKept` is about the crawl's gate
  and says that the page's can only refuse more; of the pages' gates it does not
  say that they agree.
* (M) A host's delay is slept through with the crawl's permit held.
* (M) A caller cancelled during check-in's rollback loses a slot for good
  (`_db.py:109`); a wake-up can be lost to a cancelled waiter on Python before
  3.13 (`_db.py:94`). `SlotsAccounted` and `NoLostWakeup` say exactly when.
* (M) A late success takes a proxy out of its cooldown (`access/proxy_pool.py:112`);
  a browser's navigation timeout and a refused redirect count as hard blocks,
  although the docstring of `_is_hard_block` says network errors do not.
* (M) A cancelled launch leaks the driver (`access/browser_pool.py:41`); a crashed
  browser is never replaced (`:32`).
* (M) `selector_cache.record_failure` counts and reads in two steps, so an eviction
  can hit fresh selectors; the action cache closed that window.
* (M) A selector is trusted on a looser test than the one it must pass: for a
  number its node must exist (`extract/hybrid.py:305`), for a list one subfield
  must be found (`:279`), while `_apply_selectors` validates the raw text (`:259`).
  An extraction that was on its way may so put, over a set that fits, one that
  never validates; each call then counts a failure and pays the LLM, whose answer
  puts the same selectors again with a count of 0, so the threshold of eviction is
  not reached, although `README.md:168` has every later call use the cache.
* (M) A step of the agent that failed, or whose click did nothing, is recorded all
  the same (`access/agent_drivers.py:171`, `:298`), so a script may hold a step that
  never replays; it is dropped after `cache_max_failures` replays.
* (M) An agent script recorded after a replay that stopped half way begins there,
  although `access/action_cache.py:3` describes it as the whole sequence.
* (M) A seed that a sitemap lists is not newly accepted and so not searched
  (`crawl/mapper.py:190`; `mapper.py:187` "Seeds are the depth-0 frontier"): a
  home page in its own sitemap ends the link search before it begins.
* (M) Sitemap indexes are followed to any depth; `crawl/sitemap.py:4` says one layer.
* (M) After a skipped heading level the trail keeps a heading that is no ancestor
  (`shape/chunker.py:116`), and a section whose last chunk is full may yield one
  more that holds only overlap.
* (M) `redact` with hits that nest moves its cursor back and leaves text of the
  outer hit (`policy/pii.py:89`); chunks are redacted one by one, so a value that
  the overlap tears may stay; and because overlap and text are joined without a
  separator (`shape/chunker.py:173`), what is found across the seam may hide a value
  that is there, or take words that are not personal (`OnlyNestedOrNear` says there
  is nothing else); with `redact_snapshots` their byte ranges refer to the
  unredacted markdown (`api.py:283`) and `chunk_hash` to the unredacted text.
* (M) Runs that are refused, by the geo policy or a wall, and PDFs are archived
  unredacted, although `README.md:512` and `SECURITY.md:37` promise redacted
  archives (`RawOnlyOfRefused`).
* (M) A result that a 304 serves has no region (`api.py:201`). Under
  `require_match` an unchanged page is therefore refused; the error makes the next
  request unconditional, so that success and refusal alternate. Without
  `require_match` a 304 may serve a body that another caller fetched through a
  region the policy forbids.
* (M) A scrape that robots.txt or the SSRF guard refuses leaves a run without an
  archive, and a watch on it reports a change at every check.
* After a 304, extraction reads the archived HTML, which may be redacted; with
  `api_first=False` a conditional request may send the validators of a run that
  went to the API. `diff_last` of the CLI and the MCP server may compare runs of
  other callers.
* (M) A pool's `asyncio.Condition` belongs to the first event loop that waits on
  it. A later `*_sync` call of the same process with more than `MAX_PER_PATH`
  blocks at once gets RuntimeError "is bound to a different event loop" out of
  `connect()` (`Refused`). And a `*_sync` call inside a running loop whose
  suspended tasks hold every connection of the path waits for ever (`Starved`):
  `sync.py:61` blocks the loop that would give one back. `README.md:458` says
  these functions "run the coroutine to completion".
* (M) The action cache's key leaves out the page a run starts from: runs from
  different places overwrite and evict each other's script.
* (M) `scroll_until` ends at a round without growth, also when the scroll just did
  not reach the end of the page: at the beginning of a long page, or behind a batch
  taller than one scroll of 2000 pixels, it stops with more to load
  (`access/actions.py:211`; `:203` "until the page ... stops growing"). It never ends
  at its first round, although `:206` says it may.
* The last tier's result wins even when an earlier tier had a usable page
  (`access/router.py:110`).

## 7. Not modelled

The conversion of HTML, JSON, feeds and PDF, the reading of metadata, the
matching of robots rules, the recognition of personal data, host and address
classification, prompts, exports, command line and HTTP front ends: pure
functions of text or pure I/O. The migration of old tables and the S3 backend's
errors. Threads of the caller's own making that run several event loops in
parallel: the pool's sections would need thread locks, which it does not have.
`safe_get`'s redirects, an upstream of the proxy pool, and `max_cost_usd`, which
has the shape of `max_llm_calls`.

## 8. Plan

Order of the modules so far: crawl and queue with their proofs; streams and pool;
robots and spacing; runs and watches; tiers and proxies; extraction; agent; map;
chunker; the watch handle, redaction, page actions and event loops; the proofs of
pool, streams, spacing, scraping, learning and fetching, then of the watch service
and of the sequential algorithms. What is left:

1. Abstract specifications: a cache that evicts by failures, which both
   `HybridExtract` and `AgentReplay` implement; a resource pool for `DbPool`; each
   with the refinement as a theorem.
2. Models: redirects as part of the tiers and the sitemap reader; an upstream of
   the proxy pool; `max_cost_usd`; screenshots in the archive.
