--------------------------- MODULE CrawlScheduler ---------------------------
(***************************************************************************)
(* The recursive crawl (crawl/scheduler.py): one main loop that claims     *)
(* rows of the request queue and starts a task per row, the tasks, the     *)
(* in-memory URL deduplicator, the page budget, and the restart of a crawl *)
(* on the same queue after its process died.                               *)
(*                                                                         *)
(* An action is what one coroutine does between two awaits another         *)
(* coroutine can use.  A row is claimed by one task only (see OneOwner),   *)
(* so a task is named by its URL.                                          *)
(***************************************************************************)
EXTENDS RequestQueue

CONSTANTS
  Seeds,           \* seeds and sitemap URLs: enqueued at depth 0
  Scope,           \* URLs same_host_only lets in (every URL when it is off)
  NextPage,        \* [Url -> Url \cup {NoUrl}], the page's rel="next" target
  NoUrl,
  Links,           \* [Url -> SUBSET Url], what _extract_links returns
  Disallowed,      \* URLs robots.txt forbids
  Flaky,           \* URLs whose scrape may raise
  MaxDepth,        \* crawl(max_depth)
  MaxPages,        \* budget.max_pages; above Cardinality(Url) it is "None"
  MaxConcurrency,  \* config.max_concurrency
  MaxCrashes,      \* bound: how often the process may die
  MaxErrors        \* bound: how often an INSERT may raise in a task

ASSUME CrawlAssumption ==
  /\ Seeds \subseteq Scope /\ Scope \subseteq Url
  /\ NoUrl \notin Url
  /\ NextPage \in [Url -> Url \cup {NoUrl}]
  /\ Links \in [Url -> SUBSET Url]
  /\ Disallowed \subseteq Url /\ Flaky \subseteq Url
  /\ MaxDepth \in Nat /\ MaxPages \in Nat /\ MaxConcurrency \in Nat \ {0}
  /\ MaxCrashes \in Nat /\ MaxErrors \in Nat

VARIABLES
  main,        \* where the main coroutine is
  seen,        \* UrlDeduper._seen
  task,        \* [Url -> Stage], the worker that owns the row of the URL
  todo,        \* [Url -> set of <<target, depth>>], links still to enqueue
  adding,      \* [Url -> <<target, depth>> between dedup.add and INSERT]
  pagesDone,   \* pages_done
  inFlight,    \* in_flight
  \* What the outside saw or lost, for the properties only:
  scraped,     \* pages scrape_fn returned a result for
  delivered,   \* pages on_page was called for
  cut,         \* done pages whose link discovery was cut off
  lost,        \* targets marked seen whose INSERT never happened
  crashes, errors

crawlVars == <<main, seen, task, todo, adding, pagesDone, inFlight>>
seenVars == <<scraped, delivered, cut, lost, crashes, errors>>
vars == <<queueVars, crawlVars, seenVars>>

MaxAttempts == 2

MainState == {"seeding", "loop", "claiming", "none_claimed", "draining",
              "stopped", "crashed"}
BeforeDone == {"at_sem", "robots", "host_delay", "scraping", "returned",
               "raised"}
AfterDone == {"callback", "links", "insert"}
Stage == {"none"} \cup BeforeDone \cup AfterDone
Target == Url \X Nat

Live == {u \in Url : task[u] # "none"}
HoldsSem(u) == task[u] \notin {"none", "at_sem"}
BudgetSpent == pagesDone >= MaxPages

(* Faulty: complete, fail and enqueue do not take RequestQueue._lock. *)
LockFreeAlways == TRUE

(* RequestQueue._lock: between a SELECT that found nothing and the test of  *)
(* in_flight the main loop never suspends with the lock free, so no task    *)
(* completes a statement there.                                             *)
LockFree == main # "none_claimed"

Init ==
  /\ QueueInit
  /\ main = "seeding" /\ seen = {}
  /\ task = [u \in Url |-> "none"]
  /\ todo = [u \in Url |-> {}]
  /\ adding = [u \in Url |-> <<>>]
  /\ pagesDone = 0 /\ inFlight = 0
  /\ scraped = {} /\ delivered = {} /\ cut = {} /\ lost = {}
  /\ crashes = 0 /\ errors = 0

-----------------------------------------------------------------------------
(* The main coroutine.                                                      *)

(* _enqueue for a seed or a sitemap URL; no task runs yet. *)
Seed(u) ==
  /\ main = "seeding" /\ u \in Seeds \ seen
  /\ seen' = seen \cup {u}
  /\ Enqueue(u, 0)
  /\ UNCHANGED <<main, task, todo, adding, pagesDone, inFlight, seenVars>>

StartLoop ==
  /\ main = "seeding" /\ Seeds \subseteq seen
  /\ main' = "loop"
  /\ UNCHANGED <<queueVars, seen, task, todo, adding, pagesDone, inFlight,
                 seenVars>>

(* The budget is read before the claim is awaited, and not again after. *)
CheckBudget ==
  /\ main = "loop"
  /\ main' = IF BudgetSpent THEN "draining" ELSE "claiming"
  /\ UNCHANGED <<queueVars, seen, task, todo, adding, pagesDone, inFlight,
                 seenVars>>

ClaimRow(u) ==
  /\ main = "claiming"
  /\ Claim(u)
  /\ inFlight' = inFlight + 1
  /\ task' = [task EXCEPT ![u] = "at_sem"]
  /\ main' = "loop"
  /\ UNCHANGED <<seen, todo, adding, pagesDone, seenVars>>

(* The SELECT found no pending row ... *)
ClaimNone ==
  /\ main = "claiming" /\ NonePending
  /\ main' = "none_claimed"
  /\ UNCHANGED <<queueVars, seen, task, todo, adding, pagesDone, inFlight,
                 seenVars>>

(* ... so the crawl is over when nothing is in flight; else sleep and poll. *)
AfterNone ==
  /\ main = "none_claimed"
  /\ main' = IF inFlight = 0 THEN "draining" ELSE "loop"
  /\ UNCHANGED <<queueVars, seen, task, todo, adding, pagesDone, inFlight,
                 seenVars>>

(* Faulty: plain tasks instead of a TaskGroup. *)
StopWithoutWaiting ==
  /\ main = "draining"
  /\ main' = "stopped"
  /\ UNCHANGED <<queueVars, seen, task, todo, adding, pagesDone, inFlight,
                 seenVars>>

(* The TaskGroup waits for the tasks that were started. *)
Stop ==
  /\ main = "draining" /\ Live = {}
  /\ main' = "stopped"
  /\ UNCHANGED <<queueVars, seen, task, todo, adding, pagesDone, inFlight,
                 seenVars>>

-----------------------------------------------------------------------------
(* A task: bound(req) around worker(req).                                   *)

Goto(u, s) == task' = [task EXCEPT ![u] = s]

(* Faulty: in_flight is not decremented in a finally. *)
FinishUncounted(u) == Goto(u, "none") /\ UNCHANGED inFlight

(* Leaving worker frees the semaphore and runs bound's finally. *)
Finish(u) == Goto(u, "none") /\ inFlight' = inFlight - 1

EnterSem(u) ==
  /\ task[u] = "at_sem"
  /\ Cardinality({v \in Url : HoldsSem(v)}) < MaxConcurrency
  /\ Goto(u, "robots")
  /\ UNCHANGED <<queueVars, main, seen, todo, adding, pagesDone, inFlight,
                 seenVars>>

RobotsAllow(u) ==
  /\ task[u] = "robots" /\ u \notin Disallowed
  /\ Goto(u, "host_delay")
  /\ UNCHANGED <<queueVars, main, seen, todo, adding, pagesDone, inFlight,
                 seenVars>>

RobotsBlock(u) ==
  /\ task[u] = "robots" /\ u \in Disallowed /\ LockFree
  /\ Complete(u)
  /\ Finish(u)
  /\ UNCHANGED <<main, seen, todo, adding, pagesDone, seenVars>>

(* _respect_host_delay returned; scrape_fn is called. *)
StartScrape(u) ==
  /\ task[u] = "host_delay"
  /\ Goto(u, "scraping")
  /\ UNCHANGED <<queueVars, main, seen, todo, adding, pagesDone, inFlight,
                 seenVars>>

ScrapeReturns(u) ==
  /\ task[u] = "scraping"
  /\ Goto(u, "returned")
  /\ scraped' = scraped \cup {u}
  /\ UNCHANGED <<queueVars, main, seen, todo, adding, pagesDone, inFlight,
                 delivered, cut, lost, crashes, errors>>

ScrapeRaises(u) ==
  /\ task[u] = "scraping" /\ u \in Flaky
  /\ Goto(u, "raised")
  /\ UNCHANGED <<queueVars, main, seen, todo, adding, pagesDone, inFlight,
                 seenVars>>

MarkFailed(u) ==
  /\ task[u] = "raised" /\ LockFree
  /\ Fail(u, attempts[u] < MaxAttempts)
  /\ Finish(u)
  /\ UNCHANGED <<main, seen, todo, adding, pagesDone, seenVars>>

(* The page is completed and counted before anything else can fail. *)
MarkDone(u) ==
  /\ task[u] = "returned" /\ LockFree
  /\ Complete(u)
  /\ pagesDone' = pagesDone + 1
  /\ Goto(u, "callback")
  /\ UNCHANGED <<main, seen, todo, adding, inFlight, seenVars>>

(* Faulty: a page at max_depth is expanded too. *)
DiscoveredTooDeep(u) ==
  (IF NextPage[u] \in Scope THEN {<<NextPage[u], depth[u]>>} ELSE {})
    \cup (IF depth[u] <= MaxDepth
          THEN {<<v, depth[u] + 1>> : v \in Links[u] \cap Scope}
          ELSE {})

(* What discovery will enqueue: the rel="next" page at the same depth, and  *)
(* the links one deeper unless the page is at max_depth; both filtered by   *)
(* scope.                                                                   *)
Discovered(u) ==
  (IF NextPage[u] \in Scope THEN {<<NextPage[u], depth[u]>>} ELSE {})
    \cup (IF depth[u] < MaxDepth
          THEN {<<v, depth[u] + 1>> : v \in Links[u] \cap Scope}
          ELSE {})

(* Faulty: on_page is awaited inside the try of the fetch. *)
CallbackInFetchTry(u) ==
  /\ task[u] = "callback"
  /\ delivered' = delivered \cup {u}
  /\ todo' = [todo EXCEPT ![u] = Discovered(u)]
  /\ \E s \in {"links", "raised"} : Goto(u, s)
  /\ UNCHANGED <<queueVars, main, seen, adding, pagesDone, inFlight,
                 scraped, cut, lost, crashes, errors>>

(* on_page is called; that it returned or raised makes no difference. *)
Callback(u) ==
  /\ task[u] = "callback"
  /\ delivered' = delivered \cup {u}
  /\ todo' = [todo EXCEPT ![u] = Discovered(u)]
  /\ Goto(u, "links")
  /\ UNCHANGED <<queueVars, main, seen, adding, pagesDone, inFlight,
                 scraped, cut, lost, crashes, errors>>

(* rel="next" goes first; it is the shallower entry. *)
IsNextTodo(u, t) ==
  /\ t \in todo[u]
  /\ \A s \in todo[u] : t[2] <= s[2]

(* Faulty: a link already seen ends the discovery of the page. *)
DedupGivesUp(u, t) ==
  /\ task[u] = "links" /\ IsNextTodo(u, t)
  /\ \/ /\ t[1] \in seen
        /\ todo' = [todo EXCEPT ![u] = {}]
        /\ UNCHANGED <<seen, adding, task>>
     \/ /\ t[1] \notin seen
        /\ todo' = [todo EXCEPT ![u] = @ \ {t}]
        /\ seen' = seen \cup {t[1]}
        /\ adding' = [adding EXCEPT ![u] = t]
        /\ Goto(u, "insert")
  /\ UNCHANGED <<queueVars, main, pagesDone, inFlight, seenVars>>

(* dedup.add(n) under UrlDeduper._lock: True only for the first caller. *)
Dedup(u, t) ==
  /\ task[u] = "links" /\ IsNextTodo(u, t)
  /\ todo' = [todo EXCEPT ![u] = @ \ {t}]
  /\ \/ /\ t[1] \in seen
        /\ UNCHANGED <<seen, adding, task>>
     \/ /\ t[1] \notin seen
        /\ seen' = seen \cup {t[1]}
        /\ adding' = [adding EXCEPT ![u] = t]
        /\ Goto(u, "insert")
  /\ UNCHANGED <<queueVars, main, pagesDone, inFlight, seenVars>>

Insert(u) ==
  /\ task[u] = "insert" /\ LockFree
  /\ Enqueue(adding[u][1], adding[u][2])
  /\ adding' = [adding EXCEPT ![u] = <<>>]
  /\ Goto(u, "links")
  /\ UNCHANGED <<main, seen, todo, pagesDone, inFlight, seenVars>>

(* An INSERT that raises anything but IntegrityError ends the discovery of  *)
(* the page; the target stays in UrlDeduper._seen.                          *)
InsertError(u) ==
  /\ task[u] = "insert" /\ LockFree /\ errors < MaxErrors
  /\ errors' = errors + 1
  /\ lost' = lost \cup {adding[u][1]}
  /\ cut' = cut \cup {u}
  /\ adding' = [adding EXCEPT ![u] = <<>>]
  /\ todo' = [todo EXCEPT ![u] = {}]
  /\ Finish(u)
  /\ UNCHANGED <<queueVars, main, seen, pagesDone, scraped, delivered,
                 crashes>>

LinksDone(u) ==
  /\ task[u] = "links" /\ todo[u] = {}
  /\ Finish(u)
  /\ UNCHANGED <<queueVars, main, seen, todo, adding, pagesDone, seenVars>>

-----------------------------------------------------------------------------
(* The process dies, or an exception outside the guarded parts (a queue     *)
(* statement, can_fetch) makes the TaskGroup cancel everything and crawl()  *)
(* raise.  Only the queue survives.                                         *)
Crash ==
  /\ main \notin {"stopped", "crashed"} /\ crashes < MaxCrashes
  /\ main' = "crashed"
  /\ crashes' = crashes + 1
  /\ cut' = cut \cup {u \in Url : task[u] \in AfterDone}
  /\ lost' = lost \cup {adding[u][1] : u \in {v \in Url : task[v] = "insert"}}
  /\ task' = [u \in Url |-> "none"]
  /\ todo' = [u \in Url |-> {}]
  /\ adding' = [u \in Url |-> <<>>]
  /\ seen' = {} /\ pagesDone' = 0 /\ inFlight' = 0
  /\ UNCHANGED <<queueVars, scraped, delivered, errors>>

(* A new CrawlScheduler with the same crawl_id and seeds. *)
Restart ==
  /\ main = "crashed"
  /\ main' = "seeding"
  /\ UNCHANGED <<queueVars, seen, task, todo, adding, pagesDone, inFlight,
                 seenVars>>

Terminated == main = "stopped" /\ UNCHANGED vars

-----------------------------------------------------------------------------
MainStep ==
  \/ \E u \in Url : Seed(u) \/ ClaimRow(u)
  \/ StartLoop \/ CheckBudget \/ ClaimNone \/ AfterNone \/ Stop

TaskStep(u) ==
  \/ EnterSem(u) \/ RobotsAllow(u) \/ RobotsBlock(u) \/ StartScrape(u)
  \/ ScrapeReturns(u) \/ ScrapeRaises(u) \/ MarkFailed(u) \/ MarkDone(u)
  \/ Callback(u) \/ (\E t \in todo[u] : Dedup(u, t)) \/ Insert(u)
  \/ LinksDone(u)

Next ==
  \/ MainStep
  \/ \E u \in Url : TaskStep(u) \/ InsertError(u)
  \/ Crash \/ Restart
  \/ Terminated

Spec == Init /\ [][Next]_vars

(* The event loop runs every ready coroutine, and a scrape ends because     *)
(* every request has a timeout.  asyncio.Lock and asyncio.Semaphore are     *)
(* handed to their waiters in FIFO order, so a task that finds one of them  *)
(* free again and again gets it, although the main loop keeps taking the    *)
(* queue's lock: the tasks' fairness is strong.                             *)
Fairness ==
  /\ WF_vars(MainStep) /\ \A u \in Url : SF_vars(TaskStep(u))
  /\ WF_vars(Restart)   \* somebody restarts a crawl that died

FairSpec == Spec /\ Fairness
-----------------------------------------------------------------------------
(* Properties.                                                              *)

QueueTypeOK ==
  /\ status \in [Url -> Status] /\ depth \in [Url -> 0..MaxDepth]
  /\ attempts \in [Url -> 0..MaxAttempts] /\ rowid \in [Url -> Nat]

TaskTypeOK ==
  /\ task \in [Url -> Stage]
  /\ todo \in [Url -> SUBSET (Scope \X (0..MaxDepth))]
  /\ adding \in [Url -> (Scope \X (0..MaxDepth)) \cup {<<>>}]

MainTypeOK ==
  /\ main \in MainState /\ seen \subseteq Scope
  /\ pagesDone \in Nat /\ inFlight \in Nat

HistoryTypeOK ==
  /\ scraped \subseteq Url /\ delivered \subseteq Url
  /\ cut \subseteq Url /\ lost \subseteq Url
  /\ crashes \in 0..MaxCrashes /\ errors \in 0..MaxErrors

(* Every variable keeps its type; no row is deeper than max_depth or taken  *)
(* more than twice, and no URL out of scope is ever seen.                   *)
TypeOK == QueueTypeOK /\ TaskTypeOK /\ MainTypeOK /\ HistoryTypeOK

(* A row and the task that owns it agree: while a task works towards the    *)
(* page its row is in_flight, once it is past that its row is done, and     *)
(* without a crash a row is in_flight only under a task.                    *)
OneOwner ==
  \A u \in Url :
    /\ task[u] \in BeforeDone => status[u] = "in_flight"
    /\ task[u] \in AfterDone => status[u] = "done"
    /\ status[u] = "in_flight" /\ crashes = 0 => task[u] \in BeforeDone

(* in_flight counts exactly the tasks that have not left bound(): the main  *)
(* loop's test for the end of the crawl relies on it.                       *)
InFlightExact == inFlight = Cardinality(Live)

(* The crawl leaves its main loop only for a spent budget or when there is  *)
(* nothing to do and nothing running that could add work.                   *)
StopsOnlyWhenDry ==
  main \in {"draining", "stopped"} =>
    BudgetSpent \/ (NonePending /\ Live = {})

(* When crawl() returns, every page it completed and expanded has all its   *)
(* in-scope links in the queue, except targets another page claimed in the  *)
(* deduplicator and whose INSERT then failed or was cut by a crash.         *)
LinksFollowed ==
  main = "stopped" =>
    \A u \in delivered \ cut : \A t \in Discovered(u) :
      status[t[1]] # "absent" \/ t[1] \in lost

(* Without a crash, every page that was scraped successfully was handed to  *)
(* on_page by the time crawl() returns, and its row is done.                *)
ScrapedIsDelivered ==
  main = "stopped" /\ crashes = 0 =>
    \A u \in scraped : u \in delivered /\ status[u] = "done"

(* A page whose scrape returned is never scraped again and is handed to     *)
(* on_page at most once: not by a failing callback, not by a link found     *)
(* later, not by a restart.                                                 *)
OncePerPage ==
  [][\A u \in Url :
       /\ u \in scraped /\ task'[u] = "scraping" => task[u] = "scraping"
       /\ u \in delivered /\ task'[u] = "callback" => task[u] = "callback"]_vars

(* The rows go through the lifecycle the queue promises, across crashes.    *)
RL == INSTANCE RowLifecycle WITH row <- status, takes <- attempts
Lifecycle == RL!Spec

(* The crawl ends: every scrape ends and a row is taken at most twice.      *)
Terminates == <>(main = "stopped")

(* Every row of the queue is settled, unless the budget stops the crawl or  *)
(* the process dies (a row in flight is then forgotten).                    *)
EveryRowSettles ==
  \A u \in Url :
    status[u] = "pending" ~>
      (status[u] \in {"done", "failed"} \/ BudgetSpent \/ crashes > 0)

(* crawl() returns, having settled what it took.                            *)
CrawlEnds == Terminates /\ EveryRowSettles
=============================================================================
