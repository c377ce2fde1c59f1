---------------------------- MODULE PoliteWorker ----------------------------
(***************************************************************************)
(* What the workers of a crawl do before they fetch: a permit of the       *)
(* crawl's semaphore, the robots.txt of the origin, fetched under a lock   *)
(* per origin and cached (RobotsGate, policy/robots.py), and a slot that   *)
(* spaces the fetches of one host (_respect_host_delay,                    *)
(* crawl/scheduler.py).                                                    *)
(*                                                                         *)
(* A worker suspends for the semaphore, for the origin's lock, for the     *)
(* fetch of robots.txt and for its slot, and nowhere else: once the parser *)
(* is known, can_fetch, crawl_delay and the section under _host_lock run   *)
(* without a suspension.  Time is an integer that advances on its own.     *)
(*                                                                         *)
(* The scrape that follows asks once more: scrape() (api.py) makes a gate  *)
(* of its own for the one page, with an empty cache, and fetches the same  *)
(* robots.txt again.  That answer may differ from the crawl's.             *)
(***************************************************************************)
EXTENDS Integers, FiniteSets

CONSTANTS
  Task,            \* one per claimed row; a retry of a row is another
  Origin,          \* scheme://host, the key of the robots cache
  Host,            \* the key of _host_next_ok
  OriginOf,        \* [Task -> Origin]
  HostOf,          \* [Origin -> Host]
  Forbidden,       \* tasks whose URL the robots.txt of its origin forbids
  Delay,           \* [Origin -> Nat], Crawl-delay in its robots.txt
  None,            \* no task
  Permits,         \* config.max_concurrency
  MaxTime,         \* bound: when the clock stops for idle tasks
  MaxRaises        \* bound: robots fetches that raise past both excepts

ASSUME PoliteAssumption ==
  /\ IsFiniteSet(Task) /\ None \notin Task
  /\ OriginOf \in [Task -> Origin] /\ HostOf \in [Origin -> Host]
  /\ Forbidden \subseteq Task /\ Delay \in [Origin -> Nat]
  /\ Permits \in Nat \ {0} /\ MaxTime \in Nat /\ MaxRaises \in Nat

VARIABLES
  at,        \* [Task -> TaskState]
  holder,    \* [Origin -> Task or None], who holds the lock in _locks
  cache,     \* [Origin -> Parser], _cache; "none" when absent
  obeyed,    \* [Task -> Parser], the parser the worker went by
  now,       \* time.monotonic()
  nextOk,    \* [Host -> Nat], _host_next_ok
  slot,      \* [Task -> Nat], my_slot
  raises

politeVars == <<at, holder, cache, obeyed, now, nextOk, slot, raises>>

Permit == {"lookup", "at_lock", "fetching", "sleeping", "asking", "scraping"}
Over == {"done", "blocked", "refused", "failed", "raised"}
TaskState == {"at_sem"} \cup Permit \cup Over
HoldSem == {t \in Task : at[t] \in Permit}

(* 200 with a text body, 200 with something else (an HTML page, another     *)
(* content type), another status, a transport error, an SSRF block.         *)
Response == {"robots", "wall", "status", "unreachable", "ssrf"}

(* What a parser forbids: what the file says, or nothing (parse([])).       *)
Parser == {"none", "rules", "allow_all"}

ParserOf(r) == IF r = "robots" THEN "rules" ELSE "allow_all"

(* can_fetch *)
Forbids(p, t) == p = "rules" /\ t \in Forbidden

(* crawl_delay *)
DelayUnder(p, t) == IF p = "rules" THEN Delay[OriginOf[t]] ELSE 0

PoliteInit ==
  /\ at = [t \in Task |-> "at_sem"]
  /\ holder = [o \in Origin |-> None]
  /\ cache = [o \in Origin |-> "none"]
  /\ obeyed = [t \in Task |-> "none"]
  /\ now = 0
  /\ nextOk = [h \in Host |-> 0]
  /\ slot = [t \in Task |-> 0]
  /\ raises = 0
-----------------------------------------------------------------------------
TakePermit(t) ==
  /\ at[t] = "at_sem" /\ Cardinality(HoldSem) < Permits
  /\ at' = [at EXCEPT ![t] = "lookup"]
  /\ UNCHANGED <<holder, cache, obeyed, now, nextOk, slot, raises>>

(* Faulty: the next slot counts from now, not from the slot just taken. *)
TakeSlotFromNow(t, p) ==
  LET h == HostOf[OriginOf[t]]
      my == IF now > nextOk[h] THEN now ELSE nextOk[h]
  IN  /\ slot' = [slot EXCEPT ![t] = my]
      /\ nextOk' = [nextOk EXCEPT ![h] = now + DelayUnder(p, t)]

(* The section under _host_lock. *)
TakeSlot(t, p) ==
  LET h == HostOf[OriginOf[t]]
      my == IF now > nextOk[h] THEN now ELSE nextOk[h]
  IN  /\ slot' = [slot EXCEPT ![t] = my]
      /\ nextOk' = [nextOk EXCEPT ![h] = my + DelayUnder(p, t)]

(* The worker goes on with parser p: it leaves a URL that is forbidden, and *)
(* reserves its slot for the others.                                        *)
GoBy(t, p) ==
  /\ obeyed' = [obeyed EXCEPT ![t] = p]
  /\ \/ /\ Forbids(p, t)
        /\ at' = [at EXCEPT ![t] = "blocked"]
        /\ UNCHANGED <<nextOk, slot>>
     \/ /\ ~Forbids(p, t)
        /\ at' = [at EXCEPT ![t] = "sleeping"]
        /\ TakeSlot(t, p)

(* The cache is looked at before the lock ... *)
Lookup(t) ==
  /\ at[t] = "lookup"
  /\ LET o == OriginOf[t] IN
       \/ cache[o] # "none" /\ GoBy(t, cache[o])
       \/ /\ cache[o] = "none"
          /\ at' = [at EXCEPT ![t] = "at_lock"]
          /\ UNCHANGED <<obeyed, nextOk, slot>>
  /\ UNCHANGED <<holder, cache, now, raises>>

(* Faulty: no second look at the cache under the lock. *)
LockedOnce(t) ==
  /\ at[t] = "at_lock" /\ holder[OriginOf[t]] = None
  /\ at' = [at EXCEPT ![t] = "fetching"]
  /\ holder' = [holder EXCEPT ![OriginOf[t]] = t]
  /\ UNCHANGED <<cache, obeyed, now, nextOk, slot, raises>>

(* ... and again under it. *)
Locked(t) ==
  /\ at[t] = "at_lock"
  /\ LET o == OriginOf[t] IN
       /\ holder[o] = None
       /\ \/ /\ cache[o] # "none"
             /\ GoBy(t, cache[o])
             /\ UNCHANGED holder
          \/ /\ cache[o] = "none"
             /\ at' = [at EXCEPT ![t] = "fetching"]
             /\ holder' = [holder EXCEPT ![o] = t]
             /\ UNCHANGED <<obeyed, nextOk, slot>>
  /\ UNCHANGED <<cache, now, raises>>

(* The fetch ended in a response or in an error that is caught. *)
FetchEnds(t, r) ==
  /\ at[t] = "fetching"
  /\ cache' = [cache EXCEPT ![OriginOf[t]] = ParserOf(r)]
  /\ holder' = [holder EXCEPT ![OriginOf[t]] = None]
  /\ GoBy(t, ParserOf(r))
  /\ UNCHANGED <<now, raises>>

(* Faulty: the lock is not freed when the fetch raises. *)
FetchRaisesHolding(t) ==
  /\ at[t] = "fetching" /\ raises < MaxRaises
  /\ raises' = raises + 1
  /\ at' = [at EXCEPT ![t] = "raised"]
  /\ UNCHANGED <<holder, cache, obeyed, now, nextOk, slot>>

(* Any other exception, or a cancellation, leaves the cache alone. *)
FetchRaises(t) ==
  /\ at[t] = "fetching" /\ raises < MaxRaises
  /\ raises' = raises + 1
  /\ at' = [at EXCEPT ![t] = "raised"]
  /\ holder' = [holder EXCEPT ![OriginOf[t]] = None]
  /\ UNCHANGED <<cache, obeyed, now, nextOk, slot>>

(* The sleep is over at the slot or, when the loop is busy, later. *)
SleepOver(t) ==
  /\ at[t] = "sleeping" /\ now >= slot[t]
  /\ at' = [at EXCEPT ![t] = "asking"]
  /\ UNCHANGED <<holder, cache, obeyed, now, nextOk, slot, raises>>

(* scrape() asks its own gate, which nobody else has: no lock to wait for,  *)
(* an empty cache, and nothing kept.                                        *)
OwnGate(t, r) ==
  /\ at[t] = "asking"
  /\ at' = [at EXCEPT ![t] = IF Forbids(ParserOf(r), t) THEN "refused"
                                                        ELSE "scraping"]
  /\ UNCHANGED <<holder, cache, obeyed, now, nextOk, slot, raises>>

(* Any other exception leaves scrape(), and the worker settles the row.     *)
OwnGateRaises(t) ==
  /\ at[t] = "asking" /\ raises < MaxRaises
  /\ raises' = raises + 1
  /\ at' = [at EXCEPT ![t] = "failed"]
  /\ UNCHANGED <<holder, cache, obeyed, now, nextOk, slot>>

ScrapeEnds(t) ==
  /\ at[t] = "scraping"
  /\ at' = [at EXCEPT ![t] = "done"]
  /\ UNCHANGED <<holder, cache, obeyed, now, nextOk, slot, raises>>

TimeMatters ==
  now < MaxTime \/ \E t \in Task : at[t] = "sleeping" /\ now < slot[t]

Tick ==
  /\ TimeMatters
  /\ now' = now + 1
  /\ UNCHANGED <<at, holder, cache, obeyed, nextOk, slot, raises>>

(* Time goes on, but nobody waits for it. *)
Idle == ~TimeMatters /\ UNCHANGED politeVars

AllOver == \A t \in Task : at[t] \in Over

Proceed(t) ==
  \/ TakePermit(t) \/ Lookup(t) \/ Locked(t)
  \/ (\E r \in Response : FetchEnds(t, r) \/ OwnGate(t, r))
  \/ SleepOver(t) \/ ScrapeEnds(t)

PoliteNext ==
  \/ \E t \in Task : Proceed(t) \/ FetchRaises(t) \/ OwnGateRaises(t)
  \/ Tick \/ Idle

PoliteSpec == PoliteInit /\ [][PoliteNext]_politeVars

(* Every request ends (httpx timeout), time passes, and asyncio's locks and *)
(* semaphores serve their waiters in FIFO order.                            *)
FairPoliteSpec ==
  PoliteSpec /\ WF_politeVars(Tick) /\ \A t \in Task : SF_politeVars(Proceed(t))
-----------------------------------------------------------------------------
(* Every variable has its type, and the crawl keeps to max_concurrency.     *)
PoliteTypeOK ==
  /\ at \in [Task -> TaskState]
  /\ holder \in [Origin -> Task \cup {None}]
  /\ cache \in [Origin -> Parser] /\ obeyed \in [Task -> Parser]
  /\ now \in Nat /\ nextOk \in [Host -> Nat] /\ slot \in [Task -> Nat]
  /\ raises \in 0..MaxRaises
  /\ Cardinality(HoldSem) <= Permits

(* The gate of the crawl tells all its workers the same of an origin,       *)
(* however the fetches of robots.txt race, fail or raise, and what it       *)
(* forbids is not scraped: the gate that scrape() makes for one page may    *)
(* hear something else, but it can only refuse more.                        *)
RulesKept ==
  \A t \in Task : obeyed[t] # "none" =>
    /\ obeyed[t] = cache[OriginOf[t]]
    /\ at[t] \in {"sleeping", "asking", "scraping", "done"} =>
         ~Forbids(obeyed[t], t)

(* scheduler.py:175: the slots of two fetches of one host are as far apart  *)
(* as the earlier one's crawl-delay asks, in whatever order the workers     *)
(* reserve and wake up, also when they come from two origins of the host.   *)
HasSlot(t) ==
  at[t] \in {"sleeping", "asking", "refused", "failed", "scraping", "done"}
SlotsSpaced ==
  \A t, u \in Task :
    /\ t # u /\ HasSlot(t) /\ HasSlot(u)
    /\ HostOf[OriginOf[t]] = HostOf[OriginOf[u]]
    => \/ slot[u] >= slot[t] + DelayUnder(obeyed[t], t)
       \/ slot[t] >= slot[u] + DelayUnder(obeyed[u], u)

(* Every worker gets through, or out by its exception: the locks, the       *)
(* semaphore and the slots starve nobody.                                   *)
EveryoneServed == <>AllOver
=============================================================================
