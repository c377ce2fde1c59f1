------------------------------ MODULE TierFetch ------------------------------
(***************************************************************************)
(* Concurrent fetches through one TierRouter: the ladder of tiers          *)
(* (access/router.py), the HTTP tier with its retries (http_tier.py), the  *)
(* browser tier (browser_tier.py) on the shared browser (browser_pool.py), *)
(* the agent tier (agent_tier.py), and the proxy pool.                     *)
(*                                                                         *)
(* A step ends where the code waits for the network, the browser or the    *)
(* browser's lock.                                                         *)
(***************************************************************************)
EXTENDS ProxyPool

CONSTANTS
  Fetcher,     \* concurrent callers of TierRouter.fetch
  StartTier,   \* [Fetcher -> Tier], start_tier
  MaxTier,     \* Budget.max_tier
  HttpRetries, \* http_retries
  None,        \* no fetcher
  MaxFaults    \* bound: cancellations and faults of the browser

HTTP == 0
HTTP_SESSIONED == 1
BROWSER == 2
BROWSER_STEALTH == 3
AGENT == 4

ASSUME FetchAssumption ==
  /\ None \notin Fetcher
  /\ MaxTier \in HTTP..AGENT /\ StartTier \in [Fetcher -> HTTP..MaxTier]
  /\ HttpRetries \in Nat /\ MaxFaults \in Nat

VARIABLES
  pc, tier, attempt, proxy,   \* of each fetcher
  browser,   \* BrowserPool._browser: "none", "up", or "dead": it crashed
  driver,    \* BrowserPool._pw is set
  lock,      \* holder of BrowserPool._lock
  orphans,   \* Playwright drivers that run and nobody can stop
  excused,   \* history: launches cancelled and closings that failed
  faults

fetchVars == <<pc, tier, attempt, proxy>>
browserVars == <<browser, driver, lock, orphans, excused>>
vars == <<poolVars, fetchVars, browserVars, faults>>

Init ==
  /\ PoolInit
  /\ pc = [f \in Fetcher |-> "idle"]
  /\ tier = StartTier
  /\ attempt = [f \in Fetcher |-> 0]
  /\ proxy = [f \in Fetcher |-> Direct]
  /\ browser = "none" /\ driver = FALSE /\ lock = None
  /\ orphans = 0 /\ excused = 0 /\ faults = 0

Goto(f, s) == pc' = [pc EXCEPT ![f] = s]

(* Where a tier begins. *)
Entry(t) == IF t = AGENT THEN "agent" ELSE "get_proxy"

(* _should_escalate; a 304 is a page. *)
Escalates(o) == o # "page"

(* _RETRYABLE_STATUS and httpx.HTTPError *)
Retryable(o) == o \in {"limited", "down"}

Begin(f) ==
  /\ pc[f] = "idle"
  /\ Goto(f, Entry(StartTier[f]))
  /\ UNCHANGED <<poolVars, tier, attempt, proxy, browserVars, faults>>

(* The fetch is over: what f held locally is gone. *)
EndFetch(f) ==
  /\ Goto(f, "idle")
  /\ tier' = [tier EXCEPT ![f] = StartTier[f]]
  /\ attempt' = [attempt EXCEPT ![f] = 0]
  /\ proxy' = [proxy EXCEPT ![f] = Direct]

NextTier(f) ==
  /\ tier' = [tier EXCEPT ![f] = @ + 1]
  /\ Goto(f, Entry(tier[f] + 1))
  /\ attempt' = [attempt EXCEPT ![f] = 0]
  /\ proxy' = [proxy EXCEPT ![f] = Direct]

(* Faulty: after the last tier the ladder is climbed again. *)
TierEndsOver(f, o) ==
  \/ Escalates(o) /\ tier[f] < MaxTier /\ NextTier(f)
  \/ /\ Escalates(o) /\ tier[f] = MaxTier
     /\ Goto(f, Entry(StartTier[f]))
     /\ tier' = [tier EXCEPT ![f] = StartTier[f]]
     /\ UNCHANGED <<attempt, proxy>>
  \/ ~Escalates(o) /\ EndFetch(f)

(* The tier's result is o: climb, or return it. *)
TierEnds(f, o) ==
  \/ Escalates(o) /\ tier[f] < MaxTier /\ NextTier(f)
  \/ ~(Escalates(o) /\ tier[f] < MaxTier) /\ EndFetch(f)

AskProxy(f) ==
  /\ pc[f] = "get_proxy"
  /\ \E p \in Proxy \cup {Direct} :
       GetProxy(p) /\ proxy' = [proxy EXCEPT ![f] = p]
  /\ Goto(f, IF tier[f] \in {HTTP, HTTP_SESSIONED} THEN "request" ELSE "ensure")
  /\ UNCHANGED <<tier, attempt, browserVars, faults>>

(* The HTTP tier: another attempt through the same proxy, after a pause ... *)
Retry(f, o) ==
  /\ pc[f] = "request"
  /\ Retryable(o) /\ attempt[f] < HttpRetries
  /\ attempt' = [attempt EXCEPT ![f] = @ + 1]
  /\ UNCHANGED <<poolVars, pc, tier, proxy, browserVars, faults>>

(* ... or the last answer is reported to the pool. *)
HttpEnds(f, o) ==
  /\ pc[f] = "request"
  /\ ~(Retryable(o) /\ attempt[f] < HttpRetries)
  /\ Report(proxy[f], o)
  /\ TierEnds(f, o)
  /\ UNCHANGED <<browserVars, faults>>
-----------------------------------------------------------------------------
(* BrowserPool._ensure_browser.                                             *)
FindBrowser(f) ==
  /\ pc[f] = "ensure" /\ browser # "none"
  /\ Goto(f, "context")
  /\ UNCHANGED <<poolVars, tier, attempt, proxy, browserVars, faults>>

AwaitLock(f) ==
  /\ pc[f] = "ensure" /\ browser = "none" /\ lock # None
  /\ Goto(f, "waiting")
  /\ UNCHANGED <<poolVars, tier, attempt, proxy, browserVars, faults>>

(* The lock is had: a second look, then the launch. *)
LockBrowser(f) ==
  /\ \/ pc[f] = "ensure" /\ browser = "none"
     \/ pc[f] = "waiting"
  /\ lock = None
  /\ \/ browser # "none" /\ Goto(f, "context") /\ UNCHANGED lock
     \/ browser = "none" /\ Goto(f, "launching") /\ lock' = f
  /\ UNCHANGED <<poolVars, tier, attempt, proxy, browser, driver, orphans,
                 excused, faults>>

(* A driver left over from a closing that failed is forgotten.              *)
Launched(f) ==
  /\ pc[f] = "launching"
  /\ browser' = "up" /\ driver' = TRUE /\ lock' = None
  /\ orphans' = IF driver THEN orphans + 1 ELSE orphans
  /\ Goto(f, "context")
  /\ UNCHANGED <<poolVars, tier, attempt, proxy, excused, faults>>

(* Faulty: the driver keeps running when the launch fails. *)
LaunchFailsLeaking(f) ==
  /\ pc[f] = "launching" /\ faults < MaxFaults
  /\ faults' = faults + 1
  /\ lock' = None /\ orphans' = orphans + 1
  /\ TierEnds(f, "local")
  /\ UNCHANGED <<poolVars, browser, driver, excused>>

(* The driver is stopped again; the tier answers "browser-launch", which is *)
(* not reported to the pool.                                                *)
LaunchFails(f) ==
  /\ pc[f] = "launching" /\ faults < MaxFaults
  /\ faults' = faults + 1
  /\ lock' = None
  /\ TierEnds(f, "local")
  /\ UNCHANGED <<poolVars, browser, driver, orphans, excused>>

(* A dead browser has no contexts; nothing ever replaces it. *)
ContextFails(f) ==
  /\ pc[f] = "context" /\ browser = "dead"
  /\ TierEnds(f, "local")
  /\ UNCHANGED <<poolVars, browserVars, faults>>

PageEnds(f, o) ==
  /\ pc[f] = "context" /\ browser = "up"
  /\ Report(proxy[f], o)
  /\ TierEnds(f, o)
  /\ UNCHANGED <<browserVars, faults>>

(* The agent tier has a browser of its own and takes no proxy. *)
AgentEnds(f, o) ==
  /\ pc[f] = "agent"
  /\ TierEnds(f, o)
  /\ UNCHANGED <<poolVars, browserVars, faults>>

(* page.goto or an action raises: so does fetch. *)
AgentRaises(f) ==
  /\ pc[f] = "agent"
  /\ EndFetch(f)
  /\ UNCHANGED <<poolVars, browserVars, faults>>
-----------------------------------------------------------------------------
(* The caller is cancelled where it waits: nothing is reported.  A launch   *)
(* is not cleaned up, since only Exception is caught.                       *)
Cancel(f) ==
  /\ pc[f] \notin {"idle", "get_proxy"} /\ faults < MaxFaults
  /\ faults' = faults + 1
  /\ EndFetch(f)
  /\ IF pc[f] = "launching"
     THEN lock' = None /\ orphans' = orphans + 1 /\ excused' = excused + 1
     ELSE UNCHANGED <<lock, orphans, excused>>
  /\ UNCHANGED <<poolVars, browser, driver>>

BrowserDies ==
  /\ browser = "up" /\ faults < MaxFaults
  /\ faults' = faults + 1
  /\ browser' = "dead"
  /\ UNCHANGED <<poolVars, fetchVars, driver, lock, orphans, excused>>

(* TierRouter.aclose, by the owner, who waits for the fetches to be over.   *)
Close ==
  /\ \A f \in Fetcher : pc[f] = "idle"
  /\ browser # "none" \/ driver
  /\ browser' = "none" /\ driver' = FALSE
  /\ UNCHANGED <<poolVars, fetchVars, lock, orphans, excused, faults>>

(* browser.close() raises: the driver is not stopped. *)
CloseFails ==
  /\ \A f \in Fetcher : pc[f] = "idle"
  /\ browser # "none" /\ faults < MaxFaults
  /\ faults' = faults + 1
  /\ browser' = "none" /\ excused' = excused + 1
  /\ UNCHANGED <<poolVars, fetchVars, driver, lock, orphans>>

Tick == PoolTick /\ UNCHANGED <<fetchVars, browserVars, faults>>
-----------------------------------------------------------------------------
HttpOutcome == Outcome \ {"local"}
BrowserOutcome == Outcome \ {"local", "limited"}
AgentOutcome == {"page", "thin", "wall", "empty", "local"}

BrowserStep(f) ==
  \/ FindBrowser(f) \/ AwaitLock(f) \/ LockBrowser(f) \/ Launched(f)
  \/ ContextFails(f) \/ \E o \in BrowserOutcome : PageEnds(f, o)

FetchStep(f) ==
  \/ AskProxy(f)
  \/ \E o \in HttpOutcome : Retry(f, o) \/ HttpEnds(f, o)
  \/ BrowserStep(f)
  \/ \E o \in AgentOutcome : AgentEnds(f, o)
  \/ AgentRaises(f)

Next ==
  \/ \E f \in Fetcher : Begin(f) \/ FetchStep(f) \/ LaunchFails(f) \/ Cancel(f)
  \/ BrowserDies \/ Close \/ CloseFails \/ Tick

Spec == Init /\ [][Next]_vars

(* Requests and launches end: httpx, goto and launch have timeouts.         *)
FairSpec == Spec /\ \A f \in Fetcher : WF_vars(FetchStep(f))
-----------------------------------------------------------------------------
(* Every variable has its type; a fetch stays within its budget's tiers.    *)
TypeOK ==
  /\ PoolTypeOK
  /\ pc \in [Fetcher -> {"idle", "get_proxy", "request", "ensure", "waiting",
                         "launching", "context", "agent"}]
  /\ tier \in [Fetcher -> HTTP..MaxTier]
  /\ attempt \in [Fetcher -> 0..HttpRetries]
  /\ proxy \in [Fetcher -> Proxy \cup {Direct}]
  /\ browser \in {"none", "up", "dead"} /\ driver \in BOOLEAN
  /\ lock \in Fetcher \cup {None}
  /\ {orphans, excused, faults} \subseteq 0..MaxFaults

(* Round-robin (proxy_pool.py:44): an endpoint that is not in cooldown is   *)
(* passed over by at most one handing-out of each of the others, however    *)
(* fetches interleave and endpoints are parked and come back.               *)
RotationFair ==
  \A p \in Proxy : bypassed[p] <= NumProxies - 1

(* proxy_pool.py:12 "parks the proxy immediately": no fetch is given an     *)
(* endpoint within the cooldown of a hard block, unless a fetch through it  *)
(* that was under way has since succeeded.                                  *)
BurnedStaysOut ==
  [][\A f \in Fetcher : \A p \in Proxy :
       proxy'[f] = p /\ proxy[f] # p => burnedAt[p] = Never]_vars

(* A driver process is out of reach only after a launch was cancelled or a  *)
(* closing failed: no failed launch, crash of the browser or interleaving   *)
(* of fetches leaves one.                                                   *)
OrphansExcused == orphans <= excused

(* Every fetch ends, whatever the tiers answer, who is cancelled and when   *)
(* the browser dies.                                                        *)
EveryFetchEnds == \A f \in Fetcher : pc[f] # "idle" ~> pc[f] = "idle"
=============================================================================
