------------------------------ MODULE WatchHandle ------------------------------
(***************************************************************************)
(* One Watch (watch.py) that several coroutines share: check() and         *)
(* refresh() over the scrapes of ScrapeRuns, serialised by the handle's    *)
(* lock.  Other callers scrape the URL meanwhile, with requests of their   *)
(* own.                                                                    *)
(***************************************************************************)
EXTENDS ScrapeRuns, DistinctSeqs

CONSTANTS
  Task,       \* the coroutines
  Other,      \* other callers, one scrape each
  MaxRuns     \* bound: scrapes

ASSUME HandleAssumption ==
  /\ Caller = Task \cup Other /\ Task \cap Other = {}
  /\ MaxRuns \in Nat

VARIABLES
  queue,    \* of the lock; the first holds it
  tpc,      \* [Task -> "idle", "refresh", "check", "diff"]
  prev,     \* [Task -> Nat], prev_run_id; 0 for none
  last,     \* last_run_id
  chain     \* history: <<prev, run>> of each result

handleVars == <<queue, tpc, prev, last, chain>>
vars == <<runVars, handleVars>>

Init ==
  /\ RunsInit
  /\ queue = <<>> /\ last = 0 /\ chain = <<>>
  /\ tpc = [t \in Task |-> "idle"] /\ prev = [t \in Task |-> 0]

Goto(t, s) == tpc' = [tpc EXCEPT ![t] = s]

(* Faulty: there is no lock. *)
HoldsUnlocked(t) == \E n \in DOMAIN queue : queue[n] = t

Holds(t) == queue # <<>> /\ Head(queue) = t

(* check() or refresh() is called and waits for its turn: asyncio.Lock is   *)
(* first come, first served.                                                *)
Call(t) ==
  /\ tpc[t] = "idle" /\ Len(runs) + Len(queue) < MaxRuns
  /\ \E op \in {"check", "refresh"} : Goto(t, op)
  /\ queue' = Append(queue, t)
  /\ UNCHANGED <<runVars, prev, last, chain>>

(* It has the lock, reads last_run_id, and scrapes. *)
Acquire(t) ==
  /\ Holds(t) /\ tpc[t] \in {"check", "refresh"} /\ job[t] = NoJob
  /\ prev' = [prev EXCEPT ![t] = last]
  /\ BeginScrape(t)
  /\ UNCHANGED <<page, now, changes, failures, queue, tpc, last, chain>>

(* The lock is released. *)
Leave(t) ==
  /\ \E n \in 1..Len(queue) : queue[n] = t /\ queue' = Without(queue, n)
  /\ Goto(t, "idle") /\ prev' = [prev EXCEPT ![t] = 0]
  /\ SetJob(t, NoJob)

(* The run becomes the handle's last. *)
Remember(t) ==
  /\ last' = job[t].run
  /\ chain' = Append(chain, <<prev[t], job[t].run>>)
  /\ Leave(t)
  /\ UNCHANGED <<page, now, runs, changes, failures>>

CheckReturns(t) ==
  /\ tpc[t] = "check" /\ job[t].stage = "over"
  /\ Remember(t)

(* A first run has nothing to be compared with ... *)
RefreshReturns(t) ==
  /\ tpc[t] = "refresh" /\ job[t].stage = "over" /\ prev[t] = 0
  /\ Remember(t)

(* ... and diff_runs reads the two rows and their archives. *)
BeginDiff(t) ==
  /\ tpc[t] = "refresh" /\ job[t].stage = "over" /\ prev[t] # 0
  /\ Goto(t, "diff")
  /\ UNCHANGED <<runVars, queue, prev, last, chain>>

DiffReturns(t) == tpc[t] = "diff" /\ Remember(t)

(* Faulty: the lock is kept. *)
ScrapeRaisesKeeping(t) ==
  /\ tpc[t] \in {"check", "refresh"} /\ job[t].stage = "raised"
  /\ Goto(t, "idle") /\ prev' = [prev EXCEPT ![t] = 0]
  /\ SetJob(t, NoJob)
  /\ UNCHANGED <<page, now, runs, changes, failures, queue, last, chain>>

(* scrape() raises, and so does the call. *)
ScrapeRaises(t) ==
  /\ tpc[t] \in {"check", "refresh"} /\ job[t].stage = "raised"
  /\ Leave(t)
  /\ UNCHANGED <<page, now, runs, changes, failures, last, chain>>

(* The coroutine is cancelled where it waits: for the lock, the scrape or   *)
(* the diff.                                                                *)
Cancel(t) ==
  /\ tpc[t] # "idle" /\ failures < MaxFailures
  /\ failures' = failures + 1
  /\ Leave(t)
  /\ UNCHANGED <<page, now, runs, changes, last, chain>>

(* Somebody else scrapes the URL. *)
ScrapeToo(u) ==
  /\ job[u] = NoJob /\ Len(runs) + Len(queue) < MaxRuns
  /\ BeginScrape(u)
  /\ UNCHANGED <<page, now, changes, failures, handleVars>>

HandleStep(t) ==
  \/ Acquire(t) \/ CheckReturns(t) \/ RefreshReturns(t) \/ BeginDiff(t)
  \/ DiffReturns(t) \/ ScrapeRaises(t)
  \/ ScrapeStep(t) /\ UNCHANGED handleVars

Next ==
  \/ \E t \in Task : Call(t) \/ HandleStep(t) \/ Cancel(t)
  \/ \E u \in Other : ScrapeToo(u) \/ (ScrapeStep(u) /\ UNCHANGED handleVars)
  \/ \E x \in Caller :
       /\ x \in Task => tpc[x] # "diff"
       /\ ScrapeFails(x) /\ UNCHANGED handleVars
  \/ World /\ UNCHANGED handleVars

Spec == Init /\ [][Next]_vars

(* Every request ends, and the loop runs every ready coroutine.             *)
FairSpec == Spec /\ \A t \in Task : WF_vars(HandleStep(t))
-----------------------------------------------------------------------------
(* Every variable has its type.                                             *)
TypeOK ==
  /\ RunsTypeOK
  /\ queue \in Seq(Task) /\ last \in 0..Len(runs)
  /\ tpc \in [Task -> {"idle", "refresh", "check", "diff"}]
  /\ prev \in [Task -> 0..Len(runs)]

(* watch.py:69 "two concurrent refreshes would both read the same           *)
(* last_run_id, diff against the same old run": what a result is compared   *)
(* with is the result before it, and an older run, so that no change the    *)
(* handle saw is reported twice or skipped.                                 *)
RefreshesChain ==
  \A n \in DOMAIN chain :
    /\ chain[n][1] = (IF n = 1 THEN 0 ELSE chain[n - 1][2])
    /\ chain[n][1] < chain[n][2]

(* Every call returns or raises, whatever became of those before it: the    *)
(* lock is released on every path.                                          *)
EveryCallEnds == \A t \in Task : tpc[t] # "idle" ~> tpc[t] = "idle"
=============================================================================
