----------------------------- MODULE CrawlProofs -----------------------------
(***************************************************************************)
(* Proofs about CrawlScheduler, for every site, scope, depth, budget,      *)
(* concurrency and number of crashes, and about what its workers wait for  *)
(* before they fetch, PoliteWorker, for all sets of tasks, origins and     *)
(* hosts, every Crawl-delay and every number of permits.                   *)
(***************************************************************************)
EXTENDS CrawlScheduler, PoliteWorker, FiniteSetTheorems, TLAPS

(* A pending row still has an attempt left: claim may count it. *)
AttemptsLeft == \A u \in Url : status[u] = "pending" => attempts[u] < MaxAttempts
AbsentFresh == \A u \in Url : status[u] = "absent" => attempts[u] = 0

(* A task inside _enqueue's INSERT has a target; links are kept only by a   *)
(* task that is following them.                                             *)
AddingOK == \A u \in Url :
  /\ task[u] = "insert" => adding[u] \in Scope \X (0..MaxDepth)
  /\ task[u] \notin {"links", "insert"} => todo[u] = {}

(* in_flight is read right after an empty SELECT; a crawl that stopped has  *)
(* no task.                                                                 *)
EmptyClaim == main = "none_claimed" => NonePending
StoppedIdle == main = "stopped" => Live = {}

(* A scraped page is on its way to "done", or was orphaned there by a crash. *)
ScrapedOnce == \A u \in scraped :
  \/ status[u] = "done"
  \/ status[u] = "in_flight" /\ task[u] \in {"none", "returned"}
DeliveredDone == \A u \in delivered : status[u] = "done" /\ task[u] # "callback"
ScrapedToDelivered == crashes = 0 =>
  \A u \in scraped :
    status[u] = "done" => task[u] = "callback" \/ u \in delivered

(* A seen URL has a row, is about to get one, or is lost. *)
InQueueOrLost(x) == status[x] # "absent" \/ x \in lost
BeingAdded(x) == \E v \in Url : task[v] = "insert" /\ adding[v][1] = x
SeenAccounted == \A x \in seen : InQueueOrLost(x) \/ BeingAdded(x)
LinksAccounted == \A u \in delivered \ cut : \A t \in Discovered(u) :
  InQueueOrLost(t[1]) \/ t[1] \in seen \/ t \in todo[u]

IInv ==
  /\ TypeOK /\ AttemptsLeft /\ AbsentFresh /\ AddingOK
  /\ OneOwner /\ InFlightExact
  /\ EmptyClaim /\ StoppedIdle /\ StopsOnlyWhenDry
  /\ ScrapedOnce /\ DeliveredDone /\ ScrapedToDelivered
  /\ SeenAccounted /\ LinksAccounted

-----------------------------------------------------------------------------
LEMMA InitIInv == Init => IInv
<1> SUFFICES ASSUME Init PROVE IInv
  OBVIOUS
<1> USE DEF Init, QueueInit
<1>1. TypeOK
  BY CrawlAssumption DEF TypeOK, QueueTypeOK, TaskTypeOK, MainTypeOK,
     HistoryTypeOK, Status, MainState, Stage, MaxAttempts
<1>2. AttemptsLeft /\ AbsentFresh /\ AddingOK
  BY DEF AttemptsLeft, AbsentFresh, AddingOK
<1>3. OneOwner
  BY DEF OneOwner, BeforeDone, AfterDone
<1>4. InFlightExact
  <2>1. Live = {}
    BY DEF Live
  <2>. QED BY <2>1, FS_EmptySet DEF InFlightExact
<1>5. EmptyClaim /\ StoppedIdle /\ StopsOnlyWhenDry
  BY DEF EmptyClaim, StoppedIdle, StopsOnlyWhenDry
<1>6. ScrapedOnce /\ DeliveredDone /\ ScrapedToDelivered
  BY DEF ScrapedOnce, DeliveredDone, ScrapedToDelivered
<1>7. SeenAccounted /\ LinksAccounted
  BY DEF SeenAccounted, LinksAccounted
<1>. QED BY <1>1, <1>2, <1>3, <1>4, <1>5, <1>6, <1>7 DEF IInv

(* What discovery finds is in scope and not deeper than max_depth. *)
LEMMA DiscoveredType ==
  ASSUME TypeOK, NEW u \in Url
  PROVE  Discovered(u) \subseteq Scope \X (0..MaxDepth)
<1>1. depth[u] \in 0..MaxDepth /\ MaxDepth \in Nat
  BY CrawlAssumption DEF TypeOK, QueueTypeOK
<1>2. depth[u] < MaxDepth => depth[u] + 1 \in 0..MaxDepth
  BY <1>1
<1>. QED BY <1>1, <1>2 DEF Discovered

(* The next AUTOINCREMENT id is a number. *)
LEMMA NextIdType == NextId \in Nat
<1>1. IsFiniteSet({u \in Url : status[u] # "absent"})
  BY UrlAssumption, FS_Subset
<1>. QED BY <1>1, FS_CardinalityType DEF NextId

(* The queue's columns keep their types under each statement. *)
LEMMA EnqueueType ==
  ASSUME QueueTypeOK, NEW x \in Url, NEW d \in 0..MaxDepth, Enqueue(x, d)
  PROVE  QueueTypeOK'
<1>1. CASE status[x] = "absent"
  BY <1>1, NextIdType DEF QueueTypeOK, Enqueue, queueVars, Status
<1>2. CASE status[x] # "absent"
  BY <1>2 DEF QueueTypeOK, Enqueue, queueVars
<1>. QED BY <1>1, <1>2

LEMMA ClaimType ==
  ASSUME QueueTypeOK, AttemptsLeft, NEW x \in Url, Claim(x)
  PROVE  QueueTypeOK'
<1>1. attempts[x] + 1 \in 0..MaxAttempts
  BY DEF QueueTypeOK, AttemptsLeft, Claim, IsOldestPending, MaxAttempts
<1>. QED BY <1>1 DEF QueueTypeOK, Claim, Status

LEMMA SettleType ==
  ASSUME QueueTypeOK, NEW x \in Url, NEW r \in BOOLEAN,
         Complete(x) \/ Fail(x, r)
  PROVE  QueueTypeOK'
  BY DEF QueueTypeOK, Complete, Fail, Status

(* The counter of running tasks under a task's start and end. *)
LEMMA LiveFinite == IsFiniteSet(Live)
  BY UrlAssumption, FS_Subset DEF Live

LEMMA LiveStart ==
  ASSUME TypeOK, InFlightExact, NEW u \in Url, task[u] = "none",
         inFlight' = inFlight + 1, task' = [task EXCEPT ![u] = "at_sem"]
  PROVE  InFlightExact' /\ inFlight' \in Nat
<1>1. Live' = Live \cup {u} /\ u \notin Live
  BY DEF Live, TypeOK, TaskTypeOK
<1>2. Cardinality(Live') = Cardinality(Live) + 1
  BY <1>1, LiveFinite, FS_AddElement
<1>. QED BY <1>2 DEF InFlightExact, TypeOK, MainTypeOK

LEMMA LiveFinish ==
  ASSUME TypeOK, InFlightExact, NEW u \in Url, task[u] # "none", Finish(u)
  PROVE  InFlightExact' /\ inFlight' \in Nat
<1>1. Live' = Live \ {u} /\ u \in Live
  BY DEF Live, TypeOK, TaskTypeOK, Finish, Goto
<1>2. Cardinality(Live') = Cardinality(Live) - 1
  BY <1>1, LiveFinite, FS_RemoveElement
<1>3. Cardinality(Live') \in Nat
  BY <1>1, LiveFinite, FS_RemoveElement, FS_CardinalityType
<1>. QED BY <1>2, <1>3 DEF InFlightExact, Finish

LEMMA LiveGoto ==
  ASSUME TypeOK, InFlightExact, UNCHANGED inFlight,
         \A u \in Url : (task[u] = "none") = (task'[u] = "none")
  PROVE  InFlightExact'
<1>1. Live' = Live
  BY DEF Live
<1>. QED BY <1>1 DEF InFlightExact


-----------------------------------------------------------------------------
(* Next, with the steps that move only the main loop or only one task kept  *)
(* together.                                                                *)
MainMove ==
  \/ StartLoop \/ CheckBudget \/ ClaimNone \/ AfterNone \/ Stop \/ Restart
  \/ Terminated \/ UNCHANGED vars

TaskMove(u) ==
  EnterSem(u) \/ RobotsAllow(u) \/ StartScrape(u) \/ ScrapeRaises(u)

Settling(u) == RobotsBlock(u) \/ MarkFailed(u)

Cases ==
  \/ MainMove \/ Crash
  \/ \E u \in Url :
       \/ Seed(u) \/ ClaimRow(u) \/ TaskMove(u) \/ Settling(u)
       \/ ScrapeReturns(u) \/ MarkDone(u) \/ Callback(u)
       \/ (\E t \in todo[u] : Dedup(u, t))
       \/ Insert(u) \/ InsertError(u) \/ LinksDone(u)

LEMMA StepCases == [Next]_vars => Cases
  BY DEF Next, MainStep, TaskStep, Cases, MainMove, TaskMove, Settling

LEMMA MainMoveFrame ==
  MainMove => UNCHANGED <<queueVars, seen, task, todo, adding, pagesDone,
                          inFlight, seenVars>>
  BY DEF MainMove, StartLoop, CheckBudget, ClaimNone, AfterNone, Stop, Restart,
     Terminated, vars, crawlVars

LEMMA TaskMoveFrame ==
  ASSUME NEW u \in Url, TaskMove(u)
  PROVE  /\ task[u] \in {"at_sem", "robots", "host_delay", "scraping"}
         /\ \E s \in {"robots", "host_delay", "scraping", "raised"} :
              /\ Goto(u, s)
              /\ s = "scraping" => task[u] = "host_delay"
         /\ UNCHANGED <<queueVars, main, seen, todo, adding, pagesDone,
                        inFlight, seenVars>>
  BY DEF TaskMove, EnterSem, RobotsAllow, StartScrape, ScrapeRaises

LEMMA SettlingFrame ==
  ASSUME NEW u \in Url, Settling(u)
  PROVE  /\ task[u] \in {"robots", "raised"} /\ LockFree /\ Finish(u)
         /\ UNCHANGED <<main, seen, todo, adding, pagesDone, seenVars>>
         /\ UNCHANGED <<depth, attempts, rowid>>
         /\ \E s \in {"pending", "done", "failed"} :
              /\ status' = [status EXCEPT ![u] = s]
              /\ s = "pending" => attempts[u] < MaxAttempts
  BY DEF Settling, RobotsBlock, MarkFailed, Complete, Fail

(* Types survive every step. *)
LEMMA QueueTypeStep == IInv /\ [Next]_vars => QueueTypeOK'
<1> SUFFICES ASSUME IInv, [Next]_vars PROVE QueueTypeOK'
  OBVIOUS
<1>0. QueueTypeOK /\ AttemptsLeft /\ AddingOK
  BY DEF IInv, TypeOK
<1>1. ASSUME NEW u \in Url, Seed(u) PROVE QueueTypeOK'
  <2>1. Enqueue(u, 0) /\ 0 \in 0..MaxDepth
    BY <1>1, CrawlAssumption DEF Seed
  <2>. QED BY <1>0, <2>1, EnqueueType
<1>2. ASSUME NEW u \in Url, ClaimRow(u) PROVE QueueTypeOK'
  BY <1>0, <1>2, ClaimType DEF ClaimRow
<1>3. ASSUME NEW u \in Url, Settling(u) PROVE QueueTypeOK'
  BY <1>0, <1>3, SettlingFrame DEF QueueTypeOK, Status
<1>4. ASSUME NEW u \in Url, MarkDone(u) PROVE QueueTypeOK'
  BY <1>0, <1>4 DEF MarkDone, Complete, QueueTypeOK, Status
<1>5. ASSUME NEW u \in Url, Insert(u) PROVE QueueTypeOK'
  <2>1. adding[u][1] \in Url /\ adding[u][2] \in 0..MaxDepth
    BY <1>0, <1>5, CrawlAssumption DEF Insert, AddingOK
  <2>. QED BY <1>0, <1>5, <2>1, EnqueueType DEF Insert
<1>6. CASE UNCHANGED queueVars
  BY <1>0, <1>6 DEF QueueTypeOK, queueVars
<1>. QED
  BY <1>1, <1>2, <1>3, <1>4, <1>5, <1>6, StepCases, MainMoveFrame,
     TaskMoveFrame
  DEF Cases, Crash, ScrapeReturns, Callback, Dedup, InsertError, LinksDone

LEMMA TaskTypeStep == IInv /\ [Next]_vars => TaskTypeOK'
<1> SUFFICES ASSUME IInv, [Next]_vars PROVE TaskTypeOK'
  OBVIOUS
<1>0. TypeOK /\ TaskTypeOK /\ AddingOK
  BY DEF IInv, TypeOK
<1> USE DEF TaskTypeOK, Stage, BeforeDone, AfterDone
<1>1. ASSUME NEW u \in Url, \/ ClaimRow(u) \/ ScrapeReturns(u) \/ MarkDone(u)
                            \/ LinksDone(u)
      PROVE  TaskTypeOK'
  BY <1>0, <1>1 DEF ClaimRow, ScrapeReturns, MarkDone, LinksDone, Finish, Goto
<1>2. ASSUME NEW u \in Url, TaskMove(u) PROVE TaskTypeOK'
  BY <1>0, <1>2, TaskMoveFrame DEF Goto
<1>3. ASSUME NEW u \in Url, Settling(u) PROVE TaskTypeOK'
  BY <1>0, <1>3, SettlingFrame DEF Finish, Goto
<1>4. ASSUME NEW u \in Url, Callback(u) PROVE TaskTypeOK'
  BY <1>0, <1>4, DiscoveredType DEF Callback, Goto
<1>5. ASSUME NEW u \in Url, NEW t \in todo[u], Dedup(u, t) PROVE TaskTypeOK'
  BY <1>0, <1>5 DEF Dedup, Goto
<1>6. ASSUME NEW u \in Url, Insert(u) \/ InsertError(u) PROVE TaskTypeOK'
  BY <1>0, <1>6 DEF Insert, InsertError, Finish, Goto
<1>7. CASE Crash
  BY <1>7 DEF Crash
<1>8. CASE UNCHANGED <<task, todo, adding>>
  BY <1>0, <1>8
<1>. QED
  BY <1>1, <1>2, <1>3, <1>4, <1>5, <1>6, <1>7, <1>8, StepCases, MainMoveFrame
  DEF Cases, Seed

LEMMA HistoryTypeStep == IInv /\ [Next]_vars => HistoryTypeOK'
<1> SUFFICES ASSUME IInv, [Next]_vars PROVE HistoryTypeOK'
  OBVIOUS
<1>0. HistoryTypeOK /\ \A u \in Url : task[u] = "insert" => adding[u][1] \in Url
  BY CrawlAssumption DEF IInv, TypeOK, AddingOK
<1> USE CrawlAssumption DEF HistoryTypeOK
<1>1. ASSUME NEW u \in Url, ScrapeReturns(u) \/ Callback(u) \/ InsertError(u)
      PROVE  HistoryTypeOK'
  BY <1>0, <1>1 DEF ScrapeReturns, Callback, InsertError
<1>2. CASE Crash
  BY <1>0, <1>2 DEF Crash
<1>3. CASE UNCHANGED seenVars
  BY <1>0, <1>3 DEF seenVars
<1>. QED
  BY <1>1, <1>2, <1>3, StepCases, MainMoveFrame, TaskMoveFrame, SettlingFrame
  DEF Cases, Seed, ClaimRow, MarkDone, Dedup, Insert, LinksDone

(* A row and its task agree after every step.                               *)
LEMMA OneOwnerStep == IInv /\ [Next]_vars => OneOwner'
<1> SUFFICES ASSUME IInv, [Next]_vars PROVE OneOwner'
  OBVIOUS
<1>0. QueueTypeOK /\ TaskTypeOK /\ MainTypeOK /\ HistoryTypeOK /\ OneOwner
  BY DEF IInv, TypeOK
<1> USE DEF OneOwner, QueueTypeOK, TaskTypeOK, BeforeDone, AfterDone, Goto
<1>1. ASSUME NEW u \in Url, ClaimRow(u) PROVE OneOwner'
  BY <1>0, <1>1 DEF ClaimRow, Claim, IsOldestPending, seenVars
<1>2. ASSUME NEW u \in Url, TaskMove(u) PROVE OneOwner'
  BY <1>0, <1>2, TaskMoveFrame DEF queueVars, seenVars
<1>3. ASSUME NEW u \in Url, Settling(u) PROVE OneOwner'
  BY ZenonT(30), <1>0, <1>3, SettlingFrame DEF Finish, seenVars
<1>4. ASSUME NEW u \in Url, ScrapeReturns(u) \/ Callback(u) PROVE OneOwner'
  BY <1>0, <1>4 DEF ScrapeReturns, Callback, queueVars
<1>5. ASSUME NEW u \in Url, MarkDone(u) PROVE OneOwner'
  BY <1>0, <1>5 DEF MarkDone, Complete, seenVars
<1>6. ASSUME NEW u \in Url, NEW t \in todo[u], Dedup(u, t) PROVE OneOwner'
  BY <1>0, <1>6 DEF Dedup, queueVars, seenVars
<1>7. ASSUME NEW u \in Url, Insert(u) PROVE OneOwner'
  BY <1>0, <1>7 DEF Insert, Enqueue, queueVars, seenVars
<1>8. ASSUME NEW u \in Url, InsertError(u) \/ LinksDone(u) PROVE OneOwner'
  BY <1>0, <1>8 DEF InsertError, LinksDone, Finish, queueVars, seenVars
<1>9. ASSUME NEW u \in Url, Seed(u) PROVE OneOwner'
  BY <1>0, <1>9 DEF Seed, Enqueue, queueVars, seenVars
<1>10. CASE Crash
  <2>1. crashes' # 0
    BY <1>0, <1>10, CrawlAssumption DEF Crash, HistoryTypeOK
  <2>. QED BY <1>0, <1>10, <2>1 DEF Crash
<1>11. CASE UNCHANGED <<queueVars, task, seenVars>>
  BY <1>0, <1>11 DEF queueVars, seenVars
<1>. QED
  BY <1>1, <1>2, <1>3, <1>4, <1>5, <1>6, <1>7, <1>8, <1>9, <1>10, <1>11,
     StepCases, MainMoveFrame
  DEF Cases

(* in_flight counts the running tasks after every step.                     *)
LEMMA InFlightStep ==
  IInv /\ [Next]_vars => InFlightExact' /\ inFlight' \in Nat
<1> SUFFICES ASSUME IInv, [Next]_vars
             PROVE  InFlightExact' /\ inFlight' \in Nat
  OBVIOUS
<1>0. TypeOK /\ TaskTypeOK /\ inFlight \in Nat /\ InFlightExact /\ OneOwner
  BY DEF IInv, TypeOK, MainTypeOK
<1>1. ASSUME NEW u \in Url, ClaimRow(u) PROVE InFlightExact' /\ inFlight' \in Nat
  <2>1. task[u] = "none"
    BY <1>0, <1>1 DEF ClaimRow, Claim, IsOldestPending, OneOwner, TaskTypeOK,
       Stage
  <2>. QED BY <1>0, <1>1, <2>1, LiveStart DEF ClaimRow
<1>2. ASSUME NEW u \in Url, Settling(u) \/ InsertError(u) \/ LinksDone(u)
      PROVE  InFlightExact' /\ inFlight' \in Nat
  <2>1. Finish(u) /\ task[u] # "none"
    BY <1>2, SettlingFrame DEF InsertError, LinksDone
  <2>. QED BY <1>0, <2>1, LiveFinish
<1>3. ASSUME NEW u \in Url,
             \/ ScrapeReturns(u) \/ MarkDone(u) \/ Callback(u) \/ Insert(u)
             \/ \E t \in todo[u] : Dedup(u, t)
      PROVE  InFlightExact' /\ inFlight' \in Nat
  <2>1. UNCHANGED inFlight /\ task[u] # "none"
    BY <1>3 DEF ScrapeReturns, MarkDone, Callback, Insert, Dedup
  <2>2. \E s \in Stage \ {"none"} : Goto(u, s) \/ UNCHANGED task
    BY <1>3 DEF ScrapeReturns, MarkDone, Callback, Insert, Dedup, Stage,
       BeforeDone, AfterDone
  <2>. QED BY <1>0, <2>1, <2>2, LiveGoto DEF Goto, TaskTypeOK
<1>4. ASSUME NEW u \in Url, TaskMove(u) PROVE InFlightExact' /\ inFlight' \in Nat
  BY <1>0, <1>4, TaskMoveFrame, LiveGoto DEF Goto, TaskTypeOK
<1>5. CASE Crash
  <2>1. Live' = {} /\ inFlight' = 0
    BY <1>5 DEF Crash, Live
  <2>. QED BY <2>1, FS_EmptySet DEF InFlightExact
<1>6. CASE UNCHANGED <<task, inFlight>>
  BY <1>0, <1>6, LiveGoto
<1>. QED
  BY <1>1, <1>2, <1>3, <1>4, <1>5, <1>6, StepCases, MainMoveFrame
  DEF Cases, Seed

LEMMA MainTypeStep == IInv /\ [Next]_vars => MainTypeOK'
<1> SUFFICES ASSUME IInv, [Next]_vars PROVE MainTypeOK'
  OBVIOUS
<1>0. MainTypeOK /\ TaskTypeOK
  BY DEF IInv, TypeOK
<1>1. inFlight' \in Nat
  BY InFlightStep
<1>2. main' \in MainState
  BY <1>0, StepCases, TaskMoveFrame, SettlingFrame
  DEF MainTypeOK, MainState, Cases, MainMove, StartLoop, CheckBudget,
      ClaimNone, AfterNone, Stop, Restart, Terminated, vars, crawlVars, Crash,
      Seed, ClaimRow, ScrapeReturns, MarkDone, Callback, Dedup, Insert,
      InsertError, LinksDone
<1>3. seen' \subseteq Scope
  BY <1>0, CrawlAssumption, StepCases, TaskMoveFrame, SettlingFrame,
     MainMoveFrame
  DEF MainTypeOK, TaskTypeOK, Cases, Crash, Seed, ClaimRow, ScrapeReturns,
      MarkDone, Callback, Dedup, Insert, InsertError, LinksDone
<1>4. pagesDone' \in Nat
  BY <1>0, StepCases, TaskMoveFrame, SettlingFrame, MainMoveFrame
  DEF MainTypeOK, Cases, Crash, Seed, ClaimRow, ScrapeReturns, MarkDone,
      Callback, Dedup, Insert, InsertError, LinksDone
<1>. QED BY <1>1, <1>2, <1>3, <1>4 DEF MainTypeOK

(* The attempts counted on a row allow the next claim.                      *)
LEMMA AttemptsStep ==
  IInv /\ [Next]_vars => AttemptsLeft' /\ AbsentFresh'
<1> SUFFICES ASSUME IInv, [Next]_vars PROVE AttemptsLeft' /\ AbsentFresh'
  OBVIOUS
<1>0. /\ QueueTypeOK /\ TaskTypeOK /\ OneOwner /\ AttemptsLeft /\ AbsentFresh
      /\ AddingOK
  BY DEF IInv, TypeOK
<1> USE DEF AttemptsLeft, AbsentFresh, QueueTypeOK, MaxAttempts
<1>1. ASSUME NEW u \in Url, Seed(u) \/ Insert(u)
      PROVE  AttemptsLeft' /\ AbsentFresh'
  BY <1>0, <1>1 DEF Seed, Insert, Enqueue, queueVars
<1>2. ASSUME NEW u \in Url, ClaimRow(u) PROVE AttemptsLeft' /\ AbsentFresh'
  BY <1>0, <1>2 DEF ClaimRow, Claim, IsOldestPending
<1>3. ASSUME NEW u \in Url, Settling(u) PROVE AttemptsLeft' /\ AbsentFresh'
  BY <1>0, <1>3, SettlingFrame
<1>4. ASSUME NEW u \in Url, MarkDone(u) PROVE AttemptsLeft' /\ AbsentFresh'
  BY <1>0, <1>4 DEF MarkDone, Complete
<1>5. CASE UNCHANGED queueVars
  BY <1>0, <1>5 DEF queueVars
<1>. QED
  BY <1>1, <1>2, <1>3, <1>4, <1>5, StepCases, MainMoveFrame, TaskMoveFrame
  DEF Cases, Crash, ScrapeReturns, Callback, Dedup, InsertError, LinksDone

LEMMA AddingStep == IInv /\ [Next]_vars => AddingOK'
<1> SUFFICES ASSUME IInv, [Next]_vars PROVE AddingOK'
  OBVIOUS
<1>0. TaskTypeOK /\ AddingOK /\ OneOwner /\ QueueTypeOK
  BY DEF IInv, TypeOK
<1> USE DEF AddingOK, TaskTypeOK, Goto
<1>1. ASSUME NEW u \in Url, ClaimRow(u) PROVE AddingOK'
  BY <1>0, <1>1 DEF ClaimRow, Claim, IsOldestPending, OneOwner, AfterDone
<1>2. ASSUME NEW u \in Url, TaskMove(u) PROVE AddingOK'
  BY <1>0, <1>2, TaskMoveFrame
<1>3. ASSUME NEW u \in Url, Settling(u) PROVE AddingOK'
  BY <1>0, <1>3, SettlingFrame DEF Finish
<1>4. ASSUME NEW u \in Url, ScrapeReturns(u) \/ MarkDone(u) \/ Callback(u)
      PROVE  AddingOK'
  BY <1>0, <1>4 DEF ScrapeReturns, MarkDone, Callback
<1>5. ASSUME NEW u \in Url, NEW t \in todo[u], Dedup(u, t) PROVE AddingOK'
  BY <1>0, <1>5 DEF Dedup
<1>6. ASSUME NEW u \in Url, Insert(u) \/ InsertError(u) \/ LinksDone(u)
      PROVE  AddingOK'
  BY <1>0, <1>6 DEF Insert, InsertError, LinksDone, Finish
<1>7. CASE Crash
  BY <1>7 DEF Crash
<1>8. CASE UNCHANGED <<task, todo, adding>>
  BY <1>0, <1>8
<1>. QED
  BY <1>1, <1>2, <1>3, <1>4, <1>5, <1>6, <1>7, <1>8, StepCases, MainMoveFrame
  DEF Cases, Seed

(* What a task's step leaves of the main loop: only a task that runs takes  *)
(* one, it does not move the main loop, and pages_done does not shrink.     *)
TaskAction(u) ==
  \/ TaskMove(u) \/ Settling(u) \/ ScrapeReturns(u) \/ MarkDone(u)
  \/ Callback(u) \/ (\E t \in todo[u] : Dedup(u, t)) \/ Insert(u)
  \/ InsertError(u) \/ LinksDone(u)

LEMMA TaskFrame ==
  ASSUME MainTypeOK, TaskTypeOK, NEW u \in Url, TaskAction(u)
  PROVE  /\ task[u] # "none"
         /\ main' = main
         /\ pagesDone' \in Nat /\ pagesDone' >= pagesDone
         /\ ~LockFree => UNCHANGED status
         /\ \A v \in Url \ {u} : task[v] = "none" => task'[v] = "none"
<1>1. task[u] # "none" /\ main' = main
  BY TaskMoveFrame, SettlingFrame
  DEF TaskAction, ScrapeReturns, MarkDone, Callback, Dedup, Insert,
      InsertError, LinksDone
<1>2. pagesDone' \in Nat /\ pagesDone' >= pagesDone
  BY TaskMoveFrame, SettlingFrame
  DEF MainTypeOK, TaskAction, ScrapeReturns, MarkDone, Callback, Dedup,
      Insert, InsertError, LinksDone
<1>3. ~LockFree => UNCHANGED status
  BY TaskMoveFrame, SettlingFrame
  DEF TaskAction, ScrapeReturns, MarkDone, Callback, Dedup, Insert,
      InsertError, LinksDone, queueVars
<1>4. \/ UNCHANGED task
      \/ \E s \in Stage : task' = [task EXCEPT ![u] = s]
  BY TaskMoveFrame, SettlingFrame
  DEF TaskAction, ScrapeReturns, MarkDone, Callback, Dedup, Insert,
      InsertError, LinksDone, Finish, Goto, Stage, BeforeDone, AfterDone
<1>. QED BY <1>1, <1>2, <1>3, <1>4 DEF TaskTypeOK

(* The main loop leaves for a spent budget or an exhausted queue.           *)
LEMMA StopsStep ==
  IInv /\ [Next]_vars => EmptyClaim' /\ StoppedIdle' /\ StopsOnlyWhenDry'
<1> DEFINE Goal == EmptyClaim' /\ StoppedIdle' /\ StopsOnlyWhenDry'
<1> SUFFICES ASSUME IInv, [Next]_vars PROVE Goal
  OBVIOUS
<1>0. /\ MainTypeOK /\ TaskTypeOK /\ InFlightExact
      /\ EmptyClaim /\ StoppedIdle /\ StopsOnlyWhenDry
  BY DEF IInv, TypeOK
<1>1. ASSUME NEW u \in Url, TaskAction(u) PROVE Goal
  <2>1. task[u] # "none" /\ main' = main
    BY <1>0, <1>1, TaskFrame
  <2>2. u \in Live
    BY <2>1 DEF Live
  <2>3. EmptyClaim'
    BY <1>0, <1>1, <2>1, TaskFrame DEF EmptyClaim, NonePending, LockFree
  <2>4. StoppedIdle'
    BY <1>0, <2>1, <2>2 DEF StoppedIdle
  <2>5. StopsOnlyWhenDry'
    <3>1. BudgetSpent => BudgetSpent'
      BY <1>0, <1>1, TaskFrame, CrawlAssumption DEF BudgetSpent, MainTypeOK
    <3>. QED BY <1>0, <2>1, <2>2, <3>1 DEF StopsOnlyWhenDry
  <2>. QED BY <2>3, <2>4, <2>5
<1>2. CASE AfterNone
  <2>1. inFlight = 0 => Live = {}
    BY <1>0, LiveFinite, FS_EmptySet DEF InFlightExact
  <2>2. NonePending' /\ Live' = Live /\ main' \in {"draining", "loop"}
    BY <1>0, <1>2 DEF AfterNone, EmptyClaim, NonePending, Live, queueVars
  <2>. QED BY <1>2, <2>1, <2>2
       DEF AfterNone, EmptyClaim, StoppedIdle, StopsOnlyWhenDry
<1>3. CASE MainMove /\ ~AfterNone
  BY <1>0, <1>3, MainMoveFrame
  DEF MainMove, StartLoop, CheckBudget, ClaimNone, Stop, Restart, Terminated,
      vars, crawlVars, queueVars, EmptyClaim, StoppedIdle, StopsOnlyWhenDry,
      NonePending, Live, BudgetSpent
<1>4. CASE Crash \/ \E u \in Url : Seed(u) \/ ClaimRow(u)
  BY <1>4 DEF Crash, Seed, ClaimRow, EmptyClaim, StoppedIdle, StopsOnlyWhenDry
<1>. QED BY <1>1, <1>2, <1>3, <1>4, StepCases DEF Cases, TaskAction

(* A scraped page is not scraped again, a delivered one not called again.   *)
LEMMA ScrapedStep ==
  IInv /\ [Next]_vars => ScrapedOnce' /\ DeliveredDone' /\ ScrapedToDelivered'
<1> DEFINE Goal == ScrapedOnce' /\ DeliveredDone' /\ ScrapedToDelivered'
<1> SUFFICES ASSUME IInv, [Next]_vars PROVE Goal
  OBVIOUS
<1>0. /\ QueueTypeOK /\ TaskTypeOK /\ HistoryTypeOK /\ OneOwner
      /\ ScrapedOnce /\ DeliveredDone /\ ScrapedToDelivered
  BY DEF IInv, TypeOK
<1> USE DEF QueueTypeOK, TaskTypeOK, HistoryTypeOK, OneOwner, BeforeDone,
    AfterDone, ScrapedOnce, DeliveredDone, ScrapedToDelivered, Goto
<1>1. ASSUME NEW u \in Url, ClaimRow(u) PROVE Goal
  BY <1>0, <1>1 DEF ClaimRow, Claim, IsOldestPending, seenVars
<1>2. ASSUME NEW u \in Url, TaskMove(u) PROVE Goal
  BY ZenonT(30), <1>0, <1>2, TaskMoveFrame DEF queueVars, seenVars
<1>3. ASSUME NEW u \in Url, Settling(u) PROVE Goal
  <2>1. u \notin scraped /\ u \notin delivered
    BY <1>0, <1>3, SettlingFrame
  <2>2. \A v \in Url \ {u} : status'[v] = status[v]
    BY <1>0, <1>3, SettlingFrame
  <2>3. Finish(u) /\ UNCHANGED seenVars
    BY <1>3, SettlingFrame
  <2>. QED BY <1>0, <2>1, <2>2, <2>3 DEF Finish, seenVars
<1>4. ASSUME NEW u \in Url, ScrapeReturns(u) PROVE Goal
  BY <1>0, <1>4 DEF ScrapeReturns, queueVars
<1>5. ASSUME NEW u \in Url, MarkDone(u) PROVE Goal
  BY <1>0, <1>5 DEF MarkDone, Complete, seenVars
<1>6. ASSUME NEW u \in Url, Callback(u) PROVE Goal
  BY <1>0, <1>6 DEF Callback, queueVars
<1>7. ASSUME NEW u \in Url, NEW t \in todo[u], Dedup(u, t) PROVE Goal
  BY <1>0, <1>7 DEF Dedup, queueVars, seenVars
<1>8. ASSUME NEW u \in Url, Insert(u) \/ Seed(u) PROVE Goal
  BY ZenonT(30), <1>0, <1>8 DEF Insert, Seed, Enqueue, queueVars, seenVars
<1>9. ASSUME NEW u \in Url, InsertError(u) \/ LinksDone(u) PROVE Goal
  BY <1>0, <1>9 DEF InsertError, LinksDone, Finish, queueVars, seenVars
<1>10. CASE Crash
  BY <1>0, <1>10, CrawlAssumption DEF Crash, queueVars
<1>11. CASE UNCHANGED <<queueVars, task, seenVars>>
  BY <1>0, <1>11 DEF queueVars, seenVars
<1>. QED
  BY <1>1, <1>2, <1>3, <1>4, <1>5, <1>6, <1>7, <1>8, <1>9, <1>10, <1>11,
     StepCases, MainMoveFrame
  DEF Cases

-----------------------------------------------------------------------------
(* Rows are for ever and so is their depth; a lost target stays lost.       *)
LEMMA RowStable ==
  ASSUME IInv, [Next]_vars, NEW x \in Url
  PROVE  /\ status[x] # "absent" => status'[x] # "absent" /\ depth'[x] = depth[x]
         /\ InQueueOrLost(x) => InQueueOrLost(x)'
<1>0. QueueTypeOK
  BY DEF IInv, TypeOK
<1>1. status[x] # "absent" => status'[x] # "absent" /\ depth'[x] = depth[x]
  BY SMTT(20), <1>0, StepCases, MainMoveFrame, TaskMoveFrame, SettlingFrame
  DEF QueueTypeOK, Cases, Crash, Seed, ClaimRow, Claim, ScrapeReturns, MarkDone,
      Complete, Callback, Dedup, Insert, InsertError, LinksDone, Enqueue,
      queueVars
<1>2. lost \subseteq lost'
  BY StepCases, MainMoveFrame, TaskMoveFrame, SettlingFrame
  DEF Cases, Crash, Seed, ClaimRow, ScrapeReturns, MarkDone, Callback, Dedup,
      Insert, InsertError, LinksDone, seenVars
<1>. QED BY <1>1, <1>2 DEF InQueueOrLost

(* What an INSERT under way leaves behind, whatever ends it. *)
LEMMA AddingStable ==
  ASSUME IInv, [Next]_vars, NEW x \in Url, BeingAdded(x)
  PROVE  InQueueOrLost(x)' \/ BeingAdded(x)'
<1>0. QueueTypeOK /\ TaskTypeOK /\ OneOwner
  BY DEF IInv, TypeOK
<1>1. PICK v \in Url : task[v] = "insert" /\ adding[v][1] = x
  BY DEF BeingAdded
<1>2. CASE Insert(v)
  BY <1>0, <1>1, <1>2
  DEF Insert, Enqueue, QueueTypeOK, queueVars, InQueueOrLost
<1>3. CASE InsertError(v)
  BY <1>1, <1>3 DEF InsertError, InQueueOrLost
<1>4. CASE Crash
  BY <1>1, <1>4 DEF Crash, InQueueOrLost
<1>5. CASE ~Insert(v) /\ ~InsertError(v) /\ ~Crash
  <2>1. task'[v] = "insert" /\ adding'[v] = adding[v]
    <3> USE <1>0, <1>1, <1>5 DEF TaskTypeOK, Goto
    <3>1. ASSUME NEW u \in Url, ClaimRow(u)
          PROVE  task'[v] = "insert" /\ adding'[v] = adding[v]
      BY <3>1 DEF ClaimRow, Claim, IsOldestPending, OneOwner, AfterDone
    <3>2. ASSUME NEW u \in Url, TaskMove(u)
          PROVE  task'[v] = "insert" /\ adding'[v] = adding[v]
      BY <3>2, TaskMoveFrame
    <3>3. ASSUME NEW u \in Url, Settling(u)
          PROVE  task'[v] = "insert" /\ adding'[v] = adding[v]
      BY <3>3, SettlingFrame DEF Finish
    <3>4. ASSUME NEW u \in Url, ScrapeReturns(u) \/ MarkDone(u) \/ Callback(u)
          PROVE  task'[v] = "insert" /\ adding'[v] = adding[v]
      BY <3>4 DEF ScrapeReturns, MarkDone, Callback
    <3>5. ASSUME NEW u \in Url, NEW t \in todo[u], Dedup(u, t)
          PROVE  task'[v] = "insert" /\ adding'[v] = adding[v]
      BY <3>5 DEF Dedup
    <3>6. ASSUME NEW u \in Url, Insert(u) \/ InsertError(u) \/ LinksDone(u)
          PROVE  task'[v] = "insert" /\ adding'[v] = adding[v]
      BY <3>6 DEF Insert, InsertError, LinksDone, Finish
    <3>7. CASE UNCHANGED <<task, adding>>
      BY <3>7
    <3>. QED
      BY <3>1, <3>2, <3>3, <3>4, <3>5, <3>6, <3>7, StepCases, MainMoveFrame
      DEF Cases, Seed
  <2>. QED BY <1>1, <2>1 DEF BeingAdded
<1>. QED BY <1>2, <1>3, <1>4, <1>5

LEMMA SeenStep == IInv /\ [Next]_vars => SeenAccounted'
<1> SUFFICES ASSUME IInv, [Next]_vars, NEW x \in seen'
             PROVE  InQueueOrLost(x)' \/ BeingAdded(x)'
  BY DEF SeenAccounted
<1>0. QueueTypeOK /\ TaskTypeOK /\ seen \subseteq Url /\ SeenAccounted
  BY CrawlAssumption DEF IInv, TypeOK, MainTypeOK
<1>1. CASE x \in seen
  BY <1>0, <1>1, RowStable, AddingStable DEF SeenAccounted
<1>2. CASE x \notin seen
  <2>1. ASSUME NEW u \in Url, Seed(u) PROVE InQueueOrLost(x)'
    BY <1>0, <1>2, <2>1 DEF Seed, Enqueue, QueueTypeOK, queueVars, InQueueOrLost
  <2>2. ASSUME NEW u \in Url, NEW t \in todo[u], Dedup(u, t)
        PROVE  BeingAdded(x)'
    BY <1>0, <1>2, <2>2 DEF Dedup, TaskTypeOK, Goto, BeingAdded
  <2>3. \E u \in Url : Seed(u) \/ \E t \in todo[u] : Dedup(u, t)
    BY <1>2, StepCases, MainMoveFrame, TaskMoveFrame, SettlingFrame
    DEF Cases, Crash, ClaimRow, ScrapeReturns, MarkDone, Callback, Insert,
        InsertError, LinksDone
  <2>. QED BY <2>1, <2>2, <2>3
<1>. QED BY <1>1, <1>2

(* Every link of an expanded page is still accounted for.                   *)
LEMMA LinksStep == IInv /\ [Next]_vars => LinksAccounted'
<1> SUFFICES ASSUME IInv, [Next]_vars,
                    NEW u \in delivered' \ cut', NEW t \in Discovered(u)'
             PROVE  (InQueueOrLost(t[1]) \/ t[1] \in seen \/ t \in todo[u])'
  BY DEF LinksAccounted
<1>0. /\ TypeOK /\ QueueTypeOK /\ TaskTypeOK /\ HistoryTypeOK
      /\ AddingOK /\ DeliveredDone /\ SeenAccounted /\ LinksAccounted /\ OneOwner
  BY DEF IInv, TypeOK
<1>1. u \in Url
  <2>1. HistoryTypeOK'
    BY HistoryTypeStep
  <2>. QED BY <2>1 DEF HistoryTypeOK
<1>2. CASE Callback(u)
  BY <1>0, <1>1, <1>2 DEF Callback, TaskTypeOK, Discovered, queueVars
<1>3. CASE ~Callback(u)
  <2>1. u \in delivered \ cut
    BY <1>1, <1>3, StepCases, MainMoveFrame, TaskMoveFrame, SettlingFrame
    DEF Cases, Crash, Seed, ClaimRow, ScrapeReturns, MarkDone, Callback, Dedup,
        Insert, InsertError, LinksDone, seenVars
  <2>2. t \in Discovered(u) /\ t[1] \in Url
    <3>1. depth'[u] = depth[u]
      BY <1>0, <1>1, <2>1, RowStable DEF DeliveredDone
    <3>2. t \in Discovered(u)
      BY <3>1 DEF Discovered
    <3>. QED BY <1>0, <1>1, <3>2, DiscoveredType, CrawlAssumption
  <2>3. InQueueOrLost(t[1]) \/ t[1] \in seen \/ t \in todo[u]
    BY <1>0, <2>1, <2>2 DEF LinksAccounted
  <2>4. CASE InQueueOrLost(t[1])
    BY <2>2, <2>4, RowStable
  <2>5. CASE t[1] \in seen
    <3>1. CASE Crash
      <4>1. InQueueOrLost(t[1]) \/ BeingAdded(t[1])
        BY <1>0, <2>5 DEF SeenAccounted
      <4>2. ~BeingAdded(t[1])'
        BY <3>1 DEF Crash, BeingAdded
      <4>. QED BY <2>2, <4>1, <4>2, RowStable, AddingStable
    <3>2. CASE ~Crash
      <4>1. seen \subseteq seen'
        BY <3>2, StepCases, MainMoveFrame, TaskMoveFrame, SettlingFrame
        DEF Cases, Seed, ClaimRow, ScrapeReturns, MarkDone, Callback, Dedup,
            Insert, InsertError, LinksDone
      <4>. QED BY <2>5, <4>1
    <3>. QED BY <3>1, <3>2
  <2>6. CASE t \in todo[u]
    <3>0. task[u] \in {"links", "insert"}
      BY <1>0, <1>1, <2>6 DEF AddingOK
    <3> USE <1>0, <1>1, <2>6, <3>0 DEF TaskTypeOK
    <3>1. ASSUME NEW v \in Url, NEW s \in todo[v], Dedup(v, s)
          PROVE  t \in todo'[u] \/ t[1] \in seen'
      BY <3>1 DEF Dedup
    <3>2. ASSUME NEW v \in Url, InsertError(v) PROVE t \in todo'[u]
      <4>1. v # u
        BY <3>2, <1>3 DEF InsertError
      <4>. QED BY <3>2, <4>1 DEF InsertError
    <3>3. ASSUME NEW v \in Url, Callback(v) PROVE t \in todo'[u]
      BY <1>3, <3>3 DEF Callback
    <3>4. ~Crash
      BY DEF Crash, AfterDone
    <3>5. CASE UNCHANGED todo
      BY <3>5
    <3>. QED
      BY <3>1, <3>2, <3>3, <3>4, <3>5, StepCases, MainMoveFrame, TaskMoveFrame,
         SettlingFrame
      DEF Cases, Seed, ClaimRow, ScrapeReturns, MarkDone, Insert, LinksDone
  <2>. QED BY <2>3, <2>4, <2>5, <2>6
<1>. QED BY <1>2, <1>3

-----------------------------------------------------------------------------
LEMMA StepIInv == IInv /\ [Next]_vars => IInv'
<1> SUFFICES ASSUME IInv, [Next]_vars PROVE IInv'
  OBVIOUS
<1>1. TypeOK'
  BY QueueTypeStep, TaskTypeStep, MainTypeStep, HistoryTypeStep DEF TypeOK
<1>2. AttemptsLeft' /\ AbsentFresh' /\ AddingOK'
  BY AttemptsStep, AddingStep
<1>3. OneOwner' /\ InFlightExact'
  BY OneOwnerStep, InFlightStep
<1>4. EmptyClaim' /\ StoppedIdle' /\ StopsOnlyWhenDry'
  BY StopsStep
<1>5. ScrapedOnce' /\ DeliveredDone' /\ ScrapedToDelivered'
  BY ScrapedStep
<1>6. SeenAccounted' /\ LinksAccounted'
  BY SeenStep, LinksStep
<1>. QED BY <1>1, <1>2, <1>3, <1>4, <1>5, <1>6 DEF IInv

THEOREM IInvariant == Spec => []IInv
<1>. QED BY InitIInv, StepIInv, PTL DEF Spec

(* Every variable of a crawl keeps its type: no row is deeper than          *)
(* max_depth or claimed more than twice, and no URL out of scope is seen    *)
(* (crawl/scheduler.py, crawl/queue.py).                                    *)
THEOREM TypeCorrect == Spec => []TypeOK
<1>1. IInv => TypeOK
  BY DEF IInv
<1>. QED BY <1>1, IInvariant, PTL

(* A claimed row has exactly one worker until it is completed, failed or    *)
(* given back (crawl/scheduler.py worker, queue.claim).                     *)
THEOREM RowHasOneOwner == Spec => []OneOwner
<1>1. IInv => OneOwner
  BY DEF IInv
<1>. QED BY <1>1, IInvariant, PTL

(* in_flight, which ends the main loop, counts the tasks of bound exactly.  *)
THEOREM InFlightCounts == Spec => []InFlightExact
<1>1. IInv => InFlightExact
  BY DEF IInv
<1>. QED BY <1>1, IInvariant, PTL

(* The main loop breaks only for a spent budget or when no row is pending   *)
(* and no task is left that could add one.                                  *)
THEOREM NoEarlyStop == Spec => []StopsOnlyWhenDry
<1>1. IInv => StopsOnlyWhenDry
  BY DEF IInv
<1>. QED BY <1>1, IInvariant, PTL

(* A crawl that returned has the in-scope links of every page it expanded   *)
(* in its queue, unless their INSERT failed or was cut by a crash.          *)
THEOREM LinksReachTheQueue == Spec => []LinksFollowed
<1>1. IInv => LinksFollowed
  <2> SUFFICES ASSUME IInv, main = "stopped",
                      NEW u \in delivered \ cut, NEW t \in Discovered(u)
               PROVE  status[t[1]] # "absent" \/ t[1] \in lost
    BY DEF LinksFollowed
  <2>1. \A v \in Url : task[v] = "none"
    BY DEF IInv, StoppedIdle, Live
  <2>2. u \in Url /\ todo[u] = {}
    BY <2>1 DEF IInv, TypeOK, HistoryTypeOK, AddingOK
  <2>3. ~BeingAdded(t[1])
    BY <2>1 DEF BeingAdded
  <2>. QED BY <2>2, <2>3 DEF IInv, LinksAccounted, SeenAccounted, InQueueOrLost
<1>. QED BY <1>1, IInvariant, PTL

(* Without a crash, every page scraped with success was given to on_page    *)
(* and completed by the time crawl() returns.                               *)
THEOREM ScrapedPagesDelivered == Spec => []ScrapedIsDelivered
<1>1. IInv => ScrapedIsDelivered
  <2> SUFFICES ASSUME IInv, main = "stopped", crashes = 0, NEW u \in scraped
               PROVE  u \in delivered /\ status[u] = "done"
    BY DEF ScrapedIsDelivered
  <2>1. u \in Url /\ task[u] = "none"
    BY DEF IInv, TypeOK, HistoryTypeOK, StoppedIdle, Live
  <2>2. status[u] # "in_flight"
    BY <2>1 DEF IInv, OneOwner, BeforeDone
  <2>. QED BY <2>1, <2>2 DEF IInv, ScrapedOnce, ScrapedToDelivered
<1>. QED BY <1>1, IInvariant, PTL

(* A page is neither scraped again after its scrape returned nor given to   *)
(* on_page twice, not even across a restart on the same queue.              *)
THEOREM PagesHandledOnce == Spec => OncePerPage
<1> DEFINE Once ==
      \A u \in Url :
        /\ u \in scraped /\ task'[u] = "scraping" => task[u] = "scraping"
        /\ u \in delivered /\ task'[u] = "callback" => task[u] = "callback"
<1>1. IInv /\ [Next]_vars => Once
  <2> SUFFICES ASSUME IInv, [Next]_vars, NEW u \in Url PROVE
        /\ u \in scraped /\ task'[u] = "scraping" => task[u] = "scraping"
        /\ u \in delivered /\ task'[u] = "callback" => task[u] = "callback"
    OBVIOUS
  <2>1. ScrapedOnce' /\ DeliveredDone' /\ OneOwner'
    BY ScrapedStep, OneOwnerStep
  <2>2. scraped \subseteq scraped' /\ delivered \subseteq delivered'
    BY StepCases, MainMoveFrame, TaskMoveFrame, SettlingFrame
    DEF Cases, Crash, Seed, ClaimRow, ScrapeReturns, MarkDone, Callback, Dedup,
        Insert, InsertError, LinksDone, seenVars
  <2>. QED BY <2>1, <2>2 DEF ScrapedOnce, DeliveredDone, OneOwner, BeforeDone
<1>. QED BY <1>1, IInvariant, PTL DEF Spec, OncePerPage

(* The rows of the queue go through the lifecycle of RowLifecycle, whoever  *)
(* claims them and however often the crawl is restarted.                    *)
THEOREM RowsFollowLifecycle == Spec => Lifecycle
<1>1. Init => RL!Init
  BY DEF Init, QueueInit, RL!Init
<1>2. IInv /\ [Next]_vars => [RL!Next]_<<status, attempts>>
  <2> SUFFICES ASSUME IInv, [Next]_vars
               PROVE  RL!Next \/ UNCHANGED <<status, attempts>>
    OBVIOUS
  <2>0. QueueTypeOK /\ TaskTypeOK /\ AttemptsLeft /\ OneOwner /\ AddingOK
    BY DEF IInv, TypeOK
  <2>1. ASSUME NEW u \in Url, Seed(u)
        PROVE  RL!Next \/ UNCHANGED <<status, attempts>>
    BY <2>1 DEF Seed, Enqueue, queueVars, RL!Next, RL!Insert
  <2>2. ASSUME NEW u \in Url, ClaimRow(u) PROVE RL!Next
    BY <2>0, <2>2 DEF ClaimRow, Claim, IsOldestPending, AttemptsLeft, RL!Next,
       RL!Take
  <2>3. ASSUME NEW u \in Url, Settling(u) PROVE RL!Next
    <3>1. status[u] = "in_flight"
      BY <2>0, <2>3, SettlingFrame DEF OneOwner, BeforeDone
    <3>2. RL!GiveBack(u) \/ RL!Settle(u)
      BY <2>3, <3>1, SettlingFrame DEF RL!GiveBack, RL!Settle
    <3>. QED BY <3>2 DEF RL!Next
  <2>4. ASSUME NEW u \in Url, MarkDone(u) PROVE RL!Next
    <3>1. status[u] = "in_flight"
      BY <2>0, <2>4 DEF MarkDone, OneOwner, BeforeDone
    <3>. QED BY <2>4, <3>1 DEF MarkDone, Complete, RL!Settle, RL!Next
  <2>5. ASSUME NEW u \in Url, Insert(u)
        PROVE  RL!Next \/ UNCHANGED <<status, attempts>>
    <3>1. adding[u][1] \in Url /\ Enqueue(adding[u][1], adding[u][2])
      BY <2>0, <2>5, CrawlAssumption DEF Insert, AddingOK
    <3>. QED BY <3>1 DEF Enqueue, queueVars, RL!Next, RL!Insert
  <2>6. CASE UNCHANGED queueVars
    BY <2>6 DEF queueVars
  <2>. QED
    BY <2>1, <2>2, <2>3, <2>4, <2>5, <2>6, StepCases, MainMoveFrame,
       TaskMoveFrame
    DEF Cases, Crash, ScrapeReturns, Callback, Dedup, InsertError, LinksDone
<1>. QED BY <1>1, <1>2, IInvariant, PTL DEF Spec, Lifecycle, RL!Spec

-----------------------------------------------------------------------------
(* The workers of a crawl before they fetch: robots.txt and the slots.      *)

(* robots.txt is fetched with the origin's lock held, and only while the    *)
(* cache has nothing.                                                       *)
FetchLocked == \A t \in Task : at[t] = "fetching" =>
  holder[OriginOf[t]] = t /\ cache[OriginOf[t]] = "none"

(* The next slot of a host comes after every slot that was taken, by the    *)
(* delay that its taker went by. *)
SlotsCounted == \A t \in Task : HasSlot(t) =>
  slot[t] + DelayUnder(obeyed[t], t) <= nextOk[HostOf[OriginOf[t]]]

PoliteInv == PoliteTypeOK /\ FetchLocked /\ RulesKept /\ SlotsCounted /\ SlotsSpaced

LEMMA DelayType ==
  ASSUME NEW t \in Task, NEW p
  PROVE  DelayUnder(p, t) \in Nat
BY PoliteAssumption DEF DelayUnder

LEMMA HostType ==
  ASSUME NEW t \in Task
  PROVE  OriginOf[t] \in Origin /\ HostOf[OriginOf[t]] \in Host
BY PoliteAssumption

(* Only TakePermit adds to those who hold the semaphore. *)
LEMMA HoldSemStep ==
  ASSUME PoliteTypeOK, [PoliteNext]_politeVars
  PROVE  Cardinality(HoldSem') <= Permits
<1>1. IsFiniteSet(HoldSem)
  BY PoliteAssumption, FS_Subset DEF HoldSem
<1>2. CASE HoldSem' \subseteq HoldSem
  <2>1. Cardinality(HoldSem') <= Cardinality(HoldSem)
    BY <1>1, <1>2, FS_Subset
  <2>2. Cardinality(HoldSem) \in Nat /\ Cardinality(HoldSem') \in Nat
    BY <1>1, <1>2, FS_Subset, FS_CardinalityType
  <2>. QED BY <2>1, <2>2, PoliteAssumption DEF PoliteTypeOK
<1>3. ASSUME NEW t \in Task, TakePermit(t)
      PROVE  Cardinality(HoldSem') <= Permits
  <2>1. HoldSem' = HoldSem \cup {t}
    BY <1>3 DEF TakePermit, HoldSem, Permit, PoliteTypeOK
  <2>2. t \notin HoldSem
    BY <1>3 DEF TakePermit, HoldSem, Permit
  <2>3. Cardinality(HoldSem') = Cardinality(HoldSem) + 1
    BY <1>1, <2>1, <2>2, FS_AddElement
  <2>. QED BY <1>1, <1>3, <2>3, FS_CardinalityType, PoliteAssumption DEF TakePermit
<1>4. CASE \E t \in Task : TakePermit(t)
  BY <1>3, <1>4
<1>5. CASE ~\E t \in Task : TakePermit(t)
  <2>1. \A t \in Task : at'[t] \in Permit => at[t] \in Permit
    BY <1>5 DEF PoliteNext, politeVars, Proceed, Lookup, Locked, GoBy, FetchEnds,
       FetchRaises, SleepOver, OwnGate, OwnGateRaises, ScrapeEnds, Tick, Idle,
       PoliteTypeOK, Permit
  <2>. QED BY <1>2, <2>1 DEF HoldSem
<1>. QED BY <1>4, <1>5

LEMMA TakeSlotType ==
  ASSUME PoliteTypeOK, NEW t \in Task, NEW p, TakeSlot(t, p)
  PROVE  slot' \in [Task -> Nat] /\ nextOk' \in [Host -> Nat]
<1>1. (IF now > nextOk[HostOf[OriginOf[t]]] THEN now
       ELSE nextOk[HostOf[OriginOf[t]]]) \in Nat
  BY HostType DEF PoliteTypeOK
<1>2. DelayUnder(p, t) \in Nat
  BY DelayType
<1>. QED BY <1>1, <1>2, HostType DEF PoliteTypeOK, TakeSlot

LEMMA GoByType ==
  ASSUME PoliteTypeOK, NEW t \in Task, NEW p \in Parser, GoBy(t, p)
  PROVE  /\ at' \in [Task -> TaskState] /\ obeyed' \in [Task -> Parser]
         /\ slot' \in [Task -> Nat] /\ nextOk' \in [Host -> Nat]
<1>1. slot' \in [Task -> Nat] /\ nextOk' \in [Host -> Nat]
  BY TakeSlotType DEF GoBy, PoliteTypeOK
<1>. QED BY <1>1 DEF GoBy, PoliteTypeOK, TaskState, Permit, Over

LEMMA TypeStep == PoliteTypeOK /\ [PoliteNext]_politeVars => PoliteTypeOK'
<1> SUFFICES ASSUME PoliteTypeOK, [PoliteNext]_politeVars PROVE PoliteTypeOK'
  OBVIOUS
<1>0. Cardinality(HoldSem)' <= Permits
  BY HoldSemStep DEF HoldSem
<1> USE DEF PoliteTypeOK
<1>1. ASSUME NEW t \in Task, TakePermit(t) PROVE PoliteTypeOK'
  BY <1>0, <1>1 DEF TakePermit, TaskState, Permit
<1>2. ASSUME NEW t \in Task, Lookup(t) PROVE PoliteTypeOK'
  <2>1. OriginOf[t] \in Origin /\ cache[OriginOf[t]] \in Parser
    BY HostType
  <2>2. CASE GoBy(t, cache[OriginOf[t]])
    BY <1>0, <1>2, <2>1, <2>2, GoByType DEF Lookup
  <2>3. CASE ~GoBy(t, cache[OriginOf[t]])
    BY <1>0, <1>2, <2>3 DEF Lookup, TaskState, Permit
  <2>. QED BY <2>2, <2>3
<1>3. ASSUME NEW t \in Task, Locked(t) PROVE PoliteTypeOK'
  <2>1. OriginOf[t] \in Origin /\ cache[OriginOf[t]] \in Parser
    BY HostType
  <2>2. CASE GoBy(t, cache[OriginOf[t]]) /\ UNCHANGED holder
    BY <1>0, <1>3, <2>1, <2>2, GoByType DEF Locked
  <2>3. CASE ~(GoBy(t, cache[OriginOf[t]]) /\ UNCHANGED holder)
    BY <1>0, <1>3, <2>3 DEF Locked, TaskState, Permit
  <2>. QED BY <2>2, <2>3
<1>4. ASSUME NEW t \in Task, NEW r \in Response, FetchEnds(t, r) PROVE PoliteTypeOK'
  <2>1. ParserOf(r) \in Parser
    BY DEF ParserOf, Parser
  <2>. QED BY <1>0, <1>4, <2>1, GoByType DEF FetchEnds
<1>5. ASSUME NEW t \in Task, FetchRaises(t) PROVE PoliteTypeOK'
  <2>1. raises' \in 0..MaxRaises
    BY <1>5, PoliteAssumption DEF FetchRaises
  <2>2. at' \in [Task -> TaskState] /\ holder' \in [Origin -> Task \cup {None}]
    BY <1>5 DEF FetchRaises, TaskState, Over
  <2>. QED BY <1>0, <1>5, <2>1, <2>2 DEF FetchRaises
<1>6. ASSUME NEW t \in Task, SleepOver(t) PROVE PoliteTypeOK'
  BY <1>0, <1>6 DEF SleepOver, TaskState, Permit
<1>7. ASSUME NEW t \in Task, ScrapeEnds(t) PROVE PoliteTypeOK'
  BY <1>0, <1>7 DEF ScrapeEnds, TaskState, Over
<1>8. CASE Tick
  BY <1>0, <1>8 DEF Tick
<1>9. CASE UNCHANGED politeVars
  BY <1>0, <1>9 DEF politeVars
<1>10. ASSUME NEW t \in Task, NEW r \in Response, OwnGate(t, r) PROVE PoliteTypeOK'
  BY <1>0, <1>10 DEF OwnGate, TaskState, Permit, Over
<1>11. ASSUME NEW t \in Task, OwnGateRaises(t) PROVE PoliteTypeOK'
  <2>1. raises' \in 0..MaxRaises
    BY <1>11, PoliteAssumption DEF OwnGateRaises
  <2>2. at' \in [Task -> TaskState]
    BY <1>11 DEF OwnGateRaises, TaskState, Over
  <2>. QED BY <1>0, <1>11, <2>1, <2>2 DEF OwnGateRaises
<1>. QED
  BY <1>1, <1>2, <1>3, <1>4, <1>5, <1>6, <1>7, <1>8, <1>9, <1>10, <1>11
  DEF PoliteNext, Proceed, Idle

-----------------------------------------------------------------------------
(* The tasks that are neither t nor have a slot, keep what they go by.      *)
LEMMA GoByFrame ==
  ASSUME PoliteTypeOK, NEW t \in Task, NEW p \in Parser, GoBy(t, p)
  PROVE  /\ \A u \in Task \ {t} : at'[u] = at[u] /\ obeyed'[u] = obeyed[u]
         /\ obeyed'[t] = p /\ at'[t] \in {"blocked", "sleeping"}
         /\ at'[t] = "sleeping" => ~Forbids(p, t)
BY DEF GoBy, PoliteTypeOK

(* From its slot on, a worker meets nobody. *)
Leaving(t) ==
  \/ SleepOver(t) \/ OwnGateRaises(t) \/ ScrapeEnds(t)
  \/ \E r \in Response : OwnGate(t, r)

LEMMA LeavingFrame ==
  ASSUME PoliteTypeOK, NEW t \in Task, Leaving(t)
  PROVE  /\ UNCHANGED <<holder, cache, obeyed, nextOk, slot>>
         /\ \A u \in Task \ {t} : at'[u] = at[u]
         /\ at[t] \in {"sleeping", "asking", "scraping"}
         /\ at'[t] \in {"asking", "refused", "failed", "scraping", "done"}
BY DEF Leaving, SleepOver, OwnGate, OwnGateRaises, ScrapeEnds, PoliteTypeOK

LEMMA FetchLockedStep ==
  PoliteTypeOK /\ FetchLocked /\ [PoliteNext]_politeVars => FetchLocked'
<1> SUFFICES ASSUME PoliteTypeOK, FetchLocked, [PoliteNext]_politeVars, NEW u \in Task,
                    at'[u] = "fetching"
             PROVE  holder'[OriginOf[u]] = u /\ cache'[OriginOf[u]] = "none"
  BY DEF FetchLocked
<1> USE DEF PoliteTypeOK, FetchLocked
<1>0. OriginOf[u] \in Origin /\ u # None
  BY PoliteAssumption
<1>1. ASSUME NEW t \in Task, TakePermit(t) PROVE at[u] = "fetching"
  BY <1>1 DEF TakePermit
<1>2. ASSUME NEW t \in Task, Lookup(t) PROVE at[u] = "fetching"
  BY <1>2 DEF Lookup, GoBy
<1>3. ASSUME NEW t \in Task, Locked(t)
      PROVE  holder'[OriginOf[u]] = u /\ cache'[OriginOf[u]] = "none"
  <2>1. CASE u = t
    BY <1>0, <1>3, <2>1 DEF Locked, GoBy
  <2>2. CASE u # t
    <3>1. at[u] = "fetching"
      BY <1>3, <2>2 DEF Locked, GoBy
    <3>2. holder[OriginOf[u]] = u
      BY <3>1
    <3>. QED BY <1>0, <1>3, <3>1, <3>2 DEF Locked
  <2>. QED BY <2>1, <2>2
<1>4. ASSUME NEW t \in Task, NEW r \in Response, FetchEnds(t, r)
      PROVE  holder'[OriginOf[u]] = u /\ cache'[OriginOf[u]] = "none"
  <2>1. u # t /\ at[u] = "fetching" /\ at[t] = "fetching"
    BY <1>4 DEF FetchEnds, GoBy
  <2>2. OriginOf[u] # OriginOf[t]
    BY <2>1
  <2>. QED BY <1>0, <1>4, <2>1, <2>2 DEF FetchEnds
<1>5. ASSUME NEW t \in Task, FetchRaises(t)
      PROVE  holder'[OriginOf[u]] = u /\ cache'[OriginOf[u]] = "none"
  <2>1. u # t /\ at[u] = "fetching" /\ at[t] = "fetching"
    BY <1>5 DEF FetchRaises
  <2>2. OriginOf[u] # OriginOf[t]
    BY <2>1
  <2>. QED BY <1>0, <1>5, <2>1, <2>2 DEF FetchRaises
<1>6. ASSUME NEW t \in Task, Leaving(t)
      PROVE  at[u] = "fetching" /\ UNCHANGED <<holder, cache>>
  BY <1>6, LeavingFrame
<1>7. CASE Tick \/ UNCHANGED politeVars
  BY <1>7 DEF Tick, politeVars
<1>. QED
  BY <1>1, <1>2, <1>3, <1>4, <1>5, <1>6, <1>7
  DEF PoliteNext, Proceed, Idle, TakePermit, Lookup, Leaving

(* Whoever goes by something goes by what the cache keeps for good.         *)
LEMMA RulesKeptStep ==
  PoliteTypeOK /\ FetchLocked /\ RulesKept /\ [PoliteNext]_politeVars => RulesKept'
<1> SUFFICES ASSUME PoliteTypeOK, FetchLocked, RulesKept, [PoliteNext]_politeVars, NEW u \in Task,
                    obeyed'[u] # "none"
             PROVE  /\ obeyed'[u] = cache'[OriginOf[u]]
                    /\ at'[u] \in {"sleeping", "asking", "scraping", "done"} =>
                         ~Forbids(obeyed'[u], u)
  BY DEF RulesKept, Forbids
<1> DEFINE Goal == /\ obeyed'[u] = cache'[OriginOf[u]]
                   /\ at'[u] \in {"sleeping", "asking", "scraping", "done"} =>
                        ~Forbids(obeyed'[u], u)
<1> USE DEF PoliteTypeOK, RulesKept
<1>0. OriginOf[u] \in Origin
  BY PoliteAssumption
<1>1. ASSUME NEW t \in Task, TakePermit(t) \/ FetchRaises(t) PROVE Goal
  BY <1>1 DEF TakePermit, FetchRaises
<1>2. ASSUME NEW t \in Task, NEW p \in Parser, GoBy(t, p), UNCHANGED cache,
             p = cache[OriginOf[t]]
      PROVE  Goal
  <2>1. CASE u = t
    BY <1>2, <2>1, GoByFrame
  <2>2. CASE u # t
    BY <1>2, <2>2, GoByFrame
  <2>. QED BY <2>1, <2>2
<1>3. ASSUME NEW t \in Task, Lookup(t) \/ Locked(t) PROVE Goal
  <2>1. cache[OriginOf[t]] \in Parser /\ UNCHANGED cache
    BY <1>3, HostType DEF Lookup, Locked
  <2>2. CASE GoBy(t, cache[OriginOf[t]])
    BY <1>2, <2>1, <2>2
  <2>3. CASE ~GoBy(t, cache[OriginOf[t]])
    BY <1>3, <2>3 DEF Lookup, Locked
  <2>. QED BY <2>2, <2>3
<1>4. ASSUME NEW t \in Task, NEW r \in Response, FetchEnds(t, r) PROVE Goal
  <2>1. ParserOf(r) \in Parser /\ GoBy(t, ParserOf(r))
    BY <1>4 DEF ParserOf, Parser, FetchEnds
  <2>2. cache[OriginOf[t]] = "none"
    BY <1>4 DEF FetchEnds, FetchLocked
  <2>3. CASE u = t
    BY <1>0, <1>4, <2>1, <2>3, GoByFrame DEF FetchEnds
  <2>4. CASE u # t
    <3>1. obeyed'[u] = obeyed[u] /\ at'[u] = at[u]
      BY <2>1, <2>4, GoByFrame
    <3>2. OriginOf[u] # OriginOf[t]
      BY <2>2, <3>1
    <3>. QED BY <1>0, <1>4, <3>1, <3>2 DEF FetchEnds
  <2>. QED BY <2>3, <2>4
<1>5. ASSUME NEW t \in Task, Leaving(t) PROVE Goal
  BY <1>5, LeavingFrame
<1>6. CASE Tick \/ UNCHANGED politeVars
  BY <1>6 DEF Tick, politeVars
<1>. QED
  BY <1>1, <1>3, <1>4, <1>5, <1>6 DEF PoliteNext, Proceed, Idle, Leaving

-----------------------------------------------------------------------------
(* A slot that is taken comes after all that were taken before.             *)
LEMMA SlotTaken ==
  ASSUME PoliteTypeOK, SlotsCounted, SlotsSpaced, NEW t \in Task, NEW p \in Parser,
         GoBy(t, p), ~HasSlot(t)
  PROVE  SlotsCounted' /\ SlotsSpaced'
<1>1. CASE at'[t] = "blocked"
  <2>1. UNCHANGED <<nextOk, slot>> /\ ~HasSlot(t)'
    BY <1>1 DEF GoBy, PoliteTypeOK, HasSlot
  <2>2. \A u \in Task : HasSlot(u)' =>
          HasSlot(u) /\ DelayUnder(obeyed'[u], u) = DelayUnder(obeyed[u], u)
    BY <2>1, GoByFrame DEF HasSlot
  <2>. QED BY <2>1, <2>2 DEF SlotsCounted, SlotsSpaced, HasSlot, DelayUnder
<1>2. CASE at'[t] = "sleeping"
  <2> DEFINE h == HostOf[OriginOf[t]]
  <2>1. TakeSlot(t, p) /\ h \in Host
    BY <1>2, HostType DEF GoBy, PoliteTypeOK
  <2>2. /\ slot'[t] \in Nat /\ slot'[t] >= nextOk[h]
        /\ nextOk'[h] = slot'[t] + DelayUnder(p, t)
        /\ \A u \in Task \ {t} : slot'[u] = slot[u]
        /\ \A g \in Host \ {h} : nextOk'[g] = nextOk[g]
    BY <2>1 DEF TakeSlot, PoliteTypeOK
  <2>3. \A u \in Task \ {t} : HasSlot(u)' =>
          HasSlot(u) /\ DelayUnder(obeyed'[u], u) = DelayUnder(obeyed[u], u)
    BY GoByFrame DEF HasSlot
  <2>4. obeyed'[t] = p /\ DelayUnder(p, t) \in Nat
    BY GoByFrame, DelayType
  <2>5. \A u \in Task \ {t} : HasSlot(u)' /\ HostOf[OriginOf[u]] = h =>
          slot'[u] + DelayUnder(obeyed'[u], u) <= nextOk[h]
    BY <2>2, <2>3 DEF SlotsCounted
  <2>6. nextOk[h] \in Nat /\ nextOk[h] <= nextOk'[h]
    BY <2>1, <2>2, <2>4 DEF PoliteTypeOK
  <2>7. \A u \in Task : slot[u] \in Nat /\ slot'[u] \in Nat
          /\ DelayUnder(obeyed'[u], u) \in Nat /\ HostOf[OriginOf[u]] \in Host
    BY <2>2, DelayType, HostType DEF PoliteTypeOK
  <2>8. SlotsCounted'
    <3> SUFFICES ASSUME NEW u \in Task, HasSlot(u)'
                 PROVE  slot'[u] + DelayUnder(obeyed'[u], u)
                          <= nextOk'[HostOf[OriginOf[u]]]
      BY DEF SlotsCounted, DelayUnder
    <3>1. CASE u = t
      BY <2>2, <2>4, <2>7, <3>1
    <3>2. CASE u # t /\ HostOf[OriginOf[u]] = h
      BY <2>2, <2>4, <2>5, <2>6, <2>7, <3>2
    <3>3. CASE u # t /\ HostOf[OriginOf[u]] # h
      BY <2>2, <2>3, <2>7, <3>3 DEF SlotsCounted
    <3>. QED BY <3>1, <3>2, <3>3
  <2>9. SlotsSpaced'
    <3> SUFFICES ASSUME NEW u \in Task, NEW v \in Task, u # v, HasSlot(u)',
                        HasSlot(v)', HostOf[OriginOf[u]] = HostOf[OriginOf[v]]
                 PROVE  \/ slot'[v] >= slot'[u] + DelayUnder(obeyed'[u], u)
                        \/ slot'[u] >= slot'[v] + DelayUnder(obeyed'[v], v)
      BY DEF SlotsSpaced, DelayUnder
    <3>1. CASE u = t
      BY <2>2, <2>5, <2>6, <2>7, <3>1
    <3>2. CASE v = t
      BY <2>2, <2>5, <2>6, <2>7, <3>2
    <3>3. CASE u # t /\ v # t
      BY <2>2, <2>3, <3>3 DEF SlotsSpaced
    <3>. QED BY <3>1, <3>2, <3>3
  <2>. QED BY <2>8, <2>9
<1>. QED BY <1>1, <1>2, GoByFrame

LEMMA SlotsStep ==
  PoliteTypeOK /\ SlotsCounted /\ SlotsSpaced /\ [PoliteNext]_politeVars
    => SlotsCounted' /\ SlotsSpaced'
<1> SUFFICES ASSUME PoliteTypeOK, SlotsCounted, SlotsSpaced, [PoliteNext]_politeVars
             PROVE  SlotsCounted' /\ SlotsSpaced'
  OBVIOUS
<1>1. ASSUME UNCHANGED <<nextOk, slot, obeyed>>,
             \A t \in Task : HasSlot(t)' => HasSlot(t)
      PROVE  SlotsCounted' /\ SlotsSpaced'
  <2>1. \A t \in Task : DelayUnder(obeyed'[t], t) = DelayUnder(obeyed[t], t)
    BY <1>1
  <2>. QED BY <1>1, <2>1 DEF SlotsCounted, SlotsSpaced, HasSlot, DelayUnder
<1>2. ASSUME NEW t \in Task, TakePermit(t) \/ FetchRaises(t) \/ Leaving(t)
      PROVE  SlotsCounted' /\ SlotsSpaced'
  <2>1. CASE TakePermit(t) \/ FetchRaises(t)
    BY <1>1, <2>1 DEF TakePermit, FetchRaises, HasSlot, PoliteTypeOK
  <2>2. CASE Leaving(t)
    BY <1>1, <2>2, LeavingFrame DEF HasSlot
  <2>. QED BY <1>2, <2>1, <2>2
<1>3. ASSUME NEW t \in Task, Lookup(t) \/ Locked(t)
      PROVE  SlotsCounted' /\ SlotsSpaced'
  <2>1. cache[OriginOf[t]] \in Parser /\ ~HasSlot(t)
    BY <1>3, HostType DEF Lookup, Locked, HasSlot, PoliteTypeOK
  <2>2. CASE GoBy(t, cache[OriginOf[t]])
    BY <2>1, <2>2, SlotTaken
  <2>3. CASE ~GoBy(t, cache[OriginOf[t]])
    BY <1>1, <1>3, <2>3 DEF Lookup, Locked, HasSlot, PoliteTypeOK
  <2>. QED BY <2>2, <2>3
<1>4. ASSUME NEW t \in Task, NEW r \in Response, FetchEnds(t, r)
      PROVE  SlotsCounted' /\ SlotsSpaced'
  <2>1. ParserOf(r) \in Parser /\ GoBy(t, ParserOf(r)) /\ ~HasSlot(t)
    BY <1>4 DEF ParserOf, Parser, FetchEnds, HasSlot
  <2>. QED BY <2>1, SlotTaken
<1>5. CASE Tick \/ UNCHANGED politeVars
  BY <1>1, <1>5 DEF Tick, politeVars, HasSlot
<1>. QED
  BY <1>2, <1>3, <1>4, <1>5 DEF PoliteNext, Proceed, Idle, Leaving

LEMMA InitPolite == PoliteInit => PoliteInv
<1> SUFFICES ASSUME PoliteInit PROVE PoliteInv
  OBVIOUS
<1>1. HoldSem = {} /\ Cardinality(HoldSem) = 0
  BY FS_EmptySet DEF PoliteInit, HoldSem, Permit
<1>. QED
  BY <1>1, PoliteAssumption
  DEF PoliteInit, PoliteInv, PoliteTypeOK, FetchLocked, RulesKept, SlotsCounted, SlotsSpaced,
      HasSlot, TaskState, Parser

LEMMA PoliteInvariant == PoliteSpec => []PoliteInv
<1>1. PoliteInv /\ [PoliteNext]_politeVars => PoliteInv'
  BY TypeStep, FetchLockedStep, RulesKeptStep, SlotsStep DEF PoliteInv
<1>. QED BY <1>1, InitPolite, PTL DEF PoliteSpec

(* The gate of a crawl gives all its workers the same rules of an origin    *)
(* and keeps them from what it forbids, however the fetches of robots.txt   *)
(* race, fail or raise, and whatever the gate of a single page says.        *)
THEOREM OneSetOfRules == PoliteSpec => []RulesKept
<1>1. PoliteInv => RulesKept
  BY DEF PoliteInv
<1>. QED BY <1>1, PoliteInvariant, PTL

(* The fetches of one host are as far apart as their delays ask, for any    *)
(* mix of origins of that host.                                             *)
THEOREM SlotsAreSpaced == PoliteSpec => []SlotsSpaced
<1>1. PoliteInv => SlotsSpaced
  BY DEF PoliteInv
<1>. QED BY <1>1, PoliteInvariant, PTL
=============================================================================
