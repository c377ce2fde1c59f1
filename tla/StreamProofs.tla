---------------------------- MODULE StreamProofs ----------------------------
(***************************************************************************)
(* Proofs about ResultStream: the generators keep StreamContract and leave *)
(* nobody behind, for every number of pages and every concurrency.         *)
(***************************************************************************)
EXTENDS ResultStream, DistinctSeqsTheorems

Queued == Elements(queue)
Yielded == Elements(yielded)

(* How far the consumer, its cancellation and the producer are.             *)
PhasesOK ==
  /\ cancel = "requested" => consumer = "await_cancel" /\ producer # "done"
  /\ cancel = "delivered" => consumer \in {"await_cancel", "closed"}
  /\ consumer = "await_cancel" => cancel # "no"
  /\ consumer \in {"await_task", "closed"} => producer = "done"
  /\ producer = "new" => \A p \in Page : worker[p] = "none"
  /\ producer = "group" => \A p \in Page : worker[p] # "none"
  /\ producer = "ending" => WorkersOver /\ ~IsBatch
  /\ producer = "done" =>
       \/ WorkersOver
       \/ cancel = "delivered" /\ \A p \in Page : worker[p] = "none"
  /\ \A p \in Page : worker[p] = "cancelled" => IsCrawl \/ cancel = "delivered"
  /\ cancel = "delivered" =>
       \A p \in Page : worker[p] \in {"none", "done", "cancelled"}

(* The semaphore admits no more than it has permits.                        *)
SemOK == Cardinality(HoldSem) <= MaxConcurrency

(* Every result is in the queue or yielded, once, and nothing is behind the *)
(* sentinel.                                                                *)
ResultsOK ==
  /\ Distinct(queue) /\ Distinct(yielded)
  /\ \A p \in Page : worker[p] = "done" <=> p \in Queued \cup Yielded
  /\ Queued \cap Yielded = {}
  /\ IsBatch => queue = <<>>
  /\ Sentinel \in Queued => producer = "done" /\ queue[Len(queue)] = Sentinel

IInv == TypeOK /\ PhasesOK /\ SemOK /\ ResultsOK

-----------------------------------------------------------------------------
LEMMA Facts ==
  ASSUME TypeOK
  PROVE  /\ MaxConcurrency \in Nat \ {0} /\ Sentinel \notin Page
         /\ Queued \subseteq Page \cup {Sentinel} /\ Yielded \subseteq Page
         /\ Len(queue) \in Nat /\ Len(yielded) \in Nat
BY StreamAssumption, ElementsType DEF TypeOK, Sentinel, Queued, Yielded

(* The first item of the queue, taken out.                                  *)
LEMMA TakenOut ==
  ASSUME TypeOK, Get \/ GetSentinel
  PROVE  /\ Head(queue) \in Page \cup {Sentinel} /\ Head(queue) = queue[1]
         /\ queue' \in Seq(Page \cup {Sentinel}) /\ Len(queue') = Len(queue) - 1
         /\ Len(queue) \in Nat \ {0} /\ Head(queue) \in Queued
         /\ Distinct(queue) =>
              Distinct(queue') /\ Queued' = Queued \ {Head(queue)}
<1> DEFINE Item == Page \cup {Sentinel}
<1>1. queue \in Seq(Item) /\ queue # <<>> /\ queue' = Tail(queue)
  BY DEF TypeOK, Get, GetSentinel
<1> HIDE DEF Item
<1>2. /\ Head(queue) \in Item /\ Head(queue) = queue[1] /\ Len(queue) \in Nat \ {0}
      /\ Tail(queue) \in Seq(Item) /\ Len(Tail(queue)) = Len(queue) - 1
  BY <1>1, HeadTailProperties
<1>3. ASSUME Distinct(queue)
      PROVE  Distinct(queue') /\ Queued' = Queued \ {Head(queue)}
  BY <1>1, <1>3, DistinctTail DEF Queued
<1>4. Head(queue) \in Queued
  BY <1>2 DEF Queued, Elements
<1>. QED BY <1>1, <1>2, <1>3, <1>4 DEF Item

LEMMA TypeStep ==
  ASSUME TypeOK, [Next]_vars
  PROVE  TypeOK'
<1>0. MaxConcurrency \in Nat \ {0} /\ Capacity \in Nat /\ Capacity >= 2
  BY Facts DEF Capacity
<1>1. ASSUME NEW p \in Page, EnterSem(p) \/ ScrapeEnds(p) PROVE TypeOK'
  BY <1>1 DEF EnterSem, ScrapeEnds, TypeOK, WorkerState, Capacity
<1>2. ASSUME NEW p \in Page, Put(p) PROVE TypeOK'
  <2>1. /\ queue' \in Seq(Page \cup {Sentinel}) /\ Len(queue') = Len(queue) + 1
        /\ Len(queue) < Capacity /\ Len(queue) \in Nat
    BY <1>2, AppendProperties DEF Put, HasRoom, TypeOK
  <2>2. Len(queue') <= Capacity'
    BY <1>0, <2>1 DEF Capacity
  <2>. QED BY <1>2, <2>1, <2>2 DEF Put, TypeOK, WorkerState
<1>3. ASSUME NEW p \in Page, Report(p) PROVE TypeOK'
  <2>1. yielded' \in Seq(Page)
    BY <1>3, AppendProperties DEF Report, TypeOK
  <2>. QED BY <1>3, <2>1 DEF Report, TypeOK, WorkerState, Capacity
<1>4. CASE StartGroup \/ LeaveGroup \/ DeliverCancel \/ GroupFails
  BY <1>4 DEF StartGroup, LeaveGroup, DeliverCancel, GroupFails, TypeOK,
     WorkerState, Capacity
<1>5. CASE PutSentinel
  <2>1. /\ queue' \in Seq(Page \cup {Sentinel}) /\ Len(queue') = Len(queue) + 1
        /\ Len(queue) < Capacity /\ Len(queue) \in Nat
    BY <1>5, AppendProperties DEF PutSentinel, HasRoom, TypeOK
  <2>2. Len(queue') <= Capacity'
    BY <1>0, <2>1 DEF Capacity
  <2>. QED BY <1>5, <2>1, <2>2 DEF PutSentinel, TypeOK
<1>6. CASE Get \/ GetSentinel
  <2>1. /\ Head(queue) \in Page \cup {Sentinel}
        /\ queue' \in Seq(Page \cup {Sentinel}) /\ Len(queue') = Len(queue) - 1
        /\ Len(queue) \in Nat \ {0}
    BY <1>6, TakenOut
  <2>2. Len(queue') <= Capacity'
    BY <1>0, <2>1 DEF Capacity, TypeOK
  <2>3. yielded' \in Seq(Page)
    <3>1. CASE Get
      <4>1. Head(queue) \in Page /\ yielded' = Append(yielded, Head(queue))
        BY <2>1, <3>1 DEF Get
      <4>. QED BY <4>1, AppendProperties DEF TypeOK
    <3>2. CASE GetSentinel
      BY <3>2 DEF GetSentinel, TypeOK
    <3>. QED BY <1>6, <3>1, <3>2
  <2>. QED BY <1>6, <2>1, <2>2, <2>3 DEF Get, GetSentinel, TypeOK, ConsumerState
<1>7. CASE \/ AwaitTask \/ BatchReturns \/ NextItem \/ Leave \/ ConsumerCancelled
           \/ CloseGenerator \/ AwaitCancelled
  BY <1>7 DEF AwaitTask, BatchReturns, NextItem, Leave, ConsumerCancelled,
     CloseGenerator, AwaitCancelled, TypeOK, ConsumerState, Capacity
<1>8. CASE UNCHANGED vars
  BY <1>8 DEF vars, TypeOK, Capacity
<1>. QED
  BY <1>1, <1>2, <1>3, <1>4, <1>5, <1>6, <1>7, <1>8
  DEF Next, WorkerStep, ProducerStep, ConsumerStep, Terminated

(* The tasks' states a step may leave where they are, for PhasesOK.         *)
LEMMA PhasesStep ==
  ASSUME TypeOK, PhasesOK, ResultsOK, [Next]_vars
  PROVE  PhasesOK'
<1>0. Sentinel \notin Page
  BY Facts
<1>1. ASSUME NEW p \in Page, WorkerStep(p) PROVE PhasesOK'
  <2>1. /\ worker[p] \in {"at_sem", "scraping", "putting"}
        /\ worker'[p] \in {"scraping", "putting", "done"}
        /\ \A q \in Page \ {p} : worker'[q] = worker[q]
        /\ UNCHANGED <<generator, producer, cancel, consumer>>
    BY <1>1 DEF WorkerStep, EnterSem, ScrapeEnds, Put, Report, TypeOK
  <2>. QED BY <2>1 DEF PhasesOK, WorkersOver, IsCrawl, IsBatch
<1>2. CASE StartGroup
  BY <1>2 DEF StartGroup, PhasesOK, WorkersOver, IsCrawl, IsBatch
<1>3. CASE LeaveGroup \/ PutSentinel
  BY <1>3 DEF LeaveGroup, PutSentinel, PhasesOK, WorkersOver, IsCrawl, IsBatch
<1>4. CASE DeliverCancel
  <2>1. /\ worker' = [p \in Page |->
             IF worker[p] \in {"done", "none"} THEN worker[p] ELSE "cancelled"]
        /\ cancel' = "delivered" /\ cancel = "requested"
        /\ producer' = (IF producer = "group" THEN "group" ELSE "done")
        /\ UNCHANGED <<generator, consumer>>
    BY <1>4 DEF DeliverCancel
  <2>. QED BY <2>1 DEF PhasesOK, WorkersOver, IsCrawl, IsBatch, TypeOK
<1>5. CASE GroupFails
  BY <1>5 DEF GroupFails, PhasesOK, WorkersOver, IsCrawl, IsBatch
<1>6. CASE GetSentinel
  <2>1. Head(queue) \in Queued
    BY <1>6, TakenOut
  <2>2. producer = "done"
    BY <1>6, <2>1 DEF GetSentinel, ResultsOK
  <2>. QED
    BY <1>6, <2>2 DEF GetSentinel, PhasesOK, WorkersOver, IsCrawl, IsBatch
<1>7. CASE \/ Get \/ AwaitTask \/ BatchReturns \/ NextItem \/ Leave
           \/ ConsumerCancelled \/ CloseGenerator \/ AwaitCancelled
  <2>1. UNCHANGED <<generator, producer, worker>>
    BY <1>7 DEF Get, AwaitTask, BatchReturns, NextItem, Leave, ConsumerCancelled,
       CloseGenerator, AwaitCancelled
  <2>2. CASE UNCHANGED cancel /\ consumer # "await_cancel"
    BY <1>7, <2>1, <2>2
    DEF Get, AwaitTask, BatchReturns, NextItem, Leave, ConsumerCancelled,
        CloseGenerator, PhasesOK, WorkersOver, IsCrawl, IsBatch, TypeOK, AwaitCancelled
  <2>3. CASE CloseGenerator
    BY <2>1, <2>3
    DEF CloseGenerator, PhasesOK, WorkersOver, IsCrawl, IsBatch, TypeOK
  <2>4. CASE AwaitCancelled
    BY <2>1, <2>4
    DEF AwaitCancelled, PhasesOK, WorkersOver, IsCrawl, IsBatch, TypeOK
  <2>. QED
    BY <1>7, <2>2, <2>3, <2>4
    DEF Get, AwaitTask, BatchReturns, NextItem, Leave, ConsumerCancelled
<1>8. CASE UNCHANGED vars
  BY <1>8 DEF vars, PhasesOK, WorkersOver, IsCrawl, IsBatch
<1>. QED
  BY <1>1, <1>2, <1>3, <1>4, <1>5, <1>6, <1>7, <1>8
  DEF Next, ProducerStep, ConsumerStep, Terminated

Holds(p) == worker[p] = "scraping" \/ (IsCrawl /\ worker[p] = "putting")

LEMMA HoldSemDef ==
  /\ HoldSem = {p \in Page : Holds(p)}
  /\ HoldSem' = {p \in Page : Holds(p)'}
<1>1. HoldSem = {p \in Page : Holds(p)}
  <2>1. CASE IsCrawl
    BY <2>1 DEF HoldSem, InState, Holds
  <2>2. CASE ~IsCrawl
    BY <2>2 DEF HoldSem, InState, Holds
  <2>. QED BY <2>1, <2>2
<1>2. HoldSem' = {p \in Page : Holds(p)'}
  <2>1. CASE IsCrawl'
    BY <2>1 DEF HoldSem, InState, Holds
  <2>2. CASE ~IsCrawl'
    BY <2>2 DEF HoldSem, InState, Holds
  <2>. QED BY <2>1, <2>2
<1>. QED BY <1>1, <1>2

LEMMA HoldSemFinite ==
  IsFiniteSet(HoldSem) /\ Cardinality(HoldSem) \in Nat
<1>1. HoldSem \subseteq Page
  BY HoldSemDef
<1>. QED BY <1>1, StreamAssumption, FS_Subset, FS_CardinalityType

LEMMA SemStep ==
  ASSUME TypeOK, SemOK, [Next]_vars
  PROVE  SemOK'
<1>0. MaxConcurrency \in Nat /\ Cardinality(HoldSem) \in Nat
  BY StreamAssumption, HoldSemFinite
<1>2. ASSUME HoldSem' \subseteq HoldSem PROVE SemOK'
  <2>1. Cardinality(HoldSem') \in Nat /\ Cardinality(HoldSem') <= Cardinality(HoldSem)
    BY <1>2, HoldSemFinite, FS_Subset, FS_CardinalityType
  <2>. QED BY <1>0, <2>1 DEF SemOK
<1>3. ASSUME NEW p \in Page, EnterSem(p) PROVE SemOK'
  <2>1. HoldSem' = HoldSem \cup {p} /\ p \notin HoldSem
    BY <1>3, HoldSemDef DEF EnterSem, TypeOK, IsCrawl, Holds
  <2>2. Cardinality(HoldSem \cup {p}) = Cardinality(HoldSem) + 1
    BY <2>1, HoldSemFinite, FS_AddElement
  <2>. QED BY <1>0, <1>3, <2>1, <2>2 DEF EnterSem, SemOK
<1>4. ASSUME NEW p \in Page, ScrapeEnds(p) \/ Put(p) \/ Report(p) PROVE SemOK'
  BY <1>2, <1>4, HoldSemDef
  DEF ScrapeEnds, Put, Report, TypeOK, IsCrawl, IsBatch, Holds
<1>5. CASE StartGroup \/ DeliverCancel \/ GroupFails
  BY <1>2, <1>5, HoldSemDef
  DEF StartGroup, DeliverCancel, GroupFails, TypeOK, IsCrawl, Holds
<1>6. CASE UNCHANGED <<generator, worker>>
  BY <1>2, <1>6, HoldSemDef DEF IsCrawl, Holds
<1>. QED
  BY <1>3, <1>4, <1>5, <1>6
  DEF Next, WorkerStep, ProducerStep, ConsumerStep, Terminated, LeaveGroup,
      PutSentinel, Get, GetSentinel, AwaitTask, BatchReturns, NextItem, Leave,
      ConsumerCancelled, CloseGenerator, AwaitCancelled, vars

(* A result is in one place, from the put on.                               *)
LEMMA ResultsStep ==
  ASSUME TypeOK, PhasesOK, ResultsOK, [Next]_vars
  PROVE  ResultsOK'
<1>0. /\ Sentinel \notin Page /\ Queued \subseteq Page \cup {Sentinel}
      /\ Yielded \subseteq Page
  BY Facts
<1>1. ASSUME UNCHANGED <<generator, queue, yielded>>,
             \A p \in Page : worker'[p] = "done" <=> worker[p] = "done",
             Sentinel \in Queued => producer' = "done"
      PROVE  ResultsOK'
  <2>1. Queued' = Queued /\ Yielded' = Yielded
    BY <1>1 DEF Queued, Yielded
  <2>2. Distinct(queue') /\ Distinct(yielded')
    BY <1>1 DEF ResultsOK
  <2>. QED BY <1>1, <2>1, <2>2 DEF ResultsOK, IsBatch
<1>2. ASSUME NEW p \in Page, EnterSem(p) \/ ScrapeEnds(p) PROVE ResultsOK'
  BY <1>1, <1>2 DEF EnterSem, ScrapeEnds, TypeOK, ResultsOK
<1>3. ASSUME NEW p \in Page, Put(p) PROVE ResultsOK'
  <2>1. p \notin Queued /\ p \notin Yielded
    BY <1>3 DEF Put, ResultsOK
  <2>2. /\ Distinct(queue') /\ Queued' = Queued \cup {p}
        /\ Yielded' = Yielded /\ Distinct(yielded') /\ ~IsBatch /\ ~IsBatch'
    BY <1>3, <2>1, DistinctAppend
    DEF Put, HasRoom, IsBatch, ResultsOK, TypeOK, Queued, Yielded
  <2>3. Sentinel \notin Queued
    BY <1>3 DEF Put, ResultsOK, PhasesOK, WorkersOver
  <2>4. \A q \in Page : worker'[q] = "done" <=> worker[q] = "done" \/ q = p
    BY <1>3 DEF Put, TypeOK
  <2>. QED BY <1>0, <2>1, <2>2, <2>3, <2>4 DEF ResultsOK
<1>4. ASSUME NEW p \in Page, Report(p) PROVE ResultsOK'
  <2>1. p \notin Yielded
    BY <1>4 DEF Report, ResultsOK
  <2>2. /\ Distinct(yielded') /\ Yielded' = Yielded \cup {p}
        /\ Queued = {} /\ Queued' = {} /\ queue = <<>> /\ queue' = <<>>
    BY <1>4, <2>1, DistinctAppend, DistinctEmpty
    DEF Report, ResultsOK, TypeOK, Queued, Yielded
  <2>3. \A q \in Page : worker'[q] = "done" <=> worker[q] = "done" \/ q = p
    BY <1>4 DEF Report, TypeOK
  <2>. QED BY <2>1, <2>2, <2>3, DistinctEmpty DEF ResultsOK
<1>5. CASE StartGroup
  BY <1>1, <1>5 DEF StartGroup, ResultsOK, PhasesOK
<1>6. CASE LeaveGroup
  BY <1>1, <1>6 DEF LeaveGroup, ResultsOK
<1>7. CASE DeliverCancel \/ GroupFails
  BY <1>1, <1>7 DEF DeliverCancel, GroupFails, ResultsOK, PhasesOK, TypeOK
<1>8. CASE PutSentinel
  <2>1. Sentinel \notin Queued
    BY <1>8 DEF PutSentinel, ResultsOK
  <2>2. /\ Distinct(queue') /\ Queued' = Queued \cup {Sentinel}
        /\ queue'[Len(queue')] = Sentinel
    BY <1>8, <2>1, DistinctAppend, AppendProperties
    DEF PutSentinel, ResultsOK, TypeOK, Queued
  <2>3. /\ Yielded' = Yielded /\ Distinct(yielded') /\ UNCHANGED worker
        /\ producer' = "done" /\ ~IsBatch /\ ~IsBatch'
    BY <1>8 DEF PutSentinel, HasRoom, IsBatch, Yielded, ResultsOK
  <2>. QED BY <1>0, <2>1, <2>2, <2>3 DEF ResultsOK
<1>9. ASSUME Get \/ GetSentinel
      PROVE  /\ Distinct(queue') /\ Queued' = Queued \ {Head(queue)}
             /\ Head(queue) \in Queued /\ ~IsBatch
             /\ UNCHANGED <<generator, worker, producer>>
             /\ Sentinel \in Queued' => queue'[Len(queue')] = Sentinel
  <2>1. /\ Distinct(queue') /\ Queued' = Queued \ {Head(queue)}
        /\ Head(queue) \in Queued
    BY <1>9, TakenOut DEF ResultsOK
  <2>2. /\ queue # <<>> /\ queue' = Tail(queue)
        /\ UNCHANGED <<generator, worker, producer>>
    BY <1>9 DEF Get, GetSentinel
  <2>3. ASSUME Sentinel \in Queued' PROVE queue'[Len(queue')] = Sentinel
    <3>1. Len(queue') \in Nat \ {0} /\ Len(queue') = Len(queue) - 1
      <4>1. Len(queue) \in Nat \ {0} /\ Len(queue') = Len(queue) - 1
            /\ queue' \in Seq(Page \cup {Sentinel})
        BY <1>9, TakenOut
      <4>2. Len(queue') # 0
        BY <2>3, <4>1 DEF Queued, Elements
      <4>. QED BY <4>1, <4>2
    <3>2. queue'[Len(queue')] = queue[Len(queue') + 1]
      BY <2>2, <3>1, HeadTailProperties DEF TypeOK
    <3>3. queue[Len(queue)] = Sentinel
      BY <2>1, <2>3 DEF ResultsOK
    <3>. QED BY <3>1, <3>2, <3>3
  <2>. QED BY <2>1, <2>2, <2>3 DEF ResultsOK
<1>10. CASE Get
  <2>1. Head(queue) \in Page /\ Head(queue) \notin Yielded
    BY <1>0, <1>9, <1>10 DEF Get, ResultsOK
  <2>2. Distinct(yielded') /\ Yielded' = Yielded \cup {Head(queue)}
    BY <1>10, <2>1, DistinctAppend DEF Get, ResultsOK, TypeOK, Yielded
  <2>. QED BY <1>9, <1>10, <2>1, <2>2 DEF ResultsOK, IsBatch
<1>11. CASE GetSentinel
  <2>1. Head(queue) = Sentinel /\ Yielded' = Yielded /\ Distinct(yielded')
    BY <1>11 DEF GetSentinel, Yielded, ResultsOK
  <2>. QED BY <1>0, <1>9, <1>11, <2>1 DEF ResultsOK, IsBatch
<1>12. CASE \/ AwaitTask \/ BatchReturns \/ NextItem \/ Leave \/ ConsumerCancelled
            \/ CloseGenerator \/ AwaitCancelled \/ UNCHANGED vars
  BY <1>1, <1>12
  DEF AwaitTask, BatchReturns, NextItem, Leave, ConsumerCancelled,
      CloseGenerator, AwaitCancelled, vars, ResultsOK
<1>. QED
  BY <1>2, <1>3, <1>4, <1>5, <1>6, <1>7, <1>8, <1>10, <1>11, <1>12
  DEF Next, WorkerStep, ProducerStep, ConsumerStep, Terminated

-----------------------------------------------------------------------------
LEMMA InitIInv == Init => IInv
<1> SUFFICES ASSUME Init PROVE IInv
  OBVIOUS
<1>1. TypeOK
  <2>1. queue \in Seq(Page \cup {Sentinel}) /\ yielded \in Seq(Page)
        /\ Len(queue) = 0
    BY DEF Init
  <2>2. 0 <= Capacity
    BY StreamAssumption DEF Capacity
  <2>. QED BY <2>1, <2>2 DEF Init, TypeOK, WorkerState, ConsumerState
<1>2. PhasesOK
  BY DEF Init, PhasesOK
<1>3. SemOK
  <2>1. HoldSem = {}
    BY HoldSemDef DEF Init, Holds
  <2>. QED BY <2>1, FS_EmptySet, StreamAssumption DEF SemOK
<1>4. ResultsOK
  BY DistinctEmpty DEF Init, ResultsOK, Queued, Yielded
<1>. QED BY <1>1, <1>2, <1>3, <1>4 DEF IInv

LEMMA IInvariant == Spec => []IInv
<1>1. IInv /\ [Next]_vars => IInv'
  BY TypeStep, PhasesStep, SemStep, ResultsStep DEF IInv
<1>. QED BY InitIInv, <1>1, PTL DEF Spec

(* Every variable keeps its type, and the queue keeps to its maxsize.       *)
THEOREM TypeCorrect == Spec => []TypeOK
BY IInvariant, PTL DEF IInv

(* A generator that was closed leaves no task behind (batch.py:99), and the *)
(* unread results of a crawl are bounded (api.py:411).                      *)
THEOREM StreamLeavesNothing == Spec => []StreamTidy
<1>1. IInv => StreamTidy
  <2> SUFFICES ASSUME IInv PROVE StreamTidy
    OBVIOUS
  <2>1. ClosedLeavesNoTask
    BY DEF IInv, PhasesOK, WorkersOver, ClosedLeavesNoTask, InState
  <2>2. ASSUME IsCrawl PROVE Held <= Capacity + MaxConcurrency
    <3>1. InState("putting") \subseteq HoldSem
      BY <2>2 DEF HoldSem
    <3>2. /\ Cardinality(InState("putting")) \in Nat
          /\ Cardinality(InState("putting")) <= Cardinality(HoldSem)
          /\ Cardinality(HoldSem) \in Nat
      BY <3>1, HoldSemFinite, FS_Subset, FS_CardinalityType
    <3>. QED
      BY <3>2, Facts DEF IInv, TypeOK, SemOK, Held, Capacity
  <2>. QED BY <2>1, <2>2 DEF StreamTidy, BufferBounded
<1>. QED BY <1>1, IInvariant, PTL

(* What the contract calls the mode of the stream.                          *)
Mode ==
  IF consumer = "closed" \/ consumer = "await_task" THEN "over"
  ELSE IF Left THEN "left"
  ELSE "open"

(* The stream implements its contract: every step gives the consumer a page *)
(* it did not have, ends or leaves the stream, or is invisible to it; the   *)
(* stream ends complete, unless the crawl failed or the consumer left.      *)
THEOREM StreamKeepsContract == Spec => KeepsContract
<1>1. Init => SC!Init
  BY DEF Init, SC!Init, Left, IsCrawl
<1>2. IInv /\ [Next]_vars => [SC!Next]_<<IsCrawl, yielded, Mode>>
  <2> SUFFICES ASSUME IInv, [Next]_vars
               PROVE  SC!Next \/ UNCHANGED <<IsCrawl, yielded, Mode>>
    OBVIOUS
  <2>0. /\ TypeOK /\ PhasesOK /\ ResultsOK /\ Sentinel \notin Page
        /\ SC!Given = Yielded /\ Yielded \subseteq Page
    BY Facts DEF IInv, SC!Given, Yielded, Elements
  <2>1. IsCrawl' = IsCrawl /\ IsBatch' = IsBatch
    BY DEF Next, vars, IsCrawl, IsBatch, WorkerStep, ProducerStep, ConsumerStep,
       EnterSem, ScrapeEnds, Put, Report, StartGroup, LeaveGroup, PutSentinel,
       DeliverCancel, Get, GetSentinel, AwaitTask, BatchReturns, NextItem,
       CloseGenerator, AwaitCancelled, GroupFails, Leave, ConsumerCancelled,
       Terminated
  <2>2. ASSUME producer = "done", cancel = "no", Queued \subseteq {Sentinel}
        PROVE  Yielded = Page \/ IsCrawl
    BY <2>0, <2>2 DEF PhasesOK, WorkersOver, ResultsOK
  <2>3. ASSUME UNCHANGED <<yielded, consumer, cancel>>
        PROVE  UNCHANGED <<IsCrawl, yielded, Mode>>
    BY <2>1, <2>3 DEF Mode, Left
  <2>4. ASSUME NEW p \in Page, Report(p) PROVE SC!Next
    <3>1. p \in Page \ SC!Given /\ yielded' = Append(yielded, p)
      BY <2>0, <2>4 DEF Report, ResultsOK
    <3>2. Mode = "open" /\ Mode' = Mode
      BY <2>0, <2>1, <2>4
      DEF Report, Mode, Left, PhasesOK, WorkersOver, IsCrawl, IsBatch
    <3>. QED BY <2>1, <3>1, <3>2 DEF SC!Next, SC!Give, Mode
  <2>5. CASE DeliverCancel
    <3>1. cancel = "requested" /\ consumer = "await_cancel"
          /\ UNCHANGED <<consumer, yielded>> /\ cancel' = "delivered"
      BY <2>0, <2>5 DEF DeliverCancel, PhasesOK
    <3>. QED BY <2>1, <3>1 DEF Mode, Left, SC!Next, SC!LeaveEarly
  <2>6. CASE Get
    <3>1. Head(queue) \in Page \ SC!Given /\ yielded' = Append(yielded, Head(queue))
      <4>1. Head(queue) \in Queued /\ Head(queue) \in Page \cup {Sentinel}
        BY <2>0, <2>6, TakenOut
      <4>. QED BY <2>0, <2>6, <4>1 DEF Get, ResultsOK
    <3>2. Mode = "open" /\ Mode' = "open"
      BY <2>6 DEF Get, Mode, Left
    <3>. QED BY <2>1, <3>1, <3>2 DEF SC!Next, SC!Give, Mode
  <2>7. CASE GetSentinel
    <3>1. producer = "done" /\ cancel = "no"
      BY <2>0, <2>7, TakenOut DEF GetSentinel, ResultsOK, PhasesOK, TypeOK
    <3>2. Queued \subseteq {Sentinel}
      <4>1. /\ queue[1] = Sentinel /\ Sentinel \in Queued /\ Len(queue) \in Nat \ {0}
        BY <2>0, <2>7, TakenOut DEF GetSentinel
      <4>2. Len(queue) = 1
        <5>1. queue[Len(queue)] = queue[1]
          BY <2>0, <4>1 DEF ResultsOK
        <5>2. \A i, j \in 1..Len(queue) : queue[i] = queue[j] => i = j
          BY <2>0 DEF ResultsOK, Distinct
        <5>3. 1 \in 1..Len(queue) /\ Len(queue) \in 1..Len(queue)
          BY <4>1
        <5>. QED BY <5>1, <5>2, <5>3
      <4>. QED BY <4>1, <4>2 DEF Queued, Elements
    <3>3. Yielded = Page \/ IsCrawl
      BY <2>2, <3>1, <3>2
    <3>. QED
      BY <2>0, <2>1, <2>7, <3>3 DEF GetSentinel, Mode, Left, SC!Next, SC!End
  <2>8. CASE BatchReturns
    <3>1. Yielded = Page \/ IsCrawl
      BY <2>0, <2>2, <2>8, DistinctEmpty
      DEF BatchReturns, PhasesOK, ResultsOK, TypeOK, Queued
    <3>. QED
      BY <2>0, <2>1, <2>8, <3>1 DEF BatchReturns, Mode, Left, SC!Next, SC!End
  <2>9. CASE AwaitTask \/ NextItem
    BY <2>1, <2>9 DEF AwaitTask, NextItem, Mode, Left
  <2>10. CASE Leave \/ ConsumerCancelled
    BY <2>0, <2>1, <2>10
    DEF Leave, ConsumerCancelled, Mode, Left, SC!Next, SC!LeaveEarly, PhasesOK
  <2>11. CASE CloseGenerator
    <3>1. CASE producer # "done"
      BY <2>0, <2>1, <2>11, <3>1 DEF CloseGenerator, Mode, Left, PhasesOK
    <3>2. CASE producer = "done" /\ IsBatch
      <4>1. Yielded = Page \/ IsCrawl
        BY <2>0, <2>2, <2>11, <3>2, DistinctEmpty
        DEF CloseGenerator, PhasesOK, ResultsOK, TypeOK, Queued
      <4>. QED
        BY <2>0, <2>1, <2>11, <3>2, <4>1
        DEF CloseGenerator, Mode, Left, SC!Next, SC!End, PhasesOK
    <3>3. CASE producer = "done" /\ ~IsBatch
      BY <2>1, <2>11, <3>3 DEF CloseGenerator, Mode, Left, SC!Next, SC!End
    <3>. QED BY <3>1, <3>2, <3>3
  <2>12. CASE AwaitCancelled
    <3>1. cancel = "delivered"
      BY <2>0, <2>12 DEF AwaitCancelled, PhasesOK, TypeOK
    <3>. QED
      BY <2>1, <2>12, <3>1 DEF AwaitCancelled, Mode, Left, SC!Next, SC!End
  <2>13. ASSUME NEW p \in Page, EnterSem(p) \/ ScrapeEnds(p) \/ Put(p)
         PROVE  UNCHANGED <<yielded, consumer, cancel>>
    BY <2>13 DEF EnterSem, ScrapeEnds, Put
  <2>14. ASSUME StartGroup \/ LeaveGroup \/ PutSentinel \/ GroupFails
                  \/ UNCHANGED vars
         PROVE  UNCHANGED <<yielded, consumer, cancel>>
    BY <2>14 DEF StartGroup, LeaveGroup, PutSentinel, GroupFails, vars
  <2>. QED
    BY <2>3, <2>4, <2>5, <2>6, <2>7, <2>8, <2>9, <2>10, <2>11, <2>12, <2>13,
       <2>14
    DEF Next, WorkerStep, ProducerStep, ConsumerStep, Terminated
<1>. QED BY <1>1, <1>2, IInvariant, PTL DEF Spec, KeepsContract, SC!Spec, Mode
=============================================================================
