---------------------------- MODULE ResultStream ----------------------------
(***************************************************************************)
(* The streaming generators: batch_scrape_stream (crawl/batch.py) and       *)
(* crawl_stream (api.py).  A producer task runs one task per page under a   *)
(* semaphore; results go through a bounded asyncio.Queue to the consumer of *)
(* the generator; a sentinel marks the end.  The consumer may leave early,  *)
(* which cancels the producer and waits for it.  In crawl_stream the put    *)
(* runs inside the semaphore (on_page does) and the crawl itself may raise. *)
(* batch_scrape runs the same tasks in its caller, which waits for all of   *)
(* them; on_result, called by each, is what gives their results.            *)
(*                                                                         *)
(* The pages of a crawl are found while it runs; here the set is given, as  *)
(* CrawlScheduler models how it comes about.                                *)
(***************************************************************************)
EXTENDS Integers, Sequences, FiniteSets

CONSTANTS
  Page,            \* the URLs of the batch
  MaxConcurrency,  \* max(1, max_concurrency)
  Generators,      \* the generators looked at
  MayLeave,        \* the consumer may break out of its loop, at a result
  MayBeCancelled   \* the consumer's task may be cancelled while it waits

ASSUME StreamAssumption ==
  /\ IsFiniteSet(Page) /\ "sentinel" \notin Page
  /\ MaxConcurrency \in Nat \ {0}
  /\ Generators \subseteq {"batch_scrape_stream", "crawl_stream", "batch_scrape"}
  /\ {MayLeave, MayBeCancelled} \subseteq BOOLEAN

VARIABLES
  generator,  \* in Generators, never changes
  producer,   \* "new", "group" (in the TaskGroup), "ending" (finally), "done"
  cancel,     \* "no", "requested" by the consumer, "delivered" to the producer
  worker,     \* [Page -> WorkerState]
  queue,      \* asyncio.Queue: a sequence of pages and Sentinel
  consumer,   \* ConsumerState
  yielded     \* the pages the generator yielded, in order

vars == <<generator, producer, cancel, worker, queue, consumer, yielded>>

Sentinel == "sentinel"

(* maxsize=max(max_concurrency * 2, 2) *)
Capacity == 2 * MaxConcurrency

WorkerState == {"none", "at_sem", "scraping", "putting", "done", "cancelled"}
ConsumerState == {"get", "at_yield", "await_task", "leaving", "await_cancel",
                  "closed"}

IsCrawl == generator = "crawl_stream"
IsBatch == generator = "batch_scrape"
InState(s) == {p \in Page : worker[p] = s}

(* Faulty: crawl_stream's results are put after the semaphore was freed. *)
HoldSemScraping == InState("scraping")

HoldSem == InState("scraping") \cup (IF IsCrawl THEN InState("putting") ELSE {})
HasRoom == ~IsBatch /\ Len(queue) < Capacity
WorkersOver == \A p \in Page : worker[p] \in {"done", "cancelled"}

Init ==
  /\ generator \in Generators
  /\ producer = "new" /\ cancel = "no"
  /\ worker = [p \in Page |-> "none"]
  /\ queue = <<>> /\ consumer = "get" /\ yielded = <<>>
-----------------------------------------------------------------------------
(* The producer and its tasks.                                              *)

(* create_task for every page, without an await in between. *)
StartGroup ==
  /\ producer = "new" /\ cancel = "no"
  /\ producer' = "group"
  /\ worker' = [p \in Page |-> "at_sem"]
  /\ UNCHANGED <<generator, cancel, queue, consumer, yielded>>

EnterSem(p) ==
  /\ worker[p] = "at_sem" /\ Cardinality(HoldSem) < MaxConcurrency
  /\ worker' = [worker EXCEPT ![p] = "scraping"]
  /\ UNCHANGED <<generator, producer, cancel, queue, consumer, yielded>>

(* _run_one: a result or, when the scrape raised, an item with its error. *)
ScrapeEnds(p) ==
  /\ worker[p] = "scraping"
  /\ worker' = [worker EXCEPT ![p] = "putting"]
  /\ UNCHANGED <<generator, producer, cancel, queue, consumer, yielded>>

(* Faulty: a put that is repeated after it went through. *)
PutRepeated(p) ==
  /\ worker[p] = "putting" /\ HasRoom
  /\ queue' = Append(queue, p)
  /\ UNCHANGED <<generator, producer, cancel, worker, consumer, yielded>>

Put(p) ==
  /\ worker[p] = "putting" /\ HasRoom
  /\ queue' = Append(queue, p)
  /\ worker' = [worker EXCEPT ![p] = "done"]
  /\ UNCHANGED <<generator, producer, cancel, consumer, yielded>>

(* on_result is called, outside of the semaphore; an exception of it is     *)
(* logged.                                                                  *)
Report(p) ==
  /\ IsBatch /\ worker[p] = "putting"
  /\ yielded' = Append(yielded, p)
  /\ worker' = [worker EXCEPT ![p] = "done"]
  /\ UNCHANGED <<generator, producer, cancel, queue, consumer>>

(* The crawl raises (the request queue failed): the TaskGroup cancels. *)
GroupFails ==
  /\ IsCrawl /\ producer = "group" /\ ~WorkersOver
  /\ worker' = [p \in Page |->
       IF worker[p] = "done" THEN "done" ELSE "cancelled"]
  /\ UNCHANGED <<generator, producer, cancel, queue, consumer, yielded>>

(* The TaskGroup is left, normally or by the exception it re-raises. *)
LeaveGroup ==
  /\ producer = "group" /\ WorkersOver /\ cancel # "requested"
  /\ producer' = IF IsBatch THEN "done" ELSE "ending"
  /\ UNCHANGED <<generator, cancel, worker, queue, consumer, yielded>>

(* Faulty: the producer ends without a sentinel. *)
NoSentinel ==
  /\ producer = "ending" /\ HasRoom /\ cancel # "requested"
  /\ producer' = "done"
  /\ UNCHANGED <<generator, cancel, worker, queue, consumer, yielded>>

(* finally: await queue.put(sentinel) *)
PutSentinel ==
  /\ producer = "ending" /\ HasRoom /\ cancel # "requested"
  /\ queue' = Append(queue, Sentinel)
  /\ producer' = "done"
  /\ UNCHANGED <<generator, cancel, worker, consumer, yielded>>

(* The producer's task receives the CancelledError where it is suspended:   *)
(* before its first step, in the TaskGroup (which cancels its children), or *)
(* in the put of the sentinel.                                              *)
DeliverCancel ==
  /\ cancel = "requested"
  /\ cancel' = "delivered"
  /\ producer' = IF producer = "group" THEN "group" ELSE "done"
  /\ worker' = [p \in Page |->
       IF worker[p] \in {"done", "none"} THEN worker[p] ELSE "cancelled"]
  /\ UNCHANGED <<generator, queue, consumer, yielded>>
-----------------------------------------------------------------------------
(* The consumer: the generator's body, driven by an async for.              *)

Get ==
  /\ consumer = "get" /\ queue # <<>> /\ Head(queue) # Sentinel
  /\ yielded' = Append(yielded, Head(queue))
  /\ queue' = Tail(queue)
  /\ consumer' = "at_yield"
  /\ UNCHANGED <<generator, producer, cancel, worker>>

GetSentinel ==
  /\ consumer = "get" /\ queue # <<>> /\ Head(queue) = Sentinel
  /\ queue' = Tail(queue)
  /\ consumer' = "await_task"
  /\ UNCHANGED <<generator, producer, cancel, worker, yielded>>

(* await task, and the finally finds the task done. *)
AwaitTask ==
  /\ consumer = "await_task" /\ producer = "done"
  /\ consumer' = "closed"
  /\ UNCHANGED <<generator, producer, cancel, worker, queue, yielded>>

(* batch_scrape returns its list. *)
BatchReturns ==
  /\ IsBatch /\ consumer = "get" /\ producer = "done"
  /\ consumer' = "closed"
  /\ UNCHANGED <<generator, producer, cancel, worker, queue, yielded>>

NextItem ==
  /\ consumer = "at_yield"
  /\ consumer' = "get"
  /\ UNCHANGED <<generator, producer, cancel, worker, queue, yielded>>

(* The caller leaves its loop: GeneratorExit at the yield. *)
Leave ==
  /\ consumer = "at_yield" /\ MayLeave
  /\ consumer' = "leaving"
  /\ UNCHANGED <<generator, producer, cancel, worker, queue, yielded>>

(* The caller is cancelled while it awaits the next item, or the group. *)
ConsumerCancelled ==
  /\ consumer = "get" /\ MayBeCancelled /\ (IsBatch => producer = "group")
  /\ consumer' = "leaving"
  /\ UNCHANGED <<generator, producer, cancel, worker, queue, yielded>>

(* finally: if not task.done(): task.cancel(); await task *)
CloseGenerator ==
  /\ consumer = "leaving"
  /\ \/ /\ producer = "done"
        /\ consumer' = "closed"
        /\ UNCHANGED cancel
     \/ /\ producer # "done"
        /\ consumer' = "await_cancel"
        /\ cancel' = "requested"
  /\ UNCHANGED <<generator, producer, worker, queue, yielded>>

AwaitCancelled ==
  /\ consumer = "await_cancel" /\ producer = "done"
  /\ consumer' = "closed"
  /\ UNCHANGED <<generator, producer, cancel, worker, queue, yielded>>

Terminated == consumer = "closed" /\ UNCHANGED vars
-----------------------------------------------------------------------------
WorkerStep(p) == EnterSem(p) \/ ScrapeEnds(p) \/ Put(p) \/ Report(p)

ProducerStep == StartGroup \/ LeaveGroup \/ PutSentinel \/ DeliverCancel

ConsumerStep ==
  \/ Get \/ GetSentinel \/ AwaitTask \/ BatchReturns \/ NextItem
  \/ CloseGenerator \/ AwaitCancelled

Next ==
  \/ \E p \in Page : WorkerStep(p)
  \/ ProducerStep \/ ConsumerStep
  \/ GroupFails \/ Leave \/ ConsumerCancelled
  \/ Terminated

Spec == Init /\ [][Next]_vars

(* The event loop runs every ready task and every scrape ends.  Semaphore   *)
(* and queue serve their waiters in FIFO order, so a task that finds them   *)
(* free again and again gets them.                                          *)
Fairness ==
  /\ \A p \in Page : SF_vars(WorkerStep(p))
  /\ WF_vars(ProducerStep) /\ WF_vars(ConsumerStep)

FairSpec == Spec /\ Fairness
-----------------------------------------------------------------------------
(* Properties.                                                              *)

(* Every variable has its type, and the queue keeps to its maxsize.         *)
TypeOK ==
  /\ generator \in Generators
  /\ producer \in {"new", "group", "ending", "done"}
  /\ cancel \in {"no", "requested", "delivered"}
  /\ worker \in [Page -> WorkerState]
  /\ queue \in Seq(Page \cup {Sentinel}) /\ Len(queue) <= Capacity
  /\ consumer \in ConsumerState
  /\ yielded \in Seq(Page)

(* A generator that was closed leaves no task behind (batch.py:99).         *)
ClosedLeavesNoTask ==
  consumer = "closed" =>
    producer = "done" /\ InState("at_sem") \cup InState("scraping")
                           \cup InState("putting") = {}

(* Results that exist and were not yielded. *)
Held == Cardinality(InState("putting")) + Len(queue)

(* api.py:411 "Bounded so a slow consumer back-pressures the scheduler":    *)
(* a crawl holds no more results than the queue and the semaphore allow.    *)
BufferBounded == IsCrawl => Held <= Capacity + MaxConcurrency

(* Nobody is left behind, neither tasks nor results.                        *)
StreamTidy == ClosedLeavesNoTask /\ BufferBounded

(* The consumer left; on_result is called until the tasks are cancelled.    *)
Left ==
  /\ consumer \in {"leaving", "await_cancel"}
  /\ IsBatch => cancel = "delivered"

(* The stream keeps StreamContract.                                         *)
SC == INSTANCE StreamContract WITH
        given <- yielded,
        mayFail <- IsCrawl,
        mode <- IF consumer = "closed" \/ consumer = "await_task" THEN "over"
                ELSE IF Left THEN "left"
                ELSE "open"
KeepsContract == SC!Spec

(* The stream ends for a consumer that reads on.                            *)
StreamEnds == <>(consumer \in {"leaving", "closed"})

(* batch.py:98 "Breaking out of the async for early cancels and cleans up   *)
(* the producer task": the generator gets closed.                           *)
LeavingCloses == (consumer = "leaving") ~> (consumer = "closed")
=============================================================================
