---------------------------- MODULE LearnedProofs ----------------------------
(***************************************************************************)
(* Proofs about MC_Learned: what extractions and runs of the agent learn   *)
(* from a site, for every number of them, of fields, layouts and faults.   *)
(***************************************************************************)
EXTENDS MC_Learned, FiniteSetTheorems, TLAPS

-----------------------------------------------------------------------------
(* Extractions.                                                             *)
Calling == {w \in Worker : pc[w] = "llm"}
Evicting == {w \in Worker : pc[w] \in {"counted", "evict"}}

(* Answered calls are charged; those on their way passed the gate when the  *)
(* charged ones left room for one.                                          *)
CallsCharged ==
  /\ made = llmCalls
  /\ llmCalls + Cardinality(Calling) <= MaxLLMCalls + Cardinality(Worker) - 1

(* Beyond the threshold, a count is one of an extraction that will evict,   *)
(* or of one that raised.                                                   *)
FailuresExcused ==
  \A f \in Field :
    failures[f] <= Threshold - 1 + Cardinality(Evicting) + faults

ExtractInv ==
  ExtractTypeOK /\ CallsCharged /\ EvictionJustified /\ FailuresExcused

LEMMA Workers ==
  /\ IsFiniteSet(Worker) /\ Cardinality(Worker) \in Nat \ {0}
  /\ IsFiniteSet(Calling) /\ Cardinality(Calling) \in Nat
  /\ IsFiniteSet(Evicting) /\ Cardinality(Evicting) \in Nat
  /\ Cardinality(Evicting) <= Cardinality(Worker)
<1>1. IsFiniteSet(Worker) /\ Cardinality(Worker) \in Nat \ {0}
  BY ExtractAssumption, FS_EmptySet, FS_CardinalityType
<1>2. Calling \subseteq Worker /\ Evicting \subseteq Worker
  BY DEF Calling, Evicting
<1>. QED BY <1>1, <1>2, FS_Subset, FS_CardinalityType

LEMMA WorkersPrimed ==
  Cardinality(Calling') \in Nat /\ Cardinality(Evicting') \in Nat
<1>1. Calling' \subseteq Worker /\ Evicting' \subseteq Worker
  BY DEF Calling, Evicting
<1>. QED BY <1>1, Workers, FS_Subset, FS_CardinalityType

(* A set of workers that one of them joins, leaves, or that stays as it is. *)
LEMMA OneMore ==
  ASSUME NEW S, NEW w, IsFiniteSet(S), w \notin S
  PROVE  Cardinality(S \cup {w}) = Cardinality(S) + 1
BY FS_AddElement

LEMMA OneLess ==
  ASSUME NEW S, NEW w, IsFiniteSet(S), w \in S
  PROVE  Cardinality(S \ {w}) = Cardinality(S) - 1
BY FS_RemoveElement

(* BudgetGate, for a worker that does not call the LLM yet.                 *)
LEMMA GateStep ==
  ASSUME ExtractTypeOK, CallsCharged, NEW w \in Worker,
         pc[w] \in {"get", "counted", "evict"}, BudgetGate(w),
         UNCHANGED <<made, llmCalls>>
  PROVE  /\ CallsCharged' /\ pc'[w] \in {"llm", "idle"}
         /\ pc' = [pc EXCEPT ![w] = pc'[w]]
         /\ html' \in [Worker -> 0..Layouts] /\ verified' = verified
         /\ loose' = loose
         /\ \A v \in Worker : pc'[v] # "idle" => html'[v] # 0
<1>0. /\ llmCalls \in Nat /\ MaxLLMCalls \in Nat /\ w \notin Calling
      /\ 0 \in 0..Layouts
  BY ExtractAssumption, SiteAssumption DEF ExtractTypeOK, Calling
<1>1. CASE CanUseLLM /\ Goto(w, "llm") /\ UNCHANGED localVars
  <2>1. Calling' = Calling \cup {w}
    BY <1>1 DEF Goto, Calling, ExtractTypeOK
  <2>2. Cardinality(Calling \cup {w}) = Cardinality(Calling) + 1
    BY <1>0, Workers, OneMore
  <2>3. Cardinality(Calling \cup {w}) <= Cardinality(Worker)
    <3>1. Calling \cup {w} \subseteq Worker
      BY DEF Calling
    <3>. QED BY <3>1, Workers, FS_Subset
  <2>4. CallsCharged'
    BY <1>0, <1>1, <2>1, <2>2, <2>3, Workers DEF CallsCharged, CanUseLLM
  <2>. QED BY <1>1, <2>4 DEF Goto, ExtractTypeOK, localVars
<1>2. CASE ~CanUseLLM /\ Return(w)
  <2>1. Calling' = Calling
    BY <1>0, <1>2 DEF Return, Goto, Calling, ExtractTypeOK
  <2>2. CallsCharged'
    BY <2>1 DEF CallsCharged
  <2>3. /\ verified' = verified /\ loose' = loose
        /\ html' \in [Worker -> 0..Layouts]
        /\ \A v \in Worker : pc'[v] # "idle" => html'[v] # 0
    BY <1>0, <1>2 DEF Return, Goto, ExtractTypeOK
  <2>. QED BY <1>2, <2>2, <2>3 DEF Return, Goto, ExtractTypeOK
<1>. QED BY <1>1, <1>2 DEF BudgetGate

LEMMA CallsStep ==
  ASSUME SiteTypeOK, ExtractTypeOK, CallsCharged, ExtractNext
  PROVE  CallsCharged'
<1>0. llmCalls \in Nat /\ MaxLLMCalls \in Nat
  BY ExtractAssumption DEF ExtractTypeOK
<1>1. ASSUME UNCHANGED <<made, llmCalls>>,
             \A v \in Worker : pc'[v] = "llm" <=> pc[v] = "llm"
      PROVE  CallsCharged'
  <2>1. Calling' = Calling
    BY <1>1 DEF Calling
  <2>. QED BY <1>1, <2>1 DEF CallsCharged
<1>2. ASSUME NEW w \in Worker, Begin(w) \/ MetadataHit(w) PROVE CallsCharged'
  BY <1>1, <1>2 DEF Begin, MetadataHit, Return, Goto, ExtractTypeOK
<1>3. ASSUME NEW w \in Worker, Get(w) PROVE CallsCharged'
  <2>1. CASE BudgetGate(w)
    BY <1>3, <2>1, GateStep DEF Get
  <2>2. CASE Goto(w, IF Applies(w) THEN "success" ELSE "failure")
    BY <1>1, <1>3, <2>2 DEF Get, Goto, ExtractTypeOK
  <2>. QED BY <1>3, <2>1, <2>2 DEF Get
<1>4. ASSUME NEW w \in Worker, RecordSuccess(w) \/ CountFailure(w) \/ Put(w)
      PROVE  CallsCharged'
  BY <1>1, <1>4
    DEF RecordSuccess, CountFailure, Put, Return, Goto, ExtractTypeOK
<1>5. ASSUME NEW w \in Worker, ReadCount(w) PROVE CallsCharged'
  <2>1. CASE BudgetGate(w)
    BY <1>5, <2>1, GateStep DEF ReadCount
  <2>2. CASE Goto(w, "evict")
    BY <1>1, <1>5, <2>2 DEF ReadCount, Goto, ExtractTypeOK
  <2>. QED BY <1>5, <2>1, <2>2 DEF ReadCount
<1>6. ASSUME NEW w \in Worker, Evict(w) PROVE CallsCharged'
  BY <1>6, GateStep DEF Evict
<1>7. ASSUME NEW w \in Worker, LLMAnswers(w) PROVE CallsCharged'
  <2>1. Calling' = Calling \ {w} /\ w \in Calling
    BY <1>7 DEF LLMAnswers, Verify, Return, Goto, Calling, ExtractTypeOK
  <2>2. Cardinality(Calling \ {w}) = Cardinality(Calling) - 1
    BY <2>1, Workers, OneLess
  <2>. QED BY <1>0, <1>7, <2>1, <2>2, Workers DEF LLMAnswers, CallsCharged
<1>8. ASSUME NEW w \in Worker, Raise(w) PROVE CallsCharged'
  <2>1. Calling' = Calling \ {w}
    BY <1>8 DEF Raise, Return, Goto, Calling, ExtractTypeOK
  <2>2. Cardinality(Calling \ {w}) <= Cardinality(Calling)
    <3>1. Calling \ {w} \subseteq Calling
      OBVIOUS
    <3>. QED BY <3>1, Workers, FS_Subset
  <2>. QED
    BY <1>0, <1>8, <2>1, <2>2, Workers, WorkersPrimed DEF Raise, CallsCharged
<1>9. CASE Redesign /\ UNCHANGED workerVars
  BY <1>1, <1>9 DEF workerVars, rowVars
<1>. QED
  BY <1>2, <1>3, <1>4, <1>5, <1>6, <1>7, <1>8, <1>9 DEF ExtractNext

(* The types, and that only workers about to put hold trusted selectors.    *)
LEMMA ExtractTypeStep ==
  ASSUME SiteTypeOK, ExtractTypeOK, CallsCharged, ExtractNext
  PROVE  ExtractTypeOK'
<1>0. /\ 0 \in 0..Layouts /\ layout \in 0..Layouts /\ llmCalls \in Nat /\ made \in Nat
      /\ \A f \in Field : failures[f] \in Nat
  BY SiteAssumption DEF SiteTypeOK, ExtractTypeOK, Rows, rowVars, localVars
<1>1. ASSUME NEW w \in Worker, Begin(w) PROVE ExtractTypeOK'
  BY <1>0, <1>1
    DEF SiteTypeOK, Begin, Goto, ExtractTypeOK, Rows, rowVars, localVars
<1>2. ASSUME NEW w \in Worker, MetadataHit(w) \/ Raise(w) PROVE ExtractTypeOK'
  BY <1>0, <1>2
    DEF MetadataHit, Raise, Return, Goto, ExtractTypeOK, Rows, rowVars,
        localVars
<1>3. ASSUME NEW w \in Worker, Get(w) PROVE ExtractTypeOK'
  <2>1. CASE BudgetGate(w)
    BY <1>3, <2>1, GateStep DEF Get, ExtractTypeOK, Rows, rowVars, localVars
  <2>2. CASE /\ Goto(w, IF Applies(w) THEN "success" ELSE "failure")
             /\ UNCHANGED localVars
    BY <1>3, <2>2 DEF Get, Goto, ExtractTypeOK, Rows, rowVars, localVars
  <2>. QED BY <1>3, <2>1, <2>2 DEF Get
<1>4. ASSUME NEW w \in Worker, RecordSuccess(w) PROVE ExtractTypeOK'
  BY <1>0, <1>4
    DEF RecordSuccess, Disturb, Return, Goto, ExtractTypeOK, Rows, rowVars,
        localVars
<1>5. ASSUME NEW w \in Worker, CountFailure(w) PROVE ExtractTypeOK'
  BY <1>0, <1>5 DEF CountFailure, Goto, ExtractTypeOK, Rows, rowVars, localVars
<1>6. ASSUME NEW w \in Worker, ReadCount(w) PROVE ExtractTypeOK'
  <2>1. CASE BudgetGate(w)
    BY <1>6, <2>1, GateStep
      DEF ReadCount, ExtractTypeOK, Rows, rowVars, localVars
  <2>2. CASE Goto(w, "evict") /\ UNCHANGED localVars
    BY <1>6, <2>2 DEF ReadCount, Goto, ExtractTypeOK, Rows, rowVars, localVars
  <2>. QED BY <1>6, <2>1, <2>2 DEF ReadCount
<1>7. ASSUME NEW w \in Worker, Evict(w) PROVE ExtractTypeOK'
  <2>1. /\ pc' = [pc EXCEPT ![w] = pc'[w]] /\ pc'[w] \in {"llm", "idle"}
        /\ html' \in [Worker -> 0..Layouts] /\ verified' = verified
        /\ loose' = loose /\ \A v \in Worker : pc'[v] # "idle" => html'[v] # 0
    BY <1>7, GateStep DEF Evict
  <2>. QED BY <1>0, <1>7, <2>1
    DEF Evict, Disturb, ExtractTypeOK, Rows, rowVars, localVars
<1>8. ASSUME NEW w \in Worker, LLMAnswers(w) PROVE ExtractTypeOK'
  <2>1. CASE Return(w)
    BY <1>0, <1>8, <2>1
      DEF LLMAnswers, Return, Goto, ExtractTypeOK, Rows, rowVars, localVars
  <2>2. ASSUME NEW fs \in (SUBSET Field) \ {{}}, NEW ls \in SUBSET fs,
               Goto(w, "put"), UNCHANGED html,
               verified' = [verified EXCEPT ![w] = fs],
               loose' = [loose EXCEPT ![w] = ls]
        PROVE  ExtractTypeOK'
    BY <1>0, <1>8, <2>2 DEF LLMAnswers, Goto, ExtractTypeOK, Rows, rowVars
  <2>. QED BY <1>8, <2>1, <2>2
    DEF LLMAnswers, Verify, Proposed, Trusted, Rejected
<1>9. ASSUME NEW w \in Worker, Put(w) PROVE ExtractTypeOK'
  BY <1>0, <1>9
    DEF Put, Disturb, Return, Goto, ExtractTypeOK, Rows, rowVars, localVars
<1>10. CASE Redesign /\ UNCHANGED workerVars
  BY <1>10 DEF workerVars, ExtractTypeOK, Rows, rowVars, localVars
<1>. QED
  BY <1>1, <1>2, <1>3, <1>4, <1>5, <1>6, <1>7, <1>8, <1>9, <1>10
    DEF ExtractNext

(* An eviction stays justified: whoever resets the counts or replaces the   *)
(* rows disturbs the others that are about to evict.                        *)
LEMMA JustifiedStep ==
  ASSUME SiteTypeOK, ExtractTypeOK, CallsCharged, EvictionJustified, ExtractNext
  PROVE  EvictionJustified'
<1>1. ASSUME NEW w \in Worker, pc'[w] # "evict",
             \A v \in Worker \ {w} : pc'[v] = pc[v],
             \/ UNCHANGED <<learned, failures, disturbed>>
             \/ Disturb(w)
      PROVE  EvictionJustified'
  BY <1>1 DEF EvictionJustified, Disturb, Stale, Rows
<1>2. ASSUME NEW w \in Worker,
             Begin(w) \/ MetadataHit(w) \/ RecordSuccess(w) \/ Put(w) \/ Raise(w)
      PROVE  EvictionJustified'
  BY <1>1, <1>2
  DEF rowVars, Begin, MetadataHit, RecordSuccess, Put, Raise, Return, Goto,
      ExtractTypeOK
<1>3. ASSUME NEW w \in Worker, Get(w) PROVE EvictionJustified'
  <2>1. CASE BudgetGate(w)
    <3>1. /\ pc' = [pc EXCEPT ![w] = pc'[w]] /\ pc'[w] # "evict"
      BY <1>3, <2>1, GateStep DEF Get
    <3>. QED BY <1>1, <1>3, <3>1 DEF rowVars, Get, ExtractTypeOK
  <2>2. CASE Goto(w, IF Applies(w) THEN "success" ELSE "failure")
    BY <1>1, <1>3, <2>2 DEF rowVars, Get, Goto, ExtractTypeOK
  <2>. QED BY <1>3, <2>1, <2>2 DEF Get
<1>4. ASSUME NEW w \in Worker, CountFailure(w) PROVE EvictionJustified'
  <2>1. Stale => Stale'
    <3>1. \A f \in Field : failures[f] \in Nat
      BY DEF ExtractTypeOK
    <3>. QED
      BY <1>4, <3>1, ExtractAssumption DEF CountFailure, Stale, Rows
  <2>2. /\ pc'[w] = "counted" /\ disturbed' = disturbed \ {w}
        /\ \A v \in Worker \ {w} : pc'[v] = pc[v]
    BY <1>4 DEF CountFailure, Goto, ExtractTypeOK
  <2>. QED BY <2>1, <2>2 DEF EvictionJustified
<1>5. ASSUME NEW w \in Worker, ReadCount(w) PROVE EvictionJustified'
  <2>1. CASE BudgetGate(w)
    <3>1. /\ pc' = [pc EXCEPT ![w] = pc'[w]] /\ pc'[w] # "evict"
      BY <1>5, <2>1, GateStep DEF ReadCount
    <3>. QED BY <1>1, <1>5, <3>1 DEF rowVars, ReadCount, ExtractTypeOK
  <2>2. CASE Stale /\ Goto(w, "evict")
    BY <1>5, <2>2
    DEF rowVars, ReadCount, Goto, ExtractTypeOK, EvictionJustified, Stale, Rows
  <2>. QED BY <1>5, <2>1, <2>2 DEF ReadCount
<1>6. ASSUME NEW w \in Worker, Evict(w) PROVE EvictionJustified'
  <2>1. /\ pc' = [pc EXCEPT ![w] = pc'[w]] /\ pc'[w] # "evict"
    BY <1>6, GateStep DEF Evict
  <2>. QED BY <1>1, <1>6, <2>1 DEF Evict, ExtractTypeOK
<1>7. ASSUME NEW w \in Worker, LLMAnswers(w) PROVE EvictionJustified'
  BY <1>1, <1>7 DEF rowVars, LLMAnswers, Verify, Return, Goto, ExtractTypeOK
<1>8. CASE Redesign /\ UNCHANGED workerVars
  BY <1>8 DEF workerVars, rowVars, EvictionJustified, Stale, Rows
<1>. QED
  BY <1>2, <1>3, <1>4, <1>5, <1>6, <1>7, <1>8 DEF ExtractNext

(* Failures add up only while those who counted them are on their way to    *)
(* read the count and evict.                                                *)
LEMMA ExcusedStep ==
  ASSUME SiteTypeOK, SiteTypeOK', ExtractTypeOK, ExtractTypeOK', CallsCharged,
         FailuresExcused, ExtractNext
  PROVE  FailuresExcused'
<1>0. /\ faults \in Nat /\ faults' \in Nat /\ Threshold \in Nat \ {0}
      /\ Cardinality(Evicting) \in Nat /\ Cardinality(Evicting') \in Nat
      /\ \A f \in Field : failures[f] \in Nat /\ failures'[f] \in Nat
      /\ \A f \in Field : f \notin Rows => failures[f] = 0
  BY ExtractAssumption, SiteAssumption, Workers, WorkersPrimed
  DEF SiteTypeOK, ExtractTypeOK, Rows
<1>1. ASSUME UNCHANGED faults,
             \A f \in Field : failures'[f] \in {0, failures[f]},
             \A v \in Worker : pc'[v] \in {"counted", "evict"}
                                <=> pc[v] \in {"counted", "evict"}
      PROVE  FailuresExcused'
  <2>1. Evicting' = Evicting
    BY <1>1 DEF Evicting
  <2>. QED BY <1>0, <1>1, <2>1 DEF FailuresExcused
<1>2. ASSUME \A f \in Field : failures'[f] <= Threshold - 1
      PROVE  FailuresExcused'
  BY <1>0, <1>2 DEF FailuresExcused
<1>3. ASSUME NEW w \in Worker,
             Begin(w) \/ MetadataHit(w) \/ RecordSuccess(w) \/ Put(w)
      PROVE  FailuresExcused'
  BY <1>1, <1>3
  DEF rowVars, Begin, MetadataHit, RecordSuccess, Put, Return, Goto,
      ExtractTypeOK
<1>4. ASSUME NEW w \in Worker, Get(w) PROVE FailuresExcused'
  <2>1. CASE BudgetGate(w)
    <3>1. /\ pc' = [pc EXCEPT ![w] = pc'[w]] /\ pc'[w] \in {"llm", "idle"}
      BY <1>4, <2>1, GateStep DEF Get
    <3>. QED BY <1>1, <1>4, <3>1 DEF rowVars, Get, ExtractTypeOK
  <2>2. CASE Goto(w, IF Applies(w) THEN "success" ELSE "failure")
    BY <1>1, <1>4, <2>2 DEF rowVars, Get, Goto, ExtractTypeOK
  <2>. QED BY <1>4, <2>1, <2>2 DEF Get
<1>5. ASSUME NEW w \in Worker, CountFailure(w) PROVE FailuresExcused'
  <2>1. Evicting' = Evicting \cup {w} /\ w \notin Evicting
    BY <1>5 DEF CountFailure, Goto, Evicting, ExtractTypeOK
  <2>2. Cardinality(Evicting \cup {w}) = Cardinality(Evicting) + 1
    BY <2>1, Workers, OneMore
  <2>3. UNCHANGED faults /\ \A f \in Field : failures'[f] <= failures[f] + 1
    BY <1>0, <1>5 DEF CountFailure
  <2>. QED BY <1>0, <2>1, <2>2, <2>3 DEF FailuresExcused
<1>6. ASSUME NEW w \in Worker, ReadCount(w) PROVE FailuresExcused'
  <2>1. CASE Stale /\ Goto(w, "evict")
    BY <1>1, <1>6, <2>1 DEF rowVars, ReadCount, Goto, ExtractTypeOK
  <2>2. CASE ~Stale
    <3>1. \A f \in Field : failures[f] <= Threshold - 1
      BY <1>0, <2>2 DEF Stale
    <3>. QED BY <1>2, <1>6, <3>1 DEF rowVars, ReadCount
  <2>. QED BY <1>6, <2>1, <2>2 DEF ReadCount
<1>7. ASSUME NEW w \in Worker, Evict(w) PROVE FailuresExcused'
  BY <1>0, <1>2, <1>7 DEF Evict
<1>8. ASSUME NEW w \in Worker, LLMAnswers(w) PROVE FailuresExcused'
  BY <1>1, <1>8 DEF rowVars, LLMAnswers, Verify, Return, Goto, ExtractTypeOK
<1>9. ASSUME NEW w \in Worker, Raise(w) PROVE FailuresExcused'
  <2>1. Evicting' = Evicting \ {w} /\ faults' = faults + 1 /\ UNCHANGED failures
    BY <1>9 DEF rowVars, Raise, Return, Goto, Evicting, ExtractTypeOK
  <2>2. Cardinality(Evicting \ {w}) >= Cardinality(Evicting) - 1
    <3>1. Cardinality(Evicting \ {w}) =
            IF w \in Evicting THEN Cardinality(Evicting) - 1
            ELSE Cardinality(Evicting)
      BY Workers, FS_RemoveElement
    <3>. QED BY <1>0, <3>1
  <2>. QED BY <1>0, <2>1, <2>2 DEF FailuresExcused
<1>10. CASE Redesign /\ UNCHANGED workerVars
  BY <1>1, <1>10 DEF Redesign, workerVars, rowVars
<1>. QED
  BY <1>3, <1>4, <1>5, <1>6, <1>7, <1>8, <1>9, <1>10 DEF ExtractNext

(* A settled set stays settled, unless a trusted selector that will be      *)
(* rejected is put.                                                         *)
LEMMA SelectorsStep ==
  ASSUME SiteTypeOK, ExtractTypeOK, CallsCharged, ExtractNext, Settled,
         layout' = layout
  PROVE  /\ Settled' \/ PutsLoose
         /\ \A w \in Worker : pc'[w] = "llm" => pc[w] = "llm"
<1> DEFINE Stays == Settled' /\ \A w \in Worker : pc'[w] = "llm" => pc[w] = "llm"
<1>0. /\ Required \subseteq Field /\ Required # {} /\ layout # 0
      /\ unfit \subseteq Field
      /\ \A f \in Required : learned[f] = layout
      /\ \A f \in unfit : learned[f] # layout
      /\ \A w \in Worker : pc[w] # "idle" =>
           html[w] = layout /\ pc[w] \notin {"failure", "counted", "evict"}
  BY ExtractAssumption, SiteAssumption
  DEF SiteTypeOK, Settled, ExtractTypeOK, Rows
<1>1. ASSUME NEW w \in Worker, Begin(w) PROVE Stays
  BY <1>0, <1>1 DEF Begin, Goto, ExtractTypeOK, Settled, rowVars
<1>2. ASSUME NEW w \in Worker, MetadataHit(w) \/ Raise(w) PROVE Stays
  BY <1>0, <1>2
  DEF MetadataHit, Raise, Return, Goto, ExtractTypeOK, Settled, rowVars
<1>3. ASSUME NEW w \in Worker, Get(w) PROVE Stays
  <2>1. Rows # {} /\ Applies(w)
    BY <1>0, <1>3 DEF Get, Rows, Applies
  <2>. QED
    BY <1>0, <1>3, <2>1
      DEF Get, Goto, ExtractTypeOK, Settled, rowVars, localVars
<1>4. ASSUME NEW w \in Worker, RecordSuccess(w) PROVE Stays
  BY <1>0, <1>4 DEF RecordSuccess, Return, Goto, ExtractTypeOK, Settled
<1>5. ASSUME NEW w \in Worker, CountFailure(w) \/ ReadCount(w) \/ Evict(w)
      PROVE  Stays
  BY <1>0, <1>5 DEF CountFailure, ReadCount, Evict
<1>6. ASSUME NEW w \in Worker, LLMAnswers(w) PROVE Stays
  BY <1>0, <1>6
  DEF LLMAnswers, Verify, Return, Goto, ExtractTypeOK, Settled, rowVars
<1>7. ASSUME NEW w \in Worker, Put(w) PROVE Stays \/ PutsLoose
  <2>1. CASE loose[w] = {}
    BY <1>0, <1>7, <2>1 DEF Put, Return, Goto, ExtractTypeOK, Settled
  <2>2. CASE loose[w] # {}
    BY <1>7, <2>2 DEF Put, Return, Goto, ExtractTypeOK, PutsLoose
  <2>. QED BY <2>1, <2>2
<1>7a. ASSUME NEW w \in Worker, Put(w), NEW v \in Worker, pc'[v] = "llm"
       PROVE  pc[v] = "llm"
  BY <1>7a DEF Put, Return, Goto, ExtractTypeOK
<1>8. CASE Redesign /\ UNCHANGED workerVars
  BY <1>0, <1>8 DEF workerVars, rowVars, localVars, Settled
<1>. QED
  BY <1>1, <1>2, <1>3, <1>4, <1>5, <1>6, <1>7, <1>7a, <1>8 DEF ExtractNext

-----------------------------------------------------------------------------
(* Runs of the agent.                                                       *)

(* Outside of a run its recording begins at 0; within one it sees a layout. *)
RunLocals ==
  \A d \in Driver :
    IF dpc[d] = "idle" THEN recorded[d] = 0 ELSE page[d].on # 0

AgentInv == AgentTypeOK /\ RunLocals /\ DropJustified /\ DropKeepsUp

LEMMA AgentTypeStep ==
  ASSUME SiteTypeOK, AgentTypeOK, RunLocals, AgentNext
  PROVE  AgentTypeOK' /\ RunLocals'
<1> DEFINE Stays == AgentTypeOK' /\ RunLocals'
<1>0. /\ Goal \in Nat \ {0} /\ MaxSteps \in Nat /\ MaxFailures \in Nat \ {0}
      /\ Layouts \in Nat /\ layout \in 0..Layouts /\ layout # 0 /\ 0 \in 0..Layouts
      /\ 0 \in 0..Goal /\ Starts \subseteq 0..Goal /\ misses \in Nat
      /\ NoPage \in [on : 0..Layouts, at : 0..Goal] /\ NoPage.at = 0
  BY AgentAssumption, SiteAssumption DEF SiteTypeOK, AgentTypeOK, NoPage
<1>1. ASSUME NEW d \in Driver,
             \/ UNCHANGED <<script, misses>>
             \/ UNCHANGED script /\ misses' = 0,
             EndRun(d), UNCHANGED rewritten \/ Rewrite(d)
      PROVE  Stays
  BY <1>0, <1>1
  DEF EndRun, DriverGoto, Rewrite, AgentTypeOK, RunLocals, HasScript
<1>2. ASSUME NEW d \in Driver, BeginRun(d) PROVE Stays
  <2>1. PICK at \in Starts :
          page' = [page EXCEPT ![d] = [on |-> layout, at |-> at]]
    BY <1>2 DEF BeginRun
  <2>2. at \in 0..Goal /\ [on |-> layout, at |-> at] \in [on : 0..Layouts, at : 0..Goal]
    BY <1>0
  <2>. QED
    BY <1>0, <1>2, <2>1, <2>2
    DEF BeginRun, DriverGoto, AgentTypeOK, RunLocals, HasScript
<1>3. ASSUME NEW d \in Driver, Replay(d) PROVE Stays
  <2>1. CASE UNCHANGED page
    BY <1>3, <2>1 DEF Replay, DriverGoto, AgentTypeOK, RunLocals, HasScript
  <2>2. ASSUME NEW k \in Stops(page[d].at), page' = [page EXCEPT ![d].at = k]
        PROVE  Stays
    <3>1. k \in 0..Goal /\ page[d].at <= k
      <4>1. page[d].at \in 0..Goal /\ script.to \in 0..Goal
        BY DEF AgentTypeOK
      <4>2. \/ k = page[d].at \/ k \in page[d].at..Goal
            \/ k \in page[d].at..(script.to - 1)
        BY <2>2 DEF Stops
      <4>. QED BY <1>0, <4>1, <4>2
    <3>2. /\ page' \in [Driver -> [on : 0..Layouts, at : 0..Goal]]
          /\ page'[d].at = k /\ page'[d].on = page[d].on
          /\ \A e \in Driver \ {d} : page'[e] = page[e]
      BY <2>2, <3>1 DEF AgentTypeOK
    <3>3. /\ dpc[d] = "get" /\ dpc'[d] \in {"success", "failure"}
          /\ dpc' = [dpc EXCEPT ![d] = dpc'[d]]
          /\ UNCHANGED <<script, misses, asked, recorded, some, idled, rewritten>>
      BY <1>3 DEF Replay, DriverGoto, AgentTypeOK
    <3>4. \A e \in Driver : recorded[e] \in 0..Goal /\ recorded[e] <= page'[e].at
      <4>1. recorded[d] \in 0..Goal /\ page[d].at \in 0..Goal
            /\ recorded[d] <= page[d].at
        BY DEF AgentTypeOK
      <4>2. recorded[d] <= page'[d].at
        BY <1>0, <3>1, <3>2, <4>1
      <4>. QED BY <3>2, <4>2 DEF AgentTypeOK
    <3>5. dpc' \in [Driver -> {"idle", "get", "success", "failure", "evict",
                              "step", "put"}]
      BY <3>3 DEF AgentTypeOK
    <3>6. AgentTypeOK'
      <4>1. UNCHANGED HasScript
        BY <3>3 DEF HasScript
      <4>. QED BY <3>2, <3>3, <3>4, <3>5, <4>1 DEF AgentTypeOK
    <3>. QED BY <3>2, <3>3, <3>6 DEF AgentTypeOK, RunLocals
  <2>. QED BY <1>3, <2>1, <2>2 DEF Replay
<1>4. ASSUME NEW d \in Driver, NothingRecorded(d) PROVE Stays
  BY <1>0, <1>4
  DEF NothingRecorded, StartLoop, DriverGoto, AgentTypeOK, RunLocals, HasScript
<1>5. ASSUME NEW d \in Driver, ReplayWorked(d) PROVE Stays
  BY <1>1, <1>5 DEF ReplayWorked
<1>6. ASSUME NEW d \in Driver, ReplayFailed(d) PROVE Stays
  <2>1. /\ misses' \in Nat /\ (~HasScript => misses' = 0)
        /\ UNCHANGED <<script, page, asked, some, idled, HasScript>>
        /\ rewritten' \subseteq rewritten
    BY <1>0, <1>6 DEF ReplayFailed, HasScript
  <2>2. CASE DriverGoto(d, "evict") /\ UNCHANGED recorded
    BY <1>6, <2>1, <2>2 DEF ReplayFailed, DriverGoto, AgentTypeOK, RunLocals
  <2>3. CASE StartLoop(d)
    BY <1>0, <1>6, <2>1, <2>3
    DEF ReplayFailed, StartLoop, DriverGoto, AgentTypeOK, RunLocals
  <2>. QED BY <1>6, <2>2, <2>3 DEF ReplayFailed
<1>7. ASSUME NEW d \in Driver, DropScript(d) PROVE Stays
  BY <1>0, <1>7
  DEF DropScript, Rewrite, StartLoop, DriverGoto, AgentTypeOK, RunLocals,
      HasScript, NoScript
<1>8. ASSUME NEW d \in Driver, LoopEnds(d),
             UNCHANGED <<script, misses, rewritten>>, dpc[d] = "step"
      PROVE  Stays
  <2>1. CASE EndRun(d)
    BY <1>1, <1>8, <2>1
  <2>2. CASE DriverGoto(d, "put") /\ UNCHANGED localsOfRun
    BY <1>8, <2>2
      DEF localsOfRun, DriverGoto, AgentTypeOK, RunLocals, HasScript
  <2>. QED BY <1>8, <2>1, <2>2 DEF LoopEnds
<1>9. ASSUME NEW d \in Driver, AskLLM(d) PROVE Stays
  <2>1. CASE LoopEnds(d)
    BY <1>8, <1>9, <2>1 DEF AskLLM
  <2>2. CASE asked' = [asked EXCEPT ![d] = @ + 1] /\ Execute(d)
             /\ UNCHANGED <<dpc, recorded>>
    <3>1. asked' \in [Driver -> 0..MaxSteps]
      BY <1>0, <1>9, <2>2 DEF AskLLM, AgentTypeOK
    <3>2. CASE UNCHANGED page
      BY <1>9, <2>2, <3>1, <3>2
      DEF AskLLM, Execute, AgentTypeOK, RunLocals, HasScript
    <3>3. CASE page[d].at < Goal /\ page' = [page EXCEPT ![d].at = @ + 1]
      BY <1>0, <1>9, <2>2, <3>1, <3>3
      DEF AskLLM, Execute, AgentTypeOK, RunLocals, HasScript
    <3>. QED BY <2>2, <3>2, <3>3 DEF Execute
  <2>. QED BY <1>9, <2>1, <2>2 DEF AskLLM
<1>10. ASSUME NEW d \in Driver, StepsSpent(d) PROVE Stays
  BY <1>8, <1>10 DEF StepsSpent
<1>11. ASSUME NEW d \in Driver, PutScript(d) PROVE Stays
  <2>1. /\ script' \in [on : 0..Layouts, from : 0..Goal, to : 0..Goal,
                        idle : BOOLEAN]
        /\ script'.on # 0 /\ script'.from <= script'.to
    BY <1>11 DEF PutScript, AgentTypeOK, RunLocals
  <2>2. HasScript'
    BY <2>1 DEF HasScript, NoScript
  <2>. QED
    BY <1>0, <1>11, <2>1, <2>2
    DEF PutScript, EndRun, DriverGoto, Rewrite, AgentTypeOK, RunLocals
<1>12. ASSUME NEW d \in Driver, RunRaises(d) PROVE Stays
  BY <1>1, <1>12 DEF RunRaises
<1>13. CASE Redesign /\ UNCHANGED driverVars
  BY <1>13 DEF driverVars, localsOfRun, AgentTypeOK, RunLocals, HasScript
<1>. QED
  BY <1>2, <1>3, <1>4, <1>5, <1>6, <1>7, <1>9, <1>10, <1>11, <1>12, <1>13
  DEF AgentNext, RunStep

(* A script is dropped no sooner and no later.                              *)
LEMMA DropStep ==
  ASSUME SiteTypeOK, AgentTypeOK, DropJustified, DropKeepsUp, AgentNext
  PROVE  DropJustified' /\ DropKeepsUp'
<1> DEFINE Stays == DropJustified' /\ DropKeepsUp'
<1>0. faults \in Nat /\ misses \in Nat /\ MaxFailures \in Nat \ {0}
  BY AgentAssumption, SiteAssumption DEF SiteTypeOK, AgentTypeOK
<1>1. ASSUME NEW d \in Driver, dpc[d] # "evict", dpc'[d] # "evict",
             \A e \in Driver \ {d} : dpc'[e] = dpc[e],
             UNCHANGED <<script, misses, rewritten>>,
             faults' \in {faults, faults + 1}
      PROVE  Stays
  BY <1>0, <1>1 DEF DropJustified, DropKeepsUp, HasScript
<1>2. ASSUME NEW d \in Driver, dpc'[d] # "evict",
             \A e \in Driver \ {d} : dpc'[e] = dpc[e], misses' = 0, Rewrite(d)
      PROVE  Stays
  BY <1>0, <1>2 DEF DropJustified, DropKeepsUp, Rewrite
<1>3. ASSUME NEW d \in Driver,
             BeginRun(d) \/ Replay(d) \/ NothingRecorded(d) \/ AskLLM(d)
               \/ StepsSpent(d)
      PROVE  Stays
  <2>1. /\ dpc[d] # "evict" /\ UNCHANGED <<script, misses, rewritten>>
        /\ faults' \in {faults, faults + 1}
    BY <1>3 DEF BeginRun, Replay, NothingRecorded, AskLLM, StepsSpent
  <2>2. dpc'[d] # "evict" /\ \A e \in Driver \ {d} : dpc'[e] = dpc[e]
    BY <1>3
    DEF BeginRun, Replay, NothingRecorded, AskLLM, StepsSpent, StartLoop,
        LoopEnds, EndRun, DriverGoto, AgentTypeOK
  <2>. QED BY <1>1, <2>1, <2>2
<1>4. ASSUME NEW d \in Driver, ReplayWorked(d) \/ DropScript(d) \/ PutScript(d)
      PROVE  Stays
  BY <1>2, <1>4
  DEF ReplayWorked, DropScript, PutScript, StartLoop, EndRun, DriverGoto,
      AgentTypeOK
<1>5. ASSUME NEW d \in Driver, ReplayFailed(d) PROVE Stays
  <2>1. /\ misses' = (IF HasScript THEN misses + 1 ELSE 0) /\ UNCHANGED script
        /\ rewritten' = rewritten \ {d}
        /\ \A e \in Driver \ {d} : dpc'[e] = dpc[e]
        /\ dpc'[d] = IF misses' >= MaxFailures THEN "evict" ELSE "step"
    BY <1>0, <1>5 DEF ReplayFailed, StartLoop, DriverGoto, AgentTypeOK
  <2>. QED BY <1>0, <2>1 DEF DropJustified, DropKeepsUp, HasScript
<1>6. ASSUME NEW d \in Driver, RunRaises(d) PROVE Stays
  <2>1. /\ dpc'[d] = "idle" /\ faults' = faults + 1
        /\ \A e \in Driver \ {d} : dpc'[e] = dpc[e]
        /\ UNCHANGED <<script, misses, rewritten>>
    BY <1>6 DEF RunRaises, EndRun, DriverGoto, AgentTypeOK
  <2>. QED BY <1>0, <2>1 DEF DropJustified, DropKeepsUp, HasScript
<1>7. CASE Redesign /\ UNCHANGED driverVars
  BY <1>7
    DEF Redesign, driverVars, localsOfRun, DropJustified, DropKeepsUp,
        HasScript
<1>. QED
  BY <1>3, <1>4, <1>5, <1>6, <1>7 DEF AgentNext, RunStep

-----------------------------------------------------------------------------
IInv == SiteTypeOK /\ ExtractInv /\ AgentInv
allVars == <<siteVars, driverVars, workerVars, who>>

LEMMA InitIInv == Init => IInv
<1> SUFFICES ASSUME Init PROVE IInv
  OBVIOUS
<1>1. SiteTypeOK
  BY SiteAssumption DEF Init, SiteInit, SiteTypeOK
<1>2. ExtractInv
  <2>1. ExtractTypeOK
    BY SiteAssumption DEF Init, ExtractInit, ExtractTypeOK, Rows
  <2>2. CallsCharged
    <3>1. Calling = {}
      BY DEF Init, ExtractInit, Calling
    <3>. QED
      BY <3>1, Workers, FS_EmptySet, ExtractAssumption
      DEF Init, ExtractInit, CallsCharged
  <2>3. EvictionJustified
    BY DEF Init, ExtractInit, EvictionJustified
  <2>4. FailuresExcused
    BY Workers, ExtractAssumption
    DEF Init, SiteInit, ExtractInit, FailuresExcused
  <2>. QED BY <2>1, <2>2, <2>3, <2>4 DEF ExtractInv
<1>3. AgentInv
  <2>1. AgentTypeOK /\ RunLocals
    <3>1. /\ 0 \in 0..Layouts /\ 0 \in 0..Goal /\ 0 \in 0..MaxSteps
      BY SiteAssumption, AgentAssumption
    <3>. QED
      BY <3>1
      DEF Init, AgentInit, AgentTypeOK, RunLocals, HasScript, NoScript, NoPage
  <2>2. DropJustified /\ DropKeepsUp
    BY AgentAssumption DEF Init, AgentInit, DropJustified, DropKeepsUp
  <2>. QED BY <2>1, <2>2 DEF AgentInv
<1>. QED BY <1>1, <1>2, <1>3 DEF IInv

LEMMA StepIInv == IInv /\ [Next]_allVars => IInv'
<1> SUFFICES ASSUME IInv, [Next]_allVars PROVE IInv'
  OBVIOUS
<1>1. CASE AgentNext /\ UNCHANGED workerVars
  <2>1. SiteTypeOK'
    BY <1>1, SiteAssumption
    DEF IInv, SiteTypeOK, AgentNext, RunStep, BeginRun, Replay,
        NothingRecorded,
        ReplayWorked, ReplayFailed, DropScript, AskLLM, StepsSpent, PutScript,
        RunRaises, Redesign
  <2>2. AgentInv'
    BY <1>1, AgentTypeStep, DropStep DEF IInv, AgentInv
  <2>3. faults' >= faults
    BY <1>1, SiteAssumption
    DEF IInv, SiteTypeOK, AgentNext, RunStep, BeginRun, Replay,
        NothingRecorded,
        ReplayWorked, ReplayFailed, DropScript, AskLLM, StepsSpent, PutScript,
        RunRaises, Redesign
  <2>4. ExtractInv'
    <3>1. ExtractTypeOK' /\ CallsCharged' /\ EvictionJustified'
      BY <1>1
      DEF IInv, ExtractInv, workerVars, rowVars, localVars, ExtractTypeOK,
          CallsCharged, Calling,
          EvictionJustified, Stale, Rows
    <3>2. FailuresExcused'
      <4>1. UNCHANGED failures /\ Evicting' = Evicting
        BY <1>1 DEF workerVars, rowVars, Evicting
      <4>2. /\ faults \in Nat /\ faults' \in Nat /\ Cardinality(Evicting) \in Nat
            /\ Threshold \in Nat /\ \A f \in Field : failures[f] \in Nat
        BY <2>1, Workers, ExtractAssumption, SiteAssumption
        DEF IInv, ExtractInv, ExtractTypeOK, SiteTypeOK
      <4>. QED BY <2>3, <4>1, <4>2 DEF IInv, ExtractInv, FailuresExcused
    <3>. QED BY <3>1, <3>2 DEF ExtractInv
  <2>. QED BY <2>1, <2>2, <2>4 DEF IInv
<1>2. CASE ExtractNext /\ UNCHANGED driverVars
  <2>1. SiteTypeOK' /\ faults' >= faults
    BY <1>2, SiteAssumption
    DEF IInv, SiteTypeOK, ExtractNext, Begin, MetadataHit, Get, RecordSuccess,
        CountFailure, ReadCount, Evict, LLMAnswers, Put, Raise, Redesign
  <2>2. ExtractTypeOK' /\ CallsCharged' /\ EvictionJustified'
    BY <1>2, ExtractTypeStep, CallsStep, JustifiedStep DEF IInv, ExtractInv
  <2>3. FailuresExcused'
    BY <1>2, <2>1, <2>2, ExcusedStep DEF IInv, ExtractInv
  <2>4. AgentInv'
    BY <1>2, <2>1, SiteAssumption
    DEF IInv, AgentInv, driverVars, localsOfRun, AgentTypeOK, RunLocals,
        DropJustified,
        DropKeepsUp, HasScript, SiteTypeOK
  <2>. QED BY <2>1, <2>2, <2>3, <2>4 DEF IInv, ExtractInv
<1>3. CASE UNCHANGED allVars
  BY <1>3
  DEF allVars, siteVars, driverVars, localsOfRun, workerVars, rowVars,
      localVars,
      IInv, SiteTypeOK, ExtractInv,
      ExtractTypeOK, CallsCharged, Calling, EvictionJustified, Stale, Rows,
      FailuresExcused, Evicting, AgentInv, AgentTypeOK, RunLocals, DropJustified,
      DropKeepsUp, HasScript
<1>. QED BY <1>1, <1>2, <1>3 DEF Next, allVars

LEMMA IInvariant == Spec => []IInv
BY InitIInv, StepIInv, PTL DEF Spec, allVars

(* Every variable of the three modules keeps its type.                      *)
THEOREM TypeCorrect == Spec => [](SiteTypeOK /\ ExtractTypeOK /\ AgentTypeOK)
<1>1. IInv => SiteTypeOK /\ ExtractTypeOK /\ AgentTypeOK
  BY DEF IInv, ExtractInv, AgentInv
<1>. QED BY <1>1, IInvariant, PTL

(* However many callers share a Budget, they make at most one call less     *)
(* than their number beyond max_llm_calls (types.py:45).                    *)
THEOREM OvershootBounded == Spec => []BudgetBounded
<1>1. IInv => BudgetBounded
  <2> SUFFICES ASSUME IInv PROVE BudgetBounded
    OBVIOUS
  <2>. QED
    BY Workers, ExtractAssumption
    DEF IInv, ExtractInv, ExtractTypeOK, CallsCharged, BudgetBounded
<1>. QED BY <1>1, IInvariant, PTL

(* Scripts and selector sets are dropped for as many failures as the code   *)
(* says (hybrid.py:37, agent_drivers.py:124), no sooner and no later.       *)
THEOREM EvictionsOnTime == Spec => []EvictionOnTime
<1>1. IInv => EvictionOnTime
  <2> SUFFICES ASSUME IInv PROVE EvictionOnTime
    OBVIOUS
  <2>1. EvictionKeepsUp
    BY Workers, ExtractAssumption, SiteAssumption
    DEF IInv, ExtractInv, ExtractTypeOK, SiteTypeOK, FailuresExcused,
        EvictionKeepsUp
  <2>. QED
    BY <2>1
    DEF IInv, ExtractInv, AgentInv, EvictionOnTime, DroppedOnTime,
        EvictedOnTime
<1>. QED BY <1>1, IInvariant, PTL

(* README.md:168: selectors that fit the page stay in use and the LLM is    *)
(* not asked, whatever concurrent extractions do, until a redesign or the   *)
(* put of a selector that hybrid.py:264-308 trusts and :257-262 rejects.    *)
THEOREM SelectorsStayInUse == Spec => SelectorsStay
<1>1. ASSUME IInv, [Next]_allVars
      PROVE  [Settled /\ layout' = layout =>
                /\ Settled' \/ PutsLoose
                /\ \A w \in Worker : pc'[w] = "llm" => pc[w] = "llm"]_extractVars
  <2>1. CASE ExtractNext
    BY <1>1, <2>1, SelectorsStep DEF IInv, ExtractInv
  <2>2. CASE UNCHANGED workerVars
    BY <2>2 DEF workerVars, rowVars, localVars, Settled
  <2>. QED BY <1>1, <2>1, <2>2 DEF Next, allVars
<1>. QED BY <1>1, IInvariant, PTL DEF Spec, allVars, SelectorsStay
==============================================================================
