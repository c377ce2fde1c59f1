----------------------------- MODULE HybridExtract -----------------------------
(***************************************************************************)
(* Concurrent extractions of one schema from pages of one template: the    *)
(* hybrid extractor (extract/hybrid.py) over the selector cache            *)
(* (extract/selector_cache.py), with a Budget shared by the callers        *)
(* (types.py).                                                             *)
(*                                                                         *)
(* The site's layout changes now and then; a selector that was learned on  *)
(* one layout finds its field on pages of that layout and nothing on       *)
(* others.  What it finds is text, which the model may reject although the *)
(* LLM's own value was accepted.  A step ends where extract() waits for    *)
(* the database or the LLM.                                                *)
(***************************************************************************)
EXTENDS ChangingSite

CONSTANTS
  Worker,       \* concurrent callers of extract()
  Field,
  Required,     \* fields without which the model does not validate
  Threshold,    \* STALE_SELECTOR_THRESHOLD
  MaxLLMCalls   \* Budget.max_llm_calls

ASSUME ExtractAssumption ==
  /\ IsFiniteSet(Worker) /\ Worker # {}
  /\ Required \subseteq Field /\ Required # {}
  /\ Threshold \in Nat \ {0} /\ MaxLLMCalls \in Nat

VARIABLES
  learned,    \* [Field -> 0..Layouts], the row's selector; 0: no row
  unfit,      \* fields whose row finds a text that does not validate
  failures,   \* [Field -> Nat], failure_count
  llmCalls,   \* Budget.llm_calls_made
  pc,
  html,       \* [Worker -> layout of the html it was called with]
  verified,   \* [Worker -> fields whose selectors it will put]
  loose,      \* [Worker -> those of them that will be unfit]
  made,       \* history: LLM calls that were answered
  disturbed   \* history: workers since whose count somebody wrote the rows

rowVars == <<learned, unfit, failures>>
localVars == <<html, verified, loose>>
workerVars == <<rowVars, llmCalls, pc, localVars, made, disturbed>>
extractVars == <<siteVars, workerVars>>

ExtractInit ==
  /\ learned = [f \in Field |-> 0] /\ failures = [f \in Field |-> 0]
  /\ unfit = {} /\ loose = [w \in Worker |-> {}]
  /\ llmCalls = 0 /\ made = 0
  /\ pc = [w \in Worker |-> "idle"] /\ html = [w \in Worker |-> 0]
  /\ verified = [w \in Worker |-> {}]
  /\ disturbed = {}

Goto(w, s) == pc' = [pc EXCEPT ![w] = s]

(* Back to the caller: its locals are gone. *)
Return(w) ==
  /\ Goto(w, "idle")
  /\ html' = [html EXCEPT ![w] = 0]
  /\ verified' = [verified EXCEPT ![w] = {}]
  /\ loose' = [loose EXCEPT ![w] = {}]

Rows == {f \in Field : learned[f] # 0}

CanUseLLM == llmCalls < MaxLLMCalls

(* The budget is looked at, and the LLM called or nothing returned. *)
BudgetGate(w) ==
  \/ CanUseLLM /\ Goto(w, "llm") /\ UNCHANGED localVars
  \/ ~CanUseLLM /\ Return(w)

(* _apply_selectors: the data validates when no required field is missing   *)
(* and no text that was found is rejected, of whichever field.              *)
Applies(w) ==
  /\ \A f \in Required : learned[f] = html[w]
  /\ \A f \in unfit : learned[f] # html[w]

Begin(w) ==
  /\ pc[w] = "idle"
  /\ Goto(w, "get") /\ html' = [html EXCEPT ![w] = layout]
  /\ UNCHANGED <<layout, rowVars, llmCalls, verified, loose, made,
                 disturbed, faults>>

(* The page embeds its data: neither cache nor LLM is asked. *)
MetadataHit(w) ==
  /\ pc[w] = "get"
  /\ Return(w)
  /\ UNCHANGED <<layout, rowVars, llmCalls, made, disturbed, faults>>

Get(w) ==
  /\ pc[w] = "get"
  /\ \/ Rows = {} /\ BudgetGate(w)
     \/ /\ Rows # {}
        /\ Goto(w, IF Applies(w) THEN "success" ELSE "failure")
        /\ UNCHANGED localVars
  /\ UNCHANGED <<layout, rowVars, llmCalls, made, disturbed, faults>>

(* Writing the rows disturbs those between their count and their eviction.  *)
Disturb(w) ==
  disturbed' = disturbed \cup {v \in Worker \ {w} : pc[v] \in {"counted", "evict"}}

RecordSuccess(w) ==
  /\ pc[w] = "success"
  /\ failures' = [f \in Field |-> 0]
  /\ Disturb(w)
  /\ Return(w)
  /\ UNCHANGED <<layout, learned, unfit, llmCalls, made, faults>>

(* record_failure: one statement counts, another, after the commit, reads   *)
(* the count.                                                               *)
CountFailure(w) ==
  /\ pc[w] = "failure"
  /\ failures' = [f \in Field |->
                    IF learned[f] # 0 THEN failures[f] + 1 ELSE 0]
  /\ Goto(w, "counted")
  /\ disturbed' = disturbed \ {w}
  /\ UNCHANGED <<layout, learned, unfit, llmCalls, localVars, made, faults>>

(* The highest count of the set's rows is high enough. *)
Stale == \E f \in Rows : failures[f] >= Threshold

ReadCount(w) ==
  /\ pc[w] = "counted"
  /\ \/ Stale /\ Goto(w, "evict") /\ UNCHANGED localVars
     \/ ~Stale /\ BudgetGate(w)
  /\ UNCHANGED <<layout, rowVars, llmCalls, made, disturbed, faults>>

(* invalidate deletes every row of the key. *)
Evict(w) ==
  /\ pc[w] = "evict"
  /\ learned' = [f \in Field |-> 0] /\ failures' = [f \in Field |-> 0]
  /\ unfit' = {}
  /\ Disturb(w)
  /\ BudgetGate(w)
  /\ UNCHANGED <<layout, llmCalls, made, faults>>

(* The fields for which the answer proposes a selector, after parsing;      *)
(* those it is trusted with, since it yields the answer's value on the page *)
(* or, for a number, any node, for a list, one subfield; and those of them  *)
(* whose text the model will reject all the same.                           *)
Proposed == SUBSET Field
Trusted(fs) == SUBSET fs
Rejected(fs) == SUBSET fs

(* The selectors an answer that validates leaves to be put.                 *)
Verify(w) ==
  \E ps \in Proposed : \E fs \in Trusted(ps) \ {{}} : \E ls \in Rejected(fs) :
    /\ verified' = [verified EXCEPT ![w] = fs]
    /\ loose' = [loose EXCEPT ![w] = ls]

(* Faulty: an answer that does not validate is not charged. *)
LLMAnswersCharged(w) ==
  /\ pc[w] = "llm"
  /\ made' = made + 1
  /\ \/ Verify(w) /\ Goto(w, "put") /\ llmCalls' = llmCalls + 1 /\ UNCHANGED html
     \/ Return(w) /\ UNCHANGED llmCalls
  /\ UNCHANGED <<layout, rowVars, disturbed, faults>>

(* The call is charged; the selectors that are trusted on the page are put, *)
(* if the data validates.                                                   *)
LLMAnswers(w) ==
  /\ pc[w] = "llm"
  /\ made' = made + 1 /\ llmCalls' = llmCalls + 1
  /\ \/ Verify(w) /\ Goto(w, "put") /\ UNCHANGED html
     \/ Return(w)
  /\ UNCHANGED <<layout, rowVars, disturbed, faults>>

(* Faulty: the rows of the other fields are dropped. *)
PutReplacing(w) ==
  /\ pc[w] = "put"
  /\ learned' = [f \in Field |-> IF f \in verified[w] THEN html[w] ELSE 0]
  /\ unfit' = loose[w]
  /\ failures' = [f \in Field |-> 0]
  /\ Disturb(w)
  /\ Return(w)
  /\ UNCHANGED <<layout, llmCalls, made, faults>>

Put(w) ==
  /\ pc[w] = "put"
  /\ learned' = [f \in Field |->
                   IF f \in verified[w] THEN html[w] ELSE learned[f]]
  /\ unfit' = (unfit \ verified[w]) \cup loose[w]
  /\ failures' = [f \in Field |-> IF f \in verified[w] THEN 0 ELSE failures[f]]
  /\ Disturb(w)
  /\ Return(w)
  /\ UNCHANGED <<layout, llmCalls, made, faults>>

(* The LLM call raises, a pin refuses the model, or the caller is cancelled *)
(* where it waits: extract() raises, and nothing is charged.                *)
Raise(w) ==
  /\ pc[w] # "idle" /\ faults < MaxFaults
  /\ faults' = faults + 1
  /\ Return(w)
  /\ UNCHANGED <<layout, rowVars, llmCalls, made, disturbed>>

ExtractNext ==
  \/ \E w \in Worker :
       \/ Begin(w) \/ MetadataHit(w) \/ Get(w) \/ RecordSuccess(w)
       \/ CountFailure(w) \/ ReadCount(w) \/ Evict(w)
       \/ LLMAnswers(w) \/ Put(w) \/ Raise(w)
  \/ Redesign /\ UNCHANGED workerVars
-----------------------------------------------------------------------------
(* Every variable has its type.                                             *)
ExtractTypeOK ==
  /\ learned \in [Field -> 0..Layouts]
  /\ \A f \in Field : failures[f] \in Nat /\ (learned[f] = 0 => failures[f] = 0)
  /\ {llmCalls, made} \subseteq Nat
  /\ pc \in [Worker -> {"idle", "get", "success", "failure", "counted",
                        "evict", "llm", "put"}]
  /\ html \in [Worker -> 0..Layouts]
  /\ verified \in [Worker -> SUBSET Field] /\ loose \in [Worker -> SUBSET Field]
  /\ unfit \subseteq Rows
  /\ \A w \in Worker :
       /\ pc[w] = "put" <=> verified[w] # {}
       /\ loose[w] \subseteq verified[w]
       /\ pc[w] # "idle" => html[w] # 0
  /\ disturbed \subseteq Worker

(* types.py:45 "That overshoot is bounded by the concurrency level": the    *)
(* callers that passed the gate together exceed the cap by one call for     *)
(* each but one of them, counting answers that did not validate.            *)
BudgetBounded == made <= MaxLLMCalls + Cardinality(Worker) - 1

(* A set is evicted with Threshold failures on it, or somebody wrote the    *)
(* rows between the worker's count and its eviction. *)
EvictionJustified ==
  \A w \in Worker : pc[w] = "evict" => Stale \/ w \in disturbed

(* No set outlives that many failures by more than the extractions that are *)
(* about to evict it, and those that raised instead. *)
EvictionKeepsUp ==
  \A f \in Field :
    failures[f] <= Threshold - 1 + Cardinality(Worker) + faults

(* hybrid.py:37 "Drop a cached selector set after this many consecutive     *)
(* validation failures": no sooner and no later.                            *)
EvictedOnTime == EvictionJustified /\ EvictionKeepsUp

(* The rows fit the site, and nobody holds an older page or a failure.      *)
Settled ==
  /\ \A f \in Required : learned[f] = layout
  /\ \A f \in unfit : learned[f] # layout
  /\ \A w \in Worker : pc[w] # "idle" =>
       html[w] = layout /\ pc[w] \notin {"failure", "counted", "evict"}

(* Somebody puts a selector that is trusted and whose text is rejected.     *)
PutsLoose == \E w \in Worker : pc[w] = "put" /\ pc'[w] # "put" /\ loose[w] # {}

(* README.md:168 "Every subsequent call against that host + schema uses     *)
(* cached selectors": a settled set stays, and sends no extraction to the   *)
(* LLM that is not there already, until the layout changes or one that is   *)
(* there already replaces part of it by what does not validate.             *)
SelectorsStay ==
  [][Settled /\ layout' = layout =>
       /\ Settled' \/ PutsLoose
       /\ \A w \in Worker : pc'[w] = "llm" => pc[w] = "llm"]_extractVars
=============================================================================
