-------------------------- MODULE SequentialProofs --------------------------
(***************************************************************************)
(* Proofs about the algorithms of one coroutine (Sequential): the steps on *)
(* a page, map_site, chunk_markdown and redact.  What their reference      *)
(* definitions compute is shown by induction over sets of numbers, through *)
(* the theorem that < is well-founded on Nat.                              *)
(***************************************************************************)
EXTENDS Sequential, FiniteSetTheorems, SequenceTheorems,
        WellFoundedInduction, TLAPS
-----------------------------------------------------------------------------
(* The steps on a page.                                                     *)

Total == feed.shown + feed.coming + feed.rest

(* A loop that scrolls, as long as nothing is late: from its second round   *)
(* on it asked for a batch in each round that reached the end of the page,  *)
(* unless all of them are shown.                                            *)
ScrollOK ==
  Working /\ Doing = "scroll_until" /\ ~late =>
    /\ at = "act" /\ previous # Unmeasured => feed.coming = 0 /\ previous = feed.shown
    /\ at = "settle" /\ previous # Unmeasured =>
         previous = feed.shown /\ (feed.coming = 0 /\ feed.height = 0 => feed.rest = 0)
    /\ at = "measure" =>
         /\ feed.coming = 0
         /\ previous # Unmeasured =>
              /\ previous <= feed.shown
              /\ previous = feed.shown /\ feed.height = 0 => feed.rest = 0

MeasureScrolls == at = "measure" => Doing = "scroll_until"

Accounted ==
  summary.steps = summary.errors + summary.executed + IF Working THEN 1 ELSE 0

ActionInv ==
  /\ ActionTypeOK /\ Total <= MaxBatches
  /\ at = "idle" => feed.rest = 0
  /\ summary \in [steps : Nat, errors : Nat, executed : Nat]
  /\ previous >= Unmeasured
  /\ Accounted /\ ScrollOK /\ MeasureScrolls

FeedType == [shown : 0..MaxBatches, coming : 0..1, rest : 0..MaxBatches,
             height : Nat]

LEMMA ActionStart ==
  ASSUME Init
  PROVE  ActionInv
<1>1. /\ round = 0 /\ previous = Unmeasured /\ late \in BOOLEAN /\ mishaps = 0
      /\ summary = [steps |-> 0, errors |-> 0, executed |-> 0]
  BY DEF Init, NoActions, ActionInit, ActionLocals
<1>2. /\ at \in {"idle", "next"} /\ feed \in FeedType /\ Total <= MaxBatches
      /\ at = "idle" => feed.rest = 0
  BY ActionsAssumption DEF Init, NoActions, ActionInit, Feeds, FeedType, Total
<1>3. todo \in Seq(Action)
  <2>1. CASE NoActions
    BY <2>1 DEF NoActions
  <2>2. CASE ActionInit
    BY <2>2, SeqDef DEF ActionInit
  <2>. QED BY <2>1, <2>2 DEF Init
<1>4. mishaps \in 0..MaxMishaps
  BY <1>1, ActionsAssumption
<1>5. ActionTypeOK
  <2>1. ~Working /\ at \in {"idle", "next", "act", "settle", "measure", "end"}
    BY <1>2 DEF Working
  <2>2. round \in Nat /\ previous \in Int
    BY <1>1 DEF Unmeasured
  <2>. QED BY <1>1, <1>2, <1>3, <1>4, <2>1, <2>2 DEF ActionTypeOK, FeedType
<1>6. /\ Accounted /\ ScrollOK /\ MeasureScrolls
      /\ summary \in [steps : Nat, errors : Nat, executed : Nat]
  BY <1>1, <1>2 DEF Accounted, ScrollOK, MeasureScrolls, Working
<1>. QED BY <1>1, <1>2, <1>5, <1>6 DEF ActionInv, Unmeasured

(* A step ends, in "executed" or in "errors".                               *)
LEMMA StepEnds ==
  ASSUME ActionInv, Working, NEW how \in {"errors", "executed"}, StepOver(how),
         feed' \in FeedType, Total' <= MaxBatches,
         round' \in Nat, previous' \in Int, previous' >= Unmeasured,
         late' \in BOOLEAN, mishaps' \in 0..MaxMishaps
  PROVE  ActionInv'
<1>1. at' = "next" /\ todo' = Tail(todo) /\ todo \in Seq(Action) /\ todo # <<>>
  BY DEF StepOver, ActionInv, ActionTypeOK
<1>2. todo' \in Seq(Action)
  BY <1>1, HeadTailProperties
<1>3. ActionTypeOK'
  BY <1>1, <1>2 DEF ActionTypeOK, Working, FeedType
<1>4. summary \in [steps : Nat, errors : Nat, executed : Nat]
      /\ summary.steps = summary.errors + summary.executed + 1
  BY DEF ActionInv, Accounted
<1>5. /\ summary' \in [steps : Nat, errors : Nat, executed : Nat]
      /\ summary'.steps = summary'.errors + summary'.executed
  <2>1. CASE summary' = [summary EXCEPT !.errors = @ + 1]
    BY <1>4, <2>1
  <2>2. CASE summary' = [summary EXCEPT !.executed = @ + 1]
    BY <1>4, <2>2
  <2>. QED BY <2>1, <2>2 DEF StepOver
<1>6. Accounted' /\ ScrollOK' /\ MeasureScrolls'
  BY <1>1, <1>5 DEF Accounted, ScrollOK, MeasureScrolls, Working
<1>. QED BY <1>1, <1>3, <1>5, <1>6 DEF ActionInv

(* A step goes on.                                                          *)
LEMMA StepGoesOn ==
  ASSUME ActionInv, Working, Working', UNCHANGED <<todo, summary>>,
         at' \in {"act", "settle", "measure"},
         feed' \in FeedType, Total' <= MaxBatches,
         round' \in Nat, previous' \in Int, previous' >= Unmeasured,
         late' \in BOOLEAN, mishaps' \in 0..MaxMishaps, ScrollOK', MeasureScrolls'
  PROVE  ActionInv'
<1>1. ActionTypeOK'
  BY DEF ActionInv, ActionTypeOK, FeedType
<1>. QED BY <1>1 DEF ActionInv, Accounted, Working

LEMMA LoopRound ==
  ASSUME ActionInv, Working, RoundOver,
         feed' \in FeedType, Total' <= MaxBatches,
         previous' \in Int, previous' >= Unmeasured,
         late' \in BOOLEAN, mishaps' \in 0..MaxMishaps,
         Doing = "scroll_until" /\ ~late' =>
           feed'.coming = 0 /\ previous' = feed'.shown
  PROVE  ActionInv'
<1>1. round' \in Nat
  BY DEF RoundOver, ActionInv, ActionTypeOK
<1>2. CASE round' = Limit
  BY <1>1, <1>2, StepEnds DEF RoundOver
<1>3. CASE round' # Limit
  <2>1. at' = "act" /\ UNCHANGED <<todo, summary>>
    BY <1>3 DEF RoundOver
  <2>2. feed'.shown \in Nat
    BY ActionsAssumption DEF FeedType
  <2>3. ScrollOK'
    BY <2>1, <2>2 DEF ScrollOK, Doing, Unmeasured
  <2>. QED BY <1>1, <2>1, <2>3, StepGoesOn DEF Working, MeasureScrolls
<1>. QED BY <1>2, <1>3

LEMMA SettleKeeps ==
  ASSUME ActionInv, Settle
  PROVE  ActionInv'
<1>1. /\ at = "settle" /\ Working /\ previous' = previous /\ previous \in Int
      /\ previous >= Unmeasured /\ feed \in FeedType /\ Total <= MaxBatches
      /\ MaxBatches \in Nat /\ MaxMishaps \in Nat /\ round \in Nat /\ late \in BOOLEAN
      /\ mishaps \in 0..MaxMishaps
  BY ActionsAssumption DEF Settle, Working, ActionInv, ActionTypeOK, FeedType
<1>2. /\ feed' \in FeedType /\ Total' <= MaxBatches
      /\ late' \in BOOLEAN /\ mishaps' \in 0..MaxMishaps
      /\ ~late' => /\ ~late /\ feed'.shown = feed.shown + feed.coming /\ feed'.coming = 0
                   /\ feed'.rest = feed.rest
                   /\ feed.coming = 0 => feed'.height = feed.height
  <2>1. ASSUME NEW g \in 0..(feed.coming * MaxHeight),
               feed' = [feed EXCEPT !.shown = @ + feed.coming, !.coming = 0, !.height = @ + g],
               UNCHANGED <<late, mishaps>>
        PROVE  /\ feed' \in FeedType /\ Total' <= MaxBatches
               /\ late' \in BOOLEAN /\ mishaps' \in 0..MaxMishaps
               /\ ~late' => /\ ~late /\ feed'.shown = feed.shown + feed.coming
                            /\ feed'.coming = 0 /\ feed'.rest = feed.rest
                            /\ feed.coming = 0 => feed'.height = feed.height
    <3>1. PICK s, c, r, h : s = feed.shown /\ c = feed.coming /\ r = feed.rest /\ h = feed.height
      OBVIOUS
    <3>2. /\ feed' = [shown |-> s + c, coming |-> 0, rest |-> r, height |-> h + g]
          /\ s \in 0..MaxBatches /\ c \in 0..1 /\ r \in 0..MaxBatches /\ h \in Nat
          /\ s + c + r <= MaxBatches
      BY <1>1, <2>1, <3>1 DEF FeedType, Total
    <3>3. s + c \in 0..MaxBatches /\ g \in Nat /\ (c = 0 => g = 0)
      <4>1. MaxHeight \in Nat /\ g \in 0..(c * MaxHeight)
        BY <2>1, <3>1, ActionsAssumption
      <4>2. c = 0 \/ c = 1
        BY <3>2
      <4>3. c * MaxHeight = IF c = 0 THEN 0 ELSE MaxHeight
        BY <4>1, <4>2
      <4>. QED BY <1>1, <3>2, <4>1, <4>2, <4>3
    <3>4. feed' \in FeedType /\ Total' <= MaxBatches
      BY <1>1, <3>2, <3>3 DEF FeedType, Total
    <3>. QED BY <1>1, <2>1, <3>1, <3>2, <3>3, <3>4
  <2>2. CASE mishaps < MaxMishaps /\ late' = TRUE /\ mishaps' = mishaps + 1
             /\ feed' = feed
    BY <1>1, <2>2 DEF FeedType, Total
  <2>. QED BY <2>1, <2>2 DEF Settle
<1>3. CASE Doing = "scroll_until" /\ at' = "measure" /\ UNCHANGED <<todo, round, summary>>
  <2>1. ScrollOK'
    <3>1. SUFFICES ASSUME ~late'
                   PROVE  /\ feed'.coming = 0
                          /\ previous # Unmeasured =>
                               /\ previous <= feed'.shown
                               /\ previous = feed'.shown /\ feed'.height = 0
                                    => feed'.rest = 0
      BY <1>1, <1>3 DEF ScrollOK
    <3>2. previous # Unmeasured =>
            previous = feed.shown /\ (feed.coming = 0 /\ feed.height = 0 => feed.rest = 0)
      BY <1>1, <1>2, <1>3, <3>1 DEF ActionInv, ScrollOK
    <3>3. PICK s, c, r : s = feed.shown /\ c = feed.coming /\ r = feed.rest
      OBVIOUS
    <3>4. /\ feed'.coming = 0 /\ feed'.shown = s + c /\ feed'.rest = r
          /\ c = 0 => feed'.height = feed.height
          /\ s \in 0..MaxBatches /\ c \in 0..1
      BY <1>1, <1>2, <3>1, <3>3 DEF FeedType
    <3>. QED BY <1>1, <3>2, <3>3, <3>4
  <2>2. /\ feed' \in FeedType /\ Total' <= MaxBatches
        /\ late' \in BOOLEAN /\ mishaps' \in 0..MaxMishaps
    BY <1>2
  <2>3. Working' /\ MeasureScrolls'
    BY <1>3 DEF Working, MeasureScrolls, Doing
  <2>. QED BY <1>1, <1>3, <2>1, <2>2, <2>3, StepGoesOn
<1>4. CASE Doing = "click_until" /\ RoundOver
  BY <1>1, <1>2, <1>4, LoopRound
<1>. QED BY <1>3, <1>4 DEF Settle

LEMMA LoadingFeed ==
  ASSUME feed \in FeedType, feed.coming = 0, feed.rest > 0, Total <= MaxBatches,
         NEW h \in Nat, feed' = [Loading EXCEPT !.height = h]
  PROVE  /\ feed' \in FeedType /\ Total' <= MaxBatches
         /\ feed'.shown = feed.shown /\ feed'.coming = 1
<1>1. PICK s, r : s = feed.shown /\ r = feed.rest
  OBVIOUS
<1>2. /\ s \in 0..MaxBatches /\ r \in 0..MaxBatches
      /\ s + r <= MaxBatches /\ r > 0 /\ MaxBatches \in Nat
  BY <1>1, ActionsAssumption DEF FeedType, Total
<1>4. feed' = [shown |-> s, coming |-> 1, rest |-> r - 1, height |-> h]
  BY <1>1 DEF Loading, FeedType
<1>3. r - 1 \in 0..MaxBatches
  BY <1>2
<1>5. feed' \in FeedType
  <2>1. 1 \in 0..1
    OBVIOUS
  <2>2. [shown |-> s, coming |-> 1, rest |-> r - 1, height |-> h] \in FeedType
    BY <1>2, <1>3, <2>1 DEF FeedType
  <2>. QED BY <1>4, <2>2
<1>6. Total' <= MaxBatches
  BY <1>2, <1>4 DEF Total
<1>. QED BY <1>1, <1>4, <1>5, <1>6

LEMMA ScrollKeeps ==
  ASSUME ActionInv, Scroll
  PROVE  ActionInv'
<1>1. /\ at = "act" /\ at' = "settle" /\ Working /\ previous \in Int /\ Doing = "scroll_until"
      /\ previous >= Unmeasured /\ feed \in FeedType /\ Total <= MaxBatches
      /\ MaxBatches \in Nat /\ MaxHeight \in Nat
      /\ UNCHANGED <<todo, round, previous, summary, late, mishaps>>
  BY ActionsAssumption DEF Scroll, Working, ActionInv, ActionTypeOK, FeedType
<1>2. /\ feed' \in FeedType /\ Total' <= MaxBatches /\ feed'.shown = feed.shown
      /\ feed.coming = 0 /\ feed'.height = 0 => feed'.coming = 1 \/ feed'.rest = 0
  <2>1. CASE Scrolled.height = 0 /\ feed.coming = 0 /\ feed.rest > 0
             /\ feed' = [Loading EXCEPT !.height = 0]
    BY <1>1, <2>1, LoadingFeed
  <2>2. CASE ~(Scrolled.height = 0 /\ feed.coming = 0 /\ feed.rest > 0) /\ feed' = Scrolled
    <3>1. PICK h \in Nat : feed' = [feed EXCEPT !.height = h]
      BY <1>1, <2>2 DEF Scrolled, FeedType
    <3>2. feed' \in FeedType /\ Total' <= MaxBatches /\ feed'.shown = feed.shown
          /\ feed'.coming = feed.coming /\ feed'.rest = feed.rest /\ feed.rest \in Nat
      BY <1>1, <3>1 DEF FeedType, Total
    <3>. QED BY <2>2, <3>2
  <2>. QED BY <2>1, <2>2 DEF Scroll
<1>3. ScrollOK'
  BY <1>1, <1>2 DEF ActionInv, ScrollOK, Doing, FeedType
<1>. QED BY <1>1, <1>2, <1>3, StepGoesOn DEF Working, MeasureScrolls, ActionInv, ActionTypeOK

LEMMA ClickKeeps ==
  ASSUME ActionInv, Click
  PROVE  ActionInv'
<1>1. /\ at = "act" /\ at' = "settle" /\ Working /\ previous \in Int /\ Doing = "click_until"
      /\ previous >= Unmeasured /\ feed \in FeedType /\ Total <= MaxBatches
      /\ MaxBatches \in Nat /\ feed.coming + feed.rest > 0
      /\ UNCHANGED <<todo, round, previous, summary, late, mishaps>>
  BY ActionsAssumption DEF Click, Working, ActionInv, ActionTypeOK, FeedType
<1>2. feed' \in FeedType /\ Total' <= MaxBatches
  <2>1. feed.coming = 0 => feed.rest > 0
    BY <1>1 DEF FeedType
  <2>2. feed' = Loading => feed' = [Loading EXCEPT !.height = feed.height]
    BY <1>1 DEF Loading, FeedType
  <2>3. feed.height \in Nat
    BY <1>1 DEF FeedType
  <2>. QED BY <1>1, <2>1, <2>2, <2>3, LoadingFeed DEF Click, Total, FeedType
<1>3. ScrollOK'
  BY <1>1 DEF ScrollOK, Doing
<1>. QED BY <1>1, <1>2, <1>3, StepGoesOn DEF Working, MeasureScrolls, ActionInv, ActionTypeOK

LEMMA MeasureKeeps ==
  ASSUME ActionInv, Measure
  PROVE  ActionInv'
<1>1. /\ at = "measure" /\ Working /\ previous \in Int /\ previous >= Unmeasured
      /\ feed' = feed /\ feed \in FeedType /\ Total <= MaxBatches /\ feed.shown \in Nat
      /\ late' = late /\ mishaps' = mishaps /\ late \in BOOLEAN /\ mishaps \in 0..MaxMishaps
      /\ round \in Nat /\ Total' = Total
  BY ActionsAssumption DEF Measure, Working, ActionInv, ActionTypeOK, FeedType, Total
<1>2. CASE StepOver("executed") /\ UNCHANGED <<round, previous>>
  BY <1>1, <1>2, StepEnds
<1>3. CASE RoundOver /\ previous' = feed.shown
  <2>1. Doing = "scroll_until" /\ ~late => feed.coming = 0
    BY <1>1 DEF ActionInv, ScrollOK
  <2>. QED BY <1>1, <1>3, <2>1, LoopRound DEF Unmeasured
<1>. QED BY <1>2, <1>3 DEF Measure

LEMMA BeginStepKeeps ==
  ASSUME ActionInv, BeginStep
  PROVE  ActionInv'
<1>1. /\ at = "next" /\ at' = "act" /\ todo # <<>> /\ round' = 0 /\ previous' = Unmeasured
      /\ late' = FALSE /\ summary' = [summary EXCEPT !.steps = @ + 1]
      /\ UNCHANGED <<todo, feed, mishaps>>
  BY DEF BeginStep
<1>2. ActionTypeOK'
  <2>1. round' \in Nat /\ previous' \in Int
    BY <1>1 DEF Unmeasured
  <2>2. late' \in BOOLEAN
    BY Zenon, <1>1
  <2>. QED BY <1>1, <2>1, <2>2 DEF ActionInv, ActionTypeOK, Working
<1>4. ScrollOK'
  BY <1>1 DEF ScrollOK
<1>5. summary' \in [steps : Nat, errors : Nat, executed : Nat] /\ Accounted'
  BY <1>1 DEF ActionInv, Accounted, Working
<1>. QED BY <1>1, <1>2, <1>4, <1>5 DEF ActionInv, Total, Unmeasured, MeasureScrolls

LEMMA ActionStep ==
  ASSUME ActionInv, ActionNext
  PROVE  ActionInv'
<1>1. /\ round \in Nat /\ previous \in Int /\ previous >= Unmeasured
      /\ feed \in FeedType /\ Total <= MaxBatches /\ late \in BOOLEAN
      /\ mishaps \in 0..MaxMishaps /\ MaxBatches \in Nat /\ MaxMishaps \in Nat
  BY ActionsAssumption DEF ActionInv, ActionTypeOK, FeedType
<1>2. CASE GotoBlocked \/ Once \/ ButtonGone
  BY <1>1, <1>2, StepEnds DEF GotoBlocked, Once, ButtonGone, Working, Total
<1>3. CASE Goto
  <2>1. feed' \in FeedType /\ Total' <= MaxBatches
    BY <1>1, <1>3 DEF Goto, Feeds, FeedType, Total
  <2>. QED BY <1>1, <1>3, <2>1, StepEnds DEF Goto, Working
<1>4. CASE StepRaises
  BY <1>1, <1>4, StepEnds DEF StepRaises, Working, Total
<1>5. CASE ActionsEnd
  <2>1. /\ at' = "end" /\ at = "next"
        /\ UNCHANGED <<todo, round, previous, feed, summary, late, mishaps>>
    BY <1>5 DEF ActionsEnd
  <2>. QED BY <2>1 DEF ActionInv, ActionTypeOK, Working, Accounted, ScrollOK, Total, MeasureScrolls
<1>. QED BY <1>2, <1>3, <1>4, <1>5, BeginStepKeeps, ScrollKeeps, ClickKeeps, SettleKeeps,
            MeasureKeeps DEF ActionNext

LEMMA ActionStutter ==
  ASSUME ActionInv, UNCHANGED actionVars
  PROVE  ActionInv'
BY DEF actionVars, ActionInv, ActionTypeOK, Working, Accounted, ScrollOK, Total, Doing,
       MeasureScrolls

LEMMA StepOnPage ==
  ASSUME [Next]_vars
  PROVE  ActionNext \/ UNCHANGED actionVars
BY DEF Next, vars

LEMMA ActionInvariant == Spec => []ActionInv
<1>1. Init => ActionInv
  BY ActionStart
<1>2. ActionInv /\ [Next]_vars => ActionInv'
  BY ActionStep, ActionStutter, StepOnPage
<1>. QED BY <1>1, <1>2, PTL DEF Spec

(* A loop that is over has loaded the whole list, spent its rounds, or did   *)
(* not reach the end of the page.                                           *)
LEMMA LoopExhausts ==
  ASSUME ActionInv, [Next]_vars, Working, Doing \in {"scroll_until", "click_until"},
         summary'.executed > summary.executed, ~late'
  PROVE  \/ feed'.rest + feed'.coming = 0
         \/ round' = Limit
         \/ Doing = "scroll_until" /\ feed'.height > 0
<1>1. summary' # summary /\ ~UNCHANGED actionVars
  <2>1. summary.executed \in Nat
    BY DEF ActionInv
  <2>. QED BY <2>1 DEF actionVars
<1>2. CASE GotoBlocked \/ Goto \/ Once
  BY <1>2 DEF GotoBlocked, Goto, Once
<1>3. CASE StepRaises
  BY <1>3 DEF StepRaises, StepOver, ActionInv
<1>4. CASE BeginStep \/ Scroll \/ Click \/ ActionsEnd
  BY <1>1, <1>4 DEF BeginStep, Scroll, Click, ActionsEnd, Working
<1>5. CASE ButtonGone
  BY <1>5 DEF ButtonGone, ActionInv, ActionTypeOK
<1>6. CASE Settle
  BY <1>1, <1>6 DEF Settle, RoundOver
<1>7. CASE Measure
  <2>1. CASE RoundOver
    BY <1>1, <2>1 DEF RoundOver
  <2>2. CASE feed.shown <= previous
    <3>1. /\ at = "measure" /\ feed' = feed /\ ~late /\ Doing = "scroll_until"
          /\ feed.shown \in Nat /\ previous \in Int /\ feed.height \in Nat
      <4>1. feed.shown \in Nat /\ previous \in Int /\ feed.height \in Nat
        BY ActionsAssumption DEF ActionInv, ActionTypeOK
      <4>2. at = "measure" /\ feed' = feed /\ ~late
        BY <1>7 DEF Measure
      <4>. QED BY <4>1, <4>2 DEF ActionInv, MeasureScrolls, Working
    <3>. QED BY <2>2, <3>1 DEF ActionInv, ScrollOK, Unmeasured
  <2>. QED BY <1>7, <2>1, <2>2 DEF Measure
<1>. QED BY <1>1, <1>2, <1>3, <1>4, <1>5, <1>6, <1>7, StepOnPage DEF ActionNext

(* Every step of a call on a page is tried and accounted for, whatever      *)
(* raises, and a loop that ends before its work is done was late or short   *)
(* of the end of the page (actions.py:139-232).                             *)
THEOREM ActionsAreDone == Spec => ActionsDone
<1>1. ActionInv => ActionTypeOK /\ Accounted
  BY DEF ActionInv
<1>2. ActionInv /\ [Next]_vars =>
        [/\ Working /\ Doing \in {"scroll_until", "click_until"}
         /\ summary'.executed > summary.executed /\ ~late'
         => \/ feed'.rest + feed'.coming = 0
            \/ round' = Limit
            \/ Doing = "scroll_until" /\ feed'.height > 0]_actionVars
  BY LoopExhausts
<1>. QED BY <1>1, <1>2, ActionInvariant, PTL
         DEF Spec, ActionsDone, StepsAccounted, UntilExhausts, Accounted

-----------------------------------------------------------------------------
(* Induction and recursion over the natural numbers, for the reference      *)
(* definitions.                                                             *)

Below == OpToRel(<, Nat)

LEMMA BelowWellFounded == IsWellFoundedOn(Below, Nat)
BY NatLessThanWellFounded DEF Below

LEMMA BelowIsLess ==
  ASSUME NEW m \in Nat, NEW n \in Nat
  PROVE  <<m, n>> \in Below <=> m < n
BY DEF Below, OpToRel

LEMMA SetInduction ==
  ASSUME NEW S, 0 \in S, \A n \in Nat : n \in S => n + 1 \in S
  PROVE  Nat \subseteq S
<1> SUFFICES ASSUME Nat \ S # {} PROVE FALSE
  OBVIOUS
<1>1. PICK x \in Nat \ S : \A y \in Nat \ S : ~ (<<y, x>> \in Below)
  BY BelowWellFounded, WFMin
<1>2. x - 1 \in Nat /\ <<x - 1, x>> \in Below
  BY BelowIsLess
<1>. QED BY <1>1, <1>2

(* A function may be defined by recursion on smaller arguments.             *)
Earlier(prior, N) ==
  prior \in [1..N -> Nat] /\ \A k \in 1..N : prior[k] < k

Recurs(g, N, base, prior, step) ==
  g[0] = base /\ \A k \in 1..N : g[k] = step[k][g[prior[k]]]

LEMMA Recursion ==
  ASSUME NEW N \in Nat, NEW V, NEW base \in V, NEW prior, Earlier(prior, N),
         NEW step \in [1..N -> [V -> V]]
  PROVE  \E g \in [0..N -> V] : Recurs(g, N, base, prior, step)
<1> DEFINE Upto(g, n) == /\ g \in [0..n -> V] /\ g[0] = base
                         /\ \A k \in 1..n : g[k] = step[k][g[prior[k]]]
           S == {n \in Nat : n <= N => \E g : Upto(g, n)}
<1>1. 0 \in S
  <2>1. Upto([k \in 0..0 |-> base], 0)
    OBVIOUS
  <2>. QED BY <2>1
<1>2. ASSUME NEW n \in Nat, n \in S PROVE n + 1 \in S
  <2>1. SUFFICES ASSUME n + 1 <= N PROVE \E g : Upto(g, n + 1)
    OBVIOUS
  <2>2. PICK g : Upto(g, n)
    BY <1>2, <2>1
  <2>3. prior[n + 1] \in 0..n /\ n + 1 \in 1..N
    BY <2>1 DEF Earlier
  <2>4. PICK v \in V : v = step[n + 1][g[prior[n + 1]]]
    BY <2>2, <2>3
  <2> DEFINE h == [k \in 0..(n + 1) |-> IF k <= n THEN g[k] ELSE v]
  <2>5. h \in [0..(n + 1) -> V] /\ h[0] = base
    BY <2>2
  <2>6. ASSUME NEW k \in 1..(n + 1) PROVE h[k] = step[k][h[prior[k]]]
    <3>1. k \in 1..N /\ prior[k] \in 0..n
      BY <2>1 DEF Earlier
    <3>2. h[prior[k]] = g[prior[k]]
      BY <3>1
    <3>3. CASE k <= n
      BY <2>2, <3>1, <3>2, <3>3
    <3>4. CASE k = n + 1
      <4>1. h[k] = v /\ h[prior[n + 1]] = g[prior[n + 1]]
        BY <3>2, <3>4
      <4> HIDE DEF h
      <4>. QED BY <2>4, <3>4, <4>1
    <3>. QED BY <3>3, <3>4
  <2>. QED BY <2>5, <2>6
<1> HIDE DEF S
<1>3. N \in S
  BY <1>1, <1>2, SetInduction
<1>. QED BY <1>3 DEF S, Recurs

-----------------------------------------------------------------------------
(* map_site: the pages within so many links of the seeds.                   *)

PagesOf(S, listed) == (S \cap Kept) \ listed
LinkedFrom(S) == UNION {LinksOf[u] : u \in S}

LEMMA LinkedLevels ==
  ASSUME NEW skip, NEW bad, NEW W, W = Linked(skip, bad)
  PROVE  /\ W \in [0..MaxDepth -> SUBSET Url]
         /\ W[0] = PagesOf(Seeds, skip)
         /\ \A d \in 1..MaxDepth :
              W[d] = W[d - 1] \cup PagesOf(LinkedFrom(W[d - 1] \ bad), skip)
<1> DEFINE V == SUBSET Url
           base == PagesOf(Seeds, skip)
           more(S) == S \cup PagesOf(LinkedFrom(S \ bad), skip)
           prior == [k \in 1..MaxDepth |-> k - 1]
           step == [k \in 1..MaxDepth |-> [S \in V |-> more(S)]]
<1>1. MaxDepth \in Nat /\ base \in V /\ \A S \in V : more(S) \in V
  BY SiteMapAssumption DEF PagesOf
<1>2. Earlier(prior, MaxDepth)
  BY <1>1 DEF Earlier
<1>3. step \in [1..MaxDepth -> [V -> V]]
  BY <1>1
<1>4. PICK g \in [0..MaxDepth -> V] : Recurs(g, MaxDepth, base, prior, step)
  <2>1. MaxDepth \in Nat /\ base \in V
    BY <1>1
  <2> HIDE DEF V, base, prior, step
  <2>. QED BY <2>1, <1>2, <1>3, Recursion
<1>5. g[0] = base /\ \A k \in 1..MaxDepth : g[k] = more(g[k - 1])
  <2>1. ASSUME NEW k \in 1..MaxDepth PROVE g[k] = more(g[k - 1])
    <3>1. prior[k] = k - 1 /\ g[k - 1] \in V
      BY <1>1
    <3>2. g[k] = step[k][g[k - 1]]
      BY <1>4, <3>1 DEF Recurs
    <3> HIDE DEF more
    <3>. QED BY <3>1, <3>2
  <2>. QED BY <1>4, <2>1 DEF Recurs
<1> DEFINE Is(f) ==
      f = [d \in 0..MaxDepth |-> IF d = 0 THEN base
                                 ELSE f[d - 1]
                                       \cup PagesOf(LinkedFrom(f[d - 1] \ bad), skip)]
<1>6. Is(g)
  <2>1. ASSUME NEW d \in 0..MaxDepth
        PROVE  g[d] = IF d = 0 THEN base
                      ELSE g[d - 1] \cup PagesOf(LinkedFrom(g[d - 1] \ bad), skip)
    <3>1. CASE d = 0
      BY <1>5, <3>1
    <3>2. CASE d # 0
      <4>1. d \in 1..MaxDepth
        BY <1>1, <3>2
      <4>. QED BY <1>5, <3>2, <4>1
    <3>. QED BY <3>1, <3>2
  <2> HIDE DEF base, V
  <2>. QED BY <2>1
<1>7. Is(W)
  <2>1. W = CHOOSE f : Is(f)
    BY DEF Linked, PagesOf, LinkedFrom
  <2> HIDE DEF Is
  <2>. QED BY <1>6, <2>1
<1>8. W = [d \in 0..MaxDepth |-> IF d = 0 THEN base ELSE more(W[d - 1])]
  BY <1>7
<1>9. ASSUME NEW d \in 1..MaxDepth PROVE W[d] = more(W[d - 1])
  <2>1. d \in 0..MaxDepth /\ d # 0
    BY <1>1
  <2> HIDE DEF more
  <2>. QED BY <1>8, <2>1
<1>10. W[0] = base
  BY <1>1, <1>8
<1>11. \A d \in 0..MaxDepth : W[d] \in V
  <2> DEFINE S == {n \in Nat : n <= MaxDepth => W[n] \in V}
  <2>1. 0 \in S
    BY <1>1, <1>10
  <2>2. ASSUME NEW n \in Nat, n \in S PROVE n + 1 \in S
    <3>1. SUFFICES ASSUME n + 1 <= MaxDepth PROVE W[n + 1] \in V
      OBVIOUS
    <3>2. n + 1 \in 1..MaxDepth /\ (n + 1) - 1 = n /\ W[n] \in V
      BY <1>1, <2>2, <3>1
    <3>3. W[n + 1] = more(W[n])
      BY <1>9, <3>2
    <3> HIDE DEF more
    <3>. QED BY <1>1, <3>2, <3>3
  <2> HIDE DEF S
  <2>3. Nat \subseteq S
    BY <2>1, <2>2, SetInduction
  <2>. QED BY <1>1, <2>3 DEF S
<1>. QED BY <1>8, <1>9, <1>10, <1>11

-----------------------------------------------------------------------------
(* Invariants of map_site.                                                  *)

(* The level of a search after d links from the seeds, and what is linked   *)
(* from the pages of S that were searched.                                  *)
Levels(L) ==
  /\ L \in [0..depth -> SUBSET Url] /\ L[0] = PagesOf(Seeds, shadowed)
  /\ \A k \in 1..depth :
       L[k] = L[k - 1] \cup PagesOf(LinkedFrom(L[k - 1] \ failed), shadowed)

Reached(S) == PagesOf(LinkedFrom(S \ (failed \cup frontier)), shadowed)

SearchOK(L) ==
  /\ Levels(L)
  /\ frontier \cup failed \subseteq L[depth] /\ failed \cap frontier = {}
  /\ \A k \in 0..depth : L[k] \subseteq L[depth] /\ (k < depth => L[k] \cap frontier = {})
  /\ next \cap L[depth] = {} /\ next \subseteq Reached(L[depth])
  /\ discovered \subseteq shadowed \cup L[depth] \cup next
  /\ depth = MaxDepth => next = {}
  /\ ~Full => L[depth] \subseteq discovered /\ Reached(L[depth]) \subseteq L[depth] \cup next

Unsearched == frontier = {} /\ next = {} /\ shadowed = {} /\ failed = {} /\ depth = 0

MapInv ==
  /\ MapTypeOK /\ IsFiniteSet(seenFiles) /\ numFound \in Nat
  /\ IF stage \in {"page", "done"} THEN \E L : SearchOK(L) ELSE Unsearched
  /\ stage = "done" => ~Searching

-----------------------------------------------------------------------------
(* What a list of candidates cut at n is.                                   *)
LEMMA SomeOf ==
  ASSUME NEW S, IsFiniteSet(S), NEW n \in Nat, NEW us \in Some(S, n)
  PROVE  /\ us \subseteq S /\ IsFiniteSet(us) /\ Cardinality(us) \in Nat
         /\ Cardinality(us) <= n /\ (us # S => Cardinality(us) = n)
<1>1. Cardinality(S) \in Nat
  BY FS_CardinalityType
<1>2. PICK k \in {Cardinality(S), n} : \A m \in {Cardinality(S), n} : k <= m
  BY <1>1
<1>3. k = Min({Cardinality(S), n})
  <2>1. \A j \in {Cardinality(S), n} :
          (\A m \in {Cardinality(S), n} : j <= m) => j = k
    BY <1>1, <1>2
  <2>. QED BY <1>2, <2>1 DEF Min
<1>4. us \in SUBSET S /\ Cardinality(us) = k
  BY <1>3 DEF Some, kSubset
<1>5. IsFiniteSet(us) /\ Cardinality(us) \in Nat /\ (us # S => Cardinality(us) < Cardinality(S))
  BY <1>4, FS_Subset, FS_CardinalityType
<1>. QED BY <1>1, <1>2, <1>4, <1>5

(* What a list of candidates adds, when the cap was not reached yet.        *)
Adds(us, S) ==
  /\ us \subseteq (S \cap Kept) \ discovered /\ IsFiniteSet(discovered \cup us)
  /\ discovered' = discovered \cup us
  /\ discovered' \subseteq Kept /\ Cardinality(discovered') <= MaxUrls
  /\ ~Full' => ~Full /\ us = (S \cap Kept) \ discovered

LEMMA KeptFinite == IsFiniteSet(Kept) /\ MaxUrls \in Nat
BY SiteMapAssumption, FS_Subset

LEMMA Accepting ==
  ASSUME MapTypeOK, NEW S, NEW us \in Accepted(S), discovered' = discovered \cup us
  PROVE  Adds(us, S)
<1> DEFINE C == (S \cap Kept) \ discovered
           n == MaxUrls - Cardinality(discovered)
<1>1. /\ IsFiniteSet(C) /\ IsFiniteSet(discovered) /\ discovered \subseteq Kept
      /\ MaxUrls \in Nat /\ Cardinality(discovered) \in Nat /\ Cardinality(discovered) <= MaxUrls
  BY KeptFinite, FS_Subset, FS_CardinalityType DEF MapTypeOK
<1>2. n \in Nat
  BY <1>1
<1>3. us \in Some(C, n)
  BY DEF Accepted, Mappable
<1>4. /\ us \subseteq C /\ IsFiniteSet(us) /\ Cardinality(us) \in Nat
      /\ Cardinality(us) <= n /\ (us # C => Cardinality(us) = n)
  <2> HIDE DEF C, n
  <2>. QED BY <1>1, <1>2, <1>3, SomeOf
<1>5. discovered \cap us = {}
  BY <1>4
<1>6. IsFiniteSet(discovered \cup us)
  BY <1>1, <1>4, FS_Union
<1>7. Cardinality(discovered \cup us) =
        Cardinality(discovered) + Cardinality(us) - Cardinality(discovered \cap us)
  BY <1>1, <1>4, FS_Union
<1>8. Cardinality(discovered \cup us) = Cardinality(discovered) + Cardinality(us)
  <2>1. Cardinality(discovered \cap us) = 0
    BY <1>5, FS_EmptySet
  <2>. QED BY <1>1, <1>4, <1>7, <2>1
<1>9. Cardinality(discovered') <= MaxUrls /\ discovered' \subseteq Kept
  BY <1>1, <1>4, <1>8
<1>10. ~Full' => ~Full /\ us = C
  BY <1>1, <1>4, <1>8 DEF Full
<1>. QED BY <1>4, <1>6, <1>9, <1>10 DEF Adds

-----------------------------------------------------------------------------
LEMMA MapStart ==
  ASSUME Init
  PROVE  MapInv
<1>1. MapLocals /\ stage \in {"idle", "origin"}
  BY DEF Init, MapInit, NoMap
<1>2. Cardinality({}) = 0 /\ IsFiniteSet({})
  BY FS_EmptySet
<1>3. {MaxUrls, MaxDepth, MaxSitemaps, MaxFaults} \subseteq Nat
  BY SiteMapAssumption
<1>. QED BY <1>1, <1>2, <1>3, SeqDef
            DEF MapLocals, MapInv, MapTypeOK, AskedTypeOK, Unsearched

LEMMA AskedStep ==
  ASSUME MapInv, MapNext \/ UNCHANGED mapVars
  PROVE  AskedTypeOK'
<1>1. /\ AskedTypeOK /\ origins \subseteq Origin
      /\ stage = "sitemap" => queue \in Seq(File)
  BY DEF MapInv, MapTypeOK
<1>2. CASE BeginOrigin
  BY <1>1, <1>2 DEF BeginOrigin, excuses, AskedTypeOK
<1>3. CASE SitemapFails
  <2>1. Head(queue) \in File /\ asking \in Origin
    BY <1>1, <1>3, HeadTailProperties DEF SitemapFails, MoreSitemaps, AskedTypeOK
  <2>2. /\ stage' = stage /\ asking' = asking /\ partial' = partial
        /\ broken' = broken \cup {<<asking, Head(queue)>>}
    BY <1>3 DEF SitemapFails
  <2>. QED BY <1>1, <2>1, <2>2 DEF AskedTypeOK
<1>4. CASE TakeSitemap \/ SitemapRaises
  <2>1. /\ stage = "sitemap" /\ stage' = "origin" /\ asking' = asking /\ broken' = broken
        /\ partial' \subseteq partial \cup {asking}
    BY <1>4 DEF TakeSitemap, SitemapRaises, sitemapVars
  <2>. QED BY <1>1, <2>1 DEF AskedTypeOK
<1>5. CASE \/ OriginsDone \/ ReadSitemap \/ TakeSeeds \/ FetchPage \/ FetchFails
           \/ NextLevel \/ MapDone \/ UNCHANGED mapVars
  <2>1. UNCHANGED <<asking, broken, partial>> /\ (stage' = "sitemap" => stage = "sitemap")
    BY <1>5 DEF OriginsDone, ReadSitemap, TakeSeeds, FetchPage, FetchFails, NextLevel,
                MapDone, mapVars, sitemapVars, excuses
  <2>. QED BY <1>1, <2>1 DEF AskedTypeOK
<1>. QED BY <1>2, <1>3, <1>4, <1>5 DEF MapNext

(* A step over the sitemaps leaves the search alone.                        *)
LEMMA SitemapStep ==
  ASSUME MapInv, AskedTypeOK', stage \in {"origin", "sitemap"}, UNCHANGED searchVars,
         stage' \in {"origin", "sitemap", "seeds"},
         origins' \subseteq Origin, queue' \in Seq(File),
         seenFiles' \subseteq File, IsFiniteSet(seenFiles'), Cardinality(seenFiles') <= MaxSitemaps,
         found' \subseteq Url, numFound' \in Nat, Cardinality(found') <= numFound',
         numFound' <= MaxUrls, discovered' \subseteq Kept, Cardinality(discovered') <= MaxUrls,
         faults' \in 0..MaxFaults
  PROVE  MapInv'
<1>1. Unsearched /\ Unsearched'
  BY DEF MapInv, Unsearched, searchVars
<1>2. depth' \in 0..MaxDepth
  BY DEF searchVars, MapInv, MapTypeOK
<1>3. MapTypeOK'
  BY <1>1, <1>2 DEF MapTypeOK, Unsearched
<1>. QED BY <1>1, <1>3 DEF MapInv

LEMMA FileSeen ==
  ASSUME MapInv, MoreSitemaps, seenFiles' = seenFiles \cup {Head(queue)}
  PROVE  /\ seenFiles' \subseteq File /\ IsFiniteSet(seenFiles')
         /\ Cardinality(seenFiles') <= MaxSitemaps
         /\ Head(queue) \in File /\ Tail(queue) \in Seq(File)
<1>1. queue \in Seq(File) /\ queue # <<>> /\ IsFiniteSet(seenFiles)
      /\ seenFiles \subseteq File /\ Cardinality(seenFiles) < MaxSitemaps /\ MaxSitemaps \in Nat
  BY SiteMapAssumption DEF MapInv, MapTypeOK, MoreSitemaps
<1>2. Head(queue) \in File /\ Tail(queue) \in Seq(File)
  BY <1>1, HeadTailProperties
<1>3. IsFiniteSet(seenFiles') /\ Cardinality(seenFiles) \in Nat
      /\ Cardinality(seenFiles') \in {Cardinality(seenFiles), Cardinality(seenFiles) + 1}
  BY <1>1, FS_AddElement, FS_CardinalityType
<1>. QED BY <1>1, <1>2, <1>3

LEMMA SitemapRead ==
  ASSUME MapInv, AskedTypeOK', ReadSitemap
  PROVE  MapInv'
<1>1. /\ stage = "sitemap" /\ MoreSitemaps /\ seenFiles' = seenFiles \cup {Head(queue)}
      /\ UNCHANGED <<stage, origins, discovered, searchVars, faults>>
  BY DEF ReadSitemap
<1>2. /\ seenFiles' \subseteq File /\ IsFiniteSet(seenFiles')
      /\ Cardinality(seenFiles') <= MaxSitemaps
      /\ Head(queue) \in File /\ Tail(queue) \in Seq(File)
  BY <1>1, FileSeen
<1>3. /\ found \subseteq Url /\ Cardinality(found) <= numFound /\ numFound \in Nat
      /\ numFound < MaxUrls /\ MaxUrls \in Nat /\ IsFiniteSet(Url) /\ IsFiniteSet(found)
      /\ Cardinality(found) \in Nat
  BY <1>1, SiteMapAssumption, FS_Subset, FS_CardinalityType DEF MapInv, MapTypeOK, MoreSitemaps
<1>4. /\ queue' \in Seq(File) /\ found' \subseteq Url /\ numFound' \in Nat
      /\ Cardinality(found') <= numFound' /\ numFound' <= MaxUrls
  <2>1. CASE /\ queue' = Tail(queue) \o Indexed[Head(queue)]
             /\ \E us \in Some(Listed[Head(queue)], MaxUrls - numFound) :
                  found' = found \cup us /\ numFound' = numFound + Cardinality(us)
    <3>1. Indexed[Head(queue)] \in Seq(File) /\ Listed[Head(queue)] \subseteq Url
          /\ IsFiniteSet(Listed[Head(queue)]) /\ MaxUrls - numFound \in Nat
      BY <1>2, <1>3, SiteMapAssumption, FS_Subset
    <3>2. queue' \in Seq(File)
      BY <1>2, <2>1, <3>1, ConcatProperties
    <3>3. PICK us \in Some(Listed[Head(queue)], MaxUrls - numFound) :
            found' = found \cup us /\ numFound' = numFound + Cardinality(us)
      BY <2>1
    <3>4. /\ us \subseteq Listed[Head(queue)] /\ IsFiniteSet(us) /\ Cardinality(us) \in Nat
          /\ Cardinality(us) <= MaxUrls - numFound
      BY <3>1, SomeOf
    <3>5. /\ Cardinality(found \cup us) =
             Cardinality(found) + Cardinality(us) - Cardinality(found \cap us)
          /\ Cardinality(found \cap us) \in Nat
      BY <1>3, <3>4, FS_Union, FS_Intersection, FS_CardinalityType
    <3>. QED BY <1>3, <3>1, <3>2, <3>3, <3>4, <3>5
  <2>2. CASE queue' = Tail(queue) /\ UNCHANGED <<found, numFound>>
    BY <1>2, <1>3, <2>2
  <2>. QED BY <2>1, <2>2 DEF ReadSitemap
<1>5. /\ origins' \subseteq Origin /\ discovered' \subseteq Kept
      /\ Cardinality(discovered') <= MaxUrls /\ faults' \in 0..MaxFaults
  BY <1>1 DEF MapInv, MapTypeOK
<1>. QED BY <1>1, <1>2, <1>4, <1>5, SitemapStep

LEMMA SitemapSteps ==
  ASSUME MapInv, AskedTypeOK', BeginOrigin \/ OriginsDone \/ SitemapFails \/ TakeSitemap \/ SitemapRaises
  PROVE  MapInv'
<1>1. /\ origins \subseteq Origin /\ queue \in Seq(File) /\ seenFiles \subseteq File
      /\ Cardinality(seenFiles) <= MaxSitemaps /\ IsFiniteSet(seenFiles)
      /\ found \subseteq Url /\ Cardinality(found) <= numFound /\ numFound <= MaxUrls
      /\ numFound \in Nat /\ discovered \subseteq Kept /\ Cardinality(discovered) <= MaxUrls
      /\ faults \in 0..MaxFaults /\ {MaxUrls, MaxSitemaps, MaxFaults} \subseteq Nat
  BY SiteMapAssumption DEF MapInv, MapTypeOK
<1>2. CASE BeginOrigin
  <2>1. PICK o \in origins : origins' = origins \ {o} /\ queue' = <<RootOf[o]>>
    BY <1>2 DEF BeginOrigin
  <2>2. RootOf[o] \in File
    BY <1>1, <2>1, SiteMapAssumption
  <2>3. queue' \in Seq(File)
    BY <2>1, <2>2, SeqDef
  <2>4. IsFiniteSet({}) /\ Cardinality({}) = 0
    BY FS_EmptySet
  <2>5. /\ stage = "origin" /\ stage' = "sitemap" /\ seenFiles' = {} /\ found' = {} /\ numFound' = 0
        /\ UNCHANGED <<discovered, searchVars, faults>>
    BY <1>2 DEF BeginOrigin
  <2>. QED BY <1>1, <2>1, <2>3, <2>4, <2>5, SitemapStep
<1>3. CASE OriginsDone \/ SitemapRaises
  <2>1. /\ stage \in {"origin", "sitemap"} /\ stage' \in {"origin", "seeds"}
        /\ UNCHANGED <<origins, queue, seenFiles, found, numFound, discovered, searchVars>>
        /\ faults' \in 0..MaxFaults
    BY <1>1, <1>3 DEF OriginsDone, SitemapRaises, sitemapVars
  <2>. QED BY <1>1, <2>1, SitemapStep
<1>4. CASE SitemapFails
  <2>1. /\ stage = "sitemap" /\ MoreSitemaps /\ stage' = stage
        /\ queue' = Tail(queue) /\ seenFiles' = seenFiles \cup {Head(queue)}
        /\ faults' \in 0..MaxFaults
        /\ UNCHANGED <<origins, found, numFound, discovered, searchVars>>
    BY <1>1, <1>4 DEF SitemapFails
  <2>. QED BY <1>1, <2>1, FileSeen, SitemapStep
<1>5. CASE TakeSitemap
  <2>1. PICK us \in Accepted(found) : discovered' = discovered \cup us
    BY <1>5 DEF TakeSitemap
  <2>2. discovered' \subseteq Kept /\ Cardinality(discovered') <= MaxUrls
    BY <2>1, Accepting DEF Adds, MapInv
  <2>3. /\ stage = "sitemap" /\ stage' = "origin"
        /\ UNCHANGED <<origins, queue, seenFiles, found, numFound, searchVars, faults>>
    BY <1>5 DEF TakeSitemap, sitemapVars
  <2>. QED BY <1>1, <2>2, <2>3, SitemapStep
<1>. QED BY <1>2, <1>3, <1>4, <1>5

-----------------------------------------------------------------------------
(* The parts of a search that a step on a page leaves alone.                *)
SitemapsSame == UNCHANGED <<origins, queue, seenFiles, found, numFound>>

LEMMA SearchTypes ==
  ASSUME MapInv, AskedTypeOK', SitemapsSame, stage' \in {"page", "done"},
         discovered' \subseteq Kept, Cardinality(discovered') <= MaxUrls,
         frontier' \cup next' \cup shadowed' \subseteq discovered',
         depth' \in 0..MaxDepth, faults' \in 0..MaxFaults, failed' \subseteq Kept,
         \E L : SearchOK(L)', stage' = "done" => ~Searching'
  PROVE  MapInv'
<1>1. MapTypeOK' /\ IsFiniteSet(seenFiles') /\ numFound' \in Nat
  BY DEF MapInv, MapTypeOK, SitemapsSame
<1>. QED BY <1>1 DEF MapInv

LEMMA Seeding ==
  ASSUME MapInv, AskedTypeOK', TakeSeeds
  PROVE  MapInv'
<1>1. /\ stage = "seeds" /\ stage' = "page" /\ shadowed' = discovered /\ SitemapsSame
      /\ UNCHANGED <<next, depth, failed, faults>>
  BY DEF TakeSeeds, sitemapVars, SitemapsSame
<1>2. PICK us \in Accepted(Seeds) : discovered' = discovered \cup us /\ frontier' = us
  BY DEF TakeSeeds
<1>3. Adds(us, Seeds)
  BY <1>2, Accepting DEF MapInv
<1>4. /\ next' = {} /\ depth' = 0 /\ failed' = {} /\ faults' \in 0..MaxFaults
      /\ 0 \in 0..MaxDepth
  BY <1>1, SiteMapAssumption DEF MapInv, MapTypeOK, Unsearched
<1>5. PICK l : l = PagesOf(Seeds, shadowed')
  OBVIOUS
<1>0. l = (Seeds \cap Kept) \ discovered /\ l \subseteq Url
  BY <1>1, <1>5, SiteMapAssumption DEF PagesOf
<1>6. PICK L : L[0] = l /\ L \in [0..0 -> SUBSET Url]
  <2>1. [k \in 0..0 |-> l][0] = l /\ [k \in 0..0 |-> l] \in [0..0 -> SUBSET Url]
    BY <1>0
  <2>. QED BY <2>1
<1>7. Levels(L)'
  BY <1>4, <1>5, <1>6 DEF Levels
<1>8. us \subseteq l /\ (~Full' => us = l)
  BY <1>3, <1>0 DEF Adds
<1>9. ~Full' => Reached(l)' = {}
  <2>1. ~Full' => l \ (failed' \cup frontier') = {}
    BY <1>2, <1>4, <1>8
  <2>2. PagesOf(LinkedFrom({}), shadowed') = {}
    BY DEF PagesOf, LinkedFrom
  <2>. QED BY <2>1, <2>2 DEF Reached
<1>10. SearchOK(L)'
  <2>1. L[depth'] = l
    BY <1>4, <1>6
  <2>2. /\ frontier' \cup failed' \subseteq l /\ failed' \cap frontier' = {}
        /\ next' \cap l = {} /\ next' \subseteq Reached(l)'
        /\ discovered' \subseteq shadowed' \cup l \cup next'
        /\ ~Full' => l \subseteq discovered' /\ Reached(l)' \subseteq l \cup next'
    BY <1>1, <1>2, <1>4, <1>8, <1>9
  <2>3. \A k \in 0..depth' : L[k] \subseteq L[depth'] /\ (k < depth' => L[k] \cap frontier' = {})
    BY <1>4, <1>6
  <2>. QED BY <1>4, <1>7, <2>1, <2>2, <2>3 DEF SearchOK, Reached
<1>11. \E M : SearchOK(M)'
  BY <1>10
<1>12. /\ discovered' \subseteq Kept /\ Cardinality(discovered') <= MaxUrls
       /\ frontier' \cup next' \cup shadowed' \subseteq discovered' /\ failed' \subseteq Kept
  BY <1>1, <1>2, <1>3, <1>4 DEF Adds
<1>. QED BY <1>1, <1>4, <1>11, <1>12, SearchTypes

LEMMA Fetching ==
  ASSUME MapInv, AskedTypeOK', FetchPage
  PROVE  MapInv'
<1>1. /\ stage = "page" /\ stage' = "page" /\ Searching /\ SitemapsSame
      /\ UNCHANGED <<depth, shadowed, failed, faults>>
  BY DEF FetchPage, sitemapVars, SitemapsSame
<1>2. PICK u \in frontier :
        /\ frontier' = frontier \ {u}
        /\ \E us \in Accepted(Links(u)) :
             discovered' = discovered \cup us /\ next' = next \cup us
  BY DEF FetchPage
<1>0. PICK us \in Accepted(Links(u)) : discovered' = discovered \cup us /\ next' = next \cup us
  BY <1>2
<1>3. Adds(us, LinksOf[u])
  BY <1>0, Accepting DEF MapInv, Links
<1>4. PICK L : SearchOK(L)
  BY <1>1 DEF MapInv
<1>5. Levels(L)'
  BY <1>1, <1>4 DEF SearchOK, Levels
<1>6. PICK l : l = L[depth]
  OBVIOUS
<1>7. /\ frontier \cup failed \subseteq l /\ failed \cap frontier = {}
      /\ next \cap l = {} /\ next \subseteq Reached(l)
      /\ discovered \subseteq shadowed \cup l \cup next
      /\ l \subseteq discovered /\ Reached(l) \subseteq l \cup next
      /\ depth # MaxDepth /\ depth \in 0..MaxDepth
      /\ shadowed \cup next \subseteq discovered
  BY <1>1, <1>4, <1>6 DEF SearchOK, Searching, MapInv, MapTypeOK
<1>8. Reached(l)' = Reached(l) \cup PagesOf(LinksOf[u], shadowed)
  BY <1>1, <1>2, <1>7 DEF Reached, PagesOf, LinkedFrom
<1>9. us \subseteq PagesOf(LinksOf[u], shadowed) /\ us \cap l = {} /\ us \cap next = {}
  BY <1>3, <1>7 DEF Adds, PagesOf
<1>10. ~Full' => PagesOf(LinksOf[u], shadowed) \subseteq us \cup l \cup next
  BY <1>3, <1>7 DEF Adds, PagesOf
<1>11. SearchOK(L)'
  <2>1. L[depth'] = l
    BY <1>1, <1>6
  <2>2. /\ frontier' \cup failed' \subseteq l /\ failed' \cap frontier' = {}
        /\ next' \cap l = {} /\ next' \subseteq Reached(l)'
        /\ discovered' \subseteq shadowed' \cup l \cup next'
        /\ ~Full' => l \subseteq discovered' /\ Reached(l)' \subseteq l \cup next'
    BY <1>0, <1>1, <1>2, <1>7, <1>8, <1>9, <1>10
  <2>3. \A k \in 0..depth' : L[k] \subseteq L[depth'] /\ (k < depth' => L[k] \cap frontier' = {})
    BY <1>1, <1>2, <1>4 DEF SearchOK
  <2>. QED BY <1>1, <1>5, <1>7, <2>1, <2>2, <2>3 DEF SearchOK, Reached
<1>12. /\ discovered' \subseteq Kept /\ Cardinality(discovered') <= MaxUrls
       /\ frontier' \cup next' \cup shadowed' \subseteq discovered' /\ failed' \subseteq Kept
       /\ depth' \in 0..MaxDepth /\ faults' \in 0..MaxFaults
  BY <1>0, <1>1, <1>2, <1>3 DEF Adds, MapInv, MapTypeOK
<1>13. \E M : SearchOK(M)'
  BY <1>11
<1>. QED BY <1>1, <1>12, <1>13, SearchTypes

LEMMA FetchFailing ==
  ASSUME MapInv, AskedTypeOK', FetchFails
  PROVE  MapInv'
<1>1. /\ stage = "page" /\ stage' = "page" /\ Searching /\ SitemapsSame
      /\ UNCHANGED <<depth, shadowed, discovered, next>> /\ faults' = faults + 1
      /\ faults < MaxFaults
  BY DEF FetchFails, sitemapVars, SitemapsSame
<1>2. PICK u \in frontier : frontier' = frontier \ {u} /\ failed' = failed \cup {u}
  BY DEF FetchFails
<1>3. PICK L : SearchOK(L)
  BY <1>1 DEF MapInv
<1>4. depth \in 0..MaxDepth /\ MaxDepth \in Nat /\ faults \in 0..MaxFaults /\ MaxFaults \in Nat
  BY SiteMapAssumption DEF MapInv, MapTypeOK
<1>5. ASSUME NEW k \in 1..depth
      PROVE  L[k] = L[k - 1] \cup PagesOf(LinkedFrom(L[k - 1] \ failed'), shadowed')
  <2>1. k - 1 \in 0..depth /\ k - 1 < depth
    BY <1>4
  <2>2. u \notin L[k - 1]
    BY <1>2, <1>3, <2>1 DEF SearchOK
  <2>3. L[k - 1] \ failed' = L[k - 1] \ failed
    BY <1>2, <2>2
  <2>. QED BY <1>1, <1>3, <2>3 DEF SearchOK, Levels
<1>6. Levels(L)'
  BY <1>1, <1>3, <1>5 DEF SearchOK, Levels
<1>7. frontier' \cup failed' = frontier \cup failed
  BY <1>2
<1>8. Reached(L[depth])' = Reached(L[depth])
  BY <1>1, <1>7 DEF Reached
<1>9. SearchOK(L)'
  <2>1. \A k \in 0..depth' : L[k] \subseteq L[depth'] /\ (k < depth' => L[k] \cap frontier' = {})
    BY <1>1, <1>2, <1>3 DEF SearchOK
  <2>2. failed' \cap frontier' = {}
    BY <1>2, <1>3 DEF SearchOK
  <2>3. Full' = Full
    BY <1>1 DEF Full
  <2>. QED BY <1>1, <1>3, <1>6, <1>7, <1>8, <2>1, <2>2, <2>3 DEF SearchOK
<1>10. /\ discovered' \subseteq Kept /\ Cardinality(discovered') <= MaxUrls
       /\ frontier' \cup next' \cup shadowed' \subseteq discovered' /\ failed' \subseteq Kept
       /\ depth' \in 0..MaxDepth /\ faults' \in 0..MaxFaults
  BY <1>1, <1>2, <1>4 DEF MapInv, MapTypeOK
<1>11. \E M : SearchOK(M)'
  BY <1>9
<1>. QED BY <1>1, <1>10, <1>11, SearchTypes

LEMMA Deepening ==
  ASSUME MapInv, AskedTypeOK', NextLevel
  PROVE  MapInv'
<1>1. /\ stage = "page" /\ stage' = "page" /\ Searching /\ SitemapsSame
      /\ UNCHANGED <<shadowed, discovered, failed, faults>>
      /\ frontier = {} /\ frontier' = next /\ next' = {} /\ depth' = depth + 1
  BY DEF NextLevel, sitemapVars, SitemapsSame
<1>2. PICK L : SearchOK(L)
  BY <1>1 DEF MapInv
<1>3. depth \in 0..MaxDepth /\ MaxDepth \in Nat /\ depth < MaxDepth /\ depth' \in 0..MaxDepth
  BY <1>1, SiteMapAssumption DEF MapInv, MapTypeOK, Searching
<1>4. PICK l : l = L[depth] /\ l \in SUBSET Url
  BY <1>2, <1>3 DEF SearchOK, Levels
<1>5. /\ failed \subseteq l /\ next \cap l = {} /\ next \subseteq Reached(l)
      /\ discovered \subseteq shadowed \cup l \cup next
      /\ l \subseteq discovered /\ Reached(l) \subseteq l \cup next
      /\ shadowed \cup next \subseteq discovered
      /\ Reached(l) = PagesOf(LinkedFrom(l \ failed), shadowed)
  <2>1. failed \cup {} = failed
    OBVIOUS
  <2>. QED BY <1>1, <1>2, <1>4, <2>1 DEF SearchOK, Searching, MapInv, MapTypeOK, Reached
<1>6. PICK m : m = l \cup next /\ m \in SUBSET Url
  <2>1. next \subseteq Url
    BY SiteMapAssumption DEF MapInv, MapTypeOK
  <2>. QED BY <1>4, <2>1
<1>7. m = l \cup PagesOf(LinkedFrom(l \ failed), shadowed)
  BY <1>5, <1>6
<1> DEFINE N == [k \in 0..(depth + 1) |-> IF k = depth + 1 THEN m ELSE L[k]]
<1>0. /\ N \in [0..(depth + 1) -> SUBSET Url] /\ N[depth + 1] = m
      /\ \A k \in 0..depth : N[k] = L[k]
  <2>1. ASSUME NEW k \in 0..(depth + 1) PROVE N[k] \in SUBSET Url
    <3>1. CASE k = depth + 1
      BY <1>6, <3>1
    <3>2. CASE k # depth + 1
      BY <1>2, <1>3, <3>2 DEF SearchOK, Levels
    <3>. QED BY <3>1, <3>2
  <2>2. \A k \in 0..depth : N[k] = L[k]
    BY <1>3
  <2>3. depth + 1 \in 0..(depth + 1)
    BY <1>3
  <2>. QED BY <2>1, <2>2, <2>3
<1> HIDE DEF N
<1>8. PICK M : /\ M \in [0..(depth + 1) -> SUBSET Url] /\ M[depth + 1] = m
               /\ \A k \in 0..depth : M[k] = L[k]
  BY <1>0
<1>9. Levels(M)'
  <2>1. ASSUME NEW k \in 1..(depth + 1)
        PROVE  M[k] = M[k - 1] \cup PagesOf(LinkedFrom(M[k - 1] \ failed), shadowed)
    <3>1. CASE k = depth + 1
      <4>1. k - 1 = depth /\ depth \in 0..depth
        BY <1>3, <3>1
      <4>2. M[k - 1] = l /\ M[k] = m
        BY <1>4, <1>8, <3>1, <4>1
      <4>. QED BY <1>7, <4>2
    <3>2. CASE k # depth + 1
      <4>1. k \in 1..depth /\ k \in 0..depth /\ k - 1 \in 0..depth
        BY <1>3, <3>2
      <4>2. L[k] = L[k - 1] \cup PagesOf(LinkedFrom(L[k - 1] \ failed), shadowed)
        BY <1>2, <4>1 DEF SearchOK, Levels
      <4>. QED BY <1>8, <4>1, <4>2
    <3>. QED BY <3>1, <3>2
  <2>2. M[0] = PagesOf(Seeds, shadowed)
    <3>1. 0 \in 0..depth /\ L[0] = PagesOf(Seeds, shadowed)
      BY <1>2, <1>3 DEF SearchOK, Levels
    <3>. QED BY <1>8, <3>1
  <2>. QED BY <1>1, <1>8, <2>1, <2>2 DEF Levels
<1>10. Reached(m)' \subseteq m
  BY <1>1, <1>5, <1>6 DEF Reached, PagesOf, LinkedFrom
<1>11. ASSUME NEW k \in 0..(depth + 1)
       PROVE  M[k] \subseteq m /\ (k < depth + 1 => M[k] \cap next = {})
  <2>1. CASE k = depth + 1
    BY <1>3, <1>8, <2>1
  <2>2. CASE k # depth + 1
    <3>1. k \in 0..depth
      BY <1>3, <2>2
    <3>2. M[k] \subseteq l
      BY <1>2, <1>4, <1>8, <3>1 DEF SearchOK
    <3>. QED BY <1>5, <1>6, <3>2
  <2>. QED BY <2>1, <2>2
<1>12. SearchOK(M)'
  <2>1. M[depth'] = m
    BY <1>1, <1>8
  <2>2. /\ frontier' \cup failed' \subseteq m /\ failed' \cap frontier' = {}
        /\ next' \cap m = {} /\ next' \subseteq Reached(m)'
        /\ discovered' \subseteq shadowed' \cup m \cup next'
        /\ ~Full' => m \subseteq discovered' /\ Reached(m)' \subseteq m \cup next'
    BY <1>1, <1>5, <1>6, <1>10
  <2>3. \A k \in 0..depth' : M[k] \subseteq M[depth'] /\ (k < depth' => M[k] \cap frontier' = {})
    BY <1>1, <1>11, <2>1
  <2>. QED BY <1>1, <1>9, <2>1, <2>2, <2>3 DEF SearchOK, Reached
<1>13. /\ discovered' \subseteq Kept /\ Cardinality(discovered') <= MaxUrls
       /\ frontier' \cup next' \cup shadowed' \subseteq discovered' /\ failed' \subseteq Kept
       /\ faults' \in 0..MaxFaults
  BY <1>1, <1>5 DEF MapInv, MapTypeOK
<1>14. \E K : SearchOK(K)'
  BY <1>12
<1>. QED BY <1>1, <1>3, <1>13, <1>14, SearchTypes

LEMMA MapEnding ==
  ASSUME MapInv, AskedTypeOK', MapDone
  PROVE  MapInv'
<1>1. /\ stage = "page" /\ stage' = "done" /\ ~Searching
      /\ UNCHANGED <<origins, queue, seenFiles, found, numFound, discovered, frontier, next,
                     depth, shadowed, failed, faults>>
  BY DEF MapDone, sitemapVars, searchVars
<1>2. PICK L : SearchOK(L)
  BY <1>1 DEF MapInv
<1>3. SearchOK(L)'
  BY <1>1, <1>2 DEF SearchOK, Levels, Reached, Full
<1>4. ~Searching'
  BY <1>1 DEF Searching, Full
<1>5. MapTypeOK' /\ IsFiniteSet(seenFiles') /\ numFound' \in Nat
  BY <1>1 DEF MapInv, MapTypeOK
<1>. QED BY <1>1, <1>3, <1>4, <1>5 DEF MapInv

LEMMA MapStutter ==
  ASSUME MapInv, AskedTypeOK', UNCHANGED mapVars
  PROVE  MapInv'
<1>1. /\ UNCHANGED <<origins, queue, seenFiles, found, numFound, discovered, frontier, next,
                     depth, shadowed, failed, faults>>
      /\ stage' = stage
  BY DEF mapVars, sitemapVars, searchVars
<1>2. Searching' = Searching /\ Unsearched' = Unsearched
  BY <1>1 DEF Searching, Full, Unsearched
<1>3. MapTypeOK' /\ IsFiniteSet(seenFiles') /\ numFound' \in Nat
  BY <1>1 DEF MapInv, MapTypeOK
<1>4. ASSUME NEW L, SearchOK(L) PROVE SearchOK(L)'
  BY <1>1, <1>4 DEF SearchOK, Levels, Reached, Full
<1>. QED BY <1>1, <1>2, <1>3, <1>4 DEF MapInv

LEMMA MapInvariant == Spec => []MapInv
<1>1. Init => MapInv
  BY MapStart
<1>2. MapInv /\ [Next]_vars => MapInv'
  <2>1. [Next]_vars => MapNext \/ UNCHANGED mapVars
    BY DEF Next, vars
  <2>. QED BY <2>1, AskedStep, SitemapSteps, SitemapRead, Seeding, Fetching, FetchFailing,
              Deepening, MapEnding, MapStutter DEF MapNext
<1>. QED BY <1>1, <1>2, PTL DEF Spec

-----------------------------------------------------------------------------
(* The levels of a search are the reference's, with what was discovered     *)
(* before it for what sitemaps list.                                        *)
Linkable == Linked(shadowed, failed)

LEMMA LinkableLevels ==
  /\ Linkable \in [0..MaxDepth -> SUBSET Url]
  /\ Linkable[0] = PagesOf(Seeds, shadowed)
  /\ \A d \in 1..MaxDepth :
       Linkable[d] = Linkable[d - 1] \cup PagesOf(LinkedFrom(Linkable[d - 1] \ failed), shadowed)
BY LinkedLevels DEF Linkable

LEMMA LevelsAreLinkable ==
  ASSUME MapInv, NEW L, Levels(L)
  PROVE  \A k \in 0..depth : L[k] = Linkable[k]
<1>1. depth \in 0..MaxDepth /\ MaxDepth \in Nat
  BY SiteMapAssumption DEF MapInv, MapTypeOK
<1> DEFINE S == {n \in Nat : n <= depth => L[n] = Linkable[n]}
<1>2. 0 \in S
  BY LinkableLevels DEF Levels
<1>3. ASSUME NEW n \in Nat, n \in S PROVE n + 1 \in S
  <2>1. SUFFICES ASSUME n + 1 <= depth PROVE L[n + 1] = Linkable[n + 1]
    OBVIOUS
  <2>2. n + 1 \in 1..depth /\ n + 1 \in 1..MaxDepth /\ (n + 1) - 1 = n /\ L[n] = Linkable[n]
    BY <1>1, <1>3, <2>1
  <2>3. L[n + 1] = L[n] \cup PagesOf(LinkedFrom(L[n] \ failed), shadowed)
    BY <2>2 DEF Levels
  <2>4. Linkable[n + 1] = Linkable[n] \cup PagesOf(LinkedFrom(Linkable[n] \ failed), shadowed)
    BY <2>2, LinkableLevels
  <2>. QED BY <2>2, <2>3, <2>4
<1> HIDE DEF S
<1>4. Nat \subseteq S
  BY <1>2, <1>3, SetInduction
<1>. QED BY <1>1, <1>4 DEF S

(* Deeper levels of the reference contain the others, and nothing more when *)
(* one level adds nothing.                                                  *)
LEMMA DeeperLevels ==
  ASSUME NEW d \in 0..MaxDepth, NEW W, W = Linkable[d]
  PROVE  /\ W \subseteq Linkable[MaxDepth]
         /\ d < MaxDepth => PagesOf(LinkedFrom(W \ failed), shadowed) \subseteq Linkable[MaxDepth]
         /\ PagesOf(LinkedFrom(W \ failed), shadowed) \subseteq W => Linkable[MaxDepth] = W
<1>1. MaxDepth \in Nat /\ d \in Nat /\ d <= MaxDepth
  BY SiteMapAssumption
<1> DEFINE More(X) == PagesOf(LinkedFrom(X \ failed), shadowed)
           S == {n \in Nat : d + n <= MaxDepth =>
                   /\ W \subseteq Linkable[d + n]
                   /\ n > 0 => More(W) \subseteq Linkable[d + n]
                   /\ More(W) \subseteq W => Linkable[d + n] = W}
<1>2. 0 \in S
  BY <1>1
<1>3. ASSUME NEW n \in Nat, n \in S PROVE n + 1 \in S
  <2>1. SUFFICES ASSUME d + (n + 1) <= MaxDepth
                 PROVE  /\ W \subseteq Linkable[d + (n + 1)]
                        /\ More(W) \subseteq Linkable[d + (n + 1)]
                        /\ More(W) \subseteq W => Linkable[d + (n + 1)] = W
    OBVIOUS
  <2>2. d + (n + 1) \in 1..MaxDepth /\ (d + (n + 1)) - 1 = d + n /\ d + n <= MaxDepth
    BY <1>1, <2>1
  <2>3. Linkable[d + (n + 1)] = Linkable[d + n] \cup More(Linkable[d + n])
    BY <2>2, LinkableLevels
  <2>4. /\ W \subseteq Linkable[d + n]
        /\ n > 0 => More(W) \subseteq Linkable[d + n]
        /\ More(W) \subseteq W => Linkable[d + n] = W
    BY <1>3, <2>2
  <2>5. n = 0 => Linkable[d + n] = W
    BY <1>1
  <2> HIDE DEF More
  <2>. QED BY <2>3, <2>4, <2>5
<1> HIDE DEF S
<1>4. Nat \subseteq S
  BY <1>2, <1>3, SetInduction
<1>5. PICK n \in Nat : d + n = MaxDepth /\ (d < MaxDepth => n > 0)
  <2>1. MaxDepth - d \in Nat /\ d + (MaxDepth - d) = MaxDepth
        /\ (d < MaxDepth => MaxDepth - d > 0)
    BY <1>1
  <2>. QED BY <2>1
<1> HIDE DEF More
<1>6. /\ W \subseteq Linkable[d + n]
      /\ n > 0 => More(W) \subseteq Linkable[d + n]
      /\ More(W) \subseteq W => Linkable[d + n] = W
  BY <1>1, <1>4, <1>5 DEF S
<1>. QED BY <1>5, <1>6 DEF More

LevelsOf(W, skip, bad) ==
  /\ W[0] = PagesOf(Seeds, skip)
  /\ \A d \in 1..MaxDepth :
       W[d] = W[d - 1] \cup PagesOf(LinkedFrom(W[d - 1] \ bad), skip)

LEMMA LinkedIs ==
  ASSUME NEW skip, NEW bad
  PROVE  LevelsOf(Linked(skip, bad), skip, bad)
<1>1. PICK W : W = Linked(skip, bad)
  OBVIOUS
<1>2. LevelsOf(W, skip, bad)
  BY <1>1, LinkedLevels DEF LevelsOf
<1>. QED BY <1>1, <1>2

(* Fewer pages to skip and fewer that fail: more are linked.                *)
LEMMA LinkedMore ==
  ASSUME NEW skip, NEW bad, NEW skip2 \in SUBSET skip, NEW bad2 \in SUBSET bad
  PROVE  Linked(skip, bad)[MaxDepth] \subseteq Linked(skip2, bad2)[MaxDepth]
<1>1. PICK W : W = Linked(skip, bad)
  OBVIOUS
<1>2. PICK X : X = Linked(skip2, bad2)
  OBVIOUS
<1>2a. LevelsOf(W, skip, bad) /\ LevelsOf(X, skip2, bad2)
  BY <1>1, <1>2, LinkedIs
<1>3. /\ W[0] = PagesOf(Seeds, skip) /\ X[0] = PagesOf(Seeds, skip2)
      /\ \A d \in 1..MaxDepth : W[d] = W[d - 1] \cup PagesOf(LinkedFrom(W[d - 1] \ bad), skip)
      /\ \A d \in 1..MaxDepth : X[d] = X[d - 1] \cup PagesOf(LinkedFrom(X[d - 1] \ bad2), skip2)
  BY <1>2a DEF LevelsOf
<1>4. MaxDepth \in Nat
  BY SiteMapAssumption
<1> DEFINE S == {n \in Nat : n <= MaxDepth => W[n] \subseteq X[n]}
<1>5. 0 \in S
  BY <1>3 DEF PagesOf
<1>6. ASSUME NEW n \in Nat, n \in S PROVE n + 1 \in S
  <2>1. SUFFICES ASSUME n + 1 <= MaxDepth PROVE W[n + 1] \subseteq X[n + 1]
    OBVIOUS
  <2>2. n + 1 \in 1..MaxDepth /\ (n + 1) - 1 = n /\ W[n] \subseteq X[n]
    BY <1>4, <1>6, <2>1
  <2>3. /\ W[n + 1] = W[n] \cup PagesOf(LinkedFrom(W[n] \ bad), skip)
        /\ X[n + 1] = X[n] \cup PagesOf(LinkedFrom(X[n] \ bad2), skip2)
    BY <1>3, <2>2
  <2>4. LinkedFrom(W[n] \ bad) \subseteq LinkedFrom(X[n] \ bad2)
    BY <2>2 DEF LinkedFrom
  <2>. QED BY <2>2, <2>3, <2>4 DEF PagesOf
<1> HIDE DEF S
<1>7. MaxDepth \in S
  BY <1>4, <1>5, <1>6, SetInduction
<1>. QED BY <1>1, <1>2, <1>4, <1>7 DEF S

-----------------------------------------------------------------------------
(* What was collected from the sitemaps is what they list.                  *)

LEMMA QueueSets ==
  /\ \A q \in Seq(File) : q # <<>> => ToSet(q) = {Head(q)} \cup ToSet(Tail(q))
  /\ \A q, r \in Seq(File) : ToSet(q \o r) = ToSet(q) \cup ToSet(r)
  /\ \A f \in File : ToSet(<<f>>) = {f}
  /\ ToSet(<<>>) = {}
<1>1. ASSUME NEW q \in Seq(File), q # <<>>
      PROVE  ToSet(q) = {Head(q)} \cup ToSet(Tail(q))
  <2>1. /\ Len(q) \in Nat /\ Len(q) >= 1 /\ DOMAIN q = 1..Len(q) /\ Head(q) = q[1]
        /\ Tail(q) \in Seq(File) /\ Len(Tail(q)) = Len(q) - 1
        /\ DOMAIN Tail(q) = 1..(Len(q) - 1)
        /\ \A k \in 1..(Len(q) - 1) : Tail(q)[k] = q[k + 1]
    BY <1>1
  <2>2. ASSUME NEW k \in 1..Len(q) PROVE q[k] \in {Head(q)} \cup ToSet(Tail(q))
    <3>1. CASE k = 1
      BY <2>1, <3>1
    <3>2. CASE k # 1
      <4>1. k - 1 \in 1..(Len(q) - 1) /\ (k - 1) + 1 = k
        BY <2>1, <3>2
      <4>2. Tail(q)[k - 1] = q[k]
        BY <2>1, <4>1
      <4>. QED BY <2>1, <4>1, <4>2 DEF ToSet
    <3>. QED BY <3>1, <3>2
  <2>3. ASSUME NEW k \in 1..(Len(q) - 1) PROVE Tail(q)[k] \in ToSet(q)
    <3>1. k + 1 \in 1..Len(q)
      BY <2>1
    <3>. QED BY <2>1, <3>1 DEF ToSet
  <2>4. Head(q) \in ToSet(q)
    BY <2>1 DEF ToSet
  <2>5. ToSet(q) \subseteq {Head(q)} \cup ToSet(Tail(q))
    BY <2>1, <2>2 DEF ToSet
  <2>6. ToSet(Tail(q)) \subseteq ToSet(q)
    <3>1. ToSet(Tail(q)) = {Tail(q)[k] : k \in 1..(Len(q) - 1)}
      BY <2>1 DEF ToSet
    <3>. QED BY <2>3, <3>1
  <2>. QED BY <2>4, <2>5, <2>6
<1>2. ASSUME NEW q \in Seq(File), NEW r \in Seq(File)
      PROVE  ToSet(q \o r) = ToSet(q) \cup ToSet(r)
  <2>1. PICK s : s = q \o r
    OBVIOUS
  <2>2. /\ s \in Seq(File) /\ Len(s) = Len(q) + Len(r)
        /\ DOMAIN s = 1..(Len(q) + Len(r)) /\ DOMAIN q = 1..Len(q) /\ DOMAIN r = 1..Len(r)
        /\ Len(q) \in Nat /\ Len(r) \in Nat
        /\ \A k \in 1..(Len(q) + Len(r)) :
             s[k] = IF k <= Len(q) THEN q[k] ELSE r[k - Len(q)]
    BY <2>1, ConcatProperties
  <2>3. ASSUME NEW k \in 1..(Len(q) + Len(r)) PROVE s[k] \in ToSet(q) \cup ToSet(r)
    <3>1. CASE k <= Len(q)
      BY <2>2, <3>1 DEF ToSet
    <3>2. CASE k > Len(q)
      <4>1. k - Len(q) \in 1..Len(r) /\ s[k] = r[k - Len(q)]
        BY <2>2, <3>2
      <4>. QED BY <2>2, <4>1 DEF ToSet
    <3>. QED BY <2>2, <3>1, <3>2
  <2>4. ASSUME NEW k \in 1..Len(q) PROVE q[k] \in ToSet(s)
    BY <2>2 DEF ToSet
  <2>5. ASSUME NEW k \in 1..Len(r) PROVE r[k] \in ToSet(s)
    <3>1. k + Len(q) \in 1..(Len(q) + Len(r)) /\ s[k + Len(q)] = r[k]
      BY <2>2
    <3>. QED BY <2>2, <3>1 DEF ToSet
  <2>6. ToSet(s) \subseteq ToSet(q) \cup ToSet(r)
    <3>1. ToSet(s) = {s[k] : k \in 1..(Len(q) + Len(r))}
      BY <2>2 DEF ToSet
    <3>. QED BY <2>3, <3>1
  <2>7. ToSet(q) \subseteq ToSet(s) /\ ToSet(r) \subseteq ToSet(s)
    <3>1. ToSet(q) = {q[k] : k \in 1..Len(q)} /\ ToSet(r) = {r[k] : k \in 1..Len(r)}
      BY <2>2 DEF ToSet
    <3>. QED BY <2>4, <2>5, <3>1
  <2>. QED BY <2>1, <2>6, <2>7
<1>3. \A f \in File : ToSet(<<f>>) = {f}
  BY DEF ToSet
<1>4. ToSet(<<>>) = {}
  BY DEF ToSet
<1>. QED BY <1>1, <1>2, <1>3, <1>4

(* The files ahead and behind in the search of asking's sitemaps, and what  *)
(* the ones that were read list.                                            *)
Met == seenFiles \cup ToSet(queue)
ReadBy == {f \in seenFiles : Readable(f, asking)}

Reading ==
  /\ asking \notin origins
  /\ RootOf[asking] \in Met
  /\ \A f \in ReadBy : ToSet(Indexed[f]) \subseteq Met
  /\ \A S \in SUBSET File :
       /\ RootOf[asking] \in S
       /\ \A f \in ReadBy \cap S : ToSet(Indexed[f]) \subseteq S
       => Met \subseteq S
  /\ found \subseteq UNION {Listed[f] : f \in ReadBy}
  /\ numFound < MaxUrls => UNION {Listed[f] : f \in ReadBy} \subseteq found

(* The origins whose search is over. *)
Asked == Origin \ (origins \cup (IF stage = "sitemap" THEN {asking} ELSE {}))

Collected(S) ==
  /\ S \subseteq UNION {ListedBy(o) : o \in Asked}
  /\ ~Full => \A o \in Asked \ partial : ListedBy(o) \subseteq S

ListedInv ==
  /\ \A o \in Origin, f \in File : ~Readable(f, o) =>
       o \notin origins /\ (stage = "sitemap" /\ o = asking => f \in seenFiles)
  /\ stage = "sitemap" => Reading
  /\ stage \in {"origin", "sitemap", "seeds"} => Collected(discovered)
  /\ stage \in {"page", "done"} => Collected(shadowed)
  /\ stage \in {"seeds", "page", "done"} => (~Full => origins = {})

(* Which sitemaps an origin has does not depend on the others' failures.    *)
LEMMA ListedSame ==
  ASSUME NEW o, \A f \in File : Readable(f, o)' <=> Readable(f, o)
  PROVE  ListedBy(o)' = ListedBy(o)
<1>1. \A S \in SUBSET File : Follows(S, o)' <=> Follows(S, o)
  BY DEF Follows
<1>2. Sitemaps(o)' = Sitemaps(o)
  BY <1>1 DEF Sitemaps
<1>3. Sitemaps(o) \subseteq File
  BY DEF Sitemaps
<1>4. {g \in Sitemaps(o) : Readable(g, o)}' = {g \in Sitemaps(o) : Readable(g, o)}
  BY <1>2, <1>3
<1>. QED BY <1>4 DEF ListedBy

LEMMA AllListedSame ==
  ASSUME broken' = broken
  PROVE  \A o : ListedBy(o)' = ListedBy(o)
BY ListedSame DEF Readable

LEMMA CollectedSame ==
  ASSUME Collected(discovered), UNCHANGED <<discovered, broken, partial>>, Asked' = Asked
  PROVE  Collected(discovered)'
<1>1. \A o : ListedBy(o)' = ListedBy(o)
  BY AllListedSame
<1>2. Full' = Full
  BY DEF Full
<1>. QED BY <1>1, <1>2 DEF Collected

(* The search of an origin begins at its root.                              *)
LEMMA ReadingBegins ==
  ASSUME MapInv, ListedInv, BeginOrigin
  PROVE  ListedInv'
<1>1. PICK o \in origins : origins' = origins \ {o} /\ asking' = o /\ queue' = <<RootOf[o]>>
  BY DEF BeginOrigin
<1>2. /\ stage = "origin" /\ stage' = "sitemap" /\ seenFiles' = {} /\ found' = {}
      /\ numFound' = 0 /\ UNCHANGED <<discovered, broken, partial>>
  BY DEF BeginOrigin, excuses
<1>3. o \in Origin /\ RootOf[o] \in File /\ origins \subseteq Origin
  BY <1>1, SiteMapAssumption DEF MapInv, MapTypeOK
<1>4. Met' = {RootOf[o]} /\ ReadBy' = {}
  BY <1>1, <1>2, <1>3, QueueSets DEF Met, ReadBy
<1>5. Reading'
  <2>1. asking' \notin origins' /\ RootOf[asking'] \in Met'
    BY <1>1, <1>4
  <2>2. UNION {Listed[f] : f \in ReadBy'} = {}
    BY <1>4
  <2>. QED BY <1>1, <1>2, <1>4, <2>1, <2>2 DEF Reading
<1>6. Asked' = Asked
  BY <1>1, <1>2 DEF Asked
<1>7. Collected(discovered)'
  BY <1>2, <1>6, CollectedSame DEF ListedInv
<1>8. \A q \in Origin, f \in File : ~Readable(f, q)' =>
        q \notin origins' /\ (stage' = "sitemap" /\ q = asking' => f \in seenFiles')
  BY <1>1, <1>2 DEF ListedInv, Readable
<1>. QED BY <1>2, <1>5, <1>7, <1>8 DEF ListedInv

(* One more sitemap, read before, read now or broken.                       *)
LEMMA ReadingGoesOn ==
  ASSUME MapInv, ListedInv, ReadSitemap \/ SitemapFails
  PROVE  ListedInv'
<1>1. PICK f : f = Head(queue)
  OBVIOUS
<1>2. /\ stage = "sitemap" /\ MoreSitemaps /\ seenFiles' = seenFiles \cup {f}
      /\ UNCHANGED <<stage, origins, asking, discovered, partial>>
  BY <1>1 DEF ReadSitemap, SitemapFails, excuses
<1>3. /\ queue \in Seq(File) /\ queue # <<>> /\ f \in File /\ Tail(queue) \in Seq(File)
      /\ Indexed[f] \in Seq(File) /\ seenFiles \subseteq File /\ asking \in Origin
      /\ Listed[f] \subseteq Url /\ numFound < MaxUrls /\ numFound \in Nat /\ MaxUrls \in Nat
  <2>1. queue \in Seq(File) /\ queue # <<>> /\ seenFiles \subseteq File /\ asking \in Origin
        /\ numFound < MaxUrls /\ numFound \in Nat
    BY <1>2 DEF MapInv, MapTypeOK, AskedTypeOK, MoreSitemaps
  <2>2. f \in File /\ Tail(queue) \in Seq(File)
    BY <1>1, <2>1, HeadTailProperties
  <2>. QED BY <2>1, <2>2, SiteMapAssumption
<1>4. ToSet(queue) = {f} \cup ToSet(Tail(queue))
  BY <1>1, <1>3, QueueSets
<1>5. Reading /\ Collected(discovered)
  BY <1>2 DEF ListedInv
<1>6. CASE ReadSitemap /\ f \in seenFiles
  <2>1. queue' = Tail(queue) /\ UNCHANGED <<found, numFound, broken>> /\ seenFiles' = seenFiles
    BY <1>1, <1>2, <1>6 DEF ReadSitemap, excuses
  <2>2. Met' = Met /\ ReadBy' = ReadBy
    BY <1>2, <1>4, <1>6, <2>1 DEF Met, ReadBy, Readable
  <2>3. Reading'
    BY <1>2, <1>5, <2>1, <2>2 DEF Reading
  <2>4. Collected(discovered)'
    <3>1. Asked' = Asked
      BY <1>2 DEF Asked
    <3>. QED BY <1>2, <1>5, <2>1, <3>1, CollectedSame
  <2>. QED BY <1>2, <2>1, <2>3, <2>4 DEF ListedInv, Readable
<1>7. CASE ReadSitemap /\ f \notin seenFiles
  <2>1. /\ queue' = Tail(queue) \o Indexed[f] /\ broken' = broken
        /\ \E us \in Some(Listed[f], MaxUrls - numFound) :
             found' = found \cup us /\ numFound' = numFound + Cardinality(us)
    BY <1>1, <1>7 DEF ReadSitemap, excuses
  <2>2. Readable(f, asking)
    BY <1>2, <1>3, <1>7 DEF ListedInv
  <2>3. ReadBy' = ReadBy \cup {f}
    BY <1>2, <2>1, <2>2 DEF ReadBy, Readable
  <2>4. Met' = Met \cup ToSet(Indexed[f])
    <3>1. ToSet(queue') = ToSet(Tail(queue)) \cup ToSet(Indexed[f])
      BY <1>3, <2>1, QueueSets
    <3>. QED BY <1>2, <1>4, <3>1 DEF Met
  <2>5. PICK us \in Some(Listed[f], MaxUrls - numFound) :
          found' = found \cup us /\ numFound' = numFound + Cardinality(us)
    BY <2>1
  <2>6. /\ us \subseteq Listed[f] /\ Cardinality(us) \in Nat
        /\ us # Listed[f] => Cardinality(us) = MaxUrls - numFound
    <3>1. IsFiniteSet(Listed[f]) /\ MaxUrls - numFound \in Nat
      BY <1>3, FS_Subset, SiteMapAssumption
    <3>. QED BY <3>1, <2>5, SomeOf
  <2>7. UNION {Listed[g] : g \in ReadBy'} = Listed[f] \cup UNION {Listed[g] : g \in ReadBy}
    BY <2>3
  <2>8. /\ found' \subseteq UNION {Listed[g] : g \in ReadBy'}
        /\ numFound' < MaxUrls => UNION {Listed[g] : g \in ReadBy'} \subseteq found'
    <3>1. found \subseteq UNION {Listed[g] : g \in ReadBy}
          /\ UNION {Listed[g] : g \in ReadBy} \subseteq found
      BY <1>3, <1>5 DEF Reading
    <3>2. numFound' < MaxUrls => us = Listed[f]
      BY <1>3, <2>5, <2>6
    <3>. QED BY <2>5, <2>6, <2>7, <3>1, <3>2
  <2>9. ASSUME NEW S \in SUBSET File, RootOf[asking] \in S,
               \A g \in ReadBy' \cap S : ToSet(Indexed[g]) \subseteq S
        PROVE  Met' \subseteq S
    <3>1. Met \subseteq S
      BY <1>5, <2>3, <2>9 DEF Reading
    <3>2. f \in S
      BY <1>4, <3>1 DEF Met
    <3>. QED BY <2>3, <2>4, <2>9, <3>1, <3>2
  <2>10. Reading'
    <3>1. asking' \notin origins' /\ RootOf[asking'] \in Met'
      BY <1>2, <1>5, <2>4 DEF Reading
    <3>2. \A g \in ReadBy' : ToSet(Indexed[g]) \subseteq Met'
      BY <1>5, <2>3, <2>4 DEF Reading
    <3>3. asking' = asking
      BY <1>2
    <3>. QED BY <2>8, <2>9, <3>1, <3>2, <3>3 DEF Reading
  <2>11. Collected(discovered)'
    <3>1. Asked' = Asked
      BY <1>2 DEF Asked
    <3>. QED BY <1>2, <1>5, <2>1, <3>1, CollectedSame
  <2>. QED BY <1>2, <2>1, <2>10, <2>11 DEF ListedInv, Readable
<1>8. CASE SitemapFails
  <2>1. /\ f \notin seenFiles /\ queue' = Tail(queue) /\ UNCHANGED <<found, numFound>>
        /\ broken' = broken \cup {<<asking, f>>}
    BY <1>1, <1>8 DEF SitemapFails
  <2>2. \A g, o : Readable(g, o)' <=> Readable(g, o) /\ ~(o = asking /\ g = f)
    BY <2>1 DEF Readable
  <2>3. ReadBy' = ReadBy
    BY <1>2, <2>1, <2>2 DEF ReadBy
  <2>4. Met' = Met
    BY <1>2, <1>4, <2>1 DEF Met
  <2>5. Reading'
    BY <1>2, <1>5, <2>1, <2>3, <2>4 DEF Reading
  <2>6. Asked' = Asked /\ asking \notin Asked
    BY <1>2 DEF Asked
  <2>7. \A o \in Asked : ListedBy(o)' = ListedBy(o)
    BY <2>2, <2>6, ListedSame
  <2>8. Collected(discovered)'
    <3>1. Full' = Full
      BY <1>2 DEF Full
    <3>. QED BY <1>2, <1>5, <2>6, <2>7, <3>1 DEF Collected
  <2>9. \A o \in Origin, g \in File : ~Readable(g, o)' =>
          o \notin origins' /\ (stage' = "sitemap" /\ o = asking' => g \in seenFiles')
    BY <1>2, <1>5, <2>2 DEF ListedInv, Reading
  <2>. QED BY <1>2, <2>5, <2>8, <2>9 DEF ListedInv
<1>. QED BY <1>6, <1>7, <1>8

(* When nothing cut the search short, what was found is what is listed.     *)
LEMMA FoundIsListed ==
  ASSUME MapInv, ListedInv, stage = "sitemap"
  PROVE  /\ found \cap Kept \subseteq ListedBy(asking)
         /\ ~MoreSitemaps /\ ~CutShort => ListedBy(asking) = found \cap Kept
<1>1. Reading /\ seenFiles \subseteq File /\ queue \in Seq(File) /\ asking \in Origin
      /\ numFound \in Nat /\ MaxUrls \in Nat /\ MaxSitemaps \in Nat
      /\ RootOf[asking] \in File /\ IsFiniteSet(seenFiles)
  BY SiteMapAssumption DEF ListedInv, MapInv, MapTypeOK, AskedTypeOK
<1>2. ASSUME NEW S \in SUBSET File, Follows(S, asking) PROVE Met \subseteq S
  <2>1. RootOf[asking] \in S /\ \A f \in ReadBy \cap S : ToSet(Indexed[f]) \subseteq S
    BY <1>2 DEF Follows, ReadBy
  <2>. QED BY <1>1, <2>1 DEF Reading
<1>3. seenFiles \subseteq Sitemaps(asking)
  BY <1>1, <1>2 DEF Met, Sitemaps
<1>4. ReadBy \subseteq {g \in Sitemaps(asking) : Readable(g, asking)}
  BY <1>3 DEF ReadBy
<1>5. found \cap Kept \subseteq ListedBy(asking)
  BY <1>1, <1>4 DEF Reading, ListedBy
<1>6. ASSUME ~MoreSitemaps, ~CutShort PROVE ListedBy(asking) \subseteq found \cap Kept
  <2>1. numFound < MaxUrls
    BY <1>1, <1>6 DEF CutShort
  <2>2. Cardinality(seenFiles) \in Nat
    BY <1>1, FS_CardinalityType
  <2>3. queue = <<>>
    BY <1>1, <1>6, <2>1, <2>2 DEF MoreSitemaps, CutShort
  <2>4. Met = seenFiles
    BY <2>3, QueueSets DEF Met
  <2>5. Follows(seenFiles, asking)
    BY <1>1, <2>4 DEF Reading, Follows, ReadBy
  <2>6. Sitemaps(asking) \subseteq seenFiles
    BY <1>1, <2>5 DEF Sitemaps
  <2>7. {g \in Sitemaps(asking) : Readable(g, asking)} \subseteq ReadBy
    BY <2>6 DEF ReadBy
  <2>8. UNION {Listed[f] : f \in ReadBy} \subseteq found
    BY <1>1, <2>1 DEF Reading
  <2>. QED BY <2>7, <2>8 DEF ListedBy
<1>. QED BY <1>5, <1>6

(* The search of an origin is over.                                         *)
LEMMA ReadingEnds ==
  ASSUME MapInv, ListedInv, TakeSitemap \/ SitemapRaises
  PROVE  ListedInv'
<1>1. /\ stage = "sitemap" /\ stage' = "origin" /\ UNCHANGED <<origins, asking, broken>>
      /\ partial \subseteq partial' /\ partial' \subseteq partial \cup {asking}
  BY DEF TakeSitemap, SitemapRaises, sitemapVars
<1>2. Reading /\ Collected(discovered) /\ asking \in Origin
  BY <1>1 DEF ListedInv, MapInv, MapTypeOK, AskedTypeOK
<1>3. Asked' = Asked \cup {asking}
  BY <1>1, <1>2 DEF Asked, Reading
<1>4. \A o : ListedBy(o)' = ListedBy(o)
  BY <1>1, AllListedSame
<1>5. PICK us : /\ discovered' = discovered \cup us /\ us \subseteq ListedBy(asking)
                /\ ~Full' => ~Full
                /\ ~Full' /\ asking \notin partial' => ListedBy(asking) \subseteq discovered'
  <2>1. CASE TakeSitemap
    <3>1. PICK us \in Accepted(found) : discovered' = discovered \cup us
      BY <2>1 DEF TakeSitemap
    <3>2. Adds(us, found)
      BY <3>1, Accepting DEF MapInv
    <3>3. asking \notin partial' => ~MoreSitemaps /\ ~CutShort
      BY <2>1 DEF TakeSitemap
    <3>4. /\ found \cap Kept \subseteq ListedBy(asking)
          /\ ~MoreSitemaps /\ ~CutShort => ListedBy(asking) = found \cap Kept
      BY <1>1, FoundIsListed
    <3>. QED BY <3>1, <3>2, <3>3, <3>4 DEF Adds
  <2>2. CASE SitemapRaises
    <3>1. discovered' = discovered /\ asking \in partial' /\ Full' = Full
      BY <2>2 DEF SitemapRaises, Full
    <3>2. PICK none : none = {}
      OBVIOUS
    <3>3. /\ discovered' = discovered \cup none /\ none \subseteq ListedBy(asking)
          /\ ~Full' => ~Full
          /\ ~Full' /\ asking \notin partial' => ListedBy(asking) \subseteq discovered'
      BY <3>1, <3>2
    <3>. QED BY <3>3
  <2>. QED BY <2>1, <2>2
<1>6. Collected(discovered)'
  <2>1. discovered' \subseteq UNION {ListedBy(o)' : o \in Asked'}
    BY <1>2, <1>3, <1>4, <1>5 DEF Collected
  <2>2. ASSUME ~Full', NEW o \in Asked' \ partial' PROVE ListedBy(o)' \subseteq discovered'
    <3>1. CASE o = asking
      BY <1>4, <1>5, <2>2, <3>1
    <3>2. CASE o # asking
      BY <1>1, <1>2, <1>3, <1>4, <1>5, <2>2, <3>2 DEF Collected
    <3>. QED BY <3>1, <3>2
  <2>. QED BY <2>1, <2>2 DEF Collected
<1>7. \A o \in Origin, f \in File : ~Readable(f, o)' => o \notin origins'
  BY <1>1 DEF ListedInv, Readable
<1>. QED BY <1>1, <1>6, <1>7 DEF ListedInv

(* The steps that read no sitemap.                                          *)
LEMMA ListedKeeps ==
  ASSUME MapInv, ListedInv,
         \/ OriginsDone \/ TakeSeeds \/ FetchPage \/ FetchFails \/ NextLevel \/ MapDone
         \/ UNCHANGED mapVars
  PROVE  ListedInv'
<1>1. UNCHANGED <<origins, asking, queue, seenFiles, found, numFound, broken, partial>>
  BY DEF OriginsDone, TakeSeeds, FetchPage, FetchFails, NextLevel, MapDone, mapVars,
         sitemapVars, excuses
<1>2. ~Full' => ~Full
  <2>1. CASE \/ OriginsDone \/ FetchFails \/ NextLevel \/ MapDone \/ UNCHANGED mapVars
    <3>1. discovered' = discovered
      BY <2>1 DEF OriginsDone, FetchFails, NextLevel, MapDone, mapVars
    <3>. QED BY <3>1 DEF Full
  <2>2. CASE TakeSeeds
    <3>1. PICK us \in Accepted(Seeds) : discovered' = discovered \cup us
      BY <2>2 DEF TakeSeeds
    <3>. QED BY <3>1, Accepting DEF Adds, MapInv
  <2>3. CASE FetchPage
    <3>1. PICK u \in frontier : \E us \in Accepted(Links(u)) : discovered' = discovered \cup us
      BY <2>3 DEF FetchPage
    <3>2. PICK us \in Accepted(Links(u)) : discovered' = discovered \cup us
      BY <3>1
    <3>. QED BY <3>2, Accepting DEF Adds, MapInv
  <2>. QED BY <2>1, <2>2, <2>3
<1>3. \A o : ListedBy(o)' = ListedBy(o)
  BY <1>1, AllListedSame
<1>4. Readable(1, 1) \in BOOLEAN /\ \A f, o : Readable(f, o)' <=> Readable(f, o)
  BY <1>1 DEF Readable
<1>5. CASE stage' = stage /\ stage = "sitemap"
  <2>1. UNCHANGED mapVars
    BY <1>5 DEF OriginsDone, TakeSeeds, FetchPage, FetchFails, NextLevel, MapDone
  <2>2. discovered' = discovered /\ Asked' = Asked /\ Met' = Met /\ ReadBy' = ReadBy
    BY <1>1, <1>5, <2>1 DEF mapVars, Asked, Met, ReadBy, Readable
  <2>3. Reading'
    BY <1>1, <1>5, <2>2 DEF ListedInv, Reading
  <2>4. Collected(discovered)'
    BY <1>1, <1>2, <1>3, <1>5, <2>2 DEF ListedInv, Collected
  <2>. QED BY <1>1, <1>4, <1>5, <2>3, <2>4 DEF ListedInv
<1>6. CASE stage \in {"idle", "origin", "seeds"} /\ stage' \in {"idle", "origin", "seeds"}
  <2>1. discovered' = discovered /\ Asked' = Asked
    BY <1>1, <1>6 DEF OriginsDone, TakeSeeds, FetchPage, FetchFails, NextLevel, MapDone,
                      mapVars, Asked
  <2>2. stage' = "idle" => stage = "idle"
    BY <1>6 DEF OriginsDone, TakeSeeds, FetchPage, FetchFails, NextLevel, MapDone, mapVars
  <2>3. stage = "idle" => stage' = "idle"
    BY <1>6 DEF OriginsDone, TakeSeeds, FetchPage, FetchFails, NextLevel, MapDone, mapVars
  <2>4. stage' # "idle" => Collected(discovered)'
    BY <1>1, <1>2, <1>3, <1>6, <2>1, <2>3 DEF ListedInv, Collected
  <2>5. stage' = "seeds" => (~Full' => origins' = {})
    BY <1>1, <1>2, <1>6 DEF ListedInv, OriginsDone, TakeSeeds, FetchPage, FetchFails,
                            NextLevel, MapDone, mapVars
  <2>. QED BY <1>1, <1>4, <1>6, <2>4, <2>5 DEF ListedInv
<1>7. CASE stage' \in {"page", "done"}
  <2>1. Asked' = Asked /\ (~Full' => origins' = {}) /\ Collected(shadowed)'
    <3>1. CASE TakeSeeds
      <4>1. stage = "seeds" /\ shadowed' = discovered
        BY <3>1 DEF TakeSeeds
      <4>2. Asked' = Asked
        BY <1>1, <1>7, <4>1 DEF Asked
      <4>. QED BY <1>1, <1>2, <1>3, <4>1, <4>2 DEF ListedInv, Collected
    <3>2. CASE ~TakeSeeds
      <4>1. stage \in {"page", "done"} /\ shadowed' = shadowed
        BY <1>7, <3>2 DEF OriginsDone, FetchPage, FetchFails, NextLevel, MapDone, mapVars,
                          searchVars
      <4>2. Asked' = Asked
        BY <1>1, <1>7, <4>1 DEF Asked
      <4>. QED BY <1>1, <1>2, <1>3, <4>1, <4>2 DEF ListedInv, Collected
    <3>. QED BY <3>1, <3>2
  <2>. QED BY <1>1, <1>4, <1>7, <2>1 DEF ListedInv
<1>8. \/ stage' = stage /\ stage = "sitemap"
      \/ stage' \in {"page", "done"}
      \/ stage \in {"idle", "origin", "seeds"} /\ stage' \in {"idle", "origin", "seeds"}
  BY DEF OriginsDone, TakeSeeds, FetchPage, FetchFails, NextLevel, MapDone, mapVars,
         MapInv, MapTypeOK
<1>. QED BY <1>5, <1>6, <1>7, <1>8

LEMMA ListedStart ==
  ASSUME Init
  PROVE  ListedInv
<1>1. /\ stage \in {"idle", "origin"} /\ broken = {} /\ discovered = {} /\ origins = Origin
  BY DEF Init, MapInit, NoMap, MapLocals
<1>2. Asked = {}
  BY <1>1 DEF Asked
<1>. QED BY <1>1, <1>2 DEF ListedInv, Collected, Readable

LEMMA ListedInvariant == Spec => []ListedInv
<1>1. Init => ListedInv
  BY ListedStart
<1>2. MapInv /\ ListedInv /\ [Next]_vars => ListedInv'
  <2>1. [Next]_vars => MapNext \/ UNCHANGED mapVars
    BY DEF Next, vars
  <2>. QED BY <2>1, ReadingBegins, ReadingGoesOn, ReadingEnds, ListedKeeps DEF MapNext
<1>. QED BY <1>1, <1>2, MapInvariant, PTL DEF Spec

LEMMA DoneIsExact ==
  ASSUME MapInv, ListedInv
  PROVE  Exact
<1>1. CASE stage # "done"
  BY <1>1 DEF MapInv, Exact
<1>2. CASE stage = "done"
  <2>1. PICK L : SearchOK(L)
    BY <1>2 DEF MapInv
  <2>2. depth \in 0..MaxDepth /\ MaxDepth \in Nat /\ depth \in 0..depth /\ ~Searching
    BY <1>2, SiteMapAssumption DEF MapInv, MapTypeOK
  <2>3. PICK W : W = L[depth] /\ W = Linkable[depth]
    BY <2>1, <2>2, LevelsAreLinkable DEF SearchOK
  <2>4. PICK more : more = PagesOf(LinkedFrom(W \ failed), shadowed)
    OBVIOUS
  <2>5. PICK all : all = Linkable[MaxDepth]
    OBVIOUS
  <2>6. /\ W \subseteq all /\ (depth < MaxDepth => more \subseteq all)
        /\ more \subseteq W => all = W
    BY <2>2, <2>3, <2>4, <2>5, DeeperLevels
  <2>7. Reached(W) \subseteq more /\ (frontier = {} => Reached(W) = more)
    <3>1. frontier = {} => failed \cup frontier = failed
      OBVIOUS
    <3>. QED BY <2>4, <3>1 DEF Reached, PagesOf, LinkedFrom
  <2>8. /\ next \subseteq Reached(W) /\ discovered \subseteq shadowed \cup W \cup next
        /\ depth = MaxDepth => next = {}
        /\ ~Full => W \subseteq discovered /\ Reached(W) \subseteq W \cup next
        /\ shadowed \subseteq discovered
    BY <2>1, <2>3 DEF SearchOK, MapInv, MapTypeOK
  <2>9. discovered \subseteq shadowed \cup all
    BY <2>2, <2>6, <2>7, <2>8
  <2>10. ASSUME ~Full PROVE all \subseteq discovered
    <3>1. CASE depth = MaxDepth
      BY <2>3, <2>5, <2>8, <2>10, <3>1
    <3>2. CASE frontier \cup next = {}
      <4>1. more \subseteq W
        BY <2>7, <2>8, <2>10, <3>2
      <4>. QED BY <2>6, <2>8, <2>10, <4>1
    <3>. QED BY <2>2, <2>10, <3>1, <3>2 DEF Searching
  <2>11. /\ Asked \subseteq Origin /\ shadowed \subseteq UNION {ListedBy(o) : o \in Asked}
         /\ ~Full => Asked = Origin
         /\ ~Full => \A o \in Asked \ partial : ListedBy(o) \subseteq shadowed
    BY <1>2 DEF ListedInv, Collected, Asked
  <2>12. shadowed \subseteq InSitemaps
    BY <2>11 DEF InSitemaps
  <2>13. all \subseteq Within[MaxDepth]
    BY <2>5, LinkedMore DEF Linkable, Within
  <2>14. Unlisted[MaxDepth] \subseteq all
    BY <2>5, <2>12, LinkedMore DEF Linkable, Unlisted
  <2>15. discovered \subseteq InSitemaps \cup Within[MaxDepth]
    BY <2>9, <2>12, <2>13
  <2>16. ASSUME ~Full
         PROVE  /\ \A o \in Origin \ partial : ListedBy(o) \subseteq discovered
                /\ Unlisted[MaxDepth] \subseteq discovered
    BY <2>8, <2>10, <2>11, <2>14, <2>16
  <2>. QED BY <2>15, <2>16 DEF Exact, MapInv
<1>. QED BY <1>1, <1>2

(* What map_site returns is what the sitemaps list and what lies within     *)
(* max_depth links of the seeds, for every site (mapper.py:96-168).         *)
THEOREM MapIsExact == Spec => []Exact
BY MapInvariant, ListedInvariant, DoneIsExact, PTL

-----------------------------------------------------------------------------
(* Sums over blocks. *)

LEMMA PrefixExists ==
  ASSUME NEW N \in Nat, NEW w \in [1..N -> Nat]
  PROVE  \E g \in [1..(N + 1) -> Nat] : g[1] = 0 /\ \A k \in 1..N : g[k + 1] = g[k] + w[k] + 2
<1> DEFINE prior == [k \in 1..N |-> k - 1]
           step == [k \in 1..N |-> [v \in Nat |-> v + w[k] + 2]]
<1>1. Earlier(prior, N)
  BY DEF Earlier
<1>2. step \in [1..N -> [Nat -> Nat]]
  OBVIOUS
<1>3. PICK f \in [0..N -> Nat] : Recurs(f, N, 0, prior, step)
  <2> HIDE DEF prior, step
  <2>. QED BY <1>1, <1>2, Recursion
<1>4. ASSUME NEW k \in 1..N PROVE f[k] = f[k - 1] + w[k] + 2
  <2>1. prior[k] = k - 1 /\ k - 1 \in 0..N /\ f[k - 1] \in Nat
    OBVIOUS
  <2>. QED BY <1>3, <2>1 DEF Recurs
<1>5. f[0] = 0
  BY <1>3 DEF Recurs
<1> DEFINE g == [k \in 1..(N + 1) |-> f[k - 1]]
<1>6. g \in [1..(N + 1) -> Nat] /\ g[1] = 0
  BY <1>5
<1>7. \A k \in 1..N : g[k + 1] = g[k] + w[k] + 2
  BY <1>4
<1>. QED BY <1>6, <1>7

LEMMA OffsetSums ==
  ASSUME doc \in Seq(Block)
  PROVE  /\ Offset \in [1..(Len(doc) + 1) -> Nat] /\ Offset[1] = 0
         /\ \A k \in 1..Len(doc) : Offset[k + 1] = Offset[k] + doc[k].bytes + 2
<1> DEFINE N == Len(doc)
           Is(f) == f = [k \in 1..(N + 1) |-> IF k = 1 THEN 0 ELSE f[k - 1] + doc[k - 1].bytes + 2]
           w == [k \in 1..N |-> doc[k].bytes]
<1>1. N \in Nat /\ w \in [1..N -> Nat] /\ \A k \in 1..N : w[k] = doc[k].bytes
  BY ChunkerAssumption
<1>2. PICK g \in [1..(N + 1) -> Nat] : g[1] = 0 /\ \A k \in 1..N : g[k + 1] = g[k] + w[k] + 2
  <2> HIDE DEF N, w
  <2>. QED BY <1>1, PrefixExists
<1> HIDE DEF w
<1>3. Is(g)
  <2>1. ASSUME NEW k \in 1..(N + 1)
        PROVE  g[k] = IF k = 1 THEN 0 ELSE g[k - 1] + doc[k - 1].bytes + 2
    <3>1. CASE k = 1
      BY <1>2, <3>1
    <3>2. CASE k # 1
      <4>1. k - 1 \in 1..N /\ (k - 1) + 1 = k
        BY <1>1, <3>2
      <4>. QED BY <1>1, <1>2, <3>2, <4>1
    <3>. QED BY <3>1, <3>2
  <2>. QED BY <2>1
<1>4. Is(Offset)
  <2>1. Offset = CHOOSE f : Is(f)
    BY DEF Offset
  <2> HIDE DEF Is
  <2>. QED BY <1>3, <2>1
<1>5. Offset = [k \in 1..(N + 1) |-> IF k = 1 THEN 0 ELSE Offset[k - 1] + doc[k - 1].bytes + 2]
  BY <1>4
<1>6. Offset[1] = 0
  BY <1>1, <1>5
<1>7. ASSUME NEW k \in 1..N PROVE Offset[k + 1] = Offset[k] + doc[k].bytes + 2
  <2>1. k + 1 \in 1..(N + 1) /\ k + 1 # 1 /\ (k + 1) - 1 = k
    BY <1>1
  <2>. QED BY <1>5, <2>1
<1> HIDE DEF N
<1>8. \A k \in 1..(N + 1) : Offset[k] = g[k]
  <2> DEFINE S == {n \in Nat : n + 1 \in 1..(N + 1) => Offset[n + 1] = g[n + 1]}
  <2>1. 0 \in S
    BY <1>2, <1>6
  <2>2. ASSUME NEW n \in Nat, n \in S PROVE n + 1 \in S
    <3>1. SUFFICES ASSUME (n + 1) + 1 \in 1..(N + 1) PROVE Offset[(n + 1) + 1] = g[(n + 1) + 1]
      OBVIOUS
    <3>2. n + 1 \in 1..N /\ n + 1 \in 1..(N + 1) /\ Offset[n + 1] = g[n + 1]
      BY <1>1, <2>2, <3>1
    <3>. QED BY <1>1, <1>2, <1>7, <3>2
  <2> HIDE DEF S
  <2>3. Nat \subseteq S
    BY <2>1, <2>2, SetInduction
  <2>4. ASSUME NEW k \in 1..(N + 1) PROVE Offset[k] = g[k]
    <3>1. k - 1 \in Nat /\ (k - 1) + 1 = k
      BY <1>1
    <3>. QED BY <2>3, <3>1 DEF S
  <2>. QED BY <2>4
<1>9. Offset \in [1..(N + 1) -> Nat]
  <2>1. \A k \in 1..(N + 1) : Offset[k] \in Nat
    BY <1>2, <1>8
  <2>. QED BY <1>5, <2>1
<1>. QED BY <1>6, <1>7, <1>9 DEF N

(* A fold over the subsets of S, which takes element pick[s] of s first.    *)
Folded(h, S, V, base, pick, step) ==
  /\ h \in [SUBSET S -> V] /\ h[{}] = base
  /\ \A s \in SUBSET S : s # {} => h[s] = step[pick[s]][h[s \ {pick[s]}]]

Picks(pick, S) == \A s \in SUBSET S : s # {} => pick[s] \in s

LEMMA FoldExists ==
  ASSUME NEW S, IsFiniteSet(S), NEW V, NEW base \in V,
         NEW pick, Picks(pick, S), NEW step \in [S -> [V -> V]]
  PROVE  \E h : Folded(h, S, V, base, pick, step)
<1> DEFINE N == Cardinality(S)
           W == [SUBSET S -> V]
           zero == [s \in SUBSET S |-> base]
           more(h) == [s \in SUBSET S |-> IF s = {} THEN base
                                          ELSE step[pick[s]][h[s \ {pick[s]}]]]
           prior == [k \in 1..N |-> k - 1]
           steps == [k \in 1..N |-> [h \in W |-> more(h)]]
<1>1. N \in Nat /\ zero \in W
  BY FS_CardinalityType
<1>2. ASSUME NEW h \in W PROVE more(h) \in W
  <2>1. ASSUME NEW s \in SUBSET S, s # {} PROVE step[pick[s]][h[s \ {pick[s]}]] \in V
    <3>1. pick[s] \in S /\ s \ {pick[s]} \in SUBSET S
      BY <2>1 DEF Picks
    <3>2. step[pick[s]] \in [V -> V] /\ h[s \ {pick[s]}] \in V
      BY <3>1
    <3>. QED BY <3>2
  <2>. QED BY <2>1
<1>3. Earlier(prior, N)
  BY <1>1 DEF Earlier
<1>4. steps \in [1..N -> [W -> W]]
  <2> HIDE DEF W, more, N
  <2>. QED BY <1>2
<1>5. PICK g \in [0..N -> W] : Recurs(g, N, zero, prior, steps)
  <2> HIDE DEF N, W, zero, prior, steps
  <2>. QED BY <1>1, <1>3, <1>4, Recursion
<1>6. g[0] = zero /\ \A k \in 1..N : g[k] = more(g[k - 1])
  <2>1. ASSUME NEW k \in 1..N PROVE g[k] = more(g[k - 1])
    <3>1. prior[k] = k - 1 /\ k - 1 \in 0..N
      BY <1>1
    <3>2. g[k - 1] \in W
      BY <3>1
    <3>3. g[k] = steps[k][g[k - 1]]
      BY <1>5, <3>1 DEF Recurs
    <3> HIDE DEF W, more, N
    <3>. QED BY <3>2, <3>3
  <2>. QED BY <1>5, <2>1 DEF Recurs
<1> HIDE DEF W, more, steps, prior
(* A set of n elements has its sum from the n-th approximation on.          *)
<1> DEFINE Settled(n) == \A k \in n..N, s \in SUBSET S :
                            Cardinality(s) <= n => g[k][s] = g[n][s]
           I == {n \in Nat : n <= N => Settled(n)}
<1>7. 0 \in I
  <2>1. ASSUME NEW k \in 0..N, NEW s \in SUBSET S, Cardinality(s) <= 0 PROVE g[k][s] = g[0][s]
    <3>1. s = {}
      BY <2>1, FS_Subset, FS_EmptySet, FS_CardinalityType
    <3>2. g[0][s] = base
      BY <1>6, <3>1
    <3>3. CASE k = 0
      BY <3>3
    <3>4. CASE k # 0
      <4>1. k \in 1..N
        BY <1>1, <3>4
      <4>. QED BY <1>6, <3>1, <3>2, <4>1 DEF more
    <3>. QED BY <3>3, <3>4
  <2>. QED BY <2>1
<1>8. ASSUME NEW n \in Nat, n \in I PROVE n + 1 \in I
  <2>1. SUFFICES ASSUME n + 1 <= N, NEW k \in (n + 1)..N,
                        NEW s \in SUBSET S, Cardinality(s) <= n + 1
                 PROVE  g[k][s] = g[n + 1][s]
    BY DEF I
  <2>2. k \in 1..N /\ n + 1 \in 1..N /\ k - 1 \in n..N /\ (n + 1) - 1 = n
    BY <1>1, <2>1
  <2>3. g[k] = more(g[k - 1]) /\ g[n + 1] = more(g[n])
    BY <1>6, <2>2
  <2>4. CASE s = {}
    BY <2>3, <2>4 DEF more
  <2>5. CASE s # {}
    <3>1. PICK r \in SUBSET S : r = s \ {pick[s]}
      OBVIOUS
    <3>2. Cardinality(r) <= n
      <4>1. IsFiniteSet(s) /\ pick[s] \in s
        BY <2>5, FS_Subset DEF Picks
      <4>2. Cardinality(r) = Cardinality(s) - 1 /\ Cardinality(s) \in Nat
        BY <3>1, <4>1, FS_RemoveElement, FS_CardinalityType
      <4>. QED BY <2>1, <4>2
    <3>3. g[k - 1][r] = g[n][r]
      BY <1>1, <1>8, <2>1, <2>2, <3>2
    <3>4. more(g[k - 1])[s] = step[pick[s]][g[k - 1][r]]
      BY <2>5, <3>1 DEF more
    <3>5. more(g[n])[s] = step[pick[s]][g[n][r]]
      BY <2>5, <3>1 DEF more
    <3>. QED BY <2>3, <3>3, <3>4, <3>5
  <2>. QED BY <2>4, <2>5
<1>9. Settled(N)
  <2> HIDE DEF I, N
  <2>1. Nat \subseteq I
    BY <1>7, <1>8, SetInduction
  <2>2. N \in I /\ N <= N
    BY <1>1, <2>1
  <2>. QED BY <2>2 DEF I
<1>10. Folded(g[N], S, V, base, pick, step)
  <2>1. g[N] \in W /\ g[N][{}] = base
    <3>1. CASE N = 0
      BY <1>1, <1>6, <3>1
    <3>2. CASE N # 0
      <4>1. N \in 1..N /\ N \in 0..N
        BY <1>1, <3>2
      <4>2. g[N] = more(g[N - 1]) /\ g[N] \in W
        BY <1>6, <4>1
      <4>3. more(g[N - 1])[{}] = base
        BY DEF more
      <4>. QED BY <4>2, <4>3
    <3>. QED BY <3>1, <3>2, <1>1
  <2>2. ASSUME NEW s \in SUBSET S, s # {}
        PROVE  g[N][s] = step[pick[s]][g[N][s \ {pick[s]}]]
    <3>1. IsFiniteSet(s) /\ pick[s] \in s /\ s \ {pick[s]} \in SUBSET S
      BY <2>2, FS_Subset DEF Picks
    <3>2. /\ Cardinality(s \ {pick[s]}) = Cardinality(s) - 1 /\ Cardinality(s) \in Nat
          /\ Cardinality(s) <= N /\ Cardinality(s) # 0
      BY <2>2, <3>1, FS_RemoveElement, FS_CardinalityType, FS_Subset, FS_EmptySet
    <3>3. N \in 1..N /\ N - 1 \in 0..N
      BY <1>1, <3>2
    <3>4. g[N][s] = step[pick[s]][g[N - 1][s \ {pick[s]}]]
      <4>1. g[N] = more(g[N - 1])
        BY <1>6, <3>3
      <4>2. more(g[N - 1])[s] = step[pick[s]][g[N - 1][s \ {pick[s]}]]
        BY <2>2 DEF more
      <4>. QED BY <4>1, <4>2
    <3>5. g[N - 1][s \ {pick[s]}] = g[N][s \ {pick[s]}]
      <4>1. Settled(N - 1)
        <5> HIDE DEF I
        <5>1. Nat \subseteq I
          BY <1>7, <1>8, SetInduction
        <5>2. N - 1 \in I /\ N - 1 <= N
          BY <1>1, <3>3, <5>1
        <5>. QED BY <5>2 DEF I
      <4>2. Cardinality(s \ {pick[s]}) <= N - 1 /\ N \in (N - 1)..N
        BY <1>1, <3>2
      <4>. QED BY <3>1, <4>1, <4>2
    <3>. QED BY <3>4, <3>5
  <2>. QED BY <2>1, <2>2 DEF Folded, W
<1>. QED BY <1>10

(* The fold that MapThenSumSet does.                                        *)
First(s) == CHOOSE x \in s : TRUE
Sums(h, S, w) ==
  /\ h \in [SUBSET S -> Nat] /\ h[{}] = 0
  /\ \A s \in SUBSET S : s # {} => h[s] = w[First(s)] + h[s \ {First(s)}]

LEMMA SumsExist ==
  ASSUME NEW S, IsFiniteSet(S), NEW w \in [S -> Nat]
  PROVE  \E h : Sums(h, S, w)
<1>1. PICK pick : pick = [s \in SUBSET S |-> First(s)]
  OBVIOUS
<1>2. PICK step : step = [x \in S |-> [v \in Nat |-> w[x] + v]]
  OBVIOUS
<1>3. Picks(pick, S)
  BY <1>1 DEF Picks, First
<1>4. step \in [S -> [Nat -> Nat]] /\ 0 \in Nat
  <2>1. \A x \in S, v \in Nat : w[x] + v \in Nat
    OBVIOUS
  <2>. QED BY <1>2, <2>1
<1>5. PICK h : Folded(h, S, Nat, 0, pick, step)
  BY <1>3, <1>4, FoldExists
<1>6. ASSUME NEW s \in SUBSET S, s # {} PROVE h[s] = w[First(s)] + h[s \ {First(s)}]
  <2>1. pick[s] = First(s) /\ First(s) \in S /\ s \ {First(s)} \in SUBSET S
    BY <1>1, <1>6 DEF First
  <2>2. h[s] = step[First(s)][h[s \ {First(s)}]] /\ h[s \ {First(s)}] \in Nat
    BY <1>5, <1>6, <2>1 DEF Folded
  <2>. QED BY <1>2, <2>1, <2>2
<1>. QED BY <1>5, <1>6 DEF Folded, Sums

-----------------------------------------------------------------------------
(* One element more in a sum. *)
Outside(x, T, S) == T \in SUBSET S /\ x \in S \ T
SumGrows(h, T, x, w) == h[T \cup {x}] = h[T] + w[x]

LEMMA SumsAdd ==
  ASSUME NEW S, IsFiniteSet(S), NEW w, w \in [S -> Nat], NEW h, Sums(h, S, w),
         NEW T, NEW x, Outside(x, T, S)
  PROVE  SumGrows(h, T, x, w)
<1>0. T \in SUBSET S /\ x \in S \ T
  BY DEF Outside
<1> DEFINE OK(U, y) == h[U \cup {y}] = h[U] + w[y]
           I == {n \in Nat : \A U \in SUBSET S : Cardinality(U) = n => \A y \in S \ U : OK(U, y)}
<1>1. ASSUME NEW U \in SUBSET S, NEW y \in S \ U, First(U \cup {y}) = y
      PROVE  OK(U, y)
  <2>1. U \cup {y} \in SUBSET S /\ U \cup {y} # {} /\ (U \cup {y}) \ {y} = U
    OBVIOUS
  <2>2. h[U \cup {y}] = w[y] + h[U]
    BY <1>1, <2>1 DEF Sums
  <2>3. w[y] \in Nat /\ h[U] \in Nat
    BY DEF Sums
  <2>. QED BY <2>2, <2>3
<1>2. 0 \in I
  <2>1. ASSUME NEW U \in SUBSET S, Cardinality(U) = 0, NEW y \in S \ U PROVE OK(U, y)
    <3>1. U = {}
      BY <2>1, FS_Subset, FS_EmptySet
    <3>2. First(U \cup {y}) = y
      BY <3>1 DEF First
    <3>. QED BY <1>1, <3>2
  <2>. QED BY <2>1
<1>3. ASSUME NEW n \in Nat, n \in I PROVE n + 1 \in I
  <2>1. SUFFICES ASSUME NEW U \in SUBSET S, Cardinality(U) = n + 1, NEW y \in S \ U
                 PROVE  OK(U, y)
    BY DEF I
  <2>2. CASE First(U \cup {y}) = y
    BY <1>1, <2>2
  <2>3. CASE First(U \cup {y}) # y
    <3>1. PICK z : z = First(U \cup {y})
      OBVIOUS
    <3>2. z \in U
      BY <2>3, <3>1 DEF First
    <3>3. PICK R \in SUBSET S : R = U \ {z}
      OBVIOUS
    <3>4. Cardinality(R) = n
      <4>1. IsFiniteSet(U)
        BY FS_Subset
      <4>2. Cardinality(R) = Cardinality(U) - 1
        BY <3>2, <3>3, <4>1, FS_RemoveElement
      <4>. QED BY <2>1, <4>2
    <3>5. z \in S \ R /\ y \in S \ R /\ U = R \cup {z} /\ (U \cup {y}) \ {z} = R \cup {y}
      BY <2>3, <3>1, <3>2, <3>3
    <3>6. h[R \cup {z}] = h[R] + w[z] /\ h[R \cup {y}] = h[R] + w[y]
      BY <1>3, <3>4, <3>5
    <3>7. h[U \cup {y}] = w[z] + h[R \cup {y}]
      <4>1. U \cup {y} \in SUBSET S /\ U \cup {y} # {}
        OBVIOUS
      <4>. QED BY <3>1, <3>5, <4>1 DEF Sums
    <3>8. h[R] \in Nat /\ w[z] \in Nat /\ w[y] \in Nat
      BY <3>2 DEF Sums
    <3>. QED BY <3>5, <3>6, <3>7, <3>8
  <2>. QED BY <2>2, <2>3
<1>4. Cardinality(T) \in I
  <2> HIDE DEF I
  <2>1. Nat \subseteq I /\ Cardinality(T) \in Nat
    BY <1>0, <1>2, <1>3, SetInduction, FS_Subset, FS_CardinalityType
  <2>. QED BY <2>1
<1>. QED BY <1>0, <1>4 DEF SumGrows

(* A sum over an interval, one longer. *)
PrefixSums(C, n, w) ==
  C \in [1..(n + 1) -> Nat] /\ C[1] = 0 /\ \A k \in 1..n : C[k + 1] = C[k] + w[k] + 2

Interval(S, a, b) == S = a..b

Longer(h, T, a, e, v) == h[a..e] = h[T] + v[e]

LEMMA IntervalAdd ==
  ASSUME NEW S, IsFiniteSet(S), NEW v, v \in [S -> Nat], NEW h, Sums(h, S, v),
         NEW a \in Nat, NEW e \in Nat, a <= e, NEW T, T \in SUBSET S, Interval(T, a, e - 1), e \in S
  PROVE  Longer(h, T, a, e, v)
<1>0. PICK x : x = e
  OBVIOUS
<1>1. Outside(x, T, S)
  BY <1>0 DEF Interval, Outside
<1>2. a..e = T \cup {x}
  BY <1>0 DEF Interval
<1>3. h[T \cup {x}] = h[T] + v[x]
  <2>1. SumGrows(h, T, x, v)
    BY <1>1, SumsAdd
  <2>. QED BY <2>1 DEF SumGrows
<1>. QED BY <1>0, <1>2, <1>3, Zenon DEF Longer

Weights(v, S, w) == v = [k \in S |-> w[k] + 2]
IntervalIs(h, a, b, C) == h[a..b] = C[b + 1] - C[a]

LEMMA IntervalSums ==
  ASSUME NEW n \in Nat, NEW w \in [1..n -> Nat], NEW C, PrefixSums(C, n, w),
         NEW a \in 1..n, NEW b \in a..n, NEW S, Interval(S, a, b),
         NEW v, Weights(v, S, w), NEW h, Sums(h, S, v)
  PROVE  IntervalIs(h, a, b, C)
<1>1. a \in Nat /\ b \in Nat /\ a <= b /\ b <= n /\ a > 0
  OBVIOUS
<1>7. v \in [S -> Nat] /\ Sums(h, S, v) /\ \A k \in a..b : v[k] = w[k] + 2
  <2>1. \A k \in S : w[k] + 2 \in Nat
    BY <1>1 DEF Interval
  <2>. QED BY <1>1, <2>1 DEF Interval, Weights
<1>8. C \in [1..(n + 1) -> Nat] /\ \A k \in 1..n : C[k + 1] = C[k] + w[k] + 2
  BY DEF PrefixSums
<1>9. IsFiniteSet(S)
  BY <1>1, FS_Interval DEF Interval
<1> DEFINE OK(e) == h[a..e] = C[e + 1] - C[a]
           I == {e \in Nat : e \in (a - 1)..b => OK(e)}
<1>2. OK(a - 1)
  <2>1. a..(a - 1) = {} /\ C[(a - 1) + 1] = C[a]
    BY <1>1
  <2>2. C[a] \in Nat
    BY <1>1, <1>8
  <2>3. C[(a - 1) + 1] - C[a] = 0
    BY <2>1, <2>2
  <2>4. h[a..(a - 1)] = 0
    BY <1>7, <2>1, Zenon DEF Sums
  <2>. QED BY <2>3, <2>4
<1>3. ASSUME NEW e \in a..b, OK(e - 1) PROVE OK(e)
  <2>1. PICK T : T = a..(e - 1)
    OBVIOUS
  <2>0. e \in Nat /\ a <= e /\ e <= b /\ e \in 1..n /\ (e - 1) + 1 = e
    BY <1>1
  <2>2. T \in SUBSET S /\ e \in S
    BY <1>1, <2>0, <2>1 DEF Interval
  <2>3. h[T] = C[e] - C[a]
    BY <1>3, <2>0, <2>1
  <2>5. h[a..e] = h[T] + v[e]
    <3>1. v \in [S -> Nat]
      BY <1>7
    <3>2. Sums(h, S, v)
      BY <1>7
    <3>3. Interval(T, a, e - 1)
      BY <2>1 DEF Interval
    <3>4. a \in Nat /\ e \in Nat /\ a <= e /\ T \in SUBSET S /\ e \in S
      BY <1>1, <2>0, <2>2
    <3>5. Longer(h, T, a, e, v)
      BY <1>9, <3>1, <3>2, <3>3, <3>4, IntervalAdd
    <3>. QED BY <3>5, Zenon DEF Longer
  <2>6. v[e] = w[e] + 2 /\ C[e + 1] = C[e] + w[e] + 2
    BY <1>7, <1>8, <2>0
  <2>7. w[e] \in Nat /\ C[e] \in Nat /\ C[a] \in Nat
    <3>1. e \in 1..(n + 1) /\ a \in 1..(n + 1)
      BY <1>1, <2>0
    <3>. QED BY <1>8, <2>0, <3>1
  <2>8. h[a..e] = (C[e] - C[a]) + v[e]
    BY <2>3, <2>5, Zenon
  <2>10. C[e + 1] - C[a] = (C[e] - C[a]) + v[e]
    <3>1. PICK x \in Nat, y \in Nat, z \in Nat : x = w[e] /\ y = C[e] /\ z = C[a]
      BY <2>7
    <3>2. v[e] = x + 2 /\ C[e + 1] = y + x + 2
      BY <2>6, <3>1
    <3>3. (y + x + 2) - z = (y - z) + (x + 2)
      OBVIOUS
    <3>. QED BY <3>1, <3>2, <3>3
  <2>. QED BY <2>8, <2>10, Zenon
<1> HIDE DEF OK
<1>4. 0 \in I
  BY <1>1, <1>2
<1>5. ASSUME NEW e \in Nat, e \in I PROVE e + 1 \in I
  <2>1. SUFFICES ASSUME e + 1 \in (a - 1)..b PROVE OK(e + 1)
    OBVIOUS
  <2>2. CASE e + 1 = a - 1
    BY <1>2, <2>2
  <2>3. CASE e + 1 # a - 1
    <3>1. e \in (a - 1)..b /\ e + 1 \in a..b /\ (e + 1) - 1 = e
      BY <1>1, <2>1, <2>3
    <3>2. OK((e + 1) - 1)
      BY <1>5, <3>1
    <3>. QED BY <1>3, <3>1, <3>2
  <2>. QED BY <2>2, <2>3
<1>6. b \in I /\ b \in (a - 1)..b
  <2> HIDE DEF I
  <2>1. Nat \subseteq I
    BY <1>4, <1>5, SetInduction
  <2>. QED BY <1>1, <2>1
<1>. QED BY <1>6 DEF OK, IntervalIs

(* Whatever solves the recursion is that sum. *)
LEMMA SumsTyped ==
  ASSUME NEW S, IsFiniteSet(S), NEW w \in [S -> Nat], NEW h, h = [s \in SUBSET S |-> h[s]],
         h[{}] = 0, \A s \in SUBSET S : s # {} => h[s] = w[First(s)] + h[s \ {First(s)}]
  PROVE  Sums(h, S, w)
<1> DEFINE OK(n) == \A U \in SUBSET S : Cardinality(U) = n => h[U] \in Nat
           I == {n \in Nat : OK(n)}
<1>1. OK(0)
  <2>1. ASSUME NEW U \in SUBSET S, Cardinality(U) = 0 PROVE h[U] \in Nat
    <3>1. U = {}
      BY <2>1, FS_Subset, FS_EmptySet
    <3>. QED BY <3>1
  <2>. QED BY <2>1
<1>2. ASSUME NEW n \in Nat, OK(n) PROVE OK(n + 1)
  <2>1. ASSUME NEW U \in SUBSET S, Cardinality(U) = n + 1 PROVE h[U] \in Nat
    <3>1. IsFiniteSet(U) /\ U # {}
      BY <2>1, FS_Subset, FS_EmptySet
    <3>2. PICK z \in U : z = First(U)
      BY <3>1 DEF First
    <3>3. PICK R \in SUBSET S : R = U \ {z}
      OBVIOUS
    <3>4. Cardinality(R) = n
      <4>1. Cardinality(R) = Cardinality(U) - 1
        BY <3>1, <3>3, FS_RemoveElement
      <4>. QED BY <2>1, <4>1
    <3>5. h[R] \in Nat
      BY <1>2, <3>4
    <3>6. h[U] = w[z] + h[R] /\ w[z] \in Nat
      BY <3>1, <3>2, <3>3
    <3>. QED BY <3>5, <3>6
  <2>. QED BY <2>1
<1>3. ASSUME NEW U \in SUBSET S PROVE h[U] \in Nat
  <2> HIDE DEF OK
  <2>1. Nat \subseteq I
    <3>1. 0 \in I
      BY <1>1
    <3>2. ASSUME NEW n \in Nat, n \in I PROVE n + 1 \in I
      BY <1>2, <3>2
    <3> HIDE DEF I
    <3>. QED BY <3>1, <3>2, SetInduction
  <2>2. Cardinality(U) \in Nat
    BY FS_Subset, FS_CardinalityType
  <2>3. OK(Cardinality(U))
    BY <2>1, <2>2
  <2>. QED BY <2>3 DEF OK
<1>. QED BY <1>3 DEF Sums

-----------------------------------------------------------------------------

LEMMA CharsArePrefixes ==
  ASSUME doc \in Seq(Block), NEW a \in 1..Len(doc), NEW b \in a..Len(doc),
         NEW w, w = [k \in 1..Len(doc) |-> doc[k].chars], NEW C, PrefixSums(C, Len(doc), w)
  PROVE  Chars(a, b) = C[b + 1] - C[a] - 2
<1>1. PICK S : Interval(S, a, b)
  BY DEF Interval
<1>2. /\ IsFiniteSet(S) /\ w \in [1..Len(doc) -> Nat] /\ Len(doc) \in Nat
      /\ \A k \in S : k \in 1..Len(doc) /\ w[k] = doc[k].chars
  <2>1. a \in Nat /\ b \in Nat
    OBVIOUS
  <2>2. IsFiniteSet(S)
    BY <1>1, <2>1, FS_Interval DEF Interval
  <2>3. \A k \in 1..Len(doc) : doc[k].chars \in Nat
    BY ChunkerAssumption
  <2>. QED BY <1>1, <2>2, <2>3 DEF Interval
<1>3. PICK v : v = [k \in S |-> w[k] + 2] /\ v \in [S -> Nat]
  <2>1. \A k \in S : w[k] + 2 \in Nat
    BY <1>2
  <2>2. [k \in S |-> w[k] + 2] \in [S -> Nat]
    BY <2>1
  <2>. QED BY <2>2
<1> DEFINE Is(f) == f = [s \in SUBSET S |-> IF s = {} THEN 0
                           ELSE (doc[First(s)].chars + 2) + f[s \ {First(s)}]]
<1>4. ASSUME NEW s \in SUBSET S, s # {} PROVE v[First(s)] = doc[First(s)].chars + 2
  BY <1>2, <1>3, <1>4 DEF First
<1>5. \E g : Is(g)
  <2>1. PICK g : Sums(g, S, v)
    BY <1>2, <1>3, SumsExist
  <2>2. ASSUME NEW s \in SUBSET S
        PROVE  g[s] = IF s = {} THEN 0 ELSE (doc[First(s)].chars + 2) + g[s \ {First(s)}]
    BY <1>4, <2>1 DEF Sums
  <2>. QED BY <2>1, <2>2 DEF Sums
<1>6. PICK h : h = CHOOSE f : Is(f)
  OBVIOUS
<1>7. Is(h)
  <2> HIDE DEF Is
  <2>. QED BY <1>5, <1>6
<1>8. Sums(h, S, v)
  <2>1. h[{}] = 0 /\ h = [s \in SUBSET S |-> h[s]]
    BY <1>7
  <2>2. ASSUME NEW s \in SUBSET S, s # {} PROVE h[s] = v[First(s)] + h[s \ {First(s)}]
    BY <1>4, <1>7, <2>2
  <2>. QED BY <1>2, <1>3, <2>1, <2>2, SumsTyped
<1>9. h[a..b] = C[b + 1] - C[a]
  <2>1. Weights(v, S, w)
    BY <1>3 DEF Weights
  <2>2. IntervalIs(h, a, b, C)
    BY <1>1, <1>2, <1>8, <2>1, IntervalSums
  <2>. QED BY <2>2 DEF IntervalIs
<1>10. Chars(a, b) = h[a..b] - 2
  BY <1>1, <1>6 DEF Chars, Sep, MapThenSumSet, MapThenFoldSet, First, Interval
<1>. QED BY <1>9, <1>10

LEMMA BytesArePrefixes ==
  ASSUME doc \in Seq(Block), NEW a \in 1..Len(doc), NEW b \in a..Len(doc),
         NEW w, w = [k \in 1..Len(doc) |-> doc[k].bytes], NEW C, PrefixSums(C, Len(doc), w)
  PROVE  Bytes(a, b) = C[b + 1] - C[a] - 2
<1>1. PICK S : Interval(S, a, b)
  BY DEF Interval
<1>2. /\ IsFiniteSet(S) /\ w \in [1..Len(doc) -> Nat] /\ Len(doc) \in Nat
      /\ \A k \in S : k \in 1..Len(doc) /\ w[k] = doc[k].bytes
  <2>1. a \in Nat /\ b \in Nat
    OBVIOUS
  <2>2. IsFiniteSet(S)
    BY <1>1, <2>1, FS_Interval DEF Interval
  <2>3. \A k \in 1..Len(doc) : doc[k].bytes \in Nat
    BY ChunkerAssumption
  <2>. QED BY <1>1, <2>2, <2>3 DEF Interval
<1>3. PICK v : v = [k \in S |-> w[k] + 2] /\ v \in [S -> Nat]
  <2>1. \A k \in S : w[k] + 2 \in Nat
    BY <1>2
  <2>2. [k \in S |-> w[k] + 2] \in [S -> Nat]
    BY <2>1
  <2>. QED BY <2>2
<1> DEFINE Is(f) == f = [s \in SUBSET S |-> IF s = {} THEN 0
                           ELSE (doc[First(s)].bytes + 2) + f[s \ {First(s)}]]
<1>4. ASSUME NEW s \in SUBSET S, s # {} PROVE v[First(s)] = doc[First(s)].bytes + 2
  BY <1>2, <1>3, <1>4 DEF First
<1>5. \E g : Is(g)
  <2>1. PICK g : Sums(g, S, v)
    BY <1>2, <1>3, SumsExist
  <2>2. ASSUME NEW s \in SUBSET S
        PROVE  g[s] = IF s = {} THEN 0 ELSE (doc[First(s)].bytes + 2) + g[s \ {First(s)}]
    BY <1>4, <2>1 DEF Sums
  <2>. QED BY <2>1, <2>2 DEF Sums
<1>6. PICK h : h = CHOOSE f : Is(f)
  OBVIOUS
<1>7. Is(h)
  <2> HIDE DEF Is
  <2>. QED BY <1>5, <1>6
<1>8. Sums(h, S, v)
  <2>1. h[{}] = 0 /\ h = [s \in SUBSET S |-> h[s]]
    BY <1>7
  <2>2. ASSUME NEW s \in SUBSET S, s # {} PROVE h[s] = v[First(s)] + h[s \ {First(s)}]
    BY <1>4, <1>7, <2>2
  <2>. QED BY <1>2, <1>3, <2>1, <2>2, SumsTyped
<1>9. h[a..b] = C[b + 1] - C[a]
  <2>1. Weights(v, S, w)
    BY <1>3 DEF Weights
  <2>2. IntervalIs(h, a, b, C)
    BY <1>1, <1>2, <1>8, <2>1, IntervalSums
  <2>. QED BY <2>2 DEF IntervalIs
<1>10. Bytes(a, b) = h[a..b] - 2
  BY <1>1, <1>6 DEF Bytes, Sep, MapThenSumSet, MapThenFoldSet, First, Interval
<1>. QED BY <1>9, <1>10

(* What is used of them. *)
CharsAre(a, b) ==
  /\ Chars(a, b) \in Nat \ {0}
  /\ a = b => Chars(a, b) = doc[a].chars
  /\ b < Len(doc) => Chars(a, b + 1) = Chars(a, b) + doc[b + 1].chars + 2

LEMMA CharsSteps ==
  ASSUME doc \in Seq(Block), NEW a \in 1..Len(doc), NEW b \in a..Len(doc)
  PROVE  CharsAre(a, b)
<1>1. PICK w : w = [k \in 1..Len(doc) |-> doc[k].chars]
  OBVIOUS
<1>2. w \in [1..Len(doc) -> Nat] /\ Len(doc) \in Nat /\ a \in Nat /\ b \in Nat
      /\ \A k \in 1..Len(doc) : w[k] = doc[k].chars /\ w[k] > 0
  BY <1>1, ChunkerAssumption
<1>3. PICK C : PrefixSums(C, Len(doc), w)
  <2>1. PICK n \in Nat : n = Len(doc)
    BY <1>2
  <2>2. PICK C \in [1..(n + 1) -> Nat] : C[1] = 0 /\ \A k \in 1..n : C[k + 1] = C[k] + w[k] + 2
    BY <1>2, <2>1, PrefixExists
  <2>. QED BY <2>1, <2>2 DEF PrefixSums
<1>4. Chars(a, b) = C[b + 1] - C[a] - 2
  BY <1>1, <1>3, CharsArePrefixes
<1>5. b < Len(doc) => Chars(a, b + 1) = C[(b + 1) + 1] - C[a] - 2
  <2>1. b < Len(doc) => b + 1 \in a..Len(doc)
    BY <1>2
  <2>. QED BY <1>1, <1>3, <2>1, CharsArePrefixes
<1>6. /\ C[b + 1] = C[b] + w[b] + 2
      /\ b < Len(doc) => C[(b + 1) + 1] = C[b + 1] + w[b + 1] + 2
      /\ {C[a], C[b], C[b + 1], w[b]} \subseteq Nat
      /\ b < Len(doc) => w[b + 1] = doc[b + 1].chars /\ w[b + 1] \in Nat
      /\ w[b] > 0 /\ w[b] = doc[b].chars
  <2>1. /\ b \in 1..Len(doc) /\ {a, b, b + 1} \subseteq 1..(Len(doc) + 1)
        /\ b < Len(doc) => b + 1 \in 1..Len(doc)
    BY <1>2
  <2>2. /\ C \in [1..(Len(doc) + 1) -> Nat]
        /\ \A k \in 1..Len(doc) : C[k + 1] = C[k] + w[k] + 2
    BY <1>3 DEF PrefixSums
  <2>. QED BY ZenonT(30), <1>2, <2>1, <2>2
<1>7. C[a] <= C[b]
  <2> DEFINE OK(e) == e \in a..b => C[a] <= C[e]
             I == {e \in Nat : OK(e)}
  <2>1. OK(0)
    OBVIOUS
  <2>2. ASSUME NEW e \in Nat, OK(e) PROVE OK(e + 1)
    <3>1. SUFFICES ASSUME e + 1 \in a..b PROVE C[a] <= C[e + 1]
      OBVIOUS
    <3>2. CASE e + 1 = a
      BY <1>6, <3>2
    <3>3. CASE e + 1 # a
      <4>1. e \in a..b /\ e \in 1..Len(doc) /\ a \in 1..(Len(doc) + 1) /\ e \in 1..(Len(doc) + 1)
        BY <1>2, <3>1, <3>3
      <4>2. C[e + 1] = C[e] + w[e] + 2 /\ C[e] \in Nat /\ w[e] \in Nat /\ C[a] \in Nat
        BY <1>2, <1>3, <4>1 DEF PrefixSums
      <4>3. C[a] <= C[e]
        BY <2>2, <4>1
      <4>. QED BY <4>2, <4>3
    <3>. QED BY <3>2, <3>3
  <2> HIDE DEF OK
  <2>3. 0 \in I /\ \A e \in Nat : e \in I => e + 1 \in I
    BY <2>1, <2>2
  <2> HIDE DEF I
  <2>4. Nat \subseteq I
    BY <2>3, SetInduction
  <2>. QED BY <1>2, <2>4 DEF I, OK
<1>8. PICK x, y, z, u : x = C[a] /\ y = C[b] /\ z = C[b + 1] /\ u = w[b]
  OBVIOUS
<1>9. Chars(a, b) = z - x - 2 /\ z = y + u + 2 /\ {x, y, z, u} \subseteq Nat /\ x <= y /\ u > 0
  BY <1>4, <1>6, <1>7, <1>8
<1>10. Chars(a, b) \in Nat \ {0} /\ (x = y => Chars(a, b) = u)
  BY SMTT(20), <1>9
<1>11. a = b => Chars(a, b) = doc[a].chars
  BY <1>6, <1>8, <1>10
<1>12. ASSUME b < Len(doc) PROVE Chars(a, b + 1) = Chars(a, b) + doc[b + 1].chars + 2
  <2>1. PICK t : t = doc[b + 1].chars
    OBVIOUS
  <2>2. Chars(a, b + 1) = (z + t + 2) - x - 2 /\ t \in Nat
    BY <1>5, <1>6, <1>8, <1>12, <2>1
  <2>3. (z + t + 2) - x - 2 = (z - x - 2) + t + 2
    <3>1. z \in Nat /\ x \in Nat /\ t \in Nat
      BY <1>9, <2>2
    <3>. QED BY ONLY <3>1
  <2>. QED BY <1>9, <2>1, <2>2, <2>3
<1>. QED BY <1>10, <1>11, <1>12 DEF CharsAre

LEMMA BytesAre ==
  ASSUME doc \in Seq(Block), NEW a \in 1..Len(doc), NEW b \in a..Len(doc)
  PROVE  Bytes(a, b) = Offset[b + 1] - Offset[a] - 2
<1>1. PICK w : w = [k \in 1..Len(doc) |-> doc[k].bytes]
  OBVIOUS
<1>2. \A k \in 1..Len(doc) : w[k] = doc[k].bytes
  BY <1>1
<1>3. PrefixSums(Offset, Len(doc), w)
  BY <1>2, OffsetSums DEF PrefixSums
<1>. QED BY <1>1, <1>3, BytesArePrefixes

-----------------------------------------------------------------------------
(* Headings: the one that opens a section, and those it is nested in.       *)

LEMMA MaxIs ==
  ASSUME NEW S, NEW m \in S, S \subseteq Nat, \A x \in S : x <= m
  PROVE  Max(S) = m
<1>1. PICK x : x = CHOOSE y \in S : \A z \in S : y >= z
  OBVIOUS
<1>2. \A z \in S : m >= z
  OBVIOUS
<1>3. x \in S /\ \A z \in S : x >= z
  BY <1>1, <1>2, Zenon
<1>4. x = m
  BY <1>3
<1>. QED BY <1>1, <1>4 DEF Max

LEMMA MaxOf ==
  ASSUME NEW n \in Nat, NEW S \in SUBSET (0..n), S # {}
  PROVE  Max(S) \in S /\ \A x \in S : x <= Max(S)
<1> DEFINE OK(k) == \A T \in SUBSET (0..k) : T # {} => \E m \in T : \A x \in T : x <= m
           I == {k \in Nat : OK(k)}
<1>1. OK(0)
  <2>1. ASSUME NEW T \in SUBSET (0..0), T # {} PROVE 0 \in T /\ \A x \in T : x <= 0
    <3>1. \A x \in T : x = 0
      OBVIOUS
    <3>2. PICK y : y \in T
      BY <2>1
    <3>. QED BY <3>1, <3>2
  <2>2. \A T \in SUBSET (0..0) : T # {} => \E m \in T : \A x \in T : x <= m
    BY <2>1, Zenon
  <2>. QED BY <2>2
<1>2. ASSUME NEW k \in Nat, OK(k) PROVE OK(k + 1)
  <2>1. SUFFICES ASSUME NEW T \in SUBSET (0..(k + 1)), T # {}
                 PROVE  \E m \in T : \A x \in T : x <= m
    OBVIOUS
  <2>2. CASE k + 1 \in T
    BY <2>2
  <2>3. CASE k + 1 \notin T
    <3>1. T \in SUBSET (0..k)
      BY <2>3
    <3>. QED BY <1>2, <2>1, <3>1
  <2>. QED BY <2>2, <2>3
<1> HIDE DEF OK
<1>3. 0 \in I /\ \A k \in Nat : k \in I => k + 1 \in I
  BY <1>1, <1>2
<1> HIDE DEF I
<1>4. n \in I
  BY <1>3, SetInduction
<1>5. PICK m \in S : \A x \in S : x <= m
  BY <1>4 DEF I, OK
<1>6. S \subseteq Nat
  OBVIOUS
<1>7. Max(S) = m
  BY <1>5, <1>6, MaxIs
<1>. QED BY <1>5, <1>7

LEMMA DocLevels ==
  ASSUME doc \in Seq(Block)
  PROVE  /\ Len(doc) \in Nat
         /\ \A k \in 1..Len(doc) : doc[k] \in Block /\ doc[k].level \in Nat
<1>1. \A b \in Block : b.level \in Nat
  BY ChunkerAssumption
<1>. QED BY <1>1

(* The last heading up to block k, if there is one.                         *)
LastHeading(h, k) ==
  h \in 0..k /\ (h # 0 => doc[h].level > 0) /\ \A j \in (h + 1)..k : doc[j].level = 0

LEMMA OpensIs ==
  ASSUME doc \in Seq(Block), NEW k \in 0..Len(doc), NEW h, LastHeading(h, k)
  PROVE  Opens(k) = h
<1> DEFINE S == {0} \cup {g \in 1..k : doc[g].level > 0}
<1>1. k \in Nat /\ h \in Nat
  BY DocLevels DEF LastHeading
<1>2. h \in S /\ S \subseteq Nat
  BY <1>1 DEF LastHeading
<1>3. ASSUME NEW x \in S PROVE x <= h
  <2>1. CASE x = 0
    BY <1>1, <2>1
  <2>2. CASE x # 0 /\ ~(x <= h)
    <3>1. x \in 1..k /\ doc[x].level > 0 /\ x \in (h + 1)..k
      BY <1>1, <2>2
    <3>. QED BY <1>1, <3>1 DEF LastHeading
  <2>. QED BY <2>1, <2>2
<1> HIDE DEF S
<1>4. Max(S) = h
  BY <1>2, <1>3, MaxIs
<1>. QED BY <1>4 DEF Opens, S

LEMMA OpensLast ==
  ASSUME doc \in Seq(Block), NEW k \in 0..Len(doc)
  PROVE  LastHeading(Opens(k), k)
<1> DEFINE S == {0} \cup {g \in 1..k : doc[g].level > 0}
<1>1. k \in Nat
  BY DocLevels
<1>2. S \in SUBSET (0..k) /\ S # {}
  BY <1>1
<1>3. ASSUME NEW x \in 1..k, doc[x].level > 0 PROVE x \in S
  BY <1>3
<1>4. ASSUME NEW x \in S PROVE x \in 0..k /\ (x # 0 => doc[x].level > 0)
  BY <1>1, <1>4
<1> HIDE DEF S
<1>5. Max(S) \in S /\ \A x \in S : x <= Max(S)
  BY <1>1, <1>2, MaxOf
<1>6. PICK h : h = Max(S)
  OBVIOUS
<1>7. h \in 0..k /\ (h # 0 => doc[h].level > 0)
  BY <1>4, <1>5, <1>6
<1>8. ASSUME NEW j \in (h + 1)..k PROVE doc[j].level = 0
  <2>1. j \in 1..k /\ ~(j <= h) /\ doc[j].level \in Nat
    BY <1>1, <1>7, DocLevels
  <2>. QED BY <1>3, <1>5, <1>6, <2>1
<1>9. Opens(k) = h
  BY <1>6 DEF Opens, S
<1>. QED BY <1>7, <1>8, <1>9 DEF LastHeading

(* The heading that k's section is nested in, 0 for none.                   *)
Above(k) == Max({0} \cup {h \in 1..(k - 1) : doc[h].level \in 1..(doc[k].level - 1)})

NestedIn(q, k) ==
  /\ q \in 0..(k - 1) /\ (q # 0 => doc[q].level \in 1..(doc[k].level - 1))
  /\ \A j \in (q + 1)..(k - 1) : doc[j].level \notin 1..(doc[k].level - 1)

LEMMA AboveIs ==
  ASSUME doc \in Seq(Block), NEW k \in 1..Len(doc), NEW q, NestedIn(q, k)
  PROVE  Above(k) = q
<1> DEFINE S == {0} \cup {h \in 1..(k - 1) : doc[h].level \in 1..(doc[k].level - 1)}
<1>1. k \in Nat /\ q \in Nat
  BY DocLevels DEF NestedIn
<1>2. q \in S /\ S \subseteq Nat
  BY <1>1 DEF NestedIn
<1>3. ASSUME NEW x \in S PROVE x <= q
  <2>1. CASE x = 0
    BY <1>1, <2>1
  <2>2. CASE x # 0 /\ ~(x <= q)
    <3>1. x \in 1..(k - 1) /\ doc[x].level \in 1..(doc[k].level - 1) /\ x \in (q + 1)..(k - 1)
      BY <1>1, <2>2
    <3>. QED BY <1>1, <3>1 DEF NestedIn
  <2>. QED BY <2>1, <2>2
<1> HIDE DEF S
<1>4. Max(S) = q
  BY <1>2, <1>3, MaxIs
<1>. QED BY <1>4 DEF Above, S

LEMMA AboveIsBefore ==
  ASSUME doc \in Seq(Block), NEW k \in 1..Len(doc)
  PROVE  Above(k) \in 0..(k - 1)
<1> DEFINE S == {0} \cup {h \in 1..(k - 1) : doc[h].level \in 1..(doc[k].level - 1)}
<1>1. k - 1 \in Nat
  BY DocLevels
<1>2. S \in SUBSET (0..(k - 1)) /\ S # {}
  BY <1>1
<1>3. Above(k) = Max(S)
  BY DEF Above
<1> HIDE DEF S
<1>4. Max(S) \in S
  BY <1>1, <1>2, MaxOf
<1>. QED BY <1>2, <1>3, <1>4

LEMMA EnclosingRec ==
  ASSUME doc \in Seq(Block)
  PROVE  /\ Enclosing[0] = <<>>
         /\ \A k \in 1..Len(doc) :
              /\ Above(k) \in 0..(k - 1)
              /\ Enclosing[k] = Append(Enclosing[Above(k)], k)
<1> DEFINE N == Len(doc)
           V == Seq(Nat)
           prior == [k \in 1..N |-> Above(k)]
           step == [k \in 1..N |-> [t \in V |-> Append(t, k)]]
           Is(f) == f = [k \in 0..N |-> IF k = 0 THEN <<>> ELSE Append(f[Above(k)], k)]
<1>1. N \in Nat /\ <<>> \in V
  BY DocLevels
<1>2. \A k \in 1..N : Above(k) \in 0..(k - 1)
  BY AboveIsBefore
<1>3. Earlier(prior, N)
  BY <1>1, <1>2 DEF Earlier
<1>4. step \in [1..N -> [V -> V]]
  <2>1. ASSUME NEW k \in 1..N, NEW t \in V PROVE Append(t, k) \in V
    <3>1. k \in Nat
      BY <1>1
    <3>. QED BY <3>1, AppendProperties
  <2> HIDE DEF V, N
  <2>. QED BY <2>1
<1>5. PICK g \in [0..N -> V] : Recurs(g, N, <<>>, prior, step)
  <2> HIDE DEF N, V, prior, step
  <2>. QED BY <1>1, <1>3, <1>4, Recursion
<1>6. ASSUME NEW k \in 1..N PROVE g[k] = Append(g[Above(k)], k)
  <2>1. prior[k] = Above(k) /\ Above(k) \in 0..N
    BY <1>1, <1>2
  <2>2. g[Above(k)] \in V
    BY <2>1
  <2>3. g[k] = step[k][g[Above(k)]]
    BY <1>5, <2>1 DEF Recurs
  <2> HIDE DEF V, N
  <2>. QED BY <2>2, <2>3
<1>7. g[0] = <<>>
  BY <1>5 DEF Recurs
<1>8. Is(g)
  <2>1. ASSUME NEW k \in 0..N
        PROVE  g[k] = IF k = 0 THEN <<>> ELSE Append(g[Above(k)], k)
    <3>1. CASE k = 0
      BY <1>7, <3>1
    <3>2. CASE k # 0
      <4>1. k \in 1..N
        BY <1>1, <3>2
      <4>. QED BY <1>6, <3>2, <4>1
    <3>. QED BY <3>1, <3>2
  <2> HIDE DEF N, V
  <2>. QED BY <2>1
<1>9. Is(Enclosing)
  <2>1. Enclosing = CHOOSE f : Is(f)
    BY DEF Enclosing, Above
  <2> HIDE DEF Is
  <2>. QED BY <1>8, <2>1
<1>10. Enclosing[0] = <<>>
  BY <1>1, <1>9
<1>11. ASSUME NEW k \in 1..N PROVE Enclosing[k] = Append(Enclosing[Above(k)], k)
  <2>1. k \in 0..N /\ k # 0
    BY <1>1
  <2>. QED BY <1>9, <2>1
<1>. QED BY <1>2, <1>10, <1>11

-----------------------------------------------------------------------------

LEMMA MinOfTwo ==
  ASSUME NEW a \in Int, NEW b \in Int
  PROVE  Min({a, b}) = IF a <= b THEN a ELSE b
<1> DEFINE S == {a, b}
<1>1. PICK m : m \in S /\ \A x \in S : m <= x
  <2>1. CASE a <= b
    BY <2>1
  <2>2. CASE ~(a <= b)
    BY <2>2
  <2>. QED BY <2>1, <2>2
<1>2. PICK x : x = CHOOSE y \in S : \A z \in S : y <= z
  OBVIOUS
<1>3. x \in S /\ \A z \in S : x <= z
  <2> HIDE DEF S
  <2>. QED BY <1>1, <1>2, Zenon
<1>4. x = IF a <= b THEN a ELSE b
  BY <1>3
<1>5. Min(S) = x
  BY <1>2 DEF Min
<1>. QED BY <1>4, <1>5

(* The headings e that h's section is nested in, one of each level.         *)
Nested(h, e) ==
  /\ e \in Seq(1..Len(doc)) /\ Len(e) = doc[h].level
  /\ \A j \in 1..Len(e) :
       /\ e[j] \in 1..h /\ doc[e[j]].level = j /\ Enclosing[e[j]] = SubSeq(e, 1, j)
       /\ \A g \in (e[j] + 1)..h : doc[g].level \notin 1..j

LEMMA TopHeading ==
  ASSUME doc \in Seq(Block), NEW h \in 1..Len(doc), doc[h].level = 1
  PROVE  Enclosing[h] = <<h>> /\ Nested(h, <<h>>)
<1>1. NestedIn(0, h)
  BY DocLevels DEF NestedIn
<1>2. Enclosing[h] = Append(<<>>, h)
  BY <1>1, AboveIs, EnclosingRec
<1>3. Append(<<>>, h) = <<h>>
  OBVIOUS
<1>4. <<h>> \in Seq(1..Len(doc)) /\ Len(<<h>>) = 1 /\ <<h>>[1] = h /\ SubSeq(<<h>>, 1, 1) = <<h>>
  <2>1. <<h>> \in Seq(1..Len(doc)) /\ Len(<<h>>) = 1 /\ <<h>>[1] = h
    OBVIOUS
  <2>. QED BY <2>1, SubSeqFull
<1>5. h \in Nat /\ (h + 1)..h = {}
  BY DocLevels
<1>6. Enclosing[h] = <<h>>
  BY <1>2, <1>3
<1>7. PICK e : e = <<h>>
  OBVIOUS
<1>8. /\ e \in Seq(1..Len(doc)) /\ Len(e) = 1 /\ e[1] = h /\ SubSeq(e, 1, 1) = e
      /\ Enclosing[h] = e
  BY <1>4, <1>6, <1>7
<1>9. ASSUME NEW j \in 1..Len(e)
      PROVE  /\ e[j] \in 1..h /\ doc[e[j]].level = j /\ Enclosing[e[j]] = SubSeq(e, 1, j)
             /\ \A g \in (e[j] + 1)..h : doc[g].level \notin 1..j
  <2>1. j = 1
    BY <1>8
  <2>. QED BY <1>5, <1>8, <2>1
<1>10. Nested(h, e)
  BY <1>8, <1>9 DEF Nested
<1>. QED BY <1>6, <1>7, <1>10

Continues(h, o) ==
  LET l == doc[h].level IN
  /\ Enclosing[h] = Append(SubSeq(Enclosing[o], 1, l - 1), h)
  /\ Nested(h, Enclosing[h])
  /\ Min({Len(Enclosing[o]), l - 1}) = l - 1

(* A heading below another: its section lies in the last of the level above *)
(* it, and the trail down to there is that of both.                         *)
LEMMA LowerHeading ==
  ASSUME doc \in Seq(Block), NEW h \in 1..Len(doc), doc[h].level > 1,
         NEW o \in 1..(h - 1), LastHeading(o, h - 1), doc[h].level <= 1 + doc[o].level,
         Nested(o, Enclosing[o])
  PROVE  Continues(h, o)
<1>a. PICK f, l : f = Enclosing[o] /\ l = doc[h].level
  OBVIOUS
<1>b. Nested(o, f)
  BY <1>a
<1>1. /\ l \in Nat /\ l > 1 /\ h \in Nat /\ o \in Nat /\ o < h
      /\ Len(f) \in Nat /\ l - 1 \in 1..Len(f)
      /\ l - 1 \in Nat /\ (l - 1) + 1 = l
  BY SMTT(20), <1>a, <1>b, DocLevels DEF Nested
<1>00. l \in Nat /\ l > 1 /\ Len(f) \in Nat /\ l - 1 <= Len(f)
  BY <1>1
<1>0. \A j \in (o + 1)..(h - 1) : doc[j].level = 0
  BY DEF LastHeading
<1>2. PICK q : q = f[l - 1]
  OBVIOUS
<1>3. /\ q \in 1..o /\ doc[q].level = l - 1 /\ Enclosing[q] = SubSeq(f, 1, l - 1)
      /\ \A g \in (q + 1)..o : doc[g].level \notin 1..(l - 1)
  BY <1>a, <1>b, <1>1, <1>2 DEF Nested
<1>4. NestedIn(q, h)
  <2>1. q \in 0..(h - 1) /\ doc[q].level \in 1..(l - 1)
    BY <1>1, <1>3
  <2>2. ASSUME NEW g \in (q + 1)..(h - 1) PROVE doc[g].level \notin 1..(l - 1)
    <3>1. CASE g <= o
      <4>1. g \in (q + 1)..o
        BY <1>1, <1>3, <3>1
      <4>. QED BY <1>3, <4>1
    <3>2. CASE ~(g <= o)
      <4>1. g \in (o + 1)..(h - 1)
        BY <1>1, <1>3, <3>2
      <4>2. doc[g].level = 0
        BY <1>0, <4>1
      <4>. QED BY <4>2
    <3>. QED BY <3>1, <3>2
  <2>. QED BY <1>a, <2>1, <2>2 DEF NestedIn
<1>5. PICK r : r = SubSeq(f, 1, l - 1)
  OBVIOUS
<1>6. Enclosing[h] = Append(r, h)
  BY <1>3, <1>4, <1>5, AboveIs, EnclosingRec
<1>7. /\ r \in Seq(1..Len(doc)) /\ Len(r) = l - 1
      /\ \A j \in 1..(l - 1) : r[j] = f[j] /\ SubSeq(r, 1, j) = SubSeq(f, 1, j)
  <2>1. f \in Seq(1..Len(doc))
    BY <1>a, <1>b DEF Nested
  <2>2. \A j \in 1..(l - 1) : f[j] \in 1..Len(doc)
    BY SMTT(20), <1>1, <2>1
  <2>3. r \in Seq(1..Len(doc)) /\ Len(r) = l - 1 /\ \A j \in 1..(l - 1) : r[j] = f[j]
    <3>1. /\ r \in Seq(1..Len(doc))
          /\ Len(r) = IF 1 <= l - 1 THEN (l - 1) - 1 + 1 ELSE 0
          /\ \A j \in 1..((l - 1) - 1 + 1) : r[j] = f[1 + j - 1]
      BY <1>1, <1>5, <2>2, SubSeqProperties
    <3>2. (l - 1) - 1 + 1 = l - 1 /\ 1 <= l - 1 /\ \A j \in 1..(l - 1) : 1 + j - 1 = j
      BY <1>1
    <3>. QED BY <3>1, <3>2
  <2>4. ASSUME NEW j \in 1..(l - 1) PROVE SubSeq(r, 1, j) = SubSeq(f, 1, j)
    <3>1. /\ 1 \in 1..Len(f) /\ l - 1 \in 1..Len(f)
          /\ 1 \in 1..((l - 1) - 1 + 1) /\ j \in 1..((l - 1) - 1 + 1)
          /\ 1 + 1 - 1 = 1 /\ 1 + j - 1 = j
      BY <1>1
    <3>2. SubSeq(SubSeq(f, 1, l - 1), 1, j) = SubSeq(f, 1 + 1 - 1, 1 + j - 1)
      BY <2>1, <3>1, SubSeqOfSubSeq
    <3>. QED BY <1>5, <3>1, <3>2
  <2>. QED BY <2>3, <2>4
<1>8. PICK e : e = Append(r, h)
  OBVIOUS
<1>9. /\ e \in Seq(1..Len(doc)) /\ Len(e) = l /\ e[l] = h
      /\ \A j \in 1..(l - 1) : e[j] = f[j]
  <2>1. /\ e \in Seq(1..Len(doc)) /\ Len(e) = Len(r) + 1 /\ e[Len(r) + 1] = h
        /\ \A j \in 1..Len(r) : e[j] = r[j]
    BY <1>7, <1>8, AppendProperties
  <2>. QED BY <1>1, <1>7, <2>1
<1>10. ASSUME NEW j \in 1..(l - 1) PROVE SubSeq(e, 1, j) = SubSeq(f, 1, j)
  <2>7. j \in Nat /\ j <= l - 1 /\ j <= l
    BY <1>00
  <2>0. j \in Nat /\ j <= l - 1 /\ j <= Len(e) /\ j <= Len(f)
    BY <1>00, <1>9, <2>7
  <2>1. j \in Int /\ \A k \in 1..j : k \in 1..(l - 1) /\ k \in 1..Len(e) /\ k \in 1..Len(f)
    <3>1. PICK n, m : n = Len(e) /\ m = Len(f)
      OBVIOUS
    <3>2. n \in Nat /\ m \in Nat /\ j <= n /\ j <= m /\ j \in Nat /\ j <= l - 1 /\ l \in Nat
      BY <1>00, <1>9, <2>0, <3>1
    <3>3. \A k \in 1..j : k \in 1..(l - 1) /\ k \in 1..n /\ k \in 1..m
      BY ONLY <3>2
    <3>. QED BY <3>1, <3>2, <3>3
  <2>2. f \in Seq(1..Len(doc))
    BY <1>a, <1>b DEF Nested
  <2>3. \A k \in 1..j : e[k] \in 1..Len(doc) /\ f[k] \in 1..Len(doc) /\ e[k] = f[k]
    <3>1. e \in Seq(1..Len(doc)) /\ \A k \in 1..(l - 1) : e[k] = f[k]
      BY <1>9
    <3>2. \A k \in 1..Len(e) : e[k] \in 1..Len(doc)
      BY <3>1
    <3>3. \A k \in 1..Len(f) : f[k] \in 1..Len(doc)
      BY <2>2
    <3>. QED BY <2>1, <3>1, <3>2, <3>3
  <2>4. /\ SubSeq(e, 1, j) \in Seq(1..Len(doc)) /\ Len(SubSeq(e, 1, j)) = j
        /\ \A k \in 1..j : SubSeq(e, 1, j)[k] = e[k]
    BY <2>1, <2>3
  <2>5. /\ SubSeq(f, 1, j) \in Seq(1..Len(doc)) /\ Len(SubSeq(f, 1, j)) = j
        /\ \A k \in 1..j : SubSeq(f, 1, j)[k] = f[k]
    BY <2>1, <2>3
  <2>. QED BY <2>3, <2>4, <2>5, SeqEqual
<1>11. SubSeq(e, 1, l) = e
  BY <1>9, SubSeqFull
<1>12. ASSUME NEW j \in 1..Len(e)
       PROVE  /\ e[j] \in 1..h /\ doc[e[j]].level = j /\ Enclosing[e[j]] = SubSeq(e, 1, j)
              /\ \A g \in (e[j] + 1)..h : doc[g].level \notin 1..j
  <2>1. CASE j = l
    <3>1. e[j] = h /\ (h + 1)..h = {} /\ h \in 1..h
      BY <1>1, <1>9, <2>1
    <3>2. doc[e[j]].level = j
      BY <1>a, <2>1, <3>1
    <3>3. Enclosing[e[j]] = SubSeq(e, 1, j)
      BY <1>6, <1>8, <1>11, <2>1, <3>1
    <3>. QED BY <3>1, <3>2, <3>3
  <2>2. CASE j # l
    <3>0. j \in Nat /\ j <= l /\ j >= 1
      BY <1>00, <1>9
    <3>6. j \in 1..(l - 1) /\ j \in 1..Len(f)
      BY <1>00, <2>2, <3>0
    <3>1. j \in 1..(l - 1) /\ j \in 1..Len(f) /\ e[j] = f[j] /\ j \in Nat
      BY <1>9, <3>0, <3>6
    <3>2. /\ f[j] \in 1..o /\ doc[f[j]].level = j /\ Enclosing[f[j]] = SubSeq(f, 1, j)
          /\ \A g \in (f[j] + 1)..o : doc[g].level \notin 1..j
      BY <1>a, <1>b, <3>1 DEF Nested
    <3>5. f[j] \in Nat
      BY <3>2
    <3>3. ASSUME NEW g \in (f[j] + 1)..h PROVE doc[g].level \notin 1..j
      <4>1. CASE g <= o
        <5>1. g \in (f[j] + 1)..o
          BY <1>1, <3>2, <4>1
        <5>. QED BY <3>2, <5>1
      <4>2. CASE ~(g <= o) /\ g # h
        <5>1. g \in (o + 1)..(h - 1)
          BY <1>1, <3>3, <4>2, <3>5
        <5>2. doc[g].level = 0
          BY <1>0, <5>1
        <5>. QED BY <5>2
      <4>3. CASE g = h
        BY <1>a, <1>1, <3>1, <4>3
      <4>. QED BY <4>1, <4>2, <4>3
    <3>4. f[j] \in 1..h
      BY <1>1, <3>2
    <3>. QED BY <1>10, <3>1, <3>2, <3>3, <3>4
  <2>. QED BY <2>1, <2>2
<1>13. Nested(h, e)
  BY <1>a, <1>b, <1>9, <1>12 DEF Nested
<1>14. Min({Len(f), l - 1}) = l - 1
  <2>1. PICK m \in Nat, n \in Nat : m = Len(f) /\ n = l - 1
    BY <1>1
  <2>2. Min({m, n}) = IF m <= n THEN m ELSE n
    BY ONLY MinOfTwo, m \in Int, n \in Int
  <2>3. n <= m
    BY <1>1, <2>1
  <2>4. Min({m, n}) = n
    BY <2>2, <2>3
  <2>. QED BY <2>1, <2>4
<1>. QED BY <1>a, <1>5, <1>6, <1>8, <1>13, <1>14 DEF Continues

(* In an outlined document the trail that _split_by_heading keeps is the    *)
(* reference's.                                                             *)
LEMMA HeadingsNested ==
  ASSUME doc \in Seq(Block), Outlined, NEW h \in 1..Len(doc), doc[h].level > 0,
         NEW o, o = Opens(h - 1), o > 0 => Nested(o, Enclosing[o])
  PROVE  /\ Nested(h, Enclosing[h])
         /\ Enclosing[h] = Append(CutAt(Enclosing[o], doc[h].level), h)
<1>1. /\ h \in Nat /\ h - 1 \in 0..Len(doc) /\ doc[h].level \in Nat
      /\ LastHeading(o, h - 1) /\ o \in 0..(h - 1)
  <2>1. h \in Nat /\ h - 1 \in 0..Len(doc) /\ doc[h].level \in Nat
    BY DocLevels
  <2>2. LastHeading(o, h - 1)
    BY <2>1, OpensLast
  <2>. QED BY <2>1, <2>2 DEF LastHeading
<1>2. doc[h].level <= 1 + (IF h = 1 \/ o = 0 THEN 0 ELSE doc[o].level)
  BY DEF Outlined
<1>3. CASE doc[h].level = 1
  <2>1. PICK f : f = Enclosing[o]
    OBVIOUS
  <2>2. Len(f) \in Nat
    <3>1. CASE o = 0
      BY <2>1, <3>1, EnclosingRec
    <3>2. CASE o # 0
      BY <1>1, <2>1, <3>2 DEF Nested
    <3>. QED BY <3>1, <3>2
  <2>3. Min({Len(f), 1 - 1}) = 0
    <3>1. PICK m \in Nat : m = Len(f)
      BY <2>2
    <3>2. Min({m, 0}) = 0
      BY MinOfTwo
    <3>. QED BY <3>1, <3>2
  <2>4. SubSeq(f, 1, 0) = <<>>
    BY SubSeqEmpty
  <2>5. CutAt(f, doc[h].level) = <<>>
    BY <1>3, <2>3, <2>4, Zenon DEF CutAt
  <2>6. Append(<<>>, h) = <<h>>
    OBVIOUS
  <2>. QED BY <1>3, <2>1, <2>5, <2>6, TopHeading
<1>4. CASE doc[h].level # 1
  <2>1. doc[h].level > 1 /\ o \in 1..(h - 1) /\ doc[h].level <= 1 + doc[o].level
    BY <1>1, <1>2, <1>4
  <2>2. Nested(o, Enclosing[o])
    BY <2>1
  <2>3. Continues(h, o)
    BY <1>1, <2>1, <2>2, LowerHeading
  <2>. QED BY <2>3 DEF Continues, CutAt
<1>. QED BY <1>3, <1>4

LEMMA TrailCut ==
  ASSUME doc \in Seq(Block), Outlined, NEW h \in 1..Len(doc), doc[h].level > 0
  PROVE  Enclosing[h] = Append(CutAt(Enclosing[Opens(h - 1)], doc[h].level), h)
<1> DEFINE OK(n) == \A k \in 1..Len(doc) : k <= n /\ doc[k].level > 0 => Nested(k, Enclosing[k])
           I == {n \in Nat : OK(n)}
<1>1. OK(0)
  BY DocLevels
<1>2. ASSUME NEW n \in Nat, OK(n) PROVE OK(n + 1)
  <2>1. ASSUME NEW k \in 1..Len(doc), k <= n + 1, doc[k].level > 0 PROVE Nested(k, Enclosing[k])
    <3>1. PICK o : o = Opens(k - 1)
      OBVIOUS
    <3>2. k \in Nat /\ k - 1 \in 0..Len(doc)
      BY DocLevels
    <3>3. LastHeading(o, k - 1)
      BY <3>1, <3>2, OpensLast
    <3>4. o > 0 => o \in 1..Len(doc) /\ o <= n /\ doc[o].level > 0
      BY <2>1, <3>2, <3>3, DocLevels DEF LastHeading
    <3>5. o > 0 => Nested(o, Enclosing[o])
      BY <1>2, <3>4
    <3>. QED BY <2>1, <3>1, <3>5, HeadingsNested
  <2>. QED BY <2>1
<1> HIDE DEF OK
<1>3. 0 \in I /\ \A n \in Nat : n \in I => n + 1 \in I
  <2>1. 0 \in I
    BY <1>1
  <2>2. ASSUME NEW n \in Nat, n \in I PROVE n + 1 \in I
    BY <1>2, <2>2
  <2>. QED BY <2>1, <2>2
<1>4. OK(h)
  <2> HIDE DEF I
  <2>1. Nat \subseteq I
    BY <1>3, SetInduction
  <2>2. h \in I
    BY <2>1, DocLevels
  <2>. QED BY <2>2 DEF I
<1>5. PICK o : o = Opens(h - 1)
  OBVIOUS
<1>6. h \in Nat /\ h - 1 \in 0..Len(doc)
  BY DocLevels
<1>7. LastHeading(o, h - 1)
  BY <1>5, <1>6, OpensLast
<1>8. o > 0 => o \in 1..Len(doc) /\ o <= h /\ doc[o].level > 0
  BY <1>6, <1>7, DocLevels DEF LastHeading
<1>9. o > 0 => Nested(o, Enclosing[o])
  BY <1>4, <1>8 DEF OK
<1>. QED BY <1>5, <1>9, HeadingsNested

-----------------------------------------------------------------------------
(* The chunks with text, picked from all.                                   *)
Filters(g, q, S) ==
  /\ g \in [0..Len(q) -> Seq(S)] /\ g[0] = <<>>
  /\ \A k \in 1..Len(q) : g[k] = WithText(g[k - 1], q[k])

FilterIs(q, r) == FoldLeft(WithText, <<>>, q) = r

LEMMA FilterSteps ==
  ASSUME NEW S, NEW q \in Seq(S)
  PROVE  \E g : Filters(g, q, S) /\ FilterIs(q, g[Len(q)])
<1>1. PICK n \in Nat : n = Len(q) /\ DOMAIN q = 1..n
  OBVIOUS
<1>2. PICK D : D = 1..n /\ D = DOMAIN q
  BY <1>1
<1>3. \A x \in D : q[x] \in S
  BY <1>1, <1>2
<1>4. ASSUME NEW v \in Seq(S), NEW x \in D PROVE WithText(v, q[x]) \in Seq(S)
  BY <1>3 DEF WithText
<1>5. PICK pick : pick = [s \in SUBSET D |-> Max(s)]
  OBVIOUS
<1>6. PICK step : step = [x \in D |-> [v \in Seq(S) |-> WithText(v, q[x])]]
  OBVIOUS
<1>7. ASSUME NEW s \in SUBSET D, s # {} PROVE Max(s) \in s
  <2>1. s \in SUBSET (0..n)
    BY <1>2
  <2>. QED BY <1>7, <2>1, MaxOf
<1>8. IsFiniteSet(D) /\ Picks(pick, D)
  <2>1. IsFiniteSet(D)
    BY <1>2, FS_Interval
  <2>. QED BY <1>5, <1>7, <2>1 DEF Picks
<1>9. step \in [D -> [Seq(S) -> Seq(S)]] /\ <<>> \in Seq(S)
  BY <1>4, <1>6
<1>10. PICK h : Folded(h, D, Seq(S), <<>>, pick, step)
  BY <1>8, <1>9, FoldExists
<1> DEFINE Is(f) == f = [s \in SUBSET D |-> IF s = {} THEN <<>>
                           ELSE WithText(f[s \ {Max(s)}], q[Max(s)])]
<1>11. Is(h)
  <2>1. ASSUME NEW s \in SUBSET D, s # {} PROVE h[s] = WithText(h[s \ {Max(s)}], q[Max(s)])
    <3>1. pick[s] = Max(s) /\ Max(s) \in D /\ s \ {Max(s)} \in SUBSET D
      BY <1>5, <1>7, <2>1
    <3>2. h[s] = step[Max(s)][h[s \ {Max(s)}]] /\ h[s \ {Max(s)}] \in Seq(S)
      BY <1>10, <2>1, <3>1 DEF Folded
    <3>. QED BY <1>6, <3>1, <3>2
  <2>2. h = [s \in SUBSET D |-> h[s]] /\ h[{}] = <<>>
    BY <1>10 DEF Folded
  <2>. QED BY <2>1, <2>2
<1>12. PICK f : f = CHOOSE ff : Is(ff)
  OBVIOUS
<1>13. Is(f)
  <2> HIDE DEF Is
  <2>. QED BY <1>11, <1>12
<1>14. FoldLeft(WithText, <<>>, q) = f[D]
  BY <1>2, <1>12 DEF FoldLeft, MapThenFoldSet
<1> DEFINE g == [k \in 0..n |-> f[1..k]]
<1>15. f[{}] = <<>>
  BY <1>13
<1>16. ASSUME NEW k \in 1..n PROVE f[1..k] = WithText(f[1..(k - 1)], q[k])
  <2>1. PICK s : s = 1..k
    OBVIOUS
  <2>2. s \in SUBSET D /\ s # {} /\ k \in s /\ s \subseteq Nat /\ \A x \in s : x <= k
    <3>1. k \in Nat /\ k >= 1 /\ k <= n
      BY <1>1
    <3>2. \A x \in s : x \in Nat /\ x >= 1 /\ x <= k
      BY <2>1, <3>1
    <3>3. k \in s
      BY <2>1, <3>1
    <3>4. \A x \in s : x \in D
      BY <1>1, <1>2, <3>1, <3>2
    <3>. QED BY <3>2, <3>3, <3>4
  <2>3. Max(s) = k
    BY <2>2, MaxIs
  <2>4. s \ {k} = 1..(k - 1)
    BY <2>1
  <2>5. f[s] = WithText(f[s \ {Max(s)}], q[Max(s)])
    BY <1>13, <2>2
  <2>. QED BY <2>1, <2>3, <2>4, <2>5
<1>17. g[0] = <<>>
  <2>1. 1..0 = {} /\ g[0] = f[1..0]
    BY <1>1
  <2>. QED BY <1>15, <2>1, Zenon
<1>18. ASSUME NEW k \in 1..n PROVE g[k] = WithText(g[k - 1], q[k])
  <2>1. g[k] = f[1..k] /\ g[k - 1] = f[1..(k - 1)]
    <3>1. k \in 0..n /\ k - 1 \in 0..n
      BY <1>1
    <3>. QED BY <3>1
  <2> HIDE DEF g
  <2>. QED BY <1>16, <2>1
<1>19. \A k \in 0..n : g[k] \in Seq(S)
  <2> DEFINE OK(k) == k <= n => g[k] \in Seq(S)
             I == {k \in Nat : OK(k)}
  <2> HIDE DEF g
  <2>1. OK(0)
    BY <1>9, <1>17
  <2>2. ASSUME NEW k \in Nat, OK(k) PROVE OK(k + 1)
    <3>1. SUFFICES ASSUME k + 1 <= n PROVE g[k + 1] \in Seq(S)
      OBVIOUS
    <3>2. k + 1 \in 1..n /\ k + 1 \in D /\ g[k] \in Seq(S) /\ (k + 1) - 1 = k
      BY <1>1, <1>2, <2>2, <3>1
    <3>3. g[k + 1] = WithText(g[(k + 1) - 1], q[k + 1])
      BY <1>18, <3>2
    <3>. QED BY <1>4, <3>2, <3>3
  <2> HIDE DEF OK
  <2>3. 0 \in I /\ \A k \in Nat : k \in I => k + 1 \in I
    BY <2>1, <2>2
  <2> HIDE DEF I
  <2>4. Nat \subseteq I
    BY <2>3, SetInduction
  <2>. QED BY <1>1, <2>4 DEF I, OK
<1>20. g \in [0..n -> Seq(S)] /\ g[n] = f[D]
  <2>1. n \in 0..n
    BY <1>1
  <2>. QED BY <1>2, <1>19, <2>1
<1> HIDE DEF g
<1>. QED BY <1>1, <1>14, <1>17, <1>18, <1>20 DEF Filters, FilterIs

(* r has those of the first n elements of q that have text; m says where    *)
(* they come from.                                                          *)
Selects(r, q, n, m) ==
  /\ m \in [1..Len(r) -> 1..n]
  /\ \A k \in 1..Len(r) : r[k] = q[m[k]] /\ HasText(q[m[k]])
  /\ \A j, k \in 1..Len(r) : j < k => m[j] < m[k]
  /\ \A x \in 1..n : HasText(q[x]) => \E k \in 1..Len(r) : m[k] = x

LEMMA SelectsMore ==
  ASSUME NEW S, NEW q \in Seq(S), NEW n \in 0..(Len(q) - 1), NEW r \in Seq(S),
         NEW m, Selects(r, q, n, m)
  PROVE  \E mm : Selects(WithText(r, q[n + 1]), q, n + 1, mm)
<1>1. n \in Nat /\ n + 1 \in 1..Len(q) /\ q[n + 1] \in S /\ Len(r) \in Nat
  OBVIOUS
<1>2. /\ m \in [1..Len(r) -> 1..n]
      /\ \A k \in 1..Len(r) : r[k] = q[m[k]] /\ HasText(q[m[k]])
      /\ \A j, k \in 1..Len(r) : j < k => m[j] < m[k]
      /\ \A x \in 1..n : HasText(q[x]) => \E k \in 1..Len(r) : m[k] = x
  BY DEF Selects
<1>3. CASE ~HasText(q[n + 1])
  <2>1. WithText(r, q[n + 1]) = r
    BY <1>3 DEF WithText
  <2>2. \A x \in 1..(n + 1) : HasText(q[x]) => x \in 1..n
    <3>1. \A x \in 1..(n + 1) : x # n + 1 => x \in 1..n
      BY <1>1
    <3>. QED BY <1>3, <3>1
  <2>3. m \in [1..Len(r) -> 1..(n + 1)]
    BY <1>1, <1>2
  <2>4. Selects(r, q, n + 1, m)
    BY <1>2, <2>2, <2>3 DEF Selects
  <2>. QED BY <2>1, <2>4
<1>4. CASE HasText(q[n + 1])
  <2>1. PICK s : s = Append(r, q[n + 1])
    OBVIOUS
  <2>2. PICK l \in Nat : l = Len(r)
    BY <1>1
  <2>3. WithText(r, q[n + 1]) = s
    BY <1>4, <2>1 DEF WithText
  <2>4. Len(s) = l + 1 /\ s[l + 1] = q[n + 1] /\ \A k \in 1..l : s[k] = r[k]
    BY <1>1, <2>1, <2>2, AppendProperties
  <2>5. PICK mm : mm = [k \in 1..(l + 1) |-> IF k <= l THEN m[k] ELSE n + 1]
    OBVIOUS
  <2>6. mm[l + 1] = n + 1 /\ \A k \in 1..l : mm[k] = m[k]
    BY <2>5
  <2>7. mm \in [1..(l + 1) -> 1..(n + 1)]
    BY <1>1, <1>2, <2>2, <2>5
  <2>8. ASSUME NEW k \in 1..(l + 1) PROVE s[k] = q[mm[k]] /\ HasText(q[mm[k]])
    <3>1. CASE k = l + 1
      BY <1>4, <2>4, <2>6, <3>1
    <3>2. CASE k # l + 1
      <4>1. k \in 1..l
        BY <3>2
      <4>. QED BY <1>2, <2>2, <2>4, <2>6, <4>1
    <3>. QED BY <3>1, <3>2
  <2>9. ASSUME NEW j \in 1..(l + 1), NEW k \in 1..(l + 1), j < k PROVE mm[j] < mm[k]
    <3>1. j \in 1..l
      BY <2>9
    <3>2. mm[j] = m[j] /\ m[j] \in 1..n
      BY <1>2, <2>2, <2>6, <3>1
    <3>3. CASE k = l + 1
      BY <1>1, <2>6, <3>2, <3>3
    <3>4. CASE k # l + 1
      <4>1. k \in 1..l
        BY <3>4
      <4>2. mm[k] = m[k]
        BY <2>6, <4>1
      <4>3. m[j] < m[k]
        BY <1>2, <2>2, <2>9, <3>1, <4>1
      <4>. QED BY <3>2, <4>2, <4>3
    <3>. QED BY <3>3, <3>4
  <2>10. ASSUME NEW x \in 1..(n + 1), HasText(q[x]) PROVE \E k \in 1..(l + 1) : mm[k] = x
    <3>1. CASE x = n + 1
      BY <2>6, <3>1
    <3>2. CASE x # n + 1
      <4>1. x \in 1..n
        BY <1>1, <3>2
      <4>2. PICK k \in 1..l : m[k] = x
        BY <1>2, <2>2, <2>10, <4>1
      <4>3. k \in 1..(l + 1) /\ mm[k] = x
        BY <2>6, <4>2
      <4>. QED BY <4>3
    <3>. QED BY <3>1, <3>2
  <2>11. Selects(s, q, n + 1, mm)
    BY <2>4, <2>7, <2>8, <2>9, <2>10 DEF Selects
  <2>. QED BY <2>3, <2>11
<1>. QED BY <1>3, <1>4

LEMMA Filtered ==
  ASSUME NEW S, NEW q \in Seq(S), NEW r, FilterIs(q, r)
  PROVE  r \in Seq(S) /\ \E m : Selects(r, q, Len(q), m)
<1>1. PICK g : Filters(g, q, S) /\ FilterIs(q, g[Len(q)])
  BY FilterSteps
<1>2. r = g[Len(q)]
  BY <1>1 DEF FilterIs
<1>3. PICK n \in Nat : n = Len(q)
  OBVIOUS
<1>4. /\ \A k \in 0..n : g[k] \in Seq(S)
      /\ g[0] = <<>> /\ \A k \in 1..n : g[k] = WithText(g[k - 1], q[k])
  BY <1>1, <1>3 DEF Filters
<1> DEFINE OK(k) == k <= n => \E m : Selects(g[k], q, k, m)
           I == {k \in Nat : OK(k)}
<1>5. OK(0)
  <2>1. PICK m : m = [k \in 1..0 |-> 0]
    OBVIOUS
  <2>2. 1..0 = {} /\ Len(<<>>) = 0
    OBVIOUS
  <2>3. Selects(<<>>, q, 0, m)
    BY <2>1, <2>2 DEF Selects
  <2>. QED BY <1>4, <2>3
<1>6. ASSUME NEW k \in Nat, OK(k) PROVE OK(k + 1)
  <2>1. SUFFICES ASSUME k + 1 <= n PROVE \E m : Selects(g[k + 1], q, k + 1, m)
    OBVIOUS
  <2>2. PICK m : Selects(g[k], q, k, m)
    BY <1>6, <2>1
  <2>3. k \in 0..(Len(q) - 1) /\ g[k] \in Seq(S)
    BY <1>3, <1>4, <2>1
  <2>4. g[k + 1] = WithText(g[k], q[k + 1])
    <3>1. k + 1 \in 1..n /\ (k + 1) - 1 = k
      BY <2>1
    <3>. QED BY <1>4, <3>1
  <2>5. \E mm : Selects(WithText(g[k], q[k + 1]), q, k + 1, mm)
    BY <2>2, <2>3, SelectsMore
  <2>. QED BY <2>4, <2>5
<1> HIDE DEF OK
<1>7. 0 \in I /\ \A k \in Nat : k \in I => k + 1 \in I
  BY <1>5, <1>6
<1> HIDE DEF I
<1>8. n \in I
  BY <1>7, SetInduction
<1>9. \E m : Selects(g[n], q, n, m)
  BY <1>8 DEF I, OK
<1>. QED BY <1>2, <1>3, <1>4, <1>9

-----------------------------------------------------------------------------
(* Invariants of chunk_markdown.                                            *)

(* A section: the blocks behind a heading, up to the next one.              *)
SectionType ==
  [from : 1..Len(doc), to : 1..Len(doc), trail : Seq(1..Len(doc)), start : Nat]

SectionOK(s) ==
  /\ s \in SectionType /\ s.from <= s.to /\ s.start = Offset[s.from]
  /\ \A k \in (s.from + 1)..s.to : doc[k].level = 0
  /\ Outlined => s.trail = Enclosing[Opens(s.from)]

Whole(s) == s.to < Len(doc) => doc[s.to + 1].level > 0

(* The sections q are those of the blocks a..b.                             *)
SectionsAre(q, a, b) ==
  /\ q \in Seq(SectionType) /\ \A k \in 1..Len(q) : SectionOK(q[k]) /\ Whole(q[k])
  /\ IF Len(q) = 0 THEN a = b + 1 ELSE q[1].from = a /\ q[Len(q)].to = b
  /\ \A k \in 1..(Len(q) - 1) : q[k + 1].from = q[k].to + 1

(* A chunk: some blocks of one section, or none; chunk c carries the end of *)
(* chunk b.                                                                 *)
ChunkType == [from : 1..(Len(doc) + 1), to : 0..Len(doc), start : Nat, end : Nat,
              trail : Seq(1..Len(doc)), tail : Nat]

OfBlocks(c) ==
  /\ c.start = Offset[c.from] /\ c.end = Offset[c.to] + doc[c.to].bytes
  /\ Opens(c.from) = Opens(c.to)
  /\ c.from < c.to => Chars(c.from, c.to) <= Target
  /\ c.to < Len(doc) /\ doc[c.to + 1].level = 0 => Chars(c.from, c.to + 1) + 2 > Target
  /\ Outlined => c.trail = Enclosing[Opens(c.from)]

ChunkOK(c) ==
  c \in ChunkType /\ IF c.from <= c.to THEN OfBlocks(c) ELSE c.start = c.end

Carries(b, c) ==
  /\ b.from <= b.to /\ b.to = c.from - 1
  /\ c.from <= c.to => Opens(c.from) = Opens(b.to)
  /\ c.tail = Carried(b.from, b.to)

ChunksAre(q) ==
  /\ q \in Seq(ChunkType) /\ \A k \in 1..Len(q) : ChunkOK(q[k])
  /\ \A k \in 1..Len(q) : q[k].tail # 0 => k > 1 /\ Carries(q[k - 1], q[k])

(* The chunks q have the blocks up to n, in order.                          *)
Covers(q, n) ==
  /\ \A b \in 1..n : \E k \in 1..Len(q) : b \in q[k].from..q[k].to
  /\ \A k \in 1..Len(q) : q[k].to <= n
  /\ \A j, k \in 1..Len(q) : j < k /\ q[k].from <= q[k].to => q[j].to < q[k].from

(* What is buffered, f, of the section s, when its next paragraph is u and  *)
(* begins at byte x of it.                                                 *)
TooLong(s) == Chars(s.from, s.to) + (IF s.to < Len(doc) THEN 2 ELSE 0) > Target

BufferType == [count : Nat, from : 1..(Len(doc) + 1), to : 1..Len(doc), start : Nat, end : Nat,
               chars : Nat]

Buffered(f, s, u, x) ==
  /\ f \in BufferType /\ f.count > 0
  /\ s.from <= f.from /\ f.count = u - f.from
  /\ u <= s.to + 2 /\ (u = s.to + 2 => s.to < Len(doc))
  /\ f.to = (IF u <= s.to THEN u - 1 ELSE s.to) /\ x = Offset[f.to + 1] - Offset[s.from]
  /\ IF f.from <= f.to
     THEN /\ f.start = Offset[f.from] - Offset[s.from]
          /\ f.end = Offset[f.to] + doc[f.to].bytes - Offset[s.from]
          /\ f.chars = Chars(f.from, f.to) + (IF u = s.to + 2 THEN 4 ELSE 2)
     ELSE f.start = f.end
  /\ f.count > 1 => f.chars <= Target

(* The text t that the next chunk carries is of the last one, in section s. *)
TailIs(t, f, s, q) ==
  t # 0 =>
    /\ Len(q) > 0 /\ q[Len(q)].from <= q[Len(q)].to
    /\ q[Len(q)].to = f.from - 1 /\ s.from <= q[Len(q)].to
    /\ t = Carried(q[Len(q)].from, q[Len(q)].to)

Empty == p = 1 /\ cursor = 0 /\ tail = 0 /\ buf = NoParas

Open == [from |-> from, to |-> i - 1, trail |-> trail, start |-> start]

SplitOK ==
  /\ Empty /\ chunks = <<>> /\ Len(doc) > 0 /\ SectionsAre(sections, 1, from - 1)
  /\ IF i = 1 THEN trail = <<>> ELSE from < i /\ SectionOK(Open)

PackOK ==
  /\ Len(doc) > 0 /\ ChunksAre(chunks)
  /\ \E a \in 1..(Len(doc) + 1) :
       /\ SectionsAre(sections, a, Len(doc))
       /\ IF buf.count = 0 THEN Empty /\ Covers(chunks, a - 1)
          ELSE /\ Len(sections) > 0 /\ TooLong(sections[1])
               /\ Buffered(buf, sections[1], a + p - 1, cursor)
               /\ TailIs(tail, buf, sections[1], chunks) /\ Covers(chunks, buf.from - 1)

ResultOK ==
  /\ Empty /\ Len(doc) > 0 /\ ChunksAre(chunks) /\ Covers(chunks, Len(doc))
  /\ \A k \in 1..Len(chunks) : HasText(chunks[k])

PlacesOK ==
  /\ overlap \in {0} \cup Overlaps /\ doc \in Seq(Block) /\ Len(doc) <= MaxBlocks
  /\ i \in 1..(Len(doc) + 1) /\ from \in 1..i /\ trail \in Seq(1..Len(doc))
  /\ seen = Offset[i] /\ start = Offset[from]
  /\ {cursor, tail} \subseteq Nat /\ p \in 1..(MaxBlocks + 2)

ChunkInv ==
  /\ phase \in {"idle", "split", "pack", "done", "redacted"} /\ PlacesOK
  /\ phase = "idle" => Empty /\ chunks = <<>>
  /\ phase = "split" => SplitOK
  /\ phase = "pack" => PackOK
  /\ phase \in {"done", "redacted"} => ResultOK

-----------------------------------------------------------------------------
(* They say nothing of the steps that leave the document alone.             *)
LEMMA DocSame ==
  ASSUME doc' = doc
  PROVE  /\ Offset' = Offset /\ Enclosing' = Enclosing
         /\ Outlined' <=> Outlined
<1>1. Offset' = Offset
  BY DEF Offset
<1>2. Enclosing' = Enclosing
  BY DEF Enclosing, Max
<1>3. Outlined' <=> Outlined
  BY DEF Outlined, Opens, Max
<1>. QED BY <1>1, <1>2, <1>3

LEMMA OpensSame ==
  ASSUME doc' = doc, NEW k
  PROVE  Opens(k)' = Opens(k)
BY DEF Opens, Max

LEMMA CharsSame ==
  ASSUME doc' = doc, NEW a, NEW b
  PROVE  Chars(a, b)' = Chars(a, b)
BY DEF Chars, MapThenSumSet, MapThenFoldSet

LEMMA SectionSame ==
  ASSUME doc' = doc, NEW s
  PROVE  (SectionOK(s)' <=> SectionOK(s)) /\ (Whole(s)' <=> Whole(s))
<1>1. PICK f : f = s.from
  OBVIOUS
<1>2. Opens(f)' = Opens(f)
  BY OpensSame
<1>3. SectionOK(s)' <=> SectionOK(s)
  BY <1>1, <1>2, DocSame DEF SectionOK, SectionType
<1>4. Whole(s)' <=> Whole(s)
  BY DEF Whole
<1>. QED BY <1>3, <1>4

LEMMA SectionsSame ==
  ASSUME doc' = doc, NEW q, NEW a, NEW b
  PROVE  SectionsAre(q, a, b)' <=> SectionsAre(q, a, b)
<1>1. ASSUME NEW k \in 1..Len(q)
      PROVE  (SectionOK(q[k])' <=> SectionOK(q[k])) /\ (Whole(q[k])' <=> Whole(q[k]))
  BY SectionSame
<1>2. SectionType' = SectionType
  BY DEF SectionType
<1>. QED BY <1>1, <1>2 DEF SectionsAre

LEMMA ChunkSame ==
  ASSUME doc' = doc, NEW c
  PROVE  ChunkOK(c)' <=> ChunkOK(c)
<1>1. PICK a, b : a = c.from /\ b = c.to
  OBVIOUS
<1>2. /\ Opens(a)' = Opens(a) /\ Opens(b)' = Opens(b)
      /\ Chars(a, b)' = Chars(a, b) /\ Chars(a, b + 1)' = Chars(a, b + 1)
  BY OpensSame, CharsSame
<1>3. ChunkType' = ChunkType
  BY DEF ChunkType
<1>. QED BY <1>1, <1>2, <1>3, DocSame DEF ChunkOK, OfBlocks

LEMMA CarriedSame ==
  ASSUME doc' = doc, overlap' = overlap, NEW a, NEW b
  PROVE  Carried(a, b)' = Carried(a, b)
BY DEF Carried, Min, Sep, Chars, MapThenSumSet, MapThenFoldSet

LEMMA CarriesSame ==
  ASSUME doc' = doc, overlap' = overlap, NEW b, NEW c
  PROVE  Carries(b, c)' <=> Carries(b, c)
<1>1. PICK k, m, n : k = c.from /\ m = b.from /\ n = b.to
  OBVIOUS
<1>2. Opens(k)' = Opens(k) /\ Opens(n)' = Opens(n) /\ Carried(m, n)' = Carried(m, n)
  BY OpensSame, CarriedSame
<1>. QED BY <1>1, <1>2 DEF Carries

LEMMA ChunksSame ==
  ASSUME doc' = doc, overlap' = overlap, NEW q
  PROVE  ChunksAre(q)' <=> ChunksAre(q)
<1>1. ASSUME NEW k \in 1..Len(q)
      PROVE  /\ ChunkOK(q[k])' <=> ChunkOK(q[k])
             /\ Carries(q[k - 1], q[k])' <=> Carries(q[k - 1], q[k])
  BY ChunkSame, CarriesSame
<1>2. ChunkType' = ChunkType
  BY DEF ChunkType
<1>. QED BY <1>1, <1>2 DEF ChunksAre

LEMMA BufferSame ==
  ASSUME doc' = doc, overlap' = overlap, NEW f, NEW s, NEW u, NEW x, NEW t, NEW q
  PROVE  /\ TooLong(s)' <=> TooLong(s)
         /\ Buffered(f, s, u, x)' <=> Buffered(f, s, u, x)
         /\ TailIs(t, f, s, q)' <=> TailIs(t, f, s, q)
<1>1. PICK a, b, c, d, e, g :
        a = s.from /\ b = s.to /\ c = f.from /\ d = f.to /\ e = q[Len(q)].from /\ g = q[Len(q)].to
  OBVIOUS
<1>2. /\ Chars(a, b)' = Chars(a, b) /\ Chars(c, d)' = Chars(c, d)
      /\ Chars(e, g)' = Chars(e, g)
  BY CharsSame
<1>3. BufferType' = BufferType
  BY DEF BufferType
<1>4. TooLong(s)' <=> TooLong(s)
  BY <1>1, <1>2 DEF TooLong
<1>5. Buffered(f, s, u, x)' <=> Buffered(f, s, u, x)
  BY <1>1, <1>2, <1>3, DocSame DEF Buffered
<1>6. TailIs(t, f, s, q)' <=> TailIs(t, f, s, q)
  <2>1. Carried(e, g)' = Carried(e, g)
    BY CarriedSame
  <2>. QED BY <1>1, <2>1 DEF TailIs
<1>. QED BY <1>4, <1>5, <1>6

-----------------------------------------------------------------------------
LEMMA OpensThrough ==
  ASSUME doc \in Seq(Block), NEW a \in 1..Len(doc), NEW b \in a..Len(doc),
         \A k \in (a + 1)..b : doc[k].level = 0
  PROVE  Opens(b) = Opens(a)
<1>1. a \in Nat /\ b \in Nat /\ a <= b /\ a \in 0..Len(doc) /\ b \in 0..Len(doc)
  BY DocLevels
<1>2. PICK h : h = Opens(a)
  OBVIOUS
<1>3. LastHeading(h, a)
  BY <1>1, <1>2, OpensLast
<1>4. h \in 0..b /\ (h # 0 => doc[h].level > 0) /\ h \in Nat
  BY <1>1, <1>3 DEF LastHeading
<1>5. ASSUME NEW j \in (h + 1)..b PROVE doc[j].level = 0
  <2>1. j \in Nat /\ j >= h + 1 /\ j <= b
    BY <1>1, <1>4
  <2>2. CASE j <= a
    <3>1. j \in (h + 1)..a
      BY <1>1, <1>4, <2>1, <2>2
    <3>. QED BY <1>3, <3>1 DEF LastHeading
  <2>3. CASE ~(j <= a)
    BY <1>1, <2>1, <2>3
  <2>. QED BY <2>2, <2>3
<1>6. LastHeading(h, b)
  BY <1>4, <1>5 DEF LastHeading
<1>. QED BY <1>1, <1>2, <1>6, OpensIs

LEMMA SectionsMore ==
  ASSUME doc \in Seq(Block), NEW a \in Nat, NEW b \in Nat, NEW q, SectionsAre(q, a, b),
         NEW s, SectionOK(s), Whole(s), s.from = b + 1,
         NEW r, r = Append(q, s)
  PROVE  SectionsAre(r, a, s.to)
<1>1. q \in Seq(SectionType) /\ s \in SectionType
  BY DEF SectionsAre, SectionOK
<1>2. PICK l \in Nat : l = Len(q)
  BY <1>1
<1>3. /\ r \in Seq(SectionType) /\ Len(r) = l + 1 /\ r[l + 1] = s
      /\ \A k \in 1..l : r[k] = q[k]
  BY <1>1, <1>2, AppendProperties
<1>4. /\ \A k \in 1..l : SectionOK(q[k]) /\ Whole(q[k])
      /\ IF l = 0 THEN a = b + 1 ELSE q[1].from = a /\ q[l].to = b
      /\ \A k \in 1..(l - 1) : q[k + 1].from = q[k].to + 1
  BY <1>2 DEF SectionsAre
<1>5. ASSUME NEW k \in 1..(l + 1) PROVE SectionOK(r[k]) /\ Whole(r[k])
  <2>1. CASE k = l + 1
    BY <1>3, <2>1
  <2>2. CASE k # l + 1
    <3>1. k \in 1..l
      BY <2>2
    <3>. QED BY <1>3, <1>4, <3>1
  <2>. QED BY <2>1, <2>2
<1>6. r[1].from = a
  <2>1. CASE l = 0
    BY <1>3, <1>4, <2>1
  <2>2. CASE l # 0
    <3>1. 1 \in 1..l
      BY <2>2
    <3>. QED BY <1>3, <1>4, <2>2, <3>1
  <2>. QED BY <2>1, <2>2
<1>7. ASSUME NEW k \in 1..l PROVE r[k + 1].from = r[k].to + 1
  <2>1. CASE k = l
    <3>1. r[k + 1] = s /\ r[k] = q[k] /\ l # 0
      BY <1>3, <2>1
    <3>. QED BY <1>4, <2>1, <3>1
  <2>2. CASE k # l
    <3>1. k \in 1..(l - 1) /\ k + 1 \in 1..l
      BY <2>2
    <3>. QED BY <1>3, <1>4, <3>1
  <2>. QED BY <2>1, <2>2
<1>8. (l + 1) - 1 = l /\ l + 1 # 0
  OBVIOUS
<1>. QED BY <1>3, <1>5, <1>6, <1>7, <1>8 DEF SectionsAre

SectionsBehind(q, r, s, b) ==
  /\ SectionOK(s) /\ Whole(s) /\ SectionsAre(r, s.to + 1, b)

Divides(q, r, s) == Len(q) > 0 /\ r = Tail(q) /\ s = Head(q)

LEMMA SectionsTail ==
  ASSUME doc \in Seq(Block), NEW a, NEW b \in Nat, NEW q, SectionsAre(q, a, b),
         NEW r, NEW s, Divides(q, r, s)
  PROVE  SectionsBehind(q, r, s, b) /\ s = q[1] /\ s.from = a
<1>. /\ Len(q) > 0 /\ r = Tail(q) /\ s = Head(q)
  BY DEF Divides
<1>1. q \in Seq(SectionType) /\ q # <<>>
  BY DEF SectionsAre
<1>2. PICK l \in Nat : l = Len(r)
  BY <1>1, HeadTailProperties
<1>3. /\ s = q[1] /\ r \in Seq(SectionType) /\ Len(q) = l + 1
      /\ \A k \in 1..l : r[k] = q[k + 1]
  BY <1>1, <1>2, HeadTailProperties
<1>4. /\ \A k \in 1..(l + 1) : SectionOK(q[k]) /\ Whole(q[k])
      /\ q[1].from = a /\ q[l + 1].to = b
      /\ \A k \in 1..l : q[k + 1].from = q[k].to + 1
  <2>1. l + 1 # 0 /\ (l + 1) - 1 = l
    OBVIOUS
  <2>. QED BY <1>3, <2>1 DEF SectionsAre
<1>5. SectionOK(s) /\ Whole(s)
  <2>1. 1 \in 1..(l + 1)
    OBVIOUS
  <2>. QED BY <1>3, <1>4, <2>1
<1>6. ASSUME NEW k \in 1..l PROVE SectionOK(r[k]) /\ Whole(r[k])
  <2>1. k + 1 \in 1..(l + 1)
    OBVIOUS
  <2>. QED BY <1>3, <1>4, <2>1
<1>7. IF l = 0 THEN s.to + 1 = b + 1 ELSE r[1].from = s.to + 1 /\ r[l].to = b
  <2>1. CASE l = 0
    BY <1>3, <1>4, <2>1
  <2>2. CASE l # 0
    <3>1. 1 \in 1..l /\ l \in 1..l
      BY <2>2
    <3>2. r[1] = q[1 + 1] /\ r[l] = q[l + 1] /\ q[1 + 1].from = q[1].to + 1
      BY <1>3, <1>4, <3>1
    <3>. QED BY <1>3, <1>4, <2>2, <3>2
  <2>. QED BY <2>1, <2>2
<1>8. ASSUME NEW k \in 1..(l - 1) PROVE r[k + 1].from = r[k].to + 1
  <2>1. k \in 1..l /\ k + 1 \in 1..l
    OBVIOUS
  <2>2. r[k + 1] = q[(k + 1) + 1] /\ r[k] = q[k + 1]
    BY <1>3, <2>1
  <2>3. q[(k + 1) + 1].from = q[k + 1].to + 1
    BY <1>4, <2>1
  <2>. QED BY <2>2, <2>3
<1>9. SectionsAre(r, s.to + 1, b)
  BY <1>2, <1>3, <1>6, <1>7, <1>8 DEF SectionsAre
<1>. QED BY <1>3, <1>4, <1>5, <1>9 DEF SectionsBehind

LEMMA ChunksMore ==
  ASSUME NEW q, ChunksAre(q), NEW c, ChunkOK(c),
         c.tail # 0 => Len(q) > 0 /\ Carries(q[Len(q)], c),
         NEW r, r = Append(q, c)
  PROVE  ChunksAre(r)
<1>1. q \in Seq(ChunkType) /\ c \in ChunkType
  BY DEF ChunksAre, ChunkOK
<1>2. PICK l \in Nat : l = Len(q)
  BY <1>1
<1>3. /\ r \in Seq(ChunkType) /\ Len(r) = l + 1 /\ r[l + 1] = c
      /\ \A k \in 1..l : r[k] = q[k]
  BY <1>1, <1>2, AppendProperties
<1>4. ASSUME NEW k \in 1..(l + 1)
      PROVE  ChunkOK(r[k]) /\ (r[k].tail # 0 => k > 1 /\ Carries(r[k - 1], r[k]))
  <2>1. CASE k = l + 1
    <3>1. r[k] = c /\ k - 1 = l
      BY <1>3, <2>1
    <3>2. c.tail # 0 => l > 0 /\ Carries(q[l], c)
      BY <1>2
    <3>3. l > 0 => r[l] = q[l] /\ k > 1
      BY <1>3, <2>1
    <3>. QED BY <3>1, <3>2, <3>3
  <2>2. CASE k # l + 1
    <3>1. k \in 1..l
      BY <2>2
    <3>2. ChunkOK(q[k]) /\ (q[k].tail # 0 => k > 1 /\ Carries(q[k - 1], q[k]))
      BY <1>2, <3>1 DEF ChunksAre
    <3>3. k > 1 => r[k - 1] = q[k - 1]
      <4>1. k > 1 => k - 1 \in 1..l
        BY <3>1
      <4>. QED BY <1>3, <4>1
    <3>. QED BY <1>3, <3>1, <3>2, <3>3
  <2>. QED BY <2>1, <2>2
<1>. QED BY <1>3, <1>4 DEF ChunksAre

LEMMA CoversMore ==
  ASSUME doc \in Seq(Block), NEW q, q \in Seq(ChunkType), NEW n \in Nat, Covers(q, n),
         NEW c \in ChunkType, NEW e \in Nat,
         IF c.from <= c.to THEN c.from = n + 1 /\ c.to = e ELSE c.to <= n /\ e = n,
         NEW r, r = Append(q, c)
  PROVE  Covers(r, e)
<1>2. PICK l \in Nat : l = Len(q)
  OBVIOUS
<1>3. Len(r) = l + 1 /\ r[l + 1] = c /\ \A k \in 1..l : r[k] = q[k]
  BY <1>2, AppendProperties
<1>4. /\ \A b \in 1..n : \E k \in 1..l : b \in q[k].from..q[k].to
      /\ \A k \in 1..l : q[k].to <= n
      /\ \A j, k \in 1..l : j < k /\ q[k].from <= q[k].to => q[j].to < q[k].from
  BY <1>2 DEF Covers
<1>5. c.from \in Nat /\ c.to \in Nat /\ n <= e /\ c.to <= e
  <2>1. c.from \in Nat /\ c.to \in Nat
    BY DocLevels DEF ChunkType
  <2>. QED BY <2>1
<1>6. ASSUME NEW k \in 1..l PROVE q[k].to \in Nat
  <2>1. q[k] \in ChunkType
    BY <1>2
  <2>. QED BY <2>1, DocLevels DEF ChunkType
<1>7. ASSUME NEW b \in 1..e PROVE \E k \in 1..(l + 1) : b \in r[k].from..r[k].to
  <2>1. CASE b <= n
    <3>1. PICK k \in 1..l : b \in q[k].from..q[k].to
      BY SMTT(20), <1>4, <2>1
    <3>2. k \in 1..(l + 1) /\ r[k] = q[k]
      BY <1>3
    <3>. QED BY <3>1, <3>2
  <2>2. CASE ~(b <= n)
    <3>1. b \in c.from..c.to
      BY <1>5, <2>2
    <3>2. l + 1 \in 1..(l + 1)
      OBVIOUS
    <3>. QED BY <1>3, <3>1, <3>2
  <2>. QED BY <2>1, <2>2
<1>8. ASSUME NEW k \in 1..(l + 1) PROVE r[k].to <= e
  <2>1. CASE k = l + 1
    BY <1>3, <1>5, <2>1
  <2>2. CASE k # l + 1
    <3>1. k \in 1..l
      BY <2>2
    <3>2. q[k].to <= n /\ r[k] = q[k] /\ q[k].to \in Nat
      BY <1>3, <1>4, <1>6, <3>1
    <3>. QED BY <1>5, <3>2
  <2>. QED BY <2>1, <2>2
<1>9. ASSUME NEW j \in 1..(l + 1), NEW k \in 1..(l + 1), j < k, r[k].from <= r[k].to
      PROVE  r[j].to < r[k].from
  <2>1. j \in 1..l /\ r[j] = q[j] /\ q[j].to <= n /\ q[j].to \in Nat
    <3>1. j \in 1..l
      BY <1>9
    <3>. QED BY <1>3, <1>4, <1>6, <3>1
  <2>2. CASE k = l + 1
    BY <1>3, <1>5, <1>9, <2>1, <2>2
  <2>3. CASE k # l + 1
    <3>1. k \in 1..l
      BY <2>3
    <3>. QED BY <1>3, <1>4, <1>9, <2>1, <3>1
  <2>. QED BY <2>2, <2>3
<1>. QED BY <1>3, <1>7, <1>8, <1>9 DEF Covers

-----------------------------------------------------------------------------
(* The buffer of _split_paragraphs.                                         *)

LEMMA SectionFacts ==
  ASSUME doc \in Seq(Block), NEW s, SectionOK(s)
  PROVE  /\ s.from \in 1..Len(doc) /\ s.to \in 1..Len(doc) /\ s.from <= s.to
         /\ s.from \in Nat /\ s.to \in Nat /\ s.start = Offset[s.from]
         /\ s.start \in Nat /\ s.trail \in Seq(1..Len(doc)) /\ Len(doc) \in Nat
BY DocLevels DEF SectionOK, SectionType

LEMMA OffsetNext ==
  ASSUME doc \in Seq(Block), NEW k \in 1..Len(doc)
  PROVE  /\ Offset[k] \in Nat /\ Offset[k + 1] \in Nat /\ doc[k].bytes \in Nat
         /\ Offset[k + 1] = Offset[k] + doc[k].bytes + 2
<1>1. k \in 1..(Len(doc) + 1) /\ k + 1 \in 1..(Len(doc) + 1) /\ doc[k] \in Block
  BY DocLevels
<1>. QED BY <1>1, OffsetSums, ChunkerAssumption

(* Paragraph u of section s, with the byte x it begins at.                  *)
Blank(u, s) == u > s.to
CostOf(u, s) == (IF Blank(u, s) THEN 0 ELSE doc[u].chars) + 2
Behind(u, s, x) == IF Blank(u, s) THEN x ELSE x + doc[u].bytes + 2
IsParagraph(u, s) == u \in s.from..(s.to + 1) /\ (u = s.to + 1 => s.to < Len(doc))

JustThis(u, s, x) ==
  [count |-> 1, from |-> u, to |-> IF Blank(u, s) THEN u - 1 ELSE u, start |-> x,
   end |-> IF Blank(u, s) THEN x ELSE x + doc[u].bytes, chars |-> CostOf(u, s)]

AndThis(f, u, s, x) ==
  [count |-> f.count + 1, from |-> f.from, to |-> IF Blank(u, s) THEN u - 1 ELSE u,
   start |-> f.start, end |-> IF Blank(u, s) THEN f.end ELSE x + doc[u].bytes,
   chars |-> f.chars + CostOf(u, s)]

LEMMA BufferFirst ==
  ASSUME doc \in Seq(Block), NEW s, SectionOK(s), NEW u, IsParagraph(u, s),
         NEW x \in Nat, x = Offset[u] - Offset[s.from]
  PROVE  Buffered(JustThis(u, s, x), s, u + 1, Behind(u, s, x))
<1>1. PICK a, b, n : a = s.from /\ b = s.to /\ n = Len(doc)
  OBVIOUS
<1>2. /\ a \in Nat /\ b \in Nat /\ n \in Nat /\ a >= 1 /\ a <= b /\ b <= n
      /\ u \in Nat /\ a <= u /\ u <= b + 1 /\ (u = b + 1 => b < n)
  <2>1. /\ s.from \in 1..Len(doc) /\ s.to \in 1..Len(doc) /\ s.from <= s.to /\ Len(doc) \in Nat
    BY SectionFacts
  <2>. QED BY <1>1, <2>1 DEF IsParagraph
<1>3. PICK f, y : f = JustThis(u, s, x) /\ y = Behind(u, s, x)
  OBVIOUS
<1>4. CASE u <= b
  <2>1. u \in 1..n /\ ~Blank(u, s)
    BY <1>1, <1>2, <1>4 DEF Blank
  <2>2. PICK c, d : c = doc[u].chars /\ d = doc[u].bytes
    OBVIOUS
  <2>3. c \in Nat /\ d \in Nat
    <3>1. doc[u] \in Block
      BY <1>1, <2>1, DocLevels
    <3>. QED BY <2>2, <3>1, ChunkerAssumption
  <2>4. /\ f = [count |-> 1, from |-> u, to |-> u, start |-> x, end |-> x + d, chars |-> c + 2]
        /\ y = x + d + 2
    BY <1>3, <2>1, <2>2 DEF JustThis, Behind, CostOf
  <2>5. /\ f.count = 1 /\ f.from = u /\ f.to = u /\ f.start = x /\ f.end = x + d /\ f.chars = c + 2
    BY <2>4
  <2>6. f \in BufferType
    BY <1>1, <1>2, <2>1, <2>3, <2>4 DEF BufferType
  <2>7. Offset[u + 1] = Offset[u] + d + 2 /\ Offset[u] \in Nat /\ Offset[u + 1] \in Nat
    BY <1>1, <2>1, <2>2, OffsetNext
  <2>8. Offset[a] \in Nat
    <3>1. a \in 1..Len(doc)
      BY <1>1, <1>2
    <3>. QED BY <3>1, OffsetNext
  <2>9. y = Offset[u + 1] - Offset[a] /\ x + d = Offset[u] + d - Offset[a]
    <3>1. PICK g, h : g = Offset[u] /\ h = Offset[a]
      OBVIOUS
    <3>2. g \in Nat /\ h \in Nat /\ x = g - h /\ Offset[u + 1] = g + d + 2
      BY <1>1, <2>7, <2>8, <3>1
    <3>3. y = (g - h) + d + 2 /\ x + d = (g - h) + d
      BY <2>4, <3>2
    <3>4. (g - h) + d + 2 = (g + d + 2) - h /\ (g - h) + d = g + d - h
      BY ONLY <2>3, <3>2
    <3>. QED BY <3>1, <3>2, <3>3, <3>4
  <2>10. Chars(u, u) = c
    <3>1. u \in 1..Len(doc) /\ u \in u..Len(doc)
      BY <1>1, <1>2, <2>1
    <3>. QED BY <2>2, <3>1, CharsSteps DEF CharsAre
  <2>11. u + 1 # b + 2 /\ (u + 1 <= b + 2) /\ (IF u + 1 <= b THEN (u + 1) - 1 ELSE b) = u
         /\ (u + 1) - u = 1
    BY <1>2, <1>4
  <2>12. Buffered(f, s, u + 1, y)
    <3>1. a <= f.from /\ f.count = (u + 1) - f.from /\ f.count > 0
      BY <1>2, <2>5, <2>11
    <3>2. f.to = (IF u + 1 <= b THEN (u + 1) - 1 ELSE b) /\ y = Offset[f.to + 1] - Offset[a]
      BY <2>5, <2>9, <2>11
    <3>3. /\ f.start = Offset[f.from] - Offset[a] /\ f.end = Offset[f.to] + d - Offset[a]
          /\ f.chars = Chars(f.from, f.to) + 2 /\ doc[f.to].bytes = d
      BY <1>1, <2>2, <2>5, <2>9, <2>10
    <3>4. f.from <= f.to /\ ~(f.count > 1)
      BY <1>2, <2>5
    <3>. QED BY <1>1, <2>6, <2>11, <3>1, <3>2, <3>3, <3>4 DEF Buffered
  <2>. QED BY <1>3, <2>12
<1>5. CASE ~(u <= b)
  <2>1. u = b + 1 /\ b < n /\ u - 1 = b /\ Blank(u, s)
    BY <1>1, <1>2, <1>5 DEF Blank
  <2>2. f = [count |-> 1, from |-> u, to |-> b, start |-> x, end |-> x, chars |-> 0 + 2] /\ y = x
    BY <1>3, <2>1 DEF JustThis, Behind, CostOf
  <2>3. f.count = 1 /\ f.from = u /\ f.to = b /\ f.start = x /\ f.end = x
    BY <2>2
  <2>4. f \in BufferType
    BY <1>1, <1>2, <2>1, <2>2 DEF BufferType
  <2>5. y = Offset[b + 1] - Offset[a]
    BY <1>1, <2>1, <2>2
  <2>6. (u + 1) - u = 1 /\ u + 1 = b + 2 /\ ~(u + 1 <= b) /\ ~(u <= b) /\ a <= u
    BY <1>2, <2>1
  <2>7. /\ a <= f.from /\ f.count = (u + 1) - f.from /\ f.count > 0 /\ ~(f.count > 1)
        /\ f.to = (IF u + 1 <= b THEN (u + 1) - 1 ELSE b) /\ y = Offset[f.to + 1] - Offset[a]
        /\ ~(f.from <= f.to) /\ f.start = f.end
    BY <2>3, <2>5, <2>6
  <2>8. u + 1 <= b + 2
    BY <1>2, <2>1
  <2>9. Buffered(f, s, u + 1, y)
    BY <1>1, <2>1, <2>4, <2>7, <2>8 DEF Buffered
  <2>. QED BY <1>3, <2>9
<1>. QED BY <1>4, <1>5

LEMMA BufferMore ==
  ASSUME doc \in Seq(Block), NEW s, SectionOK(s), NEW u, IsParagraph(u, s),
         NEW x, NEW e, Buffered(e, s, u, x), e.chars + CostOf(u, s) <= Target
  PROVE  Buffered(AndThis(e, u, s, x), s, u + 1, Behind(u, s, x))
<1>1. PICK a, b, n : a = s.from /\ b = s.to /\ n = Len(doc)
  OBVIOUS
<1>2. /\ a \in Nat /\ b \in Nat /\ n \in Nat /\ a >= 1 /\ a <= b /\ b <= n
      /\ u \in Nat /\ a <= u /\ u <= b + 1 /\ (u = b + 1 => b < n)
  <2>1. /\ s.from \in 1..Len(doc) /\ s.to \in 1..Len(doc) /\ s.from <= s.to /\ Len(doc) \in Nat
    BY SectionFacts
  <2>. QED BY <1>1, <2>1 DEF IsParagraph
<1>3. PICK f, y : f = AndThis(e, u, s, x) /\ y = Behind(u, s, x)
  OBVIOUS
<1>4. /\ e \in BufferType /\ e.count \in Nat /\ e.from \in Nat /\ e.from >= 1 /\ e.from <= n + 1
      /\ e.to \in Nat /\ e.start \in Nat /\ e.end \in Nat /\ e.chars \in Nat
  <2>1. e \in BufferType
    BY DEF Buffered
  <2>. QED BY <1>1, <1>2, <2>1 DEF BufferType
<1>5. /\ e.count > 0 /\ a <= e.from /\ e.count = u - e.from
      /\ e.to = u - 1 /\ x = Offset[e.to + 1] - Offset[a] /\ e.from <= e.to
  <2>1. /\ e.count > 0 /\ a <= e.from /\ e.count = u - e.from
        /\ e.to = (IF u <= b THEN u - 1 ELSE b) /\ x = Offset[e.to + 1] - Offset[a]
    BY <1>1 DEF Buffered
  <2>2. ~(u <= b) => b = u - 1
    BY <1>2
  <2>3. e.to = u - 1
    BY <2>1, <2>2
  <2>. QED BY <1>2, <1>4, <2>1, <2>3
<1>6. /\ e.start = Offset[e.from] - Offset[a]
      /\ e.end = Offset[e.to] + doc[e.to].bytes - Offset[a]
      /\ e.chars = Chars(e.from, e.to) + 2
  <2>1. u # b + 2
    BY <1>2
  <2>. QED BY <1>1, <1>5, <2>1 DEF Buffered
<1>7. /\ f.count = e.count + 1 /\ f.from = e.from /\ f.start = e.start
      /\ (u + 1) - e.from = e.count + 1 /\ f.chars = e.chars + CostOf(u, s)
      /\ f.chars <= Target
  <2>1. /\ f.count = e.count + 1 /\ f.from = e.from /\ f.start = e.start
        /\ f.chars = e.chars + CostOf(u, s)
    BY <1>3 DEF AndThis
  <2>2. e.count = u - e.from /\ (u + 1) - e.from = (u - e.from) + 1
    BY SMTT(20), <1>2, <1>4, <1>5
  <2>. QED BY <2>1, <2>2
<1>8. e.to \in 1..n /\ (u - 1) + 1 = u
  BY <1>2, <1>4, <1>5
<1>9. CASE u <= b
  <2>1. u \in 1..n /\ ~Blank(u, s)
    BY <1>1, <1>2, <1>9 DEF Blank
  <2>2. PICK c, d : c = doc[u].chars /\ d = doc[u].bytes
    OBVIOUS
  <2>3. c \in Nat /\ d \in Nat
    <3>1. doc[u] \in Block
      BY <1>1, <2>1, DocLevels
    <3>. QED BY <2>2, <3>1, ChunkerAssumption
  <2>7. Offset[u + 1] = Offset[u] + d + 2 /\ Offset[u] \in Nat /\ Offset[u + 1] \in Nat
    BY <1>1, <2>1, <2>2, OffsetNext
  <2>8. Offset[a] \in Nat
    <3>1. a \in 1..Len(doc)
      BY <1>1, <1>2
    <3>. QED BY <3>1, OffsetNext
  <2>4. y = x + d + 2 /\ f.to = u /\ f.end = x + d /\ f.chars = e.chars + c + 2
    <3>1. CostOf(u, s) = c + 2 /\ c + 2 \in Nat /\ e.chars + (c + 2) = e.chars + c + 2
      <4>1. CostOf(u, s) = c + 2
        BY <2>1, <2>2 DEF CostOf
      <4>2. e.chars \in Nat
        BY <1>4
      <4>. QED BY <2>3, <4>1, <4>2
    <3>. QED BY <1>3, <1>7, <2>1, <2>2, <3>1 DEF AndThis, Behind
  <2>9. /\ y = Offset[u + 1] - Offset[a] /\ x + d = Offset[u] + d - Offset[a] /\ x + d \in Nat
    <3>1. PICK g, h : g = Offset[u] /\ h = Offset[a]
      OBVIOUS
    <3>2. g \in Nat /\ h \in Nat /\ x = g - h /\ Offset[u + 1] = g + d + 2
      BY <1>5, <1>8, <2>7, <2>8, <3>1
    <3>3. y = (g - h) + d + 2 /\ x + d = (g - h) + d
      BY <2>4, <3>2
    <3>4. (g - h) + d + 2 = (g + d + 2) - h /\ (g - h) + d = g + d - h
      BY ONLY <2>3, <3>2
    <3>5. x \in Nat
      <4>1. PICK v \in Nat, w \in Nat : v = Offset[e.to] /\ w = doc[e.to].bytes
        BY <1>1, <1>8, OffsetNext
      <4>2. g = v + w + 2
        BY <1>1, <1>5, <1>8, <3>1, <4>1, OffsetNext
      <4>3. v + w - h \in Nat
        <5>1. e.end = v + w - h
          BY <1>6, <3>1, <4>1
        <5>2. e.end \in Nat
          BY <1>4
        <5>. QED BY <5>1, <5>2
      <4>4. h \in Nat
        BY <3>2
      <4>5. (v + w + 2) - h = (v + w - h) + 2
        BY ONLY <4>4
      <4>. QED BY <3>2, <4>2, <4>3, <4>5
    <3>6. x + d \in Nat
      BY ONLY <2>3, <3>5
    <3>7. y = Offset[u + 1] - h /\ x + d = g + d - h
      BY <3>2, <3>3, <3>4
    <3>. QED BY <3>1, <3>6, <3>7
  <2>10. Chars(e.from, u) = Chars(e.from, e.to) + c + 2 /\ Chars(e.from, e.to) \in Nat
    <3>1. PICK g, h : g = e.from /\ h = e.to
      OBVIOUS
    <3>2. g \in 1..Len(doc) /\ h \in g..Len(doc) /\ h < Len(doc) /\ h + 1 = u
      BY <1>1, <1>2, <1>4, <1>5, <1>8, <2>1, <3>1
    <3>3. CharsAre(g, h)
      BY <3>2, CharsSteps
    <3>. QED BY <2>2, <3>1, <3>2, <3>3 DEF CharsAre
  <2>11. f.chars = Chars(f.from, f.to) + 2
    <3>1. PICK k \in Nat : k = Chars(e.from, e.to)
      BY <2>10
    <3>2. f.chars = (k + 2) + c + 2 /\ Chars(f.from, f.to) = k + c + 2
      BY <1>6, <1>7, <2>4, <2>10, <3>1
    <3>. QED BY <2>3, <3>2
  <2>5. f \in BufferType
    <3>1. f = [count |-> f.count, from |-> f.from, to |-> f.to, start |-> f.start,
               end |-> f.end, chars |-> f.chars]
      BY <1>3 DEF AndThis
    <3>2. /\ f.count \in Nat /\ f.from \in 1..(n + 1) /\ f.to \in 1..n /\ f.start \in Nat
          /\ f.end \in Nat /\ f.chars \in Nat
      <4>1. f.from \in 1..(n + 1) /\ f.count \in Nat
        BY <1>2, <1>4, <1>7
      <4>2. f.to \in 1..n /\ f.start \in Nat /\ f.end \in Nat
        BY <1>4, <1>7, <2>1, <2>4, <2>9
      <4>3. f.chars \in Nat
        <5>1. e.chars \in Nat
          BY <1>4
        <5>. QED BY <2>3, <2>4, <5>1
      <4>. QED BY <4>1, <4>2, <4>3
    <3>. QED BY <1>1, <3>1, <3>2 DEF BufferType
  <2>6. u + 1 # b + 2 /\ (u + 1 <= b + 2) /\ (IF u + 1 <= b THEN (u + 1) - 1 ELSE b) = u
    BY <1>2, <1>9
  <2>12. /\ a <= f.from /\ f.count = (u + 1) - f.from /\ f.count > 0 /\ f.from <= f.to
         /\ f.to = (IF u + 1 <= b THEN (u + 1) - 1 ELSE b) /\ y = Offset[f.to + 1] - Offset[a]
    <3>1. u - 1 <= u /\ e.from <= u
      BY <1>2, <1>4, <1>5
    <3>. QED BY <1>4, <1>5, <1>7, <2>4, <2>6, <2>9, <3>1
  <2>13. f.start = Offset[f.from] - Offset[a] /\ f.end = Offset[f.to] + doc[f.to].bytes - Offset[a]
    BY <1>6, <1>7, <2>2, <2>4, <2>9
  <2>14. Buffered(f, s, u + 1, y)
    BY <1>1, <1>7, <2>5, <2>6, <2>11, <2>12, <2>13 DEF Buffered
  <2>. QED BY <1>3, <2>14
<1>10. CASE ~(u <= b)
  <2>1. u = b + 1 /\ b < n /\ u - 1 = b /\ Blank(u, s)
    BY <1>1, <1>2, <1>10 DEF Blank
  <2>2. y = x /\ f.to = e.to /\ f.end = e.end /\ f.chars = e.chars + 2
    BY <1>3, <1>5, <1>7, <2>1 DEF AndThis, Behind, CostOf
  <2>3. f.chars = Chars(f.from, f.to) + 4
    <3>1. PICK k : k = Chars(e.from, e.to)
      OBVIOUS
    <3>2. k \in Nat
      <4>1. PICK g, h : g = e.from /\ h = e.to
        OBVIOUS
      <4>2. g \in 1..Len(doc) /\ h \in g..Len(doc)
        BY <1>1, <1>2, <1>4, <1>5, <1>8, <2>1, <4>1
      <4>. QED BY <3>1, <4>1, <4>2, CharsSteps DEF CharsAre
    <3>3. f.chars = (k + 2) + 2 /\ Chars(f.from, f.to) = k
      BY <1>6, <1>7, <2>2, <3>1
    <3>. QED BY <3>2, <3>3
  <2>4. f \in BufferType
    <3>1. f = [count |-> f.count, from |-> f.from, to |-> f.to, start |-> f.start,
               end |-> f.end, chars |-> f.chars]
      BY <1>3 DEF AndThis
    <3>2. /\ f.count \in Nat /\ f.from \in 1..(n + 1) /\ f.to \in 1..n /\ f.start \in Nat
          /\ f.end \in Nat /\ f.chars \in Nat
      BY SMTT(20), <1>4, <1>7, <1>8, <2>2
    <3>. QED BY <1>1, <3>1, <3>2 DEF BufferType
  <2>5. u + 1 = b + 2 /\ (IF u + 1 <= b THEN (u + 1) - 1 ELSE b) = b /\ u + 1 <= b + 2
    BY <1>2, <2>1
  <2>6. /\ a <= f.from /\ f.count = (u + 1) - f.from /\ f.count > 0 /\ f.from <= f.to
        /\ f.to = (IF u + 1 <= b THEN (u + 1) - 1 ELSE b) /\ y = Offset[f.to + 1] - Offset[a]
    BY <1>4, <1>5, <1>7, <2>1, <2>2, <2>5
  <2>7. f.start = Offset[f.from] - Offset[a] /\ f.end = Offset[f.to] + doc[f.to].bytes - Offset[a]
    BY <1>6, <1>7, <2>2
  <2>8. Buffered(f, s, u + 1, y)
    BY <1>1, <1>7, <2>1, <2>3, <2>4, <2>5, <2>6, <2>7 DEF Buffered
  <2>. QED BY <1>3, <2>8
<1>. QED BY <1>9, <1>10

-----------------------------------------------------------------------------
(* What flush puts out.                                                     *)
PutOut(f, s, t) ==
  [from |-> f.from, to |-> f.to, start |-> s.start + f.start, end |-> s.start + f.end,
   trail |-> s.trail, tail |-> t]

LEMMA InSection ==
  ASSUME doc \in Seq(Block), NEW s, SectionOK(s), NEW k \in s.from..s.to
  PROVE  k \in 1..Len(doc) /\ Opens(k) = Opens(s.from)
<1>1. PICK a, b : a = s.from /\ b = s.to
  OBVIOUS
<1>2. /\ a \in 1..Len(doc) /\ b \in Nat /\ b <= Len(doc) /\ Len(doc) \in Nat
      /\ \A j \in (a + 1)..b : doc[j].level = 0
  <2>1. /\ s.from \in 1..Len(doc) /\ s.to \in 1..Len(doc) /\ Len(doc) \in Nat
    BY SectionFacts
  <2>. QED BY <1>1, <2>1 DEF SectionOK
<1>3. k \in a..Len(doc) /\ k \in 1..Len(doc)
  BY <1>1, <1>2
<1>4. \A j \in (a + 1)..k : doc[j].level = 0
  BY <1>1, <1>2, <1>3
<1>. QED BY <1>1, <1>2, <1>3, <1>4, OpensThrough

LEMMA FlushOK ==
  ASSUME doc \in Seq(Block), NEW s, SectionOK(s), Whole(s), NEW u \in Nat, NEW x, NEW f,
         Buffered(f, s, u, x), u <= s.to => f.chars + CostOf(u, s) > Target,
         NEW t \in Nat, NEW c, c = PutOut(f, s, t)
  PROVE  ChunkOK(c)
<1>1. PICK a, b, n : a = s.from /\ b = s.to /\ n = Len(doc)
  OBVIOUS
<1>2. /\ a \in Nat /\ b \in Nat /\ n \in Nat /\ a >= 1 /\ a <= b /\ b <= n
      /\ s.start = Offset[a] /\ s.start \in Nat /\ s.trail \in Seq(1..n) /\ a \in 1..Len(doc)
  BY <1>1, SectionFacts
<1>3. /\ f.count \in Nat /\ f.from \in Nat /\ f.from >= 1 /\ f.from <= n + 1
      /\ f.from \in 1..(n + 1)
      /\ f.to \in Nat /\ f.start \in Nat /\ f.end \in Nat /\ f.chars \in Nat /\ f.to <= n
  <2>1. f \in BufferType
    BY DEF Buffered
  <2>. QED BY <1>1, <1>2, <2>1 DEF BufferType
<1>4. /\ f.count > 0 /\ a <= f.from /\ f.count = u - f.from /\ u <= b + 2
      /\ f.to = (IF u <= b THEN u - 1 ELSE b)
      /\ (f.count > 1 => f.chars <= Target)
  BY <1>1 DEF Buffered
<1>5. f.to <= b /\ f.to < u /\ f.from < u
  <2>1. f.from < u
    BY <1>3, <1>4
  <2>. QED BY <1>2, <1>3, <1>4, <2>1
<1>6. /\ c.from = f.from /\ c.to = f.to /\ c.start = s.start + f.start
      /\ c.end = s.start + f.end /\ c.trail = s.trail
  BY DEF PutOut
<1>7. c \in ChunkType
  <2>1. PICK v, w, y, z : v = s.start /\ w = f.start /\ y = f.end /\ z = f.to
    OBVIOUS
  <2>2. v \in Nat /\ w \in Nat /\ y \in Nat /\ z \in Nat /\ z <= n /\ n \in Nat
    BY <1>2, <1>3, <2>1
  <2>3. v + w \in Nat /\ v + y \in Nat /\ z \in 0..n
    BY ONLY <2>2
  <2>. QED BY <1>1, <1>2, <1>3, <2>1, <2>3 DEF ChunkType, PutOut
<1>8. CASE ~(f.from <= f.to)
  <2>1. f.start = f.end
    BY <1>8 DEF Buffered
  <2>. QED BY <1>6, <1>7, <1>8, <2>1 DEF ChunkOK
<1>9. CASE f.from <= f.to
  <2>1. /\ f.start = Offset[f.from] - Offset[a]
        /\ f.end = Offset[f.to] + doc[f.to].bytes - Offset[a]
        /\ f.chars = Chars(f.from, f.to) + (IF u = b + 2 THEN 4 ELSE 2)
    BY <1>1, <1>9 DEF Buffered
  <2>2. PICK g, h : g = f.from /\ h = f.to
    OBVIOUS
  <2>3. g \in a..b /\ h \in a..b /\ g \in 1..Len(doc) /\ h \in g..Len(doc) /\ h \in 1..Len(doc)
    <3>1. /\ g \in Nat /\ h \in Nat /\ a \in Nat /\ b \in Nat /\ n \in Nat
          /\ a >= 1 /\ a <= g /\ g <= h /\ h <= b /\ b <= n
      BY <1>2, <1>3, <1>4, <1>5, <1>9, <2>2
    <3>2. g \in a..b /\ h \in a..b /\ g \in 1..n /\ h \in g..n /\ h \in 1..n
      BY ONLY <3>1
    <3>. QED BY <1>1, <3>2
  <2>4. Offset[a] \in Nat /\ Offset[g] \in Nat /\ Offset[h] \in Nat /\ doc[h].bytes \in Nat
    BY <1>2, <2>3, OffsetNext
  <2>5. c.start = Offset[g] /\ c.end = Offset[h] + doc[h].bytes
    <3>1. PICK v, w, y, z : v = Offset[a] /\ w = Offset[g] /\ y = Offset[h] /\ z = doc[h].bytes
      OBVIOUS
    <3>2. c.start = v + (w - v) /\ c.end = v + (y + z - v)
      BY <1>2, <1>6, <2>1, <2>2, <3>1
    <3>3. v \in Nat /\ w \in Nat /\ y \in Nat /\ z \in Nat
      BY <2>4, <3>1
    <3>4. v + (w - v) = w /\ v + (y + z - v) = y + z
      BY ONLY <3>3
    <3>. QED BY <3>1, <3>2, <3>4
  <2>6. Opens(g) = Opens(a) /\ Opens(h) = Opens(a)
    BY <1>1, <2>3, InSection
  <2>7. PICK k \in Nat : k = Chars(g, h)
    BY <2>3, CharsSteps DEF CharsAre
  <2>8. ASSUME g < h PROVE k <= Target
    <3>1. f.count > 1
      BY <1>3, <1>4, <1>5, <2>2, <2>8
    <3>2. f.chars <= Target
      BY <1>4, <3>1
    <3>3. f.chars = k + 4 \/ f.chars = k + 2
      BY <2>1, <2>2, <2>7
    <3>4. Target \in Nat
      BY ChunkerAssumption
    <3>. QED BY <2>7, <3>2, <3>3, <3>4
  <2>9. ASSUME h < n, doc[h + 1].level = 0 PROVE Chars(g, h + 1) + 2 > Target
    <3>1. CASE u <= b
      <4>1. h + 1 = u /\ u # b + 2 /\ u \in 1..n /\ ~Blank(u, s)
        BY <1>1, <1>2, <1>4, <1>5, <2>2, <2>3, <3>1 DEF Blank
      <4>2. PICK w \in Nat : w = doc[u].chars
        BY <1>1, <4>1, DocLevels, ChunkerAssumption
      <4>3. f.chars = k + 2 /\ CostOf(u, s) = w + 2
        BY <2>1, <2>2, <2>7, <4>1, <4>2 DEF CostOf
      <4>4. (k + 2) + (w + 2) > Target
        BY <1>1, <3>1, <4>3
      <4>5. Chars(g, h + 1) = k + w + 2
        BY <1>1, <2>3, <2>7, <2>9, <4>1, <4>2, CharsSteps DEF CharsAre
      <4>6. Target \in Nat
        BY ChunkerAssumption
      <4>7. k + w + 2 + 2 > Target
        BY ONLY <2>7, <4>2, <4>4, <4>6
      <4>. QED BY <4>5, <4>7
    <3>2. CASE ~(u <= b)
      <4>1. h = b
        BY <1>4, <2>2, <3>2
      <4>2. doc[h + 1].level > 0
        BY <1>1, <2>9, <4>1 DEF Whole
      <4>. QED BY <2>9, <4>2
    <3>. QED BY <3>1, <3>2
  <2>10. Outlined => s.trail = Enclosing[Opens(g)]
    BY <1>1, <2>6 DEF SectionOK
  <2>11. OfBlocks(c)
    BY <1>1, <1>6, <2>2, <2>5, <2>6, <2>7, <2>8, <2>9, <2>10 DEF OfBlocks
  <2>. QED BY <1>6, <1>7, <1>9, <2>11 DEF ChunkOK
<1>. QED BY <1>8, <1>9

(* What is carried on ends the text, and is as long as asked for but for a  *)
(* blank line.                                                              *)
IsCarried(z, a, b) ==
  LET asked == Min({overlap, Chars(a, b)}) IN
    /\ z \in Nat /\ asked \in Nat /\ asked <= Chars(a, b)
    /\ asked - 2 <= z /\ z <= asked
    /\ z = asked \/ \E j \in a..b : z = Chars(j, b)

LEMMA CarriedIs ==
  ASSUME doc \in Seq(Block), overlap \in Nat, NEW a \in 1..Len(doc), NEW b \in a..Len(doc)
  PROVE  IsCarried(Carried(a, b), a, b)
<1>1. Len(doc) \in Nat
  OBVIOUS
<1>2. ASSUME NEW j \in a..b PROVE Chars(j, b) \in Nat
  <2>1. j \in 1..Len(doc) /\ b \in j..Len(doc)
    BY <1>1
  <2>. QED BY <2>1, CharsSteps DEF CharsAre
<1>3. a \in a..b
  BY <1>1
<1>4. PICK w \in Nat : w = Chars(a, b)
  BY <1>2, <1>3
<1>5. PICK m : m = Min({overlap, w})
  OBVIOUS
<1>6. m \in Nat /\ m <= w
  BY <1>5, MinOfTwo
<1>7. PICK B : B = {k \in a..b : Chars(k, b) < m /\ m <= Chars(k, b) + 2}
  OBVIOUS
<1>8. Carried(a, b) = IF B = {} THEN m ELSE Chars(CHOOSE k \in B : TRUE, b)
  BY <1>4, <1>5, <1>7 DEF Carried, Sep
<1>9. CASE B = {}
  BY <1>4, <1>5, <1>6, <1>8, <1>9 DEF IsCarried
<1>10. CASE B # {}
  <2>1. PICK k \in B : k = CHOOSE j \in B : TRUE
    BY <1>10
  <2>2. k \in a..b /\ Carried(a, b) = Chars(k, b) /\ Chars(k, b) < m /\ m <= Chars(k, b) + 2
    BY <1>7, <1>8, <1>10, <2>1
  <2>3. PICK c \in Nat : c = Chars(k, b)
    BY <1>2, <2>2
  <2>4. m - 2 <= c /\ c <= m
    BY <1>6, <2>2, <2>3
  <2>. QED BY <1>4, <1>5, <1>6, <2>2, <2>3, <2>4 DEF IsCarried
<1>. QED BY <1>9, <1>10

LEMMA FlushCarries ==
  ASSUME doc \in Seq(Block), NEW s, SectionOK(s), NEW u \in Nat, NEW x, NEW f,
         Buffered(f, s, u, x), NEW t \in Nat, t # 0, NEW q, ChunksAre(q), TailIs(t, f, s, q),
         NEW c, c = PutOut(f, s, t)
  PROVE  Len(q) > 0 /\ Carries(q[Len(q)], c)
<1>1. PICK b, a, e : b = q[Len(q)] /\ a = s.from /\ e = s.to
  OBVIOUS
<1>2. /\ Len(q) > 0 /\ b.from <= b.to /\ b.to = f.from - 1 /\ a <= b.to
      /\ t = Carried(b.from, b.to)
  BY <1>1 DEF TailIs
<1>3. c.from = f.from /\ c.to = f.to /\ c.tail = t
  BY DEF PutOut
<1>4. f.from \in Nat /\ f.to \in Nat /\ a \in Nat /\ e \in Nat /\ a <= f.from /\ f.to <= e
  <2>1. f \in BufferType
    BY DEF Buffered
  <2>2. f.from \in Nat /\ f.to \in Nat /\ a \in Nat /\ e \in Nat
    BY <1>1, <2>1, SectionFacts DEF BufferType
  <2>3. a <= f.from /\ f.to = (IF u <= e THEN u - 1 ELSE e)
    BY <1>1 DEF Buffered
  <2>. QED BY <2>2, <2>3
<1>5. ASSUME f.from <= f.to PROVE Opens(f.from) = Opens(b.to)
  <2>1. PICK g, h : g = f.from /\ h = b.to
    OBVIOUS
  <2>2. g \in a..e /\ h \in a..e
    BY <1>2, <1>4, <1>5, <2>1
  <2>3. Opens(g) = Opens(a) /\ Opens(h) = Opens(a)
    BY <1>1, <2>2, InSection
  <2>. QED BY <2>1, <2>3
<1>. QED BY <1>1, <1>2, <1>3, <1>5 DEF Carries

(* The chunks with text are chunks like all of them.                        *)
LEMMA WithTextOK ==
  ASSUME doc \in Seq(Block), NEW q, ChunksAre(q), Covers(q, Len(doc)),
         NEW r, FilterIs(q, r)
  PROVE  ChunksAre(r) /\ Covers(r, Len(doc)) /\ \A k \in 1..Len(r) : HasText(r[k])
<1>1. q \in Seq(ChunkType)
  BY DEF ChunksAre
<1>2. PICK m : r \in Seq(ChunkType) /\ Selects(r, q, Len(q), m)
  BY <1>1, Filtered
<1>3. PICK l \in Nat, n \in Nat : l = Len(r) /\ n = Len(q)
  BY <1>1, <1>2
<1>4. /\ \A k \in 1..l : m[k] \in 1..n /\ r[k] = q[m[k]] /\ HasText(q[m[k]])
      /\ \A j, k \in 1..l : j < k => m[j] < m[k]
      /\ \A x \in 1..n : HasText(q[x]) => \E k \in 1..l : m[k] = x
  BY <1>2, <1>3 DEF Selects
<1>5. ASSUME NEW x \in 1..n, q[x].from <= q[x].to PROVE HasText(q[x])
  BY <1>5 DEF HasText
<1>6. ASSUME NEW k \in 1..l PROVE ChunkOK(r[k])
  BY <1>3, <1>4 DEF ChunksAre
<1>7. ASSUME NEW k \in 1..l, r[k].tail # 0 PROVE k > 1 /\ Carries(r[k - 1], r[k])
  <2>1. PICK x \in 1..n : x = m[k] /\ r[k] = q[x]
    BY <1>4
  <2>2. x > 1 /\ Carries(q[x - 1], q[x])
    BY <1>3, <1>7, <2>1 DEF ChunksAre
  <2>3. x - 1 \in 1..n
    BY <2>1, <2>2
  <2>4. PICK j \in 1..l : m[j] = x - 1
    BY <1>4, <1>5, <2>2, <2>3 DEF Carries
  <2>5. j < k
    <3>1. CASE j = k
      BY <2>1, <2>4, <3>1
    <3>2. CASE k < j
      BY <1>4, <2>1, <2>4, <3>2
    <3>. QED BY <3>1, <3>2
  <2>6. j = k - 1
    <3>1. CASE j < k - 1
      <4>1. k - 1 \in 1..l /\ k - 1 < k
        BY <3>1
      <4>2. m[j] < m[k - 1] /\ m[k - 1] < m[k] /\ m[k - 1] \in 1..n
        BY <1>4, <3>1, <4>1
      <4>. QED BY <2>1, <2>4, <4>2
    <3>. QED BY <2>5, <3>1
  <2>7. r[k - 1] = q[x - 1] /\ k > 1
    BY <1>4, <2>4, <2>5, <2>6
  <2>. QED BY <2>1, <2>2, <2>7
<1>8. ChunksAre(r)
  BY <1>2, <1>3, <1>6, <1>7 DEF ChunksAre
<1>9. /\ \A b \in 1..Len(doc) : \E x \in 1..n : b \in q[x].from..q[x].to
      /\ \A x \in 1..n : q[x].to <= Len(doc)
      /\ \A x, y \in 1..n : x < y /\ q[y].from <= q[y].to => q[x].to < q[y].from
  BY <1>3 DEF Covers
<1>10. ASSUME NEW b \in 1..Len(doc) PROVE \E k \in 1..l : b \in r[k].from..r[k].to
  <2>1. PICK x \in 1..n : b \in q[x].from..q[x].to
    BY <1>9
  <2>2. q[x].from <= q[x].to
    <3>1. q[x] \in ChunkType
      BY <1>1, <1>3
    <3>2. q[x].from \in Nat /\ q[x].to \in Nat
      BY <3>1, DocLevels DEF ChunkType
    <3>. QED BY <2>1, <3>2
  <2>3. PICK k \in 1..l : m[k] = x
    BY <1>4, <1>5, <2>2
  <2>4. r[k] = q[x]
    BY <1>4, <2>3
  <2>. QED BY <2>1, <2>4
<1>11. ASSUME NEW j \in 1..l, NEW k \in 1..l, j < k, r[k].from <= r[k].to
       PROVE  r[j].to < r[k].from
  <2>1. PICK x \in 1..n, y \in 1..n : x = m[j] /\ y = m[k] /\ r[j] = q[x] /\ r[k] = q[y]
    BY <1>4
  <2>2. x < y
    BY <1>4, <1>11, <2>1
  <2>. QED BY <1>9, <1>11, <2>1, <2>2
<1>12. \A k \in 1..l : r[k].to <= Len(doc)
  BY <1>4, <1>9
<1>13. Covers(r, Len(doc))
  BY <1>3, <1>10, <1>11, <1>12 DEF Covers
<1>14. \A k \in 1..l : HasText(r[k])
  <2> HIDE DEF HasText
  <2>. QED BY <1>4
<1>. QED BY <1>3, <1>8, <1>13, <1>14

-----------------------------------------------------------------------------
(* The steps of _split_by_heading.                                          *)
Reads(a, t, s) ==
  /\ phase = "split" /\ i <= Len(doc)
  /\ i' = i + 1 /\ seen' = Past(seen, doc[i])
  /\ from' = a /\ trail' = t /\ start' = s
  /\ UNCHANGED <<doc, overlap, phase, packVars>>

LEMMA PlacesFacts ==
  ASSUME PlacesOK
  PROVE  /\ doc \in Seq(Block) /\ Len(doc) \in Nat /\ MaxBlocks \in Nat /\ Len(doc) <= MaxBlocks
         /\ i \in Nat /\ i >= 1 /\ i <= Len(doc) + 1 /\ from \in Nat /\ from >= 1 /\ from <= i
         /\ trail \in Seq(1..Len(doc)) /\ seen = Offset[i] /\ start = Offset[from]
         /\ seen \in Nat /\ start \in Nat
<1>1. doc \in Seq(Block) /\ Len(doc) \in Nat /\ MaxBlocks \in Nat
  BY ChunkerAssumption DEF PlacesOK
<1>2. /\ i \in Nat /\ i >= 1 /\ i <= Len(doc) + 1 /\ from \in Nat /\ from >= 1 /\ from <= i
  BY <1>1 DEF PlacesOK
<1>3. i \in 1..(Len(doc) + 1) /\ from \in 1..(Len(doc) + 1)
  BY <1>1, <1>2
<1>4. Offset[i] \in Nat /\ Offset[from] \in Nat
  BY <1>1, <1>3, OffsetSums
<1>. QED BY <1>1, <1>2, <1>4 DEF PlacesOK

LEMMA ReadsPlaces ==
  ASSUME PlacesOK, NEW a \in 1..i, NEW t \in Seq(1..Len(doc)), NEW s, s = Offset[a],
         Reads(a, t, s)
  PROVE  PlacesOK'
<1>1. /\ doc' = doc /\ overlap' = overlap /\ cursor' = cursor /\ tail' = tail /\ p' = p
      /\ i' = i + 1 /\ seen' = seen + doc[i].bytes + 2 /\ from' = a /\ trail' = t /\ start' = s
      /\ i <= Len(doc) /\ Offset' = Offset
  BY DocSame DEF Reads, packVars, Past, Sep
<1>2. i + 1 \in 1..(Len(doc) + 1) /\ a \in 1..(i + 1) /\ i \in 1..Len(doc)
  BY SMTT(20), <1>1, PlacesFacts
<1>3. seen' = Offset[i + 1]
  BY <1>1, <1>2, PlacesFacts, OffsetNext
<1>. QED BY <1>1, <1>2, <1>3 DEF PlacesOK

LEMMA ParagraphInv ==
  ASSUME ChunkInv, Paragraph
  PROVE  ChunkInv'
<1>1. PlacesOK /\ SplitOK /\ phase = "split"
  BY DEF ChunkInv, Paragraph
<1>2. /\ doc \in Seq(Block) /\ Len(doc) \in Nat /\ i \in Nat /\ i >= 1 /\ i <= Len(doc)
      /\ from \in Nat /\ from >= 1 /\ from <= i /\ i \in 1..Len(doc) /\ from \in 1..i
      /\ trail \in Seq(1..Len(doc)) /\ start = Offset[from] /\ start \in Nat
  <2>1. i <= Len(doc)
    BY DEF Paragraph
  <2>. QED BY <1>1, <2>1, PlacesFacts
<1>3. Reads(from, trail, start) /\ doc[i].level = 0 /\ sections' = sections
  BY DEF Paragraph, Reads
<1>4. PlacesOK'
  BY <1>1, <1>2, <1>3, ReadsPlaces
<1>5. PICK s : s = [from |-> from, to |-> i, trail |-> trail, start |-> start]
  OBVIOUS
<1>6. s.from = from /\ s.to = i /\ s.trail = trail /\ s.start = start
  BY <1>5
<1>7. ASSUME NEW k \in (from + 1)..i PROVE doc[k].level = 0
  <2>1. CASE k = i
    BY <1>3, <2>1
  <2>2. CASE k # i
    <3>1. i # 1 /\ k \in (from + 1)..(i - 1)
      BY <1>2, <2>2
    <3>2. SectionOK(Open)
      BY <1>1, <3>1 DEF SplitOK
    <3>. QED BY <3>1, <3>2 DEF SectionOK, Open
  <2>. QED BY <2>1, <2>2
<1>8. ASSUME Outlined PROVE trail = Enclosing[Opens(from)]
  <2>1. CASE i = 1
    <3>1. from = 1 /\ trail = <<>> /\ 1 \in 0..Len(doc) /\ 0 \in 0..1
      BY <1>1, <1>2, <2>1 DEF SplitOK
    <3>2. \A j \in (0 + 1)..1 : doc[j].level = 0
      BY <1>3, <2>1
    <3>3. LastHeading(0, 1)
      BY <3>1, <3>2 DEF LastHeading
    <3>4. Opens(1) = 0
      BY <1>2, <3>1, <3>3, OpensIs
    <3>. QED BY <1>2, <3>1, <3>4, EnclosingRec
  <2>2. CASE i # 1
    <3>1. SectionOK(Open)
      BY <1>1, <2>2 DEF SplitOK
    <3>. QED BY <1>8, <3>1 DEF SectionOK, Open
  <2>. QED BY <2>1, <2>2
<1>9. SectionOK(s)
  <2>1. from \in 1..Len(doc)
    BY <1>2
  <2>2. s \in SectionType
    BY <1>2, <1>5, <2>1 DEF SectionType
  <2>. QED BY <1>2, <1>6, <1>7, <1>8, <2>2 DEF SectionOK
<1>10. SectionOK(s)' /\ SectionsAre(sections, 1, from - 1)'
  <2>1. PICK q, b : q = sections /\ b = from - 1
    OBVIOUS
  <2>2. SectionsAre(q, 1, b)'
    BY <1>1, <1>3, <2>1, SectionsSame DEF SplitOK, Reads
  <2>3. SectionOK(s)'
    BY <1>3, <1>9, SectionSame DEF Reads
  <2>4. sections' = q /\ from' - 1 = b
    BY <1>3, <2>1 DEF Reads
  <2>. QED BY <2>2, <2>3, <2>4
<1>11. SplitOK'
  <2>1. Open' = s /\ from' < i' /\ i' # 1
    <3>1. (i + 1) - 1 = i /\ from < i + 1 /\ i + 1 # 1
      BY <1>2
    <3>. QED BY <1>3, <1>5, <3>1 DEF Open, Reads
  <2>2. Empty' /\ chunks' = <<>> /\ Len(doc)' > 0
    BY <1>1, <1>2, <1>3 DEF SplitOK, Empty, Reads, packVars
  <2>3. SectionOK(Open)'
    BY <1>10, <2>1
  <2>. QED BY <1>10, <2>1, <2>2, <2>3 DEF SplitOK
<1>12. phase' = "split"
  BY <1>1, <1>3 DEF Reads
<1>. QED BY <1>4, <1>11, <1>12 DEF ChunkInv

(* The trail of a heading, in a document that skips no level.               *)
LEMMA HeadingTrail ==
  ASSUME PlacesOK, SplitOK, i \in 1..Len(doc), doc[i].level > 0,
         NEW t, t = Append(CutAt(trail, doc[i].level), i)
  PROVE  t \in Seq(1..Len(doc)) /\ (Outlined => t = Enclosing[Opens(i)])
<1>1. /\ doc \in Seq(Block) /\ Len(doc) \in Nat /\ i \in Nat /\ i >= 1 /\ i <= Len(doc)
      /\ from \in Nat /\ from >= 1 /\ from <= i /\ trail \in Seq(1..Len(doc))
  BY PlacesFacts
<1>2. t \in Seq(1..Len(doc))
  <2>1. PICK l \in Nat, m \in Nat : l = Len(trail) /\ m = doc[i].level
    <3>1. Len(trail) \in Nat
      BY <1>1
    <3>2. doc[i].level \in Nat
      BY <1>1, DocLevels
    <3>. QED BY <3>1, <3>2
  <2>2. PICK e : e = Min({Len(trail), doc[i].level - 1})
    OBVIOUS
  <2>3. e \in 0..l
    <3>1. m - 1 \in Nat
      BY <2>1
    <3>2. e = IF l <= m - 1 THEN l ELSE m - 1
      BY <2>1, <2>2, <3>1, MinOfTwo
    <3>. QED BY <3>1, <3>2
  <2>4. SubSeq(trail, 1, e) \in Seq(1..Len(doc))
    <3>1. e \in Int /\ \A k \in 1..e : k \in 1..Len(trail)
      BY <2>1, <2>3
    <3>. QED BY <1>1, <3>1, SubSeqProperties
  <2>. QED BY <2>2, <2>4, AppendProperties DEF CutAt
<1>3. ASSUME Outlined PROVE t = Enclosing[Opens(i)]
  <2>1. Opens(i) = i
    <3>1. LastHeading(i, i)
      BY <1>1 DEF LastHeading
    <3>2. i \in 0..Len(doc)
      BY <1>1
    <3>. QED BY <1>1, <3>1, <3>2, OpensIs
  <2>2. trail = Enclosing[Opens(i - 1)]
    <3>1. CASE i = 1
      <4>1. LastHeading(0, 0) /\ 0 \in 0..Len(doc)
        BY <1>1 DEF LastHeading
      <4>2. Opens(0) = 0
        BY <1>1, <4>1, OpensIs
      <4>3. i - 1 = 0 /\ trail = <<>>
        BY <3>1 DEF SplitOK
      <4>. QED BY <1>1, <4>2, <4>3, EnclosingRec
    <3>2. CASE i # 1
      <4>1. SectionOK(Open) /\ from < i
        BY <3>2 DEF SplitOK
      <4>2. /\ trail = Enclosing[Opens(from)]
            /\ \A k \in (from + 1)..(i - 1) : doc[k].level = 0
        BY <1>3, <4>1 DEF SectionOK, Open
      <4>3. from \in 1..Len(doc) /\ i - 1 \in from..Len(doc)
        BY <1>1, <4>1
      <4>. QED BY <1>1, <4>2, <4>3, OpensThrough
    <3>. QED BY <3>1, <3>2
  <2>. QED BY <1>1, <1>3, <2>1, <2>2, TrailCut
<1>. QED BY <1>2, <1>3

(* What flush of _split_by_heading appends.                                 *)
LEMMA FlushSections ==
  ASSUME PlacesOK, SplitOK, i <= Len(doc) => doc[i].level > 0, NEW q, q = Sections
  PROVE  SectionsAre(q, 1, i - 1)
<1>1. /\ doc \in Seq(Block) /\ Len(doc) \in Nat /\ i \in Nat /\ i >= 1 /\ i <= Len(doc) + 1
      /\ from \in Nat /\ from >= 1 /\ from <= i /\ SectionsAre(sections, 1, from - 1)
  BY PlacesFacts DEF SplitOK
<1>2. CASE i = 1
  <2>1. from = i
    BY <1>1, <1>2
  <2>. QED BY <1>1, <2>1 DEF Sections
<1>3. CASE i # 1
  <2>1. from # i /\ SectionOK(Open)
    BY <1>1, <1>3 DEF SplitOK
  <2>2. PICK s, b : s = Open /\ b = from - 1
    OBVIOUS
  <2>3. s.from = from /\ s.to = i - 1 /\ b \in Nat /\ s.from = b + 1 /\ q = Append(sections, s)
    BY <1>1, <2>1, <2>2 DEF Open, Sections
  <2>4. Whole(s)
    <3>1. (i - 1) + 1 = i /\ (i - 1 < Len(doc) => i <= Len(doc))
      BY <1>1
    <3>. QED BY <2>3, <3>1 DEF Whole
  <2>5. SectionsAre(sections, 1, b) /\ SectionOK(s)
    BY <1>1, <2>1, <2>2
  <2>. QED BY <1>1, <2>3, <2>4, <2>5, SectionsMore
<1>. QED BY <1>2, <1>3

LEMMA HeadingInv ==
  ASSUME ChunkInv, Heading
  PROVE  ChunkInv'
<1>1. PlacesOK /\ SplitOK /\ phase = "split"
  BY DEF ChunkInv, Heading
<1>2. /\ doc \in Seq(Block) /\ Len(doc) \in Nat /\ i \in Nat /\ i >= 1 /\ i <= Len(doc)
      /\ i \in 1..Len(doc) /\ i \in 1..i /\ seen = Offset[i] /\ seen \in Nat
  <2>1. i <= Len(doc)
    BY DEF Heading
  <2>. QED BY <1>1, <2>1, PlacesFacts
<1>3. PICK t : t = Append(CutAt(trail, doc[i].level), i)
  OBVIOUS
<1>4. Reads(i, t, seen) /\ doc[i].level > 0 /\ sections' = Sections
  BY <1>3 DEF Heading, Reads
<1>5. t \in Seq(1..Len(doc)) /\ (Outlined => t = Enclosing[Opens(i)])
  BY <1>1, <1>2, <1>3, <1>4, HeadingTrail
<1>6. PlacesOK'
  BY <1>1, <1>2, <1>4, <1>5, ReadsPlaces
<1>7. PICK s : s = [from |-> i, to |-> i, trail |-> t, start |-> seen]
  OBVIOUS
<1>8. SectionOK(s)
  <2>1. s \in SectionType
    BY <1>2, <1>5, <1>7 DEF SectionType
  <2>2. s.from = i /\ s.to = i /\ s.trail = t /\ s.start = seen
    BY <1>7
  <2>. QED BY <1>2, <1>5, <2>1, <2>2 DEF SectionOK
<1>9. SectionOK(s)' /\ SectionsAre(sections, 1, from - 1)'
  <2>1. PICK q, b : q = Sections /\ b = i - 1
    OBVIOUS
  <2>2. SectionsAre(q, 1, b)
    BY <1>1, <1>4, <2>1, FlushSections
  <2>3. SectionsAre(q, 1, b)'
    BY <1>4, <2>2, SectionsSame DEF Reads
  <2>4. SectionOK(s)'
    BY <1>4, <1>8, SectionSame DEF Reads
  <2>5. sections' = q /\ from' - 1 = b
    BY <1>4, <2>1 DEF Reads
  <2>. QED BY <2>3, <2>4, <2>5
<1>10. SplitOK'
  <2>1. Open' = s /\ from' < i' /\ i' # 1
    <3>1. (i + 1) - 1 = i /\ i < i + 1 /\ i + 1 # 1
      BY <1>2
    <3>. QED BY <1>4, <1>7, <3>1 DEF Open, Reads
  <2>2. Empty' /\ chunks' = <<>> /\ Len(doc)' > 0
    BY <1>1, <1>2, <1>4 DEF SplitOK, Empty, Reads, packVars
  <2>3. SectionOK(Open)'
    BY <1>9, <2>1
  <2>. QED BY <1>9, <2>1, <2>2, <2>3 DEF SplitOK
<1>11. phase' = "split"
  BY <1>1, <1>4 DEF Reads
<1>. QED BY <1>6, <1>10, <1>11 DEF ChunkInv

-----------------------------------------------------------------------------
(* From the sections to the chunks.                                         *)
LEMMA SplitDoneInv ==
  ASSUME ChunkInv, SplitDone
  PROVE  ChunkInv'
<1>1. PlacesOK /\ SplitOK /\ phase = "split" /\ i > Len(doc)
  BY DEF ChunkInv, SplitDone
<1>2. /\ doc \in Seq(Block) /\ Len(doc) \in Nat /\ Len(doc) > 0 /\ i = Len(doc) + 1
      /\ 1 \in 1..(Len(doc) + 1)
  <2>1. /\ doc \in Seq(Block) /\ Len(doc) \in Nat /\ i \in Nat /\ i <= Len(doc) + 1
    BY <1>1, PlacesFacts
  <2>2. Len(doc) > 0
    BY <1>1 DEF SplitOK
  <2>. QED BY <1>1, <2>1, <2>2
<1>3. /\ sections' = Sections /\ phase' = "pack"
      /\ UNCHANGED <<doc, overlap, i, trail, from, start, seen, p, cursor, buf, tail, chunks>>
  BY DEF SplitDone, splitVars, packVars
<1>4. PlacesOK'
  BY <1>1, <1>3, DocSame DEF PlacesOK
<1>5. SectionsAre(sections, 1, Len(doc))'
  <2>1. PICK q, n : q = Sections /\ n = Len(doc)
    OBVIOUS
  <2>2. i - 1 = n
    BY <1>2, <2>1
  <2>3. ~(i <= Len(doc))
    BY <1>2
  <2>4. SectionsAre(q, 1, i - 1)
    BY <1>1, <2>1, <2>3, FlushSections
  <2>5. SectionsAre(q, 1, n)
    BY <2>2, <2>4
  <2>6. SectionsAre(q, 1, n)'
    BY <1>3, <2>5, SectionsSame
  <2>. QED BY <1>3, <2>1, <2>6
<1>6. Empty' /\ chunks' = <<>> /\ buf'.count = 0
  BY <1>1, <1>3 DEF SplitOK, Empty, NoParas
<1>7. ChunksAre(chunks)' /\ Covers(chunks, 1 - 1)'
  BY <1>6 DEF ChunksAre, Covers
<1>8. PackOK'
  BY <1>2, <1>3, <1>5, <1>6, <1>7 DEF PackOK
<1>. QED BY <1>3, <1>4, <1>8 DEF ChunkInv

(* What the loop over the sections keeps.                                   *)
Packs ==
  /\ phase = "pack" /\ phase' = "pack"
  /\ UNCHANGED <<doc, overlap, i, trail, from, start, seen>>

LEMMA PacksPlaces ==
  ASSUME PlacesOK, Packs, cursor' \in Nat, tail' \in Nat, p' \in 1..(MaxBlocks + 2)
  PROVE  PlacesOK'
BY DocSame DEF PlacesOK, Packs

(* The section that is packed, s, and the first block that is not.          *)
InHand(a, s) ==
  /\ sections # <<>> /\ s = Sec /\ SectionsAre(sections, a, Len(doc)) /\ s = sections[1]
  /\ SectionOK(s) /\ Whole(s) /\ a \in 1..Len(doc) /\ s.from = a

LEMMA PackingAt ==
  ASSUME PlacesOK, PackOK, sections # <<>>
  PROVE  \E a, s :
           /\ InHand(a, s)
           /\ SectionsAre(Tail(sections), s.to + 1, Len(doc))
           /\ IF buf.count = 0 THEN Empty /\ Covers(chunks, a - 1)
              ELSE /\ TooLong(s) /\ Buffered(buf, s, a + p - 1, cursor)
                   /\ TailIs(tail, buf, s, chunks) /\ Covers(chunks, buf.from - 1)
<1>1. PICK a \in 1..(Len(doc) + 1) :
        /\ SectionsAre(sections, a, Len(doc))
        /\ IF buf.count = 0 THEN Empty /\ Covers(chunks, a - 1)
           ELSE /\ Len(sections) > 0 /\ TooLong(sections[1])
                /\ Buffered(buf, sections[1], a + p - 1, cursor)
                /\ TailIs(tail, buf, sections[1], chunks) /\ Covers(chunks, buf.from - 1)
  BY DEF PackOK
<1>2. PICK s, r, n : s = Head(sections) /\ r = Tail(sections) /\ n = Len(doc) /\ n \in Nat
  BY PlacesFacts
<1>3. doc \in Seq(Block) /\ sections \in Seq(SectionType) /\ Len(sections) > 0
  <2>1. sections \in Seq(SectionType)
    BY <1>1 DEF SectionsAre
  <2>2. sections # <<>>
    OBVIOUS
  <2>. QED BY <2>1, <2>2, PlacesFacts
<1>4. SectionsBehind(sections, r, s, n) /\ s = sections[1] /\ s.from = a
  <2>1. SectionsAre(sections, a, n)
    BY <1>1, <1>2
  <2>2. PICK q : q = sections
    OBVIOUS
  <2>3. SectionsAre(q, a, n) /\ n \in Nat /\ doc \in Seq(Block) /\ Len(q) > 0
    BY <1>2, <1>3, <2>1, <2>2
  <2>4. Divides(q, r, s)
    BY <1>2, <2>2, <2>3 DEF Divides
  <2>5. SectionsBehind(q, r, s, n) /\ s = q[1] /\ s.from = a
    BY ONLY <2>3, <2>4, SectionsTail
  <2>. QED BY <2>2, <2>5
<1>5. SectionOK(s) /\ Whole(s) /\ SectionsAre(r, s.to + 1, n)
  BY <1>4 DEF SectionsBehind
<1>6. a \in 1..Len(doc)
  BY <1>3, <1>4, <1>5, SectionFacts
<1>7. InHand(a, s)
  BY <1>1, <1>2, <1>4, <1>5, <1>6 DEF InHand, Sec
<1>. QED BY <1>1, <1>2, <1>4, <1>5, <1>7

(* The chunks so far are the chunks c behind those before.                  *)
LEMMA PutsOut ==
  ASSUME doc \in Seq(Block), doc' = doc, overlap' = overlap, ChunksAre(chunks),
         NEW n \in Nat, Covers(chunks, n), NEW e \in Nat,
         NEW c, ChunkOK(c), chunks' = Append(chunks, c),
         c.tail # 0 => Len(chunks) > 0 /\ Carries(chunks[Len(chunks)], c),
         IF c.from <= c.to THEN c.from = n + 1 /\ c.to = e ELSE c.to <= n /\ e = n
  PROVE  ChunksAre(chunks)' /\ Covers(chunks, e)'
<1>1. PICK q, r : q = chunks /\ r = chunks'
  OBVIOUS
<1>2. ChunksAre(q) /\ Covers(q, n) /\ r = Append(q, c)
      /\ (c.tail # 0 => Len(q) > 0 /\ Carries(q[Len(q)], c))
  BY <1>1
<1>3. ChunksAre(r)
  BY <1>2, ChunksMore
<1>4. q \in Seq(ChunkType) /\ c \in ChunkType
  BY <1>2 DEF ChunksAre, ChunkOK
<1>5. Covers(r, e)
  BY <1>2, <1>4, CoversMore
<1>6. ChunksAre(r)'
  BY <1>3, ChunksSame
<1>. QED BY <1>1, <1>5, <1>6 DEF Covers

-----------------------------------------------------------------------------
(* The steps of the loop over the sections.                                 *)
LEMMA LongIs ==
  ASSUME doc \in Seq(Block), NEW a, NEW s, InHand(a, s)
  PROVE  TooLong(s) <=> ~Fits
<1>1. PICK x, y : x = Chars(s.from, s.to) /\ y = (IF s.to < Len(doc) THEN 2 ELSE 0)
  OBVIOUS
<1>2. s.from \in 1..Len(doc) /\ s.to \in s.from..Len(doc)
  BY SectionFacts DEF InHand
<1>3. x \in Nat /\ y \in Nat /\ Target \in Nat
  BY <1>1, <1>2, CharsSteps, ChunkerAssumption DEF CharsAre
<1>4. x + y > Target <=> ~(x + y <= Target)
  BY <1>3
<1>. QED BY <1>1, <1>4 DEF TooLong, Fits, Trailing, Sep, InHand

(* A section that fits is a chunk.                                          *)
LEMMA WholeOK ==
  ASSUME doc \in Seq(Block), NEW s, SectionOK(s), Whole(s), ~TooLong(s),
         NEW c, c = [from |-> s.from, to |-> s.to, start |-> s.start,
                     end |-> s.start + Bytes(s.from, s.to), trail |-> s.trail, tail |-> 0]
  PROVE  ChunkOK(c)
<1>1. PICK a, b, n : a = s.from /\ b = s.to /\ n = Len(doc)
  OBVIOUS
<1>2. /\ a \in Nat /\ b \in Nat /\ n \in Nat /\ a >= 1 /\ a <= b /\ b <= n
      /\ a \in 1..Len(doc) /\ b \in a..Len(doc) /\ b \in 1..Len(doc) /\ a \in a..b /\ b \in a..b
      /\ s.start = Offset[a] /\ s.start \in Nat /\ s.trail \in Seq(1..n)
  BY <1>1, SectionFacts
<1>3. Opens(a) = Opens(b)
  BY <1>1, <1>2, InSection
<1>4. PICK v, w, z : v = Offset[a] /\ w = Offset[b] /\ z = doc[b].bytes
  OBVIOUS
<1>5. v \in Nat /\ w \in Nat /\ z \in Nat /\ Offset[b + 1] = w + z + 2
  BY <1>2, <1>4, OffsetNext
<1>6. c.end = w + z
  <2>1. Bytes(a, b) = (w + z + 2) - v - 2
    BY <1>2, <1>4, <1>5, BytesAre
  <2>2. c.end = v + ((w + z + 2) - v - 2)
    BY <1>1, <1>2, <1>4, <2>1
  <2>3. v + ((w + z + 2) - v - 2) = w + z
    BY ONLY <1>5
  <2>. QED BY <2>2, <2>3
<1>7. w + z \in Nat
  BY ONLY <1>5
<1>8. /\ c.from = a /\ c.to = b /\ c.start = v /\ c.trail = s.trail /\ c.tail = 0
  BY <1>1, <1>2, <1>4
<1>9. c \in ChunkType
  <2>1. a \in 1..(n + 1) /\ b \in 0..n /\ v \in Nat
    BY ONLY <1>2, <1>5
  <2>2. c = [from |-> a, to |-> b, start |-> v, end |-> w + z, trail |-> s.trail, tail |-> 0]
    BY <1>1, <1>2, <1>4, <1>6
  <2>. QED BY <1>1, <1>2, <1>7, <2>1, <2>2 DEF ChunkType
<1>10. Chars(a, b) <= Target
  <2>1. PICK x : x = Chars(a, b)
    OBVIOUS
  <2>2. x \in Nat /\ Target \in Nat
    BY <1>2, <2>1, CharsSteps, ChunkerAssumption DEF CharsAre
  <2>3. ~(x + 0 > Target) \/ ~(x + 2 > Target)
    BY <1>1, <2>1 DEF TooLong
  <2>4. x <= Target
    BY ONLY <2>2, <2>3
  <2>. QED BY <2>1, <2>4
<1>11. ~(b < Len(doc) /\ doc[b + 1].level = 0)
  <2>1. SUFFICES ASSUME b < Len(doc), doc[b + 1].level = 0 PROVE FALSE
    OBVIOUS
  <2>2. doc[b + 1].level > 0
    BY <1>1, <2>1 DEF Whole
  <2>. QED BY <2>1, <2>2
<1>12. Outlined => c.trail = Enclosing[Opens(a)]
  BY <1>1, <1>8 DEF SectionOK
<1>13. OfBlocks(c)
  BY <1>3, <1>4, <1>6, <1>8, <1>10, <1>11, <1>12 DEF OfBlocks
<1>. QED BY <1>2, <1>8, <1>9, <1>13 DEF ChunkOK

(* The state between two sections, the next one beginning at block a.       *)
LEMMA NextSection ==
  ASSUME PlacesOK, Packs, Len(doc) > 0, NEW a, NEW s, InHand(a, s),
         SectionsAre(Tail(sections), s.to + 1, Len(doc)), sections' = Tail(sections),
         Empty', ChunksAre(chunks)', Covers(chunks, s.to)'
  PROVE  PackOK'
<1>1. PICK q, b, n : q = Tail(sections) /\ b = s.to + 1 /\ n = Len(doc)
  OBVIOUS
<1>2. s.to \in Nat /\ s.to <= n /\ s.to >= 1 /\ n \in Nat
  BY <1>1, PlacesFacts, SectionFacts DEF InHand
<1>3. b \in 1..(n + 1) /\ b - 1 = s.to
  BY <1>1, <1>2
<1>4. SectionsAre(q, b, n)'
  <2>1. SectionsAre(q, b, n)
    BY <1>1
  <2>. QED BY <2>1, SectionsSame DEF Packs
<1>5. doc' = doc /\ buf'.count = 0
  BY DEF Packs, Empty, NoParas
<1>6. SectionsAre(sections, b, Len(doc))'
  BY <1>1, <1>4, <1>5
<1>7. b \in 1..(Len(doc)' + 1) /\ Covers(chunks, b - 1)' /\ Len(doc)' > 0
  BY <1>1, <1>3, <1>5
<1>. QED BY <1>5, <1>6, <1>7 DEF PackOK

LEMMA WholeSectionInv ==
  ASSUME ChunkInv, WholeSection
  PROVE  ChunkInv'
<1>1. PlacesOK /\ PackOK /\ sections # <<>> /\ Fits
  BY DEF ChunkInv, WholeSection
<1>2. /\ Packs /\ sections' = Tail(sections) /\ phase' = "pack"
      /\ UNCHANGED <<p, cursor, buf, tail>>
      /\ chunks' = Append(chunks,
           [from |-> Sec.from, to |-> Sec.to, start |-> Sec.start,
            end |-> Sec.start + Bytes(Sec.from, Sec.to), trail |-> Sec.trail, tail |-> 0])
  BY DEF WholeSection, Packs, splitVars
<1>3. PICK a, s :
        /\ InHand(a, s)
        /\ SectionsAre(Tail(sections), s.to + 1, Len(doc))
        /\ IF buf.count = 0 THEN Empty /\ Covers(chunks, a - 1)
           ELSE /\ TooLong(s) /\ Buffered(buf, s, a + p - 1, cursor)
                /\ TailIs(tail, buf, s, chunks) /\ Covers(chunks, buf.from - 1)
  BY <1>1, PackingAt
<1>4. doc \in Seq(Block) /\ Len(doc) > 0 /\ ChunksAre(chunks)
  BY <1>1, PlacesFacts DEF PackOK
<1>5. ~TooLong(s)
  BY <1>1, <1>3, <1>4, LongIs
<1>6. Empty /\ Covers(chunks, a - 1)
  BY <1>3, <1>5
<1>7. PICK c : c = [from |-> s.from, to |-> s.to, start |-> s.start,
                    end |-> s.start + Bytes(s.from, s.to), trail |-> s.trail, tail |-> 0]
  OBVIOUS
<1>8. ChunkOK(c)
  BY <1>3, <1>4, <1>5, <1>7, WholeOK DEF InHand
<1>9. chunks' = Append(chunks, c)
  BY <1>2, <1>3, <1>7 DEF InHand
<1>10. c.from = a /\ c.to = s.to /\ c.tail = 0 /\ a \in Nat /\ a >= 1 /\ s.to \in Nat /\ a <= s.to
  BY <1>3, <1>4, <1>7, SectionFacts DEF InHand
<1>11. a - 1 \in Nat /\ a = (a - 1) + 1
  BY <1>10
<1>12. ChunksAre(chunks)' /\ Covers(chunks, s.to)'
  <2>1. PICK n, e : n = a - 1 /\ e = s.to
    OBVIOUS
  <2>2. n \in Nat /\ e \in Nat /\ c.from = n + 1 /\ c.to = e /\ c.from <= c.to /\ c.tail = 0
    BY <1>10, <1>11, <2>1
  <2>3. doc' = doc /\ overlap' = overlap /\ Covers(chunks, n)
    BY <1>2, <1>6, <2>1 DEF Packs
  <2>4. ChunksAre(chunks)' /\ Covers(chunks, e)'
    BY <1>4, <1>8, <1>9, <2>2, <2>3, PutsOut
  <2>. QED BY <2>1, <2>4
<1>13. Empty'
  BY <1>2, <1>6 DEF Empty
<1>14. PlacesOK'
  BY <1>1, <1>2, PacksPlaces DEF PlacesOK
<1>15. PackOK'
  BY <1>1, <1>2, <1>3, <1>4, <1>12, <1>13, NextSection
<1>. QED BY <1>2, <1>14, <1>15 DEF ChunkInv

-----------------------------------------------------------------------------
(* The steps of _split_paragraphs, at the paragraph u of the section s.     *)
ParagraphIs(a, s, u) ==
  /\ InHand(a, s) /\ TooLong(s) /\ IsParagraph(u, s) /\ u = a + p - 1 /\ u \in Nat
  /\ a \in Nat /\ p \in Nat /\ p' = p + 1 /\ a + p' - 1 = u + 1 /\ p' \in 1..(MaxBlocks + 2)
  /\ cursor' = Behind(u, s, cursor) /\ Cost = CostOf(u, s) /\ (IsBlank <=> Blank(u, s))
  /\ cursor' \in Nat /\ Current = u /\ CostOf(u, s) \in Nat

LEMMA ParagraphAt ==
  ASSUME PlacesOK, Splitting, MoreParas, Advance, NEW a, NEW s, InHand(a, s)
  PROVE  \E u : ParagraphIs(a, s, u)
<1>1. PICK b, n : b = s.to /\ n = Len(doc)
  OBVIOUS
<1>2. /\ doc \in Seq(Block) /\ n \in Nat /\ MaxBlocks \in Nat /\ n <= MaxBlocks
      /\ p \in Nat /\ p >= 1 /\ cursor \in Nat
      /\ s = Sec /\ a = s.from /\ a \in Nat /\ a >= 1 /\ b \in Nat /\ a <= b /\ b <= n
  <2>1. doc \in Seq(Block) /\ n \in Nat /\ MaxBlocks \in Nat /\ n <= MaxBlocks
    BY <1>1, PlacesFacts
  <2>2. p \in Nat /\ p >= 1 /\ cursor \in Nat
    BY <2>1 DEF PlacesOK
  <2>3. s = Sec /\ a = s.from /\ SectionOK(s)
    BY DEF InHand
  <2>. QED BY <1>1, <2>1, <2>2, <2>3, SectionFacts
<1>3. PICK u : u = Current
  OBVIOUS
<1>4. u = a + p - 1 /\ u \in Nat /\ a <= u
  BY <1>2, <1>3 DEF Current
<1>5. u <= b \/ (b < n /\ u = b + 1)
  BY <1>1, <1>2, <1>3 DEF MoreParas, Trailing
<1>6. u \in a..(b + 1) /\ (u = b + 1 => b < n) /\ u <= n
  BY <1>2, <1>4, <1>5
<1>7. IsParagraph(u, s) /\ (IsBlank <=> Blank(u, s))
  BY <1>1, <1>2, <1>3, <1>6 DEF IsParagraph, IsBlank, Blank
<1>8. TooLong(s)
  BY <1>2, LongIs DEF Splitting
<1>9. p' = p + 1 /\ a + p' - 1 = u + 1 /\ p' \in 1..(MaxBlocks + 2)
  <2>1. p' = p + 1
    BY DEF Advance
  <2>. QED BY <1>2, <1>4, <1>6, <2>1
<1>10. cursor' = Behind(u, s, cursor)
  BY <1>3, <1>7 DEF Advance, Behind, Past, Sep
<1>11. Cost = CostOf(u, s)
  BY <1>3, <1>7 DEF Cost, CostOf, Sep
<1>12. cursor' \in Nat /\ CostOf(u, s) \in Nat
  <2>1. CASE Blank(u, s)
    BY <1>2, <1>10, <2>1 DEF Behind, CostOf
  <2>2. CASE ~Blank(u, s)
    <3>1. u \in 1..Len(doc)
      BY <1>1, <1>2, <1>4, <1>6
    <3>2. doc[u].bytes \in Nat /\ doc[u].chars \in Nat
      <4>1. doc[u] \in Block
        BY <1>2, <3>1, DocLevels
      <4>. QED BY <4>1, ChunkerAssumption
    <3>. QED BY SMTT(20), <1>2, <1>10, <2>2, <3>2 DEF Behind, CostOf
  <2>. QED BY <2>1, <2>2
<1>. QED BY <1>2, <1>3, <1>4, <1>7, <1>8, <1>9, <1>10, <1>11, <1>12 DEF ParagraphIs

LEMMA JoinedNone ==
  ASSUME NEW a, NEW s, NEW u, ParagraphIs(a, s, u), NEW f, f.count = 0, f.chars = 0
  PROVE  Joined(f) = JustThis(u, s, cursor)
<1>1. Cost = CostOf(u, s) /\ CostOf(u, s) \in Nat
  BY DEF ParagraphIs
<1>2. f.chars + Cost = CostOf(u, s) /\ f.count + 1 = 1
  BY <1>1
<1>. QED BY <1>2 DEF ParagraphIs, Joined, JustThis

(* The state within a section, f being what is buffered.                    *)
LEMMA SameSection ==
  ASSUME PackOK, Packs, NEW a, NEW s, InHand(a, s), TooLong(s), sections' = sections,
         NEW f, buf' = f, NEW u, a + p' - 1 = u, Buffered(f, s, u, cursor'),
         NEW t, tail' = t, NEW q, chunks' = q, TailIs(t, f, s, q),
         ChunksAre(chunks)', Covers(chunks, f.from - 1)'
  PROVE  PackOK'
<1>1. PICK x, n : x = cursor' /\ n = Len(doc)
  OBVIOUS
<1>2. doc' = doc /\ overlap' = overlap /\ Len(doc) > 0
  BY DEF Packs, PackOK
<1>3. TooLong(s)' /\ Buffered(f, s, u, x)' /\ TailIs(t, f, s, q)'
  BY <1>1, <1>2, BufferSame
<1>4. /\ sections'[1] = s /\ Len(sections)' > 0 /\ buf'.count # 0
      /\ a \in 1..(Len(doc)' + 1)
  <2>1. a \in 1..Len(doc) /\ sections # <<>> /\ sections \in Seq(SectionType) /\ sections[1] = s
    BY DEF InHand, SectionsAre
  <2>2. f.count # 0
    BY DEF Buffered
  <2>. QED BY <1>2, <2>1, <2>2
<1>5. SectionsAre(sections, a, Len(doc))'
  <2>1. PICK r : r = sections
    OBVIOUS
  <2>2. SectionsAre(r, a, n)
    BY <1>1, <2>1 DEF InHand
  <2>3. SectionsAre(r, a, n)'
    BY <1>2, <2>2, SectionsSame
  <2>. QED BY <1>1, <1>2, <2>1, <2>3
<1>6. /\ TooLong(sections[1])' /\ Buffered(buf, sections[1], a + p - 1, cursor)'
      /\ TailIs(tail, buf, sections[1], chunks)' /\ Covers(chunks, buf.from - 1)'
  BY <1>1, <1>3, <1>4
<1>. QED BY <1>2, <1>4, <1>5, <1>6 DEF PackOK

-----------------------------------------------------------------------------
LEMMA AddParagraphInv ==
  ASSUME ChunkInv, AddParagraph
  PROVE  ChunkInv'
<1>1. /\ PlacesOK /\ PackOK /\ Splitting /\ sections # <<>> /\ MoreParas
      /\ HasRoom \/ buf.count = 0
  BY DEF ChunkInv, AddParagraph, Splitting
<1>2. /\ Packs /\ buf' = Joined(buf) /\ Advance /\ phase' = "pack"
      /\ sections' = sections /\ tail' = tail /\ chunks' = chunks
  BY DEF AddParagraph, Splitting, Packs, splitVars
<1>3. PICK a, s :
        /\ InHand(a, s)
        /\ IF buf.count = 0 THEN Empty /\ Covers(chunks, a - 1)
           ELSE /\ TooLong(s) /\ Buffered(buf, s, a + p - 1, cursor)
                /\ TailIs(tail, buf, s, chunks) /\ Covers(chunks, buf.from - 1)
  BY <1>1, PackingAt
<1>4. PICK u : ParagraphIs(a, s, u)
  BY <1>1, <1>2, <1>3, ParagraphAt
<1>5. /\ doc \in Seq(Block) /\ SectionOK(s) /\ s.from = a /\ IsParagraph(u, s) /\ cursor \in Nat
      /\ cursor' = Behind(u, s, cursor) /\ TooLong(s) /\ a + p' - 1 = u + 1 /\ a + p - 1 = u
      /\ a \in Nat /\ u \in Nat
  BY <1>1, <1>3, <1>4, PlacesFacts DEF InHand, ParagraphIs, PlacesOK
<1>6. PICK f, x, q, t : f = buf' /\ x = cursor /\ q = chunks /\ t = tail
  OBVIOUS
<1>7. /\ Buffered(f, s, u + 1, Behind(u, s, x)) /\ TailIs(t, f, s, q) /\ Covers(q, f.from - 1)
  <2>1. CASE buf.count = 0
    <3>1. Empty /\ Covers(chunks, a - 1)
      BY <1>3, <2>1
    <3>2. buf.chars = 0 /\ p = 1 /\ x = 0 /\ t = 0
      BY <1>6, <3>1 DEF Empty, NoParas
    <3>3. f = JustThis(u, s, x)
      BY <1>2, <1>4, <1>6, <2>1, <3>2, JoinedNone
    <3>4. u = a
      BY <1>5, <3>2
    <3>5. x = Offset[u] - Offset[s.from]
      <4>1. Offset[a] \in Nat
        BY <1>3, <1>5, OffsetNext DEF InHand
      <4>2. Offset[a] - Offset[a] = 0
        BY <4>1
      <4>. QED BY <1>5, <3>2, <3>4, <4>2
    <3>6. Buffered(f, s, u + 1, Behind(u, s, x))
      BY <1>5, <1>6, <3>3, <3>5, BufferFirst
    <3>7. f.from = a
      BY <3>3, <3>4 DEF JustThis
    <3>. QED BY <1>6, <3>1, <3>2, <3>6, <3>7 DEF TailIs
  <2>2. CASE buf.count # 0
    <3>1. PICK e : e = buf
      OBVIOUS
    <3>2. /\ Buffered(e, s, u, x) /\ TailIs(t, e, s, q) /\ Covers(q, e.from - 1)
      BY <1>3, <1>5, <1>6, <2>2, <3>1
    <3>3. e.chars + CostOf(u, s) <= Target
      BY <1>1, <1>4, <2>2, <3>1 DEF HasRoom, ParagraphIs
    <3>4. f = AndThis(e, u, s, x)
      BY <1>2, <1>4, <1>6, <2>2, <3>1 DEF ParagraphIs, Joined, AndThis
    <3>5. Buffered(f, s, u + 1, Behind(u, s, x))
      BY <1>5, <3>2, <3>3, <3>4, BufferMore
    <3>6. f.from = e.from
      BY <3>4 DEF AndThis
    <3>. QED BY <3>2, <3>5, <3>6 DEF TailIs
  <2>. QED BY <2>1, <2>2
<1>8. ChunksAre(chunks)' /\ Covers(chunks, f.from - 1)'
  <2>1. ChunksAre(q)'
    BY <1>1, <1>2, <1>6, ChunksSame DEF PackOK, Packs
  <2>2. chunks' = q
    BY <1>2, <1>6
  <2>. QED BY <1>7, <2>1, <2>2 DEF Covers
<1>9. PackOK'
  <2>1. f = buf' /\ tail' = t /\ chunks' = q /\ Buffered(f, s, u + 1, cursor')
    BY <1>2, <1>5, <1>6, <1>7
  <2>2. TailIs(t, f, s, q) /\ InHand(a, s) /\ TooLong(s) /\ sections' = sections
        /\ a + p' - 1 = u + 1
    BY <1>2, <1>3, <1>5, <1>7
  <2>. QED BY <1>1, <1>2, <1>8, <2>1, <2>2, SameSection
<1>10. PlacesOK'
  <2>1. tail' \in Nat
    BY <1>1, <1>2 DEF PlacesOK
  <2>. QED BY <1>1, <1>2, <1>4, <2>1, PacksPlaces DEF ParagraphIs
<1>. QED BY <1>2, <1>9, <1>10 DEF ChunkInv

(* What flush puts out is a chunk, and carries what it should.              *)
LEMMA FlushedOK ==
  ASSUME PlacesOK, PackOK, NEW a, NEW s, InHand(a, s), NEW u \in Nat, NEW x,
         Buffered(buf, s, u, x), u <= s.to => buf.chars + CostOf(u, s) > Target,
         TailIs(tail, buf, s, chunks), Covers(chunks, buf.from - 1),
         doc' = doc, overlap' = overlap, NEW e \in Nat,
         IF buf.from <= buf.to THEN e = buf.to ELSE e = buf.from - 1,
         NEW c, c = PutOut(buf, s, tail), chunks' = Append(chunks, c)
  PROVE  ChunksAre(chunks)' /\ Covers(chunks, e)'
<1>1. PICK f, t, q, n : f = buf /\ t = tail /\ q = chunks /\ n = f.from - 1
  OBVIOUS
<1>2. doc \in Seq(Block) /\ SectionOK(s) /\ Whole(s) /\ t \in Nat /\ ChunksAre(q)
  BY <1>1, PlacesFacts DEF InHand, PackOK, PlacesOK
<1>3. ChunkOK(c)
  BY <1>1, <1>2, FlushOK
<1>4. c.tail # 0 => Len(q) > 0 /\ Carries(q[Len(q)], c)
  <2>1. c.tail = t
    BY <1>1 DEF PutOut
  <2>. QED BY <1>1, <1>2, <2>1, FlushCarries
<1>5. c.from = f.from /\ c.to = f.to
  BY <1>1 DEF PutOut
<1>6. n \in Nat /\ f.from = n + 1 /\ f.to \in Nat
  <2>1. f \in BufferType /\ Len(doc) \in Nat
    BY <1>1, PlacesFacts DEF Buffered
  <2>2. f.from \in Nat /\ f.from >= 1 /\ f.to \in Nat
    BY <2>1 DEF BufferType
  <2>. QED BY <1>1, <2>2
<1>7. IF c.from <= c.to THEN c.from = n + 1 /\ c.to = e ELSE c.to <= n /\ e = n
  BY <1>1, <1>5, <1>6
<1>8. /\ ChunksAre(chunks) /\ Covers(chunks, n)
      /\ c.tail # 0 => Len(chunks) > 0 /\ Carries(chunks[Len(chunks)], c)
  BY <1>1, <1>2, <1>4
<1>. QED BY <1>2, <1>3, <1>6, <1>7, <1>8, PutsOut

-----------------------------------------------------------------------------
LEMMA FlushFirstInv ==
  ASSUME ChunkInv, FlushFirst
  PROVE  ChunkInv'
<1>1. /\ PlacesOK /\ PackOK /\ Splitting /\ sections # <<>> /\ MoreParas /\ ~HasRoom
      /\ buf.count > 0
  BY DEF ChunkInv, FlushFirst, Splitting
<1>2. /\ Packs /\ buf' = Joined(NoParas) /\ Advance /\ phase' = "pack"
      /\ sections' = sections /\ tail' = Carried(buf.from, buf.to)
      /\ chunks' = Flushed /\ doc' = doc /\ overlap' = overlap
  BY DEF FlushFirst, Splitting, Packs, splitVars
<1>3. PICK a, s :
        /\ InHand(a, s)
        /\ IF buf.count = 0 THEN Empty /\ Covers(chunks, a - 1)
           ELSE /\ TooLong(s) /\ Buffered(buf, s, a + p - 1, cursor)
                /\ TailIs(tail, buf, s, chunks) /\ Covers(chunks, buf.from - 1)
  BY <1>1, PackingAt
<1>4. PICK u : ParagraphIs(a, s, u)
  BY <1>1, <1>2, <1>3, ParagraphAt
<1>5. /\ doc \in Seq(Block) /\ SectionOK(s) /\ s.from = a /\ IsParagraph(u, s) /\ cursor \in Nat
      /\ cursor' = Behind(u, s, cursor) /\ TooLong(s) /\ a + p' - 1 = u + 1 /\ a + p - 1 = u
      /\ a \in Nat /\ u \in Nat /\ CostOf(u, s) \in Nat /\ Cost = CostOf(u, s)
  BY <1>1, <1>3, <1>4, PlacesFacts DEF InHand, ParagraphIs, PlacesOK
<1>6. PICK f, x : f = buf /\ x = cursor
  OBVIOUS
<1>7. /\ Buffered(f, s, u, x) /\ TailIs(tail, f, s, chunks) /\ Covers(chunks, f.from - 1)
  <2>1. buf.count # 0
    BY <1>1
  <2>. QED BY <1>3, <1>5, <1>6, <2>1
<1>8. /\ f.from \in Nat /\ f.to \in Nat /\ f.from >= 1 /\ a <= f.from /\ f.from <= f.to
      /\ f.to = u - 1 /\ x = Offset[u] - Offset[a] /\ f.chars \in Nat
      /\ f.from \in 1..Len(doc) /\ f.to \in f.from..Len(doc)
  <2>1. PICK b, n : b = s.to /\ n = Len(doc)
    OBVIOUS
  <2>2. b \in Nat /\ n \in Nat /\ b <= n
    BY <1>5, <2>1, SectionFacts
  <2>3. f.from \in Nat /\ f.to \in Nat /\ f.from >= 1 /\ f.count \in Nat /\ f.chars \in Nat
    <3>1. f \in BufferType
      BY <1>7 DEF Buffered
    <3>. QED BY <2>1, <2>2, <3>1 DEF BufferType
  <2>4. u <= b + 1
    BY <1>5, <2>1, <2>2 DEF IsParagraph
  <2>5. /\ f.count > 0 /\ a <= f.from /\ f.count = u - f.from
        /\ f.to = (IF u <= b THEN u - 1 ELSE b) /\ x = Offset[f.to + 1] - Offset[a]
    BY <1>5, <1>7, <2>1 DEF Buffered
  <2>6. f.to = u - 1 /\ f.from < u
    BY <1>5, <2>2, <2>3, <2>4, <2>5
  <2>7. f.from <= f.to /\ f.to + 1 = u /\ f.from \in 1..n /\ f.to \in f.from..n
    BY <1>5, <2>2, <2>3, <2>4, <2>6
  <2>. QED BY <2>1, <2>3, <2>5, <2>6, <2>7
<1>9. PICK c : c = PutOut(f, s, tail)
  OBVIOUS
<1>10. chunks' = Append(chunks, c)
  BY <1>2, <1>3, <1>6, <1>9 DEF Flushed, PutOut, InHand
<1>11. f.chars + CostOf(u, s) > Target
  <2>1. Target \in Nat /\ ~(f.chars + CostOf(u, s) <= Target)
    BY <1>1, <1>5, <1>6, ChunkerAssumption DEF HasRoom
  <2>. QED BY <1>5, <1>8, <2>1
<1>12. ChunksAre(chunks)' /\ Covers(chunks, u - 1)'
  <2>1. PICK e : e = f.to
    OBVIOUS
  <2>2. e \in Nat /\ (IF f.from <= f.to THEN e = f.to ELSE e = f.from - 1)
    BY <1>8, <2>1
  <2>3. ChunksAre(chunks)' /\ Covers(chunks, e)'
    BY <1>1, <1>2, <1>3, <1>5, <1>6, <1>7, <1>9, <1>10, <1>11, <2>2, FlushedOK
  <2>. QED BY <1>8, <2>1, <2>3
<1>13. PICK g, q, t : g = JustThis(u, s, x) /\ q = chunks' /\ t = tail'
  OBVIOUS
<1>14. buf' = g /\ g.from = u
  <2>1. NoParas.count = 0 /\ NoParas.chars = 0
    BY DEF NoParas
  <2>2. Joined(NoParas) = JustThis(u, s, cursor)
    BY <1>4, <2>1, JoinedNone
  <2>. QED BY <1>2, <1>6, <1>13, <2>2 DEF JustThis
<1>15. Buffered(g, s, u + 1, cursor')
  <2>1. x = Offset[u] - Offset[s.from] /\ x \in Nat
    BY <1>5, <1>6, <1>8
  <2>. QED BY <1>5, <1>6, <1>13, <2>1, BufferFirst
<1>16. TailIs(t, g, s, q)
  <2>1. chunks \in Seq(ChunkType)
    BY <1>1 DEF PackOK, ChunksAre
  <2>2. Len(q) > 0 /\ q[Len(q)] = c
    BY <1>10, <1>13, <2>1
  <2>3. c.from = f.from /\ c.to = f.to
    BY <1>9 DEF PutOut
  <2>4. t = Carried(f.from, f.to)
    BY <1>2, <1>6, <1>13
  <2>5. s.from <= f.to
    BY <1>5, <1>8
  <2>. QED BY <1>8, <1>14, <2>2, <2>3, <2>4, <2>5 DEF TailIs
<1>17. PackOK'
  <2>1. buf' = g /\ tail' = t /\ chunks' = q /\ Covers(chunks, g.from - 1)'
    BY <1>12, <1>13, <1>14
  <2>2. InHand(a, s) /\ TooLong(s) /\ a + p' - 1 = u + 1
    BY <1>3, <1>5
  <2>. QED BY <1>1, <1>2, <1>12, <1>15, <1>16, <2>1, <2>2, SameSection
<1>18. PlacesOK'
  <2>1. tail' \in Nat
    <3>1. overlap \in Nat
      BY <1>1, ChunkerAssumption DEF PlacesOK
    <3>2. Carried(f.from, f.to) \in Nat
      BY <1>5, <1>8, <3>1, CarriedIs DEF IsCarried
    <3>. QED BY <1>2, <1>6, <3>2
  <2>. QED BY <1>1, <1>2, <1>4, <2>1, PacksPlaces DEF ParagraphIs
<1>. QED BY <1>2, <1>17, <1>18 DEF ChunkInv

LEMMA SectionDoneInv ==
  ASSUME ChunkInv, SectionDone
  PROVE  ChunkInv'
<1>1. /\ PlacesOK /\ PackOK /\ Splitting /\ sections # <<>> /\ ~MoreParas /\ ~Fits
  BY DEF ChunkInv, SectionDone, Splitting
<1>2. /\ Packs /\ phase' = "pack" /\ p' = 1 /\ cursor' = 0 /\ buf' = NoParas /\ tail' = 0
      /\ sections' = Tail(sections) /\ chunks' = Flushed /\ doc' = doc /\ overlap' = overlap
  BY DEF SectionDone, Splitting, Packs, splitVars
<1>3. PICK a, s :
        /\ InHand(a, s)
        /\ SectionsAre(Tail(sections), s.to + 1, Len(doc))
        /\ IF buf.count = 0 THEN Empty /\ Covers(chunks, a - 1)
           ELSE /\ TooLong(s) /\ Buffered(buf, s, a + p - 1, cursor)
                /\ TailIs(tail, buf, s, chunks) /\ Covers(chunks, buf.from - 1)
  BY <1>1, PackingAt
<1>4. PICK b, n, u, f : b = s.to /\ n = Len(doc) /\ u = a + p - 1 /\ f = buf
  OBVIOUS
<1>5. /\ doc \in Seq(Block) /\ a \in Nat /\ a >= 1 /\ b \in Nat /\ n \in Nat /\ a <= b /\ b <= n
      /\ p \in Nat /\ p >= 1 /\ u \in Nat /\ s.from = a /\ n > 0 /\ s = Sec
  <2>1. doc \in Seq(Block) /\ SectionOK(s) /\ s.from = a /\ s = Sec
    BY <1>1, <1>3, PlacesFacts DEF InHand
  <2>2. /\ a \in Nat /\ a >= 1 /\ b \in Nat /\ n \in Nat /\ a <= b /\ b <= n
    BY <1>4, <2>1, SectionFacts
  <2>3. p \in Nat /\ p >= 1
    <3>1. MaxBlocks \in Nat /\ p \in 1..(MaxBlocks + 2)
      BY <1>1, ChunkerAssumption DEF PlacesOK
    <3>. QED BY <3>1
  <2>. QED BY <1>4, <2>1, <2>2, <2>3
<1>6. u > b /\ ~(b < n /\ u = b + 1)
  <2>1. Current = u
    BY <1>4, <1>5 DEF Current
  <2>2. ~(u <= b) /\ ~(b < n /\ u = b + 1)
    BY <1>1, <1>4, <1>5, <2>1 DEF MoreParas, Trailing
  <2>. QED BY <1>5, <2>2
<1>7. buf.count # 0
  <2>1. SUFFICES ASSUME buf.count = 0 PROVE FALSE
    OBVIOUS
  <2>2. p = 1
    BY <1>3, <2>1 DEF Empty
  <2>. QED BY <1>4, <1>5, <1>6, <2>2
<1>8. /\ Buffered(buf, s, u, cursor) /\ TailIs(tail, buf, s, chunks)
      /\ Covers(chunks, buf.from - 1)
  BY <1>3, <1>4, <1>7
<1>9. /\ f.from \in Nat /\ f.to = b /\ f.from <= b + 1
  <2>1. /\ f.count > 0 /\ f.count = u - f.from /\ u <= b + 2 /\ (u = b + 2 => b < n)
        /\ f.to = (IF u <= b THEN u - 1 ELSE b) /\ f \in BufferType
    BY <1>4, <1>8 DEF Buffered
  <2>2. f.from \in Nat /\ f.count \in Nat
    BY <1>4, <1>5, <2>1 DEF BufferType
  <2>. QED BY <1>5, <1>6, <2>1, <2>2
<1>10. PICK c : c = PutOut(buf, s, tail)
  OBVIOUS
<1>11. chunks' = Append(chunks, c)
  BY <1>2, <1>5, <1>10 DEF Flushed, PutOut
<1>12. ChunksAre(chunks)' /\ Covers(chunks, b)'
  <2>1. IF buf.from <= buf.to THEN b = buf.to ELSE b = buf.from - 1
    BY <1>4, <1>5, <1>9
  <2>2. u <= s.to => buf.chars + CostOf(u, s) > Target
    BY <1>4, <1>5, <1>6
  <2>. QED BY <1>1, <1>2, <1>3, <1>5, <1>8, <1>10, <1>11, <2>1, <2>2, FlushedOK
<1>13. Empty'
  BY <1>2 DEF Empty
<1>14. PlacesOK'
  <2>1. 1 \in 1..(MaxBlocks + 2)
    BY ChunkerAssumption
  <2>. QED BY <1>1, <1>2, <2>1, PacksPlaces
<1>15. PackOK'
  <2>1. Covers(chunks, s.to)' /\ Len(doc) > 0
    <3>1. PICK d : d = s.to
      OBVIOUS
    <3>. QED BY <1>4, <1>5, <1>12, <3>1
  <2>. QED BY <1>1, <1>2, <1>3, <1>12, <1>13, <2>1, NextSection
<1>. QED BY <1>2, <1>14, <1>15 DEF ChunkInv

-----------------------------------------------------------------------------
LEMMA ChunksDoneInv ==
  ASSUME ChunkInv, ChunksDone
  PROVE  ChunkInv'
<1>1. PlacesOK /\ PackOK /\ sections = <<>>
  BY DEF ChunkInv, ChunksDone
<1>2. /\ UNCHANGED <<doc, overlap, i, trail, from, start, seen, sections, p, cursor, buf, tail>>
      /\ chunks' = FoldLeft(WithText, <<>>, chunks) /\ phase' = "done"
  BY DEF ChunksDone, splitVars
<1>3. PICK a \in 1..(Len(doc) + 1) :
        /\ SectionsAre(sections, a, Len(doc))
        /\ IF buf.count = 0 THEN Empty /\ Covers(chunks, a - 1)
           ELSE /\ Len(sections) > 0 /\ TooLong(sections[1])
                /\ Buffered(buf, sections[1], a + p - 1, cursor)
                /\ TailIs(tail, buf, sections[1], chunks) /\ Covers(chunks, buf.from - 1)
  BY <1>1 DEF PackOK
<1>4. doc \in Seq(Block) /\ Len(doc) \in Nat /\ ChunksAre(chunks)
  BY <1>1, PlacesFacts DEF PackOK
<1>5. Len(sections) = 0
  BY <1>1
<1>6. a - 1 = Len(doc)
  <2>1. a = Len(doc) + 1
    BY <1>3, <1>5 DEF SectionsAre
  <2>. QED BY <1>4, <2>1
<1>7. Empty /\ Covers(chunks, Len(doc))
  <2>1. buf.count = 0
    BY <1>3, <1>5
  <2>. QED BY <1>3, <1>6, <2>1
<1>8. PICK q, r, n : q = chunks /\ r = chunks' /\ n = Len(doc)
  OBVIOUS
<1>9. ChunksAre(r) /\ Covers(r, n) /\ \A k \in 1..Len(r) : HasText(r[k])
  <2>1. FilterIs(q, r)
    BY <1>2, <1>8 DEF FilterIs
  <2>2. ChunksAre(q) /\ Covers(q, Len(doc))
    BY <1>4, <1>7, <1>8
  <2>. QED BY <1>4, <1>8, <2>1, <2>2, WithTextOK
<1>10. ResultOK'
  <2>1. ChunksAre(r)'
    BY <1>2, <1>9, ChunksSame
  <2>2. ChunksAre(chunks)' /\ Covers(chunks, Len(doc))'
    BY <1>2, <1>8, <1>9, <2>1 DEF Covers
  <2>3. Empty'
    BY <1>2, <1>7 DEF Empty
  <2>4. \A k \in 1..Len(chunks') : HasText(chunks'[k])
    BY <1>8, <1>9
  <2>5. Len(doc)' > 0
    BY <1>1, <1>2 DEF PackOK
  <2>. QED BY <2>2, <2>3, <2>4, <2>5 DEF ResultOK
<1>11. PlacesOK'
  BY <1>1, <1>2, DocSame DEF PlacesOK
<1>. QED BY <1>2, <1>10, <1>11 DEF ChunkInv

(* What is left alone stays as it is.                                       *)
LEMMA ResultSame ==
  ASSUME ResultOK, UNCHANGED <<doc, overlap, p, cursor, buf, tail, chunks>>
  PROVE  ResultOK'
<1>1. PICK r, n : r = chunks /\ n = Len(doc)
  OBVIOUS
<1>2. ChunksAre(r)' /\ Covers(r, n)
  BY <1>1, ChunksSame DEF ResultOK
<1>3. ChunksAre(chunks)' /\ Covers(chunks, Len(doc))'
  BY <1>1, <1>2 DEF Covers
<1>4. Empty'
  BY DEF ResultOK, Empty
<1>5. \A k \in 1..Len(chunks') : HasText(chunks'[k])
  BY DEF ResultOK
<1>. QED BY <1>3, <1>4, <1>5 DEF ResultOK

LEMMA RedactInv ==
  ASSUME ChunkInv, Redact
  PROVE  ChunkInv'
<1>1. PlacesOK /\ ResultOK
  BY DEF ChunkInv, Redact
<1>2. /\ UNCHANGED <<doc, overlap, i, trail, from, start, seen, sections>>
      /\ UNCHANGED <<p, cursor, buf, tail, chunks>>
      /\ phase' = "redacted"
  BY DEF Redact, splitVars, packVars
<1>3. PlacesOK'
  BY <1>1, <1>2, DocSame DEF PlacesOK
<1>. QED BY <1>1, <1>2, <1>3, ResultSame DEF ChunkInv

LEMMA ChunkStutter ==
  ASSUME ChunkInv, UNCHANGED chunkVars
  PROVE  ChunkInv'
<1>1. /\ UNCHANGED <<doc, overlap, phase, i, trail, from, start, seen, sections>>
      /\ UNCHANGED <<p, cursor, buf, tail, chunks>>
  BY DEF chunkVars, splitVars, packVars
<1>2. PlacesOK'
  BY <1>1, DocSame DEF ChunkInv, PlacesOK
<1>3. PICK g, q, n : g = sections /\ q = chunks /\ n = Len(doc)
  OBVIOUS
<1>4. CASE phase = "idle"
  BY <1>1, <1>2, <1>4 DEF ChunkInv, Empty
<1>5. CASE phase = "split"
  <2>1. PICK s, b : s = Open /\ b = from - 1
    OBVIOUS
  <2>2. SplitOK
    BY <1>5 DEF ChunkInv
  <2>3. SectionsAre(g, 1, b)' /\ (i # 1 => SectionOK(s)')
    BY <1>1, <1>3, <2>1, <2>2, SectionsSame, SectionSame DEF SplitOK
  <2>4. Open' = s /\ sections' = g /\ from' - 1 = b
    BY <1>1, <1>3, <2>1 DEF Open
  <2>5. SectionsAre(sections, 1, from - 1)' /\ (i' # 1 => SectionOK(Open)')
    BY <1>1, <2>3, <2>4
  <2>6. Empty' /\ chunks' = <<>> /\ Len(doc)' > 0
        /\ (i' = 1 => trail' = <<>>) /\ (i' # 1 => from' < i')
    BY <1>1, <2>2 DEF SplitOK, Empty
  <2>7. SplitOK'
    BY <2>5, <2>6 DEF SplitOK
  <2>. QED BY <1>1, <1>2, <1>5, <2>7 DEF ChunkInv
<1>6. CASE phase = "pack"
  <2>1. PackOK
    BY <1>6 DEF ChunkInv
  <2>2. PICK a \in 1..(Len(doc) + 1) :
          /\ SectionsAre(sections, a, Len(doc))
          /\ IF buf.count = 0 THEN Empty /\ Covers(chunks, a - 1)
             ELSE /\ Len(sections) > 0 /\ TooLong(sections[1])
                  /\ Buffered(buf, sections[1], a + p - 1, cursor)
                  /\ TailIs(tail, buf, sections[1], chunks) /\ Covers(chunks, buf.from - 1)
    BY <2>1 DEF PackOK
  <2>3. PICK f, s, u, x, t : f = buf /\ s = sections[1] /\ u = a + p - 1 /\ x = cursor /\ t = tail
    OBVIOUS
  <2>4. ChunksAre(chunks)' /\ SectionsAre(sections, a, Len(doc))'
    <3>1. ChunksAre(q)' /\ SectionsAre(g, a, n)'
      BY <1>1, <1>3, <2>1, <2>2, ChunksSame, SectionsSame DEF PackOK
    <3>. QED BY <1>1, <1>3, <3>1
  <2>5. buf'.count = 0 => Empty' /\ Covers(chunks, a - 1)'
    BY <1>1, <2>2 DEF Empty, Covers
  <2>6. ASSUME buf'.count # 0
        PROVE  /\ Len(sections)' > 0 /\ TooLong(sections[1])'
               /\ Buffered(buf, sections[1], a + p - 1, cursor)'
               /\ TailIs(tail, buf, sections[1], chunks)' /\ Covers(chunks, buf.from - 1)'
    <3>1. TooLong(s) /\ Buffered(f, s, u, x) /\ TailIs(t, f, s, q) /\ Len(sections) > 0
      BY <1>1, <1>3, <2>2, <2>3, <2>6
    <3>2. TooLong(s)' /\ Buffered(f, s, u, x)' /\ TailIs(t, f, s, q)'
      BY <1>1, <3>1, BufferSame
    <3>3. /\ buf' = f /\ sections'[1] = s /\ a + p' - 1 = u /\ cursor' = x
          /\ tail' = t /\ chunks' = q
      BY <1>1, <1>3, <2>3
    <3>4. Covers(chunks, buf.from - 1)'
      BY <1>1, <2>2, <2>6 DEF Covers
    <3>. QED BY <1>1, <3>1, <3>2, <3>3, <3>4
  <2>7. PackOK'
    <3>1. Len(doc)' > 0 /\ a \in 1..(Len(doc)' + 1)
      BY <1>1, <2>1 DEF PackOK
    <3>. QED BY <2>4, <2>5, <2>6, <3>1 DEF PackOK
  <2>. QED BY <1>1, <1>2, <1>6, <2>7 DEF ChunkInv
<1>7. CASE phase \in {"done", "redacted"}
  BY <1>1, <1>2, <1>7, ResultSame DEF ChunkInv
<1>. QED BY <1>4, <1>5, <1>6, <1>7 DEF ChunkInv

LEMMA ChunkInitInv ==
  ASSUME Init
  PROVE  ChunkInv
<1>1. ChunkLocals /\ (ChunkInit \/ (doc = <<>> /\ overlap = 0 /\ phase = "idle"))
  BY DEF Init, NoChunks, ChunkInit
<1>2. /\ i = 1 /\ trail = <<>> /\ from = 1 /\ start = 0 /\ seen = 0 /\ sections = <<>>
      /\ p = 1 /\ cursor = 0 /\ buf = NoParas /\ tail = 0 /\ chunks = <<>>
  BY <1>1 DEF ChunkLocals
<1>3. /\ overlap \in {0} \cup Overlaps /\ doc \in Seq(Block) /\ Len(doc) <= MaxBlocks
      /\ Len(doc) \in Nat /\ (phase = "idle" \/ (phase = "split" /\ Len(doc) > 0))
  <2>1. CASE ChunkInit
    <3>1. PICK n \in 1..MaxBlocks : doc \in [1..n -> Block]
      BY <2>1 DEF ChunkInit
    <3>2. n \in Nat /\ n > 0 /\ n <= MaxBlocks
      BY <3>1, ChunkerAssumption
    <3>3. doc \in Seq(Block) /\ Len(doc) = n
      BY <3>1, <3>2
    <3>. QED BY <2>1, <3>2, <3>3 DEF ChunkInit
  <2>2. CASE doc = <<>> /\ overlap = 0 /\ phase = "idle"
    BY <2>2, ChunkerAssumption
  <2>. QED BY <1>1, <2>1, <2>2
<1>4. PlacesOK
  <2>1. 1 \in 1..(Len(doc) + 1) /\ 1 \in 1..1 /\ <<>> \in Seq(1..Len(doc))
    BY <1>3
  <2>2. Offset[1] = 0
    BY <1>3, OffsetSums
  <2>3. 1 \in 1..(MaxBlocks + 2)
    BY ChunkerAssumption
  <2>. QED BY <1>2, <1>3, <2>1, <2>2, <2>3 DEF PlacesOK
<1>5. Empty
  BY <1>2 DEF Empty
<1>6. CASE phase = "idle"
  BY <1>2, <1>4, <1>5, <1>6 DEF ChunkInv
<1>7. CASE phase = "split" /\ Len(doc) > 0
  <2>1. SectionsAre(sections, 1, from - 1)
    BY <1>2 DEF SectionsAre
  <2>2. SplitOK
    BY <1>2, <1>5, <1>7, <2>1 DEF SplitOK
  <2>. QED BY <1>4, <1>7, <2>2 DEF ChunkInv
<1>. QED BY <1>3, <1>6, <1>7

LEMMA ChunkStepInv ==
  ASSUME ChunkInv, [Next]_vars
  PROVE  ChunkInv'
<1>1. CASE UNCHANGED chunkVars
  BY <1>1, ChunkStutter
<1>2. CASE RedactionNext
  BY <1>2, HeadingInv, ParagraphInv, SplitDoneInv, WholeSectionInv, AddParagraphInv,
     FlushFirstInv, SectionDoneInv, ChunksDoneInv, RedactInv DEF RedactionNext, ChunkNext
<1>. QED BY <1>1, <1>2 DEF Next, vars

LEMMA ChunkInvariant == Spec => []ChunkInv
<1>1. Init => ChunkInv
  BY ChunkInitInv
<1>2. ChunkInv /\ [Next]_vars => ChunkInv'
  BY ChunkStepInv
<1>. QED BY <1>1, <1>2, PTL DEF Spec

-----------------------------------------------------------------------------
LEMMA ChunksFacts ==
  ASSUME ChunkInv
  PROVE  /\ ChunksAre(chunks) /\ chunks \in Seq(ChunkType) /\ DOMAIN chunks = 1..Len(chunks)
         /\ doc \in Seq(Block) /\ Len(doc) \in Nat /\ DOMAIN doc = 1..Len(doc)
<1>1. ChunksAre(chunks)
  <2>1. CASE chunks = <<>>
    BY <2>1 DEF ChunksAre
  <2>2. CASE phase \in {"pack", "done", "redacted"}
    BY <2>2 DEF ChunkInv, PackOK, ResultOK
  <2>. QED BY <2>1, <2>2 DEF ChunkInv, SplitOK
<1>2. chunks \in Seq(ChunkType)
  BY <1>1 DEF ChunksAre
<1>3. doc \in Seq(Block) /\ Len(doc) \in Nat
  BY PlacesFacts DEF ChunkInv
<1>. QED BY <1>1, <1>2, <1>3

LEMMA TilesDocument ==
  ASSUME ChunkInv
  PROVE  ChunksTile
<1>1. RangesExact
  <2>1. \A k \in 1..Len(chunks) : ChunkOK(chunks[k])
    BY ChunksFacts DEF ChunksAre
  <2>. QED BY <2>1, ChunksFacts DEF RangesExact, ChunkOK, OfBlocks
<1>2. ASSUME phase \in {"done", "redacted"} PROVE Covers(chunks, Len(doc))
  BY <1>2 DEF ChunkInv, ResultOK
<1>3. NothingLost
  BY <1>2, ChunksFacts DEF NothingLost, Covers
<1>. QED BY <1>1, <1>3 DEF ChunksTile

LEMMA ShapedTypes ==
  ASSUME ChunkInv
  PROVE  ChunkTypeOK
<1>1. PICK n : n = Len(doc)
  OBVIOUS
<1>2. /\ doc \in Seq(Block) /\ n \in Nat /\ MaxBlocks \in Nat /\ n <= MaxBlocks
      /\ i \in Nat /\ i >= 1 /\ i <= n + 1 /\ from \in Nat /\ from >= 1 /\ from <= i
      /\ trail \in Seq(1..n) /\ seen \in Nat /\ start \in Nat
  BY <1>1, PlacesFacts DEF ChunkInv
<1>3. i \in 1..(MaxBlocks + 1) /\ from \in 1..i /\ Len(doc) \in 0..MaxBlocks
  BY <1>1, <1>2
<1>4. Seq(1..n) \subseteq Seq(1..MaxBlocks)
  BY <1>2, SeqMonotonic
<1>5. ChunkType \subseteq Chunk
  <2>1. 1..(n + 1) \subseteq 1..(MaxBlocks + 1) /\ 0..n \subseteq 0..MaxBlocks
    BY <1>2
  <2>. QED BY <1>1, <1>4, <2>1 DEF ChunkType, Chunk
<1>6. chunks \in Seq(Chunk)
  BY <1>5, ChunksFacts, SeqMonotonic
<1>7. ASSUME phase \in {"done", "redacted"}, NEW k \in DOMAIN chunks, chunks[k].from > chunks[k].to
      PROVE  chunks[k].tail > 0
  <2>1. PICK a, b, t : a = chunks[k].from /\ b = chunks[k].to /\ t = chunks[k].tail
    OBVIOUS
  <2>2. chunks[k] \in ChunkType
    BY ChunksFacts
  <2>3. a \in Nat /\ b \in Nat
    BY <1>1, <1>2, <2>1, <2>2 DEF ChunkType
  <2>4. HasText(chunks[k])
    BY <1>7, ChunksFacts DEF ChunkInv, ResultOK
  <2>5. ~(a <= b)
    BY <1>7, <2>1, <2>3
  <2>. QED BY <2>1, <2>4, <2>5 DEF HasText
<1>8. /\ phase \in {"idle", "split", "pack", "done", "redacted"}
      /\ overlap \in {0} \cup Overlaps /\ {cursor, tail} \subseteq Nat /\ p \in 1..(MaxBlocks + 2)
  BY DEF ChunkInv, PlacesOK
<1>9. trail \in Seq(1..MaxBlocks)
  BY <1>2, <1>4
<1>. QED BY <1>2, <1>3, <1>6, <1>7, <1>8, <1>9 DEF ChunkTypeOK

LEMMA ShapedChunks ==
  ASSUME ChunkInv
  PROVE  ChunksShaped
<1>1. ASSUME NEW k \in DOMAIN chunks
      PROVE  /\ chunks[k].from <= chunks[k].to => OfBlocks(chunks[k])
             /\ chunks[k].tail # 0 => k > 1 /\ Carries(chunks[k - 1], chunks[k])
  BY ChunksFacts DEF ChunksAre, ChunkOK
<1>2. Packed
  BY <1>1 DEF Packed, OfBlocks
<1>3. TrailsNested
  BY <1>1 DEF TrailsNested, OfBlocks
<1>4. doc \in Seq(Block) /\ Len(doc) \in Nat /\ overlap \in Nat
  BY ChunksFacts, ChunkerAssumption DEF ChunkInv, PlacesOK
<1>5. ASSUME NEW k \in DOMAIN chunks, chunks[k].tail # 0
      PROVE  IsCarried(chunks[k].tail, chunks[k - 1].from, chunks[k - 1].to)
  <2>1. k > 1 /\ Carries(chunks[k - 1], chunks[k])
    BY <1>1, <1>5
  <2>2. k - 1 \in 1..Len(chunks)
    BY <2>1, ChunksFacts
  <2>3. PICK b \in ChunkType : b = chunks[k - 1]
    BY <2>2, ChunksFacts
  <2>4. b.from \in 1..(Len(doc) + 1) /\ b.to \in 0..Len(doc) /\ b.from <= b.to
    BY <2>1, <2>3 DEF ChunkType, Carries
  <2>5. b.from \in 1..Len(doc) /\ b.to \in b.from..Len(doc)
    BY <1>4, <2>4
  <2>6. IsCarried(Carried(b.from, b.to), b.from, b.to)
    BY <1>4, <2>5, CarriedIs
  <2>. QED BY <2>1, <2>3, <2>6 DEF Carries
<1>6. OverlapIsContext
  BY <1>1, <1>5 DEF OverlapIsContext, Carries, IsCarried
<1>. QED BY <1>2, <1>3, <1>6, ShapedTypes DEF ChunksShaped

(* The chunks of a document are exact ranges of its bytes and leave out no  *)
(* block, for every document (chunker.py:7).                                *)
THEOREM ChunksAreTiled == Spec => []ChunksTile
BY ChunkInvariant, TilesDocument, PTL

(* A chunk is as much of one section as the target allows, under the        *)
(* headings that enclose it, and the text it repeats is the end of the      *)
(* chunk before it (chunker.py:63-167).                                     *)
THEOREM ChunksAreShaped == Spec => []ChunksShaped
BY ChunkInvariant, ShapedChunks, PTL

-----------------------------------------------------------------------------
(* The hits in the order redact goes through them.                          *)
Hit == [kind : Nat, start : Nat, end : Nat]

HitsOK(S, L) ==
  /\ IsFiniteSet(S) /\ S \subseteq Hit /\ L \in Nat
  /\ \A h \in S : h.start < h.end /\ h.end <= L
  /\ \A g, h \in S : g.kind = h.kind /\ g.start = h.start => g = h

Ahead(S, h) == {g \in S : Before(g, h)}
Rank(S, h) == Cardinality(Ahead(S, h))

LEMMA BeforeOrders ==
  ASSUME NEW S, NEW L, HitsOK(S, L)
  PROVE  /\ \A h \in S : ~Before(h, h)
         /\ \A g, h \in S : g # h => Before(g, h) \/ Before(h, g)
         /\ \A f, g, h \in S : Before(f, g) /\ Before(g, h) => Before(f, h)
         /\ \A g, h \in S : Before(g, h) => g.start <= h.start
<1>1. \A h \in S : h.start \in Nat /\ h.kind \in Nat
  BY DEF HitsOK, Hit
<1>. QED BY <1>1 DEF HitsOK, Before

LEMMA RankType ==
  ASSUME NEW S, NEW L, HitsOK(S, L), NEW h \in S
  PROVE  /\ Rank(S, h) \in 0..(Cardinality(S) - 1) /\ Cardinality(S) \in Nat
         /\ IsFiniteSet(Ahead(S, h))
<1>1. IsFiniteSet(S)
  BY DEF HitsOK
<1>2. Ahead(S, h) \in SUBSET (S \ {h})
  BY BeforeOrders DEF Ahead
<1>3. PICK c \in Nat : c = Cardinality(S)
  BY <1>1, FS_CardinalityType
<1>4. IsFiniteSet(S \ {h}) /\ Cardinality(S \ {h}) = c - 1
  BY <1>1, <1>3, FS_RemoveElement
<1>5. IsFiniteSet(Ahead(S, h)) /\ Rank(S, h) <= c - 1
  BY <1>2, <1>4, FS_Subset DEF Rank
<1>6. Rank(S, h) \in Nat
  BY <1>5, FS_CardinalityType DEF Rank
<1>. QED BY <1>3, <1>5, <1>6

LEMMA RankGrows ==
  ASSUME NEW S, NEW L, HitsOK(S, L), NEW g \in S, NEW h \in S, Before(g, h)
  PROVE  Rank(S, g) < Rank(S, h)
<1>1. Ahead(S, g) \cup {g} \in SUBSET Ahead(S, h) /\ g \notin Ahead(S, g)
  BY BeforeOrders DEF Ahead
<1>2. IsFiniteSet(Ahead(S, g)) /\ IsFiniteSet(Ahead(S, h))
      /\ Rank(S, g) \in Nat /\ Rank(S, h) \in Nat
  BY RankType
<1>3. Cardinality(Ahead(S, g) \cup {g}) = Rank(S, g) + 1
  BY <1>1, <1>2, FS_AddElement DEF Rank
<1>4. Cardinality(Ahead(S, g) \cup {g}) <= Rank(S, h)
  BY <1>1, <1>2, FS_Subset DEF Rank
<1>. QED BY <1>2, <1>3, <1>4

LEMMA RanksTaken ==
  ASSUME NEW S, NEW L, HitsOK(S, L), NEW v \in 0..(Cardinality(S) - 1)
  PROVE  \E h \in S : Rank(S, h) = v
<1>1. SUFFICES ASSUME \A h \in S : Rank(S, h) # v PROVE FALSE
  OBVIOUS
<1>2. IsFiniteSet(S)
  BY DEF HitsOK
<1>3. PICK c \in Nat : c = Cardinality(S)
  BY <1>2, FS_CardinalityType
<1>4. PICK T : T = (0..(c - 1)) \ {v}
  OBVIOUS
<1>5. IsFiniteSet(T) /\ Cardinality(T) < c
  <2>1. IsFiniteSet(0..(c - 1)) /\ Cardinality(0..(c - 1)) = c
    <3>1. 0 \in Int /\ c - 1 \in Int
      OBVIOUS
    <3>2. IsFiniteSet(0..(c - 1)) /\ Cardinality(0..(c - 1)) = IF 0 > c - 1 THEN 0 ELSE (c - 1) - 0 + 1
      BY ONLY <3>1, FS_Interval
    <3>. QED BY <3>2
  <2>2. v \in 0..(c - 1)
    BY <1>3
  <2>3. IsFiniteSet(T) /\ Cardinality(T) = c - 1
    <3>1. PICK I : I = 0..(c - 1)
      OBVIOUS
    <3>2. IsFiniteSet(I) /\ Cardinality(I) = c /\ v \in I /\ T = I \ {v}
      BY <1>4, <2>1, <2>2, <3>1
    <3>3. IsFiniteSet(I \ {v}) /\ Cardinality(I \ {v}) = Cardinality(I) - 1
      BY ONLY <3>2, FS_RemoveElement
    <3>. QED BY <3>2, <3>3
  <2>. QED BY <1>3, <2>3
<1>6. PICK f : f = [h \in S |-> Rank(S, h)]
  OBVIOUS
<1>7. f \in [S -> T]
  <2>1. \A h \in S : Rank(S, h) \in T
    BY <1>1, <1>3, <1>4, RankType
  <2>. QED BY <1>6, <2>1
<1>8. PICK g \in S, h \in S : g # h /\ f[g] = f[h]
  BY <1>2, <1>3, <1>5, <1>7, FS_PigeonHole
<1>9. Rank(S, g) = Rank(S, h) /\ Rank(S, g) \in Nat
  BY <1>6, <1>8, RankType
<1>10. Before(g, h) \/ Before(h, g)
  BY <1>8, BeforeOrders
<1>11. Rank(S, g) < Rank(S, h) \/ Rank(S, h) < Rank(S, g)
  BY <1>10, RankGrows
<1>. QED BY <1>9, <1>11

InOrder(q, S, c) ==
  /\ c = Cardinality(S) /\ q \in [1..c -> S]
  /\ \A m, n \in 1..c : m < n => Before(q[m], q[n])
  /\ \A h \in S : \E n \in 1..c : q[n] = h

LEMMA SortedOrders ==
  ASSUME NEW S, NEW L, HitsOK(S, L)
  PROVE  \E c \in Nat : InOrder(Sorted(S), S, c)
<1>1. PICK c \in Nat : c = Cardinality(S)
  BY FS_CardinalityType DEF HitsOK
<1>2. PICK q : q = Sorted(S)
  OBVIOUS
<1>3. q = [n \in 1..c |-> CHOOSE h \in S : Rank(S, h) = n - 1]
  BY <1>1, <1>2 DEF Sorted, Rank, Ahead
<1>4. ASSUME NEW n \in 1..c PROVE q[n] \in S /\ Rank(S, q[n]) = n - 1
  <2>1. n - 1 \in 0..(Cardinality(S) - 1)
    BY <1>1
  <2>2. \E h \in S : Rank(S, h) = n - 1
    BY <2>1, RanksTaken
  <2>. QED BY <1>3, <2>2
<1>5. q \in [1..c -> S]
  BY <1>3, <1>4
<1>6. ASSUME NEW m \in 1..c, NEW n \in 1..c, m < n PROVE Before(q[m], q[n])
  <2>1. q[m] # q[n]
    BY <1>4, <1>6
  <2>2. Before(q[n], q[m]) => n - 1 < m - 1
    BY <1>4, RankGrows
  <2>. QED BY <1>4, <1>6, <2>1, <2>2, BeforeOrders
<1>7. ASSUME NEW h \in S PROVE \E n \in 1..c : q[n] = h
  <2>1. PICK r : r = Rank(S, h)
    OBVIOUS
  <2>2. r \in 0..(c - 1)
    BY <1>1, <2>1, RankType
  <2>3. r + 1 \in 1..c /\ (r + 1) - 1 = r
    BY <2>2
  <2>4. q[r + 1] \in S /\ Rank(S, q[r + 1]) = r
    BY <1>4, <2>3
  <2>5. q[r + 1] = h
    <3>1. SUFFICES ASSUME q[r + 1] # h PROVE FALSE
      OBVIOUS
    <3>2. Before(q[r + 1], h) \/ Before(h, q[r + 1])
      BY <2>4, <3>1, BeforeOrders
    <3>3. r < r
      BY <2>1, <2>4, <3>2, RankGrows
    <3>. QED BY <2>2, <3>3
  <2>. QED BY <2>3, <2>5
<1>. QED BY <1>1, <1>2, <1>5, <1>6, <1>7 DEF InOrder

-----------------------------------------------------------------------------
(* What is between the hits.                                                *)

(* The sequences of s, one behind the other, up to each of them.            *)
Flattens(f, n, s) ==
  f[0] = <<>> /\ f[n] = FlattenSeq(s) /\ \A k \in 1..n : f[k] = f[k - 1] \o s[k]

LEMMA FlattenSteps ==
  ASSUME NEW V, NEW n \in Nat \ {0}, NEW s \in [1..n -> Seq(V)]
  PROVE  \E f : Flattens(f, n, s)
<1> DEFINE W == Seq(V)
           prior == [k \in 1..n |-> k - 1]
           step == [k \in 1..n |-> [t \in W |-> t \o s[k]]]
<1>1. Earlier(prior, n) /\ <<>> \in W
  BY DEF Earlier
<1>2. step \in [1..n -> [W -> W]]
  <2>1. \A k \in 1..n, t \in Seq(V) : t \o s[k] \in Seq(V)
    BY ConcatProperties
  <2>. QED BY <2>1
<1>3. PICK f \in [0..n -> W] : Recurs(f, n, <<>>, prior, step)
  <2>1. n \in Nat
    OBVIOUS
  <2> HIDE DEF W, prior, step
  <2>. QED BY <1>1, <1>2, <2>1, Recursion
<1>4. ASSUME NEW k \in 1..n PROVE f[k] = f[k - 1] \o s[k]
  <2>1. prior[k] = k - 1 /\ k - 1 \in 0..n
    OBVIOUS
  <2>2. f[k - 1] \in W /\ f[k] = step[k][f[k - 1]]
    BY <1>3, <2>1 DEF Recurs
  <2>. QED BY <2>2
<1>5. f[0] = <<>>
  BY <1>3 DEF Recurs
<1> HIDE DEF prior, step
<1> DEFINE Is(g) == g = [j \in 1..Len(s) |-> IF j = 1 THEN s[j] ELSE g[j - 1] \o s[j]]
<1>6. Len(s) = n
  OBVIOUS
<1>7. PICK h : h = [j \in 1..n |-> f[j]]
  OBVIOUS
<1>8. Is(h)
  <2>1. ASSUME NEW j \in 1..n PROVE h[j] = IF j = 1 THEN s[j] ELSE h[j - 1] \o s[j]
    <3>1. CASE j = 1
      <4>1. f[1] = f[0] \o s[1] /\ 1 \in 1..n /\ s[1] \in Seq(V)
        <5>1. 1 \in 1..n /\ 1 - 1 = 0
          OBVIOUS
        <5>. QED BY <1>4, <5>1
      <4>2. <<>> \o s[1] = s[1]
        BY <4>1, ConcatEmptySeq
      <4>. QED BY <1>5, <1>7, <3>1, <4>1, <4>2
    <3>2. CASE j # 1
      <4>1. j - 1 \in 1..n
        BY <3>2
      <4>. QED BY <1>4, <1>7, <3>2, <4>1
    <3>. QED BY <3>1, <3>2
  <2>. QED BY <1>6, <1>7, <2>1
<1>9. PICK g : g = CHOOSE x : Is(x)
  OBVIOUS
<1>10. Is(g)
  <2> HIDE DEF Is
  <2>. QED BY <1>8, <1>9
<1>11. FlattenSeq(s) = g[n]
  BY <1>6, <1>9 DEF FlattenSeq
<1>12. ASSUME NEW j \in 1..n PROVE g[j] = f[j]
  <2> DEFINE OK(k) == k + 1 \in 1..n => g[k + 1] = f[k + 1]
             I == {k \in Nat : OK(k)}
  <2>1. OK(0)
    <3>1. 1 \in 1..n /\ h[1] = s[1] /\ g[1] = s[1]
      BY <1>6, <1>8, <1>10
    <3>. QED BY <1>7, <3>1
  <2>2. ASSUME NEW k \in Nat, OK(k) PROVE OK(k + 1)
    <3>1. SUFFICES ASSUME (k + 1) + 1 \in 1..n PROVE g[(k + 1) + 1] = f[(k + 1) + 1]
      OBVIOUS
    <3>2. k + 1 \in 1..n /\ (k + 1) + 1 # 1 /\ ((k + 1) + 1) - 1 = k + 1
      BY <3>1
    <3>3. g[(k + 1) + 1] = g[k + 1] \o s[(k + 1) + 1]
      BY <1>6, <1>10, <3>1, <3>2
    <3>. QED BY <1>4, <2>2, <3>1, <3>2, <3>3
  <2> HIDE DEF OK
  <2>3. 0 \in I /\ \A k \in Nat : k \in I => k + 1 \in I
    BY <2>1, <2>2
  <2> HIDE DEF I
  <2>4. j - 1 \in Nat /\ (j - 1) + 1 = j
    OBVIOUS
  <2>5. j - 1 \in I
    BY <2>3, <2>4, SetInduction
  <2>. QED BY <2>4, <2>5 DEF I, OK
<1>13. f[n] = FlattenSeq(s)
  BY <1>11, <1>12
<1>. QED BY <1>4, <1>5, <1>13 DEF Flattens

-----------------------------------------------------------------------------
(* The sequence t has the numbers of X in order.                            *)
Lists(t, X) ==
  /\ t \in Seq(Nat) /\ \A m, n \in 1..Len(t) : m < n => t[m] < t[n]
  /\ X = {t[m] : m \in 1..Len(t)}

Between(a, b) == {x \in Nat : a <= x /\ x < b}
Run(a, b) == [x \in 1..(b - a) |-> a + x - 1]

LEMMA RunLists ==
  ASSUME NEW a \in Nat, NEW b \in Nat
  PROVE  Lists(Run(a, b), Between(a, b))
<1>1. PICK t : t = Run(a, b)
  OBVIOUS
<1>2. CASE a <= b
  <2>1. PICK d \in Nat : d = b - a
    BY <1>2
  <2>2. t = [x \in 1..d |-> a + x - 1]
    BY <1>1, <2>1 DEF Run
  <2>3. t \in Seq(Nat) /\ Len(t) = d /\ \A m \in 1..d : t[m] = a + m - 1
    BY <2>2
  <2>4. \A m, n \in 1..d : m < n => t[m] < t[n]
    BY <2>3
  <2>5. Between(a, b) = {t[m] : m \in 1..d}
    <3>1. ASSUME NEW x \in Between(a, b) PROVE x \in {t[m] : m \in 1..d}
      <4>1. x - a + 1 \in 1..d /\ a + (x - a + 1) - 1 = x
        BY <2>1 DEF Between
      <4>. QED BY <2>3, <4>1
    <3>2. ASSUME NEW m \in 1..d PROVE t[m] \in Between(a, b)
      BY <2>1, <2>3 DEF Between
    <3>. QED BY <3>1, <3>2
  <2>. QED BY <1>1, <2>3, <2>4, <2>5 DEF Lists
<1>3. CASE ~(a <= b)
  <2>1. 1..(b - a) = {} /\ Between(a, b) = {}
    BY <1>3 DEF Between
  <2>2. t = <<>>
    BY <1>1, <2>1 DEF Run
  <2>. QED BY <1>1, <2>1, <2>2 DEF Lists
<1>. QED BY <1>2, <1>3

LEMMA ListsBoth ==
  ASSUME NEW t, NEW X, Lists(t, X), NEW u, NEW Y, Lists(u, Y), \A x \in X, y \in Y : x < y
  PROVE  Lists(t \o u, X \cup Y)
<1>1. PICK c \in Nat, d \in Nat : c = Len(t) /\ d = Len(u)
  BY DEF Lists
<1>2. PICK v : v = t \o u
  OBVIOUS
<1>3. v \in Seq(Nat) /\ Len(v) = c + d
      /\ \A m \in 1..(c + d) : v[m] = IF m <= c THEN t[m] ELSE u[m - c]
  BY <1>1, <1>2, ConcatProperties DEF Lists
<1>4. /\ \A m \in 1..c : v[m] = t[m]
      /\ \A m \in 1..d : v[c + m] = u[m]
  <2>1. \A m \in 1..c : m \in 1..(c + d) /\ m <= c
    OBVIOUS
  <2>2. \A m \in 1..d : c + m \in 1..(c + d) /\ ~(c + m <= c) /\ (c + m) - c = m
    OBVIOUS
  <2>. QED BY <1>3, <2>1, <2>2
<1>5. ASSUME NEW m \in 1..(c + d), NEW n \in 1..(c + d), m < n PROVE v[m] < v[n]
  <2>1. CASE n <= c
    <3>1. m \in 1..c /\ n \in 1..c
      BY <1>5, <2>1
    <3>. QED BY <1>1, <1>4, <1>5, <3>1 DEF Lists
  <2>2. CASE m <= c /\ ~(n <= c)
    <3>1. m \in 1..c /\ n - c \in 1..d /\ c + (n - c) = n
      BY <2>2
    <3>2. v[m] \in X /\ v[n] \in Y
      BY <1>1, <1>4, <3>1 DEF Lists
    <3>. QED BY <3>2
  <2>3. CASE ~(m <= c)
    <3>1. m - c \in 1..d /\ n - c \in 1..d /\ m - c < n - c /\ c + (m - c) = m /\ c + (n - c) = n
      BY <1>5, <2>3
    <3>2. u[m - c] < u[n - c]
      BY <1>1, <3>1 DEF Lists
    <3>. QED BY <1>4, <3>1, <3>2
  <2>. QED BY <2>1, <2>2, <2>3
<1>6. X \cup Y = {v[m] : m \in 1..(c + d)}
  <2>1. ASSUME NEW m \in 1..(c + d) PROVE v[m] \in X \cup Y
    <3>1. CASE m <= c
      <4>1. m \in 1..c
        BY <3>1
      <4>. QED BY <1>1, <1>4, <4>1 DEF Lists
    <3>2. CASE ~(m <= c)
      <4>1. m - c \in 1..d /\ c + (m - c) = m
        BY <3>2
      <4>. QED BY ZenonT(30), <1>1, <1>4, <4>1 DEF Lists
    <3>. QED BY <3>1, <3>2
  <2>2. ASSUME NEW x \in X PROVE \E m \in 1..(c + d) : v[m] = x
    <3>1. PICK m \in 1..c : t[m] = x
      BY <1>1 DEF Lists
    <3>2. m \in 1..(c + d)
      OBVIOUS
    <3>. QED BY <1>4, <3>1, <3>2
  <2>3. ASSUME NEW x \in Y PROVE \E m \in 1..(c + d) : v[m] = x
    <3>1. PICK m \in 1..d : u[m] = x
      BY <1>1 DEF Lists
    <3>2. c + m \in 1..(c + d)
      OBVIOUS
    <3>. QED BY <1>4, <3>1, <3>2
  <2>. QED BY <2>1, <2>2, <2>3
<1>. QED BY <1>2, <1>3, <1>5, <1>6 DEF Lists

(* The runs from a[k] to b[k], none of which reaches into the next.         *)
Apart(a, b, n) ==
  /\ a \in [1..n -> Nat] /\ b \in [1..n -> Nat]
  /\ \A j, k \in 1..n : j < k => b[j] <= a[k]

Upto(a, b, n) == {x \in Nat : \E k \in 1..n : a[k] <= x /\ x < b[k]}

LEMMA RunsList ==
  ASSUME NEW n \in Nat \ {0}, NEW a, NEW b, Apart(a, b, n)
  PROVE  Lists(FlattenSeq([k \in 1..n |-> Run(a[k], b[k])]), Upto(a, b, n))
<1>1. PICK s : s = [k \in 1..n |-> Run(a[k], b[k])]
  OBVIOUS
<1>2. ASSUME NEW k \in 1..n
      PROVE  /\ a[k] \in Nat /\ b[k] \in Nat
             /\ Lists(s[k], Between(a[k], b[k])) /\ s[k] \in Seq(Nat)
  <2>1. PICK u, v, r : u = a[k] /\ v = b[k] /\ r = s[k]
    OBVIOUS
  <2>2. u \in Nat /\ v \in Nat /\ r = Run(u, v)
    BY <1>1, <2>1 DEF Apart
  <2>3. Lists(r, Between(u, v))
    BY <2>2, RunLists
  <2>4. r \in Seq(Nat)
    BY <2>3 DEF Lists
  <2>. QED BY <2>1, <2>2, <2>3, <2>4
<1>3. s \in [1..n -> Seq(Nat)]
  BY <1>1, <1>2
<1>4. PICK f : Flattens(f, n, s)
  BY <1>3, FlattenSteps
<1> DEFINE OK(k) == k <= n => Lists(f[k], Upto(a, b, k))
           I == {k \in Nat : OK(k)}
<1>5. OK(0)
  <2>1. Upto(a, b, 0) = {}
    BY DEF Upto
  <2>. QED BY <1>4, <2>1 DEF Lists, Flattens
<1>6. ASSUME NEW k \in Nat, OK(k) PROVE OK(k + 1)
  <2>1. SUFFICES ASSUME k + 1 <= n PROVE Lists(f[k + 1], Upto(a, b, k + 1))
    OBVIOUS
  <2>2. k + 1 \in 1..n /\ (k + 1) - 1 = k
    BY <2>1
  <2>3. Lists(f[k], Upto(a, b, k)) /\ f[k + 1] = f[k] \o s[k + 1]
    <3>1. k <= n
      BY <2>1
    <3>2. f[k + 1] = f[(k + 1) - 1] \o s[k + 1]
      BY <1>4, <2>2 DEF Flattens
    <3>. QED BY <1>6, <2>2, <3>1, <3>2
  <2>4. PICK u, v : u = a[k + 1] /\ v = b[k + 1]
    OBVIOUS
  <2>5. \A x \in Upto(a, b, k), y \in Between(u, v) : x < y
    <3>1. ASSUME NEW x \in Upto(a, b, k), NEW y \in Between(u, v) PROVE x < y
      <4>1. PICK j \in 1..k : x < b[j]
        BY DEF Upto
      <4>2. j \in 1..n /\ j < k + 1
        BY <2>1
      <4>3. b[j] <= u /\ u \in Nat /\ b[j] \in Nat
        BY <1>2, <2>2, <2>4, <4>2 DEF Apart
      <4>4. u <= y /\ y \in Nat /\ x \in Nat
        BY DEF Upto, Between
      <4>. QED BY <4>1, <4>3, <4>4
    <3>. QED BY <3>1
  <2>6. Upto(a, b, k + 1) = Upto(a, b, k) \cup Between(u, v)
    <3>1. 1..(k + 1) = (1..k) \cup {k + 1}
      OBVIOUS
    <3>. QED BY <2>4, <3>1 DEF Upto, Between
  <2>7. Lists(s[k + 1], Between(u, v))
    BY <1>2, <2>2, <2>4
  <2>8. PICK t, X, r, Y : /\ t = f[k] /\ X = Upto(a, b, k)
                          /\ r = s[k + 1] /\ Y = Between(u, v)
    OBVIOUS
  <2>9. Lists(t \o r, X \cup Y)
    BY <2>3, <2>5, <2>7, <2>8, ListsBoth
  <2>. QED BY <2>3, <2>6, <2>8, <2>9
<1> HIDE DEF OK
<1>7. 0 \in I /\ \A k \in Nat : k \in I => k + 1 \in I
  BY <1>5, <1>6
<1> HIDE DEF I
<1>8. n \in I /\ n <= n
  <2>1. Nat \subseteq I
    BY <1>7, SetInduction
  <2>. QED BY <2>1
<1>9. Lists(f[n], Upto(a, b, n))
  BY <1>8 DEF I, OK
<1>. QED BY <1>1, <1>4, <1>9 DEF Flattens

-----------------------------------------------------------------------------
(* What redact leaves of a text of length L, in which S was found.          *)
Holds(h, x) == h.start <= x /\ x < h.end

Leaves(X, S, L) ==
  /\ X \subseteq 0..(L - 1)
  /\ \A x \in (0..(L - 1)) \ X : \E h \in S : Holds(h, x)
  /\ \A x \in X : \A h \in S :
       Holds(h, x) => \E g \in S : g # h /\ h.start <= g.start /\ g.end <= x

(* The text between the hits q, which are in order.                         *)
Gaps(q, c, L, a, b) ==
  /\ a = [k \in 1..(c + 1) |-> IF k = 1 THEN 0 ELSE q[k - 1].end]
  /\ b = [k \in 1..(c + 1) |-> IF k = c + 1 THEN L ELSE q[k].start]

LEMMA RedactedRuns ==
  ASSUME NEW S, NEW L, NEW c \in Nat, NEW q, q = Sorted(S), InOrder(q, S, c),
         NEW a, NEW b, Gaps(q, c, L, a, b)
  PROVE  Redacted(L, S) = FlattenSeq([k \in 1..(c + 1) |-> Run(a[k], b[k])])
<1>1. q \in Seq(S) /\ Len(q) = c
  BY DEF InOrder
<1> DEFINE Cursor(n) == IF n = 0 THEN 0 ELSE q[n].end
           Stop(n) == IF n = c THEN L ELSE q[n + 1].start
           Left(n) == [x \in 1..(Stop(n) - Cursor(n)) |-> Cursor(n) + x - 1]
<1>2. ASSUME NEW k \in 1..(c + 1) PROVE Left(k - 1) = Run(a[k], b[k])
  <2>1. Cursor(k - 1) = a[k]
    BY DEF Gaps
  <2>2. Stop(k - 1) = b[k]
    BY DEF Gaps
  <2>. QED BY <2>1, <2>2 DEF Run
<1>3. [k \in 1..(c + 1) |-> Left(k - 1)] = [k \in 1..(c + 1) |-> Run(a[k], b[k])]
  BY <1>2
<1>4. Redacted(L, S) = FlattenSeq([k \in 1..(c + 1) |-> Left(k - 1)])
  BY <1>1 DEF Redacted
<1>. QED BY <1>3, <1>4

LEMMA GapsApart ==
  ASSUME NEW S, NEW L, HitsOK(S, L), NEW c \in Nat, NEW q, InOrder(q, S, c),
         NEW a, NEW b, Gaps(q, c, L, a, b)
  PROVE  /\ Apart(a, b, c + 1)
         /\ \A k \in 1..c : /\ q[k] \in S /\ {q[k].start, q[k].end} \subseteq 0..L
                            /\ q[k].start < q[k].end
                            /\ b[k] = q[k].start /\ a[k + 1] = q[k].end
         /\ a[1] = 0 /\ b[c + 1] = L
         /\ \A j, k \in 1..c : j < k => q[j] # q[k] /\ q[j].start <= q[k].start
<1>1. L \in Nat
  BY DEF HitsOK
<1>2. ASSUME NEW k \in 1..c
      PROVE  /\ q[k] \in S /\ {q[k].start, q[k].end} \subseteq 0..L
             /\ q[k].start < q[k].end
             /\ b[k] = q[k].start /\ a[k + 1] = q[k].end
  <2>1. q[k] \in S
    BY DEF InOrder
  <2>2. q[k].start \in Nat /\ q[k].end \in Nat /\ q[k].start < q[k].end /\ q[k].end <= L
    BY <2>1 DEF HitsOK, Hit
  <2>3. b[k] = q[k].start
    <3>1. k \in 1..(c + 1) /\ k # c + 1
      OBVIOUS
    <3>. QED BY <3>1 DEF Gaps
  <2>4. a[k + 1] = q[k].end
    <3>1. k + 1 \in 1..(c + 1) /\ k + 1 # 1 /\ (k + 1) - 1 = k
      OBVIOUS
    <3>. QED BY <3>1 DEF Gaps
  <2>. QED BY <1>1, <2>1, <2>2, <2>3, <2>4
<1>3. a[1] = 0 /\ b[c + 1] = L
  <2>1. 1 \in 1..(c + 1) /\ c + 1 \in 1..(c + 1)
    OBVIOUS
  <2>. QED BY <2>1 DEF Gaps
<1>4. ASSUME NEW j \in 1..c, NEW k \in 1..c, j < k
      PROVE  q[j] # q[k] /\ q[j].start <= q[k].start
  <2>1. Before(q[j], q[k])
    BY <1>4 DEF InOrder
  <2>. QED BY <1>2, <2>1, BeforeOrders
<1>5. a \in [1..(c + 1) -> Nat] /\ b \in [1..(c + 1) -> Nat]
  <2>1. ASSUME NEW k \in 1..(c + 1) PROVE a[k] \in Nat
    <3>1. CASE k = 1
      BY <1>3, <3>1
    <3>2. CASE k # 1
      <4>1. k - 1 \in 1..c /\ (k - 1) + 1 = k
        BY <3>2
      <4>2. a[k] = q[k - 1].end /\ q[k - 1].end \in 0..L
        BY <1>2, <4>1
      <4>. QED BY <1>1, <4>2
    <3>. QED BY <3>1, <3>2
  <2>2. ASSUME NEW k \in 1..(c + 1) PROVE b[k] \in Nat
    <3>1. CASE k = c + 1
      BY <1>1, <1>3, <3>1
    <3>2. CASE k # c + 1
      <4>1. k \in 1..c
        BY <3>2
      <4>2. b[k] = q[k].start /\ q[k].start \in 0..L
        BY <1>2, <4>1
      <4>. QED BY <1>1, <4>2
    <3>. QED BY <3>1, <3>2
  <2>3. DOMAIN a = 1..(c + 1) /\ DOMAIN b = 1..(c + 1) /\ a = [k \in 1..(c + 1) |-> a[k]]
        /\ b = [k \in 1..(c + 1) |-> b[k]]
    BY DEF Gaps
  <2>. QED BY <2>1, <2>2, <2>3
<1>6. ASSUME NEW j \in 1..(c + 1), NEW k \in 1..(c + 1), j < k PROVE b[j] <= a[k]
  <2>1. j \in 1..c /\ k - 1 \in 1..c /\ (k - 1) + 1 = k /\ j <= k - 1
    BY <1>6
  <2>2. PICK m : m = k - 1
    OBVIOUS
  <2>3. b[j] = q[j].start /\ a[k] = q[m].end
    BY <1>2, <2>1, <2>2
  <2>4. q[j].start <= q[m].start
    <3>1. CASE j = m
      BY <1>2, <2>1, <3>1
    <3>2. CASE j < m
      BY <1>4, <2>1, <2>2, <3>2
    <3>. QED BY <2>1, <2>2, <3>1, <3>2
  <2>5. {q[j].start, q[m].start, q[m].end} \subseteq 0..L /\ q[m].start < q[m].end
    BY <1>2, <2>1, <2>2
  <2>6. PICK x, y, z : x = q[j].start /\ y = q[m].start /\ z = q[m].end
    OBVIOUS
  <2>7. x <= z
    BY <1>1, <2>4, <2>5, <2>6
  <2>. QED BY <2>3, <2>6, <2>7
<1>7. Apart(a, b, c + 1)
  BY <1>5, <1>6 DEF Apart
<1>. QED BY <1>2, <1>3, <1>4, <1>7

LEMMA GapsLeave ==
  ASSUME NEW S, NEW L, HitsOK(S, L), NEW c \in Nat, NEW q, InOrder(q, S, c),
         NEW a, NEW b, Gaps(q, c, L, a, b)
  PROVE  Leaves(Upto(a, b, c + 1), S, L)
<1>1. PICK X : X = Upto(a, b, c + 1)
  OBVIOUS
<1>2. L \in Nat
  BY DEF HitsOK
<1>3. /\ \A k \in 1..c : /\ q[k] \in S /\ {q[k].start, q[k].end} \subseteq 0..L
                         /\ q[k].start < q[k].end
                         /\ b[k] = q[k].start /\ a[k + 1] = q[k].end
      /\ a[1] = 0 /\ b[c + 1] = L
      /\ \A j, k \in 1..c : j < k => q[j] # q[k] /\ q[j].start <= q[k].start
  BY GapsApart
<1>4. \A k \in 1..(c + 1) : b[k] \in 0..L
  <2>1. ASSUME NEW k \in 1..(c + 1) PROVE b[k] \in 0..L
    <3>1. CASE k = c + 1
      BY <1>2, <1>3, <3>1
    <3>2. CASE k # c + 1
      <4>1. k \in 1..c
        BY <3>2
      <4>. QED BY <1>3, <4>1
    <3>. QED BY <3>1, <3>2
  <2>. QED BY <2>1
<1>5. X \subseteq 0..(L - 1)
  <2>1. ASSUME NEW x \in X PROVE x \in 0..(L - 1)
    <3>1. PICK k \in 1..(c + 1) : x < b[k] /\ x \in Nat
      BY <1>1 DEF Upto
    <3>2. b[k] \in 0..L
      BY <1>4
    <3>. QED BY <1>2, <3>1, <3>2
  <2>. QED BY <2>1
<1>6. ASSUME NEW x \in (0..(L - 1)) \ X PROVE \E h \in S : Holds(h, x)
  <2> DEFINE T == {n \in 0..c : n = 0 \/ q[n].start <= x}
  <2>1. T \in SUBSET (0..c) /\ 0 \in T
    OBVIOUS
  <2>2. PICK n \in T : \A m \in T : m <= n
    <3> HIDE DEF T
    <3>. QED BY <2>1, MaxOf
  <2>3. n \in 0..c /\ n + 1 \in 1..(c + 1) /\ x \in Nat
    OBVIOUS
  <2>4. x < b[n + 1]
    <3>1. CASE n = c
      BY <1>2, <1>3, <3>1
    <3>2. CASE n # c
      <4>1. n + 1 \in 1..c /\ ~(n + 1 <= n)
        BY <2>3, <3>2
      <4>2. n + 1 \notin T
        BY <2>2, <4>1
      <4>3. ~(q[n + 1].start <= x)
        BY <4>1, <4>2
      <4>4. b[n + 1] = q[n + 1].start /\ q[n + 1].start \in 0..L
        BY <1>3, <4>1
      <4>. QED BY <1>2, <2>3, <4>3, <4>4
    <3>. QED BY <3>1, <3>2
  <2>5. ~(a[n + 1] <= x)
    <3>1. ~(a[n + 1] <= x /\ x < b[n + 1])
      BY <1>1, <2>3 DEF Upto
    <3>. QED BY <2>4, <3>1
  <2>6. n # 0
    BY <1>3, <2>3, <2>5
  <2>7. n \in 1..c /\ q[n].start <= x
    BY <2>3, <2>6
  <2>8. q[n] \in S /\ a[n + 1] = q[n].end /\ q[n].end \in 0..L
    BY <1>3, <2>7
  <2>9. x < q[n].end
    BY <1>2, <2>3, <2>5, <2>8
  <2>. QED BY <2>7, <2>8, <2>9 DEF Holds
<1>7. ASSUME NEW x \in X, NEW h \in S, Holds(h, x)
      PROVE  \E g \in S : g # h /\ h.start <= g.start /\ g.end <= x
  <2>1. PICK k \in 1..(c + 1) : x \in Nat /\ a[k] <= x /\ x < b[k]
    BY <1>1 DEF Upto
  <2>2. PICK m \in 1..c : q[m] = h
    BY DEF InOrder
  <2>3. q[m].start <= x /\ x < q[m].end
    BY <1>7, <2>2 DEF Holds
  <2>4. /\ q[m].start \in 0..L /\ q[m].end \in 0..L
        /\ b[m] = q[m].start /\ a[m + 1] = q[m].end
    BY <1>3
  <2>5. m < k
    <3>1. SUFFICES ASSUME k <= m PROVE FALSE
      BY <2>2
    <3>2. k \in 1..c
      BY <3>1
    <3>3. b[k] = q[k].start /\ q[k].start \in 0..L
      BY <1>3, <3>2
    <3>4. q[k].start <= q[m].start
      <4>1. CASE k = m
        BY <2>4, <4>1
      <4>2. CASE k # m
        <5>1. k < m
          BY <3>1, <4>2
        <5>. QED BY <1>3, <3>2, <5>1
      <4>. QED BY <4>1, <4>2
    <3>5. PICK u, v : u = q[k].start /\ v = q[m].start
      OBVIOUS
    <3>6. u \in Nat /\ v \in Nat /\ x < u /\ u <= v /\ v <= x
      BY <2>1, <2>3, <2>4, <3>3, <3>4, <3>5
    <3>. QED BY <2>1, <3>6
  <2>6. k - 1 \in 1..c /\ (k - 1) + 1 = k /\ m <= k - 1
    BY <2>5
  <2>7. PICK n \in 1..c : n = k - 1
    BY <2>6
  <2>8. q[n] \in S /\ a[k] = q[n].end /\ q[n].end <= x
    BY <1>3, <2>1, <2>6, <2>7
  <2>9. m # n
    BY <2>1, <2>3, <2>4, <2>6, <2>7
  <2>10. q[m] # q[n] /\ q[m].start <= q[n].start
    <3>1. m < n
      BY <2>6, <2>7, <2>9
    <3>. QED BY <1>3, <3>1
  <2>. QED BY <2>2, <2>8, <2>10
<1>. QED BY <1>1, <1>5, <1>6, <1>7 DEF Leaves

LEMMA RedactedLeaves ==
  ASSUME NEW S, NEW L, HitsOK(S, L)
  PROVE  \E X : Lists(Redacted(L, S), X) /\ Leaves(X, S, L)
<1>1. PICK q : q = Sorted(S)
  OBVIOUS
<1>2. PICK c \in Nat : InOrder(q, S, c)
  BY <1>1, SortedOrders
<1>3. PICK a, b : Gaps(q, c, L, a, b)
  BY DEF Gaps
<1>4. Apart(a, b, c + 1) /\ Leaves(Upto(a, b, c + 1), S, L)
  BY <1>2, <1>3, GapsApart, GapsLeave
<1>5. PICK n : n = c + 1 /\ n \in Nat \ {0}
  OBVIOUS
<1>6. Lists(FlattenSeq([k \in 1..n |-> Run(a[k], b[k])]), Upto(a, b, n))
  BY <1>4, <1>5, RunsList
<1>7. Redacted(L, S) = FlattenSeq([k \in 1..(c + 1) |-> Run(a[k], b[k])])
  BY <1>1, <1>2, <1>3, RedactedRuns
<1>. QED BY <1>4, <1>5, <1>6, <1>7

-----------------------------------------------------------------------------
(* A text and what is found in it.                                          *)

Meets(h, r) == r.from < h.end /\ h.start < r.to

HitsApart(D) ==
  /\ IsFiniteSet(D) /\ D \subseteq Hit /\ \A h \in D : h.start < h.end
  /\ \A g, h \in D : g.kind = h.kind => g = h \/ g.end <= h.start \/ h.end <= g.start

(* A hit that meets an overlap is over with it, a text's own range           *)
(* cuts none.                                                               *)
Placed(over, own, D) ==
  /\ over \in [from : Nat, to : Nat] /\ over.from <= over.to
  /\ own \in [from : Nat, to : Nat] /\ own.from <= own.to
  /\ over = Nothing \/ own = Nothing \/ over.to <= own.from
  /\ \A h \in D : Meets(h, over) => h.end <= over.to
  /\ \A h \in D : Meets(h, own) => own.from <= h.start /\ h.end <= own.to

FoundIn(h, over, own) ==
  IF Inside(h, own) THEN Part(h, own, Length(over)) ELSE Part(h, over, 0)

InOver(h, f, over) ==
  /\ Inside(h, over) /\ over # Nothing
  /\ f.start = h.start - over.from /\ f.end = h.end - over.from

InOwn(h, f, over, own) ==
  /\ Inside(h, own) /\ own # Nothing
  /\ f.start = Length(over) + (h.start - own.from) /\ f.end = Length(over) + (h.end - own.from)

IsFound(h, f, over, own) ==
  f \in Hit /\ f.kind = h.kind /\ (InOver(h, f, over) \/ InOwn(h, f, over, own))

LEMMA PartIs ==
  ASSUME NEW h \in Hit, NEW r \in [from : Nat, to : Nat], NEW n \in Nat, Inside(h, r),
         h.start < h.end
  PROVE  /\ Part(h, r, n) \in Hit /\ r # Nothing
         /\ Part(h, r, n).kind = h.kind
         /\ Part(h, r, n).start = n + (h.start - r.from)
         /\ Part(h, r, n).end = n + (h.end - r.from)
<1>1. PICK a, b, u, v : a = h.start /\ b = h.end /\ u = r.from /\ v = r.to
  OBVIOUS
<1>2. {a, b, u, v} \subseteq Nat /\ a < b /\ u <= a /\ b <= v
  BY <1>1 DEF Hit, Inside
<1>3. PICK c, d : c = n + a - u /\ d = n + b - u
  OBVIOUS
<1>4. c \in Nat /\ d \in Nat /\ c = n + (a - u) /\ d = n + (b - u) /\ v # 0
  BY <1>2, <1>3
<1>5. Part(h, r, n) = [kind |-> h.kind, start |-> c, end |-> d]
  BY <1>1, <1>3 DEF Part
<1>. QED BY <1>1, <1>4, <1>5 DEF Hit, Nothing, Span

LEMMA PlacedTypes ==
  ASSUME NEW D, NEW over, NEW own, Placed(over, own, D)
  PROVE  /\ {over.from, over.to, own.from, own.to} \subseteq Nat
         /\ over.from <= over.to /\ own.from <= own.to
         /\ over = Nothing => over.from = 0 /\ over.to = 0
         /\ own = Nothing => own.from = 0 /\ own.to = 0
         /\ Length(over) = over.to - over.from /\ Length(over) \in Nat
         /\ Length(own) = own.to - own.from /\ Length(own) \in Nat
BY DEF Placed, Nothing, Span, Length

LEMMA FoundIs ==
  ASSUME NEW D, HitsApart(D), NEW over, NEW own, Placed(over, own, D),
         NEW h \in D, Inside(h, over) \/ Inside(h, own)
  PROVE  IsFound(h, FoundIn(h, over, own), over, own)
<1>1. PICK f : f = FoundIn(h, over, own)
  OBVIOUS
<1>2. /\ h \in Hit /\ h.start < h.end /\ {h.start, h.end} \subseteq Nat
      /\ over \in [from : Nat, to : Nat] /\ own \in [from : Nat, to : Nat]
      /\ over.from \in Nat /\ Length(over) \in Nat
  BY PlacedTypes DEF HitsApart, Placed, Hit
<1>3. CASE Inside(h, own)
  <2>1. f = Part(h, own, Length(over))
    BY <1>1, <1>3 DEF FoundIn
  <2>. QED BY <1>1, <1>2, <1>3, <2>1, PartIs DEF IsFound, InOwn
<1>4. CASE ~Inside(h, own)
  <2>1. f = Part(h, over, 0) /\ Inside(h, over)
    BY <1>1, <1>4 DEF FoundIn
  <2>2. /\ f \in Hit /\ over # Nothing /\ f.kind = h.kind
        /\ f.start = 0 + (h.start - over.from) /\ f.end = 0 + (h.end - over.from)
    BY <1>2, <2>1, PartIs
  <2>3. f.start = h.start - over.from /\ f.end = h.end - over.from
    BY <1>2, <2>2
  <2>. QED BY <1>1, <2>1, <2>2, <2>3 DEF IsFound, InOver
<1>. QED BY <1>3, <1>4

-----------------------------------------------------------------------------
(* A hit is where it was found.                                             *)
LEMMA FoundHolds ==
  ASSUME NEW D, HitsApart(D), NEW over, NEW own, Placed(over, own, D),
         NEW h \in D, NEW f, IsFound(h, f, over, own),
         NEW x \in 0..(Length(over) + Length(own) - 1)
  PROVE  Holds(f, x) <=> Holds(h, Source(x, over, own))
<1>1. PICK a, b, u, v, s, t, y, z :
        /\ a = h.start /\ b = h.end /\ u = over.from /\ v = over.to /\ s = own.from /\ t = own.to
        /\ y = f.start /\ z = f.end
  OBVIOUS
<1>2. {a, b, u, v, s, t, y, z} \subseteq Nat /\ a < b /\ u <= v /\ s <= t
  BY <1>1, PlacedTypes DEF HitsApart, Hit, IsFound
<1>3. PICK m, n, w \in Nat : m = Length(over) /\ n = Length(own) /\ w = x
  BY PlacedTypes
<1>4. m = v - u /\ n = t - s /\ w < m + n
  BY <1>1, <1>3, PlacedTypes
<1>5. (over = Nothing => u = 0 /\ v = 0) /\ (own = Nothing => s = 0 /\ t = 0)
  BY <1>1, PlacedTypes
<1>6. over = Nothing \/ own = Nothing \/ v <= s
  BY <1>1 DEF Placed
<1>7. PICK e : e = IF w < m THEN u + w ELSE s + w - m
  OBVIOUS
<1>8. e = Source(x, over, own)
  BY <1>1, <1>3, <1>7 DEF Source
<1>9. CASE InOver(h, f, over)
  <2>1. over # Nothing /\ u <= a /\ b <= v /\ z = b - u /\ y = a - u
    BY <1>1, <1>9 DEF InOver, Inside
  <2>2. own = Nothing \/ v <= s
    BY <1>6, <2>1
  <2>3. (y <= w /\ w < z) <=> (a <= e /\ e < b)
    BY ONLY <1>2, <1>3, <1>4, <1>5, <1>7, <2>1, <2>2
  <2>. QED BY <1>1, <1>3, <1>8, <2>3 DEF Holds
<1>10. CASE InOwn(h, f, over, own)
  <2>1. own # Nothing /\ s <= a /\ b <= t /\ y = m + (a - s) /\ z = m + (b - s)
    BY <1>1, <1>3, <1>10 DEF InOwn, Inside
  <2>2. over = Nothing \/ v <= s
    BY <1>6, <2>1
  <2>3. (y <= w /\ w < z) <=> (a <= e /\ e < b)
    BY ONLY <1>2, <1>3, <1>4, <1>5, <1>7, <2>1, <2>2
  <2>. QED BY <1>1, <1>3, <1>8, <2>3 DEF Holds
<1>. QED BY <1>9, <1>10 DEF IsFound

(* What is found of the document's is in the text.                          *)
LEMMA FoundTypes ==
  ASSUME NEW D, HitsApart(D), NEW over, NEW own, Placed(over, own, D),
         NEW h \in D, NEW f, IsFound(h, f, over, own)
  PROVE  f.start < f.end /\ f.end <= Length(over) + Length(own)
<1>1. PICK a, b, u, v, s, t, y, z, m, n :
        /\ a = h.start /\ b = h.end /\ u = over.from /\ v = over.to /\ s = own.from /\ t = own.to
        /\ y = f.start /\ z = f.end /\ m = Length(over) /\ n = Length(own)
  OBVIOUS
<1>2. /\ {a, b, u, v, s, t, y, z} \subseteq Nat /\ a < b /\ u <= v /\ s <= t
      /\ m = v - u /\ n = t - s
  BY <1>1, PlacedTypes DEF HitsApart, Hit, IsFound
<1>3. CASE InOver(h, f, over)
  <2>1. u <= a /\ b <= v /\ z = b - u /\ y = a - u
    BY <1>1, <1>3 DEF InOver, Inside
  <2>2. y < z /\ z <= m + n
    BY ONLY <1>2, <2>1
  <2>. QED BY <1>1, <2>2
<1>4. CASE InOwn(h, f, over, own)
  <2>1. s <= a /\ b <= t /\ y = m + (a - s) /\ z = m + (b - s)
    BY <1>1, <1>4 DEF InOwn, Inside
  <2>2. y < z /\ z <= m + n
    BY ONLY <1>2, <2>1
  <2>. QED BY <1>1, <2>2
<1>. QED BY <1>3, <1>4 DEF IsFound

(* A hit that ends before a character is over before it in the document,    *)
(* one before another begins before it.                                     *)
LEMMA FoundRest ==
  ASSUME NEW D, HitsApart(D), NEW over, NEW own, Placed(over, own, D),
         NEW g \in D, NEW e, IsFound(g, e, over, own),
         NEW h \in D, NEW f, IsFound(h, f, over, own),
         NEW x \in 0..(Length(over) + Length(own) - 1), f.start <= e.start, e.end <= x
  PROVE  h.start <= g.start /\ g.end <= Source(x, over, own)
<1>1. PICK a, b, c, d, u, v, s, t, y, p1, q1, m, n :
        /\ a = h.start /\ b = h.end /\ c = g.start /\ d = g.end
        /\ u = over.from /\ v = over.to /\ s = own.from /\ t = own.to
        /\ y = f.start /\ p1 = e.start /\ q1 = e.end /\ m = Length(over) /\ n = Length(own)
  OBVIOUS
<1>2. /\ {a, b, c, d, u, v, s, t, y, p1, q1} \subseteq Nat /\ a < b /\ c < d /\ u <= v /\ s <= t
      /\ m = v - u /\ n = t - s
  BY <1>1, PlacedTypes DEF HitsApart, Hit, IsFound
<1>3. PICK w \in Nat : w = x
  BY PlacedTypes
<1>4. w < m + n /\ y <= p1 /\ q1 <= w
  BY <1>1, <1>2, <1>3
<1>5. over = Nothing \/ own = Nothing \/ v <= s
  BY <1>1 DEF Placed
<1>6. \/ over # Nothing /\ u <= a /\ b <= v /\ y = a - u
      \/ own # Nothing /\ s <= a /\ b <= t /\ y = m + (a - s)
  BY <1>1 DEF IsFound, InOver, InOwn, Inside
<1>7. \/ over # Nothing /\ u <= c /\ d <= v /\ p1 = c - u /\ q1 = d - u
      \/ own # Nothing /\ s <= c /\ d <= t /\ p1 = m + (c - s) /\ q1 = m + (d - s)
  BY <1>1 DEF IsFound, InOver, InOwn, Inside
<1>8. PICK z : z = IF w < m THEN u + w ELSE s + w - m
  OBVIOUS
<1>9. z = Source(x, over, own)
  BY <1>1, <1>3, <1>8 DEF Source
<1>10. (over = Nothing => u = 0 /\ v = 0) /\ (own = Nothing => s = 0 /\ t = 0)
  BY <1>1, PlacedTypes
<1>11. d <= z
  BY ONLY <1>2, <1>3, <1>4, <1>5, <1>7, <1>8, <1>10
<1>12. a <= c
  BY ONLY <1>2, <1>4, <1>5, <1>6, <1>7
<1>. QED BY <1>1, <1>9, <1>11, <1>12

-----------------------------------------------------------------------------
(* What scan finds, and what redact leaves of a text in which it was found. *)
InText(over, own) == {h \in DocHits : Inside(h, over) \/ Inside(h, own)}

LEMMA Scanned ==
  ASSUME NEW over, NEW own, NEW S \in Scans(over, own)
  PROVE  \E missed, n, strays :
           /\ \A h \in missed : Disturbed(h, over, own)
           /\ n \in 0..MaxStrays /\ strays \in [1..n -> Strays(over, own)]
           /\ S = {FoundIn(h, over, own) : h \in InText(over, own) \ missed} \cup ToSet(strays)
           /\ ApartByKind(S)
BY DEF Scans, InText, FoundIn

(* A value of which the text has a character is in it, or near the place    *)
(* where the overlap begins.                                                *)
LEMMA HoldsInside ==
  ASSUME NEW D, HitsApart(D), NEW over, NEW own, Placed(over, own, D), NEW h \in D,
         NEW x \in Places(over, own), Holds(h, Source(x, over, own))
  PROVE  Inside(h, over) \/ Inside(h, own) \/ Disturbed(h, over, own)
<1>1. PICK a, b, u, v, s, t, m, n :
        /\ a = h.start /\ b = h.end /\ u = over.from /\ v = over.to /\ s = own.from /\ t = own.to
        /\ m = Length(over) /\ n = Length(own)
  OBVIOUS
<1>2. /\ {a, b, u, v, s, t} \subseteq Nat /\ u <= v /\ s <= t /\ m = v - u /\ n = t - s
  BY <1>1, PlacedTypes DEF HitsApart, Hit
<1>3. PICK w \in Nat : w = x /\ w < m + n
  BY <1>1, <1>2 DEF Places
<1>4. PICK e : e = IF w < m THEN u + w ELSE s + w - m
  OBVIOUS
<1>5. a <= e /\ e < b
  BY <1>1, <1>3, <1>4 DEF Holds, Source
<1>6. CASE w < m
  <2>1. u < b /\ a < v /\ a <= u + w /\ u + w < b /\ u < v
    BY ONLY <1>2, <1>3, <1>4, <1>5, <1>6
  <2>2. b <= v
    BY <1>1, <2>1 DEF Placed, Meets
  <2>3. CASE u <= a
    BY <1>1, <2>2, <2>3 DEF Inside
  <2>4. CASE ~(u <= a)
    <3>1. over # Nothing
      BY <1>1, <1>2, <2>1 DEF Nothing, Span
    <3>2. 0 \in Places(over, own)
      BY <1>1, <1>2, <1>3 DEF Places
    <3>3. Near(0, over)
      BY <3>1, RedactionAssumption DEF Near
    <3>4. Source(0, over, own) = u
      BY <1>1, <1>2, <1>3, <1>6 DEF Source
    <3>5. a <= u /\ u < b
      BY <1>2, <2>1, <2>4
    <3>. QED BY <1>1, <3>2, <3>3, <3>4, <3>5 DEF Disturbed
  <2>. QED BY <2>3, <2>4
<1>7. CASE ~(w < m)
  <2>1. s < b /\ a < t
    BY ONLY <1>2, <1>3, <1>4, <1>5, <1>7
  <2>. QED BY <1>1, <2>1 DEF Placed, Meets, Inside
<1>. QED BY <1>6, <1>7

(* What is found that is no value of the document is near.                  *)
LEMMA StrayIs ==
  ASSUME NEW over, NEW own, Length(over) \in Nat, Length(own) \in Nat,
         NEW f \in Strays(over, own)
  PROVE  /\ f \in Hit /\ f.start < f.end /\ f.end <= Length(over) + Length(own)
         /\ \A x \in Places(over, own) : Holds(f, x) => Near(x, over)
<1>1. /\ f \in [kind : Kinds, start : Places(over, own), end : 1..(Length(over) + Length(own))]
      /\ f.start < f.end /\ \A x \in f.start..(f.end - 1) : Near(x, over)
  BY DEF Strays
<1>2. f.kind \in Kinds /\ f.start \in Nat /\ f.end \in Nat
      /\ f.end <= Length(over) + Length(own)
  BY <1>1 DEF Places
<1>3. f \in Hit
  BY <1>1, <1>2, RedactionAssumption DEF Hit, Places
<1>4. ASSUME NEW x \in Places(over, own), Holds(f, x) PROVE Near(x, over)
  <2>1. x \in f.start..(f.end - 1)
    BY <1>2, <1>4 DEF Holds, Places
  <2>. QED BY <1>1, <2>1
<1>. QED BY <1>1, <1>2, <1>3, <1>4

LEMMA ScannedOK ==
  ASSUME HitsApart(DocHits), NEW over, NEW own, Placed(over, own, DocHits),
         NEW H \in SUBSET InText(over, own),
         NEW n \in Nat, NEW strays \in [1..n -> Strays(over, own)],
         NEW S, S = {FoundIn(h, over, own) : h \in H} \cup ToSet(strays), ApartByKind(S)
  PROVE  HitsOK(S, Length(over) + Length(own))
<1>1. PICK R : R = {FoundIn(h, over, own) : h \in H}
  OBVIOUS
<1>2. PICK L : L = Length(over) + Length(own)
  OBVIOUS
<1>3. ASSUME NEW h \in H PROVE h \in DocHits /\ IsFound(h, FoundIn(h, over, own), over, own)
  BY FoundIs DEF InText
<1>4. IsFiniteSet(R)
  <2>1. IsFiniteSet(H)
    <3>1. IsFiniteSet(DocHits) /\ H \subseteq DocHits
      BY DEF HitsApart, InText
    <3>. QED BY <3>1, FS_Subset
  <2>2. PICK F : F = [h \in H |-> FoundIn(h, over, own)]
    OBVIOUS
  <2>3. F \in Surjection(H, R)
    BY <1>1, <2>2 DEF Surjection
  <2>. QED BY <2>1, <2>3, FS_Surjection
<1>5. IsFiniteSet(S)
  <2>1. ToSet(strays) = {strays[k] : k \in 1..n}
    BY DEF ToSet
  <2>2. strays \in Surjection(1..n, ToSet(strays))
    BY <2>1 DEF Surjection
  <2>3. IsFiniteSet(1..n)
    BY FS_Interval
  <2>4. IsFiniteSet(ToSet(strays))
    BY <2>2, <2>3, FS_Surjection
  <2>. QED BY <1>1, <1>4, <2>4, FS_Union
<1>6. L \in Nat /\ Length(over) \in Nat /\ Length(own) \in Nat
  BY <1>2, PlacedTypes
<1>7. ASSUME NEW f \in S PROVE f \in Hit /\ f.start < f.end /\ f.end <= L
  <2>1. CASE f \in R
    <3>1. PICK h \in H : f = FoundIn(h, over, own)
      BY <1>1, <2>1
    <3>2. h \in DocHits /\ IsFound(h, f, over, own)
      BY <1>3, <3>1
    <3>. QED BY <1>2, <3>2, FoundTypes DEF IsFound
  <2>2. CASE f \in ToSet(strays)
    <3>1. f \in Strays(over, own)
      BY <2>2 DEF ToSet
    <3>. QED BY <1>2, <1>6, <3>1, StrayIs
  <2>. QED BY <1>1, <2>1, <2>2
<1>8. ASSUME NEW e \in S, NEW f \in S, e.kind = f.kind, e.start = f.start PROVE e = f
  <2>1. e = f \/ e.end <= f.start \/ f.end <= e.start
    BY <1>8 DEF ApartByKind
  <2>2. e.start < e.end /\ f.start < f.end /\ {e.start, e.end, f.start, f.end} \subseteq Nat
    BY <1>7 DEF Hit
  <2>. QED BY <1>8, <2>1, <2>2
<1>. QED BY <1>2, <1>5, <1>6, <1>7, <1>8 DEF HitsOK

(* A chunk's text t: what is not personal is left, in order, and of what is *)
(* nothing but the rest of a value behind another, unless it is near.       *)
LeavesText(t, over, own) ==
  /\ \A n \in 2..Len(t) : t[n - 1] < t[n]
  /\ \A x \in Places(over, own) \ ToSet(t) :
       (\E h \in DocHits : Holds(h, Source(x, over, own))) \/ Near(x, over)
  /\ \A x \in ToSet(t) : \A h \in DocHits :
       Holds(h, Source(x, over, own)) =>
         RestOf(h, Source(x, over, own)) \/ Disturbed(h, over, own)

LEMMA RedactedText ==
  ASSUME HitsApart(DocHits), NEW over, NEW own, Placed(over, own, DocHits),
         NEW S \in Scans(over, own),
         NEW t, t = Redacted(Length(over) + Length(own), S)
  PROVE  LeavesText(t, over, own)
<1> DEFINE L == Length(over) + Length(own)
<1>1. Length(over) \in Nat /\ Length(own) \in Nat
  BY PlacedTypes
<1>2. PICK missed, n, strays :
        /\ \A h \in missed : Disturbed(h, over, own)
        /\ n \in 0..MaxStrays /\ strays \in [1..n -> Strays(over, own)]
        /\ S = {FoundIn(h, over, own) : h \in InText(over, own) \ missed} \cup ToSet(strays)
        /\ ApartByKind(S)
  BY Scanned
<1>3. PICK H : H = InText(over, own) \ missed
  OBVIOUS
<1>4. S = {FoundIn(h, over, own) : h \in H} \cup ToSet(strays)
  BY <1>2, <1>3
<1>5. HitsOK(S, L)
  <2>1. H \in SUBSET InText(over, own) /\ n \in Nat
    BY <1>2, <1>3, RedactionAssumption
  <2>. QED BY <1>2, <1>4, <2>1, ScannedOK
<1>6. PICK X : Lists(t, X) /\ Leaves(X, S, L)
  BY <1>5, RedactedLeaves
<1>7. X = ToSet(t)
  <2>1. t \in Seq(Nat) /\ X = {t[m] : m \in 1..Len(t)}
    BY <1>6 DEF Lists
  <2>. QED BY <2>1 DEF ToSet
<1>8. ASSUME NEW h \in H
      PROVE  h \in DocHits /\ FoundIn(h, over, own) \in S
             /\ IsFound(h, FoundIn(h, over, own), over, own)
  <2>1. h \in DocHits /\ (Inside(h, over) \/ Inside(h, own))
    BY <1>3 DEF InText
  <2>2. IsFound(h, FoundIn(h, over, own), over, own)
    BY <2>1, FoundIs
  <2>. QED BY <1>4, <2>1, <2>2
<1>9. \A k \in 2..Len(t) : t[k - 1] < t[k]
  <2>1. t \in Seq(Nat) /\ \A j, k \in 1..Len(t) : j < k => t[j] < t[k]
    BY <1>6 DEF Lists
  <2>2. ASSUME NEW k \in 2..Len(t) PROVE t[k - 1] < t[k]
    <3>1. k - 1 \in 1..Len(t) /\ k \in 1..Len(t) /\ k - 1 < k
      BY <2>1
    <3>. QED BY <2>1, <3>1
  <2>. QED BY <2>2
<1>10. Places(over, own) = 0..(L - 1)
  BY <1>1 DEF Places
<1>11. ASSUME NEW f \in S
       PROVE  \/ \E h \in H : f = FoundIn(h, over, own) /\ IsFound(h, f, over, own)
              \/ \A x \in Places(over, own) : Holds(f, x) => Near(x, over)
  <2>1. CASE f \in ToSet(strays)
    <3>1. f \in Strays(over, own)
      BY <1>2, <2>1 DEF ToSet
    <3>. QED BY <1>1, <3>1, StrayIs
  <2>2. CASE f \notin ToSet(strays)
    <3>1. PICK h \in H : f = FoundIn(h, over, own)
      BY <1>4, <2>2
    <3>. QED BY <1>8, <3>1
  <2>. QED BY <2>1, <2>2
<1>12. ASSUME NEW x \in (0..(L - 1)) \ X
       PROVE  (\E h \in DocHits : Holds(h, Source(x, over, own))) \/ Near(x, over)
  <2>1. PICK f \in S : Holds(f, x)
    BY <1>6 DEF Leaves
  <2>2. CASE \A y \in Places(over, own) : Holds(f, y) => Near(y, over)
    BY <1>10, <2>1, <2>2
  <2>3. CASE \E h \in H : f = FoundIn(h, over, own) /\ IsFound(h, f, over, own)
    <3>1. PICK h \in H : IsFound(h, f, over, own)
      BY <2>3
    <3>2. h \in DocHits /\ x \in 0..(Length(over) + Length(own) - 1)
      BY <1>1, <1>8
    <3>3. Holds(h, Source(x, over, own))
      BY <2>1, <3>1, <3>2, FoundHolds
    <3>. QED BY <3>2, <3>3
  <2>. QED BY <1>11, <2>2, <2>3
<1>13. ASSUME NEW x \in X, NEW h \in DocHits, Holds(h, Source(x, over, own)),
              ~Disturbed(h, over, own)
       PROVE  RestOf(h, Source(x, over, own))
  <2>1. x \in 0..(L - 1) /\ x \in Places(over, own)
    BY <1>6, <1>10 DEF Leaves
  <2>2. Inside(h, over) \/ Inside(h, own)
    BY <1>13, <2>1, HoldsInside
  <2>3. h \in H
    BY <1>2, <1>3, <1>13, <2>2 DEF InText
  <2>4. PICK f \in S : f = FoundIn(h, over, own) /\ IsFound(h, f, over, own)
    BY <1>8, <2>3
  <2>5. Holds(f, x)
    BY <1>1, <1>13, <2>1, <2>4, FoundHolds
  <2>6. PICK e \in S : e # f /\ f.start <= e.start /\ e.end <= x
    BY <1>6, <2>5 DEF Leaves
  <2>7. /\ e \in Hit /\ e.start < e.end /\ f \in Hit /\ x \in Nat
    BY <1>5, <2>1 DEF HitsOK
  <2>8. CASE \A y \in Places(over, own) : Holds(e, y) => Near(y, over)
    <3>1. PICK y : y = e.start
      OBVIOUS
    <3>2. y \in Nat /\ f.start <= y /\ y < x /\ e.start <= y /\ y < e.end
          /\ x < f.end /\ f.end \in Nat /\ e.end \in Nat
      BY <2>5, <2>6, <2>7, <3>1 DEF Hit, Holds
    <3>3. y \in 0..(L - 1) /\ Holds(f, y) /\ Holds(e, y)
      BY <1>1, <2>1, <2>7, <3>2 DEF Holds
    <3>4. Near(y, over) /\ y \in Places(over, own)
      BY <1>10, <2>8, <3>3
    <3>5. Holds(h, Source(y, over, own))
      BY <1>1, <2>4, <3>3, FoundHolds
    <3>. QED BY <1>13, <3>4, <3>5 DEF Disturbed, Holds
  <2>9. CASE \E g \in H : e = FoundIn(g, over, own) /\ IsFound(g, e, over, own)
    <3>1. PICK g \in H : e = FoundIn(g, over, own) /\ IsFound(g, e, over, own)
      BY <2>9
    <3>2. g \in DocHits /\ g # h
      BY <1>8, <2>4, <2>6, <3>1
    <3>3. x \in 0..(Length(over) + Length(own) - 1)
      BY <1>1, <2>1
    <3>4. h.start <= g.start /\ g.end <= Source(x, over, own)
      BY <2>4, <2>6, <3>1, <3>2, <3>3, FoundRest, Zenon
    <3>. QED BY <3>2, <3>4 DEF RestOf
  <2>. QED BY <1>11, <2>8, <2>9
<1>. QED BY <1>7, <1>9, <1>10, <1>12, <1>13 DEF LeavesText

-----------------------------------------------------------------------------
(* The blocks in the document's characters.                                 *)
End(k) == At(k) + doc[k].chars

BlocksApart ==
  /\ At(1) = 0 /\ \A k \in 1..Len(doc) : At(k) \in Nat /\ End(k) \in Nat /\ At(k) < End(k)
  /\ \A j, k \in 1..Len(doc) : j < k => End(j) + 2 <= At(k)
  /\ \A j, k \in 1..Len(doc) : j <= k => Chars(j, k) = End(k) - At(j)

LEMMA SumsGrow ==
  ASSUME NEW n \in Nat, NEW w \in [1..n -> Nat], NEW C \in [1..(n + 1) -> Nat],
         \A k \in 1..n : C[k + 1] = C[k] + w[k] + 2,
         NEW j \in 1..n, NEW k \in 1..(n + 1), j < k
  PROVE  C[j] + w[j] + 2 <= C[k]
<1> DEFINE OK(d) == j + 1 + d <= n + 1 => C[j] + w[j] + 2 <= C[j + 1 + d]
           I == {d \in Nat : OK(d)}
<1>1. OK(0)
  <2>1. j + 1 + 0 = j + 1 /\ C[j + 1] = C[j] + w[j] + 2 /\ C[j] \in Nat /\ w[j] \in Nat
    OBVIOUS
  <2>. QED BY <2>1
<1>2. ASSUME NEW d \in Nat, OK(d) PROVE OK(d + 1)
  <2>1. SUFFICES ASSUME j + 1 + (d + 1) <= n + 1 PROVE C[j] + w[j] + 2 <= C[j + 1 + (d + 1)]
    OBVIOUS
  <2>2. PICK e \in Nat : e = j + 1 + d /\ e \in 1..n /\ j + 1 + (d + 1) = e + 1
    <3>1. /\ j + 1 + d \in Nat /\ j + 1 + d \in 1..n
          /\ j + 1 + (d + 1) = (j + 1 + d) + 1
      BY <2>1
    <3>. QED BY <3>1
  <2>3. C[e + 1] = C[e] + w[e] + 2 /\ {C[j], w[j], C[e], w[e], C[e + 1]} \subseteq Nat
    <3>1. e \in 1..(n + 1) /\ e + 1 \in 1..(n + 1) /\ j \in 1..(n + 1)
      BY <2>2
    <3>2. C[e + 1] = C[e] + w[e] + 2
      BY <2>2
    <3>3. C[j] \in Nat /\ C[e] \in Nat /\ C[e + 1] \in Nat
      BY <3>1
    <3>4. w[j] \in Nat /\ w[e] \in Nat
      BY <2>2
    <3>. QED BY <3>2, <3>3, <3>4
  <2>4. C[j] + w[j] + 2 <= C[e]
    <3>1. j + 1 + d <= n + 1
      BY <2>1
    <3>. QED BY <1>2, <2>2, <3>1
  <2>5. PICK x, y, z, u, v : x = C[j] /\ y = w[j] /\ z = C[e] /\ u = w[e] /\ v = C[e + 1]
    OBVIOUS
  <2>6. x + y + 2 <= v
    <3>1. {x, y, z, u, v} \subseteq Nat /\ v = z + u + 2 /\ x + y + 2 <= z
      BY <2>3, <2>4, <2>5
    <3>. QED BY ONLY SMTT(20), <3>1
  <2>. QED BY <2>2, <2>5, <2>6
<1> HIDE DEF OK
<1>3. 0 \in I /\ \A d \in Nat : d \in I => d + 1 \in I
  BY <1>1, <1>2
<1> HIDE DEF I
<1>4. Nat \subseteq I
  BY <1>3, SetInduction
<1>5. PICK d \in Nat : k = j + 1 + d
  <2>1. k - j - 1 \in Nat /\ k = j + 1 + (k - j - 1)
    OBVIOUS
  <2>. QED BY <2>1
<1>6. OK(d)
  BY <1>4 DEF I
<1>. QED BY <1>5, <1>6 DEF OK

LEMMA BlocksAt ==
  ASSUME doc \in Seq(Block)
  PROVE  Len(doc) > 0 => BlocksApart
<1>0. SUFFICES ASSUME Len(doc) > 0 PROVE BlocksApart
  OBVIOUS
<1>1. PICK n \in Nat : n = Len(doc)
  OBVIOUS
<1>2. PICK w : w = [k \in 1..Len(doc) |-> doc[k].chars]
  OBVIOUS
<1>3. w \in [1..n -> Nat] /\ \A k \in 1..n : w[k] = doc[k].chars /\ w[k] > 0
  BY <1>1, <1>2, ChunkerAssumption
<1>4. PICK C \in [1..(n + 1) -> Nat] : C[1] = 0 /\ \A k \in 1..n : C[k + 1] = C[k] + w[k] + 2
  BY <1>3, PrefixExists
<1>5. PrefixSums(C, Len(doc), w)
  BY <1>1, <1>4 DEF PrefixSums
<1>6. ASSUME NEW k \in 1..n PROVE At(k) = C[k]
  <2>1. CASE k = 1
    BY <1>4, <2>1 DEF At
  <2>2. CASE k # 1
    <3>1. k - 1 \in 1..n /\ 1 \in 1..n /\ (k - 1) + 1 = k
      BY <2>2
    <3>2. Chars(1, k - 1) = C[(k - 1) + 1] - C[1] - 2
      BY <1>1, <1>2, <1>5, <3>1, CharsArePrefixes
    <3>3. C[k] \in Nat
      BY <1>4
    <3>4. Chars(1, k - 1) + Sep = C[k]
      BY <1>4, <3>1, <3>2, <3>3 DEF Sep
    <3>. QED BY <2>2, <3>4 DEF At
  <2>. QED BY <2>1, <2>2
<1>7. ASSUME NEW k \in 1..n
      PROVE  /\ At(k) = C[k] /\ End(k) = C[k] + w[k] /\ C[k] \in Nat /\ w[k] \in Nat /\ w[k] > 0
             /\ C[k] + w[k] \in Nat /\ C[k] < C[k] + w[k]
  <2>1. C[k] \in Nat /\ w[k] \in Nat /\ w[k] > 0
    <3>1. k \in 1..(n + 1)
      OBVIOUS
    <3>. QED BY <1>3, <1>4, <3>1
  <2>2. w[k] = doc[k].chars
    BY <1>3
  <2>3. C[k] + w[k] \in Nat /\ C[k] < C[k] + w[k]
    BY <2>1
  <2>. QED BY <1>6, <2>1, <2>2, <2>3 DEF End
<1>8. ASSUME NEW j \in 1..n, NEW k \in 1..n, j < k PROVE End(j) + 2 <= At(k)
  <2>1. C[j] + w[j] + 2 <= C[k]
    <3>1. k \in 1..(n + 1) /\ w \in [1..n -> Nat]
      BY <1>3
    <3>. QED BY <1>4, <1>8, <3>1, SumsGrow
  <2>. QED BY <1>6, <1>7, <2>1
<1>9. ASSUME NEW j \in 1..n, NEW k \in 1..n, j <= k PROVE Chars(j, k) = End(k) - At(j)
  <2>1. Chars(j, k) = C[k + 1] - C[j] - 2
    <3>1. j \in 1..Len(doc) /\ k \in j..Len(doc)
      BY <1>1, <1>9
    <3>. QED BY <1>2, <1>5, <3>1, CharsArePrefixes
  <2>2. C[k + 1] = C[k] + w[k] + 2
    BY <1>4
  <2>3. PICK x, y, z : x = C[j] /\ y = C[k] /\ z = w[k] /\ {x, y, z} \subseteq Nat
    BY <1>7
  <2>4. Chars(j, k) = (y + z) - x
    BY SMTT(20), <2>1, <2>2, <2>3
  <2>. QED BY <1>6, <1>7, <2>3, <2>4
<1>10. At(1) = 0
  BY DEF At
<1>11. \A k \in 1..n : At(k) \in Nat /\ End(k) \in Nat /\ At(k) < End(k)
  BY <1>7
<1>. QED BY <1>1, <1>8, <1>9, <1>10, <1>11 DEF BlocksApart

-----------------------------------------------------------------------------
(* The document's hits lie in its blocks.                                   *)
HitIn(g, k) ==
  /\ k \in 1..Len(doc) /\ g \in Hit /\ g.start < g.end /\ At(k) <= g.start /\ g.end <= End(k)

Moved(h, k) == [kind |-> h.kind, start |-> At(k) + h.start, end |-> At(k) + h.end]

LEMMA BlockHits ==
  ASSUME doc \in Seq(Block), BlocksApart, NEW k \in 1..Len(doc)
  PROVE  /\ IsFiniteSet(HitsOf(k)) /\ \A g \in HitsOf(k) : HitIn(g, k)
         /\ \A g, h \in HitsOf(k) :
              g.kind = h.kind => g = h \/ g.end <= h.start \/ h.end <= g.start
<1>1. PICK S : S = doc[k].hits
  OBVIOUS
<1>2. /\ IsFiniteSet(S) /\ doc[k].chars \in Nat
      /\ \A h \in S : h \in Hit /\ h.start < h.end /\ h.end <= doc[k].chars
      /\ \A g, h \in S : g.kind = h.kind => g = h \/ g.end <= h.start \/ h.end <= g.start
  <2>1. doc[k] \in Block
    OBVIOUS
  <2>. QED BY <1>1, <2>1, ChunkerAssumption DEF Hit
<1>3. PICK a \in Nat : a = At(k) /\ End(k) = a + doc[k].chars
  BY DEF BlocksApart, End
<1>4. HitsOf(k) = {Moved(h, k) : h \in S}
  BY <1>1 DEF HitsOf, Moved
<1>5. IsFiniteSet(HitsOf(k))
  <2>1. PICK F : F = [h \in S |-> Moved(h, k)]
    OBVIOUS
  <2>2. F \in Surjection(S, HitsOf(k))
    BY <1>4, <2>1 DEF Surjection
  <2>. QED BY <1>2, <2>2, FS_Surjection
<1>6. ASSUME NEW g \in HitsOf(k)
      PROVE  \E h \in S : g = [kind |-> h.kind, start |-> a + h.start, end |-> a + h.end]
  BY <1>3, <1>4 DEF Moved
<1>7. ASSUME NEW g \in HitsOf(k) PROVE HitIn(g, k)
  <2>1. PICK h \in S : g = [kind |-> h.kind, start |-> a + h.start, end |-> a + h.end]
    BY <1>6
  <2>2. PICK x, y, c \in Nat : x = h.start /\ y = h.end /\ c = doc[k].chars
    BY <1>2 DEF Hit
  <2>3. x < y /\ y <= c
    BY <1>2, <2>2
  <2>4. a + x \in Nat /\ a + y \in Nat /\ a + x < a + y /\ a <= a + x /\ a + y <= a + c
    BY <2>3
  <2>5. h.kind \in Nat
    BY <1>2 DEF Hit
  <2>. QED BY <1>3, <2>1, <2>2, <2>4, <2>5 DEF HitIn, Hit
<1>8. ASSUME NEW e \in HitsOf(k), NEW f \in HitsOf(k), e.kind = f.kind
      PROVE  e = f \/ e.end <= f.start \/ f.end <= e.start
  <2>1. PICK g \in S : e = [kind |-> g.kind, start |-> a + g.start, end |-> a + g.end]
    BY <1>6
  <2>2. PICK h \in S : f = [kind |-> h.kind, start |-> a + h.start, end |-> a + h.end]
    BY <1>6
  <2>3. g = h \/ g.end <= h.start \/ h.end <= g.start
    BY <1>2, <1>8, <2>1, <2>2
  <2>4. PICK x, y, z, w : x = g.start /\ y = g.end /\ z = h.start /\ w = h.end
    OBVIOUS
  <2>5. {x, y, z, w} \subseteq Nat
    BY <1>2, <2>4 DEF Hit
  <2>6. (y <= z => a + y <= a + z) /\ (w <= x => a + w <= a + x)
    BY <2>5
  <2>. QED BY <2>1, <2>2, <2>3, <2>4, <2>6
<1>. QED BY <1>5, <1>7, <1>8

LEMMA DocHitsApart ==
  ASSUME doc \in Seq(Block), Len(doc) > 0
  PROVE  HitsApart(DocHits) /\ \A h \in DocHits : \E k \in 1..Len(doc) : HitIn(h, k)
<1>1. PICK n \in Nat : n = Len(doc)
  OBVIOUS
<1>2. BlocksApart
  BY BlocksAt
<1>3. ASSUME NEW k \in 1..n
      PROVE  /\ IsFiniteSet(HitsOf(k)) /\ \A g \in HitsOf(k) : HitIn(g, k)
             /\ \A g, h \in HitsOf(k) :
                  g.kind = h.kind => g = h \/ g.end <= h.start \/ h.end <= g.start
  BY <1>1, <1>2, BlockHits
<1>4. DocHits = UNION {HitsOf(k) : k \in 1..n}
  BY <1>1 DEF DocHits
<1>5. IsFiniteSet(DocHits)
  <2>1. PICK I, F, T : I = 1..n /\ F = [k \in I |-> HitsOf(k)] /\ T = {HitsOf(k) : k \in I}
    OBVIOUS
  <2>2. IsFiniteSet(I)
    <3>1. 1 \in Int /\ n \in Int
      OBVIOUS
    <3>2. IsFiniteSet(1..n)
      BY ONLY <3>1, FS_Interval
    <3>. QED BY <2>1, <3>2
  <2>3. F \in Surjection(I, T)
    BY <2>1 DEF Surjection
  <2>4. IsFiniteSet(T)
    BY <2>2, <2>3, FS_Surjection
  <2>5. \A S \in T : IsFiniteSet(S)
    BY <1>3, <2>1
  <2>6. IsFiniteSet(UNION T)
    BY <2>4, <2>5, FS_UNION
  <2>. QED BY <1>4, <2>1, <2>6
<1>6. ASSUME NEW h \in DocHits PROVE \E k \in 1..n : h \in HitsOf(k) /\ HitIn(h, k)
  <2>1. PICK k \in 1..n : h \in HitsOf(k)
    BY <1>4
  <2>. QED BY <1>3, <2>1
<1>7. ASSUME NEW g \in DocHits, NEW h \in DocHits, g.kind = h.kind
      PROVE  g = h \/ g.end <= h.start \/ h.end <= g.start
  <2>1. PICK j \in 1..n : g \in HitsOf(j) /\ HitIn(g, j)
    BY <1>6
  <2>2. PICK k \in 1..n : h \in HitsOf(k) /\ HitIn(h, k)
    BY <1>6
  <2>3. CASE j = k
    BY <1>3, <1>7, <2>1, <2>2, <2>3
  <2>4. CASE j < k
    <3>1. PICK x, y, u, v : x = End(j) /\ y = At(k) /\ u = g.end /\ v = h.start
      OBVIOUS
    <3>2. {x, y, u, v} \subseteq Nat /\ u <= x /\ x + 2 <= y /\ y <= v
      BY <1>1, <1>2, <2>1, <2>2, <2>4, <3>1 DEF BlocksApart, HitIn, Hit
    <3>3. u <= v
      BY <3>2
    <3>. QED BY <3>1, <3>3
  <2>5. CASE k < j
    <3>1. PICK x, y, u, v : x = End(k) /\ y = At(j) /\ u = h.end /\ v = g.start
      OBVIOUS
    <3>2. {x, y, u, v} \subseteq Nat /\ u <= x /\ x + 2 <= y /\ y <= v
      BY <1>1, <1>2, <2>1, <2>2, <2>5, <3>1 DEF BlocksApart, HitIn, Hit
    <3>3. u <= v
      BY <3>2
    <3>. QED BY <3>1, <3>3
  <2>. QED BY <2>3, <2>4, <2>5
<1>8. \A h \in DocHits : h \in Hit /\ h.start < h.end
  BY <1>6 DEF HitIn
<1>. QED BY <1>1, <1>5, <1>6, <1>7, <1>8 DEF HitsApart

-----------------------------------------------------------------------------
(* The texts that are redacted.                                             *)
LEMMA MeetsBlocks ==
  ASSUME BlocksApart, Len(doc) \in Nat, NEW a \in 1..Len(doc), NEW b \in 1..Len(doc), a <= b,
         NEW k \in 1..Len(doc), NEW h, HitIn(h, k), Meets(h, Span(At(a), End(b)))
  PROVE  At(a) <= h.start /\ h.end <= End(b)
<1>1. At(a) < h.end /\ h.start < End(b)
  BY DEF Meets, Span
<1>2. PICK x, y, u, v, s, t : /\ x = At(a) /\ y = End(b) /\ u = At(k) /\ v = End(k)
                              /\ s = h.start /\ t = h.end
  OBVIOUS
<1>3. /\ {x, y, u, v, s, t} \subseteq Nat /\ x < t /\ s < y /\ u <= s /\ t <= v
      /\ k < a => v + 2 <= x
      /\ a < k => x <= u
      /\ a = k => x = u
      /\ b < k => y + 2 <= u
      /\ k < b => v <= y
      /\ k = b => v = y
  <2>1. {x, y, u, v, s, t} \subseteq Nat /\ x < t /\ s < y /\ u <= s /\ t <= v
    BY <1>1, <1>2 DEF BlocksApart, HitIn, Hit
  <2>2. k < a => v + 2 <= x
    BY <1>2 DEF BlocksApart
  <2>3. b < k => y + 2 <= u
    BY <1>2 DEF BlocksApart
  <2>4. a < k => x <= u
    <3>1. PICK z : z = End(a)
      OBVIOUS
    <3>2. a < k => z + 2 <= u
      BY <1>2, <3>1 DEF BlocksApart
    <3>3. x < z /\ z \in Nat
      BY <1>2, <3>1 DEF BlocksApart
    <3>. QED BY <2>1, <3>2, <3>3
  <2>5. k < b => v <= y
    <3>1. PICK z : z = At(b)
      OBVIOUS
    <3>2. k < b => v + 2 <= z
      BY <1>2, <3>1 DEF BlocksApart
    <3>3. z < y /\ z \in Nat
      BY <1>2, <3>1 DEF BlocksApart
    <3>. QED BY <2>1, <3>2, <3>3
  <2>. QED BY <1>2, <2>1, <2>2, <2>3, <2>4, <2>5
<1>4. PICK d, e, f \in Nat : d = a /\ e = b /\ f = k
  OBVIOUS
<1>5. x <= s /\ t <= y
  <2>1. /\ f < d => v + 2 <= x
        /\ d < f => x <= u
        /\ d = f => x = u
        /\ e < f => y + 2 <= u
        /\ f < e => v <= y
        /\ f = e => v = y
    BY <1>3, <1>4
  <2>2. {x, y, u, v, s, t} \subseteq Nat /\ x < t /\ s < y /\ u <= s /\ t <= v
    BY <1>3
  <2>. QED BY ONLY <1>4, <2>1, <2>2
<1>. QED BY <1>2, <1>5

OfRange(own, a, b) ==
  a \in 1..Len(doc) /\ b \in 1..Len(doc) /\ a <= b /\ own = Span(At(a), End(b))

LEMMA OwnIs ==
  ASSUME ChunkInv, Len(doc) > 0, NEW k \in 0..Len(chunks)
  PROVE  \/ k > 0 /\ Own(k) = Nothing
         \/ \E a, b : OfRange(Own(k), a, b) /\ (k > 0 => a = chunks[k].from)
<1>1. /\ doc \in Seq(Block) /\ Len(doc) \in Nat /\ chunks \in Seq(ChunkType)
      /\ ChunksAre(chunks) /\ BlocksApart
  BY ChunksFacts, BlocksAt
<1>2. CASE k = 0
  <2>1. 1 \in 1..Len(doc) /\ Len(doc) \in 1..Len(doc)
    BY <1>1
  <2>2. Chars(1, Len(doc)) = End(Len(doc)) - At(1) /\ At(1) = 0 /\ End(Len(doc)) \in Nat
    BY <1>1, <2>1 DEF BlocksApart
  <2>3. Own(k) = Span(At(1), End(Len(doc)))
    BY <1>2, <2>2 DEF Own
  <2>4. OfRange(Own(k), 1, Len(doc))
    BY <1>1, <2>1, <2>3 DEF OfRange
  <2>. QED BY <1>2, <2>4
<1>3. CASE k # 0
  <2>1. k \in 1..Len(chunks) /\ k > 0
    BY <1>3
  <2>2. PICK c \in ChunkType : c = chunks[k]
    BY <1>1, <2>1
  <2>3. c.from \in 1..(Len(doc) + 1) /\ c.to \in 0..Len(doc)
    BY <2>2 DEF ChunkType
  <2>4. CASE c.from > c.to
    BY <1>3, <2>1, <2>2, <2>4 DEF Own
  <2>5. CASE ~(c.from > c.to)
    <3>1. Own(k) = Span(At(c.from), End(c.to))
      BY <1>3, <2>2, <2>5 DEF Own, EndOf, End
    <3>2. c.from \in 1..Len(doc) /\ c.to \in 1..Len(doc) /\ c.from <= c.to
      BY <1>1, <2>3, <2>5
    <3>. QED BY <2>2, <3>1, <3>2 DEF OfRange
  <2>. QED BY <2>4, <2>5
<1>. QED BY <1>2, <1>3

Ending(over, b) ==
  /\ b \in 1..Len(doc) /\ over = Span(over.from, End(b)) /\ over.from \in Nat
  /\ \E a \in 1..Len(doc) : a <= b /\ At(a) <= over.from
  /\ over.from <= End(b)

LEMMA OverlapIs ==
  ASSUME ChunkInv, Len(doc) > 0, NEW k \in 0..Len(chunks)
  PROVE  \/ Overlap(k) = Nothing
         \/ k > 0 /\ \E b : Ending(Overlap(k), b) /\ b = chunks[k].from - 1
<1>1. /\ doc \in Seq(Block) /\ Len(doc) \in Nat /\ chunks \in Seq(ChunkType)
      /\ ChunksAre(chunks) /\ BlocksApart
  BY ChunksFacts, BlocksAt
<1>2. SUFFICES ASSUME k # 0, chunks[k].tail # 0
               PROVE  \E b : Ending(Overlap(k), b) /\ b = chunks[k].from - 1
  BY DEF Overlap
<1>3. k \in 1..Len(chunks)
  BY <1>2
<1>4. k > 1 /\ Carries(chunks[k - 1], chunks[k])
  BY <1>1, <1>2, <1>3 DEF ChunksAre
<1>5. k - 1 \in 1..Len(chunks)
  BY <1>3, <1>4
<1>6. PICK c \in ChunkType, d \in ChunkType : c = chunks[k] /\ d = chunks[k - 1]
  BY <1>1, <1>3, <1>5
<1>7. /\ d.from <= d.to /\ d.to = c.from - 1
      /\ c.tail = Carried(d.from, d.to)
  BY <1>4, <1>6 DEF Carries
<1>8. d.from \in 1..Len(doc) /\ d.to \in 1..Len(doc)
  <2>1. d.from \in 1..(Len(doc) + 1) /\ d.to \in 0..Len(doc)
    BY DEF ChunkType
  <2>. QED BY <1>1, <1>7, <2>1
<1>9. PICK x, y, z : x = At(d.from) /\ y = End(d.to) /\ z = c.tail
  OBVIOUS
<1>10. /\ {x, y} \subseteq Nat /\ Chars(d.from, d.to) = y - x /\ overlap \in Nat
       /\ x <= y
  <2>1. overlap \in Nat
    BY ChunkerAssumption DEF ChunkInv, PlacesOK
  <2>2. {x, y} \subseteq Nat /\ Chars(d.from, d.to) = y - x
    BY <1>7, <1>8, <1>9, <1>1 DEF BlocksApart
  <2>3. Chars(d.from, d.to) \in Nat
    <3>1. d.to \in d.from..Len(doc)
      BY <1>1, <1>7, <1>8
    <3>. QED BY <1>1, <1>8, <3>1, CharsSteps DEF CharsAre
  <2>. QED BY <2>1, <2>2, <2>3
<1>11. z \in Nat /\ z <= y - x
  <2>1. d.to \in d.from..Len(doc)
    BY <1>1, <1>7, <1>8
  <2>2. IsCarried(z, d.from, d.to)
    BY <1>1, <1>7, <1>8, <1>9, <1>10, <2>1, CarriedIs
  <2>3. PICK m \in Nat : m = Min({overlap, Chars(d.from, d.to)})
    BY <2>2 DEF IsCarried
  <2>4. z \in Nat /\ m <= y - x /\ z <= m
    BY <1>10, <2>2, <2>3 DEF IsCarried
  <2>. QED BY <1>10, <2>3, <2>4
<1>12. Overlap(k) = Span(y - z, y)
  BY <1>2, <1>6, <1>9 DEF Overlap, EndOf, End
<1>13. y - z \in Nat /\ x <= y - z /\ y - z <= y
  BY <1>10, <1>11
<1>14. Ending(Overlap(k), d.to)
  <2>1. PICK over : over = Overlap(k)
    OBVIOUS
  <2>2. over = Span(y - z, y) /\ over.from = y - z
    BY <1>12, <2>1 DEF Span
  <2>3. Ending(over, d.to)
    BY <1>7, <1>8, <1>9, <1>13, <2>2 DEF Ending
  <2>. QED BY <2>1, <2>3
<1>. QED BY <1>6, <1>7, <1>14

LEMMA TextPlaced ==
  ASSUME ChunkInv, Len(doc) > 0, NEW k \in 0..Len(chunks)
  PROVE  Placed(Overlap(k), Own(k), DocHits)
<1>1. PICK over, own : over = Overlap(k) /\ own = Own(k)
  OBVIOUS
<1>2. Len(doc) \in Nat /\ BlocksApart
  BY ChunksFacts, BlocksAt
<1>3. ASSUME NEW h \in DocHits PROVE \E j \in 1..Len(doc) : HitIn(h, j)
  BY DocHitsApart, ChunksFacts
<1>4. ASSUME NEW h \in DocHits PROVE ~Meets(h, Nothing)
  <2>1. h.start \in Nat
    BY <1>3 DEF HitIn, Hit
  <2>. QED BY <2>1 DEF Meets, Nothing, Span
<1>5. /\ own \in [from : Nat, to : Nat] /\ own.from <= own.to
      /\ \A h \in DocHits : Meets(h, own) => own.from <= h.start /\ h.end <= own.to
  <2>1. CASE own = Nothing
    BY <1>4, <2>1 DEF Nothing, Span
  <2>2. CASE \E a, b : OfRange(own, a, b)
    <3>1. PICK a, b : OfRange(own, a, b)
      BY <2>2
    <3>2. a \in 1..Len(doc) /\ b \in 1..Len(doc) /\ a <= b /\ own = Span(At(a), End(b))
      BY <3>1 DEF OfRange
    <3>3. At(a) \in Nat /\ End(b) \in Nat /\ At(a) <= End(b)
      <4>1. PICK x, y, z : x = At(a) /\ y = End(a) /\ z = End(b)
        OBVIOUS
      <4>2. {x, y, z} \subseteq Nat /\ x < y
        BY <1>2, <3>2, <4>1 DEF BlocksApart
      <4>3. Chars(a, b) = z - x /\ Chars(a, b) \in Nat
        <5>1. b \in a..Len(doc) /\ doc \in Seq(Block)
          BY <1>2, <3>2, ChunksFacts
        <5>2. Chars(a, b) \in Nat
          BY <3>2, <5>1, CharsSteps DEF CharsAre
        <5>. QED BY <1>2, <3>2, <4>1, <5>2 DEF BlocksApart
      <4>. QED BY <4>1, <4>2, <4>3
    <3>4. \A h \in DocHits : Meets(h, own) => At(a) <= h.start /\ h.end <= End(b)
      BY <1>2, <1>3, <3>2, MeetsBlocks
    <3>. QED BY <3>2, <3>3, <3>4 DEF Span
  <2>. QED BY <1>1, <2>1, <2>2, OwnIs
<1>6. /\ over \in [from : Nat, to : Nat] /\ over.from <= over.to
      /\ \A h \in DocHits : Meets(h, over) => h.end <= over.to
  <2>1. CASE over = Nothing
    BY <1>4, <2>1 DEF Nothing, Span
  <2>2. CASE \E b : Ending(over, b)
    <3>1. PICK b : Ending(over, b)
      BY <2>2
    <3>2. PICK x, y : x = over.from /\ y = End(b)
      OBVIOUS
    <3>3. over = Span(x, y) /\ x \in Nat /\ y \in Nat /\ x <= y /\ b \in 1..Len(doc)
      BY <1>2, <3>1, <3>2 DEF Ending, BlocksApart
    <3>4. PICK a \in 1..Len(doc) : a <= b /\ At(a) <= x
      BY <3>1, <3>2 DEF Ending
    <3>5. ASSUME NEW h \in DocHits, Meets(h, over) PROVE h.end <= y
      <4>1. x < h.end /\ h.start < y
        BY <3>3, <3>5 DEF Meets, Span
      <4>2. PICK j \in 1..Len(doc) : HitIn(h, j)
        BY <1>3
      <4>3. Meets(h, Span(At(a), End(b)))
        <5>1. PICK u, v : u = At(a) /\ v = h.end
          OBVIOUS
        <5>2. u \in Nat /\ v \in Nat /\ u <= x /\ x < v
          BY <1>2, <3>4, <4>1, <4>2, <5>1 DEF BlocksApart, HitIn, Hit
        <5>3. u < v
          BY <3>3, <5>2
        <5>. QED BY <3>2, <4>1, <5>1, <5>3 DEF Meets, Span
      <4>. QED BY <1>2, <3>2, <3>3, <3>4, <4>2, <4>3, MeetsBlocks
    <3>. QED BY <3>3, <3>5 DEF Span
  <2>. QED BY <1>1, <2>1, <2>2, OverlapIs
<1>7. over = Nothing \/ own = Nothing \/ over.to <= own.from
  <2>1. SUFFICES ASSUME over # Nothing, own # Nothing PROVE over.to <= own.from
    OBVIOUS
  <2>2. PICK b : k > 0 /\ Ending(over, b) /\ b = chunks[k].from - 1
    BY <1>1, <2>1, OverlapIs
  <2>3. PICK a, e : OfRange(own, a, e) /\ a = chunks[k].from
    BY <1>1, <2>1, <2>2, OwnIs
  <2>4. b \in 1..Len(doc) /\ a \in 1..Len(doc) /\ b < a
    BY <2>2, <2>3 DEF Ending, OfRange
  <2>5. over.to = End(b) /\ own.from = At(a)
    BY <2>2, <2>3 DEF Ending, OfRange, Span
  <2>6. PICK x, y : x = End(b) /\ y = At(a)
    OBVIOUS
  <2>7. x \in Nat /\ y \in Nat /\ x + 2 <= y
    BY <1>2, <2>4, <2>6 DEF BlocksApart
  <2>8. x <= y
    BY <2>7
  <2>. QED BY <2>5, <2>6, <2>8
<1>. QED BY <1>1, <1>5, <1>6, <1>7 DEF Placed

-----------------------------------------------------------------------------
LEMMA PlaceSame ==
  ASSUME doc' = doc, NEW k
  PROVE  At(k)' = At(k) /\ End(k)' = End(k) /\ HitsOf(k)' = HitsOf(k)
<1>1. At(k)' = At(k)
  BY CharsSame DEF At
<1>. QED BY <1>1 DEF End, HitsOf

LEMMA TextSame ==
  ASSUME doc' = doc, chunks' = chunks, NEW k
  PROVE  DocHits' = DocHits /\ Own(k)' = Own(k) /\ Overlap(k)' = Overlap(k)
<1>1. DocHits' = DocHits
  BY PlaceSame DEF DocHits
<1>2. Own(k)' = Own(k)
  BY PlaceSame, CharsSame DEF Own, EndOf, Span, Nothing, End
<1>3. Overlap(k)' = Overlap(k)
  BY PlaceSame DEF Overlap, EndOf, Span, Nothing, End
<1>. QED BY <1>1, <1>2, <1>3

LEMMA LeavesSame ==
  ASSUME doc' = doc, NEW t, NEW over, NEW own, LeavesText(t, over, own)
  PROVE  LeavesText(t, over, own)'
<1>1. DocHits' = DocHits
  BY PlaceSame DEF DocHits
<1>. QED BY <1>1 DEF LeavesText, RestOf, Disturbed, Near, Places, Source, Length, Nothing, Span

TextLeaves == phase = "redacted" => LeavesText(left, Overlap(text), Own(text))

LEMMA RedactLeaves ==
  ASSUME ChunkInv, Redact
  PROVE  TextLeaves'
<1>1. Len(doc) > 0 /\ doc' = doc /\ chunks' = chunks /\ doc \in Seq(Block)
  BY ChunksFacts DEF ChunkInv, ResultOK, Redact, packVars
<1>2. PICK k \in 0..Len(chunks) :
        /\ text' = k
        /\ \E S \in Scans(Overlap(k), Own(k)) :
             left' = Redacted(Length(Overlap(k)) + Length(Own(k)), S)
  BY DEF Redact
<1>3. PICK over, own : over = Overlap(k) /\ own = Own(k)
  OBVIOUS
<1>4. PICK S \in Scans(over, own) : left' = Redacted(Length(over) + Length(own), S)
  BY <1>2, <1>3
<1>5. Placed(over, own, DocHits)
  BY <1>1, <1>3, TextPlaced
<1>6. PICK t : t = left'
  OBVIOUS
<1>7. LeavesText(t, over, own)
  BY <1>1, <1>4, <1>5, <1>6, DocHitsApart, RedactedText
<1>8. LeavesText(t, over, own)'
  BY <1>1, <1>7, LeavesSame
<1>9. Overlap(k)' = over /\ Own(k)' = own
  BY <1>1, <1>3, TextSame
<1>10. Overlap(text)' = over /\ Own(text)' = own
  BY <1>2, <1>9 DEF Overlap, Own
<1>. QED BY <1>6, <1>8, <1>10 DEF TextLeaves

LEMMA ChunkNextPhase ==
  ASSUME ChunkNext
  PROVE  phase' # "redacted"
BY DEF ChunkNext, Heading, Paragraph, SplitDone, WholeSection, AddParagraph, FlushFirst,
       SectionDone, ChunksDone, Splitting

LEMMA TextStutter ==
  ASSUME TextLeaves, UNCHANGED <<doc, chunks, phase, text, left>>
  PROVE  TextLeaves'
<1>1. SUFFICES ASSUME phase = "redacted" PROVE LeavesText(left, Overlap(text), Own(text))'
  BY DEF TextLeaves
<1>2. PICK k, t, over, own : k = text /\ t = left /\ over = Overlap(k) /\ own = Own(k)
  OBVIOUS
<1>3. LeavesText(t, over, own)'
  BY <1>1, <1>2, LeavesSame DEF TextLeaves
<1>4. Overlap(k)' = over /\ Own(k)' = own
  BY <1>2, TextSame
<1>5. Overlap(text)' = over /\ Own(text)' = own
  BY <1>2, <1>4 DEF Overlap, Own
<1>. QED BY <1>2, <1>3, <1>5

LEMMA TextInvariant == Spec => []TextLeaves
<1>1. Init => TextLeaves
  BY DEF Init, NoChunks, ChunkInit, TextLeaves
<1>2. ChunkInv /\ TextLeaves /\ [Next]_vars => TextLeaves'
  <2>1. SUFFICES ASSUME ChunkInv, TextLeaves, [Next]_vars PROVE TextLeaves'
    OBVIOUS
  <2>2. CASE UNCHANGED <<chunkVars, redactVars>>
    BY <2>1, <2>2, TextStutter DEF chunkVars, redactVars, packVars
  <2>3. CASE Redact
    BY <2>1, <2>3, RedactLeaves
  <2>4. CASE ChunkNext
    BY <2>4, ChunkNextPhase DEF TextLeaves
  <2>. QED BY <2>1, <2>2, <2>3, <2>4 DEF Next, vars, RedactionNext
<1>. QED BY <1>1, <1>2, ChunkInvariant, PTL DEF Spec

LEMMA LeavesOnly ==
  ASSUME TextLeaves
  PROVE  OnlyNestedOrNear
<1>1. SUFFICES ASSUME phase = "redacted" PROVE OnlyNestedOrNear
  BY DEF OnlyNestedOrNear
<1>2. LeavesText(left, Overlap(text), Own(text))
  BY <1>1 DEF TextLeaves
<1>. QED BY <1>2 DEF LeavesText, OnlyNestedOrNear, Source, Holds

(* Redaction neither repeats, reorders nor drops what is not personal, and  *)
(* leaves of a value nothing but the rest behind another (pii.py:79), but   *)
(* near the places where the overlap begins and ends (chunker.py:173).      *)
THEOREM RedactionHides == Spec => []OnlyNestedOrNear
BY TextInvariant, LeavesOnly, PTL
=============================================================================
