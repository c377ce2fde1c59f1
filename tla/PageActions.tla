----------------------------- MODULE PageActions -----------------------------
(***************************************************************************)
(* The steps a caller has AgentTier.fetch do on a page before its content  *)
(* is taken (access/actions.py): run_actions, with the loops of            *)
(* scroll_until and click_until over a page that loads more.               *)
(*                                                                         *)
(* The page is a list with batches still to load, of which it shows some;  *)
(* it loads one when a scroll reaches its end, or when its button is       *)
(* clicked, which is there as long as there is more.  A batch puts the end *)
(* of the page further away, by any number of scrolls.                     *)
(***************************************************************************)
EXTENDS Integers, Sequences

CONSTANTS
  Verb,          \* the actions a step may have, of those below
  Rounds,        \* times of an until-loop
  MaxSteps,      \* bound: steps of a call
  MaxBatches,    \* bound: batches a list loads
  MaxHeight,     \* bound: scrolls through a batch, or through what it begins with
  MaxMishaps     \* bound: calls on the page that raise or are late

(* "once" is any action that is one call on the page.                       *)
ASSUME ActionsAssumption ==
  /\ Verb \subseteq {"goto", "once", "scroll_until", "click_until"}
  /\ Rounds \subseteq Int
  /\ {MaxSteps, MaxBatches, MaxHeight, MaxMishaps} \subseteq Nat

VARIABLES
  todo,       \* the steps left, the first being executed
  at,         \* "idle", "next", "act", "settle", "measure", "end"
  round,      \* rounds of the loop that are over
  previous,
  feed,       \* [shown, coming, rest, height]: the batches of the page, and
              \* the scrolls from where it is to its end
  summary,    \* [steps, errors, executed]: how many
  late,       \* history: a batch was not there in time since the step began
  mishaps

actionVars == <<todo, at, round, previous, feed, summary, late, mishaps>>

Action == [verb : Verb, times : Rounds]
Feeds == [shown : {0}, coming : {0}, rest : 0..MaxBatches, height : 0..MaxHeight]

Unmeasured == -1

ActionLocals ==
  /\ round = 0 /\ previous = Unmeasured /\ late = FALSE
  /\ summary = [steps |-> 0, errors |-> 0, executed |-> 0]

ActionInit ==
  /\ \E n \in 0..MaxSteps : todo \in [1..n -> Action]
  /\ at = "next" /\ feed \in Feeds /\ ActionLocals /\ mishaps = 0
-----------------------------------------------------------------------------
Doing == Head(todo).verb
Working == at \in {"act", "settle", "measure"}
Limit == IF Head(todo).times < 1 THEN 1 ELSE Head(todo).times

StepOver(how) ==
  /\ at' = "next" /\ todo' = Tail(todo)
  /\ summary' = [summary EXCEPT ![how] = @ + 1]

BeginStep ==
  /\ at = "next" /\ todo # <<>>
  /\ at' = "act" /\ round' = 0 /\ previous' = Unmeasured /\ late' = FALSE
  /\ summary' = [summary EXCEPT !.steps = @ + 1]
  /\ UNCHANGED <<todo, feed, mishaps>>

(* A goto that check_url refuses. *)
GotoBlocked ==
  /\ at = "act" /\ Doing = "goto"
  /\ StepOver("errors")
  /\ UNCHANGED <<round, previous, feed, late, mishaps>>

Goto ==
  /\ at = "act" /\ Doing = "goto"
  /\ feed' \in Feeds
  /\ StepOver("executed")
  /\ UNCHANGED <<round, previous, late, mishaps>>

Once ==
  /\ at = "act" /\ Doing = "once"
  /\ StepOver("executed")
  /\ UNCHANGED <<round, previous, feed, late, mishaps>>

(* Any call on the page raises; the step is over, and no other.             *)
StepRaises ==
  /\ Working /\ mishaps < MaxMishaps
  /\ mishaps' = mishaps + 1
  /\ StepOver("errors")
  /\ UNCHANGED <<round, previous, feed, late>>

Loading == [feed EXCEPT !.coming = 1, !.rest = @ - 1]

(* The wheel: the page moves on and, once at its end, asks for more.        *)
Scrolled == [feed EXCEPT !.height = IF @ = 0 THEN 0 ELSE @ - 1]

(* Faulty: it is measured without a pause to load what was asked for. *)
ScrollAndMeasure ==
  /\ at = "act" /\ Doing = "scroll_until"
  /\ at' = "measure"
  /\ feed' = IF Scrolled.height = 0 /\ feed.coming = 0 /\ feed.rest > 0
             THEN [Loading EXCEPT !.height = 0]
             ELSE Scrolled
  /\ UNCHANGED <<todo, round, previous, summary, late, mishaps>>

Scroll ==
  /\ at = "act" /\ Doing = "scroll_until"
  /\ at' = "settle"
  /\ feed' = IF Scrolled.height = 0 /\ feed.coming = 0 /\ feed.rest > 0
             THEN [Loading EXCEPT !.height = 0]
             ELSE Scrolled
  /\ UNCHANGED <<todo, round, previous, summary, late, mishaps>>

Click ==
  /\ at = "act" /\ Doing = "click_until"
  /\ feed.coming + feed.rest > 0
  /\ at' = "settle"
  /\ feed' = IF feed.coming = 0 THEN Loading ELSE feed
  /\ UNCHANGED <<todo, round, previous, summary, late, mishaps>>

ButtonGone ==
  /\ at = "act" /\ Doing = "click_until"
  /\ feed.coming + feed.rest = 0
  /\ StepOver("executed")
  /\ UNCHANGED <<round, previous, feed, late, mishaps>>

(* The loop goes on, or its rounds are spent. *)
RoundOver ==
  /\ round' = round + 1
  /\ IF round' = Limit THEN StepOver("executed")
     ELSE at' = "act" /\ UNCHANGED <<todo, summary>>

(* What was asked for is shown, and the page is longer for it, unless it     *)
(* takes longer than that.                                                  *)
Settle ==
  /\ at = "settle"
  /\ \/ /\ \E h \in 0..(feed.coming * MaxHeight) :
             feed' = [feed EXCEPT !.shown = @ + feed.coming, !.coming = 0, !.height = @ + h]
        /\ UNCHANGED <<late, mishaps>>
     \/ /\ feed.coming > 0 /\ mishaps < MaxMishaps
        /\ late' = TRUE /\ mishaps' = mishaps + 1
        /\ UNCHANGED feed
  /\ \/ /\ Doing = "scroll_until"
        /\ at' = "measure" /\ UNCHANGED <<todo, round, summary>>
     \/ Doing = "click_until" /\ RoundOver
  /\ UNCHANGED previous

(* scroll_until: a round that shows nothing new ends the loop. *)
Measure ==
  /\ at = "measure"
  /\ IF feed.shown <= previous
     THEN StepOver("executed") /\ UNCHANGED <<round, previous>>
     ELSE RoundOver /\ previous' = feed.shown
  /\ UNCHANGED <<feed, late, mishaps>>

ActionsEnd ==
  /\ at = "next" /\ todo = <<>>
  /\ at' = "end"
  /\ UNCHANGED <<todo, round, previous, feed, summary, late, mishaps>>

ActionNext ==
  \/ BeginStep \/ GotoBlocked \/ Goto \/ Once \/ StepRaises \/ Scroll \/ Click
  \/ ButtonGone \/ Settle \/ Measure \/ ActionsEnd
-----------------------------------------------------------------------------
(* Every variable has its type.                                             *)
ActionTypeOK ==
  /\ todo \in Seq(Action) /\ late \in BOOLEAN /\ mishaps \in 0..MaxMishaps
  /\ at \in {"idle", "next", "act", "settle", "measure", "end"}
  /\ Working => todo # <<>>
  /\ round \in Nat /\ previous \in Int
  /\ feed \in [shown : 0..MaxBatches, coming : 0..1, rest : 0..MaxBatches,
               height : Nat]

(* actions.py:139 "Never raises for a normal step failure": every step is   *)
(* tried, and is in "executed" or in "errors".                              *)
StepsAccounted ==
  [](summary.steps = summary.errors + summary.executed
       + IF Working THEN 1 ELSE 0)

(* actions.py:203 "until the page ... stops growing", 222 "until it         *)
(* disappears": a loop that is over has loaded the whole list, or spent its *)
(* rounds, unless a batch came late or the scroll of its last round did not *)
(* reach the end of the page, as behind a batch that is taller than that.   *)
UntilExhausts ==
  [][/\ Working /\ Doing \in {"scroll_until", "click_until"}
     /\ summary'.executed > summary.executed /\ ~late'
     => \/ feed'.rest + feed'.coming = 0
        \/ round' = Limit
        \/ Doing = "scroll_until" /\ feed'.height > 0]_actionVars

(* Every step is tried and accounted for, and a loop ends before its work   *)
(* is done only where the page gives it no way of knowing.                  *)
ActionsDone == []ActionTypeOK /\ StepsAccounted /\ UntilExhausts
=============================================================================
