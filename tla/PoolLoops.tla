------------------------------ MODULE PoolLoops ------------------------------
(***************************************************************************)
(* The pool under several event loops: _pools lives as long as the process *)
(* (_db.py:37), and every call of the synchronous facade (sync.py) and of  *)
(* the web view (web.py) runs a loop of its own.  Loops follow one another *)
(* or nest: scrape_sync inside a running loop starts one on another thread *)
(* and blocks the loop it was called in until that one is over.            *)
(*                                                                         *)
(* An asyncio.Condition belongs to the loop that first waits on it, and    *)
(* refuses to wait in another.  A thread of the caller's own making, which *)
(* would run a second loop in parallel, is not modelled: the pool is not   *)
(* meant for it.                                                           *)
(***************************************************************************)
EXTENDS DbPool

CONSTANT MaxLoops    \* bound: loops one after the other or nested

ASSUME LoopsAssumption == MaxLoops \in Nat

VARIABLES
  loops,     \* the loops that were started and are not over; the last runs
  started,   \* how many were started
  bound,     \* the loop that _cond belongs to, 0 before anybody waits
  home,      \* [Caller -> the loop of its block, 0 outside]
  refused    \* history: cond.wait raised for somebody

loopVars == <<loops, started, bound, home, refused>>

LoopsInit ==
  /\ Init
  /\ loops = <<1>> /\ started = 1 /\ bound = 0
  /\ home = [c \in Caller |-> 0] /\ refused = FALSE

Running == loops[Len(loops)]

(* The loops below the last are blocked in thread.join().                   *)
MayStep(c) == loops # <<>> /\ home[c] \in {0, Running}

(* What c does, it does in the loop that runs; with its first wait, _cond   *)
(* belongs to that loop.                                                    *)
InLoop(c) ==
  /\ MayStep(c)
  /\ home' = [d \in Caller |-> IF at'[d] = "out" THEN 0
                               ELSE IF at[d] = "out" THEN Running ELSE home[d]]
  /\ IF at'[c] = "waiting"
     THEN bound \in {0, Running} /\ bound' = Running
     ELSE UNCHANGED bound
  /\ UNCHANGED <<loops, started, refused>>

(* RuntimeError "is bound to a different event loop", out of connect().     *)
Refused(c) ==
  /\ MayStep(c) /\ MayTry(c) /\ idle = <<>> /\ total >= MaxPerPath
  /\ bound \notin {0, Running}
  /\ refused' = TRUE
  /\ UNCHANGED <<vars, loops, started, bound, home>>

(* asyncio.run, on this thread or, inside a loop, on a fresh one.           *)
StartLoop ==
  /\ started < MaxLoops
  /\ started' = started + 1 /\ loops' = Append(loops, started')
  /\ UNCHANGED <<vars, bound, home, refused>>

(* Faulty: loop.run_until_complete, which leaves other tasks as they are. *)
EndLoopEarly ==
  /\ loops # <<>>
  /\ loops' = SubSeq(loops, 1, Len(loops) - 1)
  /\ UNCHANGED <<vars, started, bound, home, refused>>

(* It returns when its tasks are over.                                      *)
EndLoop ==
  /\ loops # <<>> /\ \A c \in Caller : home[c] # Running
  /\ loops' = SubSeq(loops, 1, Len(loops) - 1)
  /\ UNCHANGED <<vars, started, bound, home, refused>>

LoopsOver ==
  loops = <<>> /\ started = MaxLoops /\ UNCHANGED <<vars, loopVars>>

LoopStep(c) == CallerStep(c) /\ InLoop(c)

LoopsNext ==
  \/ \E c \in Caller :
       \/ LoopStep(c) \/ Refused(c)
       \/ /\ \/ Write(c) \/ Commit(c) \/ CreateFails(c) \/ Discard(c)
             \/ CancelledWaiting(c) \/ CancelledNotified(c) \/ CancelledCheckIn(c)
          /\ InLoop(c)
  \/ loops # <<>> /\ CloseAll /\ UNCHANGED loopVars
  \/ StartLoop \/ EndLoop \/ LoopsOver

LoopsSpec == LoopsInit /\ [][LoopsNext]_<<vars, loopVars>>

(* The loop that runs runs every ready coroutine, a block ends, and SQLite  *)
(* answers; asyncio.run returns when its tasks are over.  Nobody has to be  *)
(* cancelled, nothing has to fail, and no loop has to be started.           *)
LoopsFair ==
  /\ LoopsSpec
  /\ \A c \in Caller : WF_<<vars, loopVars>>(LoopStep(c))
  /\ WF_<<vars, loopVars>>(EndLoop)
-----------------------------------------------------------------------------
LoopsTypeOK ==
  /\ TypeOK
  /\ started \in 0..MaxLoops + 1 /\ loops \in Seq(1..started)
  /\ bound \in 0..started /\ home \in [Caller -> 0..started]
  /\ refused \in BOOLEAN

(* The nested loop sleeps for a connection, and the loops that have them    *)
(* all wait for the nested one.                                             *)
Starved ==
  /\ Len(loops) > 1 /\ idle = <<>> /\ total = MaxPerPath
  /\ \E c \in Caller : home[c] = Running
  /\ \A c \in Caller : home[c] = Running => at[c] = "waiting"

(* README.md:458 "run the coroutine to completion": every block ends,       *)
(* whoever else is cancelled, as long as no wake-up is lost, cancelled      *)
(* check-ins have not eaten up the cap, and no nested loop is starved.      *)
BlocksEnd ==
  <>[](\/ InState("out") = Caller
       \/ leaked = MaxPerPath \/ lost > 0 \/ Starved)

(* Nobody sleeps on a condition of a loop that is over: whoever waits is in *)
(* the loop the condition belongs to, and that loop will run again.         *)
SleepersHaveLoop ==
  \A c \in InState("waiting") \cup InState("notified") :
    home[c] = bound /\ bound \in Elements(loops)

(* A sleeper will be woken: somebody tells it, and its loop comes back to   *)
(* hear it.                                                                 *)
SleepersWillWake == LoopsTypeOK /\ NoLostWakeup /\ SleepersHaveLoop
=============================================================================
