------------------------------- MODULE DbPool -------------------------------
(***************************************************************************)
(* The capped pool of SQLite connections for one database path (_db.py),   *)
(* under connect() ... blocks of concurrent coroutines.                    *)
(*                                                                         *)
(* _cond guards sections without an await in them, so its lock is never    *)
(* held while a coroutine is suspended and a section is one step; the      *)
(* suspension points are cond.wait, the creation of a connection, the body *)
(* of the block, the rollback at check-in, and the close of a broken       *)
(* connection.  A caller may be cancelled at each of them.                 *)
(***************************************************************************)
EXTENDS Integers, Sequences, FiniteSets, DistinctSeqs

CONSTANTS
  Caller,         \* coroutines that use the path
  Conn,           \* identities for physical connections
  None,           \* no connection
  MaxPerPath,     \* MAX_PER_PATH
  MaxBlocks,      \* bound: connect() blocks, of all callers together
  MaxFailures,    \* bound: creations and rollbacks that fail
  MayCloseAll,    \* close_all() may be called
  CancelWait,     \* callers may be cancelled in cond.wait
  CancelCheckIn   \* callers may be cancelled in the rollback of release

ASSUME PoolAssumption ==
  /\ IsFiniteSet(Caller) /\ IsFiniteSet(Conn) /\ None \notin Conn
  /\ MaxPerPath \in Nat \ {0} /\ MaxBlocks \in Nat /\ MaxFailures \in Nat
  /\ {MayCloseAll, CancelWait, CancelCheckIn} \subseteq BOOLEAN

VARIABLES
  at,        \* [Caller -> CallerState]
  conn,      \* [Caller -> Conn or None], the connection it holds
  idle,      \* _idle, a sequence of connections
  total,     \* _total
  waiters,   \* the callers in cond.wait that were not notified, oldest first
  open,      \* connections with an uncommitted statement
  dropped,   \* close_all took the pool out of _pools
  blocks,    \* how many were entered
  failures,
  leaked,    \* history: check-ins that a cancellation cut off
  lost       \* history: wake-ups that went down with their waiter

vars ==
  <<at, conn, idle, total, waiters, open, dropped, blocks, failures, leaked,
    lost>>

CallerState == {"out", "waiting", "notified", "creating", "using",
                "check_in", "closing"}

InState(s) == {c \in Caller : at[c] = s}
IdleConns == Elements(idle)
HeldConns == {conn[c] : c \in Caller} \ {None}
Goto(c, s) == at' = [at EXCEPT ![c] = s]

Init ==
  /\ at = [c \in Caller |-> "out"] /\ conn = [c \in Caller |-> None]
  /\ idle = <<>> /\ total = 0 /\ waiters = <<>> /\ open = {}
  /\ dropped = FALSE
  /\ blocks = 0 /\ failures = 0 /\ leaked = 0 /\ lost = 0
-----------------------------------------------------------------------------
(* cond.notify(): wake the oldest waiter whose future is not done.  To be   *)
(* used with the new state of caller c as to.                               *)
NotifyAnd(c, to) ==
  IF waiters = <<>>
  THEN Goto(c, to) /\ UNCHANGED waiters
  ELSE /\ waiters' = Tail(waiters)
       /\ at' = [at EXCEPT ![c] = to, ![Head(waiters)] = "notified"]

(* acquire: one pass of its loop, by a caller that enters connect() or that *)
(* cond.wait woke up.                                                       *)
MayTry(c) ==
  \/ at[c] = "notified"
  \/ at[c] = "out" /\ blocks < MaxBlocks /\ ~dropped

CountBlock(c) ==
  blocks' = IF at[c] = "out" THEN blocks + 1 ELSE blocks

(* Faulty: the connection is read but not taken out of the deque. *)
TakeIdlePeek(c) ==
  /\ MayTry(c) /\ idle # <<>>
  /\ conn' = [conn EXCEPT ![c] = Head(idle)]
  /\ Goto(c, "using") /\ CountBlock(c)
  /\ UNCHANGED <<idle, total, waiters, open, failures, dropped, leaked, lost>>

TakeIdle(c) ==
  /\ MayTry(c) /\ idle # <<>>
  /\ conn' = [conn EXCEPT ![c] = Head(idle)]
  /\ idle' = Tail(idle)
  /\ Goto(c, "using") /\ CountBlock(c)
  /\ UNCHANGED <<total, waiters, open, failures, dropped, leaked, lost>>

Reserve(c) ==
  /\ MayTry(c) /\ idle = <<>> /\ total < MaxPerPath
  /\ total' = total + 1
  /\ Goto(c, "creating") /\ CountBlock(c)
  /\ UNCHANGED <<conn, idle, waiters, open, failures, dropped, leaked, lost>>

Wait(c) ==
  /\ MayTry(c) /\ idle = <<>> /\ total >= MaxPerPath
  /\ waiters' = Append(waiters, c)
  /\ Goto(c, "waiting") /\ CountBlock(c)
  /\ UNCHANGED <<conn, idle, total, open, failures, dropped, leaked, lost>>

Create(c, k) ==
  /\ at[c] = "creating"
  /\ k \in Conn \ (IdleConns \cup HeldConns \cup open)
  /\ conn' = [conn EXCEPT ![c] = k]
  /\ Goto(c, "using")
  /\ UNCHANGED <<idle, total, waiters, open, blocks, failures, dropped,
                 leaked, lost>>

(* Faulty: the reserved slot is not given back. *)
CreateFailsLeaking(c) ==
  /\ at[c] = "creating" /\ failures < MaxFailures
  /\ failures' = failures + 1
  /\ NotifyAnd(c, "out")
  /\ UNCHANGED <<conn, idle, total, open, blocks, dropped, leaked, lost>>

(* _new_connection raised, or the caller was cancelled in it: the slot goes *)
(* back and a waiter is woken to reserve it.                                *)
CreateFails(c) ==
  /\ at[c] = "creating" /\ failures < MaxFailures
  /\ failures' = failures + 1
  /\ total' = total - 1
  /\ NotifyAnd(c, "out")
  /\ UNCHANGED <<conn, idle, open, blocks, dropped, leaked, lost>>

(* The body of the block executes a statement that opens a transaction ... *)
Write(c) ==
  /\ at[c] = "using"
  /\ open' = open \cup {conn[c]}
  /\ UNCHANGED <<at, conn, idle, total, waiters, blocks, failures, dropped,
                 leaked, lost>>

(* ... and commits it, unless an exception ends the block first. *)
Commit(c) ==
  /\ at[c] = "using" /\ conn[c] \in open
  /\ open' = open \ {conn[c]}
  /\ UNCHANGED <<at, conn, idle, total, waiters, blocks, failures, dropped,
                 leaked, lost>>

LeaveBlock(c) ==
  /\ at[c] = "using"
  /\ Goto(c, "check_in")
  /\ UNCHANGED <<conn, idle, total, waiters, open, blocks, failures,
                 dropped, leaked, lost>>

(* Faulty: check-in without notify. *)
CheckInSilent(c) ==
  /\ at[c] = "check_in"
  /\ open' = open \ {conn[c]}
  /\ idle' = Append(idle, conn[c])
  /\ conn' = [conn EXCEPT ![c] = None]
  /\ Goto(c, "out")
  /\ UNCHANGED <<total, waiters, blocks, failures, dropped, leaked, lost>>

(* release, when the rollback succeeded. *)
CheckIn(c) ==
  /\ at[c] = "check_in"
  /\ open' = open \ {conn[c]}
  /\ idle' = Append(idle, conn[c])
  /\ conn' = [conn EXCEPT ![c] = None]
  /\ NotifyAnd(c, "out")
  /\ UNCHANGED <<total, blocks, failures, dropped, leaked, lost>>

(* release, when it raised: the slot is free before the close is awaited. *)
Discard(c) ==
  /\ at[c] = "check_in" /\ failures < MaxFailures
  /\ failures' = failures + 1
  /\ total' = total - 1
  /\ NotifyAnd(c, "closing")
  /\ UNCHANGED <<conn, idle, open, blocks, dropped, leaked, lost>>

Closed(c) ==
  /\ at[c] = "closing"
  /\ open' = open \ {conn[c]}
  /\ conn' = [conn EXCEPT ![c] = None]
  /\ Goto(c, "out")
  /\ UNCHANGED <<idle, total, waiters, blocks, failures, dropped, leaked,
                 lost>>

(* CancelledError in cond.wait, before or after the wake-up. *)
CancelledWaiting(c) ==
  /\ CancelWait /\ at[c] = "waiting"
  /\ \E k \in 1..Len(waiters) :
       waiters[k] = c /\ waiters' = Without(waiters, k)
  /\ Goto(c, "out")
  /\ UNCHANGED <<conn, idle, total, open, blocks, failures, dropped,
                 leaked, lost>>

CancelledNotified(c) ==
  /\ CancelWait /\ at[c] = "notified"
  /\ \/ NotifyAnd(c, "out") /\ UNCHANGED lost          \* Python 3.13
     \/ /\ Goto(c, "out") /\ UNCHANGED waiters         \* Python 3.11, 3.12
        /\ lost' = lost + 1
  /\ UNCHANGED <<conn, idle, total, open, blocks, failures, dropped, leaked>>

(* CancelledError in the rollback is no Exception: release ends there, the  *)
(* connection is neither idle nor closed and _total keeps counting it.  Its *)
(* thread still runs the rollback.                                          *)
CancelledCheckIn(c) ==
  /\ CancelCheckIn /\ at[c] = "check_in"
  /\ open' = open \ {conn[c]}
  /\ conn' = [conn EXCEPT ![c] = None]
  /\ Goto(c, "out")
  /\ leaked' = leaked + 1
  /\ UNCHANGED <<idle, total, waiters, blocks, failures, dropped, lost>>

(* close_all: the pool leaves _pools, so that later blocks use another one, *)
(* and its idle connections are closed.  Connections that are checked out   *)
(* come back to this pool and stay there.                                   *)
CloseAll ==
  /\ MayCloseAll /\ ~dropped
  /\ dropped' = TRUE
  /\ idle' = <<>>
  /\ total' = total - Len(idle)
  /\ UNCHANGED <<at, conn, waiters, open, blocks, failures, leaked, lost>>

AllDone ==
  InState("out") = Caller /\ (blocks = MaxBlocks \/ dropped)
Terminated == AllDone /\ UNCHANGED vars

CallerStep(c) ==
  \/ TakeIdle(c) \/ Reserve(c) \/ Wait(c) \/ (\E k \in Conn : Create(c, k))
  \/ LeaveBlock(c) \/ CheckIn(c) \/ Closed(c)

Next ==
  \/ \E c \in Caller :
       \/ CallerStep(c) \/ Write(c) \/ Commit(c) \/ CreateFails(c) \/ Discard(c)
       \/ CancelledWaiting(c) \/ CancelledNotified(c) \/ CancelledCheckIn(c)
  \/ CloseAll
  \/ Terminated

Spec == Init /\ [][Next]_vars
-----------------------------------------------------------------------------
(* Properties.                                                              *)

(* Every variable has its type; _total keeps to the cap.                    *)
TypeOK ==
  /\ at \in [Caller -> CallerState] /\ conn \in [Caller -> Conn \cup {None}]
  /\ idle \in Seq(Conn) /\ total \in 0..MaxPerPath
  /\ waiters \in Seq(Caller) /\ open \subseteq Conn /\ dropped \in BOOLEAN
  /\ blocks \in 0..MaxBlocks /\ failures \in 0..MaxFailures
  /\ leaked \in 0..MaxPerPath /\ lost \in Nat

Holding == InState("using") \cup InState("check_in") \cup InState("closing")

(* A connection is idle once or held by one caller (_db.py:18 "Two          *)
(* concurrent coroutines therefore get two different connections"), and an  *)
(* idle one never leaks uncommitted writes to the next (_db.py:28).         *)
Isolated ==
  /\ \A c \in Caller : (conn[c] # None) = (c \in Holding)
  /\ \A c, d \in Holding : conn[c] = conn[d] => c = d
  /\ IdleConns \cap HeldConns = {}
  /\ Distinct(idle)
  /\ open \cap IdleConns = {}

Counted == InState("creating") \cup InState("using") \cup InState("check_in")

(* _total accounts for every slot: connections that are idle, checked out   *)
(* or being created (_db.py:65), and the slots that a cancelled check-in    *)
(* lost.  It never undercounts, so the cap holds.                           *)
SlotsAccounted == total = Len(idle) + Cardinality(Counted) + leaked

(* Whoever is asleep has no reason to wake up: for every idle connection    *)
(* and free slot a waiter was already notified, or cancelled with the       *)
(* wake-up in its hands (which Python passes on only since 3.13).           *)
NoLostWakeup ==
  waiters # <<>> =>
    Len(idle) + (MaxPerPath - total) <= Cardinality(InState("notified")) + lost
=============================================================================
