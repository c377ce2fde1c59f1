---------------------------- MODULE RequestQueue ----------------------------
(***************************************************************************)
(* The persistent request queue of a crawl (crawl/queue.py): the rows of   *)
(* one crawl_id in the SQLite table "requests", and the four statements    *)
(* that change them.  UNIQUE(crawl_id, url) makes the URL identify the     *)
(* row.  Every statement runs under RequestQueue._lock and commits before  *)
(* the lock is freed, so each is one step; the lock itself is a variable   *)
(* of the module that uses the queue, where a caller can be caught waiting *)
(* for it.                                                                 *)
(***************************************************************************)
EXTENDS Integers, FiniteSets

CONSTANT Url   \* the normalized URLs of the site

ASSUME UrlAssumption == IsFiniteSet(Url)

VARIABLES
  status,      \* [Url -> Status]; "absent" when the URL has no row
  depth,       \* [Url -> Nat], column depth
  attempts,    \* [Url -> Nat], column attempts
  rowid        \* [Url -> Nat], column id; 0 when the URL has no row

queueVars == <<status, depth, attempts, rowid>>

Status == {"absent", "pending", "in_flight", "done", "failed"}

(* The id AUTOINCREMENT gives the next row: rows are never deleted. *)
NextId == Cardinality({u \in Url : status[u] # "absent"}) + 1

QueueInit ==
  /\ status = [u \in Url |-> "absent"]
  /\ depth = [u \in Url |-> 0]
  /\ attempts = [u \in Url |-> 0]
  /\ rowid = [u \in Url |-> 0]

(* A faulty enqueue: INSERT OR REPLACE instead of INSERT.                   *)
EnqueueReplacing(u, d) ==
  /\ status' = [status EXCEPT ![u] = "pending"]
  /\ depth' = [depth EXCEPT ![u] = d]
  /\ rowid' = [rowid EXCEPT ![u] = IF @ = 0 THEN NextId ELSE @]
  /\ UNCHANGED attempts

(* enqueue: an INSERT that the unique index turns into a no-op (the         *)
(* IntegrityError is caught) when the URL already has a row.                *)
Enqueue(u, d) ==
  \/ /\ status[u] = "absent"
     /\ status' = [status EXCEPT ![u] = "pending"]
     /\ depth' = [depth EXCEPT ![u] = d]
     /\ rowid' = [rowid EXCEPT ![u] = NextId]
     /\ UNCHANGED attempts
  \/ /\ status[u] # "absent"
     /\ UNCHANGED queueVars

NonePending == \A u \in Url : status[u] # "pending"

(* The row SELECT ... WHERE status='pending' ORDER BY id LIMIT 1 returns. *)
IsOldestPending(u) ==
  /\ status[u] = "pending"
  /\ \A v \in Url : status[v] = "pending" => rowid[u] <= rowid[v]

(* A faulty claim: the UPDATE counts the attempt but leaves the status.     *)
ClaimUnmarked(u) ==
  /\ IsOldestPending(u)
  /\ attempts' = [attempts EXCEPT ![u] = @ + 1]
  /\ UNCHANGED <<status, depth, rowid>>

(* claim, when the SELECT returned row u. *)
Claim(u) ==
  /\ IsOldestPending(u)
  /\ status' = [status EXCEPT ![u] = "in_flight"]
  /\ attempts' = [attempts EXCEPT ![u] = @ + 1]
  /\ UNCHANGED <<depth, rowid>>

(* complete and fail update the row by id, whatever its status is. *)
Complete(u) ==
  /\ status' = [status EXCEPT ![u] = "done"]
  /\ UNCHANGED <<depth, attempts, rowid>>

Fail(u, retry) ==
  /\ status' = [status EXCEPT ![u] = IF retry THEN "pending" ELSE "failed"]
  /\ UNCHANGED <<depth, attempts, rowid>>
=============================================================================
