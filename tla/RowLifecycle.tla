---------------------------- MODULE RowLifecycle ----------------------------
(***************************************************************************)
(* What the crawl promises about every row of its queue, whoever runs and  *)
(* whatever crashes: rows change one at a time; a URL is taken at most     *)
(* MaxAttempts times; a row goes back to pending only from a take that     *)
(* still has an attempt left; "done" and "failed" are for ever.            *)
(***************************************************************************)
EXTENDS Naturals

CONSTANTS Url, MaxAttempts

VARIABLES row,    \* [Url -> status]
          takes   \* [Url -> how often the row was taken]

Init == /\ row = [u \in Url |-> "absent"]
        /\ takes = [u \in Url |-> 0]

Insert(u) == /\ row[u] = "absent"
             /\ row' = [row EXCEPT ![u] = "pending"]
             /\ UNCHANGED takes

Take(u) == /\ row[u] = "pending"
           /\ takes[u] < MaxAttempts
           /\ row' = [row EXCEPT ![u] = "in_flight"]
           /\ takes' = [takes EXCEPT ![u] = @ + 1]

GiveBack(u) == /\ row[u] = "in_flight"
               /\ takes[u] < MaxAttempts
               /\ row' = [row EXCEPT ![u] = "pending"]
               /\ UNCHANGED takes

Settle(u) == /\ row[u] = "in_flight"
             /\ \E s \in {"done", "failed"} : row' = [row EXCEPT ![u] = s]
             /\ UNCHANGED takes

Next == \E u \in Url : Insert(u) \/ Take(u) \/ GiveBack(u) \/ Settle(u)

Spec == Init /\ [][Next]_<<row, takes>>
=============================================================================
