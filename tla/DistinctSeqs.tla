---------------------------- MODULE DistinctSeqs ----------------------------
(***************************************************************************)
(* Sequences without repetitions: waiters, queues and pools.               *)
(***************************************************************************)
EXTENDS Integers, Sequences

Elements(s) == {s[k] : k \in 1..Len(s)}

Distinct(s) == \A i, j \in 1..Len(s) : s[i] = s[j] => i = j

(* The sequence without its element at k: deque.remove.                     *)
Without(s, k) == [i \in 1..Len(s) - 1 |-> IF i < k THEN s[i] ELSE s[i + 1]]
=============================================================================
