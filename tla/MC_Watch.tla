------------------------------ MODULE MC_Watch ------------------------------
(* Instances of WatchService.  Page 3 differs from page 1 in personal data. *)
EXTENDS WatchService

Everybody == {"daemon"} \cup User
Plain == [x \in {Daemon} \cup User |-> {[live |-> FALSE, geo |-> "none"]}]
Direct == {<<nowhere, TRUE>>}
Apart == [c \in 1..Versions |-> IF c = 3 THEN 1 ELSE c]
Hourly == [w \in WatchId |-> IF w = "w2" THEN 2 ELSE 1]
=============================================================================
