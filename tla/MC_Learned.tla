------------------------------ MODULE MC_Learned ------------------------------
(***************************************************************************)
(* What is learned from a site that is redesigned, scripts of actions or   *)
(* selectors of fields: a behaviour has runs of the agent or extractions.  *)
(***************************************************************************)
EXTENDS AgentReplay, HybridExtract, TLC

Actors == Permutations(Driver) \cup Permutations(Worker)

VARIABLE who   \* of the two

Init == SiteInit /\ AgentInit /\ ExtractInit /\ who \in {"agent", "extract"}

Next ==
  /\ \/ who = "agent" /\ AgentNext /\ UNCHANGED workerVars
     \/ who = "extract" /\ ExtractNext /\ UNCHANGED driverVars
  /\ UNCHANGED who

Spec == Init /\ [][Next]_<<siteVars, driverVars, workerVars, who>>
-----------------------------------------------------------------------------
(* hybrid.py:37 "Drop a cached selector set after this many consecutive     *)
(* validation failures", agent_drivers.py:124 "drop a cached script after   *)
(* this many failed replays": no sooner and no later, in any order.         *)
EvictionOnTime == DroppedOnTime /\ EvictedOnTime

=============================================================================
