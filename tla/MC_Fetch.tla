------------------------------ MODULE MC_Fetch ------------------------------
(* Instances of TierFetch. *)
EXTENDS TierFetch

(* One caller begins with HTTP, the other asks for a browser at once.       *)
MixedStart ==
  [f \in Fetcher |-> IF f = "static" THEN HTTP_SESSIONED ELSE BROWSER_STEALTH]
=============================================================================
