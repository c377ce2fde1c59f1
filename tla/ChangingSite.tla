----------------------------- MODULE ChangingSite -----------------------------
(***************************************************************************)
(* The site that AgentReplay and HybridExtract learn from: a redesign      *)
(* changes its layout.                                                     *)
(***************************************************************************)
EXTENDS Integers, FiniteSets

CONSTANTS
  Layouts,      \* bound: layouts of the site, one after the other
  MaxFaults     \* bound: runs and callers that raise, and the like

ASSUME SiteAssumption == Layouts \in Nat \ {0} /\ MaxFaults \in Nat

VARIABLES layout, faults

siteVars == <<layout, faults>>

SiteInit == layout = 1 /\ faults = 0

Redesign ==
  /\ layout < Layouts
  /\ layout' = layout + 1
  /\ UNCHANGED faults

SiteTypeOK == layout \in 1..Layouts /\ faults \in 0..MaxFaults
=============================================================================
