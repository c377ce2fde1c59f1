----------------------------- MODULE Sequential -----------------------------
(***************************************************************************)
(* The algorithms of one coroutine, against their reference definitions: a *)
(* behaviour maps a site, shapes a document or does the steps of a call on *)
(* a page.                                                                 *)
(***************************************************************************)
EXTENDS SiteMap, Redaction, PageActions

NoMap == MapLocals /\ stage = "idle"
NoChunks == ChunkLocals /\ doc = <<>> /\ overlap = 0 /\ phase = "idle"
NoActions ==
  /\ feed = [shown |-> 0, coming |-> 0, rest |-> 0, height |-> 0]
  /\ ActionLocals /\ todo = <<>> /\ at = "idle" /\ mishaps = 0

Init ==
  /\ \/ MapInit /\ NoChunks /\ NoActions
     \/ ChunkInit /\ NoMap /\ NoActions
     \/ ActionInit /\ NoMap /\ NoChunks
  /\ text = 0 /\ left = <<>>

Next ==
  \/ MapNext /\ UNCHANGED <<chunkVars, redactVars, actionVars>>
  \/ RedactionNext /\ UNCHANGED <<mapVars, actionVars>>
  \/ ActionNext /\ UNCHANGED <<mapVars, chunkVars, redactVars>>

vars == <<mapVars, chunkVars, redactVars, actionVars>>
Spec == Init /\ [][Next]_vars /\ WF_mapVars(MapNext)
-----------------------------------------------------------------------------
(* map_site returns, whatever the sitemaps list.                            *)
Returns == stage = "origin" ~> stage = "done"
=============================================================================
