------------------------------- MODULE MC_Scrape -------------------------------
(***************************************************************************)
(* Instances of WatchHandle.  Page 2 is a PDF.  The handle scrapes under a *)
(* geo policy that does not require a match; others take a screenshot, or  *)
(* require one.                                                            *)
(***************************************************************************)
EXTENDS WatchHandle

Everybody == Task \cup Other
Ask(live, geo) == [live |-> live, geo |-> geo]
Asked == [x \in Task \cup Other |->
  IF x \in Task THEN {Ask(FALSE, "lenient")}
  ELSE {Ask(TRUE, "none"), Ask(FALSE, "strict")}]
Apart == [c \in 1..Versions |-> c]
Ways == {<<nowhere, TRUE>>, <<"eu", TRUE>>, <<"us", FALSE>>}
=============================================================================
