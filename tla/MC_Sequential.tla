---------------------------- MODULE MC_Sequential ----------------------------
(* An instance of Sequential. *)
EXTENDS Sequential

(* "home" links to "list" and "item", "list" to "deep" and to another host, *)
(* "deep" by way of "end" to "far", "item" to two pages more.  One origin's *)
(* sitemap is an index that lists itself and two sitemaps, the other's      *)
(* lists only itself; "item" is in a sitemap, "lone" in another and linked  *)
(* from nowhere.                                                            *)
Web == {"home", "list", "item", "deep", "end", "far", "more", "most", "lone", "away"}
Site == Web \ {"away"}
TwoSeeds == {"home", "list"}
SiteLinks == [u \in Web |->
  CASE u = "home" -> {"list", "item"}
    [] u = "list" -> {"home", "deep", "away"}
    [] u = "item" -> {"more", "most"}
    [] u = "deep" -> {"end"}
    [] u = "end" -> {"far"}
    [] OTHER -> {"home"}]

Origins == {"http", "https"}
Files == {"index", "s1", "s2", "loop"}
Root == [o \in Origins |-> IF o = "https" THEN "index" ELSE "loop"]
Indexing == [f \in Files |->
  CASE f = "index" -> <<"index", "s1", "s2", "s1">> [] f = "loop" -> <<"loop">>
    [] OTHER -> <<>>]
SomeListed == [f \in Files |->
  CASE f = "s1" -> {"item", "away"} [] f = "s2" -> {"lone", "away"} [] OTHER -> {}]

(* Documents of up to five blocks: headings of three levels and paragraphs  *)
(* of three lengths, the longer ones with characters of several bytes, the  *)
(* longest above the target by itself.  Two values overlap in the middle    *)
(* one; an overlap of three begins where the second does, and tears the     *)
(* first.  In the longest one value encloses another, of a kind scanned     *)
(* before its own, and a third overlaps with it.                            *)
Headings == {[level |-> l, chars |-> 2, bytes |-> 3, hits |-> {}] : l \in 1..3}
Value(k, s, e) == [kind |-> k, start |-> s, end |-> e]
Paragraphs ==
  {[level |-> 0, chars |-> 1, bytes |-> 1, hits |-> {}],
   [level |-> 0, chars |-> 4, bytes |-> 6, hits |-> {Value(1, 1, 3), Value(2, 0, 2)}],
   [level |-> 0, chars |-> 9, bytes |-> 10,
    hits |-> {Value(1, 2, 4), Value(2, 1, 6), Value(3, 5, 8)}]}
Blocks == Headings \cup Paragraphs
=============================================================================
