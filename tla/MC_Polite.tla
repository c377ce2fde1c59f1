------------------------------ MODULE MC_Polite ------------------------------
(* Two origins of one host, http and https, with different crawl-delays, and *)
(* an origin of another host without one; one URL is forbidden.              *)
EXTENDS PoliteWorker

Rows == {"s1", "s2", "s3", "f1"}
Origins == {"http://slow", "https://slow", "https://fast"}
Hosts == {"slow", "fast"}
RowOrigin == [t \in Rows |->
  CASE t = "f1" -> "https://fast" [] t = "s3" -> "http://slow"
    [] OTHER -> "https://slow"]
OriginHost == [o \in Origins |-> IF o = "https://fast" THEN "fast" ELSE "slow"]
ForbiddenRows == {"f1"}
Delays == [o \in Origins |->
  CASE o = "https://slow" -> 2 [] o = "http://slow" -> 1 [] OTHER -> 0]
=============================================================================
