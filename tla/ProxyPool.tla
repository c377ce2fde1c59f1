------------------------------ MODULE ProxyPool ------------------------------
(***************************************************************************)
(* The rotating proxy pool (access/proxy_pool.py) and what a fetch reports *)
(* to it.  get_proxy and report run under the pool's lock and wait for     *)
(* nothing: each is one step.  The pool has no upstream adapter.           *)
(*                                                                         *)
(* Proxies are their places in the list of urls.                           *)
(***************************************************************************)
EXTENDS Integers

CONSTANTS
  NumProxies,
  MaxFailures,   \* max_failures: soft failures in a row that park a proxy
  Cooldown,      \* cooldown_seconds
  MaxTime        \* bound of the clock

ASSUME PoolAssumption ==
  /\ NumProxies \in Nat \ {0} /\ MaxFailures \in Nat \ {0}
  /\ Cooldown \in Nat \ {0} /\ MaxTime \in Nat

VARIABLES
  now,
  cursor,    \* _cursor
  fails,     \* [Proxy -> 0..MaxFailures]; more would make no difference
  until,     \* [Proxy -> Nat], cooldown_until
  bypassed,  \* history: how often others were handed out before a proxy
  burnedAt   \* history: when its last report was a hard block, Never after
             \* the cooldown or a success

poolVars == <<now, cursor, fails, until, bypassed, burnedAt>>

Proxy == 0..NumProxies - 1
Direct == -1           \* no proxy
Never == -1

(* What becomes of a request, by what the code makes of it.                 *)
(*   page     2xx or 304 with content                                       *)
(*   thin     little text, an unrendered shell, or a 4xx such as 404        *)
(*   wall     401, 403, 407, an anti-bot page, a redirect the SSRF guard    *)
(*            refuses, a navigation error of the browser                    *)
(*   limited  429                                                           *)
(*   down     5xx or a network error                                        *)
(*   empty    no body                                                       *)
(*   local    no browser, no agent driver                                   *)
Outcome == {"page", "thin", "wall", "limited", "down", "empty", "local"}

(* _is_hard_block, and ok of report_outcome. *)
Hard(o) == o \in {"wall", "limited"}
Good(o) == o \in {"page", "thin"}

PoolInit ==
  /\ now = 0 /\ cursor = 0
  /\ fails = [p \in Proxy |-> 0] /\ until = [p \in Proxy |-> 0]
  /\ bypassed = [p \in Proxy |-> 0] /\ burnedAt = [p \in Proxy |-> Never]

Available(p) == until[p] <= now

(* Distances from the cursor at which a proxy is available. *)
Offsets == {k \in 0..NumProxies - 1 : Available((cursor + k) % NumProxies)}

(* The first one from the cursor on.                                        *)
IsNext(p) ==
  \E k \in Offsets :
    p = (cursor + k) % NumProxies /\ \A j \in Offsets : k <= j

Bypass(p) ==
  bypassed' = [q \in Proxy |->
                 IF q = p \/ ~Available(q) THEN 0 ELSE bypassed[q] + 1]

(* Faulty: the cursor stays on the proxy that was handed out. *)
HandOutStaying(p) ==
  /\ IsNext(p)
  /\ cursor' = p
  /\ Bypass(p)
  /\ UNCHANGED <<now, fails, until, burnedAt>>

HandOut(p) ==
  /\ IsNext(p)
  /\ cursor' = (p + 1) % NumProxies
  /\ Bypass(p)
  /\ UNCHANGED <<now, fails, until, burnedAt>>

(* get_proxy answers p. *)
GetProxy(p) ==
  \/ p \in Proxy /\ HandOut(p)
  \/ Offsets = {} /\ p = Direct /\ UNCHANGED poolVars

(* Faulty: only a run of failures parks a proxy. *)
ParksSoftOnly(p, o) == fails[p] + 1 >= MaxFailures

Parks(p, o) == Hard(o) \/ fails[p] + 1 >= MaxFailures

ReportGood(p) ==
  /\ fails' = [fails EXCEPT ![p] = 0]
  /\ until' = [until EXCEPT ![p] = 0]
  /\ burnedAt' = [burnedAt EXCEPT ![p] = Never]

ReportBad(p, o) ==
  /\ fails' = [fails EXCEPT ![p] = IF @ < MaxFailures THEN @ + 1 ELSE @]
  /\ until' = IF Parks(p, o) THEN [until EXCEPT ![p] = now + Cooldown] ELSE until
  /\ burnedAt' = IF Hard(o) THEN [burnedAt EXCEPT ![p] = now] ELSE burnedAt

(* report_outcome of a fetch through p that ended with o. *)
Report(p, o) ==
  \/ p = Direct /\ UNCHANGED poolVars
  \/ /\ p # Direct
     /\ \/ Good(o) /\ ReportGood(p)
        \/ ~Good(o) /\ ReportBad(p, o)
     /\ UNCHANGED <<now, cursor, bypassed>>

PoolTick ==
  /\ now < MaxTime
  /\ now' = now + 1
  /\ burnedAt' = [p \in Proxy |-> IF burnedAt[p] + Cooldown <= now + 1
                                  THEN Never ELSE burnedAt[p]]
  /\ UNCHANGED <<cursor, fails, until, bypassed>>
-----------------------------------------------------------------------------
PoolTypeOK ==
  /\ now \in 0..MaxTime /\ cursor \in Proxy
  /\ fails \in [Proxy -> 0..MaxFailures]
  /\ until \in [Proxy -> 0..MaxTime + Cooldown]
  /\ burnedAt \in [Proxy -> {Never} \cup 0..MaxTime]
  /\ \A p \in Proxy : bypassed[p] \in Nat
=============================================================================
