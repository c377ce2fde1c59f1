----------------------------- MODULE FetchProofs -----------------------------
(***************************************************************************)
(* Proofs about TierFetch and its proxy pool, for every number of fetches, *)
(* proxies, retries and faults.                                            *)
(***************************************************************************)
EXTENDS TierFetch, TLAPS

-----------------------------------------------------------------------------
(* The rotation, as distances from the cursor.                              *)

(* A place in the list, a lap further or not.                               *)
LEMMA Lap ==
  ASSUME NEW n \in Nat \ {0}, NEW a \in 0..2 * n - 1
  PROVE  a % n = IF a < n THEN a ELSE a - n
OBVIOUS

Distance(p) == IF p >= cursor THEN p - cursor ELSE p - cursor + NumProxies

(* The calls that passed a proxy over brought the cursor that much closer.  *)
Closing == \A p \in Proxy : bypassed[p] + Distance(p) <= NumProxies - 1

LEMMA Places ==
  ASSUME PoolTypeOK
  PROVE  /\ NumProxies \in Nat \ {0} /\ cursor \in 0..NumProxies - 1
         /\ \A p \in Proxy :
              /\ Distance(p) \in 0..NumProxies - 1
              /\ (cursor + Distance(p)) % NumProxies = p
         /\ \A k \in 0..NumProxies - 1 :
              /\ (cursor + k) % NumProxies \in Proxy
              /\ Distance((cursor + k) % NumProxies) = k
<1>0. NumProxies \in Nat \ {0} /\ cursor \in 0..NumProxies - 1
  BY PoolAssumption DEF PoolTypeOK, Proxy
<1>1. ASSUME NEW p \in Proxy
      PROVE  /\ Distance(p) \in 0..NumProxies - 1
             /\ (cursor + Distance(p)) % NumProxies = p
  <2>1. p \in 0..NumProxies - 1
    BY DEF Proxy
  <2>2. Distance(p) \in 0..NumProxies - 1
    BY <1>0, <2>1 DEF Distance
  <2>3. PICK a \in 0..2 * NumProxies - 1 : a = cursor + Distance(p)
    BY <1>0, <2>2
  <2>4. a % NumProxies = IF a < NumProxies THEN a ELSE a - NumProxies
    BY <1>0, Lap
  <2>. QED BY <1>0, <2>1, <2>2, <2>3, <2>4 DEF Distance
<1>2. ASSUME NEW k \in 0..NumProxies - 1
      PROVE  /\ (cursor + k) % NumProxies \in Proxy
             /\ Distance((cursor + k) % NumProxies) = k
  <2>1. PICK a \in 0..2 * NumProxies - 1 : a = cursor + k
    BY <1>0
  <2>2. a % NumProxies = IF a < NumProxies THEN a ELSE a - NumProxies
    BY <1>0, Lap
  <2>. QED BY <1>0, <2>1, <2>2 DEF Distance, Proxy
<1>. QED BY <1>0, <1>1, <1>2

(* A proxy out of its cooldown was not burned within one.                   *)
Parked ==
  \A p \in Proxy : burnedAt[p] # Never =>
    /\ burnedAt[p] <= now /\ now < burnedAt[p] + Cooldown
    /\ burnedAt[p] + Cooldown <= until[p]

PoolInv == PoolTypeOK /\ Closing /\ Parked

LEMMA HandOutStep ==
  ASSUME PoolInv, NEW p \in Proxy, HandOut(p)
  PROVE  PoolInv'
<1>0. /\ PoolTypeOK /\ NumProxies \in Nat \ {0} /\ cursor \in 0..NumProxies - 1
      /\ p \in 0..NumProxies - 1
  BY Places DEF PoolInv, Proxy
<1>1. PICK k \in Offsets :
        p = (cursor + k) % NumProxies /\ \A j \in Offsets : k <= j
  BY DEF HandOut, IsNext
<1>2. k \in 0..NumProxies - 1 /\ Distance(p) = k
  BY <1>0, <1>1, Places DEF Offsets
<1>3. cursor' = IF p + 1 < NumProxies THEN p + 1 ELSE 0
  <2>1. PICK a \in 0..2 * NumProxies - 1 : a = p + 1
    BY <1>0
  <2>2. a % NumProxies = IF a < NumProxies THEN a ELSE a - NumProxies
    BY <1>0, Lap
  <2>3. cursor' = a % NumProxies
    BY <2>1 DEF HandOut
  <2>. QED BY <1>0, <2>1, <2>2, <2>3
<1>4. /\ UNCHANGED <<now, fails, until, burnedAt>>
      /\ bypassed' = [q \in Proxy |->
                        IF q = p \/ ~Available(q) THEN 0 ELSE bypassed[q] + 1]
  BY DEF HandOut, Bypass
<1>5. PoolTypeOK'
  <2>1. cursor' \in Proxy
    BY <1>0, <1>3 DEF Proxy
  <2>2. \A q \in Proxy : bypassed'[q] \in Nat
    BY <1>0, <1>4 DEF PoolTypeOK
  <2>. QED BY <1>0, <1>4, <2>1, <2>2 DEF PoolTypeOK
<1>6. ASSUME NEW q \in Proxy
      PROVE  bypassed'[q] + Distance(q)' <= NumProxies - 1
  <2>0. /\ q \in 0..NumProxies - 1 /\ bypassed[q] \in Nat
        /\ Distance(q) \in 0..NumProxies - 1
        /\ bypassed[q] + Distance(q) <= NumProxies - 1
        /\ Distance(q)' = IF q >= cursor' THEN q - cursor'
                          ELSE q - cursor' + NumProxies
    BY <1>0, Places DEF PoolInv, Closing, PoolTypeOK, Proxy, Distance
  <2>1. CASE q = p \/ ~Available(q)
    BY <1>0, <1>3, <1>4, <2>0, <2>1
  <2>2. CASE q # p /\ Available(q)
    <3>1. Distance(q) \in Offsets
      BY <1>0, <2>0, <2>2, Places DEF Offsets
    <3>2. Distance(q) # k
      BY <1>0, <1>1, <2>2, Places
    <3>3. k < Distance(q)
      BY <1>1, <1>2, <2>0, <3>1, <3>2
    <3>4. Distance(q)' = Distance(q) - (k + 1)
      BY <1>0, <1>2, <1>3, <2>0, <3>3 DEF Distance
    <3>5. bypassed'[q] = bypassed[q] + 1
      BY <1>4, <2>2
    <3>. QED BY <1>0, <1>2, <2>0, <3>4, <3>5
  <2>. QED BY <2>1, <2>2
<1>7. Parked'
  BY <1>4 DEF PoolInv, Parked
<1>. QED BY <1>5, <1>6, <1>7 DEF PoolInv, Closing

LEMMA ReportStep ==
  ASSUME PoolInv, NEW p \in Proxy \cup {Direct}, NEW o \in Outcome, Report(p, o)
  PROVE  PoolInv'
<1>0. /\ now \in 0..MaxTime /\ MaxTime \in Nat /\ Cooldown \in Nat \ {0}
      /\ MaxFailures \in Nat \ {0} /\ now + Cooldown \in 0..MaxTime + Cooldown
      /\ now # Never /\ 0 \in 0..MaxTime + Cooldown
  BY PoolAssumption DEF PoolInv, PoolTypeOK, Never
<1>1. CASE UNCHANGED poolVars
  BY <1>1 DEF poolVars, PoolInv, PoolTypeOK, Closing, Distance, Parked
<1>2. CASE p # Direct /\ UNCHANGED <<now, cursor, bypassed>>
  <2>0. p \in Proxy
    BY <1>2
  <2>1. Closing'
    BY <1>2 DEF PoolInv, Closing, Distance
  <2>2. CASE ReportGood(p)
    <3>1. PoolTypeOK'
      BY <1>0, <1>2, <2>0, <2>2 DEF ReportGood, PoolInv, PoolTypeOK
    <3>2. Parked'
      BY <1>2, <2>0, <2>2 DEF ReportGood, PoolInv, PoolTypeOK, Parked
    <3>. QED BY <2>1, <3>1, <3>2 DEF PoolInv
  <2>3. CASE ReportBad(p, o)
    <3>1. PoolTypeOK'
      <4>1. fails' \in [Proxy -> 0..MaxFailures]
        BY <1>0, <2>0, <2>3 DEF ReportBad, PoolInv, PoolTypeOK
      <4>2. until' \in [Proxy -> 0..MaxTime + Cooldown]
        BY <1>0, <2>0, <2>3 DEF ReportBad, PoolInv, PoolTypeOK
      <4>3. burnedAt' \in [Proxy -> {Never} \cup 0..MaxTime]
        BY <1>0, <2>0, <2>3 DEF ReportBad, PoolInv, PoolTypeOK
      <4>. QED BY <1>2, <4>1, <4>2, <4>3 DEF PoolInv, PoolTypeOK
    <3>2. ASSUME NEW q \in Proxy, burnedAt'[q] # Never
          PROVE  /\ burnedAt'[q] <= now /\ now < burnedAt'[q] + Cooldown
                 /\ burnedAt'[q] + Cooldown <= until'[q]
      <4>0. /\ until \in [Proxy -> 0..MaxTime + Cooldown]
            /\ burnedAt \in [Proxy -> {Never} \cup 0..MaxTime]
            /\ until[q] \in Int /\ burnedAt[q] \in Int
        BY <1>0 DEF PoolInv, PoolTypeOK, Never
      <4>1. CASE q # p
        BY <2>3, <3>2, <4>0, <4>1 DEF ReportBad, PoolInv, Parked
      <4>2. CASE q = p /\ Hard(o)
        BY <1>0, <2>3, <4>0, <4>2 DEF ReportBad, Parks
      <4>3. CASE q = p /\ ~Hard(o)
        <5>1. burnedAt'[q] = burnedAt[q] /\ until'[q] \in {until[q], now + Cooldown}
          BY <2>3, <4>0, <4>3 DEF ReportBad
        <5>. QED BY <1>0, <3>2, <4>0, <5>1 DEF PoolInv, Parked
      <4>. QED BY <4>1, <4>2, <4>3
    <3>. QED BY <1>2, <2>1, <3>1, <3>2 DEF PoolInv, Parked
  <2>. QED BY <1>2, <2>2, <2>3 DEF Report
<1>. QED BY <1>1, <1>2 DEF Report

LEMMA TickStep ==
  ASSUME PoolInv, PoolTick
  PROVE  PoolInv'
<1>0. /\ now \in 0..MaxTime /\ MaxTime \in Nat /\ Cooldown \in Nat \ {0}
      /\ \A p \in Proxy : burnedAt[p] \in {Never} \cup 0..MaxTime
                           /\ burnedAt[p] \in Int
  BY PoolAssumption DEF PoolInv, PoolTypeOK, Never
<1>1. PoolTypeOK'
  BY <1>0 DEF PoolTick, PoolInv, PoolTypeOK
<1>2. Closing'
  BY DEF PoolTick, PoolInv, Closing, Distance
<1>3. ASSUME NEW q \in Proxy, burnedAt'[q] # Never
      PROVE  /\ burnedAt'[q] <= now' /\ now' < burnedAt'[q] + Cooldown
             /\ burnedAt'[q] + Cooldown <= until'[q]
  <2>1. /\ burnedAt'[q] = burnedAt[q] /\ now' = now + 1
        /\ UNCHANGED until /\ ~(burnedAt[q] + Cooldown <= now + 1)
    BY <1>3 DEF PoolTick
  <2>. QED BY <1>0, <1>3, <2>1 DEF PoolInv, Parked
<1>. QED BY <1>1, <1>2, <1>3 DEF PoolInv, Parked

-----------------------------------------------------------------------------
(* The fetches and the browser.                                             *)
Place == {"idle", "get_proxy", "request", "ensure", "waiting", "launching",
          "context", "agent"}

FetchTypeOK ==
  /\ pc \in [Fetcher -> Place]
  /\ tier \in [Fetcher -> HTTP..MaxTier]
  /\ attempt \in [Fetcher -> 0..HttpRetries]
  /\ proxy \in [Fetcher -> Proxy \cup {Direct}]
  /\ browser \in {"none", "up", "dead"} /\ driver \in BOOLEAN
  /\ lock \in Fetcher \cup {None}

(* Who launches has the lock, and there is no browser yet.                  *)
Launching ==
  \A f \in Fetcher : pc[f] = "launching" => lock = f /\ browser = "none"

(* A driver without a browser is what a failed closing left, and the next   *)
(* launch would make it an orphan.                                          *)
LeftOver == IF driver /\ browser = "none" THEN 1 ELSE 0

OrphansCounted ==
  /\ orphans \in Nat /\ excused \in Nat /\ faults \in Nat
  /\ orphans + LeftOver <= excused /\ excused <= faults /\ faults <= MaxFaults

FetchInv == FetchTypeOK /\ Launching /\ OrphansCounted

LEMMA EndFetchStep ==
  ASSUME FetchTypeOK, NEW f \in Fetcher, EndFetch(f)
  PROVE  /\ pc' = [pc EXCEPT ![f] = "idle"] /\ pc' \in [Fetcher -> Place]
         /\ tier' \in [Fetcher -> HTTP..MaxTier]
         /\ attempt' \in [Fetcher -> 0..HttpRetries]
         /\ proxy' = [proxy EXCEPT ![f] = Direct]
         /\ proxy' \in [Fetcher -> Proxy \cup {Direct}]
<1>1. StartTier[f] \in HTTP..MaxTier /\ 0 \in 0..HttpRetries
  BY FetchAssumption
<1>. QED BY <1>1 DEF EndFetch, Goto, FetchTypeOK, Place

LEMMA TierEndsStep ==
  ASSUME FetchTypeOK, NEW f \in Fetcher, NEW o, TierEnds(f, o)
  PROVE  /\ pc'[f] \in {"idle", "agent", "get_proxy"}
         /\ pc' = [pc EXCEPT ![f] = pc'[f]] /\ pc' \in [Fetcher -> Place]
         /\ tier' \in [Fetcher -> HTTP..MaxTier]
         /\ attempt' \in [Fetcher -> 0..HttpRetries]
         /\ proxy' = [proxy EXCEPT ![f] = Direct]
         /\ proxy' \in [Fetcher -> Proxy \cup {Direct}]
<1>1. CASE EndFetch(f)
  BY <1>1, EndFetchStep DEF FetchTypeOK
<1>2. CASE tier[f] < MaxTier /\ NextTier(f)
  <2>1. tier[f] \in HTTP..MaxTier /\ MaxTier \in Int /\ 0 \in 0..HttpRetries
    BY FetchAssumption DEF FetchTypeOK, HTTP, AGENT
  <2>2. tier[f] + 1 \in HTTP..MaxTier
    BY <1>2, <2>1 DEF HTTP
  <2>3. Entry(tier[f] + 1) \in {"agent", "get_proxy"}
    BY DEF Entry
  <2>. QED BY <1>2, <2>1, <2>2, <2>3 DEF NextTier, Goto, FetchTypeOK, Place
<1>. QED BY <1>1, <1>2 DEF TierEnds

(* A step of one fetch that leaves the browser alone.                       *)
LEMMA OffBrowser ==
  ASSUME FetchInv, NEW f \in Fetcher, UNCHANGED browserVars,
         pc[f] # "launching", pc'[f] # "launching", pc' = [pc EXCEPT ![f] = pc'[f]],
         faults' \in {faults, faults + 1}, faults' <= MaxFaults
  PROVE  Launching' /\ OrphansCounted'
BY DEF FetchInv, FetchTypeOK, Launching, OrphansCounted, LeftOver, browserVars

LEMMA FetchStepInv ==
  ASSUME FetchInv, [Next]_vars
  PROVE  FetchInv'
<1>0. /\ None \notin Fetcher /\ MaxFaults \in Nat /\ HttpRetries \in Nat
      /\ FetchTypeOK /\ Launching /\ faults \in Nat /\ orphans \in Nat
      /\ excused \in Nat /\ LeftOver \in {0, 1}
      /\ orphans + LeftOver <= excused /\ excused <= faults /\ faults <= MaxFaults
  BY FetchAssumption DEF FetchInv, OrphansCounted, LeftOver
<1>1. ASSUME NEW f \in Fetcher, Begin(f) PROVE FetchInv'
  <2>1. /\ pc' = [pc EXCEPT ![f] = pc'[f]] /\ pc'[f] \in {"agent", "get_proxy"}
        /\ pc[f] = "idle" /\ UNCHANGED <<tier, attempt, proxy, browserVars, faults>>
    BY <1>0, <1>1 DEF Begin, Goto, Entry, FetchTypeOK
  <2>. QED BY <1>0, <2>1, OffBrowser DEF FetchInv, FetchTypeOK, Place, browserVars
<1>2. ASSUME NEW f \in Fetcher, AskProxy(f) PROVE FetchInv'
  <2>1. /\ pc' = [pc EXCEPT ![f] = pc'[f]] /\ pc'[f] \in {"request", "ensure"}
        /\ pc[f] = "get_proxy" /\ UNCHANGED <<tier, attempt, browserVars, faults>>
        /\ proxy' \in [Fetcher -> Proxy \cup {Direct}]
    BY <1>0, <1>2 DEF AskProxy, Goto, FetchTypeOK
  <2>. QED BY <1>0, <2>1, OffBrowser DEF FetchInv, FetchTypeOK, Place, browserVars
<1>3. ASSUME NEW f \in Fetcher, NEW o, Retry(f, o) PROVE FetchInv'
  <2>1. attempt' \in [Fetcher -> 0..HttpRetries]
    BY <1>0, <1>3 DEF Retry, FetchTypeOK
  <2>. QED
    BY <1>0, <1>3, <2>1
    DEF Retry, FetchInv, FetchTypeOK, browserVars, Launching, OrphansCounted,
        LeftOver
<1>4. ASSUME NEW f \in Fetcher, NEW o,
             HttpEnds(f, o) \/ ContextFails(f) \/ PageEnds(f, o) \/ AgentEnds(f, o)
      PROVE  FetchInv'
  <2>1. /\ \E r : TierEnds(f, r)
        /\ pc[f] # "launching" /\ UNCHANGED <<browserVars, faults>>
    BY <1>4 DEF HttpEnds, ContextFails, PageEnds, AgentEnds
  <2>2. /\ pc'[f] # "launching" /\ pc' = [pc EXCEPT ![f] = pc'[f]]
        /\ pc' \in [Fetcher -> Place] /\ tier' \in [Fetcher -> HTTP..MaxTier]
        /\ attempt' \in [Fetcher -> 0..HttpRetries]
        /\ proxy' \in [Fetcher -> Proxy \cup {Direct}]
    BY <1>0, <2>1, TierEndsStep
  <2>. QED BY <1>0, <2>1, <2>2, OffBrowser DEF FetchInv, FetchTypeOK, browserVars
<1>5. ASSUME NEW f \in Fetcher, AgentRaises(f) PROVE FetchInv'
  <2>1. pc[f] # "launching" /\ UNCHANGED <<browserVars, faults>> /\ EndFetch(f)
    BY <1>5 DEF AgentRaises
  <2>2. pc'[f] # "launching" /\ pc' = [pc EXCEPT ![f] = pc'[f]]
    BY <1>0, <2>1, EndFetchStep DEF FetchTypeOK
  <2>. QED
    BY <1>0, <2>1, <2>2, EndFetchStep, OffBrowser
    DEF FetchInv, FetchTypeOK, browserVars
<1>6. ASSUME NEW f \in Fetcher, FindBrowser(f) \/ AwaitLock(f) PROVE FetchInv'
  <2>1. /\ pc[f] = "ensure" /\ pc'[f] \in {"context", "waiting"}
        /\ pc' = [pc EXCEPT ![f] = pc'[f]]
        /\ UNCHANGED <<tier, attempt, proxy, browserVars, faults>>
    BY <1>0, <1>6 DEF FindBrowser, AwaitLock, Goto, FetchTypeOK
  <2>. QED BY <1>0, <2>1, OffBrowser DEF FetchInv, FetchTypeOK, Place, browserVars
<1>7. ASSUME NEW f \in Fetcher, LockBrowser(f) PROVE FetchInv'
  <2>1. /\ lock = None /\ UNCHANGED <<tier, attempt, proxy, browser, driver,
                                     orphans, excused, faults>>
        /\ \/ pc' = [pc EXCEPT ![f] = "context"] /\ UNCHANGED lock
           \/ /\ pc' = [pc EXCEPT ![f] = "launching"] /\ lock' = f
              /\ browser = "none"
    BY <1>7 DEF LockBrowser, Goto
  <2>2. \A g \in Fetcher : pc[g] # "launching"
    BY <1>0, <2>1 DEF Launching
  <2>3. FetchTypeOK'
    BY <1>0, <2>1 DEF FetchTypeOK, Place
  <2>4. Launching'
    BY <1>0, <2>1, <2>2 DEF Launching, FetchTypeOK
  <2>5. OrphansCounted'
    BY <1>0, <2>1 DEF OrphansCounted, LeftOver
  <2>. QED BY <2>3, <2>4, <2>5 DEF FetchInv
<1>8. ASSUME NEW f \in Fetcher, Launched(f) PROVE FetchInv'
  <2>1. /\ pc[f] = "launching" /\ browser = "none" /\ browser' = "up" /\ driver' = TRUE
        /\ lock' = None /\ orphans' = (IF driver THEN orphans + 1 ELSE orphans)
        /\ pc' = [pc EXCEPT ![f] = "context"]
        /\ UNCHANGED <<tier, attempt, proxy, excused, faults>>
    BY <1>0, <1>8 DEF Launched, Goto, Launching
  <2>2. \A g \in Fetcher : pc[g] = "launching" => g = f
    BY <1>0, <2>1 DEF Launching
  <2>3. FetchTypeOK'
    BY <1>0, <2>1 DEF FetchTypeOK, Place
  <2>4. Launching'
    BY <1>0, <2>1, <2>2 DEF Launching, FetchTypeOK
  <2>5. OrphansCounted'
    BY <1>0, <2>1 DEF OrphansCounted, LeftOver
  <2>. QED BY <2>3, <2>4, <2>5 DEF FetchInv
<1>9. ASSUME NEW f \in Fetcher, LaunchFails(f) PROVE FetchInv'
  <2>1. /\ pc[f] = "launching" /\ faults < MaxFaults /\ faults' = faults + 1
        /\ lock' = None /\ TierEnds(f, "local")
        /\ UNCHANGED <<browser, driver, orphans, excused>>
    BY <1>9 DEF LaunchFails
  <2>2. \A g \in Fetcher : pc[g] = "launching" => g = f
    BY <1>0, <2>1 DEF Launching
  <2>3. FetchTypeOK'
    BY <1>0, <2>1, TierEndsStep DEF FetchTypeOK
  <2>4. pc'[f] # "launching" /\ pc' = [pc EXCEPT ![f] = pc'[f]]
    BY <1>0, <2>1, TierEndsStep
  <2>5. Launching'
    BY <1>0, <2>2, <2>4 DEF Launching, FetchTypeOK
  <2>6. OrphansCounted'
    BY <1>0, <2>1 DEF OrphansCounted, LeftOver
  <2>. QED BY <2>3, <2>5, <2>6 DEF FetchInv
<1>10. ASSUME NEW f \in Fetcher, Cancel(f) PROVE FetchInv'
  <2>1. /\ faults < MaxFaults /\ faults' = faults + 1 /\ EndFetch(f)
        /\ UNCHANGED <<browser, driver>>
        /\ \/ /\ pc[f] = "launching" /\ lock' = None
              /\ orphans' = orphans + 1 /\ excused' = excused + 1
           \/ pc[f] # "launching" /\ UNCHANGED <<lock, orphans, excused>>
    BY <1>10 DEF Cancel
  <2>2. pc' = [pc EXCEPT ![f] = "idle"]
    BY <1>0, <2>1, EndFetchStep
  <2>3. FetchTypeOK'
    BY <1>0, <2>1, EndFetchStep DEF FetchTypeOK
  <2>4. Launching'
    BY <1>0, <2>1, <2>2 DEF Launching, FetchTypeOK
  <2>5. OrphansCounted'
    BY <1>0, <2>1 DEF OrphansCounted, LeftOver
  <2>. QED BY <2>3, <2>4, <2>5 DEF FetchInv
<1>11. CASE BrowserDies
  <2>1. /\ browser = "up" /\ browser' = "dead" /\ faults < MaxFaults
        /\ faults' = faults + 1
        /\ UNCHANGED <<pc, tier, attempt, proxy, driver, lock, orphans, excused>>
    BY <1>11 DEF BrowserDies, fetchVars
  <2>2. FetchTypeOK'
    BY <1>0, <2>1 DEF FetchTypeOK
  <2>3. Launching'
    BY <1>0, <2>1 DEF Launching
  <2>4. OrphansCounted'
    BY <1>0, <2>1 DEF OrphansCounted, LeftOver
  <2>. QED BY <2>2, <2>3, <2>4 DEF FetchInv
<1>12. CASE Close
  <2>1. /\ \A f \in Fetcher : pc[f] = "idle"
        /\ browser' = "none" /\ driver' = FALSE
        /\ UNCHANGED <<pc, tier, attempt, proxy, lock, orphans, excused, faults>>
    BY <1>12 DEF Close, fetchVars
  <2>2. FetchTypeOK'
    BY <1>0, <2>1 DEF FetchTypeOK
  <2>3. Launching'
    BY <1>0, <2>1 DEF Launching
  <2>4. OrphansCounted'
    BY <1>0, <2>1 DEF OrphansCounted, LeftOver
  <2>. QED BY <2>2, <2>3, <2>4 DEF FetchInv
<1>13. CASE CloseFails
  <2>1. /\ \A f \in Fetcher : pc[f] = "idle"
        /\ browser # "none" /\ faults < MaxFaults /\ faults' = faults + 1
        /\ browser' = "none" /\ excused' = excused + 1
        /\ UNCHANGED <<pc, tier, attempt, proxy, driver, lock, orphans>>
    BY <1>13 DEF CloseFails, fetchVars
  <2>2. FetchTypeOK'
    BY <1>0, <2>1 DEF FetchTypeOK
  <2>3. Launching'
    BY <1>0, <2>1 DEF Launching
  <2>4. OrphansCounted'
    BY <1>0, <2>1 DEF OrphansCounted, LeftOver
  <2>. QED BY <2>2, <2>3, <2>4 DEF FetchInv
<1>14. CASE UNCHANGED <<fetchVars, browserVars, faults>>
  BY <1>0, <1>14
  DEF fetchVars, browserVars, FetchInv, FetchTypeOK, Launching, OrphansCounted,
      LeftOver
<1>. QED
  BY <1>1, <1>2, <1>3, <1>4, <1>5, <1>6, <1>7, <1>8, <1>9, <1>10, <1>11, <1>12,
     <1>13, <1>14
  DEF Next, FetchStep, BrowserStep, Tick, vars

-----------------------------------------------------------------------------
LEMMA PoolStepInv ==
  ASSUME PoolInv, FetchTypeOK, [Next]_vars
  PROVE  PoolInv'
<1>1. ASSUME UNCHANGED poolVars PROVE PoolInv'
  BY <1>1 DEF poolVars, PoolInv, PoolTypeOK, Closing, Distance, Parked
<1>2. ASSUME NEW f \in Fetcher, AskProxy(f) PROVE PoolInv'
  <2>1. PICK p \in Proxy \cup {Direct} : GetProxy(p)
    BY <1>2 DEF AskProxy
  <2>. QED BY <1>1, <2>1, HandOutStep DEF GetProxy
<1>3. ASSUME NEW f \in Fetcher, NEW o \in Outcome, HttpEnds(f, o) \/ PageEnds(f, o)
      PROVE  PoolInv'
  <2>1. Report(proxy[f], o) /\ proxy[f] \in Proxy \cup {Direct}
    BY <1>3 DEF HttpEnds, PageEnds, FetchTypeOK
  <2>. QED BY <2>1, ReportStep
<1>4. CASE Tick
  BY <1>4, TickStep DEF Tick
<1>5. HttpOutcome \subseteq Outcome /\ BrowserOutcome \subseteq Outcome
  BY DEF HttpOutcome, BrowserOutcome
<1>. QED
  BY <1>1, <1>2, <1>3, <1>4, <1>5
  DEF Next, FetchStep, BrowserStep, vars, Begin, Retry, FindBrowser, AwaitLock,
      LockBrowser, Launched, ContextFails, AgentEnds, AgentRaises, LaunchFails,
      Cancel, BrowserDies, Close, CloseFails

IInv == PoolInv /\ FetchInv

LEMMA InitIInv == Init => IInv
<1> SUFFICES ASSUME Init PROVE IInv
  OBVIOUS
<1>1. PoolInv
  <2>1. PoolTypeOK
    BY PoolAssumption DEF Init, PoolInit, PoolTypeOK, Proxy, Never
  <2>2. Closing
    BY <2>1, Places DEF Init, PoolInit, Closing
  <2>3. Parked
    BY DEF Init, PoolInit, Parked
  <2>. QED BY <2>1, <2>2, <2>3 DEF PoolInv
<1>2. FetchInv
  <2>1. FetchTypeOK
    <3>1. tier \in [Fetcher -> HTTP..MaxTier]
      BY FetchAssumption DEF Init
    <3>2. attempt \in [Fetcher -> 0..HttpRetries]
      BY FetchAssumption DEF Init
    <3>3. pc \in [Fetcher -> Place] /\ proxy \in [Fetcher -> Proxy \cup {Direct}]
      BY DEF Init, Place
    <3>. QED BY <3>1, <3>2, <3>3 DEF Init, FetchTypeOK
  <2>2. Launching /\ OrphansCounted
    BY FetchAssumption DEF Init, Launching, OrphansCounted, LeftOver
  <2>. QED BY <2>1, <2>2 DEF FetchInv
<1>. QED BY <1>1, <1>2 DEF IInv

LEMMA IInvariant == Spec => []IInv
<1>1. IInv /\ [Next]_vars => IInv'
  BY PoolStepInv, FetchStepInv DEF IInv, FetchInv
<1>. QED BY InitIInv, <1>1, PTL DEF Spec

(* Every variable keeps its type; no fetch leaves the tiers of its budget.  *)
THEOREM TypeCorrect == Spec => []TypeOK
<1>1. IInv => TypeOK
  <2> SUFFICES ASSUME IInv PROVE TypeOK
    OBVIOUS
  <2>1. {orphans, excused, faults} \subseteq 0..MaxFaults
    BY FetchAssumption DEF IInv, FetchInv, OrphansCounted, LeftOver
  <2>. QED
    BY <2>1 DEF IInv, PoolInv, FetchInv, FetchTypeOK, Place, TypeOK
<1>. QED BY <1>1, IInvariant, PTL

(* Round-robin over any number of proxies, any of them parked or not: an    *)
(* endpoint out of its cooldown is passed over once by each of the others.  *)
THEOREM RotationIsFair == Spec => []RotationFair
<1>1. IInv => RotationFair
  <2> SUFFICES ASSUME IInv, NEW p \in Proxy
               PROVE  bypassed[p] <= NumProxies - 1
    BY DEF RotationFair
  <2>1. /\ PoolTypeOK /\ bypassed[p] \in Nat
        /\ bypassed[p] + Distance(p) <= NumProxies - 1
    BY DEF IInv, PoolInv, Closing, PoolTypeOK
  <2>. QED BY <2>1, Places
<1>. QED BY <1>1, IInvariant, PTL

(* No failed launch, crash of the browser or interleaving of fetches leaves *)
(* a driver process that nobody can stop.                                   *)
THEOREM OrphansAreExcused == Spec => []OrphansExcused
<1>1. IInv => OrphansExcused
  BY DEF IInv, FetchInv, OrphansCounted, LeftOver, OrphansExcused
<1>. QED BY <1>1, IInvariant, PTL

(* A hard block keeps a proxy out of every fetch for its cooldown           *)
(* (proxy_pool.py:12), unless a fetch under way succeeded through it.       *)
THEOREM BurnedProxiesRest == Spec => BurnedStaysOut
<1>1. ASSUME IInv, [Next]_vars, NEW f \in Fetcher, NEW p \in Proxy,
             proxy'[f] = p, proxy[f] # p
      PROVE  burnedAt[p] = Never
  <2>0. FetchTypeOK /\ PoolInv /\ p # Direct
    BY <1>1 DEF IInv, FetchInv, Proxy, Direct
  <2>1. CASE AskProxy(f)
    <3>1. GetProxy(p)
      BY <1>1, <2>0, <2>1 DEF AskProxy, FetchTypeOK
    <3>2. HandOut(p)
      BY <2>0, <3>1 DEF GetProxy
    <3>3. PICK k \in Offsets : p = (cursor + k) % NumProxies
      BY <3>2 DEF HandOut, IsNext
    <3>4. until[p] <= now
      BY <3>3 DEF Offsets, Available
    <3>5. /\ now \in Int /\ until[p] \in Int /\ Cooldown \in Int
          /\ burnedAt[p] \in Int
      BY PoolAssumption, <2>0 DEF PoolInv, PoolTypeOK, Never
    <3>. QED BY <2>0, <3>4, <3>5 DEF PoolInv, Parked
  <2>2. CASE ~AskProxy(f)
    <3>1. ASSUME NEW g \in Fetcher, AskProxy(g) PROVE FALSE
      <4>1. PICK r : proxy' = [proxy EXCEPT ![g] = r]
        BY <3>1 DEF AskProxy
      <4>. QED BY <1>1, <2>0, <2>2, <3>1, <4>1 DEF FetchTypeOK
    <3>2. ASSUME NEW g \in Fetcher, proxy' = [proxy EXCEPT ![g] = Direct]
          PROVE  FALSE
      BY <1>1, <2>0, <3>2 DEF FetchTypeOK
    <3>3. proxy' # proxy
      BY <1>1
    <3>4. \A g \in Fetcher : ~EndFetch(g) /\ \A o : ~TierEnds(g, o)
      BY <2>0, <3>2, EndFetchStep, TierEndsStep
    <3>. QED
      BY <1>1, <3>1, <3>3, <3>4
      DEF Next, FetchStep, BrowserStep, vars, fetchVars, Begin, Retry, HttpEnds,
          FindBrowser, AwaitLock, LockBrowser, Launched, ContextFails, PageEnds,
          AgentEnds, AgentRaises, LaunchFails, Cancel, BrowserDies, Close,
          CloseFails, Tick
  <2>. QED BY <2>1, <2>2
<1>2. IInv /\ [Next]_vars =>
        [\A f \in Fetcher : \A p \in Proxy :
           proxy'[f] = p /\ proxy[f] # p => burnedAt[p] = Never]_vars
  BY <1>1
<1>. QED BY <1>2, IInvariant, PTL DEF Spec, BurnedStaysOut
==============================================================================
