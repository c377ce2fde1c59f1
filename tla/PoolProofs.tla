----------------------------- MODULE PoolProofs -----------------------------
(***************************************************************************)
(* Proofs about DbPool and PoolLoops, for every number of callers,         *)
(* connections, blocks, failures and loops, with cancellation and          *)
(* close_all or without.                                                   *)
(***************************************************************************)
EXTENDS PoolLoops, DistinctSeqsTheorems

(* The condition's waiters are asleep, each once.                           *)
WaitersAsleep ==
  Distinct(waiters) /\ \A c \in Elements(waiters) : at[c] = "waiting"

IInv == TypeOK /\ WaitersAsleep /\ Isolated /\ SlotsAccounted /\ NoLostWakeup

Awake == InState("notified")
HasSlot == {"creating", "using", "check_in"}

LEMMA CountedDef == Counted = {c \in Caller : at[c] \in HasSlot}
BY DEF Counted, InState, HasSlot

LEMMA FiniteSets ==
  /\ IsFiniteSet(Counted) /\ Cardinality(Counted) \in Nat
  /\ IsFiniteSet(Awake) /\ Cardinality(Awake) \in Nat
BY PoolAssumption, FS_Subset, FS_CardinalityType DEF Counted, InState, Awake

(* What notify() does to the callers: one that slept is awake, the others   *)
(* stay where they are.                                                     *)
LEMMA NotifyFrame ==
  ASSUME TypeOK, WaitersAsleep, NEW c \in Caller, at[c] # "waiting",
         NEW to \in CallerState \ {"waiting", "notified"}, NotifyAnd(c, to)
  PROVE  /\ at' \in [Caller -> CallerState] /\ waiters' \in Seq(Caller)
         /\ WaitersAsleep' /\ at'[c] = to
         /\ \A d \in Caller \ {c} :
              at'[d] = at[d] \/ (at[d] = "waiting" /\ at'[d] = "notified")
         /\ waiters' # <<>> => waiters # <<>>
         /\ waiters # <<>> => \E h \in Caller \ {c} :
              at[h] = "waiting" /\ Awake' = (Awake \ {c}) \cup {h}
<1>1. CASE waiters = <<>>
  BY <1>1 DEF NotifyAnd, Goto, TypeOK, WaitersAsleep, Distinct, Elements
<1>2. CASE waiters # <<>>
  <2> DEFINE h == Head(waiters)
  <2>1. /\ waiters' = Tail(waiters)
        /\ at' = [at EXCEPT ![c] = to, ![h] = "notified"]
    BY <1>2 DEF NotifyAnd
  <2>2. /\ Tail(waiters) \in Seq(Caller) /\ Distinct(Tail(waiters))
        /\ h \in Elements(waiters) /\ h \in Caller
        /\ Elements(Tail(waiters)) = Elements(waiters) \ {h}
    BY <1>2, DistinctTail DEF TypeOK, WaitersAsleep
  <2>3. at[h] = "waiting" /\ h # c
    BY <2>2 DEF WaitersAsleep
  <2> HIDE DEF h
  <2>4. /\ at' \in [Caller -> CallerState] /\ at'[c] = to /\ at'[h] = "notified"
        /\ \A d \in Caller \ {c, h} : at'[d] = at[d]
    BY <2>1, <2>2, <2>3 DEF TypeOK, CallerState
  <2>5. WaitersAsleep'
    <3>1. c \notin Elements(waiters) /\ Elements(waiters) \subseteq Caller
      BY ElementsType DEF WaitersAsleep, TypeOK
    <3>2. Distinct(waiters') /\ Elements(waiters') = Elements(waiters) \ {h}
      BY <2>1, <2>2
    <3>3. \A d \in Elements(waiters') : at'[d] = "waiting"
      BY <2>4, <3>1, <3>2 DEF WaitersAsleep
    <3>. QED BY <3>2, <3>3 DEF WaitersAsleep, Distinct, Elements
  <2>6. Awake' = (Awake \ {c}) \cup {h}
    BY <2>2, <2>3, <2>4 DEF Awake, InState
  <2>. QED BY <1>2, <2>1, <2>2, <2>3, <2>4, <2>5, <2>6
<1>. QED BY <1>1, <1>2

(* The callers with a slot, when one gets or loses it, and when none does.  *)
LEMMA CountedSame ==
  ASSUME \A d \in Caller : at'[d] \in HasSlot <=> at[d] \in HasSlot
  PROVE  Counted' = Counted /\ Cardinality(Counted') = Cardinality(Counted)
BY CountedDef DEF Counted, InState, HasSlot

LEMMA CountedGains ==
  ASSUME NEW c \in Caller, at[c] \notin HasSlot, at'[c] \in HasSlot,
         \A d \in Caller \ {c} : at'[d] \in HasSlot <=> at[d] \in HasSlot
  PROVE  Cardinality(Counted') = Cardinality(Counted) + 1
<1>1. Counted' = Counted \cup {c} /\ c \notin Counted
  BY DEF Counted, InState, HasSlot
<1>. QED BY <1>1, FiniteSets, FS_AddElement

LEMMA CountedLoses ==
  ASSUME NEW c \in Caller, at[c] \in HasSlot, at'[c] \notin HasSlot,
         \A d \in Caller \ {c} : at'[d] \in HasSlot <=> at[d] \in HasSlot
  PROVE  /\ Cardinality(Counted') = Cardinality(Counted) - 1
         /\ Cardinality(Counted) >= 1
<1>1. Counted' = Counted \ {c} /\ c \in Counted
  BY DEF Counted, InState, HasSlot
<1>2. Cardinality(Counted) # 0
  BY <1>1, FiniteSets, FS_EmptySet
<1>3. Cardinality(Counted \ {c}) = Cardinality(Counted) - 1
  BY <1>1, FiniteSets, FS_RemoveElement
<1>. QED BY <1>1, <1>2, <1>3, FiniteSets

-----------------------------------------------------------------------------
(* The steps, by what they do to idle connections, slots and waiters.       *)
LeavesSlots ==
  UNCHANGED <<idle, total, leaked>>

LEMMA SlotsStep ==
  ASSUME TypeOK, WaitersAsleep, SlotsAccounted, [Next]_vars
  PROVE  SlotsAccounted' /\ total' \in 0..MaxPerPath /\ leaked' \in 0..MaxPerPath
<1> DEFINE Goal ==
      SlotsAccounted' /\ total' \in 0..MaxPerPath /\ leaked' \in 0..MaxPerPath
<1>0. /\ MaxPerPath \in Nat /\ Len(idle) \in Nat /\ Cardinality(Counted) \in Nat
      /\ total \in 0..MaxPerPath /\ leaked \in 0..MaxPerPath
      /\ total = Len(idle) + Cardinality(Counted) + leaked
  BY PoolAssumption, FiniteSets DEF TypeOK, SlotsAccounted
<1>1. ASSUME LeavesSlots,
             \A d \in Caller : at'[d] \in HasSlot <=> at[d] \in HasSlot
      PROVE  Goal
  BY <1>0, <1>1, CountedSame DEF LeavesSlots, SlotsAccounted
<1>2. ASSUME NEW c \in Caller, TakeIdle(c) PROVE Goal
  <2>1. Len(idle') = Len(idle) - 1 /\ UNCHANGED <<total, leaked>>
    BY <1>2, HeadTailProperties DEF TakeIdle, TypeOK
  <2>2. Cardinality(Counted') = Cardinality(Counted) + 1
    BY <1>2, CountedGains DEF TakeIdle, MayTry, Goto, HasSlot, TypeOK
  <2>. QED BY <1>0, <2>1, <2>2 DEF SlotsAccounted
<1>3. ASSUME NEW c \in Caller, Reserve(c) PROVE Goal
  <2>1. Cardinality(Counted') = Cardinality(Counted) + 1
    BY <1>3, CountedGains DEF Reserve, MayTry, Goto, HasSlot, TypeOK
  <2>. QED BY <1>0, <1>3, <2>1 DEF Reserve, SlotsAccounted
<1>4. ASSUME NEW c \in Caller, Wait(c) PROVE Goal
  BY <1>1, <1>4 DEF Wait, MayTry, Goto, HasSlot, TypeOK, LeavesSlots
<1>5. ASSUME NEW c \in Caller, NEW k \in Conn, Create(c, k) PROVE Goal
  BY <1>1, <1>5 DEF Create, Goto, HasSlot, TypeOK, LeavesSlots
<1>6. ASSUME NEW c \in Caller, CreateFails(c) PROVE Goal
  <2>1. /\ at'[c] = "out" /\ \A d \in Caller \ {c} :
             at'[d] = at[d] \/ (at[d] = "waiting" /\ at'[d] = "notified")
    BY <1>6, NotifyFrame DEF CreateFails, CallerState
  <2>2. /\ Cardinality(Counted') = Cardinality(Counted) - 1
        /\ Cardinality(Counted) >= 1
    BY <1>6, <2>1, CountedLoses DEF CreateFails, HasSlot
  <2>. QED BY <1>0, <1>6, <2>2 DEF CreateFails, SlotsAccounted
<1>7. ASSUME NEW c \in Caller, Write(c) \/ Commit(c) PROVE Goal
  BY <1>1, <1>7 DEF Write, Commit, LeavesSlots
<1>8. ASSUME NEW c \in Caller, LeaveBlock(c) \/ Closed(c) PROVE Goal
  BY <1>1, <1>8 DEF LeaveBlock, Closed, Goto, HasSlot, TypeOK, LeavesSlots
<1>9. ASSUME NEW c \in Caller, CheckIn(c) PROVE Goal
  <2>1. /\ at'[c] = "out" /\ \A d \in Caller \ {c} :
             at'[d] = at[d] \/ (at[d] = "waiting" /\ at'[d] = "notified")
    BY <1>9, NotifyFrame DEF CheckIn, CallerState
  <2>2. Cardinality(Counted') = Cardinality(Counted) - 1
    BY <1>9, <2>1, CountedLoses DEF CheckIn, HasSlot
  <2>3. Len(idle') = Len(idle) + 1 /\ UNCHANGED <<total, leaked>>
    BY <1>9 DEF CheckIn, TypeOK
  <2>. QED BY <1>0, <2>2, <2>3 DEF SlotsAccounted
<1>10. ASSUME NEW c \in Caller, Discard(c) PROVE Goal
  <2>1. /\ at'[c] = "closing" /\ \A d \in Caller \ {c} :
             at'[d] = at[d] \/ (at[d] = "waiting" /\ at'[d] = "notified")
    BY <1>10, NotifyFrame DEF Discard, CallerState
  <2>2. /\ Cardinality(Counted') = Cardinality(Counted) - 1
        /\ Cardinality(Counted) >= 1
    BY <1>10, <2>1, CountedLoses DEF Discard, HasSlot
  <2>. QED BY <1>0, <1>10, <2>2 DEF Discard, SlotsAccounted
<1>11. ASSUME NEW c \in Caller, CancelledWaiting(c) PROVE Goal
  BY <1>1, <1>11 DEF CancelledWaiting, Goto, HasSlot, TypeOK, LeavesSlots
<1>12. ASSUME NEW c \in Caller, CancelledNotified(c) PROVE Goal
  <2>1. CASE NotifyAnd(c, "out")
    <3>1. /\ at'[c] = "out" /\ \A d \in Caller \ {c} :
               at'[d] = at[d] \/ (at[d] = "waiting" /\ at'[d] = "notified")
      BY <1>12, <2>1, NotifyFrame DEF CancelledNotified, CallerState
    <3>. QED
      BY <1>1, <1>12, <3>1 DEF CancelledNotified, HasSlot, TypeOK, LeavesSlots
  <2>2. CASE Goto(c, "out")
    BY <1>1, <1>12, <2>2
    DEF CancelledNotified, Goto, HasSlot, TypeOK, LeavesSlots
  <2>. QED BY <1>12, <2>1, <2>2 DEF CancelledNotified
<1>13. ASSUME NEW c \in Caller, CancelledCheckIn(c) PROVE Goal
  <2>1. /\ Cardinality(Counted') = Cardinality(Counted) - 1
        /\ Cardinality(Counted) >= 1
    BY <1>13, CountedLoses DEF CancelledCheckIn, Goto, HasSlot, TypeOK
  <2>. QED BY <1>0, <1>13, <2>1 DEF CancelledCheckIn, SlotsAccounted
<1>14. CASE CloseAll
  <2>1. Cardinality(Counted') = Cardinality(Counted)
    BY <1>14, CountedSame DEF CloseAll
  <2>2. Len(idle') = 0
    BY <1>14 DEF CloseAll
  <2>. QED BY <1>0, <1>14, <2>1, <2>2 DEF CloseAll, SlotsAccounted
<1>15. CASE UNCHANGED vars
  BY <1>1, <1>15 DEF vars, LeavesSlots
<1>. QED
  BY <1>2, <1>3, <1>4, <1>5, <1>6, <1>7, <1>8, <1>9, <1>10, <1>11, <1>12,
     <1>13, <1>14, <1>15
  DEF Next, CallerStep, Terminated

-----------------------------------------------------------------------------
(* What a step leaves of the types.                                         *)
LEMMA Holder ==
  ASSUME TypeOK, Isolated, NEW c \in Caller,
         at[c] \in {"using", "check_in", "closing"}
  PROVE  conn[c] \in Conn
BY DEF TypeOK, Isolated, Holding, InState

LEMMA TypeStep ==
  ASSUME TypeOK, WaitersAsleep, Isolated, SlotsAccounted, [Next]_vars
  PROVE  TypeOK'
<1> DEFINE Rest ==
      /\ at' \in [Caller -> CallerState]
      /\ conn' \in [Caller -> Conn \cup {None}]
      /\ idle' \in Seq(Conn) /\ waiters' \in Seq(Caller) /\ open' \subseteq Conn
      /\ dropped' \in BOOLEAN /\ blocks' \in 0..MaxBlocks
      /\ failures' \in 0..MaxFailures /\ lost' \in Nat
<1>0. MaxBlocks \in Nat /\ MaxFailures \in Nat
  BY PoolAssumption
<1>1. ASSUME NEW c \in Caller, MayTry(c), CountBlock(c)
      PROVE  blocks' \in 0..MaxBlocks
  BY <1>0, <1>1 DEF MayTry, CountBlock, TypeOK
<1>2. ASSUME NEW c \in Caller, TakeIdle(c) PROVE Rest
  <2>1. Head(idle) \in Conn /\ Tail(idle) \in Seq(Conn)
    BY <1>2, HeadTailProperties DEF TakeIdle, TypeOK
  <2>. QED BY <1>1, <1>2, <2>1 DEF TakeIdle, Goto, TypeOK, CallerState
<1>3. ASSUME NEW c \in Caller, Reserve(c) PROVE Rest
  BY <1>1, <1>3 DEF Reserve, Goto, TypeOK, CallerState
<1>4. ASSUME NEW c \in Caller, Wait(c) PROVE Rest
  BY <1>1, <1>4 DEF Wait, Goto, TypeOK, CallerState
<1>5. ASSUME NEW c \in Caller, NEW k \in Conn, Create(c, k) PROVE Rest
  BY <1>5 DEF Create, Goto, TypeOK, CallerState
<1>6. ASSUME NEW c \in Caller, CreateFails(c) PROVE Rest
  <2>1. at' \in [Caller -> CallerState] /\ waiters' \in Seq(Caller)
    BY <1>6, NotifyFrame DEF CreateFails, CallerState
  <2>. QED BY <1>0, <1>6, <2>1 DEF CreateFails, TypeOK
<1>7. ASSUME NEW c \in Caller, Write(c) \/ Commit(c) PROVE Rest
  BY <1>7, Holder DEF Write, Commit, TypeOK
<1>8. ASSUME NEW c \in Caller, LeaveBlock(c) \/ Closed(c) PROVE Rest
  BY <1>8 DEF LeaveBlock, Closed, Goto, TypeOK, CallerState
<1>9. ASSUME NEW c \in Caller, CheckIn(c) PROVE Rest
  <2>1. at' \in [Caller -> CallerState] /\ waiters' \in Seq(Caller)
    BY <1>9, NotifyFrame DEF CheckIn, CallerState
  <2>2. conn[c] \in Conn
    BY <1>9, Holder DEF CheckIn
  <2>3. idle' \in Seq(Conn)
    BY <1>9, <2>2, AppendProperties DEF CheckIn, TypeOK
  <2>. QED BY <1>9, <2>1, <2>3 DEF CheckIn, TypeOK
<1>10. ASSUME NEW c \in Caller, Discard(c) PROVE Rest
  <2>1. at' \in [Caller -> CallerState] /\ waiters' \in Seq(Caller)
    BY <1>10, NotifyFrame DEF Discard, CallerState
  <2>. QED BY <1>0, <1>10, <2>1 DEF Discard, TypeOK
<1>11. ASSUME NEW c \in Caller, CancelledWaiting(c) PROVE Rest
  <2>1. waiters' \in Seq(Caller)
    BY <1>11, DistinctWithout DEF CancelledWaiting, TypeOK, WaitersAsleep
  <2>. QED BY <1>11, <2>1 DEF CancelledWaiting, Goto, TypeOK, CallerState
<1>12. ASSUME NEW c \in Caller, CancelledNotified(c) PROVE Rest
  <2>1. CASE NotifyAnd(c, "out") /\ UNCHANGED lost
    <3>1. at' \in [Caller -> CallerState] /\ waiters' \in Seq(Caller)
      BY <1>12, <2>1, NotifyFrame DEF CancelledNotified, CallerState
    <3>. QED BY <1>12, <2>1, <3>1 DEF CancelledNotified, TypeOK
  <2>2. CASE Goto(c, "out") /\ UNCHANGED waiters /\ lost' = lost + 1
    BY <1>12, <2>2 DEF CancelledNotified, Goto, TypeOK, CallerState
  <2>. QED BY <1>12, <2>1, <2>2 DEF CancelledNotified
<1>13. ASSUME NEW c \in Caller, CancelledCheckIn(c) PROVE Rest
  BY <1>13 DEF CancelledCheckIn, Goto, TypeOK, CallerState
<1>14. ASSUME CloseAll PROVE Rest
  BY <1>14 DEF CloseAll, TypeOK
<1>15. ASSUME UNCHANGED vars PROVE Rest
  BY <1>15 DEF vars, TypeOK
<1>16. Rest
  BY <1>2, <1>3, <1>4, <1>5, <1>6, <1>7, <1>8, <1>9, <1>10, <1>11, <1>12,
     <1>13, <1>14, <1>15
  DEF Next, CallerStep, Terminated
<1>. QED BY <1>16, SlotsStep DEF TypeOK

(* Only sleeping callers wait: nobody leaves "waiting" but by notify() and  *)
(* by a cancellation, which both take the caller out of the queue.          *)
LEMMA WaitersStep ==
  ASSUME TypeOK, WaitersAsleep, [Next]_vars
  PROVE  WaitersAsleep'
<1>1. ASSUME NEW c \in Caller, at[c] # "waiting", UNCHANGED waiters,
             \A d \in Caller \ {c} : at'[d] = at[d]
      PROVE  WaitersAsleep'
  BY <1>1, ElementsType DEF WaitersAsleep, TypeOK, Distinct, Elements
<1>2. ASSUME UNCHANGED <<at, waiters>> PROVE WaitersAsleep'
  BY <1>2 DEF WaitersAsleep, Distinct, Elements
<1>3. ASSUME NEW c \in Caller, Wait(c) PROVE WaitersAsleep'
  <2>1. c \notin Elements(waiters)
    BY <1>3 DEF Wait, MayTry, WaitersAsleep
  <2>2. Distinct(waiters') /\ Elements(waiters') = Elements(waiters) \cup {c}
    BY <1>3, <2>1, DistinctAppend DEF Wait, WaitersAsleep, TypeOK
  <2>3. \A d \in Elements(waiters') : at'[d] = "waiting"
    BY <1>3, <2>2, ElementsType DEF Wait, Goto, WaitersAsleep, TypeOK
  <2>. QED BY <2>2, <2>3 DEF WaitersAsleep, Distinct, Elements
<1>4. ASSUME NEW c \in Caller, CancelledWaiting(c) PROVE WaitersAsleep'
  <2>0. PICK k \in 1..Len(waiters) :
          waiters[k] = c /\ waiters' = Without(waiters, k)
    BY <1>4 DEF CancelledWaiting
  <2>1. Distinct(waiters') /\ Elements(waiters') = Elements(waiters) \ {c}
    BY <2>0, DistinctWithout DEF WaitersAsleep, TypeOK
  <2>2. \A d \in Elements(waiters') : at'[d] = "waiting"
    BY <1>4, <2>1, ElementsType
    DEF CancelledWaiting, Goto, WaitersAsleep, TypeOK
  <2>. QED BY <2>1, <2>2 DEF WaitersAsleep, Distinct, Elements
<1>5. ASSUME NEW c \in Caller, CreateFails(c) \/ CheckIn(c) \/ Discard(c)
      PROVE  WaitersAsleep'
  BY <1>5, NotifyFrame DEF CreateFails, CheckIn, Discard, CallerState
<1>6. ASSUME NEW c \in Caller, CancelledNotified(c) PROVE WaitersAsleep'
  <2>1. CASE NotifyAnd(c, "out")
    BY <1>6, <2>1, NotifyFrame DEF CancelledNotified, CallerState
  <2>2. CASE Goto(c, "out") /\ UNCHANGED waiters
    BY <1>1, <1>6, <2>2 DEF CancelledNotified, Goto, TypeOK
  <2>. QED BY <1>6, <2>1, <2>2 DEF CancelledNotified
<1>7. ASSUME NEW c \in Caller, TakeIdle(c) \/ Reserve(c) PROVE WaitersAsleep'
  BY <1>1, <1>7 DEF TakeIdle, Reserve, MayTry, Goto, TypeOK
<1>8. ASSUME NEW c \in Caller, \E k \in Conn : Create(c, k)
      PROVE  WaitersAsleep'
  BY <1>1, <1>8 DEF Create, Goto, TypeOK
<1>9. ASSUME NEW c \in Caller,
             LeaveBlock(c) \/ Closed(c) \/ CancelledCheckIn(c)
      PROVE  WaitersAsleep'
  BY <1>1, <1>9 DEF LeaveBlock, Closed, CancelledCheckIn, Goto, TypeOK
<1>10. ASSUME NEW c \in Caller, Write(c) \/ Commit(c) PROVE WaitersAsleep'
  BY <1>2, <1>10 DEF Write, Commit
<1>11. ASSUME CloseAll \/ UNCHANGED vars PROVE WaitersAsleep'
  BY <1>2, <1>11 DEF CloseAll, vars
<1>. QED
  BY <1>3, <1>4, <1>5, <1>6, <1>7, <1>8, <1>9, <1>10, <1>11
  DEF Next, CallerStep, Terminated

-----------------------------------------------------------------------------
(* Isolation, said by the callers.                                          *)
HoldState == {"using", "check_in", "closing"}

Iso ==
  /\ \A c \in Caller : conn[c] # None <=> at[c] \in HoldState
  /\ \A c, d \in Caller : conn[c] # None /\ conn[c] = conn[d] => c = d
  /\ \A c \in Caller : conn[c] # None => conn[c] \notin IdleConns
  /\ Distinct(idle)
  /\ open \cap IdleConns = {}

LEMMA IsoDef ==
  ASSUME TypeOK
  PROVE  Isolated <=> Iso
<1>1. Holding = {c \in Caller : at[c] \in HoldState}
  BY DEF Holding, InState, HoldState
<1>2. None \notin IdleConns
  BY PoolAssumption, ElementsType DEF TypeOK, IdleConns
<1>3. (IdleConns \cap HeldConns = {}) <=>
        \A c \in Caller : conn[c] # None => conn[c] \notin IdleConns
  BY DEF HeldConns
<1>4. ASSUME Isolated PROVE Iso
  BY <1>1, <1>3, <1>4 DEF Isolated, Iso
<1>5. ASSUME Iso PROVE Isolated
  BY <1>1, <1>3, <1>5 DEF Isolated, Iso
<1>. QED BY <1>4, <1>5

LEMMA IsoStep ==
  ASSUME TypeOK, WaitersAsleep, Iso, [Next]_vars
  PROVE  Iso'
<1>0. IdleConns \subseteq Conn /\ None \notin Conn
  BY PoolAssumption, ElementsType DEF TypeOK, IdleConns
<1>1. ASSUME UNCHANGED <<conn, idle>>, open' \cap IdleConns = {},
             \A c \in Caller : at'[c] \in HoldState <=> at[c] \in HoldState
      PROVE  Iso'
  BY <1>1 DEF Iso, IdleConns
<1>2. ASSUME NEW c \in Caller, TakeIdle(c) PROVE Iso'
  <2>1. /\ Distinct(idle') /\ IdleConns' = IdleConns \ {Head(idle)}
        /\ Head(idle) \in IdleConns
    BY <1>2, DistinctTail DEF TakeIdle, Iso, TypeOK, IdleConns
  <2>2. /\ at[c] \notin HoldState /\ at'[c] \in HoldState
        /\ conn'[c] = Head(idle) /\ UNCHANGED open
        /\ \A d \in Caller \ {c} : conn'[d] = conn[d] /\ at'[d] = at[d]
    BY <1>2 DEF TakeIdle, MayTry, Goto, TypeOK, HoldState
  <2>. QED BY <1>0, <2>1, <2>2 DEF Iso
<1>3. ASSUME NEW c \in Caller, Reserve(c) \/ Wait(c) PROVE Iso'
  BY <1>1, <1>3 DEF Reserve, Wait, MayTry, Goto, TypeOK, HoldState, Iso
<1>4. ASSUME NEW c \in Caller, NEW k \in Conn, Create(c, k) PROVE Iso'
  <2>1. /\ at[c] \notin HoldState /\ at'[c] \in HoldState
        /\ conn'[c] = k /\ k \notin IdleConns \cup HeldConns
        /\ UNCHANGED <<open, idle>>
        /\ \A d \in Caller \ {c} : conn'[d] = conn[d] /\ at'[d] = at[d]
    BY <1>4 DEF Create, Goto, TypeOK, HoldState
  <2>2. \A d \in Caller : conn[d] # k
    BY <1>0, <2>1 DEF HeldConns
  <2>. QED BY <1>0, <2>1, <2>2 DEF Iso, IdleConns
<1>5. ASSUME NEW c \in Caller, CreateFails(c) \/ Discard(c) PROVE Iso'
  <2>1. \A d \in Caller : at'[d] \in HoldState <=> at[d] \in HoldState
    BY <1>5, NotifyFrame DEF CreateFails, Discard, CallerState, HoldState
  <2>. QED BY <1>1, <1>5, <2>1 DEF CreateFails, Discard, Iso
<1>6. ASSUME NEW c \in Caller, Write(c) \/ Commit(c) PROVE Iso'
  BY <1>1, <1>6 DEF Write, Commit, Iso, HoldState
<1>7. ASSUME NEW c \in Caller, LeaveBlock(c) PROVE Iso'
  BY <1>1, <1>7 DEF LeaveBlock, Goto, TypeOK, HoldState, Iso
<1>8. ASSUME NEW c \in Caller, CheckIn(c) PROVE Iso'
  <2>1. /\ at'[c] = "out"
        /\ \A d \in Caller \ {c} : at'[d] \in HoldState <=> at[d] \in HoldState
    BY <1>8, NotifyFrame DEF CheckIn, CallerState, HoldState
  <2>2. conn[c] \in Conn /\ conn[c] \notin IdleConns
    BY <1>8 DEF CheckIn, Iso, HoldState, TypeOK
  <2>3. Distinct(idle') /\ IdleConns' = IdleConns \cup {conn[c]}
    BY <1>8, <2>2, DistinctAppend DEF CheckIn, Iso, TypeOK, IdleConns
  <2>4. /\ conn'[c] = None /\ open' = open \ {conn[c]}
        /\ \A d \in Caller \ {c} : conn'[d] = conn[d]
    BY <1>8 DEF CheckIn, TypeOK
  <2>. QED BY <2>1, <2>2, <2>3, <2>4 DEF Iso, HoldState
<1>9. ASSUME NEW c \in Caller, Closed(c) \/ CancelledCheckIn(c) PROVE Iso'
  <2>1. /\ at'[c] = "out" /\ conn'[c] = None /\ open' = open \ {conn[c]}
        /\ UNCHANGED idle
        /\ \A d \in Caller \ {c} : conn'[d] = conn[d] /\ at'[d] = at[d]
    BY <1>9 DEF Closed, CancelledCheckIn, Goto, TypeOK
  <2>. QED BY <2>1 DEF Iso, HoldState, IdleConns
<1>10. ASSUME NEW c \in Caller, CancelledWaiting(c) PROVE Iso'
  BY <1>1, <1>10 DEF CancelledWaiting, Goto, TypeOK, HoldState, Iso
<1>11. ASSUME NEW c \in Caller, CancelledNotified(c) PROVE Iso'
  <2>1. CASE NotifyAnd(c, "out")
    <3>1. \A d \in Caller : at'[d] \in HoldState <=> at[d] \in HoldState
      BY <1>11, <2>1, NotifyFrame DEF CancelledNotified, CallerState, HoldState
    <3>. QED BY <1>1, <1>11, <3>1 DEF CancelledNotified, Iso
  <2>2. CASE Goto(c, "out")
    BY <1>1, <1>11, <2>2 DEF CancelledNotified, Goto, TypeOK, HoldState, Iso
  <2>. QED BY <1>11, <2>1, <2>2 DEF CancelledNotified
<1>12. CASE CloseAll
  BY <1>12, DistinctEmpty DEF CloseAll, Iso, IdleConns
<1>13. CASE UNCHANGED vars
  BY <1>1, <1>13 DEF vars, Iso, HoldState
<1>. QED
  BY <1>2, <1>3, <1>4, <1>5, <1>6, <1>7, <1>8, <1>9, <1>10, <1>11, <1>12,
     <1>13
  DEF Next, CallerStep, Terminated

-----------------------------------------------------------------------------
(* Whoever makes room wakes somebody, and whoever was woken takes the room. *)
Room == Len(idle) + (MaxPerPath - total)

LEMMA AwakeSame ==
  ASSUME \A d \in Caller : at'[d] = "notified" <=> at[d] = "notified"
  PROVE  Cardinality(Awake') = Cardinality(Awake)
<1>1. Awake' = Awake
  BY DEF Awake, InState
<1>. QED BY <1>1

LEMMA AwakeLoses ==
  ASSUME NEW c \in Caller, at[c] = "notified", at'[c] # "notified",
         \A d \in Caller \ {c} : at'[d] = "notified" <=> at[d] = "notified"
  PROVE  Cardinality(Awake') = Cardinality(Awake) - 1
<1>1. Awake' = Awake \ {c} /\ c \in Awake
  BY DEF Awake, InState
<1>. QED BY <1>1, FiniteSets, FS_RemoveElement

(* notify() with somebody asleep: one more awake, or the same number when   *)
(* the caller that notifies was awake itself.                               *)
LEMMA AwakeNotify ==
  ASSUME NEW c \in Caller, NEW h \in Caller \ {c}, at[h] = "waiting",
         Awake' = (Awake \ {c}) \cup {h}
  PROVE  Cardinality(Awake') =
           IF at[c] = "notified" THEN Cardinality(Awake)
           ELSE Cardinality(Awake) + 1
<1>1. h \notin Awake \ {c} /\ (c \in Awake <=> at[c] = "notified")
  BY DEF Awake, InState
<1>2. /\ IsFiniteSet(Awake \ {c})
      /\ Cardinality(Awake \ {c}) =
           IF c \in Awake THEN Cardinality(Awake) - 1 ELSE Cardinality(Awake)
  BY FiniteSets, FS_RemoveElement
<1>3. Cardinality(Awake') = Cardinality(Awake \ {c}) + 1
  BY <1>1, <1>2, FS_AddElement
<1>. QED BY <1>1, <1>2, <1>3, FiniteSets

LEMMA WakeupStep ==
  ASSUME TypeOK, WaitersAsleep, NoLostWakeup, [Next]_vars,
         TypeOK', Cardinality(Awake') \in Nat
  PROVE  NoLostWakeup'
<1>0. /\ MaxPerPath \in Nat /\ Len(idle) \in Nat /\ Cardinality(Awake) \in Nat
      /\ total \in 0..MaxPerPath /\ lost \in Nat /\ Room \in Int /\ Room' \in Int
      /\ lost' \in Nat
  BY PoolAssumption, FiniteSets DEF TypeOK, Room
<1>1. ASSUME waiters' # <<>> => waiters # <<>>,
             Room' - Room <=
               (Cardinality(Awake') + lost') - (Cardinality(Awake) + lost)
      PROVE  NoLostWakeup'
  BY <1>0, <1>1 DEF NoLostWakeup, Room, Awake
<1>2. ASSUME UNCHANGED <<idle, total, lost>>, waiters' # <<>> => waiters # <<>>,
             \A d \in Caller : at'[d] = "notified" <=> at[d] = "notified"
      PROVE  NoLostWakeup'
  <2>1. Room' = Room + 0
        /\ Cardinality(Awake') + lost' = Cardinality(Awake) + lost + 0
    BY <1>0, <1>2, AwakeSame DEF Room
  <2>. QED BY <1>0, <1>1, <1>2, <2>1
<1>3. ASSUME NEW c \in Caller, TakeIdle(c) \/ Reserve(c) PROVE NoLostWakeup'
  <2>1. Room' = Room + (-1) /\ UNCHANGED <<waiters, lost>>
    <3>1. CASE TakeIdle(c)
      <4>1. Len(idle') = Len(idle) - 1 /\ UNCHANGED <<total, waiters, lost>>
        BY <3>1, HeadTailProperties DEF TakeIdle, TypeOK
      <4>. QED BY <1>0, <4>1 DEF Room
    <3>2. CASE Reserve(c)
      BY <1>0, <3>2 DEF Reserve, Room
    <3>. QED BY <1>3, <3>1, <3>2
  <2>2. /\ at'[c] # "notified" /\ at[c] \in {"out", "notified"}
        /\ \A d \in Caller \ {c} : at'[d] = at[d]
    BY <1>3 DEF TakeIdle, Reserve, MayTry, Goto, TypeOK
  <2>3. CASE at[c] = "out"
    <3>1. Cardinality(Awake') = Cardinality(Awake)
      BY <2>2, <2>3, AwakeSame
    <3>2. Cardinality(Awake') + lost' = Cardinality(Awake) + lost + 0
      BY <1>0, <2>1, <3>1
    <3>. QED BY <1>0, <1>1, <2>1, <3>2
  <2>4. CASE at[c] = "notified"
    <3>1. Cardinality(Awake') = Cardinality(Awake) - 1
      BY <2>2, <2>4, AwakeLoses
    <3>2. Cardinality(Awake') + lost' = Cardinality(Awake) + lost + (-1)
      BY <1>0, <2>1, <3>1
    <3>. QED BY <1>0, <1>1, <2>1, <3>2
  <2>. QED BY <2>2, <2>3, <2>4
<1>4. ASSUME NEW c \in Caller, Wait(c) PROVE NoLostWakeup'
  <2>1. Room' <= 0 /\ UNCHANGED lost
    BY <1>0, <1>4 DEF Wait, Room
  <2>. QED BY <1>0, <2>1 DEF NoLostWakeup, Room, Awake
<1>5. ASSUME NEW c \in Caller, CreateFails(c) \/ CheckIn(c) \/ Discard(c)
      PROVE  NoLostWakeup'
  <2>1. PICK to \in {"out", "closing"} : NotifyAnd(c, to)
    BY <1>5 DEF CreateFails, CheckIn, Discard
  <2>2. Room' = Room + 1 /\ UNCHANGED lost
    <3>1. CASE CheckIn(c)
      <4>1. Len(idle') = Len(idle) + 1 /\ UNCHANGED <<total, lost>>
        BY <3>1 DEF CheckIn, TypeOK
      <4>. QED BY <1>0, <4>1 DEF Room
    <3>2. CASE CreateFails(c) \/ Discard(c)
      BY <1>0, <3>2 DEF CreateFails, Discard, Room
    <3>. QED BY <1>5, <3>1, <3>2
  <2>3. at[c] \in {"creating", "check_in"}
    BY <1>5 DEF CreateFails, CheckIn, Discard
  <2>4. /\ waiters' # <<>> => waiters # <<>>
        /\ waiters # <<>> => \E h \in Caller \ {c} :
              at[h] = "waiting" /\ Awake' = (Awake \ {c}) \cup {h}
    BY <2>1, <2>3, NotifyFrame DEF CallerState
  <2>5. ASSUME waiters' # <<>> PROVE NoLostWakeup'
    <3>1. PICK h \in Caller \ {c} :
            at[h] = "waiting" /\ Awake' = (Awake \ {c}) \cup {h}
      BY <2>4, <2>5
    <3>2. Cardinality(Awake') = Cardinality(Awake) + 1
      BY <2>3, <3>1, AwakeNotify
    <3>3. Cardinality(Awake') + lost' = Cardinality(Awake) + lost + 1
      BY <1>0, <2>2, <3>2
    <3>. QED BY <1>0, <1>1, <2>2, <2>4, <3>3
  <2>. QED BY <2>5 DEF NoLostWakeup
<1>6. ASSUME NEW c \in Caller, CancelledNotified(c) PROVE NoLostWakeup'
  <2>1. CASE NotifyAnd(c, "out") /\ UNCHANGED lost
    <3>1. Room' = Room + 0 /\ at[c] = "notified"
      BY <1>0, <1>6 DEF CancelledNotified, Room
    <3>2. /\ waiters' # <<>> => waiters # <<>>
          /\ waiters # <<>> => \E h \in Caller \ {c} :
                at[h] = "waiting" /\ Awake' = (Awake \ {c}) \cup {h}
      BY <2>1, <3>1, NotifyFrame DEF CallerState
    <3>3. ASSUME waiters' # <<>> PROVE NoLostWakeup'
      <4>1. PICK h \in Caller \ {c} :
              at[h] = "waiting" /\ Awake' = (Awake \ {c}) \cup {h}
        BY <3>2, <3>3
      <4>2. Cardinality(Awake') = Cardinality(Awake)
        BY <3>1, <4>1, AwakeNotify
      <4>3. Cardinality(Awake') + lost' = Cardinality(Awake) + lost + 0
        BY <1>0, <2>1, <4>2
      <4>. QED BY <1>0, <1>1, <3>1, <3>2, <4>3
    <3>. QED BY <3>3 DEF NoLostWakeup
  <2>2. CASE Goto(c, "out") /\ UNCHANGED waiters /\ lost' = lost + 1
    <3>1. Room' = Room + 0
      BY <1>0, <1>6 DEF CancelledNotified, Room
    <3>2. Cardinality(Awake') = Cardinality(Awake) - 1
      BY <1>6, <2>2, AwakeLoses DEF CancelledNotified, Goto, TypeOK
    <3>3. Cardinality(Awake') + lost' = Cardinality(Awake) + lost + 0
      BY <1>0, <2>2, <3>2
    <3>. QED BY <1>0, <1>1, <2>2, <3>1, <3>3
  <2>. QED BY <1>6, <2>1, <2>2 DEF CancelledNotified
<1>7. ASSUME NEW c \in Caller, CancelledWaiting(c) PROVE NoLostWakeup'
  <2>1. waiters # <<>>
    BY <1>7 DEF CancelledWaiting
  <2>. QED BY <1>2, <1>7, <2>1 DEF CancelledWaiting, Goto, TypeOK
<1>8. ASSUME NEW c \in Caller, NEW k \in Conn, Create(c, k)
      PROVE  NoLostWakeup'
  BY <1>2, <1>8 DEF Create, Goto, TypeOK
<1>9. ASSUME NEW c \in Caller, LeaveBlock(c) \/ Closed(c) PROVE NoLostWakeup'
  BY <1>2, <1>9 DEF LeaveBlock, Closed, Goto, TypeOK
<1>10. ASSUME NEW c \in Caller, CancelledCheckIn(c) PROVE NoLostWakeup'
  BY <1>2, <1>10 DEF CancelledCheckIn, Goto, TypeOK
<1>11. ASSUME NEW c \in Caller, Write(c) \/ Commit(c) PROVE NoLostWakeup'
  BY <1>2, <1>11 DEF Write, Commit
<1>12. CASE CloseAll
  <2>1. Room' = Room + 0 /\ UNCHANGED <<at, waiters, lost>>
    BY <1>0, <1>12 DEF CloseAll, Room
  <2>2. Cardinality(Awake') + lost' = Cardinality(Awake) + lost + 0
    BY <1>0, <2>1, AwakeSame
  <2>. QED BY <1>0, <1>1, <2>1, <2>2
<1>13. CASE UNCHANGED vars
  BY <1>2, <1>13 DEF vars
<1>. QED
  BY <1>3, <1>4, <1>5, <1>6, <1>7, <1>8, <1>9, <1>10, <1>11, <1>12, <1>13
  DEF Next, CallerStep, Terminated

-----------------------------------------------------------------------------
LEMMA InitIInv == Init => IInv
<1> SUFFICES ASSUME Init PROVE IInv
  OBVIOUS
<1>1. TypeOK
  <2>1. idle \in Seq(Conn) /\ waiters \in Seq(Caller)
    BY DEF Init
  <2>2. /\ 0 \in 0..MaxPerPath /\ 0 \in 0..MaxBlocks /\ 0 \in 0..MaxFailures
        /\ 0 \in Nat
    BY PoolAssumption
  <2>3. /\ at \in [Caller -> CallerState] /\ conn \in [Caller -> Conn \cup {None}]
        /\ blocks \in 0..MaxBlocks /\ dropped \in BOOLEAN
    BY <2>2 DEF Init, CallerState
  <2>. QED BY <2>1, <2>2, <2>3 DEF Init, TypeOK
<1>2. WaitersAsleep /\ NoLostWakeup
  BY DistinctEmpty DEF Init, WaitersAsleep, NoLostWakeup
<1>3. Isolated
  BY <1>1, IsoDef, DistinctEmpty DEF Init, Iso, IdleConns, HoldState
<1>4. SlotsAccounted
  <2>1. Counted = {}
    BY CountedDef DEF Init, HasSlot
  <2>. QED BY <2>1, FS_EmptySet DEF Init, SlotsAccounted
<1>. QED BY <1>1, <1>2, <1>3, <1>4 DEF IInv

LEMMA Primed ==
  ASSUME TypeOK'
  PROVE  (Isolated' <=> Iso') /\ Cardinality(Awake') \in Nat
<1>1. Isolated' <=> Iso'
  <2>1. Holding' = {c \in Caller : at'[c] \in HoldState}
    BY DEF Holding, InState, HoldState
  <2>2. (IdleConns' \cap HeldConns' = {}) <=>
          \A c \in Caller : conn'[c] # None => conn'[c] \notin IdleConns'
    BY DEF HeldConns
  <2>3. ASSUME Isolated' PROVE Iso'
    BY <2>1, <2>2, <2>3 DEF Isolated, Iso
  <2>4. ASSUME Iso' PROVE Isolated'
    BY <2>1, <2>2, <2>4 DEF Isolated, Iso
  <2>. QED BY <2>3, <2>4
<1>2. Cardinality(Awake') \in Nat
  BY PoolAssumption, FS_Subset, FS_CardinalityType DEF Awake, InState
<1>. QED BY <1>1, <1>2

LEMMA StepIInv == IInv /\ [Next]_vars => IInv'
<1> SUFFICES ASSUME IInv, [Next]_vars PROVE IInv'
  OBVIOUS
<1>1. TypeOK' /\ WaitersAsleep' /\ SlotsAccounted'
  BY TypeStep, WaitersStep, SlotsStep DEF IInv
<1>2. Isolated'
  BY <1>1, IsoStep, IsoDef, Primed DEF IInv
<1>3. NoLostWakeup'
  BY <1>1, WakeupStep, Primed DEF IInv
<1>. QED BY <1>1, <1>2, <1>3 DEF IInv

LEMMA IInvariant == Spec => []IInv
BY InitIInv, StepIInv, PTL DEF Spec

(* Every variable keeps its type, and _total keeps to the cap.              *)
THEOREM TypeCorrect == Spec => []TypeOK
BY IInvariant, PTL DEF IInv

(* No connection has two users, and no idle one an open transaction         *)
(* (_db.py:18-30), however many coroutines use the path and whoever of them *)
(* is cancelled.                                                            *)
THEOREM ConnectionsIsolated == Spec => []Isolated
BY IInvariant, PTL DEF IInv

(* _total is what the connections and the cancelled check-ins make it:      *)
(* acquire's test of the cap is exact.                                      *)
THEOREM SlotsAlwaysAccounted == Spec => []SlotsAccounted
BY IInvariant, PTL DEF IInv

(* release and a failed creation wake somebody for what they free; with     *)
(* nobody awake and no wake-up lost, sleepers mean a pool with no room.     *)
THEOREM NoWakeupLost == Spec => []NoLostWakeup
BY IInvariant, PTL DEF IInv

-----------------------------------------------------------------------------
(* The pool under event loops.  Every step of PoolLoops is one of the pool  *)
(* or leaves it alone.                                                      *)
StepOf(c) ==
  \/ CallerStep(c) \/ Write(c) \/ Commit(c) \/ CreateFails(c) \/ Discard(c)
  \/ CancelledWaiting(c) \/ CancelledNotified(c) \/ CancelledCheckIn(c)

LEMMA LoopsCases ==
  ASSUME [LoopsNext]_<<vars, loopVars>>
  PROVE  \/ \E c \in Caller : StepOf(c) /\ InLoop(c)
         \/ \E c \in Caller : Refused(c)
         \/ CloseAll /\ UNCHANGED loopVars
         \/ StartLoop \/ EndLoop \/ UNCHANGED <<vars, loopVars>>
BY DEF LoopsNext, LoopStep, StepOf, LoopsOver

LEMMA LoopsStepIsStep == [LoopsNext]_<<vars, loopVars>> => [Next]_vars
<1> SUFFICES ASSUME [LoopsNext]_<<vars, loopVars>> PROVE [Next]_vars
  OBVIOUS
<1>1. ASSUME NEW c \in Caller, StepOf(c) PROVE Next
  BY <1>1 DEF StepOf, Next
<1>2. ASSUME NEW c \in Caller, Refused(c) PROVE UNCHANGED vars
  BY <1>2 DEF Refused, vars
<1>3. CASE CloseAll
  BY <1>3 DEF Next
<1>4. CASE StartLoop \/ EndLoop \/ UNCHANGED <<vars, loopVars>>
  BY <1>4 DEF StartLoop, EndLoop, vars
<1>. QED BY LoopsCases, <1>1, <1>2, <1>3, <1>4

(* Whatever holds of the pool holds of it under event loops.                *)
THEOREM LoopsRefinePool == LoopsSpec => Spec
<1>1. LoopsInit => Init
  BY DEF LoopsInit
<1>. QED BY <1>1, LoopsStepIsStep, PTL DEF LoopsSpec, Spec

(* A block has a loop as long as it lasts, which is not over before it; and *)
(* who waits, or was just woken, has the condition's.                       *)
LoopsInv ==
  /\ LoopsTypeOK
  /\ \A c \in Caller : home[c] = 0 <=> at[c] = "out"
  /\ \A c \in Caller : at[c] # "out" => home[c] \in Elements(loops)
  /\ \A c \in Caller : at[c] \in {"waiting", "notified"} => home[c] = bound

(* What a caller's step does to the others: it may wake one.                *)
LEMMA StepFrame ==
  ASSUME TypeOK, WaitersAsleep, NEW c \in Caller, StepOf(c)
  PROVE  /\ at'[c] # "notified"
         /\ at'[c] = "waiting" => at[c] \in {"out", "notified"}
         /\ \A d \in Caller \ {c} :
              at'[d] = at[d] \/ (at[d] = "waiting" /\ at'[d] = "notified")
<1> DEFINE Goal ==
      /\ at'[c] # "notified"
      /\ at'[c] = "waiting" => at[c] \in {"out", "notified"}
      /\ \A d \in Caller \ {c} :
           at'[d] = at[d] \/ (at[d] = "waiting" /\ at'[d] = "notified")
<1>1. ASSUME NEW to \in CallerState \ {"waiting", "notified"}, Goto(c, to)
      PROVE  Goal
  BY <1>1 DEF Goto, TypeOK, CallerState
<1>2. ASSUME NEW to \in CallerState \ {"waiting", "notified"},
             at[c] # "waiting", NotifyAnd(c, to)
      PROVE  Goal
  BY <1>2, NotifyFrame
<1>3. CASE TakeIdle(c) \/ Reserve(c) \/ LeaveBlock(c) \/ Closed(c)
  BY <1>1, <1>3 DEF TakeIdle, Reserve, LeaveBlock, Closed, CallerState
<1>4. ASSUME NEW k \in Conn, Create(c, k) PROVE Goal
  BY <1>1, <1>4 DEF Create, CallerState
<1>5. CASE Wait(c)
  BY <1>5 DEF Wait, MayTry, Goto, TypeOK
<1>6. CASE CheckIn(c) \/ CreateFails(c) \/ Discard(c)
  BY <1>2, <1>6 DEF CheckIn, CreateFails, Discard, CallerState
<1>7. CASE Write(c) \/ Commit(c)
  BY <1>7 DEF Write, Commit
<1>8. CASE CancelledWaiting(c) \/ CancelledNotified(c) \/ CancelledCheckIn(c)
  BY <1>1, <1>2, <1>8
  DEF CancelledWaiting, CancelledNotified, CancelledCheckIn, CallerState
<1>. QED BY <1>3, <1>4, <1>5, <1>6, <1>7, <1>8 DEF StepOf, CallerStep

LEMMA RunningIsALoop ==
  ASSUME LoopsTypeOK, loops # <<>>
  PROVE  /\ Running \in Elements(loops) /\ Running \in 1..started
         /\ Running # 0
<1>1. Len(loops) \in 1..Len(loops) /\ loops \in Seq(1..started)
  BY DEF LoopsTypeOK
<1>2. started \in Nat
  BY LoopsAssumption DEF LoopsTypeOK
<1>. QED BY <1>1, <1>2 DEF Running, Elements

LEMMA ButLast ==
  ASSUME NEW S, NEW s \in Seq(S), s # <<>>
  PROVE  /\ SubSeq(s, 1, Len(s) - 1) \in Seq(S)
         /\ Elements(s) \subseteq
              Elements(SubSeq(s, 1, Len(s) - 1)) \cup {s[Len(s)]}
<1> DEFINE n == Len(s) - 1
           t == SubSeq(s, 1, n)
<1>1. n \in Nat /\ Len(s) = n + 1 /\ \A k \in 1..n : s[k] \in S
  BY LenProperties
<1> HIDE DEF n
<1>2. /\ t \in Seq(S) /\ Len(t) = IF 1 <= n THEN n - 1 + 1 ELSE 0
      /\ \A k \in 1..n - 1 + 1 : t[k] = s[1 + k - 1]
  BY <1>1, SubSeqProperties
<1> HIDE DEF t
<1>3. ASSUME NEW k \in 1..Len(s), k # Len(s)
      PROVE  k \in 1..Len(t) /\ t[k] = s[k]
  BY <1>1, <1>2, <1>3
<1>4. Elements(s) \subseteq Elements(t) \cup {s[Len(s)]}
  BY <1>3 DEF Elements
<1>. QED BY <1>2, <1>4 DEF n, t

LEMMA LoopsStep ==
  ASSUME IInv, LoopsInv, [LoopsNext]_<<vars, loopVars>>
  PROVE  LoopsInv'
<1>0. TypeOK' /\ MaxLoops \in Nat
  BY StepIInv, LoopsStepIsStep, LoopsAssumption DEF IInv
<1>1. ASSUME NEW c \in Caller, StepOf(c), InLoop(c) PROVE LoopsInv'
  <2>1. /\ at'[c] # "notified"
        /\ at'[c] = "waiting" => at[c] \in {"out", "notified"}
        /\ \A d \in Caller \ {c} :
             at'[d] = at[d] \/ (at[d] = "waiting" /\ at'[d] = "notified")
    BY <1>1, StepFrame DEF IInv
  <2>2. /\ Running \in Elements(loops) /\ Running \in 1..started
        /\ Running # 0
    BY <1>1, RunningIsALoop DEF InLoop, MayStep, LoopsInv
  <2>3. /\ home' \in [Caller -> 0..started] /\ UNCHANGED <<loops, started>>
        /\ home'[c] \in {0, Running} /\ (home'[c] = 0 <=> at'[c] = "out")
        /\ \A d \in Caller \ {c} : home'[d] = home[d]
    <3>1. \A d \in Caller : home'[d] = IF at'[d] = "out" THEN 0
                ELSE IF at[d] = "out" THEN Running ELSE home[d]
      BY <1>1 DEF InLoop
    <3>2. home[c] \in {0, Running}
      BY <1>1 DEF InLoop, MayStep
    <3>3. home' \in [Caller -> 0..started] /\ UNCHANGED <<loops, started>>
      BY <1>1, <2>2 DEF InLoop, LoopsInv, LoopsTypeOK
    <3>. QED BY <2>1, <2>2, <3>1, <3>2, <3>3 DEF LoopsInv
  <2>4. /\ bound' \in 0..started
        /\ \A d \in Caller :
             at'[d] \in {"waiting", "notified"} => home'[d] = bound'
    <3>1. CASE at'[c] = "waiting"
      <4>1. bound \in {0, Running} /\ bound' = Running
        BY <1>1, <3>1 DEF InLoop
      <4>2. home'[c] = Running
        BY <2>3, <3>1
      <4>3. ASSUME NEW d \in Caller \ {c}, at'[d] \in {"waiting", "notified"}
            PROVE  home'[d] = bound'
        <5>1. home[d] = bound /\ home[d] # 0
          BY <2>1, <4>3 DEF LoopsInv
        <5>. QED BY <2>3, <4>1, <5>1
      <4>. QED BY <2>1, <2>2, <4>1, <4>2, <4>3
    <3>2. CASE at'[c] # "waiting"
      <4>1. UNCHANGED bound
        BY <1>1, <3>2 DEF InLoop
      <4>. QED BY <2>1, <2>3, <3>2, <4>1 DEF LoopsInv, LoopsTypeOK
    <3>. QED BY <3>1, <3>2
  <2>5. /\ \A d \in Caller : home'[d] = 0 <=> at'[d] = "out"
        /\ \A d \in Caller : at'[d] # "out" => home'[d] \in Elements(loops)
    BY <2>1, <2>2, <2>3 DEF LoopsInv
  <2>6. LoopsTypeOK' /\ Elements(loops') = Elements(loops)
    BY <1>0, <1>1, <2>3, <2>4 DEF InLoop, LoopsInv, LoopsTypeOK
  <2>. QED BY <2>3, <2>4, <2>5, <2>6 DEF LoopsInv, Elements
<1>2. ASSUME NEW c \in Caller, Refused(c) PROVE LoopsInv'
  BY <1>0, <1>2 DEF Refused, vars, LoopsInv, LoopsTypeOK, Elements
<1>3. CASE CloseAll /\ UNCHANGED loopVars
  BY <1>0, <1>3 DEF CloseAll, loopVars, LoopsInv, LoopsTypeOK, Elements
<1>4. CASE StartLoop
  <2>1. /\ started' = started + 1 /\ started' \in 0..MaxLoops + 1
        /\ started \in Nat
    BY <1>0, <1>4 DEF StartLoop, LoopsInv, LoopsTypeOK
  <2>2. /\ loops' \in Seq(1..started')
        /\ Elements(loops) \subseteq Elements(loops')
    <3>1. loops \in Seq(1..started') /\ started' \in 1..started'
      <4>1. 1..started \subseteq 1..started'
        BY <2>1
      <4>. QED BY <2>1, <4>1 DEF LoopsInv, LoopsTypeOK
    <3>. QED BY <1>4, <3>1 DEF StartLoop, Elements
  <2>3. bound' \in 0..started' /\ home' \in [Caller -> 0..started']
    BY <1>4, <2>1 DEF StartLoop, LoopsInv, LoopsTypeOK
  <2>4. LoopsTypeOK' /\ UNCHANGED <<at, home, bound>>
    BY <1>0, <1>4, <2>1, <2>2, <2>3
    DEF StartLoop, vars, LoopsInv, LoopsTypeOK
  <2>. QED BY <2>2, <2>4 DEF LoopsInv, Elements
<1>5. CASE EndLoop
  <2>1. /\ loops' \in Seq(1..started)
        /\ Elements(loops) \subseteq Elements(loops') \cup {Running}
    BY <1>5, ButLast DEF EndLoop, LoopsInv, LoopsTypeOK, Running
  <2>2. \A c \in Caller : home[c] # Running
    BY <1>5 DEF EndLoop
  <2>3. \A c \in Caller : at[c] # "out" => home[c] \in Elements(loops')
    BY <2>1, <2>2 DEF LoopsInv
  <2>. QED
    BY <1>0, <1>5, <2>1, <2>3 DEF EndLoop, vars, LoopsInv, LoopsTypeOK
<1>6. CASE UNCHANGED <<vars, loopVars>>
  BY <1>0, <1>6 DEF vars, loopVars, LoopsInv, LoopsTypeOK, Elements
<1>. QED BY LoopsCases, <1>1, <1>2, <1>3, <1>4, <1>5, <1>6

LEMMA LoopsInitInv == LoopsInit => IInv /\ LoopsInv
<1> SUFFICES ASSUME LoopsInit PROVE IInv /\ LoopsInv
  OBVIOUS
<1>1. IInv
  BY InitIInv DEF LoopsInit
<1>2. LoopsTypeOK
  <2>1. loops \in Seq(1..1) /\ started = 1 /\ 1 \in 0..MaxLoops + 1
    BY LoopsAssumption DEF LoopsInit
  <2>2. 1..1 = 1..started /\ 0..1 = 0..started
    BY <2>1
  <2>3. bound \in 0..1 /\ home \in [Caller -> 0..1]
    BY DEF LoopsInit
  <2>4. refused \in BOOLEAN
    BY DEF LoopsInit
  <2>. QED BY <1>1, <2>1, <2>2, <2>3, <2>4 DEF IInv, LoopsTypeOK
<1>3. \A c \in Caller : home[c] = 0 /\ at[c] = "out"
  BY DEF LoopsInit, Init
<1>. QED BY <1>1, <1>2, <1>3 DEF LoopsInv

LEMMA LoopsInvariant == LoopsSpec => [](IInv /\ LoopsInv)
<1>1. IInv /\ LoopsInv /\ [LoopsNext]_<<vars, loopVars>> => (IInv /\ LoopsInv)'
  BY LoopsStep, LoopsStepIsStep, StepIInv
<1>. QED BY <1>1, LoopsInitInv, PTL DEF LoopsSpec

(* Whoever sleeps in cond.wait will be told when there is room, unless the  *)
(* wake-up goes down with a cancelled waiter; and its loop is one that will *)
(* run again to hear it, however many loops are started and nested.         *)
THEOREM SleepersHear == LoopsSpec => []SleepersWillWake
<1>1. IInv /\ LoopsInv => SleepersWillWake
  <2> SUFFICES ASSUME IInv, LoopsInv PROVE SleepersWillWake
    OBVIOUS
  <2>1. SleepersHaveLoop
    BY DEF LoopsInv, SleepersHaveLoop, InState
  <2>. QED BY <2>1 DEF IInv, LoopsInv, SleepersWillWake
<1>. QED BY <1>1, LoopsInvariant, PTL
=============================================================================
