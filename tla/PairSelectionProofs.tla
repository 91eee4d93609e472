------------------------- MODULE PairSelectionProofs -------------------------
(***************************************************************************)
(* Proofs about PairSelection, for every set of pairs and of amounts.      *)
(***************************************************************************)
EXTENDS PairSelection, TLAPS

\* A pair is being worked on exactly while its routes are queried and paid.
PickedWhenWorking ==
  /\ pc \in {"idle", "picking"} => picked = NoPair
  /\ pc \in {"query", "paying"} => picked \in Pairs

\* The expiration of a failed pair follows from when it failed.
FailuresDated ==
  \A p \in DOMAIN failureCache :
    failedAt[p] # Never /\ failureCache[p] = failedAt[p] + Expiry

SelectionInv ==
  /\ TypeOK
  /\ PairsConserved
  /\ PickedWhenWorking
  /\ FailuresDated
  /\ SkipsRecentFailures
  /\ GivesUpOnlyExhausted

-----------------------------------------------------------------------------
\* At first every pair may be picked and none has failed.
LEMMA SelectionInit == Init => SelectionInv
<1> SUFFICES ASSUME Init PROVE SelectionInv
  OBVIOUS
<1> USE PairsAssumption, AmountAssumption, ClockAssumption
<1>1. TypeOK
  <2>1. failureCache \in [DOMAIN failureCache -> 0 .. MaxTime + Expiry]
    BY DEF Init
  <2>2. DOMAIN failureCache = {} /\ channelPairs = Pairs /\ mcCache = {}
    BY DEF Init
  <2>3. now \in 0 .. MaxTime /\ failedAt \in [Pairs -> {Never} \cup 0 .. MaxTime]
    BY DEF Init
  <2> QED
    BY <2>1, <2>2, <2>3 DEF Init, TypeOK, Control
<1>2. PairsConserved /\ FailuresDated /\ SkipsRecentFailures
  BY DEF Init, PairsConserved, FailuresDated, SkipsRecentFailures
<1>3. PickedWhenWorking /\ GivesUpOnlyExhausted
  BY DEF Init, PickedWhenWorking, GivesUpOnlyExhausted
<1> QED
  BY <1>1, <1>2, <1>3 DEF SelectionInv

\* What addFailedRoute does to a pair that may be picked.
LEMMA AddFailedRouteMoves ==
  ASSUME SelectionInv, NEW p \in channelPairs, AddFailedRoute(p), now' = now,
         UNCHANGED amountOf
  PROVE  /\ channelPairs' \subseteq Pairs
         /\ DOMAIN failureCache' \subseteq Pairs
         /\ failureCache' \in [DOMAIN failureCache' -> 0 .. MaxTime + Expiry]
         /\ failedAt' \in [Pairs -> {Never} \cup 0 .. MaxTime]
         /\ channelPairs' \cup DOMAIN failureCache' = Pairs
         /\ channelPairs' \cap DOMAIN failureCache' = {}
         /\ DOMAIN failureCache' = DOMAIN failureCache \cup {p}
         /\ FailuresDated'
         /\ SkipsRecentFailures'
<1> USE PairsAssumption, ClockAssumption
<1>t. /\ p \in Pairs /\ channelPairs \subseteq Pairs /\ DOMAIN failureCache \subseteq Pairs
      /\ failureCache \in [DOMAIN failureCache -> 0 .. MaxTime + Expiry]
      /\ failedAt \in [Pairs -> {Never} \cup 0 .. MaxTime]
      /\ now \in 0 .. MaxTime
  BY DEF SelectionInv, TypeOK
<1>c. /\ channelPairs \cup DOMAIN failureCache = Pairs
      /\ channelPairs \cap DOMAIN failureCache = {}
  BY DEF SelectionInv, PairsConserved
<1>1. DOMAIN failureCache' = DOMAIN failureCache \cup {p}
  BY DEF AddFailedRoute
<1>2. channelPairs' = channelPairs \ {p}
  BY DEF AddFailedRoute
<1>3. \A q \in DOMAIN failureCache' :
        failureCache'[q] = IF q = p THEN now + Expiry ELSE failureCache[q]
  BY DEF AddFailedRoute
<1>4. now + Expiry \in 0 .. MaxTime + Expiry
  BY <1>t
<1>5. failureCache' \in [DOMAIN failureCache' -> 0 .. MaxTime + Expiry]
  BY <1>t, <1>4 DEF AddFailedRoute
<1>6. failedAt' \in [Pairs -> {Never} \cup 0 .. MaxTime]
  BY <1>t DEF AddFailedRoute
<1>7. failedAt'[p] = now /\ \A q \in Pairs \ {p} : failedAt'[q] = failedAt[q]
  BY <1>t DEF AddFailedRoute
<1>8. now # Never
  BY <1>t DEF Never
<1>9. FailuresDated'
  BY <1>t, <1>1, <1>3, <1>7, <1>8 DEF FailuresDated, SelectionInv
<1>10. SkipsRecentFailures'
  BY <1>t, <1>2, <1>7 DEF SkipsRecentFailures, SelectionInv
<1> QED
  BY <1>t, <1>c, <1>1, <1>2, <1>5, <1>6, <1>9, <1>10

\* The usable pair leaves every pair where its expiration puts it.
LEMMA PickUsableKeepsInv ==
  ASSUME SelectionInv, NEW p \in Pairs, PickUsable(p)
  PROVE  SelectionInv'
<1> USE PairsAssumption, ClockAssumption
<1>t. /\ p \in Pairs /\ channelPairs \subseteq Pairs /\ DOMAIN failureCache \subseteq Pairs
      /\ failureCache \in [DOMAIN failureCache -> 0 .. MaxTime + Expiry]
      /\ failedAt \in [Pairs -> {Never} \cup 0 .. MaxTime]
      /\ now \in 0 .. MaxTime
  BY DEF SelectionInv, TypeOK
<1>u. UNCHANGED <<routeFound, mcCache, amountOf, now, failedAt>>
  BY DEF PickUsable
<1>1. Expired \subseteq DOMAIN failureCache
  BY DEF Expired
<1>2. DOMAIN failureCache' = DOMAIN failureCache \ Expired
  BY <1>1 DEF PickUsable, Restrict
<1>3. \A q \in DOMAIN failureCache' : failureCache'[q] = failureCache[q]
  BY <1>1, <1>2 DEF PickUsable, Restrict
<1>4. failureCache' \in [DOMAIN failureCache' -> 0 .. MaxTime + Expiry]
  <2>1. failureCache' = [q \in DOMAIN failureCache \ Expired |-> failureCache[q]]
    BY <1>1 DEF PickUsable, Restrict
  <2> QED
    BY <2>1, <1>2, <1>t
<1>5. channelPairs' = channelPairs \cup Expired
  BY DEF PickUsable
<1>6. TypeOK'
  BY <1>t, <1>u, <1>1, <1>2, <1>4, <1>5 DEF SelectionInv, TypeOK, PickUsable, Control
<1>7. PairsConserved'
  BY <1>1, <1>2, <1>5 DEF SelectionInv, PairsConserved, PickUsable
<1>8. PickedWhenWorking'
  BY DEF PickUsable, PickedWhenWorking
<1>9. FailuresDated'
  BY <1>u, <1>1, <1>2, <1>3 DEF SelectionInv, FailuresDated
<1>10. SkipsRecentFailures'
  <2> SUFFICES ASSUME NEW q \in channelPairs', failedAt'[q] # Never
               PROVE  failedAt'[q] + Expiry < now'
    BY DEF SkipsRecentFailures
  <2>1. CASE q \in channelPairs
    BY <1>u, <2>1 DEF SelectionInv, SkipsRecentFailures
  <2>2. CASE q \in Expired
    BY <1>u, <2>2 DEF SelectionInv, FailuresDated, Expired
  <2> QED
    BY <1>5, <2>1, <2>2
<1>11. GivesUpOnlyExhausted'
  BY DEF PickUsable, GivesUpOnlyExhausted
<1> QED
  BY <1>6, <1>7, <1>8, <1>9, <1>10, <1>11 DEF SelectionInv

-----------------------------------------------------------------------------
\* Every step of the selection keeps the invariant.
LEMMA SelectionStep == SelectionInv /\ [Next]_vars => SelectionInv'
<1> SUFFICES ASSUME SelectionInv, [Next]_vars PROVE SelectionInv'
  OBVIOUS
<1> USE PairsAssumption, ClockAssumption
<1>1. CASE Call \/ RouteFound \/ Stop \/ \E H \in SUBSET Hops : PaymentFailed(H)
  <2>1. /\ UNCHANGED <<channelPairs, failureCache, amountOf, now, failedAt>>
        /\ routeFound' \in BOOLEAN /\ mcCache' \subseteq Hops
    BY <1>1 DEF Call, RouteFound, Stop, PaymentFailed, SelectionInv, TypeOK
  <2>2. /\ pc' \in Control /\ pc' # "query"
        /\ pc' \in {"idle", "picking"} => picked' = NoPair
        /\ pc' \in {"paying", "stopped"} => picked' = picked /\ picked \in Pairs
    BY <1>1 DEF Call, RouteFound, Stop, PaymentFailed, Control, SelectionInv,
                PickedWhenWorking
  <2>3. TypeOK'
    BY <2>1, <2>2 DEF SelectionInv, TypeOK, Control
  <2>4. PairsConserved' /\ PickedWhenWorking'
    BY <2>1, <2>2 DEF SelectionInv, PairsConserved, PickedWhenWorking
  <2>5. FailuresDated' /\ SkipsRecentFailures'
    BY <2>1 DEF SelectionInv, FailuresDated, SkipsRecentFailures
  <2>6. GivesUpOnlyExhausted'
    BY <2>2 DEF GivesUpOnlyExhausted
  <2> QED
    BY <2>3, <2>4, <2>5, <2>6 DEF SelectionInv
<1>2. CASE NoRoutes
  <2>1. /\ UNCHANGED <<channelPairs, failureCache, routeFound, mcCache, amountOf,
                       picked, now, failedAt>>
        /\ pc = "picking" /\ pc' = "stopped" /\ channelPairs = {} /\ ~MayRefill
    BY <1>2 DEF NoRoutes
  <2>2. TypeOK' /\ PairsConserved' /\ PickedWhenWorking'
    BY <2>1 DEF SelectionInv, TypeOK, Control, PairsConserved, PickedWhenWorking
  <2>3. FailuresDated' /\ SkipsRecentFailures'
    BY <2>1 DEF SelectionInv, FailuresDated, SkipsRecentFailures
  <2>4. DOMAIN failureCache = Pairs
    BY <2>1 DEF SelectionInv, PairsConserved
  <2>5. ~routeFound /\ \A p \in Pairs : failedAt[p] # Never
    BY <2>1, <2>4 DEF MayRefill, SelectionInv, FailuresDated
  <2>6. GivesUpOnlyExhausted'
    BY <2>1, <2>5 DEF GivesUpOnlyExhausted
  <2> QED
    BY <2>2, <2>3, <2>6 DEF SelectionInv
<1>3. CASE ExpireAll
  <2>1. /\ pc = "picking" /\ channelPairs = {}
        /\ DOMAIN failureCache' = {} /\ channelPairs' = DOMAIN failureCache
        /\ UNCHANGED <<amountOf, picked, pc, now>>
        /\ \A p \in Pairs : failedAt'[p] = Never
    BY <1>3 DEF ExpireAll
  <2>2. failureCache' \in [DOMAIN failureCache' -> 0 .. MaxTime + Expiry]
    BY <1>3, <2>1 DEF ExpireAll
  <2>3. failedAt' \in [Pairs -> {Never} \cup 0 .. MaxTime]
    BY <1>3 DEF ExpireAll
  <2>4. TypeOK'
    BY <1>3, <2>1, <2>2, <2>3 DEF ExpireAll, SelectionInv, TypeOK
  <2>5. channelPairs' = Pairs
    BY <2>1 DEF SelectionInv, PairsConserved
  <2>6. PairsConserved' /\ PickedWhenWorking'
    BY <2>1, <2>5 DEF SelectionInv, PairsConserved, PickedWhenWorking
  <2>7. FailuresDated' /\ SkipsRecentFailures'
    BY <2>1, <2>5 DEF FailuresDated, SkipsRecentFailures
  <2>8. GivesUpOnlyExhausted'
    BY <2>1 DEF GivesUpOnlyExhausted
  <2> QED
    BY <2>4, <2>6, <2>7, <2>8 DEF SelectionInv
<1>4. CASE \E p \in Pairs : PickUnusable(p)
  <2>1. PICK p \in Pairs : PickUnusable(p)
    BY <1>4
  <2>2. /\ p \in channelPairs /\ AddFailedRoute(p) /\ pc = "picking"
        /\ UNCHANGED <<routeFound, mcCache, amountOf, picked, pc, now>>
    BY <2>1 DEF PickUnusable
  <2>3. /\ channelPairs' \subseteq Pairs
        /\ DOMAIN failureCache' \subseteq Pairs
        /\ failureCache' \in [DOMAIN failureCache' -> 0 .. MaxTime + Expiry]
        /\ failedAt' \in [Pairs -> {Never} \cup 0 .. MaxTime]
        /\ channelPairs' \cup DOMAIN failureCache' = Pairs
        /\ channelPairs' \cap DOMAIN failureCache' = {}
        /\ FailuresDated' /\ SkipsRecentFailures'
    BY <2>2, AddFailedRouteMoves
  <2>4. TypeOK'
    BY <2>2, <2>3 DEF SelectionInv, TypeOK
  <2>5. PairsConserved' /\ PickedWhenWorking' /\ GivesUpOnlyExhausted'
    BY <2>2, <2>3 DEF SelectionInv, PairsConserved, PickedWhenWorking,
                      GivesUpOnlyExhausted
  <2> QED
    BY <2>3, <2>4, <2>5 DEF SelectionInv
<1>5. CASE \E p \in Pairs : PickUsable(p)
  BY <1>5, PickUsableKeepsInv
<1>6. CASE RouteFailed
  <2>1. /\ picked \in channelPairs /\ AddFailedRoute(picked)
        /\ picked' = NoPair /\ pc' = "idle"
        /\ UNCHANGED <<routeFound, mcCache, amountOf, now>>
    BY <1>6 DEF RouteFailed, SelectionInv, PairsConserved
  <2>2. /\ channelPairs' \subseteq Pairs
        /\ DOMAIN failureCache' \subseteq Pairs
        /\ failureCache' \in [DOMAIN failureCache' -> 0 .. MaxTime + Expiry]
        /\ failedAt' \in [Pairs -> {Never} \cup 0 .. MaxTime]
        /\ channelPairs' \cup DOMAIN failureCache' = Pairs
        /\ channelPairs' \cap DOMAIN failureCache' = {}
        /\ FailuresDated' /\ SkipsRecentFailures'
    BY <2>1, AddFailedRouteMoves
  <2>3. TypeOK'
    BY <2>1, <2>2 DEF SelectionInv, TypeOK, Control
  <2>4. PairsConserved' /\ PickedWhenWorking' /\ GivesUpOnlyExhausted'
    BY <2>1, <2>2 DEF PairsConserved, PickedWhenWorking, GivesUpOnlyExhausted
  <2> QED
    BY <2>2, <2>3, <2>4 DEF SelectionInv
<1>7. CASE Tick
  <2>1. /\ UNCHANGED <<channelPairs, failureCache, routeFound, mcCache, amountOf,
                       picked, pc, failedAt>>
        /\ now' = now + 1 /\ now' \in 0 .. MaxTime /\ now \in 0 .. MaxTime
    BY <1>7 DEF Tick, SelectionInv, TypeOK
  <2>2. TypeOK' /\ PairsConserved' /\ PickedWhenWorking' /\ GivesUpOnlyExhausted'
    BY <2>1 DEF SelectionInv, TypeOK, PairsConserved, PickedWhenWorking,
                GivesUpOnlyExhausted
  <2>3. FailuresDated'
    BY <2>1 DEF SelectionInv, FailuresDated
  <2>4. SkipsRecentFailures'
    <3> SUFFICES ASSUME NEW p \in channelPairs, failedAt[p] # Never
                 PROVE  failedAt[p] + Expiry < now + 1
      BY <2>1 DEF SkipsRecentFailures
    <3>1. failedAt[p] \in 0 .. MaxTime
      BY DEF SelectionInv, TypeOK
    <3>2. failedAt[p] + Expiry < now
      BY DEF SelectionInv, SkipsRecentFailures
    <3> QED
      BY <2>1, <3>1, <3>2
  <2> QED
    BY <2>2, <2>3, <2>4 DEF SelectionInv
<1>8. CASE UNCHANGED vars
  <2>1. TypeOK' /\ PairsConserved' /\ PickedWhenWorking' /\ GivesUpOnlyExhausted'
    BY <1>8 DEF vars, SelectionInv, TypeOK, PairsConserved, PickedWhenWorking,
                GivesUpOnlyExhausted
  <2>2. FailuresDated' /\ SkipsRecentFailures'
    BY <1>8 DEF vars, SelectionInv, FailuresDated, SkipsRecentFailures
  <2> QED
    BY <2>1, <2>2 DEF SelectionInv
<1> QED
  BY <1>1, <1>2, <1>3, <1>4, <1>5, <1>6, <1>7, <1>8 DEF Next, Pick

-----------------------------------------------------------------------------
\* The maps of the selection keep their types.
THEOREM SelectionTypes == Spec => []TypeOK
<1>1. SelectionInv => TypeOK
  BY DEF SelectionInv
<1> QED
  BY <1>1, SelectionInit, SelectionStep, PTL DEF Spec

\* pickChannelPair and addFailedRoute lose no pair and duplicate none.
THEOREM SelectionConservesPairs == Spec => []PairsConserved
<1>1. SelectionInv => PairsConserved
  BY DEF SelectionInv
<1> QED
  BY <1>1, SelectionInit, SelectionStep, PTL DEF Spec

\* A failed pair is skipped until its expiration or the next refill.
THEOREM SelectionSkipsRecentFailures == Spec => []SkipsRecentFailures
<1>1. SelectionInv => SkipsRecentFailures
  BY DEF SelectionInv
<1> QED
  BY <1>1, SelectionInit, SelectionStep, PTL DEF Spec

\* "no routes" is reported only when every pair failed and no route was found.
THEOREM SelectionGivesUpOnlyExhausted == Spec => []GivesUpOnlyExhausted
<1>1. SelectionInv => GivesUpOnlyExhausted
  BY DEF SelectionInv
<1> QED
  BY <1>1, SelectionInit, SelectionStep, PTL DEF Spec

-----------------------------------------------------------------------------
\* Each step of the selection is a step of the abstract pool or no step.
LEMMA SelectionStepImplementsPool ==
  SelectionInv /\ SelectionInv' /\ [Next]_vars => [Pool!PoolNext]_Pool!poolVars
<1> SUFFICES ASSUME SelectionInv, SelectionInv', [Next]_vars
             PROVE  [Pool!PoolNext]_Pool!poolVars
  OBVIOUS
<1> USE PairsAssumption
<1> USE DEF Pool!PoolNext, Pool!poolVars
<1>c. /\ channelPairs \cup DOMAIN failureCache = Pairs
      /\ channelPairs \cap DOMAIN failureCache = {}
      /\ pc \in {"idle", "picking"} => picked = NoPair
      /\ pc \in {"query", "paying"} => picked \in Pairs /\ picked # NoPair
  BY DEF SelectionInv, PairsConserved, PickedWhenWorking
<1>1. CASE Call
  BY <1>1 DEF Call
<1>2. CASE NoRoutes
  <2>1. Pool!GiveUp
    <3>1. DOMAIN failureCache = Pairs /\ ~routeFound
      BY <1>2, <1>c DEF NoRoutes, MayRefill
    <3> QED
      BY <1>2, <1>c, <3>1 DEF NoRoutes, Pool!GiveUp
  <2> QED
    BY <2>1
<1>3. CASE ExpireAll
  <2>1. Pool!Refill
    <3>1. DOMAIN failureCache' = {}
      BY <1>3 DEF ExpireAll
    <3> QED
      BY <1>3, <1>c, <3>1 DEF ExpireAll, MayRefill, Pool!Refill
  <2> QED
    BY <2>1
<1>4. CASE \E p \in Pairs : PickUnusable(p)
  <2>1. PICK p \in Pairs : PickUnusable(p)
    BY <1>4
  <2>2. DOMAIN failureCache' = DOMAIN failureCache \cup {p}
    BY <2>1 DEF PickUnusable, AddFailedRoute
  <2>3. Pool!SetAside(p)
    BY <2>1, <2>2, <1>c DEF PickUnusable, Pool!SetAside
  <2> QED
    BY <2>3
<1>5. CASE \E p \in Pairs : PickUsable(p)
  <2>1. PICK p \in Pairs : PickUsable(p)
    BY <1>5
  <2>2. DOMAIN failureCache' = DOMAIN failureCache \ Expired
    BY <2>1 DEF PickUsable, Restrict, Expired
  <2>3. Pool!Choose(p)
    BY <2>1, <2>2, <1>c DEF PickUsable, Pool!Choose
  <2> QED
    BY <2>3
<1>6. CASE RouteFound
  <2>1. Pool!FindRoute
    BY <1>6, <1>c DEF RouteFound, Pool!FindRoute
  <2> QED
    BY <2>1
<1>7. CASE RouteFailed
  <2>1. DOMAIN failureCache' = DOMAIN failureCache \cup {picked}
    BY <1>7 DEF RouteFailed, AddFailedRoute
  <2>2. picked \in channelPairs
    BY <1>7 DEF RouteFailed, SelectionInv, PairsConserved
  <2>3. Pool!SetAside(picked)
    BY <1>7, <1>c, <2>1, <2>2 DEF RouteFailed, Pool!SetAside
  <2> QED
    BY <1>7, <1>c, <2>3 DEF RouteFailed
<1>8. CASE Stop
  <2>1. Pool!Stop
    BY <1>8, <1>c DEF Stop, Pool!Stop
  <2> QED
    BY <2>1
<1>9. CASE Tick \/ UNCHANGED vars
  BY <1>9 DEF Tick, vars
<1>10. CASE \E H \in SUBSET Hops : PaymentFailed(H)
  <2>1. PICK H \in SUBSET Hops : PaymentFailed(H)
    BY <1>10
  <2>2. Pool!Release
    BY <2>1, <1>c DEF PaymentFailed, Pool!Release
  <2> QED
    BY <2>2
<1> QED
  BY <1>1, <1>2, <1>3, <1>4, <1>5, <1>6, <1>7, <1>8, <1>9, <1>10 DEF Next, Pick

\* The selection implements the pool it promises to the session: a pair comes
\* back only by expiring or by a refill that a found route paid for.
THEOREM SelectionImplementsPool == Spec => ImplementsPool
<1>1. Init => Pool!PoolInit
  BY PairsAssumption DEF Init, Pool!PoolInit
<1> QED
  BY <1>1, SelectionInit, SelectionStep, SelectionStepImplementsPool, PTL
     DEF Spec, ImplementsPool, Pool!PoolSpec
=============================================================================
