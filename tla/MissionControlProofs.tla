------------------------ MODULE MissionControlProofs ------------------------
(***************************************************************************)
(* Proofs about MissionControl, for all routes, of any length, any number  *)
(* of them per query and any tolerance.                                    *)
(***************************************************************************)
EXTENDS MissionControl, NaturalsInduction, WellFoundedInduction, FiniteSetTheorems, TLAPS

\* The amounts remembered are amounts of payments, and what is remembered or
\* left out did refuse one.
Recorded ==
  /\ \A p \in DOMAIN mcCache : mcCache[p] \in Nat \ {0}
  /\ DOMAIN mcCache \subseteq refused
  /\ failedPairs \subseteq refused

\* Only channels that failed since the query can be in the way of a route that
\* lnd returned.
Passed(r) == \A k \in DOMAIN r : Pair(r, k) \in since \/ ~FailedBefore(r, k)

\* A rebuilt route is over the nodes of the one that lnd returned.
Along(r, s) ==
  /\ r \in Routes /\ s \in Routes
  /\ Len(r) = Len(s)
  /\ \A k \in DOMAIN r : r[k].node = s[k].node

InHand ==
  /\ pc \in {"pay", "sent"} => \A r \in routes : Passed(r)
  /\ pc = "sent" => Along(route, answered) /\ Passed(answered)

MissionInv == TypeOK /\ Recorded /\ InHand

-----------------------------------------------------------------------------
\* A set of natural numbers has a smallest one.
LEMMA SmallestHop ==
  ASSUME NEW S \in SUBSET Nat, S # {}
  PROVE  \E x \in S : \A y \in S : x <= y
<1> DEFINE R == {ss \in Nat \X Nat : ss[1] < ss[2]}
<1>1. IsWellFoundedOn(R, Nat)
  BY NatLessThanWellFounded, Zenon DEF OpToRel
<1>2. PICK x \in S : \A y \in S : ~(<<y, x>> \in R)
  <2> HIDE DEF R
  <2> QED BY <1>1, WFMin
<1>3. ASSUME NEW y \in S, y < x PROVE FALSE
  <2>1. <<y, x>> \in Nat \X Nat /\ <<y, x>>[1] = y /\ <<y, x>>[2] = x
    OBVIOUS
  <2> QED
    BY <2>1, <1>2, <1>3
<1> QED
  BY <1>3

\* A route that does not pass has a first channel that failed before.
LEMMA FirstFailedExists ==
  ASSUME NEW r \in Routes, ~Valid(r)
  PROVE  FirstFailed(r) \in DOMAIN r /\ FailedBefore(r, FirstFailed(r))
<1> DEFINE Bad == {k \in DOMAIN r : FailedBefore(r, k)}
<1>1. DOMAIN r = 1 .. Len(r) /\ Len(r) \in Nat
  BY MissionControlAssumption
<1>2. Bad \subseteq Nat /\ Bad # {}
  BY <1>1 DEF Valid
<1>3. PICK k \in Bad : \A j \in Bad : k <= j
  BY <1>2, SmallestHop
<1>4. \A j \in 1 .. k - 1 : ~FailedBefore(r, j)
  <2>1. SUFFICES ASSUME NEW j \in 1 .. k - 1, FailedBefore(r, j) PROVE FALSE
    OBVIOUS
  <2>2. j \in DOMAIN r /\ j < k
    BY <1>1
  <2>3. j \in Bad
    BY <2>1, <2>2
  <2> QED
    BY <2>2, <2>3, <1>3, <1>2
<1> QED
  BY <1>3, <1>4 DEF FirstFailed

\* What validateRoute adds to failedPairs is a pair that it remembers, and one
\* of a route.
LEMMA IgnoredIsRemembered ==
  ASSUME NEW answer, answer \subseteq Routes
  PROVE  /\ Ignored(answer) \subseteq failedPairs \cup DOMAIN mcCache
         /\ Ignored(answer) \subseteq failedPairs \cup Pairs
<1> SUFFICES ASSUME NEW r \in answer, ~Valid(r)
             PROVE  /\ Pair(r, FirstFailed(r)) \in DOMAIN mcCache
                    /\ Pair(r, FirstFailed(r)) \in Pairs
  BY DEF Ignored
<1>1. FirstFailed(r) \in DOMAIN r /\ FailedBefore(r, FirstFailed(r))
  BY FirstFailedExists
<1> HIDE DEF FirstFailed
<1> QED
  BY <1>1 DEF FailedBefore, Pairs

-----------------------------------------------------------------------------
LEMMA MissionInit == Init => MissionInv
BY MissionControlAssumption DEF Init, MissionInv, TypeOK, Recorded, InHand, Range

\* What a payment leaves of the routes: the channel that failed is one of its
\* route, and so is the amount.
LEMMA AddedPair ==
  ASSUME MissionInv, NEW k \in DOMAIN route, pc = "sent", k > 1
  PROVE  Pair(route, k) \in Pairs /\ Carries(route, k) \in Nat \ {0}
<1>1. route \in Routes
  BY DEF MissionInv, InHand, Along
<1>2. DOMAIN route = 1 .. Len(route) /\ Len(route) \in Nat
  BY <1>1, MissionControlAssumption
<1>3. k - 1 \in DOMAIN route
  BY <1>2
<1> QED
  BY <1>1, <1>3, MissionControlAssumption DEF Pairs, Carries

\* Along the rebuilt routes of a rebuilt route.
LEMMA RebuiltAlong ==
  ASSUME NEW amount, NEW a, Along(route, a), PayRebuilt(amount)
  PROVE  Along(route', a)
<1>1. /\ route' \in Routes /\ Len(route') = Len(route)
      /\ \A k \in DOMAIN route' : route'[k].node = route[k].node
  BY DEF PayRebuilt, Rebuilt
<1>2. DOMAIN route' = 1 .. Len(route') /\ DOMAIN route = 1 .. Len(route)
  BY <1>1, MissionControlAssumption DEF Along
<1> QED
  BY <1>1, <1>2 DEF Along

\* A failure is remembered for the pair it was of, so that the routes that
\* passed otherwise still do.
LEMMA StillPassed ==
  ASSUME NEW r, NEW pair, NEW amount, Passed(r),
         addFailedChan(pair, amount), since' = since \cup {pair}
  PROVE  Passed(r)'
<1>1. /\ DOMAIN mcCache' = DOMAIN mcCache \cup {pair}
      /\ \A p \in DOMAIN mcCache' : p # pair => mcCache'[p] = mcCache[p]
  BY DEF addFailedChan
<1>2. SUFFICES ASSUME NEW k \in DOMAIN r, Pair(r, k) \notin since'
               PROVE  ~FailedBefore(r, k)'
  BY DEF Passed, Pair
<1>3. Pair(r, k) # pair /\ ~FailedBefore(r, k)
  BY <1>2 DEF Passed
<1> QED
  BY <1>1, <1>3 DEF FailedBefore, Pair

LEMMA MissionStep ==
  ASSUME MissionInv, [Next]_vars
  PROVE  MissionInv'
<1> USE DEF MissionInv
<1>p. \A r : UNCHANGED <<mcCache, since>> => Passed(r)' = Passed(r)
  BY DEF Passed, FailedBefore, Pair
<1>1. CASE Query
  BY <1>1 DEF Query, payment, TypeOK, Recorded, InHand, Range
<1>2. CASE NoRoute
  BY <1>2 DEF NoRoute, payment, TypeOK, Recorded, InHand, Range
<1>3. ASSUME NEW answer \in Answers, getRoutes(answer) PROVE MissionInv'
  <2>1. answer \subseteq Routes
    BY DEF Answers, Usable
  <2>2. failedPairs' \subseteq failedPairs \cup DOMAIN mcCache /\ failedPairs' \subseteq failedPairs \cup Pairs
    BY <1>3, <2>1, IgnoredIsRemembered DEF getRoutes
  <2>3. /\ UNCHANGED <<mcCache, route, probeSteps, answered, refused, since>>
        /\ routes' \subseteq answer /\ pc' \in {"query", "pay"}
        /\ \A r \in routes' : Valid(r)
    BY <1>3 DEF getRoutes, payment
  <2>4. TypeOK'
    BY <2>1, <2>2, <2>3 DEF TypeOK, Range
  <2>5. Recorded'
    BY <2>2, <2>3 DEF Recorded
  <2>6. InHand'
    BY <2>3, <1>p DEF InHand, Passed, Valid
  <2> QED
    BY <2>4, <2>5, <2>6
<1>4. ASSUME NEW r \in routes, Pay(r) PROVE MissionInv'
  <2>1. /\ pc = "pay" /\ pc' = "sent" /\ route' = r /\ answered' = r /\ probeSteps' = ProbeSteps
        /\ routes' \subseteq routes /\ UNCHANGED <<mcCache, failedPairs, refused, since>>
    BY <1>4 DEF Pay
  <2>2. TypeOK'
    BY <2>1, MissionControlAssumption DEF TypeOK, Range
  <2>3. Recorded'
    BY <2>1 DEF Recorded
  <2>4. InHand'
    BY <2>1, <1>p DEF InHand, Along, TypeOK
  <2> QED
    BY <2>2, <2>3, <2>4
<1>5. CASE PayUpdated
  <2>1. /\ pc = "sent" /\ PayRebuilt(Delivers(route))
        /\ UNCHANGED <<mcCache, failedPairs, routes, probeSteps, refused, since, answered, pc>>
    BY <1>5 DEF PayUpdated, PayRebuilt
  <2>2. Along(route', answered)
    BY <2>1, RebuiltAlong DEF InHand
  <2>3. TypeOK'
    BY <2>1, <2>2 DEF TypeOK, Range, Along
  <2>4. Recorded'
    BY <2>1 DEF Recorded
  <2>5. InHand'
    BY <2>1, <2>2, <1>p DEF InHand
  <2> QED
    BY <2>3, <2>4, <2>5
<1>6. ASSUME NEW k \in DOMAIN route, ChannelFails(k) PROVE MissionInv'
  <2>1. /\ pc = "sent" /\ k > 1 /\ addFailedChan(Pair(route, k), Carries(route, k))
        /\ refused' = refused \cup {Pair(route, k)} /\ since' = since \cup {Pair(route, k)}
        /\ UNCHANGED <<failedPairs, routes>>
    BY <1>6 DEF ChannelFails
  <2>2. Pair(route, k) \in Pairs /\ Carries(route, k) \in Nat \ {0}
    BY <2>1, AddedPair
  <2>3. /\ DOMAIN mcCache' = DOMAIN mcCache \cup {Pair(route, k)}
        /\ \A p \in DOMAIN mcCache' :
             mcCache'[p] = IF p = Pair(route, k) THEN Carries(route, k) ELSE mcCache[p]
    BY <2>1 DEF addFailedChan
  <2>4. \A p \in DOMAIN mcCache' : mcCache'[p] \in Nat \ {0}
    BY <2>2, <2>3 DEF Recorded
  <2>5. \/ route' = <<>> /\ answered' = <<>> /\ probeSteps' = 0 /\ pc' \in {"idle", "pay"}
        \/ Along(route', answered) /\ UNCHANGED <<answered, pc>> /\ probeSteps' = 0
    <3>1. CASE Ends
      BY <3>1 DEF Ends
    <3>2. CASE PayProbed(k)
      BY <2>1, <3>2, RebuiltAlong DEF PayProbed, PayRebuilt, InHand
    <3> QED
      BY <1>6, <3>1, <3>2 DEF ChannelFails
  <2>6. TypeOK'
    <3>1. DOMAIN mcCache' \subseteq Pairs /\ Range(mcCache') \subseteq Nat
      BY <2>2, <2>3, <2>4 DEF TypeOK, Range
    <3>2. /\ failedPairs' \subseteq Pairs /\ refused' \subseteq Pairs /\ since' \subseteq refused'
          /\ routes' \subseteq Routes
      BY <2>1, <2>2 DEF TypeOK
    <3>3. /\ {route', answered'} \subseteq Routes \cup {<<>>} /\ probeSteps' \in 0 .. ProbeSteps
          /\ pc' \in {"idle", "query", "pay", "sent"}
      BY <2>1, <2>5, MissionControlAssumption DEF TypeOK, Along
    <3> QED
      BY <3>1, <3>2, <3>3 DEF TypeOK
  <2>7. Recorded'
    BY <2>1, <2>3, <2>4 DEF Recorded
  <2>8. \A r : Passed(r) => Passed(r)'
    BY <2>1, StillPassed
  <2>9. InHand'
    <3>1. \A r \in routes' : Passed(r)'
      BY <2>1, <2>8 DEF InHand
    <3>2. ASSUME pc' = "sent" PROVE Along(route, answered)' /\ Passed(answered)'
      <4>1. Along(route', answered) /\ answered' = answered
        BY <2>5, <3>2
      <4>2. Passed(answered)
        BY <2>1 DEF InHand
      <4>3. Passed(answered)'
        BY <4>1, <4>2, <2>1, <2>3 DEF Passed, FailedBefore, Pair
      <4> QED
        BY <4>1, <4>3 DEF Along
    <3> QED
      BY <3>1, <3>2 DEF InHand
  <2> QED
    BY <2>6, <2>7, <2>9
<1>7. CASE OtherEnd
  <2>1. /\ route' = <<>> /\ answered' = <<>> /\ probeSteps' = 0 /\ pc' \in {"idle", "pay"}
        /\ pc = "sent" /\ UNCHANGED <<mcCache, failedPairs, routes, refused, since>>
    BY <1>7 DEF OtherEnd, Ends
  <2>2. TypeOK' /\ Recorded'
    BY <2>1, MissionControlAssumption DEF TypeOK, Recorded, Range
  <2>3. InHand'
    BY <2>1, <1>p DEF InHand
  <2> QED
    BY <2>2, <2>3
<1>8. CASE Expire
  BY <1>8 DEF Expire, payment, TypeOK, Recorded, InHand, Range
<1>9. CASE UNCHANGED vars
  BY <1>9, <1>p DEF vars, payment, TypeOK, Recorded, InHand, Along, Passed, FailedBefore, Pair, Range
<1> QED
  BY <1>1, <1>2, <1>3, <1>4, <1>5, <1>6, <1>7, <1>8, <1>9 DEF Next, GetRoutes

-----------------------------------------------------------------------------
\* What mission control remembers keeps its type, for routes of any length.
THEOREM MissionControlTypes == Spec => []TypeOK
<1>1. MissionInv /\ [Next]_vars => MissionInv'
  BY MissionStep
<1>2. MissionInv => TypeOK
  BY DEF MissionInv
<1> QED
  BY MissionInit, <1>1, <1>2, PTL DEF Spec

\* What lnd is told to leave out did refuse a payment, after any number of
\* attempts and of expirations.
THEOREM IgnoredPairsWereRefused == Spec => []IgnoredWasRefused
<1>1. MissionInv /\ [Next]_vars => MissionInv'
  BY MissionStep
<1>2. MissionInv => IgnoredWasRefused
  BY DEF MissionInv, Recorded, IgnoredWasRefused
<1> QED
  BY MissionInit, <1>1, <1>2, PTL DEF Spec

-----------------------------------------------------------------------------
\* An amount that is not within the tolerance of another differs from it by
\* that many of its millionths.
LEMMA DeltaIsLarge ==
  ASSUME NEW base \in Nat \ {0}, NEW a \in Nat,
         ~(absoluteDeltaPPM(base, a) < FailTolerance)
  PROVE  Abs(base - a) * 1000000 >= FailTolerance * base
<1> DEFINE n == (base - a) * 1000000
           q == Abs(n) \div base
<1>1. n \in Int /\ Abs(n) \in Nat /\ Abs(n) = Abs(base - a) * 1000000
  BY DEF Abs
<1>2. q \in Nat /\ q * base <= Abs(n)
  <2> HIDE DEF n
  <2>1. \A x \in Nat : x \div base \in Nat /\ (x \div base) * base <= x
    OBVIOUS
  <2> QED
    BY <1>1, <2>1
<1>3. absoluteDeltaPPM(base, a) = q
  <2>1. absoluteDeltaPPM(base, a) = Abs(Quot(n, base))
    BY DEF absoluteDeltaPPM
  <2>2. Abs(base) = base /\ ~(base < 0)
    BY DEF Abs
  <2>3. Quot(n, base) = q \/ Quot(n, base) = -q
    <3> HIDE DEF n, q
    <3> QED BY <2>2 DEF Quot, q
  <2> HIDE DEF n, q
  <2>4. Abs(q) = q /\ Abs(-q) = q
    BY <1>2 DEF Abs
  <2> QED
    BY <2>1, <2>3, <2>4
<1>4. q >= FailTolerance
  <2> HIDE DEF q
  <2> QED BY <1>2, <1>3, MissionControlAssumption
<1>5. q * base >= FailTolerance * base
  <2> HIDE DEF q
  <2>1. \A x, y \in Nat : x >= y => x * base >= y * base
    OBVIOUS
  <2> QED
    BY <2>1, <1>2, <1>4, MissionControlAssumption
<1>6. q * base \in Nat /\ FailTolerance * base \in Nat
  <2> HIDE DEF q
  <2> QED BY <1>2, MissionControlAssumption
<1> HIDE DEF n, q
<1> QED
  BY <1>1, <1>2, <1>5, <1>6

\* No payment repeats a failed amount, up to the tolerance and a hop's fee, on
\* a channel of any route lnd returned or rebuilt, however many routes it
\* returns and however often payments fail, are updated and are probed.
THEOREM FailedAmountsAreCancelled == Spec => []SameAmountCancelled
<1>1. MissionInv /\ [Next]_vars => MissionInv'
  BY MissionStep
<1>2. MissionInv => SameAmountCancelled
  <2> SUFFICES ASSUME MissionInv, pc = "sent", NEW k \in 2 .. Len(route),
                      Pair(route, k) \in DOMAIN mcCache \ since,
                      route[k].forward = answered[k].forward
               PROVE  (Abs(mcCache[Pair(route, k)] - Carries(route, k)) + Fee(route, k)) * 1000000
                        >= FailTolerance * mcCache[Pair(route, k)]
    BY DEF SameAmountCancelled
  <2> DEFINE f == route[k].forward
             c == Carries(route, k)
             base == mcCache[Pair(route, k)]
  <2>1. Along(route, answered) /\ Passed(answered)
    BY DEF MissionInv, InHand
  <2>2. DOMAIN route = 1 .. Len(route) /\ DOMAIN answered = DOMAIN route /\ Len(route) \in Nat
    BY <2>1, MissionControlAssumption DEF Along
  <2>3. k \in DOMAIN answered /\ k - 1 \in DOMAIN route /\ k \in DOMAIN route /\ k # 1
    BY <2>2
  <2>4. Pair(answered, k) = Pair(route, k)
    BY <2>1, <2>3 DEF Pair, Along
  <2>5. ~(absoluteDeltaPPM(base, f) < FailTolerance)
    BY <2>1, <2>3, <2>4 DEF Passed, FailedBefore
  <2>6. base \in Nat \ {0}
    BY DEF MissionInv, Recorded
  <2>7. f \in Nat /\ c \in Nat /\ f <= c
    BY <2>1, <2>3, MissionControlAssumption DEF Along, Carries
  <2>8. Abs(base - f) * 1000000 >= FailTolerance * base
    <3> HIDE DEF base, f
    <3> QED BY <2>5, <2>6, <2>7, DeltaIsLarge
  <2>9. Fee(route, k) = c - f
    BY DEF Fee
  <2>10. Abs(base - f) <= Abs(base - c) + (c - f)
    <3> HIDE DEF base, f, c
    <3> QED BY <2>6, <2>7 DEF Abs
  <2>11. /\ Abs(base - f) \in Nat /\ Abs(base - c) \in Nat
         /\ FailTolerance * base \in Nat
    <3> HIDE DEF base, f, c
    <3> QED BY <2>6, <2>7, MissionControlAssumption DEF Abs
  <2>12. (Abs(base - c) + (c - f)) * 1000000 >= FailTolerance * base
    <3> HIDE DEF base, f, c
    <3> QED BY <2>7, <2>8, <2>10, <2>11
  <2> QED
    BY <2>9, <2>12
<1> QED
  BY MissionInit, <1>1, <1>2, PTL DEF Spec
=============================================================================
