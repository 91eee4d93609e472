--------------------------- MODULE FeeLimitProofs ---------------------------
(***************************************************************************)
(* Proofs about FeeLimit, for all channels, amounts, policies and settings. *)
(* All they need is that a limit told in this session is still what the    *)
(* cache says, because an entry of the cache is never replaced.            *)
(***************************************************************************)
EXTENDS FeeLimit, TLAPS

\* Every limit told is the one the cache gives now.
Remembered ==
  \A q \in DOMAIN told : Needed(q) \subseteq DOMAIN chanCache /\ told[q] = Limit(q)

FeeInv == TypeOK /\ Remembered

-----------------------------------------------------------------------------
\* Truncation of a quotient that is not negative.
LEMMA Truncated ==
  ASSUME NEW a \in Nat, NEW b \in Nat \ {0}
  PROVE  /\ Quot(a, b) \in Nat
         /\ Quot(a, b) * b <= a
         /\ a < (Quot(a, b) + 1) * b
<1>1. Quot(a, b) = a \div b
  BY DEF Quot, Abs
<1>2. a \div b \in Nat /\ a % b \in Nat /\ a % b < b /\ a = b * (a \div b) + (a % b)
  OBVIOUS
<1>3. (a \div b) * b = b * (a \div b) /\ ((a \div b) + 1) * b = b * (a \div b) + b
  BY <1>2
<1> QED
  BY <1>1, <1>2, <1>3

LEMMA MillionIsPositive == Million \in Nat \ {0}
BY SMT DEF Million

\* The product of two numbers grows with the first.
LEMMA Grows ==
  ASSUME NEW a \in Nat, NEW b \in Nat, NEW c \in Nat, a <= b
  PROVE  a * c <= b * c
OBVIOUS

\* What the cap leaves of a fee is within the rate of the cap.
LEMMA CappedWithinRate ==
  ASSUME NEW fee \in Int, NEW amt \in Nat \ {0}, params.maxPPM \in Nat \ {0}
  PROVE  /\ Capped(fee, amt) \in Int
         /\ Capped(fee, amt) * Million < (params.maxPPM + 1) * amt
<1> DEFINE max == params.maxPPM
<1>1. /\ max * amt \in Nat /\ (max + 1) * amt = max * amt + amt
      /\ max * amt < (max + 1) * amt /\ (max + 1) * amt \in Nat \ {0}
  OBVIOUS
<1>2. CASE Quot(fee * Million, amt) > max
  <2>1. Capped(fee, amt) = Quot(max * amt, Million)
    BY <1>2 DEF Capped
  <2>2. /\ Quot(max * amt, Million) \in Nat
        /\ Quot(max * amt, Million) * Million <= max * amt
    BY <1>1, Truncated, MillionIsPositive
  <2>3. Quot(max * amt, Million) * Million \in Nat
    BY <2>2, MillionIsPositive
  <2> QED
    BY <1>1, <2>1, <2>2, <2>3
<1>3. CASE ~(Quot(fee * Million, amt) > max)
  <2>1. Capped(fee, amt) = fee
    BY <1>3 DEF Capped
  <2>2. CASE fee < 0
    <3>1. fee * Million < 0 /\ fee * Million \in Int
      BY <2>2, MillionIsPositive
    <3> QED
      BY <1>1, <2>1, <3>1
  <2>3. CASE fee >= 0
    <3>1. fee * Million \in Nat
      BY <2>3, MillionIsPositive
    <3>2. /\ Quot(fee * Million, amt) \in Nat
          /\ fee * Million < (Quot(fee * Million, amt) + 1) * amt
      BY <3>1, Truncated
    <3>3. (Quot(fee * Million, amt) + 1) * amt <= (max + 1) * amt
      BY <1>3, <3>2, Grows
    <3>4. (Quot(fee * Million, amt) + 1) * amt \in Nat
      BY <3>2
    <3> QED
      BY <1>1, <2>1, <3>1, <3>2, <3>3, <3>4
  <2> QED
    BY <2>2, <2>3
<1> QED
  BY <1>2, <1>3

\* What the cap leaves of a fee is no more than the fee, and no less than zero if
\* the fee is not.
LEMMA CappedLowers ==
  ASSUME NEW fee \in Int, NEW amt \in Nat \ {0}, params.maxPPM \in Nat
  PROVE  /\ Capped(fee, amt) \in Int /\ Capped(fee, amt) <= fee
         /\ Capped(fee, amt) >= 0 <=> fee >= 0
<1> DEFINE max == params.maxPPM
<1>1. CASE max = 0 \/ ~(Quot(fee * Million, amt) > max)
  BY <1>1 DEF Capped
<1>2. CASE max # 0 /\ Quot(fee * Million, amt) > max
  <2>1. Capped(fee, amt) = Quot(max * amt, Million)
    BY <1>2 DEF Capped
  <2>2. fee * Million \in Int
    BY MillionIsPositive
  <2>3. fee * Million > 0
    <3>1. ASSUME NEW a \in Int, a <= 0 PROVE Quot(a, amt) <= 0
      <4>0. 0 \div amt = 0
        OBVIOUS
      <4>1. CASE a = 0
        BY <4>0, <4>1 DEF Quot, Abs
      <4>2. CASE a < 0
        <5>1. (-a) \div amt \in Nat
          BY <4>2
        <5> QED
          BY <4>2, <5>1 DEF Quot, Abs
      <4> QED
        BY <3>1, <4>1, <4>2
    <3>2. Quot(fee * Million, amt) > 0
      <4>1. Quot(fee * Million, amt) \in Int
        BY <2>2 DEF Quot, Abs
      <4> QED
        BY <1>2, <4>1
    <3>3. ~(fee * Million <= 0)
      <4> SUFFICES ASSUME fee * Million <= 0 PROVE FALSE
        OBVIOUS
      <4>1. Quot(fee * Million, amt) <= 0
        BY <2>2, <3>1
      <4>2. Quot(fee * Million, amt) \in Int
        BY <2>2 DEF Quot, Abs
      <4> QED
        BY <3>2, <4>1, <4>2
    <3> QED
      BY <2>2, <3>3
  <2>4. Quot(fee * Million, amt) \in Nat /\ Quot(fee * Million, amt) * amt <= fee * Million
    BY <2>2, <2>3, Truncated
  <2>5. max * amt <= Quot(fee * Million, amt) * amt
    BY <1>2, <2>4, Grows
  <2>6. /\ max * amt \in Nat /\ Quot(max * amt, Million) \in Nat
        /\ Quot(max * amt, Million) * Million <= max * amt
    <3>1. max * amt \in Nat
      OBVIOUS
    <3> QED
      BY <3>1, Truncated, MillionIsPositive
  <2>7. Quot(max * amt, Million) * Million <= fee * Million
    <3>1. Quot(fee * Million, amt) * amt \in Nat /\ Quot(max * amt, Million) * Million \in Nat
      BY <2>4, <2>6, MillionIsPositive
    <3> QED
      BY <2>2, <2>4, <2>5, <2>6, <3>1
  <2>8. ASSUME NEW n \in Nat, NEW m \in Nat \ {0}, n * m <= fee * m PROVE n <= fee
    BY <2>8
  <2> QED
    BY <2>1, <2>6, <2>7, <2>8, MillionIsPositive
<1> QED
  BY <1>1, <1>2

\* What the fees are computed from.
LEMMA ParamsType ==
  ASSUME TypeOK
  PROVE  /\ params.limitPPM \in Nat /\ params.maxPPM \in Nat /\ params.ratio \in Nat
         /\ params.maxPPM = 0 \/ params.limitPPM = 0
<1>1. params \in Settings
  BY DEF TypeOK
<1>2. params \in [limitPPM : Nat, ratio : Nat, maxPPM : Nat, lostProfit : BOOLEAN]
  BY <1>1, FeeLimitAssumption
<1>3. params.maxPPM = 0 \/ params.limitPPM = 0
  BY <1>1, FeeLimitAssumption
<1> QED
  BY <1>2, <1>3

\* What we charge for an edge of the cache.
LEMMA ScaledType ==
  ASSUME TypeOK, NEW c \in DOMAIN chanCache, NEW amt \in Nat
  PROVE  Scaled(Ours(chanCache[c], c), amt) \in Nat
<1>1. chanCache[c] \in [1 .. 2 -> Policies]
  BY DEF TypeOK, Edges
<1>2. Ours(chanCache[c], c) \in Policies
  BY <1>1 DEF Ours
<1>3. Ours(chanCache[c], c) \in [base : Nat, rate : Nat]
  BY <1>2, FeeLimitAssumption
<1> QED
  BY <1>3 DEF Scaled

\* A limit is a number, and within the rate it is bounded by.
LEMMA LimitWithinRate ==
  ASSUME TypeOK, NEW q \in Queries, Needed(q) \subseteq DOMAIN chanCache
  PROVE  /\ Limit(q) \in Nat \cup {Refused}
         /\ params.limitPPM > 0 => Limit(q) * Million <= params.limitPPM * q.amt
         /\ params.maxPPM > 0 => Limit(q) * Million < (params.maxPPM + 1) * q.amt
<1>1. q.amt \in Nat \ {0}
  BY FeeLimitAssumption DEF Queries
<1>2. /\ params.limitPPM \in Nat /\ params.maxPPM \in Nat /\ params.ratio \in Nat
      /\ params.maxPPM = 0 \/ params.limitPPM = 0
  BY ParamsType
<1>3. CASE params.limitPPM > 0
  <2>1. Limit(q) = Quot(q.amt * params.limitPPM, Million)
    BY <1>3 DEF Limit, calcFeeMsat, calcFeeLimitMsat
  <2>2. q.amt * params.limitPPM \in Nat /\ q.amt * params.limitPPM = params.limitPPM * q.amt
    BY <1>1, <1>2
  <2>3. /\ Quot(q.amt * params.limitPPM, Million) \in Nat
        /\ Quot(q.amt * params.limitPPM, Million) * Million <= q.amt * params.limitPPM
    BY <2>2, Truncated, MillionIsPositive
  <2> QED
    BY <1>2, <1>3, <2>1, <2>2, <2>3
<1>4. CASE params.limitPPM = 0
  <2> DEFINE target == Ours(chanCache[q.to], q.to)
             source == Ours(chanCache[q.from], q.from)
             share == Quot(Scaled(target, q.amt) * params.ratio, 10 * Million)
             fee == share - LostProfit(source, q.amt)
  <2>1. Limit(q) = NotNegative(Capped(fee, q.amt))
    BY <1>4 DEF Limit, calcFeeMsat, calcEconFeeMsat
  <2>2. share \in Nat
    <3>1. Scaled(target, q.amt) \in Nat
      BY <1>1, ScaledType DEF Needed
    <3>2. Scaled(target, q.amt) * params.ratio \in Nat
      BY <3>1, <1>2
    <3>3. 10 * Million \in Nat \ {0}
      BY MillionIsPositive
    <3> QED
      BY <3>2, <3>3, Truncated
  <2>3. LostProfit(source, q.amt) \in Nat
    <3>1. CASE params.lostProfit
      <4>1. Scaled(source, q.amt) \in Nat
        BY <1>1, <1>4, <3>1, ScaledType DEF Needed
      <4>2. Quot(Scaled(source, q.amt), Million) \in Nat
        BY <4>1, Truncated, MillionIsPositive
      <4> QED
        BY <3>1, <4>2 DEF LostProfit
    <3>2. CASE ~params.lostProfit
      BY <3>2 DEF LostProfit
    <3> QED
      BY <3>1, <3>2
  <2>4. fee \in Int
    BY <2>2, <2>3
  <2> HIDE DEF fee
  <2>5. Capped(fee, q.amt) \in Int
    <3>1. CASE params.maxPPM = 0
      BY <2>4, <3>1 DEF Capped
    <3>2. CASE params.maxPPM # 0
      BY <1>1, <1>2, <2>4, <3>2, CappedWithinRate
    <3> QED
      BY <3>1, <3>2
  <2>6. Limit(q) \in Nat \cup {Refused} /\ (Limit(q) = Capped(fee, q.amt) \/ Limit(q) = -1)
    BY <2>1, <2>5 DEF NotNegative, Refused
  <2>7. CASE params.maxPPM > 0
    <3>1. params.maxPPM \in Nat \ {0}
      BY <1>2, <2>7
    <3>2. Capped(fee, q.amt) * Million < (params.maxPPM + 1) * q.amt
      BY <1>1, <2>4, <3>1, CappedWithinRate
    <3>3. (params.maxPPM + 1) * q.amt \in Nat
      BY <1>1, <1>2
    <3>4. (-1) * Million < (params.maxPPM + 1) * q.amt
      BY <3>3, MillionIsPositive
    <3>5. Limit(q) * Million < (params.maxPPM + 1) * q.amt
      BY <2>6, <3>2, <3>4
    <3> QED
      BY <1>4, <2>6, <3>5
  <2>8. CASE params.maxPPM = 0
    BY <1>4, <2>6, <2>8
  <2> QED
    BY <1>2, <2>7, <2>8
<1> QED
  BY <1>2, <1>3, <1>4

-----------------------------------------------------------------------------
LEMMA FeeInit == Init => FeeInv
<1> SUFFICES ASSUME Init PROVE FeeInv
  OBVIOUS
<1>1. TypeOK
  BY DEF Init, TypeOK
<1>2. Remembered
  BY DEF Init, Remembered
<1> QED
  BY <1>1, <1>2 DEF FeeInv

\* A limit stays what it is while the entries it needs stay in the cache.
LEMMA LimitStays ==
  ASSUME TypeOK, NEW q \in Queries,
         UNCHANGED <<params, first>>,
         \A c \in Needed(q) : chanCache'[c] = chanCache[c]
  PROVE  Limit(q)' = Limit(q) /\ Needed(q)' = Needed(q)
<1>1. chanCache'[q.to] = chanCache[q.to]
  BY DEF Needed
<1>2. Ours(chanCache[q.to], q.to)' = Ours(chanCache[q.to], q.to)
  BY <1>1 DEF Ours
<1>3. CASE params.limitPPM = 0 /\ params.lostProfit
  <2>1. chanCache'[q.from] = chanCache[q.from]
    BY <1>3 DEF Needed
  <2>2. Ours(chanCache[q.from], q.from)' = Ours(chanCache[q.from], q.from)
    BY <2>1 DEF Ours
  <2> QED
    BY <1>1, <2>1 DEF Limit, calcFeeMsat, calcFeeLimitMsat, calcEconFeeMsat,
       NotNegative, Capped, Scaled, LostProfit, Ours, Needed
<1>4. CASE ~(params.limitPPM = 0 /\ params.lostProfit)
  <2>1. CASE params.limitPPM > 0
    BY <1>4, <2>1 DEF Limit, calcFeeMsat, calcFeeLimitMsat, Needed
  <2>2. CASE params.limitPPM = 0 /\ ~params.lostProfit
    BY <1>1, <2>2 DEF Limit, calcFeeMsat, calcEconFeeMsat,
       NotNegative, Capped, Scaled, LostProfit, Ours, Needed
  <2> QED
    BY <1>4, <2>1, <2>2, ParamsType
<1> QED
  BY <1>3, <1>4

\* No step replaces an entry of the cache, so no limit told changes.
LEMMA FeeStep ==
  ASSUME FeeInv, [Next]_vars
  PROVE  /\ FeeInv'
         /\ \A q \in DOMAIN told : q \in DOMAIN told' /\ told'[q] = told[q]
<1>t. TypeOK /\ Remembered /\ DOMAIN told \subseteq Queries
  BY DEF FeeInv, TypeOK
<1>1. ASSUME NEW c \in Channels, getChanInfo(c)
      PROVE  FeeInv' /\ UNCHANGED told
  <2>1. /\ UNCHANGED <<params, first, graph, told>> /\ c \notin DOMAIN chanCache
        /\ chanCache' = [x \in DOMAIN chanCache \cup {c} |->
                           IF x = c THEN graph[c] ELSE chanCache[x]]
    BY <1>1 DEF getChanInfo
  <2>2. DOMAIN chanCache' = DOMAIN chanCache \cup {c}
    BY <2>1
  <2>3. \A x \in DOMAIN chanCache : chanCache'[x] = chanCache[x]
    BY <2>1
  <2>4. TypeOK'
    <3>1. graph[c] \in Edges
      BY <1>t DEF TypeOK
    <3>2. DOMAIN chanCache' \subseteq Channels /\ chanCache' \in [DOMAIN chanCache' -> Edges]
      BY <1>t, <2>1, <3>1 DEF TypeOK
    <3> QED
      BY <1>t, <2>1, <3>2 DEF TypeOK
  <2>5. Remembered'
    <3>1. ASSUME NEW q \in DOMAIN told
          PROVE  Needed(q)' \subseteq DOMAIN chanCache' /\ told'[q] = Limit(q)'
      <4>1. q \in Queries /\ Needed(q) \subseteq DOMAIN chanCache /\ told[q] = Limit(q)
        BY <1>t, <3>1 DEF Remembered
      <4>2. Limit(q)' = Limit(q) /\ Needed(q)' = Needed(q)
        BY <1>t, <2>1, <2>3, <4>1, LimitStays
      <4> QED
        BY <2>1, <2>2, <4>1, <4>2
    <3> QED
      BY <2>1, <3>1 DEF Remembered
  <2> QED
    BY <2>1, <2>4, <2>5 DEF FeeInv
<1>2. ASSUME NEW c \in Channels, PolicyUpdate(c)
      PROVE  FeeInv' /\ UNCHANGED told
  <2>1. UNCHANGED <<params, first, chanCache, told>>
    BY <1>2 DEF PolicyUpdate
  <2>2. graph' \in [Channels -> Edges]
    <3>1. PICK end \in 1 .. 2, p \in Policies : graph' = [graph EXCEPT ![c][end] = p]
      BY <1>2 DEF PolicyUpdate
    <3>2. graph \in [Channels -> [1 .. 2 -> Policies]]
      BY <1>t DEF TypeOK, Edges
    <3>3. [graph[c] EXCEPT ![end] = p] \in [1 .. 2 -> Policies]
      BY <3>2
    <3> QED
      BY <3>1, <3>2, <3>3 DEF Edges
  <2>3. TypeOK'
    BY <1>t, <2>1, <2>2 DEF TypeOK
  <2>4. Remembered'
    BY <1>t, <2>1, LimitStays DEF Remembered
  <2> QED
    BY <2>1, <2>3, <2>4 DEF FeeInv
<1>3. ASSUME NEW q \in Queries, TellLimit(q)
      PROVE  /\ FeeInv'
             /\ \A x \in DOMAIN told : x \in DOMAIN told' /\ told'[x] = told[x]
  <2>1. /\ UNCHANGED <<params, first, graph, chanCache>>
        /\ Needed(q) \subseteq DOMAIN chanCache
        /\ told' = [x \in DOMAIN told \cup {q} |-> IF x = q THEN Limit(q) ELSE told[x]]
    BY <1>3 DEF TellLimit
  <2>2. \A x \in Queries : Limit(x)' = Limit(x) /\ Needed(x)' = Needed(x)
    BY <1>t, <2>1, LimitStays
  <2>3. \A x \in DOMAIN told' :
          /\ x \in Queries
          /\ Needed(x) \subseteq DOMAIN chanCache
          /\ told'[x] = Limit(x)
    BY <1>t, <2>1 DEF Remembered
  <2>4. TypeOK'
    <3>1. \A x \in DOMAIN told' : told'[x] \in Nat \cup {Refused}
      BY <1>t, <2>3, LimitWithinRate
    <3> QED
      BY <1>t, <2>1, <2>3, <3>1 DEF TypeOK
  <2>5. Remembered'
    BY <2>1, <2>2, <2>3 DEF Remembered
  <2>6. \A x \in DOMAIN told : x \in DOMAIN told' /\ told'[x] = told[x]
    BY <1>t, <2>1 DEF Remembered
  <2> QED
    BY <2>4, <2>5, <2>6 DEF FeeInv
<1>4. CASE UNCHANGED vars
  <2>1. UNCHANGED <<params, first, graph, chanCache, told>>
    BY <1>4 DEF vars
  <2>2. TypeOK'
    BY <1>t, <2>1 DEF TypeOK
  <2>3. Remembered'
    BY <1>t, <2>1, LimitStays DEF Remembered
  <2> QED
    BY <2>1, <2>2, <2>3 DEF FeeInv
<1> QED
  BY <1>1, <1>2, <1>3, <1>4 DEF Next

\* The cache and the limits keep their types; a limit is a number that is not
\* negative, or refused.
THEOREM FeeLimitTypes == Spec => []TypeOK
<1>1. FeeInv /\ [Next]_vars => FeeInv'
  BY FeeStep
<1>2. FeeInv => TypeOK
  BY DEF FeeInv
<1> QED
  BY <1>1, <1>2, FeeInit, PTL DEF Spec

\* In a session the limit of an amount between two channels never changes, for
\* all policies the channels had and get: what Payment and Session take for a
\* constant is one.
THEOREM SessionLimitsNeverChange == Spec => LimitsNeverChange
<1>1. FeeInv /\ [Next]_vars => FeeInv'
  BY FeeStep
<1>2. FeeInv /\ [Next]_vars =>
        [\A q \in DOMAIN told : q \in DOMAIN told' /\ told'[q] = told[q]]_vars
  BY FeeStep
<1> QED
  BY <1>1, <1>2, FeeInit, PTL DEF Spec, LimitsNeverChange

\* Whatever the fees, a limit is within the rate params.FeeLimitPPM or
\* params.EconRatioMaxPPM sets.
THEOREM LimitsWithinRate == Spec => []WithinRate
<1>1. FeeInv /\ [Next]_vars => FeeInv'
  BY FeeStep
<1>2. FeeInv => WithinRate
  BY LimitWithinRate DEF FeeInv, TypeOK, Remembered, WithinRate
<1> QED
  BY <1>1, <1>2, FeeInit, PTL DEF Spec

-----------------------------------------------------------------------------
\* What we charge for an edge of the cache, and the scaled fee that it is at least.
LEMMA FeeType ==
  ASSUME TypeOK, NEW c \in DOMAIN chanCache, NEW amt \in Nat
  PROVE  LET policy == Ours(chanCache[c], c)
         IN  /\ policy \in [base : Nat, rate : Nat]
             /\ policy.base * Million \in Nat /\ amt * policy.rate \in Nat
             /\ Fee(policy, amt) \in Nat /\ Scaled(policy, amt) \in Nat
             /\ Scaled(policy, amt) <= Fee(policy, amt)
             /\ policy.base = 0 => Scaled(policy, amt) = Fee(policy, amt)
             /\ Fee([policy EXCEPT !.base = 0], amt) = amt * policy.rate
             /\ amt * policy.rate <= Scaled(policy, amt)
<1> DEFINE policy == Ours(chanCache[c], c)
<1>1. chanCache[c] \in [1 .. 2 -> Policies]
  BY DEF TypeOK, Edges
<1>2. policy \in [base : Nat, rate : Nat]
  BY <1>1, FeeLimitAssumption DEF Ours
<1> HIDE DEF policy
<1>3. policy.base \in Nat /\ policy.rate \in Nat /\ amt * policy.rate \in Nat
  BY <1>2
<1>4. policy.base <= policy.base * Million /\ policy.base * Million \in Nat
  <2>1. ASSUME NEW b \in Nat, NEW m \in Nat \ {0} PROVE b <= b * m /\ b * m \in Nat
    OBVIOUS
  <2> QED
    BY <1>3, <2>1, MillionIsPositive
<1>5. policy.base = 0 => policy.base * Million = 0
  BY MillionIsPositive
<1>6. Fee([policy EXCEPT !.base = 0], amt) = amt * policy.rate
  <2>1. [policy EXCEPT !.base = 0].base = 0 /\ [policy EXCEPT !.base = 0].rate = policy.rate
    BY <1>2
  <2>2. 0 * Million = 0
    BY MillionIsPositive
  <2> QED
    BY <1>3, <2>1, <2>2 DEF Fee
<1> QED
  BY <1>2, <1>3, <1>4, <1>5, <1>6 DEF Fee, Scaled, policy

\* A share that is rounded down to millisatoshi, of a fee that is scaled down, is
\* within the share of the fee.
LEMMA ShareRounded ==
  ASSUME NEW scaled \in Nat, NEW fee \in Nat, NEW ratio \in Nat, scaled <= fee
  PROVE  LET e == Quot(scaled * ratio, 10 * Million)
             share == Quot(fee * ratio, 10)
         IN  e \in Nat /\ share \in Nat /\ e * Million <= share
<1> DEFINE x == scaled * ratio
           y == fee * ratio
           e == Quot(x, 10 * Million)
           share == Quot(y, 10)
<1>1. x \in Nat /\ y \in Nat /\ x <= y
  BY Grows
<1> HIDE DEF x, y
<1>2. e \in Nat /\ e * (10 * Million) <= x
  <2>1. 10 * Million \in Nat \ {0}
    BY MillionIsPositive
  <2> QED
    BY <1>1, <2>1, Truncated
<1>3. share \in Nat /\ y < (share + 1) * 10
  BY <1>1, Truncated
<1> HIDE DEF e, share
<1>4. e * (10 * Million) = 10 * (e * Million) /\ e * Million \in Nat
  BY <1>2, MillionIsPositive
<1>5. e * Million <= share
  BY <1>1, <1>2, <1>3, <1>4
<1> QED
  BY <1>2, <1>3, <1>5 DEF e, share, x, y

\* The limit of a query without a fixed rate, from the fees it weighs.
LEMMA EconomicalLimit ==
  ASSUME TypeOK, NEW q \in Queries, Needed(q) \subseteq DOMAIN chanCache, params.limitPPM = 0
  PROVE  LET target == Ours(chanCache[q.to], q.to)
             source == Ours(chanCache[q.from], q.from)
             e == Quot(Scaled(target, q.amt) * params.ratio, 10 * Million)
             lost == LostProfit(source, q.amt)
         IN  /\ e \in Nat /\ lost \in Nat
             /\ Limit(q) = Refused <=> e < lost
             /\ e >= lost =>
                  /\ Limit(q) \in Nat /\ Limit(q) <= e - lost
                  /\ \/ Limit(q) = e - lost
                     \/ params.maxPPM # 0 /\ Limit(q) = Quot(params.maxPPM * q.amt, Million)
<1> DEFINE target == Ours(chanCache[q.to], q.to)
           source == Ours(chanCache[q.from], q.from)
           e == Quot(Scaled(target, q.amt) * params.ratio, 10 * Million)
           lost == LostProfit(source, q.amt)
<1>1. q.amt \in Nat \ {0} /\ params.maxPPM \in Nat /\ params.ratio \in Nat
  BY FeeLimitAssumption, ParamsType DEF Queries
<1>2. Limit(q) = NotNegative(Capped(e - lost, q.amt))
  BY DEF Limit, calcFeeMsat, calcEconFeeMsat
<1>3. e \in Nat
  <2>1. Scaled(target, q.amt) \in Nat
    BY <1>1, FeeType DEF Needed
  <2> QED
    BY <1>1, <2>1, ShareRounded
<1>4. lost \in Nat
  <2>1. CASE params.lostProfit
    <3>1. Scaled(source, q.amt) \in Nat
      BY <1>1, <2>1, FeeType DEF Needed
    <3> QED
      BY <2>1, <3>1, Truncated, MillionIsPositive DEF LostProfit
  <2>2. CASE ~params.lostProfit
    BY <2>2 DEF LostProfit
  <2> QED
    BY <2>1, <2>2
<1> HIDE DEF e, lost
<1>5. e - lost \in Int /\ (e - lost >= 0 <=> e >= lost)
  BY <1>3, <1>4
<1>6. /\ Capped(e - lost, q.amt) \in Int /\ Capped(e - lost, q.amt) <= e - lost
      /\ Capped(e - lost, q.amt) >= 0 <=> e - lost >= 0
  BY <1>1, <1>5, CappedLowers
<1>7. /\ Limit(q) = Refused <=> e < lost
      /\ e >= lost => Limit(q) \in Nat /\ Limit(q) <= e - lost
  BY <1>2, <1>3, <1>4, <1>5, <1>6 DEF NotNegative, Refused
<1>8. \/ Capped(e - lost, q.amt) = e - lost
      \/ params.maxPPM # 0 /\ Capped(e - lost, q.amt) = Quot(params.maxPPM * q.amt, Million)
  BY DEF Capped
<1>9. e >= lost => Limit(q) = Capped(e - lost, q.amt)
  BY <1>2, <1>5, <1>6 DEF NotNegative
<1> QED
  BY <1>3, <1>4, <1>7, <1>8, <1>9 DEF e, lost

\* A limit that is the rounded share of the target's scaled fee, less the
\* source's, is at least the share of what the target's rate earns, less what is
\* lost, but for a millisatoshi.
LEMMA LeastLimit ==
  ASSUME NEW z \in Nat, NEW T \in Nat, NEW ratio \in Nat, z <= T,
         NEW lp \in Nat, NEW lost \in Nat, lp * Million <= lost,
         NEW limit \in Int, limit >= Quot(T * ratio, 10 * Million) - lp
  PROVE  limit * Million > Quot(z * ratio, 10) - lost - Million
<1> DEFINE x == T * ratio
           y == z * ratio
           e == Quot(x, 10 * Million)
           least == Quot(y, 10)
<1>1. x \in Nat /\ y \in Nat /\ y <= x
  BY Grows
<1>2. limit >= e - lp
  OBVIOUS
<1> HIDE DEF x, y
<1>3. e \in Nat /\ x < (e + 1) * (10 * Million)
  <2>1. 10 * Million \in Nat \ {0}
    BY MillionIsPositive
  <2> QED
    BY <1>1, <2>1, Truncated
<1>4. least \in Nat /\ least * 10 <= y
  <2>1. 10 \in Nat \ {0}
    OBVIOUS
  <2> QED
    BY <1>1, <2>1, Truncated
<1> HIDE DEF e, least
<1>5. /\ (e + 1) * (10 * Million) = 10 * (e * Million + Million)
      /\ e * Million \in Nat /\ lp * Million \in Nat /\ Million \in Nat
      /\ limit * Million \in Int
  BY <1>3, MillionIsPositive
<1>6. limit * Million >= e * Million - lp * Million
  <2>1. limit + lp \in Nat /\ e <= limit + lp
    BY <1>3, <1>2
  <2>2. e * Million <= (limit + lp) * Million
    BY <1>3, <2>1, MillionIsPositive, Grows
  <2>3. (limit + lp) * Million = limit * Million + lp * Million
    BY MillionIsPositive
  <2> QED
    BY <2>2, <2>3, <1>5
<1>7. limit * Million > least - lost - Million
  BY <1>1, <1>3, <1>4, <1>5, <1>6
<1> QED
  BY <1>7 DEF least, y

\* README:97 and 101: with an economical ratio a limit is no more than that share
\* of what the target will earn, less what the source would have earned, if that
\* has no base fee, and no less than the target's rate alone gives, or the cap.
THEOREM LimitsEconomical == Spec => []Economical
<1>1. FeeInv /\ [Next]_vars => FeeInv'
  BY FeeStep
<1>2. FeeInv => Economical
  <2> SUFFICES ASSUME FeeInv, NEW q \in DOMAIN told, params.limitPPM = 0
               PROVE  LET target == Ours(chanCache[q.to], q.to)
                          source == Ours(chanCache[q.from], q.from)
                          lost == IF params.lostProfit THEN Fee(source, q.amt) ELSE 0
                      IN  /\ \/ params.maxPPM # 0 /\ told[q] = Quot(params.maxPPM * q.amt, Million)
                             \/ told[q] * Million > Share([target EXCEPT !.base = 0], q.amt) - lost - Million
                          /\ ~params.lostProfit /\ told[q] # Refused =>
                               told[q] * Million <= Share(target, q.amt)
                          /\ params.lostProfit /\ told[q] # Refused /\ source.base = 0 =>
                               told[q] * Million < Share(target, q.amt) - lost + Million
    BY DEF Economical
  <2> DEFINE target == Ours(chanCache[q.to], q.to)
             source == Ours(chanCache[q.from], q.from)
             lost == IF params.lostProfit THEN Fee(source, q.amt) ELSE 0
             ratio == params.ratio
             T == Scaled(target, q.amt)
             S == Scaled(source, q.amt)
             e == Quot(T * ratio, 10 * Million)
             lp == LostProfit(source, q.amt)
             cap == Quot(params.maxPPM * q.amt, Million)
  <2>1. /\ TypeOK /\ q \in Queries /\ Needed(q) \subseteq DOMAIN chanCache /\ told[q] = Limit(q)
        /\ q.amt \in Nat \ {0} /\ ratio \in Nat
    BY FeeLimitAssumption, ParamsType DEF FeeInv, TypeOK, Remembered, Queries
  <2>2. /\ e \in Nat /\ lp \in Nat
        /\ told[q] = Refused <=> e < lp
        /\ e >= lp => /\ told[q] \in Nat /\ told[q] <= e - lp
                      /\ told[q] = e - lp \/ (params.maxPPM # 0 /\ told[q] = cap)
    BY <2>1, EconomicalLimit
  <2>3. /\ Fee(target, q.amt) \in Nat /\ T \in Nat /\ T <= Fee(target, q.amt)
        /\ q.amt * target.rate \in Nat /\ q.amt * target.rate <= T
        /\ Fee([target EXCEPT !.base = 0], q.amt) = q.amt * target.rate
    BY <2>1, FeeType DEF Needed
  <2>4. params.lostProfit =>
          /\ Fee(source, q.amt) \in Nat /\ S \in Nat /\ S <= Fee(source, q.amt)
          /\ source.base = 0 => S = Fee(source, q.amt)
    BY <2>1, FeeType DEF Needed
  <2>5. lp = IF params.lostProfit THEN Quot(S, Million) ELSE 0
    BY DEF LostProfit
  <2>6. params.lostProfit => lp * Million <= S /\ S < (lp + 1) * Million
    BY <2>4, <2>5, Truncated, MillionIsPositive
  <2>7. Share(target, q.amt) \in Nat /\ e * Million <= Share(target, q.amt)
    BY <2>1, <2>3, ShareRounded DEF Share
  <2>8. /\ lp * Million \in Nat /\ e * Million \in Nat /\ (lp + 1) * Million = lp * Million + Million
    BY <2>2, MillionIsPositive
  <2>9. ASSUME ~(params.maxPPM # 0 /\ told[q] = cap)
        PROVE  told[q] * Million > Share([target EXCEPT !.base = 0], q.amt) - lost - Million
    <3> DEFINE z == q.amt * target.rate
    <3>1. lost \in Nat /\ lp * Million <= lost
      <4>1. CASE params.lostProfit
        <5>1. lost = Fee(source, q.amt) /\ Fee(source, q.amt) \in Nat /\ S \in Nat
          BY <2>4, <4>1
        <5>2. lp * Million <= S /\ S <= Fee(source, q.amt)
          BY <2>4, <2>6, <4>1
        <5> HIDE DEF lp, S, lost
        <5> QED
          BY <5>1, <5>2, <2>8
      <4>2. CASE ~params.lostProfit
        <5>1. lp = 0 /\ lost = 0
          BY <2>5, <4>2
        <5> HIDE DEF lp, lost
        <5> QED
          BY <5>1, MillionIsPositive
      <4> QED
        BY <4>1, <4>2
    <3>2. told[q] \in Int /\ told[q] >= e - lp
      <4>1. CASE told[q] = Refused
        <5>1. e < lp
          BY <2>2, <4>1
        <5> HIDE DEF e, lp
        <5> QED
          BY <4>1, <5>1, <2>2 DEF Refused
      <4>2. CASE told[q] # Refused
        <5>1. e >= lp
          <6>1. ~(e < lp)
            BY <2>2, <4>2
          <6> HIDE DEF e, lp
          <6> QED
            BY <6>1, <2>2
        <5>2. told[q] = e - lp /\ told[q] \in Nat
          BY <2>2, <2>9, <5>1
        <5> HIDE DEF e, lp
        <5> QED
          BY <5>2, <2>2
      <4> QED
        BY <4>1, <4>2
    <3>3. Share([target EXCEPT !.base = 0], q.amt) = Quot(z * ratio, 10)
      BY <2>3 DEF Share
    <3>4. z \in Nat /\ T \in Nat /\ z <= T
      BY <2>3
    <3> HIDE DEF z, T, lp, lost
    <3>5. told[q] * Million > Quot(z * ratio, 10) - lost - Million
      BY <2>1, <2>2, <3>1, <3>2, <3>4, LeastLimit
    <3> QED
      BY <3>3, <3>5
  <2>10. ASSUME told[q] # Refused
         PROVE  /\ ~params.lostProfit => told[q] * Million <= Share(target, q.amt)
                /\ params.lostProfit /\ source.base = 0 =>
                     told[q] * Million < Share(target, q.amt) - lost + Million
    <3>1. e >= lp /\ told[q] \in Nat /\ told[q] <= e - lp
      <4>1. ~(e < lp)
        BY <2>2, <2>10
      <4>2. e >= lp
        <5> HIDE DEF e, lp
        <5> QED BY <4>1, <2>2
      <4> QED
        BY <4>2, <2>2
    <3>2. told[q] * Million <= (e - lp) * Million /\ told[q] * Million \in Nat
      <4>1. e - lp \in Nat
        <5> HIDE DEF e, lp
        <5> QED BY <2>2, <3>1
      <4> QED
        BY <4>1, <3>1, MillionIsPositive, Grows
    <3>3. (e - lp) * Million = e * Million - lp * Million
      BY <2>2, MillionIsPositive
    <3>4. Million \in Nat
      BY MillionIsPositive
    <3> HIDE DEF e, lp
    <3>5. ASSUME ~params.lostProfit PROVE told[q] * Million <= Share(target, q.amt)
      BY <2>7, <2>8, <3>2, <3>3, <3>5
    <3>6. ASSUME params.lostProfit, source.base = 0
          PROVE  told[q] * Million < Share(target, q.amt) - lost + Million
      <4>1. lost = S /\ S \in Nat
        BY <2>4, <3>6
      <4>2. S < lp * Million + Million
        BY <2>6, <2>8, <3>6
      <4> HIDE DEF lost, S
      <4> QED
        BY <2>7, <2>8, <3>2, <3>3, <3>4, <4>1, <4>2
    <3> QED
      BY <3>5, <3>6
  <2> QED
    BY <2>9, <2>10
<1> QED
  BY <1>1, <1>2, FeeInit, PTL DEF Spec
=============================================================================
