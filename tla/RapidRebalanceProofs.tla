------------------------ MODULE RapidRebalanceProofs ------------------------
(***************************************************************************)
(* Proofs about RapidRebalance, for all amounts, routes and balances and   *)
(* any number of payments.                                                 *)
(***************************************************************************)
EXTENDS RapidRebalance, WellFoundedInduction, TLAPS

\* Between the payments: what the summary tells is what was paid, as far as lnd
\* answered.
Told ==
  /\ successfulAmt <= paid
  /\ calm => successfulAmt = paid /\ paidFee = fees

\* In the decreasing phase the amount is the fraction of the first one that the
\* accelerator gives, unless the last pick failed, or offered less, after which
\* the loop ends.
Fraction ==
  strategy = "decrease" =>
    /\ accelerator > 0
    /\ exitEarly \/ amtLocal = 0 \/ amtLocal = Halved(accelerator)
    /\ pc = "pick" => amtLocal > 0

\* The first amount is below what every hop takes.
RoomToGrow == \A m \in Limits : amt < m

\* A failed pick leaves no amount, which the next one would take for no limit;
\* but then the accelerator is halved, and half of it gives an amount that is
\* below the limits.
UnderLimits ==
  RoomToGrow =>
    /\ \A m \in Limits : amtLocal <= m
    /\ pc = "pick" => amtLocal > 0
    /\ strategy = "increase" =>
         /\ UnderCap(accelerator \div 2)
         /\ hittingTheWall \/ capReached \/ UnderCap(accelerator)
         /\ amtLocal = 0 => hittingTheWall

\* No more is left of the room or of what the hops forward.
Within(n) == room <= n \/ carry <= n

\* All divisors of a power of two are even, except one.
PowerOfTwo(n) == n > 0 /\ \A d, k \in 1 .. n : d * k = n => d = 1 \/ d % 2 = 0

\* While the amount increases: once something gave, what is left fits the last
\* multiple of the first amount, and then half of it after each attempt.
Climbing ==
  strategy = "increase" =>
    /\ ~exitEarly /\ PowerOfTwo(accelerator)
    /\ least <= amt /\ least <= amtLocal /\ amtLocal <= maxAmountOnRoute
    /\ ~hittingTheWall /\ ~capReached => amtLocal = accelerator * amt
    /\ Within(amtLocal) \/ 2 * amtLocal >= accelerator * amt
    /\ hittingTheWall => Within(maxAmountOnRoute)
    /\ pc = "next" /\ hittingTheWall => Within(accelerator * amt)
    /\ pc \in {"pick", "pay"} =>
         /\ amtLocal <= accelerator * amt
         /\ hittingTheWall =>
              \/ Within(accelerator * amt)
              \/ Within(2 * (accelerator * amt)) /\ amtLocal = accelerator * amt

\* While it decreases: what is left fits the last fraction, but for one satoshi
\* for each that was tried.
Descending ==
  strategy = "decrease" /\ ~exitEarly =>
    /\ pc = "next" => Within(Halved(accelerator) + halved)
    /\ pc \in {"pick", "pay"} =>
         amtLocal = Halved(accelerator) /\ Within(2 * Halved(accelerator) + halved)
    /\ pc = "done" => Within(2 * minAmount + halved - 1)

\* All that, unless no more than the minimum is left, or the payments moved the
\* pair past the criteria.
Drained == Within(minAmount)
Open ==
  /\ pc # "done" => amtLocal > 0
  /\ pc = "pick" => least <= amtLocal
  /\ pc = "done" => strategy = "decrease"
  /\ Climbing /\ Descending
Squeezing == calm => ~Qualifies \/ Drained \/ Open

RapidInv == TypeOK /\ Told /\ Fraction /\ UnderLimits /\ Squeezing

-----------------------------------------------------------------------------
\* A set of natural numbers has a smallest one.
LEMMA Smallest ==
  ASSUME NEW S \in SUBSET Nat, S # {}
  PROVE  Min(S) \in S /\ \A y \in S : Min(S) <= y
<1> DEFINE R == {ss \in Nat \X Nat : ss[1] < ss[2]}
<1>1. IsWellFoundedOn(R, Nat)
  BY NatLessThanWellFounded, Zenon DEF OpToRel
<1>2. \E x \in S : \A y \in S : ~(<<y, x>> \in R)
  <2> HIDE DEF R
  <2> QED BY <1>1, WFMin
<1>3. \E x \in S : \A y \in S : x =< y
  <2>1. PICK x \in S : \A y \in S : ~(<<y, x>> \in R)
    BY <1>2
  <2>2. ASSUME NEW y \in S, y < x PROVE FALSE
    <3>1. <<y, x>> \in Nat \X Nat
      OBVIOUS
    <3>2. <<y, x>>[1] = y /\ <<y, x>>[2] = x
      OBVIOUS
    <3>3. <<y, x>> \in R
      BY <3>1, <3>2, <2>2
    <3> QED
      BY <2>1, <3>3
  <2> QED
    BY <2>2
<1> QED
  BY <1>3 DEF Min

\* The limit of a route is one of its hops' or none.
LEMMA RouteLimit ==
  ASSUME TypeOK
  PROVE  /\ Limits \subseteq Nat /\ maxAmountOnRoute \in Limits \cup {NoLimit}
         /\ maxAmountOnRoute \in Nat /\ \A m \in Limits : maxAmountOnRoute <= m
<1>1. hops \in Seq(Nat) /\ NoLimit \in Nat
  BY RapidAmountsAssumption DEF TypeOK
<1>2. Limits \subseteq Nat
  BY <1>1 DEF Limits
<1> QED
  BY <1>1, <1>2, Smallest DEF maxAmountOnRoute

\* Products grow with their first factor.
LEMMA Grows ==
  ASSUME NEW a \in Nat, NEW b \in Nat, NEW c \in Nat, a <= b
  PROVE  a * c <= b * c /\ a * c \in Nat /\ b * c \in Nat
OBVIOUS

\* A quotient bounds the number from both sides.
LEMMA Quotient ==
  ASSUME NEW a \in Nat, NEW c \in Nat \ {0}
  PROVE  /\ a \div c \in Nat /\ a \div c <= a
         /\ (a \div c) * c <= a /\ a < ((a \div c) + 1) * c
<1>1. a \div c \in Nat /\ a % c \in Nat /\ a % c < c /\ a = c * (a \div c) + (a % c)
  OBVIOUS
<1>2. (a \div c) * c = c * (a \div c) /\ ((a \div c) + 1) * c = c * (a \div c) + c
  BY <1>1
<1>3. 1 * (a \div c) <= c * (a \div c)
  BY <1>1, Grows
<1> QED
  BY <1>1, <1>2, <1>3

\* Twice the divisor gives less, unless it gives nothing.
LEMMA HalvesShrink ==
  ASSUME NEW a \in Nat, NEW c \in Nat \ {0}, a \div (2 * c) > 0
  PROVE  a \div (2 * c) < a \div c
<1> DEFINE p == a \div (2 * c)
           q == a \div c
<1>1. p \in Nat /\ q \in Nat /\ p * (2 * c) <= a /\ a < (q + 1) * c
  BY Quotient
<1>2. p * (2 * c) = (2 * p) * c
  BY <1>1
<1>3. SUFFICES ASSUME q <= p PROVE FALSE
  BY <1>1
<1>4. q + 1 <= 2 * p
  BY <1>1, <1>3
<1>5. (q + 1) * c <= (2 * p) * c
  BY <1>1, <1>4, Grows
<1> QED
  BY <1>1, <1>2, <1>5

\* What is under the limit of the route is under it with half the accelerator,
\* and none at all with an accelerator of zero.
LEMMA StaysUnder ==
  ASSUME TypeOK, NEW a \in Nat, NEW b \in Nat, a <= b, UnderCap(b)
  PROVE  UnderCap(a)
<1>1. a * amt <= b * amt /\ a * amt \in Nat /\ b * amt \in Nat
  BY Grows, RapidAmountsAssumption DEF TypeOK
<1> QED
  BY <1>1, RouteLimit DEF UnderCap

-----------------------------------------------------------------------------
\* What an action leaves of the route.
LEMMA RouteStays ==
  ASSUME TypeOK, [Next]_vars
  PROVE  UNCHANGED <<amt, least, hops, spare, calm>>
BY DEF Next, tryRapidRebalance, SkipAmount, Increase, TurnBack, Decrease, PickFails, Pick,
       PaySucceeds, PayTooExpensive, PayFails, PayTimesOut, NoCandidates, Abort, Shift, Carried,
       vars, route,
       world

\* The types the assumptions give the parameters of a route, and its minimum.
LEMMA RouteTypes ==
  ASSUME TypeOK
  PROVE  /\ amt \in Nat \ {0} /\ amt < NoLimit /\ least \in Nat /\ minAmount \in Nat \ {0}
         /\ routeFee \in Nat /\ NoLimit \in Nat
BY RapidAmountsAssumption DEF TypeOK, minAmount

\* The first payment has the types.
LEMMA TypeInit == Init => TypeOK
<1> SUFFICES ASSUME Init PROVE TypeOK
  OBVIOUS
<1> QED
  BY RapidAmountsAssumption DEF Init, TypeOK

\* One is a power of two.
LEMMA PowerOne == PowerOfTwo(1)
BY DEF PowerOfTwo

\* Before the phases there is room to grow.
LEMMA SqueezingInit == Init => Squeezing
<1> SUFFICES ASSUME Init PROVE Open
  BY DEF Squeezing
<1>1. TypeOK /\ amt \in Nat \ {0} /\ 1 * amt = amt /\ maxAmountOnRoute \in Nat
  BY TypeInit, RouteTypes, RouteLimit
<1>2. amt <= maxAmountOnRoute
  <2>1. \A m \in Limits : amt <= m
    BY DEF Init, Limits
  <2> QED
    BY <1>1, <2>1, RouteLimit, RouteTypes
<1>3. Climbing
  BY <1>1, <1>2, PowerOne DEF Init, Climbing
<1> QED
  BY <1>1, <1>3 DEF Init, Open, Descending

LEMMA RapidInit == Init => RapidInv
<1> SUFFICES ASSUME Init PROVE RapidInv
  OBVIOUS
<1>1. TypeOK /\ Squeezing
  BY TypeInit, SqueezingInit
<1>2. amt \in Nat \ {0} /\ 1 \div 2 = 0 /\ 0 * amt = 0 /\ 1 * amt = amt
  BY <1>1, RouteTypes
<1>3. Told /\ Fraction
  BY <1>1 DEF Init, Told, Fraction, TypeOK
<1>4. ASSUME RoomToGrow PROVE amt < maxAmountOnRoute
  BY <1>1, <1>4, RouteLimit, RouteTypes DEF RoomToGrow
<1>5. ASSUME RoomToGrow PROVE UnderCap(1 \div 2) /\ UnderCap(1)
  BY <1>1, <1>2, <1>4, <1>5, RouteLimit DEF UnderCap
<1>6. UnderLimits
  BY <1>1, <1>2, <1>5, RouteLimit DEF UnderLimits, RoomToGrow, Init
<1> QED
  BY <1>1, <1>3, <1>6 DEF RapidInv

\* The amount a pick offers.
LEMMA PickOffers ==
  ASSUME TypeOK, ~TooLittle(amtLocal)
  PROVE  /\ Available(amtLocal) \in Nat \ {0}
         /\ amtLocal > 0 => Available(amtLocal) <= amtLocal
BY DEF TypeOK, TooLittle, Available

\* Every step keeps the types: the accelerator that divides is never zero.
LEMMA TypeStep ==
  ASSUME TypeOK, Fraction, [Next]_vars
  PROVE  TypeOK'
<1> USE RouteStays, RouteTypes DEF TypeOK
<1>1. CASE SkipAmount
  BY <1>1 DEF SkipAmount, NextAccelerator, route, summary, world, history
<1>2. CASE Increase
  <2>1. accelerator' \in Nat /\ accelerator' * amt \in Nat
    BY <1>2 DEF Increase, NextAccelerator
  <2> QED
    BY <1>2, <2>1 DEF Increase, Attempt, route, summary, world, history
<1>3. CASE TurnBack
  <2>1. Halved(2) \in Nat
    BY DEF Halved
  <2> QED
    BY <1>3, <2>1 DEF TurnBack, TryFraction, Attempt, route, summary, world, history
<1>4. CASE Decrease
  <2>1. accelerator' \in Nat \ {0} /\ Halved(accelerator') \in Nat
    BY <1>4, Quotient DEF Decrease, Fraction, Halved
  <2> QED
    BY <1>4, <2>1 DEF Decrease, TryFraction, Attempt, route, summary, world, history
<1>5. CASE PickFails
  BY <1>5 DEF PickFails, route, summary, world, history
<1>6. CASE Pick
  BY <1>6, PickOffers, RapidAmountsAssumption DEF Pick, route, summary, world, history
<1>7. ASSUME Carried PROVE room' \in Nat /\ carry' \in Nat /\ paid' \in Nat /\ fees' \in Nat
  BY <1>7, RapidAmountsAssumption DEF Carried
<1>8. CASE PaySucceeds
  BY <1>7, <1>8 DEF PaySucceeds, Counted, route, control
<1>9. CASE PayTooExpensive \/ PayFails \/ PayTimesOut \/ NoCandidates \/ Abort
  BY <1>7, <1>9 DEF PayTooExpensive, PayFails, PayTimesOut, NoCandidates, Abort, route, control,
     summary, world,
                    history
<1>10. CASE Shift
  BY <1>10, RapidAmountsAssumption DEF Shift, route, control, summary, history
<1>11. CASE UNCHANGED vars
  BY <1>11 DEF vars, route, control, summary, world, history
<1> QED
  BY <1>1, <1>2, <1>3, <1>4, <1>5, <1>6, <1>8, <1>9, <1>10, <1>11 DEF Next, tryRapidRebalance

\* The summary follows the payments.
LEMMA ToldStep ==
  ASSUME TypeOK, Told, [Next]_vars
  PROVE  Told'
<1> USE RouteStays, RouteTypes DEF Told
<1>1. CASE SkipAmount \/ Increase \/ TurnBack \/ Decrease
  BY <1>1 DEF SkipAmount, Increase, TurnBack, Decrease, summary, world, history
<1>2. CASE PickFails \/ Pick \/ NoCandidates \/ Abort \/ PayTooExpensive
  BY <1>2 DEF PickFails, Pick, NoCandidates, Abort, PayTooExpensive, summary, world, history
<1>3. ASSUME Carried
      PROVE  /\ paid' = paid + amtLocal
             /\ calm => fees' = fees + routeFee
  BY <1>3 DEF Carried
<1>4. CASE PaySucceeds
  BY <1>3, <1>4 DEF PaySucceeds, Counted, TypeOK
<1>5. CASE PayTimesOut \/ PayFails
  BY <1>3, <1>5 DEF PayTimesOut, PayFails, TypeOK, summary, world, history
<1>6. CASE Shift \/ UNCHANGED vars
  BY <1>6 DEF Shift, vars, summary, world, history
<1> QED
  BY <1>1, <1>2, <1>4, <1>5, <1>6 DEF Next, tryRapidRebalance

\* The decreasing phase.
LEMMA FractionStep ==
  ASSUME TypeOK, Fraction, [Next]_vars
  PROVE  Fraction'
<1> USE RouteStays, RouteTypes DEF Fraction
<1>1. CASE SkipAmount \/ Increase
  BY <1>1 DEF SkipAmount, Increase
<1>2. CASE TurnBack
  <2>1. accelerator' = 2 /\ amtLocal' = Halved(2) /\ UNCHANGED amt
    BY <1>2 DEF TurnBack, TryFraction
  <2>2. pc' = "pick" => amtLocal' >= minAmount
    BY <1>2, <2>1, Quotient DEF TurnBack, TryFraction, Attempt, Halved
  <2> QED
    BY <2>1, <2>2 DEF Halved
<1>3. CASE Decrease
  <2>1. /\ accelerator \in Nat \ {0} /\ accelerator' = 2 * accelerator
        /\ Halved(accelerator') \in Nat /\ Halved(accelerator) \in Nat /\ amtLocal \in Nat
    BY <1>3, Quotient DEF Decrease, TypeOK, Halved
  <2>2. Halved(accelerator') = 0 \/ Halved(accelerator') < Halved(accelerator)
    BY <2>1, HalvesShrink DEF Halved
  <2>3. CASE amtLocal < Halved(accelerator')
    <3>1. UNCHANGED <<amtLocal, pc, exitEarly, strategy>> /\ pc = "next"
      BY <1>3, <2>3 DEF Decrease
    <3> QED
      BY <1>3, <2>1, <2>2, <2>3, <3>1 DEF Decrease
  <2>4. CASE ~(amtLocal < Halved(accelerator'))
    <3>1. amtLocal' = Halved(accelerator') /\ (pc' = "pick" => amtLocal' >= minAmount)
      BY <1>3, <2>1, <2>4 DEF Decrease, TryFraction, Attempt
    <3>2. (Halved(accelerator))' = Halved(accelerator')
      BY DEF Halved
    <3> QED
      BY <2>1, <3>1, <3>2
  <2> QED
    BY <2>3, <2>4
<1>4. CASE PickFails
  BY <1>4 DEF PickFails
<1>5. CASE Pick
  <2>1. /\ amtLocal \in Nat /\ amtLocal' \in Nat \ {0}
        /\ amtLocal > 0 => amtLocal' <= amtLocal
    BY <1>5, PickOffers DEF Pick, TypeOK
  <2>2. /\ UNCHANGED <<amt, accelerator, strategy>> /\ pc = "pick" /\ pc' = "pay"
        /\ exitEarly' = (exitEarly \/ (amtLocal' < amtLocal /\ strategy = "decrease"))
    BY <1>5 DEF Pick
  <2>3. (Halved(accelerator))' = Halved(accelerator)
    BY <2>2 DEF Halved
  <2>4. CASE amtLocal' < amtLocal
    BY <2>2, <2>4
  <2>5. CASE amtLocal' = amtLocal
    BY <2>2, <2>3, <2>5
  <2> QED
    BY <2>1, <2>2, <2>4, <2>5
<1>6. CASE PaySucceeds \/ PayTimesOut \/ NoCandidates \/ Abort \/ PayFails \/ PayTooExpensive \/ Shift
  BY <1>6 DEF PaySucceeds, PayTimesOut, NoCandidates, Abort, PayFails, PayTooExpensive, Shift,
     control, route,
              Halved
<1>7. CASE UNCHANGED vars
  BY <1>7 DEF vars, control, route, Halved
<1> QED
  BY <1>1, <1>2, <1>3, <1>4, <1>5, <1>6, <1>7 DEF Next, tryRapidRebalance

\* Halves of the accelerator.
LEMMA Halving ==
  ASSUME NEW a \in Nat
  PROVE  /\ a \div 2 \in Nat /\ (a \div 2) \div 2 \in Nat
         /\ (a \div 2) \div 2 <= a \div 2 /\ a \div 2 <= a
         /\ (2 * a) \div 2 = a /\ 2 * a \in Nat
OBVIOUS

\* What the next amount of the increasing phase is.
LEMMA IncreaseStaysUnder ==
  ASSUME TypeOK, UnderLimits, RoomToGrow, Increase
  PROVE  /\ \A m \in Limits : amtLocal' <= m
         /\ amtLocal' > 0
         /\ UnderCap(accelerator' \div 2)
         /\ hittingTheWall \/ capReached' \/ UnderCap(accelerator')
<1> DEFINE acc == NextAccelerator
<1>1. /\ strategy = "increase" /\ accelerator' = acc /\ ~(acc < 1)
      /\ IF UnderCap(acc) THEN amtLocal' = acc * amt /\ UNCHANGED capReached
                          ELSE capReached' = TRUE /\ UNCHANGED amtLocal
  BY DEF Increase, EndOfIncrease
<1>2. /\ \A m \in Limits : amtLocal <= m
      /\ UnderCap(accelerator \div 2)
      /\ hittingTheWall \/ capReached \/ UnderCap(accelerator)
      /\ amtLocal = 0 => hittingTheWall
  BY <1>1 DEF UnderLimits
<1>3. acc \in Nat \ {0} /\ acc \div 2 \in Nat /\ acc \div 2 <= acc
  BY <1>1, Halving DEF TypeOK, NextAccelerator
<1>4. ASSUME UnderCap(acc)
      PROVE  /\ \A m \in Limits : amtLocal' <= m
             /\ amtLocal' > 0
             /\ UnderCap(acc \div 2)
  <2>1. amtLocal' = acc * amt /\ acc * amt > 0 /\ acc * amt \in Nat
    BY <1>1, <1>3, <1>4, RouteTypes
  <2>2. acc * amt < maxAmountOnRoute
    BY <1>4 DEF UnderCap
  <2>3. \A m \in Limits : acc * amt <= m
    BY <2>1, <2>2, RouteLimit
  <2> QED
    BY <1>3, <1>4, <2>1, <2>3, StaysUnder
<1>5. CASE hittingTheWall
  <2>1. acc = accelerator \div 2
    BY <1>5 DEF NextAccelerator
  <2> QED
    BY <1>1, <1>2, <1>4, <1>5, <2>1
<1>6. CASE ~hittingTheWall
  <2>1. amtLocal > 0
    BY <1>2, <1>6 DEF TypeOK
  <2>2. UnderCap(acc \div 2)
    <3>1. CASE capReached
      <4>1. acc = accelerator
        BY <1>6, <3>1 DEF NextAccelerator
      <4> QED
        BY <1>2, <4>1
    <3>2. CASE ~capReached
      <4>1. acc = 2 * accelerator /\ acc \div 2 = accelerator
        BY <1>6, <3>2, Halving DEF NextAccelerator, TypeOK
      <4> QED
        BY <1>2, <1>6, <3>2, <4>1
    <3> QED
      BY <3>1, <3>2
  <2>3. CASE UnderCap(acc)
    BY <1>1, <1>4, <2>3
  <2>4. CASE ~UnderCap(acc)
    BY <1>1, <1>2, <2>1, <2>2, <2>4
  <2> QED
    BY <2>3, <2>4
<1> QED
  BY <1>5, <1>6

\* A fraction of the first amount is below every limit.
LEMMA FractionIsUnder ==
  ASSUME TypeOK, RoomToGrow, NEW c \in Nat \ {0}
  PROVE  Halved(c) \in Nat /\ \A m \in Limits : Halved(c) <= m
<1>1. Halved(c) \in Nat /\ Halved(c) <= amt
  BY Quotient, RouteTypes DEF Halved
<1> QED
  BY <1>1, RouteLimit, RouteTypes DEF RoomToGrow

LEMMA UnderLimitsStep ==
  ASSUME TypeOK, Fraction, UnderLimits, [Next]_vars
  PROVE  UnderLimits'
<1>1. UNCHANGED <<amt, hops>>
  BY RouteStays
<1>2. Limits' = Limits /\ maxAmountOnRoute' = maxAmountOnRoute
  BY <1>1 DEF Limits, maxAmountOnRoute
<1>3. RoomToGrow' = RoomToGrow
  BY <1>1, <1>2 DEF RoomToGrow
<1>4. SUFFICES ASSUME RoomToGrow
               PROVE  /\ \A m \in Limits : amtLocal' <= m
                      /\ pc' = "pick" => amtLocal' > 0
                      /\ strategy' = "increase" =>
                           /\ UnderCap(accelerator' \div 2)
                           /\ hittingTheWall' \/ capReached' \/ UnderCap(accelerator')
                           /\ amtLocal' = 0 => hittingTheWall'
  BY <1>1, <1>2, <1>3 DEF UnderLimits, UnderCap
<1>5. /\ \A m \in Limits : amtLocal <= m
      /\ pc = "pick" => amtLocal > 0
      /\ strategy = "increase" =>
           /\ UnderCap(accelerator \div 2)
           /\ hittingTheWall \/ capReached \/ UnderCap(accelerator)
           /\ amtLocal = 0 => hittingTheWall
  BY <1>4 DEF UnderLimits
<1>6. CASE SkipAmount
  <2>1. /\ strategy = "increase" /\ hittingTheWall /\ pc = "next"
        /\ accelerator' = accelerator \div 2
        /\ UNCHANGED <<amtLocal, strategy, hittingTheWall, pc>>
    BY <1>6 DEF SkipAmount, TooMuchAnyway, NextAccelerator
  <2>2. UnderCap(accelerator' \div 2)
    BY <1>5, <2>1, Halving, StaysUnder DEF TypeOK
  <2> QED
    BY <1>5, <2>1, <2>2
<1>7. CASE Increase
  <2>1. UNCHANGED <<strategy, hittingTheWall>>
    BY <1>7 DEF Increase
  <2> QED
    BY <1>4, <1>7, <2>1, IncreaseStaysUnder
<1>8. CASE TurnBack
  <2>1. /\ strategy' = "decrease" /\ amtLocal' = Halved(2)
        /\ pc' = "pick" => amtLocal' >= minAmount
    BY <1>8, FractionIsUnder, RouteTypes, <1>4 DEF TurnBack, TryFraction, Attempt
  <2> QED
    BY <1>4, <2>1, FractionIsUnder, RouteTypes
<1>9. CASE Decrease
  <2>1. /\ strategy = "decrease" /\ strategy' = "decrease" /\ pc = "next"
        /\ accelerator' \in Nat \ {0}
    BY <1>9 DEF Decrease, Fraction, TypeOK
  <2>2. Halved(accelerator') \in Nat /\ \A m \in Limits : Halved(accelerator') <= m
    BY <1>4, <2>1, FractionIsUnder
  <2>3. \/ UNCHANGED <<amtLocal, pc>>
        \/ amtLocal' = Halved(accelerator') /\ (pc' = "pick" => amtLocal' >= minAmount)
    BY <1>9, <2>2, RouteTypes DEF Decrease, TryFraction, Attempt
  <2> QED
    BY <1>5, <2>1, <2>2, <2>3, RouteTypes
<1>10. CASE PickFails
  <2>1. /\ amtLocal' = 0 /\ hittingTheWall' /\ pc' = "next"
        /\ UNCHANGED <<accelerator, strategy>>
    BY <1>10 DEF PickFails
  <2>2. \A m \in Limits : m \in Nat
    BY RouteLimit
  <2> QED
    BY <1>5, <2>1, <2>2
<1>11. CASE Pick
  <2>1. /\ amtLocal' \in Nat \ {0} /\ amtLocal' <= amtLocal /\ amtLocal \in Nat
    BY <1>5, <1>11, PickOffers DEF Pick, TypeOK
  <2>2. /\ hittingTheWall => hittingTheWall'
        /\ UNCHANGED <<accelerator, strategy, capReached>> /\ pc' = "pay"
    BY <1>11 DEF Pick
  <2>3. \A m \in Limits : m \in Nat
    BY RouteLimit
  <2> QED
    BY <1>5, <2>1, <2>2, <2>3
<1>12. CASE PaySucceeds \/ PayTimesOut \/ NoCandidates \/ Abort \/ PayFails \/ PayTooExpensive
  <2>1. /\ UNCHANGED <<amtLocal, accelerator, strategy, capReached>>
        /\ pc' \in {"next", "done"}
        /\ hittingTheWall => hittingTheWall'
    BY <1>12 DEF PaySucceeds, PayTimesOut, NoCandidates, Abort, PayFails, PayTooExpensive, control
  <2> QED
    BY <1>5, <2>1
<1>13. CASE Shift \/ UNCHANGED vars
  BY <1>5, <1>13 DEF Shift, vars, control
<1> QED
  BY <1>6, <1>7, <1>8, <1>9, <1>10, <1>11, <1>12, <1>13 DEF Next, tryRapidRebalance

-----------------------------------------------------------------------------
(* What is left when the loop ends.                                        *)

\* Half and the double of a power of two are powers of two.
LEMMA PowerHalves ==
  ASSUME NEW n \in Nat \ {0}, PowerOfTwo(n), n # 1
  PROVE  /\ n \div 2 \in Nat \ {0} /\ n = 2 * (n \div 2)
         /\ PowerOfTwo(n \div 2)
<1>1. n % 2 = 0
  <2>1. n * 1 = n /\ n \in 1 .. n /\ 1 \in 1 .. n
    OBVIOUS
  <2> QED
    BY <2>1 DEF PowerOfTwo
<1> DEFINE m == n \div 2
<1>2. m \in Nat \ {0} /\ n = 2 * m
  BY <1>1
<1> HIDE DEF m
<1>3. ASSUME NEW d \in 1 .. m, NEW k \in 1 .. m, d * k = m
      PROVE  d = 1 \/ d % 2 = 0
  <2>1. d * (2 * k) = 2 * (d * k)
    OBVIOUS
  <2>2. d \in 1 .. n /\ 2 * k \in 1 .. n /\ d * (2 * k) = n
    BY <1>2, <1>3, <2>1
  <2> QED
    BY <2>2 DEF PowerOfTwo
<1>4. PowerOfTwo(m)
  BY <1>2, <1>3 DEF PowerOfTwo
<1> QED
  BY <1>2, <1>4 DEF m

LEMMA PowerDoubles ==
  ASSUME NEW n \in Nat \ {0}, PowerOfTwo(n)
  PROVE  2 * n \in Nat \ {0} /\ PowerOfTwo(2 * n)
<1> SUFFICES ASSUME NEW d \in 1 .. 2 * n, NEW k \in 1 .. 2 * n, d * k = 2 * n, d % 2 # 0
             PROVE  d = 1
  BY DEF PowerOfTwo
<1> DEFINE e == d \div 2
           j == n - e * k
<1>1. e \in Nat /\ d = 2 * e + 1
  OBVIOUS
<1>2. (2 * e + 1) * k = 2 * (e * k) + k /\ e * k \in Nat
  BY <1>1
<1>3. k = 2 * j /\ j \in Int
  BY <1>1, <1>2
<1> HIDE DEF e, j
<1>4. j \in Nat \ {0}
  BY <1>3
<1>5. d * (2 * j) = 2 * (d * j) /\ d * j \in Nat
  BY <1>4
<1>6. d * j = n
  BY <1>3, <1>5
<1>7. d \in 1 .. n /\ j \in 1 .. n
  <2>1. 1 * d <= j * d /\ 1 * j <= d * j
    BY <1>4, Grows
  <2>2. j * d = d * j /\ 1 * d = d /\ 1 * j = j
    BY <1>4
  <2> QED
    BY <1>4, <1>6, <2>1, <2>2
<1> QED
  BY <1>6, <1>7 DEF PowerOfTwo

\* The next fraction is half of this one, rounded down.
LEMMA NextFraction ==
  ASSUME TypeOK, NEW c \in Nat \ {0}
  PROVE  /\ Halved(c) \in Nat /\ Halved(2 * c) \in Nat
         /\ Halved(c) <= 2 * Halved(2 * c) + 1 /\ Halved(2 * c) <= Halved(c)
<1> DEFINE p == Halved(2 * c)
           q == Halved(c)
<1>1. amt \in Nat /\ 2 * c \in Nat \ {0}
  BY RouteTypes
<1>2. /\ q \in Nat /\ q * c <= amt /\ amt < (q + 1) * c
      /\ p \in Nat /\ p * (2 * c) <= amt /\ amt < (p + 1) * (2 * c)
  BY <1>1, Quotient DEF Halved
<1> HIDE DEF p, q
<1>3. /\ (p + 1) * (2 * c) = (2 * p + 2) * c /\ p * (2 * c) = (2 * p) * c
      /\ q * c \in Nat /\ (q + 1) * c \in Nat
  BY <1>2
<1>4. q <= 2 * p + 1
  <2> SUFFICES ASSUME 2 * p + 2 <= q PROVE FALSE
    BY <1>2
  <2>1. (2 * p + 2) * c <= q * c
    BY <1>2, Grows
  <2> QED
    BY <1>1, <1>2, <1>3, <2>1
<1>5. p <= q
  <2> SUFFICES ASSUME q + 1 <= 2 * p PROVE p = 0
    BY <1>2
  <2>1. (q + 1) * c <= (2 * p) * c
    BY <1>2, Grows
  <2> QED
    BY <1>1, <1>2, <1>3, <2>1
<1> QED
  BY <1>2, <1>4, <1>5 DEF p, q

\* What is within a number is within a larger one.
LEMMA WithinGrows ==
  ASSUME TypeOK, NEW m \in Int, NEW n \in Int, m <= n, Within(m)
  PROVE  Within(n)
BY DEF Within, TypeOK

\* In a calm world only our payments take from what is left.
LEMMA CalmWorld ==
  ASSUME TypeOK, calm, [Next]_vars
  PROVE  \/ UNCHANGED <<room, carry>>
         \/ /\ PaySucceeds
            /\ room' = room - amtLocal /\ carry' = carry - amtLocal
BY DEF Next, tryRapidRebalance, SkipAmount, Increase, TurnBack, Decrease, PickFails, Pick,
       PaySucceeds, PayTooExpensive, PayFails, PayTimesOut, NoCandidates, Abort, Shift, Carried,
       vars, world

\* What does not change in a calm world, and the types of the rest.
LEMMA CalmTypes ==
  ASSUME TypeOK, [Next]_vars
  PROVE  /\ UNCHANGED <<amt, least, hops, calm>>
         /\ minAmount' = minAmount /\ maxAmountOnRoute' = maxAmountOnRoute
         /\ minAmount \in Nat \ {0} /\ maxAmountOnRoute \in Nat /\ amt \in Nat \ {0}
         /\ amtLocal \in Nat /\ accelerator \in Nat /\ accelerator * amt \in Nat
         /\ room \in Nat /\ carry \in Nat /\ halved \in Nat
         /\ least \in Nat /\ least <= minAmount
<1>1. UNCHANGED <<amt, least, hops, calm>>
  BY RouteStays
<1>2. /\ minAmount \in Nat \ {0} /\ amt \in Nat \ {0} /\ amtLocal \in Nat /\ accelerator \in Nat
      /\ room \in Nat /\ carry \in Nat /\ halved \in Nat /\ maxAmountOnRoute \in Nat
  BY RouteTypes, RouteLimit DEF TypeOK
<1>3. least \in Nat /\ least <= minAmount
  BY RouteTypes DEF minAmount
<1>4. minAmount' = minAmount /\ maxAmountOnRoute' = maxAmountOnRoute
  BY <1>1 DEF minAmount, maxAmountOnRoute, Limits
<1> QED
  BY <1>1, <1>2, <1>3, <1>4

\* A multiple is skipped only if less than it is left.
LEMMA SkipKeepsOpen ==
  ASSUME TypeOK, calm, Open, SkipAmount
  PROVE  Open'
<1> DEFINE half == accelerator \div 2
<1>1. /\ strategy = "increase" /\ pc = "next" /\ hittingTheWall
      /\ amtLocal < half * amt /\ accelerator' = half
      /\ UNCHANGED <<amt, least, amtLocal, strategy, hittingTheWall, capReached, exitEarly, pc,
                     room, carry>>
  BY DEF SkipAmount, TooMuchAnyway, NextAccelerator, route, world
<1>2. [Next]_vars
  BY DEF Next, tryRapidRebalance
<1>3. /\ amt \in Nat \ {0} /\ amtLocal \in Nat /\ accelerator \in Nat
      /\ maxAmountOnRoute' = maxAmountOnRoute
  BY <1>2, CalmTypes
<1>4. /\ ~exitEarly /\ PowerOfTwo(accelerator) /\ amtLocal > 0 /\ accelerator > 0
      /\ amtLocal <= maxAmountOnRoute /\ Within(maxAmountOnRoute)
      /\ least <= amt /\ least <= amtLocal
      /\ Within(amtLocal) \/ 2 * amtLocal >= accelerator * amt
  BY <1>1 DEF Open, Climbing, PowerOfTwo
<1>5. half \in Nat \ {0} /\ accelerator = 2 * half /\ PowerOfTwo(half)
  <2>1. accelerator # 1
    BY <1>1, <1>3
  <2> QED
    BY <1>3, <1>4, <2>1, PowerHalves
<1> HIDE DEF half
<1>6. half * amt \in Nat /\ accelerator * amt = 2 * (half * amt)
  BY <1>3, <1>5
<1>7. Within(amtLocal)
  BY <1>1, <1>3, <1>4, <1>6
<1>8. Within(half * amt)
  BY <1>1, <1>3, <1>6, <1>7, WithinGrows
<1>9. Climbing'
  BY <1>1, <1>3, <1>4, <1>5, <1>7, <1>8 DEF Climbing, Within
<1> QED
  BY <1>1, <1>4, <1>9 DEF Open, Descending

\* The next multiple of the first amount, or the same amount at the limit.
LEMMA IncreaseKeepsOpen ==
  ASSUME TypeOK, calm, Open, Increase
  PROVE  Open'
<1> DEFINE acc == NextAccelerator
           x == acc * amt
<1>1. /\ strategy = "increase" /\ pc = "next" /\ ~(acc < 1) /\ accelerator' = acc
      /\ IF x < maxAmountOnRoute THEN amtLocal' = x /\ UNCHANGED capReached
                                 ELSE capReached' = TRUE /\ UNCHANGED amtLocal
      /\ pc' = IF exitEarly THEN "done" ELSE "pick"
      /\ UNCHANGED <<amt, least, strategy, hittingTheWall, exitEarly, room, carry>>
  BY DEF Increase, EndOfIncrease, UnderCap, Attempt, route, world
<1>2. [Next]_vars
  BY DEF Next, tryRapidRebalance
<1>3. /\ amt \in Nat \ {0} /\ amtLocal \in Nat /\ accelerator \in Nat
      /\ maxAmountOnRoute' = maxAmountOnRoute /\ maxAmountOnRoute \in Nat
      /\ accelerator * amt \in Nat /\ least \in Nat
  BY <1>2, CalmTypes
<1>4. /\ ~exitEarly /\ PowerOfTwo(accelerator) /\ amtLocal > 0 /\ accelerator > 0
      /\ amtLocal <= maxAmountOnRoute /\ least <= amt /\ least <= amtLocal
      /\ ~hittingTheWall /\ ~capReached => amtLocal = accelerator * amt
      /\ Within(amtLocal) \/ 2 * amtLocal >= accelerator * amt
      /\ hittingTheWall => Within(maxAmountOnRoute) /\ Within(accelerator * amt)
  BY <1>1 DEF Open, Climbing, PowerOfTwo
<1>5. /\ acc \in Nat \ {0} /\ PowerOfTwo(acc)
      /\ hittingTheWall => accelerator = 2 * acc
      /\ ~hittingTheWall => acc = IF capReached THEN accelerator ELSE 2 * accelerator
  <2>1. CASE hittingTheWall
    <3>1. acc = accelerator \div 2
      BY <2>1 DEF NextAccelerator
    <3>2. accelerator # 1
      BY <1>1, <3>1
    <3> HIDE DEF acc
    <3> QED
      BY <1>3, <1>4, <2>1, <3>1, <3>2, PowerHalves
  <2>2. CASE ~hittingTheWall
    <3>1. acc = IF capReached THEN accelerator ELSE 2 * accelerator
      BY <2>2 DEF NextAccelerator
    <3> HIDE DEF acc
    <3> QED
      BY <1>3, <1>4, <2>2, <3>1, PowerDoubles
  <2> QED
    BY <2>1, <2>2
<1> HIDE DEF acc
<1>6. x \in Nat /\ x >= amt
  <2>1. 1 * amt <= acc * amt
    BY <1>3, <1>5, Grows
  <2> QED
    BY <1>3, <1>5, <2>1
<1>7. /\ hittingTheWall => accelerator * amt = 2 * x
      /\ ~hittingTheWall => x = IF capReached THEN accelerator * amt ELSE 2 * (accelerator * amt)
  BY <1>3, <1>5
<1> HIDE DEF x
<1>8. /\ amtLocal' \in Nat \ {0} /\ amtLocal' <= maxAmountOnRoute /\ amtLocal' <= x
      /\ least <= amtLocal'
      /\ ~hittingTheWall /\ ~capReached' => amtLocal' = x
  BY <1>1, <1>3, <1>4, <1>6
<1>9. Within(amtLocal') \/ 2 * amtLocal' >= x
  <2>1. CASE x < maxAmountOnRoute
    BY <1>1, <1>6, <2>1
  <2>2. CASE ~(x < maxAmountOnRoute)
    BY <1>1, <1>3, <1>4, <1>6, <1>7, <2>2
  <2> QED
    BY <2>1, <2>2
<1>10. hittingTheWall => Within(x) \/ (Within(2 * x) /\ amtLocal' = x)
  <2>1. CASE x < maxAmountOnRoute
    BY <1>1, <1>4, <1>7, <2>1
  <2>2. CASE ~(x < maxAmountOnRoute)
    <3>1. hittingTheWall => Within(x)
      BY <1>3, <1>4, <1>6, <2>2, WithinGrows
    <3> QED
      BY <3>1
  <2> QED
    BY <2>1, <2>2
<1>11. Within(amtLocal)' = Within(amtLocal') /\ accelerator' * amt' = x
  BY <1>1 DEF Within, x
<1>12. /\ Within(maxAmountOnRoute)' = Within(maxAmountOnRoute)
       /\ Within(accelerator * amt)' = Within(x)
       /\ Within(2 * (accelerator * amt))' = Within(2 * x)
  BY <1>1, <1>3, <1>11 DEF Within
<1>13. Climbing'
  BY <1>1, <1>3, <1>4, <1>5, <1>8, <1>9, <1>10, <1>11, <1>12 DEF Climbing
<1> QED
  BY <1>1, <1>4, <1>8, <1>13 DEF Open, Descending

\* The first fraction.
LEMMA TurnBackKeepsOpen ==
  ASSUME TypeOK, calm, Open, TurnBack
  PROVE  Open'
<1>1. /\ strategy = "increase" /\ pc = "next" /\ NextAccelerator < 1
      /\ accelerator' = 2 /\ strategy' = "decrease" /\ amtLocal' = Halved(2)
      /\ IF amtLocal' < minAmount
           THEN pc' = "done" /\ UNCHANGED halved
           ELSE pc' = (IF exitEarly THEN "done" ELSE "pick") /\ halved' = halved + 1
      /\ UNCHANGED <<amt, least, exitEarly, room, carry>>
  BY DEF TurnBack, TryFraction, Attempt, EndOfIncrease, route, world
<1>2. [Next]_vars
  BY DEF Next, tryRapidRebalance
<1>3. /\ amt \in Nat \ {0} /\ accelerator \in Nat /\ halved \in Nat
      /\ minAmount' = minAmount /\ minAmount \in Nat \ {0} /\ least \in Nat /\ least <= minAmount
  BY <1>2, CalmTypes
<1>4. /\ ~exitEarly /\ PowerOfTwo(accelerator) /\ accelerator > 0
      /\ hittingTheWall => Within(accelerator * amt)
  BY <1>1 DEF Open, Climbing, PowerOfTwo
<1>5. hittingTheWall /\ accelerator = 1
  BY <1>1, <1>3, <1>4 DEF NextAccelerator
<1>6. Within(amt)
  BY <1>3, <1>4, <1>5
<1>7. Halved(2) \in Nat /\ amt <= 2 * Halved(2) + 1
  BY <1>3 DEF Halved
<1>8. Halved(accelerator)' = Halved(2)
  BY <1>1 DEF Halved
<1>9. CASE amtLocal' < minAmount
  <2>1. amt <= 2 * minAmount + halved - 1
    BY <1>1, <1>3, <1>7, <1>9
  <2>2. Within(2 * minAmount + halved - 1)
    BY <1>3, <1>6, <2>1, WithinGrows
  <2>3. Descending'
    BY <1>1, <1>3, <1>9, <2>2 DEF Descending, Within
  <2> QED
    BY <1>1, <1>9, <2>3 DEF Open, Climbing
<1>10. CASE ~(amtLocal' < minAmount)
  <2>1. pc' = "pick" /\ halved' = halved + 1 /\ amtLocal' > 0 /\ least <= amtLocal'
    BY <1>1, <1>3, <1>4, <1>7, <1>10
  <2>2. Within(2 * Halved(2) + (halved + 1))
    BY <1>3, <1>6, <1>7, WithinGrows
  <2>3. Descending'
    BY <1>1, <1>8, <2>1, <2>2 DEF Descending, Within
  <2> QED
    BY <1>1, <2>1, <2>3 DEF Open, Climbing
<1> QED
  BY <1>9, <1>10

\* The next fraction.
LEMMA DecreaseKeepsOpen ==
  ASSUME TypeOK, Fraction, calm, Open, Decrease
  PROVE  Open'
<1> DEFINE h == Halved(2 * accelerator)
<1>1. /\ strategy = "decrease" /\ pc = "next" /\ accelerator' = 2 * accelerator
      /\ IF amtLocal < h
           THEN UNCHANGED <<amtLocal, pc, halved>>
           ELSE /\ amtLocal' = h
                /\ IF h < minAmount
                     THEN pc' = "done" /\ UNCHANGED halved
                     ELSE pc' = (IF exitEarly THEN "done" ELSE "pick") /\ halved' = halved + 1
      /\ UNCHANGED <<amt, least, strategy, exitEarly, room, carry>>
  BY DEF Decrease, TryFraction, Attempt, route, world
<1>2. [Next]_vars
  BY DEF Next, tryRapidRebalance
<1>3. /\ amt \in Nat \ {0} /\ accelerator \in Nat \ {0} /\ halved \in Nat
      /\ minAmount' = minAmount /\ minAmount \in Nat \ {0} /\ amtLocal \in Nat /\ amtLocal > 0
      /\ least \in Nat /\ least <= minAmount
  <2>1. accelerator > 0 /\ amtLocal > 0
    BY <1>1 DEF Fraction, Open
  <2>2. /\ amt \in Nat \ {0} /\ accelerator \in Nat /\ halved \in Nat /\ amtLocal \in Nat
        /\ minAmount' = minAmount /\ minAmount \in Nat \ {0} /\ least \in Nat /\ least <= minAmount
    BY <1>2, CalmTypes
  <2> HIDE DEF h
  <2> QED
    BY <2>1, <2>2
<1>4. /\ Halved(accelerator) \in Nat /\ h \in Nat
      /\ Halved(accelerator) <= 2 * h + 1 /\ h <= Halved(accelerator)
  BY <1>3, NextFraction
<1>5. Halved(accelerator)' = h
  BY <1>1 DEF Halved
<1> HIDE DEF h
<1>6. CASE exitEarly
  <2>1. pc' # "pick" /\ (pc' # "done" => amtLocal' > 0)
    BY <1>1, <1>3, <1>6
  <2> QED
    BY <1>1, <1>6, <2>1 DEF Open, Climbing, Descending
<1>7. CASE ~exitEarly
  <2>1. amtLocal = Halved(accelerator) /\ Within(Halved(accelerator) + halved)
    BY <1>1, <1>3, <1>7 DEF Open, Descending, Fraction
  <2>2. amtLocal' = h
    BY <1>1, <1>4, <2>1
  <2>3. CASE h < minAmount
    <3>1. pc' = "done" /\ UNCHANGED halved
      BY <1>1, <1>4, <2>1, <2>3
    <3>2. Within(2 * minAmount + halved - 1)
      BY <1>3, <1>4, <2>1, <2>3, WithinGrows
    <3>3. Descending'
      BY <1>1, <1>3, <3>1, <3>2 DEF Descending, Within
    <3> QED
      BY <1>1, <3>1, <3>3 DEF Open, Climbing
  <2>4. CASE ~(h < minAmount)
    <3>1. pc' = "pick" /\ halved' = halved + 1 /\ amtLocal' > 0 /\ least <= amtLocal'
      BY <1>1, <1>3, <1>4, <1>7, <2>1, <2>2, <2>4
    <3>2. Within(2 * h + (halved + 1))
      BY <1>3, <1>4, <2>1, WithinGrows
    <3>3. Descending'
      BY <1>1, <1>5, <2>2, <3>1, <3>2 DEF Descending, Within
    <3> QED
      BY <1>1, <3>1, <3>3 DEF Open, Climbing
  <2> QED
    BY <2>3, <2>4
<1> QED
  BY <1>6, <1>7

\* A pick that fails shows that no more than the minimum is left.
LEMMA PickFailsDrains ==
  ASSUME TypeOK, calm, Open, PickFails
  PROVE  Drained'
<1>1. /\ pc = "pick" /\ TooLittle(amtLocal) /\ UNCHANGED <<least, room, carry>>
  BY DEF PickFails, route, world
<1>2. amtLocal > 0 /\ amtLocal \in Nat /\ room \in Nat /\ least \in Nat
  BY <1>1, RouteTypes DEF Open, TypeOK
<1>3. [Next]_vars
  BY <1>1 DEF Next, tryRapidRebalance
<1>4. minAmount' = minAmount /\ minAmount \in Nat \ {0}
  BY <1>3, CalmTypes
<1>5. least <= amtLocal
  BY <1>1 DEF Open
<1>6. room < least \/ room = 0
  BY <1>1, <1>2, <1>5 DEF TooLittle, Available
<1>7. room <= minAmount
  BY <1>2, <1>4, <1>6 DEF minAmount
<1> QED
  BY <1>1, <1>4, <1>7 DEF Drained, Within

\* A pick may limit the amount to the room there is.
LEMMA PickKeepsOpen ==
  ASSUME TypeOK, calm, Open, Pick
  PROVE  Open'
<1>1. /\ pc = "pick" /\ pc' = "pay" /\ ~TooLittle(amtLocal) /\ amtLocal' = Available(amtLocal)
      /\ hittingTheWall' = (hittingTheWall \/ amtLocal' < amtLocal)
      /\ exitEarly' = (exitEarly \/ (amtLocal' < amtLocal /\ strategy = "decrease"))
      /\ UNCHANGED <<amt, least, accelerator, strategy, capReached, room, carry, halved>>
  BY DEF Pick, route, world
<1>2. [Next]_vars
  BY DEF Next, tryRapidRebalance
<1>3. /\ amtLocal \in Nat \ {0} /\ room \in Nat /\ carry \in Nat /\ least \in Nat
      /\ maxAmountOnRoute' = maxAmountOnRoute /\ maxAmountOnRoute \in Nat
      /\ accelerator * amt \in Nat
  <2>1. amtLocal > 0
    BY <1>1 DEF Open
  <2>2. /\ amtLocal \in Nat /\ room \in Nat /\ carry \in Nat /\ least \in Nat
        /\ maxAmountOnRoute' = maxAmountOnRoute /\ maxAmountOnRoute \in Nat
        /\ accelerator * amt \in Nat
    BY <1>2, CalmTypes
  <2> QED
    BY <2>1, <2>2
<1>4. /\ amtLocal' \in Nat \ {0} /\ least <= amtLocal' /\ amtLocal' <= amtLocal
      /\ amtLocal' = amtLocal \/ (amtLocal' < amtLocal /\ amtLocal' = room)
  BY <1>1, <1>3 DEF TooLittle, Available
<1>5. amtLocal' < amtLocal => Within(amtLocal')
  BY <1>4 DEF Within
<1>6. Climbing'
  <2> DEFINE x == accelerator * amt
  <2> SUFFICES ASSUME strategy = "increase" PROVE Climbing'
    BY <1>1 DEF Climbing
  <2>1. /\ ~exitEarly /\ PowerOfTwo(accelerator)
        /\ least <= amt /\ amtLocal <= maxAmountOnRoute /\ amtLocal <= x
        /\ ~hittingTheWall /\ ~capReached => amtLocal = x
        /\ Within(amtLocal) \/ 2 * amtLocal >= x
        /\ hittingTheWall => Within(maxAmountOnRoute)
        /\ hittingTheWall => Within(x) \/ (Within(2 * x) /\ amtLocal = x)
    BY <1>1 DEF Open, Climbing
  <2>2. x \in Nat /\ accelerator' * amt' = x
    BY <1>1, <1>3
  <2>3. /\ Within(amtLocal)' = Within(amtLocal')
        /\ Within(maxAmountOnRoute)' = Within(maxAmountOnRoute)
        /\ Within(accelerator * amt)' = Within(x)
        /\ Within(2 * (accelerator * amt))' = Within(2 * x)
    BY <1>1, <1>3, <2>2 DEF Within
  <2> HIDE DEF x
  <2>4. CASE amtLocal' = amtLocal
    <3>1. ~(amtLocal' < amtLocal)
      BY <1>3, <2>4
    <3>2. hittingTheWall' = hittingTheWall /\ exitEarly' = exitEarly
      BY <1>1, <3>1 DEF TypeOK
    <3> QED
      BY <1>1, <1>3, <1>4, <2>1, <2>2, <2>3, <2>4, <3>2 DEF Climbing
  <2>5. CASE amtLocal' < amtLocal
    <3>1. Within(amtLocal') /\ Within(x) /\ Within(maxAmountOnRoute)
      BY <1>3, <1>4, <1>5, <2>1, <2>2, <2>5, WithinGrows
    <3>2. amtLocal' <= x /\ amtLocal' <= maxAmountOnRoute
      BY <1>3, <1>4, <2>1, <2>2
    <3>3. hittingTheWall' /\ ~exitEarly'
      BY <1>1, <2>1, <2>5
    <3> QED
      BY <1>1, <1>3, <1>4, <2>1, <2>2, <2>3, <3>1, <3>2, <3>3 DEF Climbing
  <2> QED
    BY <1>4, <2>4, <2>5
<1>7. Descending'
  <2> SUFFICES ASSUME strategy = "decrease", ~exitEarly' PROVE Descending'
    BY <1>1 DEF Descending
  <2>1. amtLocal' = amtLocal /\ ~exitEarly
    BY <1>1, <1>4
  <2>2. amtLocal = Halved(accelerator) /\ Within(2 * Halved(accelerator) + halved)
    BY <1>1, <2>1 DEF Open, Descending
  <2>3. Halved(accelerator)' = Halved(accelerator)
    BY <1>1 DEF Halved
  <2> QED
    BY <1>1, <2>1, <2>2, <2>3 DEF Descending, Within
<1> QED
  BY <1>1, <1>4, <1>6, <1>7 DEF Open

\* A payment takes its amount from what is left.
LEMMA PaymentKeepsOpen ==
  ASSUME TypeOK, calm, Open, PaySucceeds
  PROVE  Open'
<1>1. /\ pc = "pay" /\ pc' = "next"
      /\ room' = room - amtLocal /\ carry' = carry - amtLocal
      /\ UNCHANGED <<amt, least, amtLocal, accelerator, strategy, hittingTheWall, capReached,
                     exitEarly, halved>>
  BY DEF PaySucceeds, Carried, TypeOK, route, control
<1>2. [Next]_vars
  BY DEF Next, tryRapidRebalance
<1>3. /\ amtLocal \in Nat /\ room \in Nat /\ carry \in Nat /\ halved \in Nat
      /\ maxAmountOnRoute' = maxAmountOnRoute /\ maxAmountOnRoute \in Nat
      /\ accelerator * amt \in Nat
  BY <1>2, CalmTypes
<1>4. Climbing'
  <2> DEFINE x == accelerator * amt
  <2> SUFFICES ASSUME strategy = "increase" PROVE Climbing'
    BY <1>1 DEF Climbing
  <2>1. /\ ~exitEarly /\ PowerOfTwo(accelerator)
        /\ least <= amt /\ least <= amtLocal /\ amtLocal <= maxAmountOnRoute
        /\ ~hittingTheWall /\ ~capReached => amtLocal = x
        /\ Within(amtLocal) \/ 2 * amtLocal >= x
        /\ hittingTheWall => Within(maxAmountOnRoute)
        /\ hittingTheWall => Within(x) \/ (Within(2 * x) /\ amtLocal = x)
    BY <1>1 DEF Open, Climbing
  <2>2. x \in Nat /\ accelerator' * amt' = x
    BY <1>1, <1>3
  <2>3. /\ Within(amtLocal)' = Within(amtLocal)'
        /\ Within(accelerator * amt)' = (room' <= x \/ carry' <= x)
        /\ Within(maxAmountOnRoute)' = (room' <= maxAmountOnRoute \/ carry' <= maxAmountOnRoute)
    BY <1>1, <1>3, <2>2 DEF Within
  <2> HIDE DEF x
  <2>4. hittingTheWall => room' <= x \/ carry' <= x
    BY <1>1, <1>3, <2>1, <2>2 DEF Within
  <2>5. hittingTheWall => room' <= maxAmountOnRoute \/ carry' <= maxAmountOnRoute
    BY <1>1, <1>3, <2>1 DEF Within
  <2>6. Within(amtLocal)' \/ 2 * amtLocal' >= x
    BY <1>1, <1>3, <2>1 DEF Within
  <2> QED
    BY <1>1, <1>3, <2>1, <2>2, <2>3, <2>4, <2>5, <2>6 DEF Climbing
<1>5. Descending'
  <2> DEFINE h == Halved(accelerator)
  <2> SUFFICES ASSUME strategy = "decrease", ~exitEarly PROVE Descending'
    BY <1>1 DEF Descending
  <2>1. amtLocal = h /\ Within(2 * h + halved)
    BY <1>1 DEF Open, Descending
  <2>2. Halved(accelerator)' = h
    BY <1>1 DEF Halved
  <2> HIDE DEF h
  <2>3. h \in Nat
    BY <1>3, <2>1
  <2>4. room' <= h + halved' \/ carry' <= h + halved'
    BY <1>1, <1>3, <2>1, <2>3 DEF Within
  <2>5. Within(Halved(accelerator) + halved)'
    BY <2>2, <2>4 DEF Within
  <2> QED
    BY <1>1, <2>5 DEF Descending
<1> QED
  BY <1>1, <1>4, <1>5 DEF Open

\* A payment that fails shows that less than its amount is left.
LEMMA FailureKeepsOpen ==
  ASSUME TypeOK, calm, Open, PayFails
  PROVE  Open'
<1>1. /\ pc = "pay" /\ pc' = "next" /\ amtLocal > carry /\ hittingTheWall'
      /\ UNCHANGED <<amt, least, amtLocal, accelerator, strategy, capReached, exitEarly, room, carry,
                     halved>>
  BY DEF PayFails, route, world
<1>2. [Next]_vars
  BY DEF Next, tryRapidRebalance
<1>3. /\ amtLocal \in Nat /\ room \in Nat /\ carry \in Nat /\ halved \in Nat
      /\ maxAmountOnRoute' = maxAmountOnRoute /\ maxAmountOnRoute \in Nat
      /\ accelerator * amt \in Nat
  BY <1>2, CalmTypes
<1>4. Climbing'
  <2> SUFFICES ASSUME strategy = "increase" PROVE Climbing'
    BY <1>1 DEF Climbing
  <2>1. /\ ~exitEarly /\ PowerOfTwo(accelerator)
        /\ least <= amt /\ least <= amtLocal /\ amtLocal <= maxAmountOnRoute
        /\ amtLocal <= accelerator * amt
    BY <1>1 DEF Open, Climbing
  <2>2. carry <= amtLocal /\ carry <= maxAmountOnRoute /\ carry <= accelerator * amt
    BY <1>1, <1>3, <2>1
  <2>3. Within(amtLocal)' /\ Within(maxAmountOnRoute)' /\ Within(accelerator * amt)'
    BY <1>1, <1>3, <2>2 DEF Within
  <2> QED
    BY <1>1, <1>3, <2>1, <2>3 DEF Climbing
<1>5. Descending'
  <2> SUFFICES ASSUME strategy = "decrease", ~exitEarly PROVE Descending'
    BY <1>1 DEF Descending
  <2>1. amtLocal = Halved(accelerator)
    BY <1>1 DEF Open, Descending
  <2>2. Halved(accelerator)' = amtLocal
    BY <1>1, <2>1 DEF Halved
  <2>3. carry' <= amtLocal + halved'
    BY <1>1, <1>3
  <2>4. Within(Halved(accelerator) + halved)'
    BY <2>2, <2>3 DEF Within
  <2> QED
    BY <1>1, <2>4 DEF Descending
<1> QED
  BY <1>1, <1>4, <1>5 DEF Open

\* In a calm world a pair that no longer qualifies never does again.
LEMMA StaysUnqualified ==
  ASSUME TypeOK, calm, ~Qualifies, [Next]_vars
  PROVE  ~Qualifies'
<1>1. spare \in Int /\ spare' = spare /\ room \in Nat /\ amtLocal \in Nat
  BY RouteStays, RapidAmountsAssumption DEF TypeOK
<1>2. room' \in Int /\ room' <= room
  BY <1>1, CalmWorld
<1> QED
  BY <1>1, <1>2 DEF Qualifies

\* Every step keeps what is left within what the loop still tries.
LEMMA SqueezingStep ==
  ASSUME TypeOK, Fraction, Squeezing, [Next]_vars
  PROVE  Squeezing'
<1> SUFFICES ASSUME calm PROVE ~Qualifies' \/ Drained' \/ Open'
  BY RouteStays DEF Squeezing
<1>1. CASE Drained
  <2>1. minAmount' = minAmount /\ minAmount \in Int
    <3>1. minAmount' = minAmount /\ minAmount \in Nat \ {0}
      BY CalmTypes
    <3> QED
      BY <3>1
  <2> DEFINE n == minAmount
  <2>2. Within(n)
    BY <1>1 DEF Drained
  <2> HIDE DEF n
  <2>3. room' <= n \/ carry' <= n
    <3>1. n \in Int
      BY <2>1 DEF n
    <3>2. room \in Nat /\ carry \in Nat /\ amtLocal \in Nat
      BY DEF TypeOK
    <3>3. room' \in Int /\ carry' \in Int /\ room' <= room /\ carry' <= carry
      BY <3>2, CalmWorld
    <3> QED
      BY <2>2, <3>1, <3>2, <3>3 DEF Within
  <2> QED
    BY <2>1, <2>3 DEF Drained, Within, n
<1>2. CASE Open
  <2>1. CASE SkipAmount \/ Increase \/ TurnBack \/ Decrease
    BY <1>2, <2>1, SkipKeepsOpen, IncreaseKeepsOpen, TurnBackKeepsOpen, DecreaseKeepsOpen
  <2>2. CASE PickFails \/ Pick \/ PaySucceeds \/ PayFails
    BY <1>2, <2>2, PickFailsDrains, PickKeepsOpen, PaymentKeepsOpen, FailureKeepsOpen
  <2>3. CASE PayTooExpensive \/ PayTimesOut \/ NoCandidates \/ Abort \/ Shift
    <3>1. NoCandidates /\ ~Qualifies
      BY <2>3 DEF PayTooExpensive, PayTimesOut, NoCandidates, Abort, Shift
    <3> QED
      BY <3>1, StaysUnqualified
  <2>4. CASE UNCHANGED vars
    BY <1>2, <2>4 DEF Open, Climbing, Descending, Within, Halved, minAmount, maxAmountOnRoute,
       Limits, vars, route, control, world
  <2> QED
    BY <2>1, <2>2, <2>3, <2>4 DEF Next, tryRapidRebalance
<1>3. CASE ~Qualifies
  BY <1>3, StaysUnqualified
<1> QED
  BY <1>1, <1>2, <1>3 DEF Squeezing

LEMMA RapidStep == RapidInv /\ [Next]_vars => RapidInv'
BY TypeStep, ToldStep, FractionStep, UnderLimitsStep, SqueezingStep DEF RapidInv

-----------------------------------------------------------------------------
\* The loop keeps the types of its variables.
THEOREM RapidTypes == Spec => []TypeOK
<1>1. RapidInv => TypeOK
  BY DEF RapidInv
<1> QED
  BY <1>1, RapidInit, RapidStep, PTL DEF Spec

\* Where every hop takes more than the first amount, no attempt is above what a
\* hop takes, for all amounts, limits, balances and failures.
THEOREM RapidStaysWithinHigherCap == Spec => []WithinHigherCap
<1>1. RapidInv => WithinHigherCap
  BY DEF RapidInv, UnderLimits, RoomToGrow, WithinHigherCap
<1> QED
  BY <1>1, RapidInit, RapidStep, PTL DEF Spec

\* The summary tells no more than was paid, and exactly that when all is calm,
\* after any number of payments.
THEOREM RapidSummaryHasTheTotals == Spec => []SummaryHasTheTotals
<1>1. RapidInv => SummaryHasTheTotals
  BY DEF RapidInv, Told, SummaryHasTheTotals
<1> QED
  BY <1>1, RapidInit, RapidStep, PTL DEF Spec

\* In a calm world the payments move the pair past its criteria, or less is left
\* than twice the minimum, but for the rounding of the fractions, for all
\* amounts, limits, balances and criteria.
THEOREM RapidSqueezes == Spec => []SqueezedUnlessLeftEarly
<1>1. RapidInv => SqueezedUnlessLeftEarly
  <2> SUFFICES ASSUME RapidInv, calm, pc = "done", ~exitEarly, Qualifies
               PROVE  Left < 2 * minAmount + halved
    BY DEF SqueezedUnlessLeftEarly
  <2>1. /\ minAmount \in Nat \ {0} /\ halved \in Nat /\ room \in Nat /\ carry \in Nat
        /\ Limits \subseteq Nat
    BY RouteTypes, RouteLimit DEF RapidInv, TypeOK
  <2>2. Within(2 * minAmount + halved - 1)
    <3>1. CASE Drained
      BY <2>1, <3>1 DEF Drained, Within
    <3>2. CASE Open
      BY <3>2 DEF Open, Descending
    <3> QED
      BY <3>1, <3>2 DEF RapidInv, Squeezing
  <2>3. Left \in Nat /\ Left <= room /\ Left <= carry
    <3>1. Limits \cup {room, carry} \in SUBSET Nat /\ Limits \cup {room, carry} # {}
      BY <2>1
    <3> QED
      BY <3>1, Smallest DEF Left
  <2> QED
    BY <2>1, <2>2, <2>3 DEF Within
<1> QED
  BY <1>1, RapidInit, RapidStep, PTL DEF Spec

\* Below the first amount every attempt is for less than the one before.
LEMMA DecreaseShrinks ==
  ASSUME RapidInv, [Next]_vars, pc = "next", pc' = "pick", strategy = "decrease"
  PROVE  amtLocal' < amtLocal
<1>1. Decrease
  BY DEF Next, tryRapidRebalance, SkipAmount, Increase, TurnBack, PickFails, Pick, PaySucceeds,
         PayTooExpensive, PayFails, PayTimesOut, NoCandidates, Abort, Shift, vars
<1>2. TypeOK /\ Fraction
  BY DEF RapidInv
<1>3. /\ accelerator \in Nat \ {0} /\ accelerator' = 2 * accelerator
      /\ ~(amtLocal < Halved(accelerator')) /\ amtLocal' = Halved(accelerator')
      /\ ~(amtLocal' < minAmount) /\ ~exitEarly
  BY <1>1, <1>2 DEF Decrease, TryFraction, Attempt, Fraction, TypeOK
<1>4. amtLocal \in Nat /\ amtLocal' \in Nat \ {0}
  BY <1>2, <1>3, RouteTypes, Quotient DEF TypeOK, Halved
<1>5. amtLocal = Halved(accelerator)
  BY <1>2, <1>3, <1>4 DEF Fraction
<1> QED
  BY <1>2, <1>3, <1>4, <1>5, RouteTypes, HalvesShrink DEF Halved

\* The attempts of the decreasing phase get smaller each time, for all amounts.
THEOREM RapidDecreaseGoesDown == Spec => DecreaseGoesDown
<1>1. RapidInv /\ [Next]_vars =>
        [pc = "next" /\ pc' = "pick" /\ strategy = "decrease" => amtLocal' < amtLocal]_vars
  BY DecreaseShrinks
<1> QED
  BY <1>1, RapidInit, RapidStep, PTL DEF Spec, DecreaseGoesDown
=============================================================================
