--------------------------- MODULE RapidRebalance ---------------------------
(***************************************************************************)
(* rebalancer.go, tryRapidRebalance, with maxAmountOnRoute (mission_ctl)   *)
(* and what pickChannelPair (channels.go) returns for a single pair: after *)
(* a payment succeeded its route is used again, for amounts that double    *)
(* until something gives, and then fall below the first one.               *)
(*                                                                         *)
(* "room" is what the balances of the two channels allow, "carry" what the *)
(* hops between them forward.  When all is calm only our own payments      *)
(* change them; they also move the liquidity that pfrom and pto are about, *)
(* by the same amount, so that the pair qualifies until "spare" is left.   *)
(***************************************************************************)
EXTENDS Integers, Sequences, FiniteSetsExt

CONSTANTS
  Amounts,    \* amounts of the first payment
  MinAmounts, \* values of params.MinAmount
  DefaultMin, \* the minimum used where it is not set, 10000
  Routes,     \* the maximum HTLC of each hop of a route, zero for none
  NoLimit,    \* the maximum HTLC of a route without any, math.MaxInt64
  Fees,       \* fees of a route
  Rooms,      \* what a pair of channels may have room for at first
  Shifts,     \* and after others used them
  Spares,     \* what room it may have left when it stops to qualify, negative
              \* if it always does
  MaxPaid     \* bound on the sum of the payments while it is not calm

ASSUME RapidAmountsAssumption ==
  /\ Amounts \subseteq Nat \ {0} /\ Routes \subseteq Seq(Nat)
  /\ NoLimit \in Nat \ {0} /\ \A a \in Amounts : a < NoLimit
  /\ MinAmounts \subseteq Nat /\ DefaultMin \in Nat \ {0}
  /\ Fees \subseteq Nat /\ Rooms \subseteq Nat /\ Shifts \subseteq Nat
  /\ Spares \subseteq Int /\ MaxPaid \in Nat

VARIABLES
  amt, least, hops,    \* the first amount, params.MinAmount and the route
  amtLocal, accelerator, strategy,
  hittingTheWall, capReached, exitEarly,
  routeFee,            \* routeLocal.TotalFeesMsat
  successfulAmt, paidFee, \* the result
  pc,
  room, carry, spare,  \* the world
  calm,                \* nobody else uses the channels or the hops, no fee is
                       \* above its limit, no call fails and no deadline comes
  paid, fees,          \* history: what was really paid, and its fees
  halved               \* history: how many fractions of the first amount were tried

route == <<amt, least, hops>>
control == <<amtLocal, accelerator, strategy, hittingTheWall, capReached, exitEarly>>
summary == <<successfulAmt, paidFee>>
world == <<room, carry, spare, calm>>
history == <<paid, fees>>
vars == <<route, control, routeFee, summary, pc, world, history, halved>>

Init ==
  /\ amt \in Amounts
  /\ least \in {m \in MinAmounts : m <= amt}
  /\ hops \in {r \in Routes : \A i \in DOMAIN r : r[i] = 0 \/ amt <= r[i]}
  /\ amtLocal = amt /\ accelerator = 1 /\ strategy = "increase"
  /\ hittingTheWall = FALSE /\ capReached = FALSE /\ exitEarly = FALSE
  /\ routeFee \in Fees
  /\ successfulAmt = amt /\ paidFee = routeFee
  /\ pc = "next"
  /\ room \in Rooms /\ carry \in Rooms /\ spare \in Spares /\ calm \in BOOLEAN
  /\ paid = amt /\ fees = routeFee /\ halved = 0

-----------------------------------------------------------------------------
(* Mutations used to show that the properties can fail.                    *)
MutmaxAmountOnRoute == IF hops[Len(hops)] = 0 THEN NoLimit ELSE hops[Len(hops)]
MutEndOfIncrease(acc) == FALSE
MutHalved(acc) == amt
MutCounted == successfulAmt
MutEndOfIncreaseEarly(acc) == acc <= 2

-----------------------------------------------------------------------------
\* maxAmountOnRoute, by the policies of those who forward to each hop.
Limits == {hops[i] : i \in DOMAIN hops} \ {0}
maxAmountOnRoute == Min(Limits \cup {NoLimit})

minAmount == IF least > 0 THEN least ELSE DefaultMin

-----------------------------------------------------------------------------
\* The accelerator of the next attempt while the amount increases.
NextAccelerator ==
  IF hittingTheWall THEN accelerator \div 2
  ELSE IF capReached THEN accelerator ELSE 2 * accelerator

\* "save already failed rebalances": the channels could not do that much.
TooMuchAnyway(acc) == hittingTheWall /\ amtLocal < acc * amt /\ amtLocal > minAmount

UnderCap(acc) == acc * amt < maxAmountOnRoute
EndOfIncrease(acc) == acc < 1
Halved(acc) == amt \div acc

SkipAmount ==
  /\ pc = "next" /\ strategy = "increase"
  /\ TooMuchAnyway(NextAccelerator)
  /\ accelerator' = NextAccelerator
  /\ UNCHANGED <<route, amtLocal, strategy, hittingTheWall, capReached, exitEarly, routeFee,
                 summary, pc, world, history, halved>>

\* After the switch: leave the loop, or try the amount.
Attempt == pc' = IF exitEarly THEN "done" ELSE "pick"

Increase ==
  /\ pc = "next" /\ strategy = "increase"
  /\ ~TooMuchAnyway(NextAccelerator) /\ ~EndOfIncrease(NextAccelerator)
  /\ accelerator' = NextAccelerator
  /\ IF UnderCap(NextAccelerator)
       THEN amtLocal' = NextAccelerator * amt /\ UNCHANGED capReached
       ELSE capReached' = TRUE /\ UNCHANGED amtLocal
  /\ Attempt
  /\ UNCHANGED <<route, strategy, hittingTheWall, exitEarly, routeFee, summary, world, history,
                 halved>>

\* A fraction of the first amount is tried, down to the minimum.
TryFraction ==
  /\ amtLocal' = Halved(accelerator')
  /\ IF amtLocal' < minAmount
       THEN pc' = "done" /\ UNCHANGED halved
       ELSE Attempt /\ halved' = halved + 1

\* The accelerator fell to zero: the amount decreases from now on.
TurnBack ==
  /\ pc = "next" /\ strategy = "increase"
  /\ EndOfIncrease(NextAccelerator)
  /\ accelerator' = 2
  /\ strategy' = "decrease"
  /\ TryFraction
  /\ UNCHANGED <<route, hittingTheWall, capReached, exitEarly, routeFee, summary, world, history>>

Decrease ==
  /\ pc = "next" /\ strategy = "decrease"
  /\ accelerator' = 2 * accelerator
  /\ IF amtLocal < Halved(accelerator')
       THEN UNCHANGED <<amtLocal, pc, halved>>
       ELSE TryFraction
  /\ UNCHANGED <<route, strategy, hittingTheWall, capReached, exitEarly, routeFee, summary,
                 world, history>>

-----------------------------------------------------------------------------
\* What pickChannelPair offers; zero asks for all there is.
Available(wanted) == IF wanted = 0 \/ room < wanted THEN room ELSE wanted
TooLittle(wanted) == Available(wanted) < least \/ Available(wanted) = 0

\* getChannelCandidates takes the pair while it meets pfrom and pto.
Qualifies == room > spare
MayQualify == calm => Qualifies

\* The payments so far moved the pair past them: the loop returns an error.
NoCandidates ==
  /\ pc = "pick"
  /\ calm => ~Qualifies
  /\ pc' = "done"
  /\ UNCHANGED <<route, control, routeFee, summary, world, history, halved>>

\* No pair has room for the minimum: the amount becomes zero.
PickFails ==
  /\ pc = "pick" /\ MayQualify
  /\ TooLittle(amtLocal)
  /\ amtLocal' = 0
  /\ hittingTheWall' = TRUE
  /\ pc' = "next"
  /\ UNCHANGED <<route, accelerator, strategy, capReached, exitEarly, routeFee, summary, world,
                 history, halved>>

\* The pair may have less room than wanted.  The route is rebuilt.
Pick ==
  /\ pc = "pick" /\ MayQualify
  /\ ~TooLittle(amtLocal)
  /\ amtLocal' = Available(amtLocal)
  /\ hittingTheWall' = (hittingTheWall \/ amtLocal' < amtLocal)
  /\ exitEarly' = (exitEarly \/ (amtLocal' < amtLocal /\ strategy = "decrease"))
  /\ routeFee' \in Fees
  /\ pc' = "pay"
  /\ UNCHANGED <<route, accelerator, strategy, capReached, summary, world, history, halved>>

\* A channel is gone, or a call to lnd fails.
Abort ==
  /\ pc = "pick" /\ ~calm
  /\ pc' = "done"
  /\ UNCHANGED <<route, control, routeFee, summary, world, history, halved>>

-----------------------------------------------------------------------------
\* The network carries the payment, for the fee of the route, or of another if
\* the fees changed and pay updated it.
Carried ==
  /\ calm => amtLocal <= carry
  /\ amtLocal <= room
  /\ calm \/ paid + amtLocal <= MaxPaid
  /\ paid' = paid + amtLocal
  /\ \E fee \in IF calm THEN {routeFee} ELSE Fees : fees' = fees + fee
  /\ room' = room - amtLocal
  /\ carry' = IF amtLocal <= carry THEN carry - amtLocal ELSE carry
  /\ UNCHANGED <<spare, calm>>

Counted == successfulAmt + amtLocal

PaySucceeds ==
  /\ pc = "pay"
  /\ Carried
  /\ successfulAmt' = Counted
  /\ paidFee' = paidFee + routeFee
  /\ pc' = "next"
  /\ UNCHANGED <<route, control, routeFee, halved>>

\* The deadline of the attempt comes while the payment is under way, or after.
PayTimesOut ==
  /\ pc = "pay" /\ ~calm
  /\ Carried \/ UNCHANGED <<world, history>>
  /\ pc' = "done"
  /\ UNCHANGED <<route, control, routeFee, summary, halved>>

\* The fee is above the limit, at first or after an update.
PayTooExpensive ==
  /\ pc = "pay" /\ ~calm
  /\ hittingTheWall' = TRUE
  /\ exitEarly' = (exitEarly \/ strategy = "decrease")
  /\ pc' = "next"
  /\ UNCHANGED <<route, amtLocal, accelerator, strategy, capReached, routeFee, summary, world,
                 history, halved>>

\* The answer of lnd may also be lost, so the payment may have been carried.
PayFails ==
  /\ pc = "pay"
  /\ \/ ~calm /\ Carried
     \/ (calm => amtLocal > carry) /\ UNCHANGED <<world, history>>
  /\ hittingTheWall' = TRUE
  /\ pc' = "next"
  /\ UNCHANGED <<route, amtLocal, accelerator, strategy, capReached, exitEarly, routeFee, summary,
                 halved>>

\* Others use the channels.
Shift ==
  /\ ~calm /\ pc # "done"
  /\ room' \in Shifts
  /\ UNCHANGED <<route, control, routeFee, summary, pc, carry, spare, calm, history,
                 halved>>

tryRapidRebalance ==
  \/ SkipAmount \/ Increase \/ TurnBack \/ Decrease
  \/ NoCandidates \/ PickFails \/ Pick
  \/ PaySucceeds \/ PayTooExpensive \/ PayFails

Next == tryRapidRebalance \/ PayTimesOut \/ Abort \/ Shift

\* pay returns; nothing forces a call to fail.
Spec == Init /\ [][Next]_vars /\ WF_vars(tryRapidRebalance)

-----------------------------------------------------------------------------
\* Type invariant of tryRapidRebalance and of its world.
TypeOK ==
  /\ amt \in Amounts /\ least \in MinAmounts /\ hops \in Routes
  /\ amtLocal \in Nat /\ accelerator \in Nat
  /\ strategy \in {"increase", "decrease"}
  /\ hittingTheWall \in BOOLEAN /\ capReached \in BOOLEAN /\ exitEarly \in BOOLEAN
  /\ routeFee \in Fees
  /\ successfulAmt \in Nat /\ paidFee \in Nat
  /\ pc \in {"next", "pick", "pay", "done"}
  /\ room \in Nat /\ carry \in Nat /\ spare \in Spares /\ calm \in BOOLEAN
  /\ paid \in Nat /\ fees \in Nat /\ halved \in Nat

(* CHANGELOG.md:25: "Check route for max htlc during rapid rebalance and    *)
(* limit the max rebalancing amount to not hit that cap": where every hop   *)
(* takes more than the first amount, no attempt is above what a hop takes,  *)
(* also after a pick that failed, or offered less.                          *)
WithinHigherCap ==
  pc = "pay" /\ (\A m \in Limits : amt < m) => \A m \in Limits : amtLocal <= m

(* The doubling and halving come to an end though nothing bounds the number *)
(* of payments, and a failed pick sets the amount to zero on the way.       *)
RapidEnds == <>(pc = "done")

(* CHANGELOG.md:20: "goes all the way down to min amount": below the first  *)
(* amount the attempts get smaller each time, so none is made twice.        *)
DecreaseGoesDown ==
  [][pc = "next" /\ pc' = "pick" /\ strategy = "decrease" => amtLocal' < amtLocal]_vars

\* What the route could still carry.
Left == Min(Limits \cup {room, carry})

(* CHANGELOG.md:19: "all the way down to min amount to squeeze all          *)
(* available liquidity on the route", and README.md:82: "until criteria for *)
(* channels is not satifsied": where only our payments change the world,    *)
(* the pair no longer meets the criteria in the end, or what is left is     *)
(* less than twice the minimum and one satoshi more for each fraction of    *)
(* the first amount that was tried, as fractions are rounded.  The          *)
(* exception is an amount of the decreasing phase that the channels         *)
(* limited: the code takes that for the end even if the hops refuse it.     *)
SqueezedUnlessLeftEarly ==
  calm /\ pc = "done" /\ ~exitEarly => ~Qualifies \/ Left < 2 * minAmount + halved

(* CHANGELOG.md:41 and 46: the "summary now shows the correct total fee"    *)
(* and amount, whatever was tried, limited or refused on the way.  It never *)
(* tells more than was paid; it tells less only for a payment whose answer  *)
(* was lost or came after the deadline, and other fees only where pay       *)
(* updated the route.                                                       *)
SummaryHasTheTotals ==
  /\ successfulAmt <= paid
  /\ calm /\ pc = "done" => successfulAmt = paid /\ paidFee = fees
=============================================================================
