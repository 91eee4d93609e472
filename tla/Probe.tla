-------------------------------- MODULE Probe --------------------------------
(***************************************************************************)
(* routes.go, probeRoute: the binary search for an amount that the second  *)
(* to last channel of a route can forward, by payments with a hash nobody  *)
(* knows; and the lines of pay (payment.go) that start it.                 *)
(*                                                                         *)
(* probeRoute is tail recursive, except that every active call runs a      *)
(* deferred function when it returns: past the deadline it overwrites      *)
(* maxAmount with its own goodAmount if that is positive.  They run        *)
(* innermost first, so the outermost positive goodAmount, firstGood, wins. *)
(***************************************************************************)
EXTENDS GoInt

CONSTANTS
  Amounts,        \* amounts of payments that failed and are probed
  MinAmounts,     \* values of params.MinAmount
  ProbeSteps,     \* params.ProbeSteps
  FailTolerance   \* params.FailTolerance, in ppm

ASSUME ProbeAmountsAssumption ==
  Amounts \subseteq Nat \ {0} /\ MinAmounts \subseteq Nat
ASSUME ProbeStepsAssumption ==
  ProbeSteps \in Nat \ {0} /\ FailTolerance \in Nat \ {0}

VARIABLES
  total,       \* the amount of the payment that failed
  least,       \* params.MinAmount
  goodAmount, badAmount, amount, steps,  \* arguments of the innermost call
  firstGood,   \* the outermost positive goodAmount of the active calls, or 0
  maxAmount,   \* the named result, before the deferred functions
  failure,     \* the err result is not nil
  expired,     \* ctx.Err() == context.DeadlineExceeded
  pc,
  steady,      \* liquidity and fees do not change during the search
  liquidity,   \* if steady: what the channel can forward
  feeFloor,    \* if steady: the smallest amount whose fee is within its limit
  accepted     \* history: the amounts a probe showed to be routable

args == <<goodAmount, badAmount, amount, steps, firstGood>>
world == <<total, least, steady, liquidity, feeFloor>>
vars == <<args, maxAmount, failure, expired, pc, world, accepted>>

Init ==
  /\ total \in Amounts
  /\ least \in MinAmounts
  /\ IF least > 0 /\ least < total
       THEN goodAmount = -least - 1 /\ amount = least
       ELSE goodAmount = 0 /\ amount = Quot(total, 2)
  /\ badAmount = total
  /\ steps = ProbeSteps
  /\ firstGood = 0
  /\ maxAmount = 0
  /\ failure = FALSE
  /\ expired \in BOOLEAN
  /\ pc = "call"
  /\ steady \in BOOLEAN
  /\ liquidity \in IF steady THEN 0 .. total - 1 ELSE {0}
  /\ feeFloor \in IF steady THEN 0 .. total ELSE {0}
  /\ accepted = {}

-----------------------------------------------------------------------------
(* Mutations used to show that the properties can fail.                    *)
MutAfterAccepted(bad, amt) == bad - Quot(bad - amt, 4)
MutAfterRefused(good, amt) == amt + Quot(good - amt, 2)
MutAfterRefusedFar(good, amt) == Quot(amt, 3)
MutBest(good) == Abs(good)
MutNearEnough ==
  \/ absoluteDeltaPPM(badAmount, amount) <= FailTolerance
  \/ amount # 0 /\ absoluteDeltaPPM(amount, goodAmount) <= FailTolerance

-----------------------------------------------------------------------------
\* The amount to try after an accepted one and after a fee above the limit.
AfterAccepted(bad, amt) == amt + Quot(bad - amt, 2)

\* The amount to try after a refused one.  A negative good is minus a lower
\* bound: the largest amount whose fee is known to be above the limit.
AfterRefused(good, amt) ==
  IF good >= 0 THEN amt + Quot(good - amt, 2) ELSE amt - Quot(good + amt, 2)

\* The best amount known when the search ends.
Best(good) == IF good <= 0 THEN 0 ELSE good

\* The first test of probeRoute.  Its second disjunct divides by amount.
NearBad == absoluteDeltaPPM(badAmount, amount) <= FailTolerance
NearEnough ==
  \/ NearBad
  \/ amount # 0 /\ (\/ absoluteDeltaPPM(amount, goodAmount) <= FailTolerance
                    \/ amount = -goodAmount)

\* return probeRoute(ctx, route, good, bad, amt, left)
CallAgain(good, bad, amt, left) ==
  /\ goodAmount' = good
  /\ badAmount' = bad
  /\ amount' = amt
  /\ steps' = left
  /\ firstGood' = IF firstGood = 0 /\ good > 0 THEN good ELSE firstGood
  /\ pc' = "call"
  /\ UNCHANGED <<maxAmount, failure>>

\* return amt and a nil error, or 0 and an error.
ReturnAmount(amt) == maxAmount' = amt /\ pc' = "unwind" /\ UNCHANGED <<args, failure>>
ReturnError == failure' = TRUE /\ pc' = "unwind" /\ UNCHANGED <<args, maxAmount>>

\* Go panics: the second test divides by an amount of zero.
DivideByZero ==
  /\ pc = "call"
  /\ amount = 0
  /\ ~NearEnough
  /\ pc' = "panic"
  /\ UNCHANGED <<args, maxAmount, failure, expired, world, accepted>>

\* The next step would be too close to an amount already tried.
Converged ==
  /\ pc = "call"
  /\ NearEnough
  /\ ReturnAmount(Best(goodAmount))
  /\ UNCHANGED <<expired, world, accepted>>

Proceed ==
  /\ pc = "call"
  /\ amount # 0
  /\ ~NearEnough
  /\ pc' = "build"
  /\ UNCHANGED <<args, maxAmount, failure, expired, world, accepted>>

\* rebuildRoute or calcFeeMsat fails; past the deadline rebuildRoute does.
BuildFails ==
  /\ pc = "build"
  /\ ReturnError
  /\ UNCHANGED <<expired, world, accepted>>

\* The fee of the rebuilt route is above the limit: try a larger amount.  No
\* step is used up.
FeeTooHigh ==
  /\ pc = "build" /\ ~expired
  /\ steady => amount < feeFloor
  /\ CallAgain(-amount, badAmount, AfterAccepted(badAmount, amount), steps)
  /\ UNCHANGED <<expired, world, accepted>>

FeeAllowed ==
  /\ pc = "build" /\ ~expired
  /\ steady => amount >= feeFloor
  /\ pc' = "send"
  /\ UNCHANGED <<args, maxAmount, failure, expired, world, accepted>>

\* SendToRouteV2 returns an error, a success nobody could produce, or a
\* failure of a kind the search does not handle.
SendFails ==
  /\ pc = "send"
  /\ ReturnError
  /\ UNCHANGED <<expired, world, accepted>>

\* INCORRECT_OR_UNKNOWN_PAYMENT_DETAILS: the payment reached the last node.
Accepted ==
  /\ pc = "send" /\ ~expired
  /\ steady => amount <= liquidity
  /\ accepted' = accepted \cup {amount}
  /\ IF steps = 1
       THEN ReturnAmount(amount)
       ELSE CallAgain(amount, badAmount, AfterAccepted(badAmount, amount), steps - 1)
  /\ UNCHANGED <<expired, world>>

\* TEMPORARY_CHANNEL_FAILURE: the amount is too much.
Refused ==
  /\ pc = "send" /\ ~expired
  /\ steady => amount > liquidity
  /\ IF steps = 1
       THEN ReturnAmount(Best(goodAmount))
       ELSE CallAgain(goodAmount, amount, AfterRefused(goodAmount, amount), steps - 1)
  /\ UNCHANGED <<expired, world, accepted>>

\* FEE_INSUFFICIENT: the same amount again.
FeeInsufficient ==
  /\ pc = "send" /\ ~expired
  /\ CallAgain(goodAmount, badAmount, amount, steps)
  /\ UNCHANGED <<expired, world, accepted>>

\* What the deferred functions leave in maxAmount past the deadline.
Struck == IF firstGood > 0 THEN firstGood ELSE maxAmount

\* All the active calls return, innermost first.
Unwind ==
  /\ pc = "unwind"
  /\ maxAmount' = IF expired THEN Struck ELSE maxAmount
  /\ pc' = "done"
  /\ UNCHANGED <<args, failure, expired, world, accepted>>

\* The deadline of the attempt passes, before some call or between returns.
Deadline ==
  /\ pc # "done" /\ ~expired
  /\ expired' = TRUE
  /\ UNCHANGED <<args, maxAmount, failure, pc, world, accepted>>

probeRoute ==
  \/ DivideByZero \/ Converged \/ Proceed \/ BuildFails \/ FeeTooHigh
  \/ FeeAllowed \/ SendFails \/ Accepted \/ Refused \/ FeeInsufficient \/ Unwind

Next == probeRoute \/ Deadline

\* Every call to lnd returns, by its deadline at the latest.
Spec == Init /\ [][Next]_vars /\ WF_vars(probeRoute)
-----------------------------------------------------------------------------
Control == {"call", "build", "send", "unwind", "done", "panic"}

\* Type invariant of the arguments and results of probeRoute.
TypeOK ==
  /\ total \in Amounts /\ least \in MinAmounts
  /\ goodAmount \in Int /\ badAmount \in Nat \ {0} /\ amount \in Nat
  /\ steps \in 1 .. ProbeSteps
  /\ firstGood \in Nat /\ maxAmount \in Nat
  /\ failure \in BOOLEAN /\ expired \in BOOLEAN
  /\ pc \in Control
  /\ steady \in BOOLEAN /\ liquidity \in Nat /\ feeFloor \in Nat
  /\ accepted \subseteq Nat

Succeeded == pc = "done" /\ ~failure

\* params.MinAmount bounds this search.
UsesMin == least > 0 /\ least < total

\* Two to the n.
Power[n \in Nat] == IF n = 0 THEN 1 ELSE 2 * Power[n - 1]

(* An amount the search returns was accepted by the network in this        *)
(* search, whatever mixture of refusals, fees, errors and deadlines it met *)
(* on the way, and less than the amount that failed: pay then sends a real *)
(* payment of that amount.                                                 *)
ResultWasAccepted ==
  Succeeded /\ maxAmount > 0 => maxAmount \in accepted /\ maxAmount < total

(* The search never leaves the bracket between the largest amount known to *)
(* be good, or too expensive, and the smallest known to be bad; it starts  *)
(* just below params.MinAmount when that is set.                           *)
Bracketed ==
  /\ amount <= badAmount /\ badAmount <= total
  /\ goodAmount <= amount /\ -goodAmount <= amount + 1
  /\ UsesMin => amount >= least

(* README: the amount learned is at least the planned one over 2^n after n *)
(* steps, or params.MinAmount when that is set.                            *)
ResultNotTooSmall ==
  Succeeded /\ maxAmount > 0 =>
    IF UsesMin THEN maxAmount >= least ELSE maxAmount >= total \div Power[ProbeSteps]

(* In a network that does not change, a search that is not cut short       *)
(* misses the liquidity of the channel by no more than the last bracket of *)
(* a binary search of that many steps (the first of which goes to          *)
(* params.MinAmount when that is set) or twice its tolerance: the next     *)
(* amount is compared, which is half a bracket away.  It returns nothing   *)
(* only if nothing in reach is both liquid and cheap enough, or if         *)
(* params.MinAmount is within the tolerance of the amount that failed.     *)
LastBracket == (total - 1) \div Power[IF UsesMin THEN ProbeSteps - 1 ELSE ProbeSteps]
Tolerance == (total * (FailTolerance + 1)) \div 1000000
Misses(amt, limit) == limit - amt <= LastBracket \/ limit - amt <= 2 * Tolerance
MinNearTotal == UsesMin /\ absoluteDeltaPPM(total, least) <= FailTolerance
GoodEnough(result) ==
  IF result > 0
    THEN result <= liquidity /\ Misses(result, liquidity)
    ELSE \/ Misses(0, liquidity) \/ liquidity < least
         \/ Misses(feeFloor, liquidity)
         \/ MinNearTotal
FindsTheLiquidity == steady /\ Succeeded /\ ~expired => GoodEnough(maxAmount)

(* The search ends by itself: a fee above the limit, which uses up no step, *)
(* cannot keep it going.  Only FEE_INSUFFICIENT, which calls probeRoute     *)
(* again with the arguments it had, can do that, and the deadline ends it   *)
(* then too.                                                                *)
SearchEnds ==
  \/ <>(pc \in {"done", "panic"})
  \/ []~expired /\ []<><<FeeInsufficient>>_vars

(* The search gives pay one of the answers it is prepared for: an amount   *)
(* between the minimum and the one that failed, none, or an error; the     *)
(* divisor of the closeness test is zero only when a payment of one        *)
(* satoshi is probed.                                                      *)
Answered ==
  CASE pc = "panic" -> [kind |-> "panic", amount |-> 0]
    [] pc = "done" /\ failure -> [kind |-> "error", amount |-> 0]
    [] pc = "done" /\ ~failure /\ maxAmount = 0 -> [kind |-> "nothing", amount |-> 0]
    [] pc = "done" /\ ~failure /\ maxAmount # 0 -> [kind |-> "found", amount |-> maxAmount]
    [] OTHER -> [kind |-> "searching", amount |-> 0]
Search == INSTANCE ProbeSearch WITH answer <- Answered
ImplementsSearch == Search!SearchSpec
=============================================================================
