----------------------------- MODULE ProbeProofs -----------------------------
(***************************************************************************)
(* Proofs about Probe, for all amounts, step counts and tolerances: first  *)
(* what its caller relies on, then how well it finds the liquidity of a    *)
(* channel, which every step of the search halves the bracket of.          *)
(***************************************************************************)
EXTENDS Probe, NaturalsInduction, WellFoundedInduction, TLAPS

\* Every amount remembered as good was accepted.
GoodWasAccepted ==
  /\ goodAmount > 0 => goodAmount \in accepted
  /\ firstGood > 0 => firstGood \in accepted
  /\ maxAmount > 0 => maxAmount \in accepted

\* The lower end of the bracket is at least params.MinAmount, as a good amount
\* or as the opposite of a lower bound.
LowerEnd == UsesMin => goodAmount >= least \/ -goodAmount >= least

\* An amount pay is prepared for: ProbeSearch!MayFind.
Payable(a) == 0 < a /\ a < total /\ (UsesMin => a >= least)

\* Only amounts strictly inside the bracket are tried, so that every accepted
\* one may be paid.
TriesInside ==
  /\ pc \in {"build", "send"} => amount > 0 /\ amount < badAmount
  /\ \A a \in accepted : Payable(a)

\* Only the search for half of one satoshi gets to an amount of zero.
ZeroOnlyOnOneSat == (amount = 0 => total = 1) /\ (pc = "panic" => total = 1)

ProbeInv ==
  /\ TypeOK /\ Bracketed /\ LowerEnd
  /\ GoodWasAccepted /\ TriesInside /\ ZeroOnlyOnOneSat

-----------------------------------------------------------------------------
\* Half of a gap, rounded towards zero as Go does.
LEMMA HalfGap ==
  ASSUME NEW a \in Int
  PROVE  /\ Quot(a, 2) \in Int
         /\ a >= 0 => 0 <= Quot(a, 2) /\ Quot(a, 2) <= a
         /\ a >= 2 => 0 < Quot(a, 2)
         /\ a <= 0 => a <= Quot(a, 2) /\ Quot(a, 2) <= 0
         /\ a < 0 => a < Quot(a, 2)
         /\ a = -1 => Quot(a, 2) = 0
BY DEF Quot, Abs

\* After an accepted amount the next one is between it and the bad one.
LEMMA NextAboveAccepted ==
  ASSUME NEW bad \in Int, NEW amt \in Int, amt <= bad
  PROVE  /\ AfterAccepted(bad, amt) \in Int
         /\ amt <= AfterAccepted(bad, amt)
         /\ AfterAccepted(bad, amt) <= bad
<1>1. bad - amt \in Int /\ bad - amt >= 0
  OBVIOUS
<1> QED
  BY <1>1, HalfGap DEF AfterAccepted

\* After a refused amount the next one is between it and the good one, or the
\* lower bound that stands for it.
LEMMA NextBelowRefused ==
  ASSUME NEW good \in Int, NEW amt \in Nat, good <= amt, -good <= amt + 1
  PROVE  /\ AfterRefused(good, amt) \in Nat
         /\ good <= AfterRefused(good, amt)
         /\ -good <= AfterRefused(good, amt) + 1
         /\ AfterRefused(good, amt) <= amt
         /\ -good <= amt => -good <= AfterRefused(good, amt)
         /\ -good = amt + 1 => AfterRefused(good, amt) = amt
         /\ amt > 0 => AfterRefused(good, amt) > 0
<1>1. CASE good >= 0
  <2>1. good - amt \in Int /\ good - amt <= 0
    BY <1>1
  <2> QED
    BY <1>1, <2>1, HalfGap DEF AfterRefused
<1>2. CASE good < 0
  <2>1. good + amt \in Int /\ good + amt >= -1
    BY <1>2
  <2>2. CASE good + amt = -1
    <3>1. Quot(good + amt, 2) = 0
      BY <2>1, <2>2, HalfGap
    <3>2. AfterRefused(good, amt) = amt
      BY <1>2, <3>1 DEF AfterRefused
    <3> QED
      BY <1>2, <2>2, <3>2
  <2>3. CASE good + amt >= 0
    <3>1. /\ Quot(good + amt, 2) \in Int
          /\ 0 <= Quot(good + amt, 2) /\ Quot(good + amt, 2) <= good + amt
      BY <2>1, <2>3, HalfGap
    <3>2. AfterRefused(good, amt) = amt - Quot(good + amt, 2)
      BY <1>2 DEF AfterRefused
    <3> QED
      BY <1>2, <2>3, <3>1, <3>2
  <2> QED
    BY <2>1, <2>2, <2>3
<1> QED
  BY <1>1, <1>2

\* The search goes on only with an amount other than the bad one.
LEMMA NotNearBad ==
  ASSUME badAmount \in Nat \ {0}, amount \in Nat, amount <= badAmount, ~NearEnough
  PROVE  amount < badAmount
<1> SUFFICES ASSUME amount = badAmount PROVE FALSE
  OBVIOUS
<1>1. Quot((badAmount - badAmount) * 1000000, badAmount) = 0
  BY DEF Quot, Abs
<1>2. absoluteDeltaPPM(badAmount, amount) = 0
  BY <1>1 DEF absoluteDeltaPPM, Abs
<1> QED
  BY <1>2, ProbeStepsAssumption DEF NearEnough, NearBad

-----------------------------------------------------------------------------
\* The arguments pay calls probeRoute with satisfy the invariant.
LEMMA ProbeInit == Init => ProbeInv
<1> SUFFICES ASSUME Init PROVE ProbeInv
  OBVIOUS
<1> USE ProbeAmountsAssumption, ProbeStepsAssumption
<1>1. total \in Nat \ {0} /\ least \in Nat
  BY DEF Init
<1>2. Quot(total, 2) \in Int /\ 0 <= Quot(total, 2) /\ Quot(total, 2) <= total
  BY <1>1, HalfGap
<1>3. /\ goodAmount \in Int /\ goodAmount <= 0
      /\ amount \in Nat /\ amount <= total
      /\ -goodAmount <= amount + 1
      /\ UsesMin => amount = least /\ -goodAmount >= least
  BY <1>1, <1>2 DEF Init, UsesMin
<1>4. steady \in BOOLEAN /\ liquidity \in Nat /\ feeFloor \in Nat
  BY <1>1 DEF Init
<1>5. TypeOK
  <2>1. failure \in BOOLEAN /\ expired \in BOOLEAN /\ pc \in Control
    BY DEF Init, Control
  <2>2. total \in Amounts /\ least \in MinAmounts /\ badAmount \in Nat \ {0}
    BY <1>1 DEF Init
  <2>3. steps \in 1 .. ProbeSteps
    BY DEF Init
  <2>4. firstGood \in Nat /\ maxAmount \in Nat /\ accepted \subseteq Nat
    BY DEF Init
  <2> QED
    BY <2>1, <2>2, <2>3, <2>4, <1>3, <1>4 DEF TypeOK
<1>6. Bracketed
  BY <1>1, <1>3 DEF Init, Bracketed, UsesMin
<1>7. LowerEnd
  BY <1>3 DEF LowerEnd
<1>8. GoodWasAccepted
  BY <1>3 DEF Init, GoodWasAccepted
<1>9. TriesInside
  BY DEF Init, TriesInside
<1>10. ZeroOnlyOnOneSat
  <2>1. amount = 0 => total < 2
    BY <1>1, HalfGap DEF Init
  <2> QED
    BY <2>1, <1>1 DEF Init, ZeroOnlyOnOneSat
<1> QED
  BY <1>5, <1>6, <1>7, <1>8, <1>9, <1>10 DEF ProbeInv

\* A recursive call whose arguments keep the bracket keeps the invariant.
LEMMA CallAgainKeepsInv ==
  ASSUME ProbeInv, pc # "unwind", pc # "done",
         NEW good \in Int, NEW bad \in Nat \ {0}, NEW amt \in Nat,
         NEW left \in 1 .. ProbeSteps,
         CallAgain(good, bad, amt, left),
         UNCHANGED <<expired, world>>,
         accepted' \subseteq Nat, accepted \subseteq accepted',
         amt <= bad, bad <= total, good <= amt, -good <= amt + 1,
         UsesMin => amt >= least,
         UsesMin => good >= least \/ -good >= least,
         good > 0 => good \in accepted',
         amt = 0 => total = 1,
         \A a \in accepted' : Payable(a)
  PROVE  ProbeInv'
<1> USE ProbeAmountsAssumption, ProbeStepsAssumption
<1>1. TypeOK'
  BY DEF ProbeInv, TypeOK, CallAgain, world, Control
<1>2. Bracketed'
  BY DEF ProbeInv, TypeOK, Bracketed, CallAgain, world, UsesMin
<1>3. LowerEnd'
  BY DEF LowerEnd, UsesMin, CallAgain, world
<1>4. GoodWasAccepted'
  BY DEF ProbeInv, GoodWasAccepted, CallAgain
<1>5. TriesInside' /\ ZeroOnlyOnOneSat'
  BY DEF TriesInside, ZeroOnlyOnOneSat, Payable, UsesMin, CallAgain, world
<1> QED
  BY <1>1, <1>2, <1>3, <1>4, <1>5 DEF ProbeInv

\* Returning an amount accepted before, or none, keeps the invariant.
LEMMA ReturnKeepsInv ==
  ASSUME ProbeInv, pc # "unwind", pc # "done",
         NEW amt \in Nat, amt > 0 => amt \in accepted',
         ReturnAmount(amt),
         UNCHANGED <<expired, world>>,
         accepted' \subseteq Nat, accepted \subseteq accepted',
         \A a \in accepted' : Payable(a)
  PROVE  ProbeInv'
<1>1. TypeOK'
  BY DEF ProbeInv, TypeOK, ReturnAmount, args, world, Control
<1>2. Bracketed' /\ LowerEnd'
  BY DEF ProbeInv, Bracketed, LowerEnd, UsesMin, ReturnAmount, args, world
<1>3. GoodWasAccepted'
  BY DEF ProbeInv, GoodWasAccepted, ReturnAmount, args
<1>4. TriesInside' /\ ZeroOnlyOnOneSat'
  BY DEF ProbeInv, TriesInside, ZeroOnlyOnOneSat, Payable, UsesMin, ReturnAmount, args, world
<1> QED
  BY <1>1, <1>2, <1>3, <1>4 DEF ProbeInv

\* What the search falls back to was accepted.
LEMMA BestWasAccepted ==
  ASSUME ProbeInv
  PROVE  Best(goodAmount) \in Nat /\ (Best(goodAmount) > 0 => Best(goodAmount) \in accepted)
BY DEF ProbeInv, TypeOK, GoodWasAccepted, Best

-----------------------------------------------------------------------------
\* Every step of the search keeps the invariant.
LEMMA ProbeStep == ProbeInv /\ [Next]_vars => ProbeInv'
<1> SUFFICES ASSUME ProbeInv, [Next]_vars PROVE ProbeInv'
  OBVIOUS
<1> USE ProbeAmountsAssumption, ProbeStepsAssumption
<1>t. /\ goodAmount \in Int /\ badAmount \in Nat \ {0} /\ amount \in Nat
      /\ steps \in 1 .. ProbeSteps /\ accepted \subseteq Nat
      /\ total \in Nat \ {0} /\ least \in Nat
  BY DEF ProbeInv, TypeOK
<1>b. /\ amount <= badAmount /\ badAmount <= total
      /\ goodAmount <= amount /\ -goodAmount <= amount + 1
      /\ UsesMin => amount >= least
      /\ UsesMin => goodAmount >= least \/ -goodAmount >= least
      /\ goodAmount > 0 => goodAmount \in accepted
      /\ \A a \in accepted : Payable(a)
      /\ amount = 0 => total = 1
  BY DEF ProbeInv, Bracketed, LowerEnd, GoodWasAccepted, UsesMin, TriesInside, ZeroOnlyOnOneSat
<1>n. /\ AfterAccepted(badAmount, amount) \in Nat
      /\ amount <= AfterAccepted(badAmount, amount)
      /\ AfterAccepted(badAmount, amount) <= badAmount
  BY <1>t, <1>b, NextAboveAccepted
<1>1. CASE DivideByZero \/ Proceed \/ FeeAllowed
  <2>1. /\ UNCHANGED <<args, maxAmount, failure, expired, world, accepted>>
        /\ pc' \in {"panic", "build", "send"}
    BY <1>1 DEF DivideByZero, Proceed, FeeAllowed
  <2>2. TypeOK'
    BY <2>1 DEF ProbeInv, TypeOK, Control, args, world
  <2>3. Bracketed' /\ LowerEnd' /\ GoodWasAccepted'
    BY <2>1 DEF ProbeInv, Bracketed, LowerEnd, UsesMin, GoodWasAccepted, args, world
  <2>4. pc' # "panic" => amount > 0 /\ amount < badAmount
    BY <1>1, <1>t, <1>b, NotNearBad DEF DivideByZero, Proceed, FeeAllowed, ProbeInv, TriesInside
  <2>5. TriesInside'
    BY <2>1, <2>4, <1>b DEF TriesInside, Payable, UsesMin, args, world
  <2>6. pc' = "panic" => amount = 0
    BY <1>1 DEF DivideByZero, Proceed, FeeAllowed
  <2>7. ZeroOnlyOnOneSat'
    BY <2>1, <2>6, <1>b DEF ZeroOnlyOnOneSat, args, world
  <2> QED
    BY <2>2, <2>3, <2>5, <2>7 DEF ProbeInv
<1>2. CASE Converged
  BY <1>2, <1>t, <1>b, BestWasAccepted, ReturnKeepsInv DEF Converged
<1>3. CASE BuildFails \/ SendFails
  <2>1. /\ UNCHANGED <<args, maxAmount, expired, world, accepted>>
        /\ failure' = TRUE /\ pc' = "unwind" /\ pc \in {"build", "send"}
    BY <1>3 DEF BuildFails, SendFails, ReturnError
  <2>2. TypeOK'
    BY <2>1 DEF ProbeInv, TypeOK, Control, args, world
  <2>3. Bracketed' /\ LowerEnd'
    BY <2>1 DEF ProbeInv, Bracketed, LowerEnd, UsesMin, args, world
  <2>4. GoodWasAccepted'
    BY <2>1 DEF ProbeInv, GoodWasAccepted, args
  <2>5. TriesInside' /\ ZeroOnlyOnOneSat'
    BY <2>1, <1>b DEF TriesInside, ZeroOnlyOnOneSat, Payable, UsesMin, args, world
  <2> QED
    BY <2>2, <2>3, <2>4, <2>5 DEF ProbeInv
<1>4. CASE FeeTooHigh
  <2>1. CallAgain(-amount, badAmount, AfterAccepted(badAmount, amount), steps)
    BY <1>4 DEF FeeTooHigh
  <2>2. pc = "build" /\ UNCHANGED <<expired, world, accepted>>
    BY <1>4 DEF FeeTooHigh
  <2> QED
    BY <2>1, <2>2, <1>t, <1>b, <1>n, CallAgainKeepsInv
<1>5. CASE Accepted
  <2>1. pc = "send" /\ UNCHANGED <<expired, world>>
    BY <1>5 DEF Accepted
  <2>2. accepted' = accepted \cup {amount}
    BY <1>5 DEF Accepted
  <2>3. \A a \in accepted' : Payable(a)
    BY <2>1, <2>2, <1>t, <1>b DEF ProbeInv, TriesInside, Payable
  <2>4. CASE steps = 1
    BY <1>5, <2>1, <2>2, <2>3, <2>4, <1>t, ReturnKeepsInv DEF Accepted
  <2>5. CASE steps # 1
    <3>1. CallAgain(amount, badAmount, AfterAccepted(badAmount, amount), steps - 1)
      BY <1>5, <2>5 DEF Accepted
    <3>2. steps - 1 \in 1 .. ProbeSteps
      BY <1>t, <2>5
    <3> QED
      BY <3>1, <3>2, <2>1, <2>2, <2>3, <1>t, <1>b, <1>n, CallAgainKeepsInv
  <2> QED
    BY <2>4, <2>5
<1>6. CASE Refused
  <2>1. pc = "send" /\ UNCHANGED <<expired, world, accepted>>
    BY <1>6 DEF Refused
  <2>2. CASE steps = 1
    BY <1>6, <2>1, <2>2, <1>t, <1>b, BestWasAccepted, ReturnKeepsInv DEF Refused
  <2>3. CASE steps # 1
    <3>1. CallAgain(goodAmount, amount, AfterRefused(goodAmount, amount), steps - 1)
      BY <1>6, <2>3 DEF Refused
    <3>2. steps - 1 \in 1 .. ProbeSteps
      BY <1>t, <2>3
    <3>3. /\ AfterRefused(goodAmount, amount) \in Nat
          /\ goodAmount <= AfterRefused(goodAmount, amount)
          /\ -goodAmount <= AfterRefused(goodAmount, amount) + 1
          /\ AfterRefused(goodAmount, amount) <= amount
          /\ -goodAmount <= amount => -goodAmount <= AfterRefused(goodAmount, amount)
          /\ -goodAmount = amount + 1 => AfterRefused(goodAmount, amount) = amount
          /\ amount > 0 => AfterRefused(goodAmount, amount) > 0
      BY <1>t, <1>b, NextBelowRefused
    <3>4. UsesMin => AfterRefused(goodAmount, amount) >= least
      BY <3>3, <1>t, <1>b
    <3>5. amount \in Nat \ {0}
      BY <2>1, <1>t DEF ProbeInv, TriesInside
    <3>6. AfterRefused(goodAmount, amount) = 0 => total = 1
      BY <3>3, <3>5
    <3> QED
      BY <3>1, <3>2, <3>3, <3>4, <3>5, <3>6, <2>1, <1>t, <1>b, CallAgainKeepsInv
  <2> QED
    BY <2>2, <2>3
<1>7. CASE FeeInsufficient
  <2>1. CallAgain(goodAmount, badAmount, amount, steps)
    BY <1>7 DEF FeeInsufficient
  <2>2. pc = "send" /\ UNCHANGED <<expired, world, accepted>>
    BY <1>7 DEF FeeInsufficient
  <2> QED
    BY <2>1, <2>2, <1>t, <1>b, CallAgainKeepsInv
<1>8. CASE Unwind
  <2>1. UNCHANGED <<args, failure, expired, world, accepted>>
    BY <1>8 DEF Unwind
  <2>2. pc = "unwind" /\ pc' = "done" /\ maxAmount' \in {firstGood, maxAmount}
    BY <1>8 DEF Unwind, Struck
  <2>3. TypeOK'
    BY <2>1, <2>2 DEF ProbeInv, TypeOK, Control, args, world
  <2>4. Bracketed' /\ LowerEnd'
    BY <2>1 DEF ProbeInv, Bracketed, LowerEnd, UsesMin, args, world
  <2>5. GoodWasAccepted'
    BY <2>1, <2>2 DEF ProbeInv, GoodWasAccepted, args
  <2>6. TriesInside' /\ ZeroOnlyOnOneSat'
    BY <2>1, <2>2, <1>b DEF TriesInside, ZeroOnlyOnOneSat, Payable, UsesMin, args, world
  <2> QED
    BY <2>3, <2>4, <2>5, <2>6 DEF ProbeInv
<1>9. CASE Deadline
  <2>1. UNCHANGED <<args, maxAmount, failure, pc, world, accepted>>
    BY <1>9 DEF Deadline
  <2>2. expired' = TRUE
    BY <1>9 DEF Deadline
  <2>3. TypeOK'
    BY <2>1, <2>2 DEF ProbeInv, TypeOK, args, world
  <2>4. Bracketed' /\ LowerEnd' /\ GoodWasAccepted'
    BY <2>1 DEF ProbeInv, Bracketed, LowerEnd, UsesMin, GoodWasAccepted, args, world
  <2>5. TriesInside' /\ ZeroOnlyOnOneSat'
    BY <2>1 DEF ProbeInv, TriesInside, ZeroOnlyOnOneSat, Payable, UsesMin, args, world
  <2> QED
    BY <2>3, <2>4, <2>5 DEF ProbeInv
<1>10. CASE UNCHANGED vars
  <2>1. TypeOK'
    BY <1>10 DEF ProbeInv, TypeOK, vars, args, world
  <2>2. Bracketed' /\ LowerEnd' /\ GoodWasAccepted'
    BY <1>10 DEF ProbeInv, Bracketed, LowerEnd, UsesMin, GoodWasAccepted, vars, args, world
  <2>3. TriesInside' /\ ZeroOnlyOnOneSat'
    BY <1>10 DEF ProbeInv, TriesInside, ZeroOnlyOnOneSat, Payable, UsesMin, vars, args, world
  <2> QED
    BY <2>1, <2>2, <2>3 DEF ProbeInv
<1> QED
  BY <1>1, <1>2, <1>3, <1>4, <1>5, <1>6, <1>7, <1>8, <1>9, <1>10 DEF Next, probeRoute

-----------------------------------------------------------------------------
\* The arguments and results of probeRoute keep their types: no amount, step
\* count or fee sends an amount below zero or runs out of steps.
THEOREM ProbeTypes == Spec => []TypeOK
<1>1. ProbeInv => TypeOK
  BY DEF ProbeInv
<1> QED
  BY <1>1, ProbeInit, ProbeStep, PTL DEF Spec

\* The search of probeRoute stays in its bracket, for all amounts and answers
\* of the network.
THEOREM ProbeStaysBracketed == Spec => []Bracketed
<1>1. ProbeInv => Bracketed
  BY DEF ProbeInv
<1> QED
  BY <1>1, ProbeInit, ProbeStep, PTL DEF Spec

\* pay sends a real payment only of an amount probeRoute saw accepted.
THEOREM ProbeResultWasAccepted == Spec => []ResultWasAccepted
<1>1. ProbeInv => ResultWasAccepted
  BY DEF ProbeInv, GoodWasAccepted, TriesInside, Payable, ResultWasAccepted, Succeeded
<1> QED
  BY <1>1, ProbeInit, ProbeStep, PTL DEF Spec

-----------------------------------------------------------------------------
\* The search as its caller sees it: it begins without an answer.
LEMMA SearchBegins == Init => Answered = Search!Searching
BY DEF Init, Answered, Search!Searching

\* A step that does not end the search gives no answer.
LEMMA NoAnswerYet ==
  ASSUME pc \notin {"done", "panic"}
  PROVE  Answered = Search!Searching
BY DEF Answered, Search!Searching

\* Every step gives one of the answers, or none.
LEMMA StepAnswers ==
  ASSUME ProbeInv, ProbeInv', [Next]_vars
  PROVE  [Search!SearchNext]_<<total, least, Answered>>
<1>1. CASE UNCHANGED vars
  <2>1. Answered' = Answered
    BY <1>1 DEF Answered, vars, args, world
  <2> QED
    BY <1>1, <2>1 DEF vars, world
<1>2. CASE Next
  <2>1. total' = total /\ least' = least
    BY <1>2 DEF Next, probeRoute, DivideByZero, Converged, Proceed, BuildFails,
       FeeTooHigh, FeeAllowed, SendFails, Accepted, Refused, FeeInsufficient,
       Unwind, Deadline, world
  <2>2. pc \notin {"done", "panic"} \/ (pc = "panic" /\ Answered' = Answered)
    BY <1>2 DEF Next, probeRoute, DivideByZero, Converged, Proceed, BuildFails,
       FeeTooHigh, FeeAllowed, SendFails, Accepted, Refused, FeeInsufficient,
       Unwind, Deadline, Answered
  <2>3. CASE pc = "panic" /\ Answered' = Answered
    BY <2>1, <2>3
  <2>4. CASE pc \notin {"done", "panic"} /\ pc' \notin {"done", "panic"}
    <3>1. Answered = Search!Searching /\ Answered' = Search!Searching
      BY <2>4 DEF Answered, Search!Searching
    <3> QED
      BY <2>1, <3>1
  <2>5. CASE pc \notin {"done", "panic"} /\ pc' = "panic"
    <3>1. Answered = Search!Searching /\ Answered' = Search!Panicked
      BY <2>5 DEF Answered, Search!Searching, Search!Panicked
    <3>2. total = 1
      BY <2>1, <2>5 DEF ProbeInv, ZeroOnlyOnOneSat
    <3> QED
      BY <2>1, <3>1, <3>2 DEF Search!SearchNext, Search!Answer, Search!MayPanic
  <2>6. CASE pc \notin {"done", "panic"} /\ pc' = "done"
    <3>1. Answered = Search!Searching
      BY <2>6, NoAnswerYet
    <3>2. CASE failure'
      <4>1. Answered' = Search!Failed
        BY <2>6, <3>2 DEF Answered, Search!Failed
      <4> QED
        BY <2>1, <3>1, <4>1 DEF Search!SearchNext, Search!Answer
    <3>3. CASE ~failure' /\ maxAmount' = 0
      <4>1. Answered' = Search!Nothing
        BY <2>6, <3>3 DEF Answered, Search!Nothing
      <4> QED
        BY <2>1, <3>1, <4>1 DEF Search!SearchNext, Search!Answer
    <3>4. CASE ~failure' /\ maxAmount' # 0
      <4>1. Answered' = Search!Found(maxAmount')
        BY <2>6, <3>4 DEF Answered, Search!Found
      <4>2. maxAmount' \in accepted' /\ maxAmount' \in Nat /\ total \in Nat
        BY <2>1, <3>4, ProbeAmountsAssumption
        DEF ProbeInv, GoodWasAccepted, TypeOK
      <4>3. /\ 0 < maxAmount' /\ maxAmount' < total
            /\ least > 0 /\ least < total => maxAmount' >= least
        BY <2>1, <4>2 DEF ProbeInv, TriesInside, Payable, UsesMin
      <4>4. Search!MayFind(maxAmount') /\ maxAmount' \in 1 .. total
        BY <4>2, <4>3 DEF Search!MayFind
      <4> QED
        BY <2>1, <3>1, <4>1, <4>4 DEF Search!SearchNext, Search!Answer
    <3> QED
      BY <3>2, <3>3, <3>4
  <2> QED
    BY <2>2, <2>3, <2>4, <2>5, <2>6
<1> QED
  BY <1>1, <1>2

\* The search implements the promise pay relies on: one answer, and if it is an
\* amount, one that lies between params.MinAmount and the amount that failed.
THEOREM ProbeImplementsSearch == Spec => ImplementsSearch
<1>1. Init => Answered = Search!Searching
  BY SearchBegins
<1>2. ProbeInv /\ ProbeInv' /\ [Next]_vars
        => [Search!SearchNext]_<<total, least, Answered>>
  BY StepAnswers
<1> QED
  BY <1>1, <1>2, ProbeInit, ProbeStep, PTL DEF Spec, ImplementsSearch, Search!SearchSpec

-----------------------------------------------------------------------------
(* Powers of two.                                                          *)

\* A set with zero and the successors of its members has all natural numbers.
LEMMA AllNaturals ==
  ASSUME NEW S, 0 \in S, \A n \in Nat : n \in S => n + 1 \in S
  PROVE  \A n \in Nat : n \in S
<1> SUFFICES ASSUME NEW b \in Nat \ S PROVE FALSE
  OBVIOUS
<1> DEFINE R == {ss \in Nat \X Nat : ss[1] < ss[2]}
           T == Nat \ S
<1>1. IsWellFoundedOn(R, Nat)
  BY NatLessThanWellFounded, Zenon DEF OpToRel
<1>2. PICK x \in T : \A y \in T : ~(<<y, x>> \in R)
  <2> HIDE DEF R
  <2>1. T \subseteq Nat /\ T # {}
    OBVIOUS
  <2> HIDE DEF T
  <2> QED
    BY <1>1, <2>1, WFMin
<1>3. x \in Nat /\ x # 0
  OBVIOUS
<1>4. x - 1 \in Nat /\ x - 1 \notin S
  <2>1. x - 1 \in Nat /\ (x - 1) + 1 = x
    BY <1>3
  <2> QED
    BY <2>1, <1>3
<1>5. <<x - 1, x>> \in R
  BY <1>3, <1>4
<1> QED
  BY <1>2, <1>4, <1>5

\* The beginning of the powers of two.
Beginning(n) ==
  {f \in [0 .. n -> Nat] : \A i \in 0 .. n : f[i] = IF i = 0 THEN 1 ELSE 2 * f[i - 1]}

LEMMA BeginningExists == \A n \in Nat : Beginning(n) # {}
<1> DEFINE S == {n \in Nat : Beginning(n) # {}}
<1>1. 0 \in S
  <2> DEFINE f == [i \in 0 .. 0 |-> 1]
  <2>1. f \in Beginning(0)
    BY DEF Beginning
  <2> QED
    BY <2>1
<1>2. ASSUME NEW n \in Nat, n \in S PROVE n + 1 \in S
  <2>1. PICK f : f \in Beginning(n)
    BY <1>2
  <2> DEFINE g == [i \in 0 .. n + 1 |-> IF i <= n THEN f[i] ELSE 2 * f[n]]
  <2>2. f \in [0 .. n -> Nat] /\ \A i \in 0 .. n : f[i] = IF i = 0 THEN 1 ELSE 2 * f[i - 1]
    BY <2>1 DEF Beginning
  <2>3. g \in [0 .. n + 1 -> Nat]
    BY <2>2
  <2>4. ASSUME NEW i \in 0 .. n + 1 PROVE g[i] = IF i = 0 THEN 1 ELSE 2 * g[i - 1]
    <3>1. CASE i <= n
      BY <2>2, <3>1
    <3>2. CASE i = n + 1
      BY <2>2, <3>2
    <3> QED
      BY <3>1, <3>2
  <2>5. g \in Beginning(n + 1)
    BY <2>3, <2>4 DEF Beginning
  <2> QED
    BY <2>5
<1> HIDE DEF S
<1>3. \A n \in Nat : n \in S
  BY <1>1, <1>2, AllNaturals
<1> QED
  BY <1>3 DEF S

LEMMA BeginningsAgree ==
  \A k \in Nat : \A m, n \in Nat : \A f \in Beginning(m), g \in Beginning(n) :
    k <= m /\ k <= n => f[k] = g[k]
<1> DEFINE Agree(k) == \A m, n \in Nat : \A f \in Beginning(m), g \in Beginning(n) :
                         k <= m /\ k <= n => f[k] = g[k]
           S == {k \in Nat : Agree(k)}
<1>1. 0 \in S
  BY DEF Beginning
<1>2. ASSUME NEW k \in Nat, k \in S PROVE k + 1 \in S
  <2> SUFFICES ASSUME NEW m \in Nat, NEW n \in Nat, NEW f \in Beginning(m), NEW g \in Beginning(n),
                      k + 1 <= m, k + 1 <= n
               PROVE  f[k + 1] = g[k + 1]
    OBVIOUS
  <2>1. f[k] = g[k]
    BY <1>2
  <2>2. f[k + 1] = 2 * f[k] /\ g[k + 1] = 2 * g[k]
    BY DEF Beginning
  <2> QED
    BY <2>1, <2>2
<1> HIDE DEF S
<1>3. \A k \in Nat : k \in S
  BY <1>1, <1>2, AllNaturals
<1> QED
  BY <1>3 DEF S

LEMMA PowerDef == Power = [n \in Nat |-> IF n = 0 THEN 1 ELSE 2 * Power[n - 1]]
<1> DEFINE Start(n) == CHOOSE f : f \in Beginning(n)
           F == [n \in Nat |-> Start(n)[n]]
<1>1. \A n \in Nat : Start(n) \in Beginning(n)
  BY BeginningExists
<1>2. ASSUME NEW n \in Nat PROVE F[n] = IF n = 0 THEN 1 ELSE 2 * F[n - 1]
  <2>1. Start(n)[n] = IF n = 0 THEN 1 ELSE 2 * Start(n)[n - 1]
    <3> HIDE DEF Start
    <3> QED
      BY <1>1 DEF Beginning
  <2>2. n # 0 => Start(n)[n - 1] = Start(n - 1)[n - 1]
    <3> HIDE DEF Start
    <3> SUFFICES ASSUME n # 0 PROVE Start(n)[n - 1] = Start(n - 1)[n - 1]
      OBVIOUS
    <3>1. n - 1 \in Nat /\ n - 1 <= n
      OBVIOUS
    <3> QED
      BY <1>1, <3>1, BeginningsAgree
  <2> HIDE DEF Start
  <2> QED
    BY <2>1, <2>2
<1> HIDE DEF F
<1>3. F = [n \in Nat |-> IF n = 0 THEN 1 ELSE 2 * F[n - 1]]
  <2>1. F = [n \in Nat |-> F[n]]
    BY DEF F
  <2> QED
    BY <1>2, <2>1
<1> QED
  BY <1>3 DEF Power

\* What the proofs use of them.
LEMMA Powers ==
  /\ Power[0] = 1
  /\ \A n \in Nat : Power[n] \in Nat \ {0} /\ Power[n + 1] = 2 * Power[n]
<1>1. /\ Power[0] = 1 /\ \A n \in Nat : Power[n + 1] = 2 * Power[n]
  BY PowerDef
<1> DEFINE S == {n \in Nat : Power[n] \in Nat \ {0}}
<1>2. 0 \in S
  BY <1>1
<1>3. ASSUME NEW n \in Nat, n \in S PROVE n + 1 \in S
  BY <1>1, <1>3
<1> HIDE DEF S
<1>4. \A n \in Nat : n \in S
  BY <1>2, <1>3, AllNaturals
<1> QED
  BY <1>1, <1>4 DEF S

-----------------------------------------------------------------------------
(* The bracket.                                                            *)

Halvings == IF UsesMin THEN ProbeSteps - 1 ELSE ProbeSteps

\* The lower end of the bracket, and the distances of the amount to its ends.
Lower == IF goodAmount >= 0 THEN goodAmount ELSE -goodAmount
Above == badAmount - amount
Below == amount - Lower

\* A distance that so many halvings may leave.
Narrow(gap, left) == (gap - 1) * Power[Halvings] <= (total - 1) * Power[left - 1]

\* params.MinAmount is the amount, and not known to be good or too expensive.
First == UsesMin /\ goodAmount = -least - 1 /\ amount = least

\* The amount halves the bracket, but for the first one.
Halved ==
  /\ Narrow(Above, steps) /\ Narrow(Below, steps)
  /\ \/ First /\ badAmount = total
     \/ Below - Above <= 1 /\ Above - Below <= 1

\* In a steady network the ends of the bracket are what they seem to be.
EndsHold ==
  steady =>
    /\ liquidity < badAmount
    /\ goodAmount > 0 => goodAmount <= liquidity
    /\ goodAmount < 0 => -goodAmount < feeFloor \/ (First /\ badAmount \in {least, total})

\* The amount is at least half of the last one.
StillLarge ==
  ~UsesMin => (amount + 1) * Power[ProbeSteps] > total * Power[steps - 1]
AcceptedLarge ==
  ~UsesMin => \A a \in accepted : a >= total \div Power[ProbeSteps]

ResultGood ==
  steady /\ ~failure /\ (pc = "unwind" \/ (pc = "done" /\ ~expired)) => GoodEnough(maxAmount)

ArgsInv == Halved /\ EndsHold /\ StillLarge
SearchInv == ProbeInv /\ ArgsInv /\ AcceptedLarge /\ ResultGood

-----------------------------------------------------------------------------
(* Arithmetic of the halvings.                                             *)

LEMMA ProductGrows ==
  ASSUME NEW a \in Int, NEW b \in Int, NEW c \in Nat, a <= b
  PROVE  a * c \in Int /\ b * c \in Int /\ a * c <= b * c
OBVIOUS

LEMMA ProductCancels ==
  ASSUME NEW a \in Int, NEW b \in Int, NEW c \in Nat \ {0}, a * c < b * c
  PROVE  a < b
<1>1. ~(b <= a)
  BY ProductGrows
<1> QED
  BY <1>1

\* A quotient bounds the number from both sides.
LEMMA Quotient ==
  ASSUME NEW a \in Nat, NEW c \in Nat \ {0}
  PROVE  a \div c \in Nat /\ (a \div c) * c <= a /\ a < ((a \div c) + 1) * c
<1>1. a \div c \in Nat /\ a % c \in Nat /\ a % c < c /\ a = c * (a \div c) + (a % c)
  OBVIOUS
<1>2. (a \div c) * c = c * (a \div c) /\ ((a \div c) + 1) * c = c * (a \div c) + c
  BY <1>1
<1> QED
  BY <1>1, <1>2

\* An amount in the middle of a bracket leaves half of it on either side, up to
\* the rounding.
LEMMA Middle ==
  ASSUME NEW lo \in Int, NEW hi \in Int, lo <= hi,
         NEW mid \in {lo + Quot(hi - lo, 2), hi - Quot(hi - lo, 2)}
  PROVE  /\ mid \in Int
         /\ 2 * ((mid - lo) - 1) <= (hi - lo) - 1
         /\ 2 * ((hi - mid) - 1) <= (hi - lo) - 1
         /\ (mid - lo) - (hi - mid) <= 1 /\ (hi - mid) - (mid - lo) <= 1
BY DEF Quot, Abs

\* Refusals halve the distance to the lower end.
LEMMA TowardsLower ==
  ASSUME goodAmount \in Int, amount \in Nat
  PROVE  /\ AfterRefused(goodAmount, amount) = amount - Quot(amount - Lower, 2)
         /\ Lower \in Nat
<1>1. CASE goodAmount >= 0
  <2>1. ASSUME NEW n \in Int PROVE Quot(-n, 2) = -Quot(n, 2)
    BY DEF Quot, Abs
  <2>2. goodAmount - amount = -(amount - goodAmount) /\ amount - goodAmount \in Int
    BY <1>1
  <2>3. Quot(goodAmount - amount, 2) = -Quot(amount - goodAmount, 2)
    BY <2>1, <2>2
  <2>4. Quot(amount - goodAmount, 2) \in Int
    BY <2>2, HalfGap
  <2> QED
    BY <1>1, <2>3, <2>4 DEF AfterRefused, Lower
<1>2. CASE goodAmount < 0
  <2>1. goodAmount + amount = amount - (-goodAmount)
    BY <1>2
  <2> QED
    BY <1>2, <2>1 DEF AfterRefused, Lower
<1> QED
  BY <1>1, <1>2

\* What the bracket is measured by.
LEMMA MeasureTypes ==
  ASSUME ProbeInv
  PROVE  /\ total \in Nat \ {0} /\ least \in Nat /\ Halvings \in Nat
         /\ Power[Halvings] \in Nat \ {0} /\ Power[ProbeSteps] \in Nat \ {0}
         /\ \A left \in 1 .. ProbeSteps : Power[left - 1] \in Nat \ {0}
<1>1. total \in Nat \ {0} /\ least \in Nat
  BY ProbeAmountsAssumption DEF ProbeInv, TypeOK
<1>2. Halvings \in Nat /\ ProbeSteps \in Nat
  BY ProbeStepsAssumption DEF Halvings
<1>3. \A left \in 1 .. ProbeSteps : left - 1 \in Nat
  BY <1>2
<1> QED
  BY <1>1, <1>2, <1>3, Powers

\* A step of the search halves a distance, or leaves nothing of it.
LEMMA NarrowHalves ==
  ASSUME ProbeInv, NEW x \in Int, NEW y \in Int, NEW left \in 2 .. ProbeSteps,
         Narrow(x, left), 2 * (y - 1) <= x - 1 \/ y <= 1
  PROVE  Narrow(y, left - 1)
<1> DEFINE p == Power[Halvings]
           q == Power[left - 2]
           t == total - 1
<1>1. p \in Nat \ {0} /\ t \in Nat
  BY MeasureTypes
<1>2. q \in Nat \ {0} /\ Power[left - 1] = 2 * q
  <2>1. left - 2 \in Nat /\ (left - 2) + 1 = left - 1
    BY ProbeStepsAssumption
  <2> QED
    BY <2>1, Powers
<1>3. (x - 1) * p <= t * (2 * q)
  BY <1>2 DEF Narrow
<1> HIDE DEF p, q, t
<1>4. t * q \in Nat /\ t * (2 * q) = 2 * (t * q)
  BY <1>1, <1>2
<1>5. (y - 1) * p <= t * q
  <2>1. CASE y <= 1
    <3>1. (y - 1) * p <= 0 * p
      BY <1>1, <2>1, ProductGrows
    <3>2. 0 * p = 0 /\ (y - 1) * p \in Int
      BY <1>1
    <3> QED
      BY <1>4, <3>1, <3>2
  <2>2. CASE 2 * (y - 1) <= x - 1
    <3>1. (2 * (y - 1)) * p <= (x - 1) * p
      BY <1>1, <2>2, ProductGrows
    <3>2. (2 * (y - 1)) * p = 2 * ((y - 1) * p) /\ (y - 1) * p \in Int /\ (x - 1) * p \in Int
      BY <1>1
    <3> QED
      BY <1>3, <1>4, <3>1, <3>2
  <2> QED
    BY <2>1, <2>2
<1>6. (left - 1) - 1 = left - 2
  OBVIOUS
<1> QED
  BY <1>5, <1>6 DEF Narrow, p, q, t

LEMMA NarrowStays ==
  ASSUME ProbeInv, NEW x \in Int, NEW y \in Int, NEW left \in 1 .. ProbeSteps,
         Narrow(x, left), y <= x \/ y <= 1
  PROVE  Narrow(y, left)
<1> DEFINE p == Power[Halvings]
           q == Power[left - 1]
           t == total - 1
<1>1. p \in Nat \ {0} /\ q \in Nat \ {0} /\ t \in Nat
  BY MeasureTypes
<1>2. (x - 1) * p <= t * q
  BY DEF Narrow
<1> HIDE DEF p, q, t
<1>3. t * q \in Nat /\ (x - 1) * p \in Int /\ (y - 1) * p \in Int /\ 0 * p = 0
  BY <1>1
<1>4. CASE y <= 1
  <2>1. (y - 1) * p <= 0 * p
    BY <1>1, <1>4, ProductGrows
  <2> QED
    BY <1>3, <2>1 DEF Narrow, p, q, t
<1>5. CASE y <= x
  <2>1. (y - 1) * p <= (x - 1) * p
    BY <1>1, <1>5, ProductGrows
  <2> QED
    BY <1>2, <1>3, <2>1 DEF Narrow, p, q, t
<1> QED
  BY <1>4, <1>5

\* At the last step a distance is within the last bracket.
LEMMA NarrowAtLast ==
  ASSUME ProbeInv, NEW x \in Int, Narrow(x, 1)
  PROVE  LastBracket \in Nat /\ x - 1 <= LastBracket
<1> DEFINE p == Power[Halvings]
           t == total - 1
<1>1. p \in Nat \ {0} /\ t \in Nat
  BY MeasureTypes
<1>2. LastBracket = t \div p
  BY DEF LastBracket, Halvings
<1>3. (x - 1) * p <= t
  BY <1>1, Powers DEF Narrow
<1> HIDE DEF p, t
<1>4. t \div p \in Nat /\ t < ((t \div p) + 1) * p
  BY <1>1, Quotient
<1>5. (x - 1) * p < ((t \div p) + 1) * p
  <2>1. (x - 1) * p \in Int /\ ((t \div p) + 1) * p \in Int
    BY <1>1, <1>4
  <2> QED
    BY <1>1, <1>3, <1>4, <2>1
<1>6. x - 1 < (t \div p) + 1
  BY <1>1, <1>4, <1>5, ProductCancels
<1> QED
  BY <1>2, <1>4, <1>6

-----------------------------------------------------------------------------
(* What ends the search.                                                   *)

\* Numbers that are within the tolerance of each other.
LEMMA WithinTolerance ==
  ASSUME NEW base \in Nat \ {0}, NEW x \in Int, x <= base,
         absoluteDeltaPPM(base, x) <= FailTolerance
  PROVE  (base - x) * 1000000 < (FailTolerance + 1) * base
<1> DEFINE n == (base - x) * 1000000
           d == n \div base
<1>1. n \in Nat
  OBVIOUS
<1>2. d \in Nat /\ n < (d + 1) * base
  BY <1>1, Quotient
<1>3. absoluteDeltaPPM(base, x) = d
  BY <1>1, <1>2 DEF absoluteDeltaPPM, Quot, Abs
<1> HIDE DEF n, d
<1>4. (d + 1) * base <= (FailTolerance + 1) * base
  BY <1>2, <1>3, ProductGrows, ProbeStepsAssumption
<1>5. (d + 1) * base \in Int /\ (FailTolerance + 1) * base \in Int
  BY <1>2, ProbeStepsAssumption
<1>6. n < (FailTolerance + 1) * base
  BY <1>1, <1>2, <1>4, <1>5
<1> QED
  BY <1>6 DEF n

\* A distance within the tolerance of an amount in this search.
LEMMA DistanceWithinTolerance ==
  ASSUME ProbeInv, NEW base \in Nat \ {0}, base <= total, NEW x \in Int, x <= base,
         absoluteDeltaPPM(base, x) <= FailTolerance
  PROVE  base - x <= Tolerance /\ Tolerance \in Nat
<1> DEFINE f == FailTolerance + 1
<1>1. total \in Nat \ {0} /\ f \in Nat
  BY MeasureTypes, ProbeStepsAssumption
<1>2. (base - x) * 1000000 < f * base
  BY WithinTolerance
<1> HIDE DEF f
<1>3. f * base <= f * total /\ f * base \in Nat /\ total * f \in Nat /\ f * total = total * f
  <2>1. base * f <= total * f
    BY <1>1, ProductGrows
  <2> QED
    BY <1>1, <2>1
<1>4. Tolerance = (total * f) \div 1000000
  BY DEF Tolerance, f
<1>5. Tolerance \in Nat /\ total * f < (Tolerance + 1) * 1000000
  BY <1>3, <1>4, Quotient
<1> QED
  BY <1>2, <1>3, <1>5

\* With a tolerance of the whole amount any answer is good enough.
LEMMA HugeTolerance ==
  ASSUME ProbeInv, FailTolerance >= 1000000
  PROVE  Tolerance \in Nat /\ total <= Tolerance
<1>1. total \in Nat \ {0} /\ FailTolerance \in Nat
  BY MeasureTypes, ProbeStepsAssumption
<1>2. total * (FailTolerance + 1) \in Nat /\ 1000000 * total <= total * (FailTolerance + 1)
  <2>1. 1000000 * total <= (FailTolerance + 1) * total
    BY <1>1, ProductGrows
  <2>2. (FailTolerance + 1) * total = total * (FailTolerance + 1)
    BY <1>1
  <2> QED
    BY <1>1, <2>1, <2>2
<1>3. Tolerance \in Nat /\ total * (FailTolerance + 1) < (Tolerance + 1) * 1000000
  BY <1>2, Quotient DEF Tolerance
<1> QED
  BY <1>1, <1>2, <1>3

\* Nothing found is good enough when nothing in reach would do.
LEMMA NothingGood ==
  ASSUME goodAmount \in Int, goodAmount <= 0,
         \/ Misses(0, liquidity) \/ liquidity < least
         \/ Misses(feeFloor, liquidity) \/ MinNearTotal
  PROVE  GoodEnough(Best(goodAmount))
<1>1. Best(goodAmount) = 0
  BY DEF Best
<1>2. GoodEnough(0)
  BY DEF GoodEnough
<1> QED
  BY <1>1, <1>2

\* Where the search stops because the next amount is near enough.
LEMMA ConvergedGood ==
  ASSUME ProbeInv, Halved, EndsHold, steady, NearEnough
  PROVE  GoodEnough(Best(goodAmount))
<1>t. /\ goodAmount \in Int /\ badAmount \in Nat \ {0} /\ amount \in Nat
      /\ total \in Nat \ {0} /\ least \in Nat /\ liquidity \in Nat /\ feeFloor \in Nat
      /\ amount <= badAmount /\ badAmount <= total /\ FailTolerance \in Nat \ {0}
      /\ goodAmount <= amount
  BY MeasureTypes, ProbeStepsAssumption DEF ProbeInv, TypeOK, Bracketed
<1>e. /\ liquidity < badAmount
      /\ goodAmount > 0 => goodAmount <= liquidity
      /\ goodAmount < 0 => -goodAmount < feeFloor \/ (First /\ badAmount \in {least, total})
  BY DEF EndsHold
<1>1. CASE FailTolerance >= 1000000
  <2>1. Tolerance \in Nat /\ total <= Tolerance
    BY <1>1, HugeTolerance
  <2>2. \A r \in Nat : Misses(r, liquidity)
    BY <1>t, <1>e, <2>1 DEF Misses
  <2> QED
    BY <1>t, <1>e, <2>2 DEF GoodEnough, Best
<1>2. CASE FailTolerance < 1000000 /\ First /\ badAmount = total
  <2>1. goodAmount < 0 /\ amount = least /\ least > 0 /\ least < total
    BY <1>t, <1>2 DEF First, UsesMin
  <2>2. CASE NearBad
    <3>1. MinNearTotal
      BY <1>2, <2>1, <2>2 DEF NearBad, MinNearTotal, First
    <3> QED
      BY <1>t, <2>1, <3>1, NothingGood
  <2>3. CASE absoluteDeltaPPM(amount, goodAmount) <= FailTolerance
    <3>1. (amount - goodAmount) * 1000000 < (FailTolerance + 1) * amount
      BY <1>t, <2>1, <2>3, WithinTolerance
    <3>2. (FailTolerance + 1) * amount <= 1000000 * amount
      BY <1>t, <1>2, ProductGrows
    <3>3. (FailTolerance + 1) * amount \in Int
      BY <1>t
    <3> QED
      BY <1>t, <2>1, <3>1, <3>2, <3>3
  <2>4. CASE amount = -goodAmount
    BY <1>2, <2>1, <2>4, <1>t DEF First
  <2> QED
    BY <2>2, <2>3, <2>4 DEF NearEnough
<1>3. CASE FailTolerance < 1000000 /\ First /\ badAmount = least
  BY <1>t, <1>e, <1>3 DEF First, GoodEnough, Best
<1>4. CASE /\ FailTolerance < 1000000
           /\ Below - Above <= 1 /\ Above - Below <= 1
           /\ goodAmount < 0 => -goodAmount < feeFloor
  <2>1. /\ Lower \in Nat /\ Above \in Int /\ Below \in Int /\ Above >= 0
        /\ badAmount - Lower = Above + Below
    BY <1>t DEF Lower, Above, Below
  <2>2. (Above + Below) - 1 <= 2 * Tolerance /\ Tolerance \in Nat
    <3>1. CASE NearBad
      <4>1. Above <= Tolerance /\ Tolerance \in Nat
        BY <1>t, <3>1, DistanceWithinTolerance DEF NearBad, Above
      <4> QED
        BY <1>4, <2>1, <4>1
    <3>2. CASE amount # 0 /\ absoluteDeltaPPM(amount, goodAmount) <= FailTolerance
      <4>1. CASE goodAmount >= 0
        <5>1. amount - goodAmount <= Tolerance /\ Tolerance \in Nat
          BY <1>t, <3>2, DistanceWithinTolerance
        <5>2. Below <= Tolerance
          BY <4>1, <5>1 DEF Below, Lower
        <5> QED
          BY <1>4, <2>1, <5>1, <5>2
      <4>2. CASE goodAmount < 0
        <5>1. (amount - goodAmount) * 1000000 < (FailTolerance + 1) * amount
          BY <1>t, <3>2, WithinTolerance
        <5>2. (FailTolerance + 1) * amount <= 1000000 * amount
          BY <1>t, <1>4, ProductGrows
        <5>3. (FailTolerance + 1) * amount \in Int
          BY <1>t
        <5> QED
          BY <1>t, <4>2, <5>1, <5>2, <5>3
      <4> QED
        BY <1>t, <4>1, <4>2
    <3>3. CASE amount = -goodAmount
      <4>1. Below = 0
        BY <1>t, <3>3 DEF Below, Lower
      <4>2. Tolerance \in Nat
        <5>1. total * (FailTolerance + 1) \in Nat
          BY <1>t
        <5> QED
          BY <5>1, Quotient DEF Tolerance
      <4> QED
        BY <1>4, <2>1, <4>1, <4>2
    <3> QED
      BY <3>1, <3>2, <3>3 DEF NearEnough
  <2>3. liquidity - Lower <= 2 * Tolerance
    BY <1>t, <1>e, <2>1, <2>2
  <2>4. CASE goodAmount > 0
    BY <1>t, <1>e, <2>3, <2>4 DEF GoodEnough, Best, Misses, Lower
  <2>5. CASE goodAmount = 0
    BY <1>t, <2>3, <2>5 DEF GoodEnough, Best, Misses, Lower
  <2>6. CASE goodAmount < 0
    <3>1. liquidity - feeFloor <= 2 * Tolerance
      BY <1>t, <1>4, <2>2, <2>3, <2>6 DEF Lower
    <3>2. Misses(feeFloor, liquidity)
      BY <3>1 DEF Misses
    <3> QED
      BY <1>t, <2>6, <3>2, NothingGood
  <2> QED
    BY <1>t, <2>4, <2>5, <2>6
<1>5. First /\ badAmount = least => goodAmount < 0
  BY <1>t DEF First, UsesMin
<1>6. goodAmount < 0 /\ ~(-goodAmount < feeFloor) => First /\ badAmount \in {least, total}
  BY <1>e
<1>7. (First /\ badAmount = total) \/ (Below - Above <= 1 /\ Above - Below <= 1)
  BY DEF Halved
<1> QED
  BY <1>t, <1>1, <1>2, <1>3, <1>4, <1>6, <1>7

\* Where it stops because it has no step left.
LEMMA LastAcceptedGood ==
  ASSUME ProbeInv, Halved, EndsHold, steady, steps = 1, amount > 0, amount <= liquidity
  PROVE  GoodEnough(amount)
<1>1. /\ liquidity \in Nat /\ amount \in Nat /\ badAmount \in Nat /\ liquidity < badAmount
      /\ Above \in Int
  BY DEF ProbeInv, TypeOK, EndsHold, Above
<1>2. LastBracket \in Nat /\ Above - 1 <= LastBracket
  BY <1>1, NarrowAtLast DEF Halved
<1>3. liquidity - amount <= LastBracket
  BY <1>1, <1>2 DEF Above
<1> QED
  BY <1>3 DEF GoodEnough, Misses

LEMMA LastRefusedGood ==
  ASSUME ProbeInv, Halved, EndsHold, steady, steps = 1, amount > liquidity
  PROVE  GoodEnough(Best(goodAmount))
<1>1. /\ liquidity \in Nat /\ amount \in Nat /\ goodAmount \in Int /\ feeFloor \in Nat
      /\ Lower \in Nat /\ Below \in Int /\ least \in Nat
  BY MeasureTypes DEF ProbeInv, TypeOK, Lower, Below
<1>2. LastBracket \in Nat /\ Below - 1 <= LastBracket
  BY <1>1, NarrowAtLast DEF Halved
<1>3. liquidity - Lower <= LastBracket
  BY <1>1, <1>2 DEF Below
<1>4. CASE goodAmount > 0
  BY <1>1, <1>3, <1>4 DEF EndsHold, GoodEnough, Best, Misses, Lower
<1>5. CASE goodAmount = 0
  BY <1>1, <1>3, <1>5 DEF GoodEnough, Best, Misses, Lower
<1>6. CASE goodAmount < 0 /\ -goodAmount < feeFloor
  <2>1. liquidity - feeFloor <= LastBracket
    BY <1>1, <1>2, <1>3, <1>6 DEF Lower
  <2>2. Misses(feeFloor, liquidity)
    BY <2>1 DEF Misses
  <2> QED
    BY <1>1, <1>6, <2>2, NothingGood
<1>7. CASE goodAmount < 0 /\ First
  BY <1>1, <1>7 DEF GoodEnough, Best, First
<1> QED
  BY <1>1, <1>4, <1>5, <1>6, <1>7 DEF EndsHold

-----------------------------------------------------------------------------
(* The strengthened invariant: how it begins and which steps keep it.      *)

\* The first amount halves the bracket, or is params.MinAmount.
LEMMA InitHalved ==
  ASSUME Init
  PROVE  Halved
<1> DEFINE q == Power[ProbeSteps - 1]
           t == total - 1
<1>1. ProbeInv /\ steps = ProbeSteps /\ badAmount = total
  BY ProbeInit DEF Init
<1>2. total \in Nat \ {0} /\ t \in Nat /\ least \in Nat
  BY <1>1, MeasureTypes
<1>3. q \in Nat \ {0} /\ Power[ProbeSteps] = 2 * q
  <2>1. ProbeSteps - 1 \in Nat /\ (ProbeSteps - 1) + 1 = ProbeSteps
    BY ProbeStepsAssumption
  <2> QED
    BY <2>1, Powers
<1>4. CASE UsesMin
  <2>1. /\ goodAmount = -least - 1 /\ amount = least /\ least > 0 /\ least < total
        /\ Power[Halvings] = q
    BY <1>4 DEF Init, UsesMin, Halvings
  <2>2. First /\ Above = total - least /\ Below = -1
    BY <1>1, <1>2, <1>4, <2>1 DEF First, Above, Below, Lower
  <2>3. (Above - 1) * q <= t * q /\ (Below - 1) * q <= t * q
    <3>1. Above - 1 \in Int /\ Below - 1 \in Int /\ Above - 1 <= t /\ Below - 1 <= t
      BY <1>2, <2>1, <2>2
    <3> HIDE DEF q, t
    <3> QED
      BY <1>2, <1>3, <3>1, ProductGrows
  <2> QED
    BY <1>1, <2>1, <2>2, <2>3 DEF Halved, Narrow
<1>5. CASE ~UsesMin
  <2>1. goodAmount = 0 /\ amount = 0 + Quot(total - 0, 2) /\ Power[Halvings] = 2 * q
    <3>1. goodAmount = 0 /\ amount = Quot(total, 2)
      BY <1>5 DEF Init, UsesMin
    <3>2. total - 0 = total /\ Quot(total, 2) \in Int
      BY <1>2, HalfGap
    <3>3. 0 + Quot(total, 2) = Quot(total, 2)
      BY <3>2
    <3>4. Power[Halvings] = 2 * q
      BY <1>3, <1>5 DEF Halvings
    <3> QED
      BY <3>1, <3>2, <3>3, <3>4
  <2>2. Above = total - amount /\ Below = amount - 0 /\ amount \in Int
    <3>1. amount \in Int /\ Lower = 0
      BY <1>1, <2>1 DEF Lower, ProbeInv, TypeOK
    <3> QED
      BY <1>1, <3>1 DEF Above, Below
  <2>3. /\ 2 * (Below - 1) <= t /\ 2 * (Above - 1) <= t
        /\ Below - Above <= 1 /\ Above - Below <= 1
    <3>1. 0 \in Int /\ total \in Int /\ 0 <= total /\ total - 0 = total
      BY <1>2
    <3>2. /\ 2 * ((amount - 0) - 1) <= (total - 0) - 1
          /\ 2 * ((total - amount) - 1) <= (total - 0) - 1
          /\ (amount - 0) - (total - amount) <= 1 /\ (total - amount) - (amount - 0) <= 1
      BY <2>1, <3>1, Middle
    <3> QED
      BY <2>2, <3>1, <3>2
  <2>4. ASSUME NEW x \in Int, 2 * x <= t PROVE x * (2 * q) <= t * q
    <3> HIDE DEF q, t
    <3>1. (2 * x) * q <= t * q
      BY <1>2, <1>3, <2>4, ProductGrows
    <3> QED
      BY <1>3, <3>1
  <2>5. Above - 1 \in Int /\ Below - 1 \in Int
    BY <1>2, <2>2
  <2>6. (Above - 1) * (2 * q) <= t * q /\ (Below - 1) * (2 * q) <= t * q
    BY <2>3, <2>4, <2>5
  <2> QED
    BY <1>1, <2>1, <2>3, <2>6 DEF Halved, Narrow
<1> QED
  BY <1>4, <1>5

LEMMA SearchInit == Init => SearchInv
<1> SUFFICES ASSUME Init PROVE SearchInv
  OBVIOUS
<1>1. ProbeInv /\ Halved
  BY ProbeInit, InitHalved
<1>2. /\ total \in Nat \ {0} /\ least \in Nat /\ goodAmount \in Int /\ amount \in Nat
      /\ badAmount = total /\ steps = ProbeSteps /\ steps \in 1 .. ProbeSteps
  BY <1>1, MeasureTypes DEF Init, ProbeInv, TypeOK
<1>3. EndsHold
  <2>1. steady => liquidity < badAmount
    BY <1>2 DEF Init
  <2>2. goodAmount <= 0
    BY <1>2 DEF Init
  <2>3. goodAmount < 0 => First
    BY <1>2 DEF Init, First, UsesMin
  <2> QED
    BY <1>2, <2>1, <2>2, <2>3 DEF EndsHold
<1>4. StillLarge
  <2> SUFFICES ASSUME ~UsesMin
               PROVE  (amount + 1) * Power[ProbeSteps] > total * Power[steps - 1]
    BY DEF StillLarge
  <2> DEFINE q == Power[ProbeSteps - 1]
  <2>1. q \in Nat \ {0} /\ Power[ProbeSteps] = 2 * q
    <3>1. ProbeSteps - 1 \in Nat /\ (ProbeSteps - 1) + 1 = ProbeSteps
      BY ProbeStepsAssumption
    <3> QED
      BY <3>1, Powers
  <2>2. 2 * (amount + 1) >= total + 1
    <3>1. amount = Quot(total, 2)
      BY <1>2 DEF Init, UsesMin
    <3> QED
      BY <1>2, <3>1 DEF Quot, Abs
  <2> HIDE DEF q
  <2>3. (total + 1) * q <= (2 * (amount + 1)) * q
    BY <1>2, <2>1, <2>2, ProductGrows
  <2>4. (2 * (amount + 1)) * q = (amount + 1) * (2 * q) /\ (total + 1) * q = total * q + q
    BY <1>2, <2>1
  <2>5. (amount + 1) * (2 * q) > total * q
    <3>1. (amount + 1) * (2 * q) \in Int /\ total * q \in Int
      BY <1>2, <2>1
    <3> QED
      BY <2>1, <2>3, <2>4, <3>1
  <2> QED
    BY <1>2, <2>1, <2>5 DEF q
<1>5. AcceptedLarge /\ ResultGood
  BY DEF Init, AcceptedLarge, ResultGood
<1> QED
  BY <1>1, <1>3, <1>4, <1>5 DEF SearchInv, ArgsInv

\* A step that leaves the arguments alone.
LEMMA ArgsKept ==
  ASSUME ArgsInv, UNCHANGED <<args, world>>
  PROVE  ArgsInv'
BY DEF ArgsInv, Halved, EndsHold, StillLarge, Narrow, Above, Below, Lower, First,
  Halvings, UsesMin, args, world

\* A recursive call with a bracket narrow enough for the steps left.
LEMMA CallAgainKeepsArgs ==
  ASSUME ProbeInv, NEW good \in Int, NEW bad \in Int, NEW amt \in Int,
         NEW left \in 1 .. ProbeSteps,
         CallAgain(good, bad, amt, left), UNCHANGED world,
         Narrow(bad - amt, left), Narrow(amt - Abs(good), left),
         \/ UsesMin /\ good = -least - 1 /\ amt = least /\ bad = total
         \/ /\ (amt - Abs(good)) - (bad - amt) <= 1
            /\ (bad - amt) - (amt - Abs(good)) <= 1,
         steady => liquidity < bad,
         steady /\ good > 0 => good <= liquidity,
         steady /\ good < 0 =>
           \/ -good < feeFloor
           \/ UsesMin /\ good = -least - 1 /\ amt = least /\ bad \in {least, total},
         ~UsesMin => (amt + 1) * Power[ProbeSteps] > total * Power[left - 1]
  PROVE  ArgsInv'
<1>1. /\ goodAmount' = good /\ badAmount' = bad /\ amount' = amt /\ steps' = left
      /\ UNCHANGED <<total, least, steady, liquidity, feeFloor>>
  BY DEF CallAgain, world
<1>2. /\ UsesMin' <=> UsesMin
      /\ Halvings' = Halvings
      /\ Lower' = Abs(good) /\ Above' = bad - amt /\ Below' = amt - Abs(good)
  BY <1>1 DEF UsesMin, Halvings, Lower, Above, Below, Abs
<1>3. First' <=> UsesMin /\ good = -least - 1 /\ amt = least
  BY <1>1, <1>2 DEF First
<1>4. Halved'
  <2>1. Narrow(Above, steps)' /\ Narrow(Below, steps)'
    BY <1>1, <1>2 DEF Narrow
  <2> QED
    BY <1>1, <1>2, <1>3, <2>1 DEF Halved
<1>5. EndsHold'
  BY <1>1, <1>3 DEF EndsHold
<1>6. StillLarge'
  BY <1>1, <1>2 DEF StillLarge
<1> QED
  BY <1>4, <1>5, <1>6 DEF ArgsInv

\* What the steps below use of the invariants while a probe is on its way.
LEMMA Underway ==
  ASSUME ProbeInv, ArgsInv, pc \in {"build", "send"}
  PROVE  /\ total \in Nat \ {0} /\ least \in Nat /\ goodAmount \in Int
         /\ badAmount \in Nat \ {0} /\ amount \in Nat \ {0} /\ amount < badAmount
         /\ steps \in 1 .. ProbeSteps /\ ProbeSteps \in Nat
         /\ liquidity \in Nat /\ feeFloor \in Nat
         /\ goodAmount <= amount /\ -goodAmount <= amount + 1
         /\ Lower \in Nat /\ Above \in Int /\ Below \in Int /\ Above >= 1 /\ Below >= -1
         /\ Above = badAmount - amount /\ Below = amount - Lower
         /\ Narrow(Above, steps) /\ Narrow(Below, steps)
<1>1. /\ total \in Nat \ {0} /\ least \in Nat /\ ProbeSteps \in Nat
      /\ goodAmount \in Int /\ badAmount \in Nat \ {0} /\ amount \in Nat \ {0}
      /\ amount < badAmount /\ steps \in 1 .. ProbeSteps
      /\ liquidity \in Nat /\ feeFloor \in Nat
      /\ goodAmount <= amount /\ -goodAmount <= amount + 1
  BY MeasureTypes, ProbeStepsAssumption DEF ProbeInv, TypeOK, TriesInside, Bracketed
<1>2. /\ Lower \in Nat /\ Lower <= amount + 1
      /\ Above = badAmount - amount /\ Below = amount - Lower
  BY <1>1 DEF Lower, Above, Below
<1>3. Narrow(Above, steps) /\ Narrow(Below, steps)
  BY DEF ArgsInv, Halved
<1> QED
  BY <1>1, <1>2, <1>3

\* A larger amount keeps what half of the last one was worth, with fewer steps
\* left too.
LEMMA LargerStaysLarge ==
  ASSUME ProbeInv, ArgsInv, pc \in {"build", "send"}, ~UsesMin,
         NEW amt \in Int, amount <= amt, NEW left \in 1 .. ProbeSteps, left \in {steps, steps - 1}
  PROVE  (amt + 1) * Power[ProbeSteps] > total * Power[left - 1]
<1> DEFINE p == Power[ProbeSteps]
           q == Power[left - 1]
           r == Power[steps - 1]
<1>1. /\ total \in Nat /\ amount \in Nat /\ steps \in 1 .. ProbeSteps /\ ProbeSteps \in Nat
      /\ p \in Nat \ {0} /\ q \in Nat \ {0} /\ r \in Nat \ {0}
  BY Underway, MeasureTypes
<1>2. q <= r
  <2>1. CASE left = steps
    BY <1>1, <2>1
  <2>2. CASE left = steps - 1
    <3>1. left - 1 \in Nat /\ (left - 1) + 1 = steps - 1
      BY <1>1, <2>2
    <3>2. r = 2 * q
      BY <3>1, Powers
    <3> QED
      BY <1>1, <3>2
  <2> QED
    BY <2>1, <2>2
<1>3. (amount + 1) * p > total * r
  BY DEF ArgsInv, StillLarge
<1> HIDE DEF p, q, r
<1>4. (amount + 1) * p <= (amt + 1) * p
  BY <1>1, ProductGrows
<1>5. total * q <= total * r
  <2>1. q * total <= r * total
    BY <1>1, <1>2, ProductGrows
  <2> QED
    BY <1>1, <2>1
<1>6. (amt + 1) * p \in Int /\ (amount + 1) * p \in Int /\ total * q \in Int /\ total * r \in Int
  BY <1>1
<1>7. (amt + 1) * p > total * q
  BY <1>3, <1>4, <1>5, <1>6
<1> QED
  BY <1>7 DEF p, q

\* The amount tried after an accepted one halves what is above it.
LEMMA MiddleAbove ==
  ASSUME NEW bad \in Int, NEW amt \in Int, amt <= bad
  PROVE  /\ AfterAccepted(bad, amt) \in Int /\ amt <= AfterAccepted(bad, amt)
         /\ 2 * ((AfterAccepted(bad, amt) - amt) - 1) <= (bad - amt) - 1
         /\ 2 * ((bad - AfterAccepted(bad, amt)) - 1) <= (bad - amt) - 1
         /\ (AfterAccepted(bad, amt) - amt) - (bad - AfterAccepted(bad, amt)) <= 1
         /\ (bad - AfterAccepted(bad, amt)) - (AfterAccepted(bad, amt) - amt) <= 1
<1> DEFINE mid == amt + Quot(bad - amt, 2)
<1>1. mid \in {amt + Quot(bad - amt, 2), bad - Quot(bad - amt, 2)} /\ AfterAccepted(bad, amt) = mid
  BY DEF AfterAccepted
<1>2. amt <= AfterAccepted(bad, amt)
  BY NextAboveAccepted
<1> HIDE DEF mid
<1>3. /\ mid \in Int
      /\ 2 * ((mid - amt) - 1) <= (bad - amt) - 1
      /\ 2 * ((bad - mid) - 1) <= (bad - amt) - 1
      /\ (mid - amt) - (bad - mid) <= 1 /\ (bad - mid) - (mid - amt) <= 1
  BY <1>1, Middle
<1> QED
  BY <1>1, <1>2, <1>3

\* A fee above the limit moves the lower end up to the amount.
LEMMA FeeTooHighKeepsArgs ==
  ASSUME ProbeInv, ArgsInv, FeeTooHigh
  PROVE  ArgsInv'
<1> DEFINE next == AfterAccepted(badAmount, amount)
<1>1. pc = "build" /\ UNCHANGED world /\ (steady => amount < feeFloor)
      /\ CallAgain(-amount, badAmount, next, steps)
  BY DEF FeeTooHigh
<1>2. /\ amount \in Nat \ {0} /\ badAmount \in Nat \ {0} /\ amount < badAmount
      /\ steps \in 1 .. ProbeSteps /\ Above \in Int /\ Above = badAmount - amount /\ Above >= 1
      /\ Narrow(Above, steps) /\ feeFloor \in Nat
  BY <1>1, Underway
<1>3. /\ next \in Int
      /\ 2 * ((next - amount) - 1) <= Above - 1
      /\ 2 * ((badAmount - next) - 1) <= Above - 1
      /\ (next - amount) - (badAmount - next) <= 1 /\ (badAmount - next) - (next - amount) <= 1
      /\ amount <= next
  <2>1. badAmount \in Int /\ amount \in Int /\ amount <= badAmount
    BY <1>2
  <2> QED
    BY <1>2, <2>1, MiddleAbove
<1> HIDE DEF next
<1>4. Narrow(badAmount - next, steps) /\ Narrow(next - amount, steps)
  <2>1. badAmount - next \in Int /\ badAmount - next <= Above
    BY <1>2, <1>3
  <2>2. next - amount \in Int /\ next - amount <= Above
    BY <1>2, <1>3
  <2> QED
    BY <1>2, <2>1, <2>2, NarrowStays
<1>5. steady => liquidity < badAmount
  BY DEF ArgsInv, EndsHold
<1>6. ~UsesMin => (next + 1) * Power[ProbeSteps] > total * Power[steps - 1]
  BY <1>1, <1>2, <1>3, LargerStaysLarge
<1>7. -amount \in Int /\ -amount < 0 /\ -(-amount) = amount /\ Abs(-amount) = amount
  BY <1>2 DEF Abs
<1>8. /\ Narrow(next - Abs(-amount), steps)
      /\ (next - Abs(-amount)) - (badAmount - next) <= 1
      /\ (badAmount - next) - (next - Abs(-amount)) <= 1
  BY <1>3, <1>4, <1>7
<1>9. /\ badAmount \in Int /\ next \in Int
      /\ steady /\ -amount > 0 => -amount <= liquidity
      /\ steady /\ -amount < 0 => -(-amount) < feeFloor
  BY <1>1, <1>2, <1>3, <1>7
<1> QED
  BY <1>1, <1>2, <1>4, <1>5, <1>6, <1>7, <1>8, <1>9, CallAgainKeepsArgs

\* An accepted amount is the lower end of the next bracket.
LEMMA AcceptedKeepsArgs ==
  ASSUME ProbeInv, ArgsInv, Accepted
  PROVE  ArgsInv'
<1>1. pc = "send" /\ UNCHANGED world /\ (steady => amount <= liquidity)
  BY DEF Accepted
<1>2. CASE steps = 1
  <2>1. UNCHANGED args
    BY <1>2 DEF Accepted, ReturnAmount
  <2> QED
    BY <1>1, <2>1, ArgsKept
<1>3. CASE steps # 1
  <2> DEFINE next == AfterAccepted(badAmount, amount)
  <2>1. CallAgain(amount, badAmount, next, steps - 1)
    BY <1>3 DEF Accepted
  <2>2. /\ amount \in Nat \ {0} /\ badAmount \in Nat \ {0} /\ amount < badAmount
        /\ steps \in 2 .. ProbeSteps /\ steps - 1 \in 1 .. ProbeSteps
        /\ Above \in Int /\ Above = badAmount - amount
        /\ Narrow(Above, steps)
    BY <1>1, <1>3, Underway
  <2>3. /\ next \in Int
        /\ 2 * ((next - amount) - 1) <= Above - 1
        /\ 2 * ((badAmount - next) - 1) <= Above - 1
        /\ (next - amount) - (badAmount - next) <= 1 /\ (badAmount - next) - (next - amount) <= 1
        /\ amount <= next
    <3>1. badAmount \in Int /\ amount \in Int /\ amount <= badAmount
      BY <2>2
    <3> QED
      BY <2>2, <3>1, MiddleAbove
  <2> HIDE DEF next
  <2>4. Narrow(badAmount - next, steps - 1) /\ Narrow(next - amount, steps - 1)
    <3>1. badAmount - next \in Int /\ next - amount \in Int
      BY <2>2, <2>3
    <3> QED
      BY <2>2, <2>3, <3>1, NarrowHalves
  <2>5. steady => liquidity < badAmount
    BY DEF ArgsInv, EndsHold
  <2>6. ~UsesMin => (next + 1) * Power[ProbeSteps] > total * Power[(steps - 1) - 1]
    BY <1>1, <2>2, <2>3, LargerStaysLarge
  <2>7. amount \in Int /\ ~(amount < 0) /\ Abs(amount) = amount
    BY <2>2 DEF Abs
  <2>8. /\ Narrow(next - Abs(amount), steps - 1)
        /\ (next - Abs(amount)) - (badAmount - next) <= 1
        /\ (badAmount - next) - (next - Abs(amount)) <= 1
    BY <2>3, <2>4, <2>7
  <2>9. badAmount \in Int /\ next \in Int /\ steps - 1 \in 1 .. ProbeSteps
    BY <2>2, <2>3
  <2> QED
    BY <1>1, <2>1, <2>4, <2>5, <2>6, <2>7, <2>8, <2>9, CallAgainKeepsArgs
<1> QED
  BY <1>2, <1>3

\* The amount tried after a refused one halves what is below it, unless nothing
\* is: then it is the same amount.
LEMMA MiddleBelow ==
  ASSUME ProbeInv, ArgsInv, pc \in {"build", "send"},
         NEW next \in Int, next = AfterRefused(goodAmount, amount)
  PROVE  /\ 2 * ((amount - next) - 1) <= Below - 1 \/ amount - next <= 1
         /\ 2 * ((next - Lower) - 1) <= Below - 1 \/ next - Lower <= 1
         /\ (next - Lower) - (amount - next) <= 1 /\ (amount - next) - (next - Lower) <= 1
         /\ 2 * (next + 1) >= amount + 1
         /\ Below = -1 => next = amount
<1>1. /\ amount \in Nat \ {0} /\ goodAmount \in Int /\ Lower \in Nat
      /\ Below \in Int /\ Below = amount - Lower /\ Below >= -1
  BY Underway
<1>2. next = amount - Quot(Below, 2)
  BY <1>1, TowardsLower
<1>3. CASE Below >= 0
  <2>1. next \in {Lower + Quot(amount - Lower, 2), amount - Quot(amount - Lower, 2)}
    BY <1>1, <1>2
  <2>2. Lower \in Int /\ amount \in Int /\ Lower <= amount
    BY <1>1, <1>3
  <2>3. /\ 2 * ((next - Lower) - 1) <= (amount - Lower) - 1
        /\ 2 * ((amount - next) - 1) <= (amount - Lower) - 1
        /\ (next - Lower) - (amount - next) <= 1 /\ (amount - next) - (next - Lower) <= 1
    BY <2>1, <2>2, Middle
  <2> QED
    BY <1>1, <1>3, <2>3
<1>4. CASE Below = -1
  <2>1. Quot(Below, 2) = 0
    BY <1>4, HalfGap
  <2> QED
    BY <1>1, <1>2, <1>4, <2>1
<1> QED
  BY <1>1, <1>3, <1>4

\* A refused amount is the upper end of the next bracket.
LEMMA RefusedKeepsArgs ==
  ASSUME ProbeInv, ArgsInv, Refused
  PROVE  ArgsInv'
<1>1. pc = "send" /\ UNCHANGED world /\ (steady => amount > liquidity)
  BY DEF Refused
<1>2. CASE steps = 1
  <2>1. UNCHANGED args
    BY <1>2 DEF Refused, ReturnAmount
  <2> QED
    BY <1>1, <2>1, ArgsKept
<1>3. CASE steps # 1
  <2> DEFINE next == AfterRefused(goodAmount, amount)
  <2>1. CallAgain(goodAmount, amount, next, steps - 1)
    BY <1>3 DEF Refused
  <2>2. /\ total \in Nat \ {0} /\ amount \in Nat \ {0} /\ goodAmount \in Int
        /\ goodAmount <= amount /\ -goodAmount <= amount + 1
        /\ steps \in 2 .. ProbeSteps /\ steps - 1 \in 1 .. ProbeSteps /\ ProbeSteps \in Nat
        /\ Below \in Int /\ Below = amount - Lower /\ Lower \in Nat /\ least \in Nat
        /\ Narrow(Below, steps) /\ liquidity \in Nat
    BY <1>1, <1>3, Underway
  <2>3. next \in Int /\ Abs(goodAmount) = Lower
    <3>1. next \in Nat
      BY <2>2, NextBelowRefused
    <3>2. Abs(goodAmount) = Lower
      BY <2>2 DEF Abs, Lower
    <3> HIDE DEF next
    <3> QED
      BY <3>1, <3>2
  <2>4. /\ 2 * ((amount - next) - 1) <= Below - 1 \/ amount - next <= 1
        /\ 2 * ((next - Lower) - 1) <= Below - 1 \/ next - Lower <= 1
        /\ (next - Lower) - (amount - next) <= 1 /\ (amount - next) - (next - Lower) <= 1
        /\ 2 * (next + 1) >= amount + 1
        /\ Below = -1 => next = amount
    BY <1>1, <2>3, MiddleBelow
  <2> HIDE DEF next
  <2>5. Narrow(amount - next, steps - 1) /\ Narrow(next - Lower, steps - 1)
    <3>1. amount - next \in Int /\ next - Lower \in Int
      BY <2>2, <2>3
    <3> QED
      BY <2>2, <2>4, <3>1, NarrowHalves
  <2>6. steady /\ goodAmount < 0 =>
          \/ -goodAmount < feeFloor
          \/ UsesMin /\ goodAmount = -least - 1 /\ next = least /\ amount \in {least, total}
    <3> SUFFICES ASSUME steady, goodAmount < 0, ~(-goodAmount < feeFloor)
                 PROVE  UsesMin /\ goodAmount = -least - 1 /\ next = least /\ amount = least
      OBVIOUS
    <3>1. UsesMin /\ goodAmount = -least - 1 /\ amount = least
      BY DEF ArgsInv, EndsHold, First
    <3>2. Below = -1
      BY <2>2, <3>1 DEF Lower
    <3> QED
      BY <2>4, <3>1, <3>2
  <2>7. ~UsesMin => (next + 1) * Power[ProbeSteps] > total * Power[(steps - 1) - 1]
    <3> SUFFICES ASSUME ~UsesMin
                 PROVE  (next + 1) * Power[ProbeSteps] > total * Power[(steps - 1) - 1]
      OBVIOUS
    <3> DEFINE p == Power[ProbeSteps]
               q == Power[(steps - 1) - 1]
    <3>1. p \in Nat \ {0} /\ q \in Nat \ {0} /\ Power[steps - 1] = 2 * q
      <4>1. (steps - 1) - 1 \in Nat /\ ((steps - 1) - 1) + 1 = steps - 1
        BY <2>2
      <4> QED
        BY <2>2, <4>1, Powers
    <3>2. (amount + 1) * p > total * (2 * q)
      BY <3>1 DEF ArgsInv, StillLarge
    <3> HIDE DEF p, q
    <3>3. (amount + 1) * p <= (2 * (next + 1)) * p
      BY <2>2, <2>3, <2>4, <3>1, ProductGrows
    <3>4. /\ (2 * (next + 1)) * p = 2 * ((next + 1) * p) /\ (next + 1) * p \in Int
          /\ total * (2 * q) = 2 * (total * q) /\ total * q \in Int
          /\ (amount + 1) * p \in Int
      BY <2>2, <2>3, <3>1
    <3>5. (next + 1) * p > total * q
      BY <3>2, <3>3, <3>4
    <3> QED
      BY <3>5 DEF p, q
  <2>8. /\ steady /\ goodAmount > 0 => goodAmount <= liquidity
        /\ steady => liquidity < amount
    BY <1>1, <2>2 DEF ArgsInv, EndsHold
  <2>9. /\ Narrow(next - Abs(goodAmount), steps - 1)
        /\ (next - Abs(goodAmount)) - (amount - next) <= 1
        /\ (amount - next) - (next - Abs(goodAmount)) <= 1
    BY <2>3, <2>4, <2>5
  <2>10. amount \in Int /\ steps - 1 \in 1 .. ProbeSteps
    BY <2>2
  <2> QED
    BY <1>1, <2>1, <2>2, <2>3, <2>5, <2>6, <2>7, <2>8, <2>9, <2>10, CallAgainKeepsArgs
<1> QED
  BY <1>2, <1>3

\* The same call again keeps the same bracket.
LEMMA FeeInsufficientKeepsArgs ==
  ASSUME ProbeInv, ArgsInv, FeeInsufficient
  PROVE  ArgsInv'
<1>1. UNCHANGED <<goodAmount, badAmount, amount, steps, world>>
  BY DEF FeeInsufficient, CallAgain
<1> QED
  BY <1>1 DEF ArgsInv, Halved, EndsHold, StillLarge, Narrow, Above, Below, Lower, First,
     Halvings, UsesMin, world

\* An accepted amount is at least the last half.
LEMMA AcceptedStaysLarge ==
  ASSUME ProbeInv, ArgsInv, AcceptedLarge, Accepted
  PROVE  AcceptedLarge'
<1>1. pc = "send" /\ UNCHANGED world /\ accepted' = accepted \cup {amount}
  BY DEF Accepted
<1>2. (UsesMin' <=> UsesMin) /\ total' = total
  BY <1>1 DEF UsesMin, world
<1>3. ~UsesMin => amount >= total \div Power[ProbeSteps]
  <2> SUFFICES ASSUME ~UsesMin PROVE amount >= total \div Power[ProbeSteps]
    OBVIOUS
  <2> DEFINE p == Power[ProbeSteps]
             q == Power[steps - 1]
             d == total \div p
  <2>1. /\ total \in Nat \ {0} /\ amount \in Nat \ {0} /\ p \in Nat \ {0} /\ q \in Nat \ {0}
    BY <1>1, Underway, MeasureTypes
  <2>2. (amount + 1) * p > total * q
    BY DEF ArgsInv, StillLarge
  <2> HIDE DEF p, q
  <2>3. d \in Nat /\ d * p <= total
    BY <2>1, Quotient
  <2> HIDE DEF d
  <2>4. total <= total * q
    <3>1. 1 * total <= q * total
      BY <2>1, ProductGrows
    <3> QED
      BY <2>1, <3>1
  <2>5. d * p \in Int /\ (amount + 1) * p \in Int /\ total * q \in Int
    BY <2>1, <2>3
  <2>6. d * p < (amount + 1) * p
    BY <2>1, <2>2, <2>3, <2>4, <2>5
  <2>7. d < amount + 1
    <3>1. d \in Int /\ amount + 1 \in Int
      BY <2>1, <2>3
    <3> QED
      BY <2>1, <2>6, <3>1, ProductCancels
  <2>8. d <= amount
    BY <2>1, <2>3, <2>7
  <2> QED
    BY <2>8 DEF d, p
<1> QED
  BY <1>1, <1>2, <1>3 DEF AcceptedLarge

\* What is good enough stays so.
LEMMA GoodStays ==
  ASSUME UNCHANGED world, NEW result, GoodEnough(result), maxAmount' = result
  PROVE  GoodEnough(maxAmount)'
BY DEF GoodEnough, Misses, LastBracket, Tolerance, MinNearTotal, UsesMin, world

\* A result the search returns is good enough when it returns it, and the
\* deferred functions leave it alone before the deadline.
LEMMA ResultStaysGood ==
  ASSUME SearchInv, [Next]_vars
  PROVE  ResultGood'
<1> SUFFICES ASSUME steady', ~failure', pc' = "unwind" \/ (pc' = "done" /\ ~expired')
             PROVE  GoodEnough(maxAmount)'
  BY DEF ResultGood
<1> USE DEF SearchInv, ArgsInv
<1>1. CASE Converged
  <2>1. UNCHANGED world /\ NearEnough /\ maxAmount' = Best(goodAmount)
    BY <1>1 DEF Converged, ReturnAmount
  <2>2. steady
    BY <2>1 DEF world
  <2> QED
    BY <2>1, <2>2, ConvergedGood, GoodStays
<1>2. CASE Accepted
  <2>1. /\ pc = "send" /\ UNCHANGED world /\ (steady => amount <= liquidity)
        /\ steps = 1 /\ maxAmount' = amount
    BY <1>2 DEF Accepted, ReturnAmount, CallAgain
  <2>2. steady /\ amount > 0
    BY <2>1, Underway DEF world
  <2> QED
    BY <2>1, <2>2, LastAcceptedGood, GoodStays
<1>3. CASE Refused
  <2>1. /\ UNCHANGED world /\ (steady => amount > liquidity)
        /\ steps = 1 /\ maxAmount' = Best(goodAmount)
    BY <1>3 DEF Refused, ReturnAmount, CallAgain
  <2>2. steady
    BY <2>1 DEF world
  <2> QED
    BY <2>1, <2>2, LastRefusedGood, GoodStays
<1>4. CASE Unwind \/ Deadline \/ UNCHANGED vars
  <2>1. UNCHANGED world /\ UNCHANGED failure
    BY <1>4 DEF Unwind, Deadline, vars
  <2>2. steady /\ ~failure
    BY <2>1 DEF world
  <2>3. (pc = "unwind" \/ (pc = "done" /\ ~expired)) /\ maxAmount' = maxAmount
    BY <1>4 DEF Unwind, Deadline, vars
  <2> QED
    BY <2>1, <2>2, <2>3, GoodStays DEF ResultGood
<1>5. CASE DivideByZero \/ Proceed \/ FeeAllowed \/ FeeTooHigh \/ FeeInsufficient
  BY <1>5 DEF DivideByZero, Proceed, FeeAllowed, FeeTooHigh, FeeInsufficient, CallAgain
<1>6. CASE BuildFails \/ SendFails
  BY <1>6 DEF BuildFails, SendFails, ReturnError
<1> QED
  BY <1>1, <1>2, <1>3, <1>4, <1>5, <1>6 DEF Next, probeRoute

\* Every step of the search keeps the strengthened invariant.
LEMMA SearchStep == SearchInv /\ [Next]_vars => SearchInv'
<1> SUFFICES ASSUME SearchInv, [Next]_vars PROVE SearchInv'
  OBVIOUS
<1>i. ProbeInv /\ ArgsInv /\ AcceptedLarge
  BY DEF SearchInv
<1>1. ProbeInv'
  BY <1>i, ProbeStep
<1>2. ResultGood'
  BY ResultStaysGood
<1>3. ArgsInv' /\ AcceptedLarge'
  <2>1. CASE FeeTooHigh
    <3>1. AcceptedLarge'
      BY <1>i, <2>1 DEF FeeTooHigh, AcceptedLarge, UsesMin, world
    <3> QED
      BY <1>i, <2>1, <3>1, FeeTooHighKeepsArgs
  <2>2. CASE Accepted
    BY <1>i, <2>2, AcceptedKeepsArgs, AcceptedStaysLarge
  <2>3. CASE Refused
    <3>1. AcceptedLarge'
      BY <1>i, <2>3 DEF Refused, AcceptedLarge, UsesMin, world
    <3> QED
      BY <1>i, <2>3, <3>1, RefusedKeepsArgs
  <2>4. CASE FeeInsufficient
    <3>1. AcceptedLarge'
      BY <1>i, <2>4 DEF FeeInsufficient, AcceptedLarge, UsesMin, world
    <3> QED
      BY <1>i, <2>4, <3>1, FeeInsufficientKeepsArgs
  <2>5. CASE \/ DivideByZero \/ Converged \/ Proceed \/ BuildFails \/ FeeAllowed
             \/ SendFails \/ Unwind \/ Deadline \/ UNCHANGED vars
    <3>1. UNCHANGED <<args, world, accepted>>
      BY <2>5 DEF DivideByZero, Converged, Proceed, BuildFails, FeeAllowed, SendFails,
         Unwind, Deadline, ReturnAmount, ReturnError, vars
    <3>2. AcceptedLarge'
      BY <1>i, <3>1 DEF AcceptedLarge, UsesMin, world
    <3> QED
      BY <1>i, <3>1, <3>2, ArgsKept
  <2> QED
    BY <2>1, <2>2, <2>3, <2>4, <2>5 DEF Next, probeRoute
<1> QED
  BY <1>1, <1>2, <1>3 DEF SearchInv

-----------------------------------------------------------------------------
\* An amount probeRoute returns is at least params.MinAmount or the part of the
\* planned amount that README promises, whatever the network answers.
THEOREM ProbeResultNotTooSmall == Spec => []ResultNotTooSmall
<1>1. SearchInv => ResultNotTooSmall
  <2> SUFFICES ASSUME SearchInv, maxAmount > 0
               PROVE  IF UsesMin THEN maxAmount >= least
                                 ELSE maxAmount >= total \div Power[ProbeSteps]
    BY DEF ResultNotTooSmall
  <2>1. maxAmount \in accepted /\ Payable(maxAmount)
    BY DEF SearchInv, ProbeInv, GoodWasAccepted, TriesInside
  <2> QED
    BY <2>1 DEF SearchInv, AcceptedLarge, Payable
<1> QED
  BY <1>1, SearchInit, SearchStep, PTL DEF Spec

\* In a network that does not change, the amount probeRoute returns misses the
\* liquidity of the channel by no more than the last bracket or twice the
\* tolerance.
THEOREM ProbeFindsTheLiquidity == Spec => []FindsTheLiquidity
<1>1. SearchInv => FindsTheLiquidity
  BY DEF SearchInv, ResultGood, FindsTheLiquidity, Succeeded
<1> QED
  BY <1>1, SearchInit, SearchStep, PTL DEF Spec
=============================================================================
