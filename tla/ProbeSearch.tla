----------------------------- MODULE ProbeSearch -----------------------------
(***************************************************************************)
(* What probing promises to the payment that starts it (payment.go, pay;   *)
(* routes.go, probeRoute), without bracket, steps or network: one answer.  *)
(***************************************************************************)
EXTENDS Integers

VARIABLES
  total,  \* the amount of the payment that failed
  least,  \* params.MinAmount
  answer  \* what the search came to

Searching == [kind |-> "searching", amount |-> 0]
Found(a) == [kind |-> "found", amount |-> a]
Nothing == [kind |-> "nothing", amount |-> 0]
Failed == [kind |-> "error", amount |-> 0]
Panicked == [kind |-> "panic", amount |-> 0]

\* An amount less than the one that failed, and no less than the minimum if
\* that is less too.
MayFind(a) ==
  /\ 0 < a /\ a < total
  /\ least > 0 /\ least < total => a >= least

\* The first amount to try is zero, half of one satoshi.
MayPanic == total = 1

Answer(value) ==
  /\ answer = Searching
  /\ answer' = value
  /\ UNCHANGED <<total, least>>

SearchNext ==
  \/ \E a \in 1 .. total : MayFind(a) /\ Answer(Found(a))
  \/ Answer(Nothing)
  \/ Answer(Failed)
  \/ MayPanic /\ Answer(Panicked)

SearchSpec == answer = Searching /\ [][SearchNext]_<<total, least, answer>>
=============================================================================
