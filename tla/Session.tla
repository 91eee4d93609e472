------------------------------- MODULE Session -------------------------------
(***************************************************************************)
(* rebalancer.go: tryRebalance, and the loop of main (main.go) that calls  *)
(* it until it is told to stop.  The session takes its channel pairs from  *)
(* PairPool, which PairSelection implements, and pays through Payment.     *)
(*                                                                         *)
(* There are three contexts: the main one, the one of an attempt, which    *)
(* Payment's "expired" belongs to, and the one of a route query.  A parent *)
(* past its deadline takes its children with it.                           *)
(***************************************************************************)
EXTENDS Payment

CONSTANTS
  Pairs, NoPair, \* see PairPool
  Probing,       \* params.ProbeSteps is not zero
  MaxRoutes      \* routes lnd may return for one query

ASSUME SessionAssumption ==
  /\ Pairs # {} /\ NoPair \notin Pairs
  /\ Probing \in BOOLEAN
  /\ MaxRoutes \in Nat \ {0}

VARIABLES
  failed, found, chosen, over, \* see PairPool
  amt,         \* the amount tryRebalance works with
  maxFee,      \* maxFeeMsat
  routeAmount, \* the amount its routes were queried for
  left,        \* routes of the query that were not tried yet
  err, repeat, \* the results of tryRebalance
  mainExpired, \* mainCtx.Err() == context.DeadlineExceeded
  exit,        \* the exit code, or Running
  at           \* where the session is

Pool == INSTANCE PairPool

pool == <<failed, found, chosen, over>>
attempt == <<amt, maxFee, routeAmount, left>>
outcome == <<err, repeat>>
process == <<mainExpired, exit>>
vars == <<payVars, pool, attempt, outcome, process, at>>

Running == -1
Places == {"loop", "picking", "query", "routes", "paying", "retry", "payingProbed",
           "rapid", "rapidAttempt", "payingRapid", "returned", "exited"}

Init ==
  /\ PayInit
  /\ Pool!PoolInit
  /\ amt = 0 /\ maxFee = 0 /\ routeAmount = 0 /\ left = 0
  /\ err = FALSE /\ repeat = TRUE
  /\ mainExpired = FALSE /\ exit = Running
  /\ at = "loop"

-----------------------------------------------------------------------------
(* Mutations used to show that the properties can fail.                    *)
MutReturnToMain(isErr, again) ==
  /\ err' = FALSE
  /\ repeat' = again
  /\ at' = "returned"
MutNextRoute ==
  /\ at = "paying" /\ payPc = "idle" /\ result # "retry"
  /\ at' = "routes"
  /\ UNCHANGED <<payVars, pool, attempt, outcome, process>>
MutPayProbed ==
  /\ at = "retry" /\ ~expired
  /\ \E fee \in Fees : Pay(amt, maxFee, FALSE, [amount |-> routeAmount, fee |-> fee])
  /\ at' = "payingProbed"
  /\ UNCHANGED <<pool, attempt, outcome, process>>

-----------------------------------------------------------------------------
\* tryRebalance returns to the loop of main.
ReturnToMain(isErr, again) ==
  /\ err' = isErr
  /\ repeat' = again
  /\ at' = "returned"

\* The loop of main calls tryRebalance, which makes the context of the attempt.
BeginAttempt ==
  /\ at = "loop"
  /\ expired' = mainExpired
  /\ at' = "picking"
  /\ UNCHANGED <<invoiceCache, invoices, local, answer, payPc, history>>
  /\ UNCHANGED <<pool, attempt, outcome, process>>

\* pickChannelPair drops an unusable pair, refills, picks a pair or gives up.
PickAgain ==
  /\ at = "picking"
  /\ Pool!Refill \/ \E p \in Pairs : Pool!SetAside(p)
  /\ UNCHANGED <<payVars, attempt, outcome, process, at>>
PickPair ==
  /\ at = "picking"
  /\ \E p \in Pairs : Pool!Choose(p)
  /\ amt' \in Amounts
  /\ routeAmount' = amt'
  /\ at' = "query"
  /\ UNCHANGED <<payVars, maxFee, left, outcome, process>>
NoRoutes ==
  /\ at = "picking"
  /\ Pool!GiveUp
  /\ ReturnToMain(TRUE, FALSE)
  /\ UNCHANGED <<payVars, attempt, process>>

\* getRoutes returns routes within the fee limit of the amount.
QuerySucceeds ==
  /\ at = "query" /\ ~expired
  /\ Pool!FindRoute
  /\ left' \in 1 .. MaxRoutes
  /\ maxFee' = FeeLimit[amt]
  /\ at' = "routes"
  /\ UNCHANGED <<payVars, amt, routeAmount, outcome, process>>
\* It fails, before the deadline of its context or because of it.
QueryFails ==
  /\ at = "query" /\ ~expired
  /\ Pool!SetAside(chosen)
  /\ ReturnToMain(TRUE, TRUE)
  /\ UNCHANGED <<payVars, attempt, process>>
QueryTimesOut ==
  /\ at = "query"
  /\ Pool!Stop
  /\ ReturnToMain(TRUE, FALSE)
  /\ UNCHANGED <<payVars, attempt, process>>

\* tryRebalance pays the amount it works with along the next route.
PayRoute ==
  /\ at = "routes" /\ left > 0
  /\ \E fee \in Fees :
       /\ fee <= FeeLimit[routeAmount]
       /\ Pay(amt, maxFee, Probing, [amount |-> routeAmount, fee |-> fee])
  /\ left' = left - 1
  /\ at' = "paying"
  /\ UNCHANGED <<pool, amt, maxFee, routeAmount, outcome, process>>

\* A successful payment ends the session, after rapid rebalancing if wanted
\* (params.AllowRapidRebalance is read here only), whatever comes of that.
Succeed ==
  /\ Pool!Stop
  /\ ReturnToMain(FALSE, FALSE)
  /\ UNCHANGED <<payVars, attempt, process>>
PaymentDone ==
  /\ at = "paying" /\ payPc = "idle" /\ result = "paid"
  /\ Succeed
BeginRapid ==
  /\ at = "paying" /\ payPc = "idle" /\ result = "paid"
  /\ at' = "rapid"
  /\ UNCHANGED <<payVars, pool, attempt, outcome, process>>

\* Rapid rebalancing, whose amounts RapidRebalance has: each attempt has a
\* context and a fee limit of its own and pays without probing.
RapidAttempt ==
  /\ at = "rapid" /\ ~mainExpired
  /\ expired' = FALSE
  /\ at' = "rapidAttempt"
  /\ UNCHANGED <<invoiceCache, invoices, local, answer, payPc, history>>
  /\ UNCHANGED <<pool, attempt, outcome, process>>
PayRapid ==
  /\ at = "rapidAttempt"
  /\ \E a \in Amounts, fee \in Fees : Pay(a, FeeLimit[a], FALSE, [amount |-> a, fee |-> fee])
  /\ at' = "payingRapid"
  /\ UNCHANGED <<pool, attempt, outcome, process>>
RapidGoesOn ==
  /\ at = "payingRapid" /\ payPc = "idle" /\ ~expired
  /\ at' = "rapid"
  /\ UNCHANGED <<payVars, pool, attempt, outcome, process>>
\* The deadline ends it, and so do an error and the end of the amounts.
RapidTimesOut ==
  /\ at = "payingRapid" /\ payPc = "idle" /\ expired
  /\ Succeed
EndRapid ==
  /\ at \in {"rapid", "rapidAttempt"}
  /\ Succeed
NextRoute ==
  /\ at = "paying" /\ payPc = "idle" /\ result \notin {"paid", "retry"}
  /\ at' = "routes"
  /\ UNCHANGED <<payVars, pool, attempt, outcome, process>>

\* Probing found an amount: the route is rebuilt for it and paid without
\* probing, with the fee limit of the amount that failed.
TakeProbed ==
  /\ at = "paying" /\ payPc = "idle" /\ result = "retry"
  /\ amt' = probed
  /\ at' = "retry"
  /\ UNCHANGED <<payVars, pool, maxFee, routeAmount, left, outcome, process>>
RebuildFails ==
  /\ at = "retry"
  /\ at' = "routes"
  /\ UNCHANGED <<payVars, pool, attempt, outcome, process>>
PayProbed ==
  /\ at = "retry" /\ ~expired
  /\ \E fee \in Fees : Pay(amt, maxFee, FALSE, [amount |-> amt, fee |-> fee])
  /\ at' = "payingProbed"
  /\ UNCHANGED <<pool, attempt, outcome, process>>
ProbedDone ==
  /\ at = "payingProbed" /\ payPc = "idle" /\ result = "paid"
  /\ Succeed
ProbedFails ==
  /\ at = "payingProbed" /\ payPc = "idle" /\ result # "paid"
  /\ invalidateInvoice(amt)
  /\ at' = "routes"
  /\ UNCHANGED <<pool, attempt, outcome, process>>

\* No route is left: the next attempt may have better luck.
NoRouteLeft ==
  /\ at = "routes" /\ left = 0
  /\ Pool!Release
  /\ ReturnToMain(FALSE, TRUE)
  /\ UNCHANGED <<payVars, attempt, process>>

\* The loop of main looks at the clock first, then at the results.
Leave(code) ==
  /\ exit' = code
  /\ at' = "exited"
  /\ UNCHANGED <<payVars, pool, attempt, outcome, mainExpired>>
TimedOut ==
  /\ at = "returned" /\ mainExpired
  /\ Leave(2)
Finished ==
  /\ at = "returned" /\ ~mainExpired /\ ~repeat
  /\ Leave(IF err THEN 1 ELSE 0)
Repeat ==
  /\ at = "returned" /\ ~mainExpired /\ repeat
  /\ at' = "loop"
  /\ UNCHANGED <<payVars, pool, attempt, outcome, process>>

\* A panic runs the deferred function of main, which exits with exitCode.
Crash ==
  /\ at # "exited" /\ payPc = "panic"
  /\ Leave(0)

Step ==
  \/ BeginAttempt \/ PickAgain \/ PickPair \/ NoRoutes
  \/ QuerySucceeds \/ QueryFails \/ QueryTimesOut
  \/ PayRoute \/ PaymentDone \/ NextRoute
  \/ BeginRapid \/ RapidAttempt \/ PayRapid \/ RapidGoesOn \/ RapidTimesOut \/ EndRapid
  \/ TakeProbed \/ RebuildFails \/ PayProbed \/ ProbedDone \/ ProbedFails
  \/ NoRouteLeft \/ TimedOut \/ Finished \/ Repeat \/ Crash
  \/ pay /\ UNCHANGED <<pool, attempt, outcome, process, at>>

Network == network /\ UNCHANGED <<pool, attempt, outcome, process, at>>

AttemptDeadline ==
  /\ at \notin {"loop", "exited"}
  /\ Deadline
  /\ UNCHANGED <<pool, attempt, outcome, process, at>>

MainDeadline ==
  /\ ~mainExpired /\ at # "exited"
  /\ mainExpired' = TRUE
  /\ expired' = TRUE
  /\ UNCHANGED <<invoiceCache, invoices, local, answer, payPc, history>>
  /\ UNCHANGED <<pool, attempt, outcome, exit, at>>

Next == Step \/ Network \/ AttemptDeadline \/ MainDeadline

\* The process runs, and its deadline of hours comes.
Spec == Init /\ [][Next]_vars /\ WF_vars(Step) /\ WF_vars(MainDeadline)

-----------------------------------------------------------------------------
\* Type invariant of the session.
TypeOK ==
  /\ PayTypeOK
  /\ failed \subseteq Pairs /\ found \in BOOLEAN
  /\ chosen \in Pairs \cup {NoPair} /\ over \in BOOLEAN
  /\ amt \in Amounts \cup {0} /\ routeAmount \in Amounts \cup {0}
  /\ maxFee \in Nat
  /\ left \in 0 .. MaxRoutes
  /\ err \in BOOLEAN /\ repeat \in BOOLEAN
  /\ mainExpired \in BOOLEAN /\ exit \in {Running, 0, 1, 2}
  /\ at \in Places

(* The exit code of a session that did not crash tells how it ended: zero   *)
(* only after a payment, one only if it is not known to have paid (but for  *)
(* a payment the stat file could not take), two only past its deadline.     *)
ExitCodeTold ==
  /\ exit = 0 /\ payPc # "panic" => known # {}
  /\ exit = 1 => known \subseteq unsaved
  /\ exit = 2 => mainExpired

(* Once it knows of a success the session starts no payment but those of    *)
(* rapid rebalancing, and these only follow a success: no route, probed     *)
(* amount or attempt is left over that pays again, whichever payment it was *)
(* and whatever the deadlines do; but for one the stat file could not take. *)
StopsWhenPaid ==
  [][payPc = "send" /\ payPc' = "sent" =>
       IF at = "payingRapid" THEN known # {} ELSE known \subseteq unsaved]_vars

(* A route never delivers less than its invoice asks for, through probing,  *)
(* fee updates, the routes left of a query and rapid rebalancing.  It       *)
(* delivers more in one case only: an earlier route of the query was probed *)
(* and its smaller amount is kept for this one.                             *)
InvoiceFitsRoute ==
  payPc = "send" =>
    /\ call.amount <= call.route.amount
    /\ call.amount # call.route.amount => at = "paying" /\ left + 1 < MaxRoutes

(* No payment of a query costs more than the limit of the amount the query  *)
(* was for, also the payment of a probed amount and those along routes that *)
(* were rebuilt after a fee update; a rapid one no more than its own.       *)
FeeWithinLimit ==
  payPc = "send" =>
    call.route.fee <= FeeLimit[IF at = "payingRapid" THEN call.amount ELSE routeAmount]

(* The session ends, by its deadline at the latest, and so does every       *)
(* attempt: nothing waits for lnd or the network for ever.                  *)
SessionEnds == <>(at = "exited")

(* CHANGELOG:62-63: "Exit codes for failed rebalances (2 for global timeout *)
(* and 1 for all other reasons)".  A crash is not a success.                *)
CrashIsReported == at = "exited" /\ payPc = "panic" => exit # 0
=============================================================================
