------------------------------ MODULE Payment ------------------------------
(***************************************************************************)
(* payment.go: pay, createInvoice and invalidateInvoice, with the invoices *)
(* of lnd they create and send to.  A payment hash stands for its invoice. *)
(*                                                                         *)
(* pay returns through a deferred function that forgets the invoice when   *)
(* the context of the attempt has reached its deadline.  After a fee       *)
(* update it calls itself with the updated route, as its last act: the     *)
(* active calls share their amount, invoice and context, so one call is    *)
(* kept, and "deferred" tells whether any of them registered the function. *)
(*                                                                         *)
(* Here the caller is any sequence of calls, with the context of a new     *)
(* attempt between any two; Session has the caller of the program.         *)
(***************************************************************************)
EXTENDS Integers, Functions

CONSTANTS
  Amounts,   \* amounts that are paid
  Fees,      \* fees a route may ask for
  FeeLimit,  \* the fee calcFeeMsat allows for each amount
  Hashes,    \* bound: the invoices lnd can still create
  Nil,       \* the nil invoice of a failed AddInvoice
  MinAmount, \* params.MinAmount
  StatFile,  \* params.StatFilename is set
  Faults     \* what may fail before the deadline

PossibleFaults == {"AddInvoice", "SendToRoute", "GetNodeInfo", "statLock", "statOpen"}

ASSUME PaymentAmountsAssumption ==
  /\ Amounts \subseteq Nat \ {0}
  /\ Fees \subseteq Nat
  /\ FeeLimit \in [Amounts -> Nat]
  /\ MinAmount \in Nat
ASSUME PaymentInvoicesAssumption == Nil \notin Hashes
ASSUME PaymentFaultsAssumption == StatFile \in BOOLEAN /\ Faults \subseteq PossibleFaults

VARIABLES
  invoiceCache, \* r.invoiceCache: amount -> invoice
  invoices,     \* lnd: "none", "open", "inflight" or "settled"
  expired,      \* ctx.Err() == context.DeadlineExceeded
  call,         \* the arguments of pay
  invoice,      \* its invoice
  deferred,     \* the deferred function is registered
  failure,      \* why the payment failed
  result,       \* what pay returned
  probed,       \* the amount of ErrRetry
  payPc,
  cutOff,       \* history: hashes whose payment ended at the deadline
  known,        \* history: hashes pay learned to be settled
  unsaved       \* history: those of them the stat file could not take

local == <<call, invoice, deferred, failure>>
answer == <<result, probed>>
history == <<cutOff, known, unsaved>>
payVars == <<invoiceCache, invoices, expired, local, answer, payPc, history>>

Routes == [amount : Amounts, fee : Fees]
Calls == [amount : Amounts, limit : Nat, probing : BOOLEAN, route : Routes]
Failures == {"none", "fee", "capacity", "lastCapacity", "other"}
Results == {"none", "paid", "feeExceeded", "failed", "probeFailed", "retry"}
Control == {"idle", "start", "send", "sent", "paid", "failed", "probe", "panic"}

PayInit ==
  /\ invoiceCache = [a \in {} |-> Nil]
  /\ invoices = [h \in Hashes |-> "none"]
  /\ expired = FALSE
  /\ call \in [amount : Amounts, limit : {0}, probing : {FALSE}, route : Routes]
  /\ invoice = Nil
  /\ deferred = FALSE
  /\ failure = "none"
  /\ result = "none"
  /\ probed = 0
  /\ payPc = "idle"
  /\ cutOff = {}
  /\ known = {}
  /\ unsaved = {}

-----------------------------------------------------------------------------
(* Mutations used to show that the properties can fail.                    *)
MutWithout(cache, a) == cache
MutAfterDeferred(cache) == cache
MutFeeAllowed == deferred \/ call.route.fee <= call.limit
MutCanFail(f) == ~expired /\ f \in Faults
MutWith(cache, a, h) == [b \in DOMAIN cache \cup {1000 * a} |-> h]

-----------------------------------------------------------------------------
amount == call.amount

\* A call to lnd fails: always past the deadline, before it only by a fault.
CanFail(f) == expired \/ f \in Faults

Without(cache, a) == Restrict(cache, DOMAIN cache \ {a})
With(cache, a, h) == [b \in DOMAIN cache \cup {a} |-> IF b = a THEN h ELSE cache[b]]

\* What the deferred function leaves in the cache.
AfterDeferred(cache) == IF deferred /\ expired THEN Without(cache, amount) ELSE cache

\* return, with the cache as it is before the deferred function.
Return(outcome, cache) ==
  /\ result' = outcome
  /\ invoiceCache' = AfterDeferred(cache)
  /\ payPc' = "idle"
  /\ UNCHANGED local

Panic ==
  /\ payPc' = "panic"
  /\ UNCHANGED <<invoiceCache, invoices, expired, local, answer, history>>

-----------------------------------------------------------------------------
\* A caller calls pay along a route.
Pay(a, limit, probing, route) ==
  /\ payPc = "idle"
  /\ call' = [amount |-> a, limit |-> limit, probing |-> probing, route |-> route]
  /\ invoice' = Nil
  /\ deferred' = FALSE
  /\ failure' = "none"
  /\ result' = "none"
  /\ probed' = 0
  /\ payPc' = "start"
  /\ UNCHANGED <<invoiceCache, invoices, expired, history>>

FeeAllowed == call.route.fee <= call.limit

FeeExceeded ==
  /\ payPc = "start"
  /\ ~FeeAllowed
  /\ Return("feeExceeded", invoiceCache)
  /\ UNCHANGED <<invoices, expired, probed, history>>

\* createInvoice finds the amount in the cache.
CachedInvoice ==
  /\ payPc = "start" /\ FeeAllowed
  /\ amount \in DOMAIN invoiceCache
  /\ invoiceCache[amount] # Nil
  /\ invoice' = invoiceCache[amount]
  /\ deferred' = TRUE
  /\ payPc' = "send"
  /\ UNCHANGED <<invoiceCache, invoices, expired, call, failure, answer, history>>

\* The cached invoice is nil: reading its address panics.
NilInvoice ==
  /\ payPc = "start" /\ FeeAllowed
  /\ amount \in DOMAIN invoiceCache
  /\ invoiceCache[amount] = Nil
  /\ Panic

\* lnd creates an invoice for the amount.
AddInvoice(h) ==
  /\ payPc = "start" /\ FeeAllowed
  /\ amount \notin DOMAIN invoiceCache
  /\ ~expired
  /\ invoices[h] = "none"
  /\ invoices' = [invoices EXCEPT ![h] = "open"]
  /\ invoiceCache' = With(invoiceCache, amount, h)
  /\ invoice' = h
  /\ deferred' = TRUE
  /\ payPc' = "send"
  /\ UNCHANGED <<expired, call, failure, answer, history>>

\* AddInvoice returns an error and a nil invoice, which is cached all the same.
AddInvoiceFails ==
  /\ payPc = "start" /\ FeeAllowed
  /\ amount \notin DOMAIN invoiceCache
  /\ CanFail("AddInvoice")
  /\ Return("failed", With(invoiceCache, amount, Nil))
  /\ UNCHANGED <<invoices, expired, probed, history>>

\* SendToRouteV2 starts a payment to an invoice nobody has paid.
SendToRoute ==
  /\ payPc = "send" /\ ~expired
  /\ invoices[invoice] = "open"
  /\ invoices' = [invoices EXCEPT ![invoice] = "inflight"]
  /\ payPc' = "sent"
  /\ UNCHANGED <<invoiceCache, expired, local, answer, history>>

\* SendToRouteV2 returns an error and no payment was started.
SendFails ==
  /\ payPc = "send"
  /\ CanFail("SendToRoute") \/ invoices[invoice] # "open"
  /\ Return("failed", invoiceCache)
  /\ UNCHANGED <<invoices, expired, probed, history>>

\* SendToRouteV2 returns an error although the payment was started.
AnswerLost ==
  /\ payPc = "sent"
  /\ CanFail("SendToRoute")
  /\ cutOff' = IF expired THEN cutOff \cup {invoice} ELSE cutOff
  /\ Return("failed", invoiceCache)
  /\ UNCHANGED <<invoices, expired, probed, known, unsaved>>

\* The network settles a payment or lets it fail, whoever waits for it.
Settle(h) ==
  /\ invoices[h] = "inflight"
  /\ invoices' = [invoices EXCEPT ![h] = "settled"]
  /\ UNCHANGED <<invoiceCache, expired, local, answer, payPc, history>>
Bounce(h) ==
  /\ invoices[h] = "inflight"
  /\ invoices' = [invoices EXCEPT ![h] = "open"]
  /\ UNCHANGED <<invoiceCache, expired, local, answer, payPc, history>>

\* SendToRouteV2 answers that the payment succeeded, or how it failed.
Succeeds ==
  /\ payPc = "sent" /\ ~expired
  /\ invoices[invoice] = "settled"
  /\ known' = known \cup {invoice}
  /\ payPc' = "paid"
  /\ UNCHANGED <<invoiceCache, invoices, expired, local, answer, cutOff, unsaved>>
Fails(f) ==
  /\ payPc = "sent" /\ ~expired
  /\ invoices[invoice] = "open"
  /\ failure' = f
  /\ payPc' = "failed"
  /\ UNCHANGED <<invoiceCache, invoices, expired, call, invoice, deferred, answer, history>>

\* FEE_INSUFFICIENT or INCORRECT_CLTV_EXPIRY, and the rebuilt route differs at
\* the hop that failed: pay calls itself.
PayUpdatedRoute(fee) ==
  /\ payPc = "failed" /\ failure = "fee" /\ ~expired
  /\ call' = [call EXCEPT !.route = [amount |-> amount, fee |-> fee]]
  /\ failure' = "none"
  /\ payPc' = "start"
  /\ UNCHANGED <<invoiceCache, invoices, expired, invoice, deferred, answer, history>>

\* The same, but rebuildRoute fails or changes nothing; or a failure at one of
\* the ends of the route, or of another kind.
GiveUpRoute ==
  /\ payPc = "failed" /\ failure \in {"fee", "other"}
  /\ Return("failed", invoiceCache)
  /\ UNCHANGED <<invoices, expired, probed, history>>

\* TEMPORARY_CHANNEL_FAILURE between nodes that could not be looked up.
NodeUnknown ==
  /\ payPc = "failed" /\ failure \in {"capacity", "lastCapacity"}
  /\ CanFail("GetNodeInfo")
  /\ Panic

\* TEMPORARY_CHANNEL_FAILURE: mission control records it.  At the second to
\* last channel it is probed if the caller wants it.
MustProbe == failure = "lastCapacity" /\ call.probing
NoCapacity ==
  /\ payPc = "failed" /\ failure \in {"capacity", "lastCapacity"}
  /\ ~MustProbe
  /\ Return("failed", invoiceCache)
  /\ UNCHANGED <<invoices, expired, probed, history>>
StartProbe ==
  /\ payPc = "failed" /\ MustProbe
  /\ payPc' = "probe"
  /\ UNCHANGED <<invoiceCache, invoices, expired, local, answer, history>>

\* probeRoute answers as ProbeSearch says, which Probe implements.
Search == INSTANCE ProbeSearch WITH
  total <- amount, least <- MinAmount, answer <- probed
ProbeFinds(a) ==
  /\ payPc = "probe"
  /\ Search!MayFind(a)
  /\ probed' = a
  /\ Return("retry", invoiceCache)
  /\ UNCHANGED <<invoices, expired, history>>
ProbeFails ==
  /\ payPc = "probe"
  /\ \E outcome \in {"probeFailed", "failed"} : Return(outcome, invoiceCache)
  /\ UNCHANGED <<invoices, expired, probed, history>>
ProbePanics ==
  /\ payPc = "probe"
  /\ Search!MayPanic
  /\ Panic

\* The payment succeeded.  Its parameters go to the stat file, if there is one
\* and it can be locked and opened, and the invoice is forgotten.
Finish ==
  /\ payPc = "paid"
  /\ Return("paid", Without(invoiceCache, amount))
  /\ UNCHANGED <<invoices, expired, probed, history>>
StatLockFails ==
  /\ payPc = "paid" /\ StatFile /\ "statLock" \in Faults
  /\ Return("failed", invoiceCache)
  /\ unsaved' = unsaved \cup {invoice}
  /\ UNCHANGED <<invoices, expired, probed, cutOff, known>>
StatOpenFails ==
  /\ payPc = "paid" /\ StatFile /\ "statOpen" \in Faults
  /\ Return("paid", invoiceCache)
  /\ unsaved' = unsaved \cup {invoice}
  /\ UNCHANGED <<invoices, expired, probed, cutOff, known>>

\* tryRebalance forgets the invoice of a probed amount that could not be paid.
invalidateInvoice(a) ==
  /\ payPc = "idle"
  /\ invoiceCache' = Without(invoiceCache, a)
  /\ UNCHANGED <<invoices, expired, local, answer, payPc, history>>

-----------------------------------------------------------------------------
\* The steps of an active call of pay.
pay ==
  \/ FeeExceeded \/ CachedInvoice \/ NilInvoice \/ AddInvoiceFails
  \/ SendToRoute \/ SendFails \/ AnswerLost \/ Succeeds
  \/ GiveUpRoute \/ NodeUnknown \/ NoCapacity \/ StartProbe
  \/ ProbeFails \/ ProbePanics \/ Finish \/ StatLockFails \/ StatOpenFails
  \/ \E h \in Hashes : AddInvoice(h)
  \/ \E f \in Failures \ {"none"} : Fails(f)
  \/ \E fee \in Fees : PayUpdatedRoute(fee)
  \/ \E a \in Amounts : ProbeFinds(a)

network == \E h \in Hashes : Settle(h) \/ Bounce(h)

Deadline ==
  /\ ~expired
  /\ expired' = TRUE
  /\ UNCHANGED <<invoiceCache, invoices, local, answer, payPc, history>>

\* A caller goes on with a new attempt.
NewAttempt ==
  /\ payPc = "idle" /\ expired
  /\ expired' = FALSE
  /\ UNCHANGED <<invoiceCache, invoices, local, answer, payPc, history>>

Caller ==
  \/ NewAttempt
  \/ \E a \in Amounts :
       \/ invalidateInvoice(a)
       \/ \E fee \in Fees, probing \in BOOLEAN :
            Pay(a, FeeLimit[a], probing, [amount |-> a, fee |-> fee])

PayNext == Caller \/ pay \/ network \/ Deadline

PaySpec == PayInit /\ [][PayNext]_payVars /\ WF_payVars(pay) /\ WF_payVars(Deadline)

-----------------------------------------------------------------------------
\* Type invariant of the invoice cache, the invoices and the active call.
PayTypeOK ==
  /\ DOMAIN invoiceCache \subseteq Amounts
  /\ invoiceCache \in [DOMAIN invoiceCache -> Hashes \cup {Nil}]
  /\ invoices \in [Hashes -> {"none", "open", "inflight", "settled"}]
  /\ expired \in BOOLEAN
  /\ call \in Calls
  /\ invoice \in Hashes \cup {Nil}
  /\ deferred \in BOOLEAN
  /\ failure \in Failures
  /\ result \in Results
  /\ probed \in Amounts \cup {0}
  /\ payPc \in Control
  /\ cutOff \subseteq Hashes
  /\ known \subseteq Hashes /\ unsaved \subseteq Hashes

(* An invoice is never sent to again once a payment to it was cut off by   *)
(* the deadline and may yet succeed, in whatever order fee updates,        *)
(* retries of the same amount and new attempts follow.                     *)
CutOffInvoiceForgotten == payPc = "send" => invoice \notin cutOff

(* An invoice known to be paid is never sent to again: payment.go:181      *)
(* calls that "necessary for Rapid Rebalancing", which pays the same       *)
(* amount again.  The one exception is a payment the stat file could not   *)
(* take, for pay then returns before it forgets the invoice.               *)
PaidInvoiceForgotten == payPc = "send" /\ invoice \in known => invoice \in unsaved

(* A call of pay returns: neither a stuck payment nor a run of fee updates *)
(* holds it beyond the deadline of the attempt.                            *)
PayReturns == payPc = "start" ~> payPc \in {"idle", "panic"}
=============================================================================
