---------------------------- MODULE SessionProofs ----------------------------
(***************************************************************************)
(* Proofs about Payment and about Session, which runs it, for all pairs,   *)
(* amounts, fees, numbers of invoices and sets of faults.  The invariant   *)
(* of the first part says what the invoice cache holds while pay runs and  *)
(* between its calls; what a session knows of its payments rests on it.    *)
(***************************************************************************)
EXTENDS Session, TLAPS

Active == {"send", "sent", "failed", "probe", "paid"}

\* No two amounts share an invoice.
CacheInjective ==
  \A a, b \in DOMAIN invoiceCache :
    invoiceCache[a] = invoiceCache[b] /\ invoiceCache[a] # Nil => a = b

\* Only invoices lnd created are remembered anywhere.
Issued ==
  /\ \A a \in DOMAIN invoiceCache :
       invoiceCache[a] # Nil => invoices[invoiceCache[a]] # "none"
  /\ \A h \in cutOff \cup known : invoices[h] # "none"

\* The invoice of an active call is the cached one of its amount.
ActiveCached ==
  payPc \in Active =>
    /\ deferred /\ invoice \in Hashes
    /\ amount \in DOMAIN invoiceCache /\ invoiceCache[amount] = invoice

NotCutOff == \A a \in DOMAIN invoiceCache : invoiceCache[a] \notin cutOff

\* A paid invoice that the stat file took stays in the cache only until pay
\* returns.
NotPaid ==
  \A a \in DOMAIN invoiceCache :
    invoiceCache[a] \in known => invoiceCache[a] \in unsaved \/ (payPc = "paid" /\ a = amount)

InvoiceInv ==
  /\ PayTypeOK
  /\ CacheInjective
  /\ Issued
  /\ ActiveCached
  /\ NotCutOff
  /\ NotPaid

-----------------------------------------------------------------------------
\* What Without and AfterDeferred leave of a cache.
LEMMA WithoutRemoves ==
  ASSUME NEW cache, NEW a
  PROVE  /\ DOMAIN Without(cache, a) = DOMAIN cache \ {a}
         /\ \A b \in DOMAIN cache \ {a} : Without(cache, a)[b] = cache[b]
         /\ \A S, T : DOMAIN cache \subseteq S /\ (\A b \in DOMAIN cache : cache[b] \in T) =>
              Without(cache, a) \in [DOMAIN Without(cache, a) -> T]
BY DEF Without, Restrict

\* The deferred function only takes away, and past the deadline the amount is gone.
LEMMA AfterDeferredKeeps ==
  ASSUME NEW cache, cache = [b \in DOMAIN cache |-> cache[b]]
  PROVE  /\ DOMAIN AfterDeferred(cache) \subseteq DOMAIN cache
         /\ \A b \in DOMAIN AfterDeferred(cache) : AfterDeferred(cache)[b] = cache[b]
         /\ AfterDeferred(cache) = [b \in DOMAIN AfterDeferred(cache) |-> AfterDeferred(cache)[b]]
         /\ deferred /\ expired => amount \notin DOMAIN AfterDeferred(cache)
BY DEF AfterDeferred, Without, Restrict

\* Nothing is cached at first.
LEMMA PaymentInit == PayInit => InvoiceInv
<1> SUFFICES ASSUME PayInit PROVE InvoiceInv
  OBVIOUS
<1> USE PaymentAmountsAssumption, PaymentInvoicesAssumption, PaymentFaultsAssumption
<1>1. DOMAIN invoiceCache = {} /\ invoiceCache \in [DOMAIN invoiceCache -> Hashes \cup {Nil}]
  BY DEF PayInit
<1>2. call \in Calls
  <2>1. {0} \subseteq Nat /\ {FALSE} \subseteq BOOLEAN
    OBVIOUS
  <2> QED
    BY <2>1 DEF PayInit, Calls
<1>3. PayTypeOK
  BY <1>1, <1>2 DEF PayInit, PayTypeOK, Failures, Results, Control
<1>4. CacheInjective /\ Issued /\ ActiveCached /\ NotCutOff /\ NotPaid
  BY <1>1 DEF PayInit, CacheInjective, Issued, ActiveCached, NotCutOff, NotPaid, Active
<1> QED
  BY <1>3, <1>4 DEF InvoiceInv

\* Every way of returning from pay keeps the invariant: the cache it leaves may
\* have lost invoices or gained a nil one, and if the payment was cut off or
\* succeeded the invoice of its amount is gone.
LEMMA ReturnKeepsInv ==
  ASSUME InvoiceInv, payPc # "idle",
         NEW res \in Results, NEW cache,
         DOMAIN cache \subseteq Amounts,
         cache \in [DOMAIN cache -> Hashes \cup {Nil}],
         \A a \in DOMAIN cache :
           cache[a] = Nil \/ (a \in DOMAIN invoiceCache /\ cache[a] = invoiceCache[a]),
         Return(res, cache),
         probed' \in Amounts \cup {0},
         UNCHANGED <<invoices, expired, known>>,
         cutOff' = cutOff \/ (payPc = "sent" /\ expired /\ cutOff' = cutOff \cup {invoice}),
         unsaved' = unsaved \/ (payPc = "paid" /\ unsaved' = unsaved \cup {invoice}),
         payPc = "paid" => amount \notin DOMAIN cache \/ invoice \in unsaved'
  PROVE  InvoiceInv'
<1> USE PaymentInvoicesAssumption
<1>1. /\ invoiceCache' = AfterDeferred(cache) /\ payPc' = "idle" /\ result' = res
      /\ UNCHANGED <<call, invoice, deferred, failure>>
  BY DEF Return, local
<1>2. /\ DOMAIN invoiceCache' \subseteq DOMAIN cache
      /\ \A a \in DOMAIN invoiceCache' : invoiceCache'[a] = cache[a]
      /\ invoiceCache' = [b \in DOMAIN invoiceCache' |-> invoiceCache'[b]]
      /\ deferred /\ expired => amount \notin DOMAIN invoiceCache'
  BY <1>1, AfterDeferredKeeps
<1>3. \A a \in DOMAIN invoiceCache' :
        \/ invoiceCache'[a] = Nil
        \/ a \in DOMAIN invoiceCache /\ invoiceCache'[a] = invoiceCache[a]
  BY <1>2
<1>4. invoiceCache' \in [DOMAIN invoiceCache' -> Hashes \cup {Nil}]
  BY <1>2
<1>5. cutOff' \subseteq Hashes /\ known' \subseteq Hashes /\ unsaved' \subseteq Hashes
  BY DEF InvoiceInv, PayTypeOK, ActiveCached, Active
<1>6. PayTypeOK'
  BY <1>1, <1>2, <1>4, <1>5 DEF InvoiceInv, PayTypeOK, Control
<1>7. CacheInjective'
  BY <1>3 DEF InvoiceInv, CacheInjective
<1>8. Issued'
  BY <1>3 DEF InvoiceInv, Issued, ActiveCached, Active
<1>9. ActiveCached'
  BY <1>1 DEF ActiveCached, Active
<1>10. NotCutOff'
  <2> SUFFICES ASSUME NEW a \in DOMAIN invoiceCache'
               PROVE  invoiceCache'[a] \notin cutOff'
    BY DEF NotCutOff
  <2>1. CASE invoiceCache'[a] = Nil
    BY <2>1, <1>5
  <2>2. CASE a \in DOMAIN invoiceCache /\ invoiceCache'[a] = invoiceCache[a]
    <3>1. CASE cutOff' = cutOff
      BY <2>2, <3>1 DEF InvoiceInv, NotCutOff
    <3>2. CASE payPc = "sent" /\ expired /\ cutOff' = cutOff \cup {invoice}
      <4>1. deferred /\ invoice \in Hashes /\ amount \in DOMAIN invoiceCache
            /\ invoiceCache[amount] = invoice
        BY <3>2 DEF InvoiceInv, ActiveCached, Active
      <4>2. a # amount
        BY <1>2, <3>2, <4>1
      <4>3. invoiceCache[a] # invoice
        BY <2>2, <4>1, <4>2 DEF InvoiceInv, CacheInjective
      <4> QED
        BY <2>2, <3>2, <4>3 DEF InvoiceInv, NotCutOff
    <3> QED
      BY <3>1, <3>2
  <2> QED
    BY <1>3, <2>1, <2>2
<1>11. NotPaid'
  <2> SUFFICES ASSUME NEW a \in DOMAIN invoiceCache', invoiceCache'[a] \in known'
               PROVE  invoiceCache'[a] \in unsaved'
    BY DEF NotPaid
  <2>1. invoiceCache'[a] # Nil /\ a \in DOMAIN cache
    BY <1>2, <1>5
  <2>2. /\ a \in DOMAIN invoiceCache /\ invoiceCache'[a] = invoiceCache[a]
        /\ invoiceCache[a] \in known
    BY <2>1, <1>3
  <2>3. CASE invoiceCache[a] \in unsaved
    BY <2>2, <2>3
  <2>4. CASE payPc = "paid" /\ a = amount
    <3>1. invoiceCache[a] = invoice
      BY <2>4 DEF InvoiceInv, ActiveCached, Active
    <3> QED
      BY <2>1, <2>2, <2>4, <3>1
  <2> QED
    BY <2>2, <2>3, <2>4 DEF InvoiceInv, NotPaid
<1> QED
  BY <1>6, <1>7, <1>8, <1>9, <1>10, <1>11 DEF InvoiceInv

-----------------------------------------------------------------------------
\* A call of pay along a route.
LEMMA CallKeepsInv ==
  ASSUME InvoiceInv, NEW a \in Amounts, NEW limit \in Nat, NEW probing \in BOOLEAN,
         NEW route \in Routes, Pay(a, limit, probing, route)
  PROVE  InvoiceInv'
<1>1. /\ payPc = "idle" /\ payPc' = "start" /\ deferred' = FALSE /\ failure' = "none"
      /\ result' = "none" /\ probed' = 0 /\ invoice' = Nil
      /\ UNCHANGED <<invoiceCache, invoices, expired, cutOff, known, unsaved>>
  BY DEF Pay, history
<1>2. call' \in Calls
  BY DEF Pay, Calls
<1>3. PayTypeOK'
  <2>1. deferred' \in BOOLEAN /\ expired' \in BOOLEAN
    BY <1>1 DEF InvoiceInv, PayTypeOK
  <2> QED
    BY <1>1, <1>2, <2>1 DEF InvoiceInv, PayTypeOK, Control, Failures, Results
<1>4. CacheInjective' /\ Issued' /\ NotCutOff'
  BY <1>1 DEF InvoiceInv, CacheInjective, Issued, NotCutOff
<1>5. ActiveCached'
  BY <1>1 DEF ActiveCached, Active
<1>6. NotPaid'
  BY <1>1 DEF InvoiceInv, NotPaid
<1> QED
  BY <1>3, <1>4, <1>5, <1>6 DEF InvoiceInv

\* The steps that leave the cache, the invoices and the history alone.
LEMMA QuietStepKeepsInv ==
  ASSUME InvoiceInv,
         UNCHANGED <<invoiceCache, invoices, deferred, invoice, history, result, probed>>,
         call' \in Calls, amount' = amount, failure' \in Failures, expired' \in BOOLEAN,
         payPc' \in Control, payPc # "paid", payPc' # "paid",
         payPc' \in Active => payPc \in Active
  PROVE  InvoiceInv'
<1>1. PayTypeOK'
  <2>1. deferred' \in BOOLEAN
    BY DEF InvoiceInv, PayTypeOK
  <2> QED
    BY <2>1 DEF InvoiceInv, PayTypeOK, history
<1>2. CacheInjective' /\ Issued' /\ NotCutOff' /\ ActiveCached' /\ NotPaid'
  BY DEF InvoiceInv, CacheInjective, Issued, NotCutOff, ActiveCached, NotPaid, history
<1> QED
  BY <1>1, <1>2 DEF InvoiceInv

\* The network moves a payment of an invoice that was created.
LEMMA NetworkKeepsInv ==
  ASSUME InvoiceInv, network
  PROVE  InvoiceInv'
<1>1. PICK h \in Hashes : Settle(h) \/ Bounce(h)
  BY DEF network
<1>2. PICK s \in {"open", "settled"} : invoices' = [invoices EXCEPT ![h] = s]
  BY <1>1 DEF Settle, Bounce
<1>3. UNCHANGED <<invoiceCache, expired, local, answer, payPc, history>>
  BY <1>1 DEF Settle, Bounce
<1>4. invoices \in [Hashes -> {"none", "open", "inflight", "settled"}]
  BY DEF InvoiceInv, PayTypeOK
<1>5. invoices' \in [Hashes -> {"none", "open", "inflight", "settled"}]
  BY <1>2, <1>4
<1>6. \A g \in Hashes : invoices[g] # "none" => invoices'[g] # "none"
  BY <1>2, <1>4
<1>7. PayTypeOK'
  BY <1>3, <1>5 DEF InvoiceInv, PayTypeOK, local, answer, history
<1>8. CacheInjective' /\ NotCutOff'
  BY <1>3 DEF InvoiceInv, CacheInjective, NotCutOff, history
<1>9. Issued'
  <2>1. \A a \in DOMAIN invoiceCache : invoiceCache[a] \in Hashes \cup {Nil}
    BY DEF InvoiceInv, PayTypeOK
  <2>2. cutOff \cup known \subseteq Hashes
    BY DEF InvoiceInv, PayTypeOK
  <2> QED
    BY <1>3, <1>6, <2>1, <2>2 DEF InvoiceInv, Issued, history
<1>10. ActiveCached' /\ NotPaid'
  BY <1>3 DEF InvoiceInv, ActiveCached, NotPaid, local, history, amount
<1> QED
  BY <1>7, <1>8, <1>9, <1>10 DEF InvoiceInv
-----------------------------------------------------------------------------
\* The returns of pay.
Returning ==
  \/ FeeExceeded \/ AddInvoiceFails \/ SendFails \/ AnswerLost \/ GiveUpRoute
  \/ NoCapacity \/ ProbeFails \/ Finish \/ StatLockFails \/ StatOpenFails
  \/ \E a \in Amounts : ProbeFinds(a)

\* Every return of pay that leaves the invoice cached, or forgets it.
LEMMA PayReturnKeepsInv ==
  ASSUME InvoiceInv, Returning
  PROVE  InvoiceInv'
<1> USE PaymentInvoicesAssumption
<1>1. /\ DOMAIN invoiceCache \subseteq Amounts
      /\ invoiceCache \in [DOMAIN invoiceCache -> Hashes \cup {Nil}]
      /\ probed \in Amounts \cup {0} /\ amount \in Amounts
  BY DEF InvoiceInv, PayTypeOK, amount, Calls
<1>2. CASE FeeExceeded \/ SendFails \/ GiveUpRoute \/ NoCapacity \/ ProbeFails
  <2>1. PICK res \in Results : Return(res, invoiceCache)
    BY <1>2 DEF FeeExceeded, SendFails, GiveUpRoute, NoCapacity, ProbeFails, Results
  <2>2. UNCHANGED <<invoices, expired, probed, history>> /\ payPc # "idle" /\ payPc # "paid"
    BY <1>2 DEF FeeExceeded, SendFails, GiveUpRoute, NoCapacity, ProbeFails
  <2> QED
    BY <1>1, <2>1, <2>2, ReturnKeepsInv DEF history
<1>3. CASE AddInvoiceFails
  <2> DEFINE cache == With(invoiceCache, amount, Nil)
  <2>1. /\ Return("failed", cache) /\ payPc = "start"
        /\ UNCHANGED <<invoices, expired, probed, history>>
    BY <1>3 DEF AddInvoiceFails
  <2>2. /\ DOMAIN cache \subseteq Amounts
        /\ cache \in [DOMAIN cache -> Hashes \cup {Nil}]
        /\ \A a \in DOMAIN cache :
             cache[a] = Nil \/ (a \in DOMAIN invoiceCache /\ cache[a] = invoiceCache[a])
    BY <1>1 DEF With
  <2>3. "failed" \in Results
    BY DEF Results
  <2> HIDE DEF cache
  <2> QED
    BY <1>1, <2>1, <2>2, <2>3, ReturnKeepsInv DEF history
<1>4. CASE AnswerLost
  <2>1. /\ Return("failed", invoiceCache) /\ payPc = "sent"
        /\ UNCHANGED <<invoices, expired, probed, known, unsaved>>
        /\ cutOff' = cutOff \/ (expired /\ cutOff' = cutOff \cup {invoice})
    BY <1>4 DEF AnswerLost
  <2>2. "failed" \in Results
    BY DEF Results
  <2> QED
    BY <1>1, <2>1, <2>2, ReturnKeepsInv
<1>5. CASE Finish
  <2> DEFINE cache == Without(invoiceCache, amount)
  <2>1. /\ Return("paid", cache) /\ payPc = "paid"
        /\ UNCHANGED <<invoices, expired, probed, history>>
    BY <1>5 DEF Finish
  <2>2. /\ DOMAIN cache \subseteq Amounts
        /\ cache \in [DOMAIN cache -> Hashes \cup {Nil}]
        /\ \A a \in DOMAIN cache : a \in DOMAIN invoiceCache /\ cache[a] = invoiceCache[a]
        /\ amount \notin DOMAIN cache
    BY <1>1 DEF Without, Restrict
  <2>3. "paid" \in Results
    BY DEF Results
  <2> HIDE DEF cache
  <2> QED
    BY <1>1, <2>1, <2>2, <2>3, ReturnKeepsInv DEF history
<1>6. CASE StatLockFails \/ StatOpenFails
  <2>1. PICK res \in Results : Return(res, invoiceCache)
    BY <1>6 DEF StatLockFails, StatOpenFails, Results
  <2>2. /\ UNCHANGED <<invoices, expired, probed, cutOff, known>> /\ payPc = "paid"
        /\ unsaved' = unsaved \cup {invoice}
    BY <1>6 DEF StatLockFails, StatOpenFails
  <2> QED
    BY <1>1, <2>1, <2>2, ReturnKeepsInv
<1>7. CASE \E a \in Amounts : ProbeFinds(a)
  <2>1. PICK a \in Amounts : ProbeFinds(a)
    BY <1>7
  <2>2. /\ Return("retry", invoiceCache) /\ payPc = "probe" /\ probed' \in Amounts \cup {0}
        /\ UNCHANGED <<invoices, expired, history>>
    BY <2>1 DEF ProbeFinds
  <2>3. "retry" \in Results
    BY DEF Results
  <2> QED
    BY <1>1, <2>2, <2>3, ReturnKeepsInv DEF history
<1> QED
  BY <1>2, <1>3, <1>4, <1>5, <1>6, <1>7 DEF Returning
-----------------------------------------------------------------------------
\* The steps that use or change the invoice of the call.
LEMMA CachedInvoiceKeepsInv ==
  ASSUME InvoiceInv, CachedInvoice
  PROVE  InvoiceInv'
<1>1. /\ amount \in DOMAIN invoiceCache /\ invoiceCache[amount] # Nil
      /\ invoice' = invoiceCache[amount] /\ deferred' = TRUE
      /\ payPc = "start" /\ payPc' = "send"
      /\ UNCHANGED <<invoiceCache, invoices, expired, call, failure, result, probed, cutOff, known, unsaved>>
  BY DEF CachedInvoice, answer, history
<1>2. invoice' \in Hashes /\ amount' = amount
  BY <1>1 DEF InvoiceInv, PayTypeOK, amount
<1>3. PayTypeOK'
  BY <1>1, <1>2 DEF InvoiceInv, PayTypeOK, Control
<1>4. CacheInjective' /\ Issued' /\ NotCutOff' /\ ActiveCached' /\ NotPaid'
  BY <1>1, <1>2 DEF InvoiceInv, CacheInjective, Issued, NotCutOff, ActiveCached, NotPaid, Active
<1> QED
  BY <1>3, <1>4 DEF InvoiceInv

\* A new invoice is cached under its amount only.
LEMMA AddInvoiceKeepsInv ==
  ASSUME InvoiceInv, NEW h \in Hashes, AddInvoice(h)
  PROVE  InvoiceInv'
<1> USE PaymentInvoicesAssumption
<1>1. /\ amount \notin DOMAIN invoiceCache /\ invoices[h] = "none"
      /\ invoices' = [invoices EXCEPT ![h] = "open"]
      /\ invoiceCache' = With(invoiceCache, amount, h)
      /\ invoice' = h /\ deferred' = TRUE
      /\ payPc = "start" /\ payPc' = "send"
      /\ UNCHANGED <<expired, call, failure, result, probed, cutOff, known, unsaved>>
  BY DEF AddInvoice, answer, history
<1>2. amount' = amount /\ amount \in Amounts
  BY <1>1 DEF InvoiceInv, PayTypeOK, amount, Calls
<1>3. /\ DOMAIN invoiceCache' = DOMAIN invoiceCache \cup {amount}
      /\ invoiceCache'[amount] = h
      /\ \A a \in DOMAIN invoiceCache : invoiceCache'[a] = invoiceCache[a]
      /\ invoiceCache' = [a \in DOMAIN invoiceCache' |-> invoiceCache'[a]]
  BY <1>1 DEF With
<1>4. \A a \in DOMAIN invoiceCache : invoiceCache[a] \in Hashes \cup {Nil}
  BY DEF InvoiceInv, PayTypeOK
<1>5. invoiceCache' \in [DOMAIN invoiceCache' -> Hashes \cup {Nil}]
  BY <1>3, <1>4
<1>6. /\ invoices' \in [Hashes -> {"none", "open", "inflight", "settled"}]
      /\ \A g \in Hashes \ {h} : invoices'[g] = invoices[g]
      /\ invoices'[h] = "open"
  BY <1>1 DEF InvoiceInv, PayTypeOK
<1>7. cutOff \cup known \subseteq Hashes
  BY DEF InvoiceInv, PayTypeOK
<1>8. PayTypeOK'
  BY <1>1, <1>2, <1>3, <1>5, <1>6 DEF InvoiceInv, PayTypeOK, Control
<1>9. /\ \A a \in DOMAIN invoiceCache : invoiceCache[a] # h
      /\ h \notin cutOff \cup known
  BY <1>1 DEF InvoiceInv, Issued
<1>10. CacheInjective'
  BY <1>3, <1>9 DEF InvoiceInv, CacheInjective
<1>11. Issued'
  BY <1>1, <1>3, <1>4, <1>6, <1>7 DEF InvoiceInv, Issued
<1>12. ActiveCached'
  BY <1>1, <1>2, <1>3 DEF ActiveCached
<1>13. NotCutOff'
  BY <1>1, <1>3, <1>9 DEF InvoiceInv, NotCutOff
<1>14. NotPaid'
  BY <1>1, <1>3, <1>9 DEF InvoiceInv, NotPaid
<1> QED
  BY <1>8, <1>10, <1>11, <1>12, <1>13, <1>14 DEF InvoiceInv

\* The invoice of the call is still the cached one, if it is cached at all.
LEMMA SendToRouteKeepsInv ==
  ASSUME InvoiceInv, SendToRoute
  PROVE  InvoiceInv'
<1>1. /\ invoices' = [invoices EXCEPT ![invoice] = "inflight"]
      /\ payPc = "send" /\ payPc' = "sent"
      /\ UNCHANGED <<invoiceCache, expired, call, invoice, deferred, failure, result, probed,
                     cutOff, known, unsaved>>
  BY DEF SendToRoute, answer, history, local
<1>2. invoice \in Hashes /\ amount' = amount
  BY <1>1 DEF InvoiceInv, ActiveCached, Active, amount
<1>3. /\ invoices' \in [Hashes -> {"none", "open", "inflight", "settled"}]
      /\ \A g \in Hashes : invoices[g] # "none" => invoices'[g] # "none"
  BY <1>1, <1>2 DEF InvoiceInv, PayTypeOK
<1>4. PayTypeOK'
  BY <1>1, <1>3 DEF InvoiceInv, PayTypeOK, Control
<1>5. Issued'
  <2>1. \A a \in DOMAIN invoiceCache : invoiceCache[a] \in Hashes \cup {Nil}
    BY DEF InvoiceInv, PayTypeOK
  <2>2. cutOff \cup known \subseteq Hashes
    BY DEF InvoiceInv, PayTypeOK
  <2> QED
    BY <1>1, <1>3, <2>1, <2>2 DEF InvoiceInv, Issued
<1>6. CacheInjective' /\ NotCutOff' /\ ActiveCached' /\ NotPaid'
  BY <1>1, <1>2 DEF InvoiceInv, CacheInjective, NotCutOff, ActiveCached, NotPaid, Active
<1> QED
  BY <1>4, <1>5, <1>6 DEF InvoiceInv

\* The invoice becomes known to be paid; the call is past sending to it.
LEMMA SucceedsKeepsInv ==
  ASSUME InvoiceInv, Succeeds
  PROVE  InvoiceInv'
<1>1. /\ known' = known \cup {invoice} /\ invoices[invoice] = "settled"
      /\ payPc = "sent" /\ payPc' = "paid"
      /\ UNCHANGED <<invoiceCache, invoices, expired, call, invoice, deferred, failure, result,
                     probed, cutOff, unsaved>>
  BY DEF Succeeds, answer, local
<1>2. /\ invoice \in Hashes /\ amount' = amount
      /\ amount \in DOMAIN invoiceCache /\ invoiceCache[amount] = invoice
  BY <1>1 DEF InvoiceInv, ActiveCached, Active, amount
<1>3. PayTypeOK'
  BY <1>1, <1>2 DEF InvoiceInv, PayTypeOK, Control
<1>4. CacheInjective' /\ Issued' /\ NotCutOff' /\ ActiveCached'
  BY <1>1, <1>2 DEF InvoiceInv, CacheInjective, Issued, NotCutOff, ActiveCached, Active
<1>5. NotPaid'
  <2> SUFFICES ASSUME NEW a \in DOMAIN invoiceCache, invoiceCache[a] \in known',
                      invoiceCache[a] \notin unsaved
               PROVE  a = amount
    BY <1>1, <1>2 DEF NotPaid
  <2>1. invoiceCache[a] = invoice
    BY <1>1 DEF InvoiceInv, NotPaid
  <2>2. invoice # Nil
    BY <1>2, PaymentInvoicesAssumption
  <2> QED
    BY <1>2, <2>1, <2>2 DEF InvoiceInv, CacheInjective
<1> QED
  BY <1>3, <1>4, <1>5 DEF InvoiceInv

\* tryRebalance forgets an invoice between two calls.
LEMMA InvalidateKeepsInv ==
  ASSUME InvoiceInv, NEW a, invalidateInvoice(a)
  PROVE  InvoiceInv'
<1>1. /\ invoiceCache' = Without(invoiceCache, a) /\ payPc = "idle"
      /\ UNCHANGED <<invoices, expired, call, invoice, deferred, failure, result, probed, payPc,
                     cutOff, known, unsaved>>
  BY DEF invalidateInvoice, answer, local, history
<1>2. /\ DOMAIN invoiceCache' = DOMAIN invoiceCache \ {a}
      /\ \A b \in DOMAIN invoiceCache' : invoiceCache'[b] = invoiceCache[b]
      /\ invoiceCache' = [b \in DOMAIN invoiceCache' |-> invoiceCache'[b]]
  BY <1>1 DEF Without, Restrict
<1>3. invoiceCache' \in [DOMAIN invoiceCache' -> Hashes \cup {Nil}]
  BY <1>2 DEF InvoiceInv, PayTypeOK
<1>4. PayTypeOK'
  BY <1>1, <1>2, <1>3 DEF InvoiceInv, PayTypeOK
<1>5. CacheInjective' /\ Issued' /\ NotCutOff' /\ ActiveCached' /\ NotPaid'
  BY <1>1, <1>2 DEF InvoiceInv, CacheInjective, Issued, NotCutOff, ActiveCached, NotPaid, Active
<1> QED
  BY <1>4, <1>5 DEF InvoiceInv
-----------------------------------------------------------------------------
Quiet ==
  \/ NilInvoice \/ NodeUnknown \/ ProbePanics \/ StartProbe \/ Deadline
  \/ \E f \in Failures \ {"none"} : Fails(f)
  \/ \E fee \in Fees : PayUpdatedRoute(fee)
  \/ NewAttempt

\* Each of the quiet steps is one that QuietStepKeepsInv speaks of.
LEMMA QuietKeepsInv ==
  ASSUME InvoiceInv, Quiet
  PROVE  InvoiceInv'
<1>1. /\ call \in Calls /\ failure \in Failures /\ expired \in BOOLEAN /\ payPc \in Control
  BY DEF InvoiceInv, PayTypeOK
<1>2. CASE NilInvoice \/ NodeUnknown \/ ProbePanics \/ StartProbe
  <2>1. /\ UNCHANGED <<invoiceCache, invoices, deferred, invoice, history, result, probed>>
        /\ UNCHANGED <<call, failure, expired>>
        /\ payPc # "paid" /\ payPc' \in {"panic", "probe"}
        /\ payPc' = "probe" => payPc = "failed"
    BY <1>2 DEF NilInvoice, NodeUnknown, ProbePanics, StartProbe, Panic, local, answer, history
  <2> QED
    BY <1>1, <2>1, QuietStepKeepsInv DEF Active, Control, amount
<1>3. CASE \E f \in Failures \ {"none"} : Fails(f)
  <2>1. PICK f \in Failures \ {"none"} : Fails(f)
    BY <1>3
  <2>2. /\ UNCHANGED <<invoiceCache, invoices, deferred, invoice, history, result, probed>>
        /\ UNCHANGED <<call, expired>> /\ failure' = f
        /\ payPc = "sent" /\ payPc' = "failed"
    BY <2>1 DEF Fails, answer, history
  <2> QED
    BY <1>1, <2>2, QuietStepKeepsInv DEF Active, Control, amount
<1>4. CASE \E fee \in Fees : PayUpdatedRoute(fee)
  <2>1. PICK fee \in Fees : PayUpdatedRoute(fee)
    BY <1>4
  <2>2. /\ UNCHANGED <<invoiceCache, invoices, deferred, invoice, history, result, probed>>
        /\ UNCHANGED expired /\ failure' = "none"
        /\ call' = [call EXCEPT !.route = [amount |-> amount, fee |-> fee]]
        /\ payPc = "failed" /\ payPc' = "start"
    BY <2>1 DEF PayUpdatedRoute, answer, history
  <2>3. call' \in Calls /\ amount' = amount
    BY <1>1, <2>2 DEF Calls, Routes, amount
  <2> QED
    BY <1>1, <2>2, <2>3, QuietStepKeepsInv DEF Active, Control, Failures
<1>5. CASE Deadline \/ NewAttempt
  <2>1. /\ UNCHANGED <<invoiceCache, invoices, call, invoice, deferred, failure, result, probed,
                       payPc, cutOff, known, unsaved>>
        /\ expired' \in BOOLEAN
    BY <1>5 DEF Deadline, NewAttempt, local, answer, history
  <2>2. PayTypeOK'
    BY <2>1 DEF InvoiceInv, PayTypeOK
  <2>3. CacheInjective' /\ Issued' /\ NotCutOff' /\ ActiveCached' /\ NotPaid'
    BY <2>1 DEF InvoiceInv, CacheInjective, Issued, NotCutOff, ActiveCached, NotPaid, amount
  <2> QED
    BY <2>2, <2>3 DEF InvoiceInv
<1> QED
  BY <1>2, <1>3, <1>4, <1>5 DEF Quiet

-----------------------------------------------------------------------------
\* The invariant is inductive: each step of PayNext is one of those above.
LEMMA PaymentStep == InvoiceInv /\ [PayNext]_payVars => InvoiceInv'
<1> SUFFICES ASSUME InvoiceInv, [PayNext]_payVars PROVE InvoiceInv'
  OBVIOUS
<1>1. CASE Caller
  <2>1. CASE NewAttempt
    BY <2>1, QuietKeepsInv DEF Quiet
  <2>2. CASE \E a \in Amounts : invalidateInvoice(a)
    BY <2>2, InvalidateKeepsInv
  <2>3. CASE \E a \in Amounts, fee \in Fees, probing \in BOOLEAN :
               Pay(a, FeeLimit[a], probing, [amount |-> a, fee |-> fee])
    <3>1. PICK a \in Amounts, fee \in Fees, probing \in BOOLEAN :
                 Pay(a, FeeLimit[a], probing, [amount |-> a, fee |-> fee])
      BY <2>3
    <3>2. FeeLimit[a] \in Nat /\ [amount |-> a, fee |-> fee] \in Routes
      BY PaymentAmountsAssumption DEF Routes
    <3> QED
      BY <3>1, <3>2, CallKeepsInv
  <2> QED
    BY <1>1, <2>1, <2>2, <2>3 DEF Caller
<1>2. CASE pay
  <2>1. CASE Returning
    BY <2>1, PayReturnKeepsInv
  <2>2. CASE Quiet
    BY <2>2, QuietKeepsInv
  <2>3. CASE CachedInvoice \/ SendToRoute \/ Succeeds
    BY <2>3, CachedInvoiceKeepsInv, SendToRouteKeepsInv, SucceedsKeepsInv
  <2>4. CASE \E h \in Hashes : AddInvoice(h)
    BY <2>4, AddInvoiceKeepsInv
  <2> QED
    BY <1>2, <2>1, <2>2, <2>3, <2>4 DEF pay, Returning, Quiet
<1>3. CASE network
  BY <1>3, NetworkKeepsInv
<1>4. CASE Deadline
  BY <1>4, QuietKeepsInv DEF Quiet
<1>5. CASE UNCHANGED payVars
  <2>1. UNCHANGED <<invoiceCache, invoices, expired, call, invoice, deferred, failure, result,
                    probed, payPc, cutOff, known, unsaved>>
    BY <1>5 DEF payVars, local, answer, history
  <2>2. PayTypeOK'
    BY <2>1 DEF InvoiceInv, PayTypeOK
  <2>3. CacheInjective' /\ Issued' /\ NotCutOff' /\ ActiveCached' /\ NotPaid'
    BY <2>1 DEF InvoiceInv, CacheInjective, Issued, NotCutOff, ActiveCached, NotPaid, amount
  <2> QED
    BY <2>2, <2>3 DEF InvoiceInv
<1> QED
  BY <1>1, <1>2, <1>3, <1>4, <1>5 DEF PayNext

\* InvoiceInv, the strengthening the other theorems rest on, holds in every
\* state: no step of pay, its caller, the network or a deadline breaks it.
THEOREM PaymentInvariant == PaySpec => []InvoiceInv
  BY PaymentInit, PaymentStep, PTL DEF PaySpec

\* The cache, the invoices and the arguments of pay keep their types.
THEOREM PaymentTypes == PaySpec => []PayTypeOK
<1>1. InvoiceInv => PayTypeOK
  BY DEF InvoiceInv
<1> QED
  BY <1>1, PaymentInvariant, PTL

\* An invoice whose payment was cut off by the deadline is never sent to again,
\* whatever fails and however many amounts are in play.
THEOREM PaymentForgetsCutOffInvoices == PaySpec => []CutOffInvoiceForgotten
<1>1. InvoiceInv => CutOffInvoiceForgotten
  BY DEF InvoiceInv, ActiveCached, NotCutOff, CutOffInvoiceForgotten, Active
<1> QED
  BY <1>1, PaymentInvariant, PTL

\* An invoice known to be paid is never sent to again, but for those whose
\* payment the stat file could not take.
THEOREM PaymentForgetsPaidInvoices == PaySpec => []PaidInvoiceForgotten
<1>1. InvoiceInv => PaidInvoiceForgotten
  BY DEF InvoiceInv, ActiveCached, NotPaid, PaidInvoiceForgotten, Active
<1> QED
  BY <1>1, PaymentInvariant, PTL

-----------------------------------------------------------------------------
(* The session.                                                            *)

Attempting == {"paying", "payingProbed"}
Calling == Attempting \cup {"payingRapid"}
Routed == {"routes", "retry"} \cup Attempting
Rapid == {"rapid", "rapidAttempt", "payingRapid"}

\* What an attempt works with, from its pick on.
Working ==
  /\ at = "query" => chosen \in Pairs /\ amt = routeAmount
  /\ at \in {"query"} \cup Routed => amt \in Amounts /\ routeAmount \in Amounts
  /\ at \in Routed => maxFee = FeeLimit[routeAmount]

\* The amount an attempt works with is the one its routes were queried for
\* until one of them was probed, and a smaller one for those that are left.
Smaller ==
  /\ at \in Routed => amt <= routeAmount
  /\ at \in {"retry"} \cup Attempting => left < MaxRoutes
  /\ at = "routes" /\ amt # routeAmount => left < MaxRoutes
  /\ at = "paying" /\ amt # routeAmount => left + 1 < MaxRoutes

\* pay runs only while it is called, and a panic of it ends the session.
OnlyCalled == payPc # "idle" => at \in Calling \/ (at = "exited" /\ payPc = "panic")

\* pay was called with what the attempt works with, and goes on with the route
\* only if its fee is allowed.
CallFits ==
  /\ at \in Attempting => call.amount = amt /\ call.limit = maxFee
  /\ at = "paying" => call.route.amount \in {amt, routeAmount}
  /\ at = "payingProbed" => call.route.amount = amt
  /\ at = "payingRapid" => call.route.amount = call.amount /\ call.limit = FeeLimit[call.amount]
  /\ payPc = "send" => FeeAllowed

ProbedAmount == result = "retry" => probed \in Amounts /\ probed < call.amount

\* While the session goes on it knows of no payment the stat file took, but for
\* the one pay is about to report.
Unpaid ==
  /\ at \in {"loop", "picking", "query", "routes", "retry"} => known \subseteq unsaved
  /\ at \in Attempting /\ payPc \notin {"idle", "paid", "panic"} => known \subseteq unsaved
  /\ at \in Attempting /\ payPc = "paid" => invoice \in known /\ known \subseteq unsaved \cup {invoice}
  /\ at \in Attempting /\ payPc = "idle" =>
       IF result = "paid" THEN known # {} ELSE known \subseteq unsaved
  /\ at \in Rapid => known # {}
  /\ at = "returned" => IF err \/ repeat THEN known \subseteq unsaved ELSE known # {}

Ended == (at = "exited" <=> exit # Running) /\ ExitCodeTold

SessionInv ==
  /\ InvoiceInv
  /\ TypeOK
  /\ Working
  /\ Smaller
  /\ OnlyCalled
  /\ CallFits
  /\ ProbedAmount
  /\ Unpaid
  /\ Ended

-----------------------------------------------------------------------------
\* Nothing was paid at first.
LEMMA SessionInit == Init => SessionInv
<1> SUFFICES ASSUME Init PROVE SessionInv
  OBVIOUS
<1> USE SessionAssumption
<1>1. InvoiceInv
  BY PaymentInit DEF Init
<1>2. payPc = "idle" /\ result = "none" /\ known = {} /\ unsaved = {}
  BY DEF Init, PayInit
<1>3. TypeOK
  <2>1. PayTypeOK
    BY <1>1 DEF InvoiceInv
  <2>2. failed = {} /\ found = FALSE /\ chosen = NoPair /\ over = FALSE
    BY DEF Init, Pool!PoolInit
  <2>3. amt = 0 /\ routeAmount = 0 /\ maxFee \in Nat /\ left \in 0 .. MaxRoutes
    BY DEF Init
  <2>4. /\ err \in BOOLEAN /\ repeat \in BOOLEAN /\ mainExpired \in BOOLEAN
        /\ exit \in {Running, 0, 1, 2} /\ at \in Places
    BY DEF Init, Places
  <2> QED
    BY <2>1, <2>2, <2>3, <2>4 DEF TypeOK
<1>4. Working /\ Smaller /\ OnlyCalled /\ CallFits /\ ProbedAmount
  BY <1>2 DEF Init, Working, Smaller, OnlyCalled, CallFits, ProbedAmount, Routed, Calling, Attempting
<1>5. Unpaid /\ Ended
  BY <1>2 DEF Init, Unpaid, Ended, ExitCodeTold, Attempting, Rapid, Running
<1> QED
  BY <1>1, <1>3, <1>4, <1>5 DEF SessionInv

\* The actions of the session that leave the payment alone.
BeforePayment ==
  PickAgain \/ PickPair \/ NoRoutes \/ QuerySucceeds \/ QueryFails \/ QueryTimesOut
AfterPayment ==
  \/ PaymentDone \/ NextRoute \/ TakeProbed \/ RebuildFails \/ ProbedDone \/ NoRouteLeft
  \/ BeginRapid \/ RapidTimesOut \/ EndRapid
InMain == TimedOut \/ Finished \/ Repeat \/ Crash

\* What the session does to a payment is what some caller in PaySpec does, so
\* the invariant of the invoice cache holds here as well.
LEMMA InvoicesKept ==
  ASSUME SessionInv, [Next]_vars
  PROVE  InvoiceInv'
<1> USE DEF SessionInv
<1>1. CASE BeforePayment \/ AfterPayment \/ InMain \/ UNCHANGED vars
  <2>1. UNCHANGED payVars
    BY <1>1 DEF vars, BeforePayment, AfterPayment, InMain, PickAgain, PickPair, NoRoutes,
       QuerySucceeds, QueryFails, QueryTimesOut, PaymentDone, BeginRapid, RapidTimesOut, EndRapid, Succeed,
       NextRoute, TakeProbed, RebuildFails, ProbedDone, NoRouteLeft, TimedOut, Finished, Repeat,
       Crash, Leave
  <2> QED
    BY <2>1, PaymentStep
<1>2. CASE BeginAttempt \/ RapidAttempt \/ MainDeadline
  <2>1. UNCHANGED <<invoiceCache, invoices, local, answer, payPc, history>>
    BY <1>2 DEF BeginAttempt, RapidAttempt, MainDeadline
  <2>2. /\ expired \in BOOLEAN /\ expired' \in BOOLEAN
        /\ expired' = FALSE => payPc = "idle"
    <3>1. expired \in BOOLEAN /\ mainExpired \in BOOLEAN
      BY DEF TypeOK, PayTypeOK
    <3>2. CASE BeginAttempt \/ RapidAttempt
      BY <3>1, <3>2 DEF BeginAttempt, RapidAttempt, OnlyCalled, Calling, Attempting
    <3>3. CASE MainDeadline
      BY <3>1, <3>3 DEF MainDeadline
    <3> QED
      BY <1>2, <3>2, <3>3
  <2>3. CASE expired' = expired
    BY <2>1, <2>3, PaymentStep DEF payVars
  <2>4. CASE expired' = TRUE /\ expired = FALSE
    <3>1. Deadline
      BY <2>1, <2>4 DEF Deadline
    <3> QED
      BY <3>1, PaymentStep DEF PayNext
  <2>5. CASE payPc = "idle" /\ expired' = FALSE /\ expired = TRUE
    <3>1. NewAttempt
      BY <2>1, <2>5 DEF NewAttempt
    <3> QED
      BY <3>1, PaymentStep DEF PayNext, Caller
  <2> QED
    BY <2>1, <2>2, <2>3, <2>4, <2>5
<1>3. CASE PayRoute
  <2>1. PICK fee \in Fees : Pay(amt, maxFee, Probing, [amount |-> routeAmount, fee |-> fee])
    BY <1>3 DEF PayRoute
  <2>2. /\ amt \in Amounts /\ maxFee \in Nat /\ Probing \in BOOLEAN
        /\ [amount |-> routeAmount, fee |-> fee] \in Routes
    BY <1>3, SessionAssumption DEF PayRoute, Working, Routed, Attempting, TypeOK, Routes
  <2> QED
    BY <2>1, <2>2, CallKeepsInv
<1>4. CASE PayProbed
  <2>1. PICK fee \in Fees : Pay(amt, maxFee, FALSE, [amount |-> amt, fee |-> fee])
    BY <1>4 DEF PayProbed
  <2>2. amt \in Amounts /\ maxFee \in Nat /\ [amount |-> amt, fee |-> fee] \in Routes
    BY <1>4 DEF PayProbed, Working, Routed, Attempting, TypeOK, Routes
  <2> QED
    BY <2>1, <2>2, CallKeepsInv
<1>5. CASE ProbedFails
  BY <1>5, InvalidateKeepsInv DEF ProbedFails
<1>6. CASE PayRapid \/ RapidGoesOn
  <2>1. CASE PayRapid
    <3>1. PICK a \in Amounts, fee \in Fees :
            Pay(a, FeeLimit[a], FALSE, [amount |-> a, fee |-> fee])
      BY <2>1 DEF PayRapid
    <3>2. FeeLimit[a] \in Nat /\ [amount |-> a, fee |-> fee] \in Routes
      BY PaymentAmountsAssumption DEF Routes
    <3> QED
      BY <3>1, <3>2, CallKeepsInv
  <2>2. CASE RapidGoesOn
    BY <2>2, PaymentStep DEF RapidGoesOn
  <2> QED
    BY <1>6, <2>1, <2>2
<1>7. CASE pay \/ network \/ Deadline
  BY <1>7, PaymentStep DEF PayNext
<1> QED
  BY <1>1, <1>2, <1>3, <1>4, <1>5, <1>6, <1>7
  DEF Next, Step, Network, AttemptDeadline, BeforePayment, AfterPayment, InMain

-----------------------------------------------------------------------------
\* The pick and the query of an attempt.
LEMMA BeforePaymentKeepsInv ==
  ASSUME SessionInv, InvoiceInv', BeforePayment
  PROVE  SessionInv'
<1> USE SessionAssumption
<1> USE DEF SessionInv
<1>1. /\ UNCHANGED <<call, invoice, result, probed, payPc, known, unsaved, exit>>
      /\ at \in {"picking", "query"} /\ payPc = "idle" /\ exit = Running
  BY DEF BeforePayment, PickAgain, PickPair, NoRoutes, QuerySucceeds, QueryFails, QueryTimesOut,
     payVars, local, answer, history, process, OnlyCalled, Calling, Attempting, Ended
<1>2. TypeOK'
  <2>1. PayTypeOK'
    BY DEF InvoiceInv
  <2>2. FeeLimit \in [Amounts -> Nat]
    BY PaymentAmountsAssumption
  <2>3. CASE PickAgain
    BY <2>1, <2>3 DEF TypeOK, PickAgain, Pool!Refill, Pool!SetAside, attempt, outcome, process
  <2>4. CASE PickPair
    BY <2>1, <2>4 DEF TypeOK, PickPair, Pool!Choose, outcome, process, Places
  <2>5. CASE NoRoutes
    BY <2>1, <2>5 DEF TypeOK, NoRoutes, Pool!GiveUp, ReturnToMain, attempt, process, Places
  <2>6. CASE QuerySucceeds
    BY <2>1, <2>2, <2>6 DEF TypeOK, QuerySucceeds, Pool!FindRoute, Working, outcome, process, Places
  <2>7. CASE QueryFails
    BY <2>1, <2>7 DEF TypeOK, QueryFails, Pool!SetAside, ReturnToMain, Working, attempt, process, Places
  <2>8. CASE QueryTimesOut
    BY <2>1, <2>8 DEF TypeOK, QueryTimesOut, Pool!Stop, ReturnToMain, attempt, process, Places
  <2> QED
    BY <2>3, <2>4, <2>5, <2>6, <2>7, <2>8 DEF BeforePayment
<1>3. Working'
  BY DEF BeforePayment, PickAgain, PickPair, NoRoutes, QuerySucceeds, QueryFails, QueryTimesOut,
     ReturnToMain, Working, Routed, Attempting, attempt, Pool!Choose
<1>4. at' \notin Calling \cup Rapid /\ at' \notin {"loop", "retry", "exited"}
  BY <1>1 DEF BeforePayment, PickAgain, PickPair, NoRoutes, QuerySucceeds, QueryFails,
     QueryTimesOut, ReturnToMain, Calling, Attempting, Rapid
<1>5. OnlyCalled' /\ CallFits' /\ ProbedAmount'
  BY <1>1, <1>4 DEF OnlyCalled, CallFits, ProbedAmount, Calling, Attempting
<1>6. Smaller'
  <2>1. at' = "routes" => amt' = amt /\ routeAmount' = routeAmount /\ amt = routeAmount
    BY DEF BeforePayment, PickAgain, PickPair, NoRoutes, QuerySucceeds, QueryFails, QueryTimesOut,
       ReturnToMain, Working
  <2>2. at' = "routes" => routeAmount \in Nat
    BY <2>1, PaymentAmountsAssumption DEF TypeOK
  <2> QED
    BY <1>4, <2>1, <2>2 DEF Smaller, Routed, Calling, Attempting
<1>7. Unpaid'
  <2>1. known \subseteq unsaved
    BY <1>1 DEF Unpaid
  <2>2. at' = "returned" => err' = TRUE
    BY <1>1 DEF BeforePayment, PickAgain, PickPair, NoRoutes, QuerySucceeds, QueryFails,
       QueryTimesOut, ReturnToMain
  <2> QED
    BY <1>1, <1>4, <2>1, <2>2 DEF Unpaid, Calling
<1>8. Ended'
  BY <1>1, <1>4 DEF Ended, ExitCodeTold, Running
<1> QED
  BY <1>2, <1>3, <1>5, <1>6, <1>7, <1>8

\* What the session does between and after the calls of pay.
LEMMA AfterPaymentKeepsInv ==
  ASSUME SessionInv, InvoiceInv', AfterPayment
  PROVE  SessionInv'
<1> USE DEF SessionInv
<1>1. /\ UNCHANGED <<call, invoice, result, probed, payPc, known, unsaved, exit, mainExpired>>
      /\ at \in {"routes", "retry", "rapid", "rapidAttempt"} \cup Calling
      /\ payPc = "idle" /\ exit = Running
      /\ at' \in {"returned", "rapid", "routes", "retry"}
  BY DEF AfterPayment, PaymentDone, BeginRapid, RapidTimesOut, EndRapid, NextRoute, TakeProbed, RebuildFails,
     ProbedDone, NoRouteLeft, Succeed, ReturnToMain, payVars, local, answer, history, process,
     OnlyCalled, Calling, Attempting, Ended
<1>2. /\ UNCHANGED <<maxFee, routeAmount, left, failed, found>>
      /\ chosen' \in {chosen, NoPair}
      /\ amt' = amt \/ (result = "retry" /\ amt' = probed)
      /\ over' \in BOOLEAN /\ err' \in BOOLEAN /\ repeat' \in BOOLEAN
  <2>1. over \in BOOLEAN /\ err \in BOOLEAN /\ repeat \in BOOLEAN
    BY DEF TypeOK
  <2>2. CASE BeginRapid \/ NextRoute \/ RebuildFails \/ TakeProbed
    <3>1. /\ UNCHANGED <<maxFee, routeAmount, left, failed, found, chosen, over, err, repeat>>
          /\ amt' = amt \/ (result = "retry" /\ amt' = probed)
      BY <2>2 DEF BeginRapid, NextRoute, RebuildFails, TakeProbed, pool, attempt, outcome
    <3> QED
      BY <2>1, <3>1
  <2>3. CASE PaymentDone \/ RapidTimesOut \/ EndRapid \/ ProbedDone
    <3>1. /\ UNCHANGED <<amt, maxFee, routeAmount, left, failed, found, chosen>>
          /\ over' = TRUE /\ err' = FALSE /\ repeat' = FALSE
      BY <2>3 DEF PaymentDone, RapidTimesOut, EndRapid, ProbedDone, Succeed, ReturnToMain, attempt, Pool!Stop
    <3> QED
      BY <3>1
  <2>4. CASE NoRouteLeft
    <3>1. /\ UNCHANGED <<amt, maxFee, routeAmount, left, failed, found, over>>
          /\ chosen' = NoPair /\ err' = FALSE /\ repeat' = TRUE
      BY <2>4 DEF NoRouteLeft, ReturnToMain, attempt, Pool!Release
    <3> QED
      BY <2>1, <3>1
  <2> QED
    BY <2>2, <2>3, <2>4 DEF AfterPayment
<1>3. amt' \in Amounts \cup {0} /\ (amt \in Amounts => amt' \in Amounts)
  BY <1>2 DEF TypeOK, ProbedAmount
<1>4. TypeOK'
  BY <1>1, <1>2, <1>3 DEF InvoiceInv, TypeOK, Places
<1>5. Working'
  <2>1. at' \in Routed => at \in Routed
    BY <1>1 DEF AfterPayment, PaymentDone, BeginRapid, RapidTimesOut, EndRapid, NextRoute, TakeProbed,
       RebuildFails, ProbedDone, NoRouteLeft, Succeed, ReturnToMain, Routed, Attempting
  <2> QED
    BY <1>1, <1>2, <1>3, <2>1 DEF Working
<1>6. OnlyCalled' /\ CallFits' /\ ProbedAmount'
  BY <1>1 DEF OnlyCalled, CallFits, ProbedAmount, Calling, Attempting
<1>7. Smaller'
  <2>1. /\ left \in 0 .. MaxRoutes /\ MaxRoutes \in Nat
        /\ left' = left /\ routeAmount' = routeAmount
    BY <1>2, SessionAssumption DEF TypeOK
  <2>2. CASE NextRoute \/ RebuildFails
    <3>1. at \in Routed /\ at' = "routes" /\ amt' = amt
      BY <2>2 DEF NextRoute, RebuildFails, Routed, Attempting, attempt
    <3> QED
      BY <2>1, <3>1 DEF Smaller, Routed, Attempting
  <2>3. CASE TakeProbed
    <3>1. /\ at = "paying" /\ at' = "retry" /\ amt' = probed
          /\ result = "retry" /\ call.amount = amt
      BY <2>3 DEF TakeProbed, CallFits, Attempting
    <3>2. probed < amt /\ amt <= routeAmount /\ left < MaxRoutes
      BY <3>1 DEF ProbedAmount, Smaller, Routed, Attempting
    <3>3. probed \in Nat /\ amt \in Nat /\ routeAmount \in Nat
      BY PaymentAmountsAssumption DEF TypeOK, PayTypeOK
    <3> QED
      BY <2>1, <3>1, <3>2, <3>3 DEF Smaller, Routed, Attempting
  <2>4. CASE ~(NextRoute \/ RebuildFails \/ TakeProbed)
    <3>1. at' \in {"returned", "rapid"}
      BY <2>4 DEF AfterPayment, PaymentDone, BeginRapid, RapidTimesOut, EndRapid, ProbedDone,
         NoRouteLeft, Succeed, ReturnToMain
    <3> QED
      BY <3>1 DEF Smaller, Routed, Attempting
  <2> QED
    BY <2>2, <2>3, <2>4
<1>8. Unpaid'
  <2>1. /\ at' \in {"routes", "retry"} => known \subseteq unsaved
        /\ at' = "rapid" => known # {}
        /\ at' = "returned" => err' = FALSE
        /\ at' = "returned" => IF repeat' THEN known \subseteq unsaved ELSE known # {}
    BY <1>1 DEF AfterPayment, PaymentDone, BeginRapid, RapidTimesOut, EndRapid, NextRoute, TakeProbed,
       RebuildFails, ProbedDone, NoRouteLeft, Succeed, ReturnToMain, Unpaid, Attempting, Rapid
  <2> QED
    BY <1>1, <2>1 DEF Unpaid, Attempting, Rapid
<1>9. Ended'
  BY <1>1 DEF Ended, ExitCodeTold, Running
<1> QED
  BY <1>4, <1>5, <1>6, <1>7, <1>8, <1>9

\* The loop of main, and a crash, which leaves it.
LEMMA MainKeepsInv ==
  ASSUME SessionInv, InvoiceInv', InMain
  PROVE  SessionInv'
<1> USE DEF SessionInv
<1>1. /\ UNCHANGED <<call, invoice, result, probed, payPc, known, unsaved, mainExpired>>
      /\ UNCHANGED <<amt, maxFee, routeAmount, left, failed, found, chosen, over, err, repeat>>
      /\ at' \in {"loop", "exited"}
  BY DEF InMain, TimedOut, Finished, Repeat, Crash, Leave, payVars, local, answer, history,
     pool, attempt, outcome, process
<1>2. /\ at' = "exited" => exit' \in {0, 1, 2}
      /\ at' = "loop" => exit' = Running /\ known \subseteq unsaved
      /\ payPc = "idle" \/ (at' = "exited" /\ payPc = "panic")
  <2>1. CASE TimedOut \/ Finished
    <3>1. at = "returned" /\ at' = "exited" /\ exit' \in {0, 1, 2}
      BY <2>1 DEF TimedOut, Finished, Leave
    <3> QED
      BY <3>1 DEF OnlyCalled, Calling, Attempting
  <2>2. CASE Repeat
    <3>1. /\ at = "returned" /\ at' = "loop" /\ exit' = exit /\ repeat
      BY <2>2 DEF Repeat, process
    <3>2. exit = Running
      BY <3>1 DEF Ended
    <3>3. known \subseteq unsaved
      BY <3>1 DEF Unpaid
    <3> QED
      BY <3>1, <3>2, <3>3 DEF OnlyCalled, Calling, Attempting
  <2>3. CASE Crash
    BY <2>3 DEF Crash, Leave
  <2> QED
    BY <2>1, <2>2, <2>3 DEF InMain
<1>3. TypeOK'
  BY <1>1, <1>2 DEF InvoiceInv, TypeOK, Places
<1>4. Working' /\ Smaller' /\ OnlyCalled' /\ CallFits' /\ ProbedAmount' /\ Unpaid'
  BY <1>1, <1>2 DEF Working, Smaller, OnlyCalled, CallFits, FeeAllowed, ProbedAmount, Unpaid, Routed,
     Calling, Attempting, Rapid
<1>5. ExitCodeTold'
  <2>1. CASE Crash
    BY <2>1, <1>1 DEF Crash, Leave, ExitCodeTold
  <2>2. CASE TimedOut
    BY <2>2, <1>1 DEF TimedOut, Leave, ExitCodeTold
  <2>3. CASE Finished
    BY <2>3, <1>1 DEF Finished, Leave, ExitCodeTold, Unpaid
  <2>4. CASE Repeat
    BY <2>4, <1>1, <1>2 DEF Repeat, ExitCodeTold, Running
  <2> QED
    BY <2>1, <2>2, <2>3, <2>4 DEF InMain
<1>6. Ended'
  BY <1>1, <1>2, <1>5 DEF Ended, Running
<1> QED
  BY <1>3, <1>4, <1>6

-----------------------------------------------------------------------------
\* The calls of pay, and what the session does when a probed amount failed.
LEMMA CallsKeepInv ==
  ASSUME SessionInv, InvoiceInv', PayRoute \/ PayProbed \/ ProbedFails
  PROVE  SessionInv'
<1> USE DEF SessionInv
<1>1. /\ UNCHANGED <<amt, maxFee, routeAmount, failed, found, chosen, over, err, repeat,
                     mainExpired, exit, known, unsaved>>
      /\ exit = Running /\ payPc = "idle" /\ at \in Routed /\ at' \in Routed
      /\ known \subseteq unsaved
  BY DEF PayRoute, PayProbed, ProbedFails, Pay, invalidateInvoice, pool, attempt, outcome, process,
     history, Ended, Unpaid, Routed, Attempting
<1>2. left' \in 0 .. MaxRoutes /\ Smaller'
  <2>1. /\ left \in 0 .. MaxRoutes /\ MaxRoutes \in Nat
        /\ amt' = amt /\ routeAmount' = routeAmount
    BY <1>1, SessionAssumption DEF TypeOK
  <2>2. CASE PayRoute
    <3>1. left > 0 /\ left' = left - 1 /\ at = "routes" /\ at' = "paying"
      BY <2>2 DEF PayRoute
    <3>2. amt <= routeAmount /\ (amt # routeAmount => left < MaxRoutes)
      BY <3>1 DEF Smaller, Routed
    <3>3. left' \in 0 .. MaxRoutes /\ left' < MaxRoutes /\ left' + 1 = left
      BY <2>1, <3>1
    <3> QED
      BY <2>1, <3>1, <3>2, <3>3 DEF Smaller
  <2>3. CASE PayProbed \/ ProbedFails
    <3>1. /\ left' = left
          /\ \/ at = "retry" /\ at' = "payingProbed"
             \/ at = "payingProbed" /\ at' = "routes"
      BY <2>3 DEF PayProbed, ProbedFails, attempt
    <3> QED
      BY <2>1, <3>1 DEF Smaller, Routed, Attempting
  <2> QED
    BY <2>2, <2>3
<1>3. TypeOK'
  BY <1>1, <1>2 DEF InvoiceInv, TypeOK, Places, Routed, Attempting
<1>4. Working'
  BY <1>1 DEF Working, Routed, Attempting
<1>5. OnlyCalled' /\ CallFits' /\ ProbedAmount'
  <2>1. CASE PayRoute
    <3>1. PICK fee \in Fees : Pay(amt, maxFee, Probing, [amount |-> routeAmount, fee |-> fee])
      BY <2>1 DEF PayRoute
    <3>2. /\ call'.amount = amt /\ call'.limit = maxFee /\ call'.route.amount = routeAmount
          /\ payPc' = "start" /\ result' = "none" /\ at' = "paying"
      BY <2>1, <3>1 DEF Pay, PayRoute
    <3> QED
      BY <1>1, <3>2 DEF OnlyCalled, CallFits, ProbedAmount, Calling, Attempting
  <2>2. CASE PayProbed
    <3>1. PICK fee \in Fees : Pay(amt, maxFee, FALSE, [amount |-> amt, fee |-> fee])
      BY <2>2 DEF PayProbed
    <3>2. /\ call'.amount = amt /\ call'.limit = maxFee /\ call'.route.amount = amt
          /\ payPc' = "start" /\ result' = "none" /\ at' = "payingProbed"
      BY <2>2, <3>1 DEF Pay, PayProbed
    <3> QED
      BY <1>1, <3>2 DEF OnlyCalled, CallFits, ProbedAmount, Calling, Attempting
  <2>3. CASE ProbedFails
    <3>1. UNCHANGED <<call, result, probed, payPc>> /\ at' = "routes"
      BY <2>3 DEF ProbedFails, invalidateInvoice, local, answer
    <3> QED
      BY <1>1, <3>1 DEF OnlyCalled, CallFits, ProbedAmount, Calling, Attempting
  <2> QED
    BY <2>1, <2>2, <2>3
<1>6. Unpaid'
  <2>1. /\ at' \in Attempting => payPc' = "start"
        /\ at' \notin {"returned"} \cup Rapid
    BY DEF PayRoute, PayProbed, ProbedFails, Pay, Attempting, Rapid
  <2> QED
    BY <1>1, <2>1 DEF Unpaid, Rapid, Routed, Attempting
<1>7. Ended'
  BY <1>1 DEF Ended, ExitCodeTold, Routed, Attempting, Running
<1> QED
  BY <1>2, <1>3, <1>4, <1>5, <1>6, <1>7

\* The steps that may only move the deadline of the attempt or an invoice.
LEMMA OutsideKeepsInv ==
  ASSUME SessionInv, InvoiceInv',
         BeginAttempt \/ MainDeadline \/ AttemptDeadline \/ Network \/ UNCHANGED vars
  PROVE  SessionInv'
<1> USE DEF SessionInv
<1>1. /\ UNCHANGED <<call, invoice, result, probed, payPc, known, unsaved>>
      /\ UNCHANGED <<amt, maxFee, routeAmount, left, failed, found, chosen, over, err, repeat, exit>>
  <2>1. CASE Network
    BY <2>1 DEF Network, network, Settle, Bounce, local, answer, history, pool, attempt, outcome,
       process
  <2>2. CASE BeginAttempt \/ MainDeadline \/ AttemptDeadline
    BY <2>2 DEF BeginAttempt, MainDeadline, AttemptDeadline, Deadline, local, answer, history,
       pool, attempt, outcome, process
  <2>3. CASE UNCHANGED vars
    BY <2>3 DEF vars, payVars, local, answer, history, pool, attempt, outcome, process
  <2> QED
    BY <2>1, <2>2, <2>3
<1>2. /\ at' = at \/ (at = "loop" /\ at' = "picking")
      /\ mainExpired' \in BOOLEAN /\ (mainExpired => mainExpired')
  <2>1. mainExpired \in BOOLEAN
    BY DEF TypeOK
  <2>2. CASE MainDeadline
    BY <2>2 DEF MainDeadline
  <2>3. CASE BeginAttempt \/ AttemptDeadline \/ Network \/ UNCHANGED vars
    <3>1. mainExpired' = mainExpired
      BY <2>3 DEF BeginAttempt, AttemptDeadline, Network, vars, process
    <3>2. at' = at \/ (at = "loop" /\ at' = "picking")
      BY <2>3 DEF BeginAttempt, AttemptDeadline, Network, vars
    <3> QED
      BY <2>1, <3>1, <3>2
  <2> QED
    BY <2>2, <2>3
<1>3. TypeOK'
  BY <1>1, <1>2 DEF InvoiceInv, TypeOK, Places
<1>4. Working' /\ Smaller' /\ OnlyCalled' /\ CallFits' /\ ProbedAmount' /\ Unpaid'
  BY <1>1, <1>2 DEF Working, Smaller, OnlyCalled, CallFits, FeeAllowed, ProbedAmount, Unpaid, Routed,
     Calling, Attempting, Rapid
<1>5. Ended'
  BY <1>1, <1>2 DEF Ended, ExitCodeTold
<1> QED
  BY <1>3, <1>4, <1>5

\* Another attempt of rapid rebalancing, its payment, and the way back.
LEMMA RapidKeepsInv ==
  ASSUME SessionInv, InvoiceInv', RapidAttempt \/ PayRapid \/ RapidGoesOn
  PROVE  SessionInv'
<1> USE DEF SessionInv
<1>1. /\ UNCHANGED <<amt, maxFee, routeAmount, left, failed, found, chosen, over, err, repeat,
                     mainExpired, exit, known, unsaved>>
      /\ exit = Running /\ payPc = "idle" /\ at \in Rapid /\ at' \in Rapid
      /\ known # {}
  BY DEF RapidAttempt, PayRapid, RapidGoesOn, Pay, pool, attempt, outcome, process, payVars, history,
     OnlyCalled, Ended, Unpaid, Rapid, Calling, Attempting
<1>2. TypeOK'
  BY <1>1 DEF InvoiceInv, TypeOK, Places, Rapid
<1>3. Working' /\ Smaller' /\ Unpaid' /\ Ended'
  BY <1>1 DEF Working, Smaller, Unpaid, Ended, ExitCodeTold, Running, Rapid, Routed, Attempting
<1>4. OnlyCalled' /\ CallFits' /\ ProbedAmount'
  <2>1. CASE RapidAttempt \/ RapidGoesOn
    <3>1. /\ UNCHANGED <<call, result, probed, payPc>> /\ at' \notin Calling
      BY <2>1 DEF RapidAttempt, RapidGoesOn, payVars, local, answer, Calling, Attempting
    <3> QED
      BY <1>1, <3>1 DEF OnlyCalled, CallFits, ProbedAmount, Calling, Attempting
  <2>2. CASE PayRapid
    <3>1. PICK a \in Amounts, fee \in Fees :
            Pay(a, FeeLimit[a], FALSE, [amount |-> a, fee |-> fee])
      BY <2>2 DEF PayRapid
    <3>2. /\ call'.amount = a /\ call'.limit = FeeLimit[a] /\ call'.route.amount = a
          /\ payPc' = "start" /\ result' = "none" /\ at' = "payingRapid"
      BY <2>2, <3>1 DEF Pay, PayRapid
    <3> QED
      BY <3>2 DEF OnlyCalled, CallFits, ProbedAmount, Calling, Attempting
  <2> QED
    BY <2>1, <2>2
<1> QED
  BY <1>2, <1>3, <1>4

\* A step of pay keeps what it was called with, and what the session knows.
LEMMA PayStepKeepsInv ==
  ASSUME SessionInv, InvoiceInv', pay, UNCHANGED <<pool, attempt, outcome, process, at>>
  PROVE  SessionInv'
<1> USE DEF SessionInv
<1>1. /\ UNCHANGED <<amt, maxFee, routeAmount, left, failed, found, chosen, over, err, repeat,
                     mainExpired, exit, at>>
  BY DEF pool, attempt, outcome, process
<1>2. payPc \notin {"idle", "panic"}
  BY DEF pay, FeeExceeded, CachedInvoice, NilInvoice, AddInvoiceFails, SendToRoute, SendFails,
     AnswerLost, Succeeds, GiveUpRoute, NodeUnknown, NoCapacity, StartProbe, ProbeFails, ProbePanics,
     Finish, StatLockFails, StatOpenFails, AddInvoice, Fails, PayUpdatedRoute, ProbeFinds
<1>3. at \in Calling /\ exit = Running
  BY <1>2 DEF OnlyCalled, Ended, Calling, Attempting
<1>4. TypeOK'
  BY <1>1 DEF InvoiceInv, TypeOK
<1>5. Working' /\ Smaller' /\ OnlyCalled' /\ Ended'
  BY <1>1, <1>3 DEF Working, Smaller, OnlyCalled, Ended, ExitCodeTold, Running
<1>6. /\ call' = call \/ \E fee \in Fees : call' = [call EXCEPT !.route = [amount |-> amount, fee |-> fee]]
      /\ payPc' = "send" => call' = call /\ FeeAllowed
  BY DEF pay, FeeExceeded, CachedInvoice, NilInvoice, AddInvoiceFails, SendToRoute, SendFails,
     AnswerLost, Succeeds, GiveUpRoute, NodeUnknown, NoCapacity, StartProbe, ProbeFails, ProbePanics,
     Finish, StatLockFails, StatOpenFails, AddInvoice, Fails, PayUpdatedRoute, ProbeFinds, Return,
     Panic, local
<1>7. CallFits'
  <2>1. call \in Calls
    BY DEF InvoiceInv, PayTypeOK
  <2>2. call'.amount = call.amount /\ call'.limit = call.limit
    BY <1>6, <2>1 DEF Calls
  <2>3. call'.route.amount \in {call.route.amount, call.amount}
    BY <1>6, <2>1 DEF Calls, amount
  <2>4. payPc' = "send" => FeeAllowed'
    BY <1>6 DEF FeeAllowed
  <2> QED
    BY <1>1, <1>3, <2>2, <2>3, <2>4 DEF CallFits, Calling, Attempting
<1>8. ProbedAmount'
  <2>1. CASE \E a \in Amounts : ProbeFinds(a)
    <3>1. PICK a \in Amounts : ProbeFinds(a)
      BY <2>1
    <3>2. probed' = a /\ a < call.amount /\ call' = call
      BY <3>1 DEF ProbeFinds, Search!MayFind, Return, local, amount
    <3> QED
      BY <3>2 DEF ProbedAmount
  <2>2. CASE ~\E a \in Amounts : ProbeFinds(a)
    <3>1. result' # "retry" \/ UNCHANGED <<probed, result>>
      BY <2>2 DEF pay, FeeExceeded, CachedInvoice, NilInvoice, AddInvoiceFails, SendToRoute,
         SendFails, AnswerLost, Succeeds, GiveUpRoute, NodeUnknown, NoCapacity, StartProbe,
         ProbeFails, ProbePanics, Finish, StatLockFails, StatOpenFails, AddInvoice, Fails,
         PayUpdatedRoute, Return, Panic, answer
    <3>2. call'.amount = call.amount
      BY <1>6 DEF InvoiceInv, PayTypeOK, Calls
    <3> QED
      BY <3>1, <3>2 DEF ProbedAmount
  <2> QED
    BY <2>1, <2>2
<1>9. Unpaid'
  <2>1. CASE Succeeds
    <3>1. /\ known' = known \cup {invoice} /\ unsaved' = unsaved /\ invoice' = invoice
          /\ payPc = "sent" /\ payPc' = "paid"
      BY <2>1 DEF Succeeds, local
    <3> QED
      BY <1>1, <1>3, <3>1 DEF Unpaid, Calling, Attempting, Rapid
  <2>2. CASE Finish \/ StatLockFails \/ StatOpenFails
    <3>1. /\ payPc = "paid" /\ payPc' = "idle" /\ known' = known
          /\ result' = "paid" \/ unsaved' = unsaved \cup {invoice}
      BY <2>2 DEF Finish, StatLockFails, StatOpenFails, Return, history
    <3> QED
      BY <1>1, <1>3, <3>1 DEF Unpaid, Calling, Attempting, Rapid
  <2>3. CASE ~(Succeeds \/ Finish \/ StatLockFails \/ StatOpenFails)
    <3>1. /\ UNCHANGED <<known, unsaved>> /\ payPc # "paid" /\ payPc' # "paid"
          /\ payPc' = "idle" => result' # "paid"
      BY <2>3 DEF pay, FeeExceeded, CachedInvoice, NilInvoice, AddInvoiceFails, SendToRoute,
         SendFails, AnswerLost, GiveUpRoute, NodeUnknown, NoCapacity, StartProbe,
         ProbeFails, ProbePanics, AddInvoice, Fails, PayUpdatedRoute, ProbeFinds, Return, Panic,
         history
    <3> QED
      BY <1>1, <1>2, <1>3, <3>1 DEF Unpaid, Calling, Attempting, Rapid
  <2> QED
    BY <2>1, <2>2, <2>3
<1> QED
  BY <1>4, <1>5, <1>7, <1>8, <1>9

-----------------------------------------------------------------------------
\* The invariant is inductive.
LEMMA SessionStep == SessionInv /\ [Next]_vars => SessionInv'
<1> SUFFICES ASSUME SessionInv, [Next]_vars PROVE SessionInv'
  OBVIOUS
<1>1. InvoiceInv'
  BY InvoicesKept
<1>2. CASE BeforePayment
  BY <1>1, <1>2, BeforePaymentKeepsInv
<1>3. CASE AfterPayment
  BY <1>1, <1>3, AfterPaymentKeepsInv
<1>4. CASE InMain
  BY <1>1, <1>4, MainKeepsInv
<1>5. CASE PayRoute \/ PayProbed \/ ProbedFails
  BY <1>1, <1>5, CallsKeepInv
<1>6. CASE BeginAttempt \/ MainDeadline \/ AttemptDeadline \/ Network \/ UNCHANGED vars
  BY <1>1, <1>6, OutsideKeepsInv
<1>7. CASE pay /\ UNCHANGED <<pool, attempt, outcome, process, at>>
  BY <1>1, <1>7, PayStepKeepsInv
<1>8. CASE RapidAttempt \/ PayRapid \/ RapidGoesOn
  BY <1>1, <1>8, RapidKeepsInv
<1> QED
  BY <1>2, <1>3, <1>4, <1>5, <1>6, <1>7, <1>8 DEF Next, Step, BeforePayment, AfterPayment, InMain

\* SessionInv, which the other theorems rest on, holds in every state: no step
\* of the session, of a call of pay, of the network or of a deadline breaks it.
THEOREM SessionInvariant == Spec => []SessionInv
  BY SessionInit, SessionStep, PTL DEF Spec

\* The pool, the attempt and the outcome keep their types, with those of the
\* payment, for any pairs, amounts and faults.
THEOREM SessionTypes == Spec => []TypeOK
<1>1. SessionInv => TypeOK
  BY DEF SessionInv
<1> QED
  BY <1>1, SessionInvariant, PTL

\* The exit code of a session that did not crash tells how it ended, whatever
\* fails and however many attempts there are.
THEOREM SessionExitCodeTold == Spec => []ExitCodeTold
<1>1. SessionInv => ExitCodeTold
  BY DEF SessionInv, Ended
<1> QED
  BY <1>1, SessionInvariant, PTL

\* A route delivers what its invoice asks for, or more if an earlier route of
\* the query was probed, for any amounts, routes, probes, fee updates and
\* payments of rapid rebalancing.
THEOREM SessionInvoiceFitsRoute == Spec => []InvoiceFitsRoute
<1>1. SessionInv => InvoiceFitsRoute
  <2> SUFFICES ASSUME SessionInv, payPc = "send"
               PROVE  /\ call.amount <= call.route.amount
                      /\ call.amount # call.route.amount => at = "paying" /\ left + 1 < MaxRoutes
    BY DEF InvoiceFitsRoute
  <2>1. at \in Calling /\ call.amount \in Nat
    BY PaymentAmountsAssumption DEF SessionInv, OnlyCalled, TypeOK, PayTypeOK, Calls
  <2>2. CASE at = "paying"
    BY <2>1, <2>2 DEF SessionInv, CallFits, Smaller, Routed, Attempting
  <2>3. CASE at \in {"payingProbed", "payingRapid"}
    BY <2>1, <2>3 DEF SessionInv, CallFits, Attempting
  <2> QED
    BY <2>1, <2>2, <2>3 DEF Calling, Attempting
<1> QED
  BY <1>1, SessionInvariant, PTL

\* No payment costs more than the limit of the amount its query was for, or of
\* its own amount in rapid rebalancing.
THEOREM SessionFeeWithinLimit == Spec => []FeeWithinLimit
<1>1. SessionInv => FeeWithinLimit
  BY DEF SessionInv, OnlyCalled, CallFits, Working, FeeAllowed, FeeWithinLimit, Routed, Calling,
     Attempting
<1> QED
  BY <1>1, SessionInvariant, PTL

\* A session that knows it has paid starts no payment but those of rapid
\* rebalancing, which only follow a success; but for one the stat file could
\* not take.
THEOREM SessionStopsWhenPaid == Spec => StopsWhenPaid
<1>1. SessionInv /\ [Next]_vars =>
        [payPc = "send" /\ payPc' = "sent" =>
           IF at = "payingRapid" THEN known # {} ELSE known \subseteq unsaved]_vars
  BY DEF SessionInv, OnlyCalled, Unpaid, Calling, Attempting, Rapid
<1> QED
  BY <1>1, SessionInvariant, PTL DEF Spec, StopsWhenPaid

\* What is proved of pay for any caller holds in the session, with its amounts,
\* routes and deadlines: no invoice that was cut off or paid is sent to again.
THEOREM SessionForgetsInvoices == Spec => [](CutOffInvoiceForgotten /\ PaidInvoiceForgotten)
<1>1. SessionInv => CutOffInvoiceForgotten /\ PaidInvoiceForgotten
  BY DEF SessionInv, InvoiceInv, ActiveCached, NotCutOff, NotPaid, Active,
     CutOffInvoiceForgotten, PaidInvoiceForgotten
<1> QED
  BY <1>1, SessionInvariant, PTL
=============================================================================
