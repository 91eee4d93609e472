--------------------------- MODULE MissionControl ---------------------------
(***************************************************************************)
(* mission_ctl.go: addFailedChan and validateRoute, with getRoutes         *)
(* (routes.go), which asks lnd again until a route passes, the lines of    *)
(* pay (payment.go) that record a failed channel or go on along a rebuilt  *)
(* route, tryRebalance, which pays once more what a probe found, and the   *)
(* line of pickChannelPair (channels.go) that forgets all the failures.    *)
(*                                                                         *)
(* A route is the sequence of its hops: the node that is reached, and the  *)
(* amount that node forwards, which is what arrives there less its fee.    *)
(* What rapid rebalancing pays is left out: it asks for no route in the    *)
(* session any more, and the session ends after it.                        *)
(***************************************************************************)
EXTENDS GoInt, FiniteSets, Sequences, Functions

CONSTANTS
  Me,            \* our own node, r.myPK
  Routes,        \* the routes there are
  MaxRoutes,     \* how many of them lnd returns at a time
  ProbeSteps,    \* params.ProbeSteps
  FailTolerance  \* params.FailTolerance, in ppm

ASSUME MissionControlAssumption ==
  /\ \A r \in Routes :
       /\ DOMAIN r = 1 .. Len(r) /\ Len(r) \in Nat \ {0}
       /\ \A k \in DOMAIN r : r[k].forward \in Nat \ {0}
       /\ \A k \in 2 .. Len(r) : r[k].forward <= r[k - 1].forward  \* fees
  /\ MaxRoutes \in Nat \ {0}
  /\ ProbeSteps \in Nat
  /\ FailTolerance \in Nat

VARIABLES
  mcCache,     \* r.mcCache: the amount a channel failed with
  failedPairs, \* r.failedPairs: what lnd must leave out
  routes,      \* what getRoutes returned and was not paid along yet
  route,       \* the route of the payment
  probeSteps,  \* pay's probeSteps
  pc,
  refused,     \* history: all the pairs that ever failed
  answered,    \* history: the route, as lnd answered the query
  since        \* history: the pairs that failed since the query

payment == <<route, probeSteps, answered>>
vars == <<mcCache, failedPairs, routes, payment, pc, refused, since>>

\* The pair of nodes of the k-th channel, the amount it carries, and what the
\* node it reaches takes of that.
Pair(r, k) == <<IF k = 1 THEN Me ELSE r[k - 1].node, r[k].node>>
Carries(r, k) == r[k - 1].forward
Fee(r, k) == Carries(r, k) - r[k].forward
Pairs == UNION {{Pair(r, k) : k \in DOMAIN r} : r \in Routes}

Init ==
  /\ mcCache = [p \in {} |-> 0]
  /\ failedPairs = {}
  /\ routes = {}
  /\ route = <<>> /\ answered = <<>> /\ probeSteps = 0
  /\ pc = "idle"
  /\ refused = {} /\ since = {}

-----------------------------------------------------------------------------
(* Mutations used to show that the properties can fail.                    *)
MutFailedBefore(r, k) ==
  /\ Pair(r, k) \in DOMAIN mcCache
  /\ mcCache[Pair(r, k)] = r[k].forward
MutIgnored(answer) == failedPairs
MutIgnoredAll(answer) == failedPairs \cup {Pair(r, 1) : r \in answer}
MutIgnoredReversed(answer) == failedPairs \cup {<<r[2].node, r[1].node>> : r \in answer}

-----------------------------------------------------------------------------
\* validateRoute: the channel failed before with about the same amount.
FailedBefore(r, k) ==
  /\ Pair(r, k) \in DOMAIN mcCache
  /\ absoluteDeltaPPM(mcCache[Pair(r, k)], r[k].forward) < FailTolerance
Valid(r) == \A k \in DOMAIN r : ~FailedBefore(r, k)

\* The first such channel.
FirstFailed(r) ==
  CHOOSE k \in DOMAIN r : FailedBefore(r, k) /\ \A j \in 1 .. k - 1 : ~FailedBefore(r, j)

\* The first such channel of every route that does not pass is ignored.
Ignored(answer) ==
  failedPairs \cup {Pair(r, FirstFailed(r)) : r \in {s \in answer : ~Valid(s)}}

\* What lnd can return.
Usable == {r \in Routes : \A k \in DOMAIN r : Pair(r, k) \notin failedPairs}

\* rebuildRoute: along the same nodes, for this amount.
Rebuilt(r, amount) ==
  {s \in Routes : /\ Len(s) = Len(r) /\ s[Len(s)].forward = amount
                  /\ \A k \in DOMAIN s : s[k].node = r[k].node}
Delivers(r) == r[Len(r)].forward

\* tryRebalance wants routes.
Query ==
  /\ pc = "idle"
  /\ routes' = {} /\ since' = {}
  /\ pc' = "query"
  /\ UNCHANGED <<mcCache, failedPairs, payment, refused>>

\* getRoutes, with routes from lnd: those that pass, or another query.
getRoutes(answer) ==
  /\ pc = "query"
  /\ failedPairs' = Ignored(answer)
  /\ routes' = {r \in answer : Valid(r)}
  /\ pc' = IF routes' = {} THEN "query" ELSE "pay"
  /\ UNCHANGED <<mcCache, payment, refused, since>>

\* lnd finds none.
NoRoute ==
  /\ pc = "query" /\ Usable = {}
  /\ pc' = "idle"
  /\ UNCHANGED <<mcCache, failedPairs, routes, payment, refused, since>>

\* The next route is paid along.
Pay(r) ==
  /\ pc = "pay" /\ r \in routes
  /\ route' = r /\ answered' = r /\ probeSteps' = ProbeSteps
  /\ routes' = routes \ {r}
  /\ pc' = "sent"
  /\ UNCHANGED <<mcCache, failedPairs, refused, since>>

\* The payment ends.
Ends ==
  /\ route' = <<>> /\ answered' = <<>> /\ probeSteps' = 0
  /\ pc' = IF routes = {} THEN "idle" ELSE "pay"

\* pay goes on along a rebuilt route, which nothing validates.
PayRebuilt(amount) ==
  /\ route' \in Rebuilt(route, amount)
  /\ UNCHANGED <<answered, pc>>

\* FEE_INSUFFICIENT or INCORRECT_CLTV_EXPIRY: the same amount again.
PayUpdated ==
  /\ pc = "sent"
  /\ PayRebuilt(Delivers(route))
  /\ UNCHANGED <<mcCache, failedPairs, routes, probeSteps, refused, since>>

addFailedChan(pair, amount) ==
  mcCache' = [p \in DOMAIN mcCache \cup {pair} |-> IF p = pair THEN amount ELSE mcCache[p]]

\* The last channel but one is probed, and what the probe found is paid.
PayProbed(k) ==
  /\ probeSteps > 0 /\ k = Len(route) - 1
  /\ \E amount \in 1 .. Delivers(route) : PayRebuilt(amount)
  /\ probeSteps' = 0

\* TEMPORARY_CHANNEL_FAILURE of the k-th channel.
ChannelFails(k) ==
  /\ pc = "sent" /\ k > 1
  /\ addFailedChan(Pair(route, k), Carries(route, k))
  /\ refused' = refused \cup {Pair(route, k)}
  /\ since' = since \cup {Pair(route, k)}
  /\ Ends \/ PayProbed(k)
  /\ UNCHANGED <<failedPairs, routes>>

\* A success, or any other failure.
OtherEnd ==
  /\ pc = "sent"
  /\ Ends
  /\ UNCHANGED <<mcCache, failedPairs, routes, refused, since>>

\* pickChannelPair expires all the failures when no channel pair is left.
Expire ==
  /\ pc = "idle"
  /\ mcCache' = [p \in {} |-> 0]
  /\ UNCHANGED <<failedPairs, routes, payment, pc, refused, since>>

Answers ==
  {answer \in SUBSET Usable : IsFiniteSet(answer) /\ Cardinality(answer) \in 1 .. MaxRoutes}

GetRoutes == NoRoute \/ \E answer \in Answers : getRoutes(answer)
Next ==
  \/ Query \/ GetRoutes \/ PayUpdated \/ OtherEnd \/ Expire
  \/ \E r \in routes : Pay(r)
  \/ \E k \in DOMAIN route : ChannelFails(k)

\* A query ends: lnd answers.
Spec == Init /\ [][Next]_vars /\ WF_vars(GetRoutes)

-----------------------------------------------------------------------------
\* Type invariant of what is remembered about failed channels.
TypeOK ==
  /\ DOMAIN mcCache \subseteq Pairs /\ Range(mcCache) \subseteq Nat
  /\ failedPairs \subseteq Pairs /\ refused \subseteq Pairs /\ since \subseteq refused
  /\ routes \subseteq Routes /\ {route, answered} \subseteq Routes \cup {<<>>}
  /\ probeSteps \in 0 .. ProbeSteps
  /\ pc \in {"idle", "query", "pay", "sent"}

(* README:94, --fail-tolerance: a payment is not sent through a channel that *)
(* failed before with the same amount, up to the tolerance and, because the  *)
(* amount remembered is what the channel carried and the one compared is     *)
(* what its end forwards, up to that node's fee. It was all looked at when   *)
(* lnd answered: what failed since then, on another of its routes or on this *)
(* one before it was rebuilt, is tried again, and so is a channel whose      *)
(* amount a rebuilt route changed.                                           *)
SameAmountCancelled ==
  pc = "sent" =>
    \A k \in 2 .. Len(route) :
      LET p == Pair(route, k) IN
      p \in DOMAIN mcCache \ since /\ route[k].forward = answered[k].forward =>
        (Abs(mcCache[p] - Carries(route, k)) + Fee(route, k)) * 1000000
          >= FailTolerance * mcCache[p]

(* What lnd is told to leave out for the rest of the session did refuse a   *)
(* payment, also after all failures expired and others were recorded.       *)
IgnoredWasRefused == failedPairs \subseteq refused

(* getRoutes calls itself until a route passes; every call that finds none  *)
(* leaves something out, so that this comes to an end.                      *)
QueryEnds == pc = "query" ~> pc # "query"
=============================================================================
