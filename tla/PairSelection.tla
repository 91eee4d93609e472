--------------------------- MODULE PairSelection ---------------------------
(***************************************************************************)
(* channels.go: pickChannelPair and addFailedRoute, the two maps they move *)
(* channel pairs between, and the part of tryRebalance (rebalancer.go)     *)
(* that calls them.                                                        *)
(*                                                                         *)
(* pickChannelPair calls itself until it finds a pair that can carry the   *)
(* amount.  Each of its calls is one action here, taken while pc is        *)
(* "picking".  The balances are read once at start, so the amount a pair   *)
(* can carry is fixed: amountOf is chosen by Init and never changes.       *)
(***************************************************************************)
EXTENDS Integers, Functions

CONSTANTS
  Pairs,      \* keys of the pairs getChannelCandidates selected
  NoPair,     \* no pair is being worked on
  Amounts,    \* the amounts min(maxFrom, maxTo, amount) a pair may have
  MinAmount,  \* params.MinAmount
  Expiry,     \* minutes a failed pair stays in failureCache
  Hops,       \* node pairs mission control may record
  MaxTime     \* bound: the clock stops there

ASSUME PairsAssumption == Pairs # {} /\ NoPair \notin Pairs
ASSUME AmountAssumption == Amounts \subseteq Int /\ MinAmount \in Nat
ASSUME ClockAssumption == Expiry \in Nat /\ MaxTime \in Nat

VARIABLES
  channelPairs,  \* r.channelPairs: the pairs that may be picked
  failureCache,  \* r.failureCache: failed pair -> expiration
  routeFound,    \* r.routeFound
  mcCache,       \* r.mcCache: the node pairs that failed a payment
  amountOf,      \* the amount each pair can carry
  picked,        \* the pair tryRebalance works on
  pc,            \* where tryRebalance is
  now,           \* time.Now()
  failedAt       \* history: when each pair last failed since the last refill

vars == <<channelPairs, failureCache, routeFound, mcCache, amountOf, picked,
          pc, now, failedAt>>

Control == {"idle", "picking", "query", "paying", "stopped"}
Never == -1

Init ==
  /\ channelPairs = Pairs
  /\ failureCache = [p \in {} |-> 0]
  /\ routeFound = FALSE
  /\ mcCache = {}
  /\ amountOf \in [Pairs -> Amounts]
  /\ picked = NoPair
  /\ pc = "idle"
  /\ now = 0
  /\ failedAt = [p \in Pairs |-> Never]

-----------------------------------------------------------------------------
(* Mutations used to show that the properties can fail.                    *)
MutNoDelete(p) ==
  /\ failureCache' = [q \in DOMAIN failureCache \cup {p} |->
                        IF q = p THEN now + Expiry ELSE failureCache[q]]
  /\ failedAt' = [failedAt EXCEPT ![p] = now]
  /\ UNCHANGED channelPairs
  /\ failedAt' = [failedAt EXCEPT ![p] = now]
MutExpiredInclusive == DOMAIN failureCache
MutMayRefill == DOMAIN failureCache # {}
MutMayRefillFlipped == routeFound /\ DOMAIN failureCache = {}

-----------------------------------------------------------------------------
\* The pair cannot carry a usable amount.
Unusable(p) == amountOf[p] < MinAmount \/ amountOf[p] = 0

\* The failed pairs whose expiration is before time.Now().
Expired == {p \in DOMAIN failureCache : failureCache[p] < now}

\* All failed pairs may be tried again: some route was found since last time.
MayRefill == routeFound /\ DOMAIN failureCache # {}

\* addFailedRoute moves a pair from channelPairs to failureCache.
AddFailedRoute(p) ==
  /\ channelPairs' = channelPairs \ {p}
  /\ failureCache' = [q \in DOMAIN failureCache \cup {p} |->
                        IF q = p THEN now + Expiry ELSE failureCache[q]]
  /\ failedAt' = [failedAt EXCEPT ![p] = now]

\* tryRebalance asks for a pair.
Call ==
  /\ pc = "idle"
  /\ pc' = "picking"
  /\ UNCHANGED <<channelPairs, failureCache, routeFound, mcCache, amountOf,
                 picked, now, failedAt>>

\* No pair is left and none may come back: the error "no routes".
NoRoutes ==
  /\ pc = "picking"
  /\ channelPairs = {}
  /\ ~MayRefill
  /\ pc' = "stopped"
  /\ UNCHANGED <<channelPairs, failureCache, routeFound, mcCache, amountOf,
                 picked, now, failedAt>>

\* No pair is left: all failed routes expire and the call goes on.
ExpireAll ==
  /\ pc = "picking"
  /\ channelPairs = {}
  /\ MayRefill
  /\ channelPairs' = DOMAIN failureCache
  /\ failureCache' = [p \in {} |-> 0]
  /\ mcCache' = {}
  /\ routeFound' = FALSE
  /\ failedAt' = [p \in Pairs |-> Never]
  /\ UNCHANGED <<amountOf, picked, pc, now>>

\* The random pair is unusable: it fails and pickChannelPair calls itself.
PickUnusable(p) ==
  /\ pc = "picking"
  /\ p \in channelPairs
  /\ Unusable(p)
  /\ AddFailedRoute(p)
  /\ UNCHANGED <<routeFound, mcCache, amountOf, picked, pc, now>>

\* The random pair is usable: expired failures come back and it is returned.
PickUsable(p) ==
  /\ pc = "picking"
  /\ p \in channelPairs
  /\ ~Unusable(p)
  /\ channelPairs' = channelPairs \cup Expired
  /\ failureCache' = Restrict(failureCache, DOMAIN failureCache \ Expired)
  /\ picked' = p
  /\ pc' = "query"
  /\ UNCHANGED <<routeFound, mcCache, amountOf, now, failedAt>>

\* getRoutes succeeds and the payments along its routes begin.
RouteFound ==
  /\ pc = "query"
  /\ routeFound' = TRUE
  /\ pc' = "paying"
  /\ UNCHANGED <<channelPairs, failureCache, mcCache, amountOf, picked, now,
                 failedAt>>

\* getRoutes fails before its deadline: the pair is failed and retried later.
RouteFailed ==
  /\ pc = "query"
  /\ AddFailedRoute(picked)
  /\ picked' = NoPair
  /\ pc' = "idle"
  /\ UNCHANGED <<routeFound, mcCache, amountOf, now>>

\* The payments fail; mission control records the hops that refused.
PaymentFailed(H) ==
  /\ pc = "paying"
  /\ mcCache' = mcCache \cup H
  /\ picked' = NoPair
  /\ pc' = "idle"
  /\ UNCHANGED <<channelPairs, failureCache, routeFound, amountOf, now,
                 failedAt>>

\* A payment succeeds, or the deadline for finding a route passes.
Stop ==
  /\ pc \in {"query", "paying"}
  /\ pc' = "stopped"
  /\ UNCHANGED <<channelPairs, failureCache, routeFound, mcCache, amountOf,
                 picked, now, failedAt>>

Tick ==
  /\ now < MaxTime
  /\ now' = now + 1
  /\ UNCHANGED <<channelPairs, failureCache, routeFound, mcCache, amountOf,
                 picked, pc, failedAt>>

Pick ==
  \/ NoRoutes
  \/ ExpireAll
  \/ \E p \in Pairs : PickUnusable(p) \/ PickUsable(p)

Next ==
  \/ Call \/ Pick \/ RouteFound \/ RouteFailed \/ Stop \/ Tick
  \/ \E H \in SUBSET Hops : PaymentFailed(H)

\* The process keeps running: a call of pickChannelPair goes on to return.
Spec == Init /\ [][Next]_vars /\ WF_vars(Pick)

-----------------------------------------------------------------------------
\* Type invariant of the selection state of the regolancer struct.
TypeOK ==
  /\ channelPairs \subseteq Pairs
  /\ DOMAIN failureCache \subseteq Pairs
  /\ failureCache \in [DOMAIN failureCache -> 0 .. MaxTime + Expiry]
  /\ routeFound \in BOOLEAN
  /\ mcCache \subseteq Hops
  /\ amountOf \in [Pairs -> Amounts]
  /\ picked \in Pairs \cup {NoPair}
  /\ pc \in Control
  /\ now \in 0 .. MaxTime
  /\ failedAt \in [Pairs -> {Never} \cup 0 .. MaxTime]

(* No pair is ever lost or in both maps, however calls, expirations and    *)
(* refills interleave; so addFailedRoute never stores an absent pair,      *)
(* which would later be picked as a pair of nil channels.                  *)
PairsConserved ==
  /\ channelPairs \cup DOMAIN failureCache = Pairs
  /\ channelPairs \cap DOMAIN failureCache = {}
  /\ pc = "query" => picked \in channelPairs

(* A pair that failed may not be picked again before its expiration,       *)
(* unless all pairs have failed and were all given another chance.         *)
SkipsRecentFailures ==
  \A p \in channelPairs : failedAt[p] # Never => failedAt[p] + Expiry < now

(* A session is told "no routes" only after every pair was tried and has   *)
(* failed since the last refill, with no route found for any of them.      *)
GivesUpOnlyExhausted ==
  pc = "stopped" /\ picked = NoPair =>
    ~routeFound /\ \A p \in Pairs : failedAt[p] # Never

(* pickChannelPair returns: its recursion and its refill do not chase each *)
(* other when no pair is usable.                                           *)
PickReturns == pc = "picking" ~> pc # "picking"

(* The selection implements the abstract pool.                             *)
Pool == INSTANCE PairPool WITH
  failed <- DOMAIN failureCache,
  found <- routeFound,
  chosen <- picked,
  over <- pc = "stopped"
ImplementsPool == Pool!PoolSpec
=============================================================================
