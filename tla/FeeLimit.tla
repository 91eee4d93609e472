------------------------------ MODULE FeeLimit ------------------------------
(***************************************************************************)
(* routes.go: getChanInfo with the cache of channels, and calcFeeMsat with *)
(* its two ways of limiting the fee of a rebalance, from one of our        *)
(* channels to another: a fixed rate, or an economical ratio of what the   *)
(* target earns less what the source would have earned.                    *)
(*                                                                         *)
(* Amounts and fees are in millisatoshi, rates in millionths.  The float   *)
(* arithmetic of the code is exact here; where it converts to int64 it     *)
(* truncates, as here.                                                     *)
(***************************************************************************)
EXTENDS GoInt

CONSTANTS
  Channels,   \* our channels
  Amounts,    \* amounts the limit is asked for
  Policies,   \* [base, rate] of a node for its end of a channel
  Settings    \* [limitPPM, ratio, maxPPM, lostProfit]: params.FeeLimitPPM,
              \* params.EconRatio in tenths, params.EconRatioMaxPPM,
              \* params.LostProfit, after preflightChecks

ASSUME FeeLimitAssumption ==
  /\ Amounts \subseteq Nat \ {0}
  /\ Policies \subseteq [base : Nat, rate : Nat]
  /\ Settings \subseteq [limitPPM : Nat, ratio : Nat, maxPPM : Nat, lostProfit : BOOLEAN]
  /\ \A s \in Settings : s.maxPPM = 0 \/ s.limitPPM = 0

Million == 1000000
Refused == -1   \* "max fee less than zero"

Queries == {q \in [from : Channels, to : Channels, amt : Amounts] : q.from # q.to}

VARIABLES
  params,     \* the setting of the session
  first,      \* the channels of which we are the first node of the graph's edge
  graph,      \* lnd's policies of the two nodes of each channel
  chanCache,  \* r.chanCache
  told        \* history: the limits told in this session

vars == <<params, first, graph, chanCache, told>>

Edges == [1 .. 2 -> Policies]

Init ==
  /\ params \in Settings
  /\ first \in SUBSET Channels
  /\ graph \in [Channels -> Edges]
  /\ chanCache = [c \in {} |-> graph[c]]
  /\ told = [q \in {} |-> Refused]

-----------------------------------------------------------------------------
\* What the code takes for a millionfold fee.
Scaled(policy, amt) == policy.base + amt * policy.rate

-----------------------------------------------------------------------------
(* Mutations used to show that the properties can fail.                    *)
MutgetChanInfo(c) ==
  /\ chanCache' = [x \in DOMAIN chanCache \cup {c} |-> IF x = c THEN graph[c] ELSE chanCache[x]]
  /\ UNCHANGED <<params, first, graph, told>>
MutLostProfit(source, amt) ==
  IF params.lostProfit THEN Quot(Scaled(source, amt) * params.ratio, 10 * Million) ELSE 0
MutCapped(fee, amt) ==
  IF params.maxPPM # 0 /\ Quot(fee, amt) * Million > params.maxPPM
    THEN Quot(params.maxPPM * amt, Million)
    ELSE fee

-----------------------------------------------------------------------------
\* Our policy for an edge of the graph.
Ours(edge, c) == edge[IF c \in first THEN 1 ELSE 2]

\* What the source would have earned.
LostProfit(source, amt) ==
  IF params.lostProfit THEN Quot(Scaled(source, amt), Million) ELSE 0

\* The cap of params.EconRatioMaxPPM.
Capped(fee, amt) ==
  IF params.maxPPM # 0 /\ Quot(fee * Million, amt) > params.maxPPM
    THEN Quot(params.maxPPM * amt, Million)
    ELSE fee

\* A negative limit is an error.
NotNegative(fee) == IF fee < 0 THEN Refused ELSE fee

calcFeeLimitMsat(amt) == Quot(amt * params.limitPPM, Million)

calcEconFeeMsat(source, target, amt) ==
  NotNegative(Capped(Quot(Scaled(target, amt) * params.ratio, 10 * Million)
                       - LostProfit(source, amt), amt))

calcFeeMsat(source, target, amt) ==
  IF params.limitPPM > 0 THEN calcFeeLimitMsat(amt)
                         ELSE calcEconFeeMsat(source, target, amt)

\* The channels whose policies a limit needs.
Needed(q) ==
  IF params.limitPPM = 0 /\ params.lostProfit THEN {q.from, q.to} ELSE {q.to}

\* The limit of a query, from what the cache holds.
Limit(q) ==
  calcFeeMsat(Ours(chanCache[q.from], q.from), Ours(chanCache[q.to], q.to), q.amt)

-----------------------------------------------------------------------------
\* A channel that is not in the cache is asked for, by calcFeeMsat or by
\* another function, and lnd answers.  If it does not, nothing changes.
getChanInfo(c) ==
  /\ c \notin DOMAIN chanCache
  /\ chanCache' = [x \in DOMAIN chanCache \cup {c} |-> IF x = c THEN graph[c] ELSE chanCache[x]]
  /\ UNCHANGED <<params, first, graph, told>>

\* calcFeeMsat has its channels and returns to getRoutes, to probeRoute or to
\* tryRapidRebalance.
TellLimit(q) ==
  /\ Needed(q) \subseteq DOMAIN chanCache
  /\ told' = [x \in DOMAIN told \cup {q} |-> IF x = q THEN Limit(q) ELSE told[x]]
  /\ UNCHANGED <<params, first, graph, chanCache>>

\* We, or our peer, set other fees for a channel.
PolicyUpdate(c) ==
  /\ \E end \in 1 .. 2, p \in Policies : graph' = [graph EXCEPT ![c][end] = p]
  /\ UNCHANGED <<params, first, chanCache, told>>

Next ==
  \/ \E c \in Channels : getChanInfo(c) \/ PolicyUpdate(c)
  \/ \E q \in Queries : TellLimit(q)

Spec == Init /\ [][Next]_vars

-----------------------------------------------------------------------------
\* Type invariant of the cache and the limits told.
TypeOK ==
  /\ params \in Settings /\ first \subseteq Channels
  /\ graph \in [Channels -> Edges]
  /\ DOMAIN chanCache \subseteq Channels
  /\ chanCache \in [DOMAIN chanCache -> Edges]
  /\ DOMAIN told \subseteq Queries
  /\ \A q \in DOMAIN told : told[q] \in Nat \cup {Refused}

(* In a session a limit never changes, though the fees of the channels do: *)
(* the limit that getRoutes found routes for, the one probeRoute compares  *)
(* its rebuilt routes with and the one of a later attempt for the same     *)
(* amount are the same, as payments and probes assume.                     *)
LimitsNeverChange ==
  [][\A q \in DOMAIN told : q \in DOMAIN told' /\ told'[q] = told[q]]_vars

(* A limit stays within the rate it is bounded by, up to the part of a     *)
(* millionth that a truncated comparison lets through.                     *)
WithinRate ==
  \A q \in DOMAIN told :
    /\ params.limitPPM > 0 => told[q] * Million <= params.limitPPM * q.amt
    /\ params.maxPPM > 0 => told[q] * Million < (params.maxPPM + 1) * q.amt

\* A fee in millionths of a millisatoshi, and the share of it that a
\* rebalance may spend.
Fee(policy, amt) == policy.base * Million + amt * policy.rate
Share(policy, amt) == Quot(Fee(policy, amt) * params.ratio, 10)

(* README:97 and 101: with an economical ratio the limit is that share of  *)
(* what the target will earn at the fees first seen, less what the source  *)
(* would have earned. It is no more, but for the last millisatoshi, if     *)
(* the source has no base fee; and it is no less than what the target's    *)
(* rate alone gives, or than the cap, and refused only if that rate leaves *)
(* a loss. The target's base fee, which routes.go:70 divides by a million, *)
(* does not count for this: a rebalance that pays only by that base fee    *)
(* may be refused, or limited as if there were none.                       *)
Economical ==
  \A q \in DOMAIN told :
    params.limitPPM = 0 =>
      LET target == Ours(chanCache[q.to], q.to)
          source == Ours(chanCache[q.from], q.from)
          lost == IF params.lostProfit THEN Fee(source, q.amt) ELSE 0
      IN  /\ \/ params.maxPPM # 0 /\ told[q] = Quot(params.maxPPM * q.amt, Million)
             \/ told[q] * Million > Share([target EXCEPT !.base = 0], q.amt) - lost - Million
          /\ ~params.lostProfit /\ told[q] # Refused =>
               told[q] * Million <= Share(target, q.amt)
          /\ params.lostProfit /\ told[q] # Refused /\ source.base = 0 =>
               told[q] * Million < Share(target, q.amt) - lost + Million

(* README:101: "also consider the source channel fee when looking for      *)
(* profitable routes so that route_fee < target_fee * econ_ratio -         *)
(* source_fee", up to the millisatoshi that truncation may add.            *)
LostProfitDeducted ==
  \A q \in DOMAIN told :
    params.limitPPM = 0 /\ params.lostProfit /\ told[q] # Refused =>
      LET target == Ours(chanCache[q.to], q.to)
          source == Ours(chanCache[q.from], q.from)
      IN  told[q] * Million < Share(target, q.amt) - Fee(source, q.amt) + Million
=============================================================================
