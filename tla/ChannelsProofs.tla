---------------------------- MODULE ChannelsProofs ----------------------------
(***************************************************************************)
(* Proofs about Channels, for all channels, capacities, balances, settings *)
(* of the config file and the command line, and sizes of a channel id.     *)
(* The invariant follows the program: what it was told (ParamsFit), what   *)
(* the resolution of the options leaves (Selected, ExclusionsKept), what   *)
(* the candidates and the pair are (PairFits), and what its amount was     *)
(* computed from (AmountFits, BalancesKnown).                              *)
(***************************************************************************)
EXTENDS Channels, TLAPS

Settled == {"candidates", "pick", "query", "pay", "paid"}
Ready == {"pick", "query", "pay", "paid"}

Types ==
  /\ active \subseteq Chans
  /\ local \in [Chans -> Int]
  /\ DOMAIN known \subseteq Chans /\ \A c \in DOMAIN known : known[c] \in Int
  /\ option \in 1 .. 4
  /\ phase \in {"start", "list", "resolve", "exit"} \cup Settled
  /\ DOMAIN chosen = {"from", "to", "excludeFrom", "excludeTo"}

\* What the program was told, and what it makes of that.
ParamsFit ==
  /\ file \in Files /\ cli \in CommandLines
  /\ phase = "start" => params = Merged(file, cli)
  /\ phase \notin {"start", "exit"} =>
       /\ params = preflightChecks(Merged(file, cli))
       /\ ~OldAndNewLists(Merged(file, cli))

\* The identifiers of an option that are resolved.
Done(j) ==
  {i \in Identifiers(Options[j]) :
     \/ phase \in Settled
     \/ phase = "resolve" /\ (j < option \/ (j = option /\ i \notin left))}

\* The sources and targets are what their options mean; after an attempt of
\* rapid rebalancing the target is one of the same node.
Selected ==
  /\ phase \in {"start", "list"} =>
       option = 1 /\ \A o \in {"from", "to", "excludeFrom", "excludeTo"} : chosen[o] = {}
  /\ phase = "resolve" => left \subseteq Identifiers(Options[option])
  /\ phase \in {"resolve"} \cup Settled =>
       /\ params.from # {} => chosen["from"] \cap Chans \subseteq Named(params.from)
       /\ params.to # {} =>
            \A c \in chosen["to"] \cap Chans : \E d \in Named(params.to) : Peer[d] = Peer[c]
  /\ (phase \in Settled \/ (phase = "resolve" /\ option > 1)) =>
       (params.from # {} => chosen["from"] # {})
  /\ (phase \in Settled \/ (phase = "resolve" /\ option > 2)) =>
       (params.to # {} => chosen["to"] # {})

\* What is excluded as source or target is set aside, but for the channels that
\* were inactive.
ExclusionsKept ==
  \A j \in {3, 4} : \A i \in Done(j) :
    IF i.kind = "node"
      THEN \A c \in Chans : Peer[c] = i.key => c \in chosen[Options[j]] \cup missed
      ELSE IsChannel(i) /\ ChannelOf(i) \in chosen[Options[j]]

\* The candidates are those of the listing and the options, and the pair is one
\* of theirs.
PairFits ==
  /\ phase \in Ready =>
       /\ AllParse
       /\ fromChannels = Sources(known, chosen["from"])
       /\ toChannels = Targets(known, chosen["to"])
  /\ Chosen =>
       /\ from \in fromChannels /\ to \in toChannels /\ Peer[from] # Peer[to]
       /\ amt \in Int
  /\ phase \in {"pay", "paid"} =>
       /\ last \in Chans /\ Peer[last] = Peer[to]
       /\ {Peer[from], Peer[to]} \cap ExcludedNodes = {}

\* The amount is one that the listed balances of the pair allow.
Allowed(listed, f, t, a) ==
  /\ a <= MaxFrom(listed, f) /\ a <= MaxTo(listed, t, f)
  /\ params.relAmountFrom > 0 => a <= Share(f, params.relAmountFrom) - Remote(listed[f], f)
  /\ params.relAmountTo > 0 => a <= Share(t, params.relAmountTo) - listed[t]
AmountFits == phase \in {"query", "pay"} => Allowed(known, from, to, amt)

\* Until a payment succeeds, the listed balances change only by others.
BalancesKnown ==
  phase \in {"resolve", "candidates", "pick", "query", "pay"} /\ ~disturbed =>
    \A c \in DOMAIN known : known[c] = local[c]

ChannelsInv ==
  /\ Types
  /\ ParamsFit
  /\ Selected
  /\ ExclusionsKept
  /\ PairFits
  /\ AmountFits
  /\ BalancesKnown

-----------------------------------------------------------------------------
(* Arithmetic.                                                             *)

\* What is below a hundredth, rounded towards zero, is a hundredth of less.
LEMMA BelowQuot ==
  ASSUME NEW a \in Int, NEW n \in Int, n < Quot(a, 100)
  PROVE  n * 100 < a
BY DEF Quot, Abs

\* A hundredth that is rounded down is at most a hundredth.
LEMMA QuotOfNat ==
  ASSUME NEW a \in Nat
  PROVE  Quot(a, 100) \in Nat /\ Quot(a, 100) * 100 <= a /\ a < Quot(a, 100) * 100 + 100
BY DEF Quot, Abs

LEMMA QuotType ==
  ASSUME NEW a \in Int
  PROVE  Quot(a, 100) \in Int
BY DEF Quot, Abs

LEMMA ProductTypes ==
  ASSUME NEW a \in Int, NEW b \in Int
  PROVE  a * b \in Int /\ (a \in Nat /\ b \in Nat => a * b \in Nat)
OBVIOUS

\* A fraction of the capacity of a channel.
LEMMA ShareTypes ==
  ASSUME NEW c \in Chans, NEW percent \in Int
  PROVE  /\ Capacity[c] \in Nat /\ Capacity[c] * percent \in Int
         /\ Share(c, percent) \in Int
         /\ percent > 0 => Share(c, percent) * 100 <= Capacity[c] * percent
<1>1. Capacity[c] \in Nat
  BY ChannelsAssumption
<1>2. Capacity[c] * percent \in Int /\ (percent > 0 => Capacity[c] * percent \in Nat)
  BY <1>1, ProductTypes
<1>3. Share(c, percent) \in Int
  BY <1>2, QuotType DEF Share
<1>4. percent > 0 => Share(c, percent) * 100 <= Capacity[c] * percent
  BY <1>2, QuotOfNat DEF Share
<1> QED
  BY <1>1, <1>2, <1>3, <1>4

\* The 2% of one channel are enough for the 1% of another that is at most twice
\* as large.
LEMMA TwoPercentEnough ==
  ASSUME NEW f \in Chans, NEW t \in Chans
  PROVE  /\ channelReserve(f) \in Int /\ Reserve(f) \in Int
         /\ Capacity[t] <= 2 * Capacity[f] => Reserve(t) <= channelReserve(f)
<1>1. Capacity[f] \in Nat /\ Capacity[t] \in Nat
  BY ChannelsAssumption
<1>2. channelReserve(f) \in Int /\ Reserve(f) \in Int
  BY ShareTypes DEF channelReserve, Reserve
<1> DEFINE two == Capacity[f] * 2
           one == Capacity[t] * 1
<1>3. two \in Nat /\ one \in Nat
  BY <1>1
<1>4. /\ Quot(two, 100) \in Nat /\ two < Quot(two, 100) * 100 + 100
      /\ Quot(one, 100) \in Nat /\ Quot(one, 100) * 100 <= one
  BY <1>3, QuotOfNat
<1>5. Capacity[t] <= 2 * Capacity[f] => one <= two
  BY <1>1
<1> HIDE DEF two, one
<1>6. one <= two => Quot(one, 100) <= Quot(two, 100)
  BY <1>3, <1>4
<1> QED
  BY <1>2, <1>5, <1>6 DEF channelReserve, Reserve, Share, two, one

\* The age of a channel in blocks, unless it is an alias beyond the chain.
LEMMA AgeInBlocks ==
  ASSUME NEW c \in Chans
  PROVE  /\ getChannelAge(c) \in Int
         /\ getChannelAge(c) <= BlockHeight => BlocksAgo(BlockHeight, c) <= BlockHeight - getChannelAge(c)
         /\ BlocksAgo(BlockHeight, c) \in Int
<1>1. c \in Nat /\ BlockHeight \in Nat
  BY ChannelsAssumption
<1>2. Indexes * Positions \in Nat \ {0}
  <2>1. ASSUME NEW a \in Nat \ {0}, NEW b \in Nat \ {0} PROVE a * b \in Nat \ {0}
    OBVIOUS
  <2> QED
    BY <2>1, ChannelIdAssumption
<1>3. Ids \in Nat \ {0}
  <2>1. ASSUME NEW a \in Nat \ {0}, NEW b \in Nat \ {0} PROVE a * b \in Nat \ {0}
    OBVIOUS
  <2>2. Heights * Indexes \in Nat \ {0}
    BY <2>1, ChannelIdAssumption
  <2> QED
    BY <2>1, <2>2, ChannelIdAssumption DEF Ids
<1>4. getChannelAge(c) \in Int
  <2>1. ASSUME NEW n \in Nat, NEW m \in Nat \ {0} PROVE n \div m \in Int
    OBVIOUS
  <2> QED
    BY <1>1, <1>2, <2>1 DEF getChannelAge
<1>5. ASSUME NEW n \in Int, NEW m \in Nat \ {0} PROVE n % m \in Int /\ (n >= 0 => n % m <= n)
  OBVIOUS
<1> HIDE DEF getChannelAge
<1>6. BlockHeight - getChannelAge(c) \in Int
  BY <1>1, <1>4
<1>7. /\ (BlockHeight - getChannelAge(c)) % Ids \in Int
      /\ BlockHeight - getChannelAge(c) >= 0 =>
           (BlockHeight - getChannelAge(c)) % Ids <= BlockHeight - getChannelAge(c)
  BY <1>3, <1>5, <1>6
<1> QED
  BY <1>1, <1>4, <1>7 DEF BlocksAgo

-----------------------------------------------------------------------------
(* What the program makes of its settings.                                 *)

LEMMA ZeroDomain ==
  DOMAIN Zero =
    {"connect", "macaroonFilename", "network", "fromPerc", "toPerc", "perc", "amount",
     "relAmountTo", "relAmountFrom", "minAmount", "allowRapidRebalance", "failTolerance",
     "excludeChannelsIn", "excludeChannelsOut", "excludeFrom", "excludeTo", "excludeChannels",
     "excludeNodes", "exclude", "excludeChannelAge", "to", "from", "econRatio",
     "econRatioMaxPPM", "feeLimitPPM", "lostProfit", "nodeCacheLifetime", "timeoutRebalance",
     "timeoutAttempt", "timeoutInfo", "timeoutRoute", "version", "info", "help"}
BY DEF Zero

LEMMA DefaultsDomain ==
  /\ DOMAIN Defaults =
       {"connect", "macaroonFilename", "network", "fromPerc", "toPerc", "failTolerance",
        "nodeCacheLifetime", "timeoutAttempt", "timeoutRebalance", "timeoutInfo", "timeoutRoute"}
  /\ Defaults.fromPerc = 50 /\ Defaults.toPerc = 50
BY DEF Defaults

\* The parameters that preflightChecks leaves as they are.
LEMMA PreflightKeeps ==
  ASSUME NEW p, DOMAIN p = DOMAIN Zero,
         NEW f \in DOMAIN Zero,
         f \notin DOMAIN Defaults \/ p[f] # Zero[f],
         f \in {"fromPerc", "toPerc"} => ~ (p.perc > 0),
         f = "econRatio" => p[f] # 0
  PROVE  preflightChecks(p)[f] = p[f]
BY ZeroDomain, DefaultsDomain DEF preflightChecks, WithDefaults

\* The percentages are --perc, or what they were set to, or 50.
LEMMA PreflightPercent ==
  ASSUME NEW p, DOMAIN p = DOMAIN Zero,
         NEW f \in {"fromPerc", "toPerc"}
  PROVE  preflightChecks(p)[f] \in {p.perc, p[f], 50}
BY ZeroDomain, DefaultsDomain DEF preflightChecks, WithDefaults

\* The config file and the command line together.
LEMMA MergedSettings ==
  ASSUME NEW s \in Files, NEW d \in CommandLines
  PROVE  /\ DOMAIN Merged(s, d) = DOMAIN Zero
         /\ \A f \in DOMAIN d : Merged(s, d)[f] = d[f]
         /\ \A f \in Numbers : Merged(s, d)[f] \in Int
<1>1. DOMAIN s \subseteq DOMAIN Zero /\ DOMAIN d \subseteq DOMAIN Zero
  BY SettingsAssumption
<1>2. /\ \A f \in Numbers \cap DOMAIN s : s[f] \in Int
      /\ \A f \in Numbers \cap DOMAIN d : d[f] \in Int
  BY SettingsAssumption
<1>3. Numbers \subseteq DOMAIN Zero /\ \A f \in Numbers : Zero[f] \in Int
  BY ZeroDomain DEF Numbers, Zero
<1> QED
  BY <1>1, <1>2, <1>3 DEF Merged, Over

\* The parameters that the choice of channels depends on, once they are settled.
LEMMA SettledParams ==
  ASSUME ParamsFit, phase \notin {"start", "exit"}
  PROVE  /\ params.fromPerc \in Int /\ params.toPerc \in Int
         /\ params.amount \in Int /\ params.minAmount \in Int
         /\ params.relAmountFrom \in Int /\ params.relAmountTo \in Int
         /\ params.excludeChannelAge \in Int
         /\ params.excludeFrom = {} \/ params.excludeChannelsOut = {}
         /\ params.excludeTo = {} \/ params.excludeChannelsIn = {}
<1> DEFINE p == Merged(file, cli)
<1>1. params = preflightChecks(p) /\ ~OldAndNewLists(p)
  BY DEF ParamsFit
<1>2. DOMAIN p = DOMAIN Zero /\ \A f \in Numbers : p[f] \in Int
  BY MergedSettings DEF ParamsFit
<1> HIDE DEF p
<1>3. \A f \in {"amount", "minAmount", "relAmountFrom", "relAmountTo", "excludeChannelAge",
               "excludeFrom", "excludeTo", "excludeChannelsOut", "excludeChannelsIn"} :
        params[f] = p[f]
  BY <1>1, <1>2, PreflightKeeps, ZeroDomain, DefaultsDomain
<1>4. params.fromPerc \in Int /\ params.toPerc \in Int
  BY <1>1, <1>2, PreflightPercent DEF Numbers
<1>5. /\ params.amount \in Int /\ params.minAmount \in Int
      /\ params.relAmountFrom \in Int /\ params.relAmountTo \in Int
      /\ params.excludeChannelAge \in Int
  BY <1>2, <1>3 DEF Numbers
<1>6. /\ params.excludeFrom = {} \/ params.excludeChannelsOut = {}
      /\ params.excludeTo = {} \/ params.excludeChannelsIn = {}
  BY <1>1, <1>3 DEF OldAndNewLists
<1> QED
  BY <1>4, <1>5, <1>6

-----------------------------------------------------------------------------
(* Amounts.                                                                *)

\* What pickChannelPair computes is allowed by each of its bounds.
LEMMA MaxAmountAllowed ==
  ASSUME ParamsFit, phase \notin {"start", "exit"},
         NEW listed, NEW f \in Chans, NEW t \in Chans, NEW wanted \in Int,
         listed[f] \in Int, listed[t] \in Int
  PROVE  /\ maxAmount(listed, f, t, wanted) \in Int
         /\ Allowed(listed, f, t, maxAmount(listed, f, t, wanted))
<1>1. params.relAmountFrom \in Int /\ params.relAmountTo \in Int
  BY SettledParams
<1>2. /\ Remote(listed[f], f) \in Int /\ Remote(listed[t], t) \in Int
      /\ channelReserve(f) \in Int
      /\ Share(f, params.relAmountFrom) \in Int /\ Share(t, params.relAmountTo) \in Int
  BY <1>1, ShareTypes, TwoPercentEnough DEF Remote
<1>3. MaxFrom(listed, f) \in Int /\ MaxTo(listed, t, f) \in Int
  BY <1>2 DEF MaxFrom, MaxTo
<1> DEFINE mf == MaxFrom(listed, f)
           mt == MaxTo(listed, t, f)
           rf == RelFrom(listed, f, mf)
           rt == RelTo(listed, t, mt)
<1>4. /\ rf \in Int /\ rf <= mf
      /\ params.relAmountFrom > 0 => rf <= Share(f, params.relAmountFrom) - Remote(listed[f], f)
  BY <1>1, <1>2, <1>3 DEF RelFrom, Least
<1>5. /\ rt \in Int /\ rt <= mt
      /\ params.relAmountTo > 0 => rt <= Share(t, params.relAmountTo) - listed[t]
  BY <1>1, <1>2, <1>3 DEF RelTo, Least
<1>6. /\ maxAmount(listed, f, t, wanted) \in Int
      /\ maxAmount(listed, f, t, wanted) <= rf /\ maxAmount(listed, f, t, wanted) <= rt
  <2> HIDE DEF rf, rt
  <2>1. maxAmount(listed, f, t, wanted) =
          IF wanted = 0 THEN Least(rf, rt) ELSE Least(Least(rf, rt), wanted)
    BY DEF maxAmount, rf, rt, mf, mt
  <2> QED
    BY <1>4, <1>5, <2>1 DEF Least
<1> HIDE DEF rf, rt
<1>7. ASSUME NEW x \in Int, x <= rf, x <= rt PROVE Allowed(listed, f, t, x)
  BY <1>1, <1>2, <1>3, <1>4, <1>5, <1>7 DEF Allowed
<1> QED
  BY <1>6, <1>7

\* The candidates are usable channels of the listing, below their percentages
\* and not set aside.
LEMMA CandidatesQualify ==
  ASSUME NEW listed, NEW ids, NEW c
  PROVE  /\ c \in Sources(listed, ids) =>
              /\ c \in DOMAIN listed /\ Usable(c) /\ c \notin chosen["excludeFrom"]
              /\ c \in ids \/ ids = {}
              /\ Remote(listed[c], c) < Quot(Capacity[c] * params.fromPerc, 100)
         /\ c \in Targets(listed, ids) =>
              /\ c \in DOMAIN listed /\ Usable(c) /\ c \notin chosen["excludeTo"]
              /\ c \in ids \/ ids = {}
              /\ listed[c] < Quot(Capacity[c] * params.toPerc, 100)
BY DEF Sources, Targets

\* An identifier of a channel means that channel and no other.
LEMMA ChannelMeant ==
  ASSUME NEW i, NEW c, IsChannel(i)
  PROVE  Means(i, c) <=> ChannelOf(i) = c
BY DEF IsChannel, ChannelOf, Means

LEMMA NodeMeant ==
  ASSUME NEW i, NEW c, i.kind = "node"
  PROVE  Means(i, c) <=> Peer[c] = i.key
BY DEF Means

-----------------------------------------------------------------------------
(* The steps.                                                              *)

LEMMA OptionsAre ==
  /\ Options[1] = "from" /\ Options[2] = "to"
  /\ Options[3] = "excludeFrom" /\ Options[4] = "excludeTo"
BY DEF Options

LEMMA ChannelsInit == Init => ChannelsInv
<1> SUFFICES ASSUME Init PROVE ChannelsInv
  OBVIOUS
<1>1. local \in [Chans -> Int]
  BY ChannelsAssumption DEF Init
<1>2. Types
  BY <1>1 DEF Init, Types, Settled, Options
<1>3. ParamsFit
  BY DEF Init, ParamsFit
<1>4. Selected
  BY DEF Init, Selected, Settled, Options
<1>5. ExclusionsKept
  BY DEF Init, ExclusionsKept, Done, Settled
<1>6. PairFits /\ AmountFits /\ BalancesKnown
  BY DEF Init, PairFits, AmountFits, BalancesKnown, Ready, Chosen
<1> QED
  BY <1>2, <1>3, <1>4, <1>5, <1>6 DEF ChannelsInv

\* Nothing is left to show of a program that ended.
LEMMA ExitKeepsInv ==
  ASSUME ChannelsInv, phase' = "exit",
         UNCHANGED <<config, world, known, resolution>>
  PROVE  ChannelsInv'
<1> USE DEF config, world, resolution
<1>1. Types'
  BY DEF ChannelsInv, Types
<1>2. ParamsFit'
  BY DEF ChannelsInv, ParamsFit
<1>3. Selected'
  BY DEF Selected, Settled
<1>4. ExclusionsKept'
  BY DEF ExclusionsKept, Done, Settled
<1>5. (PairFits /\ AmountFits /\ BalancesKnown)'
  BY DEF PairFits, AmountFits, BalancesKnown, Ready, Chosen
<1> QED
  BY <1>1, <1>2, <1>3, <1>4, <1>5 DEF ChannelsInv

LEMMA PreflightKeepsInv ==
  ASSUME ChannelsInv, Preflight PROVE ChannelsInv'
<1> USE DEF Preflight, world, resolution, candidates, picked, history
<1>1. Types'
  BY DEF ChannelsInv, Types
<1>2. ParamsFit'
  BY DEF ChannelsInv, ParamsFit, Unacceptable
<1>3. Selected'
  BY DEF ChannelsInv, Selected, Settled
<1>4. ExclusionsKept'
  BY DEF ExclusionsKept, Done, Settled
<1>5. (PairFits /\ AmountFits /\ BalancesKnown)'
  BY DEF PairFits, AmountFits, BalancesKnown, Ready, Chosen
<1> QED
  BY <1>1, <1>2, <1>3, <1>4, <1>5 DEF ChannelsInv

\* What the channels and identifiers of an option are depends on little.
LEMMA SameOptions ==
  ASSUME params' = params
  PROVE  /\ \A j : Identifiers(Options[j])' = Identifiers(Options[j])
         /\ \A ids : Named(ids)' = Named(ids)
BY DEF Identifiers, Named, Means

LEMMA SameCandidates ==
  ASSUME params' = params, chosen'["excludeFrom"] = chosen["excludeFrom"],
         chosen'["excludeTo"] = chosen["excludeTo"]
  PROVE  /\ AllParse' <=> AllParse
         /\ ExcludedNodes' = ExcludedNodes
         /\ Sources(known, chosen["from"])' = Sources(known', chosen'["from"])
         /\ Targets(known, chosen["to"])' = Targets(known', chosen'["to"])
<1>1. \A c : Usable(c)' <=> Usable(c)
  BY DEF Usable, OldEnough, ExcludedBoth
<1> QED
  BY <1>1 DEF AllParse, ExcludedNodes, Nodes, Sources, Targets, Remote

LEMMA GetChannelsKeepsInv ==
  ASSUME ChannelsInv, getChannels PROVE ChannelsInv'
<1> USE DEF getChannels, config, world, candidates, picked, history
<1>1. Types'
  BY DEF ChannelsInv, Types, Listing
<1>2. ParamsFit'
  BY DEF ChannelsInv, ParamsFit
<1>3. Selected'
  <2>1. option = 1 /\ left' = Identifiers(Options[1])'
    BY OptionsAre DEF ChannelsInv, Selected, Identifiers
  <2>2. chosen'["from"] = {} /\ chosen'["to"] = {}
    BY DEF ChannelsInv, Selected
  <2> QED
    BY <2>1, <2>2 DEF Selected, Settled
<1>4. ExclusionsKept'
  BY DEF ChannelsInv, Selected, ExclusionsKept, Done, Settled
<1>5. (PairFits /\ AmountFits)'
  BY DEF PairFits, AmountFits, Ready, Chosen
<1>6. BalancesKnown'
  BY DEF BalancesKnown, Listing
<1> QED
  BY <1>1, <1>2, <1>3, <1>4, <1>5, <1>6 DEF ChannelsInv

\* The channels an identifier stands for are those it means.
LEMMA ResolvedMeant ==
  ASSUME Types, NEW i, i.kind # "node" => IsChannel(i)
  PROVE  \A c \in Resolved(i) : Means(i, c) /\ (i.kind = "node" => c \in Chans)
<1>1. CASE i.kind = "node"
  BY <1>1, NodeMeant DEF Resolved, Types
<1>2. CASE i.kind # "node"
  BY <1>2, ChannelMeant DEF Resolved
<1> QED
  BY <1>1, <1>2

LEMMA FilterKeepsInv ==
  ASSUME ChannelsInv, NEW i \in left, filterChannels(i) PROVE ChannelsInv'
<1> DEFINE o == Options[option]
<1>0. /\ phase = "resolve" /\ phase' = "resolve" /\ i \in left /\ left' = left \ {i}
      /\ params' = params /\ option' = option /\ active' = active /\ local' = local
      /\ known' = known /\ disturbed' = disturbed
      /\ UNCHANGED <<file, cli>>
      /\ chosen' = [chosen EXCEPT ![o] = @ \cup Resolved(i)]
      /\ i.kind # "node" => IsChannel(i)
      /\ missed' = missed \cup
           IF o \in {"excludeFrom", "excludeTo"} /\ i.kind = "node"
             THEN {c \in Chans \ active : Peer[c] = i.key}
             ELSE {}
  BY DEF filterChannels, config, world, candidates, picked
<1>1. Types'
  BY <1>0 DEF ChannelsInv, Types
<1>2. ParamsFit'
  BY <1>0 DEF ChannelsInv, ParamsFit
<1>3. /\ option \in 1 .. 4 /\ left \subseteq Identifiers(o)
      /\ DOMAIN chosen = {"from", "to", "excludeFrom", "excludeTo"}
  BY <1>0 DEF ChannelsInv, Types, Selected
<1>4. \A x \in {"from", "to", "excludeFrom", "excludeTo"} :
        chosen'[x] = IF x = o THEN chosen[x] \cup Resolved(i) ELSE chosen[x]
  BY <1>0, <1>3
<1>5. \A c \in Resolved(i) : Means(i, c)
  BY <1>0, ResolvedMeant DEF ChannelsInv
<1>6. Selected'
  <2>1. params.from # {} => chosen'["from"] \cap Chans \subseteq Named(params.from)
    <3>1. params.from # {} => chosen["from"] \cap Chans \subseteq Named(params.from)
      BY <1>0 DEF ChannelsInv, Selected
    <3>2. o = "from" => i \in params.from
      BY <1>0, <1>3 DEF Identifiers
    <3> QED
      BY <3>1, <3>2, <1>4, <1>5 DEF Named
  <2>2. params.to # {} =>
          \A c \in chosen'["to"] \cap Chans : \E d \in Named(params.to) : Peer[d] = Peer[c]
    <3>1. params.to # {} =>
            \A c \in chosen["to"] \cap Chans : \E d \in Named(params.to) : Peer[d] = Peer[c]
      BY <1>0 DEF ChannelsInv, Selected
    <3>2. o = "to" => i \in params.to
      BY <1>0, <1>3 DEF Identifiers
    <3>3. o = "to" => \A c \in Resolved(i) \cap Chans : c \in Named(params.to)
      BY <3>2, <1>5 DEF Named
    <3> QED
      BY <3>1, <3>3, <1>4
  <2>3. /\ option > 1 => (params.from # {} => chosen'["from"] # {})
        /\ option > 2 => (params.to # {} => chosen'["to"] # {})
    BY <1>0, <1>3, <1>4 DEF ChannelsInv, Selected
  <2>4. left' \subseteq Identifiers(Options[option])
    BY <1>0, <1>3
  <2> QED
    BY <1>0, <2>1, <2>2, <2>3, <2>4, SameOptions DEF Selected, Settled
<1>7. ExclusionsKept'
  <2> SUFFICES ASSUME NEW j \in {3, 4}, NEW k \in Done(j)'
               PROVE  IF k.kind = "node"
                        THEN \A c \in Chans :
                               Peer[c] = k.key => c \in chosen'[Options[j]] \cup missed'
                        ELSE IsChannel(k) /\ ChannelOf(k) \in chosen'[Options[j]]
    BY DEF ExclusionsKept
  <2>1. chosen[Options[j]] \subseteq chosen'[Options[j]] /\ missed \subseteq missed'
    BY <1>0, <1>4, OptionsAre
  <2>2. CASE k \in Done(j)
    BY <2>1, <2>2 DEF ChannelsInv, ExclusionsKept
  <2>3. CASE k \notin Done(j)
    <3>1. j = option /\ k = i
      BY <2>3, <1>0, <1>3, SameOptions DEF Done, Settled
    <3>2. Resolved(i) \subseteq chosen'[Options[j]]
      BY <3>1, <1>4, OptionsAre
    <3>3. CASE k.kind = "node"
      <4>1. Resolved(i) = {c \in active : Peer[c] = i.key}
        BY <3>1, <3>3 DEF Resolved
      <4>2. {c \in Chans \ active : Peer[c] = i.key} \subseteq missed'
        BY <3>1, <3>3, <1>0, OptionsAre
      <4> QED
        BY <3>1, <3>2, <3>3, <4>1, <4>2
    <3>4. CASE k.kind # "node"
      BY <3>1, <3>2, <3>4, <1>0 DEF Resolved
    <3> QED
      BY <3>3, <3>4
  <2> QED
    BY <2>2, <2>3
<1>8. (PairFits /\ AmountFits)'
  BY <1>0 DEF PairFits, AmountFits, Ready, Chosen
<1>9. BalancesKnown'
  BY <1>0 DEF ChannelsInv, BalancesKnown
<1> QED
  BY <1>1, <1>2, <1>6, <1>7, <1>8, <1>9 DEF ChannelsInv

LEMMA NextOptionKeepsInv ==
  ASSUME ChannelsInv, NextOption PROVE ChannelsInv'
<1>0. /\ phase = "resolve" /\ left = {} /\ ~NothingSelected(Options[option])
      /\ \/ option = 4 /\ phase' = "candidates" /\ option' = option /\ left' = left
         \/ /\ option # 4 /\ phase' = "resolve" /\ option' = option + 1
            /\ left' = Identifiers(Options[option'])
      /\ params' = params /\ active' = active /\ local' = local /\ known' = known
      /\ chosen' = chosen /\ missed' = missed /\ disturbed' = disturbed
      /\ UNCHANGED <<file, cli>>
  BY DEF NextOption, config, world, candidates, picked, history
<1>1. option \in 1 .. 4
  BY DEF ChannelsInv, Types
<1>2. Types'
  BY <1>0, <1>1 DEF ChannelsInv, Types, Settled
<1>3. ParamsFit'
  BY <1>0 DEF ChannelsInv, ParamsFit
<1>4. Selected'
  <2>1. /\ option = 1 => (params.from # {} => chosen["from"] # {})
        /\ option = 2 => (params.to # {} => chosen["to"] # {})
    BY <1>0, OptionsAre DEF NothingSelected, Identifiers
  <2>2. /\ params.from # {} => chosen["from"] # {}
        /\ option > 1 => (params.to # {} => chosen["to"] # {})
    BY <1>0, <1>1, <2>1 DEF ChannelsInv, Selected
  <2>3. /\ params.from # {} => chosen["from"] \cap Chans \subseteq Named(params.from)
        /\ params.to # {} =>
             \A c \in chosen["to"] \cap Chans : \E d \in Named(params.to) : Peer[d] = Peer[c]
    BY <1>0 DEF ChannelsInv, Selected
  <2> QED
    BY <1>0, <1>1, <2>2, <2>3, SameOptions DEF Selected, Settled
<1>5. ExclusionsKept'
  <2>1. \A j \in {3, 4} : Done(j)' \subseteq Done(j)
    BY <1>0, <1>1, SameOptions DEF Done, Settled
  <2> QED
    BY <1>0, <2>1 DEF ChannelsInv, ExclusionsKept
<1>6. (PairFits /\ AmountFits)'
  BY <1>0 DEF PairFits, AmountFits, Ready, Chosen
<1>7. BalancesKnown'
  BY <1>0 DEF ChannelsInv, BalancesKnown
<1> QED
  BY <1>2, <1>3, <1>4, <1>5, <1>6, <1>7 DEF ChannelsInv

\* Once the options are resolved, their part of the invariant concerns only what
\* was chosen.
LEMMA ResolutionStays ==
  ASSUME ChannelsInv, phase \in Settled, phase' \in Settled,
         params' = params, chosen' = chosen, missed' = missed
  PROVE  Selected' /\ ExclusionsKept'
<1>1. Selected'
  BY SameOptions DEF ChannelsInv, Selected, Settled
<1>2. \A j \in {3, 4} : Done(j)' = Done(j)
  BY SameOptions DEF Done, Settled
<1>3. ExclusionsKept'
  BY <1>2 DEF ChannelsInv, ExclusionsKept
<1> QED
  BY <1>1, <1>3

LEMMA CandidatesKeepInv ==
  ASSUME ChannelsInv, getChannelCandidates, phase' = "pick" PROVE ChannelsInv'
<1>0. /\ phase = "candidates" /\ AllParse
      /\ fromChannels' = Sources(known, chosen["from"])
      /\ toChannels' = Targets(known, chosen["to"])
      /\ params' = params /\ active' = active /\ local' = local /\ known' = known
      /\ option' = option /\ left' = left /\ chosen' = chosen
      /\ missed' = missed /\ disturbed' = disturbed
      /\ UNCHANGED <<file, cli>>
  BY DEF getChannelCandidates, config, world, resolution, picked, history
<1>1. Types'
  BY <1>0 DEF ChannelsInv, Types, Settled
<1>2. ParamsFit'
  BY <1>0 DEF ChannelsInv, ParamsFit
<1>3. Selected' /\ ExclusionsKept'
  BY <1>0, ResolutionStays DEF Settled
<1>4. PairFits'
  BY <1>0, SameCandidates DEF PairFits, Ready, Chosen
<1>5. AmountFits' /\ BalancesKnown'
  BY <1>0 DEF AmountFits, ChannelsInv, BalancesKnown
<1> QED
  BY <1>1, <1>2, <1>3, <1>4, <1>5 DEF ChannelsInv

LEMMA PickKeepsInv ==
  ASSUME ChannelsInv, pickChannelPair PROVE ChannelsInv'
<1>0. /\ phase = "pick" /\ phase' = "query"
      /\ <<from', to'>> \in channelPairs(fromChannels, toChannels)
      /\ amt' = maxAmount(known, from', to', params.amount)
      /\ UNCHANGED <<file, cli, params, active, local, known, option, left, chosen,
                     fromChannels, toChannels, missed, disturbed>>
  BY DEF pickChannelPair, channelPairs, config, world, resolution, candidates, history
<1>1. /\ from' \in fromChannels /\ to' \in toChannels /\ Peer[from'] # Peer[to']
      /\ AllParse
      /\ fromChannels = Sources(known, chosen["from"]) /\ toChannels = Targets(known, chosen["to"])
  BY <1>0 DEF channelPairs, ChannelsInv, PairFits, Ready
<1>2. /\ from' \in DOMAIN known /\ to' \in DOMAIN known
      /\ from' \in Chans /\ to' \in Chans /\ known[from'] \in Int /\ known[to'] \in Int
  BY <1>1, CandidatesQualify DEF ChannelsInv, Types
<1>3. amt' \in Int /\ Allowed(known, from', to', amt')
  BY <1>0, <1>2, SettledParams, MaxAmountAllowed DEF ChannelsInv
<1>4. Types'
  BY <1>0 DEF ChannelsInv, Types, Settled
<1>5. ParamsFit'
  BY <1>0 DEF ChannelsInv, ParamsFit
<1>6. Selected' /\ ExclusionsKept'
  BY <1>0, ResolutionStays DEF Settled
<1>7. PairFits'
  BY <1>0, <1>1, <1>3, SameCandidates DEF PairFits, Ready, Chosen
<1>8. AmountFits'
  BY <1>0, <1>3 DEF AmountFits, Allowed, MaxFrom, MaxTo, Remote, Share, channelReserve
<1>9. BalancesKnown'
  BY <1>0 DEF ChannelsInv, BalancesKnown
<1> QED
  BY <1>4, <1>5, <1>6, <1>7, <1>8, <1>9 DEF ChannelsInv

\* The pair in use, and what it was told to be.
LEMMA PairTold ==
  ASSUME ChannelsInv, Chosen
  PROVE  /\ from \in DOMAIN known /\ to \in DOMAIN known
         /\ from \in Chans /\ to \in Chans
         /\ known[from] \in Int /\ known[to] \in Int
         /\ Usable(from) /\ Usable(to)
         /\ from \notin chosen["excludeFrom"] /\ to \notin chosen["excludeTo"]
         /\ params.from # {} => from \in Named(params.from)
         /\ params.to # {} => \E d \in Named(params.to) : Peer[d] = Peer[to]
         /\ Remote(known[from], from) < Quot(Capacity[from] * params.fromPerc, 100)
         /\ known[to] < Quot(Capacity[to] * params.toPerc, 100)
<1>1. from \in Sources(known, chosen["from"]) /\ to \in Targets(known, chosen["to"])
  BY DEF ChannelsInv, PairFits, Ready, Chosen
<1>2. /\ from \in DOMAIN known /\ Usable(from) /\ from \notin chosen["excludeFrom"]
      /\ from \in chosen["from"] \/ chosen["from"] = {}
      /\ Remote(known[from], from) < Quot(Capacity[from] * params.fromPerc, 100)
      /\ to \in DOMAIN known /\ Usable(to) /\ to \notin chosen["excludeTo"]
      /\ to \in chosen["to"] \/ chosen["to"] = {}
      /\ known[to] < Quot(Capacity[to] * params.toPerc, 100)
  BY <1>1, CandidatesQualify
<1>3. from \in Chans /\ to \in Chans /\ known[from] \in Int /\ known[to] \in Int
  BY <1>2 DEF ChannelsInv, Types
<1>4. phase \in Settled
  BY DEF Chosen, Settled
<1>5. /\ params.from # {} => from \in Named(params.from)
      /\ params.to # {} => \E d \in Named(params.to) : Peer[d] = Peer[to]
  BY <1>2, <1>3, <1>4 DEF ChannelsInv, Selected
<1> QED
  BY <1>2, <1>3, <1>5

\* The steps from one phase of the session to another that change neither what
\* is known nor the pair.
LEMMA RoutesKeepInv ==
  ASSUME ChannelsInv, getRoutes PROVE ChannelsInv'
<1>0. /\ phase = "query" /\ phase' = "pay"
      /\ {Peer[from], Peer[to]} \cap ExcludedNodes = {}
      /\ last' \in active /\ Peer[last'] = Peer[to]
      /\ UNCHANGED <<file, cli, params, active, local, known, option, left, chosen,
                     fromChannels, toChannels, from, to, amt, missed, disturbed>>
  BY DEF getRoutes, Returns, config, world, resolution, candidates, history
<1>1. Types'
  BY <1>0 DEF ChannelsInv, Types, Settled
<1>2. ParamsFit'
  BY <1>0 DEF ChannelsInv, ParamsFit
<1>3. Selected' /\ ExclusionsKept'
  BY <1>0, ResolutionStays DEF Settled
<1>4. PairFits'
  <2>1. last' \in Chans
    BY <1>0 DEF ChannelsInv, Types
  <2> QED
    BY <1>0, <2>1, SameCandidates DEF ChannelsInv, PairFits, Ready, Chosen
<1>5. AmountFits'
  BY <1>0 DEF ChannelsInv, AmountFits, Allowed, MaxFrom, MaxTo, Remote, Share, channelReserve
<1>6. BalancesKnown'
  BY <1>0 DEF ChannelsInv, BalancesKnown
<1> QED
  BY <1>1, <1>2, <1>3, <1>4, <1>5, <1>6 DEF ChannelsInv

LEMMA FailureKeepsInv ==
  ASSUME ChannelsInv, NoRoute \/ PayFails PROVE ChannelsInv'
<1>0. /\ \/ phase = "query" /\ phase' = "pick"
         \/ phase = "pay" /\ phase' \in {"pick", "paid"}
      /\ UNCHANGED <<file, cli, params, active, local, known, option, left, chosen,
                     fromChannels, toChannels, from, to, amt, last, missed, disturbed>>
  BY DEF NoRoute, PayFails, config, world, resolution, candidates, picked, history
<1>1. Types'
  BY <1>0 DEF ChannelsInv, Types, Settled
<1>2. ParamsFit'
  BY <1>0 DEF ChannelsInv, ParamsFit
<1>3. Selected' /\ ExclusionsKept'
  BY <1>0, ResolutionStays DEF Settled
<1>4. PairFits'
  BY <1>0, SameCandidates DEF ChannelsInv, PairFits, Ready, Chosen
<1>5. AmountFits' /\ BalancesKnown'
  BY <1>0 DEF ChannelsInv, AmountFits, BalancesKnown
<1> QED
  BY <1>1, <1>2, <1>3, <1>4, <1>5 DEF ChannelsInv

LEMMA PaidKeepsInv ==
  ASSUME ChannelsInv, PaySucceeds PROVE ChannelsInv'
<1> PICK back \in Returns(last), fee \in Fees :
           local' = [local EXCEPT ![from] = @ - amt - fee, ![back] = @ + amt]
  BY DEF PaySucceeds
<1>0. /\ phase = "pay" /\ phase' = "paid"
      /\ UNCHANGED <<file, cli, params, active, known, option, left, chosen,
                     fromChannels, toChannels, from, to, amt, last, missed, disturbed>>
  BY DEF PaySucceeds, config, resolution, candidates, picked
<1>1. Types'
  <2>1. from \in Chans /\ back \in Chans /\ amt \in Int /\ fee \in Int
    BY <1>0, PairTold, ChannelsAssumption DEF ChannelsInv, Types, PairFits, Chosen, Returns
  <2>2. local' \in [Chans -> Int]
    BY <2>1 DEF ChannelsInv, Types
  <2> QED
    BY <1>0, <2>2 DEF ChannelsInv, Types, Settled
<1>2. ParamsFit'
  BY <1>0 DEF ChannelsInv, ParamsFit
<1>3. Selected' /\ ExclusionsKept'
  BY <1>0, ResolutionStays DEF Settled
<1>4. PairFits'
  BY <1>0, SameCandidates DEF ChannelsInv, PairFits, Ready, Chosen
<1>5. AmountFits' /\ BalancesKnown'
  BY <1>0 DEF AmountFits, BalancesKnown
<1> QED
  BY <1>1, <1>2, <1>3, <1>4, <1>5 DEF ChannelsInv

\* An attempt of rapid rebalancing has a pair that qualifies by the new listing.
LEMMA RapidKeepsInv ==
  ASSUME ChannelsInv, NEW wanted \in Asked, RapidAttempt(wanted) PROVE ChannelsInv'
<1> DEFINE target == RapidTarget
           listed == Listing({c \in Chans : Peer[c] \in {Peer[from], Peer[target]}})
           picks == maxAmount(listed, from, target, wanted)
<1>0. /\ phase = "paid"
      /\ channelPairs(Sources(listed, {from}), Targets(listed, {target})) # {}
      /\ known' = listed /\ disturbed' = FALSE
      /\ chosen' = [chosen EXCEPT !["from"] = {from}, !["to"] = {target}]
      /\ fromChannels' = Sources(listed, {from}) /\ toChannels' = Targets(listed, {target})
      /\ to' = target /\ from' = from
      /\ \/ amt' = amt /\ last' = last /\ phase' = "paid"
         \/ amt' = picks /\ last' \in Returns(target) /\ phase' = "pay"
      /\ UNCHANGED <<file, cli, params, active, local, option, left, missed>>
  BY DEF RapidAttempt, config, world
<1>1. Chosen /\ last \in Chans /\ Peer[last] = Peer[to] /\ to \in Chans
      /\ Peer[from] # Peer[to] /\ amt \in Int /\ AllParse
      /\ {Peer[from], Peer[to]} \cap ExcludedNodes = {}
  BY <1>0, PairTold DEF ChannelsInv, PairFits, Chosen, Ready
<1>t. target \in Chans /\ Peer[target] = Peer[to]
  BY <1>1 DEF RapidTarget
<1>2. /\ DOMAIN listed \subseteq Chans
      /\ \A c \in DOMAIN listed : listed[c] = local[c] /\ listed[c] \in Int
  BY DEF Listing, ChannelsInv, Types
<1>3. from \in Sources(listed, {from}) /\ target \in Targets(listed, {target})
  <2>1. PICK f \in Sources(listed, {from}), t \in Targets(listed, {target}) : TRUE
    BY <1>0 DEF channelPairs
  <2>2. f = from /\ t = target
    BY <2>1, CandidatesQualify
  <2> QED
    BY <2>1, <2>2
<1>4. from \in DOMAIN listed /\ target \in DOMAIN listed
  BY <1>3, CandidatesQualify
<1>5. picks \in Int /\ Allowed(listed, from, target, picks)
  <2>1. wanted \in Int /\ from \in Chans /\ target \in Chans
        /\ listed[from] \in Int /\ listed[target] \in Int
    BY <1>2, <1>4, ChannelsAssumption
  <2> HIDE DEF listed
  <2> QED
    BY <2>1, <1>0, MaxAmountAllowed DEF ChannelsInv
<1> HIDE DEF picks, listed, target
<1>6. /\ DOMAIN chosen' = {"from", "to", "excludeFrom", "excludeTo"}
      /\ chosen'["from"] = {from} /\ chosen'["to"] = {target}
      /\ chosen'["excludeFrom"] = chosen["excludeFrom"]
      /\ chosen'["excludeTo"] = chosen["excludeTo"]
  BY <1>0 DEF ChannelsInv, Types
<1>7. Types'
  BY <1>0, <1>2, <1>6 DEF ChannelsInv, Types, Settled
<1>8. ParamsFit'
  BY <1>0 DEF ChannelsInv, ParamsFit
<1>9. Selected'
  <2>1. /\ params.from # {} => from \in Named(params.from)
        /\ params.to # {} => \E d \in Named(params.to) : Peer[d] = Peer[target]
    BY <1>1, <1>t, PairTold
  <2> QED
    BY <1>0, <1>6, <2>1, SameOptions DEF Selected, Settled
<1>10. ExclusionsKept'
  <2>1. \A j \in {3, 4} : Done(j)' = Done(j) /\ chosen'[Options[j]] = chosen[Options[j]]
    BY <1>0, <1>6, SameOptions, OptionsAre DEF Done, Settled
  <2> QED
    BY <1>0, <2>1 DEF ChannelsInv, ExclusionsKept
<1>11. PairFits'
  <2>1. /\ fromChannels' = Sources(known', chosen'["from"])
        /\ toChannels' = Targets(known', chosen'["to"])
    BY <1>0, <1>6
  <2>2. fromChannels' = Sources(known, chosen["from"])' /\ toChannels' = Targets(known, chosen["to"])'
        /\ AllParse' /\ ExcludedNodes' = ExcludedNodes
    BY <1>0, <1>1, <1>6, <2>1, SameCandidates
  <2>3. from' \in fromChannels' /\ to' \in toChannels' /\ Peer[from'] # Peer[to'] /\ amt' \in Int
    BY <1>0, <1>1, <1>t, <1>3, <1>5
  <2>4. last' \in Chans /\ Peer[last'] = Peer[to'] /\ {Peer[from'], Peer[to']} \cap ExcludedNodes = {}
    BY <1>0, <1>1, <1>t DEF Returns, ChannelsInv, Types
  <2> QED
    BY <1>0, <2>2, <2>3, <2>4 DEF PairFits
<1>12. AmountFits'
  BY <1>0, <1>5 DEF AmountFits, Allowed, MaxFrom, MaxTo, Remote, Share, channelReserve
<1>13. BalancesKnown'
  BY <1>0, <1>2 DEF BalancesKnown
<1> QED
  BY <1>7, <1>8, <1>9, <1>10, <1>11, <1>12, <1>13 DEF ChannelsInv

\* Nodes come and go, and others use our channels.
LEMMA WorldKeepsInv ==
  ASSUME ChannelsInv, NEW c \in Chans, Flap(c) \/ Traffic(c) PROVE ChannelsInv'
<1>0. UNCHANGED <<file, cli, params, phase, known, option, left, chosen,
                  fromChannels, toChannels, from, to, amt, last, missed>>
  <2>1. CASE Flap(c)
    BY <2>1 DEF Flap, config, resolution, candidates, picked, history
  <2>2. CASE Traffic(c)
    BY <2>2 DEF Traffic, config, resolution, candidates, picked
  <2> QED
    BY <2>1, <2>2
<1>1. active' \subseteq Chans /\ local' \in [Chans -> Int]
  <2>1. active \subseteq Chans /\ local \in [Chans -> Int]
    BY DEF ChannelsInv, Types
  <2>2. CASE Flap(c)
    BY <2>1, <2>2 DEF Flap
  <2>3. CASE Traffic(c)
    <3>1. PICK balance \in LocalBalances[c] : local' = [local EXCEPT ![c] = balance]
      BY <2>3 DEF Traffic
    <3>2. balance \in Int
      BY ChannelsAssumption
    <3> QED
      BY <2>1, <2>3, <3>1, <3>2 DEF Traffic
  <2> QED
    BY <2>2, <2>3
<1>2. Types'
  BY <1>0, <1>1 DEF ChannelsInv, Types
<1>3. ParamsFit'
  BY <1>0 DEF ChannelsInv, ParamsFit
<1>4. Selected'
  BY <1>0, SameOptions DEF ChannelsInv, Selected
<1>5. ExclusionsKept'
  <2>1. \A j \in {3, 4} : Done(j)' = Done(j)
    BY <1>0, SameOptions DEF Done
  <2> QED
    BY <1>0, <2>1 DEF ChannelsInv, ExclusionsKept
<1>6. PairFits'
  BY <1>0, SameCandidates DEF ChannelsInv, PairFits, Chosen
<1>7. AmountFits'
  BY <1>0 DEF ChannelsInv, AmountFits, Allowed, MaxFrom, MaxTo, Remote, Share, channelReserve
<1>8. BalancesKnown'
  BY <1>0 DEF ChannelsInv, BalancesKnown, Flap, Traffic, history
<1> QED
  BY <1>2, <1>3, <1>4, <1>5, <1>6, <1>7, <1>8 DEF ChannelsInv

LEMMA ChannelsStutter ==
  ASSUME ChannelsInv, UNCHANGED vars PROVE ChannelsInv'
<1>0. UNCHANGED <<file, cli, params, phase, active, local, known, option, left, chosen,
                  fromChannels, toChannels, from, to, amt, last, missed, disturbed>>
  BY DEF vars, config, world, resolution, candidates, picked, history
<1>1. (Types /\ ParamsFit)'
  BY <1>0 DEF ChannelsInv, Types, ParamsFit
<1>2. Selected'
  BY <1>0, SameOptions DEF ChannelsInv, Selected
<1>3. ExclusionsKept'
  <2>1. \A j \in {3, 4} : Done(j)' = Done(j)
    BY <1>0, SameOptions DEF Done
  <2> QED
    BY <1>0, <2>1 DEF ChannelsInv, ExclusionsKept
<1>4. PairFits'
  BY <1>0, SameCandidates DEF ChannelsInv, PairFits, Chosen
<1>5. (AmountFits /\ BalancesKnown)'
  BY <1>0 DEF ChannelsInv, AmountFits, Allowed, MaxFrom, MaxTo, Remote, Share, channelReserve,
              BalancesKnown
<1> QED
  BY <1>1, <1>2, <1>3, <1>4, <1>5 DEF ChannelsInv

LEMMA ChannelsStep == ChannelsInv /\ [Next]_vars => ChannelsInv'
<1> SUFFICES ASSUME ChannelsInv, [Next]_vars PROVE ChannelsInv'
  OBVIOUS
<1>1. CASE EndAtOnce \/ Fatal \/ EndSession
  BY <1>1, ExitKeepsInv DEF EndAtOnce, Fatal, EndSession, Exit
<1>2. CASE Preflight
  BY <1>2, PreflightKeepsInv
<1>3. CASE getChannels
  BY <1>3, GetChannelsKeepsInv
<1>4. CASE \E i \in left : filterChannels(i)
  BY <1>4, FilterKeepsInv
<1>5. CASE NextOption
  BY <1>5, NextOptionKeepsInv
<1>6. CASE getChannelCandidates
  <2>1. CASE params.info
    BY <1>6, <2>1, ExitKeepsInv DEF getChannelCandidates, Exit
  <2>2. CASE ~params.info
    BY <1>6, <2>2, CandidatesKeepInv DEF getChannelCandidates
  <2> QED
    BY <2>1, <2>2
<1>7. CASE pickChannelPair
  BY <1>7, PickKeepsInv
<1>8. CASE getRoutes
  BY <1>8, RoutesKeepInv
<1>9. CASE NoRoute \/ PayFails
  BY <1>9, FailureKeepsInv
<1>10. CASE PaySucceeds
  BY <1>10, PaidKeepsInv
<1>11. CASE \E wanted \in Asked : RapidAttempt(wanted)
  BY <1>11, RapidKeepsInv
<1>12. CASE \E c \in Chans : Flap(c) \/ Traffic(c)
  BY <1>12, WorldKeepsInv
<1>13. CASE UNCHANGED vars
  BY <1>13, ChannelsStutter
<1> QED
  BY <1>1, <1>2, <1>3, <1>4, <1>5, <1>6, <1>7, <1>8, <1>9, <1>10, <1>11, <1>12, <1>13
     DEF Next, main

-----------------------------------------------------------------------------
(* What the program promises its user.                                     *)

\* The settings, the resolution of the options, the candidates, the pair and its
\* amount fit together in every state of a session.
THEOREM ChannelsInvariant == Spec => []ChannelsInv
<1> QED
  BY ChannelsInit, ChannelsStep, PTL DEF Spec

\* README.md:86-93: a session uses only channels and nodes it was told to use, and
\* none it was told to leave alone.
THEOREM ChannelsOnlyAsTold == Spec => []OnlyAsTold
<1>1. ChannelsInv => OnlyAsTold
  <2> SUFFICES ASSUME ChannelsInv, Chosen PROVE OnlyAsTold
    BY DEF OnlyAsTold
  <2> DEFINE outs == params.excludeFrom \cup params.excludeChannelsOut
             ins == params.excludeTo \cup params.excludeChannelsIn
  <2>1. /\ from \in Chans /\ to \in Chans /\ Usable(from) /\ Usable(to)
        /\ from \notin chosen["excludeFrom"] /\ to \notin chosen["excludeTo"]
        /\ params.from # {} => from \in Named(params.from)
        /\ params.to # {} => \E d \in Named(params.to) : Peer[d] = Peer[to]
    BY PairTold
  <2>2. phase \in Settled /\ AllParse /\ Peer[from] # Peer[to] /\ phase \notin {"start", "exit"}
    BY DEF ChannelsInv, PairFits, Chosen, Settled, Ready
  <2>3. Done(3) = outs /\ Done(4) = ins
    <3>1. /\ params.excludeFrom = {} \/ params.excludeChannelsOut = {}
          /\ params.excludeTo = {} \/ params.excludeChannelsIn = {}
      BY <2>2, SettledParams DEF ChannelsInv
    <3>2. Identifiers(Options[3]) = outs /\ Identifiers(Options[4]) = ins
      BY <3>1, OptionsAre DEF Identifiers
    <3> QED
      BY <2>2, <3>2 DEF Done
  <2> HIDE DEF outs, ins
  <2>4. /\ \A i \in outs :
             IF i.kind = "node"
               THEN \A c \in Chans : Peer[c] = i.key => c \in chosen["excludeFrom"] \cup missed
               ELSE IsChannel(i) /\ ChannelOf(i) \in chosen["excludeFrom"]
        /\ \A i \in ins :
             IF i.kind = "node"
               THEN \A c \in Chans : Peer[c] = i.key => c \in chosen["excludeTo"] \cup missed
               ELSE IsChannel(i) /\ ChannelOf(i) \in chosen["excludeTo"]
    BY <2>3, OptionsAre DEF ChannelsInv, ExclusionsKept
  <2>5. from \notin Named(outs \ Nodes(outs)) /\ to \notin Named(ins \ Nodes(ins))
    BY <2>1, <2>4, ChannelMeant DEF Named, Nodes
  <2>6. /\ from \in Named(Nodes(outs)) => from \in missed
        /\ to \in Named(Nodes(ins)) => to \in missed
    BY <2>1, <2>4, NodeMeant DEF Named, Nodes
  <2>7. {from, to} \cap
          Named((params.exclude \cup params.excludeChannels) \ Nodes(params.exclude)) = {}
    <3> SUFFICES ASSUME NEW c \in {from, to}, NEW i \in params.exclude \cup params.excludeChannels,
                        i \notin Nodes(params.exclude), Means(i, c)
                 PROVE  FALSE
      BY DEF Named
    <3>1. IsChannel(i)
      BY <2>2 DEF AllParse, Nodes
    <3>2. ChannelOf(i) = c /\ c \notin ExcludedBoth
      BY <2>1, <3>1, ChannelMeant DEF Usable
    <3> QED
      BY <3>1, <3>2 DEF ExcludedBoth
  <2>8. phase = "pay" =>
          {from, last} \cap Named(Nodes(params.exclude) \cup params.excludeNodes) = {}
    <3> SUFFICES ASSUME phase = "pay", NEW c \in {from, last},
                        NEW i \in Nodes(params.exclude) \cup params.excludeNodes, Means(i, c)
                 PROVE  FALSE
      BY DEF Named
    <3>1. {Peer[from], Peer[last]} \cap ExcludedNodes = {}
      BY DEF ChannelsInv, PairFits
    <3>2. i.kind = "node"
      BY <2>2 DEF AllParse, Nodes
    <3>3. Peer[c] = i.key /\ i.key \in ExcludedNodes
      BY <3>2, NodeMeant DEF ExcludedNodes
    <3> QED
      BY <3>1, <3>3
  <2>9. \A c \in {from, to} :
          \/ params.excludeChannelAge = 0
          \/ BlockHeight - getChannelAge(c) >= params.excludeChannelAge
          \/ getChannelAge(c) > BlockHeight
    <3> SUFFICES ASSUME NEW c \in {from, to}, params.excludeChannelAge # 0,
                        ~(getChannelAge(c) > BlockHeight)
                 PROVE  BlockHeight - getChannelAge(c) >= params.excludeChannelAge
      OBVIOUS
    <3>1. BlocksAgo(BlockHeight, c) >= params.excludeChannelAge
      BY <2>1 DEF Usable, OldEnough
    <3>2. params.excludeChannelAge \in Int /\ BlockHeight \in Nat
      BY <2>2, SettledParams, ChannelsAssumption DEF ChannelsInv
    <3>3. c \in Chans
      BY <2>1
    <3> QED
      BY <3>1, <3>2, AgeInBlocks, <3>3
  <2> QED
    BY <2>1, <2>2, <2>5, <2>6, <2>7, <2>8, <2>9 DEF OnlyAsTold, outs, ins
<1> QED
  BY <1>1, ChannelsInvariant, PTL

\* The balances that the amount of a payment was computed from are those of this
\* moment.
LEMMA CurrentBalances ==
  ASSUME ChannelsInv, Current
  PROVE  /\ phase = "pay" /\ from \in Chans /\ to \in Chans /\ amt \in Int
         /\ local[from] = known[from] /\ local[to] = known[to]
         /\ local[from] \in Int /\ local[to] \in Int
         /\ Allowed(known, from, to, amt)
<1>1. phase = "pay" /\ Chosen /\ ~disturbed
  BY DEF Current, Chosen
<1>2. /\ from \in DOMAIN known /\ to \in DOMAIN known /\ from \in Chans /\ to \in Chans
      /\ known[from] \in Int /\ known[to] \in Int
  BY <1>1, PairTold
<1> QED
  BY <1>1, <1>2 DEF ChannelsInv, BalancesKnown, AmountFits, PairFits

\* README.md:73-74 and the description of --allow-rapid-rebalance: a payment always
\* finds too little liquidity on the far side of its source and on the near side
\* of its target, whatever was paid before.
THEOREM ChannelsCriteriaHold == Spec => []CriteriaHold
<1>1. ChannelsInv => CriteriaHold
  <2> SUFFICES ASSUME ChannelsInv, Current PROVE CriteriaHold
    BY DEF CriteriaHold
  <2>1. /\ phase = "pay" /\ from \in Chans /\ to \in Chans
        /\ local[from] = known[from] /\ local[to] = known[to]
        /\ local[from] \in Int /\ local[to] \in Int
    BY CurrentBalances
  <2>2. params.fromPerc \in Int /\ params.toPerc \in Int
    BY <2>1, SettledParams DEF ChannelsInv
  <2>3. /\ Remote(local[from], from) \in Int
        /\ Capacity[from] * params.fromPerc \in Int /\ Capacity[to] * params.toPerc \in Int
    BY <2>1, <2>2, ShareTypes DEF Remote
  <2>4. /\ Remote(local[from], from) < Quot(Capacity[from] * params.fromPerc, 100)
        /\ local[to] < Quot(Capacity[to] * params.toPerc, 100)
    BY <2>1, PairTold DEF Chosen
  <2> QED
    BY <2>1, <2>3, <2>4, BelowQuot DEF CriteriaHold
<1> QED
  BY <1>1, ChannelsInvariant, PTL

\* CHANGELOG:27: no payment is tried that the reserves of its two channels do not
\* allow, unless the target has more than twice the capacity of the source.
THEOREM ChannelsReservesAllow == Spec => []ReservesAllow
<1>1. ChannelsInv => ReservesAllow
  <2> SUFFICES ASSUME ChannelsInv, Current PROVE ReservesAllow
    BY DEF ReservesAllow
  <2>1. /\ from \in Chans /\ to \in Chans /\ amt \in Int
        /\ local[from] = known[from] /\ local[to] = known[to]
        /\ local[from] \in Int /\ local[to] \in Int
        /\ amt <= MaxFrom(known, from) /\ amt <= MaxTo(known, to, from)
    BY CurrentBalances DEF Allowed
  <2>2. /\ channelReserve(from) \in Int /\ Reserve(from) \in Int /\ Reserve(to) \in Int
        /\ Capacity[to] <= 2 * Capacity[from] => Reserve(to) <= channelReserve(from)
    BY <2>1, TwoPercentEnough
  <2>3. Remote(local[to], to) \in Int
    BY <2>1, ChannelsAssumption DEF Remote
  <2> QED
    BY <2>1, <2>2, <2>3 DEF ReservesAllow, MaxFrom, MaxTo
<1> QED
  BY <1>1, ChannelsInvariant, PTL

\* README:79-80: a payment keeps the fractions of the capacities that the relative
\* amounts give.
THEOREM ChannelsRelativeAmountsKept == Spec => []RelativeAmountsKept
<1>1. ChannelsInv => RelativeAmountsKept
  <2> SUFFICES ASSUME ChannelsInv, Current PROVE RelativeAmountsKept
    BY DEF RelativeAmountsKept
  <2>1. /\ phase = "pay" /\ from \in Chans /\ to \in Chans /\ amt \in Int
        /\ local[from] = known[from] /\ local[to] = known[to]
        /\ local[from] \in Int /\ local[to] \in Int
        /\ params.relAmountFrom > 0 =>
             amt <= Share(from, params.relAmountFrom) - Remote(known[from], from)
        /\ params.relAmountTo > 0 => amt <= Share(to, params.relAmountTo) - known[to]
    BY CurrentBalances DEF Allowed
  <2>2. params.relAmountFrom \in Int /\ params.relAmountTo \in Int
    BY <2>1, SettledParams DEF ChannelsInv
  <2>3. Remote(local[from], from) \in Int
    BY <2>1, ChannelsAssumption DEF Remote
  <2>4. ASSUME NEW x \in Int, NEW y \in Int, NEW s \in Int, NEW b \in Int,
               x <= s - y, s * 100 <= b
        PROVE  (y + x) * 100 <= b
    BY <2>4
  <2>5. ASSUME params.relAmountTo > 0
        PROVE  (local[to] + amt) * 100 <= Capacity[to] * params.relAmountTo
    <3>1. /\ Share(to, params.relAmountTo) \in Int /\ Capacity[to] * params.relAmountTo \in Int
          /\ Share(to, params.relAmountTo) * 100 <= Capacity[to] * params.relAmountTo
      BY <2>1, <2>2, <2>5, ShareTypes
    <3> QED
      BY <2>1, <2>4, <2>5, <3>1
  <2>6. ASSUME params.relAmountFrom > 0
        PROVE  (Remote(local[from], from) + amt) * 100 <= Capacity[from] * params.relAmountFrom
    <3>1. /\ Share(from, params.relAmountFrom) \in Int
          /\ Capacity[from] * params.relAmountFrom \in Int
          /\ Share(from, params.relAmountFrom) * 100 <= Capacity[from] * params.relAmountFrom
      BY <2>1, <2>2, <2>6, ShareTypes
    <3> QED
      BY <2>1, <2>3, <2>4, <2>6, <3>1
  <2> QED
    BY <2>5, <2>6 DEF RelativeAmountsKept
<1> QED
  BY <1>1, ChannelsInvariant, PTL

\* README:123: what the command line sets is in force from the start of a session to
\* its end, but for the two percentages where --perc is set anywhere.
THEOREM ChannelsCommandLineWins == Spec => []CommandLineWins
<1>1. ChannelsInv => CommandLineWins
  <2> SUFFICES ASSUME ChannelsInv, phase \notin {"start", "exit"},
                      NEW f \in DOMAIN cli, cli[f] # Zero[f],
                      ~(f \in {"fromPerc", "toPerc"} /\ params.perc > 0)
               PROVE  params[f] = cli[f]
    BY DEF CommandLineWins
  <2> DEFINE p == Merged(file, cli)
  <2>1. params = preflightChecks(p) /\ file \in Files /\ cli \in CommandLines
    BY DEF ChannelsInv, ParamsFit
  <2>2. DOMAIN p = DOMAIN Zero /\ p[f] = cli[f] /\ f \in DOMAIN Zero
    BY <2>1, MergedSettings, SettingsAssumption
  <2> HIDE DEF p
  <2>3. params.perc = p.perc
    BY <2>1, <2>2, PreflightKeeps, ZeroDomain, DefaultsDomain
  <2>4. f = "econRatio" => p[f] # 0
    BY <2>2 DEF Zero
  <2> QED
    BY <2>1, <2>2, <2>3, <2>4, PreflightKeeps
<1> QED
  BY <1>1, ChannelsInvariant, PTL
=============================================================================
