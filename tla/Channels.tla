------------------------------ MODULE Channels ------------------------------
(***************************************************************************)
(* The channels a session uses and the amounts it moves between them: the  *)
(* start of the program (main.go), getChannelCandidates, filterChannels    *)
(* and the arithmetic of pickChannelPair (channels.go), and the fresh      *)
(* start that tryRapidRebalance makes for every attempt (rebalancer.go).   *)
(* Which of the pairs is next, and which are set aside, is PairSelection's *)
(* matter, and which amounts rapid rebalancing asks for RapidRebalance's.  *)
(*                                                                         *)
(* The lists of channels are what lnd said at one moment; channels become  *)
(* active and inactive and others use them at any time.                    *)
(***************************************************************************)
EXTENDS GoInt, FiniteSets, ChannelId, Configuration

CONSTANTS
  Chans,        \* ids of our public channels
  Capacity,     \* the capacity of each
  Peer,         \* the node at its other end
  BlockHeight,  \* the height lnd is at when the program starts
  Files, CommandLines, \* what the config file and the command line may set
  LocalBalances,       \* local balances at first, and after others used a channel
  Asked,        \* amounts rapid rebalancing asks for, 0 for no limit
  Fees,         \* fees of a payment
  MaxPayments   \* bound on the payments of a session

ASSUME ChannelsAssumption ==
  /\ Chans \subseteq Nat /\ BlockHeight \in Nat
  /\ Capacity \in [Chans -> Nat \ {0}]
  /\ Chans \subseteq DOMAIN Peer
  /\ LocalBalances \in [Chans -> SUBSET Nat]
  /\ \A c \in Chans : \A b \in LocalBalances[c] : b <= Capacity[c]
  /\ Asked \subseteq Nat /\ Fees \subseteq Nat /\ MaxPayments \in Nat

\* The parser of the options and that of the config file take no other
\* parameters, and numbers for these.
ASSUME SettingsAssumption ==
  \A s \in Files \cup CommandLines :
    /\ DOMAIN s \subseteq DOMAIN Zero
    /\ \A f \in Numbers \cap DOMAIN s : s[f] \in Int

VARIABLES
  file, cli,       \* what the config file and the command line set
  params,
  phase, exitCode,
  active, local,   \* the world: active channels and our balances
  known,           \* r.channels: the balances of the channels lnd listed
  option, left,    \* the option being resolved, and its identifiers to come
  chosen,          \* r.fromChannelId, r.toChannelId, r.excludeFrom, r.excludeTo
  fromChannels, toChannels,
  from, to, amt,   \* the pair picked and its amount
  last,            \* the channel its route comes back by
  rapid,           \* rapid rebalancing has begun
  payments,        \* history: how many payments there were
  missed,          \* history: channels of an excluded node that were not active
                   \* when the exclusion was resolved
  disturbed        \* history: others used our channels since they were listed

config == <<file, cli, params>>
world == <<active, local>>
resolution == <<option, left, chosen>>
candidates == <<fromChannels, toChannels>>
picked == <<from, to, amt, last, rapid>>
history == <<payments, missed, disturbed>>
vars == <<config, phase, exitCode, world, known, resolution, candidates, picked, history>>

Options == <<"from", "to", "excludeFrom", "excludeTo">>
Running == -1

Init ==
  /\ file \in Files /\ cli \in CommandLines
  /\ params = Merged(file, cli)
  /\ phase = "start" /\ exitCode = Running
  /\ active \in SUBSET Chans
  /\ local \in [Chans -> UNION {LocalBalances[c] : c \in Chans}]
  /\ \A c \in Chans : local[c] \in LocalBalances[c]
  /\ known = [c \in {} |-> 0]
  /\ option = 1 /\ left = {}
  /\ chosen = [o \in {Options[i] : i \in 1 .. 4} |-> {}]
  /\ fromChannels = {} /\ toChannels = {}
  /\ from = 0 /\ to = 0 /\ amt = 0 /\ last = 0 /\ rapid = FALSE
  /\ payments = 0 /\ missed = {} /\ disturbed = FALSE

Remote(balance, c) == Capacity[c] - balance
Share(c, percent) == Quot(Capacity[c] * percent, 100)
channelReserve(c) == Share(c, 2)
Least(a, b) == IF a < b THEN a ELSE b

-----------------------------------------------------------------------------
(* Mutations used to show that the properties can fail.                    *)
MutOldEnough(c) ==
  params.excludeChannelAge = 0 \/ BlocksAgo(BlockHeight, c) + 1 >= params.excludeChannelAge
MutListing(cs) ==
  [c \in active \cap cs |-> IF c \in DOMAIN known THEN known[c] ELSE local[c]]
MutMaxTo(listed, t, f) == Remote(listed[t], t)
MutRelTo(listed, t, max) ==
  IF params.relAmountTo > 0 THEN Least(max, Share(t, params.relAmountTo)) ELSE max

-----------------------------------------------------------------------------
(* The start of main.                                                      *)
Exit(code) == phase' = "exit" /\ exitCode' = code

\* Help, the version, or parameters that do not go together.
EndAtOnce ==
  /\ phase = "start"
  /\ \/ params.help /\ Exit(0)
     \/ ~params.help /\ (params.version \/ Unacceptable(params)) /\ Exit(1)
  /\ UNCHANGED <<config, world, known, resolution, candidates, picked, history>>

Preflight ==
  /\ phase = "start"
  /\ ~params.help /\ ~params.version /\ ~Unacceptable(params)
  /\ params' = preflightChecks(params)
  /\ phase' = "list"
  /\ UNCHANGED <<file, cli, exitCode, world, known, resolution, candidates, picked, history>>

\* What lnd lists of some channels now.
Listing(cs) == [c \in active \cap cs |-> local[c]]

\* The identifiers of an option; the deprecated exclusions, which can only be
\* channels, take the place of the others where these are not set.
Identifiers(o) ==
  CASE o = "from" -> params.from
    [] o = "to" -> params.to
    [] o = "excludeFrom" /\ params.excludeFrom # {} -> params.excludeFrom
    [] o = "excludeFrom" /\ params.excludeFrom = {} -> params.excludeChannelsOut
    [] o = "excludeTo" /\ params.excludeTo # {} -> params.excludeTo
    [] o = "excludeTo" /\ params.excludeTo = {} -> params.excludeChannelsIn

getChannels ==
  /\ phase = "list"
  /\ known' = Listing(Chans)
  /\ left' = params.from
  /\ phase' = "resolve"
  /\ UNCHANGED <<config, exitCode, world, option, chosen, candidates, picked, history>>

\* filterChannels: a channel is taken as it is; for a node lnd lists the
\* channels with it that are active now.  The deprecated options name no nodes.
Resolved(i) ==
  IF i.kind = "node" THEN {c \in active : Peer[c] = i.key} ELSE {ChannelOf(i)}
filterChannels(i) ==
  /\ phase = "resolve" /\ i \in left
  /\ IF i.kind = "node" THEN params[Options[option]] # {} ELSE IsChannel(i)
  /\ missed' = missed \cup
       IF Options[option] \in {"excludeFrom", "excludeTo"} /\ i.kind = "node"
         THEN {c \in Chans \ active : Peer[c] = i.key}
         ELSE {}
  /\ chosen' = [chosen EXCEPT ![Options[option]] = @ \cup Resolved(i)]
  /\ left' = left \ {i}
  /\ UNCHANGED <<config, phase, exitCode, world, known, option, candidates, picked,
                 payments, disturbed>>

NothingSelected(o) == o \in {"from", "to"} /\ Identifiers(o) # {} /\ chosen[o] = {}

NextOption ==
  /\ phase = "resolve" /\ left = {}
  /\ ~NothingSelected(Options[option])
  /\ IF option = 4 THEN phase' = "candidates" /\ UNCHANGED <<option, left>>
                   ELSE /\ option' = option + 1
                        /\ left' = Identifiers(Options[option'])
                        /\ UNCHANGED phase
  /\ UNCHANGED <<config, exitCode, world, known, chosen, candidates, picked, history>>

\* An identifier that does not parse, an option that selects nothing, or an
\* error of lnd ends the program.
Fatal ==
  /\ phase \in {"list", "resolve", "candidates"}
  /\ Exit(1)
  /\ UNCHANGED <<config, world, known, resolution, candidates, picked, history>>

-----------------------------------------------------------------------------
Nodes(ids) == {i \in ids : i.kind = "node"}
ExcludedBoth ==
  {ChannelOf(i) : i \in {x \in params.exclude \cup params.excludeChannels : IsChannel(x)}}
AllParse ==
  /\ \A i \in params.exclude : i.kind = "node" \/ IsChannel(i)
  /\ \A i \in params.excludeChannels : IsChannel(i)
  /\ \A i \in params.excludeNodes : i.kind = "node"

\* r.excludeNodes, which lnd's routes avoid.
ExcludedNodes == {i.key : i \in Nodes(params.exclude) \cup params.excludeNodes}

OldEnough(c) ==
  params.excludeChannelAge = 0 \/ BlocksAgo(BlockHeight, c) >= params.excludeChannelAge

\* getChannelCandidates, for a listing and sets of channel ids of which the
\* empty one means all.
Usable(c) == OldEnough(c) /\ c \notin ExcludedBoth
Targets(listed, toId) ==
  {c \in DOMAIN listed :
     /\ Usable(c)
     /\ c \notin chosen["excludeTo"]
     /\ c \in toId \/ toId = {}
     /\ listed[c] < Quot(Capacity[c] * params.toPerc, 100)}
Sources(listed, fromId) ==
  {c \in DOMAIN listed :
     /\ Usable(c)
     /\ c \notin chosen["excludeFrom"]
     /\ c \in fromId \/ fromId = {}
     /\ Remote(listed[c], c) < Quot(Capacity[c] * params.fromPerc, 100)}

channelPairs(sources, targets) ==
  {p \in sources \X targets : Peer[p[1]] # Peer[p[2]]}

getChannelCandidates ==
  /\ phase = "candidates" /\ AllParse
  /\ fromChannels' = Sources(known, chosen["from"])
  /\ toChannels' = Targets(known, chosen["to"])
  /\ channelPairs(fromChannels', toChannels') # {}
  /\ IF params.info THEN Exit(0) ELSE phase' = "pick" /\ UNCHANGED exitCode
  /\ UNCHANGED <<config, world, known, resolution, picked, history>>

-----------------------------------------------------------------------------
(* The amount of a pair, from the balances listed.                         *)
\* What the balance of the source allows, and that of the target; the reserve
\* of both is that of the source.
MaxFrom(listed, f) == listed[f] - channelReserve(f)
MaxTo(listed, t, f) == Remote(listed[t], t) - channelReserve(f)

\* What the relative amounts leave of it.
RelFrom(listed, f, max) ==
  IF params.relAmountFrom > 0
    THEN Least(max, Share(f, params.relAmountFrom) - Remote(listed[f], f))
    ELSE max
RelTo(listed, t, max) ==
  IF params.relAmountTo > 0 THEN Least(max, Share(t, params.relAmountTo) - listed[t]) ELSE max

maxAmount(listed, f, t, amount) ==
  LET both == Least(RelFrom(listed, f, MaxFrom(listed, f)), RelTo(listed, t, MaxTo(listed, t, f)))
  IN  IF amount = 0 THEN both ELSE Least(both, amount)

TooLittle(a) == a < params.minAmount \/ a = 0

\* pickChannelPair, by tryRebalance: one of the pairs, with the balances that
\* were listed when the program started.
pickChannelPair ==
  /\ phase = "pick"
  /\ \E p \in channelPairs(fromChannels, toChannels) :
       /\ from' = p[1] /\ to' = p[2]
       /\ amt' = maxAmount(known, p[1], p[2], params.amount)
  /\ ~TooLittle(amt')
  /\ phase' = "query"
  /\ UNCHANGED <<config, exitCode, world, known, resolution, candidates, last, rapid, history>>

\* The channels a route to the node of a channel may end with.
Returns(c) == {x \in active : Peer[x] = Peer[c]}

\* getRoutes asks for a route that starts with the source, ends with the node
\* of the target and avoids excludeNodes; lnd may choose any channel of the
\* target's node for the end.
getRoutes ==
  /\ phase = "query"
  /\ from \in active
  /\ {Peer[from], Peer[to]} \cap ExcludedNodes = {}
  /\ last' \in Returns(to)
  /\ phase' = "pay"
  /\ UNCHANGED <<config, exitCode, world, known, resolution, candidates, from, to, amt, rapid,
                 history>>
NoRoute ==
  /\ phase = "query"
  /\ phase' = "pick"
  /\ UNCHANGED <<config, exitCode, world, known, resolution, candidates, picked, history>>

\* lnd's own reserve of a channel, which a payment may not touch.
Reserve(c) == Share(c, 1)

Payable(back, fee) ==
  /\ from \in active
  /\ local[from] - amt - fee >= Reserve(from)
  /\ Remote(local[back], back) - amt >= Reserve(back)

\* A route that pay rebuilds when fees change may end with another channel.
PaySucceeds ==
  /\ phase = "pay" /\ payments < MaxPayments
  /\ \E back \in Returns(last), fee \in Fees :
       /\ Payable(back, fee)
       /\ local' = [local EXCEPT ![from] = @ - amt - fee, ![back] = @ + amt]
  /\ phase' = "paid" /\ payments' = payments + 1
  /\ UNCHANGED <<config, exitCode, active, known, resolution, candidates, picked,
                 missed, disturbed>>

\* Another pair is tried, or rapid rebalancing goes on with another amount.
PayFails ==
  /\ phase = "pay"
  /\ phase' = IF rapid THEN "paid" ELSE "pick"
  /\ UNCHANGED <<config, exitCode, world, known, resolution, candidates, picked, history>>

\* The target of tryRapidRebalance is the last channel of the route of the first
\* payment, for all its attempts.
RapidTarget == IF rapid THEN to ELSE last

\* An attempt of tryRapidRebalance: it lists the channels of both nodes again
\* and starts from its two.  The route is rebuilt from the nodes, so that it may
\* end with another channel of the target's.  No payment follows if the amount
\* picked is too small; the session ends, in EndSession, if the channels no
\* longer qualify.
RapidAttempt(wanted) ==
  LET listed == Listing({c \in Chans : Peer[c] \in {Peer[from], Peer[RapidTarget]}})
      sources == Sources(listed, {from})
      targets == Targets(listed, {RapidTarget})
      picks == maxAmount(listed, from, RapidTarget, wanted)
  IN  /\ phase = "paid" /\ params.allowRapidRebalance
      /\ channelPairs(sources, targets) # {}
      /\ known' = listed
      /\ disturbed' = FALSE
      /\ chosen' = [chosen EXCEPT !["from"] = {from}, !["to"] = {RapidTarget}]
      /\ fromChannels' = sources /\ toChannels' = targets
      /\ to' = RapidTarget /\ rapid' = TRUE
      /\ IF TooLittle(picks)
           THEN UNCHANGED <<amt, last, phase>>
           ELSE amt' = picks /\ last' \in Returns(RapidTarget) /\ phase' = "pay"
      /\ UNCHANGED <<config, exitCode, world, option, left, from, payments, missed>>

\* The session ends, by its timeout or for another reason.
EndSession ==
  /\ \/ phase \in {"pick", "query", "pay", "paid"} /\ Exit(2)
     \/ phase = "pick" /\ Exit(1)
     \/ phase = "paid" /\ Exit(0)
  /\ UNCHANGED <<config, world, known, resolution, candidates, picked, history>>

-----------------------------------------------------------------------------
\* A node goes offline or comes back.
Flap(c) ==
  /\ phase # "exit"
  /\ active' = IF c \in active THEN active \ {c} ELSE active \cup {c}
  /\ UNCHANGED <<config, phase, exitCode, local, known, resolution, candidates, picked, history>>

\* Others use a channel, once between two listings.
Traffic(c) ==
  /\ phase \in {"pick", "query", "pay", "paid"}
  /\ ~disturbed
  /\ \E balance \in LocalBalances[c] : local' = [local EXCEPT ![c] = balance]
  /\ disturbed' = TRUE
  /\ UNCHANGED <<config, phase, exitCode, active, known, resolution, candidates, picked,
                 payments, missed>>

main ==
  \/ EndAtOnce \/ Preflight \/ getChannels
  \/ \E i \in left : filterChannels(i)
  \/ NextOption \/ Fatal \/ getChannelCandidates
  \/ pickChannelPair \/ getRoutes \/ NoRoute \/ PaySucceeds \/ PayFails
  \/ \E wanted \in Asked : RapidAttempt(wanted)
  \/ EndSession

Next == main \/ \E c \in Chans : Flap(c) \/ Traffic(c)

Spec == Init /\ [][Next]_vars

-----------------------------------------------------------------------------
Chosen == phase \in {"query", "pay", "paid"}

\* The channels a list of identifiers means.  A position of more than 16 bits
\* means, as for parseScid, the one its last 16 bits give.
Means(i, c) ==
  CASE i.kind = "number" -> i.id = c
    [] i.kind = "scid" -> parseScid(i) = c
    [] i.kind = "node" -> Peer[c] = i.key
    [] OTHER -> FALSE
Named(ids) == {c \in Chans : \E i \in ids : Means(i, c)}

(* README.md:86-93: a session moves money only from channels, and to nodes, *)
(* it was told to use, and from and to none it was told to leave alone: not *)
(* a channel that is excluded by itself, nor one of a node that is excluded *)
(* altogether, nor one of a node that is excluded as source or target,      *)
(* unless it was inactive when lnd was asked for the channels of that node; *)
(* none too young, unless it is younger than the height read at first.  The *)
(* channel a route comes back by is lnd's choice.                           *)
OnlyAsTold ==
  Chosen =>
    LET outs == params.excludeFrom \cup params.excludeChannelsOut
        ins == params.excludeTo \cup params.excludeChannelsIn
    IN  /\ params.from # {} => from \in Named(params.from)
        /\ params.to # {} => \E c \in Named(params.to) : Peer[c] = Peer[to]
        /\ from \notin Named(outs \ Nodes(outs)) /\ to \notin Named(ins \ Nodes(ins))
        /\ from \in Named(Nodes(outs)) => from \in missed
        /\ to \in Named(Nodes(ins)) => to \in missed
        /\ {from, to} \cap Named((params.exclude \cup params.excludeChannels) \ Nodes(params.exclude)) = {}
        /\ phase = "pay" =>
             {from, last} \cap Named(Nodes(params.exclude) \cup params.excludeNodes) = {}
        /\ Peer[from] # Peer[to]
        /\ \A c \in {from, to} :
             \/ params.excludeChannelAge = 0
             \/ BlockHeight - getChannelAge(c) >= params.excludeChannelAge
             \/ getChannelAge(c) > BlockHeight

\* The channels and the amount of a payment are those of this moment: the
\* balances lnd gave still hold, and the route comes back by the target.
Current == phase = "pay" /\ ~disturbed /\ last = to

(* README.md:73-74 and the description of --allow-rapid-rebalance: the same    *)
(* two channels are used again only while they satisfy the criteria, so a   *)
(* payment always finds too little liquidity on the far side of its source  *)
(* and on the near side of its target, whatever was paid before.            *)
CriteriaHold ==
  Current =>
    /\ Remote(local[from], from) * 100 < Capacity[from] * params.fromPerc
    /\ local[to] * 100 < Capacity[to] * params.toPerc

(* CHANGELOG:27: the margin for the reserve: no payment is tried that the   *)
(* reserves of its two channels do not allow, with a fee of up to half the  *)
(* margin, unless the target has more than twice the capacity of the source. *)
ReservesAllow ==
  Current =>
    /\ local[from] - amt - (channelReserve(from) - Reserve(from)) >= Reserve(from)
    /\ Capacity[to] <= 2 * Capacity[from] =>
         Remote(local[to], to) - amt >= Reserve(to)

(* README:79-80: a payment does not take the target above the fraction of   *)
(* its capacity that --rel-amount-to gives, nor the far side of the source  *)
(* above that of --rel-amount-from.                                         *)
RelativeAmountsKept ==
  Current =>
    /\ params.relAmountTo > 0 => (local[to] + amt) * 100 <= Capacity[to] * params.relAmountTo
    /\ params.relAmountFrom > 0 =>
         (Remote(local[from], from) + amt) * 100 <= Capacity[from] * params.relAmountFrom

(* README:123: "If defined in both config and CLI, the CLI parameters take  *)
(* priority", but for the two percentages where --perc is set anywhere.     *)
CommandLineWins ==
  phase \notin {"start", "exit"} =>
    \A f \in DOMAIN cli :
      \/ cli[f] = Zero[f] \/ params[f] = cli[f]
      \/ f \in {"fromPerc", "toPerc"} /\ params.perc > 0

(* CHANGELOG:27: "2% safety margin for channel reserve and commitment fee   *)
(* to prevent failures due to hitting that limit".                          *)
TargetReserveAllows == Current => Remote(local[to], to) - amt >= Reserve(to)
=============================================================================
