---------------------------- MODULE Configuration ----------------------------
(***************************************************************************)
(* main.go: loadConfig, the command line, and preflightChecks.  A parameter *)
(* that is zero counts as not set.  Ratios are in tenths, fractions of a   *)
(* capacity in percent; lists of identifiers are sets (see ChannelId).     *)
(***************************************************************************)
EXTENDS Integers

\* A parameter nobody set.  The options that neither preflightChecks nor the
\* choice of channels reads are left out.
Zero ==
  [connect |-> "", macaroonFilename |-> "", network |-> "",
   fromPerc |-> 0, toPerc |-> 0, perc |-> 0,
   amount |-> 0, relAmountTo |-> 0, relAmountFrom |-> 0, minAmount |-> 0,
   allowRapidRebalance |-> FALSE, failTolerance |-> 0,
   excludeChannelsIn |-> {}, excludeChannelsOut |-> {},
   excludeFrom |-> {}, excludeTo |-> {},
   excludeChannels |-> {}, excludeNodes |-> {}, exclude |-> {},
   excludeChannelAge |-> 0, to |-> {}, from |-> {},
   econRatio |-> 0, econRatioMaxPPM |-> 0, feeLimitPPM |-> 0, lostProfit |-> FALSE,
   nodeCacheLifetime |-> 0, timeoutRebalance |-> 0, timeoutAttempt |-> 0,
   timeoutInfo |-> 0, timeoutRoute |-> 0,
   version |-> FALSE, info |-> FALSE, help |-> FALSE]

\* The numbers that the choice of channels and amounts depends on.
Numbers ==
  {"fromPerc", "toPerc", "perc", "amount", "relAmountTo", "relAmountFrom", "minAmount",
   "excludeChannelAge"}

Defaults ==
  [connect |-> "127.0.0.1:10009", macaroonFilename |-> "admin.macaroon",
   network |-> "mainnet", fromPerc |-> 50, toPerc |-> 50, failTolerance |-> 1000,
   nodeCacheLifetime |-> 1440, timeoutAttempt |-> 5, timeoutRebalance |-> 360,
   timeoutInfo |-> 30, timeoutRoute |-> 30]

\* The settings of one source where it has them, those of the next elsewhere.
Over(f, g) ==
  [x \in DOMAIN f \cup DOMAIN g |-> IF x \in DOMAIN f THEN f[x] ELSE g[x]]

-----------------------------------------------------------------------------
(* Mutations used to show that the properties can fail.                    *)
MutMerged(file, cli) == Over(file, Over(cli, Zero))

-----------------------------------------------------------------------------
\* The config file fills the parameters, the command line those it mentions; a
\* list on the command line takes the place of the file's.
Merged(file, cli) == Over(cli, Over(file, Zero))

\* The combinations that preflightChecks does not accept.
TwoFeeLimits(p) == p.econRatioMaxPPM # 0 /\ p.feeLimitPPM # 0
MinAboveAmount(p) == p.minAmount > 0 /\ p.amount > 0 /\ p.minAmount > p.amount
IsRelative(p) == p.relAmountFrom > 0 \/ p.relAmountTo > 0
AmountUnclear(p) ==
  \/ p.amount > 0 /\ IsRelative(p)
  \/ p.amount = 0 /\ p.relAmountFrom = 0 /\ p.relAmountTo = 0
OldAndNewLists(p) ==
  \/ (p.excludeChannels # {} \/ p.excludeNodes # {}) /\ p.exclude # {}
  \/ p.excludeChannelsIn # {} /\ p.excludeTo # {}
  \/ p.excludeChannelsOut # {} /\ p.excludeFrom # {}
Unacceptable(p) ==
  \/ TwoFeeLimits(p) \/ MinAboveAmount(p) \/ AmountUnclear(p)
  \/ IsRelative(p) /\ p.allowRapidRebalance
  \/ OldAndNewLists(p)

\* What it makes of the others.
WithDefaults(p) ==
  [f \in DOMAIN p |-> IF f \in DOMAIN Defaults /\ p[f] = Zero[f] THEN Defaults[f] ELSE p[f]]
preflightChecks(p) ==
  [WithDefaults(p) EXCEPT
     !.fromPerc = IF p.perc > 0 THEN p.perc ELSE @,
     !.toPerc = IF p.perc > 0 THEN p.perc ELSE @,
     !.econRatio = IF p.econRatio = 0 /\ p.feeLimitPPM = 0 THEN 10 ELSE @]
=============================================================================
