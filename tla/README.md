# A TLA+ verification of regolancer

regolancer (`src/`, Go) rebalances the channels of an lnd node: it picks a pair of its own channels, asks lnd for a
circular route from one to the other, pays itself along it, and repeats that until a payment succeeds or its time is
up. The modules here model the decisions it takes on the way, TLC checks them on small instances, and TLAPS proves the
safety properties of nine components for every value of their constants.

- [1. The system](#1-the-system)
- [2. Modules, and how they correspond to the code](#2-modules-and-how-they-correspond-to-the-code)
- [3. What the runs check](#3-what-the-runs-check)
- [4. Fairness](#4-fairness)
- [5. What is proved](#5-what-is-proved)
- [6. Where the code and its documentation disagree](#6-where-the-code-and-its-documentation-disagree)
- [7. What is not modelled](#7-what-is-not-modelled)
- [8. Plan](#8-plan)

## 1. The system

One process runs `main` (main.go). It merges its configuration, loads the node cache, lists and selects candidate
channels once, and calls `tryRebalance` in a loop. Everything is done by the main goroutine, one call after the other;
a second goroutine waits for Ctrl+C. The concurrency is with the outside: lnd and the network (a payment goes on when
nobody waits for its answer), three nested contexts with deadlines (session, attempt, query) that strike between any
two steps, and other instances of regolancer that share the cache file and the lock file.

| component | source | state it keeps | operations | what makes it correct |
|---|---|---|---|---|
| channel pair selection | `channels.go`, `rebalancer.go` | `channelPairs`, `failureCache` (with expiration), `routeFound` | `pickChannelPair`, `addFailedRoute` | no pair is lost, a failed one is left alone until its expiration, and the session gives up only when every pair failed and none had a route |
| mission control | `mission_ctl.go`, `routes.go` | `mcCache` (amount a node pair failed with), `failedPairs` | `addFailedChan`, `validateRoute`, `getRoutes` | a payment like one that failed is not repeated; nothing is excluded that never failed; the query comes to an end |
| probing | `routes.go`, `helper.go` | the bracket of a binary search, in recursive calls with a deferred overwrite of the result | `probeRoute`, `absoluteDeltaPPM` | the amount it returns was accepted, is smaller than the one that failed and close to the liquidity; it ends |
| payment | `payment.go` | `invoiceCache`; lnd's invoices | `pay`, `createInvoice`, `invalidateInvoice` | an invoice that is paid, or may still be, is never sent to again |
| session | `rebalancer.go`, `main.go` | amount, routes, fee limit, exit code | `tryRebalance`, the loop of `main` | the fee limit and the invoice fit the route; after a success only rapid rebalancing pays; the exit code tells how it ended; it ends |
| rapid rebalancing | `rebalancer.go`, `mission_ctl.go` | amount, accelerator, phase, three flags, the summary | `tryRapidRebalance` | stays below the HTLC limit, squeezes the route, ends, and reports what it paid |
| node cache | `cache.go`, `main.go`, `routes.go` | a map in memory, a file, a lock file | `loadNodeCache`, `saveNodeCache`, `getNodeInfo` | instances lose nothing of each other's; the file stays readable; nobody waits for the lock for ever |
| fee limits | `routes.go` | `chanCache` (the policies lnd gave first) | `calcFeeMsat`, `calcFeeLimitMsat`, `calcEconFeeMsat`, `getChanInfo` | a limit stays within its rate and its economical ratio, and is the same whenever it is asked for |
| channel candidates and amounts | `channels.go`, `rebalancer.go`, `main.go` | `channels`, `fromChannels`, `toChannels`, the sets of included and excluded ids | `getChannels`, `filterChannels`, `getChannelCandidates`, the amount of a pair | only channels that were asked for, for amounts that criteria, reserves and relative amounts allow |
| configuration | `main.go` | `params` | `loadConfig`, `preflightChecks` | the command line wins; contradictions are refused |
| information and formatting | `info.go`, `format.go`, `version.go`, `helpmessage/` | none | printing | wording |

How they interact. `main` resolves the options to sets of channel ids, from which `getChannelCandidates` makes the
pairs. It calls `tryRebalance`, which takes a pair from the selection, asks `getRoutes` for routes (which asks
`calcFeeMsat` for the fee limit and consults mission control), and calls `pay` for each. `pay` records failures in
mission control, may start a probe at the second to last hop, and then returns `ErrRetry` with the probed amount,
which `tryRebalance` pays along the same route. After a success `tryRebalance` may call `tryRapidRebalance`, which
calls `pay` again and again, and before each call lists and selects the two channels of the route anew. A refill of
the selection (all pairs failed) also empties `mcCache`. The invoice cache outlives attempts; the failure cache
outlives everything but a refill.

Which behaviours are hard:

- *Deadlines.* Whoever reads a context does so after the call that may have been cut off: `ctx.Err()` is read in
  `tryRebalance` after `getRoutes`, in a deferred function of `pay`, in one of every `probeRoute`, in
  `tryRapidRebalance` before the result of `pay`, and in `main` before the result of `tryRebalance`. A payment may be
  under way, or settled, at each of those places.
- *Partial failure.* After a payment succeeded, the stat file may be locked or unwritable; a lookup for a log line may
  fail; `AddInvoice` may fail.
- *Long sequences.* Maps that survive attempts (`invoiceCache`, `failureCache`, `mcCache`, `failedPairs`) and
  variables that survive iterations (`amt`, `amtLocal`, the flags of the rapid loop).
- *Recursion.* `pickChannelPair`, `getRoutes`, `pay` and `probeRoute` call themselves.
- *Arithmetic.* Division rounds towards zero, also for the negative "good amount" that stands for a lower bound.
- *Answers that grow old.* The balances of the first listing serve every attempt but the rapid ones; the policies in
  `chanCache` serve the whole session; a node that is excluded as source or target stands for the channels it had at
  one moment; a route may return through another channel of the target's node than the one that was chosen.
- *Precedence.* Defaults, config file and command line are merged; some options are overridden by others afterwards.
- *Several processes, crashes and Ctrl+C* at the node cache.

`PROJECT.json` lists these places with their lines under `hazards`, each with the properties that watch it.

## 2. Modules, and how they correspond to the code

| module | models | state | built on |
|---|---|---|---|
| `GoInt` | integer division as Go does it, and `absoluteDeltaPPM` | | |
| `PairPool` | *abstract*: a set of failed pairs without clock, amounts or recursion | `failed`, `found`, `chosen`, `over` | |
| `PairSelection` | `pickChannelPair`, `addFailedRoute` and their caller | the two maps, `routeFound`, a clock | implements `PairPool` |
| `ProbeSearch` | *abstract*: what a probe may answer | `total`, `least`, `answer` | |
| `Probe` | `probeRoute` and its start in `pay` | the bracket, the outermost positive good amount, the answers | `GoInt`, implements `ProbeSearch` |
| `Payment` | `pay`, `createInvoice`, `invalidateInvoice`, lnd's invoices | `invoiceCache`, `invoices`, the active call | INSTANCE `ProbeSearch` |
| `Session` | `tryRebalance`, the loop of `main`, the three contexts | amount, limit, routes left, exit code | extends `Payment`, INSTANCE `PairPool` |
| `RapidRebalance` | `tryRapidRebalance`, `maxAmountOnRoute`, the pick for one pair | the variables of the loop, the world | |
| `MissionControl` | `addFailedChan`, `validateRoute`, `getRoutes` | `mcCache`, `failedPairs`, routes | `GoInt` |
| `FeeLimit` | `calcFeeMsat`, its two variants, `getChanInfo` | `chanCache`, the policies of lnd's graph, the limits told | `GoInt` |
| `ChannelId` | channel ids and how the user writes them | | |
| `Configuration` | `loadConfig`, the command line, `preflightChecks` | | |
| `Channels` | the start of `main`, `getChannels`, `filterChannels`, `getChannelCandidates`, the amount in `pickChannelPair`, the fresh start of rapid attempts | `params`, the sets of ids, the candidates, the pair and its amount, the channels of the world | `GoInt`, `ChannelId`, `Configuration` |
| `SharedCache` | *abstract*: a cache in which the newer update wins | `cache`, `torn`, `now` | |
| `NodeCache` | `loadNodeCache`, `saveNodeCache`, `getNodeInfo`, exits | file, lock, a map and two goroutines per process | implements `SharedCache` |

Each detailed component has an `MC...` module that gives its constants values for TLC (`MCChannels` also those of
`ChannelId` and `Configuration`); `PairSelectionProofs`, `ProbeProofs`, `SessionProofs` (which also holds those about
`Payment`), `FeeLimitProofs`, `ChannelsProofs`, `RapidRebalanceProofs`, `MissionControlProofs` and `NodeCacheProofs`
hold the theorems. `map` in `PROJECT.json` names the lines behind every definition.

**PairSelection.** One call of `pickChannelPair` is one action, taken while `pc = "picking"`: it finds nothing
(`NoRoutes`), refills, sets an unusable pair aside and recurses (`PickUnusable`), or returns a pair after giving back
the expired ones (`PickUsable`). The order inside a call is kept: a refill happens in the same step as the pick that
follows. What the balances allow, `amountOf`, is chosen at start, because the program reads the balances once; it may
be zero or negative, as the subtraction of the reserve may make it (`Channels` has the arithmetic). Time is a counter
that stands still at `MaxTime`. `PairPool` says what remains of this for the session: pairs are set aside, come back,
and the end is reached only when all failed.

**Probe.** A call of `probeRoute` is an action per outcome, in the order of the code: converged, route not built, fee
too high, accepted, refused, fee insufficient, error. The recursion is a tail call but for the deferred function,
which runs for every active call when the deadline passed; the outermost positive `goodAmount` wins, so that one
number, `firstGood`, stands for the stack. `steady` chooses between a network that answers anything (safety) and one
with a fixed liquidity and a smallest amount whose fee is acceptable (how good the result is). After FEE_INSUFFICIENT
the same amount is tried again, any number of times. `ProbeSearch` says what `pay` may rely on: one answer, which is
an amount below the one that failed and not below the minimum, nothing, an error, or a panic if the amount was one
satoshi.

**Payment.** The recursion of `pay` after a fee update is its last act, and all its calls share amount and invoice, so
one call is kept. Its probe is `ProbeSearch`, with the amount of the call as `total`, so the two modules meet in one
definition: what `Probe` is shown to implement is what `Payment` uses. What lnd does with an invoice is separate from
what it answers: a payment may settle after the context expired, and lnd refuses to pay an invoice twice at once or
once settled. `Faults` says what may fail before the deadline; after it, every call to lnd fails. `cutOff`, `known`
and `unsaved` are history: invoices whose answer the deadline cut off, those the program knows to be paid, and those
of them the stat file could not take.

**Session.** `tryRebalance` is an action per branch; the steps of `pay` are those of `Payment`, conjoined with the
session standing still. The attempt's context is `expired`; a query's is a choice in `QueryTimesOut`; the session's
deadline expires both. Between `BeginRapid` and `EndRapid` a successful route is paid along again (`RapidAttempt`,
`PayRapid`, `RapidGoesOn`, `RapidTimesOut`), every attempt with a context, a fee limit and an amount of its own; which
amounts, and when it stops, is in `RapidRebalance`, so here any amount and any number of attempts is allowed. Whether
it is enabled is a choice as well. A panic, wherever it happens, ends the process with exit code 0, because the
deferred `os.Exit` of `main` runs first.

**RapidRebalance.** One action per branch of the loop. `room` is what the two channels have, `carry` what the hops
forward. `hops` is the HTLC limit of each hop, zero for none, from which `maxAmountOnRoute` takes the smallest.
`spare` is the room at which the pair ceases to meet the criteria of the candidates (`pfrom`, `pto`): they are looked
at before every payment, and once the payments so far moved the pair past them, the loop ends (`NoCandidates`, taken
whenever `~Qualifies` in a calm world). Room is what the two channels have in satoshis; the fee of a payment is not
taken from it. A payment that fails may have been carried, its answer lost. The constants keep amounts and HTLC limits
in satoshis. `calm` chooses between a world that only our payments change, with no failing call, and one where others
use the channels, calls fail and deadlines come.

**MissionControl.** A route is its hops with the amounts they forward; a channel carries what the node before it
forwards, so the amount `addFailedChan` stores (`Carries`) and the one `validateRoute` compares (`forward`) differ by
the fee of a node. `getRoutes` takes any answer lnd may give that leaves out `failedPairs`. A payment goes on along
rebuilt routes, which nothing validates: after a fee update (`PayUpdated`, the same amount) and after a probe
(`PayProbed`, a smaller one). `answered` (the route as lnd returned it) and `since` (the pairs that failed since the
query) are history. What rapid rebalancing pays is left out: no route is asked for in the session after it, and the
session ends.

**FeeLimit.** The policies in lnd's graph change at any time; `getChanInfo` copies those of a channel when it is first
asked for; `TellLimit` is a call of `calcFeeMsat` once the channels it needs are in the cache, by `getRoutes`,
`probeRoute` or `tryRapidRebalance`. `told` is history. Amounts are in millisatoshi, rates in millionths. The other
modules take the limit as a constant function of the amount, which `LimitsNeverChange` justifies.

**ChannelId, Configuration.** Operators. An identifier is a number, a short channel id (block, index, position), a
node's key or something else; `ToUint64` packs a short channel id into an integer below `Heights * Indexes *
Positions` (2^24, 2^24 and 2^16 in the program), `IsChannel` is what `strconv` accepts, and `BlocksAgo` is the
unsigned difference of heights. A set of parameters is a record; where a parameter has its zero value it counts as not
set, as in the code.

**Channels.** `main` up to the loop (`EndAtOnce`, `Preflight`, `getChannels`, `filterChannels`, `NextOption`, `Fatal`,
`getChannelCandidates`), then picking, querying, paying, and the rapid attempts (`RapidAttempt`), which list the
channels of the two nodes again and replace every set and list. Between any two steps a channel becomes active or
inactive (`Flap`) and others use a channel (`Traffic`). A route starts with the source and comes back by *any* active
channel of the target's node (`last`), because a query names nodes only. So does every rebuilt route, hence `last` is
chosen anew in every rapid attempt and a payment may arrive by another one of these channels (`Returns`), while rapid
rebalancing keeps the channel its route ended with (`RapidTarget`) as the one whose criteria and reserve it looks at.
`known` is what was listed, `local` what is; `disturbed` says that others used a channel since the last listing,
`missed` has the channels an exclusion of their node did not find.

**NodeCache.** The steps of a save between which another process, goroutine, kill or Ctrl+C can come: lock, merge,
create (truncates), encode, unlock, exit. Two goroutines of a process exclude each other like two processes, since
every save opens the lock file anew. `os.Exit`, a kill and Go's abort on concurrent map access end both goroutines and
free the locks. The refinement mapping shows the file as `SharedCache` sees it: between create and encode it is
already the map about to be written; it is `torn` when nobody is going to write it any more.

## 3. What the runs check

| run | properties | shows |
|---|---|---|
| `pairSelection` | `PairsConserved`, `SkipsRecentFailures`, `GivesUpOnlyExhausted`, `PickReturns`, `ImplementsPool` | no pair is lost or in both maps; a failed pair returns only by expiration or refill; "no routes" is said only when every pair failed and none had a route; the recursion ends; the selection implements `PairPool` |
| `probe` | `ResultWasAccepted`, `Bracketed`, `ResultNotTooSmall`, `FindsTheLiquidity`, `SearchEnds`, `ImplementsSearch` | the search stays in its bracket, returns only accepted amounts, and in a network that does not change misses the liquidity by no more than its last bracket or twice its tolerance; it ends; it implements `ProbeSearch`, where only a payment of one satoshi panics |
| `payment` | `CutOffInvoiceForgotten`, `PaidInvoiceForgotten`, `PayReturns` | with every fault and every sequence of calls, no invoice is sent to again that is known to be paid or was cut off |
| `session` | `TypeOK`, `ExitCodeTold`, `InvoiceFitsRoute`, `FeeWithinLimit`, `StopsWhenPaid`, `SessionEnds` | the whole program from start to exit, with all faults, probing, two routes per query, rapid payments and deadlines anywhere |
| `nodeCache` | `TypeOK`, `ImplementsShared`, `LockIsGranted` | nothing is lost but to a save that is cut short; everyone gets the lock, also when its holder dies |
| `rapid` | `WithinHigherCap`, `SqueezedUnlessLeftEarly`, `SummaryHasTheTotals`, `DecreaseGoesDown`, `RapidEnds` | the loop ends in every world, never asks a hop for more than it takes and never claims more than was paid; when all is calm it leaves less than twice the minimum on the route, and a satoshi per fraction tried, unless the payments moved the pair past its criteria, and its summary is right |
| `missionControl` | `TypeOK`, `SameAmountCancelled`, `IgnoredWasRefused`, `QueryEnds` | up to the tolerance and a hop's fee, a failed amount is not repeated along the hops of a route lnd returned, also after it was rebuilt; what is excluded did fail; the recursion ends |
| `feeLimit` | `WithinRate`, `Economical`, `LimitsNeverChange` | with fees that change at any time a limit stays within its rate and ratio, is not lower than the target's rate leaves room for, and is the same for the whole session |
| `channels` | `OnlyAsTold`, `CriteriaHold`, `ReservesAllow`, `RelativeAmountsKept`, `CommandLineWins` | from any mixture of file and command line, with channels that come and go: only the channels asked for are used, for amounts that criteria, reserves and relative amounts allow, at first and in rapid attempts |
| `sessionCrash`, `lostProfitBase`, `targetReserve` | one each | a counterexample to something the documentation says, see section 6 |

The type invariants of `PairSelection`, `Probe`, `Payment`, `FeeLimit` and `RapidRebalance` are theorems (section 5)
and not repeated by the runs.

`CHECK_DEADLOCK FALSE` is set in all of them but `feeLimit` and `lostProfitBase` because they may stop: the session
exits, a search or a call of `pay` returns, the clock, the number and the sum of the payments are bounded.

### Bounds, and why they are enough

- `pairSelection`: three pairs (one in hand, one failed, one untouched), amounts that are usable, zero and negative,
  expiry 1 and clock up to 4, so that a pair fails, expires and fails again, and two pairs expire at different times.
- `probe`: all amounts 1 to 11, and 16, 17 and 32, the powers of two and a neighbour that four halvings start from,
  minimums below, at and above the amount, one of them within the tolerance of it, every liquidity and fee threshold,
  any number of fee updates.
- `payment`: two amounts and three invoices, so that an amount can use up two invoices while the other one's is
  cached; fees below and above the limit; any sequence of calls, which is more than the program does.
- `session`: one pair, two amounts, one of them too small for the fee the other allows, two invoices, two routes. One
  pair is enough for the session: it fails, is released, is exhausted and comes back by the abstract pool, in any
  order with the payments; what several pairs add is checked, and proved, in `PairSelection`. The invoices run out
  after two payments were started, after which `AddInvoice` can only fail.
- `nodeCache`: two processes, one of which gets Ctrl+C (three goroutines that save), two nodes, so that each process
  can know one that the other does not, lifetime 1 and clock to 3, so that an entry gets too old before a save and
  between two.
- `rapid`: first amounts 2, 3 and 15 (whose fractions 7, 3 and 1 are all rounded down), routes of two hops whose
  limits are zero, below, at and above multiples of the amounts, `NoLimit` above anything that can be reached, minimum
  0 (then `DefaultMin`) and 2, room and carry 0 to 40, criteria that never bind (-1) and some that end the loop with
  room left (4), fees 1 and 2, so that a payment has another fee than the one before; `MaxPaid` (8) bounds the sum
  only where others refill the channels.
- `missionControl`: routes through two of three nodes, the second of which takes no, a small or a large fee (0, 1, 5
  of about 100), with amounts within (101) and outside (104, 105) the tolerance of each other and a smaller one (50)
  that a probe finds; two routes per query, so that one is left after the other failed.
- `feeLimit`: two channels with us at either end of the graph's edge, amounts of 1 and 15 satoshis, so that a limit is
  truncated or not and all products fit the 32 bits TLC has, a policy with and one without a base fee, ratios below
  and above one, with and without cap, lost profit and fixed rate.
- `channels`: three channels, two of them with the same node and one with more than twice the capacity of the others,
  ids of 16 heights, two indexes and four positions, of which one is an alias beyond the height of the chain; a short
  channel id whose position is cut; two config files and twelve command lines, each with each, that between them use
  every kind of identifier and every option the choice of channels depends on; one use of a channel by others between
  two listings, and `MaxPayments` (2), so that a rapid attempt follows a payment it has to take into account.

The clock bounds (`MaxTime`), `MaxPaid`, `MaxPayments` and the number of `Hashes` are the only bounds; each is a
constant, and the guards that use it are `Tick`, `Carried`, `PaySucceeds` (of `Channels`) and `AddInvoice`.

Every property has a mutation of the code (`Mut...` in the modules, `mutants` in `PROJECT.json`) under which its run
fails: a forgotten delete, a flipped test, a deferred function that does nothing, an error that is dropped.

## 4. Fairness

- `PairSelection`, `Probe`, `RapidRebalance`, `MissionControl`: weak fairness of the component's own steps. The
  program is sequential and does not block there except on calls to lnd, and lnd answers or the context ends the call.
- `Payment`: weak fairness of the steps of `pay` and of the deadline, which is a timer. The network has none: a
  payment may be under way for ever.
- `Session`: weak fairness of the program's steps and of the session's deadline, not of the attempt's.
- `NodeCache`: weak fairness per goroutine, of loading and of saving. The lock is granted when it stays free; a
  process need never finish its work, fail or be killed. `LockIsGranted` needs no strong fairness here because every
  process loads and saves once.
- `FeeLimit`, `Channels`: none; what they are about is safety, and what makes the session that contains them end is in
  `Session`.

## 5. What is proved

All theorems hold for every value of the constants under the named assumptions of the modules: finiteness is nowhere
assumed, so any number of pairs, amounts, invoices, steps and any tolerance. Every invariant of the passing runs is
stated by a theorem, and every action property and refinement; what is only model-checked is named at the end of the
section.

**PairSelectionProofs.** `SelectionInv` is inductive: the type invariant, `PairsConserved`, `SkipsRecentFailures` and
`GivesUpOnlyExhausted`, strengthened by two facts: a pair is in hand exactly while the program works on it and is then
still in `channelPairs` (`PickedWhenWorking`; without it `addFailedRoute` could store what is not there), and the
expiration of each failed pair is the time it last failed plus `Expiry` (`FailuresDated`; without it the test of
`Expired` says nothing about when the pair failed). From it follow `SelectionTypes`, `SelectionConservesPairs`,
`SelectionSkipsRecentFailures`, `SelectionGivesUpOnlyExhausted` and `SelectionImplementsPool`: every step of the
detailed selection is a step of `PairPool` or leaves it unchanged.

**ProbeProofs.** `ProbeInv` is inductive: types, `Bracketed`, that a negative good amount is a lower bound no smaller
than the minimum (`LowerEnd`), that every positive good amount and the outermost one were accepted
(`GoodWasAccepted`), and that the amount tried is below the one that failed (`TriesInside`). The arithmetic lemmas
(`HalfGap`, `NextAboveAccepted`, ...) state what rounding towards zero does to the two kinds of good amount. From it:
`ProbeTypes`, `ProbeStaysBracketed`, `ProbeResultWasAccepted`, and `ProbeImplementsSearch`: every step of the detailed
search is a step of `ProbeSearch` or leaves it unchanged, so that the answers `Payment` is proved for are those
`probeRoute` can give.

How good the answer is follows from `SearchInv`, inductive as well, which adds a measure: the distances of the amount
to the ends of the bracket, times the powers of two that are spent (`Narrow`), are bounded by the first amount, and
the two differ by one at most but at the start from `params.MinAmount` (`Halved`). `EndsHold` says what the ends mean
in a steady network (the upper one is above the liquidity, a positive good amount is within it, a negative one below
the fee threshold), `StillLarge` and `AcceptedLarge` that n steps divide the amount by 2^n at most. `Power` is a
recursive function; `PowerDef` and `Powers` establish it by well-founded induction over its finite beginnings. A
search that ends by its tolerance compares the bad amount with the *next* amount, which is half a bracket away, so it
may miss the liquidity by twice the tolerance (`WithinTolerance`); the others end in a bracket as small as their steps
allow (`NarrowAtLast`). From it: `ProbeResultNotTooSmall` and `ProbeFindsTheLiquidity`.

**SessionProofs, payment.** `InvoiceInv` is inductive: types; no two amounts share an invoice (`CacheInjective`); only
invoices lnd created are remembered (`Issued`), so that a new one is in no history; the invoice of an active call is
the cached one of its amount (`ActiveCached`), so that forgetting the amount forgets the invoice; no cached invoice
was cut off (`NotCutOff`); a cached invoice that is known to be paid is the one `pay` is just about to forget, or the
stat file could not take it (`NotPaid`). One lemma covers every way of returning. From it: `PaymentInvariant`,
`PaymentTypes`, `PaymentForgetsCutOffInvoices`, `PaymentForgetsPaidInvoices`. The caller in `PaySpec` is any sequence
of calls, which the callers of the program refine.

**FeeLimitProofs.** `FeeInv` is inductive: types, and every limit told is the one the cache still gives, for which its
channels are in the cache (`Remembered`; without it nothing ties a limit told earlier to one told now). The lemmas
`Truncated`, `CappedWithinRate` and `LimitWithinRate` state what the truncated divisions do to the bounds. From it:
`FeeLimitTypes`, `SessionLimitsNeverChange`, `LimitsWithinRate`, and `LimitsEconomical`: the products of amount, rate
and ratio are named in lemmas of their own (`ShareRounded`, `EconomicalLimit`, and `LeastLimit` for the lower bound),
so that what is left for the solver is linear.

**ChannelsProofs.** `ChannelsInv` is inductive and follows the program from its options to its payments: the
parameters are those of file and command line (`ParamsFit`); the sources and targets are what their options mean, and
not empty once they were resolved (`Selected`; an empty set would mean "any channel"); what is excluded as source or
target is set aside but for channels that were inactive (`ExclusionsKept`, for every identifier that is resolved so
far); candidates, pair and route fit these sets (`PairFits`); the amount is one that the *listed* balances allow
(`AmountFits`); and the listed balances are the true ones as long as nobody else used a channel (`BalancesKnown`,
which the rapid attempts need: they pay out of a new listing). From it: `ChannelsInvariant`, `ChannelsOnlyAsTold`,
`ChannelsCriteriaHold`, `ChannelsReservesAllow`, `ChannelsRelativeAmountsKept`, `ChannelsCommandLineWins`, for any
channels, capacities, settings and sizes of a channel id.

**RapidRebalanceProofs.** `RapidInv` is inductive: types, the summary (`Told`), that in the decreasing phase the
amount is a fraction of the first one by the accelerator or less (`Fraction`, so that the next, smaller fraction is
below it), and that the amount stays under the limits of the hops (`UnderLimits`) everywhere in the loop and not only
where it is paid, with what makes the next amount do so too: half the accelerator gives one below the limits, and the
amount is zero only after a failed pick, which halves the accelerator. `Smallest` says that the minimum of a set of
limits is one of them. `Squeezing` is the part for a calm world: what is left on the route fits the amount that comes
next. While the amount increases (`Climbing`) it stays below the next multiple of the first amount once something gave
(the channels, the limit of the hops, a refusal), and half of that after each attempt; the accelerator is a power of
two (all its divisors but one are even), so that halving it ends at exactly one. While it decreases (`Descending`) it
fits the last fraction, but for one satoshi for each fraction tried, because the fractions are rounded down. All of it
holds until the pair no longer meets its criteria; in a calm world it then never does again (`StaysUnqualified`). From
these: `RapidTypes`, `RapidStaysWithinHigherCap`, `RapidSummaryHasTheTotals`, `RapidDecreaseGoesDown` and
`RapidSqueezes`.

**SessionProofs, session.** `InvoicesKept` shows that whatever the session does to a payment, its deadlines included,
is what some caller in `PaySpec` does, or nothing, so `InvoiceInv` holds here as well and is the first part of
`SessionInv`. The others say what an attempt works with from its pick on (`Working`: the fee limit is that of the
amount of the query), that `pay` runs only while it is called (`OnlyCalled`), that it was called with what the attempt
works with and goes on only with an allowed fee (`CallFits`), that a retry has an amount (`ProbedAmount`), and what is
known of the payments at every place (`Unpaid`: until a success is on its way to `main` or to rapid rebalancing, the
only payments known are those the stat file could not take, and rapid rebalancing runs only with one known; without it
neither the exit code nor the end of paying follows from what `main` looks at). `Smaller` is what `InvoiceFitsRoute`
needs: the amount is the one the routes were asked for, or a smaller one that a probe of an earlier route found. From
it: `SessionInvariant`, `SessionTypes`, `SessionExitCodeTold`, `SessionInvoiceFitsRoute`, `SessionFeeWithinLimit`,
`SessionStopsWhenPaid`, and `SessionForgetsInvoices`, the two properties of `Payment` in the session. No assumption is
made about how many routes a query returns.

**MissionControlProofs.** `MissionInv` is inductive: types, that what is remembered or left out did refuse a payment,
and that amounts remembered are not zero (`Recorded`), and what is known of the routes in hand (`InHand`): no channel
of a route that lnd returned was in the way of it but one that failed since (`Passed`), and the route of a payment,
rebuilt or not, is over the nodes of one of these (`Along`). The lemma `FirstFailedExists` says that a route that does
not pass has a first channel that failed (every set of natural numbers has a smallest one), without which nothing is
known of what `validateRoute` adds; `StillPassed`, that a new failure concerns only its own pair; `DeltaIsLarge`, what
the truncated delta of `validateRoute` says of the amounts. From it: `MissionControlTypes`, `IgnoredPairsWereRefused`,
and `FailedAmountsAreCancelled`: the amount that was compared is the one the hop forwards, so that what its channel
carries differs from the failed amount by the tolerance less the fee at least. Nothing is assumed about fees but that
none is negative, nor about the number of routes.

**NodeCacheProofs.** `CacheInv` is inductive: types; no update is in the future (`NotAhead`); whoever is between lock
and unlock holds the lock, and the holder is there (`Exclusive`); Ctrl+C is handled only after the cache was loaded
(`Handled`); a file that is not complete is empty (`EmptyOrWhole`); and what is about to be written is no older than
what the file holds (`UpToDate`, which needs `Exclusive`: nobody else writes between the merge and the write).
Together with `Opened` (the file is empty once it was truncated) it shows that every step is a step of `SharedCache`
or a stutter: `NodeCacheTypes`, `CacheImplementsShared`, for any number of processes and nodes and any faults.

Only model-checked: liveness (`PickReturns`, `SearchEnds`, `PayReturns`, `SessionEnds`, `LockIsGranted`, `RapidEnds`,
`QueryEnds`), because proofs about fairness and ENABLED are beyond the prover.

## 6. Where the code and its documentation disagree

With a run that shows it:

- `sessionCrash` (payment.go:35, main.go:267): a failed `AddInvoice` leaves a nil invoice in the cache, and the next
  attempt of the same amount panics on it; the panic runs the deferred `os.Exit(exitCode)` with code 0, while
  CHANGELOG.md:62-63 promises 1 or 2 for a failed rebalance.
- `lostProfitBase` (routes.go:66): the base fee of the source, in millisatoshi, is added to a product that is divided
  by a million afterwards, so the limit deducts a millionth of it; README.md:101 says "route_fee < target_fee *
  econ_ratio - source_fee". The same happens to the base fee of the target (routes.go:70), which makes the limit
  smaller: with a base fee of 3 and a rate of 100 for the target, a rate of 300 for the source, 15000 millisatoshi and
  a ratio of 1.3, the share of the target's fee exceeds the lost profit, but the limit is negative and the pair is
  refused. `Economical` therefore speaks of the target's rate where it says how low a limit can be; the base fee
  counts only in what it says of how high.
- `targetReserve` (channels.go:156): the reserve of the target is computed from the capacity of the source, so a
  target with more than twice that capacity is asked to go below its own reserve, against CHANGELOG.md:27.
  `ReservesAllow` shows that this is the only case.

Met while modelling; the models behave like the code, and the properties are stated around them:

- routes.go:233: a probe whose fee is above the limit replaces the good amount by a lower bound and so forgets an
  amount that was accepted; README.md:194-195 says a learned amount "is then done along this route".
- main.go:407: with Ctrl+C two goroutines save one after the other and either exits the process while the other has
  truncated the file; README.md:152 gives locking as the protection from a corrupted cache. `SharedCache` allows it as
  `Tear`.
- rebalancer.go:259: a failed pick sets the amount to zero, which means "no limit" to the next pick; if the HTLC limit
  equals the first amount it is exceeded, against CHANGELOG.md:25-26. `WithinHigherCap` shows that this is the only
  case.
- mission_ctl.go:20: the failed amount is stored for one hop and compared with the amount of the next, which differs
  by the fee of a hop; README.md:94 says a payment within the tolerance "will be cancelled". Hence the fee in
  `SameAmountCancelled`. Moreover only lnd's answer to a query is looked at: what fails later, while its other routes
  are left or before the route is rebuilt, is not compared any more (hence `since`), nor are the amounts of a rebuilt
  route (hence `answered`). mission_ctl.go:57: the HTLC limits are compared with the amount that arrives, not with the
  amount a hop forwards, which is larger by the fees of those after it.
- main.go:353: a node that is excluded as source or target stands for the channels with it that are active at that
  moment; one that comes back later is used. Hence `missed` in `OnlyAsTold`.
- routes.go:99: the route may come back by another channel of the target's node, one the user may have excluded, whose
  reserve and percentage were not looked at; rapid rebalancing then takes that one as its target, and the routes it
  rebuilds may end with yet another. `OnlyAsTold` says what holds of it, and the other properties of `Channels` are
  about `last = to`.
- channels.go:67: the age of a channel is an unsigned difference, so a channel whose id is beyond the height that was
  read (an alias, or a block that came later) counts as very old. Hence the last disjunct of `OnlyAsTold`.
- channels.go:191: `ParseInt` with 24 bits is signed, so the upper half of the heights, among them those of aliases,
  cannot be written as BLOCKxTXxOUT: the program ends with an error (`FitsInt`, `Fatal`).
- main.go:201: `perc` overrides `pfrom` and `pto` wherever it was set, also a `perc` of the file the percentages of
  the command line, which README.md:123 says take priority. Hence the exception in `CommandLineWins`.
- payment.go:161-173: a stat file that cannot be locked turns a successful payment into an error, and the session goes
  on paying; one that cannot be opened leaves a paid invoice in the cache. Hence `unsaved` in `PaidInvoiceForgotten`,
  `StopsWhenPaid` and `ExitCodeTold`.
- payment.go:129: nodes that could not be looked up (payment.go:97-110 only logs that) are dereferenced: a panic.
- rebalancer.go:70-76: the probed amount replaces `amt` for the remaining routes of the query, and is paid under the
  fee limit of the larger amount. lnd returns one route (routes.go:116), so that the first does not happen today; with
  more the route delivers more than its invoice asks for, which is the exception `InvoiceFitsRoute` states, and shows
  to be the only one. `FeeWithinLimit` is about the limit of the query.
- rebalancer.go:40-42: a route query that reaches its own deadline ends the session with exit code 1.
- main.go:412: the session's deadline is looked at before the result, so a success at the last moment exits with 2.
- rebalancer.go:311 and :324: a payment that succeeds at the deadline of a rapid attempt is not in the summary, and
  the fee of a route that `pay` replaced is the old one. Hence `calm` in `SummaryHasTheTotals`.
- rebalancer.go:144 and :277: an amount may be tried again on the way back, and the decreasing phase ends after one
  amount the channels limited, even if it was refused. Hence `~exitEarly` in `SqueezedUnlessLeftEarly`.
- rebalancer.go:251-256: the candidates are selected anew before every rapid payment, and once our own payments moved
  the pair past `pfrom` or `pto` there are none: rapid rebalancing stops, whatever is left on the route. README.md:82
  says so ("until criteria for channels is not" met). Hence `~Qualifies` in `SqueezedUnlessLeftEarly`.
- rebalancer.go:55-56: rapid rebalancing pays on after a success, as README.md:82 describes. Hence its part in
  `StopsWhenPaid`.
- rebalancer.go:324: a payment whose answer was lost is not in the summary either, which therefore is a lower bound.
- rebalancer.go:178: fractions of the first amount are rounded down, so a route whose first amount is no power of two
  keeps up to one satoshi for each fraction that was paid. Hence `halved` in `SqueezedUnlessLeftEarly`.
- routes.go:206: the tolerance is compared with the next amount to try, half a bracket away, so a probe may stop when
  it is within twice the tolerance; and if `params.MinAmount` is within the tolerance of the amount that failed, it
  stops before it asked anything. Hence `Misses` and `MinNearTotal` in `FindsTheLiquidity`.
- channels.go:200: the position in BLOCKxTXxOUT is parsed with 32 bits and then cut to 16, so one above 65535 silently
  names another channel. `parseScid` cuts it too, and `OnlyAsTold` is about the channel the program took it for.

## 7. What is not modelled

- The rounding of float64 in the fees and the fractions of a capacity, and the 64-bit width of amounts and products:
  the instances are small enough for exact arithmetic, and the program's amounts are bounded by the number of
  satoshis. Only the width of channel ids matters to a property, and there it is modelled.
- The commit fee: lnd's remote balance is taken as the capacity without the local one, so `ReservesAllow` is about
  what the two percent margin leaves for it.
- The listings of a rapid attempt (two calls of `ListChannels`, for the two nodes) are one moment. `RapidRebalance`
  keeps the channels in the middle of its route, though a rebuilt one may use others between the same nodes.
- The time that waiting for the lock of the stat file takes (payment.go:161 does not look at the context).
- The text of failures, all printing and colours, the tables of `--info`.
- The parsing of the config file and of flags: their result, a mixture of parameters that are set, is the input. The
  parameters that only name files and servers are in `Configuration` for their defaults only.
- `rebuildRoute` is modelled by what it changes: in `Session` and `Payment` the fee or a failure, in `MissionControl`
  the amounts and fees along the same nodes, in `Channels` the last channel.
- Help, version and information output: no decision of the program depends on what is printed.
- lnd and the network are external: they appear as the answers the code in `src/` distinguishes.

## 8. Plan

Done, in this order: `PairSelection` (the core of the loop) with its abstract pool and first theorems; `Probe`,
`Payment` and their theorems; `Session`, which composes the pool and the payment; `RapidRebalance`, `MissionControl`,
`NodeCache`; `ProbeSearch`, which joins `Probe` and `Payment`; `FeeLimit` and `Channels` with what they stand on; the
theorems about `FeeLimit`, `RapidRebalance`, `MissionControl`, `NodeCache` and, on top of those about `Payment`,
`Session`; the theorems about `Channels`, the halvings of `Probe`, the economical limits and the squeezing of rapid
rebalancing.

Next, theorems: the measures that make the searches end (`Probe`, `RapidRebalance`, `MissionControl`), as action
properties.

Next, models: `Session` with the detailed `Probe` in place of `ProbeSearch`, on one small instance; the lock of the
stat file as a second user of the lock in `NodeCache`.
