# Last Signal: a TLA+ model of the game server

Last Signal is a browser strategy game: settlements produce resources, build,
train units, march, trade and starve. All the authoritative state is in
MongoDB. It changes in two ways only: an HTTP *command* of a player, or the
*handler* of a scheduled game event. This directory models the parts of
`apps/server` and `packages/game-core` where those two meet.

Paths below are relative to the repository; `server/` stands for
`apps/server/src/`.

## 1. Inventory

### What the system is made of

| Component | State | Operations | Modelled by |
|---|---|---|---|
| Event scheduler, `server/scheduler` | `events`: status, dueAt, attempts, lease | scheduleEvent, cancelEvent; per worker: lease sweep, claim, dispatch, record failure | `Scheduler`, `EventContract` |
| Build queue, `server/settlements` | levels, resources, `buildQueue` | startBuild, cancelBuild, buildComplete | `BuildQueue` |
| Training queue | `trainingQueue`, troops | trainUnits, trainingComplete (one event per unit) | `TrainingQueue` |
| Food and starvation | stored Food and its instant, the pending tick, the last tick applied | the settle inside every command, ensureStarvationSchedule, starvationTick | `Starvation` |
| Movements, `server/movements` | movements; troops, awayTroops, stationedTroops of settlements | sendMovement, cancelMovement, recallSupport, evictSupport, movementArrive (by type), movementReturn | `Movements`; what fights and what is carried: `Warfare` |
| Combat, siege, loot, scouting, starvation formulas, `packages/game-core` | none (pure) | resolveBattle, resolveSiegePass, resolveLoot, resolveScouting, resolveStarvation | `Combat`, run inside `Warfare` |
| Oases, `server/oasis` | defenders and Food, each with its instant of settling | lazy regeneration, raid, scout | `Oases` |
| Settlement creation; world and NPC bootstrap | world, oases, settlements, accounts' protection | createSettlement with placement, settlers founding, bootstrap, seedIfNeeded | `Onboarding` (the race of settle marches for a tile: `Movements`) |
| Market, `server/market` | offers, escrow, merchants, exchanges | createOffer, cancelOffer, acceptOffer, expiry, the trade legs, startExchange and its completion | `Market` |
| Notification outbox | rows, one self-rescheduling event | enqueue, dispatch, boot seed | `Outbox` |
| Reports' realtime publisher | change stream, resume token, reconnect timer | boot, change, error, close, reconnect, shutdown | `ReportsPublisher` |
| Economy formulas and catalogue, `packages/game-core` | none (pure) | prices, times, production, storage, upkeep, prerequisites, Influence | `Economy`, `Catalogue` |
| Web client, base screen, `apps/web` | the last reply, its own clock | what is shown, offered, blocked and forecast | `Client` |
| Accounts, auth, sessions; map views; health; dev tools | single documents | reads and guarded inserts | not modelled |
| Reference player, tools, docs, assets | no authoritative state | | not modelled |

### How they interact

* A command runs in one MongoDB transaction: it settles the settlement's
  resources up to its own reading of the clock, maintains the starvation
  schedule, validates, writes under a version guard, and may schedule or delete
  events in the same transaction. A version conflict reruns the whole command,
  up to five times.
* The scheduler polls. It claims one due event at a time, earliest `dueAt`
  first, and runs the handler and the event's `done` mark in one transaction.
  The claim and the bookkeeping of failures are *outside* that transaction.
* A handler re-reads the aggregate behind its event (the queue item, the order
  and its remaining count, the movement's status, the last starvation tick) and
  does nothing when it has moved on. That guard, not the queue, is what makes
  delivery idempotent.

### What is hard here

* **Between claim and commit.** A process may die, lose an acknowledgement, or
  outlive its lease; a command may delete or replace an event another process
  already holds in memory.
* **Two writers of one mirror.** `awayTroops` and the pending starvation tick
  are denormalised: many commands and handlers each have to keep them right.
* **Lazy time.** Food and production are settled when somebody looks, with
  instants that come from `Date.now()` in a command and from `dueAt` in a
  handler, and that need not arrive in order.
* **Counters nothing recomputes.** `awayTroops` and `busyMerchants` are changed by
  several commands and handlers and read by others as the truth.
* **Chains.** Training, promotion, return legs and starvation each schedule
  their own successor; one missing link stops everything silently.

* **Reads before the transaction.** A tile, the specs of the NPCs, a resume token
  are read first and used later; what makes that safe, where it is safe, is
  what the two transactions both write.
* **Mirrored rules.** The client repeats the server's checks, on a state that it
  extrapolates.

`PROJECT.json` lists these at their lines, with the properties that cover them
or the reason none does.

## 2. The modules

### EventContract and Scheduler

`EventContract` says what the game asks of the scheduler: an armed aggregate's
effect is applied at most once, never before the scheduled instant and never
after the cancelling command. `Scheduler` is the code of
`scheduler.service.ts`: `SweepExpiredLeases`, `ClaimNextDueEvent` (or
`NothingDue`), then `DispatchCommits` / `DispatchThrows` / `FailUndeliverable`,
then `RecordFailure`, each a step of its own per worker, since each is its own
database call. `pc[w]` is the place of worker `w` in `runOnce`, `job[w]` and
`seen[w]` the document it read at the claim. `CommitUnacknowledged` is the
commit whose acknowledgement is lost, so that the failure is recorded *over* a
committed outcome; `Crash` drops a worker's memory anywhere. `Write` shows that
these writes go by `_id` alone.

The code runs one process, but nothing in it depends on that; the module allows
any number of workers, which also covers a lease that expires under a slow
handler. Time is kept as countdowns (`dueIn`, `leaseAge`, `wait`), so no horizon
is needed and liveness is meaningful.

`Scheduler` is refined into its contract by the identity on `aggregate`,
`effects` and `wait`, two of which are history (`effects`, `wait`).

### BuildQueue and TrainingQueue

`BuildQueue` is one settlement's queue: `StartBuild` with the checks of the
command (maximum level, requirements, capacity, Food gate, storage, price),
`CancelBuild` with its full refund, `BuildComplete` with the level rule
`min(target, level + 1)`, and `Requeue`, the promotion both of them share.
`SiegePass` is what an assault does to this state. Resources are one number;
`books` is a history variable of what accrued and what was sunk. `TrainingQueue`
extends it with orders whose units come one event at a time, spending the same
stock and read by the same Food gate (`QueuesSpec`).

Delivery is an over-approximation of `Scheduler`: once claimed, an event's
handler may run at any later time and again, including after cancellation.

### Starvation

One settlement's Food. Food is the number at `calcAt`, `Settled(t)` is the lazy
settle, `Deadline` is computeStarvationDeadline, `Ensured` is what
ensureStarvationSchedule makes of the schedule, and `Command` is what every
command of the owner does before its own effect. A command works with an instant
up to `Lag` old: the code reads `Date.now()` when the request arrives, and commits
later. Handlers work with their event's `dueAt`. `held` are the documents that
workers have read, so that an event can be deleted or replaced between its claim
and its handler. The unit of time is longer than the one-second rescheduling
epsilon, and a unit eats one Food per unit of time: at `home`, on the march
(`away`), or as one of the `guests`.

The writers of upkeep differ in when they fix the schedule:

| Writer | Schedule |
|---|---|
| `StartBuild`, `TrainUnits`, `SendMovement`, `GetSettlementState` | before their effect, which does not change net Food |
| `BuildComplete`, `TrainingComplete`, `SupportArrive` | after it, from the event's `dueAt` |
| `RecallSupport` (origin) | before and after its units eat here again |
| `SupportIsEvicted` (origin) | after |
| `EvictSupport` (host) | before the guests leave, not after |
| `GuestsAreRecalled` (host) | never |
| `AttackArrives`: battle, loot, scouts, siege | only if a siege changed a level |
| `MarchArrives`: losses abroad, founding, support that stays | never |
| `MovementReturn` | never; it changes no upkeep |

Those that do not fix it afterwards only lower the upkeep. A noted tick may then be
unnecessary (movements.service.ts:1038-1064 says so), and `DeficitIsWatched` says one
direction only: a deficit has a noted tick, and a noted tick was scheduled and not cancelled.

### Movements

The troop ledger of several settlements, one owner each. `SendMovement`,
`CancelMovement`, `ReturnStationedContingent` (recall by the owner and eviction
by the host are the same write), the four arrivals, `MovementReturn`, and the
two other writers of the same lists: `StarvationTick` and `CreateSettlement` (a
new account placed on a tile). `Mourned` is the write to the origin's
`awayTroops` that each resolver has to make. Who falls in a battle is free.

A scheduled event may be handled at any time, repeatedly, and after deletion.

Two settle marches that meet on a tile: the loser's insert fails on the unique
index. A duplicate key inside a transaction aborts it in MongoDB, so the
`catch` of `settle-arrival.resolver.ts` cannot finish there; `withTransaction`
reruns the handler, which now sees the tile taken. Either way the march turns
around, which is what `SettlersArrive` says.

### Market

Offers, the two legs of an accepted one, exchanges, and what they share: the
stock and the merchants of settlements. `CreateOffer` escrows the goods and
reserves nobody; `AcceptOffer` is the only step on two settlements; a leg is a
movement, so `CancelLeg` is the generic `cancelMovement`, `Arrive` the trade
resolver and `Return` the return handler with its `cargo` branch. `loaded` is
whether `cargo` is still set, on which the code decides what comes home. `docs`
and `told` are the trade reports, upserted by both of these handlers. Every
command settles first: `Gains` are the possible net productions. `ledger` is
history, what settling gave the world less what overflowed a cap.

A trade leg carries goods and merchants and no units, so it is here and not in
`Movements`. Markets grow and are torn down under the merchants
(`MarketLevelChanges`). Delivery is as in `Movements`.

### Combat, Warfare and Oases

`Combat` holds the formulas as operators. Fractions are exact: the code rounds
`count * x` for a casualty fraction `x = (p/q)^1.5`, so a loss of at least `k`
units is decided by comparing integers (the identities are in the module), and
no real number is ever computed. `Warfare` runs them where the code does:
`SendMovement` with the checks of roles, attack power and siege target,
`BattleArrives` (battle, loot, siege pass, storage cut to the caps that are left,
the reports of the owner, the attacker and every guest), `ScoutArrives`,
`MovementReturn` with its clamped credit, and `StarvationTick`. Net Food is what
the farm makes less what buildings, guests and the town's own troops eat, at home
and on the march (`awayTroops`). Buildings and marchers cannot be killed, so that a
deficit may remain when nobody is left to die, the case starvation.ts:37-41 reports
as not resolved; `Outing` is what the town may have on the march at the start, and
`TownReturn` brings it home. A movement is
handled once here: repeated delivery and every other march are the subject of
`Movements`, where the outcome is free, so the two modules share the actions
and split the data. `Oases` extends it with an unclaimed oasis: its
defenders grow by whole intervals, its Food continuously, both settled only on
contact.

### Economy, Catalogue and Client

`Catalogue` is the shipped balance data, `Economy` its formulas in exact
arithmetic: amounts in a unit so small that a rate of a thousandth per hour
adds exactly one of it per ten-minute tick. `Client` puts the server's
`startBuild` and `trainUnits` checks beside the base screen's
`computeBuildEligibility`, `computeUnitTrainEligibility`, clock and forecast. Each
side is translated from its own source file. Replies are late and may overtake
each other; battles, support and marches change the settlement behind the
screen. Its parts have the prefix of the module where a proof needs them beside
other specifications (`ClientInit`, `ClientNext`, `ClientSpec`).

### Outbox

Rows, the `notificationDispatch` event as slots (`beat`), the pass in progress,
and a second process that boots on the same empty database (`Seed`, `StartDispatcher`,
`CrashDispatcher`; `RivalLooks`, `RivalSeeds`). A pass is the
handler's own steps: `Claim` and its query, `Deliver` or `DeliverRejects` for each
provider in turn, then `Commit`, which writes the marks, the successor event and
`done` together. `Rerun` is `withTransaction` repeating the callback (the
providers have sent already), `Abort` a failure that `recordFailure` counts.

### ReportsPublisher

Reports are numbered by their commits and a number is a resume token. The
streams are slots, because several can exist: the close of a failed stream is
heard later than its error, by a listener that does not ask which stream is the
current one. Writes of the persisted token are not awaited, so `writes` is a
set that lands in any order or not at all. History: what was `pushed`, and what
was `skipped` by a stream that had no token to begin at.

### Onboarding

Two servers boot side by side (`BootWorld`, `CreateWorld`, `BuildNpcSpecs`,
`ClaimAndInsert`, `CrashBooting`), and requests for settlements are split where the
code awaits: `FindTile` outside the transaction, `CountSettlements` in its
snapshot, `CreateSettlement` with its conflict on the account or the tile,
`SettlersArrive` and `FoundSettlement` for settlers. `Allowed` is what the
Influence of an account comes to; `MCOnboarding` checks its values against
`Economy`.

## 3. Runs

| Run | Instance | Shows |
|---|---|---|
| `sched_pair` | 2 workers, 2 events, one undeliverable, lease 2, 3 attempts, 2 faults | the contract is implemented, no work lost, dueAt kept over a lost lease, everything resolved |
| `build_single` | 3 items, 2 types, 1 slot + 2 waiting | events and slots agree, levels bounded; each landing raises; every item leaves |
| `training` | 2 orders of 1 or 2 units beside 1 upgrade | each unit credited once, chain unbroken, joint books |
| `starve` | 1 build, 1 training, 1 support, 1 attack, 1 march and its return, at most 3 of these begun, 3 ticks, 1 fault | a deficit is always watched; hours only advance |
| `starve_one` (violation) | 1 attack, 1 march, 3 ticks | a stale tick leaves a second live one beside the noted |
| `moves` | 2 settlements, 2 marches, 1 tile, 3 units | ledger exact, mirror exact, tile once, marches end |
| `war` | 1 town, 2 guests, 1 oasis, 2 marches of 4 army shapes, the town's own troops out or not, 2 hours | loot conserved and only for victories, nobody hurt untold, hunger in order, oases unharmed by visits |
| `market` | 2 settlements, 1 offer, 1 exchange, 2 kinds, amounts 1 and 2, cap 2 | goods arrive once, no value gained, merchants exact, one report a party, nothing stranded |
| `client` | the real catalogue, a settlement some hours old, 2 ticks, 1 reply underway | the screen judges as the server does, its offers are honoured, its forecasts come true while Food does not fall |
| `push` | 2 reports, 2 faults, 4 stream slots | no resume passes over a report; every report is pushed in the end |
| `outbox` | 5 rows, batches of 2, 2 providers, 3 faults | heartbeats neither stop nor multiply, nothing is marked unsent, rows are delivered |
| `onboarding` | 2 processes, 4 tiles, a newcomer and an older account, 2 requests at a time | one home for a newcomer, one world and one seeding, requests end |

### The bounds, and why they are enough

* *Scheduler.* Two events make an order, a tie and an overtaking; two workers
  make a stale writer; three attempts let an event fail, be retried and be
  dead-lettered; a lease of 2 is outlived by a dispatch and by a backoff.
  `MaxLate` only merges lateness that can no longer decide an order
  between two events. `crashes` counts the faults and is bounded by the guards;
  no state constraint is used.
* *BuildQueue.* Three items fill one slot and both waiting places, so a
  cancellation can hit the first, the middle and the last. `MaxLevel = 2`
  makes the cap reachable with one queued upgrade too many.
* *TrainingQueue.* A batch of two has a first, non-final unit, which is the case
  the remaining-count guard is for; two orders compete for one barracks.
* *Starvation.* Time runs to 2 with `Hour = 1`, so that the hourly chain repeats (to 4
  in `starve_one`); three ticks are one more than a replacement needs. Three works
  (`MaxWorks`) are a deficit, its remedy and a third writer between them. A run in
  which the ids of the ticks are used up does not schedule another.
* *Movements.* Two marches are a race for the tile, an attack on a settlement
  whose own units are abroad, or support followed by a recall under a second id.

* *Market.* An offer and an exchange make every pair of writers of one
  settlement's stock and merchants, and the two legs of the offer every order
  of the four handlers that write its reports. A cap of 2 is overflowed by
  every kind of credit; of the two merchants an offer or an exchange takes one
  or both; a level lost leaves fewer merchants than are busy.

* *Warfare.* Four army shapes are one for each branch of the battle: one that
  loses, one that wins and loots, one with rams, scouts. One store starts above its
  cap. The numbers keep every
  odds below 400, so that its cube fits TLC's integers. Two guests tell a wiped
  contingent from an untouched one; the stores overflow; two hours give an
  oasis a remainder and then an interval. With its own troops on the march, the
  town can have more to feed than it can kill.
* *Client.* The start is chosen so that every reason for a refusal occurs: a
  level above the maximum, a missing prerequisite, a full queue, a price above
  the storage, one that is never affordable. `TOP` is the highest level priced.
* *ReportsPublisher.* Two faults make two reconnects, a crash between them, an
  oplog that ends inside a resume, and up to three streams at once; four slots
  are never all in use, so the bound on slots decides nothing.
* *Outbox.* Five rows are two full batches and a rest, with one row rejected for
  ever in the first; two attempts and three faults dead-letter a heartbeat and
  leave one fault for its successor.
* *Onboarding.* Four tiles on a line hold two settlements, so requests collide,
  exhaust their attempts and run out of tiles; the two processes' seeds draw
  different oases.

Deadlock is not checked where the instance may really stop (no id left to use).
`CHECK_DEADLOCK` stays on for the scheduler: time always passes.

### Fairness

`FairSpec` of `Scheduler` assumes that time passes and that each worker keeps
making steps: `scheduleNextTick` re-arms the poll timer after every tick,
whatever its outcome, and every database call returns or rejects. Nothing is
assumed about commands, faults, or handlers succeeding. Under it
`EventuallyResolved` says that an armed aggregate is resolved or its event
dead-lettered. The other modules assume exactly that of their events (weak
fairness of handling an event that stays due; a failure dead-letters it and
ends the obligation), and their liveness properties have the same exception.
No player is ever forced to act. `Outbox` and `ReportsPublisher` add that
a process that died is restarted, which is what a process manager is for, and
that pending timers fire; `Onboarding` only that a handler which has started runs
on. No fault is ever assumed to stop: the faults are bounded in number instead,
as the tables say.

### Where the code and its texts disagree

One disagreement is a run with `expect: violation`, quoted in `PROJECT.json`:
`ExactlyOneTick` (`starve_one`). `cancelEvent` cannot recall a tick a worker has
claimed, and the handler's guard (`lastStarvationTickAt`) does not notice that it
was replaced. In the trace an attack arrives late and razes a farm, so that the
settlement notes a tick `k1` that is already due; a worker claims it. `sendMovement`
settles with the marcher counted, finds another deadline, deletes `k1` and notes `k2`.
Then the handler of `k1` runs from the document its worker holds: nobody it could kill
is at home, the marcher's deficit remains, and it schedules and notes `k3` without a look
at `k2`. Both are queued and will be handled, and only `k3` is noted.

The following are definitions of the modules, marked with the configuration in
which TLC refutes them. To see the trace, add the name to that file's `INVARIANTS`, or
to its `PROPERTIES` for `ReplayInDueOrder` and `UpkeepFromCredit`, which are about
steps.

| Property | Configuration | What happens |
|---|---|---|
| `ReplayInDueOrder` | `sched_pair` | an event whose worker crashed is overtaken by later ones until its lease expires; the design promises ascending `dueAt` after a restart |
| `UpkeepFromCredit` | `starve` | `trainingComplete` credits a unit without settling first, so upkeep is charged for time before it existed |
| `TradeIsMutual` | `market` | within the cancel window a party of an accepted trade calls its own leg back, and still receives the other's |
| `NeverTwoStreams` | `push` | the late close of a replaced stream opens another beside the one that stands |
| `InfluenceRespected` | `onboarding` | beyond its first settlement an account's requests write nothing in common, so two of them can pass the limit together |
| `ForecastsHold` | `client` | `msUntilAffordable` skips a resource that suffices now although it is falling, so the forecast may name an instant at which the price cannot be paid |

Read in the code while modelling, without a run of their own:

* The Food gate (`settlements.service.ts:163-171`) does not count upgrades already
  queued, so two can pass it one by one and starve the settlement together;
  `docs/M1_DESIGN_DECISIONS.md:99-100` says a build that would is refused.
* The comment on `createSettlement` (562-569) calls it a known gap that two racing
  calls give a newcomer two settlements. The stamp of `protectedUntil` on the
  account closes it, as `OneHomeForNewcomers` proves.
* `notifications.module.ts` says that a second dispatch event, seeded by a second
  process booting at the same time, is simply drained. It is not: each reschedules
  itself for ever. `HeartbeatsConserved` counts them.
* `PROGRESS.md:1019` and `battle-arrival.resolver.ts:712-714` call the siege pass of a
  beaten attacker a complete no-op. The stores are still cut to their caps (775-776),
  and a cancelled build's refund (`settlements.service.ts:253`, not clamped) may
  have filled them above those. `SpoilsNeedVictory` allows just that; the town
  of `war` starts with such a store.
* `settle-arrival.resolver.ts` catches a duplicate key inside its transaction. The
  server has aborted the transaction by then; the rerun sees the tile taken.
* The count picker of the training card (`TrainingBuildingCard.tsx:111`) has no upper
  end, while `trainUnits` refuses more than `MAX_TRAIN_COUNT` as `invalidCount`
  (`settlements.service.ts:355`) and `trainEligibility.ts` looks at the price only. The
  promises of `Client` are therefore about orders that are `Sized`.
* A publisher whose token could not be read, or that never had one, starts after
  whatever was inserted meanwhile: `skipped` in `ReportsPublisher`.

## 4. Proofs

Every safety property of a passing run is a theorem. The theorems hold for every
value of the constants that satisfies the named assumption of the module (`SchedulerAssumption`, `BuildAssumption`,
`TrainingAssumption`, `StarvationAssumption`, `MovementsAssumption`, `MarketAssumption`,
`CombatAssumption`, `WarfareAssumption`, `OasesAssumption`, `PublisherAssumption`,
`OutboxAssumption`, `OnboardingAssumption`, `ClientAssumption`), which the runs evaluate on their
instances. No further axiom is used. The assumptions say what kind of value a constant is,
that the sets summed over are finite, and little else. Two say more. A settlement starts fed by itself
(`StartHome <= StartGross`): `createSettlement` places one without troops, and
`npc-generator.spec.ts:117-130` holds the NPCs' to it. The spread of an exchange is
below 100 %.

| Module | About | Theorems |
|---|---|---|
| `SumsProofs` | the folds of the ledgers | lemmas only |
| `SchedulerProofs` | `Scheduler` | `WorkIsNeverLost`, `SchedulerImplementsContract`, `LeaseLossIsFree` |
| `QueueProofs` | `BuildQueue`, `TrainingQueue` | `RunningHasEvent`, `LevelsStayInRange`, `SlotsAreWellUsed`, `PaidUpgradesLand`, `UnitsCreditedOnce`, `ChainsUnbroken`, `BooksOfBothQueues`, `QueuesSafe` |
| `StarvationProofs` | `Starvation` | `DeficitIsWatched_Always`, `HoursOnlyAdvance_Always` |
| `MovementsProofs` | `Movements` | `AwayTroopsMatch_Always`, `EverybodyAccountedFor_Always`, `TileFoundedOnce_Always`, `NeverClamped`, `LegHasItsEvent_Always` |
| `MarketProofs` | `Market` | `TradesReported`, `Merchants_Always`, `Books_Always`, `NoValuePrinted_Always`, `NothingForgotten` |
| `WarfareProofs` | `Combat`, `Warfare`, `Oases` | `SpoilsAreConserved`, `LossesAreReported`, `NothingWithoutVictory`, `HungerInOrder`, `OasisFoundAsLeft` |
| `EdgeProofs` | `ReportsPublisher`, `Outbox`, `Onboarding`, `Economy`, `Client` | `ResumeSkipsNothing`, `PublisherKeepsTrying`, `NothingMarkedUnsent`, `HeartbeatsConserved_Always`, `OneHomeForNewcomers`, `OneWorldOneSeeding_Always`, `MirrorsAlwaysAgree`, `OffersAlwaysHonoured`, `ForecastsComeTrue`, `SettlingIsUnseen` |

The type invariants are theorems as well, or conjuncts of an inductive invariant below.

### Sums (`SumsProofs`)

The ledgers are sums over finite sets, folds of the community module `Functions`.
The library's facts about folds and its induction theorems take operators as
parameters, which no installed prover can instantiate. So the sum is derived from
the definition of the fold: it is the value at S of a function on the subsets of S
that the recursion determines (`AddsUnique`) and that exists (`AddsExists`).
Both go by induction over strict subsets, with the property given as a *set*
of subsets (`StrongSetInduction`), where `WFMin` needs no operator. What follows is
what ledgers need: a sum with one value changed (`SumChange`), with two sums
exchanged (`SumSwap`), over a part (`SumPart`), of a function from which one
place gives to another (`TotalMoves`).

### The scheduler (`SchedulerProofs`)

`Inductive` proves `Spec => []IInv`, with

    IInv == TypeOK /\ HeldIsDue /\ NeverEarly /\ DomainAgrees /\ NoWorkLost

`NoWorkLost` (what is armed has an event that will fire or is visibly dead) is
not inductive: it needs to know that an armed aggregate's event was not deleted
and that the documents workers hold were claimed when due. `NeverEarly` is
needed because a worker may apply an event long after its claim: what must be
shown is that the document in its hands was due already then. From it follow
`TypeCorrect`, `WorkIsNeverLost` and `SchedulerImplementsContract`: every step
of any number of workers is a step of `EventContract` or a stutter.
`LeaseLossIsFree` is that only `RecordFailure` moves `dueAt`, and it counts an attempt.

### The queues (`QueueProofs`)

`QueueInductive` proves `IInv == TypeOK /\ Ledger /\ RunningIffScheduled /\
NeverPastMax`. `Ledger` is the strengthening: ids are used once, a fresh id has
no event, and a document in a worker's hands of an item still queued belongs to
a running item, without which a handler could land a waiting upgrade.
`NeverPastMax` is about cardinalities of the queued items of each type, so the
step lemmas (`StartInv`, `LeaveInv`) follow how each action adds or removes one.

`SlotsInductive` adds that places grow with every append and `SlotsWellUsed`.
Its core are three lemmas on the promotion, which takes the items with fewer
than k before them: there are at most k (`FirstBounded`, the ranks are an
injection into 0..k-1), exactly k unless all are taken (`FirstFull`, by a
least item left out, from the well-foundedness of strict subset), and they are
the earliest (`FirstOrdered`).

`TargetsInductive` and `PaidUpgradesLand` are about one slot, as the game is
configured: a queued upgrade's target is at least the level that stands, plus
the upgrades of its type ahead of it, plus one. Sieges and cancellations lower
what is subtracted; a build that lands is ahead of all others because it holds
the only slot. So `min(target, level + 1)` is always `level + 1`, and no player
pays for an upgrade that does nothing. With two slots this is false.

`UnitsCreditedOnce` and `ChainsUnbroken` are about `QueuesSpec`, with the build
queue and sieges beside the orders. What a repeated or late event cannot do
rests on `Unscheduled`: no event exists, and no worker holds one, for a count
that an order has not come down to. `OrderInv` is that, an order's share of
the two properties (`Sound(o)`), and one order to a building.

`BooksOfBothQueues` joins them, since neither ledger closes alone:

    JointInv == IInv /\ OrderInv /\ JointBooksBalance

A landing or a unit moves a price from the queue to what was sunk, a
cancellation back into stock; each is `SumChange` at one item or order, and
needs from `Ledger` and `Sound` that the item or the unit is not one already counted.

### Starvation (`StarvationProofs`)

    IInv == TypeOK /\ AwayIsMarching /\ OwedWereScheduled /\ DeficitIsWatched

A writer that calls ensureStarvationSchedule works out the net Food itself and hands it
over, so `DeficitIsWatched` holds only if each computes it
from the values it is about to save, or changes them afterwards by nothing that costs
Food. `EnsureStep` is the schedule for any such
values, and each action is reduced to it. The writers that do not fix the schedule
need the other half: they leave net Food no lower than the noted tick was fixed for, which
for a march that is over or turns back needs `AwayIsMarching`. What the pending tick must be
protected from is a deletion: `DeficitIsWatched` says that the event of a noted tick
was scheduled and not cancelled. `AwayIsMarching` makes the troops on the road the
sum of the marches that are owed their return, so that a return takes away only what
is there; `OwedWereScheduled` keeps one march from being sent out twice.
`HoursOnlyAdvance` is a property of steps: `Settled` never goes back, and the guard on
`lastStarvationTickAt` is the only way to a death.

### Movements (`MovementsProofs`)

    IInv == TypeOK /\ AwayTroopsMatch /\ EverybodyAccountedFor

The three need each other. That no count goes negative in `TypeOK` is only
true because a settlement's `awayTroops` is at least what the movement at hand
carries, which is `AwayTroopsMatch` (`CarriedIsAway`); this gives `NeverClamped`: the
clamp of `subtractUnitCounts`, which would hide a lost unit, never bites. A battle
moves the contingents of all guests of one host at once, and the mirror of each of
their homes by its own loss (`GuestsFall`).

`LegHasItsEvent` (with `TypeOK`, `MarchInv`) is what liveness on the run rests on: a
movement under way has the event of its leg. `TileFoundedOnce` is a property of
steps: both writers of a tile, settlers and a new account, look at it in the step that takes it.

### The market (`MarketProofs`)

`MarketTypeCorrect` proves `Spec => []TypeOK`, whose part `Stocked` is more than
a type: whatever is posted, refunded, delivered and settled, storage stays
between zero and its cap. Each action has a lemma; those on `LeftType` and
`CreditStocked` carry the arithmetic.

`TradesReported` proves `Spec => []TradeReported` from

    RInv == TypeOK /\ (\A o : Consistent(o)) /\ (\A l : Reported(l))

`Consistent` is the strengthening. That a report says of its reader's own side
only needs the parties to be of different accounts, which only the guard of
`AcceptOffer` gives; that a leg's first report is not already there needs that
an offer not accepted has no legs and no reports; and that a delivery is told
exactly when cargo is unset needs that a leg on its way out is loaded.
`Untouched` and `ByOffer` reduce each step to the one offer it is about.

`Merchants_Always` is about a counter that several writers adjust by differences. The
invariant `RInv` makes the legs of an offer distinct summands with known senders;
each action then moves one or two values of the sums (`MerchantsFollow`), and
`BusyCovers` shows that a return frees no more merchants than are counted, so that the
code's clamp at zero never hides one. `Books_Always` is the same of goods: for
each kind, stocks, escrow, cargo and what exchanges hold come to what settling
gave and exchanges made of it. `NoValuePrinted_Always` combines the books with arithmetic:
the rounded-down output of an exchange is worth no more than its input, for any
weights and any spread below 100 % (`OutputFair`, `ExchangesLose`).

`NothingForgotten` is what `NothingStranded` rests on: what the market waits for has an
event that is due or dead-lettered (`WInv`). Every cancellation deletes an event, so
the proof shows that it is one nobody waits for any more, or that another is
scheduled in the same step.

### Warfare and oases (`WarfareProofs`)

    IInv == WarTypes /\ Standing(town.buildings) /\ NoReportAhead
            /\ SpoilsOnTheWay /\ SpoilsConserved
    OasisIInv == IInv /\ AsLastLeft

All theorems are about `OasisSpec`, with the town, the oasis and every march. None of
them depends on the curve of the losses: `Fought` is what a battle may do for *any*
losses between none and all, and `Struck` what a siege may. So they hold of whatever
exponent and odds the game is balanced to; what the curve itself gives is only
model-checked.

`SpoilsAreConserved` needs to know where a movement's loot is counted in each of
its states (`SpoilsOnTheWay`). The return is one lemma (`ComesBack`) for battles,
scouting and oasis raids. `LossesAreReported` and `NothingWithoutVictory` are properties of
steps: a report is *new* because none is ahead of what it tells of (`NoReportAhead`), and
the Command Center keeps its floor because no siege starts below it (`Standing`).

`HungerInOrder` is about the fold that computes the deaths. The order of the pools
is a strict total order (`CompareOrders`, `DeathOrders`); the fold kills a pool
only when those before it are empty (`KilledIs`, `NobodyOutOfTurn`), it kills enough
or everybody (`EnoughDie`) and stops in time (`NoMoreThanNeeded`). That what it
subtracts is the town's upkeep is `NetIs`: net Food is a part no death changes
(`Fixed`: the farm less buildings and marchers, of either sign) less the needs of the pools, whose sum
over pools of sums over types is exchanged (`SumSwap`).

`OasisFoundAsLeft` says that looking changes nothing: `AsLastLeft` is that an oasis is
what settling the state after the last battle would give. It rests on `SettleTwice`
(settling at t, then at u, is settling at u), and that on the whole intervals of
regrowth (`WholeIntervals`).

### The edges of the server (`EdgeProofs`)

*The publisher.* `ResumeSkipsNothing` proves `Spec => []NothingBehindTheToken`. A
change turns the position of a stream into a token, so the invariant needs the
same of every position, of streams that are already replaced too
(`PositionsAccounted`). Since `pushed` and `skipped` only grow, a step can only
break it with a new number, and three steps make one: a boot copies the stored
token, a plain watch starts after reports that count as skipped, a change
pushes the report it names. `PublisherKeepsTrying` is what its liveness rests on: every
path on which a stream closes leaves a reconnect pending, also the close that is
heard after the stream was replaced.

*The outbox.* `NothingMarkedUnsent` needs the state of the pass: the row in hand
was sent by the providers it is through with, the rows to be marked by all,
and none of them is muted (`PassSound`, `MutedStaysOut`). That a pass takes its rows
and providers from what is left rests on `MinIsMember`, by well-foundedness of
the numbers. `HeartbeatsConserved_Always` needs that the event a pass holds is
leased (`PassHolds`), and that as many slots are in use, by an event live or dead-lettered, as
were ever seeded: a commit empties one and fills one.

*Onboarding.* `OneHomeForNewcomers` is about requests that count in one step and
insert in a later one. The count may be stale by then; what is not is that an
account with a settlement is stamped (`Stamped`), and that a newcomer's request
counted none (`TaskSound`), so that the stamp conflicts. A request that counted
some belongs to an account that may have more. `OneWorldOneSeeding_Always` is about
processes that die and boot anywhere between looking and claiming. `SeedingSound` is its
strengthening: the oases are those of the seed that won, a process about to
insert holds as many specs as it was told to seed, and the claim
is in the same transaction as the NPCs it is for.

*The base screen.* `MirrorsAlwaysAgree`, `OffersAlwaysHonoured` and `ForecastsComeTrue`
compare two programs on the shipped catalogue, for any stock, levels, queues,
troops, orders and replies. `ClientTypeOK` is inductive as it stands (`ClientTypesStep`):
stocks stay non-negative because what is bought was paid for by what was settled
first. The promises then hold in every state with these types
(`MirrorsFollow`, `OffersFollow`, `ForecastsFollow`), along three arguments:

* Both sides' formulas are of natural numbers for all levels. Prices and yields are
  given by recursive functions on level; the types are built in stages up to the
  highest level (`Staged`, `StageNext`) because induction is not available.
* Where no rate is negative, settling takes nothing away (`SettlingGrows`), so the
  server, whose clock is ahead, can still pay for what the screen offers.
* The longest of the waits is the first instant at which all is paid (`Ceiling`,
  `LongestWait`, `ForecastExact`). It fails exactly where a rate is negative, which
  is what refutes `ForecastsHold`.

`SettlingIsUnseen` is about the lazy settling all of this rests on: to settle a
document at s and again at t comes to settling it at t, so views that settle and store
change nothing that is seen later, also with stores above their caps or Food
run dry.

### What stays with TLC

* Liveness (`EventuallyResolved`, `EventuallyLeaves`, `EventuallyTrained`,
  `EveryMarchEnds`, `NothingStranded`, `EveryReportPushed`, `RowsDelivered`,
  `RequestsEnd`): fairness and ENABLED are outside the prover's reach.
* The amounts that `Combat` computes. A theorem would speak of every loss curve, which
  is what `WarfareProofs` does; the run takes the real one.
* The refutations of section 3.

## 5. What is not modelled, and why

* *Time a build or a march takes, battle results, production rates* in the
  modules about queues and ledgers. They are data there: constants or free
  choices. `Warfare`, `Economy` and `Client` compute them.
* *Version conflicts.* A command that loses the race on `version` reruns from
  the start, so it is one atomic step or, after five tries, none. A handler has
  no version filter but its transaction conflicts at the document and is rerun.
* *The second resource types, several unit types* in those modules: one of each
  shows every interleaving the code distinguishes.
* *`cancelBuild`, `cancelMovement` and the market's commands and deliveries as writers of
  Food.* Missing from `Starvation`, which is marked "partly" for it. A build cancelled, goods
  sent or delivered change the stored Food; a march cancelled turns back early and writes no
  settlement. None of them changes production or mouths.
  `StartBuild` covers one queue item; the order of the queue is in `BuildQueue`.
* *The town's departures in `Warfare`*, and losses among its marchers: what it has on the
  march at the start comes home whole. Those flows are in `Starvation` and `Movements`.
* *Beginner protection and the anti-wall checks when a march is sent, and the
  views of movements*: reads without a later step.
* *Fractions.* Resources are floats in the code. In the ledgers they are
  integers, and an exchange is rounded down, which only makes its loss larger; loot
  shares are exact floors; `Economy` is exact in its own small unit.
* *Storage caps that change* in `Market`. A siege cuts the stock to the caps it
  leaves (`Warfare` does), so the market's caps are constant.
* *The ring a settlement is placed in, terrain, names, what an NPC is made of.*
  `Onboarding` chooses among all legal tiles, which includes the code's draw.
* *`regenerate`*, the development tool that deletes a world step by step.
* *REST halves of reports, accounts, authentication, sessions, map views, health,
  configuration.* Single documents behind unique indexes or guards. The one race
  there (two registrations choose a faction) is listed among the hazards.
* *The client's map, movement, market and report screens*, and its refetching.
* *The balance reference player, asset tools, documentation.* No state that the
  game depends on.

## 6. Plan

The modules of sections 2 and 3 and the proofs of section 4 are complete. What could be added next:

1. `Starvation` with `cancelBuild`, `cancelMovement` and the market as writers of Food. The
   lemma `EnsureStep` is stated for any values, so the proof grows by one step for each.
2. The client's movement and market screens against the checks of the server.
3. Hazards without a property: a handler whose promise never settles blocks the polling
   loop, and an event whose handler kills the process is claimed again for ever. Both
   need a model of the process around `Scheduler`.
