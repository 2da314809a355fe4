# Verification of mock_kabu2

mock_kabu2 is a mock exchange for shares, one-day futures and options. This
directory holds TLA+ models of the part of it that moves orders, shares,
contracts and money, the TLC configurations that check them and TLAPS proofs
about them. Paths below are those of the repository.

## 1. Inventory

| part | state | operations | talks to |
|---|---|---|---|
| order service `apps/api/src/order/order.service.ts` | tables `orders`, `accounts`, `holdings`, `outbox`; idempotency and cancel keys in Redis | `place`, `placeIdempotent`, `cancel`, `amend` | database under an account lock; Redis keys |
| outbox relay `outbox.relayer.ts` | `outbox.published_at` | `flush`, `prunePublished` | Redis stream of orders |
| matching engine `apps/matching-engine/src` | books in memory; `trades`, `processed_order_events`, `closed_order_markers`, `outbox_events`; Redis lease | `bootstrap`, `handleEvent`, `flushSettlementOutbox`, lease, pending recovery | stream of orders in, stream of trades out |
| settlement `apps/settlement/src` | `processed_events`, accounts, holdings, orders, positions | `settleTrade`, `closeOrder`, futures and options legs, fees | stream of trades in, Pub/Sub out |
| retention `packages/shared/src/stream-retention.ts` | both Redis streams | `trimAcknowledgedStream` | consumer groups |
| account locking `packages/concurrency` | row locks, version column, Redis locks and fences | `withAccountLock` in three strategies | every writer of accounts |
| conditional orders `conditional-order.service.ts` | `conditional_orders`; per API process an index of waiting rows | `place`, `placeOco`, `cancel`, `onTick`, `persistTrail`, `trigger`, `reloadIndex` | trade ticks by Pub/Sub; `place` |
| bracket orders `bracket.service.ts` | `bracket_intents` | attach, cancel, sweep, settle | conditional orders, `place` |
| positions `apps/settlement/src/futures.ts`, `options.ts`, `packages/shared/src/futures.ts` | `futures_positions`, `futures_debts` | fills of net and hedged positions, leverage | settlement, order service |
| daily settlement `futures-settlement.service.ts` | `futures_settlements`, claims in `processed_events` | `settle` | maintenance window, positions |
| futures risk `futures-risk.service.ts` | `futures_margin_calls`, `futures_liquidations` | `tick` | prices; order and outbox rows of its own |
| market maker `apps/bots/src/market-maker.ts` | a ladder of orders in memory | `runMarketMaker` | REST interface |
| recovery scripts `packages/db/scripts` | whole database | consistency check, recovery plan | database, offline |
| account, market, news, replay, scenario, health, gateway, auth; other bots; web | views, content, caches | mostly read-only | REST, Pub/Sub |

An order travels like this. `place` takes the account lock, checks the available
cash or shares, adds the order's reserve to the hold, inserts the order and an
outbox row, and commits. The relay publishes the row on a Redis stream. The one
matching engine that holds the lease reads the stream, computes the outcome on a
copy of its book, and commits the claim of the event, the trades, a marker for
every order that ends, and outbox rows for settlement; then it replaces the book
and acknowledges. A second relay publishes those rows on a second stream.
Settlement moves the cash, shares and holds of each trade once, advances both
orders, and on a close releases what the order still holds. Conditional orders
listen to the trades and place orders of their own; the risk tick does the same
for positions that have lost their margin; the daily settlement closes every
position in a maintenance window.

What is hard here, and where it bites (`PROJECT.json` lists each at its line):

- three programs commit separately and none waits for another: at any moment the
  orders table lags the trades, which lag the book in memory;
- both streams deliver at least once, and a failed event is tried again after
  the ones behind it: order events, trades and closes arrive repeated and out of
  order, and a close may come before trades that it counts;
- the book is lost with its process and rebuilt from rows that were written at
  different stages of the pipeline;
- a cancel races the fills of the same order at three places, and an amendment
  has to wait for the winner before it places anything;
- a commit may succeed while its client believes it failed, and a leader may
  commit after its lease has passed to another;
- several processes trim one stream, each with a boundary it has read earlier;
- the handlers of conditional orders await the database between their steps,
  while ticks, cancels, reloads and other processes go on with the same rows;
- the risk tick reads positions, looks for liquidations on their way, decides and
  liquidates in steps of its own, while trades, earlier liquidations, the daily
  settlement and the ticks of other instances change what it has read;
- a lock in Redis may expire under the process that holds it;
- the cancels of the market maker take effect some time after they are accepted.

What makes each part correct: the book keeps price-time priority and is never
crossed; matching never gives an order more than its quantity and decides each
close once, after the trades; holds are exactly what live orders may still take;
nobody spends what he does not have; everything recorded is settled and only then
trimmed; a cancel and a market order come to an end; a retry places nothing
twice; a conditional order fires once, and does fire; margins are exact and no
money is made; a liquidation is not larger than what is left; the function under an account lock is
atomic; the ladder of the reserve never trades with itself and never disappears.

## 2. Plan

Modules, the centre of the system first; all of these exist.

1. `OrderBook`, `Sums`, `Fees`, `Market`, `Settlement`, `Exchange`: the spot
   pipeline; `Lemmas`, `BookProofs`, `MarketProofs`, `SettlementProofs`.
2. `Requests` on `Market`: idempotency keys, the cancel filter, `amend`; and
   `AccountLock` against `AtomicAccounts`; `OrderServiceProofs`.
3. `TradeBus` on `Settlement`: consumer group and trimming; `SettlementProofs`.
4. `ConditionalOrders`, `Brackets` on top of it; `ConditionalProofs`.
5. `Derivatives`: positions, daily settlement and liquidation;
   `DerivativesProofs`.
6. `MarketMaker`; `MarketMakerProofs`.
7. `Recovery` on `Settlement`: the planner of `recover:settlement`.

What the plan has left: the makers of `apps/bots` that cancel their whole ladder
first.

How the modules lie on each other:

    Fees <- Market <- Requests             ConditionalOrders <- Brackets
    Fees, Sums <- Settlement <- TradeBus   AtomicAccounts <= AccountLock
    Settlement <- Recovery                 Sums <- Derivatives
    OrderBook, Settlement <- Exchange      MarketMaker

(`<-` extends, `<=` is implemented by.) `Exchange` and `TradeBus` implement
`Settlement` with an arbitrary engine, `Settlement` implements `Market`, and so
does `Requests`; all four are proved. What is proved of the abstract market holds
of the tables, of what reaches them through the stream, of the whole pipeline
with its faults, and under any concurrent requests.

## 3. Modules

| module | models | state |
|---|---|---|
| `OrderBook` | `orderbook.ts`; the replay of `engine.ts` `bootstrap` | none: operators on a record with two lists and a last price |
| `MCOrderBook` | a driver: any order or cancel next | the book, the orders so far, the book before the last order and its result |
| `Sums` | the sums the invariants speak of | none |
| `Fees` | `packages/shared/src/trading-fees.ts` | none |
| `Market` | what `place`, `settleTrade` and `closeOrder` promise together | free cash, free shares and debt per account; phase, reserve of a unit, executed quantity and escrow per order; whether fees are charged |
| `Requests` | `placeIdempotent`, `cancel`, `amend` of `order.service.ts` | where each request is; keys in Redis; cancels in the outbox |
| `Settlement` | the tables of orders and accounts; `place`, `settleTrade`, `closeOrder`, `settleTradingFees`; an engine that records arbitrary rows | `order`, `account`, `log`, `processed`, `charging` |
| `TradeBus` | the stream of trades: relay, consumer group, pending recovery, `trimAcknowledgedStream` | `stream`, `delivered`, `pel`, `trimmed`, the boundary each worker has read |
| `Recovery` | `packages/db/scripts/settlement-recovery-plan.ts` and what `recover-unsettled-trades.ts` reads for it | none: operators on the tables of `Settlement` |
| `Exchange` | the pipeline for one spot symbol: `Settlement` with the streams and the engine in full | see below |
| `AtomicAccounts` | the promise of `withAccountLock` | accounts, and what became of each invocation |
| `AccountLock` | `packages/concurrency/src`: the optimistic, pessimistic and distributed strategies on a READ COMMITTED database and Redis | rows and their locks; Redis locks and fences; what each client has read and written |
| `ConditionalOrders` | `conditional-order.service.ts` in any number of API processes | rows; per process the index, the reload and the ticks not handled; handlers between awaits; the position |
| `Brackets` | `bracket.service.ts` on top of it | the parent order, the intent, where each sweep is |
| `Derivatives` | futures and options in `order.service.ts`, `futures-margin.ts`, `futures.ts`, `options.ts`, `futures-settlement.service.ts`, `futures-risk.service.ts`, `setLeverage` | cash, positions, orders, events on their way, margin calls, the risk ticks by instance and account, the settlement run |
| `MarketMaker` | `market-maker.ts` for one reserve account and symbol | rows of orders and cancels on their way; the maker's ladder, its program counter and bookkeeping |
| `*Proofs`, `Lemmas` | theorems, and the lemmas about operators they share | |
| `MC*` | instances; their scenarios | |

`OrderBook`. The code's arrival number `seq` is the position in the list. The
`while` loop of `applyOrder` is a fold over the opposite list: the state of the
fold is what is left of the taker, the makers kept, the fills and the closes. A
`MARKET` sell has no price (`NoPrice`); a `MARKET` buy is sent with its cap.

`Settlement`. `charging` says whether `TRADING_FEES_EFFECTIVE_AT` has passed; it
decides what `place` reserves and how a trade recorded now is dated (`charged`).
`unit` is `hold_per_unit`. The tables `accounts`, `holdings` and `futures_debts`
are one row per account. `Record` is the transaction of any matching engine: of
a trade it is only assumed that it joins a placed buy and a placed sell of two
accounts at a price within both limits (`applyOrder` trades at the price of the
maker, which the taker accepts, and cancels a taker that meets its own quote);
of a close, only that the order was placed. So the rows may overfill an order,
contradict each other, and be settled in any order and again; a transaction adds
finitely many. `M` maps the tables
to `Market`: what is free is what is not on hold, and an active order sets aside
`hold_per_unit` times its unexecuted rest.

`Requests`. A request is a small program (`stage`), one step per statement of
Redis or of the database; the order it places and the cancel it asks for are
steps of `Market`. The requests under one key ask for copies of one order, one of
which is placed per attempt; an amendment has one replacement order per quantity
it may end up with. The check of the status and the `SET NX` of `cancel` are one
step, replacement orders are limit orders, and the 24 h of a key and the
ownership checks are left out. A request ends with a crash, an error, a refusal
or an answer; a retry is another request under the same key.

`TradeBus`. An entry's id is its position. `XINFO GROUPS`, `XPENDING` and `XTRIM`
are three steps of each worker's timer. Any worker may process any delivered
entry. The stream of orders has the same group and the same trimming function.

`Recovery`. The script replaces the consumer for trades that were never settled,
with code of its own: it adds up, per order, all recorded trades and the
unsettled ones (`loadRecoveryInput`), derives from them what every account must
have on hold before and after (`Reserves`), replays the trades on copies of the
rows (`ReplayTrade`) and sets the orders to what is recorded (`PlannedOrder`).
An issue of any kind makes the plan unusable, so issues are one Boolean, `safe`,
the conjunction of their absence. Sums over rows of a table are totals of functions
(`Sums`); an order without a row counts for nothing. Trades are sorted by time and then by a random
id: the property is stated for every order of them. `Consumer` is `Settlement`
with other tables in place of `order` and `account`, so that its operators can be
applied one after another to the same trades.

`Exchange`, variable by variable:

| variable | code |
|---|---|
| `order`, `account` | rows of `orders`, of `accounts` and `holdings` |
| `created`, `outbox` | orders and unpublished outbox rows by `created_at` |
| `claimed` | `processed_order_events` |
| `log`, `relayed` | `outbox_events` by id and how far they are published. Its trade rows are also the table `trades` and its close rows the `closed_order_markers`: each pair is written in one transaction (`persistSettlementEvents`) |
| `processed` | `processed_events` |
| `orderStream`, `orderPel`, `tradeStream`, `tradePel` | entries not delivered yet, and delivered but not acknowledged |
| `lease` | the Redis key of the leader |
| `engine` | per process: book, `seenEventIds`, and `stage`, the outcome computed but not committed |
| `torn` | nothing in the code: whether a commit's result was lost, a deposed leader has written, or an order that a former leader has traded was matched anew (`Rematched`). Three invariants are stated for behaviours in which none of these has happened; what happens otherwise is finding 1 and the first entry of the list after the findings |

| action | code |
|---|---|
| `Place`, `RequestCancel` | `OrderService.place` for an accepted order (`PlaceOrder` and the outbox row), `cancel` |
| `RelayOrder` | one row of `OutboxRelayer.flush` |
| `Lead` | `lease.acquire` and `bootstrap` |
| `HandleNew`, `HandlePending` | `handleEvent` up to its transaction, for a new entry and for one claimed back (`recovery`) |
| `Commit`, `CommitFails`, `CommitUnknown` | the transaction: committed and acknowledged or not, rolled back, committed with the result lost |
| `Crash`, `LoseLease`, `ZombieCommit` | the process stops; the lease passes on while a transaction is in flight, which commits later |
| `RelayTrade` | one row of `flushSettlementOutbox` |
| `SettleNew`, `SettlePending` | `processMessages` of settlement with `settleTrade` or `closeOrder` |

A database transaction is one step. `handleEvent` is two, since it reads and
computes before its transaction: other programs move in between. What makes
`place`, `settleTrade` and `closeOrder` single steps is the account lock, and
that is what `AccountLock` is about.

`AccountLock`. `strategy` is chosen once. A function changes balances and
holdings of its accounts: balances with a guard and, in the optimistic strategy,
a version; holdings by a read and a write that the version touch of the account
covers. Statements are steps; an update of a row that another transaction has
written waits for its lock (no step) and then looks at the row again. `Throws` is
any exception of the function or of the database (lock timeout, deadlock victim,
lost connection): the transaction is rolled back. The ascending order in which
accounts are locked matters for deadlocks only, which the database resolves by
throwing. `Stallers` are the clients that may outlive their Redis lock.

`ConditionalOrders`. `jobs` holds the handlers that are in the middle of
something, by process, row and next step, so that anything may happen between two
awaits; `writes` are the updates of `persistTrail` on their way; `reload` is
`reloadIndex` between its read and the replacement of the index. A row's claim is
the conditional update `WAITING` to `TRIGGERED`. A cancel that loses its race with
a claim only drops a row from the index that no longer waits. The maintenance
window is one phase in which orders are refused and ticks muted. An order on a
future is first cut down to the part of the position that no other order has
reserved (`FindRoom`), and refused later if that has changed (`PlaceTriggered`).
Some awaits are not split: the rows of a new pair and their index entries
(`Create`); in a reload the end of rows without a position, the new index and its
comparison with the last price (`ReloadInstall`); and the checks that `place` makes
before it takes the account lock (`PlaceTriggered`).

`Brackets`. The parent order is filled and ends; `sweep` reads the intents,
claims one, decides between selling at once and registering two legs as an OCO
pair, and records the outcome. `ClaimIntent` is the read of the parent and the
conditional update in one step; `RegisterLegs` the checks of `placeOco`, its
transaction and the index entries.

`Derivatives`. One future and one option; users have a long and a short position
in the future, bots a net one; options are net. `Match` is any engine that trades
what is left of two orders, and `events` is what it has sent to settlement, in
order. `cancelOpenFuturesOrders`, the engine's own cancels and those of users are
`EngineCloses`. A minute of maintenance is taken as long enough
for trades on their way to be settled. The deadline of a margin call is a step.
Trading fees are left out (`Fees`, `Settlement`).

A risk tick is taken account by account (`Ticks`), in the steps of the code:
`RiskReads` is the first `Promise.all` (positions, open calls, prices),
`RiskChecks` the second (balance, debt, live liquidations), `RiskDecides` the
assessment with what it writes of margin calls, `RiskLiquidates` the transaction of
`liquidate`, `RiskFails` an exception or a stop between any two of them. An
instance runs one tick at a time (`running`). Ticks of two instances may overlap
at every step: the Redis lock between them lapses after 4 s, is not renewed and not
looked at again, so nothing bounds how slow a tick may be. Steps of one tick for
different accounts come in any order, of which the loop's order is one. `missed`
and `blind` are history: a tick has missed a liquidation that was ordered, or that
filled, after it had read the positions; an account is blind once such a tick has
liquidated it. An emergency without a call leaves a record that is closed from the
start; `calls` does not keep it.

`MarketMaker`. Prices are ticks. Of a quantity the maker only asks whether it is
enough for its rung: an `OPEN` row's is, a `PARTIAL` row's is not. `step`, `todo`
and `drop` are the program counter: every REST request of a pass is a step, so
rows are filled and cancels take effect in between. `Look` takes the list of live
orders, `LookLater` the wait. Processes run one at a time; a new one adopts what
the last has left. A `POST` whose answer is lost is not modelled
(section 5). A start posts what the ladder it has adopted lacks; the remapping of
rungs to a smaller budget (`market-maker.ts:1087`), which counts when one process
starts a second time, is left out of `Begin`.

Some definitions are used by no module: each stands just before the definition it
resembles and is a plausible error in it (a comparison that is strict, a claim
that is ignored). `PROJECT.json` pairs each with the property that catches it.

## 4. Runs

| run | question | bounds |
|---|---|---|
| `order_book` | does the loop implement price-time priority? Are the book, its restart and its snapshot right after any history? | 3 orders, 2 owners, prices 1..3, quantities 1..3, `MARKET` with and without cap, cancels any time, snapshots of depth 1; owners are symmetric |
| `market` | is the abstract market sound, and do requests place, amend and cancel what they promise? | 3 accounts, one exempt from fees. One of: 4 orders that come at any time; 3 requests under one key; 2 amendments and a cancel of one order. Fees start at any time; 2 faults of crash, Redis, database |
| `settlement` | are the tables sound whatever the engine records, is nothing trimmed too early, and does the recovery script do what settlement would have done? | two buys (of 2 and 1) of one account and a sell of 2 of another. Either 3 rows, any that `Record` allows with the prices 1 and 3, in every order of settling and with repeats; or 2 rows that reach settlement through the stream, one published again, with 2 workers that trim |
| `exchange` | do holds, trades, closes and the book agree at every stage of delivery, and does the pipeline do to the tables only what `Settlement` allows? | a limit buy of 2, a limit sell of 1 below it and a market sell of 2; 1 cancel; 2 engines, which are symmetric; all six kinds of fault, two while the second sell is not placed and one with all three orders |
| `exchange_live` | does everything end? | a limit buy of 2 and a market sell of 1; 1 cancel; 2 faults of duplicate, retained event, crash |
| `exchange_ambiguous` | finding 1 | 1 commit whose result is lost |
| `exchange_quarantine` | finding 2 | 2 faults of retained event, crash |
| `conditional` | does a row fire once, and does it fire? Do pairs end together, is a filled buy protected once? | 8 scenarios: an OCO pair, a trailing row or a bracket, of shares or of a future, on one or two processes, without faults or with one of crash, lost tick, lost write, lost result, position gone, failed registration; up to 2 trades, a maintenance window |
| `derivatives` | are holds and margins exact, is money conserved, are closes bounded, and do liquidations fit? | 8 scenarios: any three orders of a hedged account and a bot; more closing orders than there is to close; a change of leverage; options; options and their expiry; the daily settlement with orders around it; margin calls and liquidations by one instance while the price comes and goes and the user closes; the same by two instances whose ticks overlap, after one change of the price. Only these two have an account that is called (`poor`). Quantities up to 2, at most 6 orders, 2 margin calls, 2 runs of the settlement |
| `account_lock` | is the function under the lock atomic? | 3 strategies; 2 functions over the same two accounts and one that changes only a holding; 2 retries; any exception, expiry of locks nobody uses |
| `lock_distributed` | finding 3 | the same clients; one may outlive its lock |
| `market_maker` | does the maker trade with itself, leave a side empty, or leave anything behind? | one rung per side; the market moves once, by 2 ticks (the ladder slides) or 3 (it relocates); one fill, failed request or crash; 2 cancels on their way at once |

Why these bounds suffice. Three orders give every role in matching: a maker
filled in part, then filled completely or canceled; a taker that takes several
makers, rests, or gives up its rest. The limit of the sell is below that of the
buy, so a trade at a better price than the hold happens. Two faults are needed
for the orders of events that matter: one event must fail and a restart or
another failure come while it is pending. (Without its bound on the second fault
`exchange` has ten times the states, and no other outcome as long as no order is
matched anew, which takes the late commit of an earlier order and a restart.) Three rows are a
trade, a second trade or close that contradicts it, and a third after the order
is over; two workers and two rows are enough for a boundary that is read by one,
passed by the other and used afterwards. Three rows are also two or three unsettled
trades for the recovery script, among them overfills, trades of a canceled order,
charged ones, and ones of which a part is settled already. Two amendments and a cancel make every
pair of requests about one order race; three requests under one key are a first,
one that finds it pending and one that finds it given up. A pair of processes
makes every claim contested. Two accounts and three clients make a conflict on the
first, on the second and on none, and a holding that only the version protects.
Three orders open, close and turn over a position; a fourth is needed for the
scenario of more closes than contracts, which has them in a fixed order. Two
instances make every step of a tick race another tick; two contracts are the
fewest that a liquidation can leave one of. One rung
has the two sides that could cross and the neighbours of a slide; a second move
while the first is on its way is the loop starting again with another target.
`MaxFaults`, `MaxCancels`, `MaxRows`, `MaxBusRows`, `MaxRepeats`, `MaxTrades`,
`MaxOrders`, `MaxRuns`, `MaxCalls`, `MaxRetries`, `MaxMoves`, `MaxTroubles` and the quantities
are the only bounds; behaviours are finite because each order is placed once. A
fee is half of the notional (`FeeDivisor = 2`) instead of one part in ten
thousand: rounding and shortfalls then happen at the small prices of the
instances, and the proofs are for every divisor. `BpsBase` is 4 or 10 for the same
reason. `CHECK_DEADLOCK FALSE`: when all orders are over there is nothing to do.

Fairness. `Fairness` in `Exchange`: the pipeline does not stop while one of its
programs has a step to take. The relays and the standby loop are timers, and both
read loops alternate between new and pending entries. One condition over all of
them is enough because no step of theirs can repeat forever. `CondFairness` and
`BracketFairness`: each process handles its messages, its timers come, its
handlers go on with what they await, and the maintenance window ends.
`MakerFairness`: the maker's loop goes on; the intervals between two slides and
between two looks pass, which they do again and again, although not at every
moment at which the loop could slide (strong fairness); and a cancel that was
accepted takes effect. Nothing is assumed of clients, prices or faults.

What the passing runs show, in short.

- Whatever is lost, repeated, late or restarted short of the first two findings
  and of the matched-anew order of section 5, an account's holds equal what its live orders may still take, a close is the
  last word on its order and counts its trades, settlement can apply every
  recorded trade, and the leader's book is the ledger's. `ImplementsLedger` and
  `ImplementsMarket` hold for all faults, the findings' included: settlement
  refuses an overfill, so no money is wrong, but the refused trade stays unsettled
  and the ledger of trades disagrees with the accounts. An arbitrary engine cannot
  make the `CHECK` constraints `accounts_hold_within_balance` and
  `holdings_hold_within_qty` fail (`ImplementsMarket` with `Solvent`, and the
  theorem `LedgerHoldsAreFunded`): they are the safety net the migration calls
  them, and no transaction runs into them.
- In every state the recovery script settles what is unsettled as the consumer
  would, to the last hold, and finds an issue exactly if the consumer would refuse
  one of the trades or charge a fee. On tables that only the services have
  written it corrects no reservation.
- One idempotency key places one order, an amendment never adds to what its order
  has left, a filtered cancel is written. Nothing unsettled is trimmed.
- All three locking strategies are atomic while no holder outlives its lock.
- A conditional order is claimed by one handler and places one order. A condition
  that stays met fires, whatever tick, write or process is lost, because the
  reload evaluates the rows at the last price.
- Margins follow positions exactly; trades and daily settlements make no money; a
  settlement that is interrupted and caught up leaves new positions alone.
- The market maker's own orders never cross, whatever cancel is late.

`CancelEnds` is checked with two orders, where every live order is in the book of
the leader. It would not hold in the situation of finding 2: a cancel request for
an order that a restart left out of the book, made before its recorded trades are
settled, is claimed without a close (`closeMissingBookOrder`, whose comment leaves
the mismatch to recovery), and the owner has to ask again.

## 5. Findings

1. `exchange_ambiguous`. `processMessages` (`main.ts:67-71`) relies on the claim
   of an event for a retry without a second execution. If the commit succeeded
   and only its result was lost, the retry is skipped, but the book in memory is
   the one of before the match. A maker filled in part still offers what it has
   sold, and the next taker gets it again; settlement then refuses that trade
   forever. (A maker filled completely is safe: its marker removes it.) A restart
   repairs the book. `Exchange` reaches the same state when a former leader
   commits after its successor's bootstrap.
2. `exchange_quarantine`. `bootstrap` treats every open limit row as one that has
   rested, and a row that crosses the restored book as one that was executed
   (`engine.ts:295`). An order whose event failed once and is pending has never
   been matched. An order that rested meanwhile because of it is left out of the
   book after a restart, and the pending event is then claimed as already
   resting: two live orders cross and neither will trade.
3. `lock_distributed`. `distributed.ts:40-41` says that the fencing token wards
   off the write of a holder that has outlived its lock. It does once the newer
   holder has written. When the older one writes between the newer one's read and
   its write, both conditions hold and the newer one overwrites a committed
   change. The default strategy is pessimistic.

Behaviours met while modelling that contradict nothing the repository says, or
that a property excludes by name:

- An order can be matched twice without a lost commit. `handleEvent` looks for
  trades of a placed order only when its entry is recovered (`engine.ts:660`,
  `672`), although the comment at `engine.ts:309-313` says that this is always
  checked, however the event was delivered. Take an order that `bootstrap`
  restores before its first delivery, and that is filled in part from there. If
  an older order commits late (rows are published by `created_at`, which is not
  the order of commit) and crosses it, the next `bootstrap` quarantines the first
  one; its first delivery then finds it neither in the book nor claimed and
  matches its full quantity. Settlement refuses the trades beyond it. `torn`
  includes this (`Rematched`), so `RecordedTradesSettle`, `CloseIsLastWord` and
  `BookAgreesWithLedger` are stated, checked and proved for all other behaviours.
- An amendment does not exclude another one of the same order: both may see it
  closed and both place the rest (`order.service.ts`, `amend`). Each is within
  what the order had left (`AmendedWithinOrder`); together they are not.
- A cancel that is filtered is answered with success. If the write of the first
  one then fails, its filter is removed again, but the caller of the second has
  been told that all is well.
- If an order is in and recording its id under the idempotency key fails, the key
  is deleted and the request reports an error; a retry then places a second
  order. The same holds for a commit whose result is lost. `KeyPlacesOnce`
  excludes these keys (`broken`).
- Both legs of an OCO pair can be claimed when a tick meets both conditions'
  prices one after the other before either handler has canceled its sibling.
  Both orders are then limited by the same shares or contracts (`PlaceTriggered`).
- A process that stops between a claim and the order leaves a `TRIGGERED` row
  without an order. Nothing looks for such rows.
- A bracket whose last update fails after its legs were registered goes back to
  `PENDING` and is registered again by the next sweep; one whose process stops
  there stays claimed and is never recorded (`ProtectedOnce` and
  `FillsGetProtected` are stated without such a fault). In the model the second
  registration reuses the two rows of the first.
- A closing order of a user can settle after a liquidation or a daily settlement
  has closed its position: the hedged fill has nothing to close and its contracts
  are dropped, which the other side of the trade keeps (`overflow`;
  `ClosesAreHeld`, `MoneyIsConserved`).
- A position can be liquidated twice, although the comment at
  `futures-risk.service.ts:119` says that a liquidation on its way is waited for.
  `tick` reads positions (98-103) and looks for live liquidations afterwards
  (107-111). If the last forced order fills and settles in between, none is found,
  and the position as it was before is liquidated again; this takes one slow tick
  of one instance. And the lock that keeps instances apart (29-30, 81) lasts 4 s:
  when a tick takes longer, another instance finds nothing pending either and both
  liquidate. The second order closes more than is left: of a hedged position the
  excess is dropped (`overflow`), a net one is turned over. TLC reaches both.
  `blind` marks the accounts to which it has happened; `LiquidationsFit` is stated,
  checked and proved for all others.
- A settlement that is caught up after trading has resumed settles at the price
  of that moment, so that positions of one day may be settled at two prices
  (`usedPrices`).
- A `POST` of the market maker whose answer is lost leaves an order that the
  process does not know until it restarts. A process that starts while cancels of
  the last one are on their way adopts rows that are about to go, so a side can
  be empty for a pass (`hasty`).
- The same comes of one process whose request fails while it retires what it has
  inherited: it is not `initialized` yet and starts again, with `retiring` as it
  was, so it may adopt a row whose cancel is on its way or will be sent again, and
  retire the fresh one. It takes two rows of one price and two failures, one more
  than the run has; the proof of `SidesStayQuoted` led to it, and a run with two
  shows it if `Retire` leaves `hasty` as it is. The code adopts the newest row that
  has the quantity of the rung, or else the largest; the model leaves open which.

## 6. Proofs

Assumed are only the named assumptions on constants, which TLC evaluates in the
runs: `FeesAssumption` (the divisor is positive), `MarketAssumption`,
`SettlementAssumption`, `ExchangeAssumption`, `BusAssumption`, `MCBounds`,
`RequestAssumption`, `ConditionalAssumption`, `BracketAssumption`,
`DerivativesAssumption`, `MakerAssumption` and `AccountLockAssumption` (owners, sides, terms, quantities,
rates and opening balances have their types; a market sell and no other order is
without a price; no engine is called nobody; the accounts of the futures market
are finitely many; ids of the maker's orders are positive numbers; the legs of a
bracket do not trail, as `bracket.service.ts` registers them; accounts can be
ordered), and for one theorem `NobodyStalls` (no client outlives its Redis
lock). Everything below holds for all accounts, orders, terms, balances, rates,
requests, processes and prices, and for any number of faults.

`Lemmas`. Folds and sums are recursive, and the prover takes no induction over
data with a predicate as parameter. Here it is taken from the one induction that
can be stated without one: the subsets of a finite set are well-founded by
inclusion (`SetInduct`, `NatInduct` state it for a set of numbers or sets instead
of a predicate). From it follow that a fold along a sequence is the last of a
series of steps (`FoldIterates`), and how a sum changes with a term and with its
set. On this rests what is proved of `OrderBook`: `MatchShape` says what the
matching loop leaves behind (the makers used up are a prefix of the opposite
list, the one after them may be used in part, every other is kept, the
fills and closes are theirs in this order), and `GoodBook` is what inserting,
matching, cancelling and replaying preserve (each list holds one side and is
sorted by price, and the best prices do not cross).

`BookProofs`: `BookStaysSorted` and `BookNeverCrossed`, after any sequence of
orders and cancels of any sizes. Sorting by time needs that ids grow with
arrival: `BookInv` says that every id in the book is at most the number of
orders placed. Three more theorems compare the code with definitions that do not
know its loops:

- `MatchesKeepPriorities` (`MatchIsPriceTime`). The definition gives each maker
  what the makers ahead of it leave of the order, whatever list they stand in.
  `KnownInv` says that what rests is an order as it was placed, and `MatchInv`
  that the last answer is that of the book before it to the last order. The
  makers an order may reach are a prefix of a sorted list (`ReachIs`), those
  ahead of the `j`-th are the first `j - 1`, so their sum is that of a prefix
  (`AheadSum`), and with `MatchShape` the share of each is what the loop has
  taken of it (`LoopIsFair`).
- `RestartsRebuildTheBook` (`RestartRebuildsBook`). The replay inserts the open
  rows in the order they were created; after each, the lists are sorted and
  hold exactly the rows replayed (`ReplayRebuilds`), none of which crosses
  because the book they come from does not; and two sorted lists of the same
  orders are equal (`SameList`).
- `SnapshotsShowTheBest` (`SnapshotShowsBestLevels`). `LevelsIterate` turns
  the fold of `Levels` into steps, and `ShownSoFar` is their invariant: the
  levels shown are those of the orders looked at, each with all that rests at its
  price among them, and once the depth is reached the rest is worse.

`MarketProofs`, on fees: `TradingFee` rounds up, so it is the least number of won
that covers the notional `FeeDivisor` times (`FeeIsCeiling`, `FeeIsLeast`). From
this follow `FeeWithinNotional` (a seller can pay out of the proceeds) and
`UnitFeesCoverExecution`: `n` units that each reserve the fee of the limit cover
the fee of `n` units at any price within it, which is what the comment of
`orderHoldWithFee` claims.

`MarketProofs`, on the market: `TypeOK`, `Solvent`, `NoOverfill`,
`EscrowCoversRemaining`, `DebtOnlyOfUnreservedFees` and `ClosedIsFinal`. None of the
first five is inductive by itself. `Solvent` needs exact escrow (a trade takes
`unit * n` out of an escrow that must be at least that) and that a unit sets aside
at least the limit; exact escrow needs `NoOverfill`; and all need that an order
not submitted yet has executed nothing. That fees are paid needs that a unit sets
aside one of two amounts, with its fee or without. `MarketInv` is their
conjunction with `NewIsUntouched` and `UnitIsPriced`; one lemma per action shows
that it is preserved, one step per conjunct. Products of two variables are
isolated in `ProductFacts` and `ReservedFeeIsFunded`. `ClosedIsFinal` follows from
the guards.

`SettlementProofs` is about the tables and what drives them, in five parts.

- The tables. `LedgerImplementsMarket` is the refinement `LedgerSpec => M!Spec`.
  `LedgerInv` (types; every row of the log is still one that may be recorded; no
  order is filled beyond its quantity, and one that is not placed is untouched)
  is proved first, one lemma per action. Then each action is shown to be a step
  of `Market` or none: `place` is `Submit`; `Record` changes nothing that `Market`
  sees; a trade settled for the first time is `Execute`, with `BuyerFacts` and
  `SellerFacts` relating the account rows to what is free; a close that takes
  effect is `Close` (`CloseFacts`: it counts exactly what is settled, since one
  that counts more waits and one that counts less is stale, which is why its
  release is exactly the escrow); a repeated row or a close without effect is a
  stutter. With it the theorems of `Market` become theorems about the tables:
  `LedgerHoldsAreFunded`, `LedgerDebtOnlyOfOldOrders`. `LedgerHoldsMatchOrders`:
  each action changes a hold by what it changes the term of one order, and by
  nothing for every other account (`HoldsExact`). The sum is over all orders, of
  which only finitely many are live.
- The stream. `BusRefinesLedger`: it changes nothing of the tables that settling a
  recorded row would not. `TrimmedAlwaysSettled` rests on `BusInv`: what has been
  delivered and is not pending is settled (`StreamInv`), and every boundary a
  worker holds has only such entries below it (`TrimInv`). That is inductive
  because an entry that is delivered and not pending stays so (`SpentForGood`):
  the boundary a worker has read may be old, but never wrong.
- The pipeline. `ExchangeImplementsLedger`: with every fault, those of the
  findings included, the pipeline does to the tables only what `Settlement`
  allows. `PipeInv` says what is on its way: placed orders and their events in
  the queues, rests of placed limit orders in a `GoodBook`, rows that may be
  recorded in an outcome that has not been committed. The heart of it is that a
  match of such a book yields such rows, by `MatchShape`. Everything proved of
  the tables then holds of the pipeline (`PipelineKeepsAccounts`).
- The log and the book. `ClosesAreLastWords`, `TradesAlwaysSettle` and
  `LeaderAgreesWithLedger` are proved together, as none is inductive alone: a
  close is right because the book is, the book is right after a restart because
  the log is, and what settlement has made of the log decides what a restart
  reads. `KeptInv` has three parts. The tables agree with the log: what an order
  has executed is the sum of its settled trades, and one that ended before it was
  filled did so by a close that counts this much (`TablesInv`). No order is listed
  twice (`CreatedOnce`). And unless `torn`, the log gives no order more than its
  quantity, closes each at most once, last, with the count of its trades, and
  never leaves a filled one open (`LogKept`), while the leader's book has each
  order once, unclosed, with what the log leaves of it (`BookFits`). An outcome
  that waits for its transaction promises both of the log it will make
  (`StageKeeps`), which holds until then because nobody else writes to the log.
  A restart gets `BookFits` from tables that are behind the log: a row's rest is
  taken from the trades recorded, and the marker removes what is closed, whatever
  settlement has reached.

- The recovery script. `RecoveryAlwaysMatches` (`RecoveryMatchesSettlement`): in
  every state of the tables and for every order of the unsettled trades, the script
  is ready exactly if the consumer could settle them all and none was charged a
  fee, and then both leave the same orders and accounts. Both are folds along the
  same sequence, turned into steps by the lemmas on folds (`ConsumedIterate`,
  `ReplayIterate`). What the consumer makes of the orders depends only on how much
  each has traded (`TablesAfter`), and it accepts every trade exactly if no order
  gets more than it may still take (`TakesAll`). The script never looks at a single
  trade for that: it compares sums. That its comparison says the same
  (`ValidOrders`) is where `TablesInv` is needed: an order is filled by what was
  settled of it. If the script is ready, the reserves it rebuilds from the orders
  are the holds of the accounts (`PrestateIs`, from `HoldsExact`), which is why
  starting from the rebuilt ones makes no difference. From there the two change the
  same rows alike, holds stay exact and within what they are part of
  (`AccountsAlong`), because a trade frees at least what it costs (`TradedAccounts`
  with `RowsFit`: a unit sets aside at least the limit). So none of the checks the
  script makes after each trade and at the end can fail. If it is not ready, nothing
  is said of what it has computed, as nothing is written.

`OrderServiceProofs`, on requests. `RequestsRefineMarket`: a step of a request is a
step of the market or none. `KeysAlwaysPlaceOnce` rests on `KeyInv`, which says for
each state of a key what may have been placed under it and which one request may
be about to place: an absent key has nothing placed and nobody placing, a pending
one at most one claimant, and a key with an order has that order.
`AmendsAlwaysWithinOrder` rests on `AmendInv`: an amendment that is about to place
has seen its order closed, and what it wants is what the order has left; that
stays true because `ClosedIsFinal` of the market says that a closed order executes
no more. `FilteredAlwaysWritten` is inductive with the types.

`OrderServiceProofs`, on locks. `AccountLockIsAtomic` is the refinement of
`AtomicAccounts` by all three strategies. `AtomicInv` says what a client's snapshot
is worth: a client that holds row locks or Redis locks has read what is committed;
an optimistic one has read what is committed as long as the version is the one it
has seen; and what it has written is its function applied to what it has read. At
a commit every row it depends on is locked with the version it has read
(`CommitsOnCurrent`), so the commit is `Apply`. The version touch is what makes
this true of holdings, which carry no version.

`ConditionalProofs`. `RowsAlwaysPlaceOnce` rests on `ClaimInv`: a handler between
its claim and its outcome is the only one of its row, its row is `TRIGGERED`, and
it has placed nothing before; a row with an order has no such handler. It uses
`IndexInv` (indexes and reloads hold rows only), which carries no status: the
index may be stale, the claim is what decides. `ConditionalTypes`: `CondTI` adds
what handlers and reloads carry with them. `TrailsNeverGoBack`: an update of
`persistTrail` writes only forward, however late it comes and whichever process
sent it; a reload keeps the further of the row and the index; and what is
registered is new. `BracketsProtectOnce` rests on
`BracketInv`: the sweep works only for a parent that has ended with something
executed (`SweepInv`), and as long as nothing fails one process at most is between
its claim and its record, the intent is `ARMED` for it, and it has protected the
position exactly when it is about to record that (`OnceInv`).

`DerivativesProofs`. `MarginAlwaysExact` (`PosInv`): each of the three writers of a
position writes the margin that belongs to what it leaves, and `setLeverage`
changes leverage only where there is nothing to hold a margin for.
`NewPositionsAlwaysSurvive` (`RunInv`): a run works on positions of one symbol that
has no record of the day. The others rest on `DerivInd`: what is left of an order
in the book and what waits for it in the queue of events are together at most
what is not executed yet, nothing waits behind a close of its order, and what an
account has held is the sum of what its live orders hold and is within its balance. So a
trade finds what it fills and releases, whatever happens between match and
settlement (`DerivTypesAlways`, `HoldsAlwaysBacked`). `MoneyAlwaysConserved`
(`MoneyInd`): cash, what users owe and all positions valued at the settlement
price add up to nothing gained, as long as no contracts were dropped and each
symbol was settled at one price; a symbol without a price yet has as many
contracts long as short, so its first price may be any. `ClosesAlwaysHeld`
(`ClosingInd`): while only users close, the orders on their way to close a
position are within it. `LiquidationsAlwaysFit` rests
on `LiqInd`. Of a position that only liquidations close, a tick that has missed
none still has what it has read; once it has looked, no forced order of its account
is live until its own; and a forced order that is live, in an account that is not
blind, is the only one of its position and within it. So what such a tick orders
fits. `Missing` makes every other tick of the account one that has missed
something, which is why only the first of two overlapping ticks may go on so.

`MarketMakerProofs`. `MakerNeverCrossesItself` rests on `MakerInv`: from its first
look to its end a process knows every order of the maker that is live, at its
price, because it has posted it, adopted it or waits for its cancel; it posts only
what crosses nothing it knows. `SidesAlwaysQuoted` says of every step that it
leaves no side empty while nobody trades with the maker and no start was hasty
(`Calm`). Its invariant `CalmInv` divides what is known in two: the ladder and what
is retirable are live orders that nobody has canceled, each in one place
(`KeepersStand`, `RungsApart`); every cancel on its way or still to be sent is of a
row in `retiring` (`OnlyRetiringGo`), and for each row there the others hold one of
its side (`SidesKept`). A replacement is posted before its row is retired, a slide
retires nothing yet, and what is retirable goes only while every rung stands, so
each step keeps this. That one quote is never given to two rungs needs distinct
prices, hence centers that are numbers (`CentersTI`, from the extremes of finite
sets of integers).

Type invariants of `Market` and `Settlement` and `HoldsAreFunded` are proved
(`MarketTypeOK`, `LedgerTypeCorrect`, `LedgerHoldsAreFunded`) and not checked
again by a run. `HoldMatchesActiveOrders` is proved of `Settlement` and checked
with `Exchange`, of which it holds by the refinement.

Only model-checked is liveness, which the prover cannot reach (fairness is stated
with `ENABLED`): `LedgerSettles`, `CancelEnds`, `MarketOrderEnds`,
`MetConditionsFire`, `PairsEndTogether`, `FillsGetProtected`, `LadderReturns`.

## 7. Not modelled

- Cost basis and realized profit, ledger entries, candles: no guard reads them.
- Several symbols: books are independent, accounts are not, but every step here
  locks the accounts it changes. One future and one option stand for all; the
  margin of open positions in what `place` finds available is in `Derivatives`.
- Fees on futures and options: the same functions with a multiplier.
- Pruning by age: published outbox rows after an hour, claims and markers after 7
  days, close claims after 30, and the cap of 10 000 remembered events. The
  streams are trimmed up to the oldest pending entry, so an event would have to
  stay pending for that long.
- Reserve accounts are replayed first at bootstrap; only the order of rows
  changes. Snapshots and account events on Pub/Sub are never read back.
- The cap of 50 waiting conditional orders, and triggered orders with a limit:
  they are placed like the others.
- Caches: only views read them.
- The market maker's quantities, its normalization of them to notionals, lists
  cut at 200 rows, and the makers that cancel everything first. The other bots
  trade at random, and their orders are the arbitrary orders of the models.
- Of the recovery script: rows that the services could not have left (the script
  is there for them too, but what the right outcome would be is stated nowhere),
  self-trades (the engine records none), the fingerprint that ties a run to its
  dry run, the repair of candles and last prices. Its transaction locks all
  accounts and creates the same `processed_events` as settlement, so it is one
  step. It takes every market for one of shares: an open sell of a future or an
  option makes it refuse. The checks of `check-consistency.ts` are properties here
  (`HoldMatchesActiveOrders`, `HoldsAreBacked`); the scripts that list, delist and
  prune are not modelled.
- Auth, health, gateway, market, news, reference, replay and scenario interfaces,
  and the web client: no protocol on orders or money, or clients of the REST
  interface.
