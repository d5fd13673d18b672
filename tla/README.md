# CULT in TLA+

A verification project for CULT, a research terminal that measures how
expressions (emoji) spread on Bluesky, builds indices and a simulated market on
top of those measurements, and contains CULT-X, a C++ exchange simulator.
Modules here are translated from the source; docs and comments are quoted only
where a run shows that the code does something else. `PROJECT.json` maps every
definition to the lines it stands for and lists runs, mutants, hazards, findings
and theorems.

| Part | Modules | Run | Proved |
| --- | --- | --- | --- |
| CULT-X limit order book | `PriceTimeExchange`, `OrderBook`, `OrderBookViews`, `OrderBookRefinement` | `OrderBook` and two violations | types; never crossed; locators match; time priority; fill or kill; the tape; the refinement; the views agree |
| Ingestion worker, data path | `Ingestion` | `Service` and two violations | one minute per batch; counted once; no gap |
| Ingestion worker, supervision and database session | `WorkerSupervision` | `Supervision` and one violation | reported is durable; HEALTHY is heard |
| Realtime feed | `RealtimeFeed` | `Supervision` | one socket; silence shown; caught up; half-open dropped; responsive kept |
| Simulated market | `SimulatedMarket` | `Service` and one violation | ledger follows the cash; cash never negative; profit explains equity; risk never eases |
| HTTP API over that account | `Api` | `Service` and one violation | the account kept; the account is one |
| Post attribution | `AttributionStore` | `Service` | deleted stays deleted; delivered is known |
| Official closes | `OfficialClose` | `Service` | a day is one run; index chained; calibrations advance |
| Migrations | `Migrations` | `Service` | committed once, in order |
| Event clock | `Scheduler` | `Lab` | runs in order |
| C++ backtest | `Backtest` | `Lab` | decisions execute |
| Behavior accumulator and replay controls | `Behavior` | `Lab` | depths are earned |
| Auction, TWAP, VWAP | `TradingRules` | `Lab` | the auction clears, slices add up |
| Scenarios on the book | `Scenarios` | `Lab` | |
| Index weights, selection, history | `IndexRules`, `Fractions` | `Lab` and one violation | buffers are fair; compositions stay frozen |
| Backtest of packages/analytics | `PortfolioBacktest` | `Lab` | wealth explained |
| Replay script, candles | `ObservedSeries`, `Fractions` | `Lab` | candles are observed |
| Estimators of the expression and research packages | `Measurement`, `Estimators`, `Fractions` | `Lab` | |

## Inventory

Each part with its state, its operations, whom it talks to, what is hard about
it and what makes it correct. Paths are relative to `src/`.

**Limit order book** (`cpp/src/exchange/order_book.cpp`). State: two maps from
price to a list of orders, the index `locators_`, `state_`, a sequence, the
event log. Operations: `submit`, `cancel`, `replace`, `set_state`, the views
`l1`/`l2`/`l3`/`queue_position`, `snapshot_state`/`restore_state`. Called by
`SimulationControl`; its events form the market tape. Hard: long legal sequences
of operations, self-trade prevention in the middle of a matching walk, changes
made before `emit` can throw. Correct when: price-time priority, never crossed,
index and lists agree, fill_or_kill is all or nothing, the tape tells the book.

**Ingestion worker** (`apps/worker/src/main.ts`, `aggregator.ts`, `sink.ts`,
`parser.ts`, `behavior-tape.ts`). State: the open minute window, the
deduplicator, health, the checkpoint file, the replay file, database rows.
Operations: receive and parse a message, add to the window, flush, write to each
sink, write the checkpoint, reconnect, shut down, the health timer. Talks to
Jetstream (WebSocket) and PostgreSQL. Hard: asynchronous tasks share one
aggregator and one database client, sockets overlap, failures and crashes
between awaits. Correct when: no batch mixes minutes, no document is counted
twice by a process, none is lost silently, what a write reports is durable, a
silent stream is noticed and replaced, a shutdown ends.

**Post attribution store** (`apps/worker/src/attribution.ts`). State: an
in-memory map of posts, database rows with an expiry, writes in flight.
Operations: remember, resolve, forget, restore, clean up, close. Hard: writes of
one post race through a pool; what a warm start restores. Correct when: a
forgotten post does not come back, a delivered one stays known while its
retention lasts.

**Realtime feed** (`apps/api/src/realtime.ts`,
`apps/web/src/realtime/connectionManager.ts`, `marketStore.ts`). State: clients
with an alive flag, a sequence shared by all, the manager's socket, timers and
state. Operations: connect, tick, heartbeat, close, stale watch, reconnect with
backoff. Hard: timers racing close events, sequence gaps. Correct when: one
socket at a time, a half-dead peer is always terminated, stale prices are never
shown as current, the tab always recovers.

**Simulated market accounting** (`packages/market-engine`). State: cash,
positions, ledger. Operations: fill an order, value the portfolio, bail out,
evaluate risk. Hard: doubles rounded per flow, orders that flip a position.
Correct when: cash follows the ledger, equity is explained by profit and fees.

**Official closes and calibrations** (`scripts/finalize-official-close.ts`,
`scripts/calibrate-standardization.ts`). State: rows of closes (final or partial,
always revision 0), calibrations with a status. Hard: checks outside the
transaction, two runs at once, windows and calibrations that arrive meanwhile.
Correct when: a day's closes come from one run, and each index moves from the
close before it.

**Schema and migrations** (`scripts/db-migrate.ts`, `packages/db/migrations`). State:
`schema_migrations`. Hard: two deployments at once, a crash between files.
Correct when: each file is committed once, in order, with its record.

**Scheduler, latency, risk, scenarios** (`cpp/src/exchange/simulator.cpp`,
`cpp/include/cult/exchange/simulation_api.hpp`). State: a queue of actions by
time and sequence, positions, limits, a replay with a cursor and a status.
Operations: schedule, step, the replay controls, the scenarios, the reopening
auction, the pre-trade check. Hard: ties, actions scheduled from actions.
Correct when: execution order is (time, sequence), the auction clears the most
volume, a scenario ends as price-time priority says.

**Behavior accumulator** (`cpp/src/expression/behavior.cpp`). State: cascades
with depths and flows. Operation: apply an event. Hard: replies before parents,
events applied twice. Correct when: a depth is never overstated, and exact for a
lineage that arrived in order.

**C++ backtest** (`cpp/src/backtest/engine.cpp`). State: holdings, pending
targets. Operation: one bar. Hard: targets overwritten before execution. Correct
when: every decided target that no later one replaces executes, after its delay.

**Strategies** (`cpp/src/exchange/strategy.cpp`): TWAP/VWAP slicing, the
event-driven agent, the market-making challenge. **Index construction**
(`packages/index-engine`, `packages/research-engine`): capped weights, buffered
selection, frozen compositions. **Analytics** (`packages/analytics`): a bar
backtest. **Replay** (`scripts/replay.ts`): index and daily closes of recorded
batches. **HFT scenario package** (`packages/hft-engine`): a TypeScript telling
of the C++ shock. Sequential code whose hard part is arithmetic over boundary
cases, compared here with reference definitions.

**HTTP API** (`apps/api/src/server.ts`). State: the account and the demo user of
the process, a pool when the mode is empirical. Operations: one handler per route.
Hard: handlers await bodies and queries while others run; the database may answer
nothing, and then synthetic data takes its place. Correct when: each order is
confirmed once, and data is labelled as what it is.

**Estimators** (`packages/expression-engine`, `packages/research-engine`): functions of
counts and series. Hard: no documents, empty strata, ties, nearly constant series, lags as
long as the series. Correct when: functions that say the same agree.

**Web terminal** (`apps/web`), **Python research** (`research`, `python`): see *Not
modelled*.

Interactions. The worker writes batches to PostgreSQL and the replay file;
finalizer, calibrator and replay script read them; the API reads the database
and feeds browser tabs over the realtime feed; the market engine fills orders at
the API's prices; the C++ scenarios drive the order book through the scheduler.
`Scenarios` composes the scheduler's order with the order book itself; what the
worker may write twice (`Ingestion`) is an input of `ObservedSeries`; the windows
and calibrations the scripts race with are steps of `OfficialClose`.

## The runs

Four runs pass. `OrderBook` is a state machine of its own. Each of the others covers
modules that share no state, no table and no file: a variable `part` is chosen at the
start and only that part takes steps, so that the run checks each of them exactly as if
it ran alone.

| Run | Module | Parts | States |
| --- | --- | --- | --- |
| `OrderBook` | `MCOrderBook` | the book, its views, the refinement | 133 thousand |
| `Service` | `MCService` | the account, the API over it, ingestion, attribution, closes, migrations | 1.8 million |
| `Supervision` | `MCSupervision` | the worker's connection, the tab's connection | 578 thousand |
| `Lab` | `MCLab` | nine parts around the book, the indices and the estimators | 292 thousand |

Eight more runs are violated, one each: what a document or a comment says and the code
does not do. They are described with the component they belong to. `MCIngestion` and
`MCSimulatedMarket` set up one component for those of them that need no other.

## The order book

| Module | What it is |
| --- | --- |
| `PriceTimeExchange` | the promise: a set of resting orders, one incoming order, price before arrival; no lists, no index, no events |
| `OrderBook` | the code: lists per level, locators, the matching loop, events, and the safety properties |
| `OrderBookViews` | `l1`, `l2`, `l3`, `queue_position`, snapshot and restore |
| `OrderBookRefinement` | the mapping from the second to the first: the lists become a set, `accepted_sequence` the arrival |
| `MCOrderBook` | the three together, with symmetry, for TLC |
| `OrderBookProofs` | the theorems about the book and the refinement |
| `SumProofs` | what its proofs, and those of the market and the backtest, need about sums |

Correspondence. `levels[side][price]` is the `std::list` of `bids_` or `asks_`
(an erased level is the empty sequence); `locators` is `locators_`; `taker` holds
the locals of `submit()` while its loop runs. A call that does not match is one
action (`Reject`, `Cancel`, `ReduceInPlace`, `SetState`); `submit()` is `Accept`,
one action per iteration (`Fill`, `StopNewest`, `CancelOldest`) and one for the
end (`Rest`, `CancelRemainder`, `Complete`). No other call starts while a taker
is in flight, since the book is single-threaded: the small steps let the
invariants speak about the inside of the loop. `replace()` is `ReduceInPlace` or
`CancelAndResubmit`, which goes on as a taker. `tape` is a history variable: what
a reader who only sees the events believes rests of each order. `Emit` includes
the throw for an event older than the last one, and what is left changed.

Abstracted: event payloads and the texts of reject reasons; `original_quantity`,
accept times and the remaining fields that matching does not read; times are a
small set, as only their order matters. `restore_state()` is modelled on
snapshots the book itself took. Quantities do not overflow.

Runs:

- `OrderBook` (passes): everything below, under all three self-trade modes.
  - `NotCrossed`: also inside the loop;
  - `LocatorsMatchBook`: each order is found where its locator says, only there;
  - `TimePriority`: along each list the accepted sequence increases;
  - `TapeMatchesBook`, reading `order_cancelled` as the end of an order;
  - `FillOrKill`: the precheck counts exactly what the loop reaches, even past
    own orders;
  - `ViewsAgree`: L1, L2, L3 and queue positions are views of one book, and restore
    after snapshot is the identity;
  - `ImplementsExchange`: the book refines `PriceTimeExchange`.
- `OrderBookVolume` (violated): with `CancelIsTerminal = FALSE` the reader trusts
  the quantities of cancel events; under `cancel_newest` a self-trade emits the
  cancel of the taker's remainder twice, so the volume conservation that
  `docs/architecture/limit-order-book.md` promises fails on the tape.
- `OrderBookLate` (violated): with two times, a `cancel()` older than the last
  event takes the order off the book and then throws; the tape never says so.

Bounds: three order ids, two agents, two prices, quantities up to two,
operations start below sequence 6. Three orders give a level with two makers and
a taker, the least at which a partial fill, a self-trade behind another agent's
order, a middle cancel and a requote into a queue exist; two prices give a level
behind the best one. The passing run has one time, so `emit` never throws there:
late events are the question of `OrderBookLate`. Ids and agents are only compared,
so they are symmetric. Deadlock is not checked: at the sequence bound everything
stops. No fairness is assumed: all properties are safety properties, and a call
of the book returns because the code has no wait in it.

### Proofs

`OrderBookProofs` proves, for every set of ids and agents, every number of
prices and quantities and every configuration `BoundsAssumption`,
`ConfigAssumption` and `AbsentAssumption` admit:

- `TypeCorrect`: `Spec => []TypeOK`;
- `BookNeverCrossed`: `Spec => []NotCrossed`.

Both follow from one inductive invariant `IInv`: `TypeOK`, `NotCrossed`, and a
conjunct about the taker, `TakerInv` (the request in flight has a price of the
book when it is a limit order, and its id is not active yet).
`NotCrossed` alone is not inductive: the only step that puts an order on the book
is `Rest`, at the price of the taker, and it is safe because nothing on the other
side is acceptable to the taker. `BestExists` (a non-empty side has a best price,
by well-foundedness of the naturals) and `NothingAcceptable` turn "the loop found
nothing marketable" into "no opposite level crosses the taker's price"; the taker
conjunct supplies that the price is one. Every other step thins lists or changes
an order in place (`ThinningKeepsNotCrossed`). `NextInv` has one lemma per
action, and PTL closes the two theorems.

On the same ground stand

- `LocatorsAlwaysMatch`: `Spec => []LocatorsMatchBook`;
- `TimePriorityHolds`: `Spec => []TimePriority`.

Both follow from `QueueInv`, which is `IInv` with `Placed` (a resting order has
the locator of its list and stands there once), `Found` (what a locator points at
is there) and `Queued` (sequences increase along a list and the next one is
free). Neither property is inductive alone. `Placed` and `Found` say what
`LocatorsMatchBook` says, but when `Rest` appends the taker it takes `TakerInv` to
know that no list has its id already. `Rest` also appends with the current
sequence: `TimePriority` allows a resting order to have that one already, `Queued`
does not, and every append raises it. The proof is about lists and not
about actions: an operation takes one order out (`Removal`), changes quantities
only (`Requantified`) or appends one (`Joining`); one lemma per kind shows that
`QueueInv` survives, and each action is shown to be of one kind.

`AcceptedMeansFilled` (`Spec => FillOrKill`) is about sums: `available()` adds up
what the loop is going to reach, and the loop takes it away order by order. The
invariant `Covered` says that while a fill_or_kill taker is in flight, what it can
still reach covers what it still wants; each iteration takes the same amount from
both sides. Under `cancel_oldest` the taker's own orders are not counted and leave
the book untraded; otherwise the first of them ends the count, and a covered taker
is filled before it gets there.

`BookImplementsExchange` (`Spec => ImplementsExchange`) is the refinement. Under
the mapping (`Shown`: a place in a list becomes an order with an arrival) a
removal, a change of quantity and an append are the same three operations on the
set of the exchange. The order at the front of the best list is the exchange's
counterpart (`FrontIsCounterpart`: by `Queued` the front is the earliest), and a
loop that finds nothing marketable leaves no counterpart (`NothingToDealWith`).
`NoTakerAssumption` only says that the absent order is none.

`TapeAddsUp` is conditional, and has to be: `CancelIsTerminal` and a step
condition, `Recorded` (no operation changes the lists without an event, that is,
no caller is late), imply `[]TapeMatchesBook`. Without the first the run
`OrderBookVolume` violates the property, without the second `OrderBookLate`. The
inductive part, `Told`, says what the tape believes of each order while the taker
is half matched.

`ViewsAlwaysAgree` (`Spec => []ViewsAgree`, under the same hypothesis `QueueInv` holds
from) is about what is computed from the lists. `BestFirst` names every occupied price
of a side once, so that flattening the levels lists every active order once; an order's
place in `l3` is the sum of the lengths of the levels before its own (prefix sums) plus
its place in the level, which is what `queue_position` counts, and no level is cut
because the listed ids inject into the active ones. `restore_state` is a fold over that
list, bids then asks: after each order the restored lists are the prefixes of the lists
it was taken from, and after the last one they are those lists.

## The ingestion worker

`Ingestion` models the data path of the worker. One Node process interleaves, at
every `await`, the reconnect loop of `live()` with the promise chain of each
socket it ever opened: a chain goes on after its socket has closed, while the
loop's `finally` block flushes and the next socket delivers. An action is what
runs between two awaits.

| In the model | In the code |
| --- | --- |
| `Connect`, `ResumeAt` | an iteration of `live()`: read the checkpoint, rewind, open |
| `Receive`, `SocketCloses` | the "message" handler and the socket's end |
| `Parse`, `Recorded`, `RecordingFails` | `processMessage()` before and after the behavior tape's await |
| `StorePostgres`, `StoreReplay`, `ReplayFails`, `AllSinksFail` | `CompositeSink.write()` |
| `TruncateCheckpoint` | the first half of `writeCheckpoint()` |
| `CheckpointAndAdd` | its second half, the return of `flush()`, and `aggregator.add()`, which throws if another task opened another minute meanwhile |
| `Leave`, `CheckpointAndLoop` | the `finally` flush |
| `Shutdown`, `Crash`, `AllSinksFailInLoop` | signals, a kill or the client's error exit, a throwing `finally` |

A document is its cursor; its minute comes from `MinuteOf`. `forfeited` collects
what the code knowingly or unknowingly gives up: a document marked as seen whose
handling then threw, documents below a checkpoint that is written while they are
only in memory, the only copy of rows a later batch replaces, and everything when
a crash leaves a torn checkpoint. `NoGap` says that nothing else is ever lost.

Runs:

- `Service` (passes), part `"ingestion"`: `OneMinutePerBatch` (whoever adds while others flush, a
  batch has one minute; with the type invariant `TypeOK`); `CountedOnce` (a process counts a document once
  over windows, batches in flight and what it wrote); `NoGap`.
- `IngestionRows` (violated): with no crash and no failure, a disconnect in the
  middle of a minute writes the minute's rows, and the batch of the rest of the
  minute replaces them. The audit in `docs/audits/pre-live-readiness.md` knows
  this for a crash or restart only.
- `IngestionShutdown` (violated): a chain that outlives its socket adds a document
  after the last flush, and shutdown ends the loop during the reconnect delay: the
  window is never flushed.

`IngestionProofs` proves these three properties for every stream,
rewind and number of sockets, crashes and failures, from three invariants, each
the ground of the next:

- `BatchInv` (theorem `BatchesOfOneMinute`) adds to the property what a task can hold
  at each await (`GoodHand`): nothing, a document being recorded, or a batch of one
  minute on its way through the sinks, with the document that closed it unless the
  task is the loop.
- `OnceInv` (`NeverCountedTwice`): everything this process holds or wrote is marked
  in the deduplicator (`Marked`), and a document between its mark and its place in
  a window is nowhere else, whatever other sockets deliver (`Unplaced`).
- `GapInv` (`NothingSkipped`): what was seen is stored, given up or in memory
  (`SeenKept`); what a checkpoint is about to pass is stored (`BatchStored`); and
  below anything in memory (`NoHole`) or a socket's place (`SocketsKeep`) nothing
  is missing. The last two make `NoGap` inductive: a checkpoint is only ever the
  cursor of something that was in memory.

The attempt showed one more way to lose documents than the runs had, which is now
part of `Connect`: a connection made when there is no checkpoint to read starts at
the live end of the stream and gives up what precedes it.

Bounds: three documents over two minutes, two sockets, one crash, one batch or
tape write that fails, rewind of one document. Two sockets are the least at which
an old chain meets a new one; two documents of one minute and one of the next let a
minute be cut in two, and a window open behind a flush. The theorems are for every
stream. The violated runs have four documents over three minutes and no faults. Deadlock is not
checked: after shutdown the worker stops. No fairness: safety only.

Abstracted: the documents are eligible, and distinct in their digests; the
deduplicator's one-hour retention is longer than a run; the behavior tape is on
(without it `Parse` and `Recorded` are one step, a behavior the model includes).
A PostgreSQL write is one step, where its COMMIT is: the statements of two
flushes that interleave on the one client, and the health-only snapshots, are in
`WorkerSupervision`. The reading of the checkpoint and the opening of the socket
are one step: a shutdown in between is in `WorkerSupervision` too.

## The worker's supervision and its database session

`WorkerSupervision` models the other half of the worker, second by second:
`live()` with its socket and backoff, the health timer, `shutdown()`, and the one
`pg.Client` on which a flush and a health-only write of
`PostgresAggregateSink.write()` interleave their statements.

| In the model | In the code |
| --- | --- |
| `Connect`, `Open`, `Closed`, `Leave`, `Wake` | an iteration of `live()`: the promise around the socket, the `finally` flush, the backoff |
| `Document` | `processMessage()`, with a flush when a new minute begins |
| `StartWrite`, `Execute` (`ExecuteBegin`, `ExecuteRow`, `FailRow`, `ExecuteCommit`, `ExecuteRollback`) | `write()`: each statement joins the client's queue and is answered in order; the session has one transaction |
| `HealthTimer` | the interval: to STALE, the health-only write, `terminate()` |
| `Shutdown` | `shutdown()` |
| `Dies`, `Drops` | a connection that dies without a word; an error or a close that arrives |

`Second` passes only when nothing shorter is due, so timers are exact. `Dies`
covers open and connecting sockets: a dead one answers no handshake and no close
frame.

Runs:

- `Supervision` (passes), part `"worker"`: `ReportedIsDurable` (a write that reports success
  has all its rows in the database, although the other writer's COMMIT and
  ROLLBACK end the same transaction; with `TypeOK`); `HealthyIsHeard` (HEALTHY is
  never shown over a silence longer than the threshold and a period); `Recovers`
  (checked as `WorkerRecovers`) and `ShutdownExits` (liveness).
- `WorkerHalfWindow` (violated): the health-only write that goes with a forced
  reconnect commits the transaction the disconnect's flush believes to be its
  own; a flush that then fails leaves half a window, which
  `docs/audits/pre-live-readiness.md:333` rules out.

`WorkerSupervisionProofs` proves `ReportedStaysDurable` and `HealthyMeansHeard` for
every period, threshold, backoff and number of faults, from `SupervisionInv`:

- `TxnInv`: at most two writers wait on the client, each once (`Waiting`); the rows a
  writer has sent are staged or saved unless its write is spoiled (`RowsSoFar`); a
  reported one has all of them saved (`WrittenIsSaved`); and a writer about to roll
  back has spoiled the other or precedes its BEGIN (`RollsBackAlone`), which is the
  case where sharing a transaction does no harm;
- `HealthWrites`: the timer finds its last write done, so no more than two write;
- `HeardInv`: under HEALTHY the silence is at most what is left to the next timer
  above the threshold, the form in which the bound survives a second.

The exceptions in the liveness properties are the code's: `Unwatched` names two
connections the health timer never replaces (one that died before the first
document the process ever received, since it compares with a null time; a
handshake that hangs while the state is already STALE, which is no edge), and
`late` a shutdown during the reading of the checkpoint, which closes no socket.

Fairness: `WF(Progress)`, where `Progress` is what Node, the database and the
clock do: event loops run what is due, statements are answered, time passes.
Faults and the shutdown are not fair. Bounds: a health period of 6, a
staleness of 12, a backoff up to 3 and a close timeout of 3 seconds (a tenth of
the 60, 120, 30 and 30 of the code, so that their ratios stay), three faults: one
to kill the first connection, one to kill its replacement, one to fail a row
while both writers write. Abstracted: only the health-only write of the edge to STALE (a restarted worker's write
of a zero cursor before its first flush is left out); clocks do not go back.

## The realtime feed

`RealtimeFeed` is the `/ws` endpoint and the `ConnectionManager` of one tab,
second by second. A link may stall (what was sent arrives late, if it resumes),
drop for the tab only, or the API process may restart, at any moment. Where the tab and
the worker have a notion in common, the names here are the longer ones: `FeedSecond` is
the clock, `attempts` and `reconnect` are `attempt` and its timer, `ShownAfter` is
`STALE_AFTER_MS`, `feedState` the manager's `state`.

| In the model | In the code |
| --- | --- |
| `Tick`, `Beat`, `Pong` | the tick and heartbeat intervals of `realtime.ts`; other tabs matter only because they use up sequence numbers |
| `OpenSocket`, `Established`, `Message`, `CloseEvent`, `GiveUp` | `open()` and the four listeners of `connectionManager.ts` |
| `StaleCheck`, `ScheduleReconnect` | the stale watch (degrade, then force a close) and the backoff |
| `missed` | the comparison of sequence numbers: the next message does not continue the last one seen |

The run `Supervision` (passes), part `"feed"`: `OneSocket` (with `FeedTypeOK`), `SilenceShown`
(CONNECTED is never shown over prices older than the stale limit and one check),
`CaughtUp` (a gap heals within a tick), `HalfOpenDropped` (a tab that cannot
answer keeps its server socket for at most two heartbeats), `ResponsiveKept` (the
heartbeat terminates no socket that could answer), and the liveness property
`FeedRecovers` (checked as `TabRecovers`). Constants are the code's in seconds; two faults suffice for a stall
during a reconnect and a restart during a stall, and the third connection id is
the one after both.

`RealtimeFeedProofs` proves the five safety properties for every interval, backoff,
burst and number of faults (`AlwaysOneSocket`, `SilenceIsShown`,
`CaughtUpInOneTick`, `HalfOpenAlwaysDropped`, `ResponsiveAlwaysKept`). `FeedInv`
relates the timers: a socket or a reconnect, never both (`OneInv`); an established
socket has a stale watch (`WatchedInv`); silence under CONNECTED and the time a tab
is deaf are bounded by what is left to the next check or heartbeat (`SilenceInv`,
`DeafInv`); the messages of a tick that reached the tab are in order behind its gap
(`CaughtInv`); a stopped server has no sockets (`DownInv`). The proof needs
`DisconnectAfter >= ShownAfter + Watch`, which the code's 30 and 8 seconds satisfy:
with a smaller one the tab would close a socket for its silence before it was ever
shown as stale.

Fairness: `WF(FeedProgress)`, both event loops with their timers and a working link;
`WF(GiveUp)`, the browser ends a closing handshake nobody answers; `WF(Start)`,
a stopped API process is started again. A stalled link need not resume. In the run the
fairness of a part asks nothing of the other. Deadlock is not checked, as the worker may
end; that the tab does not get stuck is what `FeedRecovers` says.

## The simulated market

`SimulatedMarket` is `packages/market-engine`: `SubmitOrder` (quote with
slippage, fee, checks, cash flow, two ledger entries, the position through
average, partial close and crossing), `Bailout`, and the functions `Value`,
`EvaluateRisk`.

Units and doubles. Prices, cash and entries are cents, quantities half units, so a
flow is a number of half-cents. The code computes flows, fees and slipped prices in
doubles and rounds them. A double is off by far less than a quarter of a cent, so the
result can only differ from that of the exact amount where the exact amount lies half
way between two cents. There the side depends on the digits of the price, and the model
takes it from two constants: `Short` holds the computed amounts whose double is below
the amount, `Over` those whose double is above; `Lean` reads them and `Minor` rounds
accordingly. An amount is named by the expression that computes it (`"notional"`,
`"debit"` with the fee added, `"credit"` with it taken off, `"price"`, `"fee"`), since
the doubles of equal amounts differ. The runs list what IEEE arithmetic gives for their
very prices and quantities, the theorems hold for any `Short` and `Over`. Average
entries and realized profits are never rounded in the code; here they are the exact
fractions those doubles stand for, so the drift of a long sum of doubles is not
modelled. The value of an account with positions is such a sum: where it is 100 exactly
`Bailout` may be accepted or not.

The run `Service` (passes), part `"account"`: `LedgerFollows` (cash and ledger part by at most a
cent for each order that came to half a cent, counted in `uneven`, and by nothing
else), `CashNeverNegative`, `ProfitExplainsEquity` (with `MarketTypeOK`; up to half a cent
either way for each such order) and `RiskNeverEases`. Odd quantities in half units make
the rounding bite; the prices 399.88 and 50.41 have, after slippage, orders that leave
the cash a cent above the ledger and others a cent below; five orders reach averages,
crossings and a bailout; the grant is small enough that orders are refused.

`SimulatedMarketLedger` (violated): `LedgerBalances`, the promise of
`docs/architecture/market-accounting.md` that "Account cash must equal the sum of its
ledger at all times". One BUY of half a unit at the catalog's price of CRY, 8428.07,
moves the cash by -421827 cents and enters -421405 and -421.

Abstracted: the liquidity provider's price formula (`exp`, `sqrt`) is a table;
`cancelOrder` never changes an order, as each is FILLED at once. Seen while
modelling, outside any property: `portfolio()` drops the realized profit of
positions that are closed.

`SimulatedMarketProofs` proves all four for any assets, prices, quantities and
numbers of orders.

- `LedgerAlwaysFollows`, `NeverOverdrawn` from `AccountInv`; whatever the leans,
  `Required` rounds so that it covers what the cash moves by, and the two roundings of
  an order differ by a cent only if its notional is odd (`OrderAmounts`).
- `RiskOnlyWorsens`: the exposures are sums of absolute values, so that none
  is negative and neither is a limit; with less equity every ratio of `EvaluateRisk`
  only grows.
  `PolicyAssumption` asks that the limits are not negative.
- `ProfitAlwaysExplains` from `Costs`: every position has a whole cost (the average
  entry, a fraction, times the quantity is an integer in half-cents), through
  averages, partial closes and crossings. The lemmas about the average are those of
  the recursive function `Gcd`: it exists, by its least counterexample, and divides
  both of its arguments. `ProfitInv` then says that cash less what the positions cost
  is what was put in plus realized profit less fees, up to the dust of the roundings,
  half a cent either way an uneven order.

### The API over the account

`Api` is `apps/api/src/server.ts` in front of that account. A request is handled from
where it came to its first `await` in one step (`Read` answers it, `Begin` waits), and
from there to its answer in another: `BodyFails`, `BodyRefused`, `Login`, `Order`,
`Queried`, `QueryFails`. Nothing else suspends a handler. `Environments` holds what the
process may be started with; `Starts` is `resolveDataMode`. An answer is its status and
what the property tells apart; `Order` is the whole rest of POST orders.

`AccountIsOne`, of the run `Service`, part `"api"` (three requests, six environments, one
body of each fate): every order of the account was confirmed to
exactly one request and counted once, none is left by a request that failed, and
whatever shows the account shows it as it was at one moment.

`AccountStaysOne` proves it for any number of requests and any environments, from
`ApiInv`: what shows as many orders as there are shows the cash there is (`Current`), no
answer shows more (`Numbered`), and a request without an answer confirms nothing
(`Answered`). `ApiKeepsAccount` proves that a step of the API is a step of
`SimulatedMarket` or none, so that its theorems hold behind the API; it needs of the
bodies that the schema accepted them (`BodiesAssumption`).

What an answer says of where its data is from is the question of the run `ApiPromises`
(violated). Two sentences of `docs/api/v1.md` are stated as properties:

- `MissingMetricsAreNull`: line 21 says "Missing live metrics are `null`, never synthetic
  substitutions"; a live process whose query finds no row answers the synthetic metrics
  (server.ts:329). They are labelled SYNTHETIC, and a live process without
  `DATABASE_URL`, whose fallback to synthetic data other documents announce, is left out
  of the property.
- `SyntheticIsLabelled`: line 33 says that synthetic results are labelled and "are not
  empirical findings"; in the empirical modes `research/series` names
  `BLUESKY-JETSTREAM-1` over the synthetic history (server.ts:493).

The run checks that at least one of the two is kept (`SomePromiseKept`), and its trace
breaks both: one live process, one request for a series and one for metrics.

Seen while modelling, outside any property: hours that are no number pass the check of
`live-market` (hft-engine/src/index.ts:244); no route offers a bailout.

## Records in PostgreSQL

Three components that share no table, parts `"attribution"`, `"closes"` and
`"migrations"` of the run `Service`.

**`AttributionStore`**: the cache, the rows, and the writes in flight, which the
pool runs in any order (`RunWrite`), refuses (`FailWrite`) or loses in a `StoreCrash`.
`ParseEvent` is the parser's use of `recordPost`, `forgetPost` and `resolve` for the
next event of the stream; a new process starts at any earlier position (the
checkpoint's rewind). `KnownWithinRetention` and `ForgottenStaysForgotten` hold
with their exceptions named as history: `unsaved` (the INSERT never ran) and
`kept` (the DELETE never ran, or ran before an INSERT of the same post: a race
the pool allows). `RecordsProofs` proves both for every stream, retention and
number of failures. They need `EventAssumption`, that a post is created once and
not after its delete: an assumption about Bluesky's stream, not about the code.
The argument: for each post the pair of its last event and what cache, row and
writes in flight can be then (`Forgotten`, `Known`). Seen while modelling: the cache never expires an entry,
while `docs/architecture/live-ingestion.md` says that engagements outside the
retention are unmapped; `pending` is only drained at `close()`.

**`OfficialClose`**: one step per SQL statement, READ COMMITTED; an INSERT waits
for an uncommitted row of its key. Two finalizers, kills, windows and
calibrations arriving meanwhile. `DayIsUniform` (a day's closes come from one
run), `IndexIsChained`, `CalibrationsAdvance`. `RecordsProofs` proves
`DayIsOneRun` for any number of finalizers, runs, days and expressions: the
rows of a transaction and of `closes` never share a key (`RunsApart`), and a
transaction has a row of every expression that is not left to insert
(`Transaction`), so what commits is a whole day (`Whole`).
`IndexStaysChained` and `CalibrationsNeverGoBack` follow from `ChainInv`, which judges
every row, committed or pending, and every run half way through its statements
against the committed closes and calibrations: what a run has read was there, and
stays there, since nothing deletes either. Seen while modelling: every
close has revision 0, so a partial close occupies the key and the final close of
that day can never be inserted.

**`Migrations`**: several deployments run the script without a lock.
`MigratedOnce`, proved as `AlwaysMigratedOnce` for any number of migrators, files
and restarts from `HoldsOwn` (what a migrator applied is uncommitted), `Passed`
(files before its place are done) and `Apart` (no two have the same file open).
A losing migrator exits with an error although nothing is wrong.

Bounds: a stream of six events (a post, a reply to it, engagements before and
after the delete and at the end of the retention), retention 2, days 0..3, two
crashes or refused writes; two finalizers, three runs, two days of two windows,
two calibrations; two migrators, three files, three starts each. Finalizers are
symmetric. Safety only: nothing in these scripts retries.

## The laboratory

`MCLab` runs nine parts that share no state; `part` chooses one.

- **`Scheduler`** (`DeterministicScheduler`): `RunsInOrder`, proved as
  `AlwaysInOrder`. An action that schedules does so after it left the queue, so
  one `Schedule` stands for a caller and for an action.
- **`Backtest`** (`cpp/src/backtest/engine.cpp`): `DecisionsExecute`: exactly the
  decisions no later one replaces execute, exactly their delay later, and nothing
  held was decided later. Proved as `DecisionsAlwaysExecute`. With a delay longer
  than the interval only the last decision executes, with a delay of 0 none: the
  property says so. (`hit_rate` counts only changes of sign; it is not modelled.)
- **`Behavior`** (accumulator and `SimulationHandle`'s replay controls):
  `DepthIsEarned`, for late, repeated and orphaned events. Depths are kept per
  expression, and `load_replay` keeps what was accumulated.
- **`TradingRules`**: `TradingRulesHold`, the reopening auction against its
  definition, TWAP and VWAP slices. Proved as `AuctionsClearAndSlicesAddUp`.
- **`Scenarios`**: scripts of calls on `OrderBook` itself (INSTANCE).
  `ScenariosFollowPriority`: the shock of CULT-X gives the same trades, quotes and
  number of events as the TypeScript demo, which has no book; the stale-quote race
  and the queue trade-off come out by arrival and price. The demo's midpoint is
  half a tick lower, so it accepts a few orders that C++ rejects for EXPOSURE or
  LEVERAGE; it also hard-codes `imbalanceL5` 0 and `tradeImbalance` 1.
  A leaning maker's inventory is bounded by the walls (`MakerStaysInside`).
- **`IndexRules`**: `CompositionsAreFair`, proved as `CompositionsStayFair`: what the
  buffered selection owes incumbents and newcomers (`BuffersAreFair`), that a
  composition stays what was first accepted for its date (`HistoryIsFrozen`), and that
  a rebalance dated after all others leaves the past alone (`PastIsKept`): the answer
  for a date differs from what was known at that date, when no later one had been set,
  only by a composition set late. `rebalance()` accepts such a one, and the run
  `IndexBackdated` (violated) shows what follows: after dates 1 and 3, setting date 2
  changes the answer for date 2 (`KnownAtItsDate`), though
  `docs/methodology/index-construction.md:7` says "Historical values use the composition
  known at that date; current membership is never projected backward."
  `CapsAreHonored`, a part of `FormulasAgree`: both capping loops in exact fractions;
  research weights exist exactly when the cap is feasible; the served weights are
  the same then, and silently exceed a cap with n * cap < 1.
- **`PortfolioBacktest`** (`runBacktest`): `WealthIsExplained` through bars without
  a price. Such a bar makes the curve dip by what is held of that asset, and sizes
  targets on the smaller equity.
- **`ObservedSeries`** (`scripts/replay.ts`, `candles.ts`, the store's history):
  `CandlesAreObserved`, proved as `CandlesStayObserved`: dropping old ticks redraws the
  oldest candle only. `ReplayIsCanonical`, a part of `FormulasAgree`: a minute with two
  lines counts its documents twice in the daily close but once as a window, and the
  file's order decides the index between the two.
- **`Measurement`**, **`Estimators`** (`packages/expression-engine`, `research-engine`):
  `EstimatesAgree`, the last part of `FormulasAgree`, on every sample of small integers, in exact fractions (square roots
  stay squared, logarithms are left off). The two packages agree on the
  prevalence of a window that has documents; Wilson's
  clamps never bite; standardization is the pooled rate for the calibrated mix; the
  phase 2 signals with equal weights are those they replaced; one-pass variance is
  covariance; elimination finds the regression line, and refuses
  a design exactly when what is left of a column is under its tolerance, so also designs
  that are independent but nearly constant or nearly alike, for which the formula gives a
  slope (the code's tolerance of 1e-12 is the constant `Tolerance`, 3/4 in the run, so
  that small integers lie on both sides of it); lags mirror; the long-run variance is never negative; Benjamini-Hochberg,
  drawdowns and splits are their definitions. The two packages disagree on a window without
  documents: `jeffreysPrevalence` smooths it to 0, `prevalenceFromCounts` to 1/2.
  `WindowIsMeasured` says so; neither is what `docs/methodology/prevalence.md:19` promises,
  "`N=0` produces no valid window, not a fabricated zero observation". Seen at the edges: a constant market has slope 0 in `singleFactorRegression` and is a RangeError in `neutralize`; a stratum
  without documents withholds the standard even at weight 0; an author without
  documents counts as unique; at a lag of the length `leadLag` reports all
  observations with correlation 0, and for the opposite lag none; an embargo delays the
  next split but does not keep its training away from the last test.

Bounds of `Lab.cfg`, each the least with every case: times 0..3 and four actions
(ties, and an action at the current time); six bars, intervals to 3, delays to 4
(delay below, at and above the interval, and past the end); a thread of three and
an orphan, four events; auctions of three orders with prices and quantities from
0; parents to 7 in at most four slices; shocks over two reference prices, six
signals around the size limits and five sets of limits, one per rejection; cancel
latencies before, at and after the order; seven rounds for three desks; baskets
of four with signals 0, 1, 4, 9 and caps on both sides of feasible; four
ranked ids and one without a rank, up to three of them incumbents; three dates; three bars
with prices 0 to 2 and weights -1/2, 1/2, 1; files of three lines over a day and a
half, five ticks with a history of three; windows of 0 to 12 documents, strata to 3, up to
12 authors, series of three values to length 4, curves of five points, three tests,
nine items in five buckets, splits of lengths to 3 over nine observations. Safety only: deadlock is not checked,
as every part ends.

`LabProofs` proves eight of these for every value of the constants.

- `AlwaysInOrder`, from `ClockIInv`: whatever waits comes after whatever ran, and the
  sequence numbers of both are those given out.
- `DecisionsAlwaysExecute`: the pending target is the last decision that can still
  execute, and `executed` is what the property says, at every bar.
- `DepthIsAlwaysEarned`, from `BehaviorInv`. The property speaks of the lineage of an
  event; the invariant speaks of any set of applied events that has the parent of
  each member before it (`Supported`): all in it are measured exactly. Such sets
  survive an append, and a lineage in order is one. What is not in such a set is
  never deeper than it should be.
- `WealthIsAlwaysExplained`, for any finite set of assets, any prices, targets and fee:
  an order moves as much out of cash as into the positions, so that a bar changes
  the wealth by what price changes earned on what was held, and by fees. What has
  no price is not traded, so the curve lacks exactly that.
- `AuctionsClearAndSlicesAddUp`, for any orders and any parent. `Better` (more volume,
  then less imbalance, then nearer the reference) orders the prices strictly, so that
  the scan ends at a price nothing visited beats, whatever order it visits them in. The
  lots of a TWAP differ by one at most and their prefix sums reach the parent; a VWAP
  slice is what is left of the parent, so that the fold never owes anything.
- `CompositionsStayFrozen`, for any dates. The invariant `HistoryInv` says that snapshots
  are in order of their dates and hold exactly what was first accepted for each; the
  sorted list of snapshots with different dates exists and is the only one, so that what
  `compositionAt` finds from the end is the latest date up to the one asked for.
  `KnownInv` adds that what was known at a date is the composition of the latest date up
  to it, unless that one was set late. The theorem says `HistoryIsFrozen` and
  `PastIsKept`, not that a back-dated rebalance changes nothing, which is false.
- `BuffersStayFair`, for any ranking and incumbents. Both filters keep what they want,
  once (`Filters`); the retained stand before the entrants, and the cut keeps a prefix:
  when it cuts into the retained the target is reached, and nobody else comes. The fill
  keeps whoever was chosen and leaves room only when every ranked id is in (`Fills`).
  That both lists have no repetitions makes lengths cardinalities.
- `CandlesStayObserved`, for any ticks. `Told` says of every prefix of a list which
  points each candle tells of (a stretch, as buckets come in order); a point either
  prolongs the last stretch or begins one. `Alike` compares the candles of the whole
  list and of its end: they are the same but for what the first one knows, and each
  point changes both alike. The invariant is that the history is the end of the ticks.

## What is proved and what is only checked

Proved by TLAPS for every value of the constants: the theorems above, thirty-nine in
eight modules. They assume what the modules' ASSUMEs say of the constants (TLC
evaluates each in a passing run) and, for `TapeAddsUp`, its stated hypotheses.
`SumProofs` holds what several of them rest on: sums over finite sets, folds and filters
step by step, prefix sums, flattened lists, sorting by CHOOSE, division with remainder.

Only model-checked:

- liveness under fairness (`FeedRecovers`, `Recovers` and `ShutdownExits`):
  it needs ENABLED, which the prover does not reach;
- `FormulasAgree`: identities of fractions in lowest terms (the loops of `CapsAreHonored`
  converge because each turn caps one more constituent; a replayed index is a product
  of ratios; each estimator is a recurrence of its own), and the provers have integers only;
- `ScenariosFollowPriority`: fixed scripts of calls on the book, so that there is nothing
  to generalize over but their few parameters; a run explores them all. What the book
  promises of any script is what `OrderBookProofs` proves.

Where a theorem needs a recursive function over a finite set or the naturals (sums,
`Gcd`, the depth of a lineage, a fold over a list), the equations of the function are
lemmas proved by a least counterexample: the library's induction theorems take an
operator as a parameter, which the provers cannot instantiate.

Not claimed at all:

- the violated properties of the eight runs that expect one: they do not hold.

## Not modelled

- HTTP API: the numbers a route computes from the synthetic data set or the fixed
  scenario are those of the packages; serialization, headers and logging.
- Web terminal: rendering. Its connection, history and candles are modelled.
- Of the expression engine and the research packages: exponential weights, seasonal
  baselines, the bootstrap, event studies, costs, entropies and ratios of square roots;
  the synthetic data and the spelling of expressions; `packages/analytics`' copies of
  the statistics. Latency distributions, spread and execution statistics of the C++
  side. Floating point without state or steps, and TLC has no reals: where
  `Estimators` covers a formula it does so without its rounding.
- HFT package beyond the shock: latency game, queue lab, heatmaps and alerts are
  fixtures or floating point.
- Behavior tape rotation, text parsing and digests: file and string handling.
- Restore of a foreign snapshot of the book; schema beyond the keys the modules
  use; Python research: offline scripts over files.

Possible further work: the capping loops over an abstract ordered field; a realtime
feed of several tabs.
