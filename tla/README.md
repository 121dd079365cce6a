# Formal models of TXT

TXT is a trading terminal: Python services (FastAPI, one asyncio process each)
around a Postgres database, a TypeScript market-data pipeline, a Rust execution
engine and a Next.js operator interface. These modules model the parts in which
an order, a budget or a bar can go wrong through timing, loss or restart, check
them with TLC and prove the most important invariants with TLAPS.

Line numbers below and in the comments of the modules refer to the repository;
`main.py` is the main module of the service that is named.

## Components, their state and their hazards

| component | state | operations | hard because |
|---|---|---|---|
| MT5 bridge, command queue (`apps/mt5_bridge`) | table `mt5_order_commands` | insert and wait (`/v1/orders/filter`), lease a batch (`commands.mql`), record a result (`result.mql`) | the expert advisor (EA) polls, loses replies, restarts, and reports late or twice |
| Control plane, live MT5 orders (`apps/control_plane`) | table `mt5_live_approvals`, kill-switch row, running handlers | submit, list, second approval, kill switch | a handler awaits six services between its check and its update; timeouts differ |
| Risk gateway (`apps/risk_gateway`) | in-memory ledger | pre-trade check, MT5 check, release | amounts without names, lost at restart |
| Control plane, intents | in-memory dict of pending intents | submit, approve, execute | read, await, delete; charge without release |
| Execution router (`apps/execution_router`) | active live orders, optimizer tasks | place, query, cancel, amend, optimize | the status of an order is old when it is acted on |
| Broker adapter (`apps/broker_adapter`) | orders at the exchange | place with stop and target, amend with rollback, cancel | several exchange calls, each may fail or be lost |
| Position protection governor | status per position | sync, reconcile, arm kill switch | acts on snapshots |
| Market-data pipeline (`data_bar_builder`, `timeframe_engine`, `data_bus`, `ProductionSystem.ts`) | open bar, histories, subscribers | trades to bars, aggregation, dispatch | late trades, gaps, callbacks within callbacks |
| Chart data bus (`ui/mission-control/lib/marketDataBus.ts`, `goldenFrame*`) | configuration, candle engine, fetch in flight, sockets, timers, cooldowns, frame queue | connect, refresh over HTTP, reconnect sockets, order and draw frames | awaits that a new configuration overtakes, timers that race sockets, a worker reached by messages |
| Storage manager, exchange connectors | caches, batches | write-behind, fan-in of trades | not: their driver calls are stubs |
| Rust execution engine | request queue | route choice, fill simulation, worker | bounded queue |

The other parts of the repository (learning services, connectors and
dashboards of the control plane, the rest of the web interface, scripts, sites,
deployment) keep no state of their own that several actors race for, or are
pure computation; `PROJECT.json` lists each with the reason it is left out.

Interactions: the interface and the scripts call the control plane; the control
plane calls the risk gateway, the execution router, the Rust engine and the MT5
bridge over HTTP with a timeout on each call; the bridge is polled by the EA; the
router calls the broker adapter, which calls the exchanges. All Python services
share the database, with synchronous statements: **inside one service the code
between two `await`s is atomic**, which is the granularity of the models. In the
browser and in its worker an event handler is atomic in the same way.

`cpFetch`, through which the interface calls the control plane, repeats a call at
the next candidate address after any failure, whatever its method: its inner
`break` (controlPlane.ts:800) leaves only the attempts at one address. A POST
that was executed and whose answer was lost is therefore sent again, and the overlapping
approvals of `approval_resolved_twice` need no second click.

## Modules

| module | models | extends / composes |
|---|---|---|
| `OrderCommand` | abstract: what the bridge promises about one order | |
| `Mt5CommandQueue` | the bridge's table, its three endpoints, and the EA (external) | implements `OrderCommand` |
| `RiskLedger` | the handlers of the risk gateway | |
| `RiskGateway` | the gateway with callers that survive its restarts | `RiskLedger` |
| `Mt5LiveOrder` | approval, attempt, gateway, bridge and kill switch together | `OrderCommand`, `RiskLedger` |
| `LiveOrderLoop` | the router's loop over one live order, the broker adapter's calls, the exchange (external) | |
| `MarketData` | one trade from the exchange to the bus: bar builder, timeframe engine, event buffer and hot cache | |
| `ChartRefresh` | the chart's configuration, its refresh loop over HTTP, and where the candles of the chart feed come from | |
| `ChartSockets` | the main and auxiliary sockets of one stream, their timers and cooldown | |
| `RenderGate` | sequence guard, pending frame and timers, in the page or in the worker | |
| `FiniteSums` | lemmas about sums of a function over a finite set | |
| `Mt5CommandQueue_proofs` | theorems about the command queue; it implements `OrderCommand` | `Mt5CommandQueue` |
| `RiskGateway_proofs` | theorems about the gateway | `RiskGateway`, `FiniteSums` |
| `Mt5LiveOrder_proofs` | theorems about the live order | `Mt5LiveOrder`, `FiniteSums` |
| `LiveOrderLoop_proofs` | theorems about the router's loop | `LiveOrderLoop`, `FiniteSums` |
| `MarketData_proofs` | theorems about the pipeline, from a trade to the bus | `MarketData` |
| `ChartBus_proofs` | theorems about the sockets, and about the render gate | `ChartSockets`, `RenderGate` |
| `ChartRefresh_proofs` | theorems about the refresh loop | `ChartRefresh` |
| `MC...` | model values of the runs | the module they are named after |

Operators whose name ends in a suffix after `_` (`Due_NoLease`) are mutants:
variants of the operator below them that a plausible bug would produce. No
specification uses them; each shows that a property would notice.

### `Mt5CommandQueue`

A row is the functions `status`, `rank` (`created_at`), `ttl`, `lease` at a
command. Timestamps are kept as the time left until them. `FilterOrderRefused`,
`EnqueueOrderCommand`, `WaitSeesResult`, `WaitTimesOut` are the HTTP handler
(main.py:570-692), `PollCommands` is `account_commands_mql` with both of its
statements (1421-1486), `CommandResult` is `account_command_result_mql`
(1489-1573), whose UPDATE has no condition on the status. The EA is not in the
repository; `EaExecutes`, `EaRefuses`, `EaRestarts` and the `lost` parameter of
a poll let it do everything the protocol cannot rule out: execute every copy it
is handed, crash before it reports, report again, late, or with a word the bridge
does not count as success. One thing is assumed of it: it shows a ticket only for
an order that was executed; the bridge takes a ticket from any of five keys of the
result, `id` among them (524), so this is an assumption on what the EA writes there.
`EventuallyClosed` assumes that somebody polls: a row nobody asks for stays as it is.

Abstracted: payloads, accounts (one), the search of a command by `mql_id`, and
rows with an empty `client_id`, which the insert never writes.

### `RiskLedger` and `RiskGateway`

`used` and `exposure` are the two entries of `STATE`; `Commit` is the accepting
path shared by `pre_trade_check` and `mt5_order_check`, `Release` is
`mt5_order_release` with its clamp at zero, `Restart` loses the ledger. A
rejecting check and a dry run change nothing. Policy tests that read no state
are the Boolean `allowed`; amounts are integers. `held` and `stray` are history:
the reservations this incarnation still holds, and what was released to it
without ever having been charged.

### `Mt5LiveOrder`

An *attempt* is one run of `mt5_live_second_approve` (main.py:21677) from its
"pending" check to its final UPDATE, together with `_execute_mt5_filtered_order`
(22056); `stage` is the `await` it is suspended at:

    idle -> dry -> route -> commit -> bridge -> book -> ok
                |        |        |         |        |
                v        v        v         v        v
              failed   failed   failed   release   failed
                                            |
                                            v
                                          failed

Requests to the gateway and its replies are messages (`calls`, `replies`): a
caller that timed out is gone, but its request may still be handled, so a check
can be charged after it was counted as rejected. `posted` are the attempts whose
order was sent to the bridge; the bridge may receive it after the client gave
up. From there on the bridge is the contract of `OrderCommand`, which
`Mt5CommandQueue` is shown to implement, so the two levels fit together. The
kill switch is `kill` and `apiErrors`; `RecordApiError` is called where the code
calls it, which is on an error answer and not on a timeout.

Abstracted: the hardening rules other than the backlog, the chart risk rules,
the predictor and the router are their verdicts (a nondeterministic choice of
pass or fail); the amount of an order is the one the predictor step left;
the age of an approval is nondeterministic; one account.

### `LiveOrderLoop`

The state is that of one decision: `stage` is where `place_routed_order` or the
task `_run_execution_optimizer_live_loop` (execution_router 1328-1569) stands,
`call` its one outstanding HTTP call, `wanted`, `reported`, `status` and `active`
what it knows and stores. `size`, `fill`, `open` and `dying` are the orders at
the exchange; order `k` is the replacement made in cycle `k`. A call is performed
by the adapter in two steps, the operation at the exchange (`AdapterSubmits`) and
the query after it (`AdapterAnswers`); the order may be executed before, between
and after them, also after an accepted cancellation until that takes effect. A
call the router gave up on may still reach the exchange. `provider` selects the
venue's rules: who amends in place, who raises the notional to the minimum, and
which status words are mapped to what (`Reports`). `quantity` is the quantity the client
may have sent with the order (1036). It goes out with every placement (1124-1125), the
replacement copies the context and changes only the notional (1535-1537), and both
adapters size by the quantity before the notional: the replacement of a partly filled
order is of the full quantity again. `OverfillExplained` names that term `Repeated`,
beside `Unseen` and `Lifted`.

Abstracted: prices, and with them the conversion between quantity and notional, which
are in the same units; the venue's maximum; and the scores of the optimizer, whose verdict (keep, amend,
replace with a fifth to all of the remainder, cancel) is a free choice; BingX's
amendments of stop and target; a second decision with the same id.

### `MarketData`

`OnExchangeTrade` is the whole synchronous chain of one trade: the builder closes
or continues the bar (`Finalizes`, `NextBar`), the engine folds a closed minute
into each derived timeframe (`NextDerivedBar`, `Closed`) and calls its
listeners, and the bus appends an event for each and keeps it in its hot cache
(`PublishBars`). What the bus calls next, its subscribers, changes nothing of the
pipeline and is left out with the roles that order them. Prices and sizes are abstracted to the sequence of trades a bar was
built from, from which every field of the bar is computed; timestamps are
integers. The feed may deliver trades late.

### The chart data bus

The three modules are three views of one object, `MarketDataBus`, cut where its parts
meet in few places: they share `connect` and `disconnect`, and each keeps of the
other two what it needs.

`ChartRefresh`: `refreshNow` (marketDataBus.ts:1851-2119) is cut at its two awaits,
into `RefreshNow` (up to the first), `SnapshotAnswers` and `FallbackAnswers`. A
request keeps the configuration it was made for. The code compares that with the
connected one after the first await (1950) and not after the second (1994), so the
answer of the fallback routes bootstraps the engine of whatever is connected by
then and is published under the key of the request. Of candles the model
keeps whether they are empty, of their own key, or foreign.

`ChartSockets`: `kind` picks the trade stream or the depth stream; the two
have the same shape but for how failures count. Map entries, timeouts and sockets
are separate objects, as in the browser: a map holds one handle of a venue
although more timeouts may be pending, and a socket that no map holds any more (an *orphan*)
keeps its handlers. `connectOhlcvSocket` opens the auxiliary sockets that the map
lacks (2771-2790); an auxiliary timeout opens one whatever the map holds (3152).
The book of a venue, `depthOf`, has two kinds of writers: messages of the depth stream, and
refreshes of the chart (2080-2099). A refresh that waits for the fallback routes is in
`refreshes`, as the feed it was made for; its depth goes into the entry of that feed's venue
although another feed may be connected by then (`FallbackDepth`). Several refreshes of one
feed may wait, which is why an answer may leave its entry there. `depthOf` is
followed together with the depth stream only.

`RenderGate`: the sequence guard and the pending frame are the record `gate`, with
one set of operators for the page and the worker, whose code is the same; with a worker frames and
the reset are messages to it, and its frames are messages back. `turn` numbers
frames in the order in which they are made, `era` counts connects and failures of the worker, so
that the properties can tell an older frame from one of an earlier connection. `bars` is
whether the chart has any, since `publishEngineFrame` returns without them (2311-2314): depth
that comes before them, or after a switch to a timeframe whose series is empty, raises
`lastDepthSequence` and makes no frame (`DepthWithoutFrame`); `newest` is the sequence of
the last frame that was made. A refresh that waits for the fallback routes is in
`refreshing`, as the key it was made for, and its bars are published past the gate under
that key, whatever is connected by then (`FallbackAnswers`; 2054-2119). The switch of the timeframe
and a price tick (2280) publish past the gate as well, under the connected key. Its
definitions have names of their own (`GateInit`, `GateNext`, `GateSpec`; `DisconnectFeed` is
`disconnect`, `DepthFrame` a depth message), as one module proves about it and the sockets.

Abstracted: prices and volumes, the skew between trades and depth (the grace
window may or may not have passed), throttles (a throttled publication may or
may not happen), and telemetry. Facts met while modelling that have no run:
the bars a depth message sends through the gate are those of the snapshot, up to 750 ms
behind the engine (2394-2402); the close of an orphan clears the ping timer of the
socket that replaced it; `safeCloseSocket` takes the handlers off a socket that
is still connecting and leaves it; a large gap between sequences is given up
one sequence per grace window; on the public host there are no sockets at all.

## Runs

| run | question | result |
|---|---|---|
| `command_queue` | are answers true, executions bounded, first dispatches in order, is a closed row closed for good; is the contract implemented | holds |
| `command_queue_live` | is every caller answered, every row closed | holds |
| `risk_gateway` | does the limit hold, is the ledger exact, and by how much at most does a restart falsify it | holds |
| `live_order` | executed means filled, four eyes, open orders stay charged, leaks are traced | holds |
| `live_order_ends` | does every attempt end | holds |
| `live_order_loop` | does one order work at a time, what is executed too much and why, is an order recorded as finished finished, does the loop end | holds |
| `market_data` | is the derived bar in progress the aggregate of the stored minutes, late trades included; with trades in order, is every window published once, true, and none left out | holds |
| `chart_refresh` | does the refresh loop survive every early return, is what stays connected refreshed, how can data of another configuration get in | holds |
| `chart_sockets` | one main socket or one timer, is a lost stream retried, how can a venue have two sockets | holds |
| `render_gate` | do frames leave in order, is none forgotten, is the newest drawn, how can the chart go back | holds |
| `approval_resolved_twice` | is a resolved approval resolved only once | **refuted** |
| `budget_released_too_early` | do executed orders stay within the daily limit | **refuted** |

What the refuted runs show:

* Two second approvals of one request overlap. Both pass the check for `pending`
  (21690), both execute, and each final UPDATE ignores what the other wrote: the
  order is sent twice and `executed` can turn into `rejected`.
* The control plane waits 12 s for the bridge (22214); the bridge waits 20 s for
  the EA and then leaves the command in its table (mt5_bridge 646-656). On the
  timeout the charge is released, another order takes the budget, and both are
  executed: the day exceeds `daily_notional_limit_usd`.
What the properties named `...Traced` show: each names the only ways
into a state the code does not rule out, and so what a repair has to remove.

* `ForeignDataIsTraced`: candles of another instrument or timeframe get under a key
  only by a refresh overtaken while it awaited the fallback routes. Repeating the
  comparison of line 1950 after line 1994 would make `AllOwn` an invariant.
  The same repair removes one way from each of the next two properties.
* `StraySocketsAreTraced`: a venue has two sockets, and its trades count twice, only after
  an auxiliary timeout fired for a venue that was connected meanwhile; depth of another
  instrument gets into the book only from such a socket or with an overtaken refresh.
* `GoingBackIsTraced`: an older frame is drawn only after sequences of two venues arrived
  out of order, or after a frame that did not go through the gate (of the refresh
  loop, a switch of the timeframe or a price tick).
* `StrayFramesAreTraced`: a frame of an earlier connection is drawn in three ways only: across a
  change of the timeframe, with messages of the worker under way, or by an overtaken refresh.
* `QuietMeansDrawn`: when nothing waits any more the newest frame has been drawn or had no
  higher sequence than one that was. It speaks of frames: depth that met an
  empty chart made none.
* `LeaksAreTraced` (`live_order`): a charge outlives an attempt that filled nothing
  only if the attempt was lost with the process, or if its audit trail names
  the failed call of the gateway.

Five readings of the market-data pipeline explain definitions of the model and have
no run of their own. A closed derived bar is marked complete whatever it lacks
(TimeframeEngine.ts:146), so `PublishedOnceAndTrue` compares trades only. The
pipeline subscribes to `1m`, which the engine does not serve (DataPipeline.ts:135),
so `Wired` is larger than what is ever published. A 15-minute bar closed by the
same trade as a 5-minute bar is published after it with an earlier time, and
`publishBar` only logs that (DataBus.ts:106). The trade that opens a bar is counted by the initial
values and again by the update (BarBuilder.ts:49-53), which `NextBar` reproduces. A late
trade closes the minute in progress and reopens an older one, which may then
replace a minute whose window is already published; the properties of published
bars are therefore stated for feeds in order (`InOrder`), and `DerivedFollowsBase`
for all. A bar closed in the middle of its minute is replaced by the minute's next segment
(BarBuilder.ts:101), so trades are lost before a minute is stored: the properties compare
with stored minutes and do not speak of that.

### Bounds

* `command_queue`: two commands suffice for order, overtaking and a poll limit
  of one; `Ttl = 3`, `Lease = 2` allow one repeated dispatch. `command_queue_live`
  allows three dispatches of one command and every status word.
* `risk_gateway`: the limits of `config/risk_policy.json` with three kinds of
  order (buy, sell, an instrument with its own cap) and up to three outstanding
  reservations of each (`MaxOwed`), enough to reach the limit and to release
  stray reservations against others.
* `live_order`: two attempts, two orders, two operators, a backlog of one and a
  budget of two orders; a restart of either service (`MaxRestarts = 1`), and one
  copy of a command (`MaxCopies = 1`; repeated copies are `command_queue`'s
  matter). The error counter saturates at the threshold. Attempts, orders and
  operators are interchangeable and the run uses that symmetry; the liveness run
  does not.

* `live_order_loop`: two replacements of an order of three units with a minimum of two,
  so that a replacement can be raised above its remainder, and no dust, so that a
  remainder of one is still worked. The client sends no quantity, one below the
  minimum, or one above the request: each of the three terms of `OverfillExplained`
  is needed in this run, and the formula without it is violated. Every further cycle
  repeats the second.
* `market_data`: minutes of three time units and a gap threshold of one, so that
  gaps occur inside a minute; timeframes of two and four minutes, nested as 5m
  and 15m are; five trades within eighteen units, enough to close several windows
  with one trade; up to six units late, two minutes and so more than the minute in
  progress.
* `chart_refresh`: an instrument with two timeframes and one with one, so that a
  configuration can differ in either; two refreshes in flight, an aborted one
  and its successor. With `MaxRequests` in flight the model starts no further one until
  one has ended.
* `chart_sockets`: two instruments, two public venues (one main and one auxiliary
  socket), a private venue without auxiliary ones, four feeds (`MCFeed`), and up to two
  timeouts pending for an auxiliary venue, one more than its map can name. One feed has a
  refresh waiting at a time (`MaxRefreshes = 1`), which every later feed can overtake.
  600 thousand states, a hundred seconds.
* `render_gate`: four turns (a frame, or depth without bars) with sequences up to three
  through a queue of two, three eras and one key with an overtaken refresh
  (`MaxFallbacks = 1`): enough for a gap, an overflow, a reconnection and a failure of the
  worker in one behaviour. Four million states, some eighty seconds.

### Fairness

`command_queue_live` assumes that time passes, that the waiting coroutine is
scheduled again after each `asyncio.sleep(0.35)`, and that some EA keeps polling;
nothing of results. `live_order_ends` assumes only that the coroutine of an
attempt is resumed, at the latest by the timeout of the `httpx` call it awaits
(12 s, 5 s for the release); gateway and bridge may stay silent for ever.
`live_order_loop` likewise assumes only the timers of the loop and the
timeouts of its calls (20 s, 25 s for a placement). `chart_refresh` assumes that a
fetch is answered or fails, that timers fire and that the cooldown passes;
`chart_sockets` that the main timer fires and the cooldown passes. Neither assumes anything of the
user, of the network or of the services' success. `market_data` has
no liveness: the chain of a trade is one synchronous call, and the feed ends, as
the loop of an order does, which is why deadlock is not checked there.
`render_gate` stops at the bounds on frames and eras, so deadlock is not checked;
that no frame is forgotten is stated as an invariant on the timers instead of as
liveness, whose check takes too long at these bounds.

## Proofs

`Mt5CommandQueue_proofs` proves, for every finite set of commands and all values
of lease, time to live, wait and limit (`QueueAssumption`):

* `TypeCorrect`: `Spec => []TypeOK`;
* `AnswersAreTruthful`: `Spec => []TruthfulAnswer`;
* `DispatchesAreBounded`: `Spec => []DeliveryBound`;
* `ClosedStaysClosed`: `Spec => ClosedForGood`, an action property;
* `FirstInFirstOut`: `Spec => []FirstDispatchInOrder`;
* `Implements`: `Spec => ImplementsContract`, the refinement of `OrderCommand`.

The first two invariants are not inductive. `IInv` adds: `LeaseBudget` (time
spent under leases plus what is left of the current one fits in the time to
live), `LastLease` (the same for the lease that may reach beyond the time to
live), `CopiesAccounted` (copies in the EA's hands plus executions do not exceed
dispatches), `TicketsAreReal` (a reported ticket and an `executed` row have an
execution behind them), and `RowsFirst` (a command without a row has no history).
The product of dispatches and lease is handled in the lemma `OneMoreLease`, so
that no step mixes it with anything else.

`FirstDispatchInOrder` is not inductive either, since a poll picks its batch by
the columns of the table. `QueueIsFifo` adds what the columns have to say: every row ranks before the
next one to be written, and a row that was never dispatched has no lease, so
that it is due whenever a younger one is. `OrderInv` is that together with the
order itself; only a poll dispatches (`OnlyPollsDispatch`).

`Implements` shows `OrderCommand`'s specification under the refinement mapping of
`Phase` and `Answer`. Each action of the table is shown to be one of the contract or to change nothing
of it, from the same `IInv`. The number of copies is a division of constants:
the lemma `RoomForOneMore` shows that a command whose leases so far fit into its
time to live is below it. `Mt5LiveOrder` builds on `OrderCommand`, so what it proves of the
bridge's answers rests on this theorem and not on an assumption.

`RiskGateway_proofs` proves, for every policy, every finite set of orders and any
number of restarts (`GatewayAssumption`, `OwedAssumption`),
`TypeCorrect`, `LimitHolds`: `Spec => []DailyLimitHolds`, and `LedgerExact`:
`Spec => []LedgerIsExact`. The limit is inductive
together with the types, of which the sign of the ledger is part: a release lowers
the use and stops at zero, and a check admits an order only with its notional
included. `LedgerIsExact` compares the ledger with a sum over the orders; each handler
changes one term of the sum, and the clamp of a release at zero takes no more from the
ledger than from what is held and what is stray together.

`FiniteSums` has what these proofs need of such sums: the library defines them by a
recursive function over a chosen element, and they change with one term as one expects
(`SumChange`, `SumAdd`, `SumRemove`), and are monotone. The induction over the set, whose theorem
cannot be used here, is replaced by the smallest subset for which a fact
fails: the library's facts about cardinality show that there is one, and
removing an element of it gives a smaller one.

`Mt5LiveOrder_proofs` proves, for every set of attempts, orders and operators, every
policy and any number of restarts (`CopiesAssumption`, `GatewayAssumption`,
`LiveOrderAssumption`):

* `TypeCorrect`: `Spec => []TypeOK`;
* `TwoOperatorsApprove`: `Spec => []FourEyes`;
* `ExecutedIsFilled`: `Spec => []ExecutedMeansFilled`;
* `OpenCharged`: `Spec => []OpenOrdersAreCharged`;
* `LeaksHaveTraces`: `Spec => []LeaksAreTraced`.

`IInv` adds `StartedByTwo` and `FillsAreReal`. `FourEyes` speaks of the bridge, but
the fact has to be carried there: `StartedByTwo` says that whatever an attempt leaves
behind (a request or an answer in flight, an order sent, a command written) belongs to
an attempt that a second operator started. `FillsAreReal` carries the truthful
answer of the bridge to the bookkeeping step, and with `StartedByTwo` shows that a new
attempt takes no fill away from an approval: an attempt that has not started has
nothing at the bridge. The ten steps of an attempt are first shown to be of one form
(`AttemptMoves`), and that form to preserve `IInv`.

The last two need a second invariant, `LInv`, on top of `IInv`. `AllInOrder` says which messages an
attempt can have under way at each stage: one request of its own to the gateway, or a reply to it.
`ChargesCovered` says that, as long as nothing was restarted, the ledger shows at
least the sum over the attempts that were certainly charged (`Charged`), those that do
not know it yet and those whose release is still under way included.
`HeldIsCounted` counts the reservations of an order against the attempts that
may have been charged (`Holds`). Every step changes one
attempt, hence one term on either side.

`LiveOrderLoop_proofs` proves, for every size, lot, quantity and number of cycles
(`LoopAssumption`), `TypeCorrect`, `NewestWorks` (`OnlyNewestWorks`), `FinalWordHolds`
(`FinalWordIsTrue`) and `OverfillBounded` (`OverfillExplained`). `IInv` adds `CallsAreTrue`, what a call under way says of the
exchange (a placement finds nothing working; an accepted cancellation and a final status
belong to an order that does not work), and `LoopKnowsNewest`: a living loop works on
the newest order, its next cycle is newer still, and an ended loop with a final
status has no call left that could place an order. For `OverfillExplained` a third
invariant, `BInv`, is the budget of the chain: what was recorded of the other orders and
what is wanted of the current one stay within the request and what the others are larger
than wanted, and the same holds of an order whose placement is under way. A fourth,
`SizesAreExplained`, says that no order is larger than the largest of what was wanted, the
minimum and the quantity, so that the excess of an order is the sum of its terms in
`Lifted` and `Repeated` (`LiftIsExplained`); what an order executes beyond its last record
is a term of `Unseen`.

`MarketData_proofs` proves, for every list of timeframes, every length of a minute and
of a gap, and every feed (`MarketDataAssumption`: the timeframes are listed without
repetition, a multiplier is positive, and no bar is the absence of a bar):

* `TypeCorrect`: `Spec => []TypeOK`;
* `DerivedBarsFollow`: `Spec => []DerivedFollowsBase`, late trades included: each base bar
  makes the engine compute every timeframe from the stored minutes;
* `PublishedHolds`: `Spec => []PublishedOnceAndTrue`;
* `NoWindowSkipped`: `Spec => []NothingSkipped`.

What the bus publishes at a trade is a concatenation of parts, one per timeframe,
empty or of one event. `FlattenSeq` concatenates with a recursive function, so the
facts about it (`FlattenSeqIs`, `FlattenSingles`) are proved by the shortest
sequence they could fail for. The windows are integer division: `WindowsApart` shows that
different windows of a timeframe share no minute, and `LaterMinutesUnseen` that a minute
stored later than a window leaves its aggregate alone. For a feed in order,
`IInv` says how far each stage may be behind the one before it: the stored
minutes behind the bar in progress (`StoredBehindBuilder`), the derived bar at the newest
stored minute (`EngineAtNewestWindow`), the published ones before it
(`PublishedBehindEngine`). Hence the window being closed was not published before,
and no later trade changes one that was.

`ChartBus_proofs` has two parts, for two modules that share no state. About the sockets
it proves, for all sets of instruments and venues and any number of
connections (`NoneIsNothing` and the other assumptions of the module),
`TypeCorrect`, `OneMain` (`OneMainOrTimer`) and `StrayTraced`
(`StraySocketsAreTraced`). `IInv` is the types, `OneMainOrTimer`, and `HeldForConfig`: the
sockets the feed holds are for the instrument it is configured for, from which it
follows that depth of another instrument needs a socket the feed no longer holds, or a
refresh made for another feed.

`ChartRefresh_proofs` proves, for every set of configurations and any number of
refreshes, `TypeCorrect`, `LoopAlive` (`RefreshLoopAlive`) and `ForeignTraced`
(`ForeignDataIsTraced`, an action property). `RefreshLoopAlive` is inductive together with
the types. For `ForeignTraced` it is shown of each action that it either leaves the
data alone, writes that of the current configuration, or is the one traced step
(`OwnStep`).

About the render gate `ChartBus_proofs` proves, for every set of configurations, every
depth of the queue and any bounds on frames, eras and overtaken refreshes (`BoundsArePositive`; keys have a
feed, and the absence of a key, a frame or a release is none of them: `KeysHaveFeeds`,
`NothingIsNoKey`, `NothingIsNoFrame`):

* `GateTypeCorrect`: `GateSpec => []GateTypeOK`;
* `NothingForgotten`: `GateSpec => []NoFrameForgotten`;
* `ReleasesInOrder`: `GateSpec => []ReleasedInOrder`;
* `StraysTraced`: `GateSpec => StrayFramesAreTraced`, an action property;
* `GoingBackTraced`: `GateSpec => GoingBackIsTraced`, an action property;
* `QuietIsDrawn`: `GateSpec => []QuietMeansDrawn`.

The argument treats page and worker alike by one notion, the *stream*: the messages under
way to the worker and, behind them, the frame that would be made next. Without a worker that
frame is the whole stream, and posting, taking and resetting are the same three changes of
it (`Posted`, `Taken`, `ResetPosted`). `Ahead(x, i, u, t)` says that a frame which has left the
stream at place `i` was made before what is still in it, and in an era in which
sequences came in order (`Tidy`) not with a higher one; between frames of two eras lies a
reset. `GateInv` says this of the frames of the gate, and of the gate itself that
its queue is in order (`GateTidy`) and that what it expects is known only once all frames to
come have a sequence (`Expects`); `ReleaseFirst` says it of the last release. `GateIInv` is
that with the types and the timers. The guard's operators (`EnqueueFacts`, the facts
about `Passed` and `Advance`) are settled first, for any gate, then each change of the stream, and
each action is an instance of one of them.

Three further invariants build on `GateIInv`: `PageFrames` (in the page the gate holds
frames of the connected feed only) for the frames of an earlier connection; `OutsInOrder` (what
has left the gate was made before what is still to come) for going back; and `NewestCovered` for
`QuietMeansDrawn`: a message, a frame of the gate or the last release is at least as
new as `newest`, and what the guard expects is led by one of them, so that the
guard never drops the last frame that carries it.

Only model-checked: liveness, which is out of the prover's reach (`EventuallyAnswered`,
`EventuallyClosed`, `AttemptsEnd`, `LoopEnds`, `ConnectedIsRefreshed`, `LostStreamIsRetried`). Every other property of a passing run is
a theorem.

## Plan

Done: command queue, risk gateway, live MT5 order, router's live loop, market data,
chart data bus (refresh loop, sockets, render gate); proofs of every property of theirs
that is not liveness. Next, in this order:

1. Intent lifecycle of the control plane over the router and the gateway: double
   approval, a timeout shorter than the router's, restart, budget never released.
2. Broker adapter: stop and target with rollback; then position protection and
   its governor on top of it.
3. The idempotency file of the automatic tuning in the interface.
