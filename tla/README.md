# A verification project for dropbear

Dropbear is a collection of trading programs written in Go.  This directory
holds TLA+ modules that model the part of it that sends orders by itself,
configurations that check the modules with TLC on small instances, and proofs,
checked by TLAPS, of what matters most for every value of the constants.

`PROJECT.json` lists the components, the runs, the source lines each definition
stands for, the mutants that show that every property can fail, the hazards of
the code and the theorems.  This file explains them.

## 1. The system

### 1.1 Components

| Component | State it keeps | Operations | Hard behaviour | What makes it correct |
| --- | --- | --- | --- | --- |
| **varu, live orders** (`cmd/varu/live.go`, `order.go`, `pending.go`, `leg.go`) | `PendingOrders`, `PendingOrdersByOption`, `OrdersBySchwabID`, an `Order` with its id, `Canceling`, `Leg.Filled` | `sendLiveOrder`, `Order.Cancel`, `onOrderEvent` and the handler of each event, `onOrderOrderID`, `restorePortfolio` | the id of an order and the events about it arrive on two channels that nothing orders; partial fills; retried or lost calls; restarts | indexes agree; a slot is held exactly as long as the broker works the order; the ledger is what was executed; every slot is freed in the end |
| **varu, ledger** (`holdings.go`, `holding.go`) | positions with average cost, cash, debits, credits, realized profit, `TotalError` | `Holdings.Add`, `check` | growth, reduction, closing and flipping through zero; rounding at every growth | averages between the prices paid; cash equals its flows; error bounded |
| **varu, session** (`trader.go`, `config.go`) | `PanicTime`, `IsPanicking`, `StopTransitioned`, `NextTradeTime`, enabled strategies, bypassed checks | `onThought`, `trade`, `onOptionDefEnd` | several transitions fall due in one thought; user requests between any two thoughts | liquidation always begins; nothing opens after the stop; bypassed checks come back |
| **varu, dashboard** (`web.go`) | `Dashboard.Paused`, a snapshot per client | `processWebRequest`, `applyFlags`, broadcaster | HTTP goroutines read maps that the main loop writes | requests take effect once, in the main loop |
| varu, strategies (`strategy.go`, `helpers.go`, `rando.go`) | none | generators of candidate orders, scores | floating point | — |
| varu, backtest (`backtest.go`) | a replayed day | simulated fills | sequential | the same ledger and slots |
| varu, process (`main.go`) | traders, channels | start-up, fan-out of order events to several traders | one slow trader blocks all | every trader gets every event |
| **varulab** (`cmd/varulab`) | runs and their status in SQL, a semaphore, the number of executions of each data file | generate, claim, execute, record, stop | a stop races executions and claims | no run is lost or runs twice |
| **cubby** (`cubby/`) | `Cash`, positions, `Orders`, `gMarginHold`, buying power, the clock of the replay | `Equity.Order`, `Order.Cancel`, `simulateFill`, open and close of the day | orders end on five paths; fills in parts; prices move between order and fill | holds equal what open orders hold; orders end once; cash and positions agree; accepted orders stay affordable |
| **maker** (`cmd/maker`) | for each symbol a position and, for both sides, the ids and prices of an order and of its replacement; `gOrders` | `Evaluate` (`LimitOrder`, `ReplaceOrder`), `onOrderUpdate`, `removeOrder`, `undoReplaceOrder`, commands of the terminal | replacements race fills; failures and events on different channels; lost events | position within its limits; no trade with itself; no side waits for an order that is gone |
| strangler (`cmd/strangler`) | like varu's | like varu's | like varu's | like varu's |
| **broker/schwab** | OAuth token, order-update stream | `Request` with retries, `CreateOrder`, `CancelOrder`, `OrderUpdates`, token refresh | retries of what was done; concurrent refresh | no request with an expired token |
| broker/alpaca, broker/databento | connections | quotes, orders, feeds | reconnects | — |
| **netty** | token bucket, dialers | `Try`, `Get`, retries | many callers of one bucket | never above the rate |
| ds | lots, book, trees | FIFO lots, order book | boundary cases | quantities conserved |
| decimal | none | fixed-point arithmetic | overflow, rounding | error at most half a unit |
| options, osi, symbol | the chain | lookup, parsing | — | — |
| cboe, clocky | none | calendar | — | — |
| indicators, black76, greg, cme | numerical state | updates | floating point | — |
| auth, db | sessions, passkeys, invitations in SQL | handlers | expiry, reuse | — |
| golden, gcs, loggy, norm; other commands | — | — | — | — |

### 1.2 How the parts interact

**varu.**  One goroutine, the main loop of `Live` (`live.go:29-113`), owns the trader.  It
takes market data, `OrderEvents` (Schwab's stream), `OrderUpdates` (ids reported
by order goroutines) and dashboard requests from channels, one at a time, and
gives the market a *thought* when there is none.  `sendLiveOrder` registers an
order in `PendingOrders` and starts a goroutine that calls `CreateOrder` and
then sends the id on `OrderUpdates`; `Order.Cancel` starts one that calls
`CancelOrder`.  Schwab executes, cancels and expires orders meanwhile and tells
of it on a websocket that a third goroutine feeds into `OrderEvents`.  Fills go
into `Holdings.Add`.  The session logic decides whether a thought may trade;
`PendingOrders` decides whether there is room for another order.  The calls to
Schwab all pass `broker/schwab`: one token bucket for the three requests about
orders (`orders.go:15`, `40`, `56`), then `Request`, which takes the shared access
token before every try (`client.go:146`).

**maker** has a main loop of the same kind (`main.go:285`): market data, order
events, failed requests and commands of the terminal come on channels, and
goroutines carry requests to Alpaca.  Success of a request is not reported to
the loop, only failure; whatever happened to an order comes on the stream.

**cubby** calls a strategy's `OnBar` from one goroutine.  In a backtest the loop of
`backtest.go` sets prices and clock, fills what orders it can, closes the day
and calls the strategies, which order and cancel.

### 1.3 Where it is hard

`PROJECT.json` "hazards" lists each at its line.  The main ones: an event about
an order overtakes the id of that order (`live.go:396`); an acknowledged cancel
is not yet a dead order (`live.go:355`); the index by option goes stale
(`pending.go:16`); an order is edited elsewhere and changes its id
(`live.go:334`); a POST is retried although Schwab took it (`client.go:171`);
the process restarts with orders at work (`live.go:105`); averages are rounded
at every growth (`holdings.go:75`); StopTrading, a scheduled panic and a
requested one fall due in the same thought (`trader.go:97`); both quotes of the
maker are on their way to other prices (`maker/main.go:767`) while failures and
events cross (`maker/main.go:296`); the token bucket does not reserve what `Get`
waits for (`tokenbucket.go:147`); cubby averages the entry price with a signed
position and divides by one that may be zero (`order.go:155`).  The list is not
complete: hazards of parts that have no state worth a model (data races of the
dashboard with the main loop, `web.go:625`; a failing SQL statement,
`scheduler.go:157`; renaming an experiment under its goroutines,
`varulab/web.go:477`; the tree of lots keyed by what consuming a lot changes,
`ds/lots.go:111`) are named here only.

## 2. What is modelled

| Module | Stands for |
| --- | --- |
| `OrderLife` | the abstract life of an order object: unsent, placing, live, canceling, done; at most `MaxPending` active |
| `VaruOrders` | the trader's order book-keeping, the goroutines that call Schwab, Schwab, faults of the network, restarts |
| `VaruOrdersNews` | `VaruOrders` with a history of the news that was lost or ignored |
| `VaruOrdersProofs` | the invariants of both and the refinement of `OrderLife`, proved |
| `VaruHoldings`, `VaruHoldingsProofs` | the ledger, and the proofs about it |
| `VaruSession`, `VaruSessionProofs` | one day of thoughts and dashboard requests, and the proofs about it |
| `VarulabScheduler`, `VarulabSchedulerProofs` | varulab's scheduler with its database, stops and crashes, and the proofs about it |
| `Maker`, `MakerProofs` | the market maker for one symbol with its goroutines, its order stream and Alpaca, and the proofs about it |
| `TokenBucket` | the rate limiter and the goroutines that sleep in it |
| `SchwabClient`, `SchwabClientProofs` | order requests to Schwab: `TokenBucket` composed with the shared access token and the retries, and the proofs about it |
| `Cubby` | cubby's backtest with its simulated orders and margin |
| `CubbyEntry` | `Cubby` with the average prices of orders and positions |
| `CubbyProofs` | the proofs about both |
| `FiniteSums` | lemmas about sums of functions over finite sets, for the proofs about cubby, the ledger and the token bucket |
| `MC...` | values for TLC |

### 2.1 VaruOrders

*State.*  `pending`, `byOption`, `bySchwab`, `orderID`, `canceling`, `legs` and
`filled` are the fields of `Trader` and `Order` with those names; an order
object is a number, given in the order of creation.  `byOption[x][o]` counts how
often the list of option `x` holds order `o`, so that a doubled or a stale entry
shows.  `volume` is what `Holdings` was told of each option.  `events` is the
channel `OrderEvents` with the stream that feeds it, `updates` the channel
`OrderUpdates`.  `post`, `reply`, `cancels` and `deletes` are the goroutines
that call Schwab.  `issued`, `owner`, `left`, `status` and `traded` are Schwab.

*Actions.*  Each handler of the main loop is one action, with everything it
calls: `SendOrder` (`sendBestOrder`'s slot check and `sendLiveOrder`),
`CancelUnfilledOrders` (a tick's pass over all pending orders), `OnOrderOrderID`,
`OnOrderEvent` (dispatch to the handlers of fills, cancel acknowledgements,
UROut, expirations and changes), `LoadDefinitions` and `RestorePortfolio`.
Goroutines act between them: `BeginCancelCall` reads the order's id when the
goroutine runs, not when it was started; `CreateOrderReturns` reports the id or
the empty string; `RetryPost` sends the order again.  Schwab executes parts of
legs (`Execute`), answers cancels in one or two steps (`ReceiveCancel`), ends
orders (`LeaveMarket`) and edits them (`ChangeOrder`).  `Restart` loses all that
the process holds in memory and keeps what Schwab has.

*Faults.*  The constant `Faults` switches on: an id that is never given because
the order filled at once, a lost reply, a retried POST, lost events, cancels
that fail, orders edited in another program.  Each corresponds to a path or a
comment in the code.

*Abstractions.*  Prices, sides and fees are not modelled; which order is sent
and which orders a pass cancels is nondeterministic.  The legs of an order do
not depend on one another at Schwab, which is more freedom than the broker
takes.  A cancel acknowledgement looks up the ids of legs (`live.go:339`), which are
the order's only for an order of one leg: acknowledgements that close an order at
once are sent for those (`SingleLeg`), and a spread ends by its UROut.  Edits carry
whether `onChangeEvent` supports them (a limit order of one leg, `live.go:317-326`);
it ignores the others.  UROut events whose leg status is not closed change nothing in the
code and are left out.  A full queue holds Schwab back (`QueueCap`), as the
stream does when the channel is full; with "eventLost" it may drop instead.
A trader that starts again does not know the orders of its predecessor, as in
the code; what it reads back is `RestorePortfolio`.

`VaruOrdersNews` adds one history variable, `missed`: the ids of which an
execution, an end or an edit was lost by the stream (`IsLost`) or found no order
or no support in its handler (`Ignores`).  Its steps are those of `VaruOrders`; the
variable tells which slots may be kept for ever and lets `SlotsAwaitNews` say that
no other is.  The passing runs check the properties of `VaruOrders` on it as well;
`Tell` is a step of Schwab with its history, an edit in thinkorswim included, and
`Forget` a restart.

### 2.2 VaruHoldings

*State* is the struct `Holdings`, with quantities in contracts and prices in the
smallest decimal; `grown` is a history variable for the error bound.  The one
action `Fill` is `Holdings.Add` with the deferred `check`: `Flow` (cash and the
ledger of flows), `AverageAfter` (open, grow, reduce, close, flip), `Profit`,
`Check`.  `Div` is `Decimal.Div`, half to even; sums and products are exact in
`src/decimal` for a price times a number of contracts.  The width of `Decimal` (int64 with a
panic on overflow) is not modelled.  `alive` turns FALSE when `check` panics.

### 2.3 VaruSession

*State* is the trader's session fields and the part of `Config` that requests
change; time is a small number.  Strategies are of two kinds, those that open
and those that liquidate; `kStrategyDefaultEOD` is the second.  History
variables say what the user asked for.  *Actions*: `OnThought` is one whole
thought, with the StopTrading transition first and the panic transition second,
in the order of the code, and an order sent or not; each request of
`processWebRequest` is an action, and changes only the checks it names
(`ApplyFlags`); `OnOptionDefEnd` sets the market close and the
scheduled panic; `Tick` is time.  Whether an order is worth sending is
nondeterministic.

### 2.4 VarulabScheduler

*State.*  `status` is the column of the table, `files` the data files on disk:
they outlive the program.  `main` is the main goroutine on its way through
`Stop`, `loop` the program counter of `Scheduler.Run`, `held` the run it has
claimed; `work` and `runOf` say what `executeRun` is at in each slot of the
semaphore.  The slots have numbers and the lowest free one is taken, which the
counter in the code does not tell apart; `Hot` is computed from them instead of
the map `active`.  `notify` is the channel of capacity one that wakes the loop.

*Actions.*  `Start` is `main` up to the start of the loop, when nothing else
works on the rows: reset, insertion of new runs.  `Stop`, `Wait`, `StopResets`
and `Exit` are the steps of SIGINT, `Crash` may come anywhere.  `LoopTop`,
`PickNext`, `Wake`, `GiveUp` and `Dispatch` are the loop; the `select`s that
watch the context can take either branch when both are ready, so a run may be
dispatched after the wait of `Stop` has returned.  `PickNext` is the search and
the claim, which no other writer of the table can separate to any effect: others
only make rows pending.  `Begin`, `Finish`, `Kill`, `Record` and `Release` are a
goroutine; release of the slot, notification and `wg.Done` are one step, since
the loop meets them in any order with the same result.  `PlaceFile`,
`Download`, `InsertRuns` and `NotifyScheduler` bring new runs.

*Abstractions.*  One program works on an experiment at a time; SQL statements
succeed; symbols do not change between starts (the deletion of runs of removed
symbols is left out); a file appears complete.  A crash ends the backtests; in the
code a backtest runs in a process group of its own (`runner.go:46`) and may go on
beside the next life, which sees nothing of it: `OneExecutor` counts the
goroutines of the current process.

### 2.5 Maker

*State.*  `maker` is `State` of one symbol with `gOrders`: the position, for each
side the ids of the order and of its replacement with their prices, whether it
is disabled or cooling down.  `calls` are the goroutines `spawn` starts,
`failedOrders` and `failedReplaces` the two channels they report to, `stream` the
order updates.  `order` and `net` are Alpaca.

*Actions.*  The operators `RemoveOrder`, `UndoReplaceOrder`, `LimitOrder`,
`ReplaceOrder`, `Evaluate` and `OnOrderUpdate` are the functions of those names,
from a state of the main loop to the next one, so that a handler is one action
with everything it calls.  `OnQuote`, `OnUpdate`, `OnFailedOrder`,
`OnFailedReplace`, `Toggle` and `CancelOrders` are the branches of the `select`.
`Request` carries a request out at Alpaca or refuses it (a refusal, an empty
token bucket, a network error); `Execute`, `Replaced`, `Expire` and `Disconnect`
are what Alpaca does by itself.  A nil dereference stops the process
(`running`).

*Abstractions.*  Prices are ticks; the mean is any price, which is where greed
went.  Spread is positive (with a spread of zero and a locked market both
quotes get one price).  The limits of a position are those of the target at
the start: adjustments at the terminal are not modelled, nor are halts, sessions,
P&L and shutdown.  One symbol: symbols share only `gOrders`, keyed by ids that
are unique.  Positions are loaded before the model starts.  When the order a
replacement waits for ends, the replacement is rejected with the position the
end left (`Rejection`); a model that reported the position before the last fill
kept every limit of the small runs, and came to light in the proof of
`PositionWithinLimits`.  `order_replace_rejected` (`alpaca/orderevent.go:72`), a
replacement refused on the stream with its order still open, is not among the
events: `onOrderUpdate` has no case for it (`main.go:646-660`), so that the side keeps
the id of the replacement and is not replaced again until its order ends.

### 2.6 TokenBucket and SchwabClient

*State.*  A token takes `Cost` ticks to accrue and counts as `Cost`, so `tokens`
is a whole number where the code has a float64.  `wakeAt` are the callers asleep
in `Get`.  `from`, `taken` and `admitted` are auxiliary: a window that begins
anywhere, and what was taken and let through in it.  `call` is where each
goroutine is on its way through `CreateOrder`, `ReplaceOrder` or `CancelOrder`;
`token` is `tokenSave`, an access token being known by the instant it ends.

*Actions.*  `Take` and `Wait` are the two outcomes of `getImpl`, `WakeUp` the end
of the sleep; a clock that may pass at any point makes a goroutine oversleep.
`GetAccessToken` is the check and its three outcomes; the refresh runs outside
`tokenMu`, so that several may be under way (`Issue`, `StoreToken`,
`RefreshFails`); `Answer` ends the call or leads to another try.

*Assumption.*  A network exchange lasts at most `Timeout` and two of them no
longer than the margin of a minute: `FastHTTPClient` (`netty/http.go:46-64`) limits
dialing, TLS and the wait for the answer to five seconds each.  The reading of a
body and the wait for one of its ten connections have no limit in the code; an
answer that trickles for minutes is outside the model.

### 2.7 Cubby

*State.*  `order` holds every order ever placed, `open` the keys of the map
`Orders`; the map of each equity is the part of it with that equity, since both
are written together.  `at`, `bar` and `todo` are the loop of `Run`: the orders this
minute has still to simulate.  `stopped` says how the process ended.  `interest`,
`steady` and `plain` are history variables: the interest charged so far, and the
conditions of two properties.

*Actions.*  `NextBar` is an iteration up to the fills, with `setTime`;
`SimulateFill` is one call of `simulateFill`, its decision in `Outcome`, in the order
of the code; `CheckMarketClose` the close of the day; `Order` and `Cancel` are what
strategies call, any number of times; `EndOfBar` the check against `-rekt`.

*Average prices.*  `Cubby` needs `FilledPrice` and `EntryPrice` for one thing, the
division that may fail (`Divides`; the divisor of `order.go:145`, what an order has
filled, is positive).  `CubbyEntry` keeps both: `Average` is the part of
`simulateFill` that computes them (`order.go:142-163`), with `Decimal.Div` and its
rounding in the smallest decimals, `TicksPerPrice` of them to the unit of price.
`paid`, `shorted` and `rounding` are history.  Nothing else in the backtest reads
the averages, so the steps are those of `Cubby`.

*Abstractions.*  Margin rates are constant (`asset.go` has floors per share,
separate rates for short positions and full margin for low prices); warm-up,
fractions, rounding of limits and untradable assets are refusals that change
nothing.  The multiplier of the buying power does not change within a run.  Live
trading is not modelled.

## 3. What is checked

| Run | Question | Bounds |
| --- | --- | --- |
| `varu_orders_faults` | do the indexes stay exact, is a slot ever freed while Schwab works the order, or kept by one that is over although its news was heard, does the book-keeping implement `OrderLife`? | two orders, two ids, one slot, up to two contracts a leg, one restart, every fault, channels of two |
| `varu_orders_live` | is every executed contract booked once, and does an order whose id came in time free its slot? | two orders, two ids, two slots, up to two contracts, cancels that may fail, fairness |
| `varu_orders_early_fill` | finding: a filled order that stays pending | one order |
| `varu_orders_restart` | finding: a ledger that differs after a restart | one order, one restart |
| `varu_holdings` | averages, cash, panics, the error bound | four fills of one to three contracts each way, two options, three prices |
| `varu_session` | who may open, who liquidates, when checks are bypassed | a day of six times with and without a scheduled panic that coincides with StopTrading |
| `varulab` | is a run ever executed twice, forgotten or overwritten, and does every pending run end? | three runs of two files, two slots, two lives |
| `varulab_stop` | finding: an interrupted run is not pending afterwards | one life |
| `maker` | do limits of the position, distance of the quotes and book-keeping survive every crossing of requests, executions, failures and lost events? | three client order ids, two markets a tick apart, orders of two shares, one disconnection |
| `schwab_client` | what does a shared bucket let through, and is a token ever sent that has expired? | two goroutines, a burst of one, eight instants |
| `cubby` | do holds, books, cash and average prices agree, do orders end once, are accepted orders affordable? | one equity, three orders of three shares bought or two sold, a day of six minutes and two minutes of the next, two kinds of bars, ten ticks to the unit of price |
| `cubby_hold` | finding: a partial fill is counted twice | the same |

**Why these bounds are enough to be interesting.**  Two orders are what it takes
for one to free a slot that another fills, for a pass to cancel several, and for
an index to hold one while it loses the other.  Shapes are a spread of two legs
and an order of two contracts of one leg, so that a leg can be filled without
the order, and a part of a leg without the leg.  Two ids let an order be edited,
or sent twice by a retry.  With no slot left the trader waits for the broker,
with two it does not.  Channels of two items are full most of the time, which
exercises blocking; longer ones add no order of events that two items do not
already allow between different channels.  In the ledger, four fills make a
position open, grow with a quotient that is not exact, shrink and flip; prices
of 1, 2 and 4 units make halves and thirds.  The day of the session has a time
before the start, StopTrading later, and a close after both; with `-panic` equal
to 3 the scheduled panic is due at the time 2, so that the thought after it can
be the one at StopTrading.  In varulab, three runs and two slots let both slots
be taken while the loop holds a run, two runs of one file and one of a newer
file tell hot files from recent ones, and two lives let the second meet what a
stop or a crash of the first left.  For the maker, three ids are what it takes
to have a quote on either side and to replace one of them, or to quote, replace
and quote again; two markets whose prices meet let a buy in one be worth a sell
in the other; orders of two shares fill in parts. In the bucket, a cost of two
ticks lets a caller arrive halfway to a token, and a life of three ticks makes
tokens expire and be refreshed several times within the horizon, by both
goroutines at a time.  In cubby, a day of six minutes has a minute for orders on
the open, the opening itself, three minutes of trading of which the last takes
orders on the close, and the close; patience of two minutes ends before the
close does, so that an order may expire, be cancelled or be filled in either
order.  The two minutes of the next day meet what the close left and the second
day's figures.  An order of three shares is filled in parts by bars that have
one share and bars that have two, limits lie below and above the prices, and
cash of three dollars is a fraction of what three orders need.  Two equities are
beyond what TLC does with this day.  Shares bought at 2 and 3 have an average
that is not a whole number of ticks, and a sale of two of three leaves a part of
the position to be averaged again.

Checking deadlock is off in every run: orders run out, the day ends, and the
ledger is done after `MaxFills`; varulab may be down for good; the clock of the
bucket stops at its horizon; a panic ends the maker and a margin call a
backtest.

**Conditions.**  `WorkingIsPending` is about orders of the first life of the
process whose legs are one contract and whose id the trader was told; each
condition is one of the findings or observations below.  `SlotsAwaitNews` is
about the ids that are not in `missed`, and each way into that set is a hazard
of the code: a stream that reconnects without what it missed
(`orderupdates.go:34`), an event that overtakes the order's id (finding 1), an
unsupported edit (`live.go:317-326`).  `PositionWithinLimits` and
`EndIsReported` claim nothing once the maker's stream has lost events, and none
of the maker's four safety properties claims anything once a request that was
carried out is said to have failed; `NoSelfTrade` and `FailuresAreKnown` do hold
when events are lost.  The run has no such request (`MaxLost = 0`); with one and
two orders TLC finds `PositionWithinLimits` without that condition violated,
which is the observation on lost replies.  With three ids the run never has both
sides in replacement at once; the theorem `MakerNeverCrossesItself` covers that
case.  `WithinBuyingPower` and `FillsStayAfforded` are about the time until the
figures of a first day take effect (`FirstFigures`), while prices stand still
and no order could take a position across zero: prices that move are what margin
calls are for, and orders across zero are under-checked by the code (see the
observations).  `SentTokenIsValid` rests on the assumption of 2.6.

**Fairness** (`VaruOrders!FairSpec`, and the same with its history in
`FairNewsSpec`).  The main loop drains its channels before it does anything else, so `OnOrderOrderID` and `OnOrderEvent` are weakly fair.
The goroutines run to their end and their calls return or fail
(`BeginCancelCall`, `CreateOrderReturns`).  Schwab answers cancels and ends every
order, since varu sends day orders (`ReceiveCancel`, `LeaveMarket`).  Nothing
is assumed of executions, ticks or thoughts: a trader need never cancel.  In
`VarulabScheduler!FairSpec` the loop and the goroutines go on, backtests end
(no time limit enforces it; a backtest replays one day), and whoever has
inserted runs gets to notify the loop.  Nobody needs to start, stop or download.

**Mutants.**  Each property has a definition that changes the model as a
plausible bug would change the code; they stand before the definition they
change, marked as mutants, and `PROJECT.json` pairs them.

### Findings

1. *An order that fills before its id arrives stays pending*
   (`varu_orders_early_fill`).  `onFillEvent` books it and finds no order to
   remove (`live.go:396`); the id comes later, and nothing removes the order then.
   A trader with one slot never sends again.  `KnownOrdersFreeTheirSlot` says
   what does hold: with the id known before the first execution, the slot is
   freed.
2. *After a restart the portfolio may differ from what was executed*
   (`varu_orders_restart`): partially executed orders are not reloaded, and
   fills processed between the option definitions and the reload count twice.
3. *An interrupted run is lost* (`varulab_stop`).  `Stop` says it resets what was
   running to pending, but the killed backtest has been recorded as failed before
   that, and failed runs are never tried again.
4. *A partial fill is counted twice* (`cubby_hold`).  An order keeps its whole hold
   until it is final (`order.go:211`) while its position uses margin, so that the
   check of `order.go:184-193` reports orders "we couldn't afford" where both can be
   afforded; `gMarginHold` also refuses orders for it.  `WithinBuyingPower` says what
   holds when only what is unfilled is counted.

### Observations

Not settled by a run of their own, but worth a reader's time.

*varu*

- A partial fill frees the slot.  A leg is marked filled whatever the quantity
  (`live.go:407-416`), so an order of two contracts leaves `PendingOrders` after the first
  while Schwab works the second, and with `-max-pending` ("maximum number of
  pending orders", `varu/main.go:71`) of one a second order goes out.
  `WorkingIsPending` holds when every leg is one contract.
- StopTrading ends a liquidation.  It clears every strategy, and the panic that
  would enable those that liquidate cannot begin while `Panicking` is set
  (`trader.go:99-104`), though `main.go:75` calls `-eodt` the time to "begin EOD
  liquidation".  Asking again does nothing until the user rehabilitates.
  `PanicIsHeard` is stated for requests made outside of a panic for this reason.
- Rounding does not cancel on exit, contrary to the comment at
  `holdings.go:136-140`: by `ErrorOnlyFromGrowth` a position that closes leaves
  `TotalError` as it is, so that the errors of its growths stay.
  `ErrorWithinRounding` is the bound that holds instead.
- A panic requested before the chain is known is forgotten when
  `onOptionDefEnd` sets the scheduled one.
- `rehabilitate` before the chain is known computes the scheduled panic from a
  market close of zero, so the first thought of the day hurries.
  `HurryOnlyWhenDue` names this as its exception (`early`).
- `rehabilitate` leaves `StopTransitioned`, `Spread` and `Eval` as they are.

*varulab*

- Varulab's loop may claim, or dispatch, a run after `Stop` has made the rows
  pending; the row then says claimed, running or failed when the program ends.
  `OneExecutor` holds nevertheless, and the next start resets the first two.
- `GenerateRuns` says it creates the combinations not yet run "at the current git
  revision", but the unique index leaves the revision out: a combination that
  was run at one revision is never run at another.

*maker*

- A request that Alpaca carried out and whose reply was lost is retried, and the
  retry refused (`alpaca/client.go:185-194`).  `removeOrder` then forgets an order
  that works: another goes out beside it, so that limits and distance may be
  violated, and if the order's end was handled first `removeOrder` gets a nil state
  and the process panics.
- After lost events a side may wait for ever for an order that is gone, and the
  position is stale until the next fill.
- Commands that cancel do nothing before the event "new" has told the order's id.

*netty and broker/schwab*

- `NewTokenBucketPerMinute` promises that "you never exceed the limit in any
  60-second period" (`tokenbucket.go:44-45`).  That holds for operations that find a
  token (`TakenWithinRate`).  `Get` does not reserve the token it sleeps for, so each
  goroutine that shares a bucket adds up to a rate of its own
  (`AdmittedWithinRates` is the bound that does hold).
- Every refresh moves `RefreshExpiresAt` seven days ahead (`token.go:159`), although the
  refresh token may be the one it was.

*cubby*

- A buy that covers a short position exactly divides by zero and panics
  (`order.go:155`, `stopped = "division"`); only a sale that closes resets the entry
  price (`order.go:159`).  A buy that covers a part of one divides by a negative
  quantity, and `EntryPrice` becomes negative, though `equity.go:20` says "never
  negative": ten shares sold short from flat at 3, then five bought at 2, leave an
  entry price of -2.  `AveragesFollowFills` is about positions that were not
  short since they were flat, for this reason.
- Two pending sells, each within the position, go short together unchecked, even
  in an equity that is not shortable (`equity.go:97-110`), and two that cross zero hold
  nothing.  An order in an equity that has no bar yet is checked at a price of zero,
  a short sale below the market at its limit.
- Short positions count as assets (`cubby.go:132`): selling short adds its proceeds
  and its value to the portfolio.
- Orders on the open or the close whose minute has no bar never expire
  (`order.go:66-75`).  A day without a bar at or after the close is never closed.
- `GetMaxOrderQuantity` ("the maximum number of shares that can be ordered",
  `equity.go:52`) looks at the buying power only; `Order` may refuse what it returns as
  a margin call.
- Live, an error of `CreateOrder` leaves the margin held (`equity.go:178`, `215`).

## 4. What is proved

TLAPS checks every theorem for all values of the constants that satisfy the
assumption named in the module.

**VaruOrdersProofs** (from `OrdersAssumption`: the bounds are naturals, the
faults and shapes are what they are called).  None of `IndexExact`,
`RegistryExact` and `NewsIsComing` is inductive on its own.  `RegistryExact`
says that a known id is registered, and a report that arrives for an order that
is no longer pending would break it.  The invariant `IInv` therefore adds who
can still report an id and when: a goroutine is either calling or has one report
queued, never both and never two (`StageInv`); an id that any queue, goroutine
or the trader knows was issued for that order (`OwnerInv`); a change event on
its way names two ids of the same order (`ChangeInv`); and the indexes agree
(`BookInv`, with no more than `MaxPending` slots taken).  Each has a lemma per
action that can disturb it.  `OrdersImplementLife` then maps every step to a
step of `OrderLife`: a send to `Submit`, an id to `Acknowledge` or, when it is
missing, `Finish`, a pass to `Withdraw`, any removal to `Finish`, a restart to
`Abandon`, and the rest to a stutter.

`WorkingIsPending` needs a second invariant, `WorkInv`, beside `IInv`: what Schwab
says is true of what Schwab does.  An order's id is an id of that order
(`KnownInv`), a leg counted as filled was executed at least once (`FilledInv`),
and an event on its way that ends an order tells of an id that is closed, one
that changes it of a parent that was never executed (`TruthInv`).  Then a handler
that removes an order whose legs are one contract each removes nothing that works
(`OverInv`).  `LedgerIsExact` follows from `LedgerInv`: before definitions are loaded
nothing has happened (`QuietInv`), and since then what `Holdings` booked and the
fills on their way are what was executed (`BookedInv`), no more when events may be
lost.  The contracts of the fills in a queue are counted as the cardinality of a
set, which appending a fill and taking the first one change by its quantity
(`DueAppend`, `DueTail`).  The theorem says `restarts = 0 => LedgerExact`, as the run
does with its bound: after a restart the statement is false (finding 2).

`SlotsAreAwaited` is about `VaruOrdersNews` and needs `NewsInv` beside `IInv` and
`WorkInv`.  As long as nothing of an order's news was missed, what Schwab did to it
is in the trader's books or in the queue: an execution as a mark on its leg or as a
fill on its way (`FillNews`), its end as an event, as an edit, or as the execution of
everything (`EndNews`).  The end is owed for the id the order has and for later ones
only, since an edit that was heard leaves the ids before it behind and ids only
grow (`GrowInv`).  Nothing is pending before the trader is ready (`IdleInv`), and
no pending order has all its legs marked (`UnfilledInv`).

**VaruHoldingsProofs** (from `HoldingsAssumption`: finitely many options, fills
of a nonzero number of contracts at a positive price).  `DivWithin` shows that
half-to-even division does not leave the two integers around the quotient,
`MeanWithin` that a weighted mean lies between its values; with them the average
stays between prices of fills (`PositionsInv`), hence positive; cash equals credits
less debits (`CashInv`).  So the error budget is the only panic of `check` that can
happen.  How large the error gets is a sum over the options: a fill changes one
term of the unrealized cost (`TotalChanged`), and by cases a fill that opens,
reduces, closes or flips moves it by what it moves profit and cash, to the last
decimal, so that the error stays (`OnlyGrowthMovesTheError`); one that grows moves
it by the remainder of the division, at most half the new number of contracts
(`ErrorIsRounding`).

**VaruSessionProofs** (from `SessionAssumption`: times are naturals).
`UncheckedOnlyInPanic` needs only the types.  `OpeningIsAuthorised` needs that
opening is enabled after the transition only if the user enabled it (`StopInv`).
`PanicIsHeard` needs that a pending request has set `PanicTime` no later than
the request (`AskedInv`).  `HurryOnlyWhenDue` needs what `PanicTime` can be when
nobody asked for hurry (`CalmInv`).

**VarulabSchedulerProofs** (from `SchedulerAssumption`: every run has a file,
every file a date).  What makes `OneExecutor` inductive is what rows say of the
runs in somebody's hands (`RowInv`): the loop picks pending rows, and such rows
are claimed, running or ended.  That fails once `Stop` has made them pending;
from then on the argument is another one (`LateInv`): after the wait at most one
slot is taken, and when one is the loop is past its last pick.
`RecordedResultsAreFinal` follows from `RowInv`, since a goroutine writes only
rows that have not ended.  `ProcInv` ties `held` and `runOf` to their owners.

**SchwabClientProofs** (from `BucketAssumption` and `ClientAssumption`: a cost and
a burst of at least one, two exchanges no longer than the margin).  `TakenWithinRate`
needs what is in the bucket (`Budget`): what was taken in the window and what
is left come to no more than a burst and what accrued.  `SentTokenIsValid` needs
that a token lives for as long as the program believes but for one exchange, in
`token` and in the hands of each goroutine (`TokenBounds`).

`AdmittedWithinRates` is about a sum over the callers.  A potential carries it
(`Admission`): what was let through and what the bucket could give now come to no
more than a burst, what accrued, and an *allowance* of each caller.  An allowance
grows with the clock while the caller is awake and stands at the end of its sleep
while it sleeps, so that the sleep pays for the token the bucket did not reserve.
Only a caller that the bucket holds up sleeps (`Sleepers`).

**MakerProofs** (from `MakerAssumption`: a positive quantity and spread, any
target, initial positions within the limits).  The properties follow from two
layers. `Safe` holds while no request that was carried out is said to have
failed, with or without lost events.  It says where everything on its way
belongs: an order that was asked for is in its side's first slot, a replacement
in the second (`Created`, `Replacing`), an order at work in either at its price
(`Opened`), the id a side remembers is one of an order Alpaca took for that side
(`Named`), what an event says of an order is true (`Heard`), and the prices of
one side's slots lie below those of the other (`Apart`), which is what the clamp
of `Evaluate` keeps: with it `NoSelfTrade` is immediate.  `FailuresAreKnown`
needs `Asked`: a request that failed, or may still fail, is of an order the
maker has not forgotten.  A rejected replacement may arrive after the order it
was to replace has been removed, so that a side may hold an id of a dead order;
`Named` says how much of that there is. While events are not lost either, three
more parts hold.  `Told`: an order the maker waits for is at work, asked for,
failed or ended in the stream, and nothing on the stream is about an order the
maker forgot.  `Counted`: the position that any prefix of the stream leaves the
maker with is wrong on a side only if a fill of that side is still on the
stream.  `Room`: the account has room for what is at work and asked for.
`PositionWithinLimits` is part of `Room`, which holds because a side asks only
when it has no order, hence no fill of its own that it did not hear of.  Events
of the stream are handled one at a time by a composition of operators; the
layers are therefore stated of the values they are about, and followed from
operator to operator.

**CubbyProofs** (from `CubbyAssumption`).  `BookOK` says that an order is in the
maps exactly while it is not final, and has something to fill then; `LoopOK` that
what the loop has still to simulate is in the maps.  Closing an order, which
happens on every path, keeps both (one lemma for all of them).  `OpenOrdersWork`,
and `FinishedOrdersStay` follow.  The theorems about money sum
over orders or equities.  `HoldsAreExact`: each path of `Ends` takes one term out of
the sum of holds, a placed order adds one.  `TheLedgerIsExact`: a fill changes one
term of the shares of one equity (`PositionInv`), and while prices stand still
it changes cash and one term of the worth by the same amount (`ValueInv`).
`AcceptedOrdersAreAffordable` needs that each open order is either backed by a hold
or takes its position towards zero (`BackedInv`), that the buying power is the first
one (`FiguresInv`), and that filling a part uses no more margin than what the
order's share of the hold falls by (`BuyingInv`); the triangle inequality of the
maintenance margin is the core of it.

`AveragesAgree` is about `CubbyEntry`, whose steps are steps of `Cubby`
(`EntryIsCubby`), so that what is proved of the one is a lemma about the other.  An
entry price lies between prices paid because a half-to-even mean does
(`DivWithin`, `MeanWithin`); `EntryInv` adds that a position that was never short is
not negative.  The money is a sum over orders again: a fill changes one term, and
averaging misses by at most half a tick for each share averaged over
(`DivMisses`, `MissIsRounding`); the first part of an order is averaged with
nothing and misses nothing.  `GapInv` adds up what is missed.

The proof corrected two statements that every small instance satisfied.
`Cubby!LedgerExact` had excluded days with interest by a condition (`lastEquity =
Cash0`) that does not imply that none was charged; `interest` now counts it.
`WithinBuyingPower` had counted the margin an open order would use at the market
price, which is more than it holds when its limit is below the market and the
rate is high; `MarginToUse` counts what a fill at its limit can use, and no more
than is held.  The limits of the run lie on both sides of the prices for it.

**FiniteSums.**  Induction over a finite set is stated in the library with a
predicate as parameter, which no installed prover can instantiate.  `SubsetRule`
states it with a set: a collection of subsets that has the empty set and grows by
single elements has the whole set.  From it `SumFunction` is additive, changes by
what one term changes by, and is monotonic (`TotalOfRest`, `TotalChanged`,
`TotalMonotonic`, `TotalBound`).

**Model-checked only.**  Every invariant and action property of the passing
runs, and the refinement, is stated by a theorem.  The two liveness properties
(`KnownOrdersFreeTheirSlot`, `PendingRunsEnd`) are out of the prover's reach and rest on
TLC, as do the four findings.  Overflow of `Decimal` is neither checked nor proved.

## 5. What is not modelled, and why

Strategies, pricing, indicators and option mathematics are floating-point
searches; the models leave their decisions open.  Calendar and symbol code are
pure data conversions with unit tests.  Brokers' clients are I/O except for the
calls whose failures the models need; most lines of the repository are
generated tables of assets and symbols.  Authentication is request handling
over a database.  The dashboard's race on the maps that the main loop writes
(`web.go:625`) has no meaning at the level of states.  Cubby's live mode creates
orders and never synchronizes them afterwards (its reconciliation is a todo,
`live.go:95`), so there is no protocol to check yet.  Strangler has the same order
book-keeping as varu, in an older form; nothing here is claimed of it.

## 6. Plan

Done, in the order of importance: `OrderLife` and `VaruOrders`, `VaruHoldings`,
`VaruSession`, `VarulabScheduler`, `Maker`, `TokenBucket` with `SchwabClient`, `Cubby`,
each with proofs of all its safety properties.  Left:

1. An abstract specification of what the maker promises (at most one order and one
   replacement a side) with the refinement, from the layers of `MakerProofs`.
2. An abstract budget that the token bucket implements for callers that do not sleep.
3. `Lots` (`ds/lots.go`): lots as a pure algorithm against a reference definition;
   quantity conserved, realized profit equal to that of the bag of matched
   contracts.
4. `FanOut` (`cmd/varu/main.go:337`): one stream, several traders, composed with
   the bound on each trader's channel.
5. Cubby's live mode, when it reconciles its orders.
