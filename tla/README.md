# PineFramework in TLA+

This directory holds the verification project of PineFramework: TLA+ modules
translated from its source, the TLC configurations that check them on small
instances, and TLAPS proofs of what matters most. PineFramework is a
TypeScript monorepo: a Pine Script engine (`src/`), the HTTP, WebSocket and
Telegram server around it (`backend/`), a charting frontend (`frontend/`) and,
inside the engine package, a live trading bot that swaps tokens on Solana
(`src/trading/`). Paths below are those of the repository.

## 1. Inventory

State, operations, interactions and hard behaviours of each component. "Bot"
is the part where a wrong order of two steps moves real money, so it comes
first everywhere in this project. `PROJECT.json` has the status of each.

### Trading bot (`src/trading/`)

| component | state | operations | correct when |
|---|---|---|---|
| Bot engine (`bot-engine.ts`) | bot state, configuration, close-run guard, abort controller, component references, close-attempt tombstones | configure, start, stop, emergencyStop, reset, toggleChaosMode, risk-breach handlers, candle gate, drain, close run, shutdown | one close run at a time; Running means able to trade; Idle and Stopped mean nothing is alive; every stop halts |
| State machine (`state-machine.ts`, `types.ts`) | current state, transition history | transition, transitionSync, reset | only mapped edges; history chains |
| Close manager (`close-manager.ts`) | one close run: queue, workers, attempts, verdicts | closeAllPositions, runClose, closePosition, attemptClose, resolveAmbiguousOutcome, aggregate | no position sold twice; closed only with a confirmed signature; the run ends within its deadline |
| Live strategy executor (`live-strategy-executor.ts`) | per-world strategy state, staged position, confirmed positions, world mutexes | processCandle, executeSignal, reconciliation, saveState, loadState, chaos hot swap | reported positions are the ones on chain; a failed swap reverts, an unknown outcome does not |
| Scheduler, live scheduler (`scheduler.ts`, `live-scheduler.ts`) | order mutex, paused flag, statistics | tick, pause, resume, runExclusive | FIFO mutual exclusion of order submission; nothing is submitted after an abort |
| Risk (`risk/`) | daily record, rolling 24h window, balance baseline, breach latches | recordTrade, recordBalance, canEnterPosition, updateConfig, resetDay | no entry while any guard is breached; one event per breach |
| Bar feed (`bybit-websocket.ts`) | a socket, a reconnect timer and a connect timeout for each category, subscriptions | connect, disconnect, subscribe, reconnect | one socket, subscriptions survive a reconnect, no callback after disconnect |
| Trade history (`trade-history-store.ts`) | the newest trades, two memoized statistics, a JSONL file and its archive | recordTrade, rotation, loadExisting, getStats, getTradesPage | nothing is lost between file and archive, pages are exact, statistics are fresh |
| Wallet (`wallet/`) | encrypted key, cached sensitive bytes, retention window | getKeypair, create, import, remove | key bytes are zeroed after use and never used zeroed |
| DEX adapters (`dex/`) | none beyond one request | getQuote, executeSwap, getBalance, confirm polling | an outcome is confirmed, failed or unknown, and unknown is never reported as failed |
| Chaos mode (`bot-engine.ts`, `live-strategy-executor.ts`, `routes/bot.ts`) | the flag in the engine and on disk, the generator, the strategy states | toggle while running, stage for the next start | the bot runs in the mode asked for last, and a swap loses no position |
| Configuration, auto-select (`config-store.ts`, `routes/bot.ts`, `auto-select.ts`) | the engine's configuration, its file, selections in progress | configure, backtest, delete, save, load, migrate | the file brings back what the engine has; a choice survives |
| Capital allocator, token registry | none | allocateForWorld, lookups | allocations never exceed the capital |

### Script engine (`src/`)

| component | state | operations | correct when |
|---|---|---|---|
| Language (`language/parser`, `compiler`) | token position, symbol table, IR | tokenize, parse, compile | the IR means what the source says |
| Runtime (`language/runtime`) | scopes, series, ring buffers, persistent variables, forming-candle snapshot | execute bar, commit, rollback | a forming candle leaves no trace once it is replaced |
| Strategy engine (`strategy/strategy-engine.ts`, `backtest-engine.ts`) | orders, position, open and closed trades, equity | entry, exit, close, process bar | quantities and equity balance; pyramiding and OCA rules |
| Alerts, trailing stops, fees (`strategy/`) | alert state, stop levels, fee cache | evaluate, update, fetch | stops only tighten; alert frequency is respected |
| Analysis, data, rendering, PnL, performance, extensibility, config, utils | caches, pools, registries, indicator state | calculate, request, draw, acquire/release, register | bounded memory, reference results |

### Server (`backend/src/`) and frontend

| component | state | operations | correct when |
|---|---|---|---|
| WebSocket gateway, bot gateway (`ws/`) | clients, subscriptions, sessions, buffers | subscribe, unsubscribe, broadcast, close | a client gets each update once, in order |
| Sessions (`session/`) | the bars of a session, pending alerts | tick, confirm | a session runs as if there were confirmed bars only |
| Stores and caches (`store/`, `cache/`) | JSON files, cached bars in memory and on disk | save, load, merge, evict | an answer of recent bars is whole and recent |
| Telegram (`telegram/`) | chats, subscriptions, operators and requests in a file; the bot that polls; a wizard session for each chat | commands, buttons, approvals, delivery, restart of the transport; the steps of the wizard and its run | each notification goes to those who want it and to nobody else; only approved users stop the bot; one bot polls; one backtest at a time in a chat |
| Process (`index.ts`) | the shutdown timer | signal handler, forced exit | the engine stops before the process does |
| Routes, services, CLI | none or a small cache | requests | input is validated before it is applied |
| Frontend | bars, scroll-back, indicators and their results, view state | load, tick, scroll, add, replace, remove | shows the bars and results of what is selected, and of nothing else |

## 2. What is hard here

The program is single-threaded JavaScript, so the hazards live at the awaits:
two calls interleave there, state read before an await is used after it, a
promise that was given up on settles later, and a timer races the answer it was
guarding against. On top of that the bot talks to a blockchain (a swap may land
although its confirmation was lost), sockets close long after `close()` was
called, files are written without waiting or torn by a crash, and a live script
is run again and again on a bar that is still open. `PROJECT.json` lists each
hazard at its line with the properties that would catch it.

## 3. Modules and the code they model

One module per component, translated from its source. An action is the stretch
of code between two awaits, so the interleavings TLC explores are those of the
event loop; `StrategyEngine`, which is synchronous, has a step for each
iteration of its loops. The MC modules give the constants their values and
compose what is checked in one run.

| module | models | state ↔ code | actions ↔ code |
|---|---|---|---|
| `BotLifecycle` | `bot-engine.ts` lifecycle, `state-machine.ts`, `types.ts` | `state`, `config`, `startedAt`, `closeRunInProgress`, `abort`, `executor`, `feed` are the fields of the engine; `pc[c]` is the await the call of caller `c` is suspended at | `Configure`, `StartCall` … `ConnectFeed` (start and initialize), `StopCall`, `EmergencyStopCall`, `RiskBreach`, `DrainInFlightProcessing` … `ReleaseCloseRun` (a stop), `Reset`, `RecordFatalError` |
| `CloseRun` | `close-manager.ts` | `phase`, `timer`, `attempt` of each close, `results`, the announced events (`trail`), `tx[p][a]` = what became of the sale of attempt `a` on the chain, the clock | `AcquireKeypair`, `PullPosition`, `Preflight`, `QuoteAndSend`, `SwapReturns`, `Verify`, `Retry`, `CloseTimesOut`, `ResolveRun`, `EngineForgets` |
| `CloseContract` | what a stop may rely on | the landed sales, the announcements, the summary | abstract: a sale lands, a verdict is announced, the run is summarised |
| `OrderPipeline` | `scheduler.ts`, `live-scheduler.ts`, `live-strategy-executor.ts`, the candle gate, the close seam and the restart of `bot-engine.ts` | per run of the engine an executor (`position`, `confirmed`, `strategy`) and a scheduler mutex (`queue`); the files `saved` and `tombsDisk`; the wallet `held` | `CandleArrives`, `Evaluate`, `BeginOrder`, `SendOrder`, `OrderReturns`, `OrderFails`, `OrderThrows`, `DropOrders`, `BeginStop`, `EndDrain`, `PrepareClose`, `CloseReturns`, `Shutdown`, `FlushMarks`, `Start`, `Crash` |
| `KeyCustody` | `wallet-manager.ts`, `sensitive-data.ts` and who borrows the key | `cached` = `decryptedKeypair`, `live` = the wrappers not disposed, `key[u]` = the wrapper a call holds | `GetKeypair`, `BalanceEnds`, `AskQuote`, `QuoteReturns`, `SwapReturns`, `CloseRunEnds`, `Unlock`, `WipeKeypair` |
| `RiskGuards` | `risk/` and the entry gate of the executor | `trades`, `daily`, `wallet`, `armed` are the fields of the guards; `ledger` and `peak` record what really happened | `RecordTrade`, `AllowEntry`, `BlockEntry`, `FetchBalance`, `RecordBalance`, `SkipBalance`, `Tick` |
| `ChaosMode` | the hot swap in `bot-engine.ts`, `live-strategy-executor.ts` and the two chaos routes | `mode`, `savedMode` = the flag in the engine and on disk, `generator`; `states` = the strategy-state objects that were ever made, `current` = those in use; `candles` and the object each works on | `ToggleConfig`, `BeginEnable`, `EndEnable` (after the balance), `Disable`, `Patch`, `CandleArrives`, `Evaluate`, `OrderReturns` |
| `BotConfiguration` | `config-store.ts`, configure, backtest, delete and stage in `routes/bot.ts`, `onAutoSelect`, what `initialize()` derives | `config` of the engine as an object with an identity, `disk`, selections in flight (`tests`, `starts`), `wired` = the pairs of the feed and the worlds of the executor | `Configure`, `BeginBacktest`, `BacktestEnds`, `StageMode`, `ToggleMode`, `Delete`, `StartBot`, `Selected`, `Initialize`, `Stops`, `Restart` |
| `BarFeed` | `bybit-websocket.ts`, the feed callbacks of `bot-engine.ts` | per category `sockets`, `connecting`, `attempts`, `timer`, `timeoutTimer`; `ready` and `inbox` of every socket, also of those that were replaced | `Connect`, `Subscribe`, `Unsubscribe`, `Disconnect`, `Reconnect`, `ConnectTimeout`, `HandleOpen`, `HandleError`, `HandleClose`, `HandleMessage` |
| `StrategyEngine` | `strategy-engine.ts`, `trailing-stop-manager.ts`, `strategy-builtins.ts` | `position` with its lots, `pending`, the orders taken out of it (`todo`, `triggers`), the trailing state in each order | `Script` (entry, order, exit, close, cancel), `NewBar`, `FillMarket`, `Trail`, `Collect`, `FillNext`, `Trigger`, `EndBar` |
| `ScriptRun` | `interpreter.ts` and what a bar leaves for the next one | the accumulators, history and strategy of a script | abstract: a confirmed bar runs |
| `FormingCandle` | `forming-candle.ts`, `FormingCandleManager.ts`, `ScriptSession.ts` | `run` (as `ScriptRun`), drawings, alert triggers, the bars and counters of the manager | `Tick`, `Confirm`, `ConfirmAgain`, `GetPendingNewAlertTriggers` |
| `TradeHistory` | `trade-history-store.ts`, its routes, the record of a closed trade | `trades` in memory, `file`, `archive` (which lines parse, whether the last has its newline), `memo`, a client's `walk` | `PersistClosedTrade`, `RecordFails`, `LoadExisting`, `LoadFails`, `GetStats`, `FirstPage`, `NextPage`, `Crash` |
| `BarCache` | `DiskOHLCVCache.ts`, `ohlcv-cache.ts`, `fetch-bars.ts`, `routes/ohlcv.ts`, `routes/bars.ts` | `memory`, `stored` (the disk), `meta`; of a bar when it was fetched, since it is final only if that is later than the bar | `AskRecent`, `AskWindow`, `Answered`, `Fails`, `Evict`, `Restart` |
| `IndicatorGateway` | `ws/gateway.ts`, `cancellation-registry.ts`, `routes/execute.ts`, `routes/indicators.ts` | `runs`, the token each id has (`registry`), `sessions`, `follows`; upstream `sockets`, `current`, `timers` | `Execute`, `Finish`, `Stop`, `Delete`, `Connect`, `Subscribe`, `Unsubscribe`, `Disconnect`, `HandleOpen`, `HandleClose`, `Reconnect` |
| `ChartBars` | `useChartData.ts`, the bars | `rows` = `ohlcvDataRef`, `candles` = the state that is drawn, the refs `loaded`, `pending`, `watermark`, `guard`; `borders` | `SwitchTopic`, `LoadEnds`, `Kline`, `Reconnect`, `ScrollBack`, `OlderArrives`, `OlderDrawn` |
| `IndicatorDisplay` | `useChartData.ts`, `useIndicatorManager.ts`, `App.tsx`, the indicators | of a result the dataset it was computed on; `results`, `shown`, `active`, `sources`, `gen`, the runs and messages in flight | `Switch`, `ListArrives`, `RunEnds`, `MailArrives`, `ChunkArrives` … `ChunkDrawn`, `Add`, `RemoveIndicator`, `DeleteEnds`, `RemovedElsewhere` |
| `TelegramChats` | `TelegramConfigStore.ts`, `TelegramBotFeature.ts`, `TelegramService.ts`, the Telegram routes of `settings.ts` | `chats`, `controllers`, `requests` are the file; `bots` = every Telegraf instance, `bot` and `isRunning` the fields of the service; `wants` = what a member was last shown | `StartCommand`, `Toggle`, `ToggleAll`, `SetMemberSubscriptions`, `LinkChat`, `Request`, `Approve`, `Deny`, `RemoveController`, `RestartService`, `Launched`, `LaunchFails` |
| `BacktestWizard` | `telegram/backtest/wizard.ts`, `keyboards.ts` | `wizards` = the sessions that were ever made, `active` = the one of the chat, `waiting` = handlers at an await, `backtests` = `executeRun()` in flight, `seen` = the keyboards the chat can tap | `Start`, `Restart`, `Loaded`, `Select`, `Back`, `ShowStep`, `Cancel`, `EndSession`, `Run`, `RunBegins`, `RunIsLost`, `RunEnds` |
| `*_proofs` | theorems (section 6) | | |

How they fit together. A stop of `BotLifecycle` contains one drain and one
close run: the drain and the close run as the books see them are in
`OrderPipeline` (`BeginStop`, `EndDrain`, `PrepareClose` …), and one close run
in full detail, with its workers and timers, is `CloseRun`. `CloseContract` is
the interface between the two: a position is announced closed only when a sale
landed, a failed or timed-out verdict may later be corrected to closed, and the
summary comes last. `BarFeed` delivers the candles that `OrderPipeline` and
`ChaosMode` begin with, `StrategyEngine` is what `Evaluate` asks for signals,
`RiskGuards` is the gate an entry passes, and its breach is the `RiskBreach` of
`BotLifecycle`. `TradeHistory` keeps what a closed trade left.
`BotConfiguration` decides which worlds and pairs a start wires. `KeyCustody`
cuts across orders, snapshots and close runs, all of which borrow one key. On
the other side of the server, `BarCache` answers the loads of `ChartBars`,
`IndicatorGateway` starts the sessions that `FormingCandle` runs, and their
results are the mail of `IndicatorDisplay`. `TelegramChats` tells the chats what
the bot and the trades did, and its operators are callers of `BotLifecycle`;
`BacktestWizard` runs in one of those chats. Two refinements are checked:
`CloseRun` implements `CloseContract`, and `FormingCandle` implements
`ScriptRun`, the script that never sees a tick.

Abstractions that hold everywhere: quantities, prices and fees are left out
where only "held or not" matters (in `StrategyEngine` they are small numbers);
messages, events and errors are members of small sets; logging, telemetry and
notifications are left out except where a property is about them. A swap is an
external step (`SettleOnChain`, `OrderLands`, `SaleLands`): once sent it may
land, and its answer may be lost. Variables marked *history* or *ghost* are not
in the program; they remember what a property compares with, or that something
happened which the property names as its exception.

## 4. Runs, bounds and what they show

| run | instance | shows |
|---|---|---|
| `lifecycle` | 2 concurrent callers, 3 configurations | one close run at a time, starts never overlap each other or a teardown, the state tells which components live, every stop halts and gives its guard back |
| `close_run` | 2 positions, 1 worker, 1 retry, per-close timeout 2, deadline 3 | no double sale, closed only when landed, no attempt after a timeout, the contract, termination |
| `orders` | 2 worlds, 2 candles, 2 runs, stop, crash and restart | the staged books settle on the confirmed ones, no phantom position is reported, nothing is sold twice across restarts unless the mark was lost before it reached the disk |
| `key_custody` | 2 orders, 1 snapshot, 1 close run, 2 unlocks | a key lives only while somebody uses it; at most one besides those of unlocks |
| `limits` | *guards*: days of 3 ticks, 2 days and a tick, 2 balance requests in flight. *mode*: 2 worlds, 2 candles, 3 toggles, 1 PATCH. *configuration*: 2 pairs, 2 strategies, 5 events | what passes the gate is within the true ledger and the day's high-water mark, and no breach leaves the bot running; the bot runs in the mode asked for last, and a swap keeps books and orders; the file follows the engine, and a strategy that was chosen survives a backtest and a restart |
| `bar_feed` | a linear and a spot pair, 3 sockets alive at a time, 1 reconnect attempt, 1 bar | each bar once and in order, one live socket per category that streams exactly what is subscribed, a feed in use recovers or gives up |
| `strategy` | 3 prices, 2 names, 4 kinds of exits, pyramiding 1 | lots fit the position, a group of orders ends with it, trailing stops only tighten |
| `stores` | *trades*: 5 trades, 3 in memory, pages of 1, 2 faults. *bars*: 5 bars, requests of 2, ages 1, 1 and 2, 2 requests in flight | pages are exact, statistics fresh, a torn append costs its neighbours only, archived trades are where the marker says; an answer of recent bars is whole and as new as the ages promise |
| `channels` | *runs* and *topics* of the chart gateway: 2 clients, 2 indicator ids, 3 runs, 2 topics, 4 sockets. *telegram*: a private chat and a group, 2 users, 2 kinds of notifications, 3 bots. *wizard*: 3 steps, 2 sessions, 2 waiting handlers, 2 runs | superseded, stopped and deleted runs yield no session, tokens do not leak; open sockets stream what is followed; notifications go to those who were shown to receive them, operators are those approved, one bot polls; one backtest at a time runs in a chat, with the settings the chat was shown, and nobody is locked out |
| `chart` | *indicators*: 2 ids, 2 changes or removals. *bars*: 2 topics, loads of 2, chunks of 1, 1 change. *session*: 4 bars, 2 prices, 5 scripts | what was removed stays off the chart and what is active is drawn over all bars; the bars are exact; a session runs confirmed bars as if there were no ticks and announces each alert once |
| `orders_snapshot` | 1 run | *violated*: the close run misses a confirmed holding |
| `config_pairs` | 2 pairs, 5 events | *violated*: after a restart the feed brings candles of a pair that no world trades |

`limits`, `stores`, `channels` and `chart` are each the sum of independent
parts: `part` is chosen by the initial state, one part moves and the others rest
at their beginning, so the parts share a run but no state, and the bounds of
each are its own. The runs and the topics of the gateway are two parts of one
module: both read the connections of the clients, and neither reads the other. Composing them as a product would only multiply the states, since
these components share no variable. A property of a part says nothing while
another part moves.

Why the bounds suffice. Two callers give every pairwise race of the lifecycle;
its safety properties are proved for any number. One worker and two positions
make one of them wait in the queue, and a close that timed out goes on in the
background next to the second one, so two closes run in parallel as well; one
retry is `EMERGENCY_MAX_RETRIES`; a timeout of 2 and a deadline of 3 let the
first close time out, retry and come back late before and after the deadline.
Two candles are the least in which a bar overtakes another of its world, or
holds the mutex of a stopped run while a later run sells. Losses of 0, 1 and 2
against a limit of 2 meet the limit exactly, in one trade or two, on either
side of midnight and of the 24-hour edge. Three toggles are an enable that a
disable overtakes while another is to come. Five events configure, select or
start, and restart in every order. Three sockets of the feed are a replaced
one, its successor and one of the other category; the gateway has a fourth, so
that both categories may reconnect. Three runs are one that is superseded, its
successor and that of another client. Three prices have a bar that goes
through a stop, one that touches it and one that does not. Five trades with
three in memory rotate twice. Four bars are one to initialize, one that is
doubled, one that is lost and one after it. A member of a group next to another
and a private chat have every default and every explicit choice; the third bot
is one that starts while the first, stopped too early, may still poll. Two
waiting handlers are a tap and another that overtakes it, on the same session
or on its successor.

Each property of a passing run has a mutant of the code it depends on
(`Mutant…` definitions next to the original): a dropped guard, a missing reset
or a swapped order that TLC finds to violate it; a property with several halves
has one for each.

## 5. Fairness

Safety runs assume none. `BotLifecycle` assumes weak fairness of `Continue(c)`:
every await of these methods ends, because the drain and the close run have
deadlines, the notification is bounded and the rest are file and socket
operations that settle. Nothing is assumed of callers or of fatal errors.
`CloseRun` assumes weak fairness of its timers, of the clock, of taking up
queued positions and of resolving, and *none* of quotes, swaps and status
checks: they may hang for ever, and the run must end regardless. `BarFeed`
assumes that armed timers fire and that a socket reports the close it was asked
for, which the library does; of a handshake nothing is assumed, so that only
the connect timeout can end one that hangs. No property needs strong fairness.

## 6. Proofs

All proof modules are checked by TLAPS for every value of the constants.

`Bot_proofs`, on the lifecycle: `TypeCorrect`, `CloseRunIsSingleFlight`,
`StartsRunAlone`, `StateMatchesComponents`. The invariants are inductive only
together: that the state is honest (`StateIsHonest`: a Running bot is armed,
`RunningIsArmed`, and an Idle or Stopped one has nothing alive, `HaltedIsDown`)
needs that a suspended call owns the state it is suspended in
(`PhaseOwnsState`), which needs that one close run exists (`SingleCloseRun`)
and that starts are alone (`StartsAlone`). The proof has a step for each action.
On the custody of the key: `CustodyTypes`, `KeysAreInUse`, `KeysAreBounded`. Both
properties are made inductive by `CustodyInv`: a caller who waits for a key
holds none (`IdleHoldsNothing`), and the live wrappers that are *not* cached are
as many as the unlocks at most (`SpareKeys`), since only an unlock replaces a
live cached one.

`Positions_proofs`, on the close run: `TypeCorrect`, `NeverSoldTwice`, `ClosedMeansOnChain`,
`TimedOutClosesEnd`, `RunKeepsContract`. `SoldAtMostOnce` alone is not
inductive; the strengthening `CloseInv` adds that only the current attempt of a
close may have a sale in doubt (`OnlyCurrentAttemptSent`), that the
announcements fit the phase (`AnnouncedByPhase`), that what is announced closed
landed (`AnnouncedIsLanded`), that nothing is summarised before the run resolves
(`SummaryIsLast`) and that a close in progress has attempts left (`RetryLeft`).
That a position whose time is up begins no further attempt
(`TimedOutClosesEnd`, an action property) needs `TimerInv`: a close in progress
has its timer, which fires no sooner than its budget is spent.
`RunKeepsContract` is the refinement: initial states map to initial states of
`CloseContract`, each step to one of its steps or a stutter.
On the broker emulator: `BookAlwaysSound`, `StopsOnlyTighten`. The three parts of
`BookIsSound` are inductive together: that lots add up needs that orders have a
quantity and an open position has lots (`LotsMatchPosition`), that a group ends
with its position needs that an open position has a name. `FillKeepsBook` is the
step that could break it: whatever order fills, at whatever price, against
whatever book (`Added`, `Reduced`, `Fill`); it is used for market orders, hit
orders, triggered stop-limits and immediate exits. What lots add up to is defined
by a recursive function (`Sums`); that it exists and is the only one that adds up
is shown by a least counterexample (`SumsExist`, `SumsAgree`), and from there what
appending, removing, cutting and first-in-first-out do to a sum (`QtyOfAppend`,
`QtyWithout`, `QtyCut`, `FifoIs`, `TakenIs`). `StopsOnlyTighten` needs of the
invariant that an order which trails was seen by `update()` before
(`TrailStates`), since one that is new starts from the average price; `TrailedIs`
has the rest.

`OrderPipeline_proofs`: `TypeCorrect`, `BooksAlwaysSettle`,
`NoPhantomPosition`, `NoBlindResale`. `MutexInv` says that a candle which waits
for the order mutex of its run is in that run's queue, and one that submits is at
its head. `OrderInv` says that a candle belongs to the current run or an earlier
one, that an outcome lands only while its order is out, and that an executor
submits at most one order of a world, so that an outcome settles the stage it
belongs to. `FillInv` says that until a stop first closes anything, a landed
order whose outcome is still on its way decides what the wallet holds, and that
a confirmed position without such an order is held, unless a confirmation was
lost. `MarkInv` says that a close which may have sold without anybody knowing is
marked with a tombstone of its own run, unless a mark was lost. `NoBlindResale`
is an action property: a sale begins from a snapshot only, and `StepKeepsMarks`
is the step of it.

`Limits_proofs`, on the loss guards: `TypeCorrect`, `GateKeepsWalletLimit`,
`WindowIsNoWeaker`, `GateKeepsLossLimit`, `BreachesStop`. The wallet guard may
lag behind the clock; `WalletInv` says that it tells the truth about the day it
is on (`GuardOnItsDay`) and that no balance was recorded after that day
(`NothingLater`), so a guard that lags has missed nothing of today. The loss
guards are compared with sums over the ledger of what was really lost:
`LossInv` says that the pruned window still has every loss of the last 24 hours
and that the daily record is the sum over its day. The lemmas on sums go by
induction over the subsets of a finite set (an induction over sets, which needs
no operator parameter); those on `DayStart` are the arithmetic of day
boundaries. On the mode: `ModeSettles`, `SwapsKeepBooks`. That the books
survive a swap is inductive only with what holds while orders are on their way:
the confirmed fills are the tokens in the wallet at *any* time (`FillsAreHeld`),
and a confirmed world without an order is long in the objects of the moment
(`FillsAreLong`); that the disk has the mode asked for last needs that what the
tail of an enable may still save counts as such (`TailSavesLast`). On the
configuration: `ConfigurationSurvives`. A restart reads the file, so that the
choice survives needs that the file has it, or is gone (`FileHasChoice`), and
that a selection can tell whether it was overtaken needs that no two
configurations share an id (`IdsAreOld`).

`BarFeed_proofs`: `TypeCorrect`, `OneSocketAlways`, `BarsArriveOnce`.
Already the types are not inductive alone: that attempts stay within their bound
needs that a reconnect is scheduled only while attempts are left (`AttemptsLeft`).
`FeedInv` says that a socket in a category's record was made for that category
(`Owned`), that a socket which is open, or may still open, is its category's
current one (`LiveIsCurrent`), and that what a category subscribes is served by
it or asked for once it opens (`SubscriptionsAreServed`). `BarInv` adds that
what a session waits for streams (`SessionStreams`), that the bars on their way
are in order and newer than what was delivered (`InboxInOrder`, `InboxIsNews`)
and that they have closed (`BarsHaveClosed`).

`Stores_proofs`, on the trade history: `TypeCorrect`, `StatisticsAreFresh`, `WalksAreExact`,
`LossesAreBounded`, `NothingIsLost`. `WalksAreExact` needs that the order of
records is total (`NewerIsAnOrder`) and `WalkInv`: of the records a walk started
with, those not seen are behind its cursor and those seen are not.
`LossesAreBounded` counts by `LossInv`: the served records that cannot be read
any more, with those the next append may still cost, are at most two for each
torn append. `NothingIsLost` (no record falls between file and archive) needs
`BetweenInv`: files and memory are in the order of the records (`OrderedInv`);
the last line of the archive marks how far it goes, so that an older record in
the file is archived or excused by a fault (`MarkerInv`); and what is in the
file is in memory, archived, excused, or the unseen record of a failed append
(`CoveredInv`). The lemmas state what
the operators on sequences and files (`SubSeqType`, `ConcatType`,
`AppendToFileType`, `NewestType`, ...) return. On the cached bars:
`AnswersAreSound`. An answer is taken from the memory, the disk or the exchange,
and what is served is as sound as that: `StoredInv` says that the disk, while
nothing odd happened to it, has no holes, no unfinished bar but the last, and a
bar as new as its date says (`FreshAt`); `MemoryInv` says it of the memory at
the time it was filled. `MergeIs` is the step that could break it, and `SliceIs`
shows that the slice a request is given exists: the number of bars kept grows by
one at a time.

`Channels_proofs`, on the gateway: `GatewayTypes`, `TokensHold`,
`UpstreamAlwaysServes`. `RunInv` says that a run which computes was robbed
of its token, was cancelled, or owns the token of its id and is not stale, and
that only a run that was robbed may be stale. `UpInv` takes the types of clients
and sockets with `UpstreamServes`, which are inductive only together. On the notifications: `ChatsAreSound`. That a notification reaches
the right chats is not inductive: the delivery asks only who is subscribed,
while what a member is shown depends on defaults of the chat. `Mirrors` says
that the file tells of *each* member what the member was shown; the lemmas say
that every primitive keeps it (`PutMirrors`, `LinkMirrors`, `AddMirrors`,
`SetMirrors`, and `SetToMirrors` for the panel, which writes a set as two
differences), and `MirrorIsAudience` that the delivery then is right.
`BotsAreKnown` says of the bots that all but the service's own have ended,
unless one was stopped early. On the wizard: `WizardsAreSound`; its three
properties are inductive together with the types (`WizardInv`), since a session
is only replaced or ended by steps that note the run it leaves behind.

`Chart_proofs`, on the session of a script: `SessionsAreSound`,
`TicksAreTakenBack`, `SessionRunsTheScript`, `AlertsAreTold`. `ExecuteIs` shows
that what a run did to the history, the variables, the windows and the strategy
is taken back by `Restored`, whatever the script does and whether or not it
throws; with it every tick and every repeated confirmation leaves `run` alone
(`ComputeIs`), and a confirmation is a `Confirm` of `ScriptRun`, which is the
refinement. That the news of a bar are its own needs `CountedInv`: all alerts
are counted, and until one is dropped each belongs to a confirmed bar.
On the indicators: `IndicatorsStayTrue`. That everything has arrived says nothing
of the steps before it; `UnlessSlipped` is what they keep: of each script the hook
has, the result over the bars of the chart is there or is due (`Due`: a run that
will be taken, a request that brings one, the scroll-back that is under way),
and a run in flight computes over the bars of the chart. `RunsHaveSources` says
that a run the hook will take is of a script it still has, so that its result is
drawn. The proof needed three ids where the run has two: a removal makes the id
of an earlier replacement active after its result was dropped
(`history.late`, section 7).
On the bars: `ChartsAreTrue`. That the bars are exact once they are loaded rests
on what is so before, and between the steps of a scroll-back (`BarsInv`): while a
load is under way nothing came (`UntilLoaded`); afterwards no load is left, the
end of a scroll-back that is under way is where the bars begin, what is drawn
ends with the bar the scripts end with, and the watermark is the socket's bar
once that is closed, which makes its repetitions stale (`OnceLoaded`). For the
borders, a load and a scroll-back must not be under way together
(`RequestsApart`). `InOrderIs` says that the sort of `toCandleData()` leaves
bars without a gap where they are.

Assumptions are those of the modules' `ASSUME`s only: bounds are naturals, the
special values are not members of the sets they are added to, the steps of the
wizard are two or more of which "run" is the last. A type invariant that a
theorem states by itself (`TypeCorrect`, `GatewayTypes`, `CustodyTypes`) is not checked again by
a run; the others are a conjunct of a property that a run checks, and where that
property is a theorem the types are proved with it.

Model-checked only:

- all liveness (it rests on fairness and ENABLED, out of TLAPS' reach):
  `StopTerminates`, `RunTerminates`, `FeedRecovers`;
- the two properties that the code does not have (section 7).

## 7. Where code and documentation disagree

Two disagreements are runs that TLC violates (`orders_snapshot`,
`config_pairs`; `findings` in `PROJECT.json`). The others were met while
modelling; the models follow the code.

Stops, orders and closes:

- A stop of a Running bot is ignored, and reported as done, while the guard of
  an earlier stop is still held (`bot-engine.ts:561`, stop-close-all
  specification line 51).
- A buy may begin after a stop: `tick()` looks at the abort before it waits for
  the mutex (`scheduler.ts:250`, specification line 44).
- A confirmed close is restored as open: `handlePositionClosed()` looks the
  world up under the key of the pair (`bot-engine.ts:2102` against `:2069`).
- An unknown outcome comes back as a failure and flattens the stage
  (`live-strategy-executor.ts:937` against `:963-970`).
- A balance snapshot disposes the key of an order in progress
  (`live-strategy-executor.ts:1359` against risk-guard-live-wiring line 29).
- `reset()` from Error rejects: `bot-engine.ts:808` promises Idle "from Stopped
  or Error", `types.ts:35` has no such edge.
- A close run that cannot get the keypair announces nothing
  (`close-manager.ts:296`; specification lines 63-64). A close confirmed between
  its timeout and the summary is announced as closed and summarised as timed out
  (`close-manager.ts:408`, line 60); so is a position no worker took up (`:849`
  against the comment at `:99`). A retry that was backing off when the deadline
  fired starts another attempt (`:436`, line 24).
- A confirmed sale of a restored position deletes one of its two keys
  (`live-strategy-executor.ts:1861` against `:443`); a restored position is
  reported at once (`:1069` against `:447-449`). A second buy of a held world
  that fails deletes the fill of the first (`:1848` against `:1783`).
- Bars of one world are evaluated in an order the balance request decides
  (`live-scheduler.ts:78` against the promise in `scheduler.ts:2`).
- `unlock()` replaces a live wrapper without disposing it, and `importWallet()`
  leaves the key of the wallet it replaces in the cache (`wallet-manager.ts:454`, `:342`).

Risk guards:

- Two balance snapshots that come back in the opposite order clear a breach and
  raise the same alarm twice (`risk-manager.ts:220` against `:61-66`), and
  `updateDailyLossConfig()` changes the daily limit but not the rolling one (`:295`).
- The risk manager is built once from the configuration saved at boot: a changed
  loss limit has no effect until a restart.
- Outside UTC, the hour a day gains in autumn resets the daily stop loss a
  second time (`daily-stop-loss.ts:67`). The server configures UTC.

Configuration and chaos mode:

- `/bot/backtest` applies before it persists and overwrites a configuration that
  changed meanwhile; the selection inside `start()` writes its worlds to the
  configuration it was given and its pairs to the one there is by then, neither
  to disk; `bot-config.json` is written in place; `DELETE /bot/config` leaves the
  configuration of the engine in memory.
- An enable that a disable overtakes leaves a silent bot (chaos-mode-hot-swap
  specification: "rather than silently producing no signals";
  `live-strategy-executor.ts:1231-1233` "atomic"). A toggle while the bot starts,
  or a disable whose compilation fails, leaves configuration, disk and executor
  in disagreement. A disable forgets the confirmed fills while tokens are held;
  an enable with an open position leaves a flat engine that may buy on top.

Feed and gateway:

- The spot socket moves the signal "connected" as well (`bybit-websocket.ts:282`
  against `:428-430`, bot-feed-telemetry specification line 8).
- The end of a superseded run removes the token of the newer one, which can no
  longer be cancelled (`gateway.ts:655`, comment at `:625`); another client with
  the same indicator id cancels the first one's initialization, which gets no
  answer. A bar re-executes all sessions of a subscriber, whatever their symbol;
  bars confirmed while a session initializes are missed; a socket that is
  replaced while it connects is not closed; the timer of the spot socket may
  reopen it when nobody needs it; there is no connect timeout.

Scripts and strategies:

- A method that is long-only may open a short, through the exit of an entry that
  is still pending or the second of two orders hit in one bar
  (`strategy-engine.ts:381` against backtest-engine.md:296-297). Exits with
  `from_entry` take the lots of other entries, first in, first out; a trailing
  exit of a short without a stop fills at price 0; two siblings of an OCA group
  hit in one bar both fill; the first move of a trailing stop may loosen an
  explicit stop; entries on a flat position bypass pyramiding;
  `strategy.cancel` passes a name where ids are compared.
- Ticks erase confirmed lines (`forming-candle.ts:329`: the counter of line ids
  is not reset). A bar that fails does not roll back the buffers of indicators
  and the strategy (execution-engine specification lines 17-19). A tick consumes
  the strategy markers of its bar. A confirmation without a tick overwrites the
  bar before.

Stores and caches:

- An archive write that fails is not made up for once a later one succeeds
  (comment of `rotateIfOverThreshold`). A torn append glues the next record,
  which was announced, to its line, and a restart loses it. An unreadable file
  starts an empty history.
- `fetchBars()`, `/ohlcv` and `/bars` serve any cached part of a range as the
  whole (`fetch-bars.ts:46-48` "partial coverage triggers a fetch of only the
  missing range"); a gap between cached ranges is served as contiguous; writes of
  older bars make recent ones look fresh; a late answer may replace final bars
  with unfinished ones. The JSDoc of `isStale()` says "false" for no cache and
  for old bars, the code returns true and applies the threshold as an age.

Chart:

- A load of the previous symbol that answers late replaces the new chart; a
  scroll-back that fails is never tried again from that bar; nothing is fetched
  after a reconnect, which leaves a gap; the buffered kline is drawn but not in
  `ohlcvDataRef`, and goes with the next scroll-back
  (`useChartData.ts:67-74`).
- `handleRemoveIndicator` makes the *computing* ids the active ones, which
  silences every other finished indicator until the symbol changes;
  `handleStrategyReplace` never makes the new id active, so that its result is
  dropped, and a later removal makes it active with nothing drawn; a failed run leaves its
  spinner; a list older than a removal brings the indicator back; the guard of
  stale datasets compares timestamps only, so a result of another symbol passes.

Telegram:

- A run of the wizard that is cancelled goes on: a second one may begin in the
  chat meanwhile, and the end of the first then deletes the session of the
  second (`wizard.ts:223-226`, `:382-430`). `leftover` is the exception of
  `OneRunAtATime`. A run whose first edit fails leaves the chat "already
  running" until it is cancelled. Back is accepted while a run is in flight,
  which may then report other settings than those it ran with.
- A bot that is stopped while it is being launched polls later on, and a launch
  of a replaced bot that fails takes the new one out of service: the
  notifications are then dropped without a word (`TelegramService.ts:280-284`).
  `outlived` is the exception of `OneBotPolls`.
- A "supergroup" is registered as a private chat: linked, with every
  notification on (`TelegramBotFeature.ts:609`). Whoever sends /start in a group
  links it. `setBotToken` does not restart the service.

## 8. What is not modelled

`PROJECT.json` lists every component with its status. The map covers about a
tenth of the implementation, the part where steps of several actors meet. The
rest is of these kinds:

- functions over data: tokenizer, parser, compiler, expression evaluation,
  floating-point indicators, PnL, metrics, commissions, the layout of charts and
  drawings, exports. A state model of them would repeat the code, and what they
  compute for every input needs induction; reference tests are the right tool;
- output that changes no state of the system: notifiers, dashboards, the CLI,
  components of the frontend other than the chart's data;
- registries and stores with one synchronous operation: token registry, plugin
  and input managers, script files.

Within the modelled components: quantities, sizing and dust limits; two
strategies on one pair (the close seam keys by pair); overlapping writes of
`strategy-state.json`; a keypair that cannot be acquired; tombstones that are
never cleared; a world removed from the configuration, whose saved position no
run reports; `importWallet()` over a cached key; the transition history; the
buffer of tick results that come before an indicator's first result; formulas
of the statistics and debug snapshots of the trade history.

## 9. Where to extend it

1. Retries of a message and the settings of single alerts in the delivery.
2. The indicator state of the runtime under rollback (moving windows and
   recursive averages), as more variables of `ScriptRun`.
3. The bot panel of the frontend against the events of the bot gateway.
