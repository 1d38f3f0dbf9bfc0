# TLA+ models of hl-agent

hl-agent lets a language model trade perpetuals on Hyperliquid. Every few
minutes a scheduled cycle reads market and account state, asks a tree model for
a forecast, hands both to the language model, and executes the tool calls it
answers with, each behind a risk gate. A second scheduled job closes positions
that hit a take-profit or stop-loss threshold. A FastAPI server runs both jobs,
lets a dashboard change the settings while they run, and keeps everything in one
SQLite file. The tree model is trained and copied to the server by scripts.

The modules here state what that code guarantees, check it with TLC on small
instances and prove all of it but the liveness with TLAPS for every instance. Source paths
below are relative to `src/src/hl_agent/` unless they begin with `scripts/` or
`web/` (under `src/`) or say otherwise.

## 1. The system

### Components, their state and their operations

| Component | State it keeps | Operations | Modelled in |
|---|---|---|---|
| Risk gate, `risk.py` | none | `check_open_or_increase`, `check_close`, `check_cancel` | `RiskGate` |
| Executor, `executor.py` | none (reads `fills`) | `apply` and its five tools, the correlation block | `TradeCycle` |
| Tool loop, `agent.py` | transcript, actions, token sums of the cycle | `run_cycle` | `TradeCycle`, `CycleTranscript` |
| LLM providers, `llm_provider.py` | none | `complete` of both, the translations | `LlmWire` |
| Cost accounting, `cost.py` | none | `cost_for_row`, `aggregate` | `Cost` |
| Trading cycle, `main.py` | none | `run_one_cycle`, `_safe_cycle` | `TradeCycle`, `TreeAdvisor`, `CycleTranscript` |
| Scheduler, `server.py` `lifespan`, `main.py` `compute_next_run_time` | due jobs, one worker thread | submit, start, misfire, first run | `AgentServer` |
| TP/SL monitor, `monitor.py` | `_streak`, in memory | `check_and_close`, `_check_one`, `safe_check` | `TpSlMonitor` |
| Manual close, `server.py` | none | `POST /api/close_position` | `AgentServer` |
| Runtime overrides, `runtime.py` and the POST handlers of `server.py` | rows of `runtime_state` | pause, model, risk, monitor, leverage | `RuntimeOverrides` |
| Storage, `storage.py` | seven SQLite tables, one transaction per method | see the others | by its tables, partly |
| Account and market data, `account.py`, `market_data.py` | none | `get_state`, `get_snapshot` | `TradeCycle`, `TreeAdvisor`, partly |
| Exchange client, `hl_client.py` | none | `build_client`, `initialize_position_leverage` | `RuntimeOverrides`, partly |
| The exchange | positions, resting orders, leverage, prices | fills, price moves | `Venue` (external) |
| Tree predictor, `tree_model.py` | open-interest and funding buffers | `predict`, `try_build_predictor` | `TreeAdvisor`, `ModelRollout` |
| Features, `features.py` | none | `build_features` | `Features`, by what each feature reads |
| Tree outcomes, `tree_outcomes.py` | rows of `tree_predictions` | `backfill_from_snapshot` | `TreeAdvisor` |
| Drift check, `scripts/drift_check.py` | none | `compute_verdict` | `DriftCheck` |
| Training, `scripts/train_tree.py` | none | matrix, folds, final fit, saving | `TreeTraining`, `ModelRollout` |
| Rollout, `scripts/retrain_tree.py`, `scripts/deploy.sh` | the model files and their archive | archive, train, copy, restart | `ModelRollout` |
| Trade reconstruction, `trades.py` | none | `trades_from_user_fills`, `compute_trades` | `TradeReconstruction`, `TradeViews` |
| Prompts, settings, GET handlers, other scripts, dashboard | | | not modelled (section 6) |

### How they interact

    scheduler thread (1 worker)            server thread pool
      run_one_cycle                          POST /api/pause, model, risk,
        | get_snapshot, get_state                 monitor, leverage
        | backfill, predict                  POST /api/close_position
        | run_cycle <-> LLM provider              |
        |   Executor.apply -> RiskGate            |
        |        |                                |
      monitor.check_and_close                     |
        |        |                                |
        v        v                                v
      exchange (orders, positions)  <---->  SQLite (fills, decisions,
                                             equity_snapshots, runtime_state,
                                             tree_predictions, token_usage)

    operator: train_tree.py -> data/models -> deploy.sh -> the server's copy,
              read when the server starts

The cycle and the monitor share one worker, so they never overlap; both do
overlap with the request handlers, with the exchange and with a restart by
systemd. Nothing holds a lock across two database calls or across a database
call and a remote one: every `Storage` method opens a connection and commits on
its own. All coordination is through rows that were written earlier. The scripts
share nothing with the server but the two files they copy.

### What is hard about it

* **Stale views.** All orders of a cycle, up to the turn limit, are gated
  against the account read at its start. The monitor judges positions by one
  read per tick. A manual close acts beside both. A pause does not stop what runs.
* **Two valuations.** The gate adds an order to the entry-priced notional of a
  position and compares it with the mark-priced one.
* **Partial failure.** An order reaches the exchange before its fill row is
  written, a decision row comes last, a close precedes its two rows; a provider
  bills a call before its usage row. The process may stop between any two.
* **One worker.** A slow cycle holds up the stop-loss; a job that waits too long
  is dropped; the first cycle after a restart is placed by rows that others
  write too.
* **Read-modify-write across transactions.** Overrides are read, merged and
  written back by handlers that run concurrently; a model and its provider are
  two rows.
* **State that outlives its subject.** Streaks of the monitor survive pauses,
  toggles and positions nobody saw vanish.
* **Time.** A prediction is scored by a later cycle of any phase against
  whichever candle is near enough; buffers empty on a restart; data has gaps.
* **Two shapes of one conversation.** Calls and results are translated between
  two APIs, which refuse a call without a result and bill a prefix that changed.
* **Files of two scripts.** A deployment copies a pair of files while a
  retraining may be moving and writing them.
* **Progress.** A model that never stops calling tools; a stop-loss whose close
  keeps failing.

`PROJECT.json` lists each of these hazards at its line with the properties that
watch it, and says of the one without why no property does.

### What makes each component correct

* Gate and executor: a cycle's exposure stays within a known multiple of the
  caps; a drawdown seen at the start leaves closes only; a reduce-only order
  only reduces; correlated assets are not stacked in one cycle.
* Cycle: what is in `fills` and `decisions` tells the truth about the orders
  sent, also after a crash; earlier cycles do not disturb later ones; a cycle
  ends.
* Server: one job does not act on what the other changed; the stop-loss runs in
  time; cycles keep their distance over restarts; a pause takes effect; the
  tables of all three actors keep one ledger.
* Transcript: every call is answered before the next request; requests extend
  each other; the decision row tells every call; what the API bills is booked, but
  for what its responses leave open.
* Monitor: a side fires on the required number of consecutive breaches and never
  on fewer; an asset is closed at most once a tick and the close is recorded; a
  persistent loss gets closed.
* Overrides: no request undoes a field it did not mention; caps stay sane; the
  exchange follows the rows; a cycle reads a consistent pair of model and
  provider; and all that beside another request, as far as the code can keep it.
* Tree advisor: a row is scored once, after its horizon, near its target, and
  none is left out; the buffer has a reading of a day ago when cycles are steady;
  the verdict on the model is monotone.
* Training and rollout: measured accuracy is out of sample; rows are comparable;
  the server's two files belong together; the model before can be put back.
* Trade reconstruction: a round trip is emitted exactly when its position ends,
  its profit is the one its prices and fees come to, and the two reconstructions
  agree when they see the same orders.

## 2. The modules

| Module | Models | Builds on |
|---|---|---|
| `RiskGate` | the pre-trade checks as operators; every early return is a conjunct | |
| `Venue` | positions, fills and profit at the exchange, from the code's use of it | |
| `TradeCycle` | cycles, tool loop, executor, rows, and the other actors | `RiskGate`, `Venue` |
| `TpSlMonitor` | ticks of the monitor with its streaks, and the other actors | |
| `TradeLog` | abstract: what `fills` and `decisions` promise of the orders sent | |
| `AgentServer` | scheduler, both jobs, manual closes, pause, crash and restart; implements `TradeLog` | `TradeLog` (`INSTANCE`) |
| `RuntimeOverrides` | the POST handlers, the rows, the leverage on the exchange, the cycle's reads | |
| `LlmWire`, `Cost` | the two APIs' shapes of a conversation; the price table | |
| `CycleTranscript` | the conversation of a cycle, its decision and usage rows | `LlmWire`, `Cost` |
| `DriftCheck` | the verdict on live accuracy, in exact arithmetic | |
| `TreeAdvisor` | snapshot, backfill, prediction, buffers over time and restarts | `DriftCheck` |
| `Features` | which candles and readings each feature goes by | |
| `TreeTraining` | matrix, walk-forward folds, final fit | `Features` |
| `ModelRollout` | archive, saving, copying, loading of a model beside its training | `TreeTraining` |
| `TradeReconstruction` | the walk over the exchange's fills behind `GET /api/trades` | `Venue` |
| `TradeViews` | that walk beside `compute_trades` over the fills table | `TradeReconstruction` |
| `*_proofs` (eight) | theorems about the module they name; `TradeReconstruction_proofs` also has those of `TradeViews`, `ModelRollout_proofs` those of `TreeTraining` | the module, `TLAPS` |
| `MC_*` | constants of the instances TLC checks | the module |

### TradeCycle

`pc` walks through `run_one_cycle`: `snapshot`, `account`, `config`, `model`,
`tools`, `log_fill`, `decide`, `usage`, `idle`. Each remote call and each
transaction is a step, so that prices, fills of resting orders, a close by the
monitor or the dashboard, a pause, midnight or a crash can fall between any two
of them. `mids`, `account` and `starting` are the values the cycle read;
`mark`, `pos`, `cash` and `resting` are what is true at the exchange meanwhile.

| Action | Code |
|---|---|
| `StartCycle` | the pause check and the new cycle id of `run_one_cycle` |
| `GetSnapshot`, `GetState`, `Configure` | market snapshot; account state and `log_equity`; starting equity, risk configuration, provider |
| `TextOnly`, `ToolUse`, `TurnsUsedUp` | a response of the model with text only or with tool calls; the loop's bound |
| `Hold`, `UnknownTool`, `MarketOrder`, `LimitOrder`, `CancelAll`, `ClosePosition` | `Executor.apply` for one tool call, up to the exchange's answer |
| `LogFill` | `Storage.log_fill` after it |
| `EndTurn` | the hold-only shortcut and the stop reason |
| `LogDecision`, `LogTokenUsage` | the rows at the end |
| `Abort` | an exception that `_safe_cycle` swallows, or the process dying |
| `TogglePause`, `RollDay`, `MoveMark`, `CloseElsewhere`, `RestingOrder` | the other actors |

The language model is the environment: it may answer every request with any
sequence of calls from `Calls`. The exchange may fill any part of an order.
Sizes are lots, prices and notionals integers; `CoinSizeFromUsd` keeps the
rounding of the code, tie to even included, because a size that rounds to zero
is rejected. Slippage and the price rounding of `_round_price` are left out.
`sent` is a history of the orders that reached the exchange in this cycle, which
is what the properties compare with the rows.

### TpSlMonitor

`pc` walks through `check_and_close`: read both sides, read positions, then per
position take-profit and stop-loss. Profit is a level relative to entry notional
in units of the thresholds. `streak` is `monitor._streak` with 0 for a missing
key, since the code treats both alike. `run` and `carried` are history, counted
apart from the streak: `run` has the breaches that ticks without a gap have seen
on the position open now, `carried` those before the last gap. A gap is a tick
that did not check the side (`PausedTick`, a side switched off, a tick that
failed before it), or the end of the position (`Gone`). `TickRaises` is an exception that leaves
`check_and_close` (state read, fill or decision row), `CloseRaises` one that
`_check_one` handles, `Restart` loses the streaks. One `Fault` may also be a
close the venue did not fill, which the code does not look at.

### AgentServer and TradeLog

The composition: one exchange position under the cycle, the monitor and manual
closes, the jobs on a pool of `Workers` threads, and time in ticks of the
monitor's interval. `until`, `waiting` and `ran` are the scheduler: `Submit`
(`max_instances=1`, `coalesce`), `Start`, `Misfire` (a grace time of one second,
so a job that waits behind another is dropped), `Boot` with
`compute_next_run_time`. What the two jobs do is reduced to what the actors can
do to each other: `GetState` sees the position, `Order` and `Close` number the
orders they send, `LogFill` and `LogDecision` write the rows, `Raise` and
`CloseRaises` lose them, `Crash` ends everything. `TradeCycle` and `TpSlMonitor`
say which orders those are.

`TradeLog` is the abstract ledger: an actor has one order in flight, an order
gets at most one fill row and one decision, a decision covers its whole run, and
only the death of a run loses a row. `AgentServer` implements it with
`status <- StatusBar, pending <- own`; an order that is sent and in nobody's
hands any more is `lost`, one with a fill row and no decision `orphaned`.

### CycleTranscript, LlmWire, Cost

`CycleTranscript` is `run_cycle` once more, this time for what it says and not
for what it does: messages, the request on the wire, the actions of the decision
row, the token sums. `LlmWire` has the shapes: `Wire` is what
`AnthropicProvider` or `OpenRouterProvider` makes of the conversation (with the
cache marker, results as messages of their own, arguments that do not parse),
`Response` what they make of a reply. Texts are names; the contents of calls
and results are left out but for whether arguments could be read. `Cost` prices
tokens in integer units with the table of `cost.py`. What the API bills does not go
by that table: `Bill` prices each token by `ListPrice`, a constant, and each write
to the cache by the lifetime it has. A response may tell the lifetimes apart or
not, one like this and the next like that (`Reported`). `spent` is the bill of the
cycle that runs, `billed` that of the cycles with a usage row, and `doubt` what the
untold writes of those may differ by.
`OfType` and `Aggregate` are loops of the code and stay loops: recursive
functions over the index, which can be proved about.

### RuntimeOverrides

A client is a window of the dashboard, or another caller of the API, that waits
for its request before it sends the next. Requests of different clients overlap
at every transaction, those to one row included, and `Requests` gives the bodies
each may post, within what the pydantic classes admit (`Body`). A handler's
transactions are its steps, `FirstStep` is the validation of the body, `tmp` the
row read and not yet written back. `refused` marks assets whose last leverage
push failed, an outcome the code reports and does not repair. `Restart` re-runs
`_initialize_exchange`. `reader` is a cycle reading the model and then the
provider. A patch is the set of fields a body gives; numbers stand for values.

Nothing in the code keeps two requests apart, so some interleavings do lose an
update. The history says which, and the properties promise the rest: `intent` has
the fields as the latest writer of each asked for them, `since` those others
changed since a client sent its request, `vetted` whether nothing overtook the
last write of the limits between its check and its write, `beside` and `crossed`
whether another request of its kind ran beside one, `torn` whether the last switch
of models did, or was cut off by a restart. Each of them is about the last request
of its kind, so that a later one that runs alone has to repair what was left.

### TreeAdvisor and DriftCheck

Times are minutes. A price is named by the moment the market had it, so that a
property can say which price a row was scored with. `FetchCandles` gives the
last bars and the open one; `RealizedCandle` is `find_realized_close`;
`ReadPending`, `ScoreRow`, `BackfillDone` and `BackfillFails` are
`backfill_from_snapshot`, row by row; `Predict` keeps the two buffers, looks for
the open interest of a day ago and writes the row, stamped with the time of
writing. `Restart` empties the buffers. The snapshot is not taken at one moment:
`Tick` may fall between its two ends. Whether a price rose, and what the booster
predicts, are open. `DriftCheck` compares z-scores without root and quotient.

### Features, TreeTraining, ModelRollout

A feature is a window: how many candles it needs, how far back it reaches, of
which list. Two calls that read the same candles compute the same value, so the
value is left out; a feature that is NaN for want of candles reads none.
`TreeTraining` builds the matrix over a file of bars with gaps, walks the folds
of `_walk_forward_folds` by their times, and ends in the final fit. `ModelRollout`
adds the files: `ArchiveModel`, `ArchiveMeta` (two `shutil.move`), `OpenPickle`
to `DumpMeta` (`_save_model`), `RetrainDies` at any point, the `rsync` of
`deploy.sh` file by file with a broken connection, and `try_build_predictor` in
`Loaded`. A model is known by the training that made it. No script keeps a
deployment and a retraining apart. `torn` says whether the last deployment that
copied anything copied one file only, or did not find the same finished pair when
it came to the second; `servedTorn` is what it was when the server last loaded its
model. Trainings that overlap a deployment in any other way, and deployments
before the last, are not excused.

### TradeReconstruction and TradeViews

The loop of `trades_from_user_fills` is a fold over the fills of a coin, so its
state after n fills is what the handler answers when the window ends there. The
module lets it take one step per fill, beside the position of the exchange that
the fill changes: `walk` is the trade in progress, `trades` what was emitted,
`FillRow` the row the exchange reports. `Kind` derives the row's `dir` from the
position ("Open", "Close", or a flip). Average prices are left out: a trade
keeps the sums the code divides. A window of the handler is the last so many
days, so it may begin inside a position (`InitialSizes`). `start`, the size of
the position before the trade's first fill, is history and tells round trips
from trades whose opening was cut off. `TradeViews` adds `compute_trades`, which
walks the fills table instead and which only tests call. `order` is the order
being placed: it takes any number of fills (`SeenFill`), each a row of the exchange,
and then one row of the table with its total size and average price (`LogRow`). An
order that rested leaves no row that parses (`UnseenFill`).

## 3. The runs

| Run | Instance | What it shows |
|---|---|---|
| `records` | three assets, two turns of a call, two cycles, an abort or a crash between any two steps | fills and decision rows tell the truth about the orders that reached the exchange, rows of an earlier or dead cycle block nothing, every cycle ends |
| `orders` | two correlated assets, three calls in a turn, prices 10 and 15, one move of another actor | exposure stays within a known multiple of the caps, a drawdown in the snapshot leaves closes only, correlated assets are not stacked, a reduce-only limit order reduces |
| `monitor` | one position, two checks, a level on either side, one fault | a side fires on consecutive breaches where there is no gap, and never on fewer than required, an asset is closed once a tick and the close recorded, a loss that persists is closed |
| `overrides` | two windows, any form in either, three requests, one restart, a cycle reading | a request undoes only what changed beside it, the total cap covers the cap of an asset unless a check was overtaken, a cycle pairs model and provider, the exchange follows the stored leverage |
| `trades` | five fills of one or two lots at two prices, a window that begins flat, long or short | a round trip is emitted by the fill that ends its position, with its profit and fees; both reconstructions agree on orders both see, however many fills they take |
| `system` | one worker, a cycle every third tick, runs of up to one tick, two orders, one crash | one job's snapshot is its own, the stop-loss runs in time, cycles keep their distance over restarts, a pause takes effect, the tables implement `TradeLog` |
| `tree` | bars of 15 minutes, steps of 5, 35 minutes, three predictions, restarts | a row is scored once, after its horizon, near its target; none falls between two candles; steady cycles have a reading of a day ago; the verdict is monotone |
| `transcript` | two cycles of up to two turns, a model of each provider and one without rates, responses that split their cache writes and responses that do not | every call has its result, requests extend each other, the decision row tells every call, what is billed is booked short of the doubt about the lifetimes |
| `training` | 14 bars after a warm-up of 200, one outage anywhere, a complete or a cut hourly file, two trainings, two deployments | test rows are unseen and tested once, rows of one matrix are comparable, the server loads a pair that belongs together unless the last deployment was torn, the model before can be put back |

An operator whose comment begins with `Mutant:` stands just before the definition
it would replace and changes it the way a slip in that code would. With it in
place the property named in `PROJECT.json` fails under the same configuration;
there is one for every property of the runs above.

### Disagreements

Three runs end in a counterexample, because the code does not do what one of its
comments or documents says.

| Run | The code | What is said of it |
|---|---|---|
| `mark_increase` | `risk.py:64` prices the new notional at the entry and compares it with the notional at the mark, so an order that adds to a position in profit counts as a reduction and skips the cap | `risk.py:69`: the cap is "only enforced on increases" |
| `reduce_only_market` | `executor.py:194` skips the correlation block for a reduce-only order and then calls `market_open` without the flag, so the order may open, enlarge or turn a position | `tools.py:25`: "the order can only reduce an existing position" |
| `train_serve` | a snapshot has 12 candles of 15 minutes (`config.yaml:16`); 18 of the 27 candle features need 15 to 97 of them and are NaN in every live prediction | `scripts/train_tree.py:46`: training and inference "compute features identically"; the repository's `README.md:628` names two NaN features, for a day after a restart |

`OvershootBound` and `FirstOrderMarkExposure` are the bounds that hold in spite
of the first one.

Other places where code and words part, or where the code surprises, that have no
run of their own:

* `monitor.py:38` says a streak counts consecutive ticks and is cleared when its
  position vanishes. It is cleared by a tick that misses the position and left
  alone by one that does not check the side, so a position that is closed and
  reopened between two ticks inherits the streak of the one before, and so does one
  over a pause or a side switched off and on: it may be closed on its first breach.
  `FireNeedsConsecutiveBreaches` holds the code to the comment where there is no
  such gap, and says what remains over one.
* `tree_outcomes.py:99` takes the candle nearest to the target, which may be the
  one still forming; its price is then that of the snapshot, within tolerance.
* `runtime.py:129` promises that model and provider never disagree. They are two
  rows, read and written apart, and two switches at the same time may write one
  each; `MatchedPairWhenSettled` says what remains of it.
* `runtime.py:194` and `server.py:628` read a row, merge and write it back in
  two transactions. Of two requests at the same time the later write undoes what the
  other changed (`server.py:62`: "Only the ones provided are applied").
  `PatchesStick` says that no other field is ever undone.
* `server.py:618` checks the limits on a read of its own. Two requests, one raising
  the cap of an asset and one lowering the total, pass it both and together break
  it; `TotalCapCoversAssetCap` says when.
* Two leverage requests may push in the opposite order of their writes
  (`server.py:600`); the exchange then differs from the row until the next request
  or restart. `ExchangeHasStoredLeverage` excepts them.
* `scripts/deploy.sh:58` copies two files with nothing to keep a retraining from
  exchanging one between them; the server then pairs the model of one training with
  the metadata of another, until a clean deployment. `ServedPairMatches` excepts it.
* `trades.py:279` calls a flip "an implicit close of the open trade plus a new
  open". It only closes (`trades.py:398` says so): what the flip opens begins no
  trade, and is an orphan close or part of a later trade when it ends.
* `agent.py:355` adds an inferred hold to a decision whose last reply is text,
  also when earlier replies of the cycle traded.
* `scripts/retrain_tree.py:6` offers a rollback by moving back one file. The
  model is two files, and the metadata in place stays that of the new one.
  `scripts/train_tree.py` exits with 1 on a missed gate after it has saved.
* `scripts/train_tree.py:138` names opening times where the matrix stamps closes;
  the features of the time of day use the close in training and the time of the
  snapshot in a live prediction.
* `main.py` run from a terminal builds a `BlockingScheduler` with the default
  pool of ten threads. `SnapshotHeldAlone` needs the one worker of `server.py`.
* `executor.py:285` cancels the orders of the snapshot, not those open now.
* `main.py:125` books all cache writes of a cycle at the five-minute rate if no
  response told their lifetimes apart, although `llm_provider.py:136` and `:145`
  ask for an hour. If one response did and another did not, the writes of the other
  are booked nowhere. `SpendIsBooked` bounds what is missing.
* `cost.py:88` prices a model it does not know as Sonnet, "conservative rather than
  zero". It is conservative for models that cost less (`PricesAssumption`), and
  nothing in the code makes sure of that.
* `trades.py:138` counts rows and the walk over the exchange's fills counts fills,
  so the two views of a trade report different numbers of fills for an order that
  took several.
* `scripts/drift_check.py:92` answers OK when neither the backtest nor the live
  accuracy varies, for "synthetic data". With a backtest without variance it also
  hides that no prediction came true: `MoreHitsNeverWorse` leaves that branch out.
* `storage.py:443` counts predictions of every model version in its window, so a
  verdict after a retraining judges the old model too.
* `scripts/pull_binance_candles.py:114` keeps what it pulled when a pull breaks
  off; the hourly file may then end before the 15-minute one. The training run
  includes such a file.

### The bounds, and why they are enough

Each bound is a constant in a `.cfg` and a guard in the module. The hard cases
need few objects: two correlated assets for the block and a third it ignores; a
price that rises once for the two valuations; a second cycle to be disturbed by
the rows of a first; one fault in each place where one may happen; two windows
that write one row, a third request to repair it, and a restart between two
writes; an order of two fills, a fill that opens, one that adds, one that flips and
one that closes; a bar entered at each of its phases;
an outage of each length at each place. The theorems of section 4 do without the
bounds: they hold for every value of the constants.

Assumptions about the environment that a run makes:

* In `TradeCycle` a limit price is positive. The code raises for others, which
  `Abort` covers.
* In `CycleTranscript` an API answers with blocks of text and calls, whose
  arguments are an object, other JSON or no JSON (`RepliesAssumption`). A write to the
  cache for an hour costs no less than one for five minutes, and no model costs more
  than the rates `cost.py` has, or falls back to, for it (`PricesAssumption`).
* In `TreeAdvisor` the buffer of readings reaches back no farther than the lag and
  the tolerance together (25 hours against 24 hours and 90 minutes, `tree_model.py:43`);
  the two ends of a snapshot are at most `Step` apart, and `Step`
  is no longer than the tolerance of a match.
* In `ModelRollout` a training finds its folds before a deployment starts. The two
  still interleave over every move, write and copy of a file.
* In `system` a run of a job takes at most a tick and the cadence is two ticks
  longer. `MonitorRunsInTime` depends on it; `PauseTakesEffect` and
  `CyclesAreSpaced` are stated with the time of a job.

`CHECK_DEADLOCK FALSE` stands where the bounds or the end of the input stop a
model; `monitor` and `system` go on for ever and are checked for deadlock.

### Fairness

`TradeCycle!FairSpec` has weak fairness of `CycleStep`: the worker thread runs a
job it has started to its end, and the calls to the exchange and the provider
return or raise. Nothing is assumed of the scheduler, of an abort or of the
other actors. `CycleEnds` then rests on the turn limit alone.

`TpSlMonitor!FairSpec` has weak fairness of `Tick`: APScheduler fires the job
again and again and it runs to its end. `PersistentLossIsClosed` speaks of a
stop-loss that stays breached, enabled and not paused; `MaxFaults` limits how
often a close or a row may fail, since a venue that refuses every close leaves
nothing to promise.

## 4. What is proved

`tlapm` checks every proof below for all values of the constants that satisfy the
assumptions named in the module (`CallsAssumption`, `ServerAssumption`, ...). They
type the constants and state what the code's validation enforces.
`PROJECT.json` lists the theorems.

**`TradeCycle_proofs`.** Every invariant of the runs `records` and `orders`, and
the reduce-only property. The core is `RowsFollowOrders`: the table ends with the
rows of this cycle's orders in the order they were sent, short of the one being
logged, and no row before them is of this cycle. `StepKinds` then reduces each
step to one of five effects on that log. `NoStack` and `SameCycleBlocks` read
the correlation block off the rows, `KillSwitch` follows because a cycle keeps one
snapshot, `DecisionVouches` because `calls` and `actions` count together
(`LocalTypes`). `CapsOvershoot` is an induction on the number of orders that the
steps themselves make (`Overshoot`): each order was accepted against the same
snapshot, so n of them differ from it by n caps and n - 1 times the position
(`Triangle`). `FirstOrderExposure` compares the two valuations of the position by
the same inequality. Equity and exposure are sums over a set of assets in no
particular order; that such a sum is an integer, and that an order more adds its
notional, is proved from the definition of the fold by looking at a smallest
counterexample (`SumsExist`, `SumsAgree`, `SumType`, `SumAdd`), since induction
schemes cannot be cited. `MarketTypes` carries what the venue may do.

**`TpSlMonitor_proofs`.** `StreakWithinRun`: a streak is at most the breaches of
the position open now and those carried over gaps together, whatever pauses,
toggles, reopenings and restarts come between, and never counts one older than a
check that did not breach. It gives `FiresOnlyOnConsecutiveBreaches`. `VisitedOnce` gives `ClosesOncePerTick`.

**`TradeReconstruction_proofs`.** `BooksBalance`: the profit a trade has booked so
far is what its sums come to less the cost of what is still open. With
`FlatHasNoBasis` it yields `RoundTrips` for any fill sizes, prices and flips;
`EmittedAtTheEnd` and `WalkFollows` come from the same invariant. `ViewsAgree`
puts `compute_trades` beside it. Its invariant `InStep` says, while every order has
its row and none flips, what the order under way has added to one walk and not yet
to the other: between two orders they hold the same sums and have emitted the same
trades, and a trade is in progress exactly while a position is open; in the middle
of one the walk over fills is ahead by the size and value of the order, and may
have ended a trade the table has not. That part is needed because the two loops
notice the end of a trade by different tests. A window that begins inside a
position is out of step from the start.

**`AgentServer_proofs`.** `ImplementsTradeLog` is the refinement: `LedgerInv` says
that the orders a run holds were sent, are its own and are in no decision yet;
with it every step of the server is a step of `TradeLog` or a stutter, for any
number of workers, orders and crashes. `SnapshotHeld` needs `Workers = 1`.
`PauseHolds` and `Spaced` follow from invariants that compare the clocks of
pauses, runs and decisions (`PauseInv`, `SpacedInv`). `RunsInTime` needs one
worker and `JobTime + 2 <= Cadence`: `TimelyInv` follows the age of the monitor's
last run through its own run, a cycle that takes the worker before it, and the
tick after, in which no cycle can be due. The hypothesis is tight, and the run
`system` sits on it: with a cadence one interval longer than a cycle's run, cycle
and monitor come due together each time, the cycle takes the worker, and the
stop-loss is dropped again and again.

**`RuntimeOverrides_proofs`.** For any number of clients that post any bodies at the
same time. Two invariants are about overlaps: `Beside` says that two requests of one
kind in flight know of each other (`OverlapsSeen`), `FreshInv` that the row a request
is about to write back is the row as it is, but for fields others changed since the
request was sent (`RowsFresh`). On them rests one invariant per kind of request:
`SwitchInv` for the two rows of a model, `RiskInv` for the check that is made on an
earlier read (with `MergeTwice`, patches over patches), `LeverInv` for the assets
still to be pushed, `StickInv` for the fields and who asked for them last.

**`TreeAdvisor_proofs`.** `AdvisorInv` relates the clock of a cycle to the candles
it fetched and to the rows it still owes. `SomeIsNear` is the argument of half a
bar: of two closes a bar apart one is within half a bar of any target between.
`SteadyHasReading` rests on `Readings`: the buffer holds exactly the predictions
of the last `OiBuffer`. The reading for a day ago is then found by an argument
over the latest prediction that is old enough. It needs the assumption that the
buffer reaches back no farther than lag and tolerance; with a longer one
that prediction may still be in the buffer and yet too old to count. `MoreHitsHelp` proves that the
verdict is monotone in the hits for every sample size and every backtest: the
comparison of squares that stands for the z-score is carried through by hand
(`VerdictFollowsHits`). The attempt to prove it without its condition failed for a
good reason, the branch without variance that section 3 mentions.

**`ModelRollout_proofs`.** `FoldsAreWindows` gives each fold
its window, and `ValidationSeparates` puts enough rows between training and
testing for the labels, from `LabelHorizon <= MinVal + 1`. `RowsAlike` assumes a
warm-up of 108 bars and 21 hours, the longest windows of the features. For the
files, `Place` says what stands in the repository at each step of a retraining.
`ServedPair` rests on what a deployment leaves: unless `torn` is set the droplet has
one finished pair, and between the two copies, where it is set, `Halfway` says that
the file already there is the one `found` at the first copy. That is what a second
copy needs to clear it. `RolloutTrains` shows that the
composition implements `TreeTraining`, so its theorems hold there.

**`CycleTranscript_proofs`.** Three invariants over one typed loop, for any
replies, tokens billed, turns and cycles.

`WireInv` is behind `CallsAnswered` and `CacheHolds`. `Sent` says that the last
request is a prefix of what the conversation would be on the wire now, which
translating message by message preserves (`WireGrows`). `Answering` says that
what is kept is always fit to be sent, short of the results of the last reply:
the results so far followed by the calls to do are that reply's calls, in their
order. It has to speak of the conversation on the wire, in both shapes, because
the property does (`RepliesAnswered`, `AnsweredGrows`).

`Telling` is behind `DecisionTells`: the names of the actions followed by those of
the calls to do are the names of all calls in the conversation, and no action is
inferred until the loop ends. That `TurnsUsedUp` comes after a reply with calls is
part of it, since it needs `MaxTurns` to be at least one.

`Booking` is behind `SpendBooked`. Besides the balance itself it bounds the bill of
the running cycle by its sums, at every step (`SpentWithin`, kept by `WithinAdds`):
from above if every untold write lived for an hour, from below if none did. Booking
a row then turns the bounds into its cost and the doubt (`RowFollowsBill`), with
`CheaperList` for models whose price is below the table's.

The properties compare what loops over sequences compute. Induction schemes cannot
be cited, so `NatSet` and `SeqSet` state induction for sets of numbers and of
sequences, `RunExists` and `RunsAgree` that a recursion over an index has one
result, and `FlattenAppend`, `OfTypeAppend` and `AggregateAppend` what one element
more adds; nothing after them looks inside a loop.

## 5. What is only model-checked

* `CycleEnds` and `PersistentLossIsClosed`: liveness is out of the prover's reach.
  The fairness they need is in section 3; the safety half of a cycle's end, that a
  turn never exceeds `MAX_TURNS`, is in the invariants.
* The three disagreements: a counterexample needs no proof.

Every other property of the runs is stated by a theorem.

## 6. What is not modelled

* Context rendering, the prompt, tool schemas, settings, version, GET handlers and
  the dashboard: text and views that change no state of the program. The
  dashboard appears as the requests it sends.
* Tuning, downloading and reporting scripts: run by hand over files, without state
  shared with the agent but the files `ModelRollout` has.
* Values. Amounts are exact integers where the code has floats, a feature is what
  it reads, a booster's probability and the model's replies are open. Rounding
  errors of floats, the encodings of time and what a booster learns are left out.
* `dry_run`, the `clear_*` setters (nothing calls them), the terminal entry point
  of `main.py`, `cycle_errors`, and the read queries behind the dashboard.
* HTTP: a remote call returns or raises.

What a next step would take on: several positions in `AgentServer`, and the terminal scheduler as a second instance
of `AgentServer`.
