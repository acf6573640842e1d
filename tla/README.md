# QuasarTrend in TLA+

Specifications of QuasarTrend's decision, replay, execution and polling core, of
its indicators and backtest, and of the research pipeline that judges it; TLC
configurations that check them on small instances, and TLAPS proofs of the
results that hold for every instance. Everything is translated from the Python
sources; `PROJECT.json` names, for every definition, the lines it stands for.

    tlc -config MCStrategy.cfg MCStrategy        # model checking
    tlapm ReplayProofs.tla                       # proofs

## The system

A candle travels through the system in one direction; every component keeps its
own immutable state and hands the next one a new value.

    market data --> LiveRuntime --> ReplayEngine --> StrategyEngine
                        |               |                  |
                        |          4h bias retained    events
                        v                                  v
                 SQLiteCheckpointStore         PaperExecutionEngine (ledger)
                 or SQLiteExecutionStore  <--  PaperExecutionAdapter (book)

| component | state | operations | interaction | hard behaviour |
|---|---|---|---|---|
| strategy (`strategy/`) | bias epoch, armed setup, open trade, last inputs | `step` | called by replay for every 15m candle | sequences of bias reversals, flips, stops and unready bars |
| replay (`replay/`) | indicator checkpoints, retained 4h bias, chronology cursor, strategy state | `step`, `run` | calls the indicators and the strategy | order of the two timeframes, stale or future bias |
| indicators (`indicators/`) | recursive EMA / RMA / HEMA / Kalman / Supertrend state | `update`, checkpoint / restore | called by replay | warm-up, crossings with equal values, floating point |
| execution engine, paper adapter (`execution/engine.py`, `paper.py`) | orders, fills, position, twice and under different rules | `process_trace`, `register_intent`, adapter events | composed by the execution store | late, repeated and reordered events |
| execution store (`execution/sqlite.py`) | one row: replay state, ledger, adapter book | `save_transition`, `apply_adapter_event`, `load_checkpoint`, `reconcile` | called by the runtime, or by a separate process after a restart | crash and lost reply around COMMIT, several processes, blocked progress |
| runtime (`runtime/`) | `_loaded`, `_state`, `_bootstrap_pending` | `poll_once`, `polling_loop` | fetches both feeds, steps, saves, then remembers | partial failure in the middle of a poll, clock, window arithmetic |
| checkpoint store (`persistence/`) | one row per slot: fingerprint, cursor, state | save, load, delete | called by the runtime when there is no paper execution | regressing cursor, delete between check and act |
| market data (`marketdata/`) | none | `fetch_bars` | called by the runtime page by page | holes, duplicates, retries |
| backtest (`backtest/`) | open accounting trade, realised equity | `run_traces` | consumes a finished replay | pairing of opens and closes, a replay that was resumed |
| research core (`research/dataset.py`, `adr.py`, `splits.py`, `metrics.py`, `pipeline.py`, `experiments.py`, `candidates.py`) | none that survives a call; artifacts handed from stage to stage | build the dataset, report a window, register, validate, open the last window | reads the traces and the backtest | look-ahead, trades across window boundaries, order of stages, artifacts of another export |
| exits and regimes (`research/exit_*.py`, `regime_*.py`, `edge_attribution.py`, `failure_modes.py`) | none | replay a trade with other exits, divide populations by features, attribute results | read the dataset | order of prices within a bar, several definitions of one population |
| cross-market studies (`research/market_transfer.py`, `xau_*.py`, `xm_gold_*.py`), `tools/` | none | ledgers of their own drawn from the traces, protocol locks, renderings | read recorded bars and frozen files | ledgers that disagree with the dataset |

What makes each correct: the strategy never reuses a flip, never holds against
what closes a trade and always honours a stop; the replay never looks ahead and
never revises a decision; the two books never diverge and recovery is exact; the
runtime takes every candle once, in order, closed, and durable before visible;
an indicator that is restored from its checkpoint on every bar computes what an
uninterrupted one does; the accounting holds the strategy's trade and its report
reconciles; a research row knows nothing of its future, a window that is over
says the same for ever, everything derived from one history tells the same
history, and the last window opens only to what validation supports.

## Modules

| module | models | state and actions |
|---|---|---|
| `Strategy` | `StrategyEngine.step` | the fields of `StrategyState`; one action per branch of `step` (`CloseTrade`, `HoldTrade`, `ConfirmPending`, `WaitPending`, `EnterOnFlip`, `ArmOnFlip`, `StayFlat`) and the two early exits (`Duplicate`, `OutOfOrder`). `Observe` is what every branch assigns alike. `mark` and `lastExit` are history. |
| `TradeLifecycle` | abstract | one slot that is empty, armed or open; what a reader of the events may rely on |
| `Replay` | `ReplayEngine.step`, HEMA relation and crossings, on top of `Strategy` | `HtfStep` updates the retained bias, `LtfStep` builds the bar and takes a strategy step with it |
| `Indicators` | `HemaTrend`, `KalmanStep`, the averages they are built on, their checkpoints and the codec's checks of those | one action is one candle: restore both checkpoints, update, dump |
| `Backtest` | `BacktestEngine.run_traces`, `calculate_metrics` | the engine's locals as a fold beside `Replay`, one trace per step; `ResumedReplay` begins the traces in the middle |
| `Execution` | engine, adapter, execution store and the runtimes that call it | `db` is the row (replay state, ledger, adapter), `mem` each runtime's memory; `Load`, `Save`, `SaveUnreported`, `SaveAgain`, `ApplyAdapterEvent`, `Crash` |
| `PaperTrading` | abstract | one order at a time, blocked candles, halt after a rejection |
| `Runtime` | `LiveRuntime.poll_once` over either store | `poll.pc` is the place in `poll_once`; `Begin`, `Fetch`, `TooFarBehind`, `FetchFails`, `Save`, `SaveFails`, `SaveUnreported`, `SaveRefused`, `Return`, `Crash`, and the clock |
| `FetchRange` | `_fetch_complete_range`, `_fetch_with_retry`, `_validate_page`, `BinanceUSDMClient.fetch_bars` | `pageStart`, `attempt` and `collected` are the loop's locals; an answer is any sequence of rows (`TakePage`, `RejectPage`) or an error (`Denied`, `Retry`, `GiveUp`) |
| `CheckpointStore` | `SQLiteCheckpointStore` in several processes | `file`, `row` and `writer` are the database; `pc` and `call` the calls; one action per statement that another process can fall between |
| `Slot` | abstract | one row, read, replaced and deleted atomically |
| `ExitCounterfactual` | `simulate_counterfactual` | one action is one bar after the entry; its alternatives are the branches of the loop in the code's order (stop, canonical exit, target); `remaining` is what is left of the position |
| `ExitStudy` | `exit_efficiency.py`, `exit_experiments.py` | what both studies read off one finished trade, as operators |
| `ResearchDataset` | `build_research_dataset`, `adr.py` | the setup and trade rows of a tape of bars with events; `Recorded` is one event of the first pass |
| `ResearchEvidence` | splits, metrics, development report, candidate stages | populations of a window; `Register`, `Validation`, `Finalist`, `Rejection`, `FinalOos` return an artifact or `Refused` |
| `ResearchReports` | row checks of `metrics.py`, `failure_modes.py`, window and baseline reports | the sets those reports count |
| `ResearchRegimes` | regime features, diagnosis, candidates, the exit study's population | features of a setup's bar; buckets by quartile; what a candidate keeps |
| `ResearchLedgers` | the ledgers of `market_transfer.py`, `xau_robustness.py`, `xm_gold_historical_validation.py`; path risk | `LedgerEvent` is one event of their loops |
| `ResearchAttribution` | `edge_attribution.py` | bucket tables, cross tables by period, reconciliation with the windows |
| `Research` | the pipeline over a growing history | one action is one more 15m bar with the events the strategy can emit on it; `data` is the dataset built anew |
| `MCStrategy`, `MCReplay`, `MCExecution`, `MCRuntime`, `MCFetchRange`, `MCCheckpointStore`, `MCIndicators`, `MCExitCounterfactual`, `MCResearch` | | values of the constants for TLC |
| `ReplayProofs`, `ExecutionProofs`, `RuntimeProofs`, `FetchRangeProofs`, `CheckpointStoreProofs`, `ExitProofs`, `IndicatorsProofs`, `ResearchProofs` | | theorems and proofs; `ReplayProofs` holds those of `Strategy`, `Replay` and `Backtest`, `ExitProofs` those of `ExitCounterfactual` and `ExitStudy`, `ResearchProofs` those of all research modules |

`Replay` EXTENDS `Strategy` and its strategy step is `Strategy!Step`, so what is
proved of the strategy carries over. `Execution` takes from the strategy only
that it acts at most once per candle, which is `Strategy!NoSameBarReversal`;
`Runtime` represents a replay state by the sequence of candles that produced it,
because `ReplayEngine.step` is a function. `Indicators!FeedsReplay` states what
`Replay` assumes of the indicators, and `Persistable` why it may keep them as
checkpoints. `Backtest` EXTENDS `Replay` and takes a step with every trace of it.
`Research` EXTENDS all research modules: each report is a function of the
dataset, so the properties compare functions of one state, or of the states
before and after a bar, and the artifacts that may be presented to a stage.

### Abstractions

* Prices are integers, and ATR times its multiplier is the integer
  `b.distance`; 0 stands for an ATR that is missing, infinite or not positive.
  A binary ATR so small that `close - distance` rounds to `close` is therefore
  not covered (`OpenTrade` would raise).
* `kalman_transition` and the `previous_*` fields only label diagnostics and are
  left out. HEMA's flip equals its direction on its bar, so it is a flag.
* The answer `HEMA_FLIP_BEFORE_BIAS_EPOCH` is modelled and shown by
  `FlipAnswered` to be unreachable: an epoch is activated by the bar that
  changes the bias, which is never later than the flip.
* In `Execution` a candle is named by its position, and price, quantity, fee and
  the SHA-256 identifiers are functions of that name. Two processes are enough
  to share a database; the row is read and written in one transaction because
  both writers use `BEGIN IMMEDIATE`.
* Every candle's high and low enclose its open and close (`LegalBar`).
  `StrategyBar` and `HistoricalBar` only ask that high is not below low
  (`strategy/models.py:151`, `replay/models.py:53`); the envelope is checked by
  those who supply candles (`runtime/engine.py:297`, `marketdata/binance.py:181`,
  `research/source.py:34`). A strategy fed otherwise, as a test does
  (`tests/test_strategy_engine.py:222`), is not covered.
* In `Runtime` an interruption of a process that is no `Exception` ends it
  (`Crash`); going on with the same object after a `KeyboardInterrupt` is left out.
* In `Runtime` a fetch is all or nothing: `_fetch_complete_range` returns the
  whole range or raises (`FetchRange!ExactRange`), and the poll has processed
  nothing by then.
* In `FetchRange` a row is its open time. A row whose fields are malformed, an
  envelope that does not hold or a wrong close time ends the fetch as a row out
  of order does, and is not told apart from it. Time is left out: the delays
  between attempts, `Retry-After` among them, are not modelled.
* In `Indicators` numbers are fixed point, a price of 1 being `Scale`, and a
  division rounds down where the code rounds to a float; no property depends on
  which. Volume and the drawing fields of a result are left out.
* In `Backtest` money is an integer in 1/`Unit`^2; symbols, identifiers and the
  averages and ratios of the metrics are left out.
* In `ExitCounterfactual` the bars are chosen one by one and the canonical trade
  ends when the environment says so; a position is two halves, a target is
  counted in half R.
* In the research modules time is counted in 15m bars, a UTC date has `DayBars`
  of them, and an export is the tape of its bars. The strategy is reduced to its
  slot, since `Strategy` shows which events follow each other. Its HEMA lines
  cross, touch and separate to either side, and its Kalman direction turns on any
  bar. A touch while a trade is open brings a flip to the trade's own side that
  the strategy answers with no event (`FlipHeld`): `dataset.py:143` leaves its
  setup rejected without a reason, and `RowsAgree` says that no other setup is
  without one. A bar on which a direction is missing acts on the slot as a touch
  or a rejected flip does; the Kalman direction itself is always there. A bar has
  a range (`QuotesAssumption`), so that no ADR is zero; the build would raise
  ZeroDivisionError on one (`DividesByZero`, `dataset.py:140` and `177`), if all
  prior dates had traded at a single price. A mean is its sum
  and count, ratios are compared by cross products, and every trade risks the
  same, so that R is a result over `Risk`. Identifiers made by hashing are
  replaced by what they identify; the fingerprint of a dataset is the length of
  its tape, which tells the exports of a growing history apart.
* In `CheckpointStore` a row is its configuration fingerprint and cursor, with 0
  for the cursor of a state that has seen no candle. The file is written by this
  code alone: foreign schemas and damaged payloads are left out. A reader that
  meets a lock which is not released in time is one of the errors of `SQLError`,
  which `load_checkpoint` reports as corruption.

## Runs

| run | instance | shows |
|---|---|---|
| `strategy` | 4 timestamps, bars with every bias, HEMA, flip, Kalman and readiness, quotes that miss, touch and gap over a stop; EXIT on reversal | `PendingSound`, `NoTradeAgainstBias`, `FreshSetup`, `StopHonoured`, `ExitPriceTraded`, and of steps `NoSameBarReversal`, `FlipAnswered`; `Strategy` implements `TradeLifecycle` |
| `replay` | 5 instants, two 15m candles per 4h candle, 4 HEMA relations per feed, bars with and without a traded range; every trace also goes through the backtest, which may begin with the traces of a resumed replay | `HeldWithHema` (touching lines lose no exit), `NoLookAhead`, `AccountFollows`, `ReportReconciles` |
| `indicators` | every path of up to 8 candles of 4 shapes (flat, wide, jumping, falling), lengths 2 and 4, ATR period 3 | `Persistable`, `TrendSide`, and of steps `FeedsReplay`, `Ratchets` |
| `execution` | 3 candles, 2 runtimes, 4 policies, every feed, 2 faults | `BooksAgree`, `Explained`, `Decodable`, `RecoveryExact`, `NoStandoff`, `HistoryFinal`, liveness `CatchesUp`; implements `PaperTrading` |
| `runtime` | clock to 6, 4h candles of two 15m candles, both stores, 2 faults; suffixes and ceiling of 2 with all kinds of faults, or suffixes 3 and 1 and a ceiling above the horizon with all that report themselves | `NoGaps`, `BiasComplete`, `MemoryDurable`, `ClosedOnly`, liveness `CatchesUp` |
| `fetch_range` | page size 2, 3 attempts, ceiling 5, open times to 6, every answer of up to 3 rows, rows outside the page included | `ExactRange`, `RequestsBounded` |
| `checkpoint` | 2 processes, 2 configurations, cursors 0 to 2, missing or empty file | `Slot` is implemented |
| `exits` | the 12 exit rules, both sides, paths of up to 3 bars of 12 shapes and their mirror images (24 quotes) | `PositionCloses`, `FillsAttainable`, `DiffersOnlyByTrigger` |
| `research` | 9 bars, dates of two bars, 3 flips on bars 1, 3, 4 and 7, one detour | `PipelineConsistent`, `StudiesAgree`, and of steps `RowsFinal`, `EvidenceFrozen`, `UnlockedByValidation` |
| `runtime_delivery` | one failed save | a divergence, below |
| `runtime_suffix` | one failed save | a divergence, below |
| `checkpoint_delete` | as `checkpoint` | a defect, below |

The settings of `runtime` are a variable that never changes (`setting`), so that
one run covers them all; `CatchesUp` speaks of the lenient ones only. A run
does not repeat a type invariant that a theorem proves.

`PipelineConsistent` is the conjunction of `RowsAgree` (setups, trades and the slot,
the row checks of `metrics.py` and `_validate_build`), `WindowsAgree` (the four
selections of a window's trades, its parts and its buckets),
`RegistrationPasses` (the development report and what the registration counts again),
`ReportsAddUp` (failure modes, window and baseline reports), `PopulationsAgree` (the
population and boundary audit of the diagnosis against the baseline report, the
candidates' parts against the window, replayable trades against the flags of their
rows) and `AttributionReconciles` (bucket tables, cross tables, windows).
`StudiesAgree` is the conjunction of `DiagnosisPasses` (the diagnosis' own validation
of its quartile buckets) and `LedgersAgree` (the ledgers of the other studies
against the dataset, and what `path_risk` claims of a drawdown).

**Bounds.** Four bars are enough for arm, cancel by reversal, re-arm and open, or
open, exit, flip and open again; a trade and the setup before it only ever refer
to one earlier flip and one earlier exit. In `replay` five instants hold two 4h
boundaries behind the first candle, so a bias can be taken, replaced and compared with a stale one.
Three candles hold an entry, its exit and a decision that depends on both; with
two faults each runtime can lose a reply and crash, or one can do both. The
clock of `runtime` passes up to three 4h boundaries, and the
ceiling of 2 is as tight as `RuntimeConfig` allows, so that a poll can be refused
as well. `now` starts anywhere, so a bootstrap happens before, on and after the
first boundary. Ranges of up to 6 candles take up to 4 pages of 2, begin on
either place of a page and end with a page that holds the open candle alone or
after a final one; 3 rows are one more than a page. For `checkpoint`, two
processes suffice to change a row between another's two statements, and two
configurations and three cursors let a save be refused for either reason.
Eight candles complete the longest warm-up (5 bars) and leave four in which the
trend turns both ways and a band ratchets. Three bars after an entry hold a
trigger, a later bar on which the moved stop or the rest of a partial matters,
and the canonical exit on either of them or in between; quotes reach, touch or
gap over the entry, the stop and every target. In `research` date 0 is history,
date 1 the development window, dates 2 and 3 validation in two parts, date 4 the
last window, and the last bar of a date decides on the next one, so that setups,
entries and exits fall on either side of the boundaries between the windows;
`FlipBars` are the last bars of three dates, which decide on the next window, and
one inside the validation window; every run of events that needs more flips, or
flips elsewhere, is left to the proofs;
one prior date is enough for an ADR that is missing, incomplete or there. Three flips make up to three trades,
one or two of them in the window before and one in the window judged; the detour
is a missing bar, a touch of the HEMA lines, a Kalman turn that no arming or entry
brings, a rejected or armed setup, or a flip that closes a trade. HEMA begins
below (`FirstHema`) and Kalman bullish, and quiet bars have one quote
(`QuietQuotes`); the theorems hold for any.
Extensions lie in all four buckets, with 0.25, 0.50 and 1.00 hit exactly.

**Deadlock** is not checked in `strategy`, `replay` and `execution`, whose
candles end, in `indicators`, `exits` and `research`, whose bars end, nor in
`fetch_range`, as a fetch ends. `runtime` and `checkpoint` check it: polling and
calling never end.

**Fairness.** `Execution!Fairness`: every process keeps polling (`polling_loop`
calls `poll_once` again after every result, and a caller restarts it after an
error), and the simulated venue eventually accepts and fills what it was asked;
nothing forces a crash, a lost reply or a rejection. `CatchesUp` there allows an
order to be rejected, as a rejection blocks for good by design. Fairness is
stated per action: weak fairness of the whole next-state relation would be
satisfied by one process alone. `Runtime!Fairness` says that a poll that is not
made to fail goes on and that another one follows; faults are bounded, which
stands for "faults stop eventually". The clock need not advance.

**What `CatchesUp` of the runtime needs.** Two situations outside
`Lenient` break it, and both are reported as hazards, not hidden:
the ceiling may be as small as the bootstrap counts (`runtime/models.py:35`), and
then a bootstrap cut short after its first 4h candle asks for more 15m candles
than the ceiling on every later poll; and a first bootstrap candle whose save
took effect but raised leaves memory in bootstrap mode, so that the combined
store refuses what later polls offer until the process is restarted.

## Divergences

* `runtime_delivery`: README.md:209 promises callers the processed bars, traces
  and events. When a save fails after earlier candles of the same poll became
  durable (`runtime/engine.py:143-155`), those candles' results were local to the
  poll that raised, and no later poll returns them. A consumer that only sees
  poll results never hears of a trade opened there.
* `runtime_suffix`: README.md:193 promises the exact configured suffix of each
  stream to a fresh runtime. When the bootstrap fails after its first durable
  candle, which is a 4h candle of a longer suffix, the next poll is a catch-up
  from that candle's cursor and takes 15m candles older than the suffix.
* `checkpoint_delete`: `delete_checkpoint` raises `ConfigMismatchError` for an
  identity that does not own the slot (tests/test_persistence.py:184-185), but it
  compares before `BEGIN IMMEDIATE` (`persistence/sqlite.py:161-169`). Two deletes
  of configuration A that overlap, with a save of B after the first one, remove
  B's row and report success. `Slot!Delete` is as weak as the code here; with the
  comparison in its guard the refinement would fail.

Some properties of the research run state where the studies part ways. No
document promises otherwise, so they are not listed as findings:

* A stopped loss with a missing bar between entry and exit has no excursion.
  `failure_modes.py` raises for it, and with it the whole attribution report;
  `market_transfer.py` leaves it out of its counts (`Unlabelled`).
* The attribution report reconciles a window only if it has a losing trade
  (`float(None)` otherwise) and no open trade that entered it from a setup
  outside (`StrayCensored`: the baseline report purges it, `_windows` counts it).
* What the diagnosis calls `purged_setup_boundary` is `purged_entry_exit` in the
  pipeline (`AuditOf` translates).
* A setup that still waits at the end of the history is eligible in the dataset,
  in `market_transfer.py` and in `xau_robustness.py`, and pending, not eligible,
  in `xm_gold_historical_validation.py` (`LedgersAgree`).
* A Kalman run no transition began is recorded as begun at time 0, so that its age
  is the time since the epoch (`KalmanRun`).
* The sub-windows of the exit study lose the trades that cross them, where those
  of the regime candidates follow the setup (`WholeIn`, `OriginPart`).
* A resumed replay with an open trade is refused by the backtest as soon as that
  trade closes (`AccountFollows`).

## Proofs

TLAPS checks the theorems listed in `PROJECT.json` for every value of the
constants that satisfies the modules' named assumptions: any set of legal bars
and timestamps, any ratio of the timeframes, any number of candles, runtimes and
faults, any cost, suffix, ceiling and page size. An invariant that is not
inductive alone comes with the stronger one it follows from; most of those were
checked by TLC before they were proved.

* **ReplayProofs, the strategy.** `IInv` joins the type invariant with what each phase of the
  slot implies. `TypeOK` and the safety invariants are not inductive alone: that
  a trade's entry precedes a later epoch needs `lastTs` to bound both, and that a
  flip is fresh needs `lastExit <= lastTs`. `NoSameBarReversal`,
  `EntryAgreement` and `ImplementsLifecycle` follow one action at a time.
  `ExitPriceTraded` and `FlipAnswered` speak of the list of events a step emits;
  for them each branch is shown to emit one known list (`SaidByBranch`), and the
  answer for a flip before its epoch to be unreachable, as an epoch is never
  younger than the bar (`EpochNeverTooYoung`).
* **ReplayProofs, the replay.** `RInv` adds that the strategy's `hema` is the direction of the
  last 15m relation, and that the cursor bounds `lastTs` and the retained bias.
  `HeldWithHema` then rests on one fact: from an `equal` relation the next
  crossing is reported against the direction the strategy still remembers.
  The backtest beside it has `BInv`: sequence numbers are ahead of all records,
  the closed records are in order and end before the open one, and the open
  record is the strategy's trade. A trace holds at most one event the accounting
  takes (`StepReports`), so a trace is taken as a whole or not at all
  (`SingleTrace`, `QuietTrace`). `ReportReconciles` then is arithmetic along the
  list of trades: equity is capital plus results (`RunningIs`), the parts of the
  result add up (`SumOfParts`), and the drawdown is the deepest fall below an
  earlier peak and attained by one (`WatermarksSound`).
* **ExecutionProofs.** `IInv` says of the row: types; equal books and cursors;
  the adapter's event list holds exactly the events that explain each order's
  status, each once; at most one order is outstanding and it is the one at the
  cursor; and the position follows the strategy's trade up to that order. The
  three ways to change the row (a candle, an answer, nothing) are proved once
  (`RowTakes`, `RowAnswered`, `RowStays`) and shared by the theorems.
  `ExecutionImplements` maps the outstanding order and the position to
  `PaperTrading`. `ExecutionRecoveryExact` adds `Recovered`: the row's replay
  state, and every state in a process's memory, is the one an uninterrupted
  replay has at that cursor (`Behind`, along the `Chain` of its states); an order
  exists for every decision up to the cursor and for nothing else (`OrdersOf`),
  and no order has two fills (`FillsOnce`). `ExecutionDecodable` adds `Faithful`:
  applying the stored events to unanswered orders rebuilds the stored book.
  Appending an event extends that replay by a step; registering an order changes
  its beginning, which goes well because a registration commutes with the events
  of other orders (`ApplyCommutes`).
* **RuntimeProofs.** `IInv` holds at every place of `poll_once`. `LogOK`: the
  durable log is in processing order, and the successor of a candle in it is in
  it too or still ahead of the cursor; `NoGaps` and `BiasComplete` follow. That a
  poll keeps it needs `BatchOK` and `Covered`: what was fetched is closed and
  runs up to the clock, and begins no later than the first candle not yet taken.
  `Covered` is where the window arithmetic of both fetches enters
  (`FirstUnconsumedFacts`, `RequestedFacts`). `Held` relates memory to the row:
  the same log or one candle behind it, so that a save which took effect but
  raised, followed by a restart or a retry, neither repeats nor skips a candle.
* **FetchRangeProofs.** `IInv` says that the collected candles are the beginning
  of the range, up to the page being fetched or, behind the last page, up to the
  open candle. A page that is accepted begins with exactly the candles from there
  to its end (`CompletePage`), and two adjoining stretches make one
  (`UptoJoins`). For `RequestsBounded` the `Budget` counts full pages behind the
  current one: each took at most `Attempts` requests (`PaidUpTo`).
* **CheckpointStoreProofs.** A save decides in one step and commits in a later
  one. `IInv` therefore carries the decision to the commit: one process at most
  is in a transaction (`Exclusive`), so what a save compared itself with is still
  in the slot (`Prepared`). `CheckpointSlotKept` and `CheckpointImplementsSlot`
  follow from it; a call is seen by `Slot` as long as it has not returned, and
  its answer is given at the statement that read or changed the row.
* **ExitProofs.** `IInv` says what a trade can have come to (`Fate`) and which bar
  made it so: untriggered (`Held`), triggered and still running (`Running`),
  closed with the canonical trade (`EndedAlike`), at the target of a full exit
  (`EndedAtTarget`), on the bar of the trigger (`EndedAtOnce`) or later
  (`EndedAfter`). The first triggering bar is part of it, so that the property can
  be read off the path again. `PositionCloses` follows from the list of components
  each fate leaves (`Layout`), `FillsAttainable` from the origin of every fill
  (`Fair`) and from what a trade's extremes bound (`PeakIs`, `NetIs`).
  `DiffersOnlyByTrigger` compares with the first exit study: its strict peak
  reaches a target exactly if some bar before the canonical exit does
  (`ReachesIs`), which is the trigger of the fate or its absence (`DiffersIfIInv`).
* **IndicatorsProofs.** `IInv` says that both checkpoints are the dumps of what an
  uninterrupted series holds, and how far n candles take that: an average has
  collected n seeds or has a value (`AverageOK`), a HEMA's last average begins
  when its other two are complete (`HEMAOK`), and the Kalman step has an estimate
  from the second candle, an ATR from its period and both bands from the later of
  the two (`StepOK`). From this follow that every number of a checkpoint survives
  JSON (`TrendSurvives`, `StepSurvives`), hence `Persistable`, and when relation,
  ATR and flips are reported, hence `FeedsReplay`. `TrendSide` and `Ratchets` need
  no order of the bands: `BandStep` takes one step from any bands and any
  estimate, with a distance that is not negative because a true range
  (`TrueRangeIs`) and the factor (`BandsInOrder`) are not. Everything else of
  `IInv` holds for a factor of either sign.

* **ResearchProofs.** The dataset is a fold over the events of all bars, and no
  property of it is inductive by itself: that a row stays says nothing of a row
  that is built again. `ResearchIInv` therefore describes the fold's result
  for any tape: every setup is named for the bar of its flip and has that
  bar's features, its status is what the trades and the slot say, it is without a
  reason exactly if a trade of its side is held over its bar, the armed setup
  of a side is that of the slot, entries name setups and bars in
  order, and the events of the traces correspond one for one to entries and exits.
  The step appends a bar; that the fold over a longer tape begins as the fold over
  the shorter one, and that features look only at bars up to their own,
  are lemmas about any tape that is extended (`SetupsKept`, `TradesKept`).
  `RowsFinal` follows from these, `RowsAgree` from the invariant, and from ranges
  that are positive (`NeverRaised`). For
  `EvidenceFrozen` a window that is over lies before the new bar, so no row that is
  new or changes can fall into it (`DecisionIs`, `RowFrozen`, `DelaysFrozen`).
  `WindowsAgree` and `RegistrationPasses` need sums over sets that do not depend on
  the order of the elements (`SumsAgree`, `SumUnion`), that every extension lies in
  exactly one bucket (`BucketsAre`), and that the parts of a window
  divide its dates. `ReportsAddUp` needs a second invariant, `StopsLose`: the
  slot's stop lies on the losing side of its entry, and whatever was closed by a stop
  lost. `market_transfer.py` labels every stopped trade and `failure_modes.py` only
  losing ones, so the two agree for no other reason. The cardinalities of
  the labels and the sums of `EconomicallyImproved` rest on the lemmas of
  `WindowsAgree`. `PopulationsAgree` needs that whatever adds up over disjoint sets
  (`Adds`: a count, a total, a count or total of what is kept) adds up over the parts
  of a window (`PartsAddUp`, `PartsDivide`), that the closes of consecutive bars go at least
  as far as they get (`WayIsLonger`), and that rising open times leave no
  gap exactly if they span as many intervals as there are bars (`ReplayableIs`).
  `AttributionReconciles` needs that a record has at most the one trade of its setup
  (`RecordIs`), that every label a record can get is one of its table's
  (`Labelled`), and that such a table then divides the records (`TableIsSound`); which
  windows do not reconcile is `WindowIsReconciled`. `UnlockedByValidation` is the observation that a registration
  carries the fingerprint of its dataset, and that datasets of a growing
  history differ in it (`StaleIsRefused`), together with the repeated validation.

**Hypotheses.** Four theorems have one besides the constants' assumptions.
`IndicatorsTrendSide` and `IndicatorsRatchet` assume `BandsInOrder`, a Supertrend
factor that is not negative: `ReplayConfig` only asks that it be finite
(`replay/models.py:91-94`), and with a negative one the bands change places, the
estimate need not be on the side of the active band, and both claims fail. All
theorems about `Indicators` rest on `GainAssumption`, which the code does not
check either: `kalman_alpha` and `kalman_beta` are not negative and not both zero.
Otherwise `KalmanFilter.update` may divide by zero (with both zero it does on the
second candle). Two more hypotheses are
called `CostsBite`. `ReportReconciles` and `FillsAttainable` claim that costs
never improve a result, which is false for slippage above the price itself and
for negative prices. The code does not exclude either: `slippage_rate` is only
checked not to be negative, and prices are positive because the market data
client rejects others (`marketdata/binance.py:180`), not because the backtest
or `exit_counterfactuals.py` asks for it. TLC's instances satisfy all of them.

**Induction.** The proofs use no induction over an operator. A claim about all
steps of a recursive function is stated as a set of indices with no least
element outside of it (`LeastNat`, `UpTo`), which takes a set as parameter; the
few lines of it stand in each module that needs them, as the proof modules of
different components do not extend one another. The models define such folds as recursive functions,
`Backtest`, `Indicators` and `ExitStudy` among them, because a definition by `CHOOSE` of a
recursive function can be unfolded once the function is known to exist
(`ProgressIs`, `UninterruptedIs`, `TotalIs`, `HemaBatchIs`).

**Only model-checked:** liveness (`CatchesUp`, twice), which needs `ENABLED`;
and `StudiesAgree` of `Research`. `DiagnosisPasses` sorts values into quartiles and
`LedgersAgree` sorts trades by their exit with operators of the
community modules (`SetToSortSeq`, `FoldLeft`), which are defined by recursion on an
operator's argument and cannot be unfolded by the provers. The theorems `SpecTypeOK`, `ExecutionTypeOK`,
`RuntimeTypeOK` (every window begins at time zero at the earliest),
`CheckpointTypeOK`, `TradeInEpoch`, `EntryAgreement`, `StrategyAccepts`,
`DecisionsFinal` and `SlotKept` are proved only; the runs check the properties
they support.

## Not modelled

* **Numbers.** The rounding of binary floating point, and with it a positive ATR
  too small to move a price; the finiteness checks that guard against it.
* **Storage and I/O.** Foreign or damaged databases, the JSON layout of
  checkpoints and of the strategy state, HTTP, the parsing of TradingView exports
  and the hashing that binds a report to its inputs.
* **Indicator diagnostics and golden audit.** An offline comparison of numeric
  series with exported charts.
* **Descriptive statistics.** Means, medians, correlations, HEMA slopes, ATR
  ratios, quartiles of the directional efficiency, the features of the time of
  day, and the gates that compare aggregated numbers of a candidate; nothing is
  selected or traded on them.
* **Cross-market studies beyond their ledgers.**
  `xau_directional_edge_attribution.py`,
  `xau_directional_hypothesis_confirmation.py`, the broker cost calibration and
  `xm_gold_compatibility.py` compare recorded numbers with numbers frozen in the
  source, resample with a fixed seed, or render reports: there is no state and no
  order of steps a model could vary.
* **Tools, tests, Pine scripts.** Wrappers, and references the code was ported
  from.

## Plan

Done: every modelled component has runs and proofs. Left:

1. A definition of sorting the provers can unfold, for `DiagnosisPasses`.
2. A `strategy` run with reversal exits switched off.
3. `walk_forward_windows` of `splits.py`, once a report uses it, and the gates of
   the regime and exit candidates.
