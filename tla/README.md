# QuantumStockAI: specifications

TLA+ models of the data pipeline of QuantumStockAI: a Django program that collects
daily candles of the NSE equities, scans them for pre-breakout setups, records each
setup as an immutable observation, labels it with what happened in the following
sessions, publishes the scan to Google Sheets and shows live quotes on web pages. It runs
as scheduled GitHub workflows, management commands and a web service that share a database, a
cache file, a lock file, a channel layer and two sheet tabs, none of which is transactional across
its steps. That is one half of its hard behaviour; the other is the judgement itself, hundreds of
thresholds over candles and quotes of different age. These modules are about both.

Paths below are relative to the repository root.

## Inventory

| Part | State it keeps | Operations | What makes it correct |
|---|---|---|---|
| Outcome tracking (`apps/scanner/services/prebreakout_outcome_service.py`) | `PreBreakoutSetupOutcome` rows | `capture`, `evaluate_pending`, analytics | observations immutable, labels forward-only and mutually consistent, complete rows final, pending rows finished |
| Snapshot cycle (`cloud_snapshot_cycle_service.py`, `prebreakout-outcomes.yml`) | none of its own: the order of phases | ingest, align, scan, cache, capture, evaluate; one retry per phase; killed after 30 minutes | the above whatever happens between two phases |
| Cloud EOD ingestion (`cloud_eod_ingestion_service.py`) | `CloudDailyCandle`, `CloudBenchmarkCandle`, `CloudQuoteSnapshot`, the sync columns of `Company` | `sync_stock_history`, `sync_benchmark`, `sync_quotes`, `prune_retention` | derived columns agree with the candles; no company starves; pruning takes nothing that is needed |
| History repair (`repair_scanner_history`, `repair-scanner-history.yml`) | the same | the same sync with `include_insufficient` | runs beside the cycle without undoing its work |
| Publication lock (`live_sync_runtime.py`) | one lock file | create, stale takeover, unlink | one publisher at a time; a dead one does not block for ever |
| Sheet publishers (`technical_scanner_publisher.py`, `workbook_scanner_publisher.py`) | the Technical and the Swing tab | header check, chunked write, clear below | a finished publication is whole, under its header |
| Scan cache (`scan_report_cache_service.py`, `build_technical_scan_cache`) | one JSON file | `save` (temporary file, replace), `load`, `latest_aligned_session` | a loaded cache is complete and of the aligned session |
| Readiness (`scanner_data_readiness.py`) and market status | none | coverage gates, freshness states | the gates imply what the publishers rely on |
| Outcome seed (`cloud_outcome_seed_service.py`) | a checksummed file | export, import, verify | import preserves observations and labels |
| Quote sync, consumers (`sync_quotes`, `quote_sync.py`, `consumers.py`, `static/js`) | `MarketQuote`, channel groups, what a page shows | batch request, save, broadcast; connect, subscribe, deliver; reload after a closed socket | no page goes back or runs ahead of the table; the feed comes back after every failure |
| Local history (`daily_history_sync_service.py`, `benchmark_history_service.py`, `cloud_outcome_cycle_service.py`) | `MarketOHLC` | request with retry, clean, persist atomically per company | as for the cloud tables |
| Scanner and engine (`apps/scanner/engine/*`, `apps/market/indicators/*`, `scanner_service.py`) | none | indicators, features, gates, scores, classification, strategies, alert | disqualifying facts outweigh points, scores move the right way, an alert has its evidence, stale data is never presented as strong |
| Tokens (`apps/upstox_auth`, `upstox_client.py`) | `UpstoxToken`, the worker's client | login, refresh, save, recheck | the worker ends up with a token the provider accepts |
| Dashboard and stock page (`apps/dashboard`) | none | home, detail | a status says what is true of every figure under it |
| Universe, accounts, scripts | companies, users | import, forms | not specified here |

How they interact: the cycle calls ingestion, the scanner, the scan cache and outcome tracking in
one process; the repair workflow writes the same candle table from another runner and shares no lock
with it (the workflows have separate concurrency groups); the publishers read the cache file and the
quotes and serialise among themselves by the lock file only; the quote worker, the web processes and
the ingestion meet in the token row and in the quote table, and the worker reaches the pages through
the channel layer. `PROJECT.json` lists every part with its status and, under `hazards`, each place
where the code is hard to test.

## Modules

### `OutcomeCycle`, with `SetupLedger` above it

One run of the outcome cycle is a sequence of actions in the order of
`CloudSnapshotCycleService.run`: `StartCycle` (the session is resolved), `SyncSymbol` per
company, `SyncBenchmark`, `PruneRetention`, `CheckAlignment`, `ScanAndCapture`,
`LoadPending`, `SaveOutcome` per row, `FinishCycle`. `RetryEvaluation` is the second try of
`_database_phase`; `Crash` ends the run anywhere. `RepairRequest`, `RepairFlush` and
`RepairBenchmark` are the other workflow: what it asked for and when it writes it are two
steps, and with `RepairOverlaps` the cycle's steps fall between them.

Candles are `[high, low, close]` records per symbol and session; providers answer with any
part of what was asked, so gaps, late sessions and revised candles all occur. The labels
follow `evaluate_pending` assignment by assignment (`ReturnAfter`, `BreakoutFlag`,
`Relabelled`, `Evaluate`), including that a label which is not assigned keeps its old value.
A return or excursion is represented by the price it is computed from: for one row they are
strictly increasing in it. The scanner is abstract: a report is whatever `capture` reads
of one, constrained by the data-quality gate (`ReportFits`).

`SetupLedger` is the model's docstring as a specification: an entry is recorded once, learns
horizons, never forgets one, and closes with the last. `LedgerImplemented` is the refinement.

Two fields of a row are history variables: `seen`, the newest session the snapshot was taken
from, and `mature`, whether the symbol had its full history then.

### `HistorySync`

`sync_stock_history`, write by write. `StartSync` reads everything and sorts (`SortKey` is the
Python key, `Batch` the slice); `RequestAnswered` and `RequestFails` take the batch one company at a
time, buffering rows, keeping the summaries in memory and flushing a full buffer; `StampAttempts`,
`FlushRows` and `SaveSummaries` are the three writes at the end, in the code's order. `Crash` covers
a killed runner and a write that raises. Timestamps only matter by their order, so `attempts` is the
set of attempts that count and `before` their order. Two jobs, the cycle's and the repair's, run it,
in turns or, with `Overlap`, at the same time. The inactive-company filter and retries inside one
write are left out.

### `SheetPublish`

`live_sync_lock` statement by statement (`Acquire`, `CheckStale`, `UnlinkStale`, `AcquireAgain`,
`Release`) and inside it the two publishers: `WriteAll`, `ClearRest` for the technical one,
`VerifyHeaders`, `WriteTechnical`, `ClearTechnical`, `WriteSwing`, `ClearSwing` for the workbook
one. `Fail` is every exception inside the `with`, `Crash` a killed process, `LockAges` the 1800
seconds passing. Tabs hold, per chunk of rows, the run that wrote it.

### `ScanPipeline`

The commands of `live-workbook-scanners.yml` and `workbook-scanners-dry-run.yml`, with the queries
and file operations inside them as steps: `Validate`, then the build (`GateBuild`, `QueryStock`,
`QueryBenchmark`, `Scan` up to the opening of the temporary file, `WriteTemporary`, `ReplaceCache`),
then `load_valid` (the two queries again, `LoadAndPublish`, which refuses an empty report set).
`Scan` goes on without any companies whose snapshot or judgement raises, as `scan_live_market` does:
`lost` remembers them for the properties. Between any two of them `EndDay`, `StoreCandle`,
`StoreBenchmark` and `StoreQuote` change what they read, which is what ingestion and repair do from
other runners. `Refuse` is a command that exits with an error, `Kill` a cancelled or timed-out run.
`InputsReady` and `ReportsReady` are `failures(collect())`; `Aligned` is the most complete session
that stocks and benchmark share, `NewestStock` the newest one, and the two need not be the same. The
live workflow passes `ProceedToPublish` as it is, the dry run only when `--check-cache` succeeds,
and what the dry run calls published is projected, not written. A saver outside the workflow,
`live_sync_lock` (see `SheetPublish`), the overlay of quotes and the report set's freshness are left
out; `collect` is one moment. The environment stores single candles, from the listing date on, and
takes none away.

### The judgement of a scan: `ScannerService` and below

`ScannerService` is `_build_snapshot`, `assign_rs_ratings` and the engines for one stock: candles,
benchmark and quote change (`CloseSession`, `QuoteMoves`, with candles or quotes that do not come), and
`ScanLiveMarket` puts them through everything. What it is built from are pure operators:

| Module | Code |
|---|---|
| `Figures` | optional values (`None` is `<<>>`), Python's `round`, clamping |
| `CandleSignals` | `apps/market/indicators`, trend and momentum, volatility, volume, price structure |
| `SetupStructure` | pivot, contractions, box and base of a setup |
| `SetupLifecycle` | base quality, failed breakouts, supply and demand, overhead, lifecycle and readiness |
| `BenchmarkSignals` | data-quality gate, weekly view, relative strength and rating, market regime |
| `PreBreakoutScore` | the scorer: seven components, twelve penalties, seventeen caps, classification |
| `StrategyEngine` | the eight strategies, weights, overall score, reward, alert, status |

`ScoreWalk` runs the scorer alone over snapshots in which one reading at a time turns good
(`SignalGained`), turns bad (`RiskAppears`) or is lost (`AnswerLost`): a space no candles of a small
instance would span. `AlertWalk` runs the decision engine alone over a stock whose price and volume
move and whose sessions close. `ScanAnalysis` puts the three side by side (`part` says which one
runs), and `MCScanAnalysis` gives their constants for the run.

Numbers. A threshold of the code is the model's, by cross-multiplication where the code divides;
averages and exponential means are exact or in hundredths, so a value within rounding distance of a
threshold may fall on either side of it in the program, a difference no property depends on. Candle
prices are ticks of 25 paise. The lookbacks are the constant record `W`, under the names of
`prebreakout_config`, shortened in proportion. Reason texts, the cleaning of malformed candle rows and
`technical_scanner_features` (names for the sheets) are left out.

### Live quotes: `TokenStore`, `MarketConsumer`, `QuoteFeed`

`TokenStore` is the token row with `Login`, the refresh as three steps (read, `RenewAnswered`,
`RenewStored`, because the code reads, asks over HTTP and saves in another transaction) and the
worker's client that looks at the row again once a minute. `MarketConsumer` is a page's connection:
`Connect`, `Receive` with its `GroupDiscard` and `GroupAdd` one group at a time, `Subscribed`,
`MarketMessage`, `Disconnect`, and a channel of `Capacity` ticks that drops what does not fit.
`QuoteFeed` composes them with the worker's loop (`Start`, `Started`, `Wake`, `RequestFails` with
its retries, `Answered`, `Save`, `Send`, `WriteFails`, `Crash`), the ingestion's quotes
(`EodAnswered`, then its two writes, `EodSavesStocks` to `CloudQuoteSnapshot` and `EodSavesIndices`
to `MarketQuote`) and what a page does without a socket (`PageLoads`, `RestRead`, `RestArrives`).
`compact` is the setting `CLOUD_COMPACT_MARKET_DATA` of the web program, off by default and on in
the workflows' environment: with it a page's stocks are rendered from `CloudQuoteSnapshot`
(`Rendered`), while indices and ticks come from `MarketQuote` as without it. A quote is a version
number, the provider's state of it in time. One worker runs at a time; `UPSTOX_ANALYTICS_TOKEN` and
`UPSTOX_ACCESS_TOKEN`, which would bypass the row, are not set.

### Pages: `MarketStatus`, `Dashboard`

`MarketStatus` is the service's decisions as functions of the clock in ticks of 300 seconds, the
unit of both of its tolerances. `Dashboard` is `home` as a request that takes the time, reads the
quotes (`HomeReadsQuotes`), the cache (`HomeLoadsReports`) and the index quotes (`HomeReadsIndices`)
in turn while clock, quotes, candles and cache move, and the quote and lifecycle of a stock's page
(`StockDetail`, one moment). The normaliser's stamps (`Stamps`, `Trades`) give the quotes their
time. `MCLiveViews` runs feed and pages in one run, a scene at a time.

## Runs

All bounds are constants of the cfg named.

| Run | Question | Bounds |
|---|---|---|
| `outcome_serial` | Are labels forward-only, do they only advance, do repairs stay away from labelled candles, when the repair job runs between cycles? | 1 symbol, 5 sessions, window 2, retention 3, minimum 2, two kinds of candle |
| `outcome_overlap` | Are rows consistent, observations immutable, complete rows final and the ledger implemented when the repair job interleaves with every step? | 1 symbol, 3 sessions, window 2, retention 2, four kinds of candle |
| `outcome_liveness` | Is a pending setup whose window is stored eventually complete? | 1 symbol, 3 sessions, one kind of candle |
| `outcome_lookahead` | violation: `ForwardOnly` when the repair job overlaps | as `outcome_overlap`, two kinds of candle |
| `history_serial` | Do high and last success agree with the candles between undisturbed runs? | 2 companies, 3 sessions, 2 prices, buffer of 2 rows, full history 3 |
| `history_rotation` | Is every company that is behind attempted? | 2 companies, batch of 1, overlapping jobs of which only the cycle's is sure to start, 1 crash |
| `history_crash` | violation: `HighAlwaysCovers` after a crash | 2 companies, 2 sessions |
| `sheet_publish` | Exclusion, whole tabs, stable header, recovery after a killed publisher | 1 publisher of each kind, 2 chunks, 1 crash |
| `sheet_takeover` | violation: `MutualExclusion` after a takeover | the same |
| `scan_pipeline` | Is the cache never partial, what is published never older than the gate's session or than what was published before, is the coverage kept, and is a complete day published? | 3 companies, one listed on day 2, one with a quote from the start; any scans that raise; 3 days, the second a Saturday; 1 kill; a full history is 2 sessions; gates of 66, 66, 66 and 32 % |
| `scan_analysis` | Do risks outweigh points, does an alert have its evidence, are stale or extended setups kept out of the strong classes, do failures stand? | scorer: 2 readings changed from the best and from a bare setup; engine: 4 stocks, 5 moves; service: 3 histories of 17 to 22 sessions, 2 more sessions, 4 shapes of a close, 3 moves of the quote, windows from 1 to 24 |
| `live_views` | Do ticks follow the table, is LIVE recent, does MARKET_CLOSED cover the session, does the feed resume? | 1 page, 2 stocks and an index in 2 batches, channel of 1, 2 tokens, 2 faults; pages: 2 companies, 1 index, 5 instants of the week and the next tick |

Why the bounds are enough. The rows of different symbols share nothing but the order of
saving, so one symbol with rows of several sessions shows every interplay of rows, candles
and repairs; five sessions with a window of two and a retention of three let a row be recorded,
partly labelled, completed and its candles pruned while another row is still pending. The
code's 20, 252 and 272 keep their order (window <= minimum <= retention). Candles
lie below, at and above the one level, close separately from high. In `HistorySync` two
companies and a batch of one are the least that lets one wait for the other. In `SheetPublish` two
chunks are the least that leaves a tail, and six run ids are more than two tabs and two
publishers can hold at once, so one is always free. In `ScanPipeline` the percentages keep the code's
relation (95 + 95 - 100 = 90): with three companies each input gate lets one be missing, and a
different one in each. Three days with a Saturday let a session lie beyond the expected one, be
hidden by a more complete one, or be missing on a weekday as on a holiday.

In `scan_analysis` two changed readings are a risk beside a signal, a lost answer beside either, or
two risks; the two setups lie at both ends of the scale. The four stocks lie below and above their
averages, with and without a market cap, and five moves carry them over the alert's threshold and
back. The histories are a base that tightens under its pivot, in a rising and in a falling market,
and the same base after a breakout that falls back, so pivots, failures, extension and staleness all
occur. In `live_views` the five feed scenes each hold something still: `credentials` lets tokens
age, die and be replaced, `delivery` lets writes fail and the ingestion interleave, `channel` lets
the page subscribe while ticks come, `reconnect` lets it close and ask over REST, and `compact`
renders it from the snapshots that the ingestion writes while the worker's ticks are on their way;
in the others pages read `MarketQuote` and the ingestion brings index quotes only, its stock rows
being read by nobody. In all but `reconnect` the first batch is refused every time. A scene never
holds still an action under fairness. The three page scenes let quotes, index quotes, or session and
cache move; `FeedResumes` says nothing in them. A day of 8 ticks with the window 1 to 4 and grace
until 6 has an instant on each side of every edge, a weekend included; freshness 1, skew 1 and
coherence 3 with stamps 2 ahead, 0, 3 or 16 behind put quotes on both sides of every tolerance.

`CHECK_DEADLOCK FALSE` appears in the `scan_analysis` and `live_views` runs because their bounds end
every behaviour of the unfair machines, and in the `HistorySync` and `ScanPipeline` runs: when no
company is pending and the last session of the bound has closed the jobs have nothing to do, and
when all the data is stored and the last day does not meet the gate no workflow run gets past it;
the models stop.

Environment assumptions, each named in its module: no setup is left pending, and no single cycle
goes on, for longer than the retention (`PendingWithinRetention`; a year of failed cycles, or one
cycle of a year: without the second half a setup is captured so late that its first candles are
pruned between two evaluations, and `MatureBreakoutAgrees` fails with six sessions); an answer of a
full history leaves out no stored candle (`AnswerSessions`); a live publisher does not hold the lock
for 1800 seconds (`Overrun = FALSE`); crashes are bounded by `MaxCrashes` in `HistorySync` and
`SheetPublish`, by `MaxKills` in `ScanPipeline`, and not bounded in `OutcomeCycle`.

Fairness. The workflows are scheduled for ever and a killed run is followed by another, so each step
of the cycle is strongly fair: no phase fails on every run that reaches it. A run of the history
sync goes on while it is not killed, and the cycle's is started again when it may (weak); the repair
is started by hand (`workflow_dispatch`), so nothing assumes that it ever is. The publishing
commands are scheduled too, and the scanner workflow goes on or is started again while some step of
it is possible (weak). Which companies' scans raise is not bounded by anything in the code:
`EventuallyPublished` assumes that scans that lose no more reports than the report gate allows come
again and again (`ScanSucceeds`, strong). Nothing in these assumes that a provider ever answers. The
quote worker is a service the platform starts again when it ends (`Procfile`), so `Start` and its
own steps are weakly fair (`WorkerRuns`); while nobody has a usable token somebody signs in, and the
client's steps go on (`TokensReturn`); a batch that is not refused is answered in full again and
again, a channel that again and again has room gets a tick, and a consumer sends what waits
(`Delivery`). The last two are strong because refusals, lost tokens and full channels come in
between. `Crash`, `WriteFails`, `TokenDies` and the ingestion are not fair: they may happen, within
`MaxFaults` and `MaxTokens`.

## What the violations show

* `outcome_lookahead`: the cycle resolves its session first and scans last. If the repair job
  stores a newer session for a symbol in between, the snapshot is taken from it, yet `capture`
  files it under the older session (only the cache save filters by the report's own session).
  `evaluate_pending` then labels the row with the session it was taken from, against
  "forward-only outcome labels". `ForwardOnly` holds when the jobs do not overlap.
* `history_crash`: the three-year high is written after the candles by another statement; a run
  killed in between leaves it below a stored candle, and a company that is current is never
  requested again. `HighCoversHistory` is the same statement for runs that are not killed.
* `sheet_takeover`: two commands that both find a dead publisher's file stale both unlink it, the
  second one the first one's new file. `ExclusiveUntilTakeover` is what holds.

Behaviours of the judgement and of the live pages of the same kind: a company whose market cap is
known and nothing else can never alert, because three strategies it cannot pass count
(`CapNeverAlerts`; the mapping reads the market cap of every company, and no other fundamental); the
alert does not look at the data-quality state; a setup can be `is_pre_breakout` while its lifecycle
is another, since both measure by themselves; a failed snapshot build of one stock changes
everybody's rating; an unavailable market context removes both a penalty and a cap. The ingestion
writes index quotes it asked for before the worker's newer ones, and a late REST answer is applied
over newer ticks, so an index can go back (`TicksFollowTable` leaves it out); with
`CLOUD_COMPACT_MARKET_DATA` a page can be rendered from a snapshot the ingestion has just written
and then be taken back by a tick whose quote the worker had asked for earlier, so there
`TicksFollowTable` speaks of a stock from its first tick on; a stock page's LIVE stays when ticks
stop; a save or a broadcast that raises ends the whole sync, so when the first batch raises every
time the later ones are never reached; one quote stamped more than 300 seconds ahead makes the whole
dashboard STALE; a stock up to 900 seconds older than the newest is counted under LIVE while its own
page says STALE.

Behaviours met while modelling that no document rules out, and that no property claims: overlapping
jobs save columns computed from copies read earlier, the last save wins; a hole in the history of a
full, current company is never asked for again; the repair job alone starves companies that are
merely behind when a full batch stays underfilled; the technical publisher's header makes every
later workbook publication of that tab fail; on a weekday holiday the expected session is a day
without data, so nothing is published until the next session ends; a session beyond the expected one
(a special Saturday session) passes the gate with the older session's coverage while the build takes
the newer one, however few companies have it; candles stored between the scan and the gate reduce
the reports, and only the dry run would notice; a company whose snapshot or judgement raises is
passed over with a log line, so however well the input gates are met the live workflow can publish
few reports, and only the dry run's `--check-cache` would notice (`BuiltCovers` counts what reached
the scan, and an empty set alone is refused); the comment on `MIN_REPORT_COVERAGE` derives it as the
least overlap of the two input gates, but the reports are counted over the mature companies and the
inputs over all eligible ones, so a newly listed company with candle and quote carries the input
gates and counts for nothing afterwards (`BuiltCovers` counts over the eligible companies).

## Proofs

The eight `_proofs` modules hold theorems checked by TLAPS for every value of the constants that
satisfies the assumptions named in the modules (`CycleAssumption`, `SyncAssumption`,
`PublishAssumption`, `PipelineAssumption`, `MaxTokensAssumption`, `ConsumerAssumption`,
`FeedAssumption`, `ClockAssumption`, `DashboardAssumption`, `ChangesAssumption`, `SharesAssumption`,
`MovesAssumption`, `StartsAssumption`, `ClosesAssumption`, `QuotesAssumption`, `LookbacksAssumption`
and the ones about null values). The thresholds of the alert are hypotheses of the theorems that
need them, as weak as the argument allows. The proofs about `QuoteFeed` and `Dashboard` are together
in `LiveViews_proofs`, those about `ScannerService` and about the whole judgement of a scan in
`ScanAnalysis_proofs`.

* `OutcomeCycle`: `TypeCorrect` ([]TypeOK). The argument is in the lemmas about the evaluation: a
  window is a finite set of stored sessions, so the highest and the lowest session or price chosen
  from it exist, and `Relabelled` returns labels. From it, `ObservationsAreImmutable` and
  `CompleteRowsAreFinal`: only `ScanAndCapture` and `SaveOutcome` write rows, the first adds rows
  where none was, the second keeps the observation and works on pending rows only. The second needs
  that the setups still to be saved are pending, which is the invariant the proof adds: a row that
  is completed leaves `todo` in the same step. `LabelsAlwaysAgree` is kept row by row (`RowsAgree`):
  positions in a finite set have no holes (`NthDownward`), so a return is known only with every
  shorter one, and the last horizon is what completes a row. The other four assume that the jobs do
  not overlap. `LabelsAreForward` needs that no candle is newer than the session of the running
  cycle and that no repair holds an answer meanwhile (`ForwardInv`). `MatureIsNeverRefetched`,
  `MatureBreakoutsAgree` and `MatureLabelsOnlyAdvance` rest on one invariant, `MatureInv`: pruning
  never makes a full history short (`PrunedFull`) and never reaches a candle after a pending setup
  (`PrunedKept`), ingestion only appends (`AppendKept`), so what a setup was labelled from stays an
  initial part of its window, and its labels are those that one evaluation from scratch over that
  part would give (`Settled`). Evaluating again is then the same as evaluating once over more
  (`Incremental`), which advances every label (`FreshAdvances`) and tells one story of the breakout
  (`FreshTold`). `ImplementsLedger` shows that each step maps to `Record`, to `Label` of one key, or
  to a stutter.
* `HistorySync`: `TypeCorrect`, for overlapping jobs too; it says that the attempts stay one after
  the other, which needs that only a requesting run holds attempts in memory and that a company
  waiting for its turn has none there (`InMemory`). `HighCovers` and `SuccessStored` assume that
  the jobs do not overlap. Neither property is inductive: in the middle of a run the tables are out
  of step with each other. The invariant `TurnsInv` therefore speaks of what the tables will hold
  when the run ends as it stands (`MergedCandles`, `MergedHigh`, `MergedSuccess`: the tables
  overlaid with the run's buffer and copies) and says that these agree at every point of a run, that a
  company still waiting is as the run read it, and that at most one run is under way. An answer
  keeps them in step by `CoveredAfter` and `SupportedAfter`; each write only moves a part of the
  overlay into a table.
* `SheetPublish`: `TypeCorrect`; `LockExcludes` from an invariant that, until a takeover, names the
  owner of the lock file as the only publisher inside and says that nobody is about to create a second
  file; `PublishesWhole` and `HeaderIsStable` from an invariant that says, for
  each place of the program, which chunks already hold the publisher's run (`TabInv`). Because the lock
  leaves one publisher inside, the frame lemma `StandsStill` gives that the others' steps keep it.
* `ScanPipeline`: `TypeCorrect`, with the temporary file being whole before it is renamed;
  `GateIsKept` and `PublicationsGoForward` from `GateInv`: the gate's session is one the benchmark
  has (`AlignedIsCommon`: the sort has a first element), the benchmark's newest session only grows,
  and a run loads that newest session, so it bounds both what a run requires and what was published.
  `GatesCover` needs `QuietInv`, what an undisturbed run knows of the tables stage by stage, and the
  arithmetic of two overlapping parts (`CoveragesOverlap`). It holds whichever scans raise, because
  it speaks of reports and lost reports together.

* `QuoteFeed`: `TypeCorrect`, and `TicksAreInOrder` from `TickInv`: the table is never ahead of the
  provider, the worker's answer is never older than a stock's row or than a tick on its way
  (`RowInv`, `PageInv`), because only the worker writes the rows of stocks, and a page that is not
  connected has nothing waiting (`OfflineInv`). Any number of pages, instruments, batches, faults
  and tokens, and one worker. The ingestion's index writes are why the shown part is about stocks;
  on compact pages, whose rendering comes from the other table, it starts with the first tick
  (`Ordered`), from which on what is shown is a tick's.
* `Dashboard`: `LiveStaysRecent` and `ClosedStaysCovered` from `PagesInv`. A stored quote tells of
  no trade after its stamp (`StoredQuote`); the newest stamp and the status are computed at one
  instant of the request, so what is counted within the coherence of that stamp is bounded by it,
  whatever is written afterwards; and at one instant a stamp cannot be LIVE and MARKET_CLOSED
  (`LiveStamp`, `ClosedStamp`).
* `ScoreWalk`: `ScoreTypesHold`; `TopClassIsClean` is a case split over the caps: each one is below
  the top class. `RisksNeverHelp`, about the risks that `RiskAppears` adds (a lost answer may well
  raise the score), compares two snapshots by a relation, `Riskier`: under it no component rises
  (`ComponentsFall`), no penalty falls (`PenaltyRises`) and no cap rises (`CapFalls`).
  `SignalsNeverHurt` is the converse for what turns good: every component of the improved snapshot
  earns at least as much, the penalties and the cap do not move against it, and the gain of a newly
  known reading is not lost to the larger maximum that availability brings. It needs an invariant of
  its own, `Rated`: a known rating of relative strength always comes with a known return over some
  horizon, as the extractor computes the one from the others. All hold for any number of changes.
* `AlertWalk`: `AlertTypesHold` keeps a quoted stock a quoted stock (`Quoted`): natural numbers, a
  positive price no higher than the day's high, the relative strength in step with the 52-week
  range. The theorems about the alert bound the five technical strategies by what the stock lacks.
  `AlertsHaveEvidence`: each missing piece of evidence costs so many points that the weighted sum
  stays under 90 (`HighScoreEvidence`). `TheScoreDecides`: a sum of 90 is only reached when at least
  three strategies pass, and then the best by score and weight is one whose target lies two risks
  away (`PassedThree`, `BestOf`, `RewardOfHigh`), at any price of 200 paise or more, where rounding
  stops to matter. `TheScoreFollowsThePrice`: every score is monotone in the price because a rise
  moves the high, the relative strength and the comparisons with the averages the same way
  (`RaisedOverall`). `KnownCapNeverAlerts`: with a cap and nothing else the fundamental strategies
  score at most 60, 30 and 15 but count with 40 of 100 weights, so at most 7650 of 10000 is reached
  (`CapLimitsOverall`).
* `ScannerService`: `ServiceTypesHold` from `ServiceInv`: the stock keeps at least two sessions and
  the benchmark one, every bar is one (its low under its close, its close under its high), and a
  scan is only due after a report could be made. `TypesHold` joins it with the types of the scorer
  and of the engine. `StaleStaysWeak` follows a report back to its analysis: a stale scan is capped
  at 69 and stale candles at 54, and the lifecycle and both gates look at the quality first.
  `CandlesAloneBreak` reads a structure's end off the candles alone: the lifecycle is
  `INVALID_SETUP` exactly when the operator `Broken` holds (`BrokenScan`), and of the risks only the
  severe ones count, none of which looks at the quote or at the pivot (`SevereOf`); `ReportInv`
  carries this from the report to the candles of its day. `FailuresAreNotForgotten` needs that a
  report's count is that of its own candles for its own pivot, over however many of them there were
  (`FailureInv`): an attempt judged failed is judged so by candles that do not change
  (`FailuresStay`), a young history only grows its window (`YoungWindow`), so the set of failed
  attempts does too (`FailuresGrow`). An attempt still being awaited may turn either way and is not
  counted. `ExtendedIsNoSetup`: the base is called extended by a gap that is 3 % of the price or
  more on the far side, the scorer's risk also asks whether the price is above the pivot. The two
  agree because both are taken from one pivot whose level is a positive price (`PivotType`) and the
  stored quote is one too (`QuoteInv`), so a negative gap is a price above the pivot. That a pivot
  is a price is the long part: sorting finds an item for every place (`Ranked`, `PlaceFound`), so a
  median of prices is a price (`MedianType`); grouping, a recursive function, never loses or invents
  an item (`Iterated`, `JoinedType`, `GroupedType`); the swings, the clusters, the ceiling and the
  newest swing give candidates at prices, finitely many of them after merging (`MergeType`), and of
  finitely many there is a best (`BestType`).

Model-checked only: the liveness properties, as temporal reasoning under fairness is out of
the prover's reach. Every invariant and every action property the passing runs check is a theorem.

## What is left

* A second saver of the scan cache on one disk (the shared temporary name), the MarketOHLC mode of cache,
  readiness and outcome tracking, and properties of overlapping sync jobs (what the last save of a copied
  column can lose).
* The two sheets' projections and row order, and the overlay of quotes onto loaded reports.
* Charts, candles, moving averages, markers and search of the pages.
* Two quote workers at once, and a third writer of the token row.

Not modelled: `cloud_outcome_seed_service` (an operator's one-off copy inside one transaction),
`cloud_outcome_cycle_service` and the local history commands (sequential predecessors run by hand;
what they call is modelled with the cloud cycle), the universe audit (reads only), the analytics of
outcomes, accounts and forms, the instrument import (file parsing), the sheet script of
`live-market.yml` (stateless), HTML and card texts. Floating-point rounding is outside the models,
see "Numbers" above.
