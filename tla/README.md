# swing-copilot: a TLA+ verification project

swing-copilot is a personal swing-trading assistant: a nightly batch screens the
S&P 500, sizes risk, collects news and filings, hands one JSON document to an LLM
session, validates the session's answer, and keeps the verdicts, a tracking ledger
and the price history; a retrospective measures afterwards what became of it. The
interesting code is not in the rendering but in the *bookkeeping*: a mirror of two
directory trees in an object store without transactions, a ledger that must give the
same answer however its updates are cut up, a batch whose steps fail softly, a CI job
that must not look green on a day nobody analysed, and rules that are written twice
(a run and its replay, a screen and its audit, a check and its pre-flight) and must
agree. These modules model that bookkeeping and those rules.

Paths below are relative to the repository (`scripts/…`, `src/swing_copilot/…`).

## The system

| Component | State it keeps | Operations | Talks to |
|---|---|---|---|
| R2 mirror (`scripts/data_sync.py`) | bucket objects + `manifest.json` (generation, sha256 of every file); each machine's trees and `.r2_sync_state.json` | `pull [--reports-window N]`, `push [--reports-append-only]`, `status` | everything under `data/` and `reports/` |
| Tracking ledger (`tracking/update.py`, `storage/tracking_records.py`) | `verdict_positions`, `verdict_position_marks` | `update`, `rebuild` (and read-only `list`, `show`, `stats`) | verdicts, stored bars and splits |
| Market store (`storage/market_store.py`, `data/adjustments.py`) | one Parquet file per year of raw bars, `corporate_actions`, `fundamentals` and the fetch log, a format marker | `write_bars`, `replace_symbol_bars`, `read_bars`, `write_corporate_actions`, … | price step, backfill, every reader |
| Fundamentals refresh (`pipeline/daily.py`, `data/edgar.py`) | the fetch log, filing dates | one decision and at most one poll per symbol and run; backfill | market store, text table |
| Rate limit and retry (`ratelimit.py`, `retry.py`) | last request instant | `before_request`, `retry_external_call` | every HTTP client |
| Text collection (`pipeline/daily.py`, `text/`, `data/edgar.py`, `retro/surprises.py`) | `text_items` | news and filings per target, exhibits per notice, freshness check | providers, export, fundamentals |
| Screening (`screening/`) | `candidates`, `rejections` | filters, signals, ranking, cut, reasons; filter matrix | market store, risk step |
| Regime (`regime/`) | the recorded snapshot (all else is recomputed) | gate, distribution days, follow-through day, exposure; `dd-forward` replay | risk step |
| Risk and sizing (`risk/`), backtest engine (`backtest/`) | cash, open positions, pending entries | assessment, sizing, the day loop | exit rules shared with the ledger |
| Analysis (`analysis/`) | input, slices, fragments, result, report of a run | export, slice, write, verify, assemble, ingest | the LLM session, the report |
| Verdict archive (`retro/collect.py`, `retro/evaluate.py`, `storage/verdict_records.py`) | `verdicts`, `verdict_outcomes`, `verdict_collections` (digests) | `collect`, `evaluate`, prior-verdict reads | `reports/` documents, ledger, export |
| Signal postmortem (`pipeline/postmortem.py`) | `signal_outcomes`, `universe_forward_returns` | one pass per run over both horizons | run records, bars |
| Retrospective (`retro/`) | proposal ledger files, `retro_sessions` | aggregates, export, ingest, decisions | verdict archive |
| State database (`storage/schema.py`, `storage/state_store.py`) | tables, added columns, analysis views | migration at every open, readers | every command |
| Daily pipeline (`pipeline/daily_runner.py`, `pipeline/daily.py`, `pipeline/daily_composition.py`) | `runs`, `run_steps`, the run directory, the outcome file | preflight, four fatal steps, soft steps under a time budget, output | all stores |
| Completion check and notification (`scripts/check_daily_complete.py`, `scripts/notify_daily.py`, `report/incomplete_runs.py`) | none | verdict on the job | outcome file, `runs`, `reports/` |
| CI workflow (`.github/workflows/swing-daily.yml`) | an empty disk per job | pull, session, collect, push, check, notify | the mirror and the pipeline |
| Local diff gate (`scripts/diff_gate.py`) | none; reads a git clone | select and run the tests a diff can affect | the developer's clone |
| Atomic files, DuckDB transactions (`io_atomic.py`, `storage/database.py`) | – | replace, batch replace, transaction | every writer |

What makes it hard: commands that die between two steps with no undo log; two
machines (an operator's laptop and the CI runner) that share a bucket but no lock;
a *window* that lets the runner hold only part of the tree; split events that
change the dollars in which stored prices are quoted, at a moment when some prices
are already frozen; verdicts that are corrected or retracted after a position was
opened for them; jobs that are repeated by hand after a partial failure; answers
from providers that are late, empty, partial or cut; documents written by a language
model; and databases last opened by an older release.

What makes each component correct:

* **Mirror**: a committed generation names only objects that exist and that hold
  the listed bytes; no published edit disappears without a deletion; a pull ends
  on one generation; the runner can add archives but not change or drop any.
* **Ledger**: an open position, a closed one and every mark are functions of the
  price history and the verdict alone, not of when or how often updates ran; a
  closed position is final; whatever is interrupted, the next update repairs it.
* **Market store**: a symbol's rows are of one basis; a batch is stored or
  reported; readers never see a split applied twice or not at all.
* **Fetching**: no filing stays unread past the weekly backstop, an announced one is
  polled for until its facts are there, and no provider is asked too often or for
  ever; what was answered is stored whatever else failed, and a text that was cut
  says so.
* **Screening and regime**: a screen gives every symbol the reason that stopped it,
  and measuring it again gives the same reason; a replay of the rules repeats what
  the runs decided.
* **Backtest**: every dollar and every candidate is accounted for.
* **Analysis**: a report states nothing that is not in its own run's input, whatever
  the experts wrote; the check an expert runs is the check that gates.
* **Verdict archive**: rows and digests agree; one run per date is adopted;
  outcomes exist only for verdicts that exist; interrupted passes are made good.
* **Retrospective**: an RP number names one proposal for ever; a metric that says it
  cancels the market does.
* **State database**: a migration, however often it dies, changes no recorded fact.
* **Daily job**: every exit leaves a terminal state; a green job means that its
  day was analysed, or owed no analysis; a missing analysis is reported later.
* **Diff gate**: a green gate has run the tests of what the developer changed.

`PROJECT.json` lists every component with its status, and under `hazards` each
place in the code where one of these can go wrong, with the property that covers
it or the reason why none does.

## Modules

| Module | Models | Runs |
|---|---|---|
| `DataSync` | `scripts/data_sync.py` | `sync_*` |
| `SnapshotRegister` | abstract: what the mirror promises | refined in `sync_protocol` |
| `TrackingLedger` | `tracking/update.py`, `storage/tracking_records.py`, `backtest/exits.py` and their environment | `ledger_*` |
| `DailyRun` | `pipeline/daily_runner.py`, `pipeline/daily_composition.py`, `report/incomplete_runs.py`, run rows | `job_*` |
| `DailyJob` | `.github/workflows/swing-daily.yml`, `scripts/check_daily_complete.py`; extends `DailyRun` | `job_*` |
| `SplitBasis` | `data/adjustments.py`, as operators | `bars_store` |
| `MarketBars` | `storage/market_store.py` (bars and splits) and its writers in `pipeline/daily.py`, `pipeline/backfill.py`; extends `SplitBasis` | `bars_store` |
| `VerdictArchive` | `retro/collect.py`, `retro/adoption.py`, `retro/evaluate.py`, `storage/verdict_records.py` | `retro_*` |
| `Fundamentals` | `_FundamentalsFreshness` and the fundamentals step of `pipeline/daily.py`, its queries in `storage/market_store.py` | `fetch` |
| `RequestThrottle` | `ratelimit.py`, `retry.py`, EDGAR's retry policy | `fetch` |
| `TextCollection` | the text step of `pipeline/daily.py`, `text/`, filing texts of `data/edgar.py`, `retro/surprises.py`'s fetch | `fetch` |
| `FilingSelection` | `analysis/filing_selection.py` | `fetch` |
| `ProposalLedger` | `retro/ledger.py`, `retro/export.py`, `retro/ingest.py` | `rules` |
| `BacktestEngine` | `backtest/engine.py`, `entries.py`, `exits.py`, `metrics.py`, `policy.py`, `risk/` | `rules` |
| `AnalysisDesk` | `analysis/slices.py`, `fragment.py`, `validate.py`, `cli.py`, `verify_cli.py` | `rules` |
| `MarketRegime` | `regime/` | `rules` |
| `Screening` | `screening/` | `rules` |
| `RetroMetrics` | `retro/aggregate.py`, `retro/surprises.py`, blocks of `retro/export.py` | `rules` |
| `Postmortem` | `pipeline/postmortem.py`, `pipeline/forward_returns.py`, `storage/audit_records.py` | `rules` |
| `DiffGate` | `scripts/diff_gate.py` | `rules` |
| `StateSchema` | `storage/schema.py`, `storage/state_store.py` | `rules` |
| `MCDataSync`, `MCTrackingLedger`, `MCDailyJob`, `MCMarketBars`, `MCVerdictArchive` | the instances of one component each | |
| `MCFetch`, `MCRules` | the instances of four and of nine components, side by side | `fetch`, `rules` |
| `DataSyncProofs`, `TrackingLedgerProofs`, `MarketBarsProofs`, `VerdictArchiveProofs`, `DailyJobProofs` | theorems about the module named | |
| `FetchProofs` | theorems about `Fundamentals` and `RequestThrottle` | |
| `RulesProofs` | theorems about `AnalysisDesk`, `Postmortem`, `DiffGate`, `StateSchema`, `ProposalLedger` and `BacktestEngine` | |
| `OrderFacts` | what several of these proofs need: least and greatest elements, induction over a bounded range, the existence of a recursive function | |

`MCFetch` and `MCRules` hold components that share no state. A variable (`scale`,
`area`) is chosen in `Init` and never changes; a behaviour moves the component it
names and leaves the others as they started. A property of one component then says
in that run what it would say in a run of its own, and a behaviour of the run is a
behaviour of that component. To look at one component alone, fix the variable in
`FetchInit` or `RulesInit`.

### DataSync

State: `manifest` and `objects` are the bucket; `local[m]` is a machine's two
trees, `synced[m]` its `.r2_sync_state.json` (generation and window); `pc[m]` and
`job[m]` are the command under way and what it has read. A file's content is the
set of edits made to it (`{}`: no file), which is what sha256 can tell apart and
makes "an edit was lost" a subset question. Keys are numbers in the order `sorted`
visits them; `reports/` keys have a run date.

Actions are the commands' externally visible steps in code order. `pull`:
`PullBegin` (read the manifest, choose keys, scan the disk), `Fetch` per object
(download, verify size and digest, rename; `FetchMismatch` aborts), `StartPrune`,
`Prune` per file, `PullEnd` (`write_state`). `push`: `PushBegin` (all guards),
`Upload` per object, `Commit` (the manifest PUT), `Record`, `ListGarbage`, `Delete`
per object, `PushEnd`. `Crash` may end any command after any step in `CrashSteps`;
`Edit`, `Discard` and `Reprovision` (a fresh CI disk) are the environment.

`Exclusive` says whether commands may overlap. The CI concurrency group serialises
jobs only; nothing serialises an operator with a job. The three runs assume
`Exclusive = TRUE` (sessions of pull, edit and push still interleave); what holds when
commands overlap is proved with `Exclusive` left open (`PullYieldsOneGeneration`,
`InSyncIsPublished`, type correctness), and what then fails is in the last table of this file.

| Run | Shows |
|---|---|
| `sync_protocol` | Operator (full tree) and runner (window of one run date), any crash, commands one at a time: type, existence, one-generation pulls, append-only runner, collected garbage, agreement of `status` with `push`, no lost edit, and refinement of `SnapshotRegister`. |
| `sync_windows` | Two operators bootstrapping an empty bucket with a foreign object, any window, deletions, crashes after the commit point: every generation is complete. |
| `sync_stale_archive` (violation) | `NoWriteReverted`: a machine pulls everything; another corrects an archive and pushes; the first pulls a window that leaves the archive out, and its next push puts the older content back. |

Bounds: two machines, one data key and two or three report keys on distinct run
dates, two or three edits, three generations. Every guard relates at most one key
to one window and two consecutive generations; three generations let a stale
working copy be two behind, and the third key gives a window something to slide
over. `sync_windows` switches deadlock checking off: a user may delete the last
file when no edit is left, after which nothing can happen.

### TrackingLedger

State: `bars`, `splits` are the market's history (chosen in `Init`, never read
directly by the code); `stored[s]`, `recorded[s]` say through which day the
symbol's bars and corporate actions are in the store; `verdicts` is the verdicts
table; `ledger` and `marks` are the two ledger tables; `hold` is the configured
`max_hold_days`; `pc` and `plan` are the update under way.

A price is an amount of *value*, free of splits; `Quote(s, x, d)` is that value in
the dollars of day `d`. What the ledger stores is dollars of some day, and the
properties say of which: this is how a missing, doubled or misplaced re-basing
shows. Every split is `Factor`-for-1; the ATR is known after `AtrPeriod` sessions
and its multiple is the constant `TrailGap` (an average of ranges adds nothing to
the questions asked). 0 stands for `None`.

An update is `BeginUpdate` (daily or operator, possibly with an earlier `--as-of`),
`PurgeOrphans`, `SyncRecommendations`, `ReadLedgerAndBars`, `ReadSplits` and one
`WritePosition` per position, each a transaction or a read of its own; price
steps, collections, configuration changes and a crash come in between. A rebuild
is a committed delete followed by an ordinary update. `WritePosition` contains
the whole of `_rebased_work`/`_seed_position` and `_advance`.

The properties compare the stored rows with `TrueEntry`, `StopInForce`, `EndsOn`
and `TrueExit`, which state the trade from the history alone: the entry is the
close of the run's day, the stop is the highest set on any earlier day, the trade
ends on the first session that touches it or is the last allowed.

| Run | Shows |
|---|---|
| `ledger_replay` | Two verdicts on one symbol, rally, drift, dip, gap and missing days, one split or two in a row, failed fetches, an assessment without prices, updates in any `--as-of` order: open positions, closed ones and marks are what the history says (`LedgerMatchesReplay`), and a closed position stays as it is (`ClosedIsFinal`). |
| `ledger_recovery` | Two symbols of one run, one frozen without a stop and one from a wrong price, collections that add, correct and retract, a crash anywhere, a rebuild, a reconfigured holding rule: `LedgerMatchesReplay` still holds, and the ledger catches up by itself (`LedgerSettles`). |

Bounds: three or four days, one or two symbols, two verdicts. Four days allow an
entry, a split, a stop move and an exit in every order; two verdicts make the
order of pending work and shared bars matter. Factor-2 splits with distinct price
levels keep all re-basings distinguishable.

Fairness (`FairSpec`): an update under way goes on until it ends or dies, which is
what `[]<>(pc = "idle")` says; and the daily job keeps running its track-update
step (strong fairness, because operators may run other updates in between).
Collections, rebuilds and crashes are bounded, so they cease: without that no
ledger could settle.

Assumed: one updater at a time (the ledger's rows are only written by updates and
there is no lock; see the hazard list), and a split that is recorded only after
its sessions were marked is the operator's cue for `rebuild`, as the code's
documentation says. `Replayable` names the circumstances of `LedgerMatchesReplay`, and
TLC checks of every instance that they hold (`InstancesAreReplayable`): a bar's low is no
higher than its open and its close is beyond what the stops subtract; split days have a
bar; a price step stores the actions of a symbol with its bars or neither; a price frozen
without a stop, or a wrong one, only occurs where no fetch fails. A
split whose bars are quarantined leaves the code between a split that divides the
bars and one that re-bases the stored prices, and a position is stopped out at a
price that never traded (`NoPhantomExit`, see Findings). `SplitFactor` is a product over
the set of a symbol's split days, day by day in order.

### DailyRun and DailyJob

`DailyRun` is one `copilot-daily` on a machine's working copy. State: `tree[m]`
holds the rows of `runs` (session, replay or live, status, whether the screening
picked anything, the gaps the run reported) and which run directories hold an
`analysis_input.json` (`input`), an `analysis_result.json` (`result`) or a replay's
stamp (`stamp`); `proc[m]` is the run under way, `outcome[m]` the outcome file,
`closed` the last closed session. Runs are numbered in the order they start.

The preflight is `PriceFetchFailed`, `NoTradingDay`, `SameDayRerun` or `StartRun`
(which contains the gap check, read from the same working copy just before), then
`MarkStale`, `RecordScreening`, `RiskAndText`, `Export`, `Stamp`, `FinalizeOutput`
and `WriteOutcome`; `FatalStepFails` ends a run `failed`; `Kill` may come between
any two. What a step computes is a choice of success. `Lookback` counts sessions
where the code counts calendar days.

`DailyJob` adds the mirror as one generation-numbered value (`remote`), the jobs
and the operators. A runner's job is `Pull`, any calls of `copilot-daily` and
answers, `Push`, `Verify`; `StepFails` is any failure before the push, which
discards the runner. An operator pulls, works, answers older days and pushes. The
workflow runs one job at a time; operators interleave freely with it. A pull and a
push are one step each here: what can go wrong inside them is `DataSync`'s subject.

| Run | Shows |
|---|---|
| `job_desk` | A runner and an operator on one session, two runs and two pushes by anyone: a green job whose pipeline ran has published its own analysis (`GreenIsPublished`), and no session succeeds twice (`OneSuccessPerSession`). |
| `job_replays` | Three runs over two sessions, live or `--as-of`, with or without `--allow-same-day-rerun`, killed anywhere: a live run reports exactly the days that are owed (`GapsAreExact`: every finished, exported and unanswered live run of an earlier session, and never a replay). |

Bounds: one session is where a runner and an operator can meet; two sessions make "today" and "an earlier day"; two runs make a first and a
second start, and the third one of `job_replays` adds a sibling of the same
session; three generations let two machines that pulled the same one both push.
Deadlock checking is off: with the last run started and the last generation pushed
nothing is left to do. No liveness is claimed: nothing in the repository promises
that a job is dispatched (its schedule is switched off).

Left out: dry runs (a database and a tree of their own), the read errors that
`_prior_analysis_gaps` swallows, a stamp that cannot be written (logged, and the
code accepts the false report that follows), the job's collect step and its
notification.

### SplitBasis and MarketBars

`SplitBasis` is the arithmetic of splits: reading a provider's answer back into
as-traded prices (`Unadjust`, with the vote on which splits were pushed back and the
walk that finds the rows corrected anyway), reading stored prices at a cutoff
(`AdjustBars`), and the signature of a series on two bases (`HasMixedBasis`). Prices
and factors are logarithms to base 2 and every factor is a power of two, so each
tolerance band of the code separates the same cases as equality does. Factors nearer
to 1, which the code does not classify, are outside the instances.

`MarketBars` is the store and the three commands that write it. State: `rows[s]` is
what the year files hold of a symbol, `recorded[s]` its splits in
`corporate_actions`, `marker` the format marker; `pc[w]` and `job[w]` are a command
and its batch; `market` is the exchange's history and `today` its date. A command is
`DailyPrices`, `Backfill` or `Rebuild` (the window, the fetch, one answer per
symbol), `RecordActions`, then `OpenForWrite` and `Gate` or `OpenForRebuild`, and per
year `LoadPartition` and `PublishPartition`; `FormatRefused` ends it early, `Crash`
anywhere. A year's file is read and replaced in two steps, as in the code.

An answer leaves out up to `MaxMissing` sessions (never an ex-date's), fails to push
back any listed splits, and adjusts any rows for them nevertheless. What the code
can cope with of that is `Plausible`: it is what the docstrings of
`unadjust_yahoo_bars` and `_classify_corrected_rows` describe (a handful of recent
rows, a majority of voters untouched, no leap of the market at the boundary). Worse
answers are let through where the gate is to stop them: when every row of the answer
is already stored. A worse answer for a *new* symbol goes into the store as it
would in the code; nothing there could tell, and the properties do not ask.

| Run | Shows |
|---|---|
| `bars_store` | One writer, two symbols, an empty root or one from before Issue #413, two commands, a crash anywhere: no basis enters the store but the as-traded one (`NoNewOldBasis`), history is only rebuilt (`OnlyRebuildChangesHistory`), files only join a marked root (`PublishedIsMarked`), and readers see the market's moves at every cutoff (`ReadersSeeOneBasis`). |

Bounds: five sessions in two years, so a batch has two files and a crash fits
between them; a reverse split on day 2 with a split on day 5, or a split after a
doubling; two commands, so that the second meets what the first left behind; runs
of at most two sessions count as a flip (`FlipRun`; the code's 25 of a 36-year
history) and three sessions vote (`Sample`; the code asks five,
the majority is the same question). Each split is within every window of the
instance, as a rebuild or a lookback that covers it would have it; otherwise
`ReadersSeeOneBasis` would speak of splits no command has met. Deadlock checking is
off: after the last command and the last day nothing is left to do.

A limit the model makes visible: a real one-session move of a split's size, a few
sessions before a split of that size, is indistinguishable from a flip and is
quarantined until rebuilt. The instances hold no such move (`Plausible` excludes it
around a split that lags), as `GoodAnswersPass` says of the rest.

Left out: OHLV columns and volume, the rejection of non-finite values, dropped-session
reports and the missing-session audit (they report and change nothing), provider
and time stamps. One writer at a time in the passing run: see Findings.

### VerdictArchive

State: `verdicts`, `sources`, `reasons`, `digests`, `outcomes` are the archive's
tables; `revision[r]` is which version of its documents a run directory holds;
`closes` the stored bars; `worker[w]` a process, with all it has read and not yet
written. A process is a daily pass (`PendingOnly`) or the manual batch.

A pass is `Begin` (the schema's backfill of reasons, the reads of digests),
`Fingerprint` and, where that differs, `Load` per run directory, `Adopt`, one
`WriteRun` transaction per adopted run, `OpenWindow`, one `EvaluateSlice`
transaction per run and horizon, `Finish`; `Crash` anywhere. `NextSession`, `Ingest`
(a document appears or is corrected) and `Repair` (a re-fetch changes or drops a bar)
come in between, also between the hash of a document and its parse.
`AdoptOneRunPerDate` is used by the scan and, over rows, by every reader, as in the
code. `MaturityDay` counts the benchmark's own bars.

| Run | Shows |
|---|---|
| `retro_archive` | Two runs of one date, one collected before digests existed, the later one broken at first; corrections that flip and drop symbols; a dropped bar of a symbol or of the benchmark; a daily job and a manual batch, killed anywhere. A stored digest speaks for the rows (`RowsMatchDocuments`), no outcome outlives its verdict (`OutcomesHaveVerdicts`), readers represent a date by the run `collect` adopts (`ReadersFollowCollect`), and the archive ends up with the last documents and every outcome that matured (`ArchiveSettles`). |
| `retro_maturity` (violation) | Two runs of different dates whose outcomes of different horizons mature on one session: the dossier drops those of the earlier run. |

Fairness (`FairSpec`): passes are run to their end again and again, and both processes
are idle again and again; the timer and the operator see to the first, processes that
end or die to the second. Corrections and repairs are bounded by the revisions and by
one changed bar, so they cease.

Bounds: four sessions with horizons of one and two, so that both mature and one
window holds outcomes of two dates; two symbols, so that a slice can be partly
measurable; two or three revisions, so that an adopted run changes under a pass.

Abstracted: a digest is injective (the first revision with the same content stands
for it); citations are resolved per symbol; benchmark and audit closes of an outcome
are left out; a slice is read and replaced in one step. One process at a time
(`Exclusive`), which nothing in the code enforces: see Findings.

### Fundamentals and RequestThrottle

`Fundamentals` decides, day by day, whether a symbol is polled. State: `filings[s]`
is what the company has filed and when its facts land; `ingested`, `collected` and
`log` are the fundamentals table, the text table's filings and the fetch log; `step`
is the run under way. A run is `Begin`, per symbol `SkipFresh`, `FetchAnswers` or
`FetchFails`, `BudgetExceeded`, then the transactions `UpsertFundamentals` and
`RecordFetches`, and `CollectText`; `Crash` anywhere, `BackfillFundamentals` between
runs. The wall clock and the evaluation date are two clocks (`Lags`), as in a replay
of a past date. What a run has still to ask is a set of positions of the universe, the
held ones first (`FetchOrder`). `NothingOverdue` speaks of the filings in the window of
the newer of the run and the last answered poll: a poll at a later day settles the row,
so a replay of an earlier day does not ask again for what has left that window.

`RequestThrottle` is one process calling the clients of two accounts: `Call`,
`Attempt` (which waits, records the instant it computed and sends), `Return`,
`RetryableError`, `TooManyRequests`, with EDGAR's own reading of a 429. `Slack` bounds
how much later than recorded a request leaves. `issued`, `blockedUntil` and the
`until` of a call are history: when requests left, and until when they should not.

### TextCollection

State: `table` is `text_items`; `turn` the collection under way. The daily step goes
target by target through news and filings, filing by filing through the notice, the
attachment list and each exhibit, under the count cap and the shared budget, and
stores the unique items in one transaction; each of the reads may fail, with what
that costs in the code. `BeginFreshness` is the retrospective's question for one
symbol, which stores nothing. A text is the sizes of what was kept of it.

Left out: FRED's enrichment of the calendar, the ranking of news under its budget.

### FilingSelection

The share-out of the export's characters, as operators over lengths: `SelectFilings`
reserves minima and then spends the ceiling by priority, `SelectExhibits` and
`SelectSections` cut one filing by its structure, `SelectBlocks` an exhibit. The
behaviour is one filing more at a time, of which the newest are kept. What is excerpted
where is counted exactly: markers, headers, separators.

| Run | Shows |
|---|---|
| `fetch` | Days: a filing is in the store a refresh interval after its facts are out, whatever replays, empty answers, failures and budget cuts did (`NothingOverdue`), and an announced one is polled for until it lands (`PendingIsRetried`). Seconds: an account's requests keep its rate over retries, waits and shared clients (`RateIsKept`), and no retry leaves while SEC blocks the client (`RetriesWaitOutTheBlock`). Texts: a cut text says so (`CutsAreMarked`), and what answered is stored whatever else failed (`AnsweredTargetsAreCollected`). Excerpts: no filing is left without its minimum (`NoFilingIsStarved`). |

Bounds: one symbol suffices for the days, because symbols meet only in the budget cut,
which the model lets fall anywhere; an interval of three days with gaps 1 and 2 stands
for seven with 1, 2 and 4 (gaps that grow and sum to the interval are assumed); two
filings make one newer than the other; at most one midnight falls into a run; the
lookback is the interval, so that filings leave the window within the eight days. Three requests of an account under two delays
reach a last attempt; an account of two clients and one of one are what sharing can
change. Two targets and three notices are what a shared text and a budget that runs
out need; three filings per symbol, of all forms and lengths, what a reservation
needs. Deadlock checking is off: the clocks end.

`PendingIsRetried` speaks of the newest collected filing: once a newer one is stored,
the trigger looks at that, and an older one whose facts are still missing waits for
the weekly backstop.

### ProposalLedger

State: the dossier and the answer of each date, the rows of the proposal ledger
(`proposals`), the full texts, `sessions` (what the database holds of each
retrospective) and the ingest under way. `Export`, `AnswerDossier`, then the
ingest step by step: `BeginIngest` (all checks), `Number`, `WriteFullText` per
document, `AppendRows`, `PersistNarrations`; `IngestDies` anywhere. People `Decide`
on rows and `WriteRowByHand`. Four stores and no transaction. A proposal that survives
the checks keeps its position in the answer; `InOrder` puts the new rows in that order. Nobody else acts
during an ingest (`Overlaps = FALSE`), because nothing reserves a number until its
document is written.

### BacktestEngine

The day loop in code order: `OpenSession`, `FillPendingEntries`, `ProcessExits`,
`UpdateTrailingStops`, `CloseSession` (mark and screen), `LiquidateRemaining`; state is
the simulator's own (`cash`, positions, pending candidates, blocks, trades). Both entry
policies, limit and day orders, slippage, commissions, the concurrency limit and every
block reason are there. Money counts fractions of a dollar (1/`CostUnit`²), so no
quotient the program keeps is rounded here.

A loop of the code is `AfterEach`, the book after a step for each candidate or position;
a sum is `Total`. Of malformed bars there are those that hold a zero (a fill at no price is
refused as `invalid_stop`); prices that are negative or not numbers are left out.

Also left out: the benchmark curve, the candidate-stream cache, and Sharpe, drawdown,
win-rate and holding statistics.

### AnalysisDesk

State: per run the exported input, the archived context, the fragments, the result
and the report; the slice files; what is being cut. `ExportInput`, `ArchiveContext`,
`CutSlices` with `RenameSlice` per file and `CutFails` between any two,
`WriteFragment`, `ReuseFragment`, `Merge`, `Ingest`, `IngestRefuses`. Experts and
orchestrator are not code, so they may read whichever slice lies
there and, up to `MaxSlips`, do what they must not: invent a fact, give an order, merge
unverified or incomplete work. The orchestrator adds the reasons of its verdicts when it
merges (`VerdictReasons`), after the fragments were checked and so only checked by
`Ingest`: they may slip, too, and cite what the run did not export for that symbol, or give
an order. A quote occurs in a body when it was taken from that very body.

Left out: calendar events (any symbol may cite them); the language check is a choice of
pass or fail.

### MarketRegime

State: the market's sessions and the decision each run recorded. `RecordSession` is a
session and its run: the gate, the distribution days with expiry and recovery, the
follow-through machine of each index, and the exposure ceiling, from the rows a run
reads back. The replay (`Observations`, `ObservedLevel`, `ObservedGate`) is a
second computation over the same market, from its own trailing rows. Ratios are per
mille, distribution days half days.

Left out: the bonus for simultaneous confirmation, forward outcomes and level
statistics of the research commands, the equal-weight basket.

### Screening

State: the stored sessions and filings, and what each day's screen recorded. A
`ScreenDay` stores a session and at most one filing, then screens: two filters, three
signals, the ranking with the components that weigh, the cut, the near misses and one
`Rejection` per other symbol, whose classifier mirrors each check in code of its own,
as in the repository. `BlockedBy` and `CandidateEquivalent` are the filter matrix,
which measures each check again on its own. RSI and ATR are data of a bar. The average volume
skips missing volumes, as pandas' mean does, and is unknown if it has only such.

Of the seven components of the ranking the model has the three with a weight in
`config/strategies.yaml`; ATR share, pivot proximity, relative strength and criteria met weigh
nothing there. Also left out: the swing detection of the VCP strategy.

### RetroMetrics

State: the archive a window of verdicts is read from (verdicts, outcomes, positions)
and the benchmark's bars. The dossier's numbers are operators of it: the separation
pooled, paired by day and paired on excess returns, both rates with their baselines,
tallies by evidence, source and configuration, coverage of inputs, surprises, the shadow
ledger. A mean is an exact pair of sum and count.

Left out: standard errors, Welch and Wilson intervals, preliminary flags, mention
statistics, the maximum adverse return, the median holding time.

### Postmortem

State: the screens of the runs, the two outcome tables, the bars, the pass under way.
A `Run` records its screen and starts its pass: per horizon `SkipHorizon`, or
`ReplaceSignalOutcomes` and then `ReplaceUniverseForwardReturns`, two transactions;
`Interrupted` between any two. Reruns of a day, runs that fail before screening, late,
missing and corrected bars come in between.

Left out: the rounding of the hit rate, its preliminary flag, the calendar padding of the
window.

### DiffGate

State: what fork point, upstream, HEAD, index and work tree hold of each path. A
developer edits, stages, commits, fetches and merges; running the gate changes
nothing, so what it selects (`Select`) and whether it is green (`Green`) are operators
of the state, the latter of whether the coverage report can be read, too: one that cannot
is not held against the change. The rule table is `Classify`; a directory target is the set
of its tests. The coverage floor is abstracted to its least demand, that a test of the run
loads the changed module, itself or through another module it imports (`Uses`).

Left out: lint and type-check stages, the printed table.

### StateSchema

State: the columns the file has, the rows each release wrote, whether the views are this
release's, the statement under way. `Open` starts a migration, `NextStatement` executes
it statement by statement, `CloseStore` ends the process anywhere;
`RecordRun`, `Reevaluate` and `Recollect` write as this release does. Releases are
ordered by the issue that added a column; columns written together count as one; a
file migrated by an intermediate release has that release's backfills.

Left out: tables that are dropped and created again, columns whose readers do not tell
an old row from a new one, an old release that writes to a file that was migrated.

| Run | Shows |
|---|---|
| `rules` | Nine components side by side. An RP number names one proposal although an ingest dies between a full text and its row (`NumbersNameOneProposal`). Cash, positions and trades tell one story (`BooksBalance`). A report states only what its own run's input says (`ReportRestsOnItsInput`). A confirmed follow-through day rests on the rally it belongs to (`FtdRestsOnItsRally`), and the replay gives every session the level its run recorded (`ReplayRepeatsTheRuns`). Matrix and record agree on every symbol of every day (`MatrixAgrees`). The market's moves cancel out of the paired separations (`PairingCancelsTheMarket`). The two outcome tables tell one story (`TablesAgree`). A green gate has run the tests of every module the developer wrote (`GreenTestsTheWork`). However often a migration died, no reader is told a value that was not the run's (`MigrationKeepsTheRecord`). |

Bounds: two dates, keys, exports and answers make a proposal that is re-proposed,
closed and reopened. Four sessions and two symbols fill, refuse, trail, stop, age and
liquidate; the tape holds a gap through a stop, days without a bar or an ATR, a
malformed bar and a limit not reached. Two analysis runs are what a stale slice or a reused reading needs.
Eleven sessions with windows of four let a distribution day expire and a rally start,
fail and confirm; the trailing rows are as few as the counts need. Six screened days
with averages of two to four sessions fill and empty every window; one late report
may correct, complete or spoil a symbol. Two run days with horizons one and two give
every pairing a cell with one side and one with both. A file of any release meets
three opens with a death at any statement; rows do not interact, so one run suffices.
Deadlock checking is off: every component's clock or budget ends.
No liveness is claimed for these components: each is a batch that a person or
a timer starts.

## Proofs

TLC answers for the instances above, TLAPS for every value of the constants. Each
proof module states an inductive invariant as a conjunction of named parts, shows that
`Init` implies it and every action keeps it, one step per action, and derives the
property. `PROJECT.json` lists the theorems. Besides the named assumptions on the
constants (which TLC evaluates on every run), a theorem may need a circumstance;
each is named in its `ASSUME`, and where the code does not enforce it, dropping it is
one of the findings below.

**The mirror** (`DataSyncProofs`), for any machines, keys, windows and crash points:

* `TypeCorrect`: the type invariant; `TypeInv` adds the shape of the job record and that
  a commit under way has room.
* `PullYieldsOneGeneration` needs nothing of other machines: a pull compares everything
  with the manifest it read. `PullInv` says which keys are already that manifest's, and
  that everything that should not be there is still on the list to prune.
* `InSyncIsPublished` follows from the type alone: what `status` calls in-sync is what
  `push` finds nothing to do for.
* `ReferencedAlwaysExist`, `OrphansAreCollected`: if commands do not overlap
  (`Exclusive`), every listed key has an object, and a completed push of the whole tree
  leaves no other. `ReferencedExist` is not inductive: `Commit` lists keys whose uploads
  were earlier steps and `Delete` removes keys chosen by an earlier one. `ReferencedInv`
  adds that one command runs, that a pushing machine's uploaded keys are in the bucket,
  that between commit and garbage listing the manifest is the one just computed, and that
  keys still to delete are not listed; `GarbageInv` that what is not listed is still to be
  deleted.
* `GenerationsAreComplete`: if besides no push dies while it uploads, every object holds
  the listed bytes. That is the crash after which the finding `CommitIsComplete` arises.
* `PublishedEditsStay`, `RunnersOnlyAppend`, `MirrorIsARegister`: if commands do not
  overlap and operators pull everything (`OperatorsPullAll`), no push makes a published
  edit disappear, a runner changes no published archive, and the whole protocol
  implements `SnapshotRegister`: a commit is a publish, the end of a pull and the record
  of a push an adopt, a fresh runner a forget, and nothing else shows. `EditInv` says
  that a machine that recorded the current generation still holds its edits, an operator
  of every key, a runner of the data keys; what a runner's window left out is
  covered by the append-only check it passed. With a windowed operator nothing covers it
  (`PublishedArchivesStay`, `ArchivesStayListed` below), with overlapping commands
  `NoEditLost` fails.

**The tracking ledger** (`TrackingLedgerProofs`), for any verdicts, histories, splits,
configurations, crashes and `--as-of` order:

* `ClosedNeverPlanned` (work is pending only between an update's read and its last write,
  and none of it is a closed position) is the invariant behind `ClosedStaysFinal`.
* `LedgerReplaysItsHistory`, in the circumstances `Replayable`: every position, exit and
  mark is what the price history alone prescribes, however the updates were cut up, cut
  back by `--as-of`, or crashed. `FitsInv` says it of the stored rows: the figures of a
  position and of its marks are those of its history in the dollars of *one* day, the
  last it was marked on or a later one it was re-based to. `PlanInv` says what an update
  carries between its transactions: bars and splits of each symbol read as of one cut,
  splits that agree with those bars, and only positions that may be opened;
  `MarketInv` says what a price step may store. One session is one step of an
  induction over days (`SessionFits`, `AdvanceFits`); a re-basing multiplies figures and
  dollars by the same ratio (`RebasedFits`), which rests on `SplitFactor` of a union of
  disjoint days being a product (`SplitFactorOfUnion`).

**The market store and the screen** (`MarketBarsProofs`), for any symbols, histories,
answers, years and crashes, and for any universe, thresholds, sessions and filings:

* `NoUnmarkedPublish`, for any number of overlapping commands. The marker is never
  removed, so it is enough that it is there once a command has opened the store.
* `HistoryIsKept`, with one writer. The gate compares with the rows stored then, and
  files are replaced later, one by one from a copy; so the invariant says that between
  load and publish the copy still is the stored year (`LoadedInv`), and that what passed
  the gate agrees with every stored row, also with those its own earlier files have added
  (`AgreesInv`). With a second writer both parts fail, and so does the property.
* `RecordAndMatrixAgree` (`Screening`), of a strategy whose signals judge a symbol by
  itself, in the circumstances `CompleteInputs`: a filing is stored on the day it is filed,
  the matrix reads as far back as the screen; and as long as no symbol has only missing
  volumes in the days of its average (`NeverAllMissing`). The findings with
  `FilingLags = {0, 1}`, with `FloorRows = 3` and with a `Missing` volume in `Quotes` are what
  happens without each. On one input (`ScreenAgrees`) the classifier stops a symbol exactly where
  the filter does (`FundamentalsMirror`, which rests on there being at most `Quarters` newest
  quarters, `RecentIsBounded`; `LiquidityMirrors`), the first check that blocks is the one
  recorded (`RejectionAgrees`), and the ranking, a sort by insertion, has every hit once
  (`RankingLists`). Over time `ScreeningInv` says that no filing is dated after the last
  session, so that what comes later is not in what a day sees (`SameSightAgrees`).

**The verdict archive** (`VerdictArchiveProofs`), for any runs, documents, windows,
horizons and deaths. `ArchiveShape` is what the variables hold.

* `DigestSpeaksForTheRows`, for any number of overlapping processes and documents
  replaced between their hash and their parse: a digest that matches means the rows match,
  if documents never return to a text they had (`NeverReverted`; otherwise see
  `RowsMatchDocuments` below). The digest is taken before the parse, so the rows may be of
  a newer revision than the digest, never of an older one: `DigestInv` says so of what is
  stored and `ScanInv` of what a pass carries.
* `NoOutcomeOutlivesItsVerdict`, while processes do not overlap (`Exclusive`): the rows a
  pass evaluates from are the stored ones (`WindowInv`), because a pass writes all its
  runs before it opens its window.
* `DatesHaveOneRun`: in a pass that nothing disturbed, readers represent no date by a run
  `collect` would not adopt, if corrections do not break readable documents
  (`StaysReadable`) and no run ends without a verdict (`EveryRunHasVerdicts`); both
  circumstances are needed (`BreaksLater`, `EmptyLater` below). `CoverInv` follows a
  readable run through the scan: it is still to be read, found, skipped because its rows
  are stored, written, or replaced by a later one. The adopted run of a date exists because
  the order of runs is well-founded (`OrderFacts`).

**The daily job** (`DailyJobProofs`), for any machines, sessions and runs:

* `JobTypeCorrect`: the types, from `RunInv`, which also says that a run under way is
  known to its own copy only, is the newest there, and has the status its step implies.
* `OneRunStandsForASession`: unless somebody passes `--allow-same-day-rerun`, no two
  runs succeed on one session, on the mirror or in a copy, although `run_daily` looks
  only at the copy its machine pulled. `SuccessInv` adds that a copy with a run under way
  has no other success for that run's session: copies come from the mirror whole, and a
  push needs the generation it pulled.
* `OwedDaysAreListed`: a live run lists exactly the days that are owed. `GapsInv` says it
  of every copy and of the mirror, since rows travel.
* `PublicationIsKept`, `GreenDayIsPublished`: a push replaces the database file as a whole
  and yet loses nothing that was published; a green job's own analysis is on the mirror.
  `MirrorInv` relates the copies to the mirror: a working copy of the current generation
  extends it, and one that was pushed is extended by it from then on.

**Fetching** (`FetchProofs`).

* `BackstopHolds`, `TriggerStaysArmed`, for any universe, intervals, delays of the facts
  and lags of the evaluated day. Neither property says why the store is complete.
  `CoverInv` does: a fetch horizon means what it says, the facts that were out before it,
  of the filings in its window, are stored. It is kept because the upsert commits before
  the log row claims the horizon and because an empty answer moves no horizon; `RunInv`
  follows what this run's polls answered from the records into the store, and says of
  every symbol that it is still queued, was asked, or needed no poll.
* `RateIsAlwaysKept`, for any clients, accounts, delays and clocks: n+1 requests of one
  account span n intervals, but for one oversleep; lateness never adds up. The property
  relates requests to each other, the code computes waits from a recorded instant:
  `SpacingInv` relates each request to that instant.
* `BlocksAreWaitedOut`: a call that met a block has waited it out (`BlockInv`).
* `CutsAreAlwaysMarked` (`TextCollection`), for any listing, caps, portfolios and failures,
  if an accession number names one filing (`TextInputs`). `TextInv` is about the text under
  way: what was kept and what is left of the budget are the whole budget, and without the
  mark every exhibit read so far is whole. A finished text without a mark then holds as many
  exhibits as the filing has, each whole, so it is the filing's (`TextSaysItsCuts`); from
  there lists, the removal of duplicates and the upsert only pass items on (`MarkedList`).
* `AnswersAreCollected` (`TextCollection`). `GatherInv` says of a turn what it owes: of the
  targets behind it, all they were asked for unless they failed; of the one being asked, what
  its step implies, the filings read and the filings still to read being the newest of its
  window. That they are is the correctness of the cut listing, a sort by insertion
  (`ByDateSorts`, `NewestAreAsked`). Who owns a shared text follows from an order, no
  symbol that is not held before a held one (`HeldFirst`), and from the first of several
  items with one id being kept (`FirstIsKept`).

**The rules** (`RulesProofs`).

* `ReportsAreQuoted`, `PreflightHoldsAtIngest` (`AnalysisDesk`), whatever experts write,
  whichever slices they read and whatever is carried over: one part of `DeskInv` per
  document of the chain says what may stand in slices, fragments, results and reports. Of a
  merge whose fragments verified, ingest withholds exactly what the orchestrator's own
  reasons spoil: no other part of a section is checked for the first time there.
* `TablesTellOneStory` (`Postmortem`): outside a slice whose two replacements were cut
  apart the two tables agree. Between the two transactions nothing moves that the second
  one reads (`HalfInv`).
* `GreenMeansTested` (`DiffGate`): a green gate has run the tests of what was written
  and they pass, and unless the coverage report could not be read one that passes loads each
  module, if there is a base to compare with (`BaseKnown`: a remote, or no local branch `main`; the
  finding with `HasRemote = FALSE` is what happens without).
* `RecordsSurviveMigration` (`StateSchema`), from every layout, for any rows, however often
  a migration died: each row keeps what it recorded and gets what it implies. `SchemaInv`
  says what the statements executed so far have established, and that the recreated views
  imply every earlier statement. `SchemaFacts` assumes of the rows of older releases what
  the backfills rest on: that runs before a column existed could only have had the one
  value it is filled with, and that a component scored later has no value
  (`storage/schema.py:741`).
* `BacktestBooksBalance`, `EveryCandidateIsCounted`, `PositionsAreSizedAsPlanned`
  (`BacktestEngine`), for any tape, rankings, arms, plans and costs, if no price is
  negative (`MarketConstants`). The conjuncts of `BacktestInv`: `CashInv` is the ledger,
  `CandidatesInv` counts the list under way from its fills on, `SizingInv` says that nothing
  moves between the close that is marked and the fills it sizes, and the type of `held`
  and `trades` (`OpenPositions`, `ClosedPositions`) holds the caps and the risk. Every
  loop of a day has a lemma that says what it runs through (`BlockLoop`, `ConsiderLoop`,
  `ExitLoop`, `SellLoop`) and one for its body: a candidate adds one block or one paid
  position (`CandidateCounts`), an exit or a sale turns a position's cost into a pnl
  (`ExitAddsUp`, `SaleAdds`).
* `ConfirmationRestsOnItsRally` (`MarketRegime`), for any history of positive closes,
  averages and days the rules permit. A run replays the machine over the rows it reads, so
  the invariant is one over rows, not over runs: `FtdIs` says of the machine after row k
  which rows its state rests on (`RallyIs`, `ConfirmationIs`), and of the trend that its
  high is the highest close and its count the closes that fell in a row (`TrendIs`), which
  is why a correction the machine sees is one of the definition (`SeenIsCorrected`).
* `NumbersAreNeverReused` (`ProposalLedger`): while nobody else works on the ledger
  during an ingest (`~Overlaps`; the finding with `Overlaps = TRUE` is the other case), an
  RP number names one proposal for ever, through ingests that die between a full text and
  its row and are repeated. `NumberedInv` says of an ingest under way that the numbers it
  chose are no row's and no other new proposal's, and that a full text that has one is that
  proposal's. That the rows are appended in order, each once, is a counting argument
  about positions (`Rank`, `InOrder`) in place of an induction.

Only model-checked, and why:

* liveness: `LedgerSettles`, `ArchiveSettles`;
* what a fold, a sort or a walk computes for every input. An induction over data can be
  done here where the recursion is a function on a range of numbers: the induction is then
  one over a set (`Induction`, `RecursionExists` of `OrderFacts`), and the replay of the
  ledger, the sums and loops of a backtest, the machine of the follow-through day, the
  size of a text, the sorted listing and the ranking are proved that way. Left are the
  walk over an answer (`ReadersSeeOneBasis`, `NoNewOldBasis`), moving averages and their
  read-back (`ReplayRepeatsTheRuns`), the pairing of cells (`PairingCancelsTheMarket`),
  and the selection of texts (`NoFilingIsStarved`).

## Findings

Two runs end in a violation, each of a sentence in the code's own documentation;
`PROJECT.json` quotes the sentence and the line.

The modules state more that the code does not have in every circumstance, kept out of
the listed runs. Each fails in the configuration named, changed as said and with the
property added to it:

| Property | Configuration | What happens |
|---|---|---|
| `NoEditLost` | `sync_protocol` with two operators (`Machines = {laptop, desk}`, `Runners = {}`), `CrashSteps = {}`, `Exclusive = FALSE` | Two pushes that read the same generation both commit: the manifest PUT is unconditional, and an edit is lost undetected. |
| `CommitIsComplete` | `sync_protocol` with two operators | After a push died between its uploads, a push from a full tree skips the torn key as unchanged: the "repair" commits a generation no pull can read. |
| `PublishedArchivesStay` | `sync_protocol` with `Machines = {laptop}`, `Runners = {}`, `PullWindows <- WindowTwo`, `CrashSteps = {}`, `Discardable = {4}`, `Seed = {1, 2, 3, 4}`, `MaxGeneration = 4` | A published archive that is locally absent survives the windowed push that drops it from the manifest, and is collected as an orphan by the next one (the docstring at `scripts/data_sync.py:527` says a windowed push must never delete it). |
| `ArchivesStayListed` | the same | The window is recomputed at push time, reaches back over a run date that was never fetched, and the push drops it. |
| `NoPhantomExit` | `ledger_replay` with `Histories <- OneHistory`, `SplitSets <- OneSplit`, `FetchOutcomes = {"stored", "quarantined"}`, `MaxCollects = 1`, `AnyAsOf = FALSE`, without the assumption `InstancesAreReplayable` | A split recorded while its bars are quarantined: the stop is re-based, the bars are not, and a position is stopped out at a price that never traded (`_rebase_position` promises it can not). |
| `StopHasLiveRun` | `job_desk` with `Replayers = {desk}` | A replay's success row stands in for a live run that never happened. |
| `FailedDayIsRed` | `job_desk` with `Machines = {ci}`, `Sessions = 2` | A run that fails before its screening has no candidates and passes for complete (`scripts/check_daily_complete.py:208`). |
| `LostDayIsReported` | the same | A day whose job died before its push is reported by nobody. |
| `StopIsLegitimate` | the same | The pipeline succeeds, the analysis never lands, and a second `copilot-daily` aborts with `same_day_rerun`, which `_LEGITIMATE_STOP_REASONS` (`scripts/check_daily_complete.py:67`) accepts: the job is green. |
| `NoNewOldBasis` | `bars_store` with `Markets <- OneMarket`, `Roots = {"empty"}`, `MaxMissing = 0`, `PastWindows = TRUE`, `MaxJobs = 1`, `MaxCrashes = 0` | A window that ends in the past lacks a later split, and adjusted prices are stored as raw (`pipeline/backfill.py:390`, `pipeline/daily.py:569`). |
| `CheckFindsOldBasis` | `bars_store` with `Markets <- OneMarket` | A rebuild dies after its marker: the root is marked, its rows are still adjusted, smoothly, and `check` finds nothing (`pipeline/backfill.py:440` counts on it). |
| `OnlyRebuildChangesHistory` | `bars_store` with `Writers = {w1, w2}`, `Markets <- OneMarket`, `Roots = {"empty"}`, `MaxMissing = 0`, `MaxCrashes = 0` | Two commands load one year's file and the second to publish drops the first one's rows. |
| `OutcomesHaveVerdicts` | `retro_archive` with `Exclusive = FALSE` | An evaluation that read a run's verdicts before a second process replaced them writes an outcome for a symbol that is gone. |
| `RowsMatchDocuments` | `retro_archive` with `Content <- Reverted` | Documents change between their hash and their parse and change back before the next pass: the digest matches, the rows do not, and the run is skipped from then on (`retro/collect.py:20`). |
| `ReadersFollowCollect` | `retro_archive` with `Content <- BreaksLater` | A later run of a date becomes unreadable: `collect` adopts the earlier one, the readers still the later (`retro/adoption.py:20`). |
| `ReadersFollowCollect` | `retro_archive` with `Content <- EmptyLater` | A later run of a date is readable and has no verdict: `collect` adopts it and clears its rows (`storage/verdict_records.py:457`), and the readers, who see rows only, represent the date by the earlier run. |
| `PriorOutcomesAreOfTheVerdict` | `retro_archive` | A corrected verdict is fed back with an outcome that judged the one before it, when its slice can not be evaluated again (`storage/verdict_records.py:310`). |
| `NoRequestWhileBlocked` | `fetch` with `MaxRequests = 4` | A new call does not know of the block that ended the last one (`data/edgar.py:533`). |
| `TextsNeverShrink` | `fetch` | A later collection whose exhibit failed replaces the whole text, unmarked (`data/edgar.py:792`, `storage/text_records.py:24`). |
| `TriggerSeesTheNewest` | `fetch` with filings of `Submissions` owned by both tickers | `source_id` has no symbol: one of the two owns the row, and the other's trigger does not see the filing. |
| `ReexportReproduces` | `rules` | Its own session, ingested since, and any earlier one ingested late are counted by the second export ("reproduces the number it saw", `storage/retro_records.py:186`). |
| `NumbersNameOneProposal` | `rules` with `Overlaps = TRUE` | A row written by hand while an ingest runs takes the number the ingest has just chosen. |
| `OldFtdStaysExpired` | `rules` with `HistoryRows = 8`, `SmaPeriod = 8`, `MaxSessions = 13` | Where the rows read back are few, the close that expired a follow-through day is read again without its average, and the day is in force again ("cannot resurrect an old FTD", `regime/ftd.py:149`). |
| `UnknownTrendNeverLoosens` | `rules` with `MaxSessions = 12` | A market known to be a bear's gets `CASH_PRIORITY`; the same market with an unknown trend gets more ("Unknown inputs cannot loosen a policy", `regime/exposure.py`). |
| `LiveThroughItsWindow` | `rules` with `MaxSessions = 12` | A distribution day is live for one observation less than `regime/distribution.py:77` says. |
| `ScreensRepeat`, `MatrixAgrees` | `rules` with `FilingLags = {0, 1}` | A filing stored the day after it was filed is seen by a replay of the day and by the matrix, and was not by its run. |
| `MatrixAgrees` | `rules` with `FloorRows = 3` | The matrix reads a shorter history than the screen and misses an average the screen had (`screening/filter_matrix_cli.py:201`). |
| `MatrixAgrees` | `rules` with a `Missing` volume in `Quotes` | A symbol whose volumes are all missing in the days of the average: the liquidity filter stops it for an unknown average, the classifier's mirror passes it, and it is recorded under a later check. |
| `PairingCancelsTheMarket` | `rules` with `Holes = {2}` | While a benchmark bar is missing a run matures a session later than it should: two run days fall into one cell and are paired as one (`retro/aggregate.py:500`). |
| `GreenTestsTheWork` | `rules` with `HasRemote = FALSE` | On `main` without a remote the diff base is HEAD, and committed work is not tested (`diff_base`). |
| `GreenTestsTheDeletions` | `rules` | The importers of a deleted module are not selected. |
| `NoScreenIsShadowed` | `rules` | A forced rerun that fails before its screening is the most recent run of its day, and the day's screen is not evaluated (`storage/history_queries.py:300`). |
| `EverySignalCounts` | `rules` with `{"t"}` for the second strategy's signals in `OneScreen` | Both rows have one key, and the later strategy's signals replace the earlier one's (`storage/audit_records.py:373`). |
| `RowsSpanTheirHorizon` | `rules` with `Absent = {3}` | A benchmark bar that is a session late shifts the targets of the day's pass. |
| `CountedOnce` | `rules` with `Replays = TRUE`, `MaxRequotes = 0`, `MaxInterrupts = 0` | A replay is another run of its session: a later pass evaluates it beside the one already evaluated, and the report counts both. |

Met while modelling, and not stated as properties:

* Two updates of the ledger at once (`tracking/update.py:224`, the daily run and
  `copilot-track`): both read, and the one that writes last wins. The model assumes one.
* `backfill_fundamentals` goes on after a provider's own errors only
  (`pipeline/backfill.py:782`): any other exception ends the whole command.
* `dd-forward` takes VIX of the exact date, the daily run the latest at or before it;
  `ReplayRepeatsTheRuns` compares the gates where VIX has the date.
* `record_screening_results` upserts without deleting: a rerun of one run id would keep
  rows of symbols it no longer decides on.

## Further properties

The modules state properties that hold on the same instances and are in no listed run,
which keeps to the main questions of each component. Add them to the configuration
named to check them (`RunnersAppendOnly`, `PublishedStays`, `PreflightIsTheGate`,
`EveryCandidateCounts` and `SizedAsPlanned` are also proved):

| Configuration | Properties |
|---|---|
| `sync_protocol` | `RunnersAppendOnly` |
| `job_desk` | `PublishedStays` |
| `bars_store` | `GoodAnswersPass`, `CompletedCommandIsStored` |
| `retro_archive` | `TypeOK`, `PassIsComplete` |
| `fetch` | `PollsAreBounded`, `ExcerptsFitTheirBudgets` |
| `rules` | `OneOpenRowPerKey`, `ReopenedWithReason`, `EveryCandidateCounts`, `SizedAsPlanned`, `PreflightIsTheGate`, `DeadDaysStayDead`, `ScreensRepeat`, `RatesCountTheBaselinesEvent`, `DossierBlocksAgree`, `CountedOnce`, `RowsSpanTheirHorizon` |

## Not modelled, and the plan

Out of scope: rendering, wording, logging, credentials, HTTP and the parsing of
third-party responses; reports, dashboard and research frames (read-only, layout and
queries without protocol state); the atomic file writer itself (a replace is one step
wherever it is used; the batch writer of slices is modelled file by file in
`AnalysisDesk`). What each module leaves out is said in its section.

The components that are left are read-only or I/O. What remains worth doing:

1. Theorems within the prover's reach: `CompletedCommandIsStored` for any years, the
   ledger's `TypeOK`, `PassIsComplete` of the archive, `OneOpenRowPerKey` of the proposal
   ledger, and `CountedOnce` of the postmortem.
2. Compositions: the tracking update and the archive's collect over one verdicts
   table; the fundamentals refresh and the text collection over one `text_items`.
