# Verification of the trading platform

This directory holds TLA+ models of the trading platform of this repository:
the market-trading runtime
(`src/platform/web/src/lib/hermes-execution` and the process that runs it),
the paper-trading bot and its background worker, the research laboratory with
its data acquisition, and the services around them. TLC configurations check
the models on small instances, and theorems about them are checked by the TLA+
proof system for every value of the constants. Paths below are relative to
`src/platform/web/src/lib/hermes-execution` unless they start with `src/`, and
`web/` stands for `src/platform/web/src/`. `PROJECT.json` maps every definition
to the lines it models.

```
tlc -workers 2 -config TE_failures.cfg TradeExecution.tla
tlapm TradeExecutionProofs.tla
```

## 1. Inventory

The repository is a web application with several processes next to it.

- `market-runtime` looks at a handful of instruments every few minutes,
  decides, opens and closes positions on an eToro demo account and reports over
  Telegram.
- The *worker* polls a table of schedules and runs the older paper-trading bot
  on accounts that live in the same database as the browser's own trades.
- *Commands* prepare data, run backtests and research, replay fixtures and
  refresh the table of listed instruments.
- *Routes* of the web application show what the others did.

Everything they must remember is in database tables or small files, everything
else dies with the process. There is no transaction that spans two tables, or a
table and a broker, and nearly every step that fails may have had its effect.
That is where the hard behaviour comes from.

### Components, their state and what makes them correct

| Component | State it keeps | Operations | Hard | Correct when |
|---|---|---|---|---|
| Trading cycle, phases A and B (`runtime/trading-runtime.ts`, `runtime/`) | locals that live across awaits, such as an in-memory copy of a row | recovery, reconciliation, repair, expiry, protection; exits, execution, fresh decisions | a crash between two awaits; a write that fails after the broker acted; an audit write that fails after the row changed; a stale copy | rows agree with each other and with the account, and what is left halfway is finished later |
| Lifecycle records (`trade-lifecycle/`) | a table, twelve statuses, a uniqueness guard | service transitions, each a write and an audit | two writers; a copy that is written back | one active record, moves only along the graph, CLOSED only if the position is gone |
| Candidates (`trade-approval/`) | a table, six statuses, an expiry | create, approve, reject, auto-approve, expire, execute, fail, repair by compare-and-set | the operator's page writes meanwhile | concluded once, executed at most once, leaves the queue |
| eToro broker, risk engine | `trackedPositions`, in memory | place and poll, close and verify, adopt | an order accepted though the call failed, filled after the poll gave up | no second order, no entry in the cycle of an exit |
| Runtime control, scheduler, Telegram loop, process | four states, one timer, `isCycleRunning` | start, pause, resume, run, stop, tick, signal | commands, ticks and signals at every await; a cycle that hangs | one timer, no cycle unless RUNNING, stop ends |
| Incident tracker | incidents with a healthy count, and a file behind a promise chain | observe, announce, write, load | restart between two writes | heard of once, resumed, ended only by a run of healthy cycles |
| Daily summary | the date of the last one, cached and on disk | `maybeSend` | a failure after the delivery | once an evening, and retried |
| Alerts and audit trail | events in memory, the file, the sender's remembered texts | record, alert | two writers on one lock; a send that times out | what is acknowledged is on disk, what is told is on record |
| Opposing-signal stability | counts by position, in memory | synchronise, evaluate | a position replaced between two cycles | an exit is confirmed by the position's own signals |
| Universe scan, Hermes agent | the proposals of the last scan | scan, select, act | a scan that fails after an earlier one selected | acts on its own cycle's proposals only |
| Decisions, indicators, candle validation | none | pure | gaps at sessions and weekends | whole history, indicators in range |
| Fixture replay on paper | the paper broker's book and file, the log | candle by candle | every write may fail | money is conserved, the log follows the book |
| Configuration and startup | none | environment, registry, factories | combinations | nothing but a demo mode starts, nothing static fails late |
| Strategy definitions, backtest, research | documents, versions | validate, run, judge | boundaries, order of execution | no look-ahead, whole matrices, honest verdicts |
| Dataset intake and acquisition | datasets, manifest, archive cache | prepare, download, list | a crash between two files, damage, a month published anew | listed files are the datasets they were |
| Performance, ledger, analysis records | rows of closed trades and of analyses | record, read, aggregate | corrupted or repeated rows | counted once, and sums agree |
| Bot, worker, schedules, paper-trade stores | schedules with a lease, trades, decision records, the browser's copies | claim, scan, persist, file, release, reconcile; browser scans, saves and closes | a scan that outlasts its lease, a dead worker, a lost write, two writers of one account | one scan within a lease, the account's limits, records that tell the truth |
| Integration API | caches of the process | derive views from log, broker and process manager | decisions interleaved on one instrument, partial failure | each outcome is its own decision's |
| Market universe | a table of symbols, four groups of writes | refresh, price check | a run that ends between two writes, a symbol listed again | eligible rows are sound, the table follows the listing |

### How they interact

`market-runtime` builds the dependencies, starts the Telegram loop and then the
runtime. The scheduler calls `attemptCycle`, as does `/run`; one cycle runs at
a time. A cycle reads and writes both tables through the services, calls the
broker through its adapter, gives its observations to the incident tracker,
asks the opposing-signal tracker before an exit, and lets the summary service
decide whether it is time. The operator's page and the web API write the
candidate table while a cycle works on it. Every service writes the audit
trail, and an audit write that fails is an exception to its caller: this is the
main way in which a step "fails" after having had its effect. The worker and
the browser share three tables and no lock but the schedule's. The routes read
the log, the broker and the tables, and write nothing.

### Not modelled

| Component | Why |
|---|---|
| Trading212 and Hyperliquid brokers | the interface of the eToro adapter without its asynchronous confirmation; HTTP clients |
| Instrument catalogue, eToro probe | a static table and a diagnostic that prints |
| Market screening and quotes of the web application | providers of prices; they enter `PaperBot` as evidence |
| React pages | display; their approve and reject calls are actions of `TradeExecution`, their trades actions of `PaperBot` |
| Infrastructure, scripts, documents | no program state; the unique index of migration 0026 is part of `Clash` |

Within modelled components these are left out: wording and formatting, HTTP
and authentication, several instruments in one `TradeExecution` cycle, the
counters of `getStatus`, the figures of the daily summary, ratios of the
performance reports, the ATR and RSI series and annualised ratios of the
backtest, the child process of the Hermes command, a paper-trade store without
a database, two preparations of one manifest at once (documented as
unsupported), two refreshes of the universe at once.

## 2. The modules

```
LifecycleStatus         status graphs and classes of status
  TradeLifecycle        what the two tables promise (abstract)
  ExecutionState        variables, faults, the guarded writes
    ProtectionPhase     Phase A
      ExecutionPhase    Phase B
        TradeExecution  processes, operator, broker, time: Spec, properties
          TradeExecutionProofs, SingleProcessProofs, ReliableProofs (on top of each other)

BotRules                strategies, aggregation, checks of the bot
  PaperBot              workers, browser, human: Spec, properties
    PaperBotMC, PaperBotProofs

RuntimeControl          scheduler, commands, shutdown        ServicesProofs
MarketDataIncident      the tracker                          ServicesProofs
DailySummary            the evening summary                  ServicesProofs
AlertTrail              audit trail and alerts               ServicesProofs, AlertTrailMC
OpposingStability       confirmation of an exit              ServicesProofs
HermesScan              the scan and its selection           ServicesProofs
PaperExecution          the fixture replay                   ServicesProofs
Acquisition             the download of archives             ServicesProofs
MarketUniverse          the refresh of the listing           ServicesProofs

CheckState              one call of a pure rule
  StartupChecks         over Startup                         RulesProofs
  MarketChecks          over MarketRules                     RulesProofs
  LabChecks             over ResearchRules (StrategyRules, BacktestRules)
  IntegrationChecks     over IntegrationRules                IntegrationProofs
  IntakeChecks          over IntakeRules
  LedgerChecks          over LedgerRules and AnalysisRules   LedgerProofs

Parts, PartsMC          all parts that share no state, side by side
```

### The execution core

*State.* One strategy on one instrument. `cStatus`, `cRecord`, `overdue` are the
candidate rows; `rStatus`, `rCand`, `rPos`, `stale` the lifecycle rows;
`pState`, `pOrigin` the account at the broker. Each process has a program
counter `pc`, the values it holds across awaits (`plan`, `cand`, `rec`, `seen`,
`pos`, `open`, `todo`, `exited`), its kill switch and the adapter's `tracked`.
`seen` is the status in the in-memory copy of the record, which is what
`assertValidTransition` really looks at.

*Steps.* Every await that writes a row or calls the broker is an action: a
process can crash, and any other actor can act, between two of them. What the
code reads in several awaits without writing (the reads of one reconciliation,
those of the duplicate check) is one step. A write followed by its audit is one
step with three outcomes: both done, refused, or written and then failed.

| Code | Actions |
|---|---|
| `attemptCycle`, the end of a cycle | `BeginCycle`, `EndCycle` |
| `recoverStaleLifecycleRecords` | `RecoverScan` (judgement), `RecoverWrite` |
| `reconcileBrokerPosition` | `ReconcileUnsafe`, `-NothingHeld`, `-Vanished`, `-Matched`, `-Orphan`; `Adopt`, `AdoptRefused`, `Reopen`, `CloseUnreconciled` |
| `repairCandidateForConfirmedLifecycle` | `RepairCandidate` |
| `sweepExpiredCandidates` | `Sweep` |
| `evaluateExitTrigger`, `executeAutomaticExit` | `ExitCheck`, `Decide`; `CloseRequest`, `Close`, `RecordClosed`, `RecordCloseFailed` |
| `executeApprovedTradeCandidate`, BUY | `NextApproved`, `CreateRecord`, `EvaluateRisk`, `Submit`, `PlaceOrder`, `AwaitPosition`, `RecordOpened`, `RecordExecutionFailed`, `MarkExecuted`, `MarkFailed` |
| the same, SELL | `SellStart`, `SellRequestClose`, `SellClosePosition`, `SellRecordClosed`, `SellRecordCloseFailed` |
| fresh decision, `autoApproveTradeCandidate` | `FreshDecision`, `AutoApprove`, `AutoRevert` |
| web page | `Approve`, `Reject` |

A SELL candidate acts on whatever record the store shows open, as the code
does. Values the code does not read again are reset when it leaves the block
that declares them.

*Environment.* `Settle` lets an accepted order become a position or be
rejected, at any time, also after the poll has given up. `Expire` and `Age` are
the two clocks. `ExternalOpen` and `ExternalClose` are the human on the same
account. `Crash` loses the process's memory and nothing else.

*Faults* are a constant set, so that a run can say what it tolerates: `store`
(a write is refused), `audit`, `broker` (a call fails or times out, with or
without effect), `external`, `market` (no data this cycle), `registry` (the
strategy registry changes its answer within a cycle), `slow` (a step outlasts
the recovery threshold).

*Bounds.* `Record`, `Position` and the candidates are finite sets of
identifiers; when none is left an insert is refused or an order not accepted,
which are outcomes the code has anyway. `MaxCrashes` bounds crashes.
`MaxOpenPositions` is the code's own limit, 1. Two records and two positions
are what a clash, an orphan, a stale order or a second order needs; a third
record is there where an abandoned one is followed by a retry.

`TradeLifecycle` is the abstract specification: two tables whose rows move along
their graphs, a record becoming active only while no other is.
`ImplementsLifecycle` is `TradeLifecycle!Spec` under the identity mapping: the
detail that is hidden (copies, adapters, processes, the broker) may never show
in the tables.

### PaperBot

One account that workers and a browser share. `enabled`, `due`, `lockedBy` are
its schedule row, and `young` says whose claim is less than five minutes old;
`server` and `record` are the tables of trades and of decision records; `shown`
and `known` are the browser's copies of the two, which a failed write separates
from the tables until the tab is loaded again (`fallenBack`). An actor's scan is
a sequence of awaits: `FetchDueSchedules`, `ClaimScheduleLock`, `RunScan` (the
book is read, the strategies are aggregated, the checks of `BotRules` decide),
`PersistTrade`, `PersistDecisionRecords`, `ReleaseScheduleLock`, `Reconcile`.
The browser runs the same scan without a claim, and a human opens, closes and
saves meanwhile. `LockGoesStale` makes a claim old while its scan goes on;
`WorkerDies`, `ScanFails`, `ReleaseFails` and lost writes are the faults.
A trade is inserted under its client id and then its events are: when the events
are refused the row stays, but the worker takes its scan for failed and the
browser leaves the table for its own storage (`Written`); a browser whose session
has ended drops the write and stays with the table.
`BotRules` holds the rules in full, with the figures as constants. *Bounds:*
at most `MaxTrades` trades are ever built, in each deployment `MaxTradesIn` trades
and `MaxFaultsIn` faults happen, and each scan finds one of the deployment's
elements of `Evidence`, a function that says of every instrument what its
strategies report. `past` remembers what the account cannot undo,
so that a property can say which disturbances it survives.

### The parts

*RuntimeControl.* The states and the timer of `TradingRuntime` and
`TradingScheduler`, the Telegram loop that handles one command at a time, and
the shutdown of the process, each await a step. Signals are handled only after
`start()` has returned, as in `main`. Read-only commands are left out. The loop
is optional in the code and always present in the model.

*MarketDataIncident.* One observation per instrument and cycle (`Observe`),
announcements by kind in the order of `recordMarketDataIncidentState`
(`Announce`), the chain of snapshots (`queue`) and the atomic replacement of the
file (`Write`), graceful restart and crash. `told` and `streak` are what the
operator and the world know; `past` is a history variable with the
disturbances that have happened. `MaxQueue` bounds the writes that wait.
Sending is assumed to succeed here; `AlertTrail` is about sends that fail.

*DailySummary.* `maybeSend` await by await: the cached or loaded date
(`Check`), delivery or failure, the audit (`Record`), the cache and the file
(`Save`). A send has three ends, as in `AlertTrail`: delivered (`Deliver`), not
delivered (`NotDelivered`), and delivered although it throws
(`DeliverUnanswered`): the Hermes process is killed when its time is up, and its
message may be out. The file is written in place, so a crash inside `save` may leave it
unreadable. The clock runs freely, past midnight too.

*AlertTrail.* Writers record events concurrently; the event is in memory before
its write is queued, the write is the whole of memory under a lock, an alert
follows the write, and the sender skips a text it remembers. A send may fail,
also after it delivered; the failure is an event of its own.

*OpposingStability.* `SyncPosition` and `evaluate()` of a cycle
(`OpposingSignal`, `OtherDecision`), the cycles that end before it, positions
that change meanwhile, restarts. `opposingRun` is what the world knows.

*HermesScan.* The scan between the two phases: validation of an answer,
ranking, selection against the adapter's list, and what phase B then does with
the proposals instrument by instrument.

*PaperExecution.* The replay of a fixture: every strategy on every candle,
signal, sizing, risk, order, audit; the broker's file is written in place and
its failure only logged, an audit write that fails ends the replay.

*Acquisition.* Months downloaded and cached with their checksums, the audit of
the cache, datasets and manifest entries written one by one, over several runs
that may end anywhere, with a cache that may be damaged and months that may be
published anew.

*MarketUniverse.* A run a day: the two files, the difference with the table,
four groups of writes, then the price checks of a batch. What the listing says
of a symbol whose price is recorded is taken from the row that was read with the
batch, before the requests (`Priced`). A run may fail or end
at any write, and the listing changes between runs.

### Pure rules

Startup, validation, indicators, the laboratory, intake, derivations of the
routes, ledger and analysis are operators. `CheckState` asks one question of one
of them (`call` = topic, input, answer); the `*Checks` modules enumerate the
inputs and state what the answer must satisfy, against definitions that do not
follow the code. Fractions are pairs of integers, hashes are the content itself,
texts are members of small sets. Recursion over rule trees is RECURSIVE in
`StrategyRules` and `BacktestRules`, which no proof uses.

A value the code may not have is an empty set. A candle may have no volume: as an
operand it is then undefined and makes its comparison false, in an indicator it
counts as 0 (`Field`, `SourceValue`); `AcceptedDefinitionRuns` therefore says that
every operand but a missing volume has a value on every bar, and that no
comparison holds of one that has none. The archives the intake is given may be
off the hour, each by itself or all alike: the code compares differences only, so
months shifted alike are accepted, and `AcquiredIsWhole` promises every hour of the
months, or a declared closure, up to one shift of them all.

In the ledger a candidate is looked for among the `OPENING_LIMIT` latest executed
ones of the instrument, by time (`ListExecuted`, `FindOpeningCandidate`). The
stories of the run have positions that were adopted and so have no BUY, BUYs that
were executed in the cycle of a SELL and share its time, and more executed
candidates than are looked at. A lifecycle record loses `submittedAt` in the
database, which has no column for it, and is read back with the database's own
`createdAt` and `updatedAt` (`ToRow`, `Stored`, `FromRow`).

### Parts

The parts that share no state are checked in one run: `Parts` extends all of
them, `subject` says whose behaviour this is, and all others then stay as they
start. Nothing is lost by it: the behaviours with one subject are those of that part's own specification,
with its own fairness. Its properties are conjunctions of those the parts'
modules state and explain; section 3 lists them.

## 3. What is checked

| Run | Instance | Question |
|---|---|---|
| `TE_failures` | 1 process, 1 BUY, 1 SELL, 2 records, 2 positions, 1 crash; store, audit, broker, registry, slow | do the rows agree with each other and with the account after any failure? |
| `TE_lifecycle` | 1 process, 1 BUY, 1 crash; store, broker, external, market, slow | does the runtime implement `TradeLifecycle` while a human trades on the account? |
| `TE_reliable` | 1 process, 2 BUYs, 3 records, 1 crash; store | with a broker and an audit trail that work: never a second order, a second position, an entry in the cycle of an exit? |
| `TE_two` | 2 processes, 1 BUY, 1 crash; market | do guard and compare-and-set hold between processes? |
| `TE_liveness` | 1 process, 1 BUY, 1 SELL, 3 records, 1 crash; no fault; fair | is what a crash left halfway finished? |
| `TE_queue` | 1 process, 1 BUY; broker, external, market; fair | does a candidate nobody can execute leave the queue? |
| `PB_account` | 2 workers with 2 trades, or a worker and the browser with a human and 1 trade, 1 fault; 1 worker with 4 trades, or the browser with 3, 5 instruments in 2 sectors, no fault; a profit and a loss; fair | is one account safe in two hands, and does it keep every limit whatever its book? |
| `Parts` | every part with small constants (`Parts.cfg`, `PartsMC`) | is each part right by itself? |
| `TE_terminal` | 1 process; audit | violated: `TerminalIsFinal` |
| `MI_forgets` | 1 instrument | violated: `SingleFetchNeverClears` |
| `DS_twice` | 2 days | violated: `NeverDuplicated` |
| `AL_silent` | 2 writers, nothing fails | violated: `IncidentNeverSilent` |

A property that is checked may be a conjunction; the conjuncts are defined and
explained in the modules.

| Property | Conjuncts |
|---|---|
| `TE_failures` | |
| `ExecutedIsOpen` | `ExecutedHasPosition`, `ExecutedNeverPreOpen` |
| `ClosedMeansGone`, `SpentCandidateNotApproved` | |
| `TE_lifecycle` | `ImplementsLifecycle` |
| `TE_reliable` | `OnePositionPerCandidate`, `OneLivePosition`, `NoEntryAfterExit` |
| `TE_two` | `OneActiveRecord`, `CandidateMovesLegally` |
| `TE_liveness` | `StaleRecordResolved`, `PositionOwned`, `KillSwitchFlattens` |
| `TE_queue` | `CandidateLeavesQueue` |
| `PB_account` | `OneYoungScan`, `WithinLimits` |
| `RecordsTellTheTruth` | `ClassifiedMeansClosed`, `OpenedTradeIsExplained` |
| `WorkGetsDone` | `DueScheduleIsClaimed`, `ClosedIsClassified` |
| `Parts` | `OperatorInformed`, `RecoveryEarned` |
| `IncidentIsKept` | `WillPersist`, `NoRepeatedAnnouncement` |
| `RuntimeIsOrderly` | `OnePendingTimer`, `StoppedMeansIdle` |
| `RuntimeLives` | `CyclesOnlyWhileRunning`, `StopTerminates`, `RunningKeepsCycling`, `SignalExits` |
| `SummaryOncePerEvening` | `SentOncePerDay`, `MarkedMeansSent` |
| `NewsGetsOut` | `HealthyIsAnnounced`, `SummaryGoesOut`, `RecordReturns` |
| `BookIsSound` | `CashConserved`, `ApprovedOrdersFill`, `LogFollowsBook` |
| `AlertsAreFaithful` | `AcknowledgedIsDurable`, `ToldIsOnRecord`, `TradeNeverSilent` |
| `ExitNeedsConfirmation` | `ExitIsConfirmed`, `NoStaleCount` |
| `ScanIsSound` | `ActsOnFreshProposals`, `SelectionFitsAccount` |
| `ArchivesAreSound` | `OnlyPublishedArchives`, `ListedComeFromOneRun` |
| `UniverseIsSound` | `EligibleIsSound`, `UniverseFollowsListing` |
| `StartupIsSafe` | `StartsOnlyDemoTrading`, `NoLateStartupFailure`, `OpposingExitNeverImmediate`, `LoadedAreFirstOfTheirId` |
| `DecisionIsGrounded` | `AcceptedHistoryIsComplete`, `IndicatorsInRange`, `DecisionFitsBook` |
| `StrategiesAreWhole` | `AcceptedDefinitionRuns`, `VersionsAreImmutable`, `VariantIsStable`, `MatrixIsWhole` |
| `ResearchIsHonest` | `AcceptedDatasetIsComplete`, `NoLookAhead`, `MoneyAddsUp`, `JudgedOnTheBaseline`, `OutOfSampleIsLater` |
| `ViewsAreTrue` | `OutcomeIsOwn`, `NewestDecisionFirst`, `SummaryIsOfThisRun`, `PricedAsItself`, `EquityIsWhole`, `ListedFromACompleteRun` |
| `IntakeIsExact` | `ImportedAsGiven`, `SlicesPartition`, `AcquiredIsWhole`, `ListedFileIsTheDataset` |
| `LedgerIsExact` | `EachTradeJudgedOnce`, `LedgerAddsUp`, `DrawdownIsDeepestFall`, `EveryEntryCounted`, `StoresAgree`, `LinkedAnalysisIsWhole`, `AnalysesAddUp` |

There is one type invariant per checked system: `TypeOK` (of `TradeExecution`,
of `PaperBot`) and `PartsTypeOK`. Every property that is checked has a mutant
in `PROJECT.json`: a bug of the kind this code could have, under which TLC finds
it violated in the same instance.

*Why the bounds are enough.* The properties of the core relate at most two
records, two positions or two candidates, and each hazard needs at most one
crash and one retry; one more record is there for the retry where a run needs
it (`TE_reliable`, `TE_liveness`). In `PB_account` every hazard between actors is
between two of them and one fault. In its deployments of one scanner a position or
two, by number, value, sector, direction, capital or cash, exhausts a limit that the
others leave open: with any one of the nine checks left out of `EvaluatePosition` or
`EvaluatePortfolioRisk`, TLC finds a book that breaks `WithinLimits`. Those
deployments have no second actor and no fault; the theorem about `WithinLimits` is
about any deployment and any faults.
Two instruments are what it takes for one snapshot of incidents to carry
another's state; a threshold of 2 is the smallest with progress between incident
and recovery. A second and a third evening are needed for a stale date in
`DailySummary`. In `OpposingStability` a second position and a second
confirmation are what lets a count outlive a position; in `HermesScan` a second
scan lets a proposal outlive its own; in `MarketUniverse`
three runs over two symbols let a row be listed, delisted and listed again. The
pure rules are enumerated around their boundaries: one below, at and above each
limit, series just long enough for the longest window. `RuntimeControl` needs
no bound. Identifiers are symmetric in the runs of the core that check no
liveness.

*Why some faults are excluded.* Each exclusion is a fact about the code:

- Without `audit`, `broker` and `slow` excluded from `TE_reliable` its
  properties fail: when the audit of an accepted order fails, or the poll gives
  up, the record becomes EXECUTION_FAILED with the order still in force, the
  slot is free, and a later cycle may order again before the first order fills.
- Without `audit` excluded from `TE_lifecycle` the refinement fails as in
  `TE_terminal`. Without `registry` excluded it fails as well: a failed Phase A
  exit leaves the caller's copy at OPEN while the row is CLOSE_FAILED
  (`runtime/trading-runtime.ts:1097`); if the strategy's enabled flag changes
  within the cycle, Phase B exits again and writes CLOSE_REQUESTED over
  CLOSE_FAILED.
- With two processes `ExecutedHasPosition` and `ClosedMeansGone` may fail, and
  so may `OnePositionPerCandidate`: the order is sent
  (`trade-approval/trade-candidate-service.ts:446`) before the candidate is
  compared and set (`:531`), so a process that listed the candidate as approved
  sends it again once the first position has been closed.
- `NoEntryAfterExit` is checked without `external`. Behind a position a human
  opened a candidate may wait approved, and the loop over approved candidates
  (`runtime/trading-runtime.ts:1378`) executes it in the cycle whose exit closed
  it, although the comment at `:1468` rules that out.
- `SignalExits` assumes that cycles return: `stop()` bounds its own wait, but
  the process then waits for the Telegram loop
  (`src/platform/web/src/hermes-execution/market-runtime.ts:440`), which waits
  for the cycle it began with `/run`.
- `OperatorInformed` and `NoRepeatedAnnouncement` assume no crash and no lost
  write. An incident that is written and not yet announced when the process dies
  is "unchanged" for the next one and never announced.
- `SentOncePerDay` assumes that audit and disk work, that nothing crashes, and
  that no send throws after its message went out: the service cannot tell that
  from a failed send and sends again, in the next cycle.
- `WithinLimits` speaks of rows no hand changed and no overlapping scan touched
  (`past.manual`, `past.overlapped`): the limits are read at the start of a scan
  and enforced by nobody afterwards. The lease excludes overlap only while a
  scan is shorter than five minutes and the browser does not scan. The cash floor
  is not claimed once a trade has lost more than was paid for it, as a short may.
- `ClassifiedMeansClosed` excepts trades whose close never reached the server
  (`past.strayed`): the browser keeps its own copy and files its outcome.

*Where code and documentation disagree.* The four violated runs each check what
a comment promises; `PROJECT.json` quotes it under "findings". In short: an
audit failure after CLOSED drives a terminal row to CLOSE_FAILED; the healthy
count survives a restart that the relapse resetting it does not; an audit
failure after a delivered summary sends it again in the next cycle; a second
incident of an instrument with the wording of its first is never sent.

*What else the models show.* Modelling met these facts, which no property
states because no reader of the code is promised otherwise, or because what is
promised is a matter of wording:

- A `/resume` handled while `stop()` awaits its own audit finds STOPPED ->
  RUNNING legal, so the stopped runtime reports RUNNING without a scheduler.
  `CyclesOnlyWhileRunning` and `OnePendingTimer` hold in spite of it.
- A position closed outside the runtime stays in the adapter's list and counts
  against the limit of open positions. A position adopted without `openedAt`
  can never be closed by an opposing signal, and one whose `openedAt` is ahead
  of the local clock cannot be recorded closed.
- A second worker with an older list of due schedules claims after the first has
  released, so an interval may be scanned twice;
  `src/platform/web/src/worker/reserve-worker-scan-id.ts:9` says "at most one scan".
- `config.ts` documents the confirmations of an opposing exit as at least 1; the
  parser refuses less than 2.
- A registry entry counts as seen before its status is looked at
  (`registry-client.ts`), so a later, usable entry of the same id is dropped.
- Ineligible or SELL proposals of the agent crowd out eligible ones, because the
  cap is applied first.
- `strategy-research/experiment-matrix.ts` cannot reach its second cap, and
  refuses a matrix without dimensions when the maximum is 1; `dataset-manifest.ts`
  allows an out-of-sample slice to begin where the in-sample one ends;
  `research-result.ts` says "EVERY instrument" of a criterion that skips
  rejected ones.
- Flat prices give an RSI of 100. Daily candles of equities, stamped midnight
  UTC, fall in closed hours, so up to ten missing days count as explained.
- A price map of `broker-snapshot.ts` that is partial is kept for the life of
  the process; its comment at `:172` speaks of a retry.
- `trade-performance/trade-performance-service.ts:25-29` says that a trade whose
  opening candidate is not there is "never guessed": but the BUY is found by time
  alone, so an adopted position is judged by the stop of an earlier BUY, if there
  was one, and a trade by the stop of the BUY that was executed in the cycle of its
  SELL. `EachTradeJudgedOnce` says when the stop is the trade's own.
- The runtime records every analysis with `executed: false` and nothing marks it
  later, so the executed share is always 0. The performance of a trade is
  recorded for executed SELL candidates, not for automatic exits.
- A download interrupted between a dataset and its manifest entry cannot be
  repeated: the dataset exists and is never overwritten.
- Rows of the universe that are below the minimum price are never looked at
  again; symbols whose quotes always fail take the batch from others; a
  truncated listing delists what it does not show.
- While signed in, trades fall back to the browser's storage when the table
  cannot be read; decisions do not.

*Fairness.* In the core: a process that is down is started again (PM2), a step
that can be taken is taken (the scheduler keeps ticking, `TradingScheduler.fire`
reschedules unconditionally, and an await returns or times out in the HTTP
client), clocks move on, and the broker settles what it accepted. The operator
need do nothing, and a fault may happen every time. In `PaperBot` workers poll
(`setInterval` of the process, which PM2 restarts) and claims grow old. In
`RuntimeControl` the same as in the core, except that `CycleEnds` is not fair: a
cycle may hang. In `MarketDataIncident` cycles go on observing, announcing and
writing; which observation is made is never fair. In `DailySummary` delivery is
strongly fair: an alert channel that fails for ever would refute any such
property. In `AlertTrail` each writer's own steps are fair; sends may fail. All
other fairness is weak.

## 4. What is proved

The theorems hold for every value of the constants: any number of processes,
workers, candidates, records, positions, trades, evenings, runs, symbols, any
set of faults. They use the assumptions the modules name, each of which TLC
evaluates in a run, or state their own: `MaxDay \in Nat \ {0}` for the summary,
integers and `NoPosition \notin PositionId` for the opposing signals. What the
named ones ask:

| Assumption | What it asks, and why the code grants it |
|---|---|
| `FaultsAssumption`, `SidesAssumption`, `SentinelAssumption`, `BoundsAssumption`, `AccountAssumption` | the instance is one: known faults, a candidate has one side, sentinels are no ids, bounds are naturals, the account's positions are a finite list |
| `HealthyAssumption`, `ThresholdAssumption` | health is no fingerprint of an incident; the threshold is positive, a constant of the code |
| `PaperBotAssumption`, `LimitsAssumption`, `QuotesAssumption` | a known set of actors; the limits of the bot are naturals; prices are positive, scores are numbers |
| `FeedAssumption` | each writer has a list of events to record, one after another; a position is opened once and closed once; the sender remembers at least one text |
| `PlanAssumption` | the plan of an acquisition has a role at least, and each role is made of months the plan lists |
| `ScanAssumption` | the universe and the proposals of an answer are lists; the limits are naturals (constants of the code and a validated setting) |
| `MarketAssumption` | periods of the indicators are positive, times of the session and bounds of the gap check naturals: all constants of the code |
| `ReplayAssumption` | the paper broker counts in units (`BROKER_CAPABILITIES.local`), limits are positive (`internal-strategy-mapper.ts:96`); that a fixture's closes are positive is asked of the fixture, whose loader only looks for numbers |

`TradeExecutionProofs`:

- `TypeCorrect`. `TypeOK` alone is not inductive: `AwaitPosition` adds
  `pos[p]` to `tracked[p]`, which is a position only because a process that
  awaits has one in hand. `Typed` adds that. A sentinel may be used as a key
  (`rec[p] = NoRecord`): an EXCEPT outside the domain changes nothing, which
  the lemmas about `Save`, `Transition` and `CompareAndSet` say once.
- `OneActive`. `OneActiveRecord` is inductive given one fact about each step,
  `GuardedWrite`: a record that is active after the step was active before or
  clashed with nothing. `UnclashedIsGuarded` and `TransitionGuarded` derive it
  from the check in the store, `PhaseAGuarded` and `PhaseBGuarded` for each
  action. This is the argument the code relies on: it never locks, every
  activating write passes the guard on the current rows.
- `CandidatesMoveLegally`, an action property. `CompareAndSetLegal` reduces it
  to a finite check: each caller names a pair of statuses that is in the graph.

`SingleProcessProofs` is about one process, with any faults, and a human on the
same account: `ClosedGone`, `ExecutedOpen`, `SpentNotApproved`,
`RefinesLifecycle`. With two processes TLC finds the first two violated, so "one
process" is a hypothesis and not an economy. None of the invariants is inductive
by itself: the code checks rows, awaits, and acts on what it read. `Consistent`
says what may be relied on in between.

- `Tables` is the durable part: a record names a position exactly when its status
  proves that one opened (`RecordsNamePositions`), and a candidate only when
  that was approved (`RecordsNameApproved`); at most one BUY waits
  (`OneBuyWaits`); and the three invariants.
- `Knows(p)` is what the process knows at each step of its cycle: of the row
  between the judgement and the write of the recovery sweep (`RecoverKnows`), of
  the record between reconciliation and repair (`ReconcileKnows`), during an
  exit (`ExitKnows`) and while a candidate is executed (`LoopKnows`); that the
  adapter watches at most one live position, and none while an order may be on
  its way (`AdapterKnows`); and that after the reconciliation no other record is
  open, nor any opened candidate still approved (`SlotKnows`).
- `RecordsStep` and `CandidatesStep` say once what a step of the process may do
  to the tables, `PhaseAWrites` and `PhaseBWrites` that every action does no
  more; `TablesKept` follows from that alone. One lemma per group of actions
  then shows that the process knows at its new step what it must, and that
  operator, broker, human and clock take none of that away.
- `RefinesLifecycle` maps each `RecordsStep` and `CandidatesStep` to a step of
  `TradeLifecycle` or a stutter. Its hypotheses, no `audit` and no `registry`
  fault, are those of section 3: with either, TLC finds the refinement violated.

`ReliableProofs`, on top of it: `OneLive`, `OnePerCandidate`, `NoEntry`, under
`Reliable`, the exclusions of section 3 (`audit`, `broker`, `slow`, `external`);
crashes, refused writes, a missing market and a registry that changes its answer
stay. `Sound` adds to `Consistent`:

- `Backed`: every position on its way is owed to an active record of its own
  candidate, that waits for it or names it. There is only one active record
  (`OneActive`), so two positions would be one (`OwedToActive`), and no orphan
  is ever adopted (`NoAdoption`).
- `Spent`: a position that is gone leaves its candidate decided for good, so a
  retry finds nothing to buy. `ActiveIsFrom`: no BUY waits next to the active
  record but the record's own. `StaleHasNone`: what the recovery sweep finds
  overdue has settled. `OrderKnown` and `ExitedKnown` are the corresponding
  knowledge of the process.

`PaperBotProofs`:

- `Leased`. `OneYoungScan` is not inductive: a claim looks at the row, not at the
  scans. `ClaimIsNamed` says that a scan within its five minutes is the one the
  row names. Most steps are `Unclaiming`: they write nothing to the row, no
  worker enters a scan, and claims only get older.
- `AccountTyped` and `RecordsAreTrue`, from the invariant `Account`: a trade that
  was never built is in no store (`Fresh`); what a scan still has to write is a
  trade it built, that nobody else writes and no store has yet (`Planned`);
  server and browser agree on a closed trade unless the close never got there
  (`Copied`); a store that fell back did so after a fault (`FellBack`), and
  without one the browser shows nothing the server lacks (`Shown`). The last two
  are why a decision can be trusted although it is filed from the browser's copy.
- `KeepsLimits`. `WithinLimits` is not inductive: a scan decides on trades it read
  earlier. `Fitting` says that, while nobody disturbed the account, no other scan
  plans anything, and the planned trade fits together with the open trades the
  server then still has. Fitting is `Within`, one conjunct per limit, for the open
  trades, and `Covered` for the cash. Trades closed meanwhile only help
  (`FewerLines`): a smaller book has a smaller count and is worth no more, in every
  sector, direction and instrument. Cash is what closed trades earned less what the
  open ones cost, so a close gives back at least nothing as long as the loss is
  `Bearable`, no more than the price (`CloseCovers`). The browser closes what it
  shows open, which the server has open or never got (`Mirrors`). Capital and
  results are folds over sets that pick their elements in an order of their own;
  the lemmas about `Sums` show, by descent on the cardinality, that any order gives
  the same sum, and are stated once for both.

`ServicesProofs` is about nine services that share no state:

- `RuntimeStaysOrderly` and `CyclesBeginRunning`, of `RuntimeControl`. `StateFits`
  says which states the runtime can be in at each stage of the shutdown (only the
  Telegram loop, which outlives `stop()`, can make a stopped runtime RUNNING
  again), `NothingAbandoned` that what `stop()` waited for is over unless it gave
  up.
- `Once`, of `DailySummary`. `Inside` says what `maybeSend` knows at each await;
  `Known` that, while nothing failed but readings of the account and sends whose
  summary did not go out, a day that was reported is in the file or about to be.
- `Confirmed`, of `OpposingStability`. `CountsOwn`: the tracker holds a count for
  the position it last synchronised with, at most; `CountsUsed`: no id that was
  never used has one; `CountsEarned`: the count never runs ahead of the cycles
  that found the position opposed.
- `TypeCorrect`, `Persistent`, `Informed`, `Kept` and `Recovered`, of
  `MarketDataIncident`. The type includes that a healthy count exists only with
  an incident and stays below the threshold. `WillPersist` is inductive together
  with it; the one observation that schedules no write is one that changes no
  incident (`UnwrittenUnchanged`). `OperatorInformed` speaks only of the moments
  between cycles; the inductive `Told` adds what holds within one: of each
  instrument the operator knows the incident, or exactly one pending announcement
  is about to tell them, and it fits what they know. In memory the healthy count
  never runs ahead of the world's (`Counted`), so within a process a recovery has
  been earned.
- `Refreshed`, of `MarketUniverse`. `SoundRow` describes a row as every write leaves
  it, and must hold of the rows of the table and of those that wait in the
  difference (`Rows`, `PendingRows`). `Follows` says for each group of writes
  what the table already has of the listing.
- `ScanStaysSound`, of `HermesScan`, from `Current`: phase B has the proposals of
  its own cycle, and while the scan runs nothing has been decided yet. The
  selection is a set: a proposal is in it when fewer than the limit are ranked
  before it, and a BUY when fewer BUYs that fit are than there is room for. The
  ranking is a strict order (`RankingIsStrict`, from the one place each instrument
  has in the universe), so the number of proposals ranked before one tells it from
  every other, and no more than n come first (`FirstAreFew`).
- `Archived`, of `Acquisition`, from `Acquired`. The cache holds published
  versions or damage, and a checksum on disk is never damaged (`CacheIsPublished`);
  the checksum at hand is one the exchange gave for the month at hand
  (`DownloadIsKnown`); what the datasets are written from was verified month by
  month, and the datasets of the roles already written are made of exactly that
  (`ReadingIsVerified`); and an entry of the manifest says of a dataset what that
  dataset is (`DatasetsArePublished`), which later runs cannot change since a
  dataset is never overwritten.
- `AlertsStayFaithful`, of `AlertTrail`, from `Faithful`. Several `record()` calls
  are in flight at once, and the write of one persists the events of all. What is
  on disk is a beginning of what is in memory (`FileIsPrefix`); each call in flight
  has its event in memory, and on disk once its write is done (`CallIsSound`); what
  was acknowledged or heard is on disk; until a crash, a trade whose call has ended
  was told or its failure noted; and every text the sender remembers has been
  heard, so skipping a repetition hides nothing but that. That an event occurs once
  in memory (`TradeIsUnique`) is where `FeedAssumption` is needed: two trades of the
  same wording would be one to the sender.

- `PaperBookIsSound`, of `PaperExecution`, from `Accounted`. Positions are numbered
  in the order they open and each is open or closed once (`BookIsWhole`), so a fill
  adds exactly its cost to the sum over the open positions, and a close moves its
  cost and its result across the equation of `CashConserved`. Two audit writes lie
  between an approval and its fill; `StepIsReal` says that neither the book nor the
  price moves meanwhile, so what the risk engine approved the broker does not
  refuse: that needs both to value the order alike, which is what units are for.
  `LogTells` says by how much the log may lag at each step: by the position at hand,
  or for good by the one whose write failed. The sums are folds over functions,
  with lemmas about finite sums of its own, like those of `KeepsLimits`.

`RulesProofs` is about two groups of pure rules, called with any input instead of
those a run enumerates (`AskSpec`): `StartsAreSafe` and `DecisionsAreGrounded`.

- Most of these rules walk along a list. Each such walk is a fold, and a fold over
  a list of any length is the loop it looks like: there is a function that gives
  the value after each number of steps (`FoldExists`, `FoldIsLoop`), and what holds
  at 0 and passes from each number to the next holds to the end (`Upwards`, from
  the least element of a set of naturals). `FoldStays` is the special case of an
  invariant of one step.
- The inputs are those the callers produce. `StartupAsked`: settings that are
  numbers or not given (`parseInteger`), session times of a clock or malformed, and
  documents none of which has the agent's own id if it is valid, which
  `STRATEGY_ID_PATTERN` excludes. `HistoryAsked`: candles on one grid, as a provider
  of one timeframe stamps them, in any order and with any holes or repetitions.
  `DecisionAsked`: at least two candles and none malformed, which is what
  `validateHistoricalCandles` has let through. Every input of the runs satisfies
  them.
- Startup. The settings that passed `buildHermesExecutionConfig` and
  `validateStartup` leave nothing for the broker, the market data or the session
  policy to refuse (`ChecksAreComplete`; that the universe is not empty is
  `UniverseIsThere`). `LoadedAreFirst` follows the two loops that read the
  documents: what the first keeps has an id of its own and is the first valid
  document with it (`TakenKeeps`, `ActiveAreWanted`), and the second drops what
  cannot be executed (`ApprovedKeeps`, `LoadedAreExecutable`).
- History. Two candles with nothing between them are `Consecutive`, so what an
  accepted history says of every such pair it says of every time in between
  (`Around`, `HistoryIsComplete`).
- Indicators are fractions. A weighted mean of two numbers within bounds is within
  them (`WeightedMean`), so averages (`AverageWithin`), Wilder's smoothing
  (`SmoothedWithin`) and EMA (`EmaWithin`) of any period are within the prices; RSI
  is within 0 and 100 (`RsiWithin`), ATR between the narrowest candle and the whole
  range (`AtrWithin`).
- `DecisionsFit`: neither strategy sells what is not held or buys more of what is,
  and `Demo0001` states a confidence within its bounds (`ConfidenceWithin`).

`IntegrationProofs`: `RoutesTellTheTruth`, of the integration API, for logs, lists of
positions and runs of pm2 of any length (`ViewSpec`). It assumes of the inputs what
their writers guarantee, and every input of the run satisfies it:

- `DecisionsAsked`: the log is in the order of its times (`ProperLog`), and records
  decisions per instrument, one creation per candidate, and no step of a candidate
  after its execution (`RecordedLog`). The older logs, and the older pipeline that
  executes at once, are covered only as far as such a log still runs into them.
  `SummaryAsked`: any list, a damaged file or none. `SnapshotAsked`: any broker whose
  answers are whole numbers, at most one each. `RunAsked`: any events of a run of
  pm2, in any order, with outputs of any size.
- The newest decision. The list is ordered by how many are newer: among places
  1 to n, each number from 0 on is held by exactly one (`RanksAreHeld`), so the list
  is complete and without repetition (`NewestByPlace`), and a smaller limit keeps a
  beginning of it (`UpperRanks`).
- The outcome. The search for a candidate ends at the instrument's next decision
  (`DescribedFits`), so a candidate created once lies within one decision's reach
  (`OutcomesAreOwn`); from there it is followed through the whole log to the last
  step it took (`FollowedToTheEnd`), and nothing follows its execution.
- The account. An instrument id is used only if it is that of the position
  (`PositionFits`), whatever names an earlier request left in the cache
  (`BothSnapshotsFit`). The equity is two sums one after the other in the code and one
  sum over the account in the property; `SumsTogether` says they agree, on any list.
- A run of pm2: while it runs there was only output, counted until it is too much
  (`RunStays`, `NextEventFits`), so only a clean end within the limit is taken
  (`FirstOfSum`, `RunsFit`).

`LedgerProofs`: what the ledger reports of any table of results (`TableSpec`) and of
any set of lifecycle records. What is assumed of a table is that times and results
are whole numbers; of records, that they have the fields every record has and a time
of opening, if any, that is a whole number (`RecordsAsked`).

- `DrawdownsAreDeepest`: the results of a strategy are put in the order of their
  exits, those of one exit as they were. That is a strict order of finitely many
  places, so each rank is held by one of them (`EveryRankIsHeld`) and no result is
  missed or taken twice (`OrderedAreBooked`). The walk along them keeps a sum, its
  peak so far and the deepest fall so far (`Walked`), and one more result keeps that
  true (`OneMoreResult`); the walk is a fold, and its sums are those of the property
  (`FirstResults`, `DrawdownFits`).
- `TradesKeepOneRow`: recording a trade again rewrites its row in place.
- `StoresAnswerAlike`: a record comes back from its row with every field it had but
  `submittedAt`, under the times of the database (`ReadBack`, `RowKeepsRecord`), and
  a query tests columns only, so the database finds what the store in memory would
  find among the records read back; it differs by refusing all when one row found
  is corrupted.
- `EntriesAddUp`: the counts of adjoining days add up, or none is given.

`DrawdownIsDeepestFall` is a part of `LedgerIsExact`; the last three theorems are
about one call, and its other parts check them along whole stories.

Only model-checked, because it is out of the prover's reach: liveness (fairness and
ENABLED), with it the conjunctions that contain it (`RuntimeLives`, `NewsGetsOut`,
`WorkGetsDone`); what reaches a recursive operator (`StrategiesAreWhole`,
`ResearchIsHonest`, from `StrategyRules` and `BacktestRules`); and what `SelectSeq`
or `SortSeq` returns, of which the provers know nothing. Only model-checked so far:
`IntakeIsExact` and `LedgerIsExact`, which select and sort; of the latter the parts
above are proved.
`PartsTypeOK` is proved part by part (`TypeCorrect`, `RuntimeTypeCorrect`,
`SummaryTypeCorrect`); `Parts` itself reaches recursive operators and carries no
theorem.

## 5. Plan

Written, in this order: the execution core with its abstract specification and
proofs; the control of the runtime; incidents; the summary; the bot and its
worker; alerts, opposing signals, the scan, the replay; startup and the pure
rules; the laboratory; the integration API; intake and acquisition; the ledger;
the market universe; the proofs of the parts; the limits of the account, all nine.

To prove next: `IntakeIsExact` and the rest of `LedgerIsExact`, with their selections
written as `IntegrationRules` writes them, by rank; the rules of the intake first.

To model next: the provenance columns and the audit events of a candidate (what
an auto-approval whose audit fails leaves behind); a `/run` during `start()`
whose observations the load of the incident file then replaces; two
preparations of one manifest at once.
