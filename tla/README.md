# Verification of the local research and paper-trading workbench

Algo_Manus is a local workbench for trading research and paper trading.  A
Streamlit process serves any number of browser sessions, each with its own
`session_state`.  A click starts a new run of the page script in a thread of its
own, also while an earlier run of the same browser session is inside a call (fast
reruns), and all threads, and any other process started on the same data
directory, share the SQLite files under `~/.algo-manus`.  Nothing locks them against each other: a
service reads through one short connection, decides in Python, and writes
through another.  What can go wrong in this code is therefore seldom inside a
function and mostly *between* two transactions: another session's step, a stale
value in a caller's hands, or the end of the process.

In the modules a *session* is such a thread: one run of the page at a time, whichever
browser session it belongs to.  Only where something is kept per browser session and
shared by its threads, in `AngelSources`, are the two told apart.

This directory holds TLA+ models of the parts where that matters, TLC
configurations that check them on small instances, and proofs that the TLA+
proof system checks for every instance.  `PROJECT.json` lists components, runs,
mutants, the source lines behind every definition, findings and hazards.

## Inventory

| Component (under `src/src/algo_manus`) | State it keeps | Operations | Interacts with | What is hard | Correct when |
|---|---|---|---|---|---|
| Paper order service (`application/paper_execution.py`, `domain/paper.py`) | none; immutable `PaperOrder` values in callers' hands | submit, work, fill, simulate_limit_fill, cancel, reconcile | ledger, risk gate, event bus | read, decide and append are separate transactions; submit appends three events; the simulator reads twice | risk decision before acceptance before everything else; one stream per identity; closed orders stay closed |
| Paper ledger (`infrastructure/paper/sqlite_ledger.py`) | table `paper_events` | append, order_ids, events_for, events(limit) | service, projector, audit | UNIQUE event identity refuses an insert in mid-call; the limited read is a prefix | append only, in order |
| Projection (`application/paper_projection.py`) | none, a replay | replay | ledger, risk gate, paper page | duplicated, late and crossed evidence must not move positions | the projected portfolio is a legal long-only order book |
| Risk controls (`application/risk_controls.py`, `infrastructure/risk/`) | policies, kill-switch changes | ensure_snapshot, save_policy, set_kill_switch, snapshot | paper page, order service | stamps read before inserts; lookups and inserts are separate transactions | immutable policies; an operator's change is never undone by an initialization |
| Risk gate (`domain/risk_engine.py`, `domain/risk.py`, `application/paper_risk.py`) | none | evaluate | projection, controls | works on values read earlier; count and cash at their limits | no approval beyond a limit of the portfolio it was shown |
| Paper page (`ui/workbench.py:_paper`, `application/paper_operations_console.py`) | widgets | one script run per click | all of the above | the order identity is the number of events read plus one | what was evaluated is what is recorded |
| Audit timeline (`application/paper_audit.py`) | none, a third replay | rows, integrity | ledger | judges streams by other rules than the projector | agrees with the projector on what is valid |
| Event bus (`application/local_event_bus.py`, `local_event_audit.py`) | bounded deques, per session | subscribe, publish | order service, experiments | bounded windows of different sizes, subscribers that raise | publication order; failures stay isolated |
| Backtester (`application/backtesting.py`, `domain/backtest.py`) | loop state | run | strategies, datasets, experiments | last candle, exact affordability, both-sided costs | no look-ahead; cash and trades add up |
| Experiments and retained research (`application/experiments.py`, `retained_dataset_backtesting.py`, `research_evidence.py`, `infrastructure/experiments/`, `infrastructure/research/`, `application/paper_promotion.py`) | manifests, validation outcomes, batches, artifact rows | run, save, get, integrity, resolve | backtester, datasets, bus, paper page | two databases written one after the other; reruns under one identity; the outcome of a dataset is written once | a retained batch stands on the manifest it was run with; evidence is never replaced |
| Robustness, dataset review, paper-run eligibility (`application/robustness.py`, `dataset_review_gate.py`, `paper_run_eligibility.py` and their repositories) | one table of records each | evaluate, record, assess, list | experiments, controls, datasets, evidence views | an assessment reads four stores one after the other | a record without blockers is backed by what it names |
| Evidence views (`application/cross_evidence_linkage.py`, `retained_evidence_manifest.py`, `evidence_coverage_dashboard.py`, `evidence_health*.py`, `strategy_family_comparison.py`, `experiment_export.py`) | none | joins over retained rows | all stores of evidence | joins by identity with bounded reads | what is joined is about one result |
| Instrument master (`application/instrument_sync.py`, `public_instrument_source.py`, `infrastructure/instruments/`) | retained snapshots, the last check | sync, sync_if_stale, latest, find, save, record_check | publisher over HTTP, Data & instruments page | resumable transfers of a file that is replaced; transactions of several sessions | the tables never claim more than was served |
| Universe and lifecycle (`instrument_lifecycle.py`, `universe_availability.py`, `instrument_sync.py:ResearchUniverseService`) | none | project, assess, create | instrument master | two comparisons in different words | they agree |
| Angel One session and candles (`application/angel_session.py`, `authenticated_historical_source.py`, `market_data.py`, `infrastructure/sessions`, `infrastructure/market_data`) | tokens and the provider's copy, per browser session and unlocked; retained datasets, shared | start, refresh, forget, sync, save | broker over HTTP, page, experiments | the provider keeps a copy of the token; threads of one browser session overlap in calls that wait for the broker | the provider follows the session after a call that met no other one; candles are of retained instruments |
| Strategies and registry (`domain/strategy.py`, `strategies/`) | none | signal, required_history, schema | backtester, robustness | crossings, recursive averages, first bars | no position outlives its rule |
| Execution order contract (`domain/execution.py`) | order value | transition, record_fill | tests only | table and constructor disagree | not modelled: nothing drives it |
| Workbench shell and demo service (`ui/workbench.py`, `application/demo_workbench.py`) | page state | one script run per click | everything above | stale pages | in the modules of the components it drives |

## Modules

    PaperLifecycle          order states, event kinds, PaperOrderLifecycle.apply
      PaperReplay           events; the strict and the lenient replay of them
        PaperExecution      service and ledger used by many sessions at once
          PaperAudit        the audit timeline, a third replay of the ledger
            MCPaperExecution      instances for TLC
            PaperExecutionProofs  theorems: types, evidence, the replays, the
                                  book, a lone session, the audit
          PaperDesk         the paper page: many sessions, one script run each
            MCPaperDesk           instances for TLC
            PaperDeskProofs       theorems
    PaperOrderBook          abstract: what a reader of the projection may rely on
    RiskControls            policies and kill switch used by many sessions
      MCRiskControls              instances for TLC
      RiskControlsProofs          theorems
    Backtest                one backtest, candle by candle, any strategy
      BacktestProofs              theorems
      StrategyBacktest      the backtest with the built-in Strategies in it
        MCBacktest                instances for TLC
    Strategies              the built-in strategies, pure
    ResearchEvidence        experiments over two databases, many sessions
      EvidenceGates         robustness, reviews, assessments, joined views
        MCResearch                instances for TLC
        ResearchProofs            theorems about both
    FiniteFolds             lemmas: induction, least elements, folds over finite
                            sets (used by the proofs of the paper orders, the
                            backtester and the research)
    InstrumentMaster        the broker's master and its local copies
      AngelSources          with the broker session and the candles
    InstrumentLifecycle     comparison of two retained masters, pure
        MCSources                 instances of both for TLC
        SourcesProofs             theorems about both
    LocalEventBus           the event bus of one browser session
      MCLocalEventBus             instances for TLC
      LocalEventBusProofs         theorems

### The paper order service

**State.** `ledger` is the table `paper_events` in `event_sequence` order.
`retained` and `portfolio` are functions of it that the code recomputes on every
read: `_retained_state` (per order, strict: the first event that does not fit
makes every later call raise) and `PaperPortfolioProjector.replay` (the whole
ledger, lenient: what does not fit is listed as unprojectable).  They are kept
beside the ledger, and stepped by each append, so that a state need not replay
it.  `issued` holds every `PaperOrder` value ever returned.  It is global and
never shrinks: any caller may use any value at any time, however stale.  `pc`
and `call` are the stage and the locals of the call a session is in.

**Actions.** One per transaction of each call.

| Code | Actions |
|---|---|
| `submit` | `Submit` or `DuplicateSubmit` (the read of the identities), `Propose`, `Decide`, `Conclude` (the three appends) |
| `work`, `fill`, `cancel`, `reconcile` | `Work`, `Fill`, `Cancel`, `Reconcile` (read and checks), then `Retain` (append) |
| `simulate_limit_fill` | `SimulateNoFill`, then `Retain`; or `SimulateLimitFill` (first read), `RecordFill` (second read, in `_record_fill`), `Retain` |
| insert refused by UNIQUE `event_id` | `RefusedAppend` |
| end of the process, or an exception after the append | `Crash` |

A call that raises on its first read changes nothing and is no action.

**Data.** An event keeps the payload fields that some replay reads.  The
identity hash covers type, order, time and payload but not the instrument, hence
`SameEventId`.  Prices are small integers: cash is only added and subtracted.
Whether a mark is within the limit, and the effective price, are fields of the
assumption record rather than the result of the float formula.  The risk
decision is a free choice, because it depends on values the caller read earlier;
`PaperDesk` ties it to them.  `SUBMITTED` is an alias of
`ACCEPTED` in the enum, and `ORDER_SUBMITTED` is replayed but never appended.

`PaperOrderBook` knows nothing of sessions, events or crashes: orders walk the
lifecycle, fills add up to the quantity and move position and cash, positions
never go below zero.  `ImplementsBook` says that the projected portfolio refines
it (`Book`, an `INSTANCE` with the projected orders, positions and cash).

**The audit.** `PaperAudit` has no state.  It derives the rows of the timeline
and its integrity summary from a ledger, by the transition table alone, with the
filters, the window and the limit of events.  `AuditReplay` reads a
sequence of events from its beginning, as `rows` does on every call; `Stream` is
what `events_for` selects for one order.  `AuditTracksReplay` compares the timeline
with the service's and the projector's replays: where the service can read a
stream, its timeline has no issue and ends in the status the service requires of
callers; where the projector refuses none of an order's events, it ends in the
projected status; and an order's rows are the same in its own timeline and in the
whole one.  The converse fails and is not claimed: the projector also checks
terms and quantities, so that it may refuse an event the audit calls valid, and it
may apply a later cancellation of a stream the audit has given up.

### The paper page

**State.** `PaperDesk` extends `PaperExecution` by `killed`, the durable kill
switch; `page`, per session the stage of its script run and what the run has read
or has in hand; `late`, a history variable that counts a session's acceptances
since the switch was last activated; and `runs`, which bounds the behaviours.

**Actions.** A run of `_paper` reads in three transactions: `ReadControls`,
`ReadPortfolio` and `ReadTimeline`, whose length gives the next order identity.
Then one button: `SetKillSwitch`, or the submission (`PageSubmit` or
`PageDuplicate`), which after its appends (`PageContinue`, `PageConclude`) goes
on to `PageWork` and `PageSimulate` when it was accepted, each followed by
`PageRetain`.  `PageRefused` is an insert that raises; `Leave` is a run that ends
without a button, is replaced by the next rerun, or dies in any stage.

**Data.** `Gate` is what an approval by both policies requires: the kill switch,
the count of session orders, the open positions, the position a sell takes from
and the cash a buy needs.  Their other limits (quantity, notionals,
concentration, realized loss) depend on marks and average prices; they can only
refuse, so a refusal is always possible and an approval needs `Gate`.  A change
of the kill switch is one step here; `RiskControls` shows what it consists of.
The eligibility button and the evidence behind a promotion are in
`EvidenceGates`.

### The risk controls

**State.** `policies` and `changes` are the two tables, `changes` in insertion
order; `held` is the snapshot each session was last given; `clock` the last
reading of the clock by anybody.

**Actions.** A run of the paper page reads the clock and calls `ensure_snapshot`
(`EnsureSnapshot`), which is taken apart into its transactions: `GetPolicy`,
`SavePolicy` and `InsertPolicy` (lookup and insert of `save_policy`),
`CheckSwitch`, `AppendChange` and `InsertChange` (lookup and insert of
`append_kill_switch_change`), `SnapshotPolicy` and `SnapshotChange`.  The page is
then ready, and its operator may use the switch once (`SetKillSwitch`, then
`AppendChange`, `InsertChange`) before the script reruns.  `Leave` is the end of
a run or of its process at any stage.  An integrity error or a conflict ends the
run.  `ChangeId` is an arbitrary injective hash that decides between changes of
one instant; two reasons stand for all texts.

### The bar backtester

**State.** `spec` and `dataset` are what a run is given.  `stage` is where `run`
stands; `index`, `cash`, `position`, `trades`, `curve` (the marked equity) and
`exposed` are its locals; `answers` the strategy's signals so far, each a free
choice because a strategy is an arbitrary function of the bars up to `index`;
`result` the figures of a finished run.

**Actions.** `Reject` and `Begin` (validation); `Bar` (one turn of the loop: the
signal of the bar at `index`, acted on at the open of the next one by `Enter`,
`Exit` or not at all, then `MarkToMarket`); `ForceClose`; and `Measure` (net
profit, drawdown, exposure, outcome and what the growth is taken of).

**Data.** Candles have an open and a close.  Prices, cash and the two costs are
integers; `Basis` stands for the 10,000 basis points, and amounts are kept as
multiples of `1/Basis` squared, so that nothing is rounded.  The code uses floats:
a property that needs an exact equality says nothing about the last bits.

`StrategyBacktest` adds `revision`: none, and the answers are free, or a built-in
strategy with its parameters, and the answer to a bar is computed from the closes
up to it.  Averages, MACD, RSI and the bands are recursive functions in fixed
point (`1/Unit`, rounded down at every operation), levels and deviations whole
numbers; the schema of each strategy is the set of its parameters.

### Experiments and the evidence about them

**State.** `outcomes`, `manifests` and `batches` are what is retained, in two
SQLite databases if `durable` and in the dictionaries of a service otherwise.
`version` is the version of the strategies that the running program has.  `active` is the batch
each session's pages are about, `events` what the bus has announced, `pc` and
`call` the stage and the locals of a session's run.  `EvidenceGates` adds the three
tables of records and, per session, the assessment it is `reading` for.

**Actions.** A run is `RunBatch` (validation and the backtests, in memory),
`LookUpManifest`, `CheckOutcomes`, `InsertManifest` (one transaction with the
missing outcomes), `LookUpBatch` (bounds first), `InsertBatch`, `Publish`.
`Refresh` is a script run that reads the newest batches and picks its own.
`Restart` is the end of the process at any moment, perhaps for a later version.
`EvaluateRobustness` and `RecordReview` retain a record each;
`Assess`, `ResolvePromotion` and `RetainAssessment` are the reads of an assessment
around which other sessions add evidence.

**Data.** A content hash is the content.  A dataset is described by what the local
policy looks at; figures of results are left out, since nothing decides by them.
The wall clock is one later moment per counted call; the snapshot of the kill
switch an assessment is given is an input.  The memory service is used by one call
at a time, as its tests and the demo do.  The views (`Link`, `PaperEvidence`,
`BuildManifest`, `Differences`, `Health`) are operators over the tables.

### The instrument master, the broker session and candles

**State.** `published` is the master the source serves now; `withdrawn` says when
every other one was last served, and with `answer` and `orderly` is a history
variable that the properties speak of.  `snapshots` and `checked` are the two
tables.  `now` is the last stamp anybody took, `pc` and `call` the stage and the
locals of each session's sync.  `AngelSources` adds, per browser session, `tokens`
(the broker session) and `handed` (the provider's copy); per thread, `service` (the
call of the session service it is in, with the token it has read back) and `candles`
(its candle request); the retained `datasets`; `asked`, which counts calls of the
broker for the bound; and the history `torn`: when the broker session was assigned
last, another call had assigned it and not yet told the provider.

**Actions.** `Begin` takes the stamp and reads the latest copy; `AnswerFresh` or
`GoOnline`; the connections of the bounded download (`FailToConnect`,
`IgnoreRange`, `Receive` with its decoding); `Find`, `Lookup`, `Insert`,
`RecordCheck`; `Abandon`, the end of a session or an exception, at any stage;
`Publish`, the publisher.  Of the broker session, every step at which another thread
may come in between: `StartSession` and `RefreshSession` look at the kept session
and ask the broker (`AskBroker`), `BrokerRefuses` or `BrokerAnswers` (the tokens are
assigned), `ReadToken` and `HandOn` (the new token is read back and given to the
provider); `ForgetSession` (the tokens are dropped) and `ClearToken`.
`RequestCandles`, `ReceiveCandles`, `RefuseCandles`, `KeepCandles` are a request;
`Reopen` is a browser session that ends and another one that takes its place with
services built from the environment.

**Threads.** The session service and the provider live in the `session_state` of a
browser session and nothing locks them.  A button of the page that is clicked while
an earlier run waits for the broker, in a login, a refresh, a candle request or a
sync, starts a new run in a thread of its own, and the waiting one goes on until
its next Streamlit call.  So any number of threads use one service at once, in any
interleaving of the steps above; a thread itself makes one call at a time.

**Data.** A master is transferred in two halves, so that a resumed transfer may
join halves of two masters; one that names an instrument twice is refused, another
may pass.  A token the broker rejects is one more refused request, and a request
keeps the token it was sent with.  The time at which a session was acquired is only
shown, and left out.  The retrieval time of a dataset is left out: it is not part
of its identity.

`InstrumentLifecycle` has no state: a snapshot is a function from identities to
what it says of them.  `Project` and `Assess` are the two services.

### The event bus

**State.** `events` and `deliveries` are the two deques, `subscribers` the names
of the dictionary in its order, `stack` the publications in progress, one inside
the other when a subscriber publishes, `published` every event accepted in this
session, `outcome` what the publication that ended last returned or raised.

**Actions.** `Subscribe`; `Publish` up to the loop, or `PublishDuplicate`;
`CallNext` and `Deliver` around a call of a subscriber; `Return`; `RaiseChanged`,
the `RuntimeError` of a loop over a dictionary that grew; `Restart`, a new
browser session.  A subscriber is external: during its call it may publish and
register, and may end normally or by an exception.

## Runs

| Run | Instance | Shows |
|---|---|---|
| `paper_races` | 2 sessions, one identity proposed as BUY 2 and as SELL 1, closed and deep markets and explicit partial fills, one clock value | types; `RiskFirst`, `AcceptedFirst`; `DivergenceIsFlagged`; `IssuedOrdersAreEvidenced`; `AuditTracksReplay`; `ImplementsBook` under races and crashes |
| `paper_serial` | 1 session, BUY 2 with stale handles, markets beyond the limit, thin and deep, two clock values | `OneProposalPerOrder`, `StreamsStayReadable`, `ClosedOrdersStayClosed` hold when sessions do not overlap, crashes included |
| `paper_liveness` | as `paper_races` in a deep market, without crashes, weak fairness per session | every retained proposal is concluded |
| `paper_late_fill` | 2 sessions | finding: a fill retained after the close |
| `paper_desk` | 2 sessions, three script runs, one lot bought first and sold later, cash for one, a session limit of one or of two orders, two positions | `KillSwitchBites`: a switch once active lets through at most the order a session was at; `OvershootIsBounded`: racing sessions pass the limit by less than one order each; `PositionsStayLong` although racing sells are both approved |
| `paper_desk_limit` | 1 session, `ReadLimit` 4 | finding: beyond the limit the figures stand still |
| `risk_controls` | 2 sessions, two contents of one version, readings 0 and 1 that may tie | `SnapshotsAgreeOnPolicies`, `EnsuredControlsExist`, `SnapshotsOnlyAdvance`, `InitializationNeverDisarms` |
| `backtest` | candles of three shapes; every sequence of answers after a flat start, and each of the seven built-in strategies on eleven candles; cash that is just enough and not, modest and steep costs, with and without forced close | no look-ahead; trades in turn; cash and trades agree; cash never negative; no position outlives the rule of the strategy that opened it |
| `event_bus` | 3 events, 2 subscribers, 2 retained events, 3 retained rows, publications nested twice | traces are the latest; every subscriber is served once and counted once |
| `research` | 2 sessions, 2 fixture requests and 2 retained ones (one too large to keep, one not accepted; the run that retains the batch of a retained dataset is `research_rerun`, and the theorems cover both), 2 versions, 3 counted calls, databases with a legacy row, or memory | `BatchesStandOnManifests`, `EvidenceIsImmutable`, `HandedOutIsRetained`, `CompleteIsBacked`, `ManifestIsCoherent` |
| `research_rerun` | one retained dataset, two parameter revisions | finding: the second run of an accepted dataset is refused |
| `sources` | 2 threads of one browser session that sync, log in, refresh, forget and ask for candles, 4 such calls (3 syncs at most) besides forgets; 2 masters of one instrument that may alternate, 2 connections per download, 3 stamps, 2 tokens | `ChecksAreBacked`, `AnswersAreServed`, `CandlesAreGrounded`; and, as an assumption TLC evaluates, that the two comparisons of masters agree on all masters of one line |

**Bounds.** Two sessions suffice for every hazard listed: each is a race of one
call against another.  Quantities up to 2 give an
order a partial and a completing fill; one clock value makes identical events
collide, two let them through.  With one or two clock values the UNIQUE identity
also bounds the ledger, so no counter needs a guard.  `ReadLimit` is the code's
default of 1000 and is never reached, except in `paper_desk_limit`, where 4 rows
stand for 1000: one order takes at least three.  `MaxRuns` bounds the desk: three runs are a
buy and two sells that race, two submissions around a change of the switch, or
three submissions that race for the count.  Eight identities are enough for that:
the first order takes five events, so a later one that is submitted after its fill
has an identity from the sixth on, and sells.  Beyond these bounds a desk does
nothing, so these runs do not look for deadlock.  A backtest with free answers is flat for the
six bars that every revision asks for, and then has room for two round trips, an
entry on the last bar and ignored signals between them; with a strategy three more bars
vary, so that it can cross in either direction before it may trade.
`MaxPublished` and `MaxDepth` bound the bus: one publication more than the trace
retains, and a publication inside another.  `MaxClock` bounds the risk controls:
when it is reached no call can start, so that run does not look for deadlock
(operators owe the system nothing); a backtest stops when it has its result.
`MaxCalls` bounds the runs, reviews and assessments of `research`: three are two
racing runs and a third that finds what they left, or a run, a review and an
assessment; restarts, refreshes and robustness evaluations are not counted.  A
fresh database is `LegacyBatches` = {}; with a legacy row the run asks more.  The
review has one of the code's two categories there, since all are judged alike.
`MaxNow` and `MaxAttempts` bound `sources`: three syncs are an overlap and a later
one, or a check, a freshness read and a replacement between; `MaxCalls` bounds the
syncs and the calls of the broker together, forgets come on top: two that overlap
draw the provider and the session apart, and two more find what they left.  A second
connection (the code makes up to six) is enough to resume across a replacement.  `PerSecond`
2 lets two stamps share the second that names a snapshot, and others not.  In
`PaperExecution` and `sources` something can always start or continue, and
deadlock is checked.

**Fairness.** `FairSpec` is weakly fair to each session's `Continue`: a Python
thread that is inside a call runs on, and no step of a call waits for anything.
No caller is obliged to start a call, and there are no crashes in `FairSpec`: a
crash between two appends of a submission leaves its proposal pending for ever,
since no other call ever concludes it.

**Findings.** Each quotes the document in `PROJECT.json`.  `paper_late_fill` is
about overlapping calls: the service alone does not keep a closed order closed,
because it checks the status and appends in two transactions.  The projector
contains the damage, which is what `ImplementsBook` and `DivergenceIsFlagged`
show.  The other two are sequential.  Beyond the first thousand events the paper
page goes by figures that stand still (`paper_desk_limit`).  A retained dataset
that was validated once is validated again, with a later time, by every run that
needs a new manifest, and the repository refuses the outcome because its time
differs from the one it kept (`research_rerun`): one experiment per retained
dataset and strategy version, whatever its parameters.  Fixture runs pin one
validation time and are not affected.

Smaller observations have no run of their own.

*Paper.*  `OneProposalPerOrder` holds for one session and not for two: two
submissions of one identity can both find it unused.  The simulator reads the
stream twice, so in a race its stated reason may be about another remainder than
the fill; quantities stay right (`ImplementsBook`).  Of two overlapping kill-switch
calls the one recorded last need not be the current one, since the current change
is the one with the greatest stamp, and of one stamp the one with the greater hash.
The bus suppresses a duplicate only while the first event is retained.  Once the
timeline is cut off at its limit the page proposes the same order identity again
and again, and only the duplicate check answers.  The detail of an audit row is
looked for among the first `limit` events of the ledger, so a row of an
order-scoped timeline beyond them is unknown.  `reconcile` has no caller but tests.

*Research.*  A backtest that may keep its position annualizes cash instead of
equity (`application/backtesting.py:232`; docs/BACKTEST_METRICS.md:22 says equity).
A manifest whose batch is over the artifact bounds stays without a batch.  The identity
of a batch leaves out the strategy version, so that after an upgrade a rerun finds
the old batch.  A batch from before manifests were retained is found by its
identity and stays without one.  The page flips to another experiment when its
batch is no longer among the twenty newest.  Retained-evidence manifests built from
SQLite show zero artifact counts, since its listing does not load the rows.

*Broker session.*  `CandlesAreGrounded` says that the provider follows the broker
session whenever the call that assigned it last met no other one that had yet to
tell the provider, and none is left; it says nothing of calls that overlap there,
since nothing keeps them apart.  What overlap does in the model, and in
`application/angel_session.py:58-82`: a forget while a refresh or a second login
waits for the broker is undone, because what the broker answers is kept whatever
became of the session; a forget between the assignment and the read-back makes the
call raise; a forget after the read-back leaves the page without a session and the
provider with a token; and a forget that clears the provider late leaves a session
and a provider without its token, so that candles are refused until the next
refresh.  docs/LOCAL_APP.md:32 says that a forget clears the token handed on.  The next
call that nobody interferes with heals all of it (the history `torn` is FALSE
again).  A candle request that is under way when the session is refreshed or
forgotten goes on with the token it was sent with, and its dataset is retained.

*Sources.*  `latest` takes the greatest download stamp and never reads the
snapshot the sync state names.  So when the publisher goes back to earlier content
a sync answers `unchanged_content` and `latest` stays with the content in between
(docs/LOCAL_APP.md:18 promises a new immutable snapshot for a changed file); and
since a stamp is taken before its download, a slow download can be saved after a
later one without ever becoming the latest.  `record_check` may move the time of the last check
back.  The page says that no local snapshot changed also when the save succeeded
and recording the check failed.  A resumed transfer sends no `If-Range`, and no
total hash is compared.  A dataset's identity leaves out its retrieval time, so
the provenance first kept stays.  The page always forces a sync; the fresh path is
there for other callers.

## Proofs

Eight modules hold theorems: `PaperExecutionProofs`, `PaperDeskProofs`,
`RiskControlsProofs`, `BacktestProofs`, `ResearchProofs`, `SourcesProofs`,
`LocalEventBusProofs` and, for the lemmas several of them share, `FiniteFolds`.  They are proved for arbitrary sets of
sessions, orders, instruments, prices, readings, limits, datasets, requests,
strategies, subscribers and so on, under the named assumptions of the modules
only: kinds of the constants, null values outside the types, clock readings that
are numbers (`StampsAssumption`: the code compares aware timestamps, which are
ordered), an injective hash,
finitely many sessions on the desk (`SessionsAssumption`), and legacy rows as they
really are (`LegacyAssumption`: finitely many batches without a manifest, as they
were written before manifests were retained).

*Paper orders.*  `TypeCorrect` is inductive as it stands.  `RiskFirst` is not: a
`Conclude` step appends an acceptance because of a local variable that was set
two steps earlier, and a `Work` or `Fill` trusts a status that a caller brings.
The inductive invariant `EvidenceInv` therefore adds what every call in flight
stands on (`CallsAreEvidenced`), what every value in a caller's hands stands on
(`IssuedOrdersAreEvidenced`) and that a stream has its proposal
(`ProposedFirst`).  The argument is monotonicity: retained evidence is never lost
(`EvidenceIsKept`), so a fact established when a call read the ledger still holds
when it appends, whatever other sessions did.  `RiskComesFirst`,
`AcceptanceComesFirst`, `IssuedOrdersAreBacked` and `CallsAreBacked` follow.

*The book.*  `DivergenceIsFlagged` rests on `ReplaysAgree`, which says more than
it: where the projector lists nothing of an order, both replays agree on its
status, its fill *and* on whether a risk decision was seen, since that decides what
a rejection will be taken for.  `PortfolioIsABook` proves the refinement: what the
initial portfolio maps to is an initial book, and each append is a step of the book or a stutter
(`AppendIsBookStep` does one event at a time).  The strengthening is `BookInv`: no
position is short, and an order is either known with its terms or untouched, in
which case nothing proposed it unless the ledger is past the limit of the replay.
`AuditIsAThirdReplay` is about a replay the model computes afresh from the ledger in
every state, whereas `retained` and `portfolio` are kept beside it.  The lemmas
`PickedFromAppend` and `ReplayOfAppend` say what one event more does to a selection
and to a reading (the recursive functions behind them exist and agree on common
prefixes, by `EveryNumber`), and `AuditFollows` is the invariant: the reading of an
order's own stream is that order's part of the reading of the whole ledger, and
while the service or the projector takes everything of the order it has no fault and
the same status.  It is stated without the limit and the filters; that the window
the page proposes takes every event in, and that the limit cuts nothing off, is
shown once (`WindowTakesAll`, `FirstOfShort`).
`AloneProposesOnce`, `AloneReadsItsLedger` and `AloneKeepsOrdersClosed` assume that
there is one session; `SerialInv` says that what the call in flight read is still
what the ledger says, stage by stage, so that every append fits its stream.

*The paper page.*  `DeskUsesTheService` shows that every behaviour of the desk is
one of `PaperExecution`, and so carries the theorems above over to it
(`DeskRiskComesFirst`, `DeskReplaysAgree`).  Its invariant `HandInv` ties each page to the call it
waits for and says that an order in a page's hands is one the service has
issued.  `KillSwitchWins` rests on `KillInv`: while the switch is active, a
session that has accepted an order since is not `Approving`, that is, its run has
read the switch or is past its submission; only a new run could approve, and a
new run reads the switch.  `PositionsAreLong` is inductive with the types: the
projector applies no sell beyond the position, whatever the gate let through.
`DeskTypeCorrect` needs that only finitely many orders are known at any time
(`FiguresAreFinite`), since the page counts them.  `OvershootStaysBounded` rests on
`OvershootInv`: call a session a racer while it goes by a count below the limit or
is inside a submission that was approved; once the count has reached the limit,
count and racers together are at most the limit plus the sessions less one.  The
session whose order reaches the limit ceases to race, and a session races anew only
by reading a count below the limit.

*Risk controls.*  `PolicyInv` adds to `SnapshotsAgreeOnPolicies` that a row read
for a snapshot is still the row on record; `PoliciesAgree` and `ControlsExist`
follow.  `SnapshotsAdvance` (an action property) rests on the held change being
on record and on `ALatestChangeExists`, that a latest change exists at all, which
is kept as an invariant, simpler here than an induction over finite sets.  `OperatorsPrevail` excepts an
initialization and an operator's change that carry one reading of the clock;
readings that all differ (`MinTick = 1`) leave no exception.  Its invariant `OrderInv`: while nothing is on
record nobody has a ready page, so every operator's reading is later than the
reading of every initialization that found the table empty.

*Backtests.*  `NoLookAhead` and `OnePositionAtATime` rest on `AccountInv`: the
types, where the loop is relative to the candles, that every fill is the one its
signal called for and that trades are in turn, with the open position later than
all of them.  A trade that is closed is the position of that moment, hence the
last conjunct.  `NoOverdraft` adds that an entry is affordable when it is made and
that a sale brings no less than nothing, which needs both costs to be at most the
price.  `BacktestTypeCorrect` needs that every curve has a highest point and a
steepest loss (`GreatestExists`, `SteepestExists`).  `CashAndTradesAgree` is about the
sum as the community fold computes it: the fold exists for every finite set
(`SumsExist`), its value does not depend on the element it takes first
(`SumsTakeAny`), so one more trade adds its own result (`NetOfMore`), and a close turns
what the entry took out of the cash into the result of the trade (`CloseBalances`).
Induction over data has no rule here that takes a predicate; these lemmas apply the
well-foundedness of finite sets, or the least counterexample, to a *set* of numbers
(`EveryNumber`).  `BuiltInsAreRuns` shows that a run with a built-in strategy in it
is a run of the backtester, whose theorems therefore hold for it.
`RulesAreFollowed` is about the seven strategies with any accepted parameters, on any
sequence of closes: every figure is a number (`TotalType`, `EmaType`, `RsiType`,
`VarianceType`, `MacdType`, the averages as folds), no entry is against its rule and
a rule that turns against a position is answered with an exit (`Respects`, one lemma
per strategy); for the crossings this needs that the figures of the bar before are
those of the closes without the last one (`ClosesGrow`, `MacdOfFront`).  The
rounding of the figures plays no part in it.

*Sources.*  `MasterInv` adds to `ChecksAreBacked` what each call has in hand
(`HandsOK`): the halves received, and the result it will retain or answer with,
were served since the call took its stamp, and a result about to be recorded names
a retained snapshot.  It is monotone in both directions that matter, since retained
snapshots stay and a master that was served since a stamp was served since it for
ever (`ServedStays`), which is what carries a call across the steps of others
(`HandsStay`, `OneMoves`).  `ALatestExists` is kept as an invariant here too.  `TablesNeverClaimMore`
and `AnswersStandOnTables` follow; `SourcesImplementMaster` carries them over to
the page with its broker sessions and candles.  `CandlesStayGrounded` needs of
the master only that snapshots stay.  Of a browser session whose last assignment was
made with no other call pending it keeps that at most one call is pending now and
that this one goes by the session as it is kept (`InStep`: a token it has read back
is the kept one, a forget is pending only while there is none), and that the two
agree when none is pending (`Settled`); a call that is still asking the broker needs
no part of it, so it may begin before and answer after anything.  `CallersAreToldTheTruth` proves
`AnswersAreServed`.  For a fresh answer of an orderly behaviour (no master comes
back, one call at a time) the invariant `Orderly` says that snapshots follow each
other as the source served them: a half by which one differs from a later one, or
from what a call has in hand, was withdrawn before (`InSuccession`, `InTurn`);
hence what a call retains is the latest snapshot from then on, and the latest one was
served at or after the last check.  `LifecycleAgreesWithAvailability` is about the two comparisons of a
pair of snapshots, for all pairs.

*Research.*  `ResearchInv` adds to `BatchesStandOnManifests` and
`HandedOutIsRetained` what a run may rely on at its stage (`Grounded`): the manifest
it stands on is retained from its insert on, whoever inserted it, and its batch
before it is announced.  A service in memory needs three facts more: one run at a time,
one version, and no manifest where one is about to be inserted, since an insert
replaces there.  With that `EvidenceStaysAsItIs` (an action property) holds in both
kinds of store.  `GatesInv` carries all of it over to the module with the records
and adds that a promotion an assessment holds between two of its reads still stands
on retained rows (`ReadingsAreGrounded`), and that robustness evidence is determined
by its version, so that a record without blockers is backed (`CompleteIsBacked`)
although its four reads are not one.  `JoinedEvidenceIsCoherent` proves
`ManifestIsCoherent` from `JoinInv`, inductive on top of `GatesInv`: tables are
finite, and an assessment, blocked or not, names the manifest its batch is stored
with, the one result of its instrument in that batch, and robustness evidence of
both (`Named`, `ResultIsUnique`); the newest review exists because times are
bounded (`NewestExists`), and what is counted kind by kind adds up to all there is
(`CountsAddUp`, for the link states and for the rows of each batch).  The first dataset of a request exists as
the least element of a set of positions, by the well-founded order of finite sets.

*The event bus.*  `BusInv` says that the retained events are the newest ones of all
accepted (`Newest`) and, of every publication in progress, that its rows name the
registered subscribers one after the other and leave one to call while one is being
called (`FrameOK`); with it a publication that returns has served all.  `AuditInv`
says of an event published once that there is one publication of it at most and that every
retained row of it is among that publication's rows while it is in progress, so that
the next row names somebody new.

*Only model-checked.*  `ProposalsAreConcluded`: liveness and `ENABLED` are outside
the prover.  Every other property of the passing runs is a theorem.

## Not modelled, and why

The execution order contract (`domain/execution.py`) is a table and a constructor
that nothing in the program drives.  Sharpe, Sortino, expectancy, turnover and the
figures of a robustness candidate are formulas over floats that no decision reads.
Average prices, marks and realized loss decide in the risk gate; there they can
only refuse, and `PaperDesk` lets an approval be refused at any time.  The exports,
the dashboards' remaining counters and the operations log turn retained rows into
text and are read by no decision.  Streamlit widgets, wording, the parsing of HTTP
payloads, schema migrations and hashing as such are data without control.  The event
bus publication at the end of `_append_event` changes no durable state and is not
repeated in `PaperExecution`; an exception there is a `Crash` after the append.
Two hazards have no property for these reasons: the reconciled order that would
count again (nothing calls `reconcile`) and the order contract.

## Plan

Every safety property that a passing run checks is proved.  What
a next step would add: that a filtered timeline is a part of the unfiltered one, in
order, and that the figures `PaperDesk` counts from a projection are bounded by the
proposals retained.
