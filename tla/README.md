# Verification of the autonomous trading platform

TLA+ models, model-checking runs and machine-checked proofs for this repository: how
market information reaches the platform, how decisions are made, how an order is filled
on paper or sent to a venue, how positions, equity and ledger stay together, and how a
strategy earns capital. Paths below are relative to `src/`; `backend/` is the program.

- [The system](#the-system): inventory of its parts
- [The modules](#the-modules): what models what, and how
- [The runs](#the-runs): what TLC checks, with which bounds
- [Fairness](#fairness)
- [The proofs](#the-proofs)
- [Disagreements between code and documents](#disagreements-between-code-and-documents)
- [What is not modelled](#what-is-not-modelled)
- [Plan](#plan)

Run a check with `tlc -config <cfg> <module>`, a proof with `tlapm <module>.tla`.
`PROJECT.json` lists runs, mutants, theorems, hazards, and for every definition the
source lines it stands for.

## The system

The process (`backend/main.py`) ingests market observations, lets a reasoner turn
each into a decision proposal, passes the proposal through a risk gate and fills it
on paper or at a venue. An operator watches, and may close positions, stop the engine or
pull a kill switch. Beside it, on the command line, research freezes data, evaluates
strategies and moves them up and down a ladder towards capital.

### Trading

| Part | State | Operations | Talks to | What makes it correct |
|---|---|---|---|---|
| Order lifecycle (`domain/execution/order_lifecycle.py`) | one immutable `VenueOrderState` per order | `with_fill`, `as_rested`, `as_rejected`, `as_cancelled`, `as_expired` | used by the venue | fills add up, never beyond the order; terminal is final |
| Paper fill engine (`application/simulation/paper_fill_engine.py`) | the book, a queue per side and price | `set_book`, `set_mark_price`, `submit`, `advance`, `cancel` | venue, simulator | price-time priority, depth is sold once, limits hold |
| Sandbox venue (`application/simulation/sandbox_venue.py`) | a record and the last report of every order | `submit`, `advance`, `cancel`, `expire_due`, `fetch_open_positions` | drives a fill engine | its records and the engine's queue agree |
| Risk gate (`application/risk/circuit_breaker_risk_gate.py`) | VPIN trackers, market stats, reconciliation mismatches | `evaluate`, feeds | asked by the simulator, fed by ingest and reconciliation | no new risk beyond a limit; an exit is never refused |
| Paper simulator (`application/simulation/paper_trading_simulator.py`) | positions, open records, equity, loss windows, sequence | `process`, `risk_snapshot` | gate, fill engine, ledger | position = executions = open rows; equity = ledger; brackets fire |
| Ledger (`infrastructure/sqlite/ledger_repository.py`) | rows by trade id, durable | `save` (upsert), queries | simulator | a closed row is final |
| Decision pipeline (`application/pipeline/decision_pipeline_service.py`) | auto-trade mode, spread history | `process` | supervisor, reasoner, simulator | nothing is traded while halted or degraded |
| Market loop (`application/pipeline/market_loop_service.py`) | running flag, last decision per market | `start`, `stop`, `handle` | bus, ingest, pipeline | one decision at a time, at its own price |
| Supervisor (`application/supervisor/supervisor_service.py`) | kill reason, last observation per symbol | `engage_kill_switch`, `release_kill_switch`, `record_observation`, `check` | pipeline, routes | a halt is a halt |
| Routes (`presentation/api/routes_{operator,drive,engine,supervisor}.py`) | the shared `operator_lock` | close, flatten, drive, start, stop, mode, kill | all of the above | mutations are serialised; the operator is served |
| Execution core (`application/execution/execution_core.py`) | day statistics, pending orders | `process_proposal` | gate, prop rules, gateways | an approved size is never exceeded; a report says what happened |
| CCXT gateway, MT5 bridge, file bridge of the EA (`infrastructure/{execution,mt5}/`) | connection, loop thread, order and response files | submit, cancel, positions | venues | an unknown outcome is not called a fill; no leftover order is executed |
| Reconciliation (`presentation/api/routes_reconciliation.py`, `application/execution/reconciliation_service.py`) | stored reports, mismatch flags in the gate | `reconcile` | a client that read the account, simulator, gate | a mismatch that stays is vetoed, and stays so |

### Information

| Part | State | Operations | Talks to | What makes it correct |
|---|---|---|---|---|
| Connectors (`infrastructure/data_fabric/connectors/`, `infrastructure/broker/deriv/`) | connection state, reader, monitor, reconnect task, seen entries | `start`, `stop`, reconnect, poll | venues, event bus | stopped is stopped; silence is noticed |
| Event bus (`infrastructure/data_fabric/{event_bus,replay}.py`) | subscriber queues, dedupe set, batch queue, table of events | publish, subscribe, batch writer, replay | connectors, news pipeline, bridge, SQLite | delivered in order, once; stored once |
| News pipeline, fabric bridge (`infrastructure/data_fabric/pipeline.py`, `infrastructure/observation/fabric_bridge.py`) | a subscription each | enrich, forward | event bus, observation bus | never waits for itself |
| Observation bus (`infrastructure/observation/observation_bus.py`) | one bounded queue | publish, subscribe | adapters, market loop | backpressure, no loss |
| CCXT adapter, order-flow features (`infrastructure/observation/ccxt_adapter.py`, `domain/context/features/`) | previous book, tracker | poll or stream, publish snapshot and difference, update | observation bus | the tracker's book is the venue's |
| Macro calendar (`application/pipeline/macro_calendar_service.py`) | rows of events, a poll under way | poll, upsert, veto query | feed, observation bus, pipeline | one publication per release |
| Composition root (`main.py`) | tasks, loops, fabric, database | launch, engine start and stop, shutdown | everything | shutdown ends and leaves nothing at work |

### Decisions and learning

| Part | State | Operations | Talks to | What makes it correct |
|---|---|---|---|---|
| Reasoners (`infrastructure/ai`, `application/decision`) | none | context or reply to proposal | pipeline | bounded size, protected entries, no opinion without cause |
| Smart fallback reasoner, Omega (`infrastructure/ai/smart_fallback_reasoner.py`) | provider health, key cursor | sequential, parallel, hedged races | model providers | stands aside only when the chain is exhausted |
| Reflection and memory (`application/reflection/reflection_service.py`, `domain/memory/`) | episodes by trade, edge estimate | reflect, recall, estimate | ledger, pipeline | an episode is an outcome that was; one counts once |

### Research and capital

| Part | State | Operations | Talks to | What makes it correct |
|---|---|---|---|---|
| Frozen datasets, leak detector (`application/research/{dataset_service,historical_data_ingestor,evidence_run,leak_detector_service}.py`) | versions, test-period claims | freeze, claim, train, evidence run, audit | label engine, evidence engine | a claimed period is not trained on |
| Labels, purged validation (`application/research/label_engine.py`, `application/validation/purged_cv.py`) | samples | generate, split | datasets | no training label reaches into a test |
| Experiments and research loop (`application/research/experiment_*`, `research_loop.py`) | experiments, final-test claims, cycle | register, record, walk lineage, run cycle | runner, registry | an insight rests on its own experiments |
| Strategy ladder (`application/research/{evidence_engine,promotion_engine,death_system,edge_monitor,...}.py`) | passports, lifecycle ledger | issue, promote, demote, retire, rank, allocate | command line | ledger explains passport; retired is final; capital follows evidence |
| Paper campaigns (`application/research/paper_campaign_service.py`) | one row and its days per campaign | create, run, cancel | runner, promotion gates | a verdict of the days of one run |
| Canary, program, ramp (`application/research/{canary_harness,autonomy_program,gradual_scaling}.py`) | day, stage, exposure | run | promotion gates | nothing is granted that was not earned |

Hard behaviour of this code:

- **Threads.** The market loop decides in worker threads, `POST /drive` runs in the
  server's thread pool, close and flatten are coroutines that block the event loop
  in `lock.acquire(timeout=5)`. All share one simulator, whose fill engine has one
  book for all symbols. The supervisor, the mode and the running flag are shared
  without the lock; `risk_snapshot`, which resets the loss windows, is called by
  routes and websockets without it, too.
- **Tasks that wait for each other.** Publishers wait for full queues; the news pipeline
  publishes to the bus whose queue it empties; shutdown cancels tasks that wait.
- **Check, then act.** Kill switch, staleness, mode, risk context, the flatten list,
  the mark of a manual close and a campaign's status are read some steps before they are used.
- **Ordering.** Competing orders share depth by price and time; the loss windows roll
  by event time; a snapshot and its difference are two events; rows and replays share one writer.
- **Timeouts and lost answers.** A submit gives up while its order is under way; providers are raced
  and cooled off; connectors reconnect while they are stopped.
- **Restart.** The ledger is durable; sequence, positions and equity are not. Files of the EA,
  stored calendar rows and half-run campaigns outlive the process.
- **Several writes, one of which may fail.** Equity, row and position of a close; the two
  rows of a partial close; engine and venue record of an order; ledger event and passport.

## The modules

```
Trading
  OrderLifecycle                one order of a venue           <- OrderLifecycleProofs
     ^ refined by
  SandboxVenue EXTENDS PaperFillEngine                         <- MCSandboxVenue, VenueProofs
  PaperSimulator (gate, ledger, decision pipeline)             <- MCPaperSimulator, PaperSimulatorProofs
  TradingDesk                   one decision at a time
     ^ refined by
  TradingPlatform (loop, routes, supervisor over one
                   simulator and one fill engine)              <- TradingPlatformProofs
  LiveExecution EXTENDS VenueLinks (core over three
                   kinds of gateway)            \              <- LiveExecutionProofs
  Reconciliation (account, simulator, veto)      > MCLiveExecution
                                                /              <- LiveExecutionProofs
Information
  DataFabric   buses, news pipeline, bridge    \               <- InformationProofs
  DataSources  one connector                    >  MCFeeds     <- InformationProofs
  ServerLifespan  tasks, engine routes         /               <- InformationProofs
  EventStore   batch writer, replay            \               <- InformationProofs
  MacroCalendar  poller and veto                >  MCDecide    <- InformationProofs
  BookFeed     adapter and order flow          /               <- InformationProofs
Decisions, learning, research, capital (all in MCDecide)
  Proposals, Learning, OmegaFallback                           <- DecisionProofs
  StrategyLadder                                               <- DecisionProofs
  PaperCampaign, CapitalRamp EXTEND PromotionGates             <- DecisionProofs
  ResearchData, Validation                                     <- DecisionProofs
  ExperimentRegistry                                           <- DecisionProofs

Collections       three operators on sequences, sets and functions, shared by
                  PaperFillEngine, OmegaFallback, ResearchData and Validation
InductionLemmas   induction, folds, loops and finite orders, used by VenueProofs,
                  PaperSimulatorProofs, InformationProofs and DecisionProofs
```

### Trading

**OrderLifecycle** is the abstract specification of what a venue promises for an order:
accept (as new, partly filled, filled or rejected), fill, cancel, expire. `with_fill` keeps the
code's guard (`order_lifecycle.py:101-139`); prices are left out, quantities are exact units.

**PaperFillEngine** is the pure part of the engine as operators over a book and a queue:
ladders are functions from price to size, `_sweep` takes the best levels within a bound,
`AdvanceSide` folds over the queue in priority order with the shared working ladder, as
`advance` does. Fees and the impact model are left out: no property here is about them.

**SandboxVenue** composes it with the venue's own records. One action per method; an
exception half-way is modelled (`Recordable`, `Applied`): the reports behind the one that
raises are not applied, and an order whose first report raises is worked by the engine without a record. A book may show no
size at its touch, which `set_book` accepts and is the default of `OrderBook`. Two variables are history: `executed`, what the engine
filled of each order, and `unrecorded`, the orders it queued without a record.

**PaperSimulator** is `process` with the gate it asks, the ledger it writes and the pipeline
step around it. One call is several steps (`Reason`, `BracketExit` or `Gate`, one step per
action, `SaveSlice` between the two writes of a partial close, `Settle`), because `Snapshot` may come
in between from a thread that holds no lock and because the process may stop there
(`Restart`). Money and prices are integers; a size fraction is the quantity it buys; time is a day
number with months of `DaysPerMonth` days. Of the gate the loss breakers, the bracket rule
and the exemption of exits are kept; every other rule can only veto or cut an entry, and is the
free choice in `Verdicts`. A level of a plan is a distance from the fill or an absolute price, which `Bracket` takes as it is,
on whichever side of the entry it lies. `executed`, `booked` and `planned` are history variables.

**TradingPlatform** is the process: threads, lock, switches. What PaperSimulator says in
detail is one step here (`Trade`): a position is its entry price with a bracket at distances from it, positions are long, and a proposal
opens, closes or does nothing, freely. Symbols are pairs of a market and the case of its
name, because the feed and the operator's routes use upper case and the drive route lower
case. `Receive` and `Stamp` are the unsynchronised read and write of the cooldown; `Enter` .. `Leave` one
decision under the lock; `Ask*`, `Timeout`, `CloseOne`, `Answer` the operator's requests, which
read list and mark before the lock. `late` counts openings after the kill switch.
`backend/main.py` has a second wiring without a lock (784-791), used without the API: one
consumer and no route, so `Consumers` is one task and `Drives` and requests are absent.
**TradingDesk** is the abstract specification of what all this comes to for the positions: a decision is one step, made once
per observation at the price observed, and one opening at most follows the kill switch. It knows no lock and no book of the engine. `ActsAsOneDesk` says that
TradingPlatform implements it; what a thread has yet to decide on (`Asked`) is read off its place and its request.

**VenueLinks** holds what happens between a gateway's `submit` and the venue. For `ccxt` and
`mt5` an order is a coroutine on another thread (`work`: queued, sent, answered, orphan, over): the caller's
`future.result(timeout)` may expire at any of these, and the coroutine goes on (`Timeout`, `LateFill`,
`AnswerLost`). For `ea` an order is a file the terminal takes (`TakeOrder`), executes and answers with another
file (`WriteResponse`), which the bridge matches by its correlation number; `Start` and `Stop` are restarts of
the bridge with what they clear, or fail to (`ClearFiles`: a file whose removal fails stays, and the terminal may take it). `ReportOf` is each gateway's map from the venue's
answer to a status. The venue is external: it executes any part of an order.

**LiveExecution** puts `process_proposal` above it: gate, cap, prop rules, submit, and for paper mode the synthetic
fill after an exception. `executed` is what the venue did, `report` what the platform believes.

**Reconciliation** is the route by which a client posts the positions it read of an account (`Post`, what it could not read left out), the
comparison with the simulator's positions (`Compare`, `SaveFails`) and the flags it feeds to the risk gate, symbol by symbol (`Feed`). Requests
run in threads of their own, so one may feed what it read long before. A symbol is a market with the case it is written in: what is posted is
lower-cased (`Listed`), what the simulator holds and what the gate looks up (`Judge`) is not. `Open` follows `Judge` with anything between; `ExitFirst`
is every way past the veto: a proposal that begins with an exit, a bracket, the operator. The account moves freely (`AccountMoves`).

### Information

**DataFabric** models the event loop of paper mode: a step of a task ends where it awaits something that is
not ready. `Put` delivers an event to the subscribers in turn and leaves the rest to `Resume` when a queue is
full; `NewsTake` enriches and publishes on the same bus; `BridgeTake`, `BridgeResume` and `Ingest` are the way
to the market loop; `Interrupt`, `StopReader`, `StopNews` the shutdown.

**EventStore** has the batch writer (`TakeBatch`, `Flush`, which may fail and then loses the batch) over one table
keyed by event id, and replay sessions that share one flag and publish their rows again under a derived id; a cancelled task ends
its session as if it were complete (`TaskCancelled`, the swallowed `CancelledError` of `replay.py:110`).

**DataSources** is one connector of any of 13 venues: `Start`, `ReaderFails`, `ReaderEnds`, `Reconnect`, `GiveUp`,
`Monitor`, and `stop` step by step (`StopBegins`, `StopGoesOn`), because each of its awaits lets the others run;
`Reads` says which items of a message each normaliser turns into events (a zero written as number is falsy in
Python, a zero written as text is not); `PollBank` .. `PollNews` are the sources that are polled, with the bounded
memory of entries seen.

**ServerLifespan** is the composition root. `Started` is what each setting of process, trading mode, exchange, MT5
and Omega starts; `engine_start`, `engine_stop` add and drop loops; `Take` hands an event to a thread, which a
cancelled task leaves behind; `Shutdown`, `TaskEnds`, `Close`, `Exit` are the lifespan's `finally`.

**MacroCalendar** steps through a poll item by item (`Upsert`, `UpsertFails`, `PublishRelease`, `Stopped`); the feed may
release, delay or withdraw a figure meanwhile. `MacroVetoed` is the query of the pipeline over the stored texts.
`risen`, `releases` and `cut` are history.

**BookFeed** is the CCXT adapter, by polling or stream, with the differences it publishes after each snapshot, and the
enrichment that lays them on the tracker's books.

### Decisions, learning, research and capital

**Proposals** are functions: what the solver, the scorer and the three adapters of a model's reply make of one context
and one reply, each with the tolerances of its parser. `AskAll` asks them all about the same input so that their
answers can be compared. **OmegaFallback** is the provider chain with key rotation, circuits and the three race modes; a
provider's answer is any of reply, refusal or error. **Learning** is the ledger's rows, reflection, recall and the
edge: a full close by the pipeline is followed by a reflection (`CloseTrade`), which may fail half-way, while a slice (`CloseSlice`) and a close by
the operator (`CloseUnseen`) are not; after a `Restart` ids are given again, the row is overwritten and its episode stays.

**StrategyLadder** has an action per operation that changes a passport: issue, evaluate (evidence), promote, record a
paper campaign, calibration or rollback, observe (edge monitor) and act on decay, demote, retire. Each is two steps,
the ledger event (`AppendEvent`) and the snapshot (`Replace`), with a `Crash` between them. Ranking and the two
allocators are operators. **PaperCampaign** is one campaign run by several callers, day by day, with the store's unlocked
read of the row (`SetRead`, `SetWrite`). **CapitalRamp** is the canary campaign, the program of stages and the ramp.
**PromotionGates** are the gates they share.

**ResearchData** has the dataset's immutable versions, claims and training loads with the firewall, evidence runs and the
leak report. A time is a moment and the offset it is written with; what is stored is its text, and the firewall compares texts (`NotAfter`). **Validation** computes labels (a barrier configuration that cannot be built ends the whole series, `ConfigRaises`) and splits over bounded series. **ExperimentRegistry** has registration and
results, the walks over ancestors and descendants, and the research loop.

| Module | Actions and the code they stand for |
|---|---|
| SandboxVenue | `SetBook` set_book / set_mark_price; `Submit` submit; `Advance` advance; `Cancel` cancel; `ExpireDue` expire_due |
| PaperSimulator | `Snapshot` risk_snapshot; `Reason`, `StandAside`, `Settle` DecisionPipelineService.process; `BracketExit` _check_bracket, _close_position; `Gate` evaluate; `Open`, `CloseFull`, `ClosePartial`, `SaveSlice`, `ApplyNothing` _apply_action; `Restart` lifespan |
| TradingPlatform | `Receive`, `Skip`, `Stamp`, `Enter`, `SetMark`, `Leave` MarketLoopService.handle; `Drive` drive; `Admit`, `StandAside`, `Reason`, `Trade` DecisionPipelineService.process; `AskClose`, `AskFlatten`, `Timeout`, `CloseOne`, `Answer` the operator routes; the switches their routes; `Tick` the clock |
| LiveExecution | `Decide`, `PropRulesRefuse`, `ExecuteLive`, `ExecutePaper` process_proposal; `Submit`, `Send`, `CheckFails`, `VenueExecutes`, `LateFill`, `AnswerLost`, `Finish`, `Timeout`, `Cancel` the gateways; `TakeOrder`, `WriteResponse` the EA; `ReadResponse`, `DropResponse`, `UnlinkResponse` its bridge |
| Reconciliation | `Judge` evaluate; `Open`, `ExitFirst` PaperTradingSimulator.process; `Post`, `Compare`, `SaveFails`, `Feed` the reconciliation route; `AccountMoves` the account |
| MCFeeds | the steps of DataFabric, DataSources, ServerLifespan and OrderLifecycle, one part per behaviour |
| MCDecide | the steps of the twelve modules of its EXTENDS, one part per behaviour |

The parts of MCFeeds, MCDecide and MCLiveExecution share no variable, so they are not composed: a behaviour chooses a part in its initial
state and the others stand still, which explores each part's own state space and not their product.

## The runs

Every property of a passing run has a mutant (`PROJECT.json`): an operator of the model
changed the way a bug would change the code, after which TLC finds the property violated.

| Run | Checks | Bounds |
|---|---|---|
| `queue` | `PriceTimePriority`, `DepthConserved`, `AdvanceExhausts` | 3 orders of 2 units, limits on 2 prices a side, books of 2 levels: two orders of one level and one of another compete for less than they ask |
| `kinds` | `RecordsAgree` (engine and venue agree on every order, each is queued once, each fill recorded, until a limit meets an empty touch), `OrderLife` (the venue implements OrderLifecycle for each order; a deadline is fixed) | 2 orders of every type and time in force, 4 books, one of them with an empty touch, 2 instants |
| `books` | `LedgerAgrees`, `PositionIsExecuted`, `EquityReconciles`, `EveryPositionProtected` (stop and target are those of the plan the position was opened by), `ClosedRowsImmutable` | 2 symbols, 4 calls, 3 marks (below stop, inside, beyond target), long and short, plans at distances and at absolute prices, entries cut by depth, partial and full exits |
| `windows` | `LossWindowsHold` (no opening at a limit; windows follow equity) | 1 symbol, 3 days in 2 months, 3 calls, 1 restart, limits one trade away |
| `lock` | `ActsAsOneDesk` (the refinement of TradingDesk), `KillLag`, `AdmittedBracketsFire`, `ListedFeedPositionsClosed` | 2 loop tasks, a drive, the operator; 1 market under 2 names, 2 prices |
| `turns` | `LockPassedOn` (the lock is released, the operator served) under fairness, with clock, cooldown and stale data | 1 loop task, a drive, the operator; 2 instants |
| `live` | `ReportIsBacked`, `NoLeftoverOrder` (what the terminal may take was submitted under this start, but for a file whose removal failed), `SubmitReturns`, `MismatchIsVetoed` (a standing mismatch ends up vetoed; an upper-case symbol stays vetoed) | 2 orders of up to 2 units on 1 symbol, every kind of gateway, 2 starts of the link: a first order is late while a second is sent, a file outlives its bridge; 1 market in 2 spellings, positions of -1 to 1, 2 requests, 1 restart: an older request feeds after a newer one |
| `feeds` | `FillIsExact`, `MarketPathComplete`, `StopIsFinal`, `PublishEnds`, `SourcesAreHeard`, `ShutdownIsClean` | a market and a news source of 2 events each over queues of 2 and 1; 13 connectors, 3 entries with a memory of 2, 2 attempts; every setting of the process, a bus of 2, 4 observations, 1 restart of the engine; 2 orders of 3 units |
| `decide` | see the next table | one part per behaviour |
| `day_limit`, `restart_rows`, `own_mark` | one statement of a document each, which the code does not keep (below) | as above |

| Property of `decide` | Says | Bounds |
|---|---|---|
| `FeaturesFollowVenue` | the tracker's book and the micro-price are of a book the venue sent, through reconnects and skipped messages | 2 books of up to 2 prices and 2 sizes a side, both adapters |
| `ReleasePublishedOnce` | a release is published once for each time the feed gave it, except one a stop cut off | 3 figures, 4 hours, 1 withdrawal, 1 stop |
| `StoreIsFaithful` | one row per event, whatever version came first; a replay session that nothing disturbed (no stop, no cancel of its task, no other session) is complete | 2 events and an old row, 2 sessions, batches of 2 |
| `ReasonersAgree` | what five reasoners propose is bounded, entries are protected, the rule-based one never contradicts the scorer | every context over 4 rates and 3 deviations with every reply over 4 sizes and 3 confidences |
| `FallbackIsSound` | the chain stands aside only when nobody is left to ask, and a circuit opens after its streak | 3 providers of 2, 1 and no keys, 3 decisions, 3 race modes, time for a circuit to close |
| `LearningIsEvidence` | every episode is a result that was booked, one per id, and the row's if the id was used once; the last rows are heard after a whole reflection; the edge counts no more than was booked | 2 symbols, 2 trades with their slices over 3 ids, 1 restart, reflection and recall of 2 |
| `LedgerExplains`, `DeathIsFinal`, `CapitalFollowsEvidence` | the ledger replays to the passport; retired stays and the death system never leads up; capital goes where every gate was passed | 2 passports, one worked on; 4 reports, of every verdict; 3 events, 2 observations, crashes between the two writes |
| `VerdictOfOneRun` | a campaign's verdict rests on the days of one run, all of them | 2 runners and the operator, 2 days, 2 calls, crashes at every write |
| `NothingUnearned` | readiness, stages and exposure are earned in their order | 2 canary days, 5 stages, a ramp of 6 periods |
| `FirewallHolds` | rows written in the offset of a claim are served to no training load, by no version; the audit's leaks are over claims not in UTC; a run claims the end of its series | 3 moments in 2 offsets, 1 series that is frozen again, 3 freezes, 1 claim by hand beside those of evidence runs |
| `LeakFree` | no training label reads a test period; labels read no further than their horizon | 5 records (also with equal times) at 2 prices, horizons to 2, up to 3 folds, the 3 purging designs |
| `ResearchIsTraceable` | ancestor and descendant walks are inverse and end on circles; insights rest on their own experiments | 3 experiments with any parents, 2 families, cycles of 2 |

The bounds are enough for the interesting cases because each property is about at most two
parties and one exchange between them: two orders and the level they compete for, a position
and the call that meets it half-way closed, a publisher and the full queue, a stop and the error
that comes late, a claim and the load after it. A third order, a second
symbol and a second loop task are there to show that bystanders do not matter. What the bounds
cap is named in the modules (`MaxSequence`, `MaxRestarts`, `MaxEvents`, `MaxAttempts`, `MaxTorn`, ...). Deadlock
is checked except where calls are bounded, so that the system stops: PaperSimulator, `live`, `feeds`, `decide`.

`EquityReconciles` counts the slice of a partial close between its two writes; `ClosedRowsImmutable`
and `LedgerAgrees` are promises of one process lifetime, and `restart_rows` shows the first of them ends there.
`ReportIsBacked` is about the gateways of real venues: in paper mode the synthetic fill after an exception is
reported without an execution (`execution_core.py:463-478`). `AdmittedBracketsFire` is about decisions that reach the simulator and about brackets
at distances: a bracket whose absolute level lies on the wrong side is touched as it is opened, and fires at the next decision. `VerdictOfOneRun` allows a cancelled campaign to be
completed, which is a disagreement of its own (`CancelledStays`).

## Fairness

- **TradingPlatform** assumes weak fairness of the
  operator's own steps (`Serve`: get the lock if it is free, give up when it is not, close, answer) and of the
  steps of a thread that is inside a decision (`Decide`): they are straight-line code, the reasoners' calls
  have timeouts, and a worker thread that holds the lock waits for nothing. Nothing is assumed of
  arrivals, of the operator pulling switches, of the clock, or of the lock: Python's lock is not
  fair, so that a waiting decision ever gets it is neither assumed nor claimed. The operator is served
  because `acquire` gives up, not because the lock is fair.
- **LiveExecution** assumes only that the timeout of a waiting caller expires (`future.result(timeout)`), which
  `SubmitReturns` needs. **Reconciliation** assumes that a request that has saved its reports feeds them to the gate, straight-line code of a
  thread (`Feed`). Clients, account and store promise nothing: `MismatchIsVetoed` has its conditions in the formula, that true comparisons happen
  again and again and that account and simulator stand still at last.
- **DataFabric** and **ServerLifespan** assume that a task of the event loop that can go on does: a publisher whose
  queue has room, a reader of a queue, a cancelled task, a thread's work, the lifespan's shutdown. asyncio runs ready tasks in
  turn. Sources, callers of the routes and the operator are not fair.
- **DataSources** assumes the health monitor's loop runs; connects, messages and time are not fair.

MCDecide states no fairness; its properties are safety.

## The proofs

TLAPS proves the following for every value of the constants that satisfies the named
assumptions; the runs check the same definitions on small instances, and TLC evaluates every assumption there.

**InductionLemmas.** Induction with a set in place of the predicate: the least of a set of naturals, numbers, subsets by
their size. A finite order numbers its elements (`Places`), and listing them by number gives a sequence in
that order (`OrderedSequence`); the numbers of a set in ascending order are one (`AscendingIs`), the same as far as the sets are the same (`AscendingAgree`). `FoldLeft` over a sequence is the last of a course of values, each made of the one before
(`FoldHasCourse`), and what its first value has and each step keeps, its last value has (`CourseInduction`); so a loop of the
code that the model writes as a fold is proved about by an invariant of the loop. A `while` loop, which the model writes as a recursive function
over its accumulator, is an `Unwinds`; it exists (`LoopExists`) and ends as its invariant says (`LoopEnds`) when a natural number goes down with each round.

**OrderLifecycleProofs.** `FillsAreExact`, `HistoryOnlyGrows`: one lemma per transition, then the
step lemma for several orders moving at once, which is how the venue moves them.

**VenueProofs** (PaperFillEngine, SandboxVenue), from one sweep up to the venue, for any books, orders, prices and quantities.
  - *A sweep* takes the best levels first and at most what each shows and what is wanted; it stops short only when nothing is left within
    the bound (`SweepSound`). That is an induction over the levels by rank, since what a level gives depends on all better ones.
  - *A side of `advance`* is a fold over the line of resting orders. Its loop invariant `Swept` says what every prefix of the line leaves: who was
    filled before whom (`SweptInTurn`), that the reports are those of the orders swept (`SweptReports`), and that the working ladder is the
    book less what was filled (`SweptDepth`). The line itself, queues of all prices laid end to end, is in order of price and then
    of place (`LevelsSound`, `LineOf`), and an order is in it once because it is queued once.
  - *The venue.* `VenueSafe`, types and `QueuedOnce`, is inductive by itself and gives `PriceTime`, `DepthKept` and `OrdersLive`. The last is the
    refinement of OrderLifecycle: every record an action writes is, order by order, accepted, filled, ended or left alone
    (`Moves`), also for an advance or an expiry that moves many orders and stops half-way at one that raises; and a deadline stays.
  - `VenueInv` adds that what is queued of an order is what its record has outstanding and that each execution is recorded. It is kept by every step that
    leaves no order unrecorded (`RecordsKept`), and only a limit that meets an empty touch leaves one, for good (`PartsOnce`); together they are `VenueAgrees`, for any
    books. `DepthUsed` needs none of that: it compares an advance with the reports of the engine itself.

**PaperSimulatorProofs.** Three invariants, each on top of the one before.
  - `Base` holds through any number of restarts: the types; what a call carries while it applies the actions of a
    proposal (`Control`: their orders increase, and an unsaved slice belongs to the current action); and for each symbol `Flat` or
    `Held`: position and open record say the same, and no position is larger than the depth of the book, so that
    every exit fills completely. It gives `TypeCorrectness`.
  - `Life` is the life of one process (`MaxRestarts = 0`). `Ids`: a row is stored under its own id, ids are at most the current
    sequence, those of the current call have a smaller action order than the action to come. So the next id is fresh,
    which is the whole reason why no closed row is overwritten, and exactly what a restart breaks. `Rows`: the open records
    are the open rows. `Reconciled`: equity moved by the sum of the ledger and the slice not yet saved. These give `LedgerAgreement`, `ExecutionAgreement`, `ClosedRowsFinal` and `EquityAccounted`; the last needs lemmas on
    sums over finite sets, what changing one row, or adding one, does to the sum.
  - `Fenced` holds through restarts: a position has the stop and target of its plan, and an approved entry was judged while no
    window stood at its limit. It gives `PositionsProtected` and `LossWindows`. Both have the hypothesis `EntriesFirst`: no entry comes behind
    another action of its proposal. The gate judges a proposal by its first action only, so an entry behind an exit would
    pass it unseen; the reasoners and adapters of the program propose one action at a time, and so do the runs (`EntriesAssumption`).

**TradingPlatformProofs.** `TypeCorrectness`, `OneDecides`, `OwnMark`, `KillBound`, `BracketsFire`,
`LockedMutations`, `FeedPositionsClosed`, `OneDesk` for any number of loop tasks, drives, markets and prices. The invariant adds `Turn` (a thread
is inside the lock exactly when it holds it), `Lag` (one late opening is possible only while the holder
passed the supervisor before the switch; afterwards the count is final until release) and `Swept` (what
the operator has taken from its list is not held: nothing is opened while it has the lock). `OneDesk` is the refinement of TradingDesk: `Trade` is the
abstract decision, and it is at the observation's own price because of `FillsAtOwnMark` (the engine's one book is the one the thread has set itself),
and no second late opening because of `Lag`; `Leave` gives up what was not decided on; every other step of a thread is invisible there.

**LiveExecutionProofs.** `ReportsAreBacked`, `FreshOrdersOnly`, `VetoOnUpperStays`, for any number of orders, symbols, quantities, starts and requests.
A report of a filled order stays true only if nothing can answer it again. `BackedInv` therefore says when an
order is settled: at a real gateway a filled order's coroutine is over, at the Expert Advisor it has an answer already (`Settled`),
the two kinds of links never mix (`Apart`), and an answer never claims more than was executed (`Backed`). `FileInv` ties
each file to the start that wrote it: that `Start` clears the files is what keeps old orders from the terminal, and what it fails to clear
is the exception the theorem names. `VetoOnUpperStays`, the safety half of `MismatchIsVetoed`: no report under way agrees on a symbol in upper case (`NoAgreement`),
because such a symbol is reported only when the simulator holds it, and the posted one is another; so nothing but a restart lifts its veto. That a
standing mismatch is vetoed at last stays with TLC.

**InformationProofs** (DataSources, MacroCalendar, EventStore, BookFeed, DataFabric, ServerLifespan).
  - `StoppedForGood`: stop cancels monitor, reconnect task and reader one after the other, with waits between. `StopInv` says what each
    of its steps leaves against the tasks that are still there: not running, then no monitor, then no reconnect task, at last
    DISCONNECTED, which no later error of the stream undoes.
  - `HeardOnce`: the memory is a window over the entries in the order they were first handled, so that one no longer in it
    has at least `SeenMax` others behind it (`SeenInv`).
  - `ReleaseOnce`: `CalendarInv` counts, per event: releases published, cut off and pending equal the scheduled-to-released changes
    stored (`Account`), and those plus `Ahead` are at most one more than the withdrawals, where `Ahead` is what the chain from feed
    to poll to row can still raise.
  - `StoreKeepsFaith`: `StoreInv` has one row per event, none of them a replay's, and for a replay session that nothing
    disturbed what it has published against what it still has to (`Undisturbed`).
  - `FeaturesRead`: `BookInv` says that the messages not yet read are a chain from the book the tracker has to the book the venue has
    (`InOrder`, `Unread`, `Tracks`).
  - `MarketPathKept`: the path of an event, from the source through queues and parked publishers to the market loop, is cut at the bridge. What lies
    ahead of it, what lies behind and the event in its hand make up the source's numbers without gap or repetition
    (`Passed`, `Behind`, `Covered`). `FabricInv` adds the phases of the tasks, who owns a parked event, and the way of the news.
  - `QuietWhenClosed`, the safety half of `ShutdownIsClean`, for every process and setting: `Listed` says what is on the list the shutdown cancels, and that a task
    not on it is one the code forgets (`Forgotten`); `Counted`, that an event published is in the bus, with a task that waits for room, in a worker thread or lost, once. One event
    is lost at most if no route started another loop, because at the close only the thread of the first loop can still hold one.

**DecisionProofs** (OmegaFallback, Proposals, Learning, PaperCampaign, CapitalRamp, StrategyLadder, ResearchData, Validation, ExperimentRegistry).
  - `FallbackSound`: while a decision runs, every provider of the chain is still queued, in flight, behind a circuit or failed with all its keys
    (`UnderWay`: `WellFormed`, `Placed`, `Rotated`); a circuit is open only after its streak (`Circuits`).
  - `OneContract`: whatever a reasoner answers is one of a few forms, and each is `Sound`: in the ranges of a proposal, and with a bracket of the
    floor's room if it adds risk, unless the model wrote the plan itself. What a strict adapter accepts passes the clamps of the tolerant one unchanged
    (`OmniTolerated`, `PydanticTolerated`). It holds for any settings that make sense (`ReasonersAssumption`), where the run has one choice of each.
  - `LearnsFromEvidence`: a reflection goes through the rows that are due; it is read as a course of values, in which the memory stays `Faithful` to what
    was booked and what was heard only grows (`ReflectionKeeps`), wherever a failing store cuts it off. `LearningInv` says that a closed row is a booked result
    (`RowsBooked`) and that an open row is of a trade opened after every result booked under its id (`ResultsOlder`), which is why a row overwritten after a restart
    cannot make memory disagree with the row of an id that was used once. Episodes of different ids bound what a recall returns (`RecallBound`), and so the estimate
    is `Backed` by booked results and stays so.
  - `OneRunOneVerdict`, for any number of runners: the days recorded are a prefix that one run filled; at most one runner is past its first
    day; whoever is about to write a verdict carries exactly the filled days (`CampaignInv`). The race of two runners is decided
    at the first day, which only one of them can store.
  - `CapitalIsEarned`: `AfterPaperInv` has the canary's days (`CanaryInv`), the program's chain of stages (`ProgramInv`) and the ramp, whose fraction
    is bounded by the tiers paid for by held periods (`RampInv`).
  - `LedgerReplays`, `DeathNeverLifts`: `LedgerInv` adds `Underway`: between the two writes of a change, the event appended starts at the
    row's status and ends at the snapshot's, and a change under way never takes a passport out of retirement. `DeathNeverLifts`
    rests on lemmas about the two chains: what the death system decides lies below where the passport is.
  - `ClaimsHold`: texts written in one offset are in the order of their moments (`OneZone`), so that what the firewall compares is what it means (`InsideCovers`); every
    version holds records of the dataset (`ResearchInv`), and the rest is what one step does, load by load. The last bars of
    a series, taken in ascending order, are a window with just that many bars (`WindowEnds`), which the claim of a run and its report share.
  - `TrainedOnThePast`: a label rests on the prices from the first record it looks back to, up to the record it ends at, and on no other (`Rests`,
    for both kinds of label); features rest on the records at or before their moment. With one price changed after a label's end, the records labelled up
    to it are the same, so the sample keeps its place too (`GeneratedSame`, by `AscendingAgree`). What a splitter keeps has ended before the test period or
    begins after it (`FoldKept`), for which each fold must have a sample: a K-fold of fewer samples than folds is refused.
  - `EvidenceBehindCapital`: `EvidenceInv` says that a passport's verdict is that of the evidence on its row and a rejected one is retired, also in
    the snapshot of a change under way (`Honest`). The ladder's order is total on the issued passports, so that each candidate has one place.
  - `ResearchTraced`: the walk up and the walk down are loops of different shape, one parent or one generation at a time, each with its own way to stop on a circle. Both
    end because they use up the experiments (`WalkUp`, `WalkDown`, by `LoopEnds`), and both are compared with a third thing, the least number of steps that lead from an experiment
    up to another (`First`): the ancestor at place k is the one k steps up, the k-th layer down are those with k steps to go. So they are inverse for every table of rows, whatever is dangling,
    repeated or in a circle (`InverseHolds`), and whoever is above a circle has it reported (`CirclesHold`). That an insight is earned is the loop invariant of the runs of a cycle.

The theorems of the last two modules are stated for the part's own initial states and steps
(`XInit /\ [][XStep]_xVars => ...`), since MCFeeds and MCDecide let one part move at a time.

The assumptions the proofs rest on are those the code gives: limits and bounds are positive where the configuration requires it, the key pools of
OmegaFallback are sequences and "none" names no provider, the settings of the reasoners are positive and
leave room between the floor and the ceiling of a stop, a flat result is possible, a report with fewer than four folds has no deflated Sharpe ratio
(`decision_pipeline_evaluator.py:417`), the source times of a series are moments and offsets are integers, the bus of the server has room for one event, ids are numbers, the stored rows of an earlier life and the prices of a book are finite.

Every safety property of the passing runs is the property of a theorem. Only model-checked are the liveness properties: `LockPassedOn`,
`SubmitReturns`, `PublishEnds`, `SourcesAreHeard` (its safety half is `HeardOnce`), the liveness half of `ShutdownIsClean`, and
`MismatchIsVetoed` beyond `VetoOnUpperStays`. They need fairness and so ENABLED, or an induction inside the temporal formula, which are out of the prover's reach.

A definition with an operator as parameter, a RECURSIVE operator or a library theorem that takes an operator cannot be reasoned
about here; where a proof needed one, the model has a function or a set in its place. `CASE` is used where its guards exclude each other: where
several hold, TLA+ leaves open which value is taken while the code takes the first, so an order of tests is an `IF` or is written into the guards.


## Disagreements between code and documents

Each of these three has a run whose counterexample shows it.

- `day_limit`. The daily window rolls over in a snapshot after the first result of the new day has been booked, and erases it;
  the gate says "trading halted until tomorrow" (`circuit_breaker_risk_gate.py:588`).
- `restart_rows`. Trade ids restart with the process and the ledger upserts by id, so closed rows, documented
  as immutable (`trade_record.py:25-26`), are overwritten.
- `own_mark`. A manual close is booked at the mid of whatever market decided last, not "at the current mark price"
  of its own (`routes_operator.py:140`).

These are stated as definitions beside the properties that hold, and have no run of their own; put under INVARIANT or PROPERTY
of the configuration named, TLC violates each.

| Definition | Configuration | What the document says, what the code does |
|---|---|---|
| `RestingIsLive` (SandboxVenue) | `SandboxVenue_kinds` | `resting` is "live in the book with quantity outstanding" (`order_lifecycle.py:90`); an IOC or FOK limit that does not cross is answered NEW and queued nowhere (`paper_fill_engine.py:262`) |
| `ListedPositionsClosed` (TradingPlatform) | `TradingPlatform_lock` | flatten closes "ALL open paper positions" (`routes_operator.py:163`), but exits `sym.upper()`, and so leaves what the drive route opened under a lower-case name |
| `CancelledStays` (PaperCampaign) | `MCDecide` | no race lets a cancelled campaign finish (`paper_campaign_service.py:22`); a run that read its row before the cancel writes over it |
| `UpcomingIsVetoed` (MacroCalendar) | `MCDecide`, `Offset = 2` | "an upcoming event within pre_minutes" stops new risk (`interfaces/macro_calendar.py:30`); the query compares the feed's local text with UTC |
| `OfiIsNetChange` (BookFeed) | `MCDecide` | contributions of differences add up to the change of the book (`order_flow.py:53`); the snapshot is laid on the tracker before its difference, so a removed level ranks last (`order_flow.py:95`) |
| `FrozenIsReturned` (ResearchData) | `MCDecide` | "Returns the frozen version record" (`historical_data_ingestor.py:103-107`); `latest_version` orders by creation time, so a back-dated freeze returns another, and the next one collides |
| `KnowableByCutoff` (ResearchData) | `MCDecide` | records by a cutoff "can never leak future data" (`dataset_service.py:136-140`); a label is stored as available before the prices it is made of |
| `FeaturesPrecedeLabel` (Validation) | `MCDecide` | features are of records before the label's moment (`label_engine.py:57-59`); records of equal time are in both |
| `TwoSignalsNeverSoften` (StrategyLadder) | `MCDecide` | two death signals never soften a decision (`domain/death_system.py:21-25`); at the second rung the campaigns' "demote" stays where the monitor alone would step down |
| `LoopIdsAreTheLoop` (ExperimentRegistry) | `MCDecide` | `cycle_ids` are the ids on the loop (`experiment_lineage.py:46`); those that lead to it are listed too |
| `ClaimsAreNew` (ExperimentRegistry) | `MCDecide`, `MaxCandidates = 3` | the budget goes to new questions (`research_loop.py:15-17`); the default budget of 4 exceeds the 3 families |
| `EventsConsumed` (ServerLifespan) | `MCFeeds` | pipeline, gate and simulator consume what is published (`main.py:322-324`); with the default `trading_mode` nobody reads the observation bus |

Others that the models show:

- Trading.
  - A kill switch ("Halt all further trading", `supervisor_service.py:48`) pulled after a decision has asked the supervisor
    is followed by that decision's fill. `KillLag` is what does hold: at most one.
  - A position opened while flatten waits for the lock survives it; `ListedFeedPositionsClosed` is what holds.
  - "An open position is always protected by its OCO bracket" (`paper_trading_simulator.py:244`) only once `process`
    is reached: a decision that stands aside, halted, stale, watch-only or on a wide spread, leaves a touched bracket alone.
    `AdmittedBracketsFire` is what holds.
  - Stop and start before the old loop task notices leave two tasks that can both decide on one market within its
    cooldown (`market_loop_service.py:227-231`, `routes_engine.py:118-125`).
  - With a touch that shows no size, the default of `OrderBook` and accepted by `set_book`, a crossing order fills nothing; a limit's remainder is queued, and
    `with_fill` raises on the report of zero: the engine works an order the venue does not know, and the records may part from there on. `RecordsAgree`
    says that this is the only way.
  - Nobody checks on which side of the entry an absolute stop or target lies: a model may write any (`omni_route_reasoner.py:245-247`,
    `smart_fallback_reasoner.py:752-755`), the gate asks only that both be there (`circuit_breaker_risk_gate.py:350-408`), and `_resolve_bracket` takes them as they are
    (`paper_trading_simulator.py:515-541`). A stop on the wrong side closes the position at the next decision. `EveryPositionProtected` says that
    the levels are those of the plan, not that they protect.
  - "a leftover order file is never re-executed by the EA" (`mt5/ea/bridge.py:149-150`), unless its removal fails, which the next lines suppress:
    the bridge starts all the same. `NoLeftoverOrder` excepts just these files.
  - "Any mismatch must block new exposure until resolved" (`docs/Autonomous_Trader_Technical_Implementation_Specification.md`, 944-946). The route lower-cases what is posted
    (`routes_reconciliation.py:78`) and the gate looks up the symbol as the market writes it (`circuit_breaker_risk_gate.py:322`), upper case for some (`mt5_adapter.py:106`). So a
    position that only the venue has never vetoes an upper-case symbol, and one that the simulator has is reported as a mismatch even when the account agrees, and
    stays vetoed until a restart (`UpperCaseStaysVetoed`). What is compared are the simulator's positions, which live reports do not change. A proposal whose
    first action is an exit passes the gate whole (`proposal.py:294-296`, gate 299-311) and may open on a vetoed symbol. An older request that feeds last lifts a
    veto until the next true comparison.
  - Open rows of the ledger are nobody's positions after a restart (`main.py:138`), though position state
    "should survive process restarts" (`docs/Autonomous_Trader_Technical_Implementation_Specification.md:1839`).
  - The loss counters of the prop-firm rules are never written (`prop_rules.py:122`, `210`).
- The process.
  - `market_tasks` is assigned anew in the CCXT branch (`main.py:306`): the pollers it held are never cancelled. `engine_start`
    appends to a list the lifespan does not read.
  - A cancelled loop leaves its event in a thread, under which shutdown may close the database.
- Information.
  - Default channel names are sent as they are: Bybit publishes nothing and stays LIVE, Coinbase matches only "ticker".
  - A reconnect after a failed first start becomes LIVE without reader or monitor. A stream that swallows its errors does not reconnect at all.
  - A replay whose task is cancelled ends as "completed" with rows left (`replay.py:110`).
  - An enriched news row can be overwritten by its raw one; a batch with one refused row is lost.
  - Between a figure's scheduled time and its stored release nothing vetoes; an event first seen released is never published;
    a stop between upsert and publication loses the release.
- Decisions.
  - The scorer reads `std_dev_pct`, which no feature emits (`quant_momentum_scorer.py:195-211`). Omega reads a size of "50%"
    as 0.001 and of "10" as everything (`smart_fallback_reasoner.py:693-712`). A reply without confidence counts as the provider's failure.
  - After a restart trade ids come again: the row is overwritten and memory keeps the outcome of the first trade under that id (`memory_repository.py:28`), the row
    its first symbol. Slices of a scale-out and closes by the operator are not reflected until a later full close by the pipeline reaches back to them. A trade
    that was open at a restart never closes. `LearningIsEvidence` is what holds.
  - A parallel race waits for all its threads, so its latency is that of the slowest provider.
- Research and capital.
  - A recovered edge that decays again reports DECAYED at once (`edge_monitor.py:146`). A calibration or rollback
    replaces the live section, and with it the record of a retired canary. A campaign left RUNNING by a crash can only be cancelled.
  - `SKIPPED` stages do not stop the program, though "Earned is a strict chain" (`autonomy_program.py`).
  - Times are stored and compared as texts with their own offset (`dataset_repository.py:22-23`, 271, 281-286). A CSV with an offset other than UTC keeps it
    (`cli.py:656-659`) while the claims of evidence runs are in UTC (`evidence_run.py:219-249`), so these guard its rows by the reading of the clock: some claimed rows are served,
    though a claimed period "can never again be served as training data" (`dataset_store.py:17`). The audit reads claims back in UTC and then calls a guarded version a leak, or
    a claim dead. `FirewallHolds` is about rows in the offset of the claim.
  - A bar whose trailing prices have no volatility makes `TripleBarrierConfig` raise if a barrier has no distance either (`triple_barrier.py:70-73`, built at
    `label_engine.py:203`), and with it the whole series; the branch that would leave such a bar out (`label_engine.py:211`) is not reached.
  - The firewall is per dataset: labels frozen before a claim still reach into it. A final-test claim stays when the save of its experiment is refused.
  - Purging excludes a training label that ends after the test begins, not one that ends exactly there; with an embargo as
    long as the training window a fold is empty.

## What is not modelled

- Floating point: quantities, prices, fees and statistics are integers, so rounding, and equality tests of floats, are out of scope.
- Funding (off by default), peak equity and drawdown, execution attribution: data that no modelled property reads;
  the drawdown and total-loss breakers are part of the gate's free veto.
- A `ledger.save` that raises between the change of equity and the removal of the position
  (`paper_trading_simulator.py:426`, `602`), and a gateway that reports a fill of zero.
- Several positions of one symbol in one request of reconciliation, of which the last wins (`reconciliation_service.py:49-51`). Several offsets within one
  series of bars. A partial write by the EA, or a file it cannot delete (`ATI_EA.mq5:127`): reading and deleting is one step.
- Slicing of an order by an execution policy (off by default), bar requests and market data of the MT5 bridges.
- Numeric and stateless code: VPIN, market impact, portfolio risk, other features, backtests and evaluation reports, the quality
  monitor. Their effect on the trading path is a free choice of the models.
- The in-memory event bus, the remaining repositories, sentiment, filings, technical analysis, the command line and the user
  interface: storage, fetching and formatting without control flow of their own.
- Composition of ExecutionCore with the paper simulator; of the feeds with TradingPlatform, where arrivals are free.

## Plan

1. *(done)* OrderLifecycle, PaperFillEngine, SandboxVenue: the order and its venue, refinement between them; every property proved.
2. *(done)* PaperSimulator: books, windows, brackets, restart; every safety property of its passing runs proved.
3. *(done)* TradingPlatform and TradingDesk: threads, lock, switches; safety and the refinement proved for any number of threads.
4. *(done)* VenueLinks, LiveExecution and Reconciliation: three gateways, lost answers, restarts, failed removals, the veto; safety proved.
5. *(done)* DataFabric, EventStore, DataSources, ServerLifespan, MacroCalendar, BookFeed: the way of information; liveness of
   publishers, silence noticed, shutdown; safety proved.
6. *(done)* Proposals, OmegaFallback, Learning: decisions; every property proved.
7. *(done)* StrategyLadder, PaperCampaign, CapitalRamp, ResearchData, Validation, ExperimentRegistry: research and capital;
   every property proved.
8. PaperSimulator with a ledger that may fail, and with funding; ExecutionCore above it.
9. Proofs that are left: that TradingPlatform's one-step
   decision is what PaperSimulator allows.
