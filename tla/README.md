# Formal verification of the options research platform

TLA+ models of this repository, checked with TLC on small instances, with theorems checked by
TLAPS. Every definition is translated from the source; `PROJECT.json` gives the file and lines each
one stands for, every run with its properties, and for every property mutations of the model that
the run must find (the definitions marked `mutant` in the modules).

Paths below are relative to the repository (`src/` here); modules and configurations are in this
directory. Check a module with `tlc -config X.cfg X.tla`, and its proofs with `tlapm XProofs.tla`.

## 1. The system

A desktop application for research into option strategies. A Tauri shell (`frontend/src-tauri`)
starts a Python sidecar (`backend/sidecar.py`) that migrates the user's SQLite database and then
serves a local HTTP API over the research engines.

| Component | State | Operations | What makes it correct |
|---|---|---|---|
| Migration and restore (`backend/release`) | database file, marker, backups and their digests, pre-restore copies | migrate, back up, bootstrap, restore | an interrupted upgrade blocks the next start and can be undone; no write of the user is lost |
| Schema (`database/models`, `migrations/versions`) | 198 tables, the revision | create, alter and drop, one statement at a time | the revision tells the schema; the head serves every model; no reference dangles |
| Persistence services (`backend/database`) | the rows of those tables | store a run, an artifact, an observation | a call is stored whole or not at all, once or as often as it says |
| Shell and sidecar (`main.rs`, `sidecar.py`) | the child and restart count of each shell; each process's phase | spawn, reap, restart, terminate; watch the parent | no sidecar is forgotten or left behind; quitting ends |
| Event clock (`backtesting/clock.py`) | none (a function) | build | an order that depends on content only; duplicates resolved by policy |
| Backtest engine (`backtesting/engine.py`, `guards.py`) | open and closed positions, ledgers, failures | process an event, fail, build the result | books agree with ledgers although a strategy may raise anywhere; no look-ahead |
| Strategy lifecycle (`state_machine.py`, `orchestration.py`) | status, transition records; fills | transition, reconcile fills | no trap, no way back from an exit, consistent verdicts |
| Replay (`backtesting/replay.py`) | cursor, snapshots, branches | step, jump, snapshot, branch, append, compare | branches are append-only, inherit exactly a past, compare soundly |
| Accounts (`portfolio/cash.py`, `margin.py`, `liquidation.py`, `reconciliation.py`) | cash postings, the last margin answer, a plan of liquidation | post, reserve, monitor, meet a call, liquidate, reconcile | margin covers the worst loss; liquidation is exact; books that reconcile are settled |
| Orders (`backtesting/execution.py`, `quote_selection.py`, `fill_models.py`) | none kept; the caller's order and what remains of it | select a quote, fill, decide to retry or cancel | filled once, at a quote of its time, against the order; retried while something remains |
| Allocation (`portfolio/allocation.py`, `eligibility.py`, `sizing.py`, `rebalancing.py`, `backtesting/arbitration.py`) | the allocations of the last run | filter, size, allocate, plan a rebalance; arbitrate | within what is free; best first; the plan leads from what was held |
| Settlement (`backtesting/settlement.py`, `execution.py`) | contracts held, cash, shares | decide, settle | contracts, shares and cash in step; the right value is paid |
| Strategy library (`backtesting/strategy_library.py`) | the catalogue and three registries | register, resolve; check and summarise a structure | names lead somewhere and move at most once; the capital at risk is the worst |
| Policies and rolls (`strategy_policy_library.py`, `policies.py`, `strategy_management.py`) | aliases, what a policy set said last; plans executed, a partial roll | register an alias, evaluate, resolve; plan, execute, reconcile | no set goes ahead near earnings; caps hold; no naked position stays |
| Optimization (`backend/optimization`) | candidates, evaluations, splits | generate, evaluate, rank, refine; split and fold | nothing is dropped; ranks respect dominance; no split looks ahead |
| Validation (`validation/engine.py`) | splits, ranks, p-values | split, purge, rank, correct | nothing leaks; corrections decide as their procedures |
| Paged downloads (`data/orats`, `data/databento`, `data/fixture_transport.py`) | cursor, rows, quarantine, failures | run, resume | no row twice, none missing, no circle |
| Download manager (`data/download/manager.py`) | a resume state by key | run, cancel, retry, clear | progress is kept, attempts are bounded, every download ends |
| Cache (`data/cache/manager.py`) | files in a directory shared by processes | set, get, delete, invalidate, cleanup | whole, unexpired, not stale; only dead entries go |
| Provider desk (`data/provider_operations.py`, `provider_runtime.py`) | jobs, checkpoints, schedules, claims, alerts | create, checkpoint, cancel, resume; add, poll, claim; emit | a worker begins a schedule once, a page keeps its response |
| Provider store (`database/provider_operations.py`, `session.py`) | jobs, events, artifacts; sessions | create, append, persist, commit, roll back | gapless append-only history; status is that of the last event |

How they interact. The shell spawns the sidecar and sends it signals; the sidecar runs the
migration before it opens its port; a restore works on the same files while no sidecar runs.
Within the sidecar the engines are called one by one, by request: the event clock feeds the backtest
engine, whose results replay inspects and the persistence services store; settlement is called by
whoever expires a position. The services share nothing but the database and the cache directory,
with other processes and other threads of the sidecar.

What is hard here: processes killed between two file-system steps or two statements of a revision; a
strategy, an evaluator or a registration that raises half-way; several processes on one directory or
one table; a transport that answers late, twice or for another page; partial fills, assignments and
rolls followed by more of them; tables, hints and caps written by hand in one place and relied on in
another. `PROJECT.json` lists each hazard at its line with the properties that would catch it.

## 2. Modules

| Module | Models | State and actions |
|---|---|---|
| `Migration` | `release/migration.py`, `operations.py` | One action per file-system step of `migrate`, `_backup`, `_bootstrap`, and of a restore. A file is its revision, whether DDL of the next revision is already in it, and the newest user write. `Stop` ends a sidecar between any two steps; `UpgradeFails`, `BackupFails` are exceptions. |
| `MigrationProofs` | | Type correctness of `Migration`, and what it promises of the user's data. |
| `Tables` | `database/models/entities.py` | Each table: the tables it refers to, its unique keys, which of their columns may be null, the columns a revision adds. |
| `Revisions` (extends `Tables`) | `migrations/versions` | What each `upgrade()` creates and each `downgrade()` drops, in order. |
| `SchemaEvolution` (extends `Revisions`) | one database over its life | `Bootstrap`, `Upgrade`, `Downgrade` load a script; `Statement` runs one, `Kill` stops between two, `Restore` goes back to the backup. |
| `Repositories` | `database/repositories` | Each table's statement: its mode (keep, replace, replace some columns, insert, refuse) and the key of its ON CONFLICT clause. |
| `Services` (extends `Repositories`) | the services of `backend/database` | Which statements one call issues after which check, and what kind of store it is. |
| `Persistence` (extends `Services`, `Tables`) | calls in `session_scope` | Two clients; a call is opened, checks its header, writes it, writes its rows, commits or is rolled back; SQLite's lock and constraints are external. |
| `Archive` | | The abstract specification `Persistence` implements: whole calls, one after another. |
| `SidecarProofs` | | That it does, over `MCSidecar`. |
| `Desktop` | `main.rs`, `sidecar.py` | The commands of each shell, one at a time; `Launch` whether or not another shell is there (`beside` remembers it); each sidecar's phases from migrating to dead, its signal handler and parent monitor; crashes of both. |
| `Application` (extends `Desktop`) | both, on one database | Every action of `Desktop` with what it does to the files: a sidecar's "migrating" is a run of `Migration` step by step, and one that dies of a signal, a crash or a taken port stops where it was. |
| `ApplicationProofs` | | Who owns a sidecar, and that one at a time migrates. |
| `EventClock` | `clock.py` | `Build` and the operators it is made of; the only actions list events. Properties compare `Build` with a reference. |
| `BacktestEngine` | `engine.py`, `guards.py` | The loop over events, with one step per position visited; each call of the strategy decides freely or raises. |
| `StrategyLifecycle` | `state_machine.py`, `orchestration.py` | `Transition` by the table `Allowed`, with its guards in order, and `Reconcile` over fills and elapsed time. |
| `Replay` | `replay.py` | The cursor operations, snapshots, sessions, branches. |
| `Accounts` | `portfolio/cash.py`, `margin.py`, `liquidation.py`, `reconciliation.py` | `Post`, `Reserve`, `NextDay`; `Monitor` answers about the ledger as it is, `MeetCall` pays; `PlanLiquidation`, `Simulate`, `Reconcile`. An answer is forgotten when the ledger moves. |
| `Execution` | `execution.py`, `quote_selection.py`, `fill_models.py` | `Execute` tries what remains of an order, at any later time, on any tape of quotes and any fill ratio; `NextAsked` is the caller. The order of the legs is left out: they share nothing. |
| `Allocation` | `allocation.py`, `eligibility.py`, `sizing.py`, `rebalancing.py`, `arbitration.py` | `Construct` from the allocations of the last run; `Decide` by one of the nine rules. Eligibility is one verdict for its fourteen tests; weights are whole parts, rounded down. |
| `Settlement`, `SettlementProofs` | `settlement.py`, `execution.py` | `Process_expiration`, repeated while contracts remain; theorems. |
| `Templates` | `_default_templates` of `strategy_library.py` | The 81 templates: legs, ratios, hints, class of risk. |
| `Structures` (extends `Templates`) | validator and payoff analyzer | `Choose` a template, `SelectLeg` for each of its legs with any flaw in the last, `Validate`, `Summarize` over a grid. |
| `BacktestProofs`, `TimelineProofs` (extends it) | | The engine, the orders and the allocation; the clock, the replay and the lifecycle, over `MCBacktest`. |
| `Registries` | the three registries | A registration per action, the half-done one included; an alias may be the identifier of another definition. |
| `PolicySets` | `strategy_policy_library.py`, `policies.py` | `RegisterAlias` and `EvaluatePolicySet` in any order, over any parameters and observation, missing values included; `Resolve`. |
| `Rolls` | `strategy_management.py` | `BuildRollPlan` with every rejection of the guard, `ExecuteRoll`, `FillPartly`, `Wait`, `Reconcile`. |
| `Optimization` | `engine.py`, `execution.py`, `parameter_space.py`, `constraints.py`, `objectives.py`, `pareto.py` | `Generate`, `Start` and `Finish` of workers in any order, the process pool and its time-out, `Rank`, `Refine`. |
| `WalkForward` | `walk_forward.py`, `selection.py`, `orchestration.py` | `AddSplit` until `EndSplits` or an overflow, `Fold` for each split or `FoldRaises`, `Aggregate`. |
| `Validation` | `validation/engine.py` | `Split` for each combination of test groups, `ProbabilityOfOverfitting`, `Correct`. |
| `PagedImport` | the three downloads | `Answer` is the transport; `Error`, `Duplicate`, `OutOfOrder`, `Stalled` are the adapter's refusals in the adapter's order; `Return` hands the result to a caller who resumes. |
| `Downloads` | `data/download/manager.py` | Callers of one key: `Attempt`, `Answer`, `WakeUp`, `Cancel`. |
| `DataCache` | `cache/manager.py` | Each process's calls, split at every file-system access, over files that may be damaged in four ways or refuse to be unlinked. |
| `ProviderDesk` | `data/provider_operations.py`, `provider_runtime.py` | `Poll`, then the two halves of a claim, `Claim` and `Enter`, then page by page `Look` and `Move` for each worker; `Cancel`, `Resume`; `Emit`. |
| `ProviderStore` | `provider_operations.py`, `session.py` | Sessions with a transaction each; a call is split between its SELECT and its flush. |
| `StorageProofs`, `ServicesProofs` | | What is kept, over `MCStorage`; what the services answer, over `MCServices`. |

Four modules put parts side by side. `MCSidecar` holds the calls that store and the process;
`MCBacktest` the settlement, the clock, the engine, the lifecycle, the replay,
the account, the orders and the allocation; `MCStorage` the schema, the downloads, the cache, the store and the desk;
`MCServices` structures, registries, policies, rolls, searches, studies and downloads. The parts of
one of them share no state in the code either, so a behaviour chooses one in its first state, `part`, and the
others rest: their product would only multiply states. Each names its part's properties, conjoined
by what they promise together, and gives the constants that share a name names of their own.
`Through` is the stutter of a part whose caller may be done; everything else that cannot move is
reported as a deadlock. `MCWalkForward` gives `WalkForward` its configurations for the run of its
own. No run replaces a definition or restricts states by a constraint; the bounds are constants in the
guards. Symmetry is not used.

Modules that compose: `Persistence` runs the statements of `Services` against the keys of `Tables`,
and `SchemaEvolution` sets the revisions against those tables. `Application` composes `Desktop` with
`Migration`, which with `Exclusive = TRUE` takes for granted that a sidecar starts only when no other
is alive. It has `Migration` twice: `Files`, with `Exclusive = FALSE`, are the steps the sidecars take;
`Alone`, with `Exclusive = TRUE`, is what every step is shown to be while no shell was killed and none
launched beside another (`ImplementsExclusive`). Nobody restores a backup in `Application`; that is in `Migration` alone.

## 3. Runs

| Run | Shows | Bounds, and why they are enough |
|---|---|---|
| `migration` | An interrupted or failed upgrade blocks the next start; a verified backup with the user's data exists whenever the database is damaged; the newest write survives every upgrade, failure, kill and restore; a published backup is never changed; a started sidecar serves a complete schema or exits | Schema 1..4 with 2 and 3 upgradable, so that an upgrade has one or two revisions and a database may be too old or too new; three writes, two restores: a write before, between and after them |
| `migration_restart` (violated) | After a restore the marker of the interrupted migration is still there, so the restart is refused | One write, one restore |
| `sidecar`: process | `NoOrphans`, `QuitCompletes`: orphans end; quitting ends | Two launches, so that a new shell meets an orphan, or the shell before it with its child; five sidecars: two launches with up to two restarts each never use more than six, and the last repeats the fourth. The limit is 2 for 3 and the polls 2 for 50: only reaching them matters |
| `sidecar`: stores | `StoresWholeCalls`, `EveryCallEnds`: whatever fails and however two calls interleave, what is committed are whole calls one after another; every call ends | Every table of every service in turn, two clients, two runs, two contents, two calls, one fault: a call after, beside and again after another; one item, because rows of different keys do not touch each other |
| `application` | `ImplementsExclusive`: while no shell was killed and none launched beside another, every step on the files is a step of `Migration` with one sidecar at a time; `EverySidecarIsOwned`: each live sidecar is the child of its own shell or was left by a killed one | Two sidecars in two launches with one restart: a restart after a crash in the migration, a second launch after the first or beside it. Schema 2..3, one write. Three sidecars take longer than a run should; the theorems have no bounds |
| `application_overlap` (violated) | The sidecars of a shell and of one launched beside it, or beside an orphan: the first to finish removes the other's marker, and nothing blocks the start after that | The same |
| `settlement_partial` (violated) | A cash-settled short position assigned in part is paid in full | Those of `backtest`: settlement |
| `observation_mix` (violated) | A second store of an observation leaves a row of neither | Those of `sidecar`: stores, the table of observations |
| `schema_chain` (violated) | The chain of revisions fails on no file | None |
| `backtest`: settlement | `ContractsAreConserved`, `BooksBalance`, `PaysIntrinsic`: contracts conserved, books balanced, intrinsic value paid | Four prices around two strikes, one to three contracts (odd, so that half is rounded), three calls |
| `backtest`: clock | `StreamIsSound`: ordered stream, no trace of submission order, duplicates by policy | Every list of up to two events over two times, types, priorities and hints, and up to one session: each tie of the sort key occurs; the order is a total preorder, so that pairs decide |
| `backtest`: engine | `BooksExplainThemselves`, `PresentOnly`, `RunEnds`: positions are open or closed exactly once, close rows are explained, every event is accounted for, nothing later is seen, held positions are valued, the run ends | Three events: open, fail on it, close; or two positions and an event that raises between them |
| `backtest`: lifecycle | `LifecycleIsSound`, `NothingIsUndone`: an end can be reached from every status reached; no return from an exit; records tell the past; fill verdicts agree | Eight transitions reach every status; two legs and a timeout passed in between |
| `backtest`: replay | `TimelinesAreSound`, `NothingIsUndone`: contiguous branches, append-only, exact inheritance, sound comparison | Three branches (a branch of a branch), two events, two appends, one snapshot |
| `backtest`: account | `AccountIsExact`: postings keep their worth, reconciled means settled, liquidation takes what it needs, margin covers the worst of a defined risk, a paid call leaves no deficit | Three books with every family of the requirement, an event, a borrow, an uncovered and a restricted position; three kinds of account, two postings over two days; every price up to ten around strikes up to six |
| `backtest`: orders | `BooksExplainThemselves`, `TradesAreFair`: filled and asked add up to the order over retries, retried exactly while something remains, slippage adverse, quotes of their time | Two legs, two orders (a minimum, all or none, no fill), two tries within three moments; quotes crossed, one-sided, late or missing, in three modes and four prices |
| `backtest`: allocation | `TradesAreFair`: funded within the reserve, best first, the plan leads there; arbitration rejects only what cannot be paid | Three candidates of three profiles (one ineligible), five sizings, three settings (a reserve, a minimum above the maximum, a date too early), two runs; three actions, every rule, up to three of capital |
| `storage`: schema | `SchemaIsServed`: revision and schema agree after any upgrades, downgrades, kills and restores; no statement leaves a dangling reference; the head serves every model | All 198 tables and 22 revisions as they are; from no file and from revisions 1, 18 (the oldest supported) and 20 |
| `storage`: paged | `ImportsAreWhole`, `BroughtInStands`: whole pages, no row twice, no gap over resumed runs, no circle | Three pages: a refused row, a row on two pages, a last page with a lower sequence number; three faults, three runs, two attempts |
| `storage`: cache | `CacheIsSound`: what is read was written whole, unexpired and not stale; only dead entries are removed | Two processes, two keys, two writes, a cleanup, one damage or refused unlink |
| `storage`: store | `StoreIsConsistent`, `BroughtInStands`: distinct, gapless, append-only records; status of the last event | Two sessions, up to two calls in a transaction and three events |
| `storage`: desk | `DeskIsSound`, `BroughtInStands`: no worker begins a run twice, complete when completed, resumable, alerts counted | Three workers on a schedule of two pages with two possible responses, so that two are between the look and the entry of a claim while a third comes late; six transitions of a job; two rules, three occurrences |
| `services`: structure | `StructuresTellTheirRisk` | Every template of the catalogue, over three strikes and two expirations, with and without premiums, three grids; strikes may coincide, and three are as many as decide an order |
| `services`: registry | `NamesLeadSomewhere`, `SettledStays` | Two identifiers, two aliases of which one is an identifier, two versions, one set: a second registration of each |
| `services`: policy | `EarningsBlock` | The two sets that ship and composed ones that list a policy and an alias, in every mode; earnings inside the window, outside it and unknown; up to two aliases registered later, under the name of a policy among others, and of a policy without an evaluator too |
| `services`: roll | `RollsAreAccounted`, `BegunEnds` | Three rolls of debits, credits or unpriced, caps present and absent, two days, a time-out of two |
| `services`: search | `SearchIsSound` | Six spaces: integers, floats that overshoot by half a step and by a third, a condition with a limit, a dependency with a forbidden pair, an empty range; two workers, five answers |
| `services`: walk | `WalksLookBack` | Every mode, windows of one or two days, steps of one or two, purge and embargo, three ends |
| `services`: study | `StudiesAreSound` | Five records in three groups at three spacings, labelled or known late; the ranks of three candidates in a fold, three p-values of six |
| `services`: download | `RetriesAreBounded`, `SettledStays`, `BegunEnds` | Two callers of one key, three runs, two retries, two sizes; a back-off of 2 doubles past its limit of 3 |
| `walk_forward_modes` (violated) | The anchored and the expanding mode never end their splits | A calendar of ten days |

Runs without fairness check safety and action properties. Deadlock is checked in the unions but
`MCSidecar`, and not in the others, where the modelled program may stop: the bounds end its environment, or its
run is over.

Fairness. `Migration`: a running process takes its next step (no wait in `migrate` depends on
another actor); users and operators need do nothing. `Desktop`: each shell's wait loop and the
processes' own start-up and shut-down are scheduled, and the parent monitor is a thread of its own;
a draining server is sure to return only once the shell that holds its connections is gone, which is
what uvicorn waits for. No fairness on crashes, launches, quits. `BacktestEngine`: the loop runs on.
`Persistence`: a thread in a transaction takes its next step. `Rolls`: the clock runs, and a caller
who would retry goes on asking; that one may cancel is not assumed. `Downloads`: the transport
answers or times out, which its time-out in the request makes it do, and the thread goes on.

## 4. Disagreements

Six are shown by runs.

- `RestoredIsStartable` (`operations.py:149`): the documented way out of an interrupted migration
  restores a backup and then restarts, but the restore leaves `.migration-running`, so `status()`
  answers `recovery_required` for ever.
- `InterruptedMigrationsBlock` (`migration.py:237`): nothing locks the data directory. The application
  has no guard against a second instance (`main.rs:335`), and a sidecar still migrating when its shell is
  killed goes on, because it watches its parent only afterwards (`sidecar.py:152`), while the next launch
  starts another. Either way two sidecars migrate at once. In the run's trace a second shell is launched
  during the first start: both sidecars make a database; the first finishes, removes the one marker, serves
  and takes a user's write, and ends; the second puts its own database in the place of that one and is
  ended in turn. The write is gone and the next start finds nothing to block it.
- `ReconciledMeansPaid` (`settlement.py:267`): a partial cash assignment posts the value of all
  contracts, leaves some open, and says `reconciled`, as every result does (line 308).
- `ChainApplies` (`0001_initial_schema.py:14`): the first revision runs `create_all` on the models
  as they are today and so creates the tables of every later revision; the second one fails on a
  table that exists. A new database is made by `_bootstrap` and stamped, which hides it.
- `RowsAreOfOneStore` (`repositories/volatility.py:36`): a second store of an observation replaces
  some of its columns and keeps the others of the first.
- `SupportedModesReturn` (`walk_forward.py:71`): of the three split modes the documentation names,
  `anchored` and `expanding` repeat their first split until the calendar overflows.

Seen while modelling, not the subject of a run. In what is kept:

- `manager.py:176`: `cleanup` and `get` unlink a path by a judgement made before; if another process
  replaced the entry in between, a fresh one is removed. `CacheIsSound` therefore speaks of
  calls during which no other process came between (`alone`): a path that vanishes under a cleanup is
  counted as corrupt.
- `manager.py:98, 210`: `UnicodeDecodeError` is neither `JSONDecodeError` nor `OSError`, so a file that is
  no UTF-8 raises in whatever call reads it and ends every sweep that comes to it, the file staying;
  JSON without the fields of an entry is corrupt to a sweep (line 222) and raises in `get` (line 103).
  `manager.py:246`: an `OSError` of an unlink is swallowed, and a cleanup counts the entry as removed.
  `CacheIsSound` speaks of the cleanups that end, and leaves out what would not go.
- Two shells at once (`main.rs:335`) use one port and one data directory: the sidecar that finds the port
  taken exits, and its shell may start it again until its restarts are used up.
- `provider_operations.py:136-137` (database): SQLAlchemy's UPDATE names the columns that differ from
  the row as loaded. A session that kept a job row across another's commit can leave `status` and
  `cancelled` from different events; `StoreIsConsistent` excepts those jobs (`stale`).
- `orats/service.py:98-104`: a page that has more but no cursor sends the next request to the first
  page, which passes for no stalled cursor. `OmitsCursor` leaves that fault to the other two
  downloads, which refuse it; for orats the run assumes a provider that gives a cursor.
- `fixture_transport.py:76-81`: a duplicate answer carries another batch's number and is reported as
  missing.
- `entities.py:2852` and three more keys: unique over columns that may be NULL, which SQLite takes for
  different: a repeated store doubles the rows of `backtest_valuations`, `backtest_execution_fills`,
  `backtest_collateral_records` and `portfolio_constraint_outcomes`. `LeftOut` names them, and
  `backtest_strategy_definitions`, whose key leaves out the run (the row of a second run is dropped), and
  `backtest_transition_guards`, whose rows a filter strips of a column they need (the whole store is
  rolled back).
- The headers `backtest_runs`, `portfolio_runs`, `optimization_runs` and `research_runs` keep some
  columns of the first store of a run. `Archive` follows the columns a second store replaces; the others
  are `rest` in `Persistence`.
- `provider_operations.py:106` (data): `cancel` moves a job of any status, a completed one included, and
  a worker's step after it leaves one that is importing and cancelled: `resume` refuses it until it is
  cancelled once more.
- `provider_runtime.py:123-128`: `claim` looks and then enters, without a lock, so that of two workers between
  the two both are told they have the run. Nothing under `src/` calls it from two threads; the workers of the
  model are those `provider_api.py` is made for. What holds then is that no worker begins a run twice and
  that none begins it who looked after the first had entered.
- `provider_runtime.py:223`: the severity of an alert raised again is the `max()` of two words. The
  `next_run` of a schedule never advances: it runs once.

In what is computed:

- `replay.py:177-182`: a step back after a jump skips an event, because a jump leaves the cursor on the
  event it shows and a step behind it. `replay.py:374`: events appended to a branch before it is
  registered are dropped when it is. `replay.py:392`: an event's checksum includes its branch, so equal
  decisions on two branches differ.
- `margin.py:540-547`: a maintenance call asks for the size of the excess and not for what is missing to
  the minimum; the add-ons of a position are counted twice. `reconciliation.py`: the first check
  fails whenever a posting is unsettled.
- `quote_selection.py:71`: the theoretical fallback has no price in any of the five selections, so that
  it fills nothing. The engine of fills looks neither at `limit_price` nor at `stale_data`; a leg whose
  rest is below its minimum stays eligible for a retry for ever; an unfilled leg has no price and counts
  nothing in the legging exposure (`execution.py:160`).
- `sizing.py:43` says of Kelly "strict cap enforced", and the normalisation after it takes the cap off
  again. `allocation.py:242`: the smallest weight is applied last, above the largest and to candidates
  sized nothing; `max(1, contracts)` (line 254) buys a contract that the capital does not pay.
- `arbitration.py`: seven of the nine rules may reject a mandatory action for an optional one.
- `strategy_library.py`: the capital at risk of a `jade_lizard` leaves out the loss of its put;
  `ratio_calendar` and `ratio_diagonal` claim a defined risk and are short one call more than long;
  a leg of stock has multiplier 1 beside options of 100 and is always reported as `mixed_multipliers`.
- The registries let identifiers and aliases overlap. In the registry of templates an identifier
  registered later takes a name from the alias it was (`strategy_library.py:450`); in those of rolls and policies an
  alias registered later takes it from the definition (`strategy_management.py:126`,
  `strategy_policy_library.py:179`). So a name that resolves may move, but only once, and only to or from the
  definition registered under it (`SettledStays`); an alias of an alias leads one step and no further.
- `strategy_policy_library.py`: the resolver ignores whether a signal passed. In a set ordered by priority the
  earnings policy therefore always wins, which is what makes it a block (`EarningsBlock`): near earnings the
  winner has not passed. Three things undo that. A set of mode `first_match` takes its first signal. An alias
  registered under the policy's own name sends a stored set to another policy. And
  the priority of a signal is that of a second look-up, of the identifier the first one found (lines 222-223): an alias
  under that identifier gives the policy the place of a third. The dividend policy passes when nothing is said
  of the dividend window (line 48). A policy without an evaluator can be listed in a set, whose every
  evaluation then raises.
- `strategy_management.py:625`: the cap on the sum of debits ignores the roll it judges, a roll without
  a price escapes every cap, a covered partial roll whose time is over schedules nothing, and
  `build_roll_plan` returns a plan whatever it rejects.
- `optimization/execution.py:146-150`: what the process pool computes is counted and evaluated again in
  this process. `refine` raises on a parent that lacks a conditional parameter; a range of floats may
  overshoot its maximum, and by half a step it does so for good: the neighbourhood of that value is counted with a
  rounding to even (`parameter_space.py:174`) and may end below it, so that a refinement does not try its own parent
  again (`HalfPast`); a missing metric is scaled to 0 whatever the policy says; the lexicographic
  order decides ties only and the winners ignore it (`docs/08_Optimization_Engine.md:47`).
  `optimization/orchestration.py:54, 88` reads `winners` and `result.winners` of one object; no class
  has both.
- `validation/engine.py:985`: a study that minds symbols or regimes, which is the default, always raises:
  when the group of the first record is tested, nothing is left to train on and `min` of it fails
  (`AwareStudiesRaise`).

## 5. Proofs

`MigrationProofs` proves `TypeCorrect == Spec => []TypeOK` for every set of sidecars, exclusive or
not, every schema range and all bounds, from the assumptions `SchemaRange`, `Bounds` and
`ExclusiveIsBoolean`. `TypeOK` alone is not inductive: `Stamp` raises `level` and would leave its
range, and the steps that name a backup read it at `previous`. `TypeInv` adds `StampBelow` (a
revision is stamped only below the current one) and `PreviousKnown` (those steps run with a
revision). One case per action.

Under `Exclusive` (a sidecar starts only when no other is alive: see below), for every schema range and
any number of writes, kills, failures and restores, it proves:

- `ServesCurrentSchema`: `Exclusive /\ Spec => []ServingIsCurrent`.
- `DamageCanBeRestored`: `Exclusive /\ Spec => []DamageIsRecoverable`.
- `WritesAreKept`: `Exclusive /\ Spec => []NewestWriteKept`.
- `BackupsAreKept`: `Exclusive /\ Spec => OriginalBackupKept`.

None of them is inductive. The invariant `IInv` they follow from says what a crash leaves behind and
what a start may rely on: `Unmarked` (without a marker the database is not damaged, and a backup of
its revision, if any, is a copy of it, which is why the same backup can be published again),
`BackupsWhole`, `Recoverable` (a damaged database has a verified backup), `NewestKept`, `Restoring`
(the operator has copied what it replaces), `Alone`, and `Local(p)`: what each step of `migrate` has
made sure of by the time it runs, for example that the backup has been published and its metadata
written before the marker. One lemma per action; after a kill
only the parts outside `Local` are left.
`FilesStay`, `StepSafe` and `UpgradeStep` carry what the actions share. The
assumption is needed: two sidecars upgrading one file break each of these; `TypeCorrect` holds without it.

`SettlementProofs` proves for all prices, strikes, quantities, fees and multipliers:

- `ContractsConserved`: `Spec => []ContractsAreConserved`, which contains the type invariant; it is
  inductive because what settles is at most what is held (`SettleQuantityType`).
- `Balanced`: `Spec => []BooksBalance`. Inductive together with `ContractsAreConserved`; the step
  rests on the distributive law for the shares of a part (`Distributes`).
- `Pays`: `Spec => PaysIntrinsic`, an action property from the same invariant: the gain of a step is
  split by call and put, shares and cash.

The assumptions are those of `Settlement`: amounts are natural numbers, the multiplier and the
threshold positive.

`ApplicationProofs` first proves of the process alone `SidecarsAreOwned == Spec => []EverySidecarIsOwned` for any number of launches,
one after or beside another, and of restarts, sidecars and polls. It is inductive with `ChildrenAreOwn` (the child
of a shell was started by its own launch, and a shell that is off has none), without which a shell could let go of
another's child, and `UnstartedRest` (sidecars not yet spawned are unused), without which a new child could be
one already alive. `OneShell` (only a launch beside another makes two shells at a time) is for what follows.

Then, of the process and the files, for the same and any schema range and number of writes:

- `ApplicationOwnsSidecars`: `ApplicationSpec => []EverySidecarIsOwned`, because every step of the
  application is a step of `Desktop` or leaves it alone (`ImplementsDesktop`).
- `ApplicationMigratesAlone`: `ApplicationSpec => ImplementsExclusive`. A shell starts a sidecar only
  without a child; as every sidecar is owned, no other is then alive unless a shell was killed or is there
  beside it, and the step is `Launch` of `Migration` with `Exclusive`. That a sidecar dead to the shell is also down
  to the files, and the other way round, is an invariant of its own (`PhasesAgree`). This discharges
  the assumption of `MigrationProofs` for an application that is launched once at a time and whose shell is never
  killed.

`SidecarProofs` proves `CallsAreAlwaysWhole == SidecarSpec => StoresWholeCalls`, that `Persistence`
implements `Archive`, for any number of clients, runs, rows, versions, calls and faults and any tables
and services that satisfy `StatementsFit`: each statement's mode is one its kind of service allows, its key names the
parent of its rows or nothing, a service that stores once has a header that refuses a second store, and no column of
a key may be null. TLC evaluates that assumption over the 198 tables and every statement of `Services`; the six
tables of `LeftOut`, where it is false, are those named in §4. A commit that writes is `Store` of the archive
with the call's run, version and items, and every other step leaves the archive as it is, roll-backs included.
The refinement mapping tells the stored versions by the keys of the rows, so the invariant says that it is one:
`Sound` (no two rows have one key, and the copies of a row without a key are numbered without a gap,
which is what the archive counts: `CountsAgree`), `HeaderInv` (a run without a header has no rows in a service that
stores once), and `TransactionsInv`: only the client that holds the lock has written (`OneWrites`), so that
what it read is still what is committed, and its view is that with its own call over it (`RecordRight`).

The remaining proof modules extend the modules that put parts side by side, so that a theorem names what a run checks. Each rests on
one assumption (`BacktestConstants`, `StorageConstants`, `ServiceConstants`: the `ConstantsType` of each
part, as weak as its source allows) and on one lemma that a step is a step of the part that runs
(`OnePartRuns`, `OnePartSteps`, `OnePartMoves`); then each part has an inductive invariant, proved action
by action. What a recursive function of a model computes is followed by the least counterexample
(`FirstOf`: a set of natural numbers that is not empty has a first), the well-ordering of numbers being a fact of
the library that needs no operator.

`BacktestProofs`, for any stream, any strategy, whatever it raises, any order and any candidates:

- `BooksAlwaysExplainThemselves` and `OnlyThePresentIsSeen`. That no position is lost is not inductive: it is
  `EngineInv` that says where the loop is (`LoopInv`), that open and closed positions are the opened ones, in
  their order and once (`HeldInv`), that during a walk each open position is to come, kept or about to be closed
  (`WalkInv`), and what that leaves in the trade ledger and the history (`RowsInv`, `LedgerInv`,
  `SeenInv`, `ValuedInv`). For an order, filled and asked add up to its quantity, leg by leg (`OrderInv`).
- `TradesAreAlwaysFair`. For an order, `FairInv` adds to `OrderInv` that the result answers the attempt it was made at, its
  time and its tape; the verdict to retry compares two sums over the legs, which are equal exactly when nothing remains of any
  leg. For a portfolio, `PortfolioInv` says that the allocation is funded for the problem it was made for (`FundedBy`) and
  that both weights the plan goes between are positive parts. The sums of the modules are folds of the library, over
  the members in the order `CHOOSE` takes them: that every such sum exists and that any member may be taken first
  (`SumsUpTo`, `AnyOrder`, by the least size that fails) gives `SumOfMore`, and with it that the running total of a
  recursive function is the sum of the members met so far (`SumAlong`). Both rankings are bijections between places and
  members (`PlacesByOrder`): an allocation visits each candidate once and the better ones first (`GreedyIsFunded`),
  a competition each action once (`DecisionIsFair`). From `ConstantsType`: something is asked for in an order; the
  fill an order is kept for is at most the whole of it (`minimum_aggregate_fill_ratio`; above that a full fill would be cancelled);
  amounts are not negative, a volatility is positive, and the actions of one competition have different identifiers.

`TimelineProofs`, for any number of sessions, events, branches, snapshots, legs and transitions:

- `StreamsAreAlwaysSound`: the state is only what was handed over (`ClockInv`: the calendar, and each event named by its
  place), and the rest is about `Build`. The places of a finite set in a strict order are a bijection
  (`PlacesByOrder`), which holds of the sort with its ties and of the first events of a moment alike; so both
  steps of `Build` take events from the list at places that are known (`Picks`), and what survives deduplication is the
  first or the last of its moment. Distinct events have distinct keys, so that listing them in another order carries
  each rank along (`RanksTravel`).
- `TimelinesAreAlwaysSound`: `TapeInv` numbers every timeline from 0 and lets each checksum name the
  event's own number and payload; that two branches compare equal up to their first difference follows.
- `LifecycleIsAlwaysSound`: `PastInv` chains the records from the first state to the present one;
  a way to an end is given for each status; the verdicts on fills are about sums over the legs.
- `NothingIsEverUndone`: the action properties of both.

`StorageProofs`, for any number of processes, sessions, workers and faults:

- `TablesAreAlwaysConsistent`: `StoreInv` speaks of what each session has written and not committed beside what
  is in the tables: numbers of events that follow on, checksums that differ between any two writers, and that
  only one session at a time holds events of a job back (`OneHolder`).
- `DeskIsAlwaysSound`: `DeskInv` ties each run begun to its claim and its job, and each worker to the job it is on, the
  one between the two halves of a claim included.
- `CacheIsAlwaysSound`: `CacheInv` keeps for each call what it has read so far and how old that can be, over
  all interleavings of reads, replacements, unlinks (the refused ones in `refused`), deaths and damages
  (`WritesInv`, `CallsInv`).
- `ImportsAreAlwaysWhole` and `WhatWasBroughtInStands`, the latter also for the tables and the desk: `ImportInv` places a run
  (its cursor is its start and the pages completed), and what it holds is then the union of those pages
  (`ConsumeHolds`: each row of a page is accepted, refused or held already). Both assume `"orats" \notin OmitsCursor`,
  because of the disagreement named in §4; without it they are false.

`ServicesProofs`, for any registry, policy set, transport, calendar and fill:

- `NamesAlwaysLead`: `RegistryInv`; a registration that ends half-way enters no alias before its definition.
- `EarningsAlwaysBlock`: `PolicyInv` adds to the property that the aliases shipped lead where they did. The earnings
  policy has the least priority of all, so that the winner among the mandatory is it, under whatever name it is
  listed, and it has passed only outside the window.
- `RetriesAreAlwaysBounded`: `DownloadInv` has what each caller in each step knows of the attempts it made; the
  back-off is compared through the number of subsets (`PowerOfTwo`).
- `WalksAlwaysLookBack`: `WalkInv` ties the cursor to the number of splits, which gives that the splits are
  those that fit, and that none is left out, where no purge or embargo is negative.
- `RollsAreAlwaysAccounted`: `RollInv` adds that a plan to be executed was judged against the rolls there are;
  the cumulated debit is a sum over a sequence, whose laws are proved first (Sums).
- `StudiesAreAlwaysSound`: `StudyInv` keeps, for a study that minds symbols, every set of test groups with the
  first group in it among those to come (`FirstGroupLeft`): nothing precedes the first record
  (`NothingBefore`), so none of these sets is ever split. That a fold has one winner follows from the
  candidates ahead of another being fewer than those ahead of it (`WinnerLeads`); the places of
  the p-values are a bijection (`PlacesTaken`), through which the running bounds of the code
  become the conditions of the two procedures (`HolmDecides`, `BhDecides`). Times are natural numbers in
  order, and a p-value is a number of units that every place divides.
- `SettledAlwaysStays`: the action properties of the registry, of which `Grows` and the order of each look-up say where
  a name may move, and of the downloads.

Where a definition could not be reasoned about it was rewritten to the same effect, and checked again: folds whose
result a proof follows are recursive functions, a candidate of `Allocation` has its place by counting those ahead of it, `WalkForward` has its overflow as an action
(`Overflow`), and the rows of one statement are inserted as a set, since they differ in their items and
none meets another's (`InsertAll`). The places `_dedupe` keeps are a set numbered by `Nth`, and the calendars
of a clock are a constant, of any length.

Model-checked only:

- All liveness (`StartupSettles`, `NoOrphans`, `QuitCompletes`, `RunEnds`, `BegunEnds`, `EveryCallEnds`), which the
  prover does not reach.
- `SchemaIsServed`: about 198 given tables and 22 given scripts, where the run is exhaustive already.
- `SearchIsSound`, `StructuresTellTheirRisk`, `AccountIsExact`: they are about what the sorts, filters and folds of many
  definitions compute together, each of which would need an argument like that of `TradesAreAlwaysFair`.

## 6. What is not modelled

- Pricing, Greeks, implied volatility, the statistics of research (bootstrap, Monte Carlo, the risk
  lab), fees, the fills of the engine, calibration: floating-point functions without state.
- The HTTP API, the frontend, release scripts: stateless, or run once.
- Of strategies: what a concrete one decides (the engine's model lets it decide anything), the Greeks,
  assignment and adjustment of managed positions.
- Of accounts: interest and borrow charges, the effect of an order on the buying power, what a simulated
  liquidation does to cash. Of portfolios: correlations, clusters, scenarios, constraints and the number
  of contracts, which a run reports and does not act on. Of orders: fees, the Greeks of legging, and
  slippage other than fixed and by the spread.
- Of optimization: custom rules, low-discrepancy sampling, checksums, the optimizers of `adapters.py`.
- Of persistence: queries, the mapping of payloads to columns, `finalize_slice`,
  `quarantine_snapshot`, the check of a lineage manifest. SQLite is modelled by its lock, its
  transactions and its constraints.
- Of providers: validation and quarantine of vendor records, artifacts, budgets, leases, health and
  freshness scores, the update planner.
- Within modelled components: `rotate_log`, diagnostics and `consecutive_crashes` (written, never
  read); two restores in the same second, whose pre-restore copies would share a name; `status()` is
  read in one step; strategies whose `initialize` or `finalize` raise; `settle` called with no
  decision; the interest on the strike, a fraction, is an input `Carry`; replay's filters, bookmarks
  and annotations. `ProviderStore` assumes a database at READ COMMITTED. The guards of
  `transition_guards.py` are predicates on a context the caller gives; the transition table is not
  tied to the fills because no code ties them.

## 7. Plan

Done: the modules of §2.

Next, modelling:
1. `ProviderDesk` composed with `PagedImport`: a worker whose page is a download.
2. The event clock feeding the backtest engine; the lifecycle composed with the fills of `Execution`.
3. An abstract log for `Replay` branches and for the events of `ProviderStore`, each shown to be
   implemented by its module.
4. The validation and quarantine of ingestion, and the life cycle of research runs.

Next, proofs: the parts of `AccountIsExact` that are sums, with the laws of sums in `BacktestProofs`; and that a fault of one worker touches no
other result, and that no trial is dropped, of `SearchIsSound`.
