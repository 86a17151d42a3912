# Printer V1: a TLA+ development

Printer V1 (`src/src/printer_v1`) is a local, SQLite-backed program that discovers tokens,
watches a few of them over fixed windows (fifteen minutes, optionally one hour more) and
assembles what it saw into "memory". Most of its 126,000 lines parse, classify and record
source answers. What can go wrong in a way a test hardly reaches is in the parts that
*coordinate*: the durable scheduler, the supervision of an operational campaign, the loop
of the memory factory, the terminal closure, and, before them, the supply of candidates and
the handoff of two tokens to tracking. These are what this directory models.

`PROJECT.json` is the index of runs, mutants, findings, hazards and theorems, and maps each
definition to the source lines it stands for. Paths below are relative to `src/src/printer_v1`.

## 1. Inventory

### 1.1 Components that coordinate

| component | state it keeps | operations | what makes it correct |
|---|---|---|---|
| Durable scheduler, `scheduler/` | `printer_scheduler_jobs`: status, due time, lock owner, lock time, retries | enqueue, claim, complete, fail (cooldown or failed), cancel, release of stale locks | one active job per key; a finished job is not put back to work; status and lock agree; retry budget and cooldown |
| Campaign supervision, `operator_cli/campaign_supervision.py` | one supervision row and one lease lock file per campaign | acquire, renew, request stop, cleanup | row and file tell one story although no transaction spans them; first cause is final; release is last |
| Heartbeat and coordinator, `operator_cli/operational_memory_factory_command.py` | a thread, its stop event and in-memory failure; campaign, run and cycle rows | launch, poll, join, exception path, report | every path ends through cleanup; a stop is honoured; evidence of a lost lease survives |
| Orphan recovery, `operator_cli/operational_campaign_recovery.py` | reads both stores, then uses cleanup and closure | `recover_exact_orphan` | takes over only what is dead and expired |
| Memory factory, `operator_cli/one_command_15m_factory.py` with `operational_selective_1h.py` | `printer_memory_factory_runs`, `..._run_steps`, one scheduler job per step | plan, claim, execute, fail one token, stop globally, barrier, finally | step and job agree; tokens are isolated; the barrier holds; the verdict is honest |
| Terminal closure, `operator_cli/unified_terminal_closure.py` over `campaign_ownership.py` | jobs, factory run, slots, cycle, run, campaign | `reconcile_campaign_terminal`, `transition_state` | nothing active is left; finished work is kept; what is reported is committed |
| Discovery parity, `discovery/scheduler_parity.py` | `printer_discovery_work` beside its jobs | terminalize, reconcile | a work row and its job end together |
| Tracking queue and lifecycle, `lifecycle/` | `printer_tracking_queue`, token state | claim, handoff assessment, transitions | one active claim per token; cooldown before reopening; what was skipped stays skipped |
| Combined executor, `discovery/combined_executor.py` | discovery work rows and jobs, batches, slots | lanes, merge, gates, selection, two-slot handoff | two tokens are handed off or none; every work row ends with its job; the scheduler ceiling leaves room |
| Lifecycle driver, `operator_cli/origin_lifecycle_campaign.py`, `tracking_lifecycle_reconciliation.py` | the origin-activated batch, queue rows | activate, materialize, run the factory, reconcile | superseded jobs do not linger; each token gets one disposition |
| Candidate supply, `discovery/eligible_token_supply.py`, `graduated_liquidity_front_door.py`, `direct_migration_discovery.py`, `operator_cli/graduated_supply_front_door.py` | registry of graduated tokens, reserve, market cooldowns, certificates | locate, discover, precheck, revalidate, evaluate in rounds, certify | stale rows do not count; no work on what cannot be claimed; a shortage is certified honestly; the rounds end |
| Campaign ownership, `operator_cli/campaign_ownership.py` | campaigns, runs, cycles, slots, windows | register, transition | legal transitions only, identities unique |
| Proof supervision, `operator_cli/proof_supervision.py` | a second lease of the same shape | as campaign supervision | as campaign supervision |
| Source accounting, `sources/campaign_six_unit_accounting.py`, `measured_transport.py` | a ledger per stage, one owner per campaign | record, seal, ingest, reconcile | every transport accounted once and below its ceiling; no report of an accounting that does not add up |
| Source governor, `sources/governor.py`, `governed_execution.py`, `budget_accounting.py` | request budgets | reserve, spend | never more than the budget |
| Older acquisition and cursors, `discovery/selection_batch.py`, `operator_cli/candidate_acquisition_integration.py`, `cursor_continuity_recovery.py` | batches, cursors, pool | acquire, persist, recover | no gap and no replay in a cursor |
| Snapshots, `snapshots/` | snapshot rows, continuity state | cadence, coverage, continuity | cadence and window boundaries |
| Memory, `memory/`, `memory_retrieval/` | windows, outcomes | assemble, retrieve | window membership |
| Paper trading, `paper_*` | decisions, quotes, positions | decide, quote, monitor, audit | one position per decision, monitored to its end |

### 1.2 Components without coordination

Context engines (`chain_heat`, `chart_volatility`, `liquidity_exit`, `market_regime`,
`micro_event`, `trading_flow`), `safety`, `evidence_fill`, `context_evidence`, source
adapters, `hardening`, `operator_review`, `contracts`, `db`, `operator_db`, the migrations,
the reports and the command line. They parse, classify, insert or read; each call stands
alone. `operator_cli` further holds some forty lane and boundary files (`e2*`, `lane_*`)
that wrap the above with fixed configurations.

### 1.3 How they interact

```
 operator ── cooperative stop ──► supervision row ◄── renew ── heartbeat thread
                                      ▲    │                       │ in-memory failure
                             acquire, │    │ cancellation_probe    ▼
                             cleanup  └────┴──────────────── coordinator
                                                                   │ calls, in turn
                 ┌────────────────────────┬────────────────────────┤
                 ▼                        ▼                        ▼
        supply, then handoff       memory factory loop      cleanup, then closure
        registry, reserve,         run, steps, slots        jobs, run, slots, cycle,
        work rows, queue, slots                             queue
                 │                        │                        │
                 └────────────────► scheduler jobs ◄───────────────┘
```

All of it is one process with one extra thread, plus an operator process that only writes
a stop request. The shared state is SQLite and the lock file. The coordinator calls the
factory, the factory calls the scheduler's helpers on its own connection, and the closure
works on the same rows after the factory has returned.

### 1.4 What is hard

* **Interleaving.** The scheduler's helpers open a connection per call and update by primary
  key after a read. The heartbeat thread renews while the coordinator cleans up.
* **Two stores.** Lock file and row cannot be changed together; every gap is a crash point.
* **Partial failure.** Each statement may raise, and the exception paths run the same cleanup
  over a half-finished one.
* **Ordering.** The barrier is right only because of the order of the steps; the closure's
  writes are committed or rolled back by whichever transition comes next.
* **Stops.** A stop arrives as a row change, as a failed renewal, as an exception in the
  middle of a step, or as `KeyboardInterrupt`.
* **Atomicity by SQLite's means.** A savepoint inside one long transaction, a transition that
  commits somebody else's writes, and two connections that commit one round's results.
* **What is left over from before.** Queue rows with old formats of a cooldown, a reserve that
  went stale, market cooldowns, the jobs of a campaign that died.
* **Bounds that meet.** Nine units of eleven and a handoff that needs two; a budget of thirty
  and a ledger of thirty that does not count the same things.

Each hazard is listed at its line in `PROJECT.json`, with the properties that cover it, or
with the reason why none does.

## 2. Modules

| module | models | checked by |
|---|---|---|
| `JobLifecycle` | what the scheduler promises of a job (abstract) | refinement target |
| `Scheduler` | `scheduler.py`, `resource_governor.py`, and the closers of `scheduler_parity.py` | `MCScheduler` |
| `SchedulerProofs` | theorems about `Scheduler` | TLAPS |
| `LeaseLifecycle` | what supervision promises of a lease and its verdict (abstract) | refinement target |
| `CampaignSupervision` | `campaign_supervision.py`, heartbeat, coordinator, operator, recovery | `MCSupervision` |
| `CampaignSupervisionProofs` | theorems about `CampaignSupervision` | TLAPS |
| `FactoryRun` | the factory's loop, steps, barrier and finally block | `MCFactoryRun` |
| `FactoryRunProofs` | theorems about `FactoryRun` | TLAPS |
| `SnapshotCadence` | `cadence_policy.py` for the two windows the campaign collects: operators, no state | through `FactorySchedule` |
| `FactorySchedule` | when the steps of `FactoryRun` are due, and the coverage of the windows they make | `MCFactoryRun` |
| `FactoryScheduleProofs` | theorems about `FactorySchedule` | TLAPS |
| `TerminalClosure` | cleanup and reconciliation, composed with `FactoryRun` | `MCTerminalClosure` |
| `TerminalClosureProofs` | theorems about `TerminalClosure` | TLAPS |
| `TrackingOwnership` | what the tracking queue promises: who may track a token (abstract) | refinement target |
| `TrackingQueue` | the rows of one token in the queue: assessment, claim, update | through `DiscoveryHandoff` |
| `DiscoveryHandoff` | campaigns one after another: executor, handoff, driver, reconciliation, closure | `MCDiscoveryHandoff` |
| `DiscoveryHandoffProofs` | theorems about `DiscoveryHandoff` and `TrackingQueue` | TLAPS |
| `SixUnitAccounting` | the owner of a campaign's source accounting and its ledgers | through `EligibleSupply` |
| `EligibleSupply` | locator, migration discovery, rounds of market checks, certificate, report | `MCEligibleSupply` |
| `EligibleSupplyProofs` | theorems about `EligibleSupply` | TLAPS |

The abstract modules have no source lines: they state the promise. A definition named
`..._Bug` is the definition below it with one plausible mistake. Nothing in a specification
uses it; putting it in the place of the right one makes a named property fail, which shows
that the property can tell the difference. No module declares a RECURSIVE operator.

### 2.1 `Scheduler`

`jobs` is the table (`ABSENT` for an id not used yet); `worker[w]` is what worker `w` is in
the middle of: which helper, and what its SELECT returned. `connect` (scheduler.py:38) opens
a connection per call, and a SELECT alone holds no lock, so a helper that reads and then
writes is two actions: `EnqueueCheck`/`EnqueueInsert`, `ClaimRead`/`ClaimWrite`,
`FailRead`/`FailWrite`, `CloseRead`/`CloseWrite`. `complete_job` and `release_stale_locks`
are one statement each. `FailWrite` writes only the columns the UPDATE names, with values
computed from the row that was *read*. No statement has a guard on the status. That matters in
the factory, whose handler goes on after it has closed its job (`pc = "handled"`): when the
checkpoint or the barrier that follows raises (`HandlerRaises`), it fails the job it has
completed, always with `max_retries = 0` (`FactoryLimit`). `JobLifecycle` therefore lets a success
be taken back (`TakeBack`), and promises that nothing finished is ever active again; were the
factory to leave the limit at its default, the finished job would cool down and run once more.
`CloseRead` and `CloseWrite` stand for every caller
that terminates a job it never claimed. `Crash` drops what a worker was doing and keeps the
table. Timestamps are ticks of one clock; `MaxRetries`, `CooldownBase` and `LockTimeout` are
parameters of the helpers. `HandlerRaises` over-approximates in one way: any handler may raise
after its close, where the code checkpoints and passes the barrier after a window close only.

Left out: the source-budget refusal of `enqueue_job` (it returns before the table is read)
and the free-text columns.

### 2.2 `CampaignSupervision`

The stores are `sup` (the supervision row), `lock` (the file), `campaign` (campaign and run
rows, which the code changes together) and `evidence` (the first-failure row). `main` is the
coordinator, with `mode` telling its straight path, its exception path and the recovery apart.
`hb` is the thread with what its renewal has read; `failure` is the in-memory signal. An
action is one SQLite transaction or one file operation, so a renewal is `HbRead`, `HbReplace`,
`HbCommit`, and a cleanup is `CleanupCommit`, `Unlink`, `Finish`. `DiskFaults` lets every such
operation raise; `ClockBack` lets the wall clock go back. A `Crash` takes the thread with it.
One tick is `HEARTBEAT_SECONDS`; `due` records that one has gone by since the thread began to
wait, so a model clock that stands still starves no renewal that the code would make.

The lifecycle itself (`main.pc = "running"`) is a black box that ends, stops or raises; what
happens inside it is `FactoryRun`.

### 2.3 `FactoryRun`

`steps` and `jobs` hold the committed rows of the two tables, indexed by token and kind. One
`SNAPSHOT` stands for all snapshots of a token's first window and one `CONTINUATION_SNAPSHOT`
for those of the second. What a source answers is a choice between success, failure, budget
stop and exception. An action is what lies between two commits: `Claim`, then one of
`StepSucceeds`, `StepFails`, `StepOverBudget`, `StepInterrupted`; after a committed close in
one-hour mode the barrier (`BarrierDefers`, `Evaluate`, `ScheduleContinuations` and their
failures); then `CancelPending` and `FinalReport` of the finally block. `Before` is the part
of `ORDER BY scheduled_for, id` that every schedule guarantees; ties between tokens are left
open, so every order the clock may produce is explored; that the schedules do
guarantee the rest is shown in `FactorySchedule`.

### 2.4 `SnapshotCadence` and `FactorySchedule`

`SnapshotCadence` holds the rows of `_POLICIES` for the two windows in both lanes, the gap series
with its clamped captures, and the verdicts on coverage and on the transition to the hour. Time is
counted in parts of a second in which the quotients of the plans are whole; the code rounds them
to a microsecond, which is below what the thresholds tell apart.

`FactorySchedule` extends `FactoryRun` by what it leaves open: the due times that
`_schedule_offsets`, `_plan_anchored_jobs` and `_plan_continuation_jobs` compute from two anchors,
the capture of the opening and the capture that closed the first window. It has no variable of its
own. `Anchors` and the lateness of captures are quantified over inside its two properties, so each
reachable state of the run is judged against every schedule of the instance: `ScheduleKeepsOrder`
says that the order `Before` assumes is the order of the due times, and `PlannedWindowsAreClean` that
a window captured in full, no capture later than the contract's slack, is clean. The slack is
computed from the policy rows, not from the plan, so a plan with other divisions than the contract
expects fails. The runs allow one or two late captures per window, all pairs of positions; the
theorems allow any, and the lemmas below them let each be late by an amount of its own.

### 2.5 `TerminalClosure`

Extends `FactoryRun` with what follows it. `jobs` and `runStatus` stay the committed rows;
`view` is what the reconciliation's connection sees. `transition_state` runs under
`with connection:`, which commits the whole open transaction when it returns and rolls it back
when it raises; `Commit` and `RollBack` are exactly that, and the closure's writes live or die
with the first transition after them. `Cleanup` is the verdict `CampaignSupervision` commits,
seen from here; it cancels no factory job, because nothing registers factory jobs as campaign
scheduler work.

### 2.6 `TrackingQueue` and `DiscoveryHandoff`

A token's rows in `printer_tracking_queue` are a sequence in the order of their ids.
`HandoffAssessment` reads the last one, `ClaimTrackingItem` appends one, `UpdateLast` is the
UPDATE of the reconciliation and of the closure. A row that cools down may come with a stored
expiry, with one that has to be derived, or with none; the initial states hold all of them.

`DiscoveryHandoff` runs campaigns one after another over these rows. `db` is what is committed,
`tx` what the connection at work sees, `saved` what ROLLBACK TO SAVEPOINT restores; a crash
leaves `db`. The executor is one transaction from `RunIntake` to `CommitCycle`, with the
savepoint around the two slots (`HandoffOneSlot`, `ActivationFails`), and `CycleRaises` for
what rolls all of it back. The driver follows (`Materialize`, its failure, `PostCycle`), then
cleanup and closure slot by slot. The closure's first writes are committed by whichever slot
transition comes next and may be rolled back by the last one (`CloseOwner`).

Abstractions: the provider lanes always end SUCCEEDED, since a lane that fails soft does the
same to work and job; only the mode INITIAL, which is what the campaign uses; categories, ranks
and the seed reduce to "any two eligible tokens"; the batch has no COMPLETED, which looks like
DISCOVERING to the closure until cleanup marks it; `NothingActive` counts neither factory steps
nor proof supervision. The campaign reads its clock once (`at`), the closure reads it again.
A crashed campaign that has work is never taken over (`recover_exact_orphan` refuses it).

### 2.7 `SixUnitAccounting` and `EligibleSupply`

A transport is the name of its ceiling group and its target. A stage that measured the set `T`
is sealed, refused when `T` is empty, and ingested whole or not at all; the owner keeps its first
reason to be blocked. `observed` is what the observer was told when a transport was measured,
independently of any stage.

`EligibleSupply` is one campaign's walk: `Locate`, `DiscoverMigration`, `Begin` (reserve loaded and
made stale, tracking precheck), then `Round` until `NextStop`, `LeaveLoop` with the certificate, and
the report. `registry`, `reserve`, `cooling` and `certificate` are durable and survive into the next
campaign; `BoundedRefreshRows` is every choice the seeded shuffle of a round may come to. The
duration deadline is a choice at the moment the loop is left (`LoopStop`): it stops a loop that
would go on, or one that has only run out of candidates, and neither of those stops is then
certified as the market's. An empty set of transports of the migration discovery stands for a page
the governor refused; every answer names its transport, failures included, so nothing is verified on
that path and the seal raises. Each round is two commits of two connections in the code; `Round`,
`Crash` and `StageRaises` together let the first happen without the second. Not modelled: the
evidence of liquidity beyond proven, below the floor or rejected, and holder checks after the
supply. `SourceFailure` says which kinds of failure occur in an instance.

## 3. Runs

All bounds are constants of the cfg files. Every `TypeOK` is proved (section 4), and no run
repeats it; nor `LockCoherent` and `OneAtATime`, which are proved for every instance and, in the
case of the first, for any number of workers.

| run | instance | distinct states | shows |
|---|---|---|---|
| `sched_one` | 1 worker, 2 jobs of 1 key, 2 retries, 5 ticks | 54,266 | retry budget, cooldown, refinement of `JobLifecycle`, with handlers that fail the job they completed |
| `sup_faults` | lease of 3 ticks, 4 ticks of time, faults, clock back | 919,228 | six consistency properties and the refinement of `LeaseLifecycle` |
| `sup_live` | lease of 3 ticks, 5 ticks, no faults, fairness | 40,738 | a stop is honoured, a finished command is quiet |
| `sup_evidence` | lease of 3 ticks, 4 ticks, disk faults, fairness | counterexample | finding 1 |
| `fac_hour` | 2 tokens, one-hour mode, fairness | 4,317 | parity, barrier, whole plans, honest verdict, isolation, the run ends; order of the due times and clean windows in both lanes, with six delays |
| `fac_close` | 2 tokens, one-hour mode | counterexample | finding 2 |
| `clo_hour` | 2 tokens, one-hour mode, fairness | 13,518 | what is reported cancelled is, or is rolled back as a whole; finished work kept, run not left RUNNING, nothing active but the step a stop caught, closure ends |
| `clo_rollback` | 2 tokens | counterexample | finding 3 |
| `handoff` | 3 tokens of which 1 may have a history, 3 lanes that may be left out, 2 campaigns, 3 ticks | 1,075,740 | two tokens or none, work and jobs agree, a closed campaign owns nothing and leaves nothing active but finding 4, refinement of `TrackingOwnership` |
| `handoff_linger` | 2 tokens, 1 campaign | counterexample | finding 4 |
| `supply` | 4 mints, 2 required, batch of 2, budget and ceiling of 5, all failures, 2 campaigns, symmetry | 5,069,110 | nothing measured in vain, no stale row counts, exact accounting, no stop at the limit of rounds with budget left, honest certificate, progress, with a deadline that may pass |
| `supply_withheld` | 2 mints | counterexample | finding 5 |

**Why the bounds are enough.** *Scheduler*: a duplicate needs two rows of one key, a job that
cools down, is claimed again and uses its retries up needs `MaxRetries` failures, and a stale lock
needs `LockTimeout + 1` ticks; all fit, and so does a late failure after any of them. What needs
two workers, a double claim or two inserts past one check, is not in this run (section 5, last
paragraph). *Supervision*: four or five ticks are more than one
lease, so renewals, an expiry, a renewal after the clock went back, and a recovery after
expiry all happen; there is one campaign because launches are serialised by preflight.
*Factory*: two tokens is what the one-hour mode is configured with ("zero, one, or two
starting-token results"), and two are enough for one to fail while the other goes on. Steps of a
token are strictly ordered, so a second snapshot would behave as the first; their due times are those of the code, at their real
length, and the delays are the slacks of the four policy rows, which are met exactly, and a minute.
*Handoff*: three tokens are two to select and one to be passed over,
or taken by the next campaign; two campaigns are one that leaves something behind and one that
meets it; the clock lets a cooldown expire within a campaign and between them. *Supply*: four
mints and a batch of two make a first round on the reserve, a later one on the rest and a stop
before either is through; a budget of five is met exactly and overshot by one, and stands for
thirty because only its distance to the ceiling matters; two campaigns are one that fills
reserve and cooldowns and one that starts from them. The mints are symmetric: no property of
that run is a liveness property.

**Deadlock.** Every cfg sets `CHECK_DEADLOCK FALSE`, because every instance really stops: a
command, a run or a closure that has ended does nothing more, a dead process neither, and a
scheduler whose rows are all finished at the bound of the clock has nothing left to do. That
nothing stops *too early* is what `StopIsHonoured`, `RunEnds`, `ClosureEnds` and `RoundsMakeProgress` check.

**Fairness.** `Scheduler` has none: nothing in it forces a worker to call. `CampaignSupervision`
assumes weak fairness of `Coordinate` and of `Renew`: the interpreter runs both threads, and
the factory loop polls the probe before each step and while it sleeps. It does *not* assume
that the lifecycle ends by itself, that the operator asks, that the clock moves or that the
process dies. `FactoryRun` assumes weak fairness of `Advance`, the program counter of one
thread, and nothing of `Crash`. `TerminalClosure` adds weak fairness of `Closure`, which the
coordinator calls once the factory has returned. `DiscoveryHandoff` and `EligibleSupply` assume
none: `RoundsMakeProgress` is an action property, with which the finite registry bounds the loop.

## 4. What is proved

The proofs hold for every value of the constants allowed by the named assumptions
(`SchedulerConstants`, `SupervisionConstants`, `FactoryAssumption`, `ScheduleAssumption`,
`HandoffAssumption`, `CooldownAssumption`, `SupplyAssumption`, `CeilingAssumption`,
`LedgerAssumption`): any sets of jobs, keys and workers, any retry limit, any lease length, any
number of tokens, any delays of captures, any cooldown, any number of campaigns, with or without
disk faults and clock changes, and any bound on time.

**`SchedulerProofs`.** `TypeCorrect` and `LockAlwaysCoherent` hold for any number of workers.
`LockCoherent` is inductive beside `TypeOK`: every write to a row sets status, owner and lock time
together (`Locked`, `Unlocked`), whatever the row held before, which is why lost updates cannot
break it. The other theorems assume `SingleWorker`, because with two workers they are false (section
5, last paragraph). Alone they are not inductive either: `RetryBudget` says nothing about a worker
that has read and not yet written. `SingleWorkerInv` adds `SeenStillTrue` (what the worker read is
still so, and a handler that goes on after its close has left its job SUCCEEDED or FAILED),
`NoDuplicateActive` and `ActiveBudget` (an active job has retries left). From it follow
`RetryBudgetHolds`, `CooldownIsHonoured` and the refinement `SchedulerImplementsLifecycle`. The hard
case of the last is the late failure: the row is finished, and it stays so because the limit of that
call is nought.

**`CampaignSupervisionProofs`.** The invariant `SupervisionInv` has three named parts besides
`TypeOK`: `PlaceInv` (what each place of the coordinator and of the thread implies for the
stores: in particular that no renewal is under way once the join has passed), `LeaseInv` (row
and file of a held lease, with the renewal in flight between them) and `VerdictInv` (row and
campaign once either is terminal). `StepInv` proves it action by action; actions that leave
the stores alone share `QuietStepKeeps`. The safety properties of `sup_faults` follow:
`LeaseIsHeld`, `LedgerIsNeverAhead`, `ReleaseIsLast`, `VerdictsAgree`, `CauseIsFinal`,
`LeaseMovesForward`, and the refinement `SupervisionKeepsItsPromise`.

Two more invariants rest on it. `QuietInv` (a held row has an open campaign, an exception after the
creation has a row, a cleaned place has neither an open row nor a file) is inductive only where no
disk fault leaves a cleanup half done, so `FaultFreeEndsQuiet` carries the hypothesis `~DiskFaults`,
which is the instance `sup_live` runs; with faults the statement is false. `EvidenceInv` follows a
failure the coordinator has seen from its probe to the row: `SeenFailuresAreDurable` holds with
every fault, and says how far finding 1 can go. `CommandGoesForward` gives each place of the
coordinator a rank that every step of it raises; it is what `StopIsHonoured` needs besides fairness.

**`FactoryRunProofs`.** For every number of tokens, with and without the selective hour. None of
the properties is inductive alone. `BarrierHolds` is the hardest: when the barrier passes, it
has only compared the closes that were planned with those that succeeded, so that nothing of a
first window is left over follows from the order of execution. `FactoryInv` therefore adds, to
`TypeOK` and `StepJobParity`, `PlaceInv` (which row is RUNNING, and why the run stops, at each
place) and `OrderInv` (while the run goes on: an opening not yet done has no anchored rows, an
unfinished opening means that nothing anchored has run, a snapshot before its close), beside
`BarrierInv`, `WholeInv` and `DropInv`, which restate `BarrierHolds`, `PlansAreWhole` and the
second half of `CompletedIsHonest` row by row. `ClaimRows` keeps the order by the `ORDER BY` of
the loop (`Before`), `BarrierReached` draws from it what the barrier relies on, and `StepInv`
joins one lemma per action. `TokensAreIsolated` is an action property from the same invariant, and
so are `RowsOnlyMoveForward` (no row goes back, by any path, except as in finding 2) and
`RunGoesForward`: no step lowers a row, and one that raises none takes the program counter further,
so that a run of `N` tokens takes a bounded number of steps.

**`EligibleSupplyProofs`.** For any finite set of mints, any batch, budget and ceiling with
`Budget <= Ceiling` and `2 <= Ceiling`. The hard part is `BudgetFits`: the ledger counts two
requests of the locator where the budget counts one operation, and a round may take one mint
more than the budget leaves. The invariant relates the DexScreener transports of the owner to
the operations used and to the mints evaluated at each place of the walk, so that the loop stops
before the two surpluses add up. `FreshIsRevalidated` needs that no row is fresh outside the
walk without being prior or eligible, which is why `Begin` has to make all of them stale, and
`ShortageIsTrue` that `failing` only ever grows. `SupplyInvariant` joins one lemma per action.

`LimitIsNeverPremature` is about `max_rounds`, the registry divided by the batch and three more.
Rounds need not evaluate a whole batch: the first may take the reserve alone, and the last ones what
the budget leaves. `LimitInv` counts the rounds against the mints evaluated: while a whole batch of
the budget is left and a mint to look at, every round but the first has evaluated a batch
(`WholeRound`, `RoundKeepsLimit`), and the quotient, which rounds down, plus three is more than such
rounds can be (`QuotientBound`, `MultiplesGrow`). Without the three, the loop would report every
candidate evaluated with mints unexplored. `NothingIsInVain` joins `NoDuplicateStage` and
`BarredIsFree`: no pair is asked for twice, and none for a mint that is barred.

**`FactoryScheduleProofs`.** `OrderIsKept` gives each kind of step an interval its rows are due in
(`DuesInInterval`), and the interval of a kind ends where that of the next begins
(`LaterKindsAreLater`). `PlansAreClean` rests on one fact about gap series, `SpacedHasNoGap`: captures
that each follow the one before by no more than a gap, and reach the end of the window, leave no
larger gap in it, clamped or not. `LateSeries` shows that an even plan with captures late by at most
its slack is such a series, because in all four rows of the contract the slack is smaller than the
interval, so late captures never overtake each other. Neither needs an invariant of the run.

**`TerminalClosureProofs`.** `ClosureInv` carries `FactoryInv` through the factory's part and, once
the factory has returned, what its finally block left (`QuietInv`) and how the closure's uncommitted
view differs from the committed rows (`ViewInv`: only by the jobs it claims as cancelled). A roll back
then loses cancellations, but never the verdict of a finished run, which is how `NeverLeftRunning`
and `OnlyTheStoppedStepIsLeft` hold although `ClaimedIsCancelled` does not: the only step a roll back
can give back its job is the one that was running when the run was stopped (`LeftInv`). `ClaimInv` says which jobs are
what while the slots are visited: once a slot is settled every claim is committed, and until then every
claimed job is as the factory left it. So `ReportsAreWhole`: the cancellations are lost together or
not at all, and only for a run that was stopped or interrupted with every slot moved.
`ClosureGoesForward` ranks the phases as `RunGoesForward` ranks the run. `FirstTerminalAlwaysStands`,
that the owner's first terminal is not replaced, is proved too.

**`DiscoveryHandoffProofs`.** `HandInv` says of three copies of the database, committed, seen by the
open transaction and kept by the savepoint, that each is `Sound` (work and job agree, rows of the queue
are live at their end only, a mirrored batch has no first fifteen-minute job pending), and then what
every place of the walk may rely on: `WorkInv` and `HandoffInv` inside the executor's transaction,
`LifecycleInv` for driver and factory, `ClosingInv` for the closure slot by slot. A crash or a roll
back goes to a copy that is `Sound` already. That the second token is still eligible after the first
was handed off uses that both read the instant `at` and that the two tokens differ.
`QueueImplementsOwnership` maps every step to a step of `TrackingOwnership` or to a stutter: what a
transaction does to the queue shows in it only at the commit. `LingerInv` bounds finding 4 for every
number of tokens and campaigns: which of the executor's jobs are active at each place, and why.
`OnlyFirst15mEverLingers` follows: a closed campaign that the next preflight stumbles over was
activated, never taken over by the factory and closed as failed, and the two first fifteen-minute
jobs of its two reviewed slots are all that is active. `MaterializedAlwaysClosesQuiet` is proved beside it.

**Only model-checked.** `StopIsHonoured`, `RunEnds` and `ClosureEnds`: liveness under fairness,
which the prover handles no more than ENABLED. What of them is no liveness is proved:
`CommandGoesForward`, `RunGoesForward` and `ClosureGoesForward` say that every step of the thread in
question raises a bounded rank, so that fairness only has to keep the thread going. To conclude the
end of the run from it is an induction over the rank, which is not proved. All other properties of the
passing runs are theorems. The properties of the violating runs are false; four of the five have a
theorem that says how far they fail (section 5).

## 5. Findings

1. **`EvidenceCopiedBeforeRelease`** (`sup_evidence`): a renewal that fails between the last
   poll and the join leaves its evidence in the lock file, which cleanup removes; the run is
   COMPLETED. No more than that: what the coordinator has seen of a failure is in SQLite first
   (`SeenFailuresAreDurable`).
2. **`SuccessfulCloseStands`** (`fac_close`): an exception in the campaign barrier turns the
   committed SUCCEEDED close of the last token into FAILED, and cancels that token. It is the only
   terminal row that ever changes (`RowsOnlyMoveForward`); seen from the job table it is
   `JobLifecycle!TakeBack`.
3. **`ClaimedIsCancelled`** (`clo_rollback`): with no slot left to move, the closure's
   cancellations are rolled back and reported all the same: all of them, and only after a stop or an
   interrupt (`ReportsAreWhole`).
4. **`NoLingeringFirst15m`** (`handoff_linger`): the driver catches only the injected fault around
   the materialization, so any other exception leaves the executor's first fifteen-minute jobs
   PENDING; the closure does not find them by its campaign, and every later preflight refuses. Nothing
   else is ever left active (`OnlyFirst15mEverLingers`).
5. **`WithheldIsNotSelected`** (`supply_withheld`): a discovery whose accounting is blocked hands
   nothing forward, but the supply exports the registry itself and selects from it.

Known from reading and from the models, and not run on their own: a stop request makes the next
renewal fail, and the probe reads that failure before the stop, so the stop is recorded as
LEASE_RENEWAL_UNCONFIRMED (`Renew`, `ProbedReason`); a stop in the middle of a step leaves that
step RUNNING after the closure, where the next preflight counts it (`StepInterrupted`; no other
row of the run is left active, `OnlyStoppedStepLeft`). The docstring
of `evaluate_transition_gap` (cadence_policy.py:608) calls a transition clean up to the expected
maximum; the code calls it clean up to the dirty threshold, half as much again. A step is projected
at one request, a close at six (one_command_15m_factory.py:2326), but a snapshot that falls back to
its second source makes one more, so the ceiling that is "never a silently exceeded call" (2341) can
be exceeded by the step that reaches it.

Not a finding, since a run of the program has one worker: with two workers on one table,
`NoDuplicateActive` fails (both pass the duplicate check, both insert; no unique index stops
the second), and a claim is no exclusion (both read the row unlocked, both are told ACQUIRED, the
second overwrites the owner, and each may close the job the other works on). The theorems about the scheduler say so in their
hypothesis, and section 2.1 says which two statements are apart.

## 6. Not modelled, and why

* A failing SQLite statement *inside* a handler of a factory step (the step updated, its job
  not): a handler is one action of `FactoryRun`. Listed as a hazard.
* Two launches at once: the preflight reads and the campaign is created later. Listed.
* The natural mode and the four-hour continuation of the factory: the operational campaign
  configures neither.
* Campaign windows in the closure; report contents; the request governor and daily budgets.
* Provider lanes, merging and ranking of the executor; holder eligibility; compensation of an
  injected fault, which only a test injects.
* The one-off recovery tools and the older acquisition path, which the campaign does not run.
* Everything of 1.2, and the content of snapshots and memory: data without control. Of the cadence
  contract, the windows that are disabled for real collection.

## 7. Plan

Done: `Scheduler`, `CampaignSupervision`, `FactoryRun` with its schedules, `TerminalClosure`,
`DiscoveryHandoff` over `TrackingQueue`, and `EligibleSupply`, each with its proofs; no safety or
action property of a passing run is without its theorem, so that what is left to prove comes with
what is modelled next. Next, in this order:

1. The request ceilings of the factory: what a step is projected at, what it may issue, and what a
   run of the fast lane needs, as a counter beside `FactoryRun`.
2. `CampaignOwnership`: registration and `transition_state` for campaign, run, cycle, slot and
   window, with two launches; the preflight race.
3. `SourceBudget`: governor and reservations under retries and failures.
4. `CursorContinuity`: acquisition batches and cursor recovery across restarts.
5. `ProofSupervision`: refinement of `LeaseLifecycle` by the second lease.
6. Pure operators against reference definitions: `two_token_fairness.py`, `memory/windowing.py`,
   and the rest of `cadence_policy.py` once its long windows are enabled.
7. `PaperPosition`: decision, quote, monitor, audit.
