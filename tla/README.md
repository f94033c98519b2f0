# Formal model of the OTC desk's shadow and paper trading

TLA+ modules, TLC runs and TLAPS proofs about the program in `src/`. The
program watches Iranian exchanges, finds cross-venue tether opportunities and
trades them *on paper*: virtual balances, an immutable ledger, sessions an
admin starts and stops, and dated experiments. No real order is ever sent, so
correctness here means that the virtual book and its ledger can be believed,
and that nothing is traded when the desk says it is halted.

Paths are relative to `src/` (so `src/db/...` is `src/src/db/...` of the
checkout).

## 1. Inventory

| Part | State it keeps | Operations | Hard behaviour |
|---|---|---|---|
| Sessions, ledger, book (`src/db/repositories/shadowPaper.ts`, `app/api/shadow-arbitrage/paper/route.ts`) | session status and counters, one balance row per venue, ledger rows, leg-risk closures | create, start, resume, pause, stop, reconcile leg risk, commit a cycle, replace capital | several statements per operation, PostgreSQL interleaves them with a cycle; absolute balances written from an old read |
| Paper cycle (`src/lib/shadowArbitrage/paper/run.ts`) | nothing durable; what it read at its start | gate, delayed observations, recheck, read book and settled ids, evaluate, commit | seconds pass between check and use; reads that fail are swallowed |
| Paper engine and reservations (`paper/engine.ts`, `paper/reservations.ts`, `paper/sizing.ts`, `paper/portfolioAllocator.ts`) | the cycle's in-memory reservation book | size, hold, commit, rank | two routes of one cycle compete for one balance |
| Dated experiment (`paper/experimentBootstrap.ts`, `src/db/repositories/shadowExperiments.ts`, gate in `run.ts`) | one experiment row per run key, a marker, the bound session | create once, complete after `endsAt` | restarts at every statement, two containers starting at once |
| Collector and worker lease (`collector.ts`, `runner.ts`, `src/db/repositories/shadowArbitrage.ts`) | heartbeat row with a lease, observation session, opportunities | claim, extend, release, run a collection cycle | lease expiry against a stalled owner; cycle lock |
| Database client (`src/db/client.ts`) | PGlite queue, advisory lock | serialise, lock | the queue is not reentrant; on PostgreSQL `serial` does nothing |
| Allocation proposals (`src/db/repositories/shadowAllocation.ts`) | proposals, decisions | apply a proposal to the book | statements without a transaction, at most once per proposal |
| Opportunity lifecycle (`lifecycle.ts`) | open and closed opportunities | merge a cycle's findings | partial cycles, late closes |
| Streaming fabric (`streaming/*`) | per-venue order books | snapshot, delta, gap, reconnect | reordered, lost and duplicated events |
| Residual liquidity, capital replacement, release bootstrap, local ensure | rows of their own | consume, replace, open a session | further writers of sessions and books |
| Price alerts, market snapshots and provider caches, API keys, users, news | rows and in-memory caches | request handlers | one refresh in flight, stale answers |
| Live readiness, certification, fees, capital planning, exchange adapters, UI | none, or read-only | assess, parse, render | numeric policies, vendor formats |

How they interact: the collector takes the cycle lock, collects the market,
then calls the paper cycle; the paper cycle reads sessions, the experiment and
the book, lets the engine decide in memory and commits fill by fill. Admin
requests and the startup bootstrap write the same session rows at any time. On
PGlite (one process, one queue) a cycle holds the queue from its first to its
last statement. On PostgreSQL cycles exclude one another by
`pg_try_advisory_lock`, and nothing excludes an admin or a bootstrap.

What makes each part correct: the book equals opening plus ledger and is never
negative; fills settle only while the session runs; open leg exposure halts a
session until it is closed; a session or an experiment past its end is stopped;
cycles exclude one another; held capacity is neither doubled nor stranded. Some
worker comes to run the loop, whoever died holding the lease; a route has one
open opportunity, and a closed one stays closed; a session's counters are its
committed runs; a pause is not undone by a cycle; a proposal is applied once; a
replacement leaves one live session; the newest book wins and two connections
are never mixed in one; depth a fill has taken is remembered once and given back
only when the book shows it again. `PROJECT.json` lists the hazards line by line.

## 2. Plan

Written, checked and proved about:

1. `PaperDesk`: sessions, ledger, book, cycle, admins.
2. `ReservationBook` with the abstract `Escrow`.
3. `ExperimentGate`: release bootstrap, experiment bootstrap and gate.
4. `Collector`: lease, loop, observation sessions, runs, lifecycles.
5. `CapitalDesk`: proposals, their application, capital replacement.
6. `MarketStream`: fabric, pairing, reconnects, REST recovery, wake-ups.
7. `Residual`: residual liquidity from reconcile to settlement.

Left, in this order:

8. `CapitalDesk` on PostgreSQL, where the double apply is reachable, and the
   order-cap policy row written after a replacement.
9. The allocator and the sizing solver as functions against a reference
    definition over small books.
10. Price alerts, and `localPaperEnsure` as one more startup writer.

Each run ends within a few minutes.

## 3. Modules

* **`PaperDesk`**: the desk. Variables are the database tables (`status`,
  `rows`, `balances`, `settled`, `closed`, `trades`), a ghost of what the ledger
  adds up to (`posted`), the one lock, and what each process remembers. A worker
  goes `Begin` and, unless the cycle ends before the paper cycle (`Blind`: the
  observation session is PAUSED, or the market part throws or fails), `GateOpen` or
  `GateClosed`, `Recheck`, `Load`, then one
  `StartFill`/`InsertFill` (or `DuplicateFill`, `FillRefused`) per decision,
  `EndFills`, `BumpCounters`. An admin goes `Request`, `Decide`, `WriteStatus`, or
  `Create`, `InsertBalance`, `Created`, or `Reconcile`. `Elapse`, `Crash` and,
  with `DbFaults`, failing statements are the environment. The engine is
  abstracted to what its commits allow: any lifecycle it has not settled, any
  outcome, if both venues have a row and can pay.
* **`ReservationBook`**, **`Escrow`**: the book of holds of one cycle, and what it
  promises. `Available` is `availableFor`; the refinement maps the free pool to it.
* **`ExperimentGate`**: containers that apply the release (`Boot`, `ReleaseLookup`
  to `ReleaseMarks`), boot the experiment (`BootExpire` to `WriteMarker`) and then
  cycle: `BeginBlind`, `Blind` for one that does not come to the gate, or `Begin`,
  `Gate`, `Close`, `StopClosed`, `Recheck`, `Arrive`, and then `Fills` or `LegRisk`,
  `LegRiskPauses`. An admin stops, pauses and starts sessions (`AdminStop`,
  `AdminPause`, `AdminRun`).
  `applied` and `marker` are the two rows of `shadow_release_bootstrap`. `late`
  remembers whether the experiment had ended when the cycle last looked; `raced`
  (two bootstraps prepared the run at once) and `taken` (the sessions an admin or a
  release stopped) are history variables.
* **`Collector`**: `owner` and `left` are the heartbeat row; a worker goes `Boot`,
  `ClaimRead`, `ClaimWrite`, loops, and leaves by `Stop` and `Release`; `Beat` extends the
  lease without asking whose it is, as the code does. A cycle, a worker's or a
  viewer's refresh, goes `Begin` (the cycle lock), `EnsureRead`, `EnsureInsert`,
  `BeginRun`, `Load`, `TxRead`, then `Commit`, `CommitUnheard` (committed, the answer
  lost) or `Rollback`, and `Return`. `WriteCycle` is what the one transaction of
  `completeCollectionRun` does: merge the lifecycles (`Opened`, `Closed`), count the
  run, derive the session's next status. Admins go `Ask`, `Answer`. `engine` is
  chosen once, so every property is checked on both databases. Time is the
  interval bucket of the run's idempotency key.
* **`CapitalDesk`**: `Propose`; `ApplyAsk`, then `ApplyReplay`, `ApplyRefused` or
  `ApplyStart`, `ApplyWrite` per venue and `ApplyDecide`; `ReplaceAsk`, `ReplaceRead` or
  `ReplaceReused`, `Archive` per session, `ReplaceOpen`, `InsertRow` per venue; `Create`;
  `StatusAsk`, `StatusWrite`. `Throw` and `Crash` stop any of them between two
  statements. A balance is named by the proposal that last set it; `torn` remembers
  which balances an interrupted request left without an explanation.
* **`MarketStream`**: `Connect`, `Open`, `Close` and the reconnect timer of a venue's
  socket; `Publication` for a whole book, `SideWaits`, `SidesApart` and `SidesPaired` for
  Wallex's half messages; `Ingest` and `OutOfOrder` are the fabric's acceptance;
  `Collect`, `RestBook` and `RestFails` a collection and its REST asks, at the start of
  a cycle and again on arrival (`Observe`); `StartCycle`, `SkipCycle`, `EndCycle` and
  `Wake` the runner's loop with its event and recovery flags. `cached` is
  `lastRegularSnapshot`, which an event-driven cycle falls back on: `Servable` is
  what it may be served. `newest` and `owed` are history.
* **`Residual`**: one side of one book. A cycle goes `Observe` (detected book and
  refill plan), `Reconcile`, `Seed`, `Arrive` (arrival book), any number of `Decide`,
  `Record`, then `Settle`, `Duplicate`, `SettleUnheard` or `Stop` per fill, `Done`.
  `Refreshed`, `Released` and `Consumed` are the row updates; `shown` and `missing` are
  ghosts of what a committed step last saw.
* `MC...` modules give the constants their values. `PaperDeskProofs`,
  `ReservationBookProofs`, `ExperimentGateProofs`, `CollectorProofs`,
  `CapitalDeskProofs`, `MarketStreamProofs` and `ResidualProofs` hold the theorems of
  their component, `FiniteSums` the lemmas on sums over a finite set that
  `ReservationBookProofs` and `ResidualProofs` cite.

`ExperimentGate` and `PaperDesk` share the session table but not a module: the
first abstracts book and fills, the second the experiment. They meet in
`getActivePaperSession` and `status`. `CapitalDesk` writes that table too, and names
balances where `PaperDesk` counts them. The paper cycle inside `Collector`'s cycle is
`PaperDesk`'s, `PaperDesk`'s fills are `Residual`'s settlements, and the loop that
`Collector` treats as always willing is the one `MarketStream` wakes.

Definitions whose comment starts with "Mutation" are deliberate errors. No
specification uses them; they are substituted for the definition that follows to
show that a property notices.

## 4. Runs

| Run | Question | Bounds |
|---|---|---|
| `PaperDeskPglite` | does leg risk halt the desk, do fills settle only while it runs, do counters lag but never lead, is an elapsed session stopped | 1 worker, 1 admin, 2 sessions, 1 lifecycle, 1 crash, failing statements |
| `PaperDeskPostgres` | does the book follow the ledger, stay non-negative, do cycles exclude one another | 2 workers, 2 admins, 1 session, 2 lifecycles in opposite directions, 2 crashes |
| `PaperDeskLegRisk` | violation: does leg risk halt the desk on PostgreSQL | 1 worker, 1 admin |
| `PaperDeskReadFault` | violation: does the book follow the ledger when a swallowed read fails | 1 worker, 2 lifecycles |
| `ReservationBook` | is capacity held once, given back wholly, and the escrow kept | 2 venues, 2 holds, amounts 0 to 2 |
| `ExperimentGate` | is an open experiment's session stopped only by those who may, does an ACTIVE one shut the door, does an expired one complete | 2 containers, 2 sessions, 1 crash, failing statements |
| `ExperimentGateLate` | violation: does nothing trade on the experiment's session after `endsAt` | 1 container, 1 crash, no failing statement |
| `Collector` | one lifecycle per route, closed stays closed, counters are the committed runs, a pause holds | 1 worker, 1 viewer, 1 admin, 1 route, lease of 1 bucket, 3 runs, 1 session, 1 crash, failing transactions, both engines |
| `CollectorLease` | does some worker come to run the loop | 2 workers, lease of 2 buckets, 1 run, 2 crashes |
| `CapitalDesk` | is a proposal applied once, does the log explain the book, does a replacement stand alone | 2 requests in flight, 5 sent, 2 venues, 2 keys, 2 sessions, 2 proposals, 1 change of evidence, 1 fault |
| `MarketStream` | does the newest book win, is no served book, cached or streamed, of two connections, is a lost stream asked for | 1 venue of each sequence policy, window of 1 tick, clock to 3, versions to 2, 2 closed connections |
| `Residual` | is depth taken once, never overfilled, given back only when earned | 2 levels, 2 lifecycles, amounts to 3, 3 cycles, released after 2 absences (the code says 3), 1 fault |

Why these bounds are enough: a second session is what hides the first; two
lifecycles in opposite directions between two venues are the least with which a
fill changes what another can afford and a stale book can be written back; two
workers and two crashes let a successor run after a crashed cycle; two sessions
and two containers let rival bootstraps each create one; MaxBalance still leaves
room for a credit on each venue. In `Collector` three runs are one that opens a
lifecycle, one that fails or stays unheard and one that closes; a worker and a
viewer are two cyclers that race for the lock, and the lease, which decides only who
loops, has a run of its own, where two buckets leave a worker time to stall within
it. In `CapitalDesk` five requests are propose, apply, a torn apply, its retry and a
replacement. In `MarketStream` venues do not share state except the loop's flags, and
two closed connections are what a late message and a forgotten loss need. In `Residual` two
levels let a walk spill over, and three cycles take, refill and take again; the
number of absences is a constant of the model.

`CHECK_DEADLOCK FALSE` stands where the system or its bound really ends: an
experiment that ended with all sessions stopped and no crash left (`ExperimentGate`,
`ExperimentGateLate`), all requests sent (`CapitalDesk`), all cycles run
(`Residual`). `Symmetry` over requests, venues and keys, or over opportunities, is used
in runs without liveness only.

The runs expected to fail are the findings of `PROJECT.json`:

* *Leg risk on PostgreSQL.* `setPaperSessionStatus` asks for unresolved leg risk
  and writes RUNNING in another statement. A LEG_RISK fill in between is
  overwritten. On PGlite the queue makes the two one, and there it is proved.
* *Swallowed read.* With `loadFilledLifecycleIds` answering "nothing", the
  engine re-applies a settled lifecycle in memory; the unique key refuses the
  row, but the next fill on that venue writes the inflated absolute balance.
* *Late trading.* Completing the experiment and stopping its session are two
  writes; between them the session is RUNNING with no ACTIVE experiment, and
  nothing closes it afterwards.

Beyond the runs: with `SwallowedFaults = TRUE`, or with two overlapping workers,
TLC violates `NeverOverfilled` and `ReleasesEarned` of `Residual`; the reconcile's
failure is only logged, and the plan is made from rows read outside the
transaction. They are hazards, not findings: no document promises otherwise, and
overlap is excluded by the lock (`CyclesExclude`). With `ReadFaults = TRUE`
`OneLifecyclePerRoute` fails the same way.

What the models show beside their properties:

* *Partial apply.* The comment in `shadowAllocation.ts` (263-265) counts on a rollback
  that a sequence of statements does not have. `CapitalDesk` keeps `torn` for what an
  interruption leaves behind; a retry mends it.
* *Double apply on PostgreSQL.* `CapitalDesk` is PGlite's queue; without it two
  requests with different keys both find no APPLIED decision.
* *STOPPED is not final.* The route reads the status before an unconditional write, so a
  start in flight revives a stopped or archived session.
* *A release applied late.* The failure of `runReleaseBootstrap` is swallowed and the
  experiment starts; the next start applies the release and stops the active session,
  the experiment's (`taken`). Its marker's key is meant to settle a race of two
  containers, but is written after both have opened a session.
* *Rival bootstraps.* The one that loses the run key has already stopped the winner's
  session (`raced`).
* *Blind cycles.* A PAUSED observation session makes a cycle return before the paper
  cycle (`collector.ts` 126-131), and a failed market cycle stops at `run.ts` 101. As
  long as either lasts, an elapsed session stays RUNNING and an expired experiment
  ACTIVE: both liveness properties except it, and fail without the exception.
* *A refused recovery cycle.* The runner clears `recoveryPending` before the cycle
  (`runner.ts` 296-298). If that cycle is refused (PAUSED, or the lock is elsewhere) or
  throws before it collects, no venue is asked, and the lost one waits for the whole
  poll interval: `owed` is "dropped", which `NothingForgotten` excepts.
* *A cached book outlives its connection.* `runOne` serves an event-driven cycle the
  book of the last collection, marked as not stale, after the connection it came from
  has closed (`adapters/index.ts` 89-101). `NeverMixed` promises only that it is whole.

## 5. Fairness

`PaperDesk`: weak fairness of a cycle that has begun and of an admin request
being handled, since both are running code. Strong fairness of `Begin`: the
runner polls for ever, and the PGlite queue is first-in first-out, so the cycle
gets its turn between admin requests. `Begin` chooses whether the cycle is blind, so
nothing makes cycles reach the gate. Strong fairness of `GateOpen` and
`StopElapsed` says only that the same statement does not fail for ever. Nothing
makes an admin act. `ElapsedSessionStops` allows that an admin pauses the
session or opens a newer one first, and that a cycle is blind: it promises the stop
if, from some moment on, no cycle is. `ExperimentGate`: weak fairness of each
container's own code, strong fairness of the gate's read and of
`completeExperiment`, in whatever container, against failing for ever; restarts
are bounded. `BeginBlind` and `Begin` share one fairness, so cycles may stay blind.
`ExpiredRunCompletes` asks for completion only as long as a RUNNING session is
active, since without one `runPaperCycle` returns before its gate, and as long as
cycles are not blind.

`Collector` (`CollectorLease`): time passes (`Tick`); a worker that waits for the
lease goes on trying, as `acquireLeaseWithRetry` does for ever, and its attempt does not fail
for ever (strong fairness of `ClaimRead`, weak of `ClaimWrite`); a cycle that has
begun and an admin's request go on. Nothing makes a worker `Boot` or `Stop`, and
nothing keeps a rival's heartbeat from extending the lease: then that rival loops.

## 6. Proofs

All theorems are proved for every value of the constants under the assumptions
named in the modules: `EngineAssumption`, `ProcAssumption`, `BoundAssumption`,
`OpeningAssumption` (an opening balance is not negative), `DeltaAssumption` (a
fill moves its own venues), `AmountAssumption`, `NoHoldAssumption`. TLC evaluates
them in every run.

* `TypeCorrect` (`PaperDesk`): one lemma per group of actions.
* `CyclesExclude`: the strengthening `Held` says a worker past the lock is its
  holder. Needed because `OneCycleAtATime` alone does not tell that the lock is
  taken while a cycle runs, nor that a crash frees only its own.
* `LegRiskIsHalted`, `SettlesRunning`, under `Engine = "pglite"`: `QueueSafe`
  says an admin between `Decide` and `WriteStatus` owns the queue and still has
  no open exposure, and that a fill in flight belongs to a RUNNING session. The
  assumption is necessary: the run `PaperDeskLegRisk` refutes it otherwise.
* `BookStaysNonNegative`: `Solvent` carries non-negativity to the working book
  of each cycle. No assumption on faults or engine.
* `BookFollowsLedger`, under `DbFaults = FALSE`: `Mirror` says that the working
  book is the ledger's book, plus the fill in flight, and that a cycle's memory
  contains every settled lifecycle, so a duplicate cannot happen. The assumption
  is necessary: `PaperDeskReadFault`.
* `CountersTrailLedger`: `Counted` adds the fills a cycle has inserted and not yet counted,
  so that a cycle that dies before `BumpCounters` leaves the counter behind the ledger
  and never ahead.
* `NeverOvercommits` (`ReservationBook`): inductive with the types, because a
  commit debits at most what its hold frees and the clamp only ever lowers.
* `BookTypeCorrect` (`ReservationBook`): the same invariant.
* `ReservationsAddUp`: a hold that begins or ends moves the sum over the live holds by
  what it needs (`FiniteSums`), so the clamp of `releaseHold` never bites.
* `BookImplementsEscrow`: with the two above, each step maps to a step of `Escrow` or
  to a stutter; it needs the sum, since a commit must free exactly what it held.
* `DoorStaysShut`, `GateTypeCorrect` (`ExperimentGate`): `Door` adds that an
  `endsAt` passes only for a run that exists; COMPLETED is final, and an elapsed
  run that the arrival check does not refuse is COMPLETED.
* `OpenRunIsKept` (`ExperimentGate`): `Bond` says that a container that prepares the
  run while it exists, or beside another one, has raced, that the session it is
  about to insert still stands, and that whoever is about to close a run has seen
  it expire. Without these a `BootStop` could take any session.
* `CollectorTypeCorrect`, with `Placed`: a process in its cycle holds the lock, and past
  `beginCollectionRun` owns a run that nobody else finishes.
* `ClosedLifecyclesStay`, `ReadFaults` or not: a lifecycle is named by the run that opened
  it, and what a cycle merges against (`Fresh`) is still open, even when it read nothing.
* `LifecyclesSound`, under `~ ReadFaults`: `LifecycleInv` adds that what a cycle merges
  against is still what is open, and that only completed runs opened lifecycles.
* `CountersEarned`: `CountersInv` adds that the counters a transaction has read are
  still in the row; a commit adds one run to one of the counted sets
  (`FS_AddElement`).
* `PauseIsKept`: `SessionsInv` says that sessions are numbered without gaps and that a
  cycle or a request knows an existing one; on PGlite the queue separates them.
* `CapitalTypeCorrect`, `ProposalsAppliedOnce`, `ReplacementsStandAlone`
  (`CapitalDesk`): `Placed` says who is past the first read of a section holds the
  lock; `FirstTime`, that what is being applied was not applied; `Listed`, that a
  replacement still knows of every live session.
* `LogIsTheBook` (`CapitalDesk`): `BookInv`. `Mirrored` says that at every moment a
  balance is what the log explains, or torn, or part of what a request in its section
  has written and not yet decided (or not yet inserted); `Midway`, that such a request
  has really written what it no longer has to do; `Recorded`, `Aimed`, `Numbered` and
  `Unborn`, that a session opens with no balance and no decision of its own. The last
  allocating decision is a `CHOOSE` of a maximum (`LastIs`, `LastIn`); an
  `ApplyDecide` appends the new one.
* `StreamTypeCorrect`, `NothingIsForgotten`, `BooksNeverMixed`, `NewestBookWins`
  (`MarketStream`): `Owing` ties a debt to the recovery flag and the flag to the
  loop's timer, and a refused recovery cycle drops both; `Unmixed` says the halves in
  wait are of this connection, and that the fabric's book and the cache's are whole; `Clocked`
  that no local label is from the future, so a new book is never older than one kept.
* `Residual`'s `TypeCorrect` and `ConsumptionMatchesLedger`, for any number of workers and with
  or without swallowed faults: a settled fill is a new key
  of the ledger, whose takes are added to the sum and to the rows in one transaction
  (`FillOnLedger`); a release moves depth from outstanding to released and leaves the
  sum alone (`ReleaseOnLedger`).
* `ReleasesAreEarned`, under `OneWorker`: `SoloInv` says that a refill plan is the one the
  rows as they are now would give (`PlanCurrent`), and that the rows remember the depth a
  committed step last saw and at most as many absences as there were (`Remembered`).
  `OneWorker` says that cycles run one at a time: `Residual` leaves the cycle lock out, so
  its worker is whoever holds it (`CyclesExclude`), as in the run.
* `DepthNeverOverfilled`, under `OneWorker` and `~ SwallowedFaults`: `BookCurrent` says
  that what a cycle remembers as taken covers what the rows will say when its fills
  settle, fill after fill (`Covers`: a running total from the rows' outstanding depth
  up to it, never above the displayed depth where a fill takes). Without either
  assumption TLC refutes it (section 4).
* `FiniteSums`: the library defines a sum as a fold that picks elements in any order.
  Each induction is over a set instead of a predicate: the subsets for which a claim
  fails would have a least one (`WFMin`).

The constants' assumptions are `ProcAssumption`, `CollectorBounds`,
`RequestAssumption`, `PlanAssumption`, `CapitalBounds`, `StreamBounds` and
`ResidualBounds` besides those above.

Every invariant, action property and refinement that a run checks is a theorem, except
where the runs expected to fail refute it. Model-checked only: the liveness properties
`ElapsedSessionStops`, `ExpiredRunCompletes` and `SomeoneCollects`, since fairness and
`ENABLED` are out of the prover's reach. `NoLateFills` is refuted by its run and has no
theorem.

## 7. What is not modelled

In `PaperDesk`: candidate state and detail rows, summaries, traces (no guard
reads them), the experiment gate (see `ExperimentGate`), capital replacement and
`applyProposal` (see `CapitalDesk`), the bootstraps as further writers; a request
that the route refuses changes nothing and has no step. An `endsAt` may pass for any
session, at any time; clocks are not modelled otherwise. A balance is a small
integer: the code keeps integer toman and micros far from 2^53.

In `ReservationBook`: rounding of inputs, which are integers already when the
engine passes them, and the "no balance record" refusal, which changes nothing.

In `ExperimentGate`: an admin's request is one step (how it races is `PaperDesk`'s
question) and opens no session, a start is not refused for open leg risk, the
bootstrap's policy rows and economics checks are the one step `GiveUp` or pass, the
release's evidence rows and capital plan decide only whether it goes on, and one run
key is modelled, as there is one in the code.

In `Collector`: prices, snapshots, health events, route metrics, caches, the
retention sweep, certification runs. Which routes are opportunities is any choice
of `calculate.ts` and `engine.ts`.

In `CapitalDesk`: PostgreSQL, where the queue is no section; how a plan is computed; the
capital plan row, audit log and order-cap policy; the in-memory preview store, whose
expiry only refuses.

In `MarketStream`: vendor frames, which the parsers drop when malformed; delays of
the reconnect timer; deltas and STRICT_INCREMENT, which no adapter uses. The age
beyond which a streamed or a cached book is not served is a choice.

In `Residual`: the time-to-live release, which the code switches off; two raw
prices that round to one level; the other leg of a fill.

Without a model: the user interface (a large share of the source, and no state of the desk's), research
and test scripts, exchange parsers (vendor formats), sizing, ranking, fees and
certification (numeric policies over one snapshot, where a model would repeat the
arithmetic), price alerts (one row per alert, evaluated without a lock; a hazard
is listed), the caches of market snapshots and news (one refresh in flight over
data that is only read), keys, users and authentication, migrations. The map
therefore covers little of the whole repository: the modelled files are the ones in
which several actors, crashes or retries meet, and most of the others have
neither.
