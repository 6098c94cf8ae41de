# A verification of the crypto AI bot's engine

The engine trades one symbol on Binance Spot with two worker processes, a
SQLite ledger they share, and a Laravel application that mirrors the ledger and
holds the operator's controls. What makes it hard is what surrounds an order:
REST calls that time out, a stream that repeats and reorders, two processes that
write one database, crashes at any point. This directory models those parts in
TLA+, checks them with TLC and proves the order ledger with TLAPS. Around the
ledger it models the trading cycle, the money, the reconciliation gate, the
outbox, and the row of the bot that operators and engine both write.

## The system

| Component | State | Operations | What makes it correct |
|---|---|---|---|
| Order state machine (`engine/domain/models.py`) | one order row | `apply_report`, `mark_rejected` | an order only moves forward; contradictions are raised, stale reports are not |
| Order service, store (`order_service.py`, `store.py`) | tables `orders`, `fills`, `outbox` | submit, resolve, refresh, cancel, apply, ingest | at most one submission per intent, each execution counted once, agreement with the exchange |
| Stream ingestion (`stream_ingestion.py`) | table `processed_events` | `handle` | one event is one transaction, applied once or not at all |
| Position service (`position_service.py`) | table `positions` | `apply_fill`, `rebuild`, `set_stop`, `mark` | the position is the fold of its fills |
| Reconciliation (`reconciliation_service.py`, `reconciliation_worker.py`, `websocket_client.py`) | row `reconciliation_state`, `connected`, a lock | stream callbacks, `run`, `touch`, acknowledgement | entries only after a clean run; a halt needs the operator; the gate opens again |
| Outbox (`outbox.py`, `client.py`, `telegram.py`) | tables `outbox`, `leases` | `enqueue`, `flush` | at least once, one deliverer, nothing lost |
| Laravel engine API (`laravel/app/Actions`, middleware) | idempotency ledger, mirrors, `bot_instances` | record order, fill, position, run, heartbeat, ... | repeated or late requests change nothing; what is shown converges |
| Operator control (`BotControlService`, Telegram, dashboard) | `enabled`, `emergency_stop`, ack token, `audit_logs` | pause, resume, stop, clear, acknowledge | an emergency stop is cleared only deliberately; every change is audited |
| Trading cycle (`trading_cycle.py`) | the last evaluated candle | one cycle: gates, exits, entries, stops | no order without every gate; no double sell; an open position is guarded |
| Risk (`risk/manager.py`, `risk_manager.py`), paper executor | the risk entry of the key-value table; simulated balances | daily limit, sizing; submit, balances | a halt exactly when the day lost the limit |
| Strategies, sentiment, research, legacy bot | | | stateless or offline: not modelled |

They interact through the ledger. The trading worker and the reconciliation
thread call the order service, the stream handler applies events beside them;
both workers flush the outbox; the reconciliation worker publishes one row, and
the trading cycle opens its gates by it; the operator's acknowledgement reaches
the worker through a poll of Laravel. `PROJECT.json` lists all components, what
is modelled of each, and under `hazards` the places in the code where an
interleaving, a crash, a retry or an order of events matters.

## Modules

**`OrderStateMachine`**: the transition table, the rank, and `apply_report` and
`mark_rejected` as operators on a row. No state.

**`OrderLifecycle`**: the ledger, the exchange, and the threads that connect
them. `Store.transaction()` is `BEGIN IMMEDIATE`, so a transaction is one step.
Between transactions, and around REST calls, a thread (`job`) stops at a program
point and anything else may happen, a crash included. The exchange is external:
it places a POST late or never, trades, expires, and every report it ever
issued (`issued`) may be delivered by the stream at any time, repeatedly, in any
order or not at all. An execution is one unit `<<order, k>>`; the position is how
often it accounts for each execution, so double counting and loss are visible
without prices. `published` is the newest outbox snapshot of an order and ties
the module to `Outbox`.

**`Outbox`**: dispatchers, lease, HTTP requests in flight, and Laravel's
idempotency ledger and mirror. A request that timed out may still be executed
later. A lease expires under a flush in use only as a counted fault
(`outlived`), because the code renews it before every delivery. Row *i* of kind
`orders` carries version *i* of one order.

Row of kind `positions` carries a time of which the mirror keeps the second
(`second`, `ShownSecond`). Fills, signals and events are rows that Laravel
inserts once (`InsertOnce`); the instance enqueues `fills` for all three.

**`ControlPlaneMirror`**: the abstract specification of the mirror: it shows a
published version, never an older one than before. `Outbox` implements it with
`newest` as the newest valid snapshot enqueued (`FollowsPublished`).

**`Reconciliation`**: the row that gates trading and its writers. Each reads the
row, changes it and writes it back whole, in two transactions, so all of them
race: the event loop's callbacks (`loop`, one at a time), the thread of a run
(`run`), the thread of a touch (`touch`). What a run compares is
`OrderLifecycle`'s business; here it only has a verdict. `verified`, `halted`
and `restored` (a touch wrote back HEALTHY while the stream was lost) are history
variables.

**`TradingCycle`**: `run_once` of the trading worker, one step per transaction or
REST call, with the local variables the Python frame holds (`cycle`): the control
flags and the verdict of the reconciliation gate read at its start, the position
copy of a protective stop. Beside it run the stream and the reconciliation worker:
a status and the fills of one order arrive apart (`Observe`, `IngestOne`, the units
of an order in any order), an order the exchange does not show is written off
(`WriteOff`), and a run rebuilds the position, which is a read, a fold of the fills
in the order of execution (`tape`) and an unguarded save of the whole row with the
stop it read first (`RebuildRead`, `RebuildFold`, `RebuildSave`). The exchange
refuses to sell what the account does not have free; a request that was lost on its
way (`SENT`) may arrive at any time, also after its order was written off
(`Arrive`). Every report of such an order is a conflict and changes nothing in the
ledger (`Revived`), while another attempt may already be sent. The operator is an
instance of `OperatorSwitch`. Prices are abstracted to which branch a cycle may
take, time to `candle` and to the identity of a position (`opened`).

Four history variables say what the properties compare with: `held`, the position
the executions on the exchange really make; `behind`, whether an order was decided
on a positions row that was not that; `overtaken`, whether a rebuild saved what it
would not read any more; `overdue`, how many orders were sent against the switches.

**`Accounting`**: money, on integers: what a fill does to quantity, cost, realised
and unrealised P&L with a fee in either asset, the clamp of a sale beyond what is
tracked, `rebuild` in the order of execution with its unguarded read and save,
`paper_cash`, equity, and the daily loss limit with its persisted day, in PAPER
mode (balances derived from fills, one process) and in exchange mode (balances of
the account, fills ingested by another process at any time). `truth` is the day
as the account really went; `behind` tells when an update saw a balance and a
position of different moments.

**`OperatorSwitch`**: the abstract specification of the operator's controls, two
switches and the four operations that move them. A resume is let in only while the
stop is not engaged (`AdmitResume`), and made later without another look
(`FinishResume`), as `BotControlService` checks before its transaction; nothing else
enables the bot. `ControlPlane` implements it (`SwitchesFollowOperator`, where the
resumes let in are the requests that loaded a row without the stop: `Admitted`), and
`TradingCycle` takes the moves of its operator from it (`Moves`).

**`ControlPlane`**: the row of the bot in Laravel and everyone who writes it. A
request is two steps, the load and the write: Eloquent writes only what differs
from the loaded copy (`Saved`), so what is written depends on what was read
earlier. Commands come from the dashboard or from Telegram, which delivers an
update again; heartbeats and reconciliation runs come late and out of order.

How they compose: the `positions` and `orders` rows of `Outbox` are the snapshots
`OrderLifecycle` enqueues; `TradingCycle` uses the order service as a ledger whose
rows lag behind the exchange, which is what `OrderLifecycle` shows of it;
`Reconciliation` owns the row whose value `PassGates` may find at any time; the
acknowledgement that `Reconciliation` polls is one of the commands of
`ControlPlane`.

**`MCOrderLifecycle`, `MCOutbox`, `MCReconciliation`, `MCTradingCycle`,
`MCAccounting`, `MCControlPlane`** give the constants model values for TLC. 
**`OrderLifecycleProofs`**, **`OutboxProofs`**, **`ReconciliationProofs`**,
**`TradingCycleProofs`**, **`ExposureProofs`** (`TradingCycle` too),
**`AccountingProofs`** and **`ControlPlaneProofs`** hold the theorems and their
lemmas; **`NumberLemmas`** what they share about natural numbers.

Operators called "Variant with a bug" are not used by any specification. Each
is the mutation a property is tested with: put in place of the definition it
follows, it makes TLC report the property.

## Runs

| Run | Bounds | Checks |
|---|---|---|
| `order` | 1 order of 2 units, 2 trading workers, 1 reconciler, no fault but a lost request | `OneSubmissionPerIntent`, `ExecutionsCountedOnce`, `TerminalAgreement`, `ConflictsAreReal`, `OnlyForward` |
| `order_live` | 1 order of 1 unit, 1 trader, 1 reconciler, 2 faults | `SubmittingResolved`, `LedgerConverges`, the inductive invariant `IInv` |
| `outbox` | 2 rows of 4 kinds, 2 workers, 2 attempts, 1 fault | `SentMeansDelivered`, `GivenUpForAReason`, `OneDeliverer`, `SentIsFinal`, `FollowsPublished`, `EveryRowSettles`, `MirrorConverges` |
| `recon` | 2 incidents, 1 acknowledgement | `VerifiedSinceStart`, `AckNeverForgotten`, `BlockedWhileDisconnected`, `Recovers`, `AckHonouredWhilePolling` |
| `trading` | entries of 2 units on 2 candles, 2 attempts, 3 orders, one of: a move of a switch, a fault, a rebuild; 1 foreign unit | `OneSeller`, `ExposureBounded`, `RetryOnlyUnexecuted`, `SwitchesOvertakenOnce`, `StopOfThisPosition` |
| `trading_live` | one entry of 1 unit, 2 attempts of a stop and 1 of an exit, 5 orders (all there can be), a fault or a rebuild | `PositionGuarded` |
| `control` | 2 commands, each delivered twice, 1 heartbeat at a time, 1 run, 1 change of the engine's state, 1 fault | `AuditTrail`, `SwitchesFollowOperator`, `ShownConverges` |
| `accounting` | 3 executions of 2 units (exits of what is left), 2 prices, 2 days, a limit of 20 % | `CashIdentity`, `NetQuantity`, `HaltedExactlyOnLoss` |
| `order_rebuild`, `order_writtenoff`, `recon_sticky`, `trading_double_sell` | smallest that show it | one statement of the repository's documents each, which the code does not keep: see `findings` in `PROJECT.json` |

Each of the passing runs also checks the type invariant of its module.

Why the bounds are enough to be interesting.

* Orders share only the threads and the position, so one order under four
  concurrent actors has every race on a row; two units give partial fills, and a
  fill of either unit on every path. `order` has the overlapping workers and the
  partial fills; crashes and lost answers, two of them at any step of any thread,
  are in `order_live`, whose `IInv` implies every safety invariant of `order`.
  The combination (two workers, two units, one fault: 2.4 million states) holds
  too but takes TLC longer than the other runs, and the theorems cover it.
* Two rows give ordering in the outbox, and one fault a lost answer, a crash
  between a delivery and its mark, or an outlived lease, each followed by the
  retry. Two rows, two attempts and one fault keep the mirror's convergence free
  of rows that are given up for the number of attempts; rows Laravel refuses are
  given up in the run.
* Two incidents in `recon` give a disconnect during the recovery from a bad
  verdict, a crash or a stop, and an event during either.
* Three orders in `trading` are an entry, a protective stop and an exit, or an
  entry and two attempts of an exit, or two entries and what lies between; two
  units give partial executions of each, and two candles a second position whose
  stop must not be taken for the first one's. A foreign unit lets the exchange
  accept a sale the bot does not own. One fault, move or rebuild at a time
  (`MaxEvents`) is enough for each way the properties name: a lost request is a
  fault, and its late arrival, the write-off and a new attempt cost nothing; nor
  does anything that happens between the read and the save of a rebuild. The
  theorems cover their combinations. Five orders in `trading_live` are one entry,
  an exit of each kind and two stops: no insert ever fails for the bound.
* Two commands in `control` are every pair of an operator's moves, such as an
  emergency stop between the load and the write of a resume; each may come again.
* Three executions in `accounting` are a purchase, a sale and another trade in
  any order of ingestion, with fees that leave dust behind or sell more than is
  tracked. A price falls by a third, more than the limit, or rises. A purchase
  whose fee takes all of it (excluded in `CashIdentity` as `Misbought`) does not
  occur with two units.

`MaxFaults` and `MaxIncidents` bound crashes and failures, `MaxRows` the rows,
`MaxAcks` the operator's acknowledgements, `MaxCandles`, `MaxOrders`,
`MaxMoves`, `MaxRebuilds` and `MaxEvents` the trading, `MaxCommands`, `MaxRuns` and `MaxChanges` the control
plane, `MaxTrades` and `MaxDays` the books; `MaxAttempts` is
`OUTBOX_MAX_ATTEMPTS`, `ExitAttempts` and `StopAttempts` are `MAX_ATTEMPTS`; nothing else is bounded.
Symmetry is used between the two trading workers (`order`), in a run without
fairness.

The `recon` runs switch the deadlock check off: once a store error has ended the
periodic task, a worker whose stream is silent stands still until the next
incident, of which there are no more. In every other run something is always
possible.

### Findings

* A fill ingested while `rebuild` is between its read and its save is missing
  from the position until the next rebuild (`order_rebuild`).
* An order written off as not found that rests on the exchange is not reported
  by reconciliation (`order_writtenoff`).
* HALTED is not sticky: a whole-row write from an older read removes it, and so
  does a failed or interrupted run (`recon_sticky`).
* An exit may sell again what a protective stop has just sold, out of other
  holdings of the account: the stop's terminal status is committed before its
  fills, and only the status makes the exit wait (`trading_double_sell`). Two more
  ways lead to a double sell, which `ExposureBounded` names: an order decided on a
  positions row that a rebuild has overwritten with an older one (both are
  `behind`), and an order that arrives after it was written off (`Revived`), when
  `_next_intent_id` has already sent another in its place, against its docstring
  (`trading_cycle.py:275-276`: only after an attempt "ended without any fill").
  There is no other: in every execution without them nothing is sold twice.

Observations that the models show without a run of their own:

* The backoff of a failed outbox row lets later rows overtake it, although the
  comment at `outbox.py:116` says that ordering is preserved. Orders survive this
  by their version, positions by their time; runs of the reconciliation arrive
  out of order, and the state shown is right again after the next heartbeat
  (`ShownConverges`).
* The mirrored position goes back to an older snapshot of the same second
  (`RecordPosition.php:17`; the column has no fractions), although the comment at
  `RecordPosition.php:10` says that older snapshots never overwrite newer ones.
  `MirrorConverges` therefore promises a snapshot of the newest second, not the
  newest snapshot.
* A touch that read HEALTHY before a disconnect and saves after it opens the gate
  for entries again while the stream is lost, until it is back or the row is too old
  (`reconciliation_service.py:73-76`). `docs/ORDER_LIFECYCLE.md:39-40` and the
  docstring of the worker (line 7) say that entries are blocked then.
  `BlockedWhileDisconnected` exempts this writer (`restored`) and shows that every
  other one keeps the promise.
* A store error in `touch` ends the periodic task for good: acknowledgements are
  not polled any more until a restart (`reconciliation_worker.py:105`; hence
  `AckHonouredWhilePolling`).
* A run thread that outlives a stop may leave HEALTHY behind, until the row is
  too old (`reconciliation_worker.py:146`).
* A resume that loaded the row before an emergency stop is applied after it:
  enabled and stopped at once, although `docs/ORDER_LIFECYCLE.md:51-55` says that
  the stop sets `enabled=false` and that resume is refused while it is engaged.
  `SwitchesFollowOperator` shows that this race is the only way there
  (`FinishResume`). The stop stays engaged, and clearing it pauses the bot.
* A Telegram command whose handling fails is taken for a duplicate when it comes
  again, since its id is cached first (`TelegramController.php:29`).
* A protective stop that executed in part and then ended is not replaced for the
  rest of the position, and nothing tells the operator (`StopUsedUp` in
  `PositionGuarded`; `_next_intent_id`).
* A rebuild that was overtaken by a fill writes the stop of one position onto
  another, or brings a position back that was sold, until the next run
  (`overtaken` in `StopOfThisPosition`, `position_service.py:96-104`).
* A reconciliation halt during a cycle does not stop the entry of that cycle: the
  gate is read once (`trading_cycle.py:86`). No property bounds it.
* Balances, position and executions are read at different moments of a cycle
  (`trading_cycle.py:112`): the equity of such a day may halt it, or not, for no
  reason (`behind` in `HaltedExactlyOnLoss`).

## Fairness

* `OrderLifecycle`: the reconciliation worker runs periodically and on every
  reconnect, and a run goes through all orders, so each of its operations is
  started again and again (strong fairness, since a thread is often busy with
  another one) and goes on (weak fairness). Nothing is assumed of the trading
  worker, the stream or the exchange. Failures are bounded: the exchange is
  reachable often enough.
* `Outbox`: both workers call `flush` in a loop (weak fairness of each
  dispatcher), backoffs end, the lease of a crashed owner expires, and Laravel
  serves the request a worker waits for, or it fails.
* `Reconciliation`: threads and callbacks go on; the periodic task comes round,
  and reconciles when it is connected often enough (`elapsed` meets the interval
  again and again: strong fairness); systemd restarts the worker; a row nobody
  writes grows old; the operator acknowledges a halt while `MaxAcks` allows.

* `TradingCycle` (`trading_live`): the worker's loop goes on; the gates let a cycle
  pass again and again and the strategy does not say SELL in every cycle (strong
  fairness, since each cycle may fail a gate); the reconciliation worker brings
  every order and its fills up to date and market orders end, which is what
  `LedgerConverges` shows and what market orders are. Nothing is assumed of a
  resting stop, of a request on its way, or of a rebuild.
* `ControlPlane`: a command that was received is handled or fails; the workers
  beat, and Laravel serves what it received (weak fairness of each request);
  queued runs are delivered, which is `EveryRowSettles` of the outbox. Operators
  and changes of the engine are free.

## Proofs

`OrderLifecycleProofs` proves, for any sets of orders, trading workers and
reconcilers, any quantity and any number of faults, the type invariant, all
safety properties of run `order` and its action property. The assumptions
are those of the module: `Qty` is a positive number, there is an order, the
bounds are natural numbers.

None of the properties is inductive: that a report may be applied safely depends
on where it came from, and that a fill may be counted depends on what other
threads are about to do. `IInv` adds:

* `ReportsOK`: whatever the exchange once reported is still covered by its state
  now, and a terminal report was its last word. This is what makes late and
  duplicated reports harmless.
* `WireOK`: an order is on the exchange only through its one POST.
* `RowOK`: what a row without and with an exchange id can hold.
* `FillsOK`: fills belong to acknowledged orders that were not written off.
* `NewestStatePublished`: what is saved is enqueued in the same transaction, so the
  snapshots `Outbox` carries are the committed rows.
* `GoodJob`, `OneSender`: what a thread knows at each program point. The row it
  will write is read again in its transaction, so little has to be known.

The proof has one lemma per action. Steps that leave the ledger alone go through
`GoodJobKept` (what a thread knows only depends on things that grow), steps that
save a row through `SaveStep`, steps on fills through `FillsStep`.
`MovesForward` follows from `IInv` and the effect of each step on one row.

`ControlPlaneProofs` proves, for any number of commands, heartbeats under way,
runs, changes and faults, the type invariant, `AuditTrail`, and that the row
implements `OperatorSwitch` (`SwitchesFollowOperator`). The only assumption is
that the bounds are natural numbers. The argument rests on what an update
writes: a column gets the new value where it differs from the loaded copy and is
left alone elsewhere (`SavedField`), so heartbeats and runs, whatever copy they
hold, leave the audited columns as they are (`SavedByEngine`), and a command
changes the row it has just refreshed. That no command is audited twice is not
inductive by itself; `IInv` adds `Fresh` (a command that was not given has no
request), `Deduplicated` (the id of a Telegram command stays in the cache, so its
second request never holds a row) and `AuditedWhenDone` (an audited command has a
first request that is done). For the refinement, a request that loads a row without
the stop is an `AdmitResume`, its end a `FinishResume`, and every other step leaves
the set of those let in alone.

`OutboxProofs` proves, for any workers and any number of rows, attempts and
faults, the type invariant and all safety and action properties of run `outbox`,
and that the mirrored order implements `ControlPlaneMirror` (`MirrorFollows`).
Nothing Laravel or Telegram received is taken back (`Grow`), so the effect of a
row, once it is there, stays. `IInv` says where that effect is known: at a request
that was executed, at a stored answer of the idempotency table, at a dispatcher
that read a success. That one process delivers is a matter of the lease:
`LeaseOK` says that as long as no flush outlived its lease a busy dispatcher holds
it, and that the rows of its flush are still PENDING; the claim of the lease and
the read of the batch are what keeps it.

`ReconciliationProofs` proves, for any number of incidents and acknowledgements,
the type invariant, `VerifiedSinceStart`, `AckNeverForgotten` and
`BlockedWhileDisconnected`. Five writers save
the whole row from a copy they read earlier, so what has to be known is what each
copy may still hold. `Acks`: it still has the token of the row, because the only
step that changes the token runs while no other writer is between its read and its
save; and that is so because the task of an acknowledgement waits in one place only
(`Turns`). `Verified`: a copy that says HEALTHY was read in this life of the
process, after a clean run. `Sessions` and `Disc`: which callback is under way at
each point of a session, so that while the stream is lost the only writes that keep
the status they read are those of a touch and of an acknowledgement, and nobody else
writes during the latter; a run that comes back HEALTHY meets the check after it.

`TradingCycleProofs` proves, for any size of an entry, number of attempts, candles,
orders, moves of the switches, faults and rebuilds, the type invariant, `OneSeller`,
`RetryOnlyUnexecuted` and `SwitchesOvertakenOnce`. `IInv` says, besides the types:

* `RowsOK`: a terminal row says all there is to say of its order, unless it was
  written off. So an order that is live on the exchange is one the ledger has under
  way (`NonTerminal`) or one it wrote off (`Revived`), which the two properties
  exempt.
* `InFlightOK`: which orders are under way at each program point. That set only
  shrinks, but for an insertion, and a sale is inserted only where the worker has
  seen it empty; the order sent next is then the only one that can be live.
* `IntentsOK`: attempts of a purpose are consecutive, each after a terminal row
  without executions.
* `PositionsOK`: the positions row, the position held and what a rebuild is about to
  save are positions. The fold of the fills is a recursive function over `tape`;
  that every value of it is a position is an induction over its domain.
* `CycleOK`, `SwitchesOK`: what the worker knows at each program point; an order
  sent against the switches ends the cycle that read the old ones.

`ExposureProofs` goes on to `ExposureBounded`, for executions in which no order was
decided on a positions row that was not what was held (`behind`) and none arrived
after it was written off (`Revived`); without these two `trading_double_sell` and the
late arrival refute it. The argument is about what is held, which the executions
make, and not about the positions row, which fills and rebuilds may get wrong at any
time. What is held is what was bought and not sold, and one order at most is pending
(`Pending`): a sale for no more than is held, or an entry for no more than is missing
to `EntryQty` (`HeldOK`). An order is inserted only when no other is pending. The
one decision made on an old copy of the position, the protective stop at the end of
a cycle, is harmless: either that position is still held, or an earlier protective
stop of it has executed, and then no attempt is left (`ProtectOK`,
`NoneAfterExecuted`). Bought and sold are sums over the set of orders, so the lemmas
on sums do not depend on an order of the orders.

`AccountingProofs` proves, for any starting balance, prices, quantities, limit and
number of executions and days, the type invariant (a position is never negative)
and the three identities of run `accounting`. `Books` is what makes them
inductive: for a position made from a set of executions, in any order, cost,
realized P&L and quantity agree with the sums over that set. One lemma,
`BooksMore`, says that applying one more execution keeps it, with clamped sales
and base-asset fees; ingestion uses it once, and a rebuild once per fill
(`RebuiltBooks`). A running sum and a rebuild are recursive functions; that their
recursion has a solution, and every induction over it, goes through `UpTo`, an
induction over a set of numbers. `WorthKnown` gives the daily limit: with a
complete ledger the equity of a cycle is what the account is worth.

Every safety and action property of the passing runs is proved, with one exception:
`StopOfThisPosition` is only model-checked. Left to TLC are also the
liveness properties (`SubmittingResolved`, `LedgerConverges`, `EveryRowSettles`,
`MirrorConverges`, `Recovers`, `AckHonouredWhilePolling`, `PositionGuarded`,
`ShownConverges`), which are stated under fairness, and the four
statements of the documents that runs refute.

## Not modelled

* Decimal arithmetic: `Accounting` has integers, and the rounding of an average
  price is the rounding of a cost. Tolerances, step sizes and minimum notionals:
  a sale exceeds what is tracked or does not, a position is open or flat (dust
  below the exchange's minimums is not told apart from a tradeable position).
* What decides a signal and a size: strategies, indicators, sentiment, and the
  float of `position_size`. They are inputs: any branch may be taken.
* WebSocket frames, signing, REST paging and rate limits, JSON, formatting.
* The orders that PAPER mode's simulated exchange keeps in the key-value table,
  and its inline reconciliation; the clock (grace, backoff, freshness and lease
  are events that may happen at any time allowed by the code).
* Store errors other than those of `touch`; SQLite itself is taken as
  serialisable. A request to Laravel that fails does so before its transaction
  or after it.
* A Laravel outage of more than `MaxAttempts` deliveries: rows become DEAD
  (`GivenUpForAReason`), and then the mirror does not converge.
* Users, roles, tokens and allow-lists; views and queries over the mirror.
* Research and backtests, the V1 programs, deployment: offline or not part of the
  engine's processes; they share no state with it.

## Plan

1. Proofs: `OrderLifecycle` has the properties of one order; that the position is
   the fold of the fills while no `rebuild` is under way is the next one.
2. `UserDataStream`: reader, pings and pending requests as the implementation of
   the stream `Reconciliation` assumes.
3. PAPER mode as a whole cycle: the simulated orders in the key-value table and
   the inline reconciliation.
4. Algorithms: sizing and rounding to exchange rules, the backtest loop and its
   folds.
