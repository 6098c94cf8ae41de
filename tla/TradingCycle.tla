---------------------------- MODULE TradingCycle ----------------------------
(***************************************************************************)
(* TradingCycle.run_once of the trading worker, in exchange mode, with the *)
(* order service calls it makes, beside everything that can happen between *)
(* two of its calls: the reconciliation worker and the stream bring orders *)
(* and fills up to date and rebuild the position, the exchange trades and  *)
(* receives late requests, the operator moves his switches, the            *)
(* reconciliation gate closes and opens, the worker crashes.               *)
(*                                                                         *)
(* Covered: the order of the gates and how old what they read may be, the  *)
(* attempts of an intent, exits that first cancel the resting stop, stops  *)
(* and protective stops, the status and the fills of an order arriving     *)
(* apart, requests that arrive after their order was written off, and the  *)
(* unguarded save of a rebuild.  Abstracted: prices (a candle either       *)
(* reaches the stop or not), signals, balances and risk limits (any        *)
(* outcome).  An answer of the exchange is applied in the step that        *)
(* obtains it; delayed and reordered reports are the subject of            *)
(* OrderLifecycle.                                                         *)
(*                                                                         *)
(* Quantities are units.  Holdings of the account that are not the bot's   *)
(* (Foreign) decide whether the exchange can sell more than the bot owns.  *)
(***************************************************************************)
EXTENDS Integers, Sequences, FiniteSets

CONSTANTS EntryQty,     \* units an entry asks for
          ExitAttempts, \* MAX_ATTEMPTS of EXIT and STOP_EXIT (3 in the code)
          StopAttempts, \* MAX_ATTEMPTS of PROTECTIVE_STOP (3 in the code)
          MaxCandles,   \* bound: candles, hence entries
          MaxOrders,    \* bound: orders submitted
          MaxMoves,     \* bound: moves of the operator's switches
          MaxFaults,    \* bound: crashes, failed REST calls, reports out of order
          MaxRebuilds,  \* bound: rebuilds of the position
          MaxEvents,    \* bound: moves, faults and rebuilds together
          Foreign       \* units in the account that are not the bot's

ASSUME TradingAssumption ==
    /\ EntryQty \in Nat \ {0}
    /\ ExitAttempts \in Nat \ {0} /\ StopAttempts \in Nat \ {0}
    /\ MaxCandles \in Nat /\ MaxOrders \in Nat /\ MaxMoves \in Nat
    /\ MaxFaults \in Nat /\ MaxRebuilds \in Nat /\ MaxEvents \in Nat
    /\ Foreign \in Nat

VARIABLES enabled, emergency_stop,  \* the operator's switches (Laravel)
          moves,      \* how often they were moved
          candle,     \* open time of the newest evaluated candle
          orders,     \* orders table: intent |-> row
          recorded,   \* fills table: intent |-> the units ingested
          position,   \* positions row
          exch,       \* the exchange: intent |-> its order there
          tape,       \* the exchange: every unit executed, in order of time
          rebuild,    \* a rebuild under way: its program point and local variables
          cycle,      \* the worker: program point and local variables
          alerts,     \* ORDER_ATTEMPTS_EXHAUSTED events, by base intent id
          faults,
          overdue,    \* history: orders sent against the switches as they are
          held,       \* history: the position the executions really make
          behind,     \* history: an order was decided on a row that is not what is held
          overtaken   \* history: a rebuild saved what it would not read any more

operator == <<enabled, emergency_stop>>
ledger == <<orders, recorded, position>>
market == <<exch, tape, held>>
history == <<overdue, behind, overtaken>>
vars == <<operator, moves, candle, ledger, market, rebuild, cycle, alerts, faults,
          history>>

Operator == INSTANCE OperatorSwitch WITH Requests <- {}, admitted <- {}

Exits == {"EXIT", "STOP_EXIT", "PROTECTIVE_STOP"}
Purpose == {"ENTRY"} \cup Exits
MaxAttempts(purpose) == CASE purpose = "ENTRY" -> 1
                          [] purpose = "PROTECTIVE_STOP" -> StopAttempts
                          [] OTHER -> ExitAttempts

\* Identity of a position: opened_at, the time of the execution that opened
\* it.  0 stands for None.
OpenedBy(i, k) == (i.base - 1) * EntryQty + k
Episode == 0..(MaxCandles * EntryQty)

\* client_intent_id: purpose, base (candle or opened_at) and attempt number.
Intent == [purpose: Purpose, base: Episode, attempt: 0..ExitAttempts + StopAttempts]
UsedIntent == {i \in Intent : i.base # 0 /\ i.attempt < MaxAttempts(i.purpose)}

Terminal == {"FILLED", "CANCELED", "EXPIRED", "REJECTED"}
Status == {"SUBMITTING", "OPEN"} \cup Terminal   \* OPEN: NEW, PARTIALLY_FILLED
Row == [status: Status, exec: Nat, req: Nat \ {0}]
\* ABSENT: never sent, or refused.  SENT: the request is on its way, or lost.
ExchOrder == [status: {"ABSENT", "SENT"} \cup Status, exec: Nat]
Absent == [status |-> "ABSENT", exec |-> 0]
Sent == [status |-> "SENT", exec |-> 0]

Position == [qty: Nat, stop: Episode, opened: Episode]
NoPosition == [qty |-> 0, stop |-> 0, opened |-> 0]
Rebuild == [pc: {"idle", "fills", "save"}, stop: Episode, p: Position,
            runs: 0..MaxRebuilds]

Point == {"idle", "gate", "sync", "syncFills", "decide", "setStop",
          "cancel", "recheck", "recheckFills", "exit", "entry", "post",
          "resolve", "fills", "arm", "protect"}
NoIntent == [purpose |-> "ENTRY", base |-> 0, attempt |-> 0]
Cycle == [pc: Point, enabled: BOOLEAN, stopped: BOOLEAN, entriesOk: BOOLEAN,
          todo: SUBSET Intent, i: Intent, purpose: Purpose, p: Position,
          behind: BOOLEAN]  \* history: the position read was not what is held
Idle == [pc |-> "idle", enabled |-> FALSE, stopped |-> FALSE, entriesOk |-> FALSE,
         todo |-> {}, i |-> NoIntent, purpose |-> "ENTRY", p |-> NoPosition,
         behind |-> FALSE]

Intents == DOMAIN orders
IsSell(i) == i.purpose \in Exits
NonTerminal == {i \in Intents : orders[i].status \notin Terminal}
InFlight == {i \in NonTerminal : i.purpose # "PROTECTIVE_STOP"}
RestingStops == {i \in NonTerminal : i.purpose = "PROTECTIVE_STOP"}

\* The k-th unit of order i is <<i, k>>.
Units(f, S) == UNION {{i} \X (1..f[i]) : i \in S}
SumOver(f, S) == Cardinality(Units(f, S))
Executed == [i \in Intents |-> exch[i].exec]
Bought == SumOver(Executed, {i \in Intents : ~IsSell(i)})
Sold == SumOver(Executed, {i \in Intents : IsSell(i)})

\* A query finds the order.
OnExchange(i) == exch[i].status \notin {"ABSENT", "SENT"}
\* Written off as not found, and then it arrived: every report of it is an
\* OrderConflict, which is rolled back with the fills it would bring.
Revived == {i \in Intents : orders[i].status = "REJECTED" /\ OnExchange(i)}
\* The positions row is not what the executions make.
Behind == <<position.qty, position.opened>> # <<held.qty, held.opened>>

TypeOK ==
    /\ enabled \in BOOLEAN /\ emergency_stop \in BOOLEAN
    /\ moves \in 0..MaxMoves
    /\ candle \in 0..MaxCandles
    /\ Intents \subseteq UsedIntent
    /\ orders \in [Intents -> Row] /\ exch \in [Intents -> ExchOrder]
    /\ recorded \in [Intents -> SUBSET Nat]
    /\ \A i \in Intents : recorded[i] \subseteq 1..exch[i].exec
    /\ position \in Position /\ held \in Position
    /\ tape \in Seq(Intents \X Nat)
    /\ rebuild \in Rebuild
    /\ cycle \in Cycle
    /\ cycle.todo \subseteq Intents
    /\ alerts \subseteq Purpose \X Episode
    /\ faults \in 0..MaxFaults
    /\ overdue \in Nat
    /\ behind \in BOOLEAN /\ overtaken \in BOOLEAN

Init ==
    /\ Operator!Init
    /\ moves = 0
    /\ candle = 0
    /\ orders = << >> /\ recorded = << >> /\ exch = << >>
    /\ position = NoPosition /\ held = NoPosition
    /\ tape = << >>
    /\ rebuild = [pc |-> "idle", stop |-> 0, p |-> NoPosition, runs |-> 0]
    /\ cycle = Idle
    /\ alerts = {}
    /\ faults = 0
    /\ overdue = 0 /\ behind = FALSE /\ overtaken = FALSE

Goto(pc) == cycle' = [cycle EXCEPT !.pc = pc]
Return == cycle' = Idle

\* One more move, fault or rebuild within the bound.
OneMore == moves + faults + rebuild.runs < MaxEvents
Fault == OneMore /\ faults < MaxFaults /\ faults' = faults + 1

-----------------------------------------------------------------------------
(* Ledger transactions used by the cycle and by the reconciliation worker   *)

\* OrderService.apply_report of what the exchange shows now.  A terminal row
\* is not touched again.
ApplyReport(i, report) ==
    orders' = IF orders[i].status \in Terminal THEN orders
              ELSE [orders EXCEPT ![i].status = report.status, ![i].exec = report.exec]

First(S) == CHOOSE n \in S : \A m \in S : n <= m

\* Variant with a bug: a sale is not clamped at zero.
AccountedNegative(p, i, n, k) ==
    IF n = 0 THEN p
    ELSE IF ~IsSell(i)
    THEN [p EXCEPT !.qty = @ + n, !.opened = IF p.qty = 0 THEN OpenedBy(i, k) ELSE @]
    ELSE IF p.qty = n THEN NoPosition ELSE [p EXCEPT !.qty = @ - n]

\* Variant with a bug: a closed position keeps its stop.
AccountedKeepsStop(p, i, n, k) ==
    IF n = 0 THEN p
    ELSE IF ~IsSell(i)
    THEN [p EXCEPT !.qty = @ + n, !.opened = IF p.qty = 0 THEN OpenedBy(i, k) ELSE @]
    ELSE [p EXCEPT !.qty = IF n > @ THEN 0 ELSE @ - n]

\* apply_fill_to_position, for n units of i of which the k-th is the first: a
\* BUY may open the position, a SELL is clamped at zero and a closed position
\* is cleared.
Accounted(p, i, n, k) ==
    IF n = 0 THEN p
    ELSE IF ~IsSell(i)
    THEN [p EXCEPT !.qty = @ + n, !.opened = IF p.qty = 0 THEN OpenedBy(i, k) ELSE @]
    ELSE IF n >= p.qty THEN NoPosition ELSE [p EXCEPT !.qty = @ - n]

\* OrderService.ingest_fill for the executions of i in S: those that are not
\* recorded yet are inserted, and accounted for.
Ingest(i, S) ==
    LET missing == S \ recorded[i] IN
    /\ recorded' = [recorded EXCEPT ![i] = @ \cup S]
    /\ position' = Accounted(position, i, Cardinality(missing), First(missing))
IngestFills(i) == Ingest(i, 1..exch[i].exec)

-----------------------------------------------------------------------------
(* The exchange, the reconciliation worker and the operator                  *)

Locked == SumOver([i \in Intents |-> orders[i].req - exch[i].exec],
                  {i \in Intents : IsSell(i) /\ exch[i].status = "OPEN"})
FreeUnits == Foreign + Bought - Sold - Locked

\* The order becomes e on the exchange: what it executes more than before goes
\* to the tape.
Becomes(i, e) ==
    LET before == exch[i].exec
        units == e.exec - before IN
    /\ exch' = [exch EXCEPT ![i] = e]
    /\ tape' = tape \o [k \in 1..units |-> <<i, before + k>>]
    /\ held' = Accounted(held, i, units, before + 1)

\* An order that has executed n units and not ended otherwise.
Working(i, n) == [status |-> IF n = orders[i].req THEN "FILLED" ELSE "OPEN", exec |-> n]

\* Units that are sold must be free in the account.
Accepts(i) == IsSell(i) => orders[i].req <= FreeUnits

\* A request on its way arrives, however late: the ledger may have written the
\* order off.
Arrive(i) ==
    /\ exch[i].status = "SENT"
    /\ Accepts(i)
    /\ Becomes(i, Working(i, 0))
    /\ UNCHANGED <<operator, moves, candle, ledger, rebuild, cycle, alerts, faults, history>>

ExchangeTrade(i) ==
    /\ exch[i].status = "OPEN"
    /\ Becomes(i, Working(i, exch[i].exec + 1))
    /\ UNCHANGED <<operator, moves, candle, ledger, rebuild, cycle, alerts, faults, history>>

\* A market order runs out of liquidity; the owner cancels a stop by hand.
ExchangeExpire(i) ==
    /\ exch[i].status = "OPEN"
    /\ Becomes(i, [exch[i] EXCEPT !.status = "EXPIRED"])
    /\ UNCHANGED <<operator, moves, candle, ledger, rebuild, cycle, alerts, faults, history>>

\* The stream or a reconciliation run applies the state of an order, ...
Observe(i) ==
    /\ OnExchange(i)
    /\ orders[i].status \notin Terminal
    /\ ApplyReport(i, exch[i])
    /\ orders' # orders
    /\ UNCHANGED <<operator, moves, candle, recorded, position, market, rebuild, cycle,
                   alerts, faults, history>>

\* ... and, in another transaction, one of its executions: the first that is
\* missing, or a later one whose report came earlier.
IngestOne(i) ==
    /\ orders[i].status \notin {"SUBMITTING", "REJECTED"}
    /\ \E k \in 1..exch[i].exec \ recorded[i] :
          /\ Ingest(i, {k})
          /\ IF k = First(1..exch[i].exec \ recorded[i]) THEN UNCHANGED faults ELSE Fault
    /\ UNCHANGED <<operator, moves, candle, orders, market, rebuild, cycle, alerts, history>>

\* resolve_ambiguous after the grace period, in either worker: the exchange
\* does not know the order (yet).  The period (60 s) is longer than the worker
\* waits for the answer of a POST (REQUEST_TIMEOUT_SECONDS).
WriteOff(i) ==
    /\ orders[i].status = "SUBMITTING"
    /\ ~OnExchange(i)
    /\ ~(cycle.pc = "post" /\ cycle.i = i)
    /\ orders' = [orders EXCEPT ![i].status = "REJECTED"]
    /\ UNCHANGED <<operator, moves, candle, recorded, position, market, rebuild, cycle,
                   alerts, faults, history>>

\* PositionService.rebuild of a reconciliation run, which holds no transaction:
\* it reads the row for its stop, ...
RebuildRead ==
    /\ OneMore /\ rebuild.pc = "idle" /\ rebuild.runs < MaxRebuilds
    /\ rebuild' = [rebuild EXCEPT !.pc = "fills", !.stop = position.stop, !.runs = @ + 1]
    /\ UNCHANGED <<operator, moves, candle, ledger, market, cycle, alerts, faults, history>>

\* ... folds the recorded fills in the order of their execution, ...
FoldOne(p, u) == IF u[2] \in recorded[u[1]] THEN Accounted(p, u[1], 1, u[2]) ELSE p
FoldOfFills ==
    LET fold[n \in 0..Len(tape)] ==
            IF n = 0 THEN NoPosition ELSE FoldOne(fold[n - 1], tape[n])
    IN fold[Len(tape)]

\* ... which keeps the stop of an open position, ...
Rebuilt(stop) ==
    LET p == FoldOfFills IN IF p.qty > 0 THEN [p EXCEPT !.stop = stop] ELSE p

RebuildFold ==
    /\ rebuild.pc = "fills"
    /\ rebuild' = [rebuild EXCEPT !.pc = "save", !.stop = 0, !.p = Rebuilt(rebuild.stop)]
    /\ UNCHANGED <<operator, moves, candle, ledger, market, cycle, alerts, faults, history>>

\* ... and saves the whole row, whatever it is by now.
RebuildSave ==
    /\ rebuild.pc = "save"
    /\ position' = rebuild.p
    /\ overtaken' = (overtaken \/ rebuild.p # Rebuilt(position.stop))
    /\ rebuild' = [rebuild EXCEPT !.pc = "idle", !.p = NoPosition]
    /\ UNCHANGED <<operator, moves, candle, orders, recorded, market, cycle, alerts, faults,
                   overdue, behind>>

\* A switch moves; what is sent against the switches is counted from here.
\* A cycle reads them once, so a move is before the read or after it: when in
\* the cycle it comes makes no difference to any other step.
OperatorActs ==
    /\ cycle.pc \in {"idle", "gate"}
    /\ Operator!Moves
    /\ operator' # operator
    /\ OneMore /\ moves < MaxMoves /\ moves' = moves + 1
    /\ overdue' = 0
    /\ UNCHANGED <<candle, ledger, market, rebuild, cycle, alerts, faults, behind, overtaken>>

Crash ==
    /\ cycle.pc # "idle"
    /\ Fault
    /\ Return
    /\ UNCHANGED <<operator, moves, candle, ledger, market, rebuild, alerts, history>>

-----------------------------------------------------------------------------
(* run_once: the gates                                                       *)

\* get_control.  When Laravel cannot be reached the cycle ends: no step.
ReadControl ==
    /\ cycle.pc = "idle"
    /\ cycle' = [Idle EXCEPT !.pc = "gate", !.enabled = enabled, !.stopped = emergency_stop]
    /\ UNCHANGED <<operator, moves, candle, ledger, market, rebuild, alerts, faults, history>>

\* The orders in flight that are still to be refreshed; then the decision.
Sync(c, rest) == cycle' = [c EXCEPT !.pc = IF rest = {} THEN "decide" ELSE "sync",
                                    !.todo = rest, !.i = NoIntent]

\* MarketDataService.snapshot, when it is valid: the newest closed candle,
\* which is the one evaluated before or the next.
EvaluatedCandles == {candle, candle + 1} \cap 1..MaxCandles

\* allows_exits and allows_entries of the reconciliation row, which is at any
\* time fresh and HEALTHY, fresh and DEGRADED, or blocks everything; then the
\* snapshot, invalid or of a candle not older than the last one; then the
\* orders in flight are listed.
PassGates ==
    /\ cycle.pc = "gate"
    /\ \/ Return /\ UNCHANGED candle
       \/ /\ candle' \in EvaluatedCandles
          /\ \E healthy \in BOOLEAN : Sync([cycle EXCEPT !.entriesOk = healthy], InFlight)
    /\ UNCHANGED <<operator, moves, ledger, market, rebuild, alerts, faults, history>>

\* refresh or resolve_ambiguous of one of them; a failure, and the conflict of
\* an order written off meanwhile, is logged and the next one is taken.  An
\* order the exchange does not know stays as it is (or is written off:
\* WriteOff).
SyncOrder ==
    /\ cycle.pc = "sync"
    /\ \E i \in cycle.todo :
          \/ /\ OnExchange(i) /\ i \notin Revived
             /\ ApplyReport(i, exch[i])
             /\ cycle' = [cycle EXCEPT !.pc = "syncFills", !.i = i]
             /\ UNCHANGED faults
          \/ /\ ((~OnExchange(i) \/ i \in Revived) /\ UNCHANGED faults) \/ Fault
             /\ Sync(cycle, cycle.todo \ {i})
             /\ UNCHANGED orders
    /\ UNCHANGED <<operator, moves, candle, recorded, position, market, rebuild, alerts, history>>

SyncFills ==
    LET i == cycle.i IN
    /\ cycle.pc = "syncFills"
    /\ \/ IngestFills(i) /\ UNCHANGED faults
       \/ Fault /\ UNCHANGED <<recorded, position>>
    /\ Sync(cycle, cycle.todo \ {i})
    /\ UNCHANGED <<operator, moves, candle, orders, market, rebuild, alerts, history>>

-----------------------------------------------------------------------------
(* run_once: the decision                                                    *)

\* What the cycle does with an open position, p being what it read of it: an
\* exit because the stop was reached or the strategy says SELL, or a look at
\* the protective stop.
ExitFor(p, purpose) ==
    /\ purpose = "STOP_EXIT" => p.stop # 0
    /\ purpose = "EXIT" => ~cycle.stopped
    /\ cycle' = [Idle EXCEPT !.pc = "cancel", !.purpose = purpose]

HoldPosition(p) ==
    cycle' = [Idle EXCEPT !.pc = "protect", !.purpose = "PROTECTIVE_STOP", !.p = p,
                          !.behind = Behind]

OpenPosition(p) ==
    \/ \E purpose \in {"STOP_EXIT", "EXIT"} : ExitFor(p, purpose)
    \/ HoldPosition(p)

\* Variant with a bug: orders in flight do not stop the decision.
DecideInFlight ==
    /\ cycle.pc = "decide"
    /\ IF position.qty = 0 THEN Return \/ Goto("entry")
       ELSE IF position.stop = 0
       THEN cycle' = [cycle EXCEPT !.pc = "setStop", !.p = position]
       ELSE OpenPosition(position)
    /\ UNCHANGED <<operator, moves, candle, ledger, market, rebuild, alerts, faults, history>>

\* Orders still in flight end the cycle; otherwise the position is read.
\* Flat and no BUY signal, or a risk or balance check fails: nothing.
Decide ==
    /\ cycle.pc = "decide"
    /\ IF InFlight # {} THEN Return
       ELSE IF position.qty = 0 THEN Return \/ Goto("entry")
       ELSE IF position.stop = 0
       THEN cycle' = [cycle EXCEPT !.pc = "setStop", !.p = position]
       ELSE OpenPosition(position)
    /\ UNCHANGED <<operator, moves, candle, ledger, market, rebuild, alerts, faults, history>>

\* set_stop re-reads the row in its transaction, but the stop comes from the
\* average price of the copy read before.
SetStop ==
    LET stopped == [position EXCEPT !.stop = cycle.p.opened] IN
    /\ cycle.pc = "setStop"
    /\ position' = stopped
    /\ OpenPosition(stopped)
    /\ UNCHANGED <<operator, moves, candle, orders, recorded, market, rebuild, alerts,
                   faults, history>>

-----------------------------------------------------------------------------
(* _submit                                                                   *)

\* Variant with a bug: what the previous attempt executed is not looked at.
RetryableAnyTerminal(i) == orders[i].status \in {"REJECTED", "CANCELED", "EXPIRED"}

\* Variant with a bug: a cancelled attempt counts as the last one.
RetryableNotCanceled(i) ==
    orders[i].status \in {"REJECTED", "EXPIRED"} /\ orders[i].exec = 0

\* A new attempt is allowed after one that ended without any fill.
Retryable(i) ==
    /\ orders[i].status \in {"REJECTED", "CANCELED", "EXPIRED"}
    /\ orders[i].exec = 0

Attempt(purpose, base, n) == [purpose |-> purpose, base |-> base, attempt |-> n]

\* _next_intent_id: the attempts that are not used up, of which the first counts.
OpenAttempts(purpose, base) ==
    {n \in 0..MaxAttempts(purpose) - 1 :
        LET i == Attempt(purpose, base, n) IN i \in Intents => ~Retryable(i)}

\* Is intent i one the operator forbids now?
Forbidden(i) ==
    \/ i.purpose = "ENTRY" /\ (~enabled \/ emergency_stop)
    \/ i.purpose = "EXIT" /\ emergency_stop

\* A table f with a new row.
With(f, i, row) == [j \in DOMAIN f \cup {i} |-> IF j = i THEN row ELSE f[j]]

\* insert_intent_and_order of a new intent; then the request is sent.
Insert(i, qty) ==
    /\ orders' = With(orders, i, [status |-> "SUBMITTING", exec |-> 0, req |-> qty])
    /\ exch' = With(exch, i, Absent)
    /\ recorded' = With(recorded, i, {})
    /\ cycle' = [Idle EXCEPT !.pc = "post", !.i = i]
    /\ overdue' = IF Forbidden(i) THEN overdue + 1 ELSE overdue
    /\ behind' = (behind \/ cycle.behind \/ Behind)
    /\ UNCHANGED overtaken

\* enqueue_event of ORDER_ATTEMPTS_EXHAUSTED, once per base intent id.
Alert(purpose, base) == alerts' = alerts \cup {<<purpose, base>>}

\* _submit.  All attempts used: an alert.  An intent that has an order is not
\* submitted again, whatever became of the order.  (At the bound MaxOrders the
\* insert fails, as it does when the store raises.)
Submit(purpose, base, qty) ==
    LET open == OpenAttempts(purpose, base) IN
    \/ /\ open = {}
       /\ Alert(purpose, base)
       /\ Return
       /\ UNCHANGED <<orders, exch, recorded, history>>
    \/ /\ open # {}
       /\ UNCHANGED alerts
       /\ LET i == Attempt(purpose, base, First(open)) IN
          IF i \in Intents \/ Cardinality(Intents) = MaxOrders
          THEN Return /\ UNCHANGED <<orders, exch, recorded, history>>
          ELSE Insert(i, qty)

\* executor.submit.  A market order executes at once, in part or in whole, and
\* may rest; a protective stop rests.  The answer comes with the state it shows
\* (row and, next, fills), or the order is refused, or the answer is lost, or
\* the request is lost or late.
Post ==
    LET i == cycle.i
        execs == IF i.purpose = "PROTECTIVE_STOP" THEN {0} ELSE 0..orders[i].req IN
    /\ cycle.pc = "post"
    /\ \/ \E n \in execs :
             /\ Accepts(i)
             /\ Becomes(i, Working(i, n))
             /\ \/ ApplyReport(i, Working(i, n)) /\ Goto("fills") /\ UNCHANGED faults
                \/ Fault /\ Goto("resolve") /\ UNCHANGED orders
       \/ /\ orders' = [orders EXCEPT ![i].status = "REJECTED"]
          /\ Return
          /\ UNCHANGED <<market, faults>>
       \/ Fault /\ Becomes(i, Sent) /\ Goto("resolve") /\ UNCHANGED orders
    /\ UNCHANGED <<operator, moves, candle, recorded, position, rebuild, alerts, history>>

\* AMBIGUOUS: the exchange is asked for the order; asking fails, or the order
\* is not there and stays pending, or it was written off meanwhile.
ResolveAmbiguous ==
    LET i == cycle.i IN
    /\ cycle.pc = "resolve"
    /\ \/ /\ OnExchange(i) /\ i \notin Revived
          /\ ApplyReport(i, exch[i]) /\ Goto("fills")
          /\ UNCHANGED faults
       \/ /\ ((~OnExchange(i) \/ i \in Revived) /\ UNCHANGED faults) \/ Fault
          /\ Return /\ UNCHANGED orders
    /\ UNCHANGED <<operator, moves, candle, recorded, position, market, rebuild, alerts, history>>

\* The fills of the answer, or of query_fills.  An entry then gets its stop.
SubmitFills ==
    LET i == cycle.i IN
    /\ cycle.pc = "fills"
    /\ IngestFills(i)
    /\ IF i.purpose = "ENTRY" THEN Goto("arm") ELSE Return
    /\ UNCHANGED <<operator, moves, candle, orders, market, rebuild, alerts, faults, history>>

\* After an entry that executed: the stop, and when it is FILLED, protection.
ArmEntry ==
    LET row == orders[cycle.i]
        stopped == [position EXCEPT !.stop = position.opened] IN
    /\ cycle.pc = "arm"
    /\ IF row.exec > 0 /\ row.status \in {"OPEN", "FILLED"} /\ position.qty > 0
       THEN /\ position' = stopped
            /\ IF row.status = "FILLED"
               THEN HoldPosition(stopped)
               ELSE Return
       ELSE Return /\ UNCHANGED position
    /\ UNCHANGED <<operator, moves, candle, orders, recorded, market, rebuild, alerts,
                   faults, history>>

-----------------------------------------------------------------------------
(* Entries, exits and protective stops                                       *)

\* Variant with a bug: a paused bot still enters.
EnterPaused ==
    /\ cycle.pc = "entry"
    /\ IF ~cycle.stopped /\ cycle.entriesOk /\ position.qty = 0
       THEN Submit("ENTRY", candle, EntryQty)
       ELSE Return /\ UNCHANGED <<orders, exch, recorded, alerts, history>>
    /\ UNCHANGED <<operator, moves, candle, position, tape, held, rebuild, faults>>

\* Every gate, with the flags read at the start of the cycle, and
\* max_open_positions from the position as it is now.
Enter ==
    /\ cycle.pc = "entry"
    /\ IF cycle.enabled /\ ~cycle.stopped /\ cycle.entriesOk /\ position.qty = 0
       THEN Submit("ENTRY", candle, EntryQty)
       ELSE Return /\ UNCHANGED <<orders, exch, recorded, alerts, history>>
    /\ UNCHANGED <<operator, moves, candle, position, tape, held, rebuild, faults>>

\* Variant with a bug: the exit leaves the resting stop alone.
CancelStopsNot ==
    /\ cycle.pc = "cancel"
    /\ Goto("exit")
    /\ UNCHANGED <<operator, moves, candle, ledger, market, rebuild, alerts, faults, history>>

\* executor.cancel.  The exchange cancels and says so (the report is applied),
\* cancels and the answer is lost, or does not: unknown, ended, unreachable.
CancelOrder(i) ==
    LET canceled == [exch[i] EXCEPT !.status = "CANCELED"] IN
    \/ /\ exch[i].status = "OPEN"
       /\ Becomes(i, canceled)
       /\ \/ ApplyReport(i, canceled) /\ UNCHANGED faults
          \/ Fault /\ UNCHANGED orders
    \/ /\ (exch[i].status # "OPEN" /\ UNCHANGED faults) \/ Fault
       /\ UNCHANGED <<orders, market>>

\* _exit: each resting stop is cancelled.
CancelStops ==
    /\ cycle.pc = "cancel"
    /\ IF RestingStops = {} THEN Goto("exit") /\ UNCHANGED <<orders, market, faults>>
       ELSE \E i \in RestingStops :
            cycle' = [cycle EXCEPT !.pc = "recheck", !.i = i] /\ CancelOrder(i)
    /\ UNCHANGED <<operator, moves, candle, recorded, position, rebuild, alerts, history>>

\* What cancel returns decides: not terminal, the exit has to wait.
AfterCancel(row) ==
    IF row.status \in Terminal THEN cycle' = [cycle EXCEPT !.pc = "cancel", !.i = NoIntent]
    ELSE Return

\* refresh after the cancel: the query, and when it fails the ledger's row.  The
\* conflict of a stop written off meanwhile ends the cycle; a stop that is not on
\* the exchange has no fills to ask for.
RecheckStop ==
    LET i == cycle.i IN
    /\ cycle.pc = "recheck"
    /\ \/ /\ OnExchange(i)
          /\ ApplyReport(i, exch[i])
          /\ IF i \in Revived THEN Return ELSE Goto("recheckFills")
          /\ UNCHANGED faults
       \/ /\ ~OnExchange(i)
          /\ AfterCancel(orders[i])
          /\ UNCHANGED <<orders, faults>>
       \/ Fault /\ UNCHANGED orders /\ AfterCancel(orders[i])
    /\ UNCHANGED <<operator, moves, candle, recorded, position, market, rebuild, alerts, history>>

\* refresh after the cancel: query_fills, which may fail as well.
RecheckFills ==
    LET i == cycle.i IN
    /\ cycle.pc = "recheckFills"
    /\ \/ IngestFills(i) /\ UNCHANGED faults
       \/ Fault /\ UNCHANGED <<recorded, position>>
    /\ AfterCancel(orders[i])
    /\ UNCHANGED <<operator, moves, candle, orders, market, rebuild, alerts, history>>

\* The position is read again, and what it says is sold.
Exit ==
    /\ cycle.pc = "exit"
    /\ IF position.qty = 0 THEN Return /\ UNCHANGED <<orders, exch, recorded, alerts, history>>
       ELSE Submit(cycle.purpose, position.opened, position.qty)
    /\ UNCHANGED <<operator, moves, candle, position, tape, held, rebuild, faults>>

\* _ensure_protective_stop, with the position read when the cycle decided.
EnsureProtectiveStop ==
    /\ cycle.pc = "protect"
    /\ IF RestingStops # {} \/ cycle.p.stop = 0 \/ cycle.p.qty = 0
       THEN Return /\ UNCHANGED <<orders, exch, recorded, alerts, history>>
       ELSE Submit("PROTECTIVE_STOP", cycle.p.opened, cycle.p.qty)
    /\ UNCHANGED <<operator, moves, candle, position, tape, held, rebuild, faults>>

-----------------------------------------------------------------------------
CycleStep ==
    \/ ReadControl \/ PassGates \/ SyncOrder \/ SyncFills \/ Decide \/ SetStop
    \/ Enter \/ Post \/ ResolveAmbiguous \/ SubmitFills \/ ArmEntry
    \/ CancelStops \/ RecheckStop \/ RecheckFills \/ Exit \/ EnsureProtectiveStop

Next ==
    \/ CycleStep \/ Crash \/ OperatorActs
    \/ RebuildRead \/ RebuildFold \/ RebuildSave
    \/ \E i \in Intents :
          \/ Arrive(i) \/ ExchangeTrade(i) \/ ExchangeExpire(i)
          \/ Observe(i) \/ IngestOne(i) \/ WriteOff(i)

Spec == Init /\ [][Next]_vars

Passes == PassGates /\ cycle'.pc # "idle"
Holds == (Decide \/ SetStop) /\ cycle'.pc = "protect"

\* The worker's loop goes on, the gates let a cycle pass again and again, and
\* so does a strategy that does not say SELL all the time; the reconciliation
\* worker brings every order and its fills up to date; market orders end.
Fairness ==
    /\ WF_vars(CycleStep) /\ SF_vars(Passes) /\ SF_vars(Holds)
    /\ \A i \in UsedIntent :
          /\ WF_vars(i \in Intents /\ (Observe(i) \/ IngestOne(i) \/ WriteOff(i)))
          /\ WF_vars(i \in Intents /\ i.purpose # "PROTECTIVE_STOP" /\ ExchangeTrade(i))

FairSpec == Spec /\ Fairness

-----------------------------------------------------------------------------
(* Properties                                                                *)

\* The bot never has two orders selling on the exchange, whatever it believes:
\* the in-flight check, the cancel before an exit and the look for a resting
\* stop are made on ledger rows that lag behind the exchange, after crashes
\* and lost answers (trading_cycle.py: in_flight, _exit, live).  The one
\* exception is an order written off as not found that arrived after all: the
\* ledger has forgotten it, and another sale may be sent beside it.
Sellers == {i \in Intents : IsSell(i) /\ exch[i].status = "OPEN"}
OneSeller == Cardinality(Sellers \ Revived) <= 1

\* The comment of _exit: "Cancel any resting exchange stop first so we never
\* double-sell".  The bot sells no more than it bought.
NeverDoubleSell == Sold <= Bought

\* What does hold of it, with the exposure: the bot never sold more than it
\* bought, and what it holds and is still buying does not exceed one entry
\* (MAX_OPEN_POSITIONS, the in-flight check, one attempt per candle), unless
\* some order was decided on a positions row that was not what the bot held (an
\* execution whose fill was not recorded yet, or a rebuild's save of an older
\* state), or an order written off as not found arrived after all.
Buying == SumOver([i \in Intents |-> orders[i].req - exch[i].exec],
                  {i \in Intents : ~IsSell(i) /\ exch[i].status = "OPEN"})
ExposureBounded ==
    \/ behind \/ Revived # {}
    \/ NeverDoubleSell /\ Bought - Sold + Buying <= EntryQty

\* _next_intent_id allows a new attempt after one without any fill: then the
\* earlier attempt executed nothing on the exchange either, and never will,
\* unless it was written off as not found while its request may still be on
\* its way.
RetryOnlyUnexecuted ==
    \A i \in Intents :
        i.attempt > 0 =>
            LET previous == Attempt(i.purpose, i.base, i.attempt - 1)
                writtenOff == orders[previous].status = "REJECTED" IN
            \/ writtenOff /\ exch[previous].status # "ABSENT"
            \/ exch[previous].exec = 0 /\ exch[previous].status \notin {"OPEN", "SENT"}

\* The flags are read once per cycle and used after several slow calls: a
\* move of a switch is overtaken by at most one order.
SwitchesOvertakenOnce == overdue <= 1

\* A stop price belongs to the position it is stored with, though set_stop writes
\* what was computed from an earlier read and a rebuild what it read before the
\* fills: of the writers of the row only a rebuild that was overtaken puts the
\* stop of one entry on another, unless an order was decided on a wrong row.
EntryOf(opened) == (opened + EntryQty - 1) \div EntryQty
StopOfThisPosition ==
    behind \/ overtaken \/ position.stop = 0 \/ EntryOf(position.stop) = EntryOf(position.opened)

\* The operator was told that no attempt for the stop of this position is left,
\* or one of them executed in part and ended, after which there is no other.
StopUsedUp ==
    \/ <<"PROTECTIVE_STOP", position.opened>> \in alerts
    \/ \E i \in Intents : /\ i.purpose = "PROTECTIVE_STOP" /\ i.base = position.opened
                          /\ orders[i].exec > 0

\* An open position gets its stop on the exchange in the end, or the operator
\* is told that it does not: through crashes between the entry and its stop,
\* refused and cancelled stops and exits that came to nothing
\* (_ensure_protective_stop is repeated in every cycle that holds).
PositionGuarded ==
    position.qty > 0 ~>
        \/ position.qty = 0
        \/ \E i \in Intents : i.purpose = "PROTECTIVE_STOP" /\ exch[i].status = "OPEN"
        \/ StopUsedUp
=============================================================================
