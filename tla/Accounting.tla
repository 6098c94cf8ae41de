----------------------------- MODULE Accounting -----------------------------
(***************************************************************************)
(* Money: PositionService (a position and its P&L from fills, in whatever  *)
(* order they are ingested, or rebuilt in the order of execution), the     *)
(* cash of PAPER mode, equity, and the daily loss limit of RiskManager,    *)
(* as the trading cycle uses them.                                         *)
(*                                                                         *)
(* Amounts are integers, quantities in units and money in its smallest     *)
(* unit.  A position keeps its cost, quantity times average_entry_price;   *)
(* the rounding of the average (28 digits in the code) is the rounding of  *)
(* the part of the cost that a sale takes out.                             *)
(*                                                                         *)
(* In PAPER mode the balances are derived from the recorded fills and one  *)
(* process does everything; otherwise they are the exchange's, and fills   *)
(* are ingested by the other worker at any time.  Which orders are sent    *)
(* when, and with which attempts, is the subject of TradingCycle.          *)
(***************************************************************************)
EXTENDS Integers, Sequences

CONSTANTS StartingBalance, \* STARTING_PAPER_BALANCE, or the account at first
          Prices,          \* prices that occur
          Quantities,      \* units an order may trade
          LimitPct,        \* DAILY_LOSS_LIMIT_PCT
          MaxTrades,       \* bound: executions
          MaxDays          \* bound: days

ASSUME AccountingAssumption ==
    /\ StartingBalance \in Nat \ {0} /\ MaxTrades \in Nat /\ MaxDays \in Nat \ {0}
    /\ Prices \subseteq Nat \ {0} /\ Quantities \subseteq Nat \ {0}
    /\ LimitPct \in 1..100

VARIABLES paper,     \* TRADING_MODE = PAPER
          trades,    \* executions, in the order they happened
          fills,     \* fills table: the executions ingested
          position,  \* positions row
          accounted, \* history: the executions the row was made from
          anomaly,   \* one of them raised a POSITION_ANOMALY
          rebuild,   \* PositionService.rebuild between its reads and its save
          account,   \* what the account really holds
          cycle,     \* the trading cycle: price and quote balance it has read
          today,
          risk,      \* kv risk:<bot>
          truth,     \* history: the day by what the account is really worth
          behind     \* history: an update of the day saw an incomplete ledger

ledger == <<fills, position, accounted, anomaly>>
history == <<truth, behind>>
vars == <<paper, trades, ledger, rebuild, account, cycle, today, risk, history>>

\* An execution; the commission is one unit of the asset it is in.  "none"
\* includes a commission in a third asset, which no P&L counts (fees_other).
FeeIn == {"none", "quote", "base"}
Trade == [side: {"BUY", "SELL"}, qty: Nat, price: Prices, fee: FeeIn]
QuoteFee(t) == IF t.fee = "quote" THEN 1 ELSE 0
BaseFee(t) == IF t.fee = "base" THEN 1 ELSE 0
Gross(t) == t.qty * t.price

\* What an execution moves in the account.
QuoteMoved(t) == IF t.side = "BUY" THEN -(Gross(t) + QuoteFee(t)) ELSE Gross(t) - QuoteFee(t)
BaseMoved(t) == IF t.side = "BUY" THEN t.qty - BaseFee(t) ELSE -(t.qty + BaseFee(t))

\* mark 0: no last_mark_price.
Position == [qty: Nat, cost: Int, realized: Int, mark: {0} \cup Prices, unrealized: Int]
NoPosition == [qty |-> 0, cost |-> 0, realized |-> 0, mark |-> 0, unrealized |-> 0]
Day == [date: 0..MaxDays, start: Int, halted: BOOLEAN]
NoDay == [date |-> 0, start |-> 0, halted |-> FALSE]
Result == [p: Position, anomaly: BOOLEAN]
Rebuild == [on: BOOLEAN, from: SUBSET (1..MaxTrades), res: Result]
NoRebuild == [on |-> FALSE, from |-> {}, res |-> [p |-> NoPosition, anomaly |-> FALSE]]
Cycle == [pc: {"idle", "marked", "balances", "decide"}, price: {0} \cup Prices, quote: Int]
IdleCycle == [pc |-> "idle", price |-> 0, quote |-> 0]

TypeOK ==
    /\ paper \in BOOLEAN
    /\ trades \in Seq(Trade) /\ Len(trades) <= MaxTrades
    /\ fills \subseteq 1..Len(trades) /\ accounted \subseteq fills
    /\ position \in Position
    /\ anomaly \in BOOLEAN
    /\ rebuild \in Rebuild
    /\ account \in [quote: Int, base: Int]
    /\ cycle \in Cycle
    /\ today \in 1..MaxDays
    /\ risk \in Day /\ truth \in Day
    /\ behind \in BOOLEAN

Init ==
    /\ paper \in BOOLEAN
    /\ trades = << >> /\ fills = {} /\ accounted = {}
    /\ position = NoPosition /\ anomaly = FALSE
    /\ rebuild = NoRebuild
    /\ account = [quote |-> StartingBalance, base |-> 0]
    /\ cycle = IdleCycle
    /\ today = 1
    /\ risk = NoDay /\ truth = NoDay
    /\ behind = FALSE

-----------------------------------------------------------------------------
(* Accounting rules                                                          *)

\* Position.mark
Marked(p, price) ==
    [p EXCEPT !.mark = price, !.unrealized = IF p.qty > 0 THEN price * p.qty - p.cost ELSE 0]

\* Variant with a bug: after a fill the unrealized P&L is left as it was.
ReMarkedNot(p) == p

\* At the end of apply_fill_to_position.
ReMarked(p) == IF p.mark = 0 THEN p ELSE Marked(p, p.mark)

Bought(p, t) ==
    IF BaseMoved(t) <= 0 THEN [p |-> p, anomaly |-> TRUE]
    ELSE [p |-> ReMarked([p EXCEPT !.qty = @ + BaseMoved(t), !.cost = @ - QuoteMoved(t)]),
          anomaly |-> FALSE]

\* Variant with a bug: a base fee on a sale is not taken from the holdings.
SoldNoFee(p, t) ==
    LET delivered == t.qty
        exceeds == delivered > p.qty
        basis == IF exceeds THEN p.cost ELSE (p.cost * delivered) \div p.qty
        left == IF exceeds THEN 0 ELSE p.qty - delivered
    IN [p |-> ReMarked([p EXCEPT !.qty = left, !.cost = IF left = 0 THEN 0 ELSE @ - basis,
                                 !.realized = @ + QuoteMoved(t) - basis]),
        anomaly |-> exceeds]

\* Variant with a bug: a sale of more than is tracked takes the cost of what
\* was delivered.
SoldUnclamped(p, t) ==
    LET delivered == -BaseMoved(t)
        exceeds == delivered > p.qty
        basis == IF p.qty = 0 THEN 0 ELSE (p.cost * delivered) \div p.qty
        left == IF exceeds THEN 0 ELSE p.qty - delivered
    IN [p |-> ReMarked([p EXCEPT !.qty = left, !.cost = IF left = 0 THEN 0 ELSE @ - basis,
                                 !.realized = @ + QuoteMoved(t) - basis]),
        anomaly |-> exceeds]

\* Variant with a bug: the holdings are not clamped at zero.
SoldNegative(p, t) ==
    LET delivered == -BaseMoved(t)
        exceeds == delivered > p.qty
        basis == IF exceeds THEN p.cost ELSE (p.cost * delivered) \div p.qty
        left == p.qty - delivered
    IN [p |-> ReMarked([p EXCEPT !.qty = left, !.cost = IF left = 0 THEN 0 ELSE @ - basis,
                                 !.realized = @ + QuoteMoved(t) - basis]),
        anomaly |-> exceeds]

\* A sale realizes its proceeds less the cost of what was delivered.  Beyond
\* what is tracked, it closes the position and takes the whole cost.
Sold(p, t) ==
    LET delivered == -BaseMoved(t)
        exceeds == delivered > p.qty
        basis == IF exceeds THEN p.cost ELSE (p.cost * delivered) \div p.qty
        left == IF exceeds THEN 0 ELSE p.qty - delivered
    IN [p |-> ReMarked([p EXCEPT !.qty = left, !.cost = IF left = 0 THEN 0 ELSE @ - basis,
                                 !.realized = @ + QuoteMoved(t) - basis]),
        anomaly |-> exceeds]

\* apply_fill_to_position
Applied(p, t) == IF t.side = "BUY" THEN Bought(p, t) ELSE Sold(p, t)

\* All recorded fills in the order of execution, from an empty position that
\* keeps the mark.
Rebuilding(mark) ==
    LET after[k \in 0..Len(trades)] ==
            IF k = 0 THEN [p |-> [NoPosition EXCEPT !.mark = mark], anomaly |-> FALSE]
            ELSE IF k \notin fills THEN after[k - 1]
            ELSE LET r == Applied(after[k - 1].p, trades[k])
                 IN [p |-> r.p, anomaly |-> r.anomaly \/ after[k - 1].anomaly]
    IN after
Rebuilt(mark) == Rebuilding(mark)[Len(trades)]

\* The running sums of a sequence of numbers, and the last of them.
Running(s) == LET upto[k \in 0..Len(s)] == IF k = 0 THEN 0 ELSE upto[k - 1] + s[k] IN upto
Total(s) == Running(s)[Len(s)]

\* What each execution of ts moved that is one of S, else 0.
Quotes(ts, S) == [k \in 1..Len(ts) |-> IF k \in S THEN QuoteMoved(ts[k]) ELSE 0]
Bases(ts, S) == [k \in 1..Len(ts) |-> IF k \in S THEN BaseMoved(ts[k]) ELSE 0]

\* PositionService.paper_cash
PaperCash == StartingBalance + Total(Quotes(trades, fills))

\* Executor.balances: the quote asset.
QuoteBalance == IF paper THEN PaperCash ELSE account.quote

-----------------------------------------------------------------------------
(* Executions and their ingestion                                            *)

\* In PAPER mode orders fill at once, at the reference price, and what they
\* cost is in the quote asset; the simulated exchange checks no balance.
Execute(t) ==
    /\ Len(trades) < MaxTrades
    /\ trades' = Append(trades, t)
    /\ account' = [quote |-> account.quote + QuoteMoved(t), base |-> account.base + BaseMoved(t)]
    /\ IF paper THEN t.fee \in {"none", "quote"}
       ELSE account'.quote >= 0 /\ account'.base >= 0

\* A protective stop that rests on the exchange executes, all or in part.
StopExecutes ==
    /\ ~paper
    /\ \E t \in [side: {"SELL"}, qty: Quantities, price: Prices, fee: FeeIn] : Execute(t)
    /\ UNCHANGED <<paper, ledger, rebuild, cycle, today, risk, history>>

\* ingest_fill and PositionService.apply_fill, in one transaction.
Ingest(k) ==
    LET r == Applied(position, trades[k]) IN
    /\ k \notin fills
    /\ paper => cycle.pc = "idle" /\ ~rebuild.on
    /\ fills' = fills \cup {k} /\ accounted' = accounted \cup {k}
    /\ position' = r.p
    /\ anomaly' = (anomaly \/ r.anomaly)
    /\ UNCHANGED <<paper, trades, rebuild, account, cycle, today, risk, history>>

\* rebuild: the row and the fills are read, ...
RebuildRead ==
    /\ ~rebuild.on
    /\ fills # {}
    /\ paper => cycle.pc = "idle"
    /\ rebuild' = [on |-> TRUE, from |-> fills, res |-> Rebuilt(position.mark)]
    /\ UNCHANGED <<paper, trades, ledger, account, cycle, today, risk, history>>

\* ... and the row is saved, whatever happened to it meanwhile.
RebuildSave ==
    /\ rebuild.on
    /\ position' = rebuild.res.p
    /\ accounted' = rebuild.from
    /\ anomaly' = rebuild.res.anomaly
    /\ rebuild' = NoRebuild
    /\ UNCHANGED <<paper, trades, fills, account, cycle, today, risk, history>>

-----------------------------------------------------------------------------
(* The trading cycle                                                         *)

\* PositionService.mark with the price of the snapshot.
MarkPosition(price) ==
    /\ cycle.pc = "idle"
    /\ paper => ~rebuild.on
    /\ position' = Marked(position, price)
    /\ cycle' = [pc |-> "marked", price |-> price, quote |-> 0]
    /\ UNCHANGED <<paper, trades, fills, accounted, anomaly, rebuild, account, today,
                   risk, history>>

\* The balances, or an error: then the cycle may exit but not enter.
ReadBalances ==
    /\ cycle.pc = "marked"
    /\ cycle' \in {[cycle EXCEPT !.pc = "balances", !.quote = QuoteBalance], IdleCycle}
    /\ UNCHANGED <<paper, trades, ledger, rebuild, account, today, risk, history>>

\* check_daily_loss_limit
Loses(day, equity) ==
    day.start > 0 /\ (day.start - equity) * 100 >= LimitPct * day.start

DayOf(day, equity) ==
    IF day.date = today THEN day ELSE [date |-> today, start |-> equity, halted |-> FALSE]

\* Variant with a bug: only the present equity counts.
UpdatedForgets(day, equity) ==
    LET d == DayOf(day, equity) IN [d EXCEPT !.halted = Loses(d, equity)]

\* RiskManager.update_daily: the first equity of a day is its start, and a
\* halt lasts for the day.
Updated(day, equity) ==
    LET d == DayOf(day, equity) IN [d EXCEPT !.halted = @ \/ Loses(d, equity)]

Worth == account.quote + account.base * cycle.price
Complete == fills = 1..Len(trades) /\ accounted = fills /\ ~anomaly

\* equity and update_daily, with the balance read before and the position as
\* it is now.
UpdateDaily ==
    /\ cycle.pc = "balances"
    /\ risk' = Updated(risk, cycle.quote + position.qty * cycle.price)
    /\ truth' = LET d == DayOf(truth, Worth) IN [d EXCEPT !.halted = @ \/ Loses(d, Worth)]
    /\ behind' = \/ behind /\ truth.date = today
                 \/ ~Complete \/ cycle.quote # account.quote
    /\ cycle' = [cycle EXCEPT !.pc = "decide"]
    /\ UNCHANGED <<paper, trades, ledger, rebuild, account, today>>

\* size_entry: no more than the equity and the quote balance buy, at the price
\* of the cycle; a market order may execute at another one.
Enter ==
    /\ cycle.pc = "decide"
    /\ position.qty = 0 /\ ~risk.halted
    /\ \E t \in [side: {"BUY"}, qty: Quantities, price: Prices, fee: FeeIn] :
          /\ t.qty * cycle.price <= cycle.quote
          /\ paper => t.price = cycle.price
          /\ Execute(t)
    /\ cycle' = IdleCycle
    /\ UNCHANGED <<paper, ledger, rebuild, today, risk, history>>

\* What the position says is sold.
Exit ==
    /\ cycle.pc = "decide"
    /\ position.qty > 0
    /\ \E t \in [side: {"SELL"}, qty: 1..position.qty, price: Prices, fee: FeeIn] :
          /\ paper => t.qty = position.qty /\ t.price = cycle.price
          /\ Execute(t)
    /\ cycle' = IdleCycle
    /\ UNCHANGED <<paper, ledger, rebuild, today, risk, history>>

\* Nothing to do, an order refused, or a crash.
CycleEnds ==
    /\ cycle.pc # "idle"
    /\ cycle' = IdleCycle
    /\ UNCHANGED <<paper, trades, ledger, rebuild, account, today, risk, history>>

\* Midnight, between two cycles or in the middle of one.
NewDay ==
    /\ today < MaxDays
    /\ today' = today + 1
    /\ UNCHANGED <<paper, trades, ledger, rebuild, account, cycle, risk, history>>

-----------------------------------------------------------------------------
Next ==
    \/ StopExecutes
    \/ \E k \in 1..Len(trades) : Ingest(k)
    \/ RebuildRead \/ RebuildSave
    \/ \E price \in Prices : MarkPosition(price)
    \/ ReadBalances \/ UpdateDaily \/ Enter \/ Exit \/ CycleEnds \/ NewDay

Spec == Init /\ [][Next]_vars

-----------------------------------------------------------------------------
(* Properties                                                                *)

\* Two books agree: the cash that paper_cash derives from the fills, and what
\* the position says was realized and is invested.  So equity is the start
\* plus realized plus unrealized P&L, whatever the order fills were ingested
\* in, after clamped sales and rebuilds, unless a BUY brought nothing in.
Misbought(ts, S) == \E k \in S : ts[k].side = "BUY" /\ BaseMoved(ts[k]) <= 0
CashIdentity ==
    accounted = fills /\ ~Misbought(trades, fills) =>
        /\ PaperCash = StartingBalance + position.realized - position.cost
        /\ position.mark # 0 =>
              PaperCash + position.qty * position.mark
                  = StartingBalance + position.realized + position.unrealized

\* The position holds what its fills delivered, or an anomaly was raised: a
\* sale ingested before its purchase is never lost in silence
\* (SELL_EXCEEDS_TRACKED_POSITION).
NetQuantity == anomaly \/ position.qty = Total(Bases(trades, accounted))

\* Entries are halted for the day exactly when the account lost the limit at
\* some cycle of it, over restarts and midnight, as long as no cycle of the
\* day computed equity from a balance and a position of different moments
\* (trading_cycle.py: balances are read before orders in flight are synced).
HaltedExactlyOnLoss == risk.date = today /\ ~behind => risk.halted = truth.halted

\* What makes them inductive.  The books of a position p, with or without an
\* anomaly, made from the executions of S: nothing is invested in nothing, the
\* unrealized P&L is that of the mark, the quote moved is what was realized
\* less what is invested, and the base moved is what is held.
Books(ts, S, p, raised) ==
    /\ p.qty = 0 => p.cost = 0
    /\ p.mark # 0 => p.unrealized = IF p.qty > 0 THEN p.mark * p.qty - p.cost ELSE 0
    /\ ~Misbought(ts, S) => Total(Quotes(ts, S)) = p.realized - p.cost
    /\ raised \/ p.qty = Total(Bases(ts, S))

\* An execution trades something.
PositiveTrades == \A k \in 1..Len(trades) : trades[k].qty > 0

\* The position row, and a rebuild under way from what it has read, have books
\* of their own.
OwnBooks == Books(trades, accounted, position, anomaly)
RebuildBooks ==
    /\ rebuild.from \subseteq fills
    /\ rebuild.on => Books(trades, rebuild.from, rebuild.res.p, rebuild.res.anomaly)

\* What the account holds is what all executions brought.
Holdings == account.base = Total(Bases(trades, 1..Len(trades)))

\* As long as no update of the day was behind, the day is the one the account
\* has seen.
DayKnown ==
    /\ risk.date = truth.date /\ risk.date <= today
    /\ risk.date = today /\ ~behind => risk = truth

IInv == TypeOK /\ PositiveTrades /\ OwnBooks /\ RebuildBooks /\ Holdings /\ DayKnown
=============================================================================
