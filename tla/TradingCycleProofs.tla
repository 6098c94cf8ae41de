------------------------- MODULE TradingCycleProofs -------------------------
(***************************************************************************)
(* Proofs about TradingCycle, for every entry size, number of attempts,    *)
(* candles, orders, moves of the switches, faults and rebuilds: its type   *)
(* invariant, that two orders the ledger has under way never sell at once, *)
(* that only an attempt that executed nothing is followed by another, and  *)
(* that a move of a switch is overtaken by one order at most.              *)
(*                                                                         *)
(* The argument: a terminal row says all there is to say of its order,     *)
(* unless it was written off (RowsOK), so an order that is live on the     *)
(* exchange is one the ledger still has under way (NonTerminal) or one it  *)
(* wrote off (Revived).  The orders under way only get fewer, but for the  *)
(* insertion of an order, and the worker inserts a sale only where it has  *)
(* seen none (InFlightOK).  Attempts of a purpose are consecutive, each    *)
(* after a terminal row without executions (IntentsOK).  An order sent     *)
(* against the switches ends the cycle that read the old ones, and later   *)
(* cycles know the switches as they are (SwitchesOK).                      *)
(*                                                                         *)
(* Each action is first reduced to what it does to the tables (Changed,    *)
(* Ingested, NextAttempt); what these keep is proved once.                 *)
(***************************************************************************)
EXTENDS TradingCycle, NumberLemmas, FiniteSetTheorems, SequenceTheorems

\* Attempts of a purpose are made one after the other, each after one that ended
\* without a fill; an entry belongs to a candle that was evaluated and asks for
\* EntryQty.
IntentsOK == \A i \in Intents :
    /\ i.purpose = "ENTRY" => i.base \in 1..candle /\ orders[i].req = EntryQty
    /\ \A n \in 0..i.attempt - 1 :
          LET j == Attempt(i.purpose, i.base, n) IN j \in Intents /\ Retryable(j)

\* What the exchange makes of an order for req units.
OrderOK(req, e) ==
    /\ e.status \in {"ABSENT", "SENT", "OPEN", "FILLED", "EXPIRED", "CANCELED"}
    /\ e.exec <= req
    /\ e.status = "OPEN" => e.exec < req
    /\ e.status \in {"ABSENT", "SENT"} => e.exec = 0

\* What a row knows of its order on the exchange: a terminal row, all of it.  A
\* row that was written off knows nothing of an order that arrives later.
RowOK(row, e) ==
    /\ OrderOK(row.req, e)
    /\ row.status \in {"SUBMITTING", "REJECTED"} => row.exec = 0
    /\ row.status = "OPEN" => e.status \notin {"ABSENT", "SENT"}
    /\ row.status \in Terminal \ {"REJECTED"} => e.status = row.status /\ e.exec = row.exec

\* Every row is one the exchange bears out.
RowsOK == \A i \in Intents : RowOK(orders[i], exch[i])

\* An open position has an identity.
PosOK(p) == p \in Position /\ (p.qty > 0 => p.opened # 0)
\* The positions row, the position that is really held, what a rebuild is about
\* to save; and what they are made of.
PositionsOK ==
    /\ PosOK(position) /\ PosOK(held)
    /\ rebuild \in Rebuild /\ PosOK(rebuild.p)
    /\ tape \in Seq(Intents \X Nat)

\* The program points of an exit.
Exiting == {"cancel", "recheck", "recheckFills", "exit"}
\* The program points at which the worker has an order in hand.
HasOrder == {"post", "resolve", "fills", "arm", "syncFills", "recheck", "recheckFills"}

\* What the worker knows at each program point.
CycleOK ==
    /\ cycle.pc \in HasOrder => cycle.i \in Intents
    /\ cycle.pc = "post" =>
          orders[cycle.i].status = "SUBMITTING" /\ exch[cycle.i].status = "ABSENT"
    /\ cycle.pc \in Exiting => cycle.purpose \in {"EXIT", "STOP_EXIT"}
    /\ cycle.pc \notin {"idle", "gate"} => candle > 0
    /\ cycle.p.qty > 0 => cycle.p.opened # 0

\* Which orders the ledger has under way at each program point: where the worker
\* decides to enter, exit or protect it has seen none.
InFlightOK ==
    /\ cycle.pc \in Exiting \cup {"setStop", "entry", "protect"} => InFlight = {}
    /\ cycle.pc = "exit" => RestingStops = {}
    /\ cycle.pc \in {"post", "resolve", "fills", "arm"} => InFlight \subseteq {cycle.i}

\* The sales the ledger has under way.
Selling == {i \in NonTerminal : IsSell(i)}
\* There is at most one of them.
OneSelling == \A i, j \in Selling : i = j

\* Once an order was sent against the switches, the worker knows them as they
\* are.
SwitchesOK ==
    /\ overdue <= 1
    /\ overdue > 0 /\ cycle.pc \in {"gate", "sync", "syncFills", "decide", "setStop", "entry"}
          => cycle.enabled = enabled /\ cycle.stopped = emergency_stop
    /\ overdue > 0 /\ cycle.pc \in Exiting /\ cycle.purpose = "EXIT" => ~emergency_stop

\* The inductive invariant.
IInv == /\ TypeOK /\ IntentsOK /\ RowsOK /\ PositionsOK /\ CycleOK /\ InFlightOK
        /\ OneSelling /\ SwitchesOK

-----------------------------------------------------------------------------
(* What a step does to the tables                                           *)

\* What is assumed of the constants.
LEMMA ConstantsOK ==
  /\ EntryQty \in Nat /\ EntryQty > 0 /\ ExitAttempts \in Nat /\ ExitAttempts > 0
  /\ StopAttempts \in Nat /\ StopAttempts > 0
  /\ MaxCandles \in Nat /\ MaxFaults \in Nat /\ MaxMoves \in Nat /\ MaxRebuilds \in Nat
  /\ Foreign \in Nat
BY TradingAssumption

\* The ledger and the exchange, without the positions row.
Tables ==
    /\ Intents \subseteq UsedIntent
    /\ orders \in [Intents -> Row] /\ exch \in [Intents -> ExchOrder]
    /\ recorded \in [Intents -> SUBSET Nat]
    /\ \A i \in Intents : recorded[i] \subseteq 1..exch[i].exec

\* One order's row and state change.
Changed(i, row, e) ==
    /\ orders' = [orders EXCEPT ![i] = row] /\ exch' = [exch EXCEPT ![i] = e]
    /\ recorded' = recorded

\* One order changes, its terminal row not at all, and its executions only grow:
\* what that keeps.
LEMMA TableStep ==
  ASSUME IInv, NEW i \in Intents, NEW row \in Row, NEW e \in ExchOrder, Changed(i, row, e),
         RowOK(row, e), row.req = orders[i].req, exch[i].exec <= e.exec,
         orders[i].status \in Terminal => row = orders[i],
         candle' \in {candle, candle + 1}
  PROVE  /\ Intents' = Intents /\ Tables' /\ IntentsOK' /\ RowsOK'
         /\ \A j \in Intents : j # i => orders'[j] = orders[j] /\ exch'[j] = exch[j]
         /\ orders'[i] = row /\ exch'[i] = e
         /\ NonTerminal' \subseteq NonTerminal /\ InFlight' \subseteq InFlight
         /\ RestingStops' \subseteq RestingStops /\ Selling' \subseteq Selling
<1>1. /\ orders \in [Intents -> Row] /\ exch \in [Intents -> ExchOrder]
      /\ recorded \in [Intents -> SUBSET Nat] /\ Intents \subseteq UsedIntent
      /\ \A j \in Intents : recorded[j] \subseteq 1..exch[j].exec
      /\ IntentsOK /\ RowsOK /\ candle \in Nat
  BY DEF IInv, TypeOK
<1>2. /\ Intents' = Intents /\ orders' \in [Intents -> Row] /\ exch' \in [Intents -> ExchOrder]
      /\ \A j \in Intents : j # i => orders'[j] = orders[j] /\ exch'[j] = exch[j]
      /\ orders'[i] = row /\ exch'[i] = e
  <2>1. /\ orders' \in [Intents -> Row] /\ orders'[i] = row
        /\ \A j \in Intents : j # i => orders'[j] = orders[j]
    BY <1>1 DEF Changed
  <2>2. /\ exch' \in [Intents -> ExchOrder] /\ exch'[i] = e
        /\ \A j \in Intents : j # i => exch'[j] = exch[j]
    BY <1>1 DEF Changed
  <2>3. Intents' = Intents
    BY <2>1 DEF Intents
  <2> QED
    BY <2>1, <2>2, <2>3
<1>3. recorded[i] \subseteq 1..e.exec
  <2>1. exch[i].exec \in Nat /\ e.exec \in Nat
    BY <1>1 DEF ExchOrder
  <2>2. \A k \in 1..exch[i].exec : k \in 1..e.exec
    BY <2>1
  <2> QED
    BY <1>1, <2>2
<1>4. Tables'
  BY <1>1, <1>2, <1>3 DEF Tables, Changed
<1>5. RowsOK'
  BY <1>1, <1>2 DEF RowsOK
<1>6. \A j \in Intents : orders[j].status \in Terminal => orders'[j] = orders[j]
  BY <1>2
<1>7. \A j \in Intents : orders'[j].req = orders[j].req
  BY <1>2
<1>8. IntentsOK'
  <2>1. \A j \in Intents : Retryable(j) => Retryable(j)'
    BY <1>6 DEF Retryable, Terminal
  <2>2. \A b : b \in 1..candle => b \in 1..candle'
    BY <1>1
  <2> QED
    BY <1>1, <1>2, <1>7, <2>1, <2>2 DEF IntentsOK
<1>9. NonTerminal' \subseteq NonTerminal
  BY <1>2, <1>6 DEF NonTerminal
<1> QED
  BY <1>2, <1>4, <1>5, <1>8, <1>9 DEF InFlight, RestingStops, Selling

\* The row after a report is applied.
Reported(i, e) ==
    IF orders[i].status \in Terminal THEN orders[i]
    ELSE [orders[i] EXCEPT !.status = e.status, !.exec = e.exec]

\* Applying a report gives a row the exchange bears out.
LEMMA ReportedOK ==
  ASSUME IInv, NEW i \in Intents, NEW e \in ExchOrder, e.status \notin {"ABSENT", "SENT"},
         OrderOK(orders[i].req, e), orders[i].status \in Terminal => RowOK(orders[i], e)
  PROVE  /\ Reported(i, e) \in Row /\ RowOK(Reported(i, e), e)
         /\ Reported(i, e).req = orders[i].req
         /\ orders[i].status \in Terminal => Reported(i, e) = orders[i]
         /\ ApplyReport(i, e) => orders' = [orders EXCEPT ![i] = Reported(i, e)]
<1>0. orders \in [Intents -> Row] /\ orders[i] \in Row
  BY DEF IInv, TypeOK
<1>1. CASE orders[i].status \in Terminal
  BY <1>0, <1>1 DEF Reported, ApplyReport
<1>2. CASE orders[i].status \notin Terminal
  <2> DEFINE row == [orders[i] EXCEPT !.status = e.status, !.exec = e.exec]
  <2>1. e.status \in Status /\ e.exec \in Nat
    BY DEF ExchOrder
  <2>2. /\ row \in Row /\ row.status = e.status /\ row.exec = e.exec /\ row.req = orders[i].req
    BY <1>0, <2>1 DEF Row
  <2>3. ApplyReport(i, e) => orders' = [orders EXCEPT ![i] = row]
    BY <1>0, <1>2 DEF ApplyReport
  <2>4. Reported(i, e) = row
    BY <1>2 DEF Reported
  <2> HIDE DEF row
  <2>5. RowOK(row, e)
    BY <2>2 DEF RowOK, OrderOK, Terminal
  <2> QED
    BY <1>2, <2>2, <2>3, <2>4, <2>5
<1> QED
  BY <1>1, <1>2

\* Some executions of an order are recorded.
Ingested(i, S) ==
    /\ orders' = orders /\ exch' = exch /\ Ingest(i, S)

\* The execution that opens a position identifies it.
LEMMA EpisodeOK ==
  ASSUME IInv, NEW i \in Intents, ~IsSell(i), NEW k \in 1..orders[i].req
  PROVE  OpenedBy(i, k) \in Episode \ {0}
<1>1. /\ i \in UsedIntent /\ orders \in [Intents -> Row]
      /\ IntentsOK /\ candle \in 0..MaxCandles
  BY DEF IInv, TypeOK
<1>2. i.purpose = "ENTRY"
  BY <1>1 DEF UsedIntent, Intent, Purpose, IsSell
<1>3. i.base \in 1..candle /\ orders[i].req = EntryQty
  BY <1>1, <1>2 DEF IntentsOK
<1>5. k \in 1..EntryQty /\ i.base \in 1..MaxCandles
  BY <1>1, <1>3, ConstantsOK
<1>6. \A b \in 1..MaxCandles : (b - 1) * EntryQty \in Nat
                               /\ (b - 1) * EntryQty + EntryQty <= MaxCandles * EntryQty
                               /\ MaxCandles * EntryQty \in Nat
  BY ConstantsOK
<1>7. PICK m \in Nat, t \in Nat : /\ m = (i.base - 1) * EntryQty /\ t = MaxCandles * EntryQty
                                  /\ m + EntryQty <= t
  BY <1>5, <1>6
<1>8. m + k \in 1..t
  BY <1>5, <1>7, ConstantsOK
<1> QED
  BY <1>7, <1>8 DEF OpenedBy, Episode

\* 0 stands for no episode.
LEMMA ZeroEpisode == 0 \in Episode
<1>1. \A a, b \in Nat : a * b \in Nat
  OBVIOUS
<1>2. MaxCandles * EntryQty \in Nat
  BY <1>1, ConstantsOK
<1>3. PICK m \in Nat : m = MaxCandles * EntryQty
  BY <1>2
<1> QED
  BY <1>3 DEF Episode

\* Executions of an order are accounted for.
LEMMA AccountedOK ==
  ASSUME NEW p, PosOK(p), NEW i, NEW n \in Nat, NEW k,
         n > 0 /\ ~IsSell(i) => OpenedBy(i, k) \in Episode \ {0}
  PROVE  PosOK(Accounted(p, i, n, k))
<1>0. p \in Position /\ p.qty \in Nat /\ p.opened \in Episode /\ p.stop \in Episode
      /\ (p.qty > 0 => p.opened # 0)
  BY DEF PosOK, Position
<1>1. CASE n = 0
  BY <1>1 DEF Accounted
<1>2. CASE n # 0 /\ ~IsSell(i)
  <2> DEFINE opened == IF p.qty = 0 THEN OpenedBy(i, k) ELSE p.opened
             qty == p.qty + n
  <2>1. opened \in Episode \ {0} /\ qty \in Nat
    BY <1>0, <1>2
  <2>2. Accounted(p, i, n, k) = [p EXCEPT !.qty = qty, !.opened = opened]
    BY <1>2 DEF Accounted
  <2> HIDE DEF opened, qty
  <2> QED
    BY <1>0, <2>1, <2>2 DEF PosOK, Position
<1>3. CASE n # 0 /\ IsSell(i) /\ n >= p.qty
  <2>1. Accounted(p, i, n, k) = NoPosition
    BY <1>3 DEF Accounted
  <2> QED
    BY <2>1, ZeroEpisode DEF PosOK, Position, NoPosition
<1>4. CASE n # 0 /\ IsSell(i) /\ ~(n >= p.qty)
  <2> DEFINE qty == p.qty - n
  <2>1. qty \in Nat /\ p.qty > 0
    BY <1>0, <1>4
  <2>2. Accounted(p, i, n, k) = [p EXCEPT !.qty = qty]
    BY <1>4 DEF Accounted
  <2> HIDE DEF qty
  <2> QED
    BY <1>0, <2>1, <2>2 DEF PosOK, Position
<1> QED
  BY <1>1, <1>2, <1>3, <1>4

\* The executions that are missing: finitely many, and the first of them.
LEMMA MissingOK ==
  ASSUME NEW n \in Nat, NEW S \in SUBSET (1..n)
  PROVE  /\ Cardinality(S) \in Nat
         /\ Cardinality(S) > 0 => First(S) \in 1..n /\ First(S) \in S
<1>1. IsFiniteSet(1..n)
  BY FS_Interval
<1>2. IsFiniteSet(S)
  BY <1>1, FS_Subset
<1>3. Cardinality(S) \in Nat
  BY <1>2, FS_CardinalityType
<1>4. ASSUME Cardinality(S) > 0 PROVE First(S) \in S
  <2>1. S # {}
    BY <1>4, FS_EmptySet
  <2>2. \E m \in S : \A k \in S : m <= k
    <3>1. S \in SUBSET Nat
      OBVIOUS
    <3> QED
      BY <2>1, <3>1, Least
  <2> QED
    BY <2>2 DEF First
<1>5. First(S) \in S => First(S) \in 1..n
  <2> HIDE DEF First
  <2> QED
    OBVIOUS
<1> QED
  BY <1>3, <1>4, <1>5

\* Recording executions keeps the tables, and the position has an identity.
LEMMA IngestStep ==
  ASSUME IInv, NEW i \in Intents, NEW S \in SUBSET (1..exch[i].exec), Ingested(i, S),
         candle' \in {candle, candle + 1}
  PROVE  /\ Intents' = Intents /\ Tables' /\ IntentsOK' /\ RowsOK'
         /\ NonTerminal' = NonTerminal /\ InFlight' = InFlight /\ RestingStops' = RestingStops
         /\ Selling' = Selling
         /\ PosOK(position')
<1>1. /\ orders \in [Intents -> Row] /\ exch \in [Intents -> ExchOrder]
      /\ recorded \in [Intents -> SUBSET Nat] /\ Intents \subseteq UsedIntent
      /\ \A j \in Intents : recorded[j] \subseteq 1..exch[j].exec
      /\ IntentsOK /\ RowsOK /\ candle \in Nat /\ PosOK(position)
  BY DEF IInv, TypeOK, PositionsOK
<1>2. /\ recorded' \in [Intents -> SUBSET Nat]
      /\ \A j \in Intents : recorded'[j] \subseteq 1..exch[j].exec
  <2>1. recorded' = [recorded EXCEPT ![i] = @ \cup S]
    BY DEF Ingested, Ingest
  <2>2. recorded[i] \cup S \in SUBSET Nat /\ recorded[i] \cup S \subseteq 1..exch[i].exec
    <3>1. recorded[i] \subseteq 1..exch[i].exec
      BY <1>1
    <3>2. exch[i].exec \in Nat
      BY <1>1 DEF ExchOrder
    <3>3. \A n \in Nat : 1..n \subseteq Nat
      OBVIOUS
    <3>4. 1..exch[i].exec \subseteq Nat
      BY <3>2, <3>3
    <3> QED
      BY <3>1, <3>4
  <2>3. PICK R : R = recorded[i] \cup S
    OBVIOUS
  <2>4. recorded' = [recorded EXCEPT ![i] = R]
    BY <2>1, <2>3
  <2>5. recorded' \in [Intents -> SUBSET Nat]
    BY <1>1, <2>2, <2>3, <2>4
  <2>6. \A j \in Intents : recorded'[j] = IF j = i THEN R ELSE recorded[j]
    BY <1>1, <2>4
  <2> QED
    BY <1>1, <2>2, <2>3, <2>5, <2>6
<1>3. orders' = orders /\ exch' = exch /\ Intents' = Intents
  BY DEF Ingested, Intents
<1>4. Tables'
  BY <1>1, <1>2, <1>3 DEF Tables
<1>5. RowsOK'
  BY <1>1, <1>3 DEF RowsOK
<1>6. IntentsOK'
  <2>1. \A j \in Intents : Retryable(j) => Retryable(j)'
    BY <1>3 DEF Retryable
  <2>2. \A b : b \in 1..candle => b \in 1..candle'
    BY <1>1
  <2> QED
    BY <1>1, <1>3, <2>1, <2>2 DEF IntentsOK
<1>7. NonTerminal' = NonTerminal
  BY <1>3 DEF NonTerminal
<1>8. PosOK(position')
  <2> DEFINE missing == S \ recorded[i]
  <2>1. position' = Accounted(position, i, Cardinality(missing), First(missing))
    BY DEF Ingested, Ingest
  <2>2. exch[i].exec \in Nat /\ orders[i].req \in Nat /\ exch[i].exec <= orders[i].req
    BY <1>1 DEF ExchOrder, Row, RowsOK, RowOK, OrderOK
  <2>3. missing \in SUBSET (1..exch[i].exec)
    OBVIOUS
  <2> HIDE DEF missing
  <2>4. /\ Cardinality(missing) \in Nat
        /\ Cardinality(missing) > 0 => First(missing) \in 1..exch[i].exec
    BY <2>2, <2>3, MissingOK
  <2>5. Cardinality(missing) > 0 /\ ~IsSell(i) => OpenedBy(i, First(missing)) \in Episode \ {0}
    <3>1. Cardinality(missing) > 0 => First(missing) \in 1..orders[i].req
      BY <2>2, <2>4
    <3> QED
      BY <3>1, EpisodeOK
  <2> QED
    BY <1>1, <2>1, <2>4, <2>5, AccountedOK
<1> QED
  BY <1>2, <1>3, <1>4, <1>5, <1>6, <1>7, <1>8 DEF InFlight, RestingStops, Selling

\* The first attempt that is not used up, after those that were.
NextAttempt(i, purpose, base) ==
    /\ i \in UsedIntent /\ i \notin Intents /\ i.purpose = purpose /\ i.base = base
    /\ \A n \in 0..i.attempt - 1 :
          LET j == Attempt(purpose, base, n) IN j \in Intents /\ Retryable(j)

\* There is an attempt for every purpose, and there are not more than the type of an
\* intent allows.
LEMMA AttemptsOK ==
  ASSUME NEW purpose
  PROVE  /\ MaxAttempts(purpose) \in Nat
         /\ MaxAttempts(purpose) <= ExitAttempts + StopAttempts
<1>1. CASE purpose = "ENTRY"
  BY <1>1, ConstantsOK DEF MaxAttempts
<1>2. CASE purpose = "PROTECTIVE_STOP"
  BY <1>2, ConstantsOK DEF MaxAttempts
<1>3. CASE purpose \notin {"ENTRY", "PROTECTIVE_STOP"}
  BY <1>3, ConstantsOK DEF MaxAttempts
<1> QED
  BY <1>1, <1>2, <1>3

\* Submitting ends the cycle, perhaps with an alert, or inserts the next
\* attempt.
LEMMA SubmitIs ==
  ASSUME IInv, NEW purpose \in Purpose, NEW base \in Episode \ {0}, NEW qty,
         Submit(purpose, base, qty)
  PROVE  \/ /\ Return /\ UNCHANGED <<orders, exch, recorded, history>>
            /\ alerts' \in {alerts, alerts \cup {<<purpose, base>>}}
         \/ /\ UNCHANGED alerts
            /\ \E i : NextAttempt(i, purpose, base) /\ Insert(i, qty)
<1> DEFINE open == OpenAttempts(purpose, base)
<1>1. CASE open = {}
  BY <1>1 DEF Submit, Alert
<1>2. CASE open # {}
  <2> DEFINE n == First(open)
             i == Attempt(purpose, base, n)
  <2>1. MaxAttempts(purpose) \in Nat /\ MaxAttempts(purpose) <= ExitAttempts + StopAttempts
    BY ConstantsOK, AttemptsOK
  <2>2. open \in SUBSET Nat /\ open \subseteq 0..MaxAttempts(purpose) - 1
    BY <2>1 DEF OpenAttempts
  <2>3. n \in open /\ \A m \in open : n <= m
    <3> HIDE DEF open
    <3>1. \E m \in open : \A k \in open : m <= k
      BY <1>2, <2>2, Least
    <3> QED
      BY <3>1 DEF First
  <2>4. n \in 0..MaxAttempts(purpose) - 1 /\ n \in 0..ExitAttempts + StopAttempts
        /\ n < MaxAttempts(purpose)
    <3> HIDE DEF n, open
    <3>1. n \in 0..MaxAttempts(purpose) - 1
      BY <2>2, <2>3
    <3> QED
      BY <2>1, <3>1, ConstantsOK
  <2>5. i \in UsedIntent /\ i.purpose = purpose /\ i.base = base /\ i.attempt = n
    <3> HIDE DEF n
    <3>1. i = [purpose |-> purpose, base |-> base, attempt |-> n]
      BY DEF Attempt
    <3> HIDE DEF i
    <3> QED
      BY <2>4, <3>1 DEF UsedIntent, Intent
  <2>6. ASSUME NEW m \in 0..n - 1
        PROVE  Attempt(purpose, base, m) \in Intents /\ Retryable(Attempt(purpose, base, m))
    <3>1. m \in 0..MaxAttempts(purpose) - 1 /\ ~(n <= m)
      <4> HIDE DEF n
      <4> QED
        BY <2>1, <2>4
    <3>2. m \notin open
      <4> HIDE DEF n, open
      <4> QED
        BY <2>3, <3>1
    <3> QED
      BY <3>1, <3>2 DEF OpenAttempts
  <2>7. \/ Return /\ UNCHANGED <<orders, exch, recorded, history>>
        \/ i \notin Intents /\ Insert(i, qty)
    BY <1>2 DEF Submit
  <2>8. UNCHANGED alerts
    BY <1>2 DEF Submit
  <2>9. i \notin Intents => NextAttempt(i, purpose, base)
    <3> HIDE DEF i, n
    <3> QED
      BY <2>5, <2>6 DEF NextAttempt
  <2> HIDE DEF i, n
  <2> QED
    BY <2>7, <2>8, <2>9
<1> QED
  BY <1>1, <1>2

\* Inserting the next attempt keeps the tables.
LEMMA InsertStep ==
  ASSUME IInv, NEW i, NEW purpose, NEW base, NEW qty \in Nat \ {0},
         NextAttempt(i, purpose, base), Insert(i, qty),
         purpose = "ENTRY" => base \in 1..candle /\ qty = EntryQty, candle' = candle
  PROVE  /\ Intents' = Intents \cup {i} /\ i \notin Intents /\ Tables' /\ IntentsOK' /\ RowsOK'
         /\ i.purpose = purpose
         /\ \A j \in Intents : /\ orders'[j] = orders[j] /\ exch'[j] = exch[j]
                               /\ recorded'[j] = recorded[j]
         /\ orders'[i] = [status |-> "SUBMITTING", exec |-> 0, req |-> qty]
         /\ exch'[i] = Absent /\ recorded'[i] = {}
         /\ NonTerminal' = NonTerminal \cup {i}
<1>1. /\ orders \in [Intents -> Row] /\ exch \in [Intents -> ExchOrder]
      /\ recorded \in [Intents -> SUBSET Nat] /\ Intents \subseteq UsedIntent
      /\ \A j \in Intents : recorded[j] \subseteq 1..exch[j].exec
      /\ IntentsOK /\ RowsOK
  BY DEF IInv, TypeOK
<1> DEFINE row == [status |-> "SUBMITTING", exec |-> 0, req |-> qty]
<1>2. row \in Row /\ row.status = "SUBMITTING" /\ row.exec = 0 /\ row.req = qty
  BY DEF Row, Status
<1>3. Absent \in ExchOrder /\ Absent.status = "ABSENT" /\ Absent.exec = 0
  BY DEF Absent, ExchOrder
<1>4. i \in UsedIntent /\ i \notin Intents /\ i.purpose = purpose /\ i.base = base
  BY DEF NextAttempt
<1>5. DOMAIN orders = Intents /\ DOMAIN exch = Intents /\ DOMAIN recorded = Intents
  BY <1>1
<1>6. /\ orders' = [j \in Intents \cup {i} |-> IF j = i THEN row ELSE orders[j]]
      /\ exch' = [j \in Intents \cup {i} |-> IF j = i THEN Absent ELSE exch[j]]
      /\ recorded' = [j \in Intents \cup {i} |-> IF j = i THEN {} ELSE recorded[j]]
  BY <1>5 DEF Insert, With
<1> HIDE DEF row
<1>7. /\ orders' \in [Intents \cup {i} -> Row] /\ orders'[i] = row
      /\ \A j \in Intents : orders'[j] = orders[j]
  BY <1>1, <1>2, <1>4, <1>6
<1>8. /\ exch' \in [Intents \cup {i} -> ExchOrder] /\ exch'[i] = Absent
      /\ \A j \in Intents : exch'[j] = exch[j]
  BY <1>1, <1>3, <1>4, <1>6
<1>9. /\ recorded' \in [Intents \cup {i} -> SUBSET Nat] /\ recorded'[i] = {}
      /\ \A j \in Intents : recorded'[j] = recorded[j]
  BY <1>1, <1>4, <1>6
<1>10. Intents' = Intents \cup {i}
  BY <1>7 DEF Intents
<1>11. Tables'
  <2>1. \A j \in Intents \cup {i} : recorded'[j] \subseteq 1..exch'[j].exec
    BY <1>1, <1>3, <1>8, <1>9
  <2> QED
    BY <1>1, <1>4, <1>7, <1>8, <1>9, <1>10, <2>1 DEF Tables
<1>12. RowsOK'
  <2>1. RowOK(row, Absent)
    BY <1>2, <1>3 DEF RowOK, OrderOK, Terminal
  <2> QED
    BY <1>1, <1>7, <1>8, <1>10, <2>1 DEF RowsOK
<1>13. IntentsOK'
  <2>1. \A j \in Intents : Retryable(j) => Retryable(j)'
    BY <1>7 DEF Retryable
  <2>2. i.purpose = "ENTRY" => i.base \in 1..candle' /\ orders'[i].req = EntryQty
    BY <1>2, <1>4, <1>7
  <2>3. \A n \in 0..i.attempt - 1 :
          LET j == Attempt(i.purpose, i.base, n) IN j \in Intents' /\ Retryable(j)'
    BY <1>4, <1>10, <2>1 DEF NextAttempt
  <2>4. \A k \in Intents :
          /\ k.purpose = "ENTRY" => k.base \in 1..candle' /\ orders'[k].req = EntryQty
          /\ \A n \in 0..k.attempt - 1 :
                LET j == Attempt(k.purpose, k.base, n) IN j \in Intents' /\ Retryable(j)'
    BY <1>1, <1>7, <1>10, <2>1 DEF IntentsOK
  <2> QED
    BY <1>10, <2>2, <2>3, <2>4 DEF IntentsOK
<1>14. NonTerminal' = NonTerminal \cup {i}
  BY <1>2, <1>7, <1>10 DEF NonTerminal, Terminal
<1> QED
  BY <1>4, <1>7, <1>8, <1>9, <1>10, <1>11, <1>12, <1>13, <1>14 DEF row

\* The tables are in order after the step and nothing new is under way.
Kept ==
    /\ Intents' = Intents /\ Tables' /\ IntentsOK' /\ RowsOK'
    /\ NonTerminal' \subseteq NonTerminal /\ InFlight' \subseteq InFlight
    /\ RestingStops' \subseteq RestingStops /\ Selling' \subseteq Selling

\* What a step leaves alone or in its type besides the tables and the worker.
Around ==
    /\ UNCHANGED <<enabled, emergency_stop, moves, overdue, behind>>
    /\ candle' = candle /\ overtaken' \in BOOLEAN
    /\ alerts' \subseteq Purpose \X Episode /\ faults' \in 0..MaxFaults
    /\ PositionsOK'

\* The conjuncts of the invariant and of the type invariant.
LEMMA Parts ==
  ASSUME IInv
  PROVE  /\ TypeOK /\ IntentsOK /\ RowsOK /\ PositionsOK /\ CycleOK /\ InFlightOK
         /\ OneSelling /\ SwitchesOK
         /\ Tables /\ enabled \in BOOLEAN /\ emergency_stop \in BOOLEAN
         /\ moves \in 0..MaxMoves /\ candle \in 0..MaxCandles
         /\ PosOK(position) /\ PosOK(held) /\ PosOK(rebuild.p) /\ rebuild \in Rebuild
         /\ tape \in Seq(Intents \X Nat)
         /\ cycle \in Cycle /\ cycle.todo \subseteq Intents
         /\ alerts \subseteq Purpose \X Episode /\ faults \in 0..MaxFaults
         /\ overdue \in Nat /\ behind \in BOOLEAN /\ overtaken \in BOOLEAN
BY DEF IInv, TypeOK, Tables, PositionsOK

\* The position changes at most, beside the exchange.
LEMMA PositionStep ==
  ASSUME IInv, Intents' = Intents, UNCHANGED <<tape, held, rebuild>>, PosOK(position')
  PROVE  PositionsOK'
BY Parts DEF PositionsOK, PosOK

\* The types of the variables of the worker.
LEMMA CycleParts ==
  ASSUME IInv
  PROVE  /\ cycle.pc \in Point /\ cycle.enabled \in BOOLEAN /\ cycle.stopped \in BOOLEAN
         /\ cycle.entriesOk \in BOOLEAN /\ cycle.i \in Intent /\ cycle.purpose \in Purpose
         /\ cycle.p \in Position /\ cycle.behind \in BOOLEAN /\ cycle.todo \subseteq Intents
BY Parts DEF Cycle

\* One order changes.
LEMMA KeptTable ==
  ASSUME IInv, NEW i \in Intents, NEW row \in Row, NEW e \in ExchOrder, Changed(i, row, e),
         RowOK(row, e), row.req = orders[i].req, exch[i].exec <= e.exec,
         orders[i].status \in Terminal => row = orders[i],
         candle' = candle
  PROVE  Kept
BY TableStep DEF Kept

\* Executions are recorded.
LEMMA KeptIngest ==
  ASSUME IInv, NEW i \in Intents, NEW S \in SUBSET (1..exch[i].exec), Ingested(i, S),
         candle' = candle
  PROVE  Kept /\ PosOK(position')
BY IngestStep DEF Kept

\* No table changes.
LEMMA KeptQuiet ==
  ASSUME IInv, UNCHANGED <<orders, exch, recorded>>, candle' \in {candle, candle + 1}
  PROVE  Kept
<1>1. Intents' = Intents /\ orders' = orders /\ exch' = exch /\ recorded' = recorded
  BY DEF Intents
<1>2. Tables'
  BY <1>1, Parts DEF Tables
<1>3. IntentsOK'
  <2>1. \A j \in Intents : Retryable(j) => Retryable(j)'
    BY <1>1 DEF Retryable
  <2>2. \A b : b \in 1..candle => b \in 1..candle'
    BY Parts
  <2> QED
    BY <1>1, <2>1, <2>2, Parts DEF IntentsOK
<1>4. RowsOK'
  BY <1>1, Parts DEF RowsOK
<1>6. NonTerminal' = NonTerminal
  BY <1>1 DEF NonTerminal
<1> QED
  BY <1>1, <1>2, <1>3, <1>4, <1>6 DEF Kept, InFlight, RestingStops, Selling

\* The invariant from its parts.
LEMMA Together ==
  ASSUME Tables', IntentsOK', RowsOK', PositionsOK', CycleOK', InFlightOK', OneSelling',
         SwitchesOK',
         enabled' \in BOOLEAN, emergency_stop' \in BOOLEAN, moves' \in 0..MaxMoves,
         candle' \in 0..MaxCandles, cycle' \in Cycle,
         cycle'.todo \subseteq Intents', alerts' \subseteq Purpose \X Episode,
         faults' \in 0..MaxFaults, overdue' \in Nat, behind' \in BOOLEAN,
         overtaken' \in BOOLEAN
  PROVE  IInv'
BY DEF IInv, TypeOK, Tables, PositionsOK, PosOK

\* The invariant after a step of the worker or its environment, from its parts
\* that are about the worker.
LEMMA MoveOK ==
  ASSUME IInv, Kept, Around, cycle' \in Cycle, cycle'.todo \subseteq Intents,
         CycleOK', InFlightOK', SwitchesOK'
  PROVE  IInv'
<1>1. OneSelling'
  BY Parts DEF OneSelling, Kept
<1> QED
  BY <1>1, Parts, Together DEF Kept, Around

\* The worker between two cycles.
LEMMA IdleOK ==
  /\ Idle \in Cycle /\ Idle.pc = "idle" /\ Idle.todo = {} /\ Idle.p.qty = 0
  /\ Idle.p = NoPosition /\ Idle.behind = FALSE
  /\ NoIntent \in Intent /\ NoPosition \in Position /\ NoPosition.qty = 0
  /\ 0 \in Episode
<1>1. 0 \in Episode
  BY ZeroEpisode
<1>2. NoIntent \in Intent
  BY <1>1, ConstantsOK DEF NoIntent, Intent, Purpose
<1>3. NoPosition \in Position
  BY <1>1 DEF NoPosition, Position
<1> QED
  BY <1>1, <1>2, <1>3 DEF Idle, Cycle, Point, Purpose, Exits, NoPosition

\* A step that ends the cycle keeps the invariant.
LEMMA ReturnOK ==
  ASSUME IInv, Kept, Around, Return
  PROVE  IInv'
<1>1. cycle' = Idle
  BY DEF Return
<1>2. cycle' \in Cycle /\ cycle'.todo \subseteq Intents /\ cycle'.pc = "idle" /\ cycle'.p.qty = 0
  BY <1>1, IdleOK
<1>3. CycleOK'
  BY <1>2 DEF CycleOK, HasOrder, Exiting, Around
<1>4. InFlightOK'
  BY <1>2 DEF InFlightOK, Exiting
<1>5. SwitchesOK'
  BY <1>2, Parts DEF SwitchesOK, Exiting, Around
<1> QED
  BY <1>2, <1>3, <1>4, <1>5, MoveOK

\* A step beside the worker keeps the invariant.
LEMMA EnvOK ==
  ASSUME IInv, Kept, Around, UNCHANGED cycle,
         cycle.pc = "post" => orders'[cycle.i] = orders[cycle.i] /\ exch'[cycle.i] = exch[cycle.i]
  PROVE  IInv'
<1>1. cycle' \in Cycle /\ cycle'.todo \subseteq Intents
  BY Parts
<1>3. CycleOK'
  BY Parts DEF CycleOK, Around, Kept
<1>4. InFlightOK'
  BY Parts DEF InFlightOK, Kept
<1>5. SwitchesOK'
  BY Parts DEF SwitchesOK, Around
<1> QED
  BY <1>1, <1>3, <1>4, <1>5, MoveOK

\* The worker goes to another program point with its variables, but for the
\* order in hand.
SameLocals ==
    /\ cycle'.enabled = cycle.enabled /\ cycle'.stopped = cycle.stopped
    /\ cycle'.entriesOk = cycle.entriesOk /\ cycle'.todo = cycle.todo
    /\ cycle'.purpose = cycle.purpose /\ cycle'.p = cycle.p /\ cycle'.behind = cycle.behind

\* Goto changes the program point.
LEMMA GotoIs ==
  ASSUME cycle \in Cycle, NEW pc \in Point, Goto(pc)
  PROVE  cycle' \in Cycle /\ cycle'.pc = pc /\ cycle'.i = cycle.i /\ SameLocals
BY DEF Goto, Cycle, SameLocals

\* The same, with another order in hand.
LEMMA GotoWith ==
  ASSUME cycle \in Cycle, NEW pc \in Point, NEW i \in Intent,
         cycle' = [cycle EXCEPT !.pc = pc, !.i = i]
  PROVE  cycle' \in Cycle /\ cycle'.pc = pc /\ cycle'.i = i /\ SameLocals
BY DEF Cycle, SameLocals

-----------------------------------------------------------------------------
(* The exchange, the reconciliation worker, the operator, a crash           *)

\* The types of a row and of its order, and what relates them.
LEMMA OrderFacts ==
  ASSUME IInv, NEW i \in Intents
  PROVE  /\ orders[i] \in Row /\ exch[i] \in ExchOrder /\ RowOK(orders[i], exch[i])
         /\ OrderOK(orders[i].req, exch[i]) /\ exch[i].exec \in Nat /\ orders[i].req \in Nat
         /\ orders[i].req > 0
         /\ recorded[i] \subseteq 1..exch[i].exec /\ i \in UsedIntent /\ i \in Intent
BY Parts DEF Tables, RowsOK, RowOK, ExchOrder, Row, UsedIntent

\* An order that executed n units and did not end otherwise.
LEMMA WorkingOK ==
  ASSUME IInv, NEW i \in Intents, NEW n \in 0..orders[i].req
  PROVE  /\ Working(i, n) \in ExchOrder /\ Working(i, n).exec = n
         /\ Working(i, n).status = IF n = orders[i].req THEN "FILLED" ELSE "OPEN"
         /\ OrderOK(orders[i].req, Working(i, n))
<1> DEFINE e == Working(i, n)
<1>0. orders[i].req \in Nat /\ n \in Nat
  BY OrderFacts
<1>1. /\ e.exec = n /\ e.status = IF n = orders[i].req THEN "FILLED" ELSE "OPEN"
      /\ e = [status |-> e.status, exec |-> e.exec]
  BY DEF Working
<1> HIDE DEF e
<1>2. e \in ExchOrder
  BY <1>0, <1>1 DEF ExchOrder, Status, Terminal
<1>3. OrderOK(orders[i].req, e)
  BY <1>0, <1>1 DEF OrderOK
<1> QED
  BY <1>1, <1>2, <1>3 DEF e

\* What the units executed add to the tape and to the position that is held.
LEMMA BecomesIs ==
  ASSUME IInv, NEW i \in Intents, NEW e \in ExchOrder, OrderOK(orders[i].req, e),
         exch[i].exec <= e.exec, Becomes(i, e)
  PROVE  /\ exch' = [exch EXCEPT ![i] = e] /\ PosOK(held')
         /\ tape' \in Seq(Intents \X Nat)
<1> DEFINE before == exch[i].exec
           units == e.exec - before
           more == [k \in 1..units |-> <<i, before + k>>]
<1>1. /\ before \in Nat /\ e.exec \in Nat /\ units \in Nat /\ e.exec <= orders[i].req
      /\ orders[i].req \in Nat
  BY OrderFacts DEF ExchOrder, OrderOK
<1>2. /\ exch' = [exch EXCEPT ![i] = e] /\ tape' = tape \o more
      /\ held' = Accounted(held, i, units, before + 1)
  BY DEF Becomes
<1>3. PosOK(held')
  <2>1. units > 0 => before + 1 \in 1..orders[i].req
    BY <1>1
  <2> HIDE DEF units, before
  <2>2. units > 0 /\ ~IsSell(i) => OpenedBy(i, before + 1) \in Episode \ {0}
    BY <2>1, EpisodeOK
  <2> QED
    BY <1>1, <1>2, <2>2, Parts, AccountedOK
<1>4. tape' \in Seq(Intents \X Nat)
  <2>1. \A k \in 1..units : <<i, before + k>> \in Intents \X Nat
    BY <1>1
  <2>2. more \in [1..units -> Intents \X Nat]
    BY <2>1
  <2> HIDE DEF more, units
  <2>3. more \in Seq(Intents \X Nat)
    BY <1>1, <2>2
  <2> QED
    BY <1>2, <2>3, Parts, ConcatProperties
<1> QED
  BY <1>2, <1>3, <1>4

\* The exchange changes, not the ledger's position.
LEMMA MarketStep ==
  ASSUME IInv, Intents' = Intents, UNCHANGED <<position, rebuild>>, PosOK(held'),
         tape' \in Seq(Intents \X Nat)
  PROVE  PositionsOK'
BY Parts DEF PositionsOK, PosOK

\* A step of the exchange keeps the invariant: not of the order that is about to
\* be sent, and one its row bears out.
LEMMA MarketOK ==
  ASSUME IInv, NEW i \in Intents, NEW e \in ExchOrder, Becomes(i, e), RowOK(orders[i], e),
         exch[i].exec <= e.exec, exch[i].status # "ABSENT",
         UNCHANGED <<operator, moves, candle, ledger, rebuild, cycle, alerts, faults, history>>
  PROVE  IInv'
<1>1. exch' = [exch EXCEPT ![i] = e] /\ PosOK(held') /\ tape' \in Seq(Intents \X Nat)
  BY BecomesIs DEF RowOK
<1>2. Changed(i, orders[i], e)
  <2>1. orders' = [orders EXCEPT ![i] = orders[i]]
    BY Parts DEF ledger, Tables
  <2> QED
    BY <1>1, <2>1 DEF Changed, ledger
<1>3. Kept
  BY <1>2, OrderFacts, KeptTable
<1>4. PositionsOK'
  BY <1>1, <1>3, MarketStep DEF Kept, ledger
<1>5. Around
  BY <1>4, Parts DEF Around, operator, history
<1>6. cycle.pc = "post" => cycle.i # i
  BY Parts DEF CycleOK
<1>7. cycle.pc = "post" => orders'[cycle.i] = orders[cycle.i] /\ exch'[cycle.i] = exch[cycle.i]
  <2>1. cycle.pc = "post" => cycle.i \in Intents
    BY Parts DEF CycleOK, HasOrder
  <2> QED
    BY <1>1, <1>6, <2>1, Parts DEF ledger, Tables
<1> QED
  BY <1>3, <1>5, <1>7, EnvOK

\* Arrive keeps the invariant: of a late request the ledger may know nothing.
LEMMA ArriveOK ==
  ASSUME IInv, NEW i \in Intents, Arrive(i)
  PROVE  IInv'
<1>1. /\ exch[i].status = "SENT" /\ Becomes(i, Working(i, 0))
      /\ UNCHANGED <<operator, moves, candle, ledger, rebuild, cycle, alerts, faults, history>>
  BY DEF Arrive
<1>2. 0 \in 0..orders[i].req /\ 0 # orders[i].req
  BY OrderFacts
<1>3. /\ Working(i, 0) \in ExchOrder /\ Working(i, 0).exec = 0 /\ Working(i, 0).status = "OPEN"
      /\ OrderOK(orders[i].req, Working(i, 0))
  BY <1>2, WorkingOK
<1>4. RowOK(orders[i], Working(i, 0)) /\ exch[i].exec <= Working(i, 0).exec
  BY <1>1, <1>3, OrderFacts DEF RowOK, OrderOK, Terminal
<1> QED
  BY <1>1, <1>3, <1>4, MarketOK

\* ExchangeTrade keeps the invariant.
LEMMA TradeOK ==
  ASSUME IInv, NEW i \in Intents, ExchangeTrade(i)
  PROVE  IInv'
<1> DEFINE n == exch[i].exec + 1
<1>1. /\ exch[i].status = "OPEN" /\ Becomes(i, Working(i, n))
      /\ UNCHANGED <<operator, moves, candle, ledger, rebuild, cycle, alerts, faults, history>>
  BY DEF ExchangeTrade
<1>2. n \in 0..orders[i].req /\ exch[i].exec <= n
  BY <1>1, OrderFacts DEF OrderOK
<1> HIDE DEF n
<1>3. /\ Working(i, n) \in ExchOrder /\ Working(i, n).exec = n
      /\ Working(i, n).status \in {"OPEN", "FILLED"} /\ OrderOK(orders[i].req, Working(i, n))
  BY <1>2, WorkingOK
<1>4. RowOK(orders[i], Working(i, n))
  BY <1>1, <1>3, OrderFacts DEF RowOK, Terminal
<1> QED
  BY <1>1, <1>2, <1>3, <1>4, MarketOK

\* An order that ends before it is filled.
LEMMA EndedOK ==
  ASSUME IInv, NEW i \in Intents, exch[i].status = "OPEN", NEW status \in {"EXPIRED", "CANCELED"},
         NEW e, e = [exch[i] EXCEPT !.status = status]
  PROVE  /\ e \in ExchOrder /\ e.exec = exch[i].exec /\ e.status = status
         /\ OrderOK(orders[i].req, e) /\ RowOK(orders[i], e)
<1>1. e \in ExchOrder /\ e.exec = exch[i].exec /\ e.status = status
  BY OrderFacts DEF ExchOrder, Status, Terminal
<1>2. OrderOK(orders[i].req, e)
  BY <1>1, OrderFacts DEF OrderOK
<1> QED
  BY <1>1, <1>2, OrderFacts DEF RowOK, Terminal

\* ExchangeExpire keeps the invariant.
LEMMA ExpireOK ==
  ASSUME IInv, NEW i \in Intents, ExchangeExpire(i)
  PROVE  IInv'
<1> DEFINE e == [exch[i] EXCEPT !.status = "EXPIRED"]
<1>1. /\ exch[i].status = "OPEN" /\ Becomes(i, e)
      /\ UNCHANGED <<operator, moves, candle, ledger, rebuild, cycle, alerts, faults, history>>
  BY DEF ExchangeExpire
<1>2. e \in ExchOrder /\ e.exec = exch[i].exec /\ RowOK(orders[i], e)
  BY <1>1, EndedOK
<1> HIDE DEF e
<1>3. exch[i].exec <= e.exec
  BY <1>2, OrderFacts
<1> QED
  BY <1>1, <1>2, <1>3, MarketOK

\* A report of what the exchange shows is applied.
LEMMA ReportIs ==
  ASSUME IInv, NEW i \in Intents, OnExchange(i), ApplyReport(i, exch[i]), i \notin Revived,
         UNCHANGED <<exch, recorded>>
  PROVE  \E row \in Row :
            /\ Changed(i, row, exch[i]) /\ RowOK(row, exch[i]) /\ row.req = orders[i].req
            /\ row.status = exch[i].status /\ row.exec = exch[i].exec
            /\ orders[i].status \in Terminal => row = orders[i]
<1>1. /\ Reported(i, exch[i]) \in Row /\ RowOK(Reported(i, exch[i]), exch[i])
      /\ Reported(i, exch[i]).req = orders[i].req
      /\ orders[i].status \in Terminal => Reported(i, exch[i]) = orders[i]
      /\ orders' = [orders EXCEPT ![i] = Reported(i, exch[i])]
  BY OrderFacts, ReportedOK DEF OnExchange
<1>2. exch' = [exch EXCEPT ![i] = exch[i]]
  BY Parts DEF Tables
<1>3. Reported(i, exch[i]).status = exch[i].status /\ Reported(i, exch[i]).exec = exch[i].exec
  <2>1. CASE orders[i].status \in Terminal
    BY <1>1, <2>1, OrderFacts DEF RowOK, Revived, Terminal
  <2>2. CASE orders[i].status \notin Terminal
    BY <2>2, OrderFacts DEF Reported, Row
  <2> QED
    BY <2>1, <2>2
<1> QED
  BY <1>1, <1>2, <1>3 DEF Changed

\* The tables after a report of what the exchange shows.
LEMMA KeptReport ==
  ASSUME IInv, NEW i \in Intents, OnExchange(i), ApplyReport(i, exch[i]),
         UNCHANGED <<exch, recorded, candle>>
  PROVE  Kept
<1>1. CASE i \in Revived
  <2>1. orders' = orders
    BY <1>1 DEF Revived, ApplyReport, Terminal
  <2> QED
    BY <2>1, KeptQuiet
<1>2. CASE i \notin Revived
  BY <1>2, ReportIs, OrderFacts, KeptTable
<1> QED
  BY <1>1, <1>2

\* An order that the exchange does not have is written off or refused.
LEMMA RejectIs ==
  ASSUME IInv, NEW i \in Intents, orders[i].status = "SUBMITTING",
         orders' = [orders EXCEPT ![i].status = "REJECTED"], UNCHANGED <<exch, recorded>>
  PROVE  \E row \in Row :
            /\ Changed(i, row, exch[i]) /\ RowOK(row, exch[i]) /\ row.req = orders[i].req
            /\ row.status = "REJECTED"
<1> DEFINE row == [orders[i] EXCEPT !.status = "REJECTED"]
<1>1. orders' = [orders EXCEPT ![i] = row]
  BY Parts DEF Tables
<1>2. row \in Row /\ row.status = "REJECTED" /\ row.exec = orders[i].exec /\ row.req = orders[i].req
  BY OrderFacts DEF Row, Status, Terminal
<1>3. exch' = [exch EXCEPT ![i] = exch[i]]
  BY Parts DEF Tables
<1> HIDE DEF row
<1>4. RowOK(row, exch[i])
  BY <1>2, OrderFacts DEF RowOK, OrderOK, Terminal
<1> QED
  BY <1>1, <1>2, <1>3, <1>4 DEF Changed

\* Observe keeps the invariant.
LEMMA ObserveOK ==
  ASSUME IInv, NEW i \in Intents, Observe(i)
  PROVE  IInv'
<1>1. /\ OnExchange(i) /\ ApplyReport(i, exch[i])
      /\ UNCHANGED <<operator, moves, candle, recorded, position, market, rebuild, cycle,
                     alerts, faults, history>>
  BY DEF Observe
<1>2. Kept
  BY <1>1, KeptReport DEF market
<1>3. PositionsOK'
  BY <1>1, <1>2, Parts, PositionStep DEF Kept, market
<1>4. Around
  BY <1>1, <1>3, Parts DEF Around, operator, history
<1>5. cycle.pc = "post" => cycle.i # i
  BY <1>1, Parts DEF CycleOK, OnExchange
<1>6. cycle.pc = "post" => orders'[cycle.i] = orders[cycle.i] /\ exch'[cycle.i] = exch[cycle.i]
  <2>1. cycle.pc = "post" => cycle.i \in Intents
    BY Parts DEF CycleOK, HasOrder
  <2> QED
    BY <1>1, <1>5, <2>1, Parts DEF ApplyReport, market, Tables
<1> QED
  BY <1>1, <1>2, <1>4, <1>6, EnvOK

\* WriteOff keeps the invariant: not the order the worker is about to send.
LEMMA WriteOffOK ==
  ASSUME IInv, NEW i \in Intents, WriteOff(i)
  PROVE  IInv'
<1>1. /\ orders[i].status = "SUBMITTING" /\ ~(cycle.pc = "post" /\ cycle.i = i)
      /\ orders' = [orders EXCEPT ![i].status = "REJECTED"]
      /\ UNCHANGED <<operator, moves, candle, recorded, position, market, rebuild, cycle,
                     alerts, faults, history>>
  BY DEF WriteOff
<1>2. PICK row \in Row :
            /\ Changed(i, row, exch[i]) /\ RowOK(row, exch[i]) /\ row.req = orders[i].req
            /\ row.status = "REJECTED"
  BY <1>1, RejectIs DEF market
<1>3. Kept
  BY <1>1, <1>2, OrderFacts, KeptTable DEF Terminal
<1>4. PositionsOK'
  BY <1>1, <1>3, Parts, PositionStep DEF Kept, market
<1>5. Around
  BY <1>1, <1>4, Parts DEF Around, operator, history
<1>6. cycle.pc = "post" => orders'[cycle.i] = orders[cycle.i] /\ exch'[cycle.i] = exch[cycle.i]
  <2>1. cycle.pc = "post" => cycle.i \in Intents
    BY Parts DEF CycleOK, HasOrder
  <2> QED
    BY <1>1, <2>1, Parts DEF market, Tables
<1> QED
  BY <1>1, <1>3, <1>5, <1>6, EnvOK

\* IngestOne keeps the invariant.
LEMMA IngestOneOK ==
  ASSUME IInv, NEW i \in Intents, IngestOne(i)
  PROVE  IInv'
<1>1. PICK k \in 1..exch[i].exec \ recorded[i] :
          /\ Ingest(i, {k})
          /\ IF k = First(1..exch[i].exec \ recorded[i]) THEN UNCHANGED faults ELSE Fault
  BY DEF IngestOne
<1>2. UNCHANGED <<operator, moves, candle, orders, market, rebuild, cycle, alerts, history>>
  BY DEF IngestOne
<1>3. Ingested(i, {k}) /\ {k} \in SUBSET (1..exch[i].exec)
  BY <1>1, <1>2 DEF Ingested, market
<1>4. Kept /\ PosOK(position')
  BY <1>2, <1>3, KeptIngest
<1>5. faults' \in 0..MaxFaults
  <2>1. UNCHANGED faults \/ Fault
    BY <1>1
  <2> QED
    BY <2>1, Parts, ConstantsOK DEF Fault
<1>6. PositionsOK'
  BY <1>2, <1>4, PositionStep DEF Kept, market
<1>7. Around
  BY <1>2, <1>5, <1>6, Parts DEF Around, operator, history
<1> QED
  BY <1>2, <1>4, <1>7, EnvOK DEF market

\* OperatorActs keeps the invariant: nothing is overdue after it.
LEMMA OperatorOK ==
  ASSUME IInv, OperatorActs
  PROVE  IInv'
<1>1. /\ cycle.pc \in {"idle", "gate"} /\ moves < MaxMoves /\ moves' = moves + 1 /\ overdue' = 0
      /\ UNCHANGED <<orders, exch, recorded, candle, position, cycle, alerts, faults, behind,
                     tape, held, rebuild, overtaken>>
  BY DEF OperatorActs, ledger, market
<1>2. Kept
  BY <1>1, KeptQuiet
<1>3. enabled' \in BOOLEAN /\ emergency_stop' \in BOOLEAN
  BY Parts DEF OperatorActs, Operator!Moves, Operator!Pause, Operator!Resume,
        Operator!EmergencyStop, Operator!ClearEmergencyStop
<1>4. moves' \in 0..MaxMoves
  BY <1>1, Parts, ConstantsOK
<1>5. CycleOK'
  BY <1>1, Parts DEF CycleOK, HasOrder, Exiting
<1>6. InFlightOK'
  BY <1>1, Parts DEF InFlightOK, Exiting
<1>7. SwitchesOK'
  BY <1>1 DEF SwitchesOK
<1>8. /\ candle' \in 0..MaxCandles /\ cycle' \in Cycle
      /\ cycle'.todo \subseteq Intents /\ alerts' \subseteq Purpose \X Episode
      /\ faults' \in 0..MaxFaults /\ behind' \in BOOLEAN /\ overtaken' \in BOOLEAN
  BY <1>1, Parts
<1>9. PositionsOK'
  BY <1>1, <1>2, Parts, PositionStep DEF Kept
<1>10. OneSelling'
  BY <1>2, Parts DEF OneSelling, Kept
<1> QED
  BY <1>1, <1>2, <1>3, <1>4, <1>5, <1>6, <1>7, <1>8, <1>9, <1>10, Together DEF Kept

\* Crash keeps the invariant.
LEMMA CrashOK ==
  ASSUME IInv, Crash
  PROVE  IInv'
<1>1. Kept
  BY KeptQuiet DEF Crash, ledger, market
<1>2. PositionsOK'
  BY <1>1, Parts, PositionStep DEF Crash, Kept, ledger, market
<1>3. Around
  BY <1>2, Parts, ConstantsOK DEF Crash, Fault, Around, operator, history
<1> QED
  BY <1>1, <1>3, ReturnOK DEF Crash

-----------------------------------------------------------------------------
(* The rebuild of the position                                              *)

\* A recorded execution is folded into a position.
LEMMA FoldOneOK ==
  ASSUME IInv, NEW p, PosOK(p), NEW u \in Intents \X Nat
  PROVE  PosOK(FoldOne(p, u))
<1>1. PICK i \in Intents, k \in Nat : u = <<i, k>>
  OBVIOUS
<1>2. CASE k \in recorded[i]
  <2>1. FoldOne(p, u) = Accounted(p, i, 1, k)
    BY <1>1, <1>2 DEF FoldOne
  <2>2. k \in 1..exch[i].exec
    BY <1>2, OrderFacts
  <2>3. k \in 1..orders[i].req
    BY <2>2, OrderFacts DEF OrderOK
  <2>4. ~IsSell(i) => OpenedBy(i, k) \in Episode \ {0}
    BY <2>3, EpisodeOK
  <2>5. 1 \in Nat
    OBVIOUS
  <2> QED
    BY <2>1, <2>4, <2>5, AccountedOK
<1>3. CASE k \notin recorded[i]
  BY <1>1, <1>3 DEF FoldOne
<1> QED
  BY <1>2, <1>3

\* The recursion of FoldOfFills has a solution, and what it folds is a position.
LEMMA FoldOK ==
  ASSUME IInv
  PROVE  PosOK(FoldOfFills)
<1> DEFINE n == Len(tape)
           Upto(m, f) == f = [k \in 0..m |-> IF k = 0 THEN NoPosition
                                             ELSE FoldOne(f[k - 1], tape[k])]
           Good == {m \in 0..n : \E f : Upto(m, f)}
<1>0. n \in Nat /\ \A k \in 1..n : tape[k] \in Intents \X Nat
  BY Parts
<1>1. 0 \in Good
  <2> DEFINE z == [k \in 0..0 |-> NoPosition]
  <2>1. \A k \in 0..0 : k = 0
    OBVIOUS
  <2>2. Upto(0, z)
    BY <2>1
  <2>3. 0 \in 0..n
    BY <1>0
  <2> HIDE DEF Upto, n
  <2> QED
    BY <2>2, <2>3
<1>2. ASSUME NEW m \in 1..n, m - 1 \in Good PROVE m \in Good
  <2>1. PICK f : Upto(m - 1, f)
    BY <1>2
  <2> DEFINE g == [k \in 0..m |-> IF k = m THEN FoldOne(f[m - 1], tape[m]) ELSE f[k]]
  <2>2. m \in 0..n /\ m # 0 /\ m - 1 \in 0..(m - 1) /\ m \in Nat
    BY <1>0
  <2>3. ASSUME NEW k \in 0..m
        PROVE  g[k] = IF k = 0 THEN NoPosition ELSE FoldOne(g[k - 1], tape[k])
    <3>1. CASE k = m
      BY <3>1, <2>2
    <3>2. CASE k # m
      <4>1. k \in 0..(m - 1) /\ g[k] = f[k] /\ (k # 0 => g[k - 1] = f[k - 1])
        BY <3>2, <2>2
      <4>2. f[k] = IF k = 0 THEN NoPosition ELSE FoldOne(f[k - 1], tape[k])
        BY <4>1, <2>1
      <4> QED
        BY <4>1, <4>2
    <3> QED
      BY <3>1, <3>2
  <2>4. Upto(m, g)
    BY <2>3
  <2> QED
    BY <2>2, <2>4
<1>3. n \in Good
  <2> HIDE DEF Good
  <2>1. \A k \in 1..n : k - 1 \in Good => k \in Good
    BY <1>2
  <2>2. \A k \in 0..n : k \in Good
    BY <1>0, <1>1, <2>1, UpTo
  <2> QED
    BY <1>0, <2>2
<1>4. \E f : Upto(n, f)
  BY <1>3
<1> DEFINE r == CHOOSE f : Upto(n, f)
<1>5. FoldOfFills = r[n]
  BY DEF FoldOfFills
<1>6. Upto(n, r)
  BY <1>4
<1> HIDE DEF r
<1>7. r[0] = NoPosition /\ \A k \in 1..n : r[k] = FoldOne(r[k - 1], tape[k])
  BY <1>0, <1>6
<1> DEFINE Positions == {k \in 0..n : PosOK(r[k])}
<1>8. \A k \in 0..n : k \in Positions
  <2>1. 0 \in Positions
    BY <1>0, <1>7, IdleOK DEF PosOK
  <2>2. ASSUME NEW k \in 1..n, k - 1 \in Positions PROVE k \in Positions
    <3>1. PosOK(FoldOne(r[k - 1], tape[k]))
      BY <1>0, <2>2, FoldOneOK
    <3> QED
      BY <1>0, <1>7, <3>1
  <2> HIDE DEF Positions
  <2> QED
    BY <1>0, <2>1, <2>2, UpTo
<1> QED
  BY <1>0, <1>5, <1>8

\* The position a rebuild would save, with a stop it read.
LEMMA RebuiltOK ==
  ASSUME IInv, NEW stop \in Episode
  PROVE  PosOK(Rebuilt(stop))
<1>1. PICK p : p = FoldOfFills
  OBVIOUS
<1>2. PosOK(p)
  BY <1>1, FoldOK
<1>3. Rebuilt(stop) = IF p.qty > 0 THEN [p EXCEPT !.stop = stop] ELSE p
  BY <1>1 DEF Rebuilt
<1> QED
  BY <1>2, <1>3 DEF PosOK, Position

\* The steps of a rebuild keep the invariant.
LEMMA RebuildOK ==
  ASSUME IInv, RebuildRead \/ RebuildFold \/ RebuildSave
  PROVE  IInv'
<1>1. UNCHANGED <<operator, moves, candle, orders, recorded, market, cycle, alerts, faults,
                  overdue, behind>>
  BY DEF RebuildRead, RebuildFold, RebuildSave, ledger, history
<1>2. Kept
  BY <1>1, KeptQuiet DEF market
<1>3. /\ rebuild \in Rebuild /\ PosOK(rebuild.p) /\ PosOK(position) /\ PosOK(held)
      /\ position.stop \in Episode /\ rebuild.stop \in Episode
      /\ tape' \in Seq(Intents' \X Nat) /\ PosOK(held')
  BY <1>1, <1>2, Parts DEF Rebuild, PosOK, Position, Kept, market
<1>4. CASE RebuildRead
  <2>1. /\ rebuild' = [rebuild EXCEPT !.pc = "fills", !.stop = position.stop, !.runs = @ + 1]
        /\ rebuild.runs < MaxRebuilds /\ position' = position /\ overtaken' = overtaken
    BY <1>4 DEF RebuildRead, ledger, history
  <2>2. rebuild.runs + 1 \in 0..MaxRebuilds
    BY <1>3, <2>1, ConstantsOK DEF Rebuild
  <2>3. rebuild' \in Rebuild /\ rebuild'.p = rebuild.p
    BY <1>3, <2>1, <2>2 DEF Rebuild
  <2>4. PositionsOK'
    BY <1>3, <2>1, <2>3 DEF PositionsOK, PosOK
  <2>5. Around
    BY <1>1, <2>1, <2>4, Parts DEF Around, operator
  <2> QED
    BY <1>1, <1>2, <2>5, EnvOK DEF market
<1>5. CASE RebuildFold
  <2>1. /\ rebuild' = [rebuild EXCEPT !.pc = "save", !.stop = 0, !.p = Rebuilt(rebuild.stop)]
        /\ position' = position /\ overtaken' = overtaken
    BY <1>5 DEF RebuildFold, ledger, history
  <2>2. PICK p : p = Rebuilt(rebuild.stop) /\ PosOK(p)
    BY <1>3, RebuiltOK
  <2>3. rebuild' \in Rebuild /\ rebuild'.p = p
    BY <1>3, <2>1, <2>2, ZeroEpisode DEF Rebuild, PosOK
  <2>4. PositionsOK'
    BY <1>3, <2>1, <2>2, <2>3 DEF PositionsOK, PosOK
  <2>5. Around
    BY <1>1, <2>1, <2>4, Parts DEF Around, operator
  <2> QED
    BY <1>1, <1>2, <2>5, EnvOK DEF market
<1>6. CASE RebuildSave
  <2>1. /\ rebuild' = [rebuild EXCEPT !.pc = "idle", !.p = NoPosition]
        /\ position' = rebuild.p
        /\ overtaken' = (overtaken \/ rebuild.p # Rebuilt(position.stop))
    BY <1>6 DEF RebuildSave
  <2>2. NoPosition \in Position /\ NoPosition.qty = 0
    BY IdleOK
  <2>3. rebuild' \in Rebuild /\ rebuild'.p = NoPosition
    BY <1>3, <2>1, <2>2 DEF Rebuild
  <2>4. PositionsOK'
    BY <1>3, <2>1, <2>2, <2>3 DEF PositionsOK, PosOK
  <2>5. overtaken' \in BOOLEAN
    BY <2>1, Parts
  <2>6. Around
    BY <1>1, <2>4, <2>5, Parts DEF Around, operator
  <2> QED
    BY <1>1, <1>2, <2>6, EnvOK DEF market
<1> QED
  BY <1>4, <1>5, <1>6

-----------------------------------------------------------------------------
(* Gates, syncing, the decision                                             *)

\* A step of the worker that leaves the exchange alone.
LEMMA AroundOK ==
  ASSUME IInv, Intents' = Intents, PosOK(position'),
         UNCHANGED <<operator, moves, candle, tape, held, rebuild, history>>,
         alerts' \subseteq Purpose \X Episode, faults' \in 0..MaxFaults
  PROVE  Around
<1>1. PositionsOK'
  BY PositionStep
<1> QED
  BY <1>1, Parts DEF Around, operator, history

\* Where Sync takes the worker.
LEMMA SyncIs ==
  ASSUME IInv, NEW c \in Cycle, NEW rest \in SUBSET Intents, Sync(c, rest)
  PROVE  /\ cycle' \in Cycle /\ cycle'.pc \in {"decide", "sync"} /\ cycle'.todo \subseteq Intents
         /\ cycle'.p = c.p /\ cycle'.enabled = c.enabled /\ cycle'.stopped = c.stopped
         /\ cycle'.behind = c.behind
<1>1. NoIntent \in Intent /\ rest \in SUBSET Intent
  BY IdleOK, Parts DEF Tables, UsedIntent
<1>2. PICK pc \in {"decide", "sync"} : cycle' = [c EXCEPT !.pc = pc, !.todo = rest, !.i = NoIntent]
  BY DEF Sync
<1> QED
  BY <1>1, <1>2 DEF Cycle, Point

\* Where HoldPosition takes the worker.
LEMMA HoldIs ==
  ASSUME NEW p \in Position, HoldPosition(p)
  PROVE  /\ cycle' \in Cycle /\ cycle'.pc = "protect" /\ cycle'.todo = {} /\ cycle'.p = p
         /\ cycle'.behind <=> Behind
<1>1. PICK b \in BOOLEAN : b <=> Behind
  OBVIOUS
<1>2. cycle' = [Idle EXCEPT !.pc = "protect", !.purpose = "PROTECTIVE_STOP", !.p = p, !.behind = b]
  BY <1>1 DEF HoldPosition
<1> QED
  BY <1>1, <1>2, IdleOK DEF Cycle, Point, Purpose, Exits

\* Where ExitFor takes the worker.
LEMMA ExitForIs ==
  ASSUME NEW p, NEW purpose \in {"STOP_EXIT", "EXIT"}, ExitFor(p, purpose)
  PROVE  /\ cycle' \in Cycle /\ cycle'.pc = "cancel" /\ cycle'.todo = {} /\ cycle'.p = NoPosition
         /\ cycle'.purpose = purpose /\ cycle'.behind = FALSE
         /\ purpose = "EXIT" => ~cycle.stopped
         /\ purpose = "STOP_EXIT" => p.stop # 0
<1>1. cycle' = [Idle EXCEPT !.pc = "cancel", !.purpose = purpose]
  BY DEF ExitFor
<1>2. cycle' \in Cycle /\ cycle'.pc = "cancel" /\ cycle'.todo = {} /\ cycle'.p = NoPosition
      /\ cycle'.purpose = purpose /\ cycle'.behind = FALSE
  BY <1>1, IdleOK DEF Cycle, Point, Purpose, Exits
<1> QED
  BY <1>2 DEF ExitFor

\* ReadControl keeps the invariant: the worker knows the switches as they are.
LEMMA ReadControlOK ==
  ASSUME IInv, ReadControl
  PROVE  IInv'
<1>1. /\ cycle' \in Cycle /\ cycle'.pc = "gate" /\ cycle'.todo = {} /\ cycle'.p = NoPosition
      /\ cycle'.enabled = enabled /\ cycle'.stopped = emergency_stop
  BY IdleOK, Parts DEF ReadControl, Cycle, Point
<1>2. Kept
  BY KeptQuiet DEF ReadControl, ledger, market
<1>3. Around
  BY <1>2, Parts, AroundOK DEF ReadControl, Kept, ledger, market
<1>4. CycleOK'
  BY <1>1, <1>3, IdleOK DEF CycleOK, HasOrder, Exiting, Around
<1>5. InFlightOK'
  BY <1>1 DEF InFlightOK, Exiting
<1>6. SwitchesOK'
  BY <1>1, <1>3, Parts DEF SwitchesOK, Exiting, Around
<1> QED
  BY <1>1, <1>2, <1>3, <1>4, <1>5, <1>6, MoveOK

\* PassGates keeps the invariant.
LEMMA PassGatesOK ==
  ASSUME IInv, PassGates
  PROVE  IInv'
<1>1. cycle.pc = "gate" /\ UNCHANGED <<operator, moves, ledger, market, rebuild, alerts, faults, history>>
  BY DEF PassGates
<1>2. CASE Return /\ UNCHANGED candle
  <2>1. Kept
    BY <1>1, <1>2, KeptQuiet DEF ledger, market
  <2>2. Around
    BY <1>1, <1>2, <2>1, Parts, AroundOK DEF Kept, ledger, market
  <2> QED
    BY <1>2, <2>1, <2>2, ReturnOK
<1>3. CASE /\ candle' \in EvaluatedCandles
           /\ \E healthy \in BOOLEAN : Sync([cycle EXCEPT !.entriesOk = healthy], InFlight)
  <2>1. candle' \in {candle, candle + 1} /\ candle' \in 1..MaxCandles
    BY <1>3 DEF EvaluatedCandles
  <2>2. Kept
    BY <1>1, <2>1, KeptQuiet DEF ledger, market
  <2>3. PICK healthy \in BOOLEAN : Sync([cycle EXCEPT !.entriesOk = healthy], InFlight)
    BY <1>3
  <2> DEFINE c == [cycle EXCEPT !.entriesOk = healthy]
  <2>4. c \in Cycle /\ c.p = cycle.p /\ c.enabled = cycle.enabled /\ c.stopped = cycle.stopped
    BY Parts DEF Cycle
  <2>5. InFlight \in SUBSET Intents
    BY DEF InFlight, NonTerminal
  <2>6. Sync(c, InFlight)
    BY <2>3
  <2> HIDE DEF c
  <2>7. /\ cycle' \in Cycle /\ cycle'.pc \in {"decide", "sync"} /\ cycle'.todo \subseteq Intents
        /\ cycle'.p = cycle.p /\ cycle'.enabled = cycle.enabled /\ cycle'.stopped = cycle.stopped
    BY <2>4, <2>5, <2>6, SyncIs
  <2>8. position' = position /\ overdue' = overdue /\ enabled' = enabled
        /\ emergency_stop' = emergency_stop
    BY <1>1 DEF ledger, history, operator
  <2>9. CycleOK'
    BY <2>1, <2>7, <2>8, Parts DEF CycleOK, HasOrder, Exiting
  <2>10. InFlightOK'
    BY <2>7 DEF InFlightOK, Exiting
  <2>11. SwitchesOK'
    BY <1>1, <2>7, <2>8, Parts DEF SwitchesOK, Exiting
  <2>12. candle' \in 0..MaxCandles
    BY <2>1
  <2>13. PositionsOK'
    BY <1>1, <2>2, Parts, PositionStep DEF Kept, ledger, market
  <2>14. OneSelling'
    BY <2>2, Parts DEF OneSelling, Kept
  <2>15. /\ Tables' /\ IntentsOK' /\ RowsOK' /\ Intents' = Intents
         /\ moves' = moves /\ alerts' = alerts /\ faults' = faults
         /\ behind' = behind /\ overtaken' = overtaken
    BY <1>1, <2>2 DEF Kept, history
  <2> QED
    BY <2>7, <2>8, <2>9, <2>10, <2>11, <2>12, <2>13, <2>14, <2>15, Parts, Together
<1> QED
  BY <1>2, <1>3 DEF PassGates

\* SyncOrder keeps the invariant.
LEMMA SyncOrderOK ==
  ASSUME IInv, SyncOrder
  PROVE  IInv'
<1>1. /\ cycle.pc = "sync"
      /\ UNCHANGED <<operator, moves, candle, recorded, position, exch, tape, held, rebuild,
                     alerts, history>>
  BY DEF SyncOrder, market
<1>2. PICK i \in cycle.todo :
          \/ /\ OnExchange(i) /\ i \notin Revived
             /\ ApplyReport(i, exch[i])
             /\ cycle' = [cycle EXCEPT !.pc = "syncFills", !.i = i]
             /\ UNCHANGED faults
          \/ /\ ((~OnExchange(i) \/ i \in Revived) /\ UNCHANGED faults) \/ Fault
             /\ Sync(cycle, cycle.todo \ {i})
             /\ UNCHANGED orders
  BY DEF SyncOrder
<1>3. i \in Intents /\ i \in Intent
  BY Parts, OrderFacts
<1>4. faults' \in 0..MaxFaults
  BY <1>2, Parts, ConstantsOK DEF Fault
<1>5. Kept => Around
  BY <1>1, <1>4, Parts, AroundOK DEF Kept
<1>6. CASE /\ OnExchange(i) /\ ApplyReport(i, exch[i])
           /\ cycle' = [cycle EXCEPT !.pc = "syncFills", !.i = i]
  <2>2. Kept
    BY <1>1, <1>3, <1>6, KeptReport
  <2>3. cycle' \in Cycle /\ cycle'.pc = "syncFills" /\ cycle'.i = i /\ SameLocals
    BY <1>3, <1>6, Parts, GotoWith DEF Point
  <2>4. CycleOK'
    BY <1>1, <1>3, <2>2, <2>3, Parts DEF CycleOK, HasOrder, Exiting, SameLocals, Kept
  <2>5. InFlightOK'
    BY <2>3 DEF InFlightOK, Exiting
  <2>6. SwitchesOK'
    BY <1>1, <1>5, <2>2, <2>3, Parts DEF SwitchesOK, Exiting, SameLocals, Around
  <2> QED
    BY <1>5, <2>2, <2>3, <2>4, <2>5, <2>6, Parts, MoveOK DEF SameLocals
<1>7. CASE Sync(cycle, cycle.todo \ {i}) /\ UNCHANGED orders
  <2>1. Kept
    BY <1>1, <1>7, KeptQuiet
  <2>2. /\ cycle' \in Cycle /\ cycle'.pc \in {"decide", "sync"} /\ cycle'.todo \subseteq Intents
        /\ cycle'.p = cycle.p /\ cycle'.enabled = cycle.enabled /\ cycle'.stopped = cycle.stopped
    BY <1>7, Parts, SyncIs
  <2>4. CycleOK'
    BY <1>1, <2>2, Parts DEF CycleOK, HasOrder, Exiting
  <2>5. InFlightOK'
    BY <2>2 DEF InFlightOK, Exiting
  <2>6. SwitchesOK'
    BY <1>1, <1>5, <2>1, <2>2, Parts DEF SwitchesOK, Exiting, Around
  <2> QED
    BY <1>5, <2>1, <2>2, <2>4, <2>5, <2>6, MoveOK
<1> QED
  BY <1>2, <1>6, <1>7

\* The fills of the order in hand are recorded, or that fails.
LEMMA FillsKept ==
  ASSUME IInv, cycle.i \in Intents, candle' = candle, UNCHANGED <<orders, exch>>,
         \/ IngestFills(cycle.i) /\ UNCHANGED faults
         \/ Fault /\ UNCHANGED <<recorded, position>>
  PROVE  /\ Kept /\ PosOK(position') /\ faults' \in 0..MaxFaults
         /\ NonTerminal' = NonTerminal
<1>1. NonTerminal' = NonTerminal
  BY DEF NonTerminal, Intents
<1>2. faults' \in 0..MaxFaults
  BY Parts, ConstantsOK DEF Fault
<1>3. CASE IngestFills(cycle.i)
  <2>1. Ingested(cycle.i, 1..exch[cycle.i].exec)
    BY <1>3 DEF Ingested, IngestFills
  <2>2. 1..exch[cycle.i].exec \in SUBSET (1..exch[cycle.i].exec)
    OBVIOUS
  <2> QED
    BY <1>1, <1>2, <2>1, <2>2, KeptIngest
<1>4. CASE UNCHANGED <<recorded, position>>
  BY <1>1, <1>2, <1>4, KeptQuiet, Parts DEF PosOK
<1> QED
  BY <1>3, <1>4

\* SyncFills keeps the invariant.
LEMMA SyncFillsOK ==
  ASSUME IInv, SyncFills
  PROVE  IInv'
<1>1. /\ cycle.pc = "syncFills" /\ Sync(cycle, cycle.todo \ {cycle.i})
      /\ UNCHANGED <<operator, moves, candle, orders, exch, tape, held, rebuild, alerts, history>>
      /\ \/ IngestFills(cycle.i) /\ UNCHANGED faults
         \/ Fault /\ UNCHANGED <<recorded, position>>
  BY DEF SyncFills, market
<1>2. cycle.i \in Intents
  BY <1>1, Parts DEF CycleOK, HasOrder
<1>3. /\ Kept /\ PosOK(position') /\ faults' \in 0..MaxFaults
  BY <1>1, <1>2, FillsKept
<1>4. Around
  BY <1>1, <1>3, Parts, AroundOK DEF Kept
<1>5. /\ cycle' \in Cycle /\ cycle'.pc \in {"decide", "sync"} /\ cycle'.todo \subseteq Intents
      /\ cycle'.p = cycle.p /\ cycle'.enabled = cycle.enabled /\ cycle'.stopped = cycle.stopped
  BY <1>1, Parts, SyncIs
<1>6. CycleOK'
  BY <1>1, <1>3, <1>5, Parts DEF CycleOK, HasOrder, Exiting
<1>7. InFlightOK'
  BY <1>5 DEF InFlightOK, Exiting
<1>8. SwitchesOK'
  BY <1>1, <1>4, <1>5, Parts DEF SwitchesOK, Exiting, Around
<1> QED
  BY <1>3, <1>4, <1>5, <1>6, <1>7, <1>8, MoveOK

\* The worker starts to exit or to look at the protective stop.
LEMMA OpenIs ==
  ASSUME IInv, Kept, Around, InFlight = {}, candle > 0, OpenPosition(position'),
         overdue > 0 => cycle.stopped = emergency_stop
  PROVE  IInv'
<1>1. position' \in Position /\ (position'.qty > 0 => position'.opened # 0)
  BY DEF Around, PositionsOK, PosOK
<1>2. CASE HoldPosition(position')
  <2>1. cycle' \in Cycle /\ cycle'.pc = "protect" /\ cycle'.todo = {} /\ cycle'.p = position'
    BY <1>1, <1>2, HoldIs
  <2>2. CycleOK'
    BY <1>1, <2>1 DEF CycleOK, HasOrder, Exiting, Around
  <2>3. InFlightOK'
    BY <2>1 DEF InFlightOK, Exiting, Kept
  <2>4. SwitchesOK'
    BY <2>1, Parts DEF SwitchesOK, Exiting, Around
  <2> QED
    BY <2>1, <2>2, <2>3, <2>4, MoveOK
<1>3. CASE \E purpose \in {"STOP_EXIT", "EXIT"} : ExitFor(position', purpose)
  <2>1. PICK purpose \in {"STOP_EXIT", "EXIT"} : ExitFor(position', purpose)
    BY <1>3
  <2>2. /\ cycle' \in Cycle /\ cycle'.pc = "cancel" /\ cycle'.todo = {} /\ cycle'.p.qty = 0
        /\ cycle'.purpose = purpose /\ (purpose = "EXIT" => ~cycle.stopped)
    BY <2>1, ExitForIs, IdleOK
  <2>3. CycleOK'
    BY <2>2 DEF CycleOK, HasOrder, Exiting, Around
  <2>4. InFlightOK'
    BY <2>2 DEF InFlightOK, Exiting, Kept
  <2>5. SwitchesOK'
    BY <2>2, Parts DEF SwitchesOK, Exiting, Around
  <2> QED
    BY <2>2, <2>3, <2>4, <2>5, MoveOK
<1> QED
  BY <1>2, <1>3 DEF OpenPosition

\* Decide keeps the invariant: it goes on only with nothing in flight.
LEMMA DecideOK ==
  ASSUME IInv, Decide
  PROVE  IInv'
<1>1. /\ cycle.pc = "decide"
      /\ UNCHANGED <<operator, moves, candle, ledger, market, rebuild, alerts, faults, history>>
  BY DEF Decide
<1>2. Kept
  BY <1>1, KeptQuiet DEF ledger, market
<1>3. Around
  BY <1>1, <1>2, Parts, AroundOK DEF Kept, ledger, market
<1>4. /\ position' = position /\ candle > 0 /\ candle' = candle
      /\ position.qty > 0 => position.opened # 0
  BY <1>1, Parts DEF ledger, CycleOK, PosOK
<1>5. CASE Return
  BY <1>2, <1>3, <1>5, ReturnOK
<1>6. CASE InFlight = {} /\ Goto("entry")
  <2>1. cycle' \in Cycle /\ cycle'.pc = "entry" /\ SameLocals
    BY <1>6, Parts, GotoIs DEF Point
  <2>2. CycleOK'
    BY <1>1, <1>4, <2>1, Parts DEF CycleOK, HasOrder, Exiting, SameLocals, ledger
  <2>3. InFlightOK'
    BY <1>2, <1>6, <2>1 DEF InFlightOK, Exiting, Kept
  <2>4. SwitchesOK'
    BY <1>1, <1>3, <2>1, Parts DEF SwitchesOK, Exiting, SameLocals, Around
  <2> QED
    BY <1>2, <1>3, <2>1, <2>2, <2>3, <2>4, Parts, MoveOK DEF SameLocals
<1>7. CASE InFlight = {} /\ cycle' = [cycle EXCEPT !.pc = "setStop", !.p = position]
  <2>0. cycle \in Cycle /\ position \in Position
    BY Parts DEF PosOK
  <2>1. /\ cycle' \in Cycle /\ cycle'.pc = "setStop" /\ cycle'.p = position
        /\ cycle'.enabled = cycle.enabled /\ cycle'.stopped = cycle.stopped
        /\ cycle'.todo = cycle.todo
    BY <1>7, <2>0 DEF Cycle, Point
  <2>2. CycleOK'
    BY <1>4, <2>1 DEF CycleOK, HasOrder, Exiting
  <2>3. InFlightOK'
    BY <1>2, <1>7, <2>1 DEF InFlightOK, Exiting, Kept
  <2>4. SwitchesOK'
    BY <1>1, <1>3, <2>1, Parts DEF SwitchesOK, Exiting, Around
  <2> QED
    BY <1>2, <1>3, <2>1, <2>2, <2>3, <2>4, Parts, MoveOK
<1>8. CASE InFlight = {} /\ OpenPosition(position)
  <2>1. overdue > 0 => cycle.stopped = emergency_stop
    BY <1>1, Parts DEF SwitchesOK
  <2> QED
    BY <1>2, <1>3, <1>4, <1>8, <2>1, OpenIs
<1> QED
  BY <1>5, <1>6, <1>7, <1>8 DEF Decide

\* SetStop keeps the invariant.
LEMMA SetStopOK ==
  ASSUME IInv, SetStop
  PROVE  IInv'
<1>1. /\ cycle.pc = "setStop" /\ position' = [position EXCEPT !.stop = cycle.p.opened]
      /\ OpenPosition([position EXCEPT !.stop = cycle.p.opened])
      /\ UNCHANGED <<operator, moves, candle, orders, recorded, exch, tape, held, rebuild,
                     alerts, faults, history>>
  BY DEF SetStop, market
<1>2. OpenPosition(position')
  BY <1>1
<1>3. Kept
  BY <1>1, KeptQuiet
<1>4. cycle.p.opened \in Episode
  BY CycleParts DEF Position
<1>5. PosOK(position')
  BY <1>1, <1>4, Parts DEF Position, PosOK
<1>6. Around
  BY <1>1, <1>3, <1>5, Parts, AroundOK DEF Kept
<1>7. InFlight = {}
  BY <1>1, Parts DEF InFlightOK
<1>8. (overdue > 0 => cycle.stopped = emergency_stop) /\ candle > 0
  BY <1>1, Parts DEF SwitchesOK, CycleOK
<1> QED
  BY <1>2, <1>3, <1>6, <1>7, <1>8, OpenIs

\* SubmitFills keeps the invariant.
LEMMA SubmitFillsOK ==
  ASSUME IInv, SubmitFills
  PROVE  IInv'
<1>1. /\ cycle.pc = "fills" /\ IngestFills(cycle.i)
      /\ UNCHANGED <<operator, moves, candle, orders, exch, tape, held, rebuild, alerts,
                     faults, history>>
  BY DEF SubmitFills, market
<1>2. cycle.i \in Intents
  BY <1>1, Parts DEF CycleOK, HasOrder
<1>3. Kept /\ PosOK(position') /\ NonTerminal' = NonTerminal
  BY <1>1, <1>2, FillsKept
<1>4. Around
  BY <1>1, <1>3, Parts, AroundOK DEF Kept
<1>5. CASE Return
  BY <1>3, <1>4, <1>5, ReturnOK
<1>6. CASE Goto("arm")
  <2>1. cycle' \in Cycle /\ cycle'.pc = "arm" /\ cycle'.i = cycle.i /\ SameLocals
    BY <1>6, Parts, GotoIs DEF Point
  <2>2. CycleOK'
    BY <1>1, <1>2, <1>3, <2>1, Parts DEF CycleOK, HasOrder, Exiting, SameLocals, Kept
  <2>3. InFlightOK'
    BY <1>1, <1>3, <2>1, Parts DEF InFlightOK, Exiting, Kept
  <2>4. SwitchesOK'
    BY <1>4, <2>1, Parts DEF SwitchesOK, Exiting, Around
  <2> QED
    BY <1>3, <1>4, <2>1, <2>2, <2>3, <2>4, Parts, MoveOK DEF SameLocals
<1> QED
  BY <1>5, <1>6 DEF SubmitFills

\* ArmEntry keeps the invariant: after a filled entry nothing is in flight.
LEMMA ArmEntryOK ==
  ASSUME IInv, ArmEntry
  PROVE  IInv'
<1> DEFINE stopped == [position EXCEPT !.stop = position.opened]
<1>1. /\ cycle.pc = "arm"
      /\ UNCHANGED <<operator, moves, candle, orders, recorded, exch, tape, held, rebuild,
                     alerts, faults, history>>
  BY DEF ArmEntry, market
<1>2. \/ Return /\ position' \in {position, stopped}
      \/ position' = stopped /\ orders[cycle.i].status = "FILLED" /\ HoldPosition(stopped)
  BY DEF ArmEntry
<1>3. PosOK(stopped) /\ stopped \in Position
  BY Parts DEF Position, PosOK
<1> HIDE DEF stopped
<1>4. Kept
  BY <1>1, KeptQuiet
<1>5. PosOK(position')
  BY <1>2, <1>3, Parts DEF PosOK
<1>6. Around
  BY <1>1, <1>4, <1>5, Parts, AroundOK DEF Kept
<1>7. CASE Return
  BY <1>4, <1>6, <1>7, ReturnOK
<1>8. CASE orders[cycle.i].status = "FILLED" /\ HoldPosition(stopped) /\ position' = stopped
  <2>1. cycle' \in Cycle /\ cycle'.pc = "protect" /\ cycle'.todo = {} /\ cycle'.p = position'
    BY <1>3, <1>8, HoldIs
  <2>2. CycleOK'
    <3>1. candle > 0
      BY <1>1, Parts DEF CycleOK
    <3> QED
      BY <1>1, <1>5, <2>1, <3>1 DEF CycleOK, HasOrder, Exiting, PosOK
  <2>3. InFlight = {}
    BY <1>1, <1>8, Parts DEF InFlightOK, InFlight, NonTerminal, Terminal
  <2>4. InFlightOK'
    BY <1>4, <2>1, <2>3 DEF InFlightOK, Exiting, Kept
  <2>5. SwitchesOK'
    BY <1>6, <2>1, Parts DEF SwitchesOK, Exiting, Around
  <2>6. cycle'.todo \subseteq Intents
    BY <2>1
  <2> QED
    BY <1>4, <1>6, <2>1, <2>2, <2>4, <2>5, <2>6, MoveOK
<1> QED
  BY <1>2, <1>7, <1>8

-----------------------------------------------------------------------------
(* Submitting an order                                                      *)

\* An order becomes e on the exchange, which its row bears out, and that may be
\* reported.
LEMMA KeptBecomes ==
  ASSUME IInv, NEW i \in Intents, NEW e \in ExchOrder, Becomes(i, e), RowOK(orders[i], e),
         exch[i].exec <= e.exec,
         \/ ApplyReport(i, e) /\ e.status \notin {"ABSENT", "SENT"}
         \/ UNCHANGED orders,
         UNCHANGED <<recorded, candle>>
  PROVE  Kept
<1>1. exch' = [exch EXCEPT ![i] = e]
  BY DEF Becomes
<1>2. orders[i] \in Row /\ orders = [orders EXCEPT ![i] = orders[i]]
  BY OrderFacts, Parts DEF Tables
<1>3. CASE ApplyReport(i, e) /\ e.status \notin {"ABSENT", "SENT"}
  <2>1. /\ Reported(i, e) \in Row /\ RowOK(Reported(i, e), e)
        /\ Reported(i, e).req = orders[i].req
        /\ orders[i].status \in Terminal => Reported(i, e) = orders[i]
        /\ orders' = [orders EXCEPT ![i] = Reported(i, e)]
    BY <1>3, ReportedOK DEF RowOK
  <2>2. Changed(i, Reported(i, e), e)
    BY <1>1, <2>1 DEF Changed
  <2> QED
    BY <2>1, <2>2, KeptTable
<1>4. CASE UNCHANGED orders
  <2>1. Changed(i, orders[i], e)
    BY <1>1, <1>2, <1>4 DEF Changed
  <2> QED
    BY <1>2, <2>1, KeptTable
<1> QED
  BY <1>3, <1>4

\* What such a step leaves alone.
LEMMA AroundBecomes ==
  ASSUME IInv, NEW i \in Intents, NEW e \in ExchOrder, Becomes(i, e), RowOK(orders[i], e),
         exch[i].exec <= e.exec, Intents' = Intents, faults' \in 0..MaxFaults,
         UNCHANGED <<operator, moves, candle, position, rebuild, alerts, history>>
  PROVE  Around
<1>1. PosOK(held') /\ tape' \in Seq(Intents \X Nat)
  BY BecomesIs DEF RowOK
<1>2. PositionsOK'
  BY <1>1, MarketStep
<1> QED
  BY <1>2, Parts DEF Around, operator, history

\* The worker waits for its answer with the order in hand.
LEMMA AwaitOK ==
  ASSUME IInv, Kept, Around, cycle.pc \in {"post", "resolve"},
         Return \/ Goto("fills") \/ Goto("resolve")
  PROVE  IInv'
<1>1. CASE Return
  BY <1>1, ReturnOK
<1>2. ASSUME NEW pc \in {"fills", "resolve"}, Goto(pc)
      PROVE  IInv'
  <2>1. cycle' \in Cycle /\ cycle'.pc = pc /\ cycle'.i = cycle.i /\ SameLocals
    BY <1>2, Parts, GotoIs DEF Point
  <2>2. CycleOK'
    BY <1>2, <2>1, Parts DEF CycleOK, HasOrder, Exiting, SameLocals, Kept, Around
  <2>3. InFlightOK'
    BY <1>2, <2>1, Parts DEF InFlightOK, Exiting, Kept
  <2>4. SwitchesOK'
    BY <1>2, <2>1, Parts DEF SwitchesOK, Exiting, Around
  <2> QED
    BY <2>1, <2>2, <2>3, <2>4, Parts, MoveOK DEF SameLocals
<1> QED
  BY <1>1, <1>2

\* The states that a request may lead to, on the way too.
LEMMA PlacedOK ==
  ASSUME IInv, NEW i \in Intents, orders[i].status = "SUBMITTING"
  PROVE  /\ Sent \in ExchOrder /\ RowOK(orders[i], Sent) /\ Sent.exec = 0
         /\ \A n \in 0..orders[i].req :
               /\ Working(i, n) \in ExchOrder /\ RowOK(orders[i], Working(i, n))
               /\ Working(i, n).exec = n /\ Working(i, n).status \notin {"ABSENT", "SENT"}
<1>1. Sent \in ExchOrder /\ RowOK(orders[i], Sent) /\ Sent.exec = 0
  BY OrderFacts DEF Sent, ExchOrder, RowOK, OrderOK, Terminal
<1>2. ASSUME NEW n \in 0..orders[i].req
      PROVE  /\ Working(i, n) \in ExchOrder /\ RowOK(orders[i], Working(i, n))
             /\ Working(i, n).exec = n /\ Working(i, n).status \notin {"ABSENT", "SENT"}
  BY WorkingOK, OrderFacts DEF RowOK, Terminal
<1> QED
  BY <1>1, <1>2

\* Post keeps the invariant, whether the order is accepted, refused, or on its
\* way.
LEMMA PostOK ==
  ASSUME IInv, Post
  PROVE  IInv'
<1> DEFINE i == cycle.i
           execs == IF i.purpose = "PROTECTIVE_STOP" THEN {0} ELSE 0..orders[i].req
<1>1. /\ cycle.pc = "post"
      /\ UNCHANGED <<operator, moves, candle, recorded, position, rebuild, alerts, history>>
      /\ \/ \E n \in execs :
               /\ Becomes(i, Working(i, n))
               /\ \/ ApplyReport(i, Working(i, n)) /\ Goto("fills") /\ UNCHANGED faults
                  \/ Fault /\ Goto("resolve") /\ UNCHANGED orders
         \/ /\ orders' = [orders EXCEPT ![i].status = "REJECTED"]
            /\ Return
            /\ UNCHANGED <<market, faults>>
         \/ Fault /\ Becomes(i, Sent) /\ Goto("resolve") /\ UNCHANGED orders
  BY DEF Post
<1>2. i \in Intents /\ orders[i].status = "SUBMITTING" /\ exch[i].status = "ABSENT"
  BY <1>1, Parts DEF CycleOK, HasOrder
<1>3. exch[i].exec = 0 /\ orders[i].req \in Nat /\ i \in Intent
  BY <1>2, OrderFacts DEF OrderOK
<1>4. execs \subseteq 0..orders[i].req
  BY <1>3
<1>5. faults' \in 0..MaxFaults
  BY <1>1, Parts, ConstantsOK DEF Fault
<1> HIDE DEF execs
<1>6. ASSUME NEW n \in execs, Becomes(i, Working(i, n)),
             ApplyReport(i, Working(i, n)) \/ UNCHANGED orders, Goto("fills") \/ Goto("resolve")
      PROVE  IInv'
  <2>1. n \in 0..orders[i].req
    BY <1>4, <1>6
  <2> DEFINE e == Working(i, n)
  <2>2. e \in ExchOrder /\ RowOK(orders[i], e) /\ exch[i].exec <= e.exec
        /\ e.status \notin {"ABSENT", "SENT"}
    BY <1>2, <1>3, <2>1, PlacedOK
  <2> HIDE DEF e
  <2>3. Becomes(i, e) /\ (ApplyReport(i, e) \/ UNCHANGED orders)
    BY <1>6 DEF e
  <2>4. Kept
    BY <1>1, <1>2, <2>2, <2>3, KeptBecomes
  <2>5. Around
    BY <1>1, <1>2, <1>5, <2>2, <2>3, <2>4, AroundBecomes DEF Kept
  <2> QED
    BY <1>1, <1>6, <2>4, <2>5, AwaitOK
<1>7. CASE /\ orders' = [orders EXCEPT ![i].status = "REJECTED"]
           /\ Return
           /\ UNCHANGED <<market, faults>>
  <2>1. PICK row \in Row :
            /\ Changed(i, row, exch[i]) /\ RowOK(row, exch[i]) /\ row.req = orders[i].req
            /\ row.status = "REJECTED"
    BY <1>1, <1>2, <1>7, RejectIs DEF market
  <2>2. Kept
    BY <1>1, <1>2, <2>1, OrderFacts, KeptTable DEF Terminal
  <2>3. Around
    BY <1>1, <1>7, <2>2, Parts, AroundOK DEF Kept, market
  <2> QED
    BY <1>1, <1>7, <2>2, <2>3, AwaitOK
<1>8. CASE Becomes(i, Sent) /\ Goto("resolve") /\ UNCHANGED orders
  <2>1. Sent \in ExchOrder /\ RowOK(orders[i], Sent) /\ exch[i].exec <= Sent.exec
    BY <1>2, <1>3, PlacedOK
  <2>2. Kept
    BY <1>1, <1>2, <1>8, <2>1, KeptBecomes
  <2>3. Around
    BY <1>1, <1>2, <1>5, <1>8, <2>1, <2>2, AroundBecomes DEF Kept
  <2> QED
    BY <1>1, <1>8, <2>2, <2>3, AwaitOK
<1> QED
  BY <1>1, <1>6, <1>7, <1>8

\* ResolveAmbiguous keeps the invariant.
LEMMA ResolveOK ==
  ASSUME IInv, ResolveAmbiguous
  PROVE  IInv'
<1>1. /\ cycle.pc = "resolve"
      /\ UNCHANGED <<operator, moves, candle, recorded, position, exch, tape, held, rebuild,
                     alerts, history>>
      /\ \/ OnExchange(cycle.i) /\ ApplyReport(cycle.i, exch[cycle.i]) /\ Goto("fills")
            /\ UNCHANGED faults
         \/ (UNCHANGED faults \/ Fault) /\ Return /\ UNCHANGED orders
  BY DEF ResolveAmbiguous, market
<1>2. cycle.i \in Intents
  BY <1>1, Parts DEF CycleOK, HasOrder
<1>3. faults' \in 0..MaxFaults
  BY <1>1, Parts, ConstantsOK DEF Fault
<1>4. Kept
  <2>1. CASE UNCHANGED orders
    BY <1>1, <2>1, KeptQuiet
  <2>2. CASE OnExchange(cycle.i) /\ ApplyReport(cycle.i, exch[cycle.i])
    BY <1>1, <1>2, <2>2, KeptReport
  <2> QED
    BY <1>1, <2>1, <2>2
<1>5. Around
  BY <1>1, <1>3, <1>4, Parts, AroundOK DEF Kept
<1> QED
  BY <1>1, <1>4, <1>5, AwaitOK

-----------------------------------------------------------------------------
(* Entries, exits and protective stops                                      *)

\* What cancel does to a resting stop and to its row.
LEMMA CancelIs ==
  ASSUME IInv, NEW i \in Intents, CancelOrder(i),
         UNCHANGED <<operator, moves, candle, recorded, position, rebuild, alerts, history>>
  PROVE  Kept /\ Around
<1> DEFINE canceled == [exch[i] EXCEPT !.status = "CANCELED"]
<1>1. \/ /\ exch[i].status = "OPEN"
         /\ Becomes(i, canceled)
         /\ ApplyReport(i, canceled) \/ UNCHANGED orders
      \/ UNCHANGED <<orders, market>>
  BY DEF CancelOrder
<1>2. faults' \in 0..MaxFaults
  BY Parts, ConstantsOK DEF CancelOrder, Fault
<1>3. CASE /\ exch[i].status = "OPEN" /\ Becomes(i, canceled)
           /\ ApplyReport(i, canceled) \/ UNCHANGED orders
  <2>1. /\ canceled \in ExchOrder /\ canceled.exec = exch[i].exec /\ canceled.status = "CANCELED"
        /\ RowOK(orders[i], canceled)
    BY <1>3, EndedOK
  <2>2. exch[i].exec <= canceled.exec
    BY <2>1, OrderFacts
  <2> HIDE DEF canceled
  <2>3. Kept
    BY <1>3, <2>1, <2>2, KeptBecomes
  <2>4. Around
    BY <1>2, <1>3, <2>1, <2>2, <2>3, AroundBecomes DEF Kept
  <2> QED
    BY <2>3, <2>4
<1>4. CASE UNCHANGED <<orders, market>>
  <2>1. Kept
    BY <1>4, KeptQuiet DEF market
  <2>2. Around
    BY <1>2, <1>4, <2>1, Parts, AroundOK DEF Kept, market
  <2> QED
    BY <2>1, <2>2
<1> QED
  BY <1>1, <1>3, <1>4

\* A step of an exit to its next point.
LEMMA ExitingOK ==
  ASSUME IInv, Kept, Around, cycle.pc \in Exiting, cycle' \in Cycle, cycle'.pc \in Exiting,
         cycle'.pc = "exit" => RestingStops' = {},
         cycle'.i \in Intents \/ cycle'.pc \in {"cancel", "exit"}, SameLocals
  PROVE  IInv'
<1>1. cycle'.todo \subseteq Intents
  BY Parts DEF SameLocals
<1>2. CycleOK'
  BY Parts DEF CycleOK, HasOrder, Exiting, SameLocals, Around, Kept
<1>3. InFlightOK'
  BY Parts DEF InFlightOK, Exiting, Kept
<1>4. SwitchesOK'
  BY Parts DEF SwitchesOK, Exiting, SameLocals, Around
<1> QED
  BY <1>1, <1>2, <1>3, <1>4, MoveOK

\* CancelStops keeps the invariant: it goes on to the sale when no stop rests.
LEMMA CancelStopsOK ==
  ASSUME IInv, CancelStops
  PROVE  IInv'
<1>1. /\ cycle.pc = "cancel"
      /\ UNCHANGED <<operator, moves, candle, recorded, position, rebuild, alerts, history>>
  BY DEF CancelStops
<1>2. CASE RestingStops = {} /\ Goto("exit") /\ UNCHANGED <<orders, market, faults>>
  <2>1. Kept
    BY <1>1, <1>2, KeptQuiet DEF market
  <2>2. Around
    BY <1>1, <1>2, <2>1, Parts, AroundOK DEF Kept, market
  <2>3. cycle' \in Cycle /\ cycle'.pc = "exit" /\ SameLocals
    BY <1>2, Parts, GotoIs DEF Point
  <2>4. RestingStops' = {}
    BY <1>2, <2>1 DEF Kept
  <2> QED
    BY <1>1, <2>1, <2>2, <2>3, <2>4, ExitingOK DEF Exiting
<1>3. ASSUME NEW i \in RestingStops, CancelOrder(i), cycle' = [cycle EXCEPT !.pc = "recheck", !.i = i]
      PROVE  IInv'
  <2>1. i \in Intents /\ i \in Intent
    BY OrderFacts DEF RestingStops, NonTerminal
  <2>2. Kept /\ Around
    BY <1>1, <1>3, <2>1, CancelIs
  <2>3. cycle' \in Cycle /\ cycle'.pc = "recheck" /\ cycle'.i = i /\ SameLocals
    BY <1>3, <2>1, Parts, GotoWith DEF Point
  <2> QED
    BY <1>1, <2>1, <2>2, <2>3, ExitingOK DEF Exiting
<1> QED
  BY <1>2, <1>3 DEF CancelStops

\* Going on after a cancel keeps the invariant.
LEMMA AfterCancelOK ==
  ASSUME IInv, Kept, Around, cycle.pc \in Exiting, NEW row, AfterCancel(row)
  PROVE  IInv'
<1>1. CASE Return
  BY <1>1, ReturnOK
<1>2. CASE cycle' = [cycle EXCEPT !.pc = "cancel", !.i = NoIntent]
  <2>1. cycle' \in Cycle /\ cycle'.pc = "cancel" /\ SameLocals
    BY <1>2, Parts, GotoWith, IdleOK DEF Point
  <2> QED
    BY <2>1, ExitingOK DEF Exiting
<1> QED
  BY <1>1, <1>2 DEF AfterCancel

\* RecheckStop keeps the invariant.
LEMMA RecheckStopOK ==
  ASSUME IInv, RecheckStop
  PROVE  IInv'
<1>1. /\ cycle.pc = "recheck"
      /\ UNCHANGED <<operator, moves, candle, recorded, position, exch, tape, held, rebuild,
                     alerts, history>>
      /\ \/ OnExchange(cycle.i) /\ ApplyReport(cycle.i, exch[cycle.i])
         \/ UNCHANGED orders
      /\ Return \/ Goto("recheckFills") \/ AfterCancel(orders[cycle.i])
      /\ UNCHANGED faults \/ Fault
  BY DEF RecheckStop, market
<1>2. cycle.i \in Intents
  BY <1>1, Parts DEF CycleOK, HasOrder
<1>3. faults' \in 0..MaxFaults
  BY <1>1, Parts, ConstantsOK DEF Fault
<1>4. Kept
  <2>1. CASE UNCHANGED orders
    BY <1>1, <2>1, KeptQuiet
  <2>2. CASE OnExchange(cycle.i) /\ ApplyReport(cycle.i, exch[cycle.i])
    BY <1>1, <1>2, <2>2, KeptReport
  <2> QED
    BY <1>1, <2>1, <2>2
<1>5. Around
  BY <1>1, <1>3, <1>4, Parts, AroundOK DEF Kept
<1>6. CASE Goto("recheckFills")
  <2>1. cycle' \in Cycle /\ cycle'.pc = "recheckFills" /\ cycle'.i = cycle.i /\ SameLocals
    BY <1>6, Parts, GotoIs DEF Point
  <2> QED
    BY <1>1, <1>2, <1>4, <1>5, <2>1, ExitingOK DEF Exiting
<1>7. CASE AfterCancel(orders[cycle.i])
  BY <1>1, <1>4, <1>5, <1>7, AfterCancelOK DEF Exiting
<1>8. CASE Return
  BY <1>4, <1>5, <1>8, ReturnOK
<1> QED
  BY <1>1, <1>6, <1>7, <1>8

\* RecheckFills keeps the invariant.
LEMMA RecheckFillsOK ==
  ASSUME IInv, RecheckFills
  PROVE  IInv'
<1>1. /\ cycle.pc = "recheckFills" /\ AfterCancel(orders[cycle.i])
      /\ UNCHANGED <<operator, moves, candle, orders, exch, tape, held, rebuild, alerts, history>>
      /\ \/ IngestFills(cycle.i) /\ UNCHANGED faults
         \/ Fault /\ UNCHANGED <<recorded, position>>
  BY DEF RecheckFills, market
<1>2. cycle.i \in Intents
  BY <1>1, Parts DEF CycleOK, HasOrder
<1>3. Kept /\ PosOK(position') /\ faults' \in 0..MaxFaults
  BY <1>1, <1>2, FillsKept
<1>4. Around
  BY <1>1, <1>3, Parts, AroundOK DEF Kept
<1> QED
  BY <1>1, <1>3, <1>4, AfterCancelOK DEF Exiting
\* A new order of an allowed kind.
LEMMA InsertOK ==
  ASSUME IInv, NEW i, NEW purpose \in Purpose, NEW base, NEW qty \in Nat \ {0},
         NextAttempt(i, purpose, base), Insert(i, qty),
         purpose = "ENTRY" => base \in 1..candle /\ qty = EntryQty,
         InFlight = {}, purpose \in Exits => RestingStops = {}, candle > 0,
         overdue > 0 => ~Forbidden(i),
         UNCHANGED <<operator, moves, candle, position, tape, held, rebuild, alerts, faults>>
  PROVE  IInv'
<1>1. /\ Intents' = Intents \cup {i} /\ i \notin Intents /\ Tables' /\ IntentsOK' /\ RowsOK'
      /\ i.purpose = purpose
      /\ \A j \in Intents : /\ orders'[j] = orders[j] /\ exch'[j] = exch[j]
                            /\ recorded'[j] = recorded[j]
      /\ orders'[i] = [status |-> "SUBMITTING", exec |-> 0, req |-> qty]
      /\ exch'[i] = Absent /\ recorded'[i] = {}
      /\ NonTerminal' = NonTerminal \cup {i}
  BY InsertStep
<1>2. i \in Intent
  BY DEF NextAttempt, UsedIntent
<1>3. cycle' = [Idle EXCEPT !.pc = "post", !.i = i]
  BY DEF Insert
<1>4. /\ cycle' \in Cycle /\ cycle'.pc = "post" /\ cycle'.i = i /\ cycle'.todo = {}
      /\ cycle'.p.qty = 0
  BY <1>2, <1>3, IdleOK DEF Cycle, Point
<1>5. PositionsOK'
  <2>1. Intents \X Nat \subseteq Intents' \X Nat
    BY <1>1
  <2>2. tape \in Seq(Intents' \X Nat)
    BY <2>1, Parts, SeqMonotonic
  <2> QED
    BY <2>2, Parts DEF PositionsOK, PosOK
<1>6. CycleOK'
  <2>1. orders'[i].status = "SUBMITTING" /\ exch'[i].status = "ABSENT"
    BY <1>1 DEF Absent
  <2> QED
    BY <1>1, <1>4, <2>1, Parts DEF CycleOK, HasOrder, Exiting
<1>7. InFlight' \subseteq {i}
  BY <1>1 DEF InFlight
<1>8. IsSell(i) => NonTerminal' \subseteq {i}
  BY <1>1 DEF InFlight, RestingStops, IsSell
<1>9. InFlightOK'
  BY <1>4, <1>7, <1>8 DEF InFlightOK, Exiting
<1>15. OneSelling'
  <2>1. ~IsSell(i) => Selling' \subseteq Selling
    BY <1>1 DEF Selling
  <2>2. IsSell(i) => Selling' \subseteq {i}
    BY <1>8 DEF Selling
  <2> QED
    BY <2>1, <2>2, Parts DEF OneSelling
<1>10. overdue' \in Nat /\ overdue' <= 1
  BY Parts DEF Insert, SwitchesOK
<1>11. SwitchesOK'
  BY <1>4, <1>10 DEF SwitchesOK, Exiting
<1>12. behind' \in BOOLEAN /\ overtaken' \in BOOLEAN
  BY Parts, CycleParts DEF Insert
<1>13. cycle'.todo \subseteq Intents'
  BY <1>4
<1>14. /\ enabled' \in BOOLEAN /\ emergency_stop' \in BOOLEAN /\ moves' \in 0..MaxMoves
       /\ candle' \in 0..MaxCandles
       /\ alerts' \subseteq Purpose \X Episode /\ faults' \in 0..MaxFaults
  BY Parts DEF operator
<1> QED
  BY <1>1, <1>4, <1>5, <1>6, <1>9, <1>10, <1>11, <1>12, <1>13, <1>14, <1>15, Together

\* Submitting with nothing in flight, a sale with no stop resting, keeps the
\* invariant; when an order is overdue, one the switches permit.
LEMMA SubmitOK ==
  ASSUME IInv, NEW purpose \in Purpose, NEW base \in Episode \ {0}, NEW qty \in Nat \ {0},
         Submit(purpose, base, qty),
         purpose = "ENTRY" => base \in 1..candle /\ qty = EntryQty,
         InFlight = {}, purpose \in Exits => RestingStops = {}, candle > 0,
         overdue > 0 /\ purpose = "ENTRY" => enabled /\ ~emergency_stop,
         overdue > 0 /\ purpose = "EXIT" => ~emergency_stop,
         UNCHANGED <<operator, moves, candle, position, tape, held, rebuild, faults>>
  PROVE  IInv'
<1>1. CASE /\ Return /\ UNCHANGED <<orders, exch, recorded, history>>
           /\ alerts' \in {alerts, alerts \cup {<<purpose, base>>}}
  <2>1. Kept
    BY <1>1, KeptQuiet
  <2>2. alerts' \subseteq Purpose \X Episode
    BY <1>1, Parts
  <2>3. Around
    BY <1>1, <2>1, <2>2, Parts, AroundOK DEF Kept
  <2> QED
    BY <1>1, <2>1, <2>3, ReturnOK
<1>2. ASSUME UNCHANGED alerts, NEW i, NextAttempt(i, purpose, base), Insert(i, qty)
      PROVE  IInv'
  <2>1. overdue > 0 => ~Forbidden(i)
    BY <1>2, Parts DEF Forbidden, NextAttempt
  <2> QED
    BY <1>2, <2>1, InsertOK
<1> QED
  BY <1>1, <1>2, SubmitIs

\* Enter keeps the invariant.
LEMMA EnterOK ==
  ASSUME IInv, Enter
  PROVE  IInv'
<1>1. cycle.pc = "entry" /\ UNCHANGED <<operator, moves, candle, position, tape, held, rebuild, faults>>
  BY DEF Enter
<1>2. CASE Return /\ UNCHANGED <<orders, exch, recorded, alerts, history>>
  <2>1. Kept
    BY <1>1, <1>2, KeptQuiet
  <2>2. Around
    BY <1>1, <1>2, <2>1, Parts, AroundOK DEF Kept
  <2> QED
    BY <1>2, <2>1, <2>2, ReturnOK
<1>3. CASE cycle.enabled /\ ~cycle.stopped /\ Submit("ENTRY", candle, EntryQty)
  <2>1. InFlight = {} /\ candle > 0
    BY <1>1, Parts DEF InFlightOK, CycleOK
  <2>2. candle \in 1..candle /\ EntryQty \in Nat \ {0}
    BY <2>1, Parts, ConstantsOK
  <2>3. candle \in Episode \ {0}
    <3>1. \A c \in 1..MaxCandles : c <= MaxCandles * EntryQty /\ MaxCandles * EntryQty \in Nat
      BY ConstantsOK
    <3>2. PICK t \in Nat : t = MaxCandles * EntryQty /\ candle <= t
      BY <2>1, <3>1, Parts
    <3> QED
      BY <2>1, <3>2, Parts DEF Episode
  <2>4. overdue > 0 => enabled /\ ~emergency_stop
    BY <1>1, <1>3, Parts DEF SwitchesOK
  <2>5. "ENTRY" \in Purpose /\ "ENTRY" \notin Exits
    BY DEF Purpose, Exits
  <2> QED
    BY <1>1, <1>3, <2>1, <2>2, <2>3, <2>4, <2>5, SubmitOK
<1> QED
  BY <1>2, <1>3 DEF Enter

\* Exit keeps the invariant.
LEMMA ExitOK ==
  ASSUME IInv, Exit
  PROVE  IInv'
<1>1. cycle.pc = "exit" /\ UNCHANGED <<operator, moves, candle, position, tape, held, rebuild, faults>>
  BY DEF Exit
<1>2. CASE Return /\ UNCHANGED <<orders, exch, recorded, alerts, history>>
  <2>1. Kept
    BY <1>1, <1>2, KeptQuiet
  <2>2. Around
    BY <1>1, <1>2, <2>1, Parts, AroundOK DEF Kept
  <2> QED
    BY <1>2, <2>1, <2>2, ReturnOK
<1>3. CASE position.qty # 0 /\ Submit(cycle.purpose, position.opened, position.qty)
  <2>1. InFlight = {} /\ RestingStops = {} /\ candle > 0
    BY <1>1, Parts DEF InFlightOK, CycleOK, Exiting
  <2>2. position.qty \in Nat \ {0} /\ position.opened \in Episode \ {0}
    BY <1>3, Parts DEF Position, PosOK
  <2>3. cycle.purpose \in {"EXIT", "STOP_EXIT"}
    BY <1>1, Parts DEF CycleOK, Exiting
  <2>4. overdue > 0 /\ cycle.purpose = "EXIT" => ~emergency_stop
    BY <1>1, Parts DEF SwitchesOK, Exiting
  <2>5. cycle.purpose \in Purpose /\ cycle.purpose # "ENTRY"
    BY <2>3 DEF Purpose, Exits
  <2> QED
    BY <1>1, <1>3, <2>1, <2>2, <2>4, <2>5, SubmitOK
<1> QED
  BY <1>2, <1>3 DEF Exit

\* EnsureProtectiveStop keeps the invariant.
LEMMA EnsureOK ==
  ASSUME IInv, EnsureProtectiveStop
  PROVE  IInv'
<1>1. cycle.pc = "protect" /\ UNCHANGED <<operator, moves, candle, position, tape, held, rebuild, faults>>
  BY DEF EnsureProtectiveStop
<1>2. CASE Return /\ UNCHANGED <<orders, exch, recorded, alerts, history>>
  <2>1. Kept
    BY <1>1, <1>2, KeptQuiet
  <2>2. Around
    BY <1>1, <1>2, <2>1, Parts, AroundOK DEF Kept
  <2> QED
    BY <1>2, <2>1, <2>2, ReturnOK
<1>3. CASE /\ RestingStops = {} /\ cycle.p.qty # 0
           /\ Submit("PROTECTIVE_STOP", cycle.p.opened, cycle.p.qty)
  <2>1. InFlight = {} /\ candle > 0
    BY <1>1, Parts DEF InFlightOK, CycleOK
  <2>2. cycle.p.qty \in Nat \ {0} /\ cycle.p.opened \in Episode
    BY <1>3, CycleParts DEF Position
  <2>3. cycle.p.opened \in Episode \ {0}
    BY <2>2, Parts DEF CycleOK
  <2>5. "PROTECTIVE_STOP" \in Purpose
    BY DEF Purpose, Exits
  <2> QED
    BY <1>1, <1>3, <2>1, <2>2, <2>3, <2>5, SubmitOK
<1> QED
  BY <1>2, <1>3 DEF EnsureProtectiveStop

-----------------------------------------------------------------------------
(* The theorems                                                             *)

\* The invariant holds at the start.
LEMMA InitOK ==
  ASSUME Init
  PROVE  IInv
<1>1. Intents = {}
  BY DEF Init, Intents
<1>2. PositionsOK
  <2>1. rebuild \in Rebuild /\ rebuild.p = NoPosition
    BY IdleOK, ConstantsOK DEF Init, Rebuild
  <2>2. tape \in Seq(Intents \X Nat)
    BY DEF Init
  <2> QED
    BY <2>1, <2>2, IdleOK DEF Init, PositionsOK, PosOK
<1>3. TypeOK
  <2>1. cycle \in Cycle /\ cycle.todo \subseteq Intents
    BY IdleOK DEF Init
  <2>2. enabled \in BOOLEAN /\ emergency_stop \in BOOLEAN
    BY DEF Init, Operator!Init
  <2>3. moves \in 0..MaxMoves /\ candle \in 0..MaxCandles /\ faults \in 0..MaxFaults
    BY ConstantsOK DEF Init
  <2>4. /\ orders \in [Intents -> Row] /\ exch \in [Intents -> ExchOrder]
        /\ recorded \in [Intents -> SUBSET Nat]
    BY <1>1 DEF Init
  <2>5. position \in Position /\ held \in Position /\ rebuild \in Rebuild
        /\ tape \in Seq(Intents \X Nat)
    BY <1>2 DEF PositionsOK, PosOK
  <2> QED
    BY <1>1, <2>1, <2>2, <2>3, <2>4, <2>5 DEF Init, TypeOK
<1>4. IntentsOK /\ RowsOK /\ OneSelling
  BY <1>1 DEF IntentsOK, RowsOK, OneSelling, Selling, NonTerminal
<1>5. CycleOK /\ InFlightOK /\ SwitchesOK
  BY IdleOK DEF Init, CycleOK, InFlightOK, SwitchesOK, HasOrder, Exiting
<1> QED
  BY <1>2, <1>3, <1>4, <1>5 DEF IInv

\* Every step keeps the invariant.
LEMMA StepOK ==
  ASSUME IInv, [Next]_vars
  PROVE  IInv'
<1>1. CASE UNCHANGED vars
  <2>1. Kept
    BY <1>1, KeptQuiet DEF vars, ledger, market
  <2>2. Around
    BY <1>1, <2>1, Parts, AroundOK DEF vars, Kept, ledger, market
  <2> QED
    BY <1>1, <2>1, <2>2, EnvOK DEF vars, ledger, market
<1>2. CASE CycleStep
  BY <1>2, ReadControlOK, PassGatesOK, SyncOrderOK, SyncFillsOK, DecideOK, SetStopOK, EnterOK,
     PostOK, ResolveOK, SubmitFillsOK, ArmEntryOK, CancelStopsOK, RecheckStopOK, RecheckFillsOK,
     ExitOK, EnsureOK DEF CycleStep
<1>3. CASE Crash \/ OperatorActs \/ RebuildRead \/ RebuildFold \/ RebuildSave
  BY <1>3, CrashOK, OperatorOK, RebuildOK
<1>4. CASE \E i \in Intents :
          \/ Arrive(i) \/ ExchangeTrade(i) \/ ExchangeExpire(i)
          \/ Observe(i) \/ IngestOne(i) \/ WriteOff(i)
  BY <1>4, ArriveOK, TradeOK, ExpireOK, ObserveOK, IngestOneOK, WriteOffOK
<1> QED
  BY <1>1, <1>2, <1>3, <1>4 DEF Next

\* The invariant holds in every execution of the worker beside the exchange, the
\* reconciliation worker with its rebuilds, and the operator.
THEOREM Invariance == Spec => []IInv
BY InitOK, StepOK, PTL DEF Spec

\* Every variable has its type: in particular nothing is recorded of an order
\* that it did not execute, and every intent is one an attempt may have.
THEOREM TypeCorrect == Spec => []TypeOK
<1>1. IInv => TypeOK
  BY DEF IInv
<1> QED
  BY <1>1, Invariance, PTL

\* The exchange never has two orders of the bot selling, however far the ledger
\* lags (in-flight check, cancel before an exit, look for a resting stop), but
\* for orders that were written off and arrived after all.
THEOREM SellsAlone == Spec => []OneSeller
<1>1. ASSUME IInv PROVE OneSeller
  <2> DEFINE S == Sellers \ Revived
  <2>1. S \subseteq Selling
    <3> SUFFICES ASSUME NEW i \in S PROVE i \in Selling
      OBVIOUS
    <3>1. /\ i \in Intents /\ IsSell(i) /\ exch[i].status = "OPEN"
          /\ orders[i].status # "REJECTED"
      BY DEF Sellers, Revived, OnExchange
    <3>2. orders[i].status \notin Terminal
      BY <1>1, <3>1, OrderFacts DEF RowOK, Terminal
    <3> QED
      BY <3>1, <3>2 DEF Selling, NonTerminal
  <2> HIDE DEF S
  <2>2. CASE S = {}
    BY <2>2, FS_EmptySet DEF OneSeller, S
  <2>3. ASSUME NEW i \in S PROVE OneSeller
    <3>1. S = {i}
      BY <1>1, <2>1, Parts DEF OneSelling
    <3>2. Cardinality(S) = 1
      BY <3>1, FS_Singleton
    <3> QED
      BY <3>2 DEF OneSeller, S
  <2> QED
    BY <2>2, <2>3
<1> QED
  BY <1>1, Invariance, PTL

\* A later attempt follows only attempts that executed nothing and never will,
\* but for those written off whose request may arrive late (_next_intent_id).
THEOREM RetriesOnlyUnexecuted == Spec => []RetryOnlyUnexecuted
<1>1. ASSUME IInv PROVE RetryOnlyUnexecuted
  <2> SUFFICES ASSUME NEW i \in Intents, i.attempt > 0
               PROVE LET previous == Attempt(i.purpose, i.base, i.attempt - 1)
                         writtenOff == orders[previous].status = "REJECTED" IN
                     \/ writtenOff /\ exch[previous].status # "ABSENT"
                     \/ exch[previous].exec = 0 /\ exch[previous].status \notin {"OPEN", "SENT"}
    BY DEF RetryOnlyUnexecuted
  <2> DEFINE j == Attempt(i.purpose, i.base, i.attempt - 1)
  <2>1. i.attempt \in Nat
    BY <1>1, OrderFacts, ConstantsOK DEF Intent
  <2>2. i.attempt - 1 \in 0..i.attempt - 1
    BY <2>1
  <2>3. j \in Intents /\ Retryable(j)
    BY <1>1, <2>2, Parts DEF IntentsOK
  <2> HIDE DEF j
  <2>4. \/ orders[j].status = "REJECTED" /\ exch[j].status # "ABSENT"
        \/ exch[j].exec = 0 /\ exch[j].status \notin {"OPEN", "SENT"}
    BY <1>1, <2>3, OrderFacts DEF Retryable, RowOK, OrderOK, Terminal
  <2> QED
    BY <2>4 DEF j
<1> QED
  BY <1>1, Invariance, PTL

\* After a move of a switch one order at most is still sent against it (the
\* control flags of run_once are read once).
THEOREM SwitchOvertakenOnce == Spec => []SwitchesOvertakenOnce
<1>1. IInv => SwitchesOvertakenOnce
  BY DEF IInv, SwitchesOK, SwitchesOvertakenOnce
<1> QED
  BY <1>1, Invariance, PTL
=============================================================================
