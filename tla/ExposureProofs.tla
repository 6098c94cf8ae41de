--------------------------- MODULE ExposureProofs ---------------------------
(***************************************************************************)
(* Proofs about TradingCycle, continued: how much the bot buys, holds and  *)
(* sells, for every value of the constants, in executions in which every   *)
(* order was decided on a positions row that was what the bot held         *)
(* (~behind) and no order arrived after it was written off (Revived = {}). *)
(*                                                                         *)
(* The argument is about what is held, which the executions make, and not  *)
(* about the positions row, which fills and rebuilds may get wrong at any  *)
(* time.  What is held is what was bought and not sold; one order at most  *)
(* is pending, a sale for no more than is held, an entry for no more than  *)
(* is missing to EntryQty (HeldOK).  An order is inserted when no other is *)
(* pending: the worker has seen none in flight, and a protective stop that *)
(* rests has nothing to sell when nothing is held.                         *)
(*                                                                         *)
(* The protective stop is submitted for the position read when the cycle   *)
(* decided.  Either that is what is held still, or an earlier protective   *)
(* stop of it has executed since, and then no attempt is left that would   *)
(* be submitted (NoneAfterExecuted).                                       *)
(***************************************************************************)
EXTENDS TradingCycleProofs

-----------------------------------------------------------------------------
(* Sums over orders                                                         *)

\* The units of the orders in S.
LEMMA UnitsMember ==
  ASSUME NEW f, NEW S, NEW u
  PROVE  u \in Units(f, S) <=> \E i \in S : \E k \in 1..f[i] : u = <<i, k>>
BY DEF Units

\* They are finitely many.
LEMMA UnitsFinite ==
  ASSUME NEW S, IsFiniteSet(S), NEW f, \A i \in S : f[i] \in Nat
  PROVE  IsFiniteSet(Units(f, S))
<1> DEFINE g == [i \in S |-> {i} \X (1..f[i])]
           T == {{i} \X (1..f[i]) : i \in S}
<1>1. g \in Surjection(S, T)
  BY DEF Surjection
<1>2. IsFiniteSet(T)
  BY <1>1, FS_Surjection
<1>3. ASSUME NEW i \in S PROVE IsFiniteSet({i} \X (1..f[i]))
  <2>1. PICK n \in Nat : n = f[i]
    OBVIOUS
  <2>2. IsFiniteSet(1..n) /\ IsFiniteSet({i})
    <3>1. IsFiniteSet(1..n)
      BY FS_Interval
    <3>2. IsFiniteSet({i})
      BY FS_Singleton
    <3> QED
      BY <3>1, <3>2
  <2>3. IsFiniteSet({i} \X (1..n))
    BY <2>2, FS_Product
  <2> QED
    BY <2>1, <2>3
<1>4. \A X \in T : IsFiniteSet(X)
  BY <1>3
<1> HIDE DEF T
<1>5. IsFiniteSet(UNION T)
  BY <1>2, <1>4, FS_UNION
<1> QED
  BY <1>5 DEF Units, T

\* A finite sum of naturals is a natural.
LEMMA SumType ==
  ASSUME NEW S, IsFiniteSet(S), NEW f, \A i \in S : f[i] \in Nat
  PROVE  SumOver(f, S) \in Nat
BY UnitsFinite, FS_CardinalityType DEF SumOver

\* Equal terms have equal sums.
LEMMA SumSame ==
  ASSUME NEW S, NEW f, NEW g, \A i \in S : f[i] = g[i]
  PROVE  SumOver(f, S) = SumOver(g, S)
<1>1. Units(f, S) = Units(g, S)
  BY UnitsMember DEF Units
<1> QED
  BY <1>1 DEF SumOver

\* The sum with one more term.
LEMMA SumAdd ==
  ASSUME NEW S, IsFiniteSet(S), NEW x, x \notin S, NEW f, \A i \in S \cup {x} : f[i] \in Nat
  PROVE  SumOver(f, S \cup {x}) = SumOver(f, S) + f[x]
<1> DEFINE U == Units(f, S)
           V == {x} \X (1..f[x])
<1>1. Units(f, S \cup {x}) = U \cup V
  BY DEF Units
<1>2. U \cap V = {}
  BY UnitsMember
<1>3. IsFiniteSet(U) /\ Cardinality(U) \in Nat
  BY UnitsFinite, FS_CardinalityType
<1>4. IsFiniteSet(V) /\ Cardinality(V) = f[x]
  <2>1. IsFiniteSet({x}) /\ Cardinality({x}) = 1
    BY FS_Singleton
  <2>2. f[x] \in Nat
    OBVIOUS
  <2>3. IsFiniteSet(1..f[x]) /\ Cardinality(1..f[x]) = f[x]
    <3>1. PICK n \in Nat : n = f[x]
      BY <2>2
    <3>2. IsFiniteSet(1..n) /\ Cardinality(1..n) = IF 1 > n THEN 0 ELSE n - 1 + 1
      BY FS_Interval
    <3>3. Cardinality(1..n) = n
      BY <3>2
    <3> QED
      BY <3>1, <3>2, <3>3
  <2>4. IsFiniteSet(V) /\ Cardinality(V) = 1 * f[x]
    BY <2>1, <2>3, FS_Product
  <2> QED
    BY <2>2, <2>4
<1> HIDE DEF U, V
<1>5. Cardinality(U \cup V) = Cardinality(U) + Cardinality(V) - Cardinality({})
  BY <1>2, <1>3, <1>4, FS_Union
<1>6. f[x] \in Nat
  OBVIOUS
<1>7. Cardinality(U \cup V) = Cardinality(U) + f[x]
  BY <1>3, <1>4, <1>5, <1>6, FS_EmptySet
<1> QED
  BY <1>1, <1>7 DEF SumOver, U

\* The sum when one term changes.
LEMMA SumChange ==
  ASSUME NEW S, IsFiniteSet(S), NEW f, NEW g, NEW x \in S,
         \A i \in S : f[i] \in Nat /\ g[i] \in Nat, \A i \in S \ {x} : f[i] = g[i]
  PROVE  SumOver(g, S) + f[x] = SumOver(f, S) + g[x]
<1> DEFINE R == S \ {x}
<1>1. IsFiniteSet(R) /\ S = R \cup {x} /\ x \notin R
  BY FS_RemoveElement
<1>2. \A i \in R \cup {x} : f[i] \in Nat /\ g[i] \in Nat
  OBVIOUS
<1>3. SumOver(f, R) = SumOver(g, R)
  BY SumSame
<1> HIDE DEF R
<1>4. SumOver(f, R \cup {x}) = SumOver(f, R) + f[x]
  BY <1>1, <1>2, SumAdd
<1>5. SumOver(g, R \cup {x}) = SumOver(g, R) + g[x]
  BY <1>1, <1>2, SumAdd
<1>6. SumOver(f, R) \in Nat /\ f[x] \in Nat /\ g[x] \in Nat
  BY <1>1, <1>2, SumType
<1> QED
  BY <1>1, <1>3, <1>4, <1>5, <1>6

-----------------------------------------------------------------------------
(* The invariant                                                            *)

\* The orders that buy.
Buys == {i \in Intents : ~IsSell(i)}
\* The orders that sell.
Sells == {i \in Intents : IsSell(i)}

\* The orders that may still execute, as far as the ledger knows of them.
Pending == {i \in NonTerminal : exch[i].status \in {"ABSENT", "SENT", "OPEN"}}
\* What such an order may still execute.
Remaining(i) == orders[i].req - exch[i].exec

\* What is held, and what the pending order may make of it.
HeldOK ==
    /\ held.qty + Sold = Bought
    /\ held.qty <= EntryQty
    /\ \A i, j \in Pending : i = j
    /\ \A i \in Pending : IsSell(i) => Remaining(i) <= held.qty /\ i.base = held.opened
    /\ \A i \in Pending : ~IsSell(i) => held.qty + Remaining(i) <= EntryQty

\* A protective stop of this position has executed.
StopExecuted(opened) ==
    \E i \in Intents : i.purpose = "PROTECTIVE_STOP" /\ i.base = opened /\ exch[i].exec > 0

\* The position the protective stop is for is the one held, or a protective stop
\* of it has executed since it was read.
ProtectOK ==
    cycle.pc = "protect" /\ ~cycle.behind =>
       \/ cycle.p.qty = held.qty /\ cycle.p.opened = held.opened
       \/ StopExecuted(cycle.p.opened)

\* The inductive invariant.
ExposureIInv ==
    /\ IInv /\ IsFiniteSet(Intents)
    /\ ~behind /\ Revived = {} => HeldOK /\ ProtectOK

\* What was bought and sold are numbers.
LEMMA BoughtSold ==
  ASSUME IInv, IsFiniteSet(Intents)
  PROVE  /\ Bought = SumOver(Executed, Buys) /\ Sold = SumOver(Executed, Sells)
         /\ Bought \in Nat /\ Sold \in Nat
         /\ IsFiniteSet(Buys) /\ IsFiniteSet(Sells)
         /\ \A i \in Intents : Executed[i] = exch[i].exec /\ Executed[i] \in Nat
<1>1. IsFiniteSet(Buys) /\ IsFiniteSet(Sells)
  <2>1. Buys \in SUBSET Intents /\ Sells \in SUBSET Intents
    BY DEF Buys, Sells
  <2> QED
    BY <2>1, FS_Subset
<1>2. \A i \in Intents : Executed[i] = exch[i].exec /\ Executed[i] \in Nat
  BY OrderFacts DEF Executed
<1>3. Bought = SumOver(Executed, Buys) /\ Sold = SumOver(Executed, Sells)
  BY DEF Bought, Sold, Buys, Sells
<1>4. SumOver(Executed, Buys) \in Nat
  <2>1. \A i \in Buys : Executed[i] \in Nat
    BY <1>2 DEF Buys
  <2> QED
    BY <1>1, <2>1, SumType
<1>5. SumOver(Executed, Sells) \in Nat
  <2>1. \A i \in Sells : Executed[i] \in Nat
    BY <1>2 DEF Sells
  <2> QED
    BY <1>1, <2>1, SumType
<1> QED
  BY <1>1, <1>2, <1>3, <1>4, <1>5

\* The same number of executions.
LEMMA SameSums ==
  ASSUME Intents' = Intents, UNCHANGED exch
  PROVE  Bought' = Bought /\ Sold' = Sold
<1>1. Executed' = Executed
  BY DEF Executed
<1> QED
  BY <1>1 DEF Bought, Sold, IsSell, SumOver, Units

\* One order executes n units more.
LEMMA MoreSums ==
  ASSUME IInv, IsFiniteSet(Intents), NEW i \in Intents, NEW e \in ExchOrder, Intents' = Intents,
         exch' = [exch EXCEPT ![i] = e], NEW n \in Nat, e.exec = exch[i].exec + n
  PROVE  /\ IsSell(i) => Sold' = Sold + n /\ Bought' = Bought
         /\ ~IsSell(i) => Bought' = Bought + n /\ Sold' = Sold
<1> DEFINE f == Executed
           g == [j \in Intents |-> exch'[j].exec]
<1>1. /\ \A j \in Intents : f[j] \in Nat /\ g[j] \in Nat
      /\ \A j \in Intents : j # i => f[j] = g[j]
      /\ f[i] = exch[i].exec /\ g[i] = e.exec
  <2>1. e.exec \in Nat /\ exch'[i] = e /\ \A j \in Intents : j # i => exch'[j] = exch[j]
    BY Parts DEF Tables, ExchOrder
  <2> QED
    BY <2>1, BoughtSold
<1>2. Executed' = g
  BY DEF Executed
<1>3. Bought' = SumOver(g, Buys) /\ Sold' = SumOver(g, Sells)
  BY <1>2 DEF Bought, Sold, Buys, Sells, IsSell, SumOver, Units
<1>4. /\ Bought = SumOver(f, Buys) /\ Sold = SumOver(f, Sells)
      /\ Bought \in Nat /\ Sold \in Nat /\ IsFiniteSet(Buys) /\ IsFiniteSet(Sells)
  BY BoughtSold
<1>5. Buys \subseteq Intents /\ Sells \subseteq Intents
  BY DEF Buys, Sells
<1> HIDE DEF f, g
<1>6. CASE IsSell(i)
  <2>1. i \in Sells /\ i \notin Buys
    BY <1>6 DEF Sells, Buys
  <2>2. \A j \in Buys : f[j] = g[j]
    BY <1>1, <1>5, <2>1
  <2>3. SumOver(f, Buys) = SumOver(g, Buys)
    BY <2>2, SumSame
  <2>4. /\ \A j \in Sells : f[j] \in Nat /\ g[j] \in Nat
        /\ \A j \in Sells \ {i} : f[j] = g[j]
    BY <1>1, <1>5
  <2>5. SumOver(g, Sells) + f[i] = SumOver(f, Sells) + g[i]
    BY <1>4, <2>1, <2>4, SumChange
  <2>6. SumOver(g, Sells) \in Nat
    BY <1>4, <2>4, SumType
  <2> QED
    BY <1>1, <1>3, <1>4, <1>6, <2>3, <2>5, <2>6
<1>7. CASE ~IsSell(i)
  <2>1. i \in Buys /\ i \notin Sells
    BY <1>7 DEF Sells, Buys
  <2>2. \A j \in Sells : f[j] = g[j]
    BY <1>1, <1>5, <2>1
  <2>3. SumOver(f, Sells) = SumOver(g, Sells)
    BY <2>2, SumSame
  <2>4. /\ \A j \in Buys : f[j] \in Nat /\ g[j] \in Nat
        /\ \A j \in Buys \ {i} : f[j] = g[j]
    BY <1>1, <1>5
  <2>5. SumOver(g, Buys) + f[i] = SumOver(f, Buys) + g[i]
    BY <1>4, <2>1, <2>4, SumChange
  <2>6. SumOver(g, Buys) \in Nat
    BY <1>4, <2>4, SumType
  <2> QED
    BY <1>1, <1>3, <1>4, <1>7, <2>3, <2>5, <2>6
<1> QED
  BY <1>6, <1>7

\* A new order has executed nothing.
LEMMA NewSums ==
  ASSUME IInv, IsFiniteSet(Intents), NEW i, i \notin Intents, Intents' = Intents \cup {i},
         exch'[i].exec = 0, \A j \in Intents : exch'[j] = exch[j]
  PROVE  Bought' = Bought /\ Sold' = Sold
<1> DEFINE g == [j \in Intents' |-> exch'[j].exec]
           f == Executed
<1>1. /\ \A j \in Intents : f[j] = g[j] /\ f[j] \in Nat
      /\ g[i] = 0
  BY BoughtSold
<1>2. Executed' = g
  BY DEF Executed
<1>3. /\ Bought = SumOver(f, Buys) /\ Sold = SumOver(f, Sells) /\ Bought \in Nat /\ Sold \in Nat
      /\ IsFiniteSet(Buys) /\ IsFiniteSet(Sells)
  BY BoughtSold
<1>4. /\ Bought' = SumOver(g, {j \in Intents' : ~IsSell(j)})
      /\ Sold' = SumOver(g, {j \in Intents' : IsSell(j)})
  BY <1>2 DEF Bought, Sold, IsSell, SumOver, Units
<1> HIDE DEF f, g
<1>5. SumOver(g, Buys) = SumOver(f, Buys) /\ SumOver(g, Sells) = SumOver(f, Sells)
  <2>1. (\A j \in Buys : g[j] = f[j]) /\ (\A j \in Sells : g[j] = f[j])
    BY <1>1 DEF Buys, Sells
  <2>2. SumOver(g, Buys) = SumOver(f, Buys)
    BY <2>1, SumSame
  <2>3. SumOver(g, Sells) = SumOver(f, Sells)
    BY <2>1, SumSame
  <2> QED
    BY <2>2, <2>3
<1>6. CASE IsSell(i)
  <2>1. {j \in Intents' : ~IsSell(j)} = Buys /\ {j \in Intents' : IsSell(j)} = Sells \cup {i}
    BY <1>6 DEF Buys, Sells
  <2>2. i \notin Sells /\ \A j \in Sells \cup {i} : g[j] \in Nat
    BY <1>1 DEF Sells
  <2>3. SumOver(g, Sells \cup {i}) = SumOver(g, Sells) + g[i]
    BY <1>3, <2>2, SumAdd
  <2> QED
    BY <1>1, <1>3, <1>4, <1>5, <2>1, <2>3
<1>7. CASE ~IsSell(i)
  <2>1. {j \in Intents' : ~IsSell(j)} = Buys \cup {i} /\ {j \in Intents' : IsSell(j)} = Sells
    BY <1>7 DEF Buys, Sells
  <2>2. i \notin Buys /\ \A j \in Buys \cup {i} : g[j] \in Nat
    BY <1>1 DEF Buys
  <2>3. SumOver(g, Buys \cup {i}) = SumOver(g, Buys) + g[i]
    BY <1>3, <2>2, SumAdd
  <2> QED
    BY <1>1, <1>3, <1>4, <1>5, <2>1, <2>3
<1> QED
  BY <1>6, <1>7

-----------------------------------------------------------------------------
(* What a step does to what is held                                         *)

\* At most a row changes that is not terminal, and its status and its executions.
RowsStay ==
    /\ Intents' = Intents
    /\ \A j \in Intents : /\ orders'[j].req = orders[j].req
                          /\ orders[j].status \in Terminal => orders'[j] = orders[j]

\* Applying a report changes no terminal row.
LEMMA ReportRows ==
  ASSUME IInv, NEW i \in Intents, NEW e, ApplyReport(i, e) \/ UNCHANGED orders
  PROVE  RowsStay
<1>1. orders \in [Intents -> Row]
  BY Parts DEF Tables
<1>2. CASE UNCHANGED orders \/ orders[i].status \in Terminal
  <2>1. orders' = orders
    BY <1>2 DEF ApplyReport
  <2> QED
    BY <2>1 DEF RowsStay, Intents
<1>3. CASE ApplyReport(i, e) /\ orders[i].status \notin Terminal
  <2> DEFINE row == [orders[i] EXCEPT !.status = e.status, !.exec = e.exec]
  <2>1. row.req = orders[i].req
    BY <1>1 DEF Row
  <2>2. orders' = [orders EXCEPT ![i] = row]
    BY <1>1, <1>3 DEF ApplyReport
  <2> HIDE DEF row
  <2>3. Intents' = Intents
    BY <1>1, <2>2 DEF Intents
  <2> QED
    BY <1>1, <1>3, <2>1, <2>2, <2>3 DEF RowsStay
<1> QED
  BY <1>2, <1>3

\* Nor does writing an order off.
LEMMA RejectRows ==
  ASSUME IInv, NEW i \in Intents, orders[i].status = "SUBMITTING",
         orders' = [orders EXCEPT ![i].status = "REJECTED"]
  PROVE  RowsStay
<1>1. orders \in [Intents -> Row]
  BY Parts DEF Tables
<1> DEFINE row == [orders[i] EXCEPT !.status = "REJECTED"]
<1>2. row.req = orders[i].req
  BY <1>1 DEF Row
<1>3. orders' = [orders EXCEPT ![i] = row]
  BY <1>1
<1> HIDE DEF row
<1>4. Intents' = Intents
  BY <1>1, <1>3 DEF Intents
<1> QED
  BY <1>1, <1>2, <1>3, <1>4 DEF RowsStay, Terminal

\* What the worker has read when it comes to look at the protective stop.
Looks ==
    cycle'.pc = "protect" =>
       \/ cycle' = cycle
       \/ /\ cycle'.p.qty = position.qty /\ cycle'.p.opened = position.opened
          /\ cycle'.behind <=> Behind

\* A step that changes nothing on the exchange keeps the invariant.
LEMMA StillOK ==
  ASSUME ExposureIInv, IInv', RowsStay, UNCHANGED <<exch, held, behind>>, Looks
  PROVE  ExposureIInv'
<1>1. IsFiniteSet(Intents)' /\ Intents' = Intents /\ exch' = exch /\ held' = held
  BY DEF ExposureIInv, RowsStay
<1>2. ASSUME ~behind', Revived' = {}
      PROVE  HeldOK' /\ ProtectOK'
  <2>1. Revived \subseteq Revived'
    BY <1>1 DEF Revived, OnExchange, RowsStay, Terminal
  <2>2. HeldOK /\ ProtectOK
    BY <1>2, <2>1 DEF ExposureIInv
  <2>3. Bought' = Bought /\ Sold' = Sold
    BY <1>1, SameSums
  <2>4. Pending' \subseteq Pending
    BY <1>1 DEF Pending, NonTerminal, RowsStay
  <2>5. \A i \in Intents : Remaining(i)' = Remaining(i)
    BY <1>1 DEF Remaining, RowsStay
  <2>6. HeldOK'
    <3>1. \A i \in Pending : i \in Intents
      BY DEF Pending, NonTerminal
    <3> QED
      BY <1>1, <2>2, <2>3, <2>4, <2>5, <3>1 DEF HeldOK, IsSell
  <2>7. ProtectOK'
    <3> SUFFICES ASSUME cycle'.pc = "protect", ~cycle'.behind
                 PROVE  \/ cycle'.p.qty = held.qty /\ cycle'.p.opened = held.opened
                        \/ StopExecuted(cycle'.p.opened)
      BY <1>1 DEF ProtectOK, StopExecuted
    <3>1. CASE cycle' = cycle
      BY <2>2, <3>1 DEF ProtectOK
    <3>2. CASE /\ cycle'.p.qty = position.qty /\ cycle'.p.opened = position.opened
               /\ cycle'.behind <=> Behind
      BY <3>2 DEF Behind
    <3> QED
      BY <3>1, <3>2 DEF Looks
  <2> QED
    BY <2>6, <2>7
<1> QED
  BY <1>1, <1>2 DEF ExposureIInv

\* What an order that executes is: the one that is pending.
LEMMA ExecutesPending ==
  ASSUME ExposureIInv, NEW i \in Intents, NEW e \in ExchOrder, exch' = [exch EXCEPT ![i] = e],
         RowsStay, exch[i].status \in {"ABSENT", "SENT", "OPEN"},
         e.status \in {"ABSENT", "SENT"} =>
            exch[i].status = "ABSENT" /\ orders[i].status = "SUBMITTING",
         ~behind, Revived' = {}
  PROVE  HeldOK /\ ProtectOK /\ i \in Pending /\ Pending = {i}
<1>0. IInv /\ exch \in [Intents -> ExchOrder] /\ Intents' = Intents
  BY Parts DEF ExposureIInv, Tables, RowsStay
<1>1. exch'[i] = e /\ \A j \in Intents : j # i => exch'[j] = exch[j]
  BY <1>0
<1>2. Revived \subseteq Revived'
  <2> SUFFICES ASSUME NEW j \in Revived PROVE j \in Revived'
    OBVIOUS
  <2>1. j \in Intents /\ orders'[j].status = "REJECTED"
    BY DEF Revived, RowsStay, Terminal
  <2>2. exch'[j].status \notin {"ABSENT", "SENT"}
    BY <1>1, <2>1 DEF Revived, OnExchange
  <2> QED
    BY <1>0, <2>1, <2>2 DEF Revived, OnExchange
<1>3. HeldOK /\ ProtectOK
  BY <1>2 DEF ExposureIInv
<1>4. orders[i].status \notin Terminal
  <2>1. CASE orders[i].status = "REJECTED"
    <3>1. e.status \notin {"ABSENT", "SENT"}
      BY <2>1
    <3>2. i \in Revived'
      BY <1>0, <1>1, <2>1, <3>1 DEF Revived, OnExchange, RowsStay, Terminal
    <3> QED
      BY <3>2
  <2>2. CASE orders[i].status # "REJECTED"
    BY <1>0, <2>2, OrderFacts DEF RowOK, Terminal
  <2> QED
    BY <2>1, <2>2
<1>5. i \in Pending
  BY <1>4 DEF Pending, NonTerminal
<1> QED
  BY <1>3, <1>5 DEF HeldOK

\* Units execute, or the order moves on or ends: the invariant is kept.
LEMMA ExecuteOK ==
  ASSUME ExposureIInv, IInv', NEW i \in Intents, NEW e \in ExchOrder, Becomes(i, e),
         OrderOK(orders[i].req, e), exch[i].exec <= e.exec, RowsStay,
         exch[i].status \in {"ABSENT", "SENT", "OPEN"},
         e.status \in {"ABSENT", "SENT"} =>
            exch[i].status = "ABSENT" /\ orders[i].status = "SUBMITTING",
         UNCHANGED behind, cycle'.pc = "protect" => cycle' = cycle
  PROVE  ExposureIInv'
<1>0. /\ IInv /\ exch \in [Intents -> ExchOrder] /\ Intents' = Intents /\ IsFiniteSet(Intents)
      /\ IsFiniteSet(Intents)'
  BY Parts DEF ExposureIInv, Tables, RowsStay
<1>1. exch' = [exch EXCEPT ![i] = e]
  BY DEF Becomes
<1>2. exch'[i] = e /\ \A j \in Intents : j # i => exch'[j] = exch[j]
  BY <1>0, <1>1
<1> DEFINE n == e.exec - exch[i].exec
<1>3. /\ n \in Nat /\ e.exec = exch[i].exec + n /\ exch[i].exec \in Nat /\ e.exec \in Nat
      /\ orders[i].req \in Nat /\ e.exec <= orders[i].req
  BY <1>0, OrderFacts DEF ExchOrder, OrderOK
<1>4. held' = Accounted(held, i, n, exch[i].exec + 1)
  BY DEF Becomes
<1> HIDE DEF n
<1>5. ASSUME ~behind', Revived' = {}
      PROVE  HeldOK' /\ ProtectOK'
  <2>1. HeldOK /\ ProtectOK /\ i \in Pending /\ Pending = {i}
    BY <1>1, <1>5, ExecutesPending
  <2>2. /\ held \in Position /\ held.qty \in Nat /\ Bought \in Nat /\ Sold \in Nat
        /\ EntryQty \in Nat
    BY <1>0, Parts, BoughtSold, ConstantsOK DEF PosOK, Position
  <2>3. Pending' \subseteq {i}
    BY <1>0, <1>2, <2>1 DEF Pending, NonTerminal, RowsStay
  <2>4. /\ Remaining(i) = orders[i].req - exch[i].exec
        /\ Remaining(i)' = orders[i].req - e.exec
    BY <1>2 DEF Remaining, RowsStay
  <2>5. i \in Pending' => orders[i].req - e.exec > 0
    <3>1. i \in Pending' => e.status \in {"ABSENT", "SENT", "OPEN"}
      BY <1>2 DEF Pending
    <3>2. e.status \in {"ABSENT", "SENT"} => exch[i].exec = 0 /\ e.exec = 0 /\ orders[i].req > 0
      BY <1>0, OrderFacts DEF OrderOK
    <3>3. e.status = "OPEN" => e.exec < orders[i].req
      BY DEF OrderOK
    <3> QED
      BY <1>3, <3>1, <3>2, <3>3
  <2>6. /\ IsSell(i) => Sold' = Sold + n /\ Bought' = Bought
        /\ ~IsSell(i) => Bought' = Bought + n /\ Sold' = Sold
    BY <1>0, <1>1, <1>3, MoreSums
  <2>7. CASE ~IsSell(i)
    <3>1. held.qty + (orders[i].req - exch[i].exec) <= EntryQty
      BY <2>1, <2>4, <2>7 DEF HeldOK
    <3>2. held'.qty = held.qty + n
      <4>1. CASE n = 0
        BY <1>4, <2>2, <4>1 DEF Accounted
      <4>2. CASE n # 0
        <5>1. held' = [held EXCEPT !.qty = @ + n,
                                   !.opened = IF held.qty = 0 THEN OpenedBy(i, exch[i].exec + 1)
                                              ELSE @]
          BY <1>4, <2>7, <4>2 DEF Accounted
        <5>2. PICK o : o = IF held.qty = 0 THEN OpenedBy(i, exch[i].exec + 1) ELSE held.opened
          OBVIOUS
        <5>3. held' = [held EXCEPT !.qty = held.qty + n, !.opened = o]
          BY <5>1, <5>2
        <5> QED
          BY <2>2, <5>3 DEF Position
      <4> QED
        BY <4>1, <4>2
    <3>3. held'.qty + Sold' = Bought' /\ held'.qty <= EntryQty
          /\ held'.qty + (orders[i].req - e.exec) <= EntryQty
      BY <1>3, <2>1, <2>2, <2>6, <2>7, <3>1, <3>2 DEF HeldOK
    <3>4. HeldOK'
      BY <2>3, <2>4, <2>7, <3>3 DEF HeldOK, IsSell
    <3>5. cycle.pc = "protect" => FALSE
      <4>1. i \in NonTerminal /\ i.purpose # "PROTECTIVE_STOP"
        BY <2>1, <2>7 DEF Pending, IsSell, Exits
      <4> QED
        BY <1>0, <4>1, Parts DEF InFlightOK, InFlight
    <3>6. ProtectOK'
      BY <3>5 DEF ProtectOK
    <3> QED
      BY <3>4, <3>6
  <2>8. CASE IsSell(i)
    <3>1. orders[i].req - exch[i].exec <= held.qty /\ i.base = held.opened
      BY <2>1, <2>4, <2>8 DEF HeldOK
    <3>2. n <= held.qty
      BY <1>3, <2>2, <3>1
    <3>3. held'.qty = held.qty - n /\ (held'.qty > 0 => held'.opened = held.opened)
      <4>1. CASE n = 0
        BY <1>4, <2>2, <4>1 DEF Accounted
      <4>2. CASE n # 0 /\ n >= held.qty
        <5>1. held' = NoPosition
          BY <1>4, <2>8, <4>2 DEF Accounted
        <5> QED
          BY <1>3, <2>2, <3>2, <4>2, <5>1 DEF NoPosition
      <4>3. CASE n # 0 /\ ~(n >= held.qty)
        <5>1. held' = [held EXCEPT !.qty = @ - n]
          BY <1>4, <2>8, <4>3 DEF Accounted
        <5> QED
          BY <2>2, <5>1 DEF Position
      <4> QED
        BY <4>1, <4>2, <4>3
    <3>4. held'.qty + Sold' = Bought' /\ held'.qty <= EntryQty
          /\ orders[i].req - e.exec <= held'.qty
      BY <1>3, <2>1, <2>2, <2>6, <2>8, <3>1, <3>2, <3>3 DEF HeldOK
    <3>5. i \in Pending' => i.base = held'.opened
      <4>1. i \in Pending' => held'.qty > 0
        BY <1>3, <2>2, <2>5, <3>2, <3>3, <3>4
      <4> QED
        BY <3>1, <3>3, <4>1
    <3>6. HeldOK'
      BY <2>3, <2>4, <2>8, <3>4, <3>5 DEF HeldOK, IsSell
    <3>7. ProtectOK'
      <4> SUFFICES ASSUME cycle'.pc = "protect", ~cycle'.behind
                   PROVE  \/ cycle'.p.qty = held'.qty /\ cycle'.p.opened = held'.opened
                          \/ \E j \in Intents : /\ j.purpose = "PROTECTIVE_STOP"
                                               /\ j.base = cycle'.p.opened
                                               /\ exch'[j].exec > 0
        BY <1>0 DEF ProtectOK, StopExecuted
      <4>1. cycle' = cycle
        OBVIOUS
      <4>2. i.purpose = "PROTECTIVE_STOP"
        <5>1. i \in NonTerminal /\ InFlight = {}
          BY <1>0, <2>1, <4>1, Parts DEF Pending, InFlightOK
        <5> QED
          BY <5>1 DEF InFlight
      <4>3. CASE StopExecuted(cycle.p.opened)
        <5>1. PICK j \in Intents : /\ j.purpose = "PROTECTIVE_STOP" /\ j.base = cycle.p.opened
                                   /\ exch[j].exec > 0
          BY <4>3 DEF StopExecuted
        <5>2. exch'[j].exec > 0
          BY <1>2, <1>3, <5>1
        <5> QED
          BY <4>1, <5>1, <5>2
      <4>4. CASE cycle.p.qty = held.qty /\ cycle.p.opened = held.opened /\ n = 0
        <5>1. held' = held
          BY <1>4, <4>4 DEF Accounted
        <5> QED
          BY <4>1, <4>4, <5>1
      <4>5. CASE cycle.p.qty = held.qty /\ cycle.p.opened = held.opened /\ n # 0
        <5>1. exch'[i].exec > 0
          BY <1>2, <1>3, <4>5
        <5> QED
          BY <3>1, <4>1, <4>2, <4>5, <5>1
      <4> QED
        BY <2>1, <4>1, <4>3, <4>4, <4>5 DEF ProtectOK
    <3> QED
      BY <3>6, <3>7
  <2> QED
    BY <2>7, <2>8
<1> QED
  BY <1>0, <1>5 DEF ExposureIInv

-----------------------------------------------------------------------------
(* The insertion of an order                                                *)

\* After a protective stop that executed, no attempt is left for its position.
LEMMA NoneAfterExecuted ==
  ASSUME IInv, Revived = {}, NEW i, NEW base, NextAttempt(i, "PROTECTIVE_STOP", base),
         StopExecuted(base)
  PROVE  FALSE
<1>1. PICK j \in Intents : /\ j.purpose = "PROTECTIVE_STOP" /\ j.base = base
                           /\ exch[j].exec > 0
  BY DEF StopExecuted
<1>2. /\ i \in UsedIntent /\ i \notin Intents /\ i.purpose = "PROTECTIVE_STOP" /\ i.base = base
      /\ \A n \in 0..i.attempt - 1 :
            Attempt("PROTECTIVE_STOP", base, n) \in Intents
            /\ Retryable(Attempt("PROTECTIVE_STOP", base, n))
  BY DEF NextAttempt
<1>3. j \in Intent /\ i \in Intent
  BY <1>2, OrderFacts DEF UsedIntent
<1>4. j = Attempt("PROTECTIVE_STOP", base, j.attempt) /\ i = Attempt("PROTECTIVE_STOP", base, i.attempt)
      /\ j.attempt \in Nat /\ i.attempt \in Nat
  BY <1>1, <1>2, <1>3, ConstantsOK DEF Intent, Attempt
<1>5. CASE j.attempt < i.attempt
  <2>1. j.attempt \in 0..i.attempt - 1
    BY <1>4, <1>5
  <2>2. Retryable(j)
    BY <1>2, <1>4, <2>1
  <2>3. ~OnExchange(j) \/ orders[j].status # "REJECTED"
    BY DEF Revived
  <2>4. exch[j].exec = 0
    BY <2>2, <2>3, OrderFacts DEF Retryable, RowOK, OrderOK, OnExchange, Terminal
  <2> QED
    BY <1>1, <2>4
<1>6. CASE i.attempt < j.attempt
  <2>1. i.attempt \in 0..j.attempt - 1
    BY <1>4, <1>6
  <2>2. Attempt("PROTECTIVE_STOP", base, i.attempt) \in Intents
    BY <1>1, <2>1, Parts DEF IntentsOK
  <2> QED
    BY <1>2, <1>4, <2>2
<1>7. CASE i.attempt = j.attempt
  BY <1>2, <1>4, <1>7
<1> QED
  BY <1>4, <1>5, <1>6, <1>7

\* What an order asks for, and in which position.
Fits(purpose, base, qty) ==
    \/ purpose = "ENTRY" /\ position.qty = 0 /\ base \in 1..candle /\ qty = EntryQty
    \/ /\ purpose \in {"EXIT", "STOP_EXIT"} /\ RestingStops = {}
       /\ base = position.opened /\ qty = position.qty
    \/ /\ purpose = "PROTECTIVE_STOP" /\ RestingStops = {}
       /\ cycle.pc = "protect" /\ base = cycle.p.opened /\ qty = cycle.p.qty

\* Inserting it, with nothing in flight, keeps the invariant.
LEMMA InsertExposed ==
  ASSUME ExposureIInv, IInv', NEW i, NEW purpose, NEW base, NEW qty \in Nat \ {0},
         NextAttempt(i, purpose, base), Insert(i, qty), Fits(purpose, base, qty),
         InFlight = {}, UNCHANGED <<candle, held>>
  PROVE  ExposureIInv'
<1>0. IInv /\ IsFiniteSet(Intents)
  BY DEF ExposureIInv
<1>1. /\ Intents' = Intents \cup {i} /\ i \notin Intents /\ i.purpose = purpose
      /\ \A j \in Intents : orders'[j] = orders[j] /\ exch'[j] = exch[j]
      /\ orders'[i] = [status |-> "SUBMITTING", exec |-> 0, req |-> qty]
      /\ exch'[i] = Absent
      /\ NonTerminal' = NonTerminal \cup {i}
  BY <1>0, InsertStep DEF Fits
<1>2. IsFiniteSet(Intents)'
  BY <1>0, <1>1, FS_AddElement
<1>3. ASSUME ~behind', Revived' = {}
      PROVE  HeldOK' /\ ProtectOK'
  <2>1. /\ ~behind /\ ~cycle.behind
        /\ position.qty = held.qty /\ position.opened = held.opened
    BY <1>3 DEF Insert, Behind
  <2>2. Revived = {}
    <3>1. Revived \subseteq Revived'
      BY <1>1 DEF Revived, OnExchange
    <3> QED
      BY <1>3, <3>1
  <2>3. HeldOK /\ ProtectOK
    BY <2>1, <2>2 DEF ExposureIInv
  <2>4. Pending = {}
    <3>1. CASE RestingStops = {}
      BY <3>1 DEF Pending, InFlight, RestingStops
    <3>2. CASE position.qty = 0
      <4> SUFFICES ASSUME NEW j \in Pending PROVE FALSE
        OBVIOUS
      <4>1. j \in Intents /\ exch[j].status \in {"ABSENT", "SENT", "OPEN"} /\ j.purpose = "PROTECTIVE_STOP"
        BY DEF Pending, NonTerminal, InFlight
      <4>2. Remaining(j) <= 0
        BY <2>1, <2>3, <3>2, <4>1 DEF HeldOK, IsSell, Exits
      <4>3. orders[j].req \in Nat /\ orders[j].req > 0 /\ exch[j].exec \in Nat
            /\ (exch[j].status = "OPEN" => exch[j].exec < orders[j].req)
            /\ (exch[j].status \in {"ABSENT", "SENT"} => exch[j].exec = 0)
        BY <1>0, <4>1, OrderFacts DEF OrderOK
      <4> QED
        BY <4>1, <4>2, <4>3 DEF Remaining
    <3> QED
      BY <3>1, <3>2 DEF Fits
  <2>5. Pending' \subseteq {i}
    BY <1>1, <2>4 DEF Pending, NonTerminal
  <2>6. Remaining(i)' = qty
    BY <1>1 DEF Remaining, Absent
  <2>7. Bought' = Bought /\ Sold' = Sold
    <3>1. exch'[i].exec = 0
      BY <1>1 DEF Absent
    <3> QED
      BY <1>0, <1>1, <3>1, NewSums
  <2>8. i.base = base
    BY DEF NextAttempt
  <2>9. IsSell(i) => qty <= held.qty /\ i.base = held.opened
    <3>1. CASE purpose = "ENTRY"
      BY <1>1, <3>1 DEF IsSell, Exits
    <3>2. CASE base = position.opened /\ qty = position.qty
      BY <2>1, <2>8, <3>2
    <3>3. CASE /\ purpose = "PROTECTIVE_STOP"
               /\ cycle.pc = "protect" /\ base = cycle.p.opened /\ qty = cycle.p.qty
      <4>1. ~StopExecuted(base)
        BY <1>0, <2>2, <3>3, NoneAfterExecuted
      <4>2. qty = held.qty /\ base = held.opened
        BY <2>1, <2>3, <3>3, <4>1 DEF ProtectOK
      <4> QED
        BY <2>8, <4>2
    <3> QED
      BY <3>1, <3>2, <3>3 DEF Fits
  <2>10. ~IsSell(i) => held.qty + qty <= EntryQty
    <3>1. CASE purpose = "ENTRY" /\ position.qty = 0 /\ qty = EntryQty
      BY <2>1, <3>1, ConstantsOK
    <3>2. CASE purpose \in {"EXIT", "STOP_EXIT", "PROTECTIVE_STOP"}
      BY <1>1, <3>2 DEF IsSell, Exits
    <3> QED
      BY <3>1, <3>2 DEF Fits
  <2>11. HeldOK'
    BY <2>3, <2>5, <2>6, <2>7, <2>9, <2>10 DEF HeldOK, IsSell
  <2>12. ProtectOK'
    <3>1. cycle' = [Idle EXCEPT !.pc = "post", !.i = i]
      BY DEF Insert
    <3> QED
      BY <3>1 DEF ProtectOK, Idle
  <2> QED
    BY <2>11, <2>12
<1> QED
  BY <1>2, <1>3 DEF ExposureIInv

\* Submitting keeps the invariant.
LEMMA SubmitExposed ==
  ASSUME ExposureIInv, IInv', NEW purpose \in Purpose, NEW base \in Episode \ {0},
         NEW qty \in Nat \ {0}, Submit(purpose, base, qty), Fits(purpose, base, qty),
         InFlight = {}, UNCHANGED <<candle, held>>
  PROVE  ExposureIInv'
<1>1. CASE Return /\ UNCHANGED <<orders, exch, recorded, history>>
  <2>1. RowsStay
    BY <1>1 DEF RowsStay, Intents
  <2>2. cycle'.pc = "idle"
    BY <1>1, IdleOK DEF Return
  <2> QED
    BY <1>1, <2>1, <2>2, StillOK DEF Looks, history
<1>2. ASSUME NEW i, NextAttempt(i, purpose, base), Insert(i, qty)
      PROVE  ExposureIInv'
  BY <1>2, InsertExposed
<1> QED
  BY <1>1, <1>2, SubmitIs DEF ExposureIInv

-----------------------------------------------------------------------------
(* The steps                                                                *)

\* Steps of the worker that neither send nor cancel: each reads, or changes rows
\* and the position.
LEMMA ReadsOK ==
  ASSUME ExposureIInv, IInv',
         ReadControl \/ PassGates \/ SyncOrder \/ SyncFills \/ ResolveAmbiguous \/ SubmitFills
         \/ RecheckStop \/ RecheckFills \/ Crash
  PROVE  ExposureIInv'
<1>0. IInv /\ cycle \in Cycle
  BY Parts DEF ExposureIInv
<1>1. UNCHANGED <<exch, held, behind>>
  BY DEF ReadControl, PassGates, SyncOrder, SyncFills, ResolveAmbiguous, SubmitFills, RecheckStop,
         RecheckFills, Crash, market, history
<1>2. RowsStay
  <2>1. CASE UNCHANGED orders
    BY <2>1 DEF RowsStay, Intents
  <2>2. CASE SyncOrder
    <3>1. PICK i \in cycle.todo : ApplyReport(i, exch[i]) \/ UNCHANGED orders
      BY <2>2 DEF SyncOrder
    <3>2. i \in Intents
      BY <1>0, Parts
    <3> QED
      BY <1>0, <3>1, <3>2, ReportRows
  <2>3. CASE ResolveAmbiguous \/ RecheckStop
    <3>1. cycle.i \in Intents
      BY <1>0, <2>3, Parts DEF CycleOK, HasOrder, ResolveAmbiguous, RecheckStop
    <3>2. ApplyReport(cycle.i, exch[cycle.i]) \/ UNCHANGED orders
      BY <2>3 DEF ResolveAmbiguous, RecheckStop
    <3> QED
      BY <1>0, <3>1, <3>2, ReportRows
  <2>4. CASE ReadControl \/ PassGates \/ SyncFills \/ SubmitFills \/ RecheckFills \/ Crash
    <3>1. UNCHANGED orders
      BY <2>4 DEF ReadControl, PassGates, SyncFills, SubmitFills, RecheckFills, Crash, ledger
    <3> QED
      BY <2>1, <3>1
  <2> QED
    BY <2>2, <2>3, <2>4
<1>3. ASSUME NEW c \in Cycle, NEW rest, Sync(c, rest)
      PROVE  cycle'.pc # "protect"
  <2>1. PICK pc \in {"decide", "sync"} : cycle' = [c EXCEPT !.pc = pc, !.todo = rest, !.i = NoIntent]
    BY <1>3 DEF Sync
  <2> QED
    BY <2>1 DEF Cycle
<1>4. Return => cycle'.pc # "protect"
  BY IdleOK DEF Return
<1>5. \A pc \in Point : Goto(pc) => cycle'.pc = pc
  BY <1>0, GotoIs
<1>6. \A row : AfterCancel(row) => cycle'.pc # "protect"
  <2> SUFFICES ASSUME NEW row, AfterCancel(row), ~Return PROVE cycle'.pc # "protect"
    BY <1>4
  <2>1. cycle' = [cycle EXCEPT !.pc = "cancel", !.i = NoIntent]
    BY DEF AfterCancel
  <2> QED
    BY <1>0, <2>1 DEF Cycle
<1>7. cycle'.pc # "protect"
  <2>1. CASE ReadControl
    BY <2>1, IdleOK DEF ReadControl, Cycle
  <2>2. CASE PassGates
    <3>1. CASE Return
      BY <1>4, <3>1
    <3>2. CASE \E healthy \in BOOLEAN : Sync([cycle EXCEPT !.entriesOk = healthy], InFlight)
      <4>1. PICK healthy \in BOOLEAN : Sync([cycle EXCEPT !.entriesOk = healthy], InFlight)
        BY <3>2
      <4>2. [cycle EXCEPT !.entriesOk = healthy] \in Cycle
        BY <1>0 DEF Cycle
      <4> QED
        BY <1>3, <4>1, <4>2
    <3> QED
      BY <2>2, <3>1, <3>2 DEF PassGates
  <2>3. CASE SyncOrder
    <3>1. \/ \E i \in cycle.todo : cycle' = [cycle EXCEPT !.pc = "syncFills", !.i = i]
          \/ \E i \in cycle.todo : Sync(cycle, cycle.todo \ {i})
      BY <2>3 DEF SyncOrder
    <3>2. CASE \E i \in cycle.todo : cycle' = [cycle EXCEPT !.pc = "syncFills", !.i = i]
      BY <1>0, <3>2 DEF Cycle
    <3>3. CASE \E i \in cycle.todo : Sync(cycle, cycle.todo \ {i})
      BY <1>0, <1>3, <3>3
    <3> QED
      BY <3>1, <3>2, <3>3
  <2>4. CASE SyncFills
    BY <1>0, <1>3, <2>4 DEF SyncFills
  <2>5. CASE ResolveAmbiguous
    BY <1>4, <1>5, <2>5 DEF ResolveAmbiguous, Point
  <2>6. CASE SubmitFills
    BY <1>4, <1>5, <2>6 DEF SubmitFills, Point
  <2>7. CASE RecheckStop
    BY <1>4, <1>5, <1>6, <2>7 DEF RecheckStop, Point
  <2>8. CASE RecheckFills
    BY <1>6, <2>8 DEF RecheckFills
  <2>9. CASE Crash
    BY <1>4, <2>9 DEF Crash
  <2> QED
    BY <2>1, <2>2, <2>3, <2>4, <2>5, <2>6, <2>7, <2>8, <2>9
<1> QED
  BY <1>1, <1>2, <1>7, StillOK DEF Looks

\* A look at the protective stop is for the position read.
LEMMA HoldLooks ==
  ASSUME NEW p \in Position, HoldPosition(p), p.qty = position.qty, p.opened = position.opened
  PROVE  Looks
BY HoldIs DEF Looks

\* What the worker does with an open position.
LEMMA OpenLooks ==
  ASSUME NEW p \in Position, OpenPosition(p), p.qty = position.qty, p.opened = position.opened
  PROVE  Looks
<1>1. CASE HoldPosition(p)
  BY <1>1, HoldLooks
<1>2. CASE \E purpose \in {"STOP_EXIT", "EXIT"} : ExitFor(p, purpose)
  <2>1. cycle'.pc = "cancel"
    BY <1>2, ExitForIs
  <2> QED
    BY <2>1 DEF Looks
<1> QED
  BY <1>1, <1>2 DEF OpenPosition

\* The decision keeps the invariant: what it reads is remembered.
LEMMA DecisionOK ==
  ASSUME ExposureIInv, IInv', Decide \/ SetStop \/ ArmEntry
  PROVE  ExposureIInv'
<1>0. IInv /\ cycle \in Cycle /\ position \in Position
  BY Parts DEF ExposureIInv, PosOK
<1>1. UNCHANGED <<orders, exch, held, behind>>
  BY DEF Decide, SetStop, ArmEntry, ledger, market, history
<1>2. RowsStay
  BY <1>1 DEF RowsStay, Intents
<1>3. ASSUME NEW s \in Episode, NEW p, p = [position EXCEPT !.stop = s]
      PROVE  p \in Position /\ p.qty = position.qty /\ p.opened = position.opened
  BY <1>0, <1>3 DEF Position
<1>4. Looks
  <2>1. Return => Looks
    BY IdleOK DEF Return, Looks
  <2>2. CASE Decide
    <3>1. Goto("entry") => Looks
      BY <1>0, GotoIs DEF Looks, Point
    <3>2. CASE cycle' = [cycle EXCEPT !.pc = "setStop", !.p = position]
      BY <1>0, <3>2 DEF Looks, Cycle
    <3>3. OpenPosition(position) => Looks
      BY <1>0, OpenLooks
    <3> QED
      BY <2>1, <2>2, <3>1, <3>2, <3>3 DEF Decide
  <2>3. CASE SetStop
    <3> DEFINE p == [position EXCEPT !.stop = cycle.p.opened]
    <3>1. OpenPosition(p)
      BY <2>3 DEF SetStop
    <3>2. cycle.p.opened \in Episode
      BY <1>0, CycleParts DEF Position
    <3>3. p \in Position /\ p.qty = position.qty /\ p.opened = position.opened
      BY <1>3, <3>2
    <3> HIDE DEF p
    <3> QED
      BY <3>1, <3>3, OpenLooks
  <2>4. CASE ArmEntry
    <3> DEFINE p == [position EXCEPT !.stop = position.opened]
    <3>1. Return \/ HoldPosition(p)
      BY <2>4 DEF ArmEntry
    <3>2. position.opened \in Episode
      BY <1>0 DEF Position
    <3>3. p \in Position /\ p.qty = position.qty /\ p.opened = position.opened
      BY <1>3, <3>2
    <3> HIDE DEF p
    <3> QED
      BY <2>1, <3>1, <3>3, HoldLooks
  <2> QED
    BY <2>2, <2>3, <2>4
<1> QED
  BY <1>1, <1>2, <1>4, StillOK

\* Sending an order keeps the invariant.
LEMMA SendOK ==
  ASSUME ExposureIInv, IInv', Post
  PROVE  ExposureIInv'
<1> DEFINE i == cycle.i
           execs == IF i.purpose = "PROTECTIVE_STOP" THEN {0} ELSE 0..orders[i].req
<1>0. IInv /\ cycle \in Cycle
  BY Parts DEF ExposureIInv
<1>1. /\ cycle.pc = "post"
      /\ UNCHANGED behind
      /\ \/ \E n \in execs :
               /\ Becomes(i, Working(i, n))
               /\ ApplyReport(i, Working(i, n)) \/ UNCHANGED orders
               /\ Goto("fills") \/ Goto("resolve")
         \/ /\ orders' = [orders EXCEPT ![i].status = "REJECTED"]
            /\ Return
            /\ UNCHANGED market
         \/ Becomes(i, Sent) /\ Goto("resolve") /\ UNCHANGED orders
  BY DEF Post, history
<1>2. i \in Intents /\ orders[i].status = "SUBMITTING" /\ exch[i].status = "ABSENT"
  BY <1>0, <1>1, Parts DEF CycleOK, HasOrder
<1>3. orders[i].req \in Nat /\ exch[i].exec = 0
  BY <1>0, <1>2, OrderFacts DEF OrderOK
<1>4. execs \subseteq 0..orders[i].req
  BY <1>3
<1> HIDE DEF execs
<1>5. cycle'.pc # "protect"
  <2>1. Return => cycle'.pc # "protect"
    BY IdleOK DEF Return
  <2>2. \A pc \in Point : Goto(pc) => cycle'.pc = pc
    BY <1>0, GotoIs
  <2> QED
    BY <1>1, <2>1, <2>2 DEF Point
<1>6. ASSUME NEW n \in execs, Becomes(i, Working(i, n)),
             ApplyReport(i, Working(i, n)) \/ UNCHANGED orders
      PROVE  ExposureIInv'
  <2>1. n \in 0..orders[i].req
    BY <1>4
  <2> DEFINE e == Working(i, n)
  <2>2. e \in ExchOrder /\ RowOK(orders[i], e) /\ exch[i].exec <= e.exec
        /\ e.status \notin {"ABSENT", "SENT"}
    BY <1>0, <1>2, <1>3, <2>1, PlacedOK
  <2> HIDE DEF e
  <2>3. Becomes(i, e) /\ (ApplyReport(i, e) \/ UNCHANGED orders)
    BY <1>6 DEF e
  <2>4. RowsStay
    BY <1>0, <1>2, <2>3, ReportRows
  <2> QED
    BY <1>1, <1>2, <1>5, <2>2, <2>3, <2>4, ExecuteOK DEF RowOK
<1>7. CASE /\ orders' = [orders EXCEPT ![i].status = "REJECTED"]
           /\ UNCHANGED market
  <2>1. RowsStay
    BY <1>0, <1>2, <1>7, RejectRows
  <2> QED
    BY <1>1, <1>5, <1>7, <2>1, StillOK DEF Looks, market
<1>8. CASE Becomes(i, Sent) /\ UNCHANGED orders
  <2>1. Sent \in ExchOrder /\ RowOK(orders[i], Sent) /\ exch[i].exec <= Sent.exec
    BY <1>0, <1>2, <1>3, PlacedOK
  <2>2. RowsStay
    BY <1>8 DEF RowsStay, Intents
  <2> QED
    BY <1>1, <1>2, <1>5, <1>8, <2>1, <2>2, ExecuteOK DEF RowOK
<1> QED
  BY <1>1, <1>6, <1>7, <1>8

\* Cancelling the resting stops keeps the invariant.
LEMMA CancelExposed ==
  ASSUME ExposureIInv, IInv', CancelStops
  PROVE  ExposureIInv'
<1>0. IInv /\ cycle \in Cycle
  BY Parts DEF ExposureIInv
<1>1. UNCHANGED behind
  BY DEF CancelStops, history
<1>2. CASE Goto("exit") /\ UNCHANGED <<orders, market>>
  <2>1. RowsStay
    BY <1>2 DEF RowsStay, Intents
  <2>2. Looks
    BY <1>0, <1>2, GotoIs DEF Looks, Point
  <2> QED
    BY <1>1, <1>2, <2>1, <2>2, StillOK DEF market
<1>3. ASSUME NEW i \in RestingStops, cycle' = [cycle EXCEPT !.pc = "recheck", !.i = i],
             CancelOrder(i)
      PROVE  ExposureIInv'
  <2> DEFINE canceled == [exch[i] EXCEPT !.status = "CANCELED"]
  <2>1. i \in Intents
    BY DEF RestingStops, NonTerminal
  <2>2. cycle'.pc # "protect"
    BY <1>0, <1>3 DEF Cycle
  <2>3. \/ /\ exch[i].status = "OPEN"
           /\ Becomes(i, canceled)
           /\ ApplyReport(i, canceled) \/ UNCHANGED orders
        \/ UNCHANGED <<orders, market>>
    BY <1>3 DEF CancelOrder
  <2>4. CASE /\ exch[i].status = "OPEN" /\ Becomes(i, canceled)
             /\ ApplyReport(i, canceled) \/ UNCHANGED orders
    <3>1. /\ canceled \in ExchOrder /\ canceled.exec = exch[i].exec
          /\ canceled.status = "CANCELED" /\ OrderOK(orders[i].req, canceled)
      BY <1>0, <2>1, <2>4, EndedOK
    <3>2. exch[i].exec <= canceled.exec
      BY <1>0, <2>1, <3>1, OrderFacts
    <3> HIDE DEF canceled
    <3>3. RowsStay
      BY <1>0, <2>1, <2>4, ReportRows
    <3> QED
      BY <1>1, <2>1, <2>2, <2>4, <3>1, <3>2, <3>3, ExecuteOK
  <2>5. CASE UNCHANGED <<orders, market>>
    <3>1. RowsStay
      BY <2>5 DEF RowsStay, Intents
    <3> QED
      BY <1>1, <2>2, <2>5, <3>1, StillOK DEF Looks, market
  <2> QED
    BY <2>3, <2>4, <2>5
<1> QED
  BY <1>2, <1>3 DEF CancelStops

\* A cycle that ends without an order keeps the invariant.
LEMMA NothingSent ==
  ASSUME ExposureIInv, IInv', Return, UNCHANGED <<orders, exch, recorded, alerts, history, held>>
  PROVE  ExposureIInv'
<1>1. RowsStay
  BY DEF RowsStay, Intents
<1>2. Looks
  BY IdleOK DEF Return, Looks
<1> QED
  BY <1>1, <1>2, StillOK DEF history

\* Entries, exits and protective stops keep the invariant.
LEMMA OrdersExposed ==
  ASSUME ExposureIInv, IInv', Enter \/ Exit \/ EnsureProtectiveStop
  PROVE  ExposureIInv'
<1>0. IInv /\ UNCHANGED <<candle, held>>
  BY DEF ExposureIInv, Enter, Exit, EnsureProtectiveStop
<1>1. CASE Return /\ UNCHANGED <<orders, exch, recorded, alerts, history>>
  BY <1>0, <1>1, NothingSent
<1>2. CASE cycle.pc = "entry" /\ position.qty = 0 /\ Submit("ENTRY", candle, EntryQty)
  <2>1. InFlight = {} /\ candle > 0
    BY <1>0, <1>2, Parts DEF InFlightOK, CycleOK
  <2>2. candle \in 1..candle /\ EntryQty \in Nat \ {0}
    BY <1>0, <2>1, Parts, ConstantsOK
  <2>3. candle \in Episode \ {0}
    <3>1. \A c \in 1..MaxCandles : c <= MaxCandles * EntryQty /\ MaxCandles * EntryQty \in Nat
      BY ConstantsOK
    <3>2. PICK t \in Nat : t = MaxCandles * EntryQty /\ candle <= t
      BY <1>0, <2>1, <3>1, Parts
    <3> QED
      BY <1>0, <2>1, <3>2, Parts DEF Episode
  <2>4. "ENTRY" \in Purpose /\ Fits("ENTRY", candle, EntryQty)
    BY <1>2, <2>2 DEF Purpose, Fits
  <2> QED
    BY <1>0, <1>2, <2>1, <2>2, <2>3, <2>4, SubmitExposed
<1>3. CASE /\ cycle.pc = "exit" /\ position.qty # 0
           /\ Submit(cycle.purpose, position.opened, position.qty)
  <2>1. InFlight = {} /\ RestingStops = {} /\ cycle.purpose \in {"EXIT", "STOP_EXIT"}
    BY <1>0, <1>3, Parts DEF InFlightOK, CycleOK, Exiting
  <2>2. position.qty \in Nat \ {0} /\ position.opened \in Episode \ {0}
    BY <1>0, <1>3, Parts DEF Position, PosOK
  <2>3. cycle.purpose \in Purpose /\ Fits(cycle.purpose, position.opened, position.qty)
    BY <2>1 DEF Purpose, Exits, Fits
  <2> QED
    BY <1>0, <1>3, <2>1, <2>2, <2>3, SubmitExposed
<1>4. CASE /\ cycle.pc = "protect" /\ RestingStops = {} /\ cycle.p.qty # 0
           /\ Submit("PROTECTIVE_STOP", cycle.p.opened, cycle.p.qty)
  <2>1. InFlight = {}
    BY <1>0, <1>4, Parts DEF InFlightOK
  <2>2. cycle.p.qty \in Nat \ {0} /\ cycle.p.opened \in Episode
    BY <1>0, <1>4, CycleParts DEF Position
  <2>3. cycle.p.opened \in Episode \ {0}
    BY <1>0, <2>2, Parts DEF CycleOK
  <2>4. "PROTECTIVE_STOP" \in Purpose /\ Fits("PROTECTIVE_STOP", cycle.p.opened, cycle.p.qty)
    BY <1>4 DEF Purpose, Exits, Fits
  <2> QED
    BY <1>0, <1>4, <2>1, <2>2, <2>3, <2>4, SubmitExposed
<1> QED
  BY <1>1, <1>2, <1>3, <1>4 DEF Enter, Exit, EnsureProtectiveStop

\* Steps beside the worker.
LEMMA BesideOK ==
  ASSUME ExposureIInv, IInv',
         \/ UNCHANGED vars \/ OperatorActs \/ RebuildRead \/ RebuildFold \/ RebuildSave
         \/ \E i \in Intents : Observe(i) \/ IngestOne(i) \/ WriteOff(i)
  PROVE  ExposureIInv'
<1>0. IInv
  BY DEF ExposureIInv
<1>1. UNCHANGED <<exch, held, behind, cycle>>
  BY DEF vars, OperatorActs, RebuildRead, RebuildFold, RebuildSave, Observe, IngestOne, WriteOff,
         market, history
<1>2. RowsStay
  <2>1. CASE UNCHANGED orders
    BY <2>1 DEF RowsStay, Intents
  <2>2. ASSUME NEW i \in Intents, Observe(i) PROVE RowsStay
    BY <1>0, <2>2, ReportRows DEF Observe
  <2>3. ASSUME NEW i \in Intents, WriteOff(i) PROVE RowsStay
    BY <1>0, <2>3, RejectRows DEF WriteOff
  <2>4. CASE \/ UNCHANGED vars \/ OperatorActs \/ RebuildRead \/ RebuildFold \/ RebuildSave
             \/ \E i \in Intents : IngestOne(i)
    BY <2>1, <2>4 DEF vars, OperatorActs, RebuildRead, RebuildFold, RebuildSave, IngestOne, ledger
  <2> QED
    BY <2>2, <2>3, <2>4
<1> QED
  BY <1>1, <1>2, StillOK DEF Looks

\* Steps of the exchange.
LEMMA ExchangeOK ==
  ASSUME ExposureIInv, IInv', NEW i \in Intents,
         Arrive(i) \/ ExchangeTrade(i) \/ ExchangeExpire(i)
  PROVE  ExposureIInv'
<1>0. /\ IInv /\ UNCHANGED <<orders, behind, cycle>>
  BY DEF ExposureIInv, Arrive, ExchangeTrade, ExchangeExpire, ledger, history
<1>1. RowsStay
  BY <1>0 DEF RowsStay, Intents
<1>2. ASSUME NEW n \in 0..orders[i].req, exch[i].status \in {"SENT", "OPEN"}, exch[i].exec <= n,
             Becomes(i, Working(i, n))
      PROVE  ExposureIInv'
  <2> DEFINE e == Working(i, n)
  <2>1. e \in ExchOrder /\ e.exec = n /\ e.status \in {"OPEN", "FILLED"} /\ OrderOK(orders[i].req, e)
    BY <1>0, WorkingOK
  <2>2. Becomes(i, e)
    BY <1>2
  <2> HIDE DEF e
  <2> QED
    BY <1>0, <1>1, <1>2, <2>1, <2>2, ExecuteOK
<1>3. CASE Arrive(i)
  <2>1. exch[i].exec = 0 /\ 0 \in 0..orders[i].req
    BY <1>0, <1>3, OrderFacts DEF OrderOK, Arrive
  <2> QED
    BY <1>2, <1>3, <2>1 DEF Arrive
<1>4. CASE ExchangeTrade(i)
  <2>1. exch[i].exec + 1 \in 0..orders[i].req /\ exch[i].exec <= exch[i].exec + 1
    BY <1>0, <1>4, OrderFacts DEF OrderOK, ExchangeTrade
  <2> QED
    BY <1>2, <1>4, <2>1 DEF ExchangeTrade
<1>5. CASE ExchangeExpire(i)
  <2> DEFINE e == [exch[i] EXCEPT !.status = "EXPIRED"]
  <2>1. exch[i].status = "OPEN" /\ Becomes(i, e)
    BY <1>5 DEF ExchangeExpire
  <2>2. e \in ExchOrder /\ e.exec = exch[i].exec /\ e.status = "EXPIRED" /\ OrderOK(orders[i].req, e)
    BY <1>0, <2>1, EndedOK
  <2> HIDE DEF e
  <2>3. exch[i].exec <= e.exec
    BY <1>0, <2>2, OrderFacts
  <2> QED
    BY <1>0, <1>1, <2>1, <2>2, <2>3, ExecuteOK
<1> QED
  BY <1>3, <1>4, <1>5

-----------------------------------------------------------------------------
(* The theorems                                                             *)

\* The invariant holds at the start.
LEMMA ExposureInit ==
  ASSUME Init
  PROVE  ExposureIInv
<1>1. IInv
  BY InitOK
<1>2. Intents = {} /\ held.qty = 0 /\ cycle.pc = "idle"
  BY IdleOK DEF Init, Intents
<1>3. IsFiniteSet(Intents)
  BY <1>2, FS_EmptySet
<1>4. Bought = 0 /\ Sold = 0
  <2>1. {i \in Intents : ~IsSell(i)} = {} /\ {i \in Intents : IsSell(i)} = {}
    BY <1>2
  <2>2. Units(Executed, {}) = {}
    BY DEF Units
  <2>3. SumOver(Executed, {}) = 0
    BY <2>2, FS_EmptySet DEF SumOver
  <2> QED
    BY <2>1, <2>3 DEF Bought, Sold
<1>5. Pending = {}
  BY <1>2 DEF Pending, NonTerminal
<1>6. HeldOK /\ ProtectOK
  BY <1>2, <1>4, <1>5, ConstantsOK DEF HeldOK, ProtectOK
<1> QED
  BY <1>1, <1>3, <1>6 DEF ExposureIInv

\* Every step keeps the invariant.
LEMMA ExposureStep ==
  ASSUME ExposureIInv, [Next]_vars
  PROVE  ExposureIInv'
<1>1. IInv'
  BY StepOK DEF ExposureIInv
<1>2. CASE CycleStep
  BY <1>1, <1>2, ReadsOK, DecisionOK, SendOK, CancelExposed, OrdersExposed DEF CycleStep
<1>3. CASE Crash
  BY <1>1, <1>3, ReadsOK
<1>4. CASE \/ UNCHANGED vars \/ OperatorActs \/ RebuildRead \/ RebuildFold \/ RebuildSave
           \/ \E i \in Intents : Observe(i) \/ IngestOne(i) \/ WriteOff(i)
  BY <1>1, <1>4, BesideOK
<1>5. CASE \E i \in Intents : Arrive(i) \/ ExchangeTrade(i) \/ ExchangeExpire(i)
  BY <1>1, <1>5, ExchangeOK
<1> QED
  BY <1>2, <1>3, <1>4, <1>5 DEF Next

\* Unless an order was decided on a wrong positions row or one arrived after it
\* was written off, what the bot holds is what it bought and not sold, and one
\* order at most is pending, for no more than fits.
THEOREM ExposureInvariant == Spec => []ExposureIInv
BY ExposureInit, ExposureStep, PTL DEF Spec

\* The bot never sells more than it bought, and never holds and buys more than
\* one entry (MAX_OPEN_POSITIONS, the in-flight check, one attempt per candle),
\* with the same two exceptions.
THEOREM ExposureStaysBounded == Spec => []ExposureBounded
<1>1. ASSUME ExposureIInv PROVE ExposureBounded
  <2> SUFFICES ASSUME ~behind, Revived = {}
               PROVE  Sold <= Bought /\ Bought - Sold + Buying <= EntryQty
    BY DEF ExposureBounded, NeverDoubleSell
  <2>0. IInv /\ IsFiniteSet(Intents) /\ HeldOK
    BY <1>1 DEF ExposureIInv
  <2>1. Bought \in Nat /\ Sold \in Nat /\ held.qty \in Nat /\ EntryQty \in Nat
    BY <2>0, BoughtSold, Parts, ConstantsOK DEF PosOK, Position
  <2> DEFINE rest == [i \in Intents |-> orders[i].req - exch[i].exec]
             S == {i \in Intents : ~IsSell(i) /\ exch[i].status = "OPEN"}
  <2>2. Buying = SumOver(rest, S)
    BY DEF Buying
  <2>3. S \subseteq Pending
    <3> SUFFICES ASSUME NEW i \in S PROVE i \in Pending
      OBVIOUS
    <3>1. orders[i].status # "REJECTED"
      BY DEF Revived, OnExchange
    <3>2. orders[i].status \notin Terminal
      BY <2>0, <3>1, OrderFacts DEF RowOK, Terminal
    <3> QED
      BY <3>2 DEF Pending, NonTerminal
  <2>4. \A i \in S : i \in Intents /\ ~IsSell(i) /\ rest[i] = Remaining(i) /\ rest[i] \in Nat
    <3> SUFFICES ASSUME NEW i \in S
                 PROVE  i \in Intents /\ ~IsSell(i) /\ rest[i] = Remaining(i) /\ rest[i] \in Nat
      OBVIOUS
    <3>1. orders[i].req \in Nat /\ exch[i].exec \in Nat /\ exch[i].exec <= orders[i].req
      BY <2>0, OrderFacts DEF OrderOK
    <3> QED
      BY <3>1 DEF Remaining
  <2> HIDE DEF rest, S
  <2>5. SumOver(rest, {}) = 0
    <3>1. Units(rest, {}) = {}
      BY DEF Units
    <3> QED
      BY <3>1, FS_EmptySet DEF SumOver
  <2>6. CASE S = {}
    BY <2>0, <2>1, <2>2, <2>5, <2>6 DEF HeldOK
  <2>7. ASSUME NEW i \in S
        PROVE  Sold <= Bought /\ Bought - Sold + Buying <= EntryQty
    <3>1. S = {} \cup {i}
      BY <2>0, <2>3 DEF HeldOK
    <3>2. IsFiniteSet({}) /\ i \notin {} /\ \A j \in {} \cup {i} : rest[j] \in Nat
      BY <2>4, FS_EmptySet
    <3>3. SumOver(rest, {} \cup {i}) = SumOver(rest, {}) + rest[i]
      BY <3>2, SumAdd
    <3>4. Buying = rest[i]
      BY <2>2, <2>4, <2>5, <3>1, <3>3
    <3>5. held.qty + rest[i] <= EntryQty
      BY <2>0, <2>3, <2>4 DEF HeldOK
    <3> QED
      BY <2>0, <2>1, <2>4, <3>4, <3>5 DEF HeldOK
  <2> QED
    BY <2>6, <2>7
<1> QED
  BY <1>1, ExposureInvariant, PTL
=============================================================================
