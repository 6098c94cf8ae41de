-------------------------- MODULE AccountingProofs --------------------------
(***************************************************************************)
(* Proofs about Accounting, for every starting balance, set of prices and  *)
(* quantities, loss limit and number of executions and days: its four      *)
(* invariants.                                                             *)
(*                                                                         *)
(* The argument: the books of a position are right for any set of          *)
(* executions it was made from, one by one in any order.  Does says what   *)
(* one execution adds, and TotalChange that the sum over the set grows by  *)
(* as much (BooksMore); a rebuild goes through the executions in order, so *)
(* the same lemma gives RebuiltBooks.  A new execution is in no book yet   *)
(* (BooksAppend).  Equity is the account's worth when the ledger is        *)
(* complete, and so the day is the account's day (WorthKnown).             *)
(***************************************************************************)
EXTENDS Accounting, NumberLemmas, SequenceTheorems

\* The running sums of a sequence: the recursion of Running has a solution, and
\* it is of numbers.
LEMMA RunningDef ==
  ASSUME NEW s \in Seq(Int)
  PROVE  /\ Running(s) \in [0..Len(s) -> Int]
         /\ Running(s)[0] = 0
         /\ \A k \in 1..Len(s) : Running(s)[k] = Running(s)[k - 1] + s[k]
<1> DEFINE n == Len(s)
           Upto(m, f) == f = [k \in 0..m |-> IF k = 0 THEN 0 ELSE f[k - 1] + s[k]]
           Good == {m \in 0..n : \E f \in [0..m -> Int] : Upto(m, f)}
<1>0. n \in Nat /\ \A k \in 1..n : s[k] \in Int
  OBVIOUS
<1>1. 0 \in Good
  <2> DEFINE z == [k \in 0..0 |-> 0]
  <2>1. z \in [0..0 -> Int] /\ \A k \in 0..0 : k = 0
    OBVIOUS
  <2>2. Upto(0, z)
    BY <2>1
  <2>3. \E f \in [0..0 -> Int] : Upto(0, f)
    BY <2>1, <2>2
  <2>4. 0 \in 0..n
    BY <1>0
  <2> HIDE DEF Upto, n
  <2> QED
    BY <2>3, <2>4
<1>2. ASSUME NEW m \in 1..n, m - 1 \in Good PROVE m \in Good
  <2>1. PICK f \in [0..(m - 1) -> Int] : Upto(m - 1, f)
    BY <1>2
  <2> DEFINE g == [k \in 0..m |-> IF k = m THEN f[m - 1] + s[m] ELSE f[k]]
  <2>2. m \in 0..n /\ m # 0 /\ m - 1 \in 0..(m - 1) /\ m \in Nat
    BY <1>0
  <2>3. f[m - 1] \in Int /\ s[m] \in Int
    BY <1>0, <2>1, <2>2
  <2>4. g \in [0..m -> Int]
    <3>1. ASSUME NEW k \in 0..m PROVE (IF k = m THEN f[m - 1] + s[m] ELSE f[k]) \in Int
      BY <2>1, <2>2, <2>3
    <3> QED
      BY <3>1
  <2>5. ASSUME NEW k \in 0..m
        PROVE  g[k] = IF k = 0 THEN 0 ELSE g[k - 1] + s[k]
    <3>1. CASE k = m
      BY <3>1, <2>2
    <3>2. CASE k # m
      <4>1. k \in 0..(m - 1) /\ g[k] = f[k] /\ (k # 0 => g[k - 1] = f[k - 1])
        BY <3>2, <2>2
      <4>2. f[k] = IF k = 0 THEN 0 ELSE f[k - 1] + s[k]
        BY <4>1, <2>1
      <4> QED
        BY <4>1, <4>2
    <3> QED
      BY <3>1, <3>2
  <2>6. Upto(m, g)
    BY <2>5
  <2> QED
    BY <2>2, <2>4, <2>6
<1>3. n \in Good
  <2> HIDE DEF Good
  <2>1. \A k \in 1..n : k - 1 \in Good => k \in Good
    BY <1>2
  <2>2. \A k \in 0..n : k \in Good
    BY <1>0, <1>1, <2>1, UpTo
  <2> QED
    BY <1>0, <2>2
<1>4. \E f : Upto(n, f)
  BY <1>3
<1>5. Running(s) = CHOOSE f : Upto(n, f)
  BY DEF Running
<1>6. Upto(n, Running(s))
  BY <1>4, <1>5
<1> DEFINE r == Running(s)
           Ints == {k \in 0..n : r[k] \in Int}
<1>7. r[0] = 0 /\ \A k \in 1..n : r[k] = r[k - 1] + s[k]
  BY <1>0, <1>6
<1>8. \A k \in 0..n : k \in Ints
  <2>1. 0 \in Ints
    BY <1>0, <1>7
  <2>2. \A k \in 1..n : k - 1 \in Ints => k \in Ints
    BY <1>0, <1>7
  <2> HIDE DEF Ints
  <2> QED
    BY <1>0, <2>1, <2>2, UpTo
<1>9. r \in [0..n -> Int]
  BY <1>6, <1>8
<1> QED
  BY <1>7, <1>9

\* A total is a number, and that of no execution is 0.
LEMMA TotalType ==
  ASSUME NEW s \in Seq(Int)
  PROVE  Total(s) \in Int /\ (Len(s) = 0 => Total(s) = 0)
<1>1. Len(s) \in 0..Len(s)
  OBVIOUS
<1> QED
  BY <1>1, RunningDef DEF Total

\* Sequences that agree up to m have the same running sums up to m.
LEMMA RunningSame ==
  ASSUME NEW s \in Seq(Int), NEW t \in Seq(Int), NEW m \in Nat, m <= Len(s), m <= Len(t),
         \A k \in 1..m : s[k] = t[k]
  PROVE  \A k \in 0..m : Running(s)[k] = Running(t)[k]
<1> DEFINE Same == {k \in 0..m : Running(s)[k] = Running(t)[k]}
<1>1. 0 \in Same
  BY RunningDef
<1>2. ASSUME NEW k \in 1..m, k - 1 \in Same PROVE k \in Same
  <2>1. k \in 1..Len(s) /\ k \in 1..Len(t) /\ k \in 0..m
    OBVIOUS
  <2> QED
    BY <1>2, <2>1, RunningDef
<1>3. \A k \in 0..m : k \in Same
  <2> HIDE DEF Same
  <2> QED
    BY <1>1, <1>2, UpTo
<1> QED
  BY <1>3

\* One more number is added to the total.
LEMMA TotalAppend ==
  ASSUME NEW s \in Seq(Int), NEW t \in Seq(Int), Len(t) = Len(s) + 1,
         \A k \in 1..Len(s) : t[k] = s[k]
  PROVE  Total(t) = Total(s) + t[Len(t)]
<1>1. Len(s) \in Nat /\ Len(t) \in 1..Len(t) /\ Len(t) - 1 = Len(s) /\ Len(s) \in 0..Len(s)
  OBVIOUS
<1>2. Running(t)[Len(s)] = Running(s)[Len(s)]
  <2>1. \A k \in 1..Len(s) : s[k] = t[k]
    OBVIOUS
  <2>2. Len(s) <= Len(s) /\ Len(s) <= Len(t)
    BY <1>1
  <2>3. \A k \in 0..Len(s) : Running(s)[k] = Running(t)[k]
    BY <1>1, <2>1, <2>2, RunningSame
  <2> QED
    BY <1>1, <2>3
<1>3. Running(t)[Len(t)] = Running(t)[Len(t) - 1] + t[Len(t)]
  BY <1>1, RunningDef
<1> QED
  BY <1>1, <1>2, <1>3 DEF Total

\* What is added to one of the numbers is added to the total.
LEMMA TotalChange ==
  ASSUME NEW s \in Seq(Int), NEW t \in Seq(Int), Len(t) = Len(s), NEW i \in 1..Len(s),
         s[i] = 0, \A k \in 1..Len(s) : k # i => t[k] = s[k]
  PROVE  Total(t) = Total(s) + t[i]
<1> DEFINE n == Len(s)
           More == {k \in 0..n : k >= i => Running(t)[k] = Running(s)[k] + t[i]}
<1>0. n \in Nat /\ n \in 0..n /\ i \in Nat /\ 1 <= i /\ i <= n /\ i - 1 \in Nat
  OBVIOUS
<1>1. \A k \in 0..(i - 1) : Running(t)[k] = Running(s)[k]
  <2>1. \A k \in 1..(i - 1) : s[k] = t[k]
    BY <1>0
  <2>2. i - 1 <= Len(s) /\ i - 1 <= Len(t)
    BY <1>0
  <2> QED
    BY <1>0, <2>1, <2>2, RunningSame
<1>2. 0 \in More
  BY <1>0
<1>3. ASSUME NEW k \in 1..n, k - 1 \in More PROVE k \in More
  <2>1. /\ Running(s)[k] = Running(s)[k - 1] + s[k]
        /\ Running(t)[k] = Running(t)[k - 1] + t[k]
        /\ Running(s)[k - 1] \in Int /\ Running(t)[k - 1] \in Int
        /\ s[k] \in Int /\ t[k] \in Int /\ t[i] \in Int
    <3>1. k \in 1..Len(t) /\ k - 1 \in 0..Len(s) /\ k - 1 \in 0..Len(t) /\ i \in 1..Len(t)
      BY <1>0
    <3>2. Running(s)[k] = Running(s)[k - 1] + s[k] /\ Running(s)[k - 1] \in Int
      BY <3>1, RunningDef
    <3>3. Running(t)[k] = Running(t)[k - 1] + t[k] /\ Running(t)[k - 1] \in Int
      BY <3>1, RunningDef
    <3>4. s[k] \in Int /\ t[k] \in Int /\ t[i] \in Int
      BY <3>1
    <3> QED
      BY <3>2, <3>3, <3>4
  <2>2. CASE k < i
    BY <2>2, <1>0
  <2>3. CASE k = i
    <3>1. Running(t)[k - 1] = Running(s)[k - 1]
      BY <2>3, <1>0, <1>1
    <3> QED
      BY <2>1, <2>3, <3>1
  <2>4. CASE k > i
    <3>1. Running(t)[k - 1] = Running(s)[k - 1] + t[i] /\ t[k] = s[k]
      BY <2>4, <1>0, <1>3
    <3> QED
      BY <2>1, <3>1
  <2> QED
    BY <1>0, <2>2, <2>3, <2>4
<1>4. \A k \in 0..n : k \in More
  <2> HIDE DEF More
  <2> QED
    BY <1>0, <1>2, <1>3, UpTo
<1> QED
  BY <1>0, <1>4 DEF Total

-----------------------------------------------------------------------------
\* What an execution moves is a number; a fee in the base asset takes from what
\* a BUY brings and adds to what a SELL costs.
LEMMA MovedType ==
  ASSUME NEW t \in Trade
  PROVE  /\ QuoteMoved(t) \in Int /\ BaseMoved(t) \in Int
         /\ t.side = "BUY" => BaseMoved(t) <= t.qty
         /\ t.side # "BUY" => -BaseMoved(t) >= t.qty
<1>1. t.qty \in Nat /\ t.price \in Nat /\ Gross(t) \in Int
  <2>1. t.qty \in Nat /\ t.price \in Nat
    BY AccountingAssumption DEF Trade
  <2>2. \A a, b \in Nat : a * b \in Int
    OBVIOUS
  <2> QED
    BY <2>1, <2>2 DEF Gross
<1>2. QuoteFee(t) \in {0, 1} /\ BaseFee(t) \in {0, 1}
  BY DEF QuoteFee, BaseFee
<1> HIDE DEF Gross, QuoteFee, BaseFee
<1> QED
  BY <1>1, <1>2 DEF QuoteMoved, BaseMoved

\* What Books says of a position alone.
Shape(p) ==
    /\ p.qty = 0 => p.cost = 0
    /\ p.mark # 0 => p.unrealized = IF p.qty > 0 THEN p.mark * p.qty - p.cost ELSE 0

\* A mark only changes the mark and the unrealized P&L, which is that of the
\* mark.
LEMMA MarkedOK ==
  ASSUME NEW p \in Position, NEW price \in Prices, p.qty = 0 => p.cost = 0
  PROVE  /\ Marked(p, price) \in Position /\ Shape(Marked(p, price))
         /\ Marked(p, price).qty = p.qty /\ Marked(p, price).cost = p.cost
         /\ Marked(p, price).realized = p.realized
<1>1. p.qty \in Nat /\ p.cost \in Int /\ price \in Nat \ {0} /\ price * p.qty \in Int
  BY AccountingAssumption DEF Position
<1> DEFINE u == IF p.qty > 0 THEN price * p.qty - p.cost ELSE 0
           q == Marked(p, price)
<1>2. u \in Int
  BY <1>1
<1>3. q = [p EXCEPT !.mark = price, !.unrealized = u]
  BY DEF Marked
<1> HIDE DEF u, q
<1>4. /\ q \in Position /\ q.qty = p.qty /\ q.cost = p.cost /\ q.realized = p.realized
      /\ q.mark = price /\ q.unrealized = u
  BY <1>2, <1>3 DEF Position
<1>5. Shape(q)
  BY <1>4 DEF Shape, u
<1> QED
  BY <1>4, <1>5 DEF q

\* So does marking again after a fill, at the mark there is, if any.
LEMMA ReMarkedOK ==
  ASSUME NEW p \in Position, p.qty = 0 => p.cost = 0
  PROVE  /\ ReMarked(p) \in Position /\ Shape(ReMarked(p))
         /\ ReMarked(p).qty = p.qty /\ ReMarked(p).cost = p.cost
         /\ ReMarked(p).realized = p.realized
<1>1. CASE p.mark = 0
  BY <1>1 DEF ReMarked, Shape
<1>2. CASE p.mark # 0
  <2>1. p.mark \in Prices
    BY <1>2 DEF Position
  <2>2. ReMarked(p) = Marked(p, p.mark)
    BY <1>2 DEF ReMarked
  <2> QED
    BY <2>1, <2>2, MarkedOK
<1> QED
  BY <1>1, <1>2

\* What one execution does to a position.
Does(t, p, r) ==
    /\ r \in Result /\ Shape(r.p)
    /\ ~(t.side = "BUY" /\ BaseMoved(t) <= 0)
         => r.p.realized - r.p.cost = (p.realized - p.cost) + QuoteMoved(t)
    /\ r.anomaly \/ r.p.qty = p.qty + BaseMoved(t)

\* A BUY adds its cost, or brought nothing and is an anomaly.
LEMMA BoughtOK ==
  ASSUME NEW p \in Position, NEW t \in Trade, t.side = "BUY", Shape(p)
  PROVE  Does(t, p, Bought(p, t))
<1>1. QuoteMoved(t) \in Int /\ BaseMoved(t) \in Int /\ p.qty \in Nat /\ p.cost \in Int
      /\ p.realized \in Int
  BY MovedType DEF Position
<1>2. CASE BaseMoved(t) <= 0
  BY <1>2 DEF Bought, Does, Result
<1>3. CASE ~(BaseMoved(t) <= 0)
  <2> DEFINE q == [p EXCEPT !.qty = @ + BaseMoved(t), !.cost = @ - QuoteMoved(t)]
  <2>1. p.qty + BaseMoved(t) \in Nat \ {0} /\ p.cost - QuoteMoved(t) \in Int
    BY <1>1, <1>3
  <2>2. /\ q \in Position /\ q.qty = p.qty + BaseMoved(t)
        /\ q.cost = p.cost - QuoteMoved(t) /\ q.realized = p.realized
    BY <2>1 DEF Position
  <2>3. Bought(p, t) = [p |-> ReMarked(q), anomaly |-> FALSE]
    BY <1>3 DEF Bought
  <2> HIDE DEF q
  <2>4. /\ ReMarked(q) \in Position /\ Shape(ReMarked(q))
        /\ ReMarked(q).qty = q.qty /\ ReMarked(q).cost = q.cost
        /\ ReMarked(q).realized = q.realized
    BY <2>1, <2>2, ReMarkedOK
  <2>5. Bought(p, t) \in Result /\ Bought(p, t).p = ReMarked(q)
    BY <2>3, <2>4 DEF Result
  <2>6. ReMarked(q).realized - ReMarked(q).cost = (p.realized - p.cost) + QuoteMoved(t)
    BY <1>1, <2>2, <2>4
  <2>7. ReMarked(q).qty = p.qty + BaseMoved(t)
    BY <2>2, <2>4
  <2> QED
    BY <2>4, <2>5, <2>6, <2>7 DEF Does
<1> QED
  BY <1>2, <1>3

\* Taking everything out takes the whole cost.
LEMMA WholeCost ==
  ASSUME NEW c \in Int, NEW q \in Nat \ {0}
  PROVE  (c * q) \div q = c
OBVIOUS

\* A part of a cost is an amount.
LEMMA PartOfCost ==
  ASSUME NEW c \in Int, NEW d \in Int, NEW q \in Nat \ {0}
  PROVE  (c * d) \div q \in Int
OBVIOUS

\* A SELL turns cost into realized P&L, also when it exceeds what is tracked and
\* is clamped.
LEMMA SoldOK ==
  ASSUME NEW p \in Position, NEW t \in Trade, t.side # "BUY", t.qty > 0, Shape(p)
  PROVE  Does(t, p, Sold(p, t))
<1> DEFINE delivered == -BaseMoved(t)
           exceeds == delivered > p.qty
           basis == IF exceeds THEN p.cost ELSE (p.cost * delivered) \div p.qty
           left == IF exceeds THEN 0 ELSE p.qty - delivered
           kept == IF left = 0 THEN 0 ELSE p.cost - basis
           won == p.realized + QuoteMoved(t) - basis
           q == [p EXCEPT !.qty = left, !.cost = kept, !.realized = won]
<1>1. QuoteMoved(t) \in Int /\ BaseMoved(t) \in Int /\ p.qty \in Nat /\ p.cost \in Int
      /\ p.realized \in Int /\ delivered \in Nat \ {0} /\ delivered = -BaseMoved(t)
  BY MovedType DEF Position, Trade
<1>2. Sold(p, t) = [p |-> ReMarked(q), anomaly |-> exceeds]
  BY DEF Sold
<1> HIDE DEF delivered
<1>3. basis \in Int /\ left \in Nat /\ (left = 0 => basis = p.cost)
  <2>1. CASE exceeds
    BY <2>1, <1>1
  <2>2. CASE ~exceeds
    <3>1. p.qty \in Nat \ {0} /\ left = p.qty - delivered
      BY <2>2, <1>1
    <3>2. basis = (p.cost * delivered) \div p.qty
      BY <2>2
    <3>3. basis \in Int
      BY <3>1, <3>2, <1>1, PartOfCost
    <3>4. ASSUME left = 0 PROVE basis = p.cost
      <4>1. delivered = p.qty
        BY <3>1, <3>4, <1>1
      <4> HIDE DEF basis
      <4> QED
        BY <3>1, <3>2, <4>1, <1>1, WholeCost
    <3>5. left \in Nat
      BY <3>1, <2>2, <1>1
    <3> QED
      BY <3>3, <3>4, <3>5
  <2> QED
    BY <2>1, <2>2
<1>4. exceeds \in BOOLEAN /\ (~exceeds => left = p.qty + BaseMoved(t))
  BY <1>1
<1> HIDE DEF basis, left, exceeds
<1>5. kept \in Int /\ won \in Int /\ won - kept = (p.realized - p.cost) + QuoteMoved(t)
      /\ (left = 0 => kept = 0)
  BY <1>1, <1>3
<1> HIDE DEF kept, won
<1>6. q \in Position /\ q.qty = left /\ q.cost = kept /\ q.realized = won
  BY <1>3, <1>5 DEF Position
<1> HIDE DEF q
<1>7. /\ ReMarked(q) \in Position /\ Shape(ReMarked(q))
      /\ ReMarked(q).qty = left /\ ReMarked(q).cost = kept /\ ReMarked(q).realized = won
  BY <1>5, <1>6, ReMarkedOK
<1>8. Sold(p, t) \in Result /\ Sold(p, t).p = ReMarked(q)
  BY <1>2, <1>4, <1>7 DEF Result
<1>9. Sold(p, t).anomaly \/ ReMarked(q).qty = p.qty + BaseMoved(t)
  BY <1>2, <1>4, <1>7
<1> QED
  BY <1>5, <1>7, <1>8, <1>9 DEF Does

\* apply_fill_to_position
LEMMA AppliedOK ==
  ASSUME NEW p \in Position, NEW t \in Trade, t.qty > 0, Shape(p)
  PROVE  Does(t, p, Applied(p, t))
BY BoughtOK, SoldOK DEF Applied

\* Nothing moved, in all nothing.
LEMMA TotalZero ==
  ASSUME NEW s \in Seq(Int), \A k \in 1..Len(s) : s[k] = 0
  PROVE  Total(s) = 0
<1> DEFINE Zero == {k \in 0..Len(s) : Running(s)[k] = 0}
<1>1. Len(s) \in Nat /\ 0 \in Zero
  BY RunningDef
<1>2. ASSUME NEW k \in 1..Len(s), k - 1 \in Zero PROVE k \in Zero
  <2>1. k \in 0..Len(s)
    OBVIOUS
  <2> QED
    BY <1>2, <2>1, RunningDef
<1>3. \A k \in 0..Len(s) : k \in Zero
  <2> HIDE DEF Zero
  <2> QED
    BY <1>1, <1>2, UpTo
<1>4. Len(s) \in 0..Len(s)
  BY <1>1
<1> QED
  BY <1>3, <1>4 DEF Total

\* What executions moved are sequences of amounts.
LEMMA SumsType ==
  ASSUME NEW ts \in Seq(Trade), NEW S
  PROVE  /\ Quotes(ts, S) \in Seq(Int) /\ Len(Quotes(ts, S)) = Len(ts)
         /\ Bases(ts, S) \in Seq(Int) /\ Len(Bases(ts, S)) = Len(ts)
         /\ Total(Quotes(ts, S)) \in Int /\ Total(Bases(ts, S)) \in Int
<1> DEFINE qs == Quotes(ts, S)
           bs == Bases(ts, S)
<1>1. Len(ts) \in Nat /\ \A k \in 1..Len(ts) : ts[k] \in Trade
  OBVIOUS
<1>2. qs \in [1..Len(ts) -> Int]
  BY <1>1, MovedType DEF Quotes
<1>3. bs \in [1..Len(ts) -> Int]
  BY <1>1, MovedType DEF Bases
<1>4. qs \in Seq(Int) /\ Len(qs) = Len(ts)
  <2> HIDE DEF qs
  <2>1. qs \in Seq(Int)
    BY <1>1, <1>2, SeqDef
  <2>2. DOMAIN qs = 1..Len(ts)
    BY <1>2
  <2> QED
    BY <1>1, <2>1, <2>2, LenProperties
<1>5. bs \in Seq(Int) /\ Len(bs) = Len(ts)
  <2> HIDE DEF bs
  <2>1. bs \in Seq(Int)
    BY <1>1, <1>3, SeqDef
  <2>2. DOMAIN bs = 1..Len(ts)
    BY <1>3
  <2> QED
    BY <1>1, <2>1, <2>2, LenProperties
<1> QED
  BY <1>4, <1>5, TotalType

\* One more execution ingested: the sums grow by what it moved.
LEMMA SumsMore ==
  ASSUME NEW ts \in Seq(Trade), NEW S \in SUBSET (1..Len(ts)), NEW k \in 1..Len(ts), k \notin S
  PROVE  /\ Total(Quotes(ts, S \cup {k})) = Total(Quotes(ts, S)) + QuoteMoved(ts[k])
         /\ Total(Bases(ts, S \cup {k})) = Total(Bases(ts, S)) + BaseMoved(ts[k])
<1> DEFINE More == S \cup {k}
<1>1. /\ Quotes(ts, S)[k] = 0 /\ Quotes(ts, More)[k] = QuoteMoved(ts[k])
      /\ \A j \in 1..Len(ts) : j # k => Quotes(ts, More)[j] = Quotes(ts, S)[j]
  BY DEF Quotes
<1>2. /\ Bases(ts, S)[k] = 0 /\ Bases(ts, More)[k] = BaseMoved(ts[k])
      /\ \A j \in 1..Len(ts) : j # k => Bases(ts, More)[j] = Bases(ts, S)[j]
  BY DEF Bases
<1> HIDE DEF More
<1>3. Total(Quotes(ts, More)) = Total(Quotes(ts, S)) + QuoteMoved(ts[k])
  <2>1. /\ Quotes(ts, S) \in Seq(Int) /\ Len(Quotes(ts, S)) = Len(ts)
        /\ Quotes(ts, More) \in Seq(Int) /\ Len(Quotes(ts, More)) = Len(ts)
    BY SumsType
  <2> QED
    BY <1>1, <2>1, TotalChange
<1>4. Total(Bases(ts, More)) = Total(Bases(ts, S)) + BaseMoved(ts[k])
  <2>1. /\ Bases(ts, S) \in Seq(Int) /\ Len(Bases(ts, S)) = Len(ts)
        /\ Bases(ts, More) \in Seq(Int) /\ Len(Bases(ts, More)) = Len(ts)
    BY SumsType
  <2> QED
    BY <1>2, <2>1, TotalChange
<1> QED
  BY <1>3, <1>4 DEF More

\* One more execution happened: it is in the sum of all, and in that of no set
\* of earlier ones.
LEMMA SumsAppend ==
  ASSUME NEW ts \in Seq(Trade), NEW t \in Trade, NEW S \in SUBSET (1..Len(ts))
  PROVE  /\ Total(Quotes(Append(ts, t), S)) = Total(Quotes(ts, S))
         /\ Total(Bases(Append(ts, t), S)) = Total(Bases(ts, S))
         /\ Total(Bases(Append(ts, t), 1..(Len(ts) + 1)))
              = Total(Bases(ts, 1..Len(ts))) + BaseMoved(t)
<1> DEFINE us == Append(ts, t)
           n == Len(ts)
<1>1. /\ n \in Nat /\ us \in Seq(Trade) /\ Len(us) = n + 1 /\ us[n + 1] = t
      /\ \A k \in 1..n : us[k] = ts[k]
  BY AppendProperties
<1>2. n + 1 \notin S /\ n + 1 \in 1..(n + 1) /\ 1..n \subseteq 1..(n + 1)
  BY <1>1
<1> HIDE DEF us
<1>3. Quotes(us, S)[n + 1] = 0 /\ \A k \in 1..n : Quotes(us, S)[k] = Quotes(ts, S)[k]
  BY <1>1, <1>2 DEF Quotes
<1>4. Bases(us, S)[n + 1] = 0 /\ \A k \in 1..n : Bases(us, S)[k] = Bases(ts, S)[k]
  BY <1>1, <1>2 DEF Bases
<1>5. /\ Bases(us, 1..(n + 1))[n + 1] = BaseMoved(t)
      /\ \A k \in 1..n : Bases(us, 1..(n + 1))[k] = Bases(ts, 1..n)[k]
  BY <1>1, <1>2 DEF Bases
<1> HIDE DEF n
<1>6. /\ Quotes(us, S) \in Seq(Int) /\ Len(Quotes(us, S)) = n + 1
      /\ Bases(us, S) \in Seq(Int) /\ Len(Bases(us, S)) = n + 1
      /\ Bases(us, 1..(n + 1)) \in Seq(Int) /\ Len(Bases(us, 1..(n + 1))) = n + 1
      /\ Quotes(ts, S) \in Seq(Int) /\ Len(Quotes(ts, S)) = n
      /\ Bases(ts, S) \in Seq(Int) /\ Len(Bases(ts, S)) = n
      /\ Bases(ts, 1..n) \in Seq(Int) /\ Len(Bases(ts, 1..n)) = n
      /\ Total(Quotes(ts, S)) \in Int /\ Total(Bases(ts, S)) \in Int
  <2>1. Len(ts) = n
    BY DEF n
  <2> QED
    BY <1>1, <2>1, SumsType
<1>7. Total(Quotes(us, S)) = Total(Quotes(ts, S))
  <2>1. Total(Quotes(us, S)) = Total(Quotes(ts, S)) + Quotes(us, S)[n + 1]
    BY <1>3, <1>6, TotalAppend
  <2> QED
    BY <1>3, <1>6, <2>1
<1>8. Total(Bases(us, S)) = Total(Bases(ts, S))
  <2>1. Total(Bases(us, S)) = Total(Bases(ts, S)) + Bases(us, S)[n + 1]
    BY <1>4, <1>6, TotalAppend
  <2> QED
    BY <1>4, <1>6, <2>1
<1>9. Total(Bases(us, 1..(n + 1))) = Total(Bases(ts, 1..n)) + BaseMoved(t)
  <2>1. Total(Bases(us, 1..(n + 1))) = Total(Bases(ts, 1..n)) + Bases(us, 1..(n + 1))[n + 1]
    BY <1>5, <1>6, TotalAppend
  <2> QED
    BY <1>5, <2>1
<1> QED
  BY <1>7, <1>8, <1>9 DEF us, n

\* One more execution applied, to the row or in a rebuild, keeps the books.
LEMMA BooksMore ==
  ASSUME NEW ts \in Seq(Trade), NEW S \in SUBSET (1..Len(ts)), NEW k \in 1..Len(ts), k \notin S,
         ts[k].qty > 0, NEW p \in Position, NEW a \in BOOLEAN, Books(ts, S, p, a)
  PROVE  /\ Applied(p, ts[k]) \in Result
         /\ Books(ts, S \cup {k}, Applied(p, ts[k]).p, Applied(p, ts[k]).anomaly \/ a)
<1> DEFINE r == Applied(p, ts[k])
<1>1. ts[k] \in Trade
  OBVIOUS
<1>2. Shape(p)
  BY DEF Books, Shape
<1>3. Does(ts[k], p, r)
  BY <1>1, <1>2, AppliedOK
<1>4. QuoteMoved(ts[k]) \in Int /\ BaseMoved(ts[k]) \in Int
  BY <1>1, MovedType
<1> DEFINE q0 == Total(Quotes(ts, S))
           q1 == Total(Quotes(ts, S \cup {k}))
           b0 == Total(Bases(ts, S))
           b1 == Total(Bases(ts, S \cup {k}))
<1>5. /\ q0 \in Int /\ b0 \in Int
      /\ q1 = q0 + QuoteMoved(ts[k]) /\ b1 = b0 + BaseMoved(ts[k])
  BY SumsType, SumsMore
<1> HIDE DEF r, q0, q1, b0, b1
<1>6. r \in Result /\ Shape(r.p)
  BY <1>3 DEF Does
<1>7. /\ p.realized \in Int /\ p.cost \in Int /\ p.qty \in Nat /\ r.p.realized \in Int
      /\ r.p.cost \in Int /\ r.p.qty \in Nat /\ r.anomaly \in BOOLEAN
  BY <1>6 DEF Position, Result
<1>8. ASSUME ~Misbought(ts, S \cup {k}) PROVE q1 = r.p.realized - r.p.cost
  <2>1. ~Misbought(ts, S) /\ ~(ts[k].side = "BUY" /\ BaseMoved(ts[k]) <= 0)
    BY <1>8 DEF Misbought
  <2>2. q0 = p.realized - p.cost
    BY <2>1 DEF Books, q0
  <2>3. r.p.realized - r.p.cost = (p.realized - p.cost) + QuoteMoved(ts[k])
    BY <1>3, <2>1 DEF Does
  <2> QED
    BY <1>5, <2>2, <2>3
<1>9. r.anomaly \/ a \/ r.p.qty = b1
  <2>1. a \/ p.qty = b0
    BY DEF Books, b0
  <2>2. r.anomaly \/ r.p.qty = p.qty + BaseMoved(ts[k])
    BY <1>3 DEF Does
  <2> QED
    BY <1>5, <2>1, <2>2
<1>10. Books(ts, S \cup {k}, r.p, r.anomaly \/ a)
  BY <1>6, <1>8, <1>9 DEF Books, Shape, q1, b1
<1> QED
  BY <1>6, <1>10 DEF r

\* An execution that is not ingested leaves the books alone.
LEMMA BooksAppend ==
  ASSUME NEW ts \in Seq(Trade), NEW t \in Trade, NEW S \in SUBSET (1..Len(ts)),
         NEW p, NEW a, Books(ts, S, p, a)
  PROVE  Books(Append(ts, t), S, p, a)
<1> DEFINE us == Append(ts, t)
<1>1. \A k \in S : us[k] = ts[k]
  BY AppendProperties
<1>2. Total(Quotes(us, S)) = Total(Quotes(ts, S)) /\ Total(Bases(us, S)) = Total(Bases(ts, S))
  BY SumsAppend
<1> HIDE DEF us
<1>3. Misbought(us, S) = Misbought(ts, S)
  BY <1>1 DEF Misbought
<1>4. Books(us, S, p, a)
  BY <1>2, <1>3 DEF Books
<1> QED
  BY <1>4 DEF us

\* So does a mark.
LEMMA BooksMark ==
  ASSUME NEW ts, NEW S, NEW p \in Position, NEW a, NEW price \in Prices, Books(ts, S, p, a)
  PROVE  Marked(p, price) \in Position /\ Books(ts, S, Marked(p, price), a)
<1> DEFINE q == Marked(p, price)
<1>1. /\ q \in Position /\ Shape(q)
      /\ q.qty = p.qty /\ q.cost = p.cost /\ q.realized = p.realized
  BY MarkedOK DEF Books
<1> HIDE DEF q
<1>2. Books(ts, S, q, a)
  BY <1>1 DEF Books, Shape
<1> QED
  BY <1>1, <1>2 DEF q

-----------------------------------------------------------------------------
\* The recursion of a rebuild has a solution: a position after each execution.
LEMMA RebuildingDef ==
  ASSUME NEW mark, trades \in Seq(Trade)
  PROVE  /\ Rebuilding(mark)[0] = [p |-> [NoPosition EXCEPT !.mark = mark], anomaly |-> FALSE]
         /\ \A k \in 1..Len(trades) :
              /\ k \notin fills => Rebuilding(mark)[k] = Rebuilding(mark)[k - 1]
              /\ k \in fills =>
                   LET q == Rebuilding(mark)[k - 1]
                       r == Applied(q.p, trades[k])
                   IN Rebuilding(mark)[k] = [p |-> r.p, anomaly |-> r.anomaly \/ q.anomaly]
<1> DEFINE n == Len(trades)
           first == [p |-> [NoPosition EXCEPT !.mark = mark], anomaly |-> FALSE]
           next(k, q) == LET r == Applied(q.p, trades[k])
                         IN [p |-> r.p, anomaly |-> r.anomaly \/ q.anomaly]
           After(m, f) == f = [k \in 0..m |-> IF k = 0 THEN first
                                              ELSE IF k \notin fills THEN f[k - 1]
                                              ELSE next(k, f[k - 1])]
           Good == {m \in 0..n : \E f : After(m, f)}
<1>0. n \in Nat
  OBVIOUS
<1>1. Rebuilding(mark) = CHOOSE f : After(n, f)
  BY DEF Rebuilding
<1> HIDE DEF first, next, n
<1>2. 0 \in Good
  <2> DEFINE z == [k \in 0..0 |-> first]
  <2>1. \A k \in 0..0 : k = 0
    OBVIOUS
  <2>2. After(0, z)
    BY <2>1
  <2>3. \E f : After(0, f)
    BY <2>2
  <2>4. 0 \in 0..n
    BY <1>0
  <2> HIDE DEF After
  <2> QED
    BY <2>3, <2>4
<1>3. ASSUME NEW m \in 1..n, m - 1 \in Good PROVE m \in Good
  <2>1. PICK f : After(m - 1, f)
    BY <1>3
  <2>2. m \in 0..n /\ m # 0 /\ m - 1 \in 0..(m - 1) /\ m \in Nat
    BY <1>0
  <2> DEFINE g == [k \in 0..m |-> IF k # m THEN f[k]
                                  ELSE IF m \notin fills THEN f[m - 1]
                                  ELSE next(m, f[m - 1])]
  <2>3. ASSUME NEW k \in 0..m
        PROVE  g[k] = IF k = 0 THEN first
                      ELSE IF k \notin fills THEN g[k - 1] ELSE next(k, g[k - 1])
    <3>1. CASE k = m
      <4>1. g[m - 1] = f[m - 1]
        BY <2>2
      <4> QED
        BY <3>1, <4>1, <2>2
    <3>2. CASE k # m
      <4>1. k \in 0..(m - 1) /\ g[k] = f[k] /\ (k # 0 => g[k - 1] = f[k - 1])
        BY <3>2, <2>2
      <4>2. f[k] = IF k = 0 THEN first
                   ELSE IF k \notin fills THEN f[k - 1] ELSE next(k, f[k - 1])
        BY <4>1, <2>1
      <4> HIDE DEF g
      <4> QED
        BY <4>1, <4>2
    <3> QED
      BY <3>1, <3>2
  <2>4. After(m, g)
    BY <2>3
  <2>5. \E h : After(m, h)
    BY <2>4
  <2> HIDE DEF After
  <2> QED
    BY <2>2, <2>5
<1>4. \E f : After(n, f)
  <2>1. \A m \in 0..n : m \in Good
    <3> HIDE DEF Good
    <3>1. \A m \in 1..n : m - 1 \in Good => m \in Good
      BY <1>3
    <3> QED
      BY <1>0, <1>2, <3>1, UpTo
  <2>2. n \in 0..n
    BY <1>0
  <2>3. n \in Good
    BY <2>1, <2>2
  <2> QED
    BY <2>3
<1>5. After(n, Rebuilding(mark))
  BY <1>1, <1>4
<1> DEFINE R == Rebuilding(mark)
<1>6. \A k \in 0..n : R[k] = IF k = 0 THEN first
                             ELSE IF k \notin fills THEN R[k - 1] ELSE next(k, R[k - 1])
  BY <1>5
<1>7. \A k \in 1..n : k \in 0..n /\ k # 0
  BY <1>0
<1>8. 0 \in 0..n
  BY <1>0
<1>9. R[0] = first /\ \A k \in 1..n : /\ k \notin fills => R[k] = R[k - 1]
                                      /\ k \in fills => R[k] = next(k, R[k - 1])
  BY <1>6, <1>7, <1>8
<1> QED
  BY <1>9 DEF first, next, n

\* A rebuilt position has the books of all recorded fills.
LEMMA RebuiltBooks ==
  ASSUME TypeOK, \A k \in 1..Len(trades) : trades[k].qty > 0, NEW mark \in {0} \cup Prices
  PROVE  /\ Rebuilt(mark) \in Result
         /\ Books(trades, fills, Rebuilt(mark).p, Rebuilt(mark).anomaly)
<1> DEFINE n == Len(trades)
           R == Rebuilding(mark)
           Upto(k) == fills \cap (1..k)
           Good == {k \in 0..n : R[k] \in Result /\ Books(trades, Upto(k), R[k].p, R[k].anomaly)}
<1>0. n \in Nat /\ trades \in Seq(Trade) /\ fills \subseteq 1..n
  BY DEF TypeOK
<1>1. 0 \in Good
  <2> DEFINE p == [NoPosition EXCEPT !.mark = mark]
  <2>1. R[0] = [p |-> p, anomaly |-> FALSE]
    BY <1>0, RebuildingDef
  <2>2. /\ p \in Position /\ p.qty = 0 /\ p.cost = 0 /\ p.realized = 0 /\ p.unrealized = 0
    BY DEF Position, NoPosition
  <2> HIDE DEF p
  <2>3. Upto(0) = {}
    BY <1>0
  <2>4. Total(Quotes(trades, {})) = 0 /\ Total(Bases(trades, {})) = 0
    <3>1. \A k \in 1..n : Quotes(trades, {})[k] = 0 /\ Bases(trades, {})[k] = 0
      BY DEF Quotes, Bases
    <3> QED
      BY <1>0, <3>1, SumsType, TotalZero
  <2>5. Books(trades, {}, p, FALSE)
    BY <2>2, <2>4 DEF Books
  <2>6. R[0] \in Result /\ R[0].p = p /\ ~R[0].anomaly
    BY <2>1, <2>2 DEF Result
  <2>7. Books(trades, Upto(0), R[0].p, R[0].anomaly)
    BY <2>3, <2>5, <2>6 DEF Books
  <2> HIDE DEF R
  <2> QED
    BY <1>0, <2>6, <2>7
<1>2. ASSUME NEW k \in 1..n, k - 1 \in Good PROVE k \in Good
  <2>1. k \in 0..n /\ k - 1 \in 0..n
    BY <1>0
  <2> DEFINE q == R[k - 1]
             S == Upto(k - 1)
  <2>2. q \in Result /\ Books(trades, S, q.p, q.anomaly)
    BY <1>2
  <2>3. S \in SUBSET (1..n) /\ k \notin S
    BY <1>0
  <2>4. CASE k \notin fills
    <3>1. R[k] = q
      BY <1>0, <2>4, RebuildingDef
    <3>2. Upto(k) = S
      BY <1>0, <2>4
    <3> HIDE DEF R
    <3> QED
      BY <2>1, <2>2, <3>1, <3>2
  <2>5. CASE k \in fills
    <3> DEFINE r == Applied(q.p, trades[k])
    <3>1. R[k] = [p |-> r.p, anomaly |-> r.anomaly \/ q.anomaly]
      BY <1>0, <2>5, RebuildingDef
    <3>2. Upto(k) = S \cup {k}
      BY <1>0, <2>5
    <3>3. q.p \in Position /\ q.anomaly \in BOOLEAN
      BY <2>2 DEF Result
    <3> HIDE DEF R, q, S
    <3>4. r \in Result /\ Books(trades, S \cup {k}, r.p, r.anomaly \/ q.anomaly)
      BY <1>0, <2>2, <2>3, <3>3, BooksMore
    <3> HIDE DEF r
    <3>5. R[k] \in Result /\ R[k].p = r.p /\ R[k].anomaly = (r.anomaly \/ q.anomaly)
      BY <3>1, <3>4 DEF Result
    <3>6. Books(trades, S \cup {k}, R[k].p, R[k].anomaly)
      BY <3>4, <3>5
    <3> QED
      BY <2>1, <3>2, <3>5, <3>6
  <2> QED
    BY <2>4, <2>5
<1>3. \A k \in 0..n : k \in Good
  <2> HIDE DEF Good
  <2>1. \A k \in 1..n : k - 1 \in Good => k \in Good
    BY <1>2
  <2> QED
    BY <1>0, <1>1, <2>1, UpTo
<1>4. n \in 0..n /\ Upto(n) = fills
  <2>1. n \in 0..n
    BY <1>0
  <2>2. fills \cap (1..n) = fills
    BY <1>0
  <2> QED
    BY <2>1, <2>2
<1>5. n \in Good
  BY <1>3, <1>4
<1> QED
  BY <1>4, <1>5 DEF Rebuilt

-----------------------------------------------------------------------------
\* The constants are numbers; an order trades something, at a price.
LEMMA ConstantsOK ==
  /\ StartingBalance \in Int
  /\ \A price \in Prices : price \in Nat /\ price > 0
  /\ \A n \in Quantities : n \in Nat /\ n > 0
BY AccountingAssumption

\* No execution, no position, no day.
LEMMA InitIInv == Init => IInv
<1> SUFFICES ASSUME Init PROVE IInv
  OBVIOUS
<1>1. TypeOK
  <2>1. trades \in Seq(Trade) /\ Len(trades) = 0 /\ Len(trades) <= MaxTrades
    BY AccountingAssumption, EmptySeq DEF Init
  <2>2. position \in Position /\ rebuild \in Rebuild /\ cycle \in Cycle
    BY DEF Init, Position, NoPosition, Rebuild, NoRebuild, Result, Cycle, IdleCycle
  <2>3. risk \in Day /\ truth \in Day /\ today \in 1..MaxDays
    BY AccountingAssumption DEF Init, Day, NoDay
  <2>4. account \in [quote: Int, base: Int]
    BY AccountingAssumption DEF Init
  <2> QED
    BY <2>1, <2>2, <2>3, <2>4 DEF TypeOK, Init
<1>2. PositiveTrades
  BY DEF PositiveTrades, Init
<1>3. \A S : Total(Quotes(trades, S)) = 0 /\ Total(Bases(trades, S)) = 0
  <2>1. trades \in Seq(Trade) /\ Len(trades) = 0
    BY <1>1 DEF TypeOK, Init
  <2> QED
    BY <2>1, SumsType, TotalType
<1>4. OwnBooks
  BY <1>3 DEF OwnBooks, Books, Init, NoPosition
<1>5. RebuildBooks
  BY DEF RebuildBooks, Init, NoRebuild
<1>6. Holdings
  BY <1>3 DEF Holdings, Init
<1>7. DayKnown
  BY DEF DayKnown, Init, NoDay
<1> QED
  BY <1>1, <1>2, <1>4, <1>5, <1>6, <1>7 DEF IInv

\* What an execution brings into the account goes into the sum of all, and
\* into no book: it is not ingested yet.
LEMMA ExecuteKeeps ==
  ASSUME IInv, NEW t \in Trade, t.qty > 0, Execute(t),
         UNCHANGED <<ledger, rebuild, today, risk, history>>
  PROVE  /\ trades' \in Seq(Trade) /\ Len(trades') = Len(trades) + 1 /\ Len(trades') <= MaxTrades
         /\ account' \in [quote: Int, base: Int]
         /\ PositiveTrades' /\ OwnBooks' /\ RebuildBooks' /\ Holdings' /\ DayKnown'
<1> DEFINE n == Len(trades)
           us == Append(trades, t)
<1>0. /\ TypeOK /\ PositiveTrades /\ OwnBooks /\ RebuildBooks /\ Holdings /\ DayKnown
      /\ trades \in Seq(Trade) /\ n \in Nat
      /\ fills \subseteq 1..n /\ accounted \subseteq 1..n /\ rebuild.from \subseteq 1..n
  <2>1. TypeOK /\ PositiveTrades /\ OwnBooks /\ RebuildBooks /\ Holdings /\ DayKnown
    BY DEF IInv
  <2>2. trades \in Seq(Trade) /\ fills \subseteq 1..n /\ accounted \subseteq fills
    BY <2>1 DEF TypeOK
  <2>3. rebuild.from \subseteq fills /\ n \in Nat
    BY <2>1, <2>2 DEF RebuildBooks
  <2> QED
    BY <2>1, <2>2, <2>3
<1>1. /\ trades' = us /\ us \in Seq(Trade) /\ Len(us) = n + 1 /\ us[n + 1] = t
      /\ \A k \in 1..n : us[k] = trades[k]
  BY <1>0, AppendProperties DEF Execute
<1>2. n + 1 <= MaxTrades
  BY <1>0, AccountingAssumption DEF Execute
<1>3. /\ account'.base = account.base + BaseMoved(t) /\ account' \in [quote: Int, base: Int]
  BY <1>0, MovedType DEF Execute, TypeOK
<1>4. PositiveTrades'
  <2>1. \A k \in 1..(n + 1) : us[k].qty > 0
    BY <1>0, <1>1 DEF PositiveTrades
  <2> QED
    BY <1>1, <2>1 DEF PositiveTrades
<1>5. Books(us, accounted, position, anomaly)
  BY <1>0, BooksAppend DEF OwnBooks
<1>6. rebuild.on => Books(us, rebuild.from, rebuild.res.p, rebuild.res.anomaly)
  BY <1>0, BooksAppend DEF RebuildBooks
<1>7. Total(Bases(us, 1..(n + 1))) = Total(Bases(trades, 1..n)) + BaseMoved(t)
  BY <1>0, SumsAppend
<1> HIDE DEF us
<1>8. OwnBooks'
  BY <1>1, <1>5 DEF OwnBooks, ledger
<1>9. RebuildBooks'
  BY <1>0, <1>1, <1>6 DEF RebuildBooks, ledger
<1>10. Holdings'
  BY <1>0, <1>1, <1>3, <1>7 DEF Holdings
<1>11. DayKnown'
  BY <1>0 DEF DayKnown, history
<1> QED
  BY <1>1, <1>2, <1>3, <1>4, <1>8, <1>9, <1>10, <1>11

\* An order and the execution of it.
LEMMA ExecuteType ==
  ASSUME IInv, NEW t \in Trade, t.qty > 0, Execute(t), cycle' \in Cycle,
         UNCHANGED <<paper, ledger, rebuild, today, risk, history>>
  PROVE  IInv'
<1>1. TypeOK
  BY DEF IInv
<1>2. /\ trades' \in Seq(Trade) /\ Len(trades') = Len(trades) + 1 /\ Len(trades') <= MaxTrades
      /\ account' \in [quote: Int, base: Int]
      /\ PositiveTrades' /\ OwnBooks' /\ RebuildBooks' /\ Holdings' /\ DayKnown'
  BY ExecuteKeeps
<1>3. 1..Len(trades) \subseteq 1..Len(trades')
  <2>1. Len(trades) \in Nat
    BY <1>1 DEF TypeOK
  <2> QED
    BY <1>2, <2>1
<1>4. TypeOK'
  BY <1>1, <1>2, <1>3 DEF TypeOK, ledger, history
<1> QED
  BY <1>2, <1>4 DEF IInv

\* A stop sells some quantity.
LEMMA StopExecutesIInv == ASSUME IInv, StopExecutes PROVE IInv'
<1>1. PICK t \in [side: {"SELL"}, qty: Quantities, price: Prices, fee: FeeIn] : Execute(t)
  BY DEF StopExecutes
<1>2. t \in Trade /\ t.qty > 0
  <2>1. t.qty \in Nat /\ t.qty > 0
    BY <1>1, ConstantsOK
  <2> QED
    BY <1>1, <2>1 DEF Trade
<1>3. cycle' \in Cycle /\ UNCHANGED <<paper, ledger, rebuild, today, risk, history>>
  BY DEF StopExecutes, IInv, TypeOK
<1> QED
  BY <1>1, <1>2, <1>3, ExecuteType

\* An entry buys some quantity.
LEMMA EnterIInv == ASSUME IInv, Enter PROVE IInv'
<1>1. PICK t \in [side: {"BUY"}, qty: Quantities, price: Prices, fee: FeeIn] : Execute(t)
  BY DEF Enter
<1>2. t \in Trade /\ t.qty > 0
  <2>1. t.qty \in Nat /\ t.qty > 0
    BY <1>1, ConstantsOK
  <2> QED
    BY <1>1, <2>1 DEF Trade
<1>3. cycle' \in Cycle /\ UNCHANGED <<paper, ledger, rebuild, today, risk, history>>
  BY DEF Enter, Cycle, IdleCycle
<1> QED
  BY <1>1, <1>2, <1>3, ExecuteType

\* An exit sells at most the position.
LEMMA ExitIInv == ASSUME IInv, Exit PROVE IInv'
<1>0. position.qty \in Nat
  BY DEF IInv, TypeOK, Position
<1>1. PICK t \in [side: {"SELL"}, qty: 1..position.qty, price: Prices, fee: FeeIn] : Execute(t)
  BY DEF Exit
<1>2. t \in Trade /\ t.qty > 0
  BY <1>0, <1>1 DEF Trade
<1>3. cycle' \in Cycle /\ UNCHANGED <<paper, ledger, rebuild, today, risk, history>>
  BY DEF Exit, Cycle, IdleCycle
<1> QED
  BY <1>1, <1>2, <1>3, ExecuteType

\* Ingestion: the row gets the books of one more execution.
LEMMA IngestIInv == ASSUME IInv, NEW k \in 1..Len(trades), Ingest(k) PROVE IInv'
<1> DEFINE r == Applied(position, trades[k])
<1>0. /\ TypeOK /\ PositiveTrades /\ OwnBooks /\ RebuildBooks /\ Holdings /\ DayKnown
      /\ trades \in Seq(Trade) /\ position \in Position /\ anomaly \in BOOLEAN
      /\ accounted \in SUBSET (1..Len(trades)) /\ k \notin accounted /\ k \notin fills
      /\ fills \subseteq 1..Len(trades) /\ accounted \subseteq fills
  BY DEF IInv, TypeOK, Ingest
<1>1. r \in Result /\ Books(trades, accounted \cup {k}, r.p, r.anomaly \/ anomaly)
  BY <1>0, BooksMore DEF PositiveTrades, OwnBooks
<1>2. /\ fills' = fills \cup {k} /\ accounted' = accounted \cup {k} /\ position' = r.p
      /\ anomaly' = (anomaly \/ r.anomaly)
      /\ UNCHANGED <<paper, trades, rebuild, account, cycle, today, risk, history>>
  BY DEF Ingest
<1> HIDE DEF r
<1>3. position' \in Position /\ anomaly' \in BOOLEAN
  BY <1>0, <1>1, <1>2 DEF Result
<1>4. TypeOK'
  BY <1>0, <1>2, <1>3 DEF TypeOK, history
<1>5. OwnBooks'
  BY <1>1, <1>2 DEF OwnBooks, Books
<1>6. RebuildBooks'
  BY <1>0, <1>2 DEF RebuildBooks
<1>7. PositiveTrades' /\ Holdings' /\ DayKnown'
  BY <1>0, <1>2 DEF PositiveTrades, Holdings, DayKnown, history
<1> QED
  BY <1>4, <1>5, <1>6, <1>7 DEF IInv

\* The result of a rebuild has books of its own, ...
LEMMA RebuildReadIInv == ASSUME IInv, RebuildRead PROVE IInv'
<1> DEFINE r == Rebuilt(position.mark)
<1>0. /\ TypeOK /\ PositiveTrades /\ OwnBooks /\ RebuildBooks /\ Holdings /\ DayKnown
      /\ position.mark \in {0} \cup Prices /\ fills \in SUBSET (1..MaxTrades)
  <2>1. TypeOK /\ PositiveTrades /\ OwnBooks /\ RebuildBooks /\ Holdings /\ DayKnown
    BY DEF IInv
  <2>2. Len(trades) \in Nat /\ Len(trades) <= MaxTrades /\ fills \subseteq 1..Len(trades)
    BY <2>1 DEF TypeOK
  <2>3. position.mark \in {0} \cup Prices
    BY <2>1 DEF TypeOK, Position
  <2> QED
    BY <2>1, <2>2, <2>3, AccountingAssumption
<1>1. r \in Result /\ Books(trades, fills, r.p, r.anomaly)
  BY <1>0, RebuiltBooks DEF PositiveTrades
<1>2. /\ rebuild' = [on |-> TRUE, from |-> fills, res |-> r]
      /\ UNCHANGED <<paper, trades, ledger, account, cycle, today, risk, history>>
  BY DEF RebuildRead
<1> HIDE DEF r
<1>3. rebuild' \in Rebuild /\ rebuild'.from = fills /\ rebuild'.res = r
  BY <1>0, <1>1, <1>2 DEF Rebuild
<1>4. TypeOK'
  BY <1>0, <1>2, <1>3 DEF TypeOK, ledger, history
<1>5. RebuildBooks'
  BY <1>1, <1>2, <1>3 DEF RebuildBooks, ledger
<1>6. PositiveTrades' /\ OwnBooks' /\ Holdings' /\ DayKnown'
  BY <1>0, <1>2 DEF PositiveTrades, OwnBooks, Holdings, DayKnown, ledger, history
<1> QED
  BY <1>4, <1>5, <1>6 DEF IInv

\* ... and they become those of the row, stale or not.
LEMMA RebuildSaveIInv == ASSUME IInv, RebuildSave PROVE IInv'
<1>0. /\ TypeOK /\ PositiveTrades /\ OwnBooks /\ RebuildBooks /\ Holdings /\ DayKnown
  BY DEF IInv
<1>1. rebuild.res.p \in Position /\ rebuild.res.anomaly \in BOOLEAN /\ rebuild.from \subseteq fills
  BY <1>0 DEF TypeOK, Rebuild, Result, RebuildBooks
<1>2. NoRebuild \in Rebuild /\ ~NoRebuild.on /\ NoRebuild.from = {}
  BY DEF NoRebuild, Rebuild, Result, Position, NoPosition
<1>3. TypeOK'
  BY <1>0, <1>1, <1>2 DEF TypeOK, RebuildSave, history
<1>4. OwnBooks'
  BY <1>0 DEF RebuildSave, RebuildBooks, OwnBooks
<1>5. RebuildBooks'
  BY <1>2 DEF RebuildSave, RebuildBooks
<1>6. PositiveTrades' /\ Holdings' /\ DayKnown'
  BY <1>0 DEF RebuildSave, PositiveTrades, Holdings, DayKnown, history
<1> QED
  BY <1>3, <1>4, <1>5, <1>6 DEF IInv

\* A mark, at the start of a cycle.
LEMMA MarkPositionIInv == ASSUME IInv, NEW price \in Prices, MarkPosition(price) PROVE IInv'
<1>0. /\ TypeOK /\ PositiveTrades /\ OwnBooks /\ RebuildBooks /\ Holdings /\ DayKnown
  BY DEF IInv
<1> DEFINE q == Marked(position, price)
<1>1. q \in Position /\ Books(trades, accounted, q, anomaly)
  BY <1>0, BooksMark DEF TypeOK, OwnBooks
<1>2. /\ position' = q /\ cycle' = [pc |-> "marked", price |-> price, quote |-> 0]
      /\ UNCHANGED <<paper, trades, fills, accounted, anomaly, rebuild, account, today, risk,
                     history>>
  BY DEF MarkPosition
<1> HIDE DEF q
<1>3. cycle' \in Cycle
  BY <1>2 DEF Cycle
<1>4. TypeOK'
  BY <1>0, <1>1, <1>2, <1>3 DEF TypeOK, history
<1>5. OwnBooks'
  BY <1>1, <1>2 DEF OwnBooks
<1>6. PositiveTrades' /\ RebuildBooks' /\ Holdings' /\ DayKnown'
  BY <1>0, <1>2 DEF PositiveTrades, RebuildBooks, Holdings, DayKnown, history
<1> QED
  BY <1>4, <1>5, <1>6 DEF IInv

\* The books and the day are about other variables than the cycle.
LEMMA OnlyCycle ==
  ASSUME IInv, cycle' \in Cycle, UNCHANGED <<paper, trades, ledger, rebuild, account>>,
         today' \in 1..MaxDays, risk' \in Day, truth' \in Day, behind' \in BOOLEAN, DayKnown'
  PROVE  IInv'
<1>0. /\ TypeOK /\ PositiveTrades /\ OwnBooks /\ RebuildBooks /\ Holdings
  BY DEF IInv
<1>1. TypeOK'
  BY <1>0 DEF TypeOK, ledger
<1>2. PositiveTrades' /\ OwnBooks' /\ RebuildBooks' /\ Holdings'
  BY <1>0 DEF PositiveTrades, OwnBooks, RebuildBooks, Holdings, ledger
<1> QED
  BY <1>1, <1>2 DEF IInv

\* What a cycle reads is a balance.
LEMMA ReadBalancesIInv == ASSUME IInv, ReadBalances PROVE IInv'
<1>0. TypeOK /\ DayKnown
  BY DEF IInv
<1>1. QuoteBalance \in Int
  <2>1. Total(Quotes(trades, fills)) \in Int
    BY <1>0, SumsType DEF TypeOK
  <2>2. account.quote \in Int
    BY <1>0 DEF TypeOK
  <2> QED
    BY <2>1, <2>2, AccountingAssumption DEF QuoteBalance, PaperCash
<1>2. cycle' \in Cycle
  <2> HIDE DEF QuoteBalance
  <2>1. cycle \in Cycle
    BY <1>0 DEF TypeOK
  <2>2. [cycle EXCEPT !.pc = "balances", !.quote = QuoteBalance] \in Cycle
    BY <1>1, <2>1 DEF Cycle
  <2>3. IdleCycle \in Cycle
    BY DEF IdleCycle, Cycle
  <2> QED
    BY <2>2, <2>3 DEF ReadBalances
<1>3. UNCHANGED <<paper, trades, ledger, rebuild, account, today, risk, history>>
  BY DEF ReadBalances
<1>4. DayKnown' /\ today' \in 1..MaxDays /\ risk' \in Day /\ truth' \in Day /\ behind' \in BOOLEAN
  BY <1>0, <1>3 DEF DayKnown, TypeOK, history
<1> QED
  BY <1>2, <1>3, <1>4, OnlyCycle

\* An update of the day makes it today's.
LEMMA DayOfOK ==
  ASSUME TypeOK, NEW day \in Day, NEW equity \in Int
  PROVE  /\ Updated(day, equity) \in Day /\ Updated(day, equity).date = today
<1> DEFINE d == DayOf(day, equity)
<1>1. d \in Day /\ d.date = today
  <2>1. today \in 0..MaxDays
    BY AccountingAssumption DEF TypeOK
  <2>2. [date |-> today, start |-> equity, halted |-> FALSE] \in Day
    BY <2>1 DEF Day
  <2> QED
    BY <2>2 DEF DayOf
<1>2. PICK h \in BOOLEAN : h <=> d.halted \/ Loses(d, equity)
  OBVIOUS
<1>3. Updated(day, equity) = [d EXCEPT !.halted = h]
  BY <1>1, <1>2 DEF Updated, Day
<1> HIDE DEF d
<1> DEFINE u == [d EXCEPT !.halted = h]
<1>4. u \in Day /\ u.date = d.date
  BY <1>1 DEF Day
<1> HIDE DEF u
<1> QED
  BY <1>1, <1>3, <1>4 DEF u

\* Equity from a complete ledger and the balance as it is, is what the account
\* is worth.
LEMMA WorthKnown ==
  ASSUME IInv, Complete, cycle.quote = account.quote
  PROVE  cycle.quote + position.qty * cycle.price = Worth
<1>1. position.qty = Total(Bases(trades, accounted))
  BY DEF IInv, OwnBooks, Books, Complete
<1>2. account.base = Total(Bases(trades, accounted))
  BY DEF IInv, Holdings, Complete
<1> QED
  BY <1>1, <1>2 DEF Worth

\* Both days are updated alike when this update was not behind.
LEMMA UpdateDailyIInv == ASSUME IInv, UpdateDaily PROVE IInv'
<1>0. TypeOK /\ DayKnown
  BY DEF IInv
<1> DEFINE equity == cycle.quote + position.qty * cycle.price
<1>1. equity \in Int /\ Worth \in Int
  <2>1. /\ cycle.quote \in Int /\ position.qty \in Int /\ cycle.price \in Int
        /\ account.quote \in Int /\ account.base \in Int
    BY <1>0, ConstantsOK DEF TypeOK, Cycle, Position
  <2>2. \A a, b, c \in Int : a + b * c \in Int
    OBVIOUS
  <2> QED
    BY <2>1, <2>2 DEF Worth
<1>2. risk' = Updated(risk, equity) /\ truth' = Updated(truth, Worth)
  BY DEF UpdateDaily, Updated
<1>3. /\ risk' \in Day /\ risk'.date = today
      /\ truth' \in Day /\ truth'.date = today
  <2> HIDE DEF equity
  <2>1. risk \in Day /\ truth \in Day
    BY <1>0 DEF TypeOK
  <2>2. Updated(risk, equity) \in Day /\ Updated(risk, equity).date = today
    BY <1>0, <1>1, <2>1, DayOfOK
  <2>3. Updated(truth, Worth) \in Day /\ Updated(truth, Worth).date = today
    BY <1>0, <1>1, <2>1, DayOfOK
  <2> QED
    BY <1>2, <2>2, <2>3
<1>4. ASSUME ~behind' PROVE risk' = truth'
  <2>1. Complete /\ cycle.quote = account.quote /\ ~(behind /\ truth.date = today)
    BY <1>4 DEF UpdateDaily
  <2>2. equity = Worth
    BY <2>1, WorthKnown
  <2>3. DayOf(risk, Worth) = DayOf(truth, Worth)
    <3>1. CASE truth.date = today
      BY <1>0, <2>1, <3>1 DEF DayKnown
    <3>2. CASE truth.date # today
      BY <1>0, <3>2 DEF DayKnown, DayOf
    <3> QED
      BY <3>1, <3>2
  <2> HIDE DEF equity
  <2> QED
    BY <1>2, <2>2, <2>3 DEF Updated
<1>5. today' = today /\ today \in 1..MaxDays /\ today <= today
  BY <1>0 DEF UpdateDaily, TypeOK
<1>6. DayKnown'
  BY <1>3, <1>4, <1>5 DEF DayKnown
<1>7. behind' \in BOOLEAN
  BY DEF UpdateDaily
<1>8. cycle' \in Cycle /\ UNCHANGED <<paper, trades, ledger, rebuild, account>>
  <2>1. cycle \in Cycle
    BY <1>0 DEF TypeOK
  <2>2. [cycle EXCEPT !.pc = "decide"] \in Cycle
    BY <2>1 DEF Cycle
  <2> QED
    BY <2>2 DEF UpdateDaily
<1> HIDE DEF equity
<1> QED
  BY <1>3, <1>5, <1>6, <1>7, <1>8, OnlyCycle

\* The end of a cycle changes neither books nor days.
LEMMA CycleEndsIInv == ASSUME IInv, CycleEnds PROVE IInv'
<1>0. TypeOK /\ DayKnown
  BY DEF IInv
<1>1. cycle' \in Cycle /\ UNCHANGED <<paper, trades, ledger, rebuild, account, today, risk, history>>
  BY DEF CycleEnds, IdleCycle, Cycle
<1>2. DayKnown' /\ today' \in 1..MaxDays /\ risk' \in Day /\ truth' \in Day /\ behind' \in BOOLEAN
  BY <1>0, <1>1 DEF DayKnown, TypeOK, history
<1> QED
  BY <1>1, <1>2, OnlyCycle

\* At midnight no day is today's any more.
LEMMA NewDayIInv == ASSUME IInv, NewDay PROVE IInv'
<1>0. TypeOK /\ DayKnown
  BY DEF IInv
<1>1. /\ UNCHANGED <<paper, trades, ledger, rebuild, account, cycle, risk, history>>
      /\ today' = today + 1 /\ today' \in 1..MaxDays
  BY <1>0, AccountingAssumption DEF NewDay, TypeOK
<1>2. risk.date \in Nat /\ today \in Nat /\ risk.date <= today
  BY <1>0 DEF DayKnown, TypeOK, Day
<1>3. DayKnown'
  BY <1>0, <1>1, <1>2 DEF DayKnown, history
<1>4. cycle' \in Cycle /\ risk' \in Day /\ truth' \in Day /\ behind' \in BOOLEAN
  BY <1>0, <1>1 DEF TypeOK, history
<1> QED
  BY <1>1, <1>3, <1>4, OnlyCycle

\* Every step keeps IInv.
LEMMA StepIInv == IInv /\ [Next]_vars => IInv'
<1> SUFFICES ASSUME IInv, [Next]_vars PROVE IInv'
  OBVIOUS
<1>1. CASE Next
  BY <1>1, StopExecutesIInv, IngestIInv, RebuildReadIInv, RebuildSaveIInv, MarkPositionIInv,
     ReadBalancesIInv, UpdateDailyIInv, EnterIInv, ExitIInv, CycleEndsIInv, NewDayIInv DEF Next
<1>2. CASE UNCHANGED vars
  <2>1. TypeOK /\ DayKnown
    BY DEF IInv
  <2>2. DayKnown' /\ today' \in 1..MaxDays /\ risk' \in Day /\ truth' \in Day
        /\ behind' \in BOOLEAN /\ cycle' \in Cycle
    BY <1>2, <2>1 DEF DayKnown, TypeOK, history, vars
  <2>3. UNCHANGED <<paper, trades, ledger, rebuild, account>>
    BY <1>2 DEF vars
  <2> QED
    BY <2>2, <2>3, OnlyCycle
<1> QED
  BY <1>1, <1>2

-----------------------------------------------------------------------------
\* IInv holds in every reachable state.
THEOREM Invariance == Spec => []IInv
BY InitIInv, StepIInv, PTL DEF Spec

\* The variables keep their types: a position is never negative, whatever order
\* fills are ingested in (position_service.py clamps a sale).
THEOREM TypeCorrect == Spec => []TypeOK
<1>1. IInv => TypeOK
  BY DEF IInv
<1> QED
  BY <1>1, Invariance, PTL

\* Two books agree: the cash derived from the fills (paper_cash) and the
\* realized, invested and unrealized amounts of the position row, after any
\* order of ingestion, clamped sales and rebuilds.
THEOREM BooksAgree == Spec => []CashIdentity
<1>1. IInv => CashIdentity
  <2> SUFFICES ASSUME IInv, accounted = fills, ~Misbought(trades, fills)
               PROVE  /\ PaperCash = StartingBalance + position.realized - position.cost
                      /\ position.mark # 0 =>
                            PaperCash + position.qty * position.mark
                                = StartingBalance + position.realized + position.unrealized
    BY DEF CashIdentity
  <2>0. TypeOK /\ OwnBooks
    BY DEF IInv
  <2>1. /\ position.qty \in Nat /\ position.cost \in Int /\ position.realized \in Int
        /\ position.mark \in Nat /\ StartingBalance \in Int
    BY <2>0, ConstantsOK DEF TypeOK, Position
  <2>2. /\ Total(Quotes(trades, fills)) = position.realized - position.cost
        /\ position.qty = 0 => position.cost = 0
        /\ position.mark # 0 =>
             position.unrealized = IF position.qty > 0
                                   THEN position.mark * position.qty - position.cost ELSE 0
    BY <2>0 DEF OwnBooks, Books
  <2>3. PaperCash = StartingBalance + position.realized - position.cost
    BY <2>1, <2>2 DEF PaperCash
  <2>4. ASSUME position.mark # 0
        PROVE  PaperCash + position.qty * position.mark
                   = StartingBalance + position.realized + position.unrealized
    <3>1. CASE position.qty > 0
      <4>1. PICK m \in Int : m = position.mark * position.qty
        BY <2>1
      <4>2. position.qty * position.mark = m
        BY <2>1, <4>1
      <4>3. position.unrealized = m - position.cost
        BY <2>2, <2>4, <3>1, <4>1
      <4> QED
        BY <2>1, <2>3, <4>2, <4>3
    <3>2. CASE position.qty = 0
      <4>1. position.qty * position.mark = 0 /\ position.unrealized = 0 /\ position.cost = 0
        BY <2>1, <2>2, <2>4, <3>2
      <4> QED
        BY <2>1, <2>3, <4>1
    <3> QED
      BY <2>1, <3>1, <3>2
  <2> QED
    BY <2>3, <2>4
<1> QED
  BY <1>1, Invariance, PTL

\* The position holds what its fills delivered, or an anomaly was raised
\* (SELL_EXCEEDS_TRACKED_POSITION).
THEOREM HoldsWhatWasDelivered == Spec => []NetQuantity
<1>1. IInv => NetQuantity
  BY DEF IInv, OwnBooks, Books, NetQuantity
<1> QED
  BY <1>1, Invariance, PTL

\* Entries are halted exactly when the account lost the day's limit at some
\* cycle, as long as no cycle of the day saw an incomplete ledger
\* (RiskManager.update_daily).
THEOREM HaltsOnLoss == Spec => []HaltedExactlyOnLoss
<1>1. IInv => HaltedExactlyOnLoss
  BY DEF IInv, DayKnown, HaltedExactlyOnLoss
<1> QED
  BY <1>1, Invariance, PTL
=============================================================================
