---------------------------- MODULE OutboxProofs ----------------------------
(***************************************************************************)
(* Proofs about Outbox, for every set of workers, every number of rows,    *)
(* attempts and faults: its safety invariants, its action properties, and  *)
(* that the mirrored order implements ControlPlaneMirror.                  *)
(*                                                                         *)
(* The argument: nothing Laravel or Telegram received is ever taken back   *)
(* (Grow), so the effect of a row, once it is there, stays (EffectKept).   *)
(* IInv says where that effect is known: at a request that was executed,   *)
(* at a stored answer, and at a dispatcher that read a success and is      *)
(* about to mark its row.  Who delivers is a matter of the lease: as long  *)
(* as no flush outlived it, a busy dispatcher holds it and every row of    *)
(* its flush is still PENDING (LeaseOK).                                   *)
(***************************************************************************)
EXTENDS Outbox, NumberLemmas

-----------------------------------------------------------------------------
\* A control-plane row whose payload Laravel will never accept.
Unacceptable(i) == rows[i].kind \in CP_KINDS /\ ~rows[i].valid

\* Ids are given out in order, without a gap (AUTOINCREMENT), and a row has a
\* kind as soon as it exists.
RowsOK == \A i \in RowId : /\ rows[i].status = "ABSENT" <=> rows[i].kind = "none"
                           /\ \A j \in RowId : j < i /\ rows[i].status # "ABSENT"
                                                => rows[j].status # "ABSENT"

\* A dispatcher has rows in hand exactly while it is delivering, each of them
\* once and with a count of attempts that is not ahead of the table; about to
\* mark its row sent, the receiver has it, and about to dead-letter it as
\* rejected, Laravel can never take it.
GoodFlush(w) ==
    /\ flush[w].pc \in {"idle", "read"} <=> flush[w].batch = {}
    /\ \A t, u \in flush[w].batch : t.id = u.id => t = u
    /\ \A t \in flush[w].batch :
          /\ rows[t.id].status # "ABSENT"
          /\ t.attempts <= rows[t.id].attempts
          /\ t = Current(w) /\ flush[w].pc = "mark" => Effect(t.id)
          /\ t = Current(w) /\ flush[w].pc = "reject" => Unacceptable(t.id)

\* A request is about a control-plane row; past validation the row is valid,
\* past execution Laravel has it, refused it is not valid.
GoodRequest(q) ==
    /\ rows[q.id].kind \in CP_KINDS
    /\ q.stage = "checked" => rows[q.id].valid
    /\ q.stage \in {"applied", "answered"} => Effect(q.id)
    /\ q.stage = "refused" => ~rows[q.id].valid

\* Every request is good, a stored answer means that Laravel has the row, and
\* the position shown is one of the snapshots.
LaravelOK ==
    /\ \A q \in requests : GoodRequest(q)
    /\ \A i \in recorded : Effect(i)
    /\ shown # 0 => rows[shown].kind = "positions"

\* Until a flush outlives its lease, whoever is busy holds it and works on
\* pending rows only.
LeaseOK ==
    ~outlived => \A w \in Workers : flush[w].pc # "idle" =>
                    /\ lease = w
                    /\ \A t \in flush[w].batch : rows[t.id].status = "PENDING"

\* The inductive invariant.
IInv == /\ TypeOK /\ RowsOK /\ (\A w \in Workers : GoodFlush(w)) /\ LaravelOK /\ LeaseOK
        /\ SentMeansDelivered /\ GivenUpForAReason

-----------------------------------------------------------------------------
\* The row that is not there is a row of kind none.
LEMMA NoRowType == NoRow \in Row /\ NoRow.status = "ABSENT" /\ NoRow.kind = "none"
  BY DEF NoRow, Row

\* An idle dispatcher has no rows.
LEMMA IdleType == IdleFlush \in Flush /\ IdleFlush.pc = "idle" /\ IdleFlush.batch = {}
  BY BoundsAssumption DEF IdleFlush, Flush

\* The kinds of rows and who receives them.
LEMMA KindsDiffer ==
  /\ "none" \notin CP_KINDS /\ "telegram" \notin CP_KINDS /\ InsertOnce \subseteq CP_KINDS
  /\ "orders" \notin InsertOnce /\ "positions" \notin InsertOnce /\ "telegram" \notin InsertOnce
  /\ "none" \notin InsertOnce
  BY DEF CP_KINDS, InsertOnce

\* The row a dispatcher is at is one of its flush, and the first.
LEMMA CurrentTaken ==
  ASSUME TypeOK, NEW w \in Workers, flush[w].batch # {}
  PROVE  /\ Current(w) \in flush[w].batch /\ Current(w) \in Taken /\ Current(w).id \in RowId
         /\ \A t \in flush[w].batch : Current(w).id <= t.id
<1> DEFINE B == flush[w].batch
           ids == {t.id : t \in B}
<1>1. B \in SUBSET Taken /\ B # {}
  BY DEF TypeOK, Flush
<1>2. ids \in SUBSET Nat /\ ids # {}
  BY <1>1, BoundsAssumption DEF Taken, RowId
<1>3. PICK m \in ids : \A n \in ids : m <= n
  <2> HIDE DEF ids
  <2> QED
    BY <1>2, Least
<1>4. \E t \in B : \A u \in B : t.id <= u.id
  BY <1>3
<1>5. Current(w) \in B /\ \A u \in B : Current(w).id <= u.id
  BY <1>4 DEF Current
<1> QED
  BY <1>1, <1>5 DEF Taken

\* A dispatcher that keeps its rows stays at the same one.
LEMMA SameCurrent ==
  ASSUME NEW w \in Workers, flush'[w].batch = flush[w].batch
  PROVE  Current(w)' = Current(w)
  BY DEF Current

-----------------------------------------------------------------------------
\* What no step does: lose a row or change what it says, undo what a receiver
\* recorded, or show an older position.
Grow ==
    /\ \A i \in RowId : rows[i].status # "ABSENT" =>
          /\ rows'[i].status # "ABSENT"
          /\ rows'[i].kind = rows[i].kind
          /\ rows'[i].valid = rows[i].valid
          /\ rows'[i].second = rows[i].second
          /\ rows'[i].attempts >= rows[i].attempts
    /\ mirror' >= mirror
    /\ mirrored \subseteq mirrored'
    /\ \A i \in RowId : alerts'[i] >= alerts[i]
    /\ ShownSecond' >= ShownSecond

\* The seconds compared by RecordPosition are numbers.
LEMMA SecondType ==
  ASSUME TypeOK
  PROVE  ShownSecond \in Nat /\ \A i \in RowId : rows[i].second \in Nat
<1>1. \A i \in RowId : rows[i].second \in Nat
  BY DEF TypeOK, Row, Second
<1>2. shown # 0 => shown \in RowId
  BY BoundsAssumption DEF TypeOK, RowId
<1> QED
  BY <1>1, <1>2 DEF ShownSecond

\* What the receiver has of a row, it keeps.
LEMMA EffectKept ==
  ASSUME TypeOK, TypeOK', RowsOK, Grow, NEW i \in RowId, Effect(i)
  PROVE  Effect(i)'
<1>1. rows[i].status # "ABSENT"
  BY KindsDiffer DEF Effect, RowsOK
<1>2. /\ rows'[i].kind = rows[i].kind /\ rows'[i].second = rows[i].second
      /\ mirror' >= mirror /\ mirrored \subseteq mirrored' /\ alerts'[i] >= alerts[i]
      /\ ShownSecond' >= ShownSecond
  BY <1>1 DEF Grow
<1>3. /\ mirror \in Int /\ mirror' \in Int /\ i \in Int /\ alerts[i] \in Int /\ alerts'[i] \in Int
  BY BoundsAssumption DEF TypeOK, RowId
<1>4. ShownSecond \in Int /\ ShownSecond' \in Int /\ rows[i].second \in Int
  <2>1. ShownSecond \in Nat /\ rows[i].second \in Nat
    BY SecondType
  <2>2. (shown # 0 => shown \in RowId)'
    BY BoundsAssumption DEF TypeOK, RowId
  <2>3. ShownSecond' \in Nat
    BY <2>2 DEF ShownSecond, TypeOK, Row, Second
  <2> QED
    BY <2>1, <2>3
<1>5. CASE rows[i].kind = "orders" /\ mirror >= i
  BY <1>2, <1>3, <1>5 DEF Effect
<1>6. CASE rows[i].kind \in InsertOnce /\ i \in mirrored
  BY <1>2, <1>6 DEF Effect
<1>7. CASE rows[i].kind = "positions" /\ ShownSecond >= rows[i].second
  BY <1>2, <1>4, <1>7 DEF Effect
<1>8. CASE rows[i].kind = "telegram" /\ alerts[i] >= 1
  BY <1>2, <1>3, <1>8 DEF Effect
<1> QED
  BY <1>5, <1>6, <1>7, <1>8 DEF Effect

\* Why a row may be given up.
Reason(i) == Unacceptable(i) \/ rows[i].attempts >= MaxAttempts

\* Each step keeps IInv if it changes the rows and records upwards only and what
\* it changes in a dispatcher, a request, a stored answer or a status is
\* justified in the new state.
LEMMA Kept ==
  ASSUME IInv, TypeOK', RowsOK', LeaseOK', Grow,
         \A w \in Workers : flush'[w] = flush[w] \/ GoodFlush(w)',
         \A q \in requests' : q \in requests \/ GoodRequest(q)',
         \A i \in recorded' : i \in recorded \/ Effect(i)',
         shown' = shown \/ rows'[shown'].kind = "positions",
         \A i \in RowId : rows'[i].status = "SENT" => rows[i].status = "SENT" \/ Effect(i)',
         \A i \in RowId : rows'[i].status = "DEAD" => rows[i].status = "DEAD" \/ Reason(i)'
  PROVE  IInv' /\ Grow
<1> USE DEF IInv
<1>1. \A i \in RowId : Effect(i) => Effect(i)'
  BY EffectKept
<1>2. \A i \in RowId : rows[i].status # "ABSENT" => (Unacceptable(i) => Unacceptable(i)')
  BY DEF Grow, Unacceptable
<1>3. \A w \in Workers : GoodFlush(w)'
  <2> SUFFICES ASSUME NEW w \in Workers, flush'[w] = flush[w] PROVE GoodFlush(w)'
    OBVIOUS
  <2>1. Current(w)' = Current(w)
    BY SameCurrent
  <2>2. GoodFlush(w) /\ flush[w].batch \subseteq Taken
    BY DEF TypeOK, Flush
  <2>3. ASSUME NEW t \in flush'[w].batch
        PROVE  /\ rows'[t.id].status # "ABSENT"
               /\ t.attempts <= rows'[t.id].attempts
               /\ t = Current(w)' /\ flush'[w].pc = "mark" => Effect(t.id)'
               /\ t = Current(w)' /\ flush'[w].pc = "reject" => Unacceptable(t.id)'
    <3>1. t \in flush[w].batch /\ t.id \in RowId /\ t.attempts \in Nat
      BY <2>2, <2>3 DEF Taken
    <3>2. /\ rows[t.id].status # "ABSENT" /\ t.attempts <= rows[t.id].attempts
          /\ t = Current(w) /\ flush[w].pc = "mark" => Effect(t.id)
          /\ t = Current(w) /\ flush[w].pc = "reject" => Unacceptable(t.id)
      BY <2>2, <3>1 DEF GoodFlush
    <3>3. rows'[t.id].status # "ABSENT" /\ rows'[t.id].attempts >= rows[t.id].attempts
      BY <3>1, <3>2 DEF Grow
    <3>4. rows[t.id].attempts \in Nat /\ rows'[t.id].attempts \in Nat
      BY <3>1 DEF TypeOK, Row
    <3>5. t.attempts <= rows'[t.id].attempts
      BY <3>1, <3>2, <3>3, <3>4
    <3> QED
      BY <1>1, <1>2, <2>1, <3>1, <3>2, <3>3, <3>5
  <2>4. /\ flush'[w].pc \in {"idle", "read"} <=> flush'[w].batch = {}
        /\ \A t, u \in flush'[w].batch : t.id = u.id => t = u
    BY <2>2 DEF GoodFlush
  <2> QED
    BY <2>3, <2>4 DEF GoodFlush
<1>4. LaravelOK'
  <2>1. ASSUME NEW q \in requests PROVE GoodRequest(q)'
    <3>1. q.id \in RowId /\ GoodRequest(q)
      BY DEF TypeOK, Request, LaravelOK
    <3>2. rows[q.id].status # "ABSENT"
      BY <3>1, KindsDiffer DEF GoodRequest, RowsOK
    <3>3. rows'[q.id].kind = rows[q.id].kind /\ rows'[q.id].valid = rows[q.id].valid
      BY <3>1, <3>2 DEF Grow
    <3> QED
      BY <1>1, <3>1, <3>3 DEF GoodRequest
  <2>2. \A i \in recorded : Effect(i)'
    BY <1>1 DEF TypeOK, LaravelOK
  <2>3. ASSUME shown' = shown, shown # 0 PROVE rows'[shown].kind = "positions"
    <3>1. shown \in RowId /\ rows[shown].kind = "positions"
      BY <2>3, BoundsAssumption DEF TypeOK, RowId, LaravelOK
    <3>2. rows[shown].status # "ABSENT"
      BY <3>1 DEF RowsOK
    <3> QED
      BY <3>1, <3>2 DEF Grow
  <2> QED
    BY <2>1, <2>2, <2>3 DEF LaravelOK
<1>5. SentMeansDelivered'
  BY <1>1 DEF SentMeansDelivered
<1>6. GivenUpForAReason'
  <2> SUFFICES ASSUME NEW i \in RowId, rows[i].status = "DEAD" PROVE Reason(i)'
    BY DEF GivenUpForAReason, Reason, Unacceptable
  <2>1. Unacceptable(i) \/ rows[i].attempts >= MaxAttempts
    BY DEF GivenUpForAReason, Unacceptable
  <2>2. rows'[i].attempts >= rows[i].attempts
    BY DEF Grow
  <2>3. rows[i].attempts \in Nat /\ rows'[i].attempts \in Nat
    BY DEF TypeOK, Row
  <2> QED
    BY <1>2, <2>1, <2>2, <2>3, BoundsAssumption DEF Reason
<1> QED
  BY <1>3, <1>4, <1>5, <1>6

-----------------------------------------------------------------------------
\* Steps that leave rows and mirrors alone.
LEMMA RowsUnchanged ==
  ASSUME IInv, UNCHANGED <<rows, mirrors, alerts>>
  PROVE  Grow /\ RowsOK'
<1>1. rows' = rows /\ mirror' = mirror /\ mirrored' = mirrored /\ shown' = shown /\ alerts' = alerts
  BY DEF mirrors
<1>2. mirror \in Int /\ \A i \in RowId : rows[i].attempts \in Int /\ alerts[i] \in Int
  BY BoundsAssumption DEF IInv, TypeOK, Row
<1>3. ShownSecond' = ShownSecond /\ ShownSecond \in Int
  BY <1>1, SecondType DEF IInv, ShownSecond
<1> QED
  BY <1>1, <1>2, <1>3 DEF Grow, IInv, RowsOK

\* A busy dispatcher that goes on with some of its rows, or stops, keeps the
\* lease discipline: it alone is busy while no lease was outlived.
LEMMA WorkerLease ==
  ASSUME IInv, UNCHANGED <<lease, outlived>>, NEW w \in Workers, flush[w].pc # "idle",
         \A v \in Workers \ {w} : flush'[v] = flush[v],
         flush'[w].pc # "idle" =>
             /\ flush'[w].batch \subseteq flush[w].batch
             /\ \A t \in flush'[w].batch : rows'[t.id].status = rows[t.id].status
  PROVE  LeaseOK'
<1> SUFFICES ASSUME ~outlived, NEW v \in Workers, flush'[v].pc # "idle"
             PROVE  lease = v /\ \A t \in flush'[v].batch : rows'[t.id].status = "PENDING"
  BY DEF LeaseOK
<1>1. lease = w
  BY DEF IInv, LeaseOK
<1>2. v = w
  BY <1>1 DEF IInv, LeaseOK
<1>3. \A t \in flush[w].batch : rows[t.id].status = "PENDING"
  BY DEF IInv, LeaseOK
<1> QED
  BY <1>1, <1>2, <1>3

\* So do steps of others that leave pending rows pending.
LEMMA OtherLease ==
  ASSUME IInv, UNCHANGED <<lease, outlived, flush>>,
         \A i \in RowId : rows[i].status = "PENDING" => rows'[i].status = "PENDING"
  PROVE  LeaseOK'
<1>1. \A v \in Workers : \A t \in flush[v].batch : t.id \in RowId
  BY DEF IInv, TypeOK, Flush, Taken
<1> QED
  BY <1>1 DEF IInv, LeaseOK

\* A dispatcher that moves to its next program counter with the rows it has.
LEMMA StepGood ==
  ASSUME IInv, NEW w \in Workers,
         NEW pc \in {"renew", "send", "await", "mark", "fail", "reject"},
         \/ Step(w, pc)
         \/ faults \in 0..MaxFaults /\ flush' = [flush EXCEPT ![w].pc = pc, ![w].n = faults],
         flush[w].pc \notin {"idle", "read"}, UNCHANGED rows,
         \A i \in RowId : i = Current(w).id =>
             (pc = "mark" => Effect(i)') /\ (pc = "reject" => Unacceptable(i))
  PROVE  /\ flush' \in [Workers -> Flush]
         /\ \A v \in Workers : flush'[v] = flush[v] \/ (v = w /\ GoodFlush(v)')
         /\ flush'[w].batch = flush[w].batch /\ flush'[w].pc = pc
<1>1. flush'[w].batch = flush[w].batch /\ flush'[w].pc = pc /\ flush' \in [Workers -> Flush]
  BY DEF IInv, TypeOK, Flush, Step
<1>2. \A v \in Workers \ {w} : flush'[v] = flush[v]
  BY DEF IInv, TypeOK, Step
<1>3. Current(w)' = Current(w)
  BY <1>1, SameCurrent
<1>4. GoodFlush(w)
  BY DEF IInv
<1>5. \A t \in flush'[w].batch : /\ rows'[t.id].status # "ABSENT"
                                 /\ t.attempts <= rows'[t.id].attempts
                                 /\ t.id \in RowId
  BY <1>1, <1>4 DEF GoodFlush, IInv, TypeOK, Flush, Taken
<1>6. ASSUME NEW t \in flush'[w].batch, t = Current(w)'
      PROVE  /\ flush'[w].pc = "mark" => Effect(t.id)'
             /\ flush'[w].pc = "reject" => Unacceptable(t.id)'
  <2>1. PICK i \in RowId : i = t.id /\ i = Current(w).id
    BY <1>3, <1>5, <1>6
  <2>2. pc = "mark" => Effect(i)'
    BY <2>1
  <2>3. pc = "reject" => Unacceptable(i)
    BY <2>1
  <2>4. pc = "reject" => Unacceptable(i)'
    BY <2>3 DEF Unacceptable
  <2> QED
    BY <1>1, <2>1, <2>2, <2>4 DEF Effect, ShownSecond, Unacceptable
<1>7. GoodFlush(w)'
  BY <1>1, <1>4, <1>5, <1>6 DEF GoodFlush
<1> QED
  BY <1>1, <1>2, <1>7

\* A dispatcher that ends its flush.
LEMMA StopGood ==
  ASSUME IInv, NEW w \in Workers, Stop(w)
  PROVE  /\ flush' \in [Workers -> Flush]
         /\ \A v \in Workers : flush'[v] = flush[v] \/ (v = w /\ GoodFlush(v)')
         /\ flush'[w].pc = "idle"
<1>1. flush' \in [Workers -> Flush] /\ flush'[w] = IdleFlush
  BY IdleType DEF IInv, TypeOK, Stop
<1>2. \A v \in Workers \ {w} : flush'[v] = flush[v]
  BY DEF IInv, TypeOK, Stop
<1>3. GoodFlush(w)'
  BY <1>1, IdleType DEF GoodFlush
<1> QED
  BY <1>1, <1>2, <1>3, IdleType

\* A dispatcher that goes on to the next row of its flush.
LEMMA ContinueGood ==
  ASSUME IInv, TypeOK', NEW w \in Workers, Continue(w), flush[w].pc \notin {"idle", "read"}, Grow
  PROVE  /\ \A v \in Workers : flush'[v] = flush[v] \/ (v = w /\ GoodFlush(v)')
         /\ flush'[w].batch = flush[w].batch \ {Current(w)}
<1> DEFINE rest == flush[w].batch \ {Current(w)}
<1>1. GoodFlush(w) /\ flush[w].batch \subseteq Taken
  BY DEF IInv, TypeOK, Flush
<1>2. \A v \in Workers \ {w} : flush'[v] = flush[v]
  BY DEF IInv, TypeOK, Continue
<1>3. CASE rest = {}
  <2>1. flush'[w] = IdleFlush
    BY <1>3 DEF IInv, TypeOK, Continue
  <2> QED
    BY <1>2, <1>3, <2>1, IdleType DEF GoodFlush
<1>4. CASE rest # {}
  <2>1. flush'[w].pc = "renew" /\ flush'[w].batch = rest
    BY <1>4 DEF IInv, TypeOK, Continue, Flush
  <2>2. \A t \in rest : rows'[t.id].status # "ABSENT" /\ t.attempts <= rows'[t.id].attempts
    <3> SUFFICES ASSUME NEW t \in rest
                 PROVE  rows'[t.id].status # "ABSENT" /\ t.attempts <= rows'[t.id].attempts
      OBVIOUS
    <3>1. t.id \in RowId /\ t.attempts \in Nat
      BY <1>1 DEF Taken
    <3>2. rows[t.id].status # "ABSENT" /\ t.attempts <= rows[t.id].attempts
      BY <1>1 DEF GoodFlush
    <3>3. rows'[t.id].status # "ABSENT" /\ rows'[t.id].attempts >= rows[t.id].attempts
      BY <3>1, <3>2 DEF Grow
    <3>4. rows[t.id].attempts \in Nat /\ rows'[t.id].attempts \in Nat
      BY <3>1 DEF IInv, TypeOK, Row
    <3> QED
      BY <3>1, <3>2, <3>3, <3>4
  <2>3. GoodFlush(w)'
    BY <1>1, <1>4, <2>1, <2>2 DEF GoodFlush
  <2> QED
    BY <1>2, <2>1, <2>3
<1> QED
  BY <1>3, <1>4

-----------------------------------------------------------------------------
\* A step of a dispatcher, of a lease or of a fault alone.
LEMMA QuietStep ==
  ASSUME IInv, UNCHANGED <<rows, laravel, alerts>>, flush' \in [Workers -> Flush],
         \A v \in Workers : flush'[v] = flush[v] \/ GoodFlush(v)',
         lease' \in Workers \cup {Nobody, Gone}, faults' \in 0..MaxFaults, outlived' \in BOOLEAN,
         LeaseOK'
  PROVE  IInv' /\ Grow
<1>1. UNCHANGED <<rows, requests, recorded, mirror, mirrored, shown, alerts>>
  BY DEF laravel, mirrors
<1>2. Grow /\ RowsOK'
  BY RowsUnchanged DEF laravel
<1>3. TypeOK'
  BY <1>1 DEF IInv, TypeOK
<1> QED
  BY <1>1, <1>2, <1>3, Kept

\* A fault is counted, within its bound.
LEMMA FaultType == ASSUME TypeOK, Fault PROVE faults' \in 0..MaxFaults /\ outlived' = outlived
  BY BoundsAssumption DEF Fault, TypeOK

\* A flush starts with the lease (flush).
LEMMA StartFlushIInv == ASSUME IInv, NEW w \in Workers, StartFlush(w)
  PROVE  IInv' /\ Grow
<1>1. /\ flush[w].pc = "idle" /\ flush' = [flush EXCEPT ![w].pc = "read"]
      /\ lease \in {Nobody, w} /\ lease' = w /\ UNCHANGED <<rows, laravel, alerts, faults, outlived>>
  BY DEF StartFlush, AcquireLease, Step, trouble
<1>2. flush[w].batch = {}
  BY <1>1 DEF IInv, GoodFlush
<1>3. flush' \in [Workers -> Flush] /\ flush'[w].pc = "read" /\ flush'[w].batch = {}
  BY <1>1, <1>2 DEF IInv, TypeOK, Flush
<1>4. \A v \in Workers \ {w} : flush'[v] = flush[v]
  BY <1>1 DEF IInv, TypeOK
<1>5. GoodFlush(w)'
  BY <1>3 DEF GoodFlush
<1>6. LeaseOK'
  BY <1>1, <1>3, <1>4, WorkersAssumption DEF IInv, LeaseOK
<1>7. faults' \in 0..MaxFaults /\ outlived' \in BOOLEAN
  BY <1>1 DEF IInv, TypeOK
<1> QED
  BY <1>1, <1>3, <1>4, <1>5, <1>6, <1>7, QuietStep

\* It reads the rows that are pending and due (pending_outbox).
LEMMA ReadPendingIInv == ASSUME IInv, NEW w \in Workers, ReadPending(w)
  PROVE  IInv' /\ Grow
<1> DEFINE due == {i \in RowId : rows[i].status = "PENDING" /\ rows[i].due}
           batch == {[id |-> i, attempts |-> rows[i].attempts] : i \in due}
<1>1. /\ flush[w].pc = "read" /\ UNCHANGED <<rows, lease, laravel, alerts, faults, outlived>>
  BY DEF ReadPending, trouble
<1>2. lease' \in Workers \cup {Nobody, Gone} /\ faults' \in 0..MaxFaults /\ outlived' \in BOOLEAN
  BY <1>1 DEF IInv, TypeOK
<1>3. CASE due = {}
  <2>1. Stop(w)
    BY <1>3 DEF ReadPending
  <2>2. \A v \in Workers \ {w} : flush'[v] = flush[v]
    BY <2>1 DEF IInv, TypeOK, Stop
  <2>3. LeaseOK'
    BY <1>1, <2>1, <2>2, StopGood, WorkerLease
  <2> QED
    BY <1>1, <1>2, <2>1, <2>3, StopGood, QuietStep
<1>4. CASE due # {}
  <2>1. flush' = [flush EXCEPT ![w].pc = "renew", ![w].batch = batch]
    BY <1>4 DEF ReadPending
  <2>2. batch \in SUBSET Taken /\ batch # {}
    <3>1. \A i \in due : [id |-> i, attempts |-> rows[i].attempts] \in Taken
      BY DEF IInv, TypeOK, Row, Taken
    <3> QED
      BY <1>4, <3>1
  <2>3. /\ flush' \in [Workers -> Flush] /\ flush'[w].pc = "renew" /\ flush'[w].batch = batch
        /\ \A v \in Workers \ {w} : flush'[v] = flush[v]
    <3> HIDE DEF batch
    <3> QED
      BY <2>1, <2>2 DEF IInv, TypeOK, Flush
  <2>4. \A t \in batch : /\ rows[t.id].status = "PENDING"
                         /\ t.attempts <= rows[t.id].attempts
    BY DEF IInv, TypeOK, Row
  <2>5. \A t, u \in batch : t.id = u.id => t = u
    OBVIOUS
  <2> HIDE DEF batch
  <2>6. GoodFlush(w)'
    BY <1>1, <2>2, <2>3, <2>4, <2>5 DEF GoodFlush
  <2>7. LeaseOK'
    <3> SUFFICES ASSUME ~outlived, NEW v \in Workers, flush'[v].pc # "idle"
                 PROVE  lease = v /\ \A t \in flush'[v].batch : rows[t.id].status = "PENDING"
      BY <1>1 DEF LeaseOK
    <3> QED
      BY <1>1, <2>3, <2>4 DEF IInv, LeaseOK
  <2>8. \A v \in Workers : flush'[v] = flush[v] \/ GoodFlush(v)'
    BY <2>3, <2>6
  <2> QED
    BY <1>1, <1>2, <2>3, <2>7, <2>8, QuietStep
<1> QED
  BY <1>3, <1>4

\* Before a delivery it renews the lease, or stops (acquire_lease).
LEMMA RenewIInv == ASSUME IInv, NEW w \in Workers, Renew(w)
  PROVE  IInv' /\ Grow
<1>1. flush[w].pc = "renew" /\ UNCHANGED <<rows, laravel, alerts, faults, outlived>>
  BY DEF Renew, trouble
<1>2. faults' \in 0..MaxFaults /\ outlived' \in BOOLEAN
  BY <1>1 DEF IInv, TypeOK
<1>3. CASE AcquireLease(w) /\ Step(w, "send")
  <2>1. /\ flush' \in [Workers -> Flush]
        /\ \A v \in Workers : flush'[v] = flush[v] \/ (v = w /\ GoodFlush(v)')
        /\ flush'[w].batch = flush[w].batch /\ flush'[w].pc = "send"
    BY <1>1, <1>3, StepGood
  <2>2. \A v \in Workers \ {w} : flush'[v] = flush[v]
    BY <1>3 DEF IInv, TypeOK, Step
  <2>3. LeaseOK'
    BY <1>1, <1>3, <2>1, <2>2 DEF IInv, LeaseOK, AcquireLease
  <2>4. \A v \in Workers : flush'[v] = flush[v] \/ GoodFlush(v)'
    BY <2>1
  <2>5. lease' \in Workers \cup {Nobody, Gone}
    BY <1>3 DEF AcquireLease
  <2> QED
    BY <1>1, <1>2, <2>1, <2>3, <2>4, <2>5, QuietStep
<1>4. CASE Stop(w) /\ UNCHANGED lease
  <2>1. \A v \in Workers \ {w} : flush'[v] = flush[v]
    BY <1>4 DEF IInv, TypeOK, Stop
  <2>2. LeaseOK'
    BY <1>1, <1>4, <2>1, StopGood, WorkerLease
  <2>3. lease' \in Workers \cup {Nobody, Gone}
    BY <1>4 DEF IInv, TypeOK
  <2> QED
    BY <1>1, <1>2, <1>4, <2>2, <2>3, StopGood, QuietStep
<1> QED
  BY <1>3, <1>4 DEF Renew

\* A crash leaves the lease behind, with nobody to use it.
LEMMA CrashIInv == ASSUME IInv, NEW w \in Workers, Crash(w)
  PROVE  IInv' /\ Grow
<1>1. /\ flush[w].pc # "idle" /\ Stop(w) /\ lease' = IF lease = w THEN Gone ELSE lease
      /\ UNCHANGED <<rows, laravel, alerts>>
  BY DEF Crash
<1>2. faults' \in 0..MaxFaults /\ outlived' = outlived
  BY FaultType DEF Crash, IInv
<1>3. \A v \in Workers \ {w} : flush'[v] = flush[v]
  BY <1>1 DEF IInv, TypeOK, Stop
<1>4. LeaseOK'
  BY <1>1, <1>2, <1>3, StopGood DEF IInv, LeaseOK
<1>5. lease' \in Workers \cup {Nobody, Gone} /\ outlived' \in BOOLEAN
  BY <1>1, <1>2 DEF IInv, TypeOK
<1> QED
  BY <1>1, <1>2, <1>4, <1>5, StopGood, QuietStep

\* A lease runs out, under an idle dispatcher or a slow one.
LEMMA LeaseExpiresIInv == ASSUME IInv, LeaseExpires
  PROVE  IInv' /\ Grow
<1>1. lease' = Nobody /\ UNCHANGED <<rows, flush, laravel, alerts>>
  BY DEF LeaseExpires
<1>2. \/ ~InUse /\ UNCHANGED <<faults, outlived>>
      \/ faults' \in 0..MaxFaults /\ outlived' = TRUE
  BY BoundsAssumption DEF LeaseExpires, trouble, IInv, TypeOK
<1>3. LeaseOK'
  BY <1>1, <1>2 DEF IInv, LeaseOK, InUse
<1>4. flush' \in [Workers -> Flush] /\ faults' \in 0..MaxFaults /\ outlived' \in BOOLEAN
  BY <1>1, <1>2 DEF IInv, TypeOK
<1> QED
  BY <1>1, <1>3, <1>4, QuietStep

-----------------------------------------------------------------------------
\* A dispatcher that is delivering is at a row of the table.
LEMMA BusyCurrent ==
  ASSUME IInv, NEW w \in Workers, flush[w].pc \notin {"idle", "read"}
  PROVE  /\ flush[w].batch # {}
         /\ Current(w) \in flush[w].batch /\ Current(w) \in Taken /\ Current(w).id \in RowId
         /\ rows[Current(w).id].status # "ABSENT"
         /\ Current(w).attempts <= rows[Current(w).id].attempts
<1>1. GoodFlush(w)
  BY DEF IInv
<1>2. flush[w].batch # {}
  BY <1>1 DEF GoodFlush
<1>3. Current(w) \in flush[w].batch /\ Current(w) \in Taken /\ Current(w).id \in RowId
  BY <1>2, CurrentTaken DEF IInv
<1> QED
  BY <1>1, <1>2, <1>3 DEF GoodFlush

\* A request leaves for Laravel (cp.post).
LEMMA SendPostIInv == ASSUME IInv, NEW w \in Workers, SendPost(w)
  PROVE  IInv' /\ Grow
<1>1. /\ flush[w].pc = "send" /\ rows[Current(w).id].kind \in CP_KINDS
      /\ requests' = requests \cup
            {[id |-> Current(w).id, by |-> w, n |-> faults, stage |-> "arrived"]}
      /\ flush' = [flush EXCEPT ![w].pc = "await", ![w].n = faults]
      /\ UNCHANGED <<rows, lease, recorded, mirrors, alerts, faults, outlived>>
  BY DEF SendPost, trouble
<1>2. faults \in 0..MaxFaults /\ Current(w).id \in RowId
  BY <1>1, BusyCurrent DEF IInv, TypeOK
<1>3. PICK q \in Request : /\ requests' = requests \cup {q}
                           /\ rows[q.id].kind \in CP_KINDS /\ q.stage = "arrived"
  <2>1. PICK i \in RowId, n \in 0..MaxFaults : i = Current(w).id /\ n = faults
    BY <1>2
  <2>2. [id |-> i, by |-> w, n |-> n, stage |-> "arrived"] \in Request
    BY DEF Request
  <2> QED
    BY <1>1, <2>1, <2>2
<1>4. /\ flush' \in [Workers -> Flush]
      /\ \A v \in Workers : flush'[v] = flush[v] \/ (v = w /\ GoodFlush(v)')
      /\ flush'[w].batch = flush[w].batch /\ flush'[w].pc = "await"
  BY <1>1, <1>2, StepGood
<1>5. \A v \in Workers \ {w} : flush'[v] = flush[v]
  BY <1>1 DEF IInv, TypeOK
<1>6. Grow /\ RowsOK'
  BY <1>1, RowsUnchanged
<1>7. LeaseOK'
  BY <1>1, <1>4, <1>5, WorkerLease
<1>8. TypeOK'
  BY <1>1, <1>3, <1>4 DEF IInv, TypeOK, mirrors
<1>9. GoodRequest(q)'
  BY <1>1, <1>3 DEF GoodRequest
<1>10. \A r \in requests' : r \in requests \/ GoodRequest(r)'
  BY <1>3, <1>9
<1> QED
  BY <1>1, <1>4, <1>6, <1>7, <1>8, <1>10, Kept DEF mirrors

\* An answer arrives: the row was executed, or it is refused for good.
LEMMA AnsweredIInv == ASSUME IInv, NEW w \in Workers, Answered(w)
  PROVE  IInv' /\ Grow
<1>1. PICK q \in requests :
         /\ q.by = w /\ Awaited(q) /\ q.stage \in {"answered", "refused"}
         /\ requests' = requests \ {q}
         /\ Step(w, IF q.stage = "answered" THEN "mark" ELSE "reject")
         /\ UNCHANGED <<rows, lease, recorded, mirrors, alerts, faults, outlived>>
  BY DEF Answered, trouble
<1>2. flush[w].pc = "await" /\ Current(w).id = q.id
  BY <1>1 DEF Awaited
<1>3. GoodRequest(q)
  BY DEF IInv, LaravelOK
<1>4. PICK pc \in {"mark", "reject"} : pc = IF q.stage = "answered" THEN "mark" ELSE "reject"
  OBVIOUS
<1>5. Step(w, pc)
  BY <1>1, <1>4
<1>6. pc = "mark" => Effect(q.id)'
  <2> SUFFICES ASSUME pc = "mark" PROVE Effect(q.id)'
    OBVIOUS
  <2>1. Effect(q.id)
    BY <1>1, <1>3, <1>4 DEF GoodRequest
  <2> QED
    BY <1>1, <2>1 DEF Effect, ShownSecond, mirrors
<1>7. pc = "reject" => Unacceptable(q.id)
  <2>1. pc = "reject" => q.stage = "refused"
    BY <1>1, <1>4
  <2> QED
    BY <1>3, <2>1 DEF GoodRequest, Unacceptable
<1>8. /\ flush' \in [Workers -> Flush]
      /\ \A v \in Workers : flush'[v] = flush[v] \/ (v = w /\ GoodFlush(v)')
      /\ flush'[w].batch = flush[w].batch /\ flush'[w].pc = pc
  <2>1. ASSUME NEW i \in RowId, i = Current(w).id
        PROVE  (pc = "mark" => Effect(i)') /\ (pc = "reject" => Unacceptable(i))
    BY <1>2, <1>6, <1>7, <2>1
  <2> QED
    BY <1>1, <1>2, <1>5, <2>1, StepGood
<1>9. \A v \in Workers \ {w} : flush'[v] = flush[v]
  BY <1>5 DEF IInv, TypeOK, Step
<1>10. LeaseOK'
  BY <1>1, <1>2, <1>8, <1>9, WorkerLease
<1>11. TypeOK'
  BY <1>1, <1>8 DEF IInv, TypeOK, mirrors
<1>12. Grow /\ RowsOK'
  BY <1>1, RowsUnchanged
<1> QED
  BY <1>1, <1>8, <1>10, <1>11, <1>12, Kept DEF mirrors

\* A delivery fails; the request may still be executed.
LEMMA PostFailsIInv == ASSUME IInv, NEW w \in Workers, PostFails(w)
  PROVE  IInv' /\ Grow
<1>1. /\ flush[w].pc = "await" /\ Step(w, "fail") /\ requests' \subseteq requests
      /\ UNCHANGED <<rows, lease, recorded, mirrors, alerts>>
      /\ faults' \in 0..MaxFaults /\ outlived' = outlived
  BY FaultType DEF PostFails, IInv
<1>2. /\ flush' \in [Workers -> Flush]
      /\ \A v \in Workers : flush'[v] = flush[v] \/ (v = w /\ GoodFlush(v)')
      /\ flush'[w].batch = flush[w].batch /\ flush'[w].pc = "fail"
  BY <1>1, StepGood
<1>3. \A v \in Workers \ {w} : flush'[v] = flush[v]
  BY <1>1 DEF IInv, TypeOK, Step
<1>4. LeaseOK'
  BY <1>1, <1>2, <1>3, WorkerLease
<1>5. TypeOK'
  BY <1>1, <1>2 DEF IInv, TypeOK, mirrors
<1>6. Grow /\ RowsOK'
  BY <1>1, RowsUnchanged
<1> QED
  BY <1>1, <1>2, <1>4, <1>5, <1>6, Kept DEF mirrors

\* A message is sent to Telegram, with or without an error.
LEMMA SendTelegramIInv == ASSUME IInv, NEW w \in Workers, SendTelegram(w)
  PROVE  IInv' /\ Grow
<1>0. PICK i : i = Current(w).id
  OBVIOUS
<1> DEFINE delivered == alerts' = [alerts EXCEPT ![i] = @ + 1]
<1>1. /\ flush[w].pc = "send" /\ rows[i].kind = "telegram" /\ UNCHANGED <<rows, lease, laravel>>
      /\ \/ delivered /\ Step(w, "mark") /\ UNCHANGED <<faults, outlived>>
         \/ (delivered \/ UNCHANGED alerts) /\ Step(w, "fail") /\ Fault
  BY <1>0 DEF SendTelegram, trouble
<1>2. i \in RowId
  BY <1>0, <1>1, BusyCurrent
<1>3. /\ alerts' \in [RowId -> Nat] /\ \A j \in RowId : alerts'[j] >= alerts[j]
      /\ delivered => alerts'[i] >= 1
  BY <1>1, <1>2 DEF IInv, TypeOK
<1>4. faults' \in 0..MaxFaults /\ outlived' = outlived
  BY <1>1, FaultType DEF IInv, TypeOK
<1>5. /\ flush' \in [Workers -> Flush]
      /\ \A v \in Workers : flush'[v] = flush[v] \/ (v = w /\ GoodFlush(v)')
      /\ flush'[w].batch = flush[w].batch /\ flush'[w].pc # "idle"
  <2>1. CASE delivered /\ Step(w, "mark")
    <3>1. Effect(i)'
      BY <1>1, <1>3, <2>1 DEF Effect
    <3> QED
      BY <1>0, <1>1, <2>1, <3>1, StepGood
  <2>2. CASE Step(w, "fail")
    BY <1>1, <2>2, StepGood
  <2> QED
    BY <1>1, <2>1, <2>2
<1>6. \A v \in Workers \ {w} : flush'[v] = flush[v]
  BY <1>1 DEF IInv, TypeOK, Step
<1>7. LeaseOK'
  BY <1>1, <1>4, <1>5, <1>6, WorkerLease
<1>8. TypeOK'
  BY <1>1, <1>3, <1>4, <1>5 DEF IInv, TypeOK, laravel, mirrors
<1>9. Grow /\ RowsOK'
  <2>1. ShownSecond' = ShownSecond /\ ShownSecond \in Int /\ mirror \in Int
        /\ \A j \in RowId : rows[j].attempts \in Int
    BY <1>1, BoundsAssumption, SecondType DEF laravel, mirrors, ShownSecond, IInv, TypeOK, Row
  <2>2. Grow
    BY <1>1, <1>3, <2>1 DEF Grow, laravel, mirrors
  <2> QED
    BY <1>1, <2>2 DEF IInv, RowsOK
<1> QED
  BY <1>1, <1>5, <1>7, <1>8, <1>9, Kept DEF laravel, mirrors

-----------------------------------------------------------------------------
\* A row that is changed in place, what it says left alone.
LEMMA RowEdited ==
  ASSUME IInv, NEW i \in RowId, NEW r \in Row, rows' = [rows EXCEPT ![i] = r],
         rows[i].status # "ABSENT", r.status # "ABSENT", r.kind = rows[i].kind,
         r.valid = rows[i].valid, r.second = rows[i].second, r.attempts >= rows[i].attempts,
         UNCHANGED <<mirrors, alerts>>
  PROVE  /\ rows' \in [RowId -> Row] /\ rows'[i] = r
         /\ \A j \in RowId \ {i} : rows'[j] = rows[j]
         /\ Grow /\ RowsOK'
<1>1. rows' \in [RowId -> Row] /\ rows'[i] = r /\ \A j \in RowId \ {i} : rows'[j] = rows[j]
  BY DEF IInv, TypeOK
<1>2. /\ mirror' = mirror /\ mirrored' = mirrored /\ shown' = shown /\ alerts' = alerts
      /\ mirror \in Int /\ \A j \in RowId : rows[j].attempts \in Int /\ alerts[j] \in Int
  BY BoundsAssumption DEF mirrors, IInv, TypeOK, Row
<1>3. \A j \in RowId : rows'[j].second = rows[j].second
  BY <1>1
<1>4. ShownSecond' = ShownSecond /\ ShownSecond \in Int
  <2>1. shown # 0 => shown \in RowId
    BY BoundsAssumption DEF IInv, TypeOK, RowId
  <2> QED
    BY <1>2, <1>3, <2>1, SecondType DEF ShownSecond, IInv
<1>5. Grow
  <2>1. ASSUME NEW j \in RowId, rows[j].status # "ABSENT"
        PROVE  /\ rows'[j].status # "ABSENT" /\ rows'[j].kind = rows[j].kind
               /\ rows'[j].valid = rows[j].valid /\ rows'[j].second = rows[j].second
               /\ rows'[j].attempts >= rows[j].attempts
    BY <1>1, <1>2, <2>1
  <2> QED
    BY <1>2, <1>4, <2>1 DEF Grow
<1>6. RowsOK'
  BY <1>1 DEF IInv, RowsOK
<1> QED
  BY <1>1, <1>5, <1>6

\* What mark_outbox_sent writes.
LEMMA MarkSentIs ==
  ASSUME IInv, NEW i \in RowId, MarkSent(i)
  PROVE  \E r \in Row : /\ rows' = [rows EXCEPT ![i] = r] /\ r.status = "SENT"
                        /\ r.kind = rows[i].kind /\ r.valid = rows[i].valid
                        /\ r.second = rows[i].second /\ r.attempts = rows[i].attempts
<1> DEFINE r == [rows[i] EXCEPT !.status = "SENT"]
<1>1. rows[i] \in Row
  BY DEF IInv, TypeOK
<1>2. /\ r \in Row /\ r.status = "SENT" /\ r.kind = rows[i].kind /\ r.valid = rows[i].valid
      /\ r.second = rows[i].second /\ r.attempts = rows[i].attempts
  BY <1>1 DEF Row
<1>3. rows' = [rows EXCEPT ![i] = r]
  BY DEF MarkSent
<1> QED
  BY <1>2, <1>3

\* What mark_outbox_failed writes.
LEMMA MarkFailedIs ==
  ASSUME IInv, NEW i \in RowId, NEW dead \in BOOLEAN, MarkFailed(i, dead)
  PROVE  \E r \in Row : /\ rows' = [rows EXCEPT ![i] = r]
                        /\ r.status = IF dead THEN "DEAD" ELSE "PENDING"
                        /\ r.kind = rows[i].kind /\ r.valid = rows[i].valid
                        /\ r.second = rows[i].second /\ r.attempts = rows[i].attempts + 1
<1> DEFINE r == [rows[i] EXCEPT !.attempts = @ + 1, !.due = FALSE,
                                !.status = IF dead THEN "DEAD" ELSE "PENDING"]
<1>1. rows[i] \in Row
  BY DEF IInv, TypeOK
<1>2. /\ r \in Row /\ r.status = (IF dead THEN "DEAD" ELSE "PENDING")
      /\ r.kind = rows[i].kind /\ r.valid = rows[i].valid
      /\ r.second = rows[i].second /\ r.attempts = rows[i].attempts + 1
  <2>1. PICK status \in {"DEAD", "PENDING"} : status = IF dead THEN "DEAD" ELSE "PENDING"
    OBVIOUS
  <2>2. r = [rows[i] EXCEPT !.attempts = rows[i].attempts + 1, !.due = FALSE, !.status = status]
    BY <1>1, <2>1 DEF Row
  <2>3. rows[i].attempts + 1 \in Nat
    BY <1>1 DEF Row
  <2> HIDE DEF r
  <2>4. r.status = status /\ r.kind = rows[i].kind /\ r.valid = rows[i].valid
        /\ r.second = rows[i].second /\ r.attempts = rows[i].attempts + 1
    BY <1>1, <2>2 DEF Row
  <2>5. r \in Row
    BY <1>1, <2>2, <2>3 DEF Row
  <2> QED
    BY <2>1, <2>4, <2>5
<1>3. rows' = [rows EXCEPT ![i] = r]
  BY DEF MarkFailed
<1> QED
  BY <1>2, <1>3

\* A delivered row is marked sent, or the mark fails.
LEMMA DeliveryMarkedIInv == ASSUME IInv, NEW w \in Workers, DeliveryMarked(w)
  PROVE  IInv' /\ Grow
<1>1. flush[w].pc = "mark" /\ UNCHANGED <<lease, laravel, alerts>>
  BY DEF DeliveryMarked
<1>2. PICK i \in RowId : i = Current(w).id
  BY <1>1, BusyCurrent
<1>3. /\ Current(w) \in flush[w].batch /\ rows[i].status # "ABSENT" /\ GoodFlush(w)
  BY <1>1, <1>2, BusyCurrent DEF IInv
<1>4. CASE MarkSent(i) /\ Continue(w) /\ UNCHANGED <<faults, outlived>>
  <2>1. PICK r \in Row : /\ rows' = [rows EXCEPT ![i] = r] /\ r.status = "SENT"
                         /\ r.kind = rows[i].kind /\ r.valid = rows[i].valid
                         /\ r.second = rows[i].second /\ r.attempts = rows[i].attempts
    BY <1>4, MarkSentIs
  <2>2. r.attempts >= rows[i].attempts /\ UNCHANGED <<mirrors, alerts>>
    BY <1>1, <2>1 DEF IInv, TypeOK, Row, laravel
  <2>3. /\ rows' \in [RowId -> Row] /\ rows'[i] = r
        /\ \A j \in RowId \ {i} : rows'[j] = rows[j]
        /\ Grow /\ RowsOK'
    BY <1>3, <2>1, <2>2, RowEdited
  <2>4. /\ flush' \in [Workers -> Flush] /\ \A v \in Workers \ {w} : flush'[v] = flush[v]
        /\ flush'[w].batch = flush[w].batch \ {Current(w)}
    BY <1>4, IdleType DEF Continue, IInv, TypeOK, Flush
  <2>5. TypeOK'
    BY <1>1, <1>4, <2>3, <2>4 DEF IInv, TypeOK, laravel, mirrors
  <2>6. \A v \in Workers : flush'[v] = flush[v] \/ GoodFlush(v)'
    BY <1>1, <1>4, <2>3, <2>5, ContinueGood
  <2>7. \A t \in flush'[w].batch : rows'[t.id].status = rows[t.id].status
    <3> SUFFICES ASSUME NEW t \in flush'[w].batch PROVE t.id \in RowId \ {i}
      BY <2>3
    <3>1. t \in flush[w].batch /\ t # Current(w)
      BY <2>4
    <3> QED
      BY <1>2, <1>3, <3>1 DEF GoodFlush, IInv, TypeOK, Flush, Taken
  <2>8. LeaseOK'
    BY <1>1, <1>4, <2>4, <2>7, WorkerLease
  <2>9. Effect(i)'
    <3>1. Effect(Current(w).id)
      BY <1>1, <1>3 DEF GoodFlush
    <3>2. Effect(i)
      BY <1>2, <3>1
    <3> QED
      BY <2>3, <2>5, <3>2, EffectKept DEF IInv
  <2>10. \A j \in RowId : rows'[j].status = "SENT" => rows[j].status = "SENT" \/ Effect(j)'
    BY <2>3, <2>9
  <2>11. \A j \in RowId : rows'[j].status = "DEAD" => rows[j].status = "DEAD" \/ Reason(j)'
    BY <2>1, <2>3
  <2> QED
    BY <1>1, <2>3, <2>5, <2>6, <2>8, <2>10, <2>11, Kept DEF laravel, mirrors
<1>5. CASE Step(w, "fail") /\ Fault /\ UNCHANGED rows
  <2>1. /\ flush' \in [Workers -> Flush]
        /\ \A v \in Workers : flush'[v] = flush[v] \/ (v = w /\ GoodFlush(v)')
        /\ flush'[w].batch = flush[w].batch /\ flush'[w].pc = "fail"
    BY <1>1, <1>5, StepGood
  <2>2. \A v \in Workers \ {w} : flush'[v] = flush[v]
    BY <1>5 DEF IInv, TypeOK, Step
  <2>3. faults' \in 0..MaxFaults /\ outlived' = outlived /\ outlived' \in BOOLEAN
        /\ lease' \in Workers \cup {Nobody, Gone}
    BY <1>1, <1>5, FaultType DEF IInv, TypeOK
  <2>4. LeaseOK'
    BY <1>1, <1>5, <2>1, <2>2, <2>3, WorkerLease
  <2> QED
    BY <1>1, <1>5, <2>1, <2>3, <2>4, QuietStep
<1> QED
  BY <1>2, <1>4, <1>5 DEF DeliveryMarked, trouble

\* A row marked failed, dead only for a reason.
LEMMA MarkFailedIInv ==
  ASSUME IInv, NEW w \in Workers, flush[w].pc \notin {"idle", "read"},
         NEW i \in RowId, i = Current(w).id, NEW dead \in BOOLEAN,
         MarkFailed(i, dead), Stop(w) \/ Continue(w),
         UNCHANGED <<lease, laravel, alerts, faults, outlived>>,
         dead => Unacceptable(i) \/ rows[i].attempts + 1 >= MaxAttempts
  PROVE  IInv' /\ Grow
<1>1. /\ Current(w) \in flush[w].batch /\ rows[i].status # "ABSENT" /\ GoodFlush(w)
  BY BusyCurrent DEF IInv
<1>2. PICK r \in Row : /\ rows' = [rows EXCEPT ![i] = r]
                       /\ r.status = IF dead THEN "DEAD" ELSE "PENDING"
                       /\ r.kind = rows[i].kind /\ r.valid = rows[i].valid
                       /\ r.second = rows[i].second /\ r.attempts = rows[i].attempts + 1
  BY MarkFailedIs
<1>3. r.status \in {"DEAD", "PENDING"} /\ r.attempts >= rows[i].attempts
      /\ UNCHANGED <<mirrors, alerts>>
  BY <1>2 DEF IInv, TypeOK, Row, laravel
<1>4. r.status # "ABSENT"
  BY <1>3
<1>5. /\ rows' \in [RowId -> Row] /\ rows'[i] = r
      /\ \A j \in RowId \ {i} : rows'[j] = rows[j]
      /\ Grow /\ RowsOK'
  BY <1>1, <1>2, <1>3, <1>4, RowEdited
<1>6. /\ flush' \in [Workers -> Flush] /\ \A v \in Workers \ {w} : flush'[v] = flush[v]
      /\ flush'[w].pc # "idle" => flush'[w].batch = flush[w].batch \ {Current(w)}
  <2>1. CASE Stop(w)
    BY <2>1, IdleType DEF Stop, IInv, TypeOK
  <2>2. CASE Continue(w)
    <3>1. flush[w] \in Flush
      BY DEF IInv, TypeOK
    <3>2. [flush[w] EXCEPT !.pc = "renew", !.batch = flush[w].batch \ {Current(w)}] \in Flush
      BY <3>1 DEF Flush
    <3> QED
      BY <2>2, <3>1, <3>2, IdleType DEF Continue, IInv, TypeOK, Flush
  <2> QED
    BY <2>1, <2>2
<1>7. TypeOK'
  BY <1>5, <1>6 DEF IInv, TypeOK, laravel, mirrors
<1>8. \A v \in Workers : flush'[v] = flush[v] \/ GoodFlush(v)'
  <2>1. CASE Stop(w)
    BY <2>1, StopGood
  <2>2. CASE Continue(w)
    BY <1>5, <1>7, <2>2, ContinueGood
  <2> QED
    BY <2>1, <2>2
<1>9. ASSUME flush'[w].pc # "idle"
      PROVE  /\ flush'[w].batch \subseteq flush[w].batch
             /\ \A t \in flush'[w].batch : rows'[t.id].status = rows[t.id].status
  <2> SUFFICES ASSUME NEW t \in flush'[w].batch PROVE t.id \in RowId \ {i}
    BY <1>5, <1>6, <1>9
  <2>1. t \in flush[w].batch /\ t # Current(w)
    BY <1>6, <1>9
  <2> QED
    BY <1>1, <2>1 DEF GoodFlush, IInv, TypeOK, Flush, Taken
<1>10. LeaseOK'
  BY <1>6, <1>9, WorkerLease
<1>11. \A j \in RowId : rows'[j].status = "SENT" => rows[j].status = "SENT" \/ Effect(j)'
  BY <1>3, <1>5
<1>12. rows'[i].status = "DEAD" => Reason(i)'
  BY <1>2, <1>5 DEF Reason, Unacceptable
<1>13. \A j \in RowId : rows'[j].status = "DEAD" => rows[j].status = "DEAD" \/ Reason(j)'
  BY <1>5, <1>12
<1> QED
  BY <1>5, <1>7, <1>8, <1>10, <1>11, <1>13, Kept DEF laravel, mirrors

\* A failed delivery: the last attempt allowed gives the row up; the count a
\* dispatcher read is not ahead of the table, so there were as many attempts.
LEMMA DeliveryFailedIInv == ASSUME IInv, NEW w \in Workers, DeliveryFailed(w)
  PROVE  IInv' /\ Grow
<1>1. flush[w].pc = "fail" /\ UNCHANGED <<lease, laravel, alerts, faults, outlived>>
  BY DEF DeliveryFailed, trouble
<1>2. PICK i \in RowId : i = Current(w).id
  BY <1>1, BusyCurrent
<1>3. Stop(w) \/ Continue(w)
  BY DEF DeliveryFailed
<1>4. CASE Current(w).attempts + 1 >= MaxAttempts
  <2>1. MarkFailed(i, TRUE)
    BY <1>2, <1>4 DEF DeliveryFailed, MarkFailed
  <2>2. Current(w).attempts <= rows[i].attempts /\ Current(w) \in Taken
    BY <1>1, <1>2, BusyCurrent
  <2>3. rows[i].attempts \in Nat /\ Current(w).attempts \in Nat
    BY <2>2 DEF IInv, TypeOK, Row, Taken
  <2>4. rows[i].attempts + 1 >= MaxAttempts
    BY <1>4, <2>2, <2>3, BoundsAssumption
  <2> QED
    BY <1>1, <1>2, <1>3, <2>1, <2>4, MarkFailedIInv
<1>5. CASE ~(Current(w).attempts + 1 >= MaxAttempts)
  <2>1. MarkFailed(i, FALSE)
    BY <1>2, <1>5 DEF DeliveryFailed, MarkFailed
  <2> QED
    BY <1>1, <1>2, <1>3, <2>1, MarkFailedIInv
<1> QED
  BY <1>4, <1>5

\* A rejected delivery: the row is given up.
LEMMA DeliveryRejectedIInv == ASSUME IInv, NEW w \in Workers, DeliveryRejected(w)
  PROVE  IInv' /\ Grow
<1>1. flush[w].pc = "reject" /\ UNCHANGED <<lease, laravel, alerts, faults, outlived>>
  BY DEF DeliveryRejected, trouble
<1>2. PICK i \in RowId : i = Current(w).id
  BY <1>1, BusyCurrent
<1>3. MarkFailed(i, TRUE) /\ Continue(w)
  BY <1>2 DEF DeliveryRejected
<1>4. Unacceptable(i)
  <2>1. Unacceptable(Current(w).id)
    BY <1>1, BusyCurrent DEF IInv, GoodFlush
  <2> QED
    BY <1>2, <2>1
<1> QED
  BY <1>1, <1>2, <1>3, <1>4, MarkFailedIInv

-----------------------------------------------------------------------------
\* A row that backed off is due again.
LEMMA BackoffOverIInv == ASSUME IInv, NEW i \in RowId, BackoffOver(i)
  PROVE  IInv' /\ Grow
<1>1. /\ rows[i].status = "PENDING" /\ rows' = [rows EXCEPT ![i].due = TRUE]
      /\ UNCHANGED <<lease, flush, laravel, alerts, faults, outlived>>
  BY DEF BackoffOver, trouble
<1>2. PICK r \in Row : /\ rows' = [rows EXCEPT ![i] = r] /\ r.status = "PENDING"
                       /\ r.kind = rows[i].kind /\ r.valid = rows[i].valid
                       /\ r.second = rows[i].second /\ r.attempts = rows[i].attempts
  <2> DEFINE r == [rows[i] EXCEPT !.due = TRUE]
  <2>1. rows[i] \in Row
    BY DEF IInv, TypeOK
  <2>2. /\ r \in Row /\ r.status = "PENDING" /\ r.kind = rows[i].kind
        /\ r.valid = rows[i].valid /\ r.second = rows[i].second
        /\ r.attempts = rows[i].attempts
    BY <1>1, <2>1 DEF Row
  <2> QED
    BY <1>1, <2>2
<1>3. r.attempts >= rows[i].attempts /\ UNCHANGED <<mirrors, alerts>>
  BY <1>1, <1>2 DEF IInv, TypeOK, Row, laravel
<1>4. /\ rows' \in [RowId -> Row] /\ rows'[i] = r
      /\ \A j \in RowId \ {i} : rows'[j] = rows[j]
      /\ Grow /\ RowsOK'
  BY <1>1, <1>2, <1>3, RowEdited
<1>5. \A j \in RowId : rows'[j].status = rows[j].status
  BY <1>1, <1>2, <1>4
<1>6. LeaseOK'
  BY <1>1, <1>5, OtherLease
<1>7. TypeOK'
  BY <1>1, <1>4 DEF IInv, TypeOK, laravel, mirrors
<1> QED
  BY <1>1, <1>4, <1>5, <1>6, <1>7, Kept DEF laravel, mirrors

\* A row is enqueued (enqueue).
LEMMA EnqueueIInv ==
  ASSUME IInv, NEW i \in RowId, NEW kind \in Kinds, NEW valid \in BOOLEAN,
         NEW second \in {0} \cup Second, Enqueue(i, kind, valid, second)
  PROVE  IInv' /\ Grow
<1>1. /\ rows[i].status = "ABSENT"
      /\ \A j \in RowId : j < i => rows[j].status # "ABSENT"
      /\ UNCHANGED <<lease, flush, laravel, alerts, faults, outlived>>
  BY DEF Enqueue, trouble
<1>2. kind # "none"
  BY KindsAssumption
<1>3. PICK r \in Row : /\ rows' = [rows EXCEPT ![i] = r]
                       /\ r.status = "PENDING" /\ r.kind = kind
  <2> DEFINE r == [kind |-> kind, valid |-> valid, status |-> "PENDING", attempts |-> 0,
                   due |-> TRUE, second |-> second]
  <2>1. r \in Row /\ r.status = "PENDING" /\ r.kind = kind
    BY DEF Row
  <2> QED
    BY <2>1 DEF Enqueue
<1>4. /\ rows' \in [RowId -> Row] /\ rows'[i] = r
      /\ \A j \in RowId \ {i} : rows'[j] = rows[j]
  BY <1>3 DEF IInv, TypeOK
<1>5. /\ mirror' = mirror /\ mirrored' = mirrored /\ shown' = shown /\ alerts' = alerts
      /\ mirror \in Int /\ \A j \in RowId : rows[j].attempts \in Int /\ alerts[j] \in Int
  BY <1>1, BoundsAssumption DEF laravel, mirrors, IInv, TypeOK, Row
<1>6. ShownSecond' = ShownSecond /\ ShownSecond \in Int
  <2>1. shown # 0 => shown \in RowId /\ rows[shown].kind # "none"
    BY BoundsAssumption DEF IInv, TypeOK, RowId, LaravelOK
  <2>2. shown # 0 => shown \in RowId \ {i}
    BY <1>1, <2>1 DEF IInv, RowsOK
  <2> QED
    BY <1>4, <1>5, <2>2, SecondType DEF ShownSecond, IInv
<1>7. Grow
  <2>1. \A j \in RowId : rows[j].status # "ABSENT" => rows'[j] = rows[j]
    BY <1>1, <1>4
  <2> QED
    BY <1>5, <1>6, <2>1 DEF Grow
<1>8. RowsOK'
  <2>1. \A j \in RowId : rows'[j].status = "ABSENT" <=> rows'[j].kind = "none"
    BY <1>2, <1>3, <1>4 DEF IInv, RowsOK
  <2>2. ASSUME NEW j \in RowId, NEW k \in RowId, k < j, rows'[j].status # "ABSENT"
        PROVE  rows'[k].status # "ABSENT"
    <3>1. CASE k = i
      BY <1>3, <1>4, <3>1
    <3>2. CASE k # i /\ j = i
      BY <1>1, <1>4, <2>2, <3>2
    <3>3. CASE k # i /\ j # i
      BY <1>4, <2>2, <3>3 DEF IInv, RowsOK
    <3> QED
      BY <3>1, <3>2, <3>3
  <2> QED
    BY <2>1, <2>2 DEF RowsOK
<1>9. LeaseOK'
  <2>1. \A j \in RowId : rows[j].status = "PENDING" => rows'[j].status = "PENDING"
    BY <1>1, <1>4
  <2> QED
    BY <1>1, <2>1, OtherLease
<1>10. TypeOK'
  BY <1>1, <1>4 DEF IInv, TypeOK, laravel, mirrors
<1>11. /\ \A j \in RowId : rows'[j].status = "SENT" => rows[j].status = "SENT"
       /\ \A j \in RowId : rows'[j].status = "DEAD" => rows[j].status = "DEAD"
  BY <1>3, <1>4
<1> QED
  BY <1>1, <1>7, <1>8, <1>9, <1>10, <1>11, Kept DEF laravel, mirrors

-----------------------------------------------------------------------------
\* Old answers are pruned (bot:prune-internal-requests).
LEMMA PruneIInv == ASSUME IInv, NEW i \in RowId, Prune(i) PROVE IInv' /\ Grow
<1>1. /\ recorded' \subseteq recorded
      /\ UNCHANGED <<rows, lease, flush, requests, mirrors, alerts, faults, outlived>>
  BY DEF Prune, engine, trouble
<1>2. Grow /\ RowsOK'
  BY <1>1, RowsUnchanged
<1>3. LeaseOK'
  BY <1>1, OtherLease
<1>4. TypeOK'
  BY <1>1 DEF IInv, TypeOK, mirrors
<1> QED
  BY <1>1, <1>2, <1>3, <1>4, Kept DEF mirrors

\* Laravel moves one request on, or drops it with its answer.
LEMMA ReplyIs ==
  ASSUME IInv, NEW q \in requests, NEW stage \in {"checked", "applied", "answered", "refused"},
         requests' \in {To(q, stage), Reply(q, stage)}
  PROVE  \E r \in Request : /\ r.id = q.id /\ r.stage = stage
                            /\ requests' \subseteq requests \cup {r}
<1>1. q \in Request
  BY DEF IInv, TypeOK
<1>2. PICK r \in Request : r = [q EXCEPT !.stage = stage] /\ r.id = q.id /\ r.stage = stage
  <2> DEFINE r == [q EXCEPT !.stage = stage]
  <2>1. r \in Request
    BY <1>1 DEF Request
  <2>2. r.id = q.id /\ r.stage = stage
    BY <1>1 DEF Request
  <2> QED
    BY <2>1, <2>2
<1>3. requests' \subseteq requests \cup {r}
  BY <1>2 DEF To, Reply
<1> QED
  BY <1>2, <1>3

\* the four steps
LEMMA ServeStep ==
  ASSUME IInv, UNCHANGED <<rows, lease, flush, alerts, faults, outlived>>,
         NEW q \in requests, NEW stage \in {"checked", "applied", "answered", "refused"},
         requests' \in {To(q, stage), Reply(q, stage)},
         recorded' \subseteq RowId, mirror' \in 0..MaxRows, mirrored' \subseteq RowId,
         shown' \in 0..MaxRows, mirror' >= mirror, mirrored \subseteq mirrored',
         ShownSecond' >= ShownSecond,
         stage = "checked" => rows[q.id].valid,
         stage \in {"applied", "answered"} => Effect(q.id)',
         stage = "refused" => ~rows[q.id].valid,
         \A i \in recorded' : i \in recorded \/ Effect(i)',
         shown' = shown \/ rows[shown'].kind = "positions"
  PROVE  IInv' /\ Grow
<1>1. PICK r \in Request : r.id = q.id /\ r.stage = stage /\ requests' \subseteq requests \cup {r}
  BY ReplyIs
<1>2. Grow /\ RowsOK'
  <2>1. \A i \in RowId : rows[i].attempts \in Int /\ alerts[i] \in Int
    BY DEF IInv, TypeOK, Row
  <2> QED
    BY <2>1 DEF Grow, IInv, RowsOK
<1>3. LeaseOK'
  BY OtherLease
<1>4. TypeOK'
  BY <1>1 DEF IInv, TypeOK
<1>5. GoodRequest(r)'
  <2>1. rows[q.id].kind \in CP_KINDS
    BY DEF IInv, LaravelOK, GoodRequest
  <2>2. PICK i \in RowId : i = q.id /\ i = r.id
    BY <1>1 DEF IInv, TypeOK, Request
  <2>3. stage \in {"applied", "answered"} => Effect(i)'
    BY <2>2
  <2> QED
    BY <1>1, <2>1, <2>2, <2>3 DEF GoodRequest
<1>6. \A p \in requests' : p \in requests \/ GoodRequest(p)'
  BY <1>1, <1>5
<1> QED
  BY <1>2, <1>3, <1>4, <1>6, Kept

\* A stored answer is replayed: the row was executed when it was stored.
LEMMA ReplayIInv == ASSUME IInv, NEW q \in requests, Replay(q) PROVE IInv' /\ Grow
<1>1. /\ q.id \in recorded /\ requests' = Reply(q, "answered")
      /\ UNCHANGED <<rows, lease, flush, recorded, mirror, mirrored, shown, alerts, faults,
                     outlived>>
  BY DEF Replay, engine, mirrors, trouble
<1>2. Effect(q.id)'
  <2>1. Effect(q.id)
    BY <1>1 DEF IInv, LaravelOK
  <2> QED
    BY <1>1, <2>1 DEF Effect, ShownSecond
<1>3. ShownSecond' = ShownSecond /\ ShownSecond \in Nat
  BY <1>1, SecondType DEF IInv, ShownSecond
<1>4. /\ recorded' \subseteq RowId /\ mirror' \in 0..MaxRows /\ mirrored' \subseteq RowId
      /\ shown' \in 0..MaxRows /\ mirror' >= mirror
  BY <1>1, BoundsAssumption DEF IInv, TypeOK
<1> QED
  BY <1>1, <1>2, <1>3, <1>4, ServeStep

\* Without a stored answer the request is validated.
LEMMA PassOnIInv == ASSUME IInv, NEW q \in requests, PassOn(q) PROVE IInv' /\ Grow
<1>1. /\ requests' = IF rows[q.id].valid THEN To(q, "checked") ELSE Reply(q, "refused")
      /\ UNCHANGED <<rows, lease, flush, recorded, mirror, mirrored, shown, alerts, faults,
                     outlived>>
  BY DEF PassOn, engine, mirrors, trouble
<1>2. ShownSecond' = ShownSecond /\ ShownSecond \in Nat
  BY <1>1, SecondType DEF IInv, ShownSecond
<1>3. /\ recorded' \subseteq RowId /\ mirror' \in 0..MaxRows /\ mirrored' \subseteq RowId
      /\ shown' \in 0..MaxRows /\ mirror' >= mirror
  BY <1>1, BoundsAssumption DEF IInv, TypeOK
<1>4. CASE rows[q.id].valid
  <2>1. requests' = To(q, "checked")
    BY <1>1, <1>4
  <2> QED
    BY <1>1, <1>2, <1>3, <1>4, <2>1, ServeStep
<1>5. CASE ~rows[q.id].valid
  <2>1. requests' = Reply(q, "refused")
    BY <1>1, <1>5
  <2> QED
    BY <1>1, <1>2, <1>3, <1>5, <2>1, ServeStep
<1> QED
  BY <1>4, <1>5

\* The answer of an executed request is stored.
LEMMA StoreAnswerIInv == ASSUME IInv, NEW q \in requests, StoreAnswer(q) PROVE IInv' /\ Grow
<1>1. /\ q.stage = "applied" /\ requests' = Reply(q, "answered")
      /\ recorded' = recorded \cup {q.id}
      /\ UNCHANGED <<rows, lease, flush, mirror, mirrored, shown, alerts, faults, outlived>>
  BY DEF StoreAnswer, engine, mirrors, trouble
<1>2. PICK i \in RowId : i = q.id
  BY DEF IInv, TypeOK, Request
<1>3. Effect(q.id)' /\ Effect(i)'
  <2>1. Effect(q.id)
    BY <1>1 DEF IInv, LaravelOK, GoodRequest
  <2>2. Effect(q.id)'
    BY <1>1, <2>1 DEF Effect, ShownSecond
  <2>3. Effect(i)
    BY <1>2, <2>1
  <2>4. Effect(i)'
    BY <1>1, <2>3 DEF Effect, ShownSecond
  <2> QED
    BY <2>2, <2>4
<1>4. ShownSecond' = ShownSecond /\ ShownSecond \in Nat
  BY <1>1, SecondType DEF IInv, ShownSecond
<1>5. /\ recorded' \subseteq RowId /\ mirror' \in 0..MaxRows /\ mirrored' \subseteq RowId
      /\ shown' \in 0..MaxRows /\ mirror' >= mirror
  BY <1>1, <1>2, BoundsAssumption DEF IInv, TypeOK
<1>6. \A j \in recorded' : j \in recorded \/ Effect(j)'
  <2>1. \A j \in recorded' : j \in recorded \/ j = i
    BY <1>1, <1>2
  <2> QED
    BY <1>3, <2>1
<1> QED
  BY <1>1, <1>3, <1>4, <1>5, <1>6, ServeStep

\* A request is executed: an older order version, a known unique key and an
\* older position leave the mirrors alone, and what they hold then is at least
\* as new.
LEMMA ExecuteIInv == ASSUME IInv, NEW q \in requests, Execute(q) PROVE IInv' /\ Grow
<1>1. /\ requests' = To(q, "applied")
      /\ UNCHANGED <<rows, lease, flush, recorded, alerts, faults, outlived>>
  BY DEF Execute, engine, trouble
<1>2. PICK i \in RowId : i = q.id
  BY DEF IInv, TypeOK, Request
<1>3. /\ mirror \in 0..MaxRows /\ mirrored \subseteq RowId /\ shown \in 0..MaxRows
      /\ recorded' \subseteq RowId /\ i \in 0..MaxRows /\ i > 0
  BY <1>1, BoundsAssumption DEF IInv, TypeOK, RowId
<1>4. ShownSecond \in Nat /\ rows[i].second \in Nat
  BY SecondType DEF IInv
<1>5. /\ mirror' \in 0..MaxRows /\ mirrored' \subseteq RowId /\ shown' \in 0..MaxRows
      /\ mirror' >= mirror /\ mirrored \subseteq mirrored' /\ ShownSecond' >= ShownSecond
      /\ shown' = shown \/ rows[shown'].kind = "positions"
      /\ Effect(i)'
  <2>1. CASE rows[i].kind = "orders" /\ RecordOrder(i)
    <3>1. /\ mirror' = (IF i > mirror THEN i ELSE mirror) /\ mirrored' = mirrored
          /\ shown' = shown
      BY <2>1 DEF RecordOrder
    <3>2. ShownSecond' = ShownSecond
      BY <1>1, <3>1 DEF ShownSecond
    <3>3. mirror' >= i /\ mirror' >= mirror /\ mirror' \in 0..MaxRows
      BY <1>3, <3>1, BoundsAssumption
    <3>4. Effect(i)'
      BY <1>1, <2>1, <3>3 DEF Effect
    <3> QED
      BY <1>3, <1>4, <3>1, <3>2, <3>3, <3>4
  <2>2. CASE rows[i].kind = "positions" /\ RecordPosition(i)
    <3>1. /\ shown' = IF ShownSecond > rows[i].second THEN shown ELSE i
          /\ mirror' = mirror /\ mirrored' = mirrored
      BY <2>2 DEF RecordPosition
    <3>2. CASE ShownSecond > rows[i].second
      <4>1. ShownSecond' = ShownSecond /\ ShownSecond' >= rows[i].second
        BY <1>1, <1>4, <3>1, <3>2 DEF ShownSecond
      <4>2. Effect(i)'
        BY <1>1, <2>2, <4>1 DEF Effect
      <4> QED
        BY <1>3, <1>4, <3>1, <3>2, <4>1, <4>2, BoundsAssumption
    <3>3. CASE ~(ShownSecond > rows[i].second)
      <4>1. shown' = i
        BY <3>1, <3>3
      <4>2. ShownSecond' = rows[i].second
        BY <1>1, <1>3, <4>1 DEF ShownSecond
      <4>3. ShownSecond' >= rows[i].second /\ ShownSecond' >= ShownSecond
        BY <1>4, <3>3, <4>2
      <4>4. Effect(i)'
        BY <1>1, <2>2, <4>3 DEF Effect
      <4> QED
        BY <1>3, <2>2, <3>1, <4>1, <4>3, <4>4, BoundsAssumption
    <3> QED
      BY <3>2, <3>3
  <2>3. CASE rows[i].kind \in InsertOnce /\ RecordOnce(i)
    <3>1. mirrored' = mirrored \cup {i} /\ mirror' = mirror /\ shown' = shown
      BY <2>3 DEF RecordOnce
    <3>2. ShownSecond' = ShownSecond
      BY <1>1, <3>1 DEF ShownSecond
    <3>3. Effect(i)'
      BY <1>1, <2>3, <3>1 DEF Effect
    <3> QED
      BY <1>3, <1>4, <3>1, <3>2, <3>3, BoundsAssumption
  <2> QED
    BY <1>2, <2>1, <2>2, <2>3 DEF Execute
<1>6. Effect(q.id)'
  BY <1>2, <1>5 DEF Effect
<1> QED
  BY <1>1, <1>3, <1>5, <1>6, ServeStep

-----------------------------------------------------------------------------
\* The invariant holds of an empty outbox.
LEMMA InitIInv == Init => IInv
<1> SUFFICES ASSUME Init PROVE IInv
  OBVIOUS
<1>1. /\ rows = [i \in RowId |-> NoRow] /\ lease = Nobody
      /\ flush = [w \in Workers |-> IdleFlush] /\ requests = {} /\ recorded = {}
      /\ mirror = 0 /\ mirrored = {} /\ shown = 0 /\ alerts = [i \in RowId |-> 0]
      /\ faults = 0 /\ outlived = FALSE
  BY DEF Init
<1>2. /\ \A i \in RowId : rows[i].status = "ABSENT" /\ rows[i].kind = "none"
      /\ rows \in [RowId -> Row]
  BY <1>1, NoRowType
<1>3. /\ \A w \in Workers : flush[w].pc = "idle" /\ flush[w].batch = {}
      /\ flush \in [Workers -> Flush]
  BY <1>1, IdleType
<1>4. TypeOK
  <2>1. alerts \in [RowId -> Nat]
    BY <1>1
  <2>2. mirror \in 0..MaxRows /\ shown \in 0..MaxRows /\ faults \in 0..MaxFaults
    BY <1>1, BoundsAssumption
  <2>3. lease \in Workers \cup {Nobody, Gone} /\ requests \subseteq Request
        /\ recorded \subseteq RowId /\ mirrored \subseteq RowId /\ outlived \in BOOLEAN
    BY <1>1
  <2> QED
    BY <1>2, <1>3, <2>1, <2>2, <2>3 DEF TypeOK
<1>5. RowsOK /\ SentMeansDelivered /\ GivenUpForAReason
  BY <1>2 DEF RowsOK, SentMeansDelivered, GivenUpForAReason
<1>6. (\A w \in Workers : GoodFlush(w)) /\ LeaseOK
  BY <1>3 DEF GoodFlush, LeaseOK
<1>7. LaravelOK
  BY <1>1 DEF LaravelOK
<1> QED
  BY <1>4, <1>5, <1>6, <1>7 DEF IInv

\* Every step keeps the invariant and takes nothing back.
LEMMA NextIInv == ASSUME IInv, [Next]_vars PROVE IInv' /\ Grow
<1>1. CASE UNCHANGED vars
  <2>1. UNCHANGED <<rows, lease, flush, laravel, alerts, faults, outlived>>
    BY <1>1 DEF vars, engine, trouble
  <2>2. /\ flush' \in [Workers -> Flush] /\ lease' \in Workers \cup {Nobody, Gone}
        /\ faults' \in 0..MaxFaults /\ outlived' \in BOOLEAN
    BY <2>1 DEF IInv, TypeOK
  <2>3. LeaseOK'
    BY <2>1, OtherLease
  <2> QED
    BY <2>1, <2>2, <2>3, QuietStep
<1>2. ASSUME NEW i \in RowId, NEW kind \in Kinds, NEW valid \in BOOLEAN,
             NEW second \in {0} \cup Second, Enqueue(i, kind, valid, second)
      PROVE  IInv' /\ Grow
  BY <1>2, EnqueueIInv
<1>3. ASSUME NEW i \in RowId, BackoffOver(i) \/ Prune(i) PROVE IInv' /\ Grow
  BY <1>3, BackoffOverIInv, PruneIInv
<1>4. CASE LeaseExpires
  BY <1>4, LeaseExpiresIInv
<1>5. ASSUME NEW w \in Workers, Dispatch(w) PROVE IInv' /\ Grow
  BY <1>5, StartFlushIInv, ReadPendingIInv, RenewIInv, SendPostIInv, SendTelegramIInv,
     AnsweredIInv, DeliveryMarkedIInv, DeliveryFailedIInv, DeliveryRejectedIInv DEF Dispatch
<1>6. ASSUME NEW w \in Workers, PostFails(w) \/ Crash(w) PROVE IInv' /\ Grow
  BY <1>6, PostFailsIInv, CrashIInv
<1>7. ASSUME NEW q \in requests, Serve(q) PROVE IInv' /\ Grow
  BY <1>7, ReplayIInv, PassOnIInv, ExecuteIInv, StoreAnswerIInv DEF Serve
<1> QED
  BY <1>1, <1>2, <1>3, <1>4, <1>5, <1>6, <1>7 DEF Next

\* The inductive invariant holds in every reachable state.
THEOREM Invariance == Spec => []IInv
<1>1. Init => IInv
  BY InitIInv
<1>2. IInv /\ [Next]_vars => IInv'
  BY NextIInv
<1> QED
  BY <1>1, <1>2, PTL DEF Spec

\* Rows, dispatchers, requests and mirrors keep their types.
THEOREM TypeCorrect == Spec => []TypeOK
<1>1. IInv => TypeOK
  BY DEF IInv
<1> QED
  BY <1>1, Invariance, PTL

\* A row is SENT only when its receiver has it, whatever crashes, lost answers
\* and second workers do (flush, EnsureIdempotentRequest).
THEOREM SentDelivered == Spec => []SentMeansDelivered
<1>1. IInv => SentMeansDelivered
  BY DEF IInv
<1> QED
  BY <1>1, Invariance, PTL

\* A row is DEAD only when Laravel can never accept it or when
\* OUTBOX_MAX_ATTEMPTS deliveries failed (flush, mark_outbox_failed).
THEOREM GivenUp == Spec => []GivenUpForAReason
<1>1. IInv => GivenUpForAReason
  BY DEF IInv
<1> QED
  BY <1>1, Invariance, PTL

\* Until a flush outlives its lease, one process delivers at a time
\* (acquire_lease).
THEOREM SoleDeliverer == Spec => []OneDeliverer
<1>1. IInv => OneDeliverer
  <2> SUFFICES ASSUME IInv, ~outlived, NEW v \in Workers, NEW w \in Workers,
                      Delivering(v), Delivering(w)
               PROVE  v = w
    BY DEF OneDeliverer
  <2>1. flush[v].pc # "idle" /\ flush[w].pc # "idle"
    BY DEF Delivering
  <2> QED
    BY <2>1 DEF IInv, LeaseOK
<1> QED
  BY <1>1, Invariance, PTL

-----------------------------------------------------------------------------
\* Row i is changed in place: to SENT, or it was pending, unless a flush
\* outlived its lease.
EditsRow(i) ==
    \E r \in Row : /\ rows' = [rows EXCEPT ![i] = r]
                   /\ r.kind = rows[i].kind /\ r.valid = rows[i].valid
                   /\ (r.status = "SENT" \/ outlived \/ rows[i].status = "PENDING")

\* The three ways a step treats the table of rows.
LEMMA RowStep ==
  ASSUME IInv, [Next]_vars
  PROVE  \/ rows' = rows
         \/ \E i \in RowId, kind \in Kinds, valid \in BOOLEAN, second \in {0} \cup Second :
               Enqueue(i, kind, valid, second)
         \/ UNCHANGED mirrors /\ \E i \in RowId : EditsRow(i)
<1>1. CASE UNCHANGED vars
  BY <1>1 DEF vars, engine
<1>2. ASSUME NEW i \in RowId, BackoffOver(i) PROVE EditsRow(i) /\ UNCHANGED mirrors
  <2> DEFINE r == [rows[i] EXCEPT !.due = TRUE]
  <2>1. rows[i] \in Row
    BY DEF IInv, TypeOK
  <2>2. r \in Row /\ r.kind = rows[i].kind /\ r.valid = rows[i].valid
    BY <2>1 DEF Row
  <2>3. rows' = [rows EXCEPT ![i] = r] /\ rows[i].status = "PENDING"
    BY <1>2 DEF BackoffOver
  <2> QED
    BY <1>2, <2>2, <2>3 DEF EditsRow, BackoffOver, laravel
<1>3. ASSUME NEW w \in Workers, DeliveryMarked(w)
      PROVE  rows' = rows \/ (UNCHANGED mirrors /\ \E i \in RowId : EditsRow(i))
  <2>1. PICK i \in RowId : i = Current(w).id
    BY <1>3, BusyCurrent DEF DeliveryMarked
  <2>2. ASSUME MarkSent(i) PROVE EditsRow(i)
    BY <2>2, MarkSentIs DEF EditsRow
  <2> QED
    BY <1>3, <2>1, <2>2 DEF DeliveryMarked, laravel
<1>4. ASSUME NEW w \in Workers, NEW i \in RowId, i = Current(w).id, NEW dead \in BOOLEAN,
             flush[w].pc \in {"fail", "reject"}, MarkFailed(i, dead)
      PROVE  EditsRow(i)
  <2>1. outlived \/ rows[i].status = "PENDING"
    BY <1>4, BusyCurrent DEF IInv, LeaseOK
  <2> QED
    BY <1>4, <2>1, MarkFailedIs DEF EditsRow
<1>5. ASSUME NEW w \in Workers, DeliveryFailed(w)
      PROVE  UNCHANGED mirrors /\ \E i \in RowId : EditsRow(i)
  <2>1. flush[w].pc = "fail" /\ UNCHANGED mirrors
    BY <1>5 DEF DeliveryFailed, laravel
  <2>2. PICK i \in RowId : i = Current(w).id
    BY <2>1, BusyCurrent
  <2>3. PICK dead \in BOOLEAN : dead <=> Current(w).attempts + 1 >= MaxAttempts
    OBVIOUS
  <2>4. MarkFailed(i, dead)
    BY <1>5, <2>2, <2>3 DEF DeliveryFailed, MarkFailed
  <2> QED
    BY <1>4, <2>1, <2>2, <2>4
<1>6. ASSUME NEW w \in Workers, DeliveryRejected(w)
      PROVE  UNCHANGED mirrors /\ \E i \in RowId : EditsRow(i)
  <2>1. flush[w].pc = "reject" /\ UNCHANGED mirrors
    BY <1>6 DEF DeliveryRejected, laravel
  <2>2. PICK i \in RowId : i = Current(w).id
    BY <2>1, BusyCurrent
  <2>3. MarkFailed(i, TRUE)
    BY <1>6, <2>2 DEF DeliveryRejected
  <2> QED
    BY <1>4, <2>1, <2>2, <2>3
<1>7. ASSUME NEW w \in Workers,
             \/ StartFlush(w) \/ ReadPending(w) \/ Renew(w) \/ SendPost(w) \/ SendTelegram(w)
             \/ Answered(w) \/ PostFails(w) \/ Crash(w)
      PROVE  rows' = rows
  BY <1>7 DEF StartFlush, ReadPending, Renew, SendPost, SendTelegram, Answered, PostFails, Crash
<1>8. ASSUME NEW i \in RowId, Prune(i) PROVE rows' = rows
  BY <1>8 DEF Prune, engine
<1>9. ASSUME NEW q \in requests, Serve(q) PROVE rows' = rows
  BY <1>9 DEF Serve, Replay, PassOn, Execute, StoreAnswer, engine
<1>10. CASE LeaseExpires
  BY <1>10 DEF LeaseExpires
<1> QED
  BY <1>1, <1>2, <1>3, <1>5, <1>6, <1>7, <1>8, <1>9, <1>10 DEF Next, Dispatch

\* Until a flush outlives its lease, a SENT row stays SENT (mark_outbox_failed
\* never hits a row that was delivered).
THEOREM SentStaysSent == Spec => SentIsFinal
<1>1. ASSUME IInv, [Next]_vars, ~outlived, NEW i \in RowId, rows[i].status = "SENT"
      PROVE  rows'[i].status = "SENT"
  <2>1. rows \in [RowId -> Row]
    BY <1>1 DEF IInv, TypeOK
  <2>2. CASE rows' = rows
    BY <1>1, <2>2
  <2>3. ASSUME NEW j \in RowId, NEW kind \in Kinds, NEW valid \in BOOLEAN,
               NEW second \in {0} \cup Second, Enqueue(j, kind, valid, second)
        PROVE  rows'[i] = rows[i]
    BY <1>1, <2>1, <2>3 DEF Enqueue
  <2>4. ASSUME NEW j \in RowId, EditsRow(j) PROVE rows'[i].status = "SENT"
    BY <1>1, <2>1, <2>4 DEF EditsRow
  <2> QED
    BY <1>1, <2>2, <2>3, <2>4, RowStep
<1>2. IInv /\ [Next]_vars
        => [~outlived => \A i \in RowId : rows[i].status = "SENT" => rows'[i].status = "SENT"]_rows
  BY <1>1
<1> QED
  BY <1>2, Invariance, PTL DEF Spec, SentIsFinal

-----------------------------------------------------------------------------
\* The newest version published is the greatest id of a valid order row.
LEMMA NewestIs ==
  ASSUME TypeOK
  PROVE  /\ Newest \in 0..MaxRows
         /\ \A j \in Published : j <= Newest
         /\ Published # {} => Newest \in Published
<1>1. Published \in SUBSET (0..MaxRows)
  BY BoundsAssumption DEF Published, RowId
<1>2. CASE Published = {}
  BY <1>2, BoundsAssumption DEF Newest
<1>3. CASE Published # {}
  <2>1. \E m \in Published : \A n \in Published : n <= m
    BY <1>1, <1>3, BoundsAssumption, Greatest
  <2>2. Newest \in Published /\ \A j \in Published : j <= Newest
    BY <1>3, <2>1 DEF Newest
  <2> QED
    BY <1>1, <2>2
<1> QED
  BY <1>2, <1>3

\* The mirror of an order moves only when RecordOrder applies a published
\* version that is newer.
LEMMA MirrorStep ==
  ASSUME IInv, [Next]_vars, rows' = rows
  PROVE  mirror' = mirror \/ (mirror' \in Published /\ mirror' > mirror)
<1>1. ASSUME NEW q \in requests, Execute(q)
      PROVE  mirror' = mirror \/ (mirror' \in Published /\ mirror' > mirror)
  <2>1. q.id \in RowId /\ rows[q.id].valid
    BY <1>1 DEF Execute, IInv, TypeOK, Request, LaravelOK, GoodRequest
  <2>2. PICK i \in RowId : i = q.id /\ rows[i].valid
    BY <2>1
  <2>3. CASE rows[i].kind = "orders" /\ RecordOrder(i)
    <3>1. i \in Published
      BY <2>2, <2>3 DEF Published
    <3> QED
      BY <2>3, <3>1 DEF RecordOrder
  <2>4. CASE RecordPosition(i) \/ RecordOnce(i)
    BY <2>4 DEF RecordPosition, RecordOnce
  <2> QED
    BY <1>1, <2>2, <2>3, <2>4 DEF Execute
<1>2. CASE UNCHANGED vars
  BY <1>2 DEF vars, laravel, mirrors
<1>3. CASE \E q \in requests : Serve(q)
  BY <1>1, <1>3 DEF Serve, Replay, PassOn, StoreAnswer, mirrors
<1>4. CASE LeaseExpires \/ \E i \in RowId : BackoffOver(i) \/ Prune(i)
  BY <1>4 DEF LeaseExpires, BackoffOver, Prune, laravel, mirrors
<1>5. CASE \E i \in RowId, kind \in Kinds, valid \in BOOLEAN, second \in {0} \cup Second :
              Enqueue(i, kind, valid, second)
  BY <1>5 DEF Enqueue, laravel, mirrors
<1>6. ASSUME NEW w \in Workers, Dispatch(w) \/ PostFails(w) \/ Crash(w)
      PROVE  mirror' = mirror
  <2>1. CASE StartFlush(w) \/ ReadPending(w) \/ Renew(w) \/ SendPost(w) \/ SendTelegram(w)
    BY <2>1 DEF StartFlush, ReadPending, Renew, SendPost, SendTelegram, laravel, mirrors
  <2>2. CASE Answered(w) \/ DeliveryMarked(w) \/ DeliveryFailed(w) \/ DeliveryRejected(w)
    BY <2>2 DEF Answered, DeliveryMarked, DeliveryFailed, DeliveryRejected, laravel, mirrors
  <2>3. CASE PostFails(w) \/ Crash(w)
    BY <2>3 DEF PostFails, Crash, laravel, mirrors
  <2> QED
    BY <1>6, <2>1, <2>2, <2>3 DEF Dispatch
<1> QED
  BY <1>2, <1>3, <1>4, <1>5, <1>6 DEF Next

\* A new row publishes its own id at most, and no earlier one is greater.
LEMMA EnqueuePublishes ==
  ASSUME IInv, NEW i \in RowId, NEW kind \in Kinds, NEW valid \in BOOLEAN,
         NEW second \in {0} \cup Second, Enqueue(i, kind, valid, second)
  PROVE  /\ Published' = Published \/ Published' = Published \cup {i}
         /\ \A j \in Published : j < i
         /\ mirror' = mirror
<1> DEFINE r == [kind |-> kind, valid |-> valid, status |-> "PENDING", attempts |-> 0,
                 due |-> TRUE, second |-> second]
<1>1. /\ rows[i].status = "ABSENT" /\ rows' = [rows EXCEPT ![i] = r]
      /\ mirror' = mirror /\ rows \in [RowId -> Row]
  BY DEF Enqueue, laravel, mirrors, IInv, TypeOK
<1>2. \A j \in Published : j < i
  <2> SUFFICES ASSUME NEW j \in RowId, rows[j].kind = "orders" PROVE j < i
    BY DEF Published
  <2>1. rows[j].status # "ABSENT"
    BY DEF IInv, RowsOK
  <2>2. j # i /\ ~(i < j)
    BY <1>1, <2>1 DEF IInv, RowsOK
  <2> QED
    BY <2>2, BoundsAssumption DEF RowId
<1>3. \A j \in RowId \ {i} : rows'[j] = rows[j]
  BY <1>1
<1>4. i \notin Published
  BY <1>2, BoundsAssumption DEF RowId
<1>5. Published' \ {i} = Published
  BY <1>3, <1>4 DEF Published
<1> QED
  BY <1>1, <1>2, <1>5

\* Every step of the outbox is a step of the abstract mirror, or none.
LEMMA MirrorNext == ASSUME IInv, [Next]_vars
                    PROVE  [Mirror!Publish \/ Mirror!Show]_<<Newest, mirror>>
<1>1. TypeOK /\ TypeOK'
  BY NextIInv DEF IInv
<1>2. mirror \in Nat /\ mirror' \in Nat /\ MaxRows \in Nat
  BY <1>1, BoundsAssumption DEF TypeOK
<1>3. /\ Newest \in 0..MaxRows /\ \A j \in Published : j <= Newest
      /\ Published # {} => Newest \in Published
  BY <1>1, NewestIs
<1>4. /\ Newest' \in 0..MaxRows /\ \A j \in Published' : j <= Newest'
      /\ Published' # {} => Newest' \in Published'
  <2>1. Published' \in SUBSET (0..MaxRows)
    BY BoundsAssumption DEF Published, RowId
  <2>2. CASE Published' = {}
    BY <2>2, BoundsAssumption DEF Newest
  <2>3. CASE Published' # {}
    <3>1. \E m \in Published' : \A n \in Published' : n <= m
      BY <2>1, <2>3, BoundsAssumption, Greatest
    <3>2. Newest' \in Published' /\ \A j \in Published' : j <= Newest'
      BY <2>3, <3>1 DEF Newest
    <3> QED
      BY <2>1, <3>2
  <2> QED
    BY <2>2, <2>3
<1>5. ASSUME Published' = Published PROVE Newest' = Newest
  BY <1>5 DEF Newest
<1>6. CASE rows' = rows
  <2>1. Newest' = Newest
    BY <1>5, <1>6 DEF Published
  <2>2. mirror' = mirror \/ (mirror' \in Published /\ mirror' > mirror)
    BY <1>6, MirrorStep
  <2>3. mirror' \in Published => mirror' <= Newest
    BY <1>3
  <2> QED
    BY <1>2, <2>1, <2>2, <2>3 DEF Mirror!Show
<1>7. ASSUME NEW i \in RowId, NEW kind \in Kinds, NEW valid \in BOOLEAN,
             NEW second \in {0} \cup Second, Enqueue(i, kind, valid, second)
      PROVE  [Mirror!Publish \/ Mirror!Show]_<<Newest, mirror>>
  <2>1. /\ Published' = Published \/ Published' = Published \cup {i}
        /\ \A j \in Published : j < i
        /\ mirror' = mirror
    BY <1>7, EnqueuePublishes
  <2>2. CASE Published' = Published
    BY <1>5, <2>1, <2>2
  <2>3. CASE Published' = Published \cup {i}
    <3>1. i \in 1..MaxRows
      BY DEF RowId
    <3>2. Newest' >= i
      BY <1>4, <2>3
    <3>3. Newest < i
      <4>1. CASE Published = {}
        BY <1>2, <3>1, <4>1 DEF Newest
      <4>2. CASE Published # {}
        BY <1>3, <2>1, <4>2
      <4> QED
        BY <4>1, <4>2
    <3>4. Newest' \in Nat /\ Newest' > Newest
      BY <1>2, <1>3, <1>4, <3>1, <3>2, <3>3
    <3> QED
      BY <2>1, <3>4 DEF Mirror!Publish
  <2> QED
    BY <2>1, <2>2, <2>3
<1>8. ASSUME NEW i \in RowId, EditsRow(i), UNCHANGED mirrors
      PROVE  [Mirror!Publish \/ Mirror!Show]_<<Newest, mirror>>
  <2>1. \A j \in RowId : rows'[j].kind = rows[j].kind /\ rows'[j].valid = rows[j].valid
    BY <1>1, <1>8 DEF EditsRow, TypeOK
  <2>2. Published' = Published
    BY <2>1 DEF Published
  <2> QED
    BY <1>5, <1>8, <2>2 DEF mirrors
<1> QED
  BY <1>6, <1>7, <1>8, RowStep

\* The mirrored order implements ControlPlaneMirror: it shows published versions
\* only and never goes back (RecordOrder).
THEOREM MirrorFollows == Spec => FollowsPublished
<1>1. Init => Mirror!Init
  <2> SUFFICES ASSUME Init PROVE Newest = 0 /\ mirror = 0
    BY DEF Mirror!Init
  <2>1. \A i \in RowId : rows[i].kind = "none"
    BY NoRowType DEF Init
  <2>2. Published = {}
    BY <2>1 DEF Published
  <2> QED
    BY <2>2 DEF Newest, Init
<1>2. IInv /\ [Next]_vars => [Mirror!Publish \/ Mirror!Show]_(Mirror!mirrorVars)
  BY MirrorNext DEF Mirror!mirrorVars
<1> QED
  BY <1>1, <1>2, Invariance, PTL DEF Spec, FollowsPublished, Mirror!Spec
=============================================================================
