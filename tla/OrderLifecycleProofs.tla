------------------------ MODULE OrderLifecycleProofs ------------------------
(***************************************************************************)
(* Proofs about OrderLifecycle for any set of orders, workers and          *)
(* quantities: the inductive invariant IInv, the safety properties it      *)
(* implies and the action property OnlyForward.                            *)
(***************************************************************************)
EXTENDS OrderLifecycle, TLAPS

-----------------------------------------------------------------------------
(* Types of the helpers                                                     *)

\* The order an idle thread nominally holds exists.
LEMMA AnOrder == (CHOOSE o \in Orders : TRUE) \in Orders
  BY OrdersAssumption

\* An absent order (Store.get_order returning None) is a row of the table.
LEMMA NoRowType == NoRow \in OrderRow
  <1>1. 0 \in 0..Qty /\ 0 \in Nat
    BY QtyAssumption
  <1>2. "none" \in RejectReason /\ "ABSENT" \in OrderStatus \cup {"ABSENT"}
    BY DEF RejectReason
  <1>3. QED
    BY <1>1, <1>2 DEF NoRow, OrderRow

\* "Not found" (query_order returning None) is a report.
LEMMA NoReportType == ASSUME NEW o \in Orders PROVE NoReport(o) \in Report
  BY QtyAssumption DEF NoReport, Report

\* A thread at any step of any operation has a well-typed job.
LEMMA AtType ==
  ASSUME NEW o \in Orders, NEW pc \in Step, NEW mode \in Mode
  PROVE  At(o, pc, mode) \in Job
  BY NoReportType DEF At, Job

\* An idle thread has one, too.
LEMMA IdleType == Idle \in Job /\ Idle.pc = "idle"
  BY AnOrder, AtType DEF Idle, At, Step, Mode

\* Order.apply_report leaves a row of the table.
LEMMA RowAfterReport ==
  ASSUME NEW row \in OrderRow, row.status # "ABSENT",
         NEW r \in Report, r.status # "ABSENT"
  PROVE  AfterReport(row, r) \in OrderRow
  BY DEF AfterReport, OrderRow, Report, MaxOf, ReportedStatus, RejectReason, OrderStatus

\* Order.mark_rejected leaves a row of the table.
LEMMA RowAfterRejection ==
  ASSUME NEW row \in OrderRow, NEW why \in RejectReason
  PROVE  AfterRejection(row, why) \in OrderRow
  BY DEF AfterRejection, OrderRow, OrderStatus, RejectReason

\* save_order keeps the table and the outbox well typed.
LEMMA SaveOrderType ==
  ASSUME TypeOK, NEW o \in Orders, NEW row \in OrderRow, SaveOrder(o, row)
  PROVE  /\ orders' \in [Orders -> OrderRow]
         /\ published' \in [Orders -> Snapshot]
  <1>1. [row EXCEPT !.version = @ + 1] \in OrderRow
    BY DEF OrderRow
  <1>2. SnapshotOf([row EXCEPT !.version = @ + 1]) \in Snapshot
    BY <1>1 DEF OrderRow, Snapshot, SnapshotOf
  <1>3. QED
    BY <1>1, <1>2 DEF SaveOrder, TypeOK

-----------------------------------------------------------------------------
(* What the facts about jobs depend on only grows                           *)

\* A step forgets no row, no acknowledgement, no execution, no report and no
\* fill, and takes back no refusal.
Grows ==
    /\ issued \subseteq issued'
    /\ fills \subseteq fills'
    /\ \A o \in Orders : /\ Exists(o) => Exists(o)'
                         /\ Acknowledged(o) => Acknowledged(o)'
                         /\ exch[o].exec <= exch'[o].exec
                         /\ wire[o] = "refused" => wire'[o] = "refused"

\* The exchange takes no execution back.
LEMMA ExecutedGrows ==
  ASSUME TypeOK, TypeOK', NEW o \in Orders, exch[o].exec <= exch'[o].exec
  PROVE  Executed(o) \subseteq Executed(o)'
  <1>1. exch[o].exec \in 0..Qty /\ exch'[o].exec \in 0..Qty
    BY DEF TypeOK, Report
  <1>2. \A t \in Trades : t[2] \in 1..Qty
    BY DEF Trades
  <1>3. QED
    BY <1>1, <1>2, QtyAssumption DEF Executed, TradesOf

\* What a thread knows stays true while nothing is forgotten.
LEMMA GoodJobKept ==
  ASSUME TypeOK, TypeOK', NEW j \in Job, GoodJob(j), Grows,
         j.pc = "post" => wire'[j.o] = wire[j.o]
  PROVE  GoodJob(j)'
  <1>1. j.o \in Orders /\ j.todo \subseteq Trades
    BY DEF Job
  <1>2. Executed(j.o) \subseteq Executed(j.o)'
    BY <1>1, ExecutedGrows DEF Grows
  <1>3. QED
    BY <1>1, <1>2 DEF GoodJob, Grows

\* No thread is disturbed by a step that is not its own.
LEMMA JobsUndisturbed ==
  ASSUME TypeOK, TypeOK', \A q \in Procs : GoodJob(job[q]), Grows,
         UNCHANGED job,
         \A q \in Procs : job[q].pc = "post" => wire'[job[q].o] = wire[job[q].o]
  PROVE  (\A q \in Procs : GoodJob(job[q]))'
  <1> SUFFICES ASSUME NEW q \in Procs PROVE GoodJob(job[q])'
    OBVIOUS
  <1>1. PICK k \in Job : k = job[q]
    BY DEF TypeOK
  <1>2. GoodJob(k)'
    BY <1>1, GoodJobKept DEF GoodJob
  <1>3. job'[q] = k
    BY <1>1
  <1>4. QED
    BY <1>2, <1>3 DEF GoodJob

\* Nor is any other thread by a step of one thread.
LEMMA JobsKept ==
  ASSUME TypeOK, TypeOK', \A q \in Procs : GoodJob(job[q]), Grows,
         NEW p \in Procs, NEW j \in Job, Goto(p, j), GoodJob(j)',
         \A q \in Procs : q # p /\ job[q].pc = "post" => wire'[job[q].o] = wire[job[q].o]
  PROVE  (\A q \in Procs : GoodJob(job[q]))'
  <1> SUFFICES ASSUME NEW q \in Procs PROVE GoodJob(job[q])'
    OBVIOUS
  <1>1. CASE q = p
    <2>1. job'[q] = j
      BY <1>1 DEF Goto, TypeOK
    <2>2. QED
      BY <2>1 DEF GoodJob
  <1>2. CASE q # p
    <2>1. PICK k \in Job : k = job[q]
      BY DEF TypeOK
    <2>2. GoodJob(k)'
      BY <1>2, <2>1, GoodJobKept DEF GoodJob
    <2>3. job'[q] = k
      BY <1>2, <2>1 DEF Goto, TypeOK
    <2>4. QED
      BY <2>2, <2>3 DEF GoodJob
  <1>3. QED
    BY <1>1, <1>2

\* An idle thread knows nothing that could be false.
LEMMA IdleIsGood == GoodJob(Idle) /\ GoodJob(Idle)'
  BY IdleType DEF GoodJob

-----------------------------------------------------------------------------
(* Steps of a thread that touch nothing but its own job                     *)

\* The thread that takes a step decides what is left to show of the jobs.
LEMMA JobStep ==
  ASSUME IInv, NEW p \in Procs, NEW j \in Job, Goto(p, j), GoodJob(j), j.pc # "post",
         UNCHANGED <<ledger, exchange>>,
         graceOver' \in [Orders -> BOOLEAN], faults' \in 0..MaxFaults
  PROVE  IInv'
  <1> USE DEF IInv, ledger, exchange
  <1>1. TypeOK'
    BY DEF TypeOK, Goto
  <1>2. Grows
    BY DEF Grows, TypeOK, Report, Exists, Acknowledged
  <1>3. GoodJob(j)'
    BY <1>1, <1>2, GoodJobKept
  <1>4. (\A q \in Procs : GoodJob(job[q]))'
    BY <1>1, <1>2, <1>3, JobsKept
  <1>5. OneSender'
    BY DEF OneSender, Goto, TypeOK
  <1>6. ReportsOK' /\ WireOK' /\ ConflictsAreReal' /\ NewestStatePublished'
    BY DEF ReportsOK, WireOK, ConflictsAreReal, NewestStatePublished, OnExchange, Exists
  <1>7. (\A o \in Orders : RowOK(o))'
    BY DEF RowOK, OnExchange
  <1>8. FillsOK' /\ ExecutionsCountedOnce'
    BY DEF FillsOK, ExecutionsCountedOnce, Acknowledged, Executed
  <1>9. QED
    BY <1>1, <1>4, <1>5, <1>6, <1>7, <1>8

\* Give-ups and crashes: the thread's local state is lost.
LEMMA GiveUpKeeps ==
  ASSUME IInv, NEW p \in Procs, CallFails(p) \/ Crash(p)
  PROVE  IInv'
  <1>1. graceOver' \in [Orders -> BOOLEAN] /\ faults' \in 0..MaxFaults
    BY FaultAssumption DEF IInv, TypeOK, CallFails, Crash, Fault
  <1>2. QED
    BY <1>1, IdleType, IdleIsGood, JobStep DEF CallFails, Crash

\* Picking up an order reads the ledger only.
LEMMA StartKeeps ==
  ASSUME IInv, NEW p \in Procs, NEW o \in Orders,
         SubmitCheck(p, o) \/ StartSync(p, o) \/ VerifyTerminal(p, o) \/ FillsIncomplete(p, o)
  PROVE  IInv'
  <1>1. graceOver' \in [Orders -> BOOLEAN] /\ faults' \in 0..MaxFaults
    BY DEF IInv, TypeOK, SubmitCheck, StartSync, VerifyTerminal, FillsIncomplete
  <1>2. UNCHANGED <<ledger, exchange>>
    BY DEF SubmitCheck, StartSync, VerifyTerminal, FillsIncomplete
  <1>3. CASE SubmitCheck(p, o)
    <2>1. At(o, "insert", "submit") \in Job /\ GoodJob(At(o, "insert", "submit"))
      BY AtType DEF Step, Mode, GoodJob, At
    <2>2. At(o, "insert", "submit").pc # "post" /\ Idle.pc # "post"
      BY IdleType DEF At
    <2>3. QED
      BY <1>1, <1>2, <1>3, <2>1, <2>2, IdleType, IdleIsGood, JobStep DEF SubmitCheck
  <1>4. CASE StartSync(p, o)
    <2>1. PICK m \in {"resolve", "refresh"} : m = SyncMode(p, orders[o])
      BY DEF SyncMode
    <2>2. At(o, "query", m) \in Job /\ GoodJob(At(o, "query", m)) /\ At(o, "query", m).pc # "post"
      BY <1>4, <2>1, AtType DEF Step, Mode, GoodJob, At, StartSync
    <2>3. QED
      BY <1>1, <1>2, <1>4, <2>1, <2>2, JobStep DEF StartSync
  <1>5. CASE VerifyTerminal(p, o)
    <2>1. /\ At(o, "query", "verify") \in Job
          /\ GoodJob(At(o, "query", "verify"))
          /\ At(o, "query", "verify").pc # "post"
      BY <1>5, AtType DEF Step, Mode, GoodJob, At, VerifyTerminal
    <2>2. QED
      BY <1>1, <1>2, <1>5, <2>1, JobStep DEF VerifyTerminal
  <1>6. CASE FillsIncomplete(p, o)
    <2>1. /\ At(o, "trades", "refresh") \in Job
          /\ GoodJob(At(o, "trades", "refresh"))
          /\ At(o, "trades", "refresh").pc # "post"
      BY AtType DEF Step, Mode, GoodJob, At
    <2>2. QED
      BY <1>1, <1>2, <1>6, <2>1, JobStep DEF FillsIncomplete
  <1>7. QED
    BY <1>3, <1>4, <1>5, <1>6

\* An execution of the account belongs to an order that was persisted before
\* it was sent.
LEMMA ExecutedIsKnown ==
  ASSUME IInv, NEW o \in Orders, OnExchange(o)
  PROVE  Exists(o)
  BY DEF IInv, WireOK

\* Only an order on the exchange has executions there.
LEMMA ExecutedIsOnExchange ==
  ASSUME IInv, NEW o \in Orders, Executed(o) # {}
  PROVE  OnExchange(o) /\ exch[o].exec > 0
  <1>1. exch[o].exec \in 0..Qty /\ \A t \in Trades : t[2] \in 1..Qty
    BY DEF IInv, TypeOK, Report, Trades
  <1>2. exch[o].exec > 0
    BY <1>1, QtyAssumption DEF Executed, TradesOf
  <1>3. QED
    BY <1>2 DEF IInv, ReportsOK

\* Reading the recent executions of the account changes no row.
LEMMA RecentFillsKeeps ==
  ASSUME IInv, NEW p \in Procs, NEW o \in Orders, RecentFills(p, o)
  PROVE  IInv'
  <1>1. graceOver' \in [Orders -> BOOLEAN] /\ faults' \in 0..MaxFaults
    BY DEF IInv, TypeOK, RecentFills
  <1>2. PICK pc \in {"fills", "query"} : pc = IF orders[o].eoid THEN "fills" ELSE "query"
    OBVIOUS
  <1>3. PICK T \in SUBSET Trades : T = Executed(o)
    BY DEF Executed, TradesOf
  <1> DEFINE j == [At(o, pc, "recent") EXCEPT !.todo = T]
  <1>4. At(o, pc, "recent") \in Job
    BY <1>2, AtType DEF Step, Mode
  <1>5. j \in Job /\ j.pc = pc /\ j.o = o /\ j.todo = T
    BY <1>4 DEF At, Job
  <1>6. Exists(o) /\ OnExchange(o) /\ exch[o].exec > 0
    BY ExecutedIsKnown, ExecutedIsOnExchange DEF RecentFills
  <1>7. orders[o].eoid => Acknowledged(o)
    <2>1. CASE orders[o].reason = "not_found" /\ orders[o].eoid
      <3>1. exch[o].status = "REJECTED"
        BY <2>1 DEF IInv, RowOK, IsTerminal, TERMINAL_STATUSES
      <3>2. exch[o].exec = 0
        BY <1>6, <3>1 DEF IInv, ReportsOK
      <3>3. QED
        BY <1>6, <3>2
    <2>2. QED
      BY <2>1 DEF Acknowledged
  <1>8. GoodJob(j)
    BY <1>2, <1>3, <1>5, <1>6, <1>7 DEF GoodJob
  <1>9. Goto(p, j) /\ UNCHANGED <<ledger, exchange>>
    BY <1>2, <1>3 DEF RecentFills
  <1>10. QED
    BY <1>1, <1>2, <1>5, <1>8, <1>9, JobStep

\* Reading the exchange's view of one order.
LEMMA QueryKeeps ==
  ASSUME IInv, NEW p \in Procs, QueryFound(p) \/ QueryMissing(p)
  PROVE  IInv'
  <1>1. /\ graceOver' \in [Orders -> BOOLEAN] /\ faults' \in 0..MaxFaults
        /\ UNCHANGED <<ledger, exchange>>
    BY DEF IInv, TypeOK, QueryFound, QueryMissing
  <1>2. PICK k \in Job : k = job[p]
    BY DEF IInv, TypeOK
  <1>3. k.pc = "query" /\ GoodJob(k) /\ k.o \in Orders
    BY <1>2 DEF IInv, QueryFound, QueryMissing, Job
  <1>4. CASE QueryFound(p)
    <2>1. PICK r \in Report : r = exch[k.o]
      BY <1>3 DEF IInv, TypeOK
    <2> DEFINE j == [k EXCEPT !.pc = "apply", !.rep = r]
    <2>2. j \in Job /\ j.pc = "apply" /\ j.rep = r /\ j.o = k.o /\ j.todo = k.todo
      BY DEF Job, Step
    <2>3. r \in issued /\ r.o = k.o
      BY <1>2, <1>3, <1>4, <2>1 DEF IInv, ReportsOK, QueryFound
    <2>4. GoodJob(j)
      BY <1>3, <2>2, <2>3 DEF GoodJob
    <2>5. Goto(p, j) \/ Goto(p, Idle)
      BY <1>2, <1>4, <2>1 DEF QueryFound
    <2> HIDE DEF j
    <2>6. QED
      BY <1>1, <2>2, <2>4, <2>5, IdleType, IdleIsGood, JobStep
  <1>5. CASE QueryMissing(p)
    <2>1. /\ At(k.o, "grace", "resolve") \in Job
          /\ GoodJob(At(k.o, "grace", "resolve"))
          /\ At(k.o, "grace", "resolve").pc # "post"
      BY <1>3, AtType DEF At, Step, Mode, GoodJob
    <2>2. /\ At(k.o, "trades", "refresh") \in Job
          /\ GoodJob(At(k.o, "trades", "refresh"))
          /\ At(k.o, "trades", "refresh").pc # "post"
      BY <1>3, AtType DEF At, Step, Mode, GoodJob
    <2>3. \/ Goto(p, At(k.o, "grace", "resolve"))
          \/ Goto(p, At(k.o, "trades", "refresh"))
          \/ Goto(p, Idle)
      BY <1>2, <1>5 DEF QueryMissing
    <2>4. QED
      BY <1>1, <2>1, <2>2, <2>3, IdleType, IdleIsGood, JobStep
  <1>6. QED
    BY <1>4, <1>5

\* query_fills reads executions the exchange has.
LEMMA QueryFillsKeeps ==
  ASSUME IInv, NEW p \in Procs, QueryFills(p)
  PROVE  IInv'
  <1>1. /\ graceOver' \in [Orders -> BOOLEAN] /\ faults' \in 0..MaxFaults
        /\ UNCHANGED <<ledger, exchange>>
    BY DEF IInv, TypeOK, QueryFills
  <1>2. PICK o \in Orders : o = job[p].o
    BY DEF IInv, TypeOK, Job
  <1>3. PICK T \in SUBSET Trades : T = Executed(o)
    BY DEF Executed, TradesOf
  <1> DEFINE j == [At(o, "fills", "refresh") EXCEPT !.todo = T]
  <1>4. At(o, "fills", "refresh") \in Job
    BY AtType DEF Step, Mode
  <1>5. j \in Job /\ j.pc = "fills" /\ j.o = o /\ j.todo = T
    BY <1>4 DEF At, Job
  <1>6. CASE orders[o].eoid /\ Executed(o) # {}
    <2>1. OnExchange(o) /\ exch[o].exec > 0
      BY <1>6, ExecutedIsOnExchange
    <2>2. orders[o].reason # "not_found"
      <3>1. SUFFICES ASSUME orders[o].reason = "not_found" PROVE FALSE
        OBVIOUS
      <3>2. exch[o].status = "REJECTED"
        BY <1>6, <3>1 DEF IInv, RowOK, IsTerminal, TERMINAL_STATUSES
      <3>3. QED
        BY <2>1, <3>2 DEF IInv, ReportsOK
    <2>3. GoodJob(j)
      BY <1>3, <1>5, <1>6, <2>2 DEF GoodJob, Acknowledged
    <2>4. Goto(p, j)
      BY <1>2, <1>3, <1>6 DEF QueryFills
    <2>5. QED
      BY <1>1, <1>5, <2>3, <2>4, JobStep
  <1>7. CASE ~(orders[o].eoid /\ Executed(o) # {})
    <2>1. Goto(p, Idle)
      BY <1>2, <1>7 DEF QueryFills
    <2>2. QED
      BY <1>1, <2>1, IdleType, IdleIsGood, JobStep
  <1>8. QED
    BY <1>6, <1>7

\* rebuild() remembers the fills it read.
LEMMA RebuildReadKeeps ==
  ASSUME IInv, NEW p \in Procs, RebuildRead(p)
  PROVE  IInv'
  <1>1. /\ graceOver' \in [Orders -> BOOLEAN] /\ faults' \in 0..MaxFaults
        /\ UNCHANGED <<ledger, exchange>>
    BY DEF IInv, TypeOK, RebuildRead
  <1>2. PICK T \in SUBSET Trades : T = fills
    BY DEF IInv, TypeOK
  <1> DEFINE j == [Idle EXCEPT !.pc = "rebuild", !.todo = T]
  <1>3. j \in Job /\ j.pc = "rebuild" /\ j.todo = T
    BY IdleType DEF Job, Step
  <1>4. GoodJob(j) /\ Goto(p, j)
    BY <1>2, <1>3 DEF GoodJob, RebuildRead
  <1>5. QED
    BY <1>1, <1>3, <1>4, JobStep

\* The outcome of the POST as the executor reports it.
LEMMA SubmitOutcomeKeeps ==
  ASSUME IInv, NEW p \in Procs, SubmitOutcome(p)
  PROVE  IInv'
  <1>1. /\ graceOver' \in [Orders -> BOOLEAN] /\ faults' \in 0..MaxFaults
        /\ UNCHANGED <<ledger, exchange>>
    BY FaultAssumption DEF IInv, TypeOK, SubmitOutcome, Fault
  <1>2. PICK o \in Orders : o = job[p].o
    BY DEF IInv, TypeOK, Job
  <1>3. Exists(o)
    BY <1>2 DEF IInv, GoodJob, SubmitOutcome
  <1>4. ASSUME NEW r \in issued, r.o = o,
               Goto(p, [At(o, "apply", "submit") EXCEPT !.rep = r])
        PROVE  IInv'
    <2> DEFINE j == [At(o, "apply", "submit") EXCEPT !.rep = r]
    <2>1. r \in Report
      BY DEF IInv, TypeOK
    <2>2. At(o, "apply", "submit") \in Job
      BY AtType DEF Step, Mode
    <2>3. j \in Job /\ j.pc = "apply" /\ j.o = o /\ j.rep = r /\ j.todo = {}
      BY <2>1, <2>2 DEF At, Job
    <2>4. GoodJob(j)
      BY <1>4, <2>3 DEF GoodJob
    <2>5. QED
      BY <1>1, <1>4, <2>3, <2>4, JobStep
  <1>5. /\ At(o, "flag", "submit") \in Job /\ GoodJob(At(o, "flag", "submit"))
        /\ At(o, "flag", "submit").pc # "post"
    BY <1>3, AtType DEF At, Step, Mode, GoodJob
  <1>6. ASSUME wire[o] = "refused", Goto(p, At(o, "reject", "submit"))
        PROVE  IInv'
    <2>1. /\ At(o, "reject", "submit") \in Job /\ GoodJob(At(o, "reject", "submit"))
          /\ At(o, "reject", "submit").pc # "post"
      BY <1>6, AtType DEF At, Step, Mode, GoodJob
    <2>2. QED
      BY <1>1, <1>6, <2>1, JobStep
  <1>7. \/ \E r \in issued : r.o = o /\ Goto(p, [At(o, "apply", "submit") EXCEPT !.rep = r])
        \/ wire[o] = "refused" /\ Goto(p, At(o, "reject", "submit"))
        \/ Goto(p, At(o, "flag", "submit"))
    BY <1>2 DEF SubmitOutcome
  <1>8. QED
    BY <1>1, <1>4, <1>5, <1>6, <1>7, JobStep

\* Time passing is no ledger change.
LEMMA GraceExpiresKeeps ==
  ASSUME IInv, NEW o \in Orders, GraceExpires(o)
  PROVE  IInv'
  <1> USE DEF IInv, GraceExpires, ledger, exchange
  <1>1. TypeOK'
    BY DEF TypeOK
  <1>2. Grows
    BY DEF Grows, TypeOK, Report, Exists, Acknowledged
  <1>3. (\A q \in Procs : GoodJob(job[q]))'
    BY <1>1, <1>2, JobsUndisturbed
  <1>4. OneSender' /\ ReportsOK' /\ WireOK' /\ ConflictsAreReal' /\ NewestStatePublished'
    BY DEF OneSender, ReportsOK, WireOK, ConflictsAreReal, NewestStatePublished,
           OnExchange, Exists
  <1>5. (\A u \in Orders : RowOK(u))'
    BY DEF RowOK, OnExchange
  <1>6. FillsOK' /\ ExecutionsCountedOnce'
    BY DEF FillsOK, ExecutionsCountedOnce, Acknowledged, Executed
  <1>7. QED
    BY <1>1, <1>3, <1>4, <1>5, <1>6

-----------------------------------------------------------------------------
(* Steps of the exchange                                                    *)

\* A new report of an order whose POST was accepted and that is not terminal
\* there: earlier reports stay consistent with the exchange, and so does the
\* ledger, which knows at most the earlier ones.
LEMMA IssueKeeps ==
  ASSUME IInv, TypeOK', NEW o \in Orders, NEW status \in ReportedStatus,
         NEW exec \in 0..Qty, NEW trade \in 0..Qty, Issue(o, status, exec, trade),
         UNCHANGED ledger, wire'[o] = "accepted", wire[o] \in {"sent", "accepted"},
         \A u \in Orders : u # o => wire'[u] = wire[u],
         exch[o].status \notin TERMINAL_STATUSES,
         exch[o].exec <= exec, trade <= exec, status = "REJECTED" => exec = 0
  PROVE  /\ ReportsOK' /\ WireOK' /\ FillsOK' /\ ExecutionsCountedOnce'
         /\ ConflictsAreReal' /\ NewestStatePublished' /\ Grows
         /\ (\A u \in Orders : RowOK(u))'
  <1> USE DEF IInv, ledger
  <1> DEFINE r == [o |-> o, status |-> status, exec |-> exec,
                   upd |-> exch[o].upd + 1, trade |-> trade]
  <1>1. exch' = [exch EXCEPT ![o] = r] /\ issued' = issued \cup {r}
    BY DEF Issue
  <1>2. exch'[o] = r /\ \A u \in Orders : u # o => exch'[u] = exch[u]
    BY <1>1 DEF TypeOK
  <1>3. r.o = o /\ r.status = status /\ r.exec = exec /\ r.trade = trade
    OBVIOUS
  <1>4. status # "ABSENT" /\ status \in OrderStatus
    BY DEF ReportedStatus, OrderStatus
  <1> HIDE DEF r
  <1>5. \A u \in Orders : exch[u].exec \in 0..Qty
    BY DEF TypeOK, Report
  <1>6. \A u \in Orders : exch[u].exec <= exch'[u].exec /\ (OnExchange(u) => OnExchange(u)')
    BY <1>2, <1>3, <1>4, <1>5 DEF OnExchange
  <1>7. Grows
    BY <1>1, <1>6 DEF Grows, Exists, Acknowledged
  <1>8. ReportsOK'
    <2>1. ASSUME NEW q \in issued'
          PROVE  /\ q.status # "ABSENT" /\ OnExchange(q.o)'
                 /\ q.exec <= exch'[q.o].exec /\ q.trade <= q.exec
                 /\ q.status = "REJECTED" => q.exec = 0
                 /\ q.status \in TERMINAL_STATUSES => exch'[q.o].status = q.status
      <3>1. CASE q = r
        BY <1>2, <1>3, <1>4, <3>1 DEF OnExchange
      <3>2. CASE q # r
        <4>1. q \in issued /\ q \in Report /\ q.o \in Orders /\ q.exec \in 0..Qty
          BY <1>1, <3>2 DEF TypeOK, Report
        <4>2. q.status \in TERMINAL_STATUSES => q.o # o
          BY <4>1 DEF ReportsOK
        <4>3. q.exec <= exch'[q.o].exec
          BY <4>1, <1>2, <1>3, <1>5 DEF ReportsOK
        <4>4. QED
          BY <4>1, <4>2, <4>3, <1>2, <1>6 DEF ReportsOK
      <3>3. QED
        BY <3>1, <3>2
    <2>2. ASSUME NEW u \in Orders
          PROVE  /\ exch'[u].o = u
                 /\ OnExchange(u)' => exch'[u] \in issued'
                 /\ ~OnExchange(u)' => exch'[u].exec = 0
      BY <1>1, <1>2, <1>3, <1>4 DEF ReportsOK, OnExchange
    <2>3. QED
      BY <2>1, <2>2 DEF ReportsOK
  <1>9. WireOK'
    BY <1>2, <1>3 DEF WireOK, OnExchange, Exists
  <1>10. FillsOK' /\ ConflictsAreReal' /\ NewestStatePublished'
    BY <1>6 DEF FillsOK, ConflictsAreReal, NewestStatePublished, Acknowledged, TypeOK
  <1>11. ExecutionsCountedOnce'
    <2>1. \A u \in Orders : Executed(u) \subseteq Executed(u)'
      BY <1>6, ExecutedGrows
    <2>2. \A t \in Trades : t[1] \in Orders
      BY DEF Trades
    <2>3. QED
      BY <2>1, <2>2 DEF ExecutionsCountedOnce
  <1>12. ASSUME NEW u \in Orders PROVE RowOK(u)'
    <2>1. RowOK(u) /\ orders[u].exec \in 0..Qty /\ exch'[u].exec \in 0..Qty
      BY DEF TypeOK, OrderRow, Report
    <2>2. orders[u].exec <= exch'[u].exec
      BY <1>5, <1>6, <2>1 DEF RowOK
    <2>3. CASE u # o
      BY <1>2, <2>1, <2>2, <2>3 DEF RowOK, OnExchange
    <2>4. CASE u = o
      <3>1. orders[o].eoid => ~IsTerminal(orders[o])
        BY <2>1, <2>4 DEF RowOK, IsTerminal
      <3>2. orders[o].reason = "exchange" => orders[o].eoid
        BY <2>1, <2>4 DEF RowOK
      <3>3. QED
        BY <1>6, <2>1, <2>2, <2>4, <3>1, <3>2 DEF RowOK
    <2>5. QED
      BY <2>3, <2>4
  <1>13. QED
    BY <1>7, <1>8, <1>9, <1>10, <1>11, <1>12

\* A report the exchange issues is a report.
LEMMA IssueType ==
  ASSUME TypeOK, NEW o \in Orders, NEW status \in ReportedStatus,
         NEW exec \in 0..Qty, NEW trade \in 0..Qty, Issue(o, status, exec, trade)
  PROVE  exch' \in [Orders -> Report] /\ issued' \subseteq Report /\ issued \subseteq issued'
  <1>1. exch[o].upd + 1 \in Nat
    BY DEF TypeOK, Report
  <1>2. [o |-> o, status |-> status, exec |-> exec, upd |-> exch[o].upd + 1,
         trade |-> trade] \in Report
    BY <1>1 DEF Report
  <1>3. QED
    BY <1>2 DEF Issue, TypeOK

\* A step of the exchange that issues a report and leaves the threads alone.
LEMMA ExchangeIssues ==
  ASSUME IInv, NEW o \in Orders, NEW status \in ReportedStatus,
         NEW exec \in 0..Qty, NEW trade \in 0..Qty, Issue(o, status, exec, trade),
         UNCHANGED <<ledger, graceOver, job, faults>>,
         wire' = [wire EXCEPT ![o] = "accepted"], wire[o] \in {"sent", "accepted"},
         exch[o].status \notin TERMINAL_STATUSES,
         exch[o].exec <= exec, trade <= exec, status = "REJECTED" => exec = 0
  PROVE  IInv'
  <1> USE DEF IInv
  <1>1. TypeOK'
    BY IssueType DEF TypeOK, ledger
  <1>2. wire'[o] = "accepted" /\ \A u \in Orders : u # o => wire'[u] = wire[u]
    BY DEF TypeOK
  <1>3. /\ ReportsOK' /\ WireOK' /\ FillsOK' /\ ExecutionsCountedOnce'
        /\ ConflictsAreReal' /\ NewestStatePublished' /\ Grows
        /\ (\A u \in Orders : RowOK(u))'
    BY <1>1, <1>2, IssueKeeps
  <1>4. \A q \in Procs : job[q].pc = "post" => wire'[job[q].o] = wire[job[q].o]
    <2>1. \A q \in Procs : job[q].pc = "post" => job[q].o \in Orders /\ job[q].o # o
      BY DEF TypeOK, Job, GoodJob
    <2>2. QED
      BY <1>2, <2>1
  <1>5. (\A q \in Procs : GoodJob(job[q]))'
    BY <1>1, <1>3, <1>4, JobsUndisturbed
  <1>6. OneSender'
    BY DEF OneSender
  <1>7. QED
    BY <1>1, <1>3, <1>5, <1>6

\* The exchange may place, refuse, fill or expire an order at any time.
LEMMA ExchangeKeeps ==
  ASSUME IInv, NEW o \in Orders, Exchange(o)
  PROVE  IInv'
  <1>1. exch[o].exec \in 0..Qty /\ exch[o].status \in ReportedStatus \cup {"ABSENT"}
    BY DEF IInv, TypeOK, Report
  <1>2. Live(o) => wire[o] = "accepted" /\ exch[o].status \notin TERMINAL_STATUSES
    BY DEF Live, IInv, WireOK, OnExchange, TERMINAL_STATUSES
  <1>3. CASE ExchangeAccept(o)
    <2>1. PICK status \in {"NEW", "REJECTED"} : Issue(o, status, 0, 0)
      BY <1>3 DEF ExchangeAccept
    <2>2. status \in ReportedStatus
      BY DEF ReportedStatus, OrderStatus
    <2>3. ~OnExchange(o)
      BY <1>3 DEF ExchangeAccept, IInv, WireOK
    <2>4. exch[o].status \notin TERMINAL_STATUSES /\ exch[o].exec <= 0
      BY <2>3 DEF OnExchange, TERMINAL_STATUSES, IInv, ReportsOK
    <2>5. PICK zero \in 0..Qty : zero = 0
      BY QtyAssumption
    <2>6. /\ Issue(o, status, zero, zero) /\ exch[o].exec <= zero /\ zero <= zero
          /\ status = "REJECTED" => zero = 0
      BY <2>1, <2>4, <2>5
    <2>7. /\ wire' = [wire EXCEPT ![o] = "accepted"] /\ wire[o] \in {"sent", "accepted"}
          /\ UNCHANGED <<ledger, graceOver, job, faults>>
      BY <1>3 DEF ExchangeAccept
    <2>8. QED
      BY <2>2, <2>4, <2>6, <2>7, ExchangeIssues
  <1>4. CASE ExchangeRefuse(o)
    <2> USE DEF IInv, ExchangeRefuse, ledger
    <2>1. PICK w \in {"refused", "lost"} : wire' = [wire EXCEPT ![o] = w]
      BY <1>4
    <2>2. wire'[o] = w /\ wire[o] = "sent" /\ \A u \in Orders : u # o => wire'[u] = wire[u]
      BY <1>4, <2>1 DEF TypeOK
    <2>3. TypeOK'
      BY <1>4, <2>1 DEF TypeOK
    <2>4. Grows
      BY <1>4, <2>2 DEF Grows, TypeOK, Report, Exists, Acknowledged
    <2>5. \A q \in Procs : job[q].pc = "post" => wire'[job[q].o] = wire[job[q].o]
      BY <2>2 DEF TypeOK, Job, GoodJob
    <2>6. (\A q \in Procs : GoodJob(job[q]))'
      BY <1>4, <2>3, <2>4, <2>5, JobsUndisturbed
    <2>7. WireOK'
      BY <1>4, <2>2 DEF WireOK, OnExchange, Exists
    <2>8. OneSender' /\ ReportsOK' /\ ConflictsAreReal' /\ NewestStatePublished'
      BY <1>4 DEF OneSender, ReportsOK, ConflictsAreReal, NewestStatePublished, OnExchange
    <2>9. (\A u \in Orders : RowOK(u))'
      BY <1>4, <2>2 DEF RowOK, OnExchange
    <2>10. FillsOK' /\ ExecutionsCountedOnce'
      BY <1>4 DEF FillsOK, ExecutionsCountedOnce, Acknowledged, Executed
    <2>11. QED
      BY <2>3, <2>6, <2>7, <2>8, <2>9, <2>10
  <1>5. CASE ExchangeTrade(o)
    <2>1. exch[o].exec + 1 \in 0..Qty /\ exch[o].exec <= exch[o].exec + 1
      BY <1>1, <1>5, QtyAssumption DEF ExchangeTrade
    <2>2. "FILLED" \in ReportedStatus /\ "PARTIALLY_FILLED" \in ReportedStatus
      BY DEF ReportedStatus, OrderStatus
    <2>3. PICK status \in {"FILLED", "PARTIALLY_FILLED"} :
             Issue(o, status, exch[o].exec + 1, exch[o].exec + 1)
      BY <1>5 DEF ExchangeTrade
    <2>4. wire' = [wire EXCEPT ![o] = "accepted"]
      BY <1>2, <1>5 DEF ExchangeTrade, IInv, TypeOK
    <2>5. PICK e \in 0..Qty : e = exch[o].exec + 1
      BY <2>1
    <2>6. Issue(o, status, e, e) /\ e <= e
      BY <2>3, <2>5
    <2>7. QED
      BY <1>2, <1>5, <2>1, <2>2, <2>4, <2>5, <2>6, ExchangeIssues DEF ExchangeTrade
  <1>6. CASE ExchangeExpire(o)
    <2>1. "EXPIRED" \in ReportedStatus
      BY DEF ReportedStatus, OrderStatus
    <2>2. wire' = [wire EXCEPT ![o] = "accepted"]
      BY <1>2, <1>6 DEF ExchangeExpire, IInv, TypeOK
    <2>3. PICK e \in 0..Qty : e = exch[o].exec
      BY <1>1
    <2>4. Issue(o, "EXPIRED", e, 0) /\ 0 <= e /\ 0 \in 0..Qty /\ exch[o].exec <= e
      BY <1>6, <2>3, QtyAssumption DEF ExchangeExpire
    <2>5. QED
      BY <1>2, <1>6, <2>1, <2>2, <2>4, ExchangeIssues DEF ExchangeExpire
  <1>7. QED
    BY <1>3, <1>4, <1>5, <1>6 DEF Exchange

\* Cancelling: the exchange may report the order CANCELED, and the thread
\* goes on with that report or refreshes the order.
LEMMA CancelKeeps ==
  ASSUME IInv, NEW p \in Procs, NEW o \in Orders, Cancel(p, o)
  PROVE  IInv'
  <1> USE DEF IInv
  <1>1. /\ At(o, "query", "refresh") \in Job /\ GoodJob(At(o, "query", "refresh"))
        /\ At(o, "query", "refresh").pc # "post" /\ At(o, "query", "refresh").todo = {}
    BY AtType DEF At, Step, Mode, GoodJob, Cancel
  <1>2. faults' \in 0..MaxFaults /\ graceOver' \in [Orders -> BOOLEAN]
    BY FaultAssumption DEF Cancel, TypeOK, Fault
  <1>3. CASE /\ Live(o) /\ Issue(o, "CANCELED", exch[o].exec, 0)
    <2>1. PICK e \in 0..Qty : e = exch[o].exec
      BY DEF TypeOK, Report
    <2>2. /\ Issue(o, "CANCELED", e, 0) /\ "CANCELED" \in ReportedStatus
          /\ 0 \in 0..Qty /\ 0 <= e /\ exch[o].exec <= e
      BY <1>3, <2>1, QtyAssumption DEF ReportedStatus, OrderStatus
    <2>3. wire[o] = "accepted" /\ exch[o].status \notin TERMINAL_STATUSES
      BY <1>3 DEF Live, WireOK, OnExchange, TERMINAL_STATUSES
    <2>4. UNCHANGED <<ledger, wire>>
      BY DEF Cancel
    <2>5. exch' \in [Orders -> Report] /\ issued' \subseteq Report /\ issued \subseteq issued'
      BY <2>2, IssueType
    <2>6. PICK r \in Report : r = exch'[o]
      BY <2>5
    <2>7. r \in issued' /\ r.o = o
      BY <2>2, <2>6 DEF Issue, TypeOK
    <2> DEFINE c == [At(o, "apply", "cancel") EXCEPT !.rep = r]
    <2>8. c \in Job /\ c.pc = "apply" /\ c.o = o /\ c.rep = r /\ c.todo = {}
      <3>1. At(o, "apply", "cancel") \in Job
        BY AtType DEF Step, Mode
      <3>2. QED
        BY <3>1 DEF At, Job
    <2>9. PICK j \in {c, At(o, "query", "refresh")} : Goto(p, j)
      <3>1. Goto(p, c) \/ Goto(p, At(o, "query", "refresh"))
        BY <1>3, <2>6 DEF Cancel, Live
      <3>2. QED
        BY <3>1
    <2>10. /\ j \in Job /\ j.pc \in {"apply", "query"} /\ j.o = o /\ j.todo = {}
           /\ j.pc = "apply" => j.rep = r
      BY <1>1, <2>8, <2>9 DEF At
    <2> HIDE DEF c
    <2>11. TypeOK'
      BY <1>2, <2>4, <2>5, <2>9, <2>10 DEF TypeOK, ledger, Goto
    <2>12. /\ ReportsOK' /\ WireOK' /\ FillsOK' /\ ExecutionsCountedOnce'
           /\ ConflictsAreReal' /\ NewestStatePublished' /\ Grows
           /\ (\A u \in Orders : RowOK(u))'
      BY <2>2, <2>3, <2>4, <2>11, IssueKeeps
    <2>13. GoodJob(j)'
      <3>1. Exists(o)
        BY DEF Cancel
      <3>2. QED
        BY <2>4, <2>7, <2>10, <3>1 DEF GoodJob, ledger, Exists
    <2>14. (\A q \in Procs : GoodJob(job[q]))'
      BY <2>4, <2>9, <2>10, <2>11, <2>12, <2>13, JobsKept
    <2>15. OneSender'
      BY <2>9, <2>10 DEF OneSender, Goto, TypeOK
    <2>16. QED
      BY <2>11, <2>12, <2>14, <2>15
  <1>4. CASE UNCHANGED <<exch, issued>> /\ Goto(p, At(o, "query", "refresh"))
    <2>1. UNCHANGED <<ledger, exchange>>
      BY <1>4 DEF Cancel, exchange
    <2>2. QED
      BY <1>1, <1>2, <1>4, <2>1, JobStep
  <1>5. QED
    BY <1>3, <1>4 DEF Cancel

\* The POST is sent by the one thread that inserted the order.
LEMMA SendPostKeeps ==
  ASSUME IInv, NEW p \in Procs, SendPost(p)
  PROVE  IInv'
  <1> USE DEF IInv, SendPost, ledger
  <1>1. PICK o \in Orders : o = job[p].o
    BY DEF TypeOK, Job
  <1>2. wire[o] = "unsent" /\ Exists(o)
    BY <1>1 DEF GoodJob
  <1>3. wire'[o] = "sent" /\ \A u \in Orders : u # o => wire'[u] = wire[u]
    BY <1>1, <1>2 DEF TypeOK
  <1>4. PICK j \in Job : j = At(o, "await", "submit")
    BY AtType DEF Step, Mode
  <1>5. Goto(p, j) /\ j.pc = "await" /\ j.o = o
    BY <1>1, <1>4 DEF At
  <1>6. TypeOK'
    BY <1>1, <1>2, <1>5 DEF TypeOK, Goto
  <1>7. Grows
    BY <1>2, <1>3 DEF Grows, TypeOK, Report, Exists, Acknowledged
  <1>8. GoodJob(j)'
    BY <1>2, <1>5 DEF GoodJob, Exists
  <1>9. \A q \in Procs : q # p /\ job[q].pc = "post" => wire'[job[q].o] = wire[job[q].o]
    BY <1>1, <1>3 DEF OneSender, TypeOK, Job
  <1>10. (\A q \in Procs : GoodJob(job[q]))'
    BY <1>5, <1>6, <1>7, <1>8, <1>9, JobsKept
  <1>11. OneSender'
    BY <1>5 DEF OneSender, Goto, TypeOK
  <1>12. WireOK'
    BY <1>2, <1>3 DEF WireOK, OnExchange, Exists
  <1>13. ReportsOK' /\ ConflictsAreReal' /\ NewestStatePublished'
    BY DEF ReportsOK, ConflictsAreReal, NewestStatePublished, OnExchange
  <1>14. (\A u \in Orders : RowOK(u))'
    BY <1>2, <1>3 DEF RowOK, OnExchange
  <1>15. FillsOK' /\ ExecutionsCountedOnce'
    BY DEF FillsOK, ExecutionsCountedOnce, Acknowledged, Executed
  <1>16. QED
    BY <1>6, <1>10, <1>11, <1>12, <1>13, <1>14, <1>15

-----------------------------------------------------------------------------
(* Transactions on the ledger                                               *)

\* save_order replaces one row by its next version and publishes it.
LEMMA SaveOrderEffect ==
  ASSUME TypeOK, NewestStatePublished, NEW o \in Orders, NEW row \in OrderRow,
         row.version = orders[o].version, SaveOrder(o, row)
  PROVE  /\ orders' \in [Orders -> OrderRow]
         /\ published' \in [Orders -> Snapshot]
         /\ NewestStatePublished'
         /\ orders'[o] = [row EXCEPT !.version = @ + 1]
         /\ \A u \in Orders : u # o => orders'[u] = orders[u]
  <1> DEFINE saved == [row EXCEPT !.version = @ + 1]
  <1>1. saved \in OrderRow /\ saved.version = row.version + 1 /\ row.version \in Nat
    BY DEF OrderRow
  <1>2. published[o].version = row.version
    <2>1. published[o] = SnapshotOf(orders[o])
      BY DEF NewestStatePublished
    <2>2. QED
      BY <2>1 DEF SnapshotOf
  <1>3. orders' = [orders EXCEPT ![o] = saved]
    BY DEF SaveOrder
  <1>4. published' = [published EXCEPT ![o] = SnapshotOf(saved)]
    <2>1. saved.version > published[o].version
      BY <1>1, <1>2
    <2>2. published' = [published EXCEPT
             ![o] = IF saved.version > @.version THEN SnapshotOf(saved) ELSE @]
      BY DEF SaveOrder
    <2> HIDE DEF saved
    <2>3. QED
      BY <2>1, <2>2
  <1>5. SnapshotOf(saved) \in Snapshot
    BY <1>1 DEF OrderRow, Snapshot, SnapshotOf
  <1> HIDE DEF saved
  <1>6. orders'[o] = saved /\ \A u \in Orders : u # o => orders'[u] = orders[u]
    BY <1>3 DEF TypeOK
  <1>7. NewestStatePublished'
    BY <1>4, <1>6 DEF NewestStatePublished, SnapshotOf, TypeOK
  <1>8. QED
    BY <1>1, <1>3, <1>4, <1>5, <1>6, <1>7 DEF TypeOK, saved

\* A step that changes one row, keeping what is known of the order, preserves
\* the parts of the invariant about rows.
LEMMA RowStep ==
  ASSUME IInv, UNCHANGED exchange, NEW o \in Orders,
         \A u \in Orders : u # o => orders'[u] = orders[u],
         RowOK(o)', Exists(o)', Acknowledged(o) => Acknowledged(o)'
  PROVE  /\ ReportsOK' /\ WireOK'
         /\ (\A u \in Orders : RowOK(u))'
         /\ \A u \in Orders : /\ Exists(u) => Exists(u)'
                              /\ Acknowledged(u) => Acknowledged(u)'
  <1> USE DEF IInv, exchange
  <1>1. ReportsOK'
    BY DEF ReportsOK, OnExchange
  <1>2. WireOK'
    BY DEF WireOK, OnExchange, Exists
  <1>3. \A u \in Orders : /\ Exists(u) => Exists(u)'
                          /\ Acknowledged(u) => Acknowledged(u)'
    BY DEF Exists, Acknowledged
  <1>4. ASSUME NEW u \in Orders PROVE RowOK(u)'
    <2>1. CASE u # o
      BY <2>1 DEF RowOK, OnExchange
    <2>2. QED
      BY <2>1
  <1>5. QED
    BY <1>1, <1>2, <1>3, <1>4

\* A step of one thread that changes one row and nothing else of the ledger.
LEMMA SaveStep ==
  ASSUME IInv, NEW p \in Procs, NEW o \in Orders, NEW row \in OrderRow,
         row.version = orders[o].version, row.status # "ABSENT", SaveOrder(o, row),
         RowOK(o)', Acknowledged(o) => Acknowledged(o)',
         orders[o].reason = "not_found" => row.reason = "not_found",
         UNCHANGED <<fills, accounted, processed, conflicts, exchange, graceOver, faults>>,
         NEW j \in Job, Goto(p, j), GoodJob(j)',
         j.pc = "post" => \A q \in Procs : job[q].pc = "post" => job[q].o # j.o
  PROVE  IInv'
  <1> USE DEF IInv
  <1>1. /\ orders' \in [Orders -> OrderRow] /\ published' \in [Orders -> Snapshot]
        /\ NewestStatePublished' /\ orders'[o] = [row EXCEPT !.version = @ + 1]
        /\ \A u \in Orders : u # o => orders'[u] = orders[u]
    BY SaveOrderEffect
  <1>2. /\ orders'[o].status = row.status /\ orders'[o].reason = row.reason
    BY <1>1 DEF OrderRow
  <1>3. TypeOK'
    BY <1>1 DEF TypeOK, Goto, exchange
  <1>4. /\ ReportsOK' /\ WireOK' /\ (\A u \in Orders : RowOK(u))'
        /\ \A u \in Orders : /\ Exists(u) => Exists(u)'
                             /\ Acknowledged(u) => Acknowledged(u)'
    BY <1>1, <1>2, RowStep DEF Exists
  <1>5. Grows
    BY <1>4 DEF Grows, TypeOK, Report, exchange
  <1>6. (\A q \in Procs : GoodJob(job[q]))'
    BY <1>3, <1>5, JobsKept DEF exchange
  <1>7. OneSender'
    BY DEF OneSender, Goto, TypeOK
  <1>8. ConflictsAreReal'
    BY <1>1, <1>2 DEF ConflictsAreReal, OnExchange, exchange, TypeOK
  <1>9. FillsOK' /\ ExecutionsCountedOnce'
    BY <1>4 DEF FillsOK, ExecutionsCountedOnce, Executed, exchange, TypeOK, Trades
  <1>10. QED
    BY <1>1, <1>3, <1>4, <1>6, <1>7, <1>8, <1>9

\* A step of one thread that changes nothing but that thread's job.
LEMMA UnchangedRow ==
  ASSUME IInv, NEW p \in Procs, UNCHANGED <<orders, published>>,
         UNCHANGED <<fills, accounted, processed, conflicts, exchange, graceOver, faults>>,
         Goto(p, Idle)
  PROVE  IInv'
  <1>1. UNCHANGED <<ledger, exchange>>
    BY DEF ledger
  <1>2. graceOver' \in [Orders -> BOOLEAN] /\ faults' \in 0..MaxFaults
    BY DEF IInv, TypeOK
  <1>3. QED
    BY <1>1, <1>2, IdleType, IdleIsGood, JobStep

\* The order row is written, SUBMITTING, before its POST, and by one thread.
LEMMA SubmitInsertKeeps ==
  ASSUME IInv, NEW p \in Procs, SubmitInsert(p)
  PROVE  IInv'
  <1>1. PICK o \in Orders : o = job[p].o
    BY DEF IInv, TypeOK, Job
  <1>2. CASE Exists(o)
    <2>1. Goto(p, Idle) /\ UNCHANGED <<orders, published>>
      BY <1>1, <1>2 DEF SubmitInsert
    <2>2. QED
      BY <2>1, UnchangedRow DEF SubmitInsert
  <1>3. CASE ~Exists(o)
    <2> DEFINE new == [NoRow EXCEPT !.status = "SUBMITTING"]
    <2>new1. /\ new.status = "SUBMITTING" /\ new.version = 0 /\ ~new.eoid /\ new.exec = 0
          /\ new.reason = "none"
      BY DEF NoRow
    <2>new2. new \in OrderRow
      BY NoRowType DEF OrderRow, OrderStatus
    <2>1. PICK row \in OrderRow : row = new
      BY <2>new2
    <2>2. PICK j \in Job : j = At(o, "post", "submit")
      BY AtType DEF Step, Mode
    <2>3. SaveOrder(o, row) /\ Goto(p, j) /\ j.pc = "post" /\ j.o = o
      BY <1>1, <1>3, <2>1, <2>2 DEF SubmitInsert, At
    <2>4. row.version = orders[o].version
      BY <1>3, <2>1 DEF IInv, RowOK, Exists, NoRow
    <2>5. orders'[o] = [row EXCEPT !.version = @ + 1]
      BY <2>3, <2>4, SaveOrderEffect DEF IInv
    <2>6. UNCHANGED <<fills, accounted, processed, conflicts, exchange, graceOver, faults>>
      BY DEF SubmitInsert
    <2>7. exch'[o].exec \in 0..Qty
      BY <2>6 DEF exchange, IInv, TypeOK, Report
    <2>8. RowOK(o)' /\ Exists(o)'
      BY <2>1, <2>5, <2>7 DEF RowOK, Exists, NoRow
    <2>9. ~Acknowledged(o) /\ orders[o].reason # "not_found"
      BY <1>3 DEF Exists, Acknowledged, IInv, RowOK
    <2>10. wire[o] = "unsent"
      BY <1>3 DEF IInv, WireOK
    <2>11. GoodJob(j)'
      BY <2>3, <2>6, <2>8, <2>10 DEF GoodJob, exchange
    <2>12. \A q \in Procs : job[q].pc = "post" => job[q].o # j.o
      BY <1>3, <2>3 DEF IInv, GoodJob
    <2>13. row.status # "ABSENT"
      BY <2>1 DEF NoRow
    <2>14. QED
      BY <2>3, <2>4, <2>6, <2>8, <2>9, <2>11, <2>12, <2>13, SaveStep
  <1>4. QED
    BY <1>2, <1>3

\* mark_rejected finds a SUBMITTING row or does nothing.
LEMMA RejectKeeps ==
  ASSUME IInv, NEW p \in Procs, NEW o \in Orders, Exists(o),
         NEW why \in {"exchange", "not_found"}, why = "exchange" => wire[o] = "refused",
         RejectOrder(o, why), Goto(p, Idle),
         UNCHANGED <<fills, accounted, processed, conflicts, exchange, graceOver, faults>>
  PROVE  IInv'
  <1>1. CASE UNCHANGED <<orders, published>>
    BY <1>1, UnchangedRow
  <1>2. CASE Rejectable(orders[o]) /\ SaveOrder(o, AfterRejection(orders[o], why))
    <2>1. orders[o] \in OrderRow /\ why \in RejectReason
      BY DEF IInv, TypeOK, RejectReason
    <2>2. PICK row \in OrderRow : row = AfterRejection(orders[o], why)
      BY <2>1, RowAfterRejection
    <2>3. /\ row.status = "REJECTED" /\ row.reason = why /\ row.version = orders[o].version
          /\ row.eoid = orders[o].eoid /\ row.exec = orders[o].exec
      BY <2>1, <2>2 DEF AfterRejection, OrderRow
    <2>4. orders[o].status = "SUBMITTING"
      BY <1>2, <2>1 DEF Rejectable, CanTransition, ALLOWED_TRANSITIONS, OrderStatus, IsTerminal,
                        TERMINAL_STATUSES, IInv, RowOK, Exists, OrderRow
    <2>5. ~orders[o].eoid /\ orders[o].exec = 0 /\ orders[o].reason = "none"
      BY <2>1, <2>4 DEF IInv, RowOK, OrderRow
    <2>6. orders'[o] = [row EXCEPT !.version = @ + 1]
      BY <1>2, <2>2, <2>3, SaveOrderEffect DEF IInv
    <2>7. /\ orders'[o].status = "REJECTED" /\ orders'[o].reason = why
          /\ ~orders'[o].eoid /\ orders'[o].exec = 0
      BY <2>3, <2>5, <2>6 DEF OrderRow
    <2>8. exch'[o].exec \in 0..Qty /\ exch'[o].exec >= 0 /\ wire'[o] = wire[o]
      BY DEF exchange, IInv, TypeOK, Report
    <2>9. RowOK(o)'
      BY <2>7, <2>8 DEF RowOK
    <2>10. ~Acknowledged(o)
      BY <2>5 DEF Acknowledged
    <2>11. QED
      BY <1>2, <2>2, <2>3, <2>5, <2>9, <2>10, IdleType, IdleIsGood, SaveStep
  <1>3. QED
    BY <1>1, <1>2 DEF RejectOrder

\* A definitive rejection (submit_intent) rejects the row only.
LEMMA MarkRejectedKeeps ==
  ASSUME IInv, NEW p \in Procs, MarkRejected(p)
  PROVE  IInv'
  <1>1. PICK o \in Orders : o = job[p].o
    BY DEF IInv, TypeOK, Job
  <1>2. wire[o] = "refused" /\ Exists(o)
    BY <1>1 DEF IInv, GoodJob, WireOK, MarkRejected
  <1>3. QED
    BY <1>1, <1>2, RejectKeeps DEF MarkRejected

\* Writing an order off after the grace window keeps the invariant.
LEMMA ResolveNotFoundKeeps ==
  ASSUME IInv, NEW p \in Procs, ResolveNotFound(p)
  PROVE  IInv'
  <1>1. PICK o \in Orders : o = job[p].o
    BY DEF IInv, TypeOK, Job
  <1>2. Exists(o)
    BY <1>1 DEF IInv, GoodJob, ResolveNotFound
  <1>3. RejectOrder(o, "not_found") \/ UNCHANGED <<orders, published>>
    BY <1>1 DEF ResolveNotFound
  <1>4. QED
    BY <1>2, <1>3, RejectKeeps, UnchangedRow DEF ResolveNotFound

\* Flagging an ambiguous submission saves one row and goes on to its query.
LEMMA MarkAmbiguousKeeps ==
  ASSUME IInv, NEW p \in Procs, MarkAmbiguous(p)
  PROVE  IInv'
  <1>1. PICK o \in Orders : o = job[p].o
    BY DEF IInv, TypeOK, Job
  <1>2. Exists(o) /\ orders[o] \in OrderRow
    BY <1>1 DEF IInv, TypeOK, GoodJob, MarkAmbiguous
  <1>3. PICK row \in OrderRow : row = [orders[o] EXCEPT !.ambiguous = TRUE]
    BY <1>2 DEF OrderRow
  <1>4. /\ row.status = orders[o].status /\ row.reason = orders[o].reason
        /\ row.version = orders[o].version /\ row.eoid = orders[o].eoid
        /\ row.exec = orders[o].exec
    BY <1>2, <1>3 DEF OrderRow
  <1>5. SaveOrder(o, row)
    BY <1>1, <1>3 DEF MarkAmbiguous
  <1>6. orders'[o] = [row EXCEPT !.version = @ + 1]
    BY <1>4, <1>5, SaveOrderEffect DEF IInv
  <1>7. /\ orders'[o].status = orders[o].status /\ orders'[o].reason = orders[o].reason
        /\ orders'[o].eoid = orders[o].eoid /\ orders'[o].exec = orders[o].exec
    BY <1>4, <1>6 DEF OrderRow
  <1>8. exch' = exch /\ wire' = wire
    BY DEF MarkAmbiguous, exchange
  <1>9. RowOK(o)' /\ Exists(o)' /\ (Acknowledged(o) => Acknowledged(o)')
    BY <1>2, <1>7, <1>8 DEF RowOK, Exists, Acknowledged, IsTerminal, OnExchange, IInv
  <1>10. PICK j \in Job : /\ j.pc \in {"idle", "query"} /\ Goto(p, j)
                          /\ j.pc = "query" => j.o = o /\ j.todo = {}
    <2>1. At(o, "query", "resolve") \in Job /\ At(o, "query", "resolve").pc = "query"
          /\ At(o, "query", "resolve").o = o /\ At(o, "query", "resolve").todo = {}
      BY AtType DEF Step, Mode, At
    <2>2. Goto(p, Idle) \/ Goto(p, At(o, "query", "resolve"))
      BY <1>1 DEF MarkAmbiguous
    <2>3. QED
      BY <2>1, <2>2, IdleType
  <1>11. GoodJob(j)'
    BY <1>9, <1>10 DEF GoodJob
  <1>12. row.status # "ABSENT"
    BY <1>2, <1>4 DEF Exists
  <1>13. QED
    BY <1>4, <1>5, <1>9, <1>10, <1>11, <1>12, SaveStep DEF MarkAmbiguous

-----------------------------------------------------------------------------
(* Order.apply_report                                                       *)

\* A conflict is raised only for an order written off that the exchange has.
LEMMA ConflictIsReal ==
  ASSUME IInv, NEW o \in Orders, NEW r \in issued, r.o = o, Conflict(orders[o], r)
  PROVE  orders[o].reason = "not_found" /\ OnExchange(o)
  <1>1. OnExchange(o) /\ r \in Report /\ orders[o] \in OrderRow
    BY DEF IInv, ReportsOK, TypeOK
  <1>2. r.status \in ReportedStatus
    BY <1>1 DEF IInv, ReportsOK, Report
  <1>3. CASE orders[o].reason # "not_found"
    <2>1. /\ r.status # orders[o].status /\ IsTerminal(orders[o])
          /\ RANK[r.status] >= RANK[orders[o].status]
      BY <1>3 DEF Conflict
    <2>2. r.status \in TERMINAL_STATUSES
      BY <1>2, <2>1 DEF RANK, IsTerminal, TERMINAL_STATUSES, ReportedStatus, OrderStatus
    <2>3. exch[o].status = r.status
      BY <2>2 DEF IInv, ReportsOK
    <2>4. ~orders[o].eoid
      BY <2>1, <2>3 DEF IInv, RowOK
    <2>5. orders[o].reason = "exchange"
      BY <1>1, <1>3, <2>1, <2>4 DEF IInv, RowOK, IsTerminal, TERMINAL_STATUSES,
                                    OrderRow, RejectReason
    <2>6. wire[o] = "refused"
      BY <2>4, <2>5 DEF IInv, RowOK
    <2>7. QED
      BY <1>1, <2>6 DEF IInv, WireOK
  <1>4. QED
    BY <1>1, <1>3

\* What apply_report makes of a row when it raises nothing: the row agrees
\* with the exchange, and acknowledges the order unless it was written off
\* and the exchange itself rejected it.
LEMMA RowAfterReportOK ==
  ASSUME IInv, NEW o \in Orders, Exists(o), NEW r \in issued, r.o = o,
         ~Conflict(orders[o], r), NEW row \in OrderRow, row = AfterReport(orders[o], r)
  PROVE  /\ row.status \notin {"ABSENT", "SUBMITTING", "INTENT_CREATED"}
         /\ row.status = "REJECTED" <=> row.reason # "none"
         /\ row.eoid
         /\ row.status \in TERMINAL_STATUSES => exch[o].status = row.status
         /\ row.reason = "not_found" => row.exec = 0
         /\ row.exec <= exch[o].exec
         /\ orders[o].reason # "none" => row.reason = orders[o].reason
         /\ row.reason = "not_found" => orders[o].reason = "not_found" /\ exch[o].exec = 0
         /\ row.version = orders[o].version
  <1>1. r \in Report /\ orders[o] \in OrderRow /\ exch[o] \in Report
    BY DEF IInv, TypeOK
  <1>2. r.status \in ReportedStatus /\ r.exec \in 0..Qty /\ r.exec <= exch[o].exec
    BY <1>1 DEF IInv, ReportsOK, Report
  <1>3. OnExchange(o) /\ (r.status \in TERMINAL_STATUSES => exch[o].status = r.status)
    BY DEF IInv, ReportsOK
  <1>4. orders[o].status \in OrderStatus \ {"INTENT_CREATED"}
    BY <1>1 DEF OrderRow, Exists, IInv, RowOK
  <1>5. /\ orders[o].exec \in 0..Qty /\ orders[o].exec <= exch[o].exec /\ exch[o].exec \in 0..Qty
        /\ orders[o].reason \in RejectReason
    BY <1>1 DEF OrderRow, Report, IInv, RowOK
  <1>6. /\ row.eoid
        /\ row.exec = MaxOf(orders[o].exec, r.exec)
        /\ row.status = IF Advances(orders[o], r) THEN r.status ELSE orders[o].status
        /\ row.reason = IF Advances(orders[o], r) /\ r.status = "REJECTED"
                        THEN "exchange" ELSE orders[o].reason
        /\ row.version = orders[o].version
    BY <1>1 DEF AfterReport, OrderRow
  <1>7. row.exec <= exch[o].exec
    BY <1>2, <1>5, <1>6 DEF MaxOf
  <1>8. orders[o].reason # "none" <=> orders[o].status = "REJECTED"
    BY DEF IInv, RowOK
  <1>9. Advances(orders[o], r) => /\ ~IsTerminal(orders[o])
                                  /\ r.status # "INTENT_CREATED"
    BY <1>2, <1>4 DEF Advances, CanTransition, ALLOWED_TRANSITIONS, IsTerminal,
                      TERMINAL_STATUSES, ReportedStatus, OrderStatus
  <1>10. orders[o].status = "SUBMITTING" => Advances(orders[o], r)
    BY <1>2 DEF Advances, CanTransition, ALLOWED_TRANSITIONS, RANK, ReportedStatus, OrderStatus
  <1>11. row.status \notin {"ABSENT", "SUBMITTING", "INTENT_CREATED"}
    BY <1>2, <1>4, <1>6, <1>10 DEF ReportedStatus, OrderStatus
  <1>12. orders[o].reason # "none" => ~Advances(orders[o], r) /\ row.reason = orders[o].reason
    BY <1>6, <1>8, <1>9 DEF IsTerminal, TERMINAL_STATUSES
  <1>13. row.status = "REJECTED" <=> row.reason # "none"
    BY <1>6, <1>8, <1>9 DEF IsTerminal, TERMINAL_STATUSES
  <1>14. ASSUME orders[o].reason = "not_found"
         PROVE  exch[o].status = "REJECTED" /\ exch[o].exec = 0
    <2>1. r.status = "REJECTED"
      BY <1>8, <1>14 DEF Conflict
    <2>2. exch[o].status = "REJECTED"
      BY <1>3, <2>1 DEF TERMINAL_STATUSES
    <2>3. QED
      BY <1>3, <2>2 DEF IInv, ReportsOK
  <1>15. row.reason = "not_found" => orders[o].reason = "not_found" /\ exch[o].exec = 0
    BY <1>6, <1>14
  <1>16. row.reason = "not_found" => row.exec = 0
    BY <1>5, <1>2, <1>6, <1>15 DEF MaxOf
  <1>17. ASSUME row.status \in TERMINAL_STATUSES
         PROVE  exch[o].status = row.status
    <2>1. CASE Advances(orders[o], r)
      BY <1>3, <1>6, <1>17, <2>1
    <2>2. CASE ~Advances(orders[o], r)
      <3>1. IsTerminal(orders[o]) /\ row.status = orders[o].status
        BY <1>6, <1>17, <2>2 DEF IsTerminal
      <3>2. CASE orders[o].eoid
        BY <3>1, <3>2 DEF IInv, RowOK
      <3>3. CASE ~orders[o].eoid
        <4>1. orders[o].status = "REJECTED"
          BY <3>1, <3>3 DEF IInv, RowOK, IsTerminal, TERMINAL_STATUSES
        <4>2. orders[o].reason # "exchange"
          BY <1>3, <3>3 DEF IInv, RowOK, WireOK
        <4>3. orders[o].reason = "not_found"
          BY <1>5, <1>8, <4>1, <4>2 DEF RejectReason
        <4>4. QED
          BY <1>14, <3>1, <4>1, <4>3
      <3>4. QED
        BY <3>2, <3>3
    <2>3. QED
      BY <2>1, <2>2
  <1>18. QED
    BY <1>6, <1>7, <1>11, <1>12, <1>13, <1>15, <1>16, <1>17

\* apply_report, as OrderService runs it, keeps what is known of the rows.
LEMMA ApplyReportKeeps ==
  ASSUME IInv, UNCHANGED exchange, NEW o \in Orders, Exists(o),
         NEW r \in issued, r.o = o, ApplyReport(o, r)
  PROVE  /\ orders' \in [Orders -> OrderRow] /\ published' \in [Orders -> Snapshot]
         /\ conflicts' \subseteq Orders
         /\ ReportsOK' /\ WireOK' /\ NewestStatePublished' /\ ConflictsAreReal'
         /\ (\A u \in Orders : RowOK(u))'
         /\ \A u \in Orders : /\ Exists(u) => Exists(u)'
                              /\ Acknowledged(u) => Acknowledged(u)'
         /\ ~Conflict(orders[o], r) => Acknowledged(o)' \/ exch[o].exec = 0
  <1> USE DEF IInv
  <1>1. PICK row \in OrderRow : row = AfterReport(orders[o], r)
    <2>1. r \in Report /\ r.status # "ABSENT" /\ orders[o] \in OrderRow
      BY DEF TypeOK, ReportsOK
    <2>2. QED
      BY <2>1, RowAfterReport DEF Exists
  <1>2. CASE UNCHANGED <<orders, published>>
    <2>1. ReportsOK' /\ WireOK' /\ NewestStatePublished'
      BY <1>2 DEF exchange, ReportsOK, WireOK, NewestStatePublished, OnExchange, Exists
    <2>2. (\A u \in Orders : RowOK(u))'
      BY <1>2 DEF exchange, RowOK, OnExchange
    <2>3. ConflictsAreReal' /\ conflicts' \subseteq Orders
      <3>1. \A u \in conflicts' : u \in conflicts \/ (u = o /\ Conflict(orders[o], r))
        BY DEF ApplyReport
      <3>2. \A u \in conflicts' : u \in Orders /\ orders[u].reason = "not_found" /\ OnExchange(u)
        BY <3>1, ConflictIsReal DEF ConflictsAreReal, TypeOK
      <3>3. QED
        BY <1>2, <3>2 DEF ConflictsAreReal, OnExchange, exchange
    <2>4. ~Conflict(orders[o], r) => Acknowledged(o)' \/ exch[o].exec = 0
      <3>1. SUFFICES ASSUME ~Conflict(orders[o], r) PROVE Acknowledged(o)' \/ exch[o].exec = 0
        OBVIOUS
      <3>2. row = orders[o]
        <4>1. row # orders[o] => SaveOrder(o, row)
          BY <1>1, <3>1 DEF ApplyReport
        <4>2. row.version = orders[o].version
          BY <1>1, <3>1, RowAfterReportOK
        <4>3. SaveOrder(o, row) => orders' # orders
          <5>1. row.version \in Nat /\ [row EXCEPT !.version = @ + 1].version = row.version + 1
            BY DEF OrderRow
          <5>2. SaveOrder(o, row) => orders'[o].version = row.version + 1
            BY <4>2, <5>1, SaveOrderEffect
          <5>3. QED
            BY <4>2, <5>1, <5>2
        <4>4. QED
          BY <1>2, <4>1, <4>3
      <3>3. row.eoid /\ (row.reason = "not_found" => exch[o].exec = 0)
        BY <1>1, <3>1, RowAfterReportOK
      <3>4. QED
        BY <1>2, <3>2, <3>3 DEF Acknowledged
    <2>5. QED
      BY <1>2, <2>1, <2>2, <2>3, <2>4 DEF TypeOK, Exists, Acknowledged
  <1>3. CASE ~Conflict(orders[o], r) /\ SaveOrder(o, row) /\ UNCHANGED conflicts
    <2>1. /\ row.status \notin {"ABSENT", "SUBMITTING", "INTENT_CREATED"}
          /\ row.status = "REJECTED" <=> row.reason # "none"
          /\ row.eoid
          /\ row.status \in TERMINAL_STATUSES => exch[o].status = row.status
          /\ row.reason = "not_found" => row.exec = 0
          /\ row.exec <= exch[o].exec
          /\ orders[o].reason # "none" => row.reason = orders[o].reason
          /\ row.reason = "not_found" => orders[o].reason = "not_found" /\ exch[o].exec = 0
          /\ row.version = orders[o].version
      BY <1>1, <1>3, RowAfterReportOK
    <2>2. /\ orders' \in [Orders -> OrderRow] /\ published' \in [Orders -> Snapshot]
          /\ NewestStatePublished' /\ orders'[o] = [row EXCEPT !.version = @ + 1]
          /\ \A u \in Orders : u # o => orders'[u] = orders[u]
      BY <1>3, <2>1, SaveOrderEffect
    <2>3. /\ orders'[o].status = row.status /\ orders'[o].reason = row.reason
          /\ orders'[o].eoid = row.eoid /\ orders'[o].exec = row.exec
      BY <2>2 DEF OrderRow
    <2>4. OnExchange(o) /\ exch' = exch /\ wire' = wire
      BY DEF exchange, ReportsOK
    <2>5. RowOK(o)' /\ Exists(o)'
      BY <2>1, <2>3, <2>4 DEF RowOK, Exists, OnExchange, IsTerminal
    <2>6. Acknowledged(o) => Acknowledged(o)'
      BY <2>1, <2>3 DEF Acknowledged
    <2>7. /\ ReportsOK' /\ WireOK'
          /\ (\A u \in Orders : RowOK(u))'
          /\ \A u \in Orders : /\ Exists(u) => Exists(u)'
                               /\ Acknowledged(u) => Acknowledged(u)'
      BY <2>2, <2>5, <2>6, RowStep
    <2>8. ConflictsAreReal'
      BY <1>3, <2>1, <2>2, <2>3, <2>4 DEF ConflictsAreReal, OnExchange, TypeOK
    <2>9. Acknowledged(o)' \/ exch[o].exec = 0
      BY <2>1, <2>3 DEF Acknowledged
    <2>10. QED
      BY <1>3, <2>2, <2>7, <2>8, <2>9 DEF TypeOK
  <1>4. QED
    BY <1>1, <1>2, <1>3 DEF ApplyReport

\* What a worker does after apply_report: it stops, goes on with queries, or
\* ingests executions of an order that is now acknowledged.
LEMMA AfterApplyIsGood ==
  ASSUME IInv, UNCHANGED exchange, NEW p \in Procs, NEW k \in Job, k = job[p], k.pc = "apply",
         ~Conflict(orders[k.o], k.rep) => Acknowledged(k.o)' \/ exch[k.o].exec = 0,
         Exists(k.o)'
  PROVE  \E j \in Job : AfterApply(p) = j /\ j.pc # "post" /\ GoodJob(j)'
  <1> USE DEF IInv
  <1>1. PICK o \in Orders : o = k.o
    BY DEF Job
  <1>2. PICK r \in issued : r = k.rep
    BY DEF GoodJob
  <1>3. r \in Report /\ r.o = o /\ r.exec \in 0..Qty /\ r.exec <= exch[o].exec
    BY <1>1, <1>2 DEF GoodJob, TypeOK, ReportsOK, Report
  <1>4. k.todo \subseteq Executed(o)
    BY <1>1 DEF GoodJob
  <1> DEFINE response == {t \in TradesOf(o) : t[2] <= r.exec}
  <1>5. response \subseteq Executed(o)
    <2>1. exch[o].exec \in 0..Qty /\ \A t \in Trades : t[2] \in 1..Qty
      BY DEF TypeOK, Report, Trades
    <2>2. QED
      BY <1>3, <2>1, QtyAssumption DEF Executed, TradesOf
  <1>6. \A pc \in {"query", "trades"} : \A m \in Mode :
           /\ At(o, pc, m) \in Job /\ At(o, pc, m).pc = pc /\ At(o, pc, m).o = o
           /\ At(o, pc, m).todo = {}
    BY AtType DEF At, Step
  <1>7. ASSUME NEW pc \in {"query", "trades"}, AfterApply(p) = At(o, pc, "refresh")
        PROVE  \E j \in Job : AfterApply(p) = j /\ j.pc # "post" /\ GoodJob(j)'
    <2>1. PICK j \in Job : j = At(o, pc, "refresh") /\ j.pc = pc /\ j.o = o /\ j.todo = {}
      BY <1>6 DEF Mode
    <2>2. GoodJob(j)'
      BY <1>1, <2>1 DEF GoodJob
    <2>3. QED
      BY <1>7, <2>1, <2>2
  <1>8. ASSUME AfterApply(p) = Idle
        PROVE  \E j \in Job : AfterApply(p) = j /\ j.pc # "post" /\ GoodJob(j)'
    BY <1>8, IdleType, IdleIsGood
  <1>9. ASSUME ~Conflict(orders[o], r), NEW T \in SUBSET Executed(o), T # {}, NEW m \in Mode,
               AfterApply(p) = [At(o, "fills", m) EXCEPT !.todo = T]
        PROVE  \E j \in Job : AfterApply(p) = j /\ j.pc # "post" /\ GoodJob(j)'
    <2>1. At(o, "fills", m) \in Job /\ T \subseteq Trades
      BY AtType DEF Step, Executed, TradesOf
    <2>2. PICK j \in Job : j = [At(o, "fills", m) EXCEPT !.todo = T]
      BY <2>1 DEF Job
    <2>3. j.pc = "fills" /\ j.o = o /\ j.todo = T
      BY <2>1, <2>2 DEF At
    <2>4. exch[o].exec > 0
      BY <1>9, ExecutedIsOnExchange
    <2>5. Acknowledged(o)'
      BY <1>1, <1>2, <1>9, <2>4
    <2>6. Executed(o)' = Executed(o)
      BY DEF Executed, exchange
    <2>7. GoodJob(j)'
      BY <2>3, <2>5, <2>6 DEF GoodJob
    <2>8. QED
      BY <1>9, <2>2, <2>3, <2>7
  <1>10. CASE Conflict(orders[o], r)
    <2>1. AfterApply(p) = Idle
      BY <1>1, <1>2, <1>10 DEF AfterApply
    <2>2. QED
      BY <1>8, <2>1
  <1>11. CASE ~Conflict(orders[o], r)
    <2>1. PICK m \in Mode : m = k.mode
      BY DEF Job
    <2>2. CASE m = "submit"
      <3>1. AfterApply(p) = IF response = {} THEN Idle
                            ELSE [At(o, "fills", m) EXCEPT !.todo = response]
        BY <1>1, <1>2, <1>11, <2>1, <2>2 DEF AfterApply
      <3>2. QED
        BY <1>5, <1>8, <1>9, <1>11, <3>1
    <2>3. CASE m = "recent"
      <3>1. AfterApply(p) = IF k.todo = {} THEN Idle
                            ELSE [At(o, "fills", m) EXCEPT !.todo = k.todo]
        BY <1>1, <1>2, <1>11, <2>1, <2>3 DEF AfterApply
      <3>2. QED
        BY <1>4, <1>8, <1>9, <1>11, <3>1
    <2>4. CASE m = "cancel"
      BY <1>1, <1>2, <1>7, <1>11, <2>1, <2>4 DEF AfterApply
    <2>5. CASE m = "verify"
      BY <1>1, <1>2, <1>8, <1>11, <2>1, <2>5 DEF AfterApply
    <2>6. CASE m \notin {"submit", "recent", "cancel", "verify"}
      BY <1>1, <1>2, <1>7, <1>11, <2>1, <2>6 DEF AfterApply
    <2>7. QED
      BY <2>2, <2>3, <2>4, <2>5, <2>6
  <1>12. QED
    BY <1>10, <1>11

\* A report read over REST is applied to the row as it is by now.
LEMMA ApplyRestReportKeeps ==
  ASSUME IInv, NEW p \in Procs, ApplyRestReport(p)
  PROVE  IInv'
  <1> USE DEF IInv
  <1>1. PICK k \in Job : k = job[p]
    BY DEF TypeOK
  <1>2. PICK o \in Orders : o = k.o
    BY DEF Job
  <1>3. PICK r \in issued : r = k.rep /\ r.o = o
    BY <1>1, <1>2 DEF GoodJob, ApplyRestReport
  <1>4. k.pc = "apply" /\ ApplyReport(o, r) /\ UNCHANGED exchange
        /\ UNCHANGED <<fills, accounted, processed, graceOver, faults>>
    BY <1>1, <1>2, <1>3 DEF ApplyRestReport
  <1>5. OnExchange(o) /\ Exists(o)
    BY <1>3, ExecutedIsKnown DEF ReportsOK
  <1>6. /\ orders' \in [Orders -> OrderRow] /\ published' \in [Orders -> Snapshot]
        /\ conflicts' \subseteq Orders
        /\ ReportsOK' /\ WireOK' /\ NewestStatePublished' /\ ConflictsAreReal'
        /\ (\A u \in Orders : RowOK(u))'
        /\ \A u \in Orders : /\ Exists(u) => Exists(u)'
                             /\ Acknowledged(u) => Acknowledged(u)'
        /\ ~Conflict(orders[o], r) => Acknowledged(o)' \/ exch[o].exec = 0
    BY <1>3, <1>4, <1>5, ApplyReportKeeps
  <1>7. PICK j \in Job : AfterApply(p) = j /\ j.pc # "post" /\ GoodJob(j)'
    <2>1. Exists(o)'
      BY <1>5, <1>6
    <2>2. QED
      BY <1>1, <1>2, <1>3, <1>4, <1>6, <2>1, AfterApplyIsGood
  <1>8. Goto(p, j)
    BY <1>7 DEF ApplyRestReport
  <1>9. TypeOK'
    BY <1>4, <1>6, <1>8 DEF TypeOK, Goto, exchange
  <1>10. Grows
    BY <1>4, <1>6 DEF Grows, TypeOK, Report, exchange
  <1>11. (\A q \in Procs : GoodJob(job[q]))'
    BY <1>4, <1>7, <1>8, <1>9, <1>10, JobsKept DEF exchange
  <1>12. OneSender'
    BY <1>7, <1>8 DEF OneSender, Goto, TypeOK
  <1>13. FillsOK' /\ ExecutionsCountedOnce'
    BY <1>4, <1>6 DEF FillsOK, ExecutionsCountedOnce, Executed, exchange, TypeOK, Trades
  <1>14. QED
    BY <1>6, <1>9, <1>11, <1>12, <1>13

-----------------------------------------------------------------------------
(* Fills and the position                                                   *)

\* ingest_fill counts an execution exactly when its event_key is new.
LEMMA IngestEffect ==
  ASSUME TypeOK, ExecutionsCountedOnce, UNCHANGED exch, NEW T \in SUBSET Trades,
         \A t \in T : t \in Executed(t[1]), IngestFills(T)
  PROVE  /\ fills' = fills \cup T /\ fills' \subseteq Trades
         /\ accounted' \in [Trades -> Nat]
         /\ ExecutionsCountedOnce'
  <1>1. fills' = fills \cup T /\ fills' \subseteq Trades
    BY DEF IngestFills, TypeOK
  <1>2. accounted' \in [Trades -> Nat]
    BY DEF IngestFills, TypeOK
  <1>3. \A t \in Trades : accounted[t] \in Nat
    BY DEF TypeOK
  <1>4. ASSUME NEW t \in Trades
        PROVE  /\ t \in fills' => t \in Executed(t[1])'
               /\ accounted'[t] <= 1
               /\ accounted'[t] = 1 => t \in fills'
    <2>1. t \in fills' => t \in Executed(t[1])'
      BY <1>1 DEF ExecutionsCountedOnce, Executed
    <2>2. accounted'[t] = IF t \in T \ fills THEN accounted[t] + 1 ELSE accounted[t]
      BY DEF IngestFills
    <2>3. t \notin fills => accounted[t] = 0
      BY <1>3 DEF ExecutionsCountedOnce
    <2>4. QED
      BY <1>1, <1>3, <2>1, <2>2, <2>3 DEF ExecutionsCountedOnce
  <1>5. QED
    BY <1>1, <1>2, <1>4 DEF ExecutionsCountedOnce

\* A step of one thread on the fills and the position only.
LEMMA FillsStep ==
  ASSUME IInv, NEW p \in Procs, NEW j \in Job, Goto(p, j), GoodJob(j)', j.pc # "post",
         UNCHANGED <<orders, processed, published, conflicts, exchange, graceOver, faults>>,
         fills \subseteq fills', fills' \subseteq Trades, accounted' \in [Trades -> Nat],
         ExecutionsCountedOnce', FillsOK'
  PROVE  IInv'
  <1> USE DEF IInv, exchange
  <1>1. TypeOK'
    BY DEF TypeOK, Goto
  <1>2. Grows
    BY DEF Grows, TypeOK, Report, Exists, Acknowledged
  <1>3. (\A q \in Procs : GoodJob(job[q]))'
    BY <1>1, <1>2, JobsKept
  <1>4. OneSender'
    BY DEF OneSender, Goto, TypeOK
  <1>5. ReportsOK' /\ WireOK' /\ ConflictsAreReal' /\ NewestStatePublished'
    BY DEF ReportsOK, WireOK, ConflictsAreReal, NewestStatePublished, OnExchange, Exists
  <1>6. (\A o \in Orders : RowOK(o))'
    BY DEF RowOK, OnExchange
  <1>7. QED
    BY <1>1, <1>3, <1>4, <1>5, <1>6

\* A thread ingests one execution of an order that is acknowledged.
LEMMA IngestFillKeeps ==
  ASSUME IInv, NEW p \in Procs, IngestFill(p)
  PROVE  IInv'
  <1> USE DEF IInv
  <1>1. PICK k \in Job : k = job[p]
    BY DEF TypeOK
  <1>2. k.pc = "fills" /\ k.o \in Orders /\ k.todo \subseteq Trades
    BY <1>1 DEF IngestFill, Job
  <1>3. Acknowledged(k.o) /\ k.todo \subseteq Executed(k.o)
    BY <1>1, <1>2 DEF GoodJob
  <1>4. PICK t \in k.todo : /\ IngestFills({t})
                            /\ Goto(p, IF k.todo = {t} THEN Idle
                                       ELSE [k EXCEPT !.todo = @ \ {t}])
    BY <1>1 DEF IngestFill
  <1>5. t \in Trades /\ t[1] = k.o /\ t \in Executed(t[1])
    BY <1>2, <1>3 DEF Executed, TradesOf
  <1>6. /\ UNCHANGED <<orders, processed, published, conflicts, exchange, graceOver, faults>>
        /\ exch' = exch
    BY DEF IngestFill, exchange
  <1>7. PICK T \in SUBSET Trades : T = {t}
    BY <1>5
  <1>8. /\ fills' = fills \cup T /\ fills' \subseteq Trades
        /\ accounted' \in [Trades -> Nat] /\ ExecutionsCountedOnce'
    BY <1>4, <1>5, <1>6, <1>7, IngestEffect
  <1>9. FillsOK'
    BY <1>3, <1>5, <1>6, <1>7, <1>8 DEF FillsOK, Acknowledged
  <1>10. PICK j \in Job : Goto(p, j) /\ GoodJob(j)' /\ j.pc # "post"
    <2> DEFINE rest == [k EXCEPT !.todo = @ \ {t}]
    <2>1. rest \in Job /\ rest.pc = "fills" /\ rest.o = k.o /\ rest.todo = k.todo \ {t}
      BY <1>2 DEF Job
    <2>2. PICK j \in Job : j = rest
      BY <2>1
    <2>3. GoodJob(j)'
      BY <1>3, <1>6, <2>1, <2>2 DEF GoodJob, Acknowledged, Executed
    <2>4. QED
      BY <1>4, <2>1, <2>2, <2>3, IdleType, IdleIsGood
  <1>11. QED
    BY <1>6, <1>8, <1>9, <1>10, FillsStep

\* rebuild() saves the fold of the fills it read, perhaps fewer than there
\* are by now, but each counted once.
LEMMA RebuildSaveKeeps ==
  ASSUME IInv, NEW p \in Procs, RebuildSave(p)
  PROVE  IInv'
  <1> USE DEF IInv
  <1>1. PICK T \in SUBSET Trades : T = job[p].todo
    BY DEF TypeOK, Job
  <1>2. T \subseteq fills
    BY <1>1 DEF GoodJob, RebuildSave
  <1>3. accounted' = [t \in Trades |-> IF t \in T THEN 1 ELSE 0]
    BY <1>1 DEF RebuildSave
  <1>4. /\ UNCHANGED <<orders, processed, published, conflicts, exchange, graceOver, faults>>
        /\ exch' = exch /\ fills' = fills /\ Goto(p, Idle)
    BY DEF RebuildSave, exchange
  <1>5. ExecutionsCountedOnce'
    BY <1>2, <1>3, <1>4 DEF ExecutionsCountedOnce, Executed
  <1>6. FillsOK' /\ fills' \subseteq Trades
    BY <1>4 DEF FillsOK, Acknowledged, TypeOK
  <1>7. accounted' \in [Trades -> Nat]
    BY <1>3
  <1>8. QED
    BY <1>4, <1>5, <1>6, <1>7, IdleType, IdleIsGood, FillsStep

\* One stream event: report and execution in one transaction, or nothing.
LEMMA HandleStreamEventKeeps ==
  ASSUME IInv, NEW ev \in issued, HandleStreamEvent(ev)
  PROVE  IInv'
  <1> USE DEF IInv
  <1>1. PICK o \in Orders : o = ev.o
    BY DEF TypeOK, Report
  <1>2. /\ UNCHANGED exchange /\ UNCHANGED <<graceOver, job, faults>>
        /\ ApplyReport(o, ev) /\ Exists(o)
        /\ exch' = exch /\ wire' = wire /\ issued' = issued
    BY <1>1 DEF HandleStreamEvent, exchange
  <1>3. /\ orders' \in [Orders -> OrderRow] /\ published' \in [Orders -> Snapshot]
        /\ conflicts' \subseteq Orders
        /\ ReportsOK' /\ WireOK' /\ NewestStatePublished' /\ ConflictsAreReal'
        /\ (\A u \in Orders : RowOK(u))'
        /\ \A u \in Orders : /\ Exists(u) => Exists(u)'
                             /\ Acknowledged(u) => Acknowledged(u)'
        /\ ~Conflict(orders[o], ev) => Acknowledged(o)' \/ exch[o].exec = 0
    BY <1>1, <1>2, ApplyReportKeeps
  <1>4. /\ fills \subseteq fills' /\ fills' \subseteq Trades /\ accounted' \in [Trades -> Nat]
        /\ ExecutionsCountedOnce' /\ FillsOK' /\ processed' \subseteq issued
    <2>1. CASE Conflict(orders[o], ev)
      <3>1. UNCHANGED <<processed, fills, accounted>>
        BY <1>1, <2>1 DEF HandleStreamEvent
      <3>2. QED
        BY <1>2, <1>3, <3>1 DEF TypeOK, FillsOK, ExecutionsCountedOnce, Executed, Trades
    <2>2. CASE ~Conflict(orders[o], ev)
      <3>1. PICK T \in SUBSET Trades :
               T = IF ev.trade > 0 THEN {<<ev.o, ev.trade>>} ELSE {}
        <4>1. ev.o \in Orders /\ ev.trade \in 0..Qty
          BY DEF TypeOK, Report
        <4>2. ev.trade > 0 => ev.trade \in 1..Qty
          BY <4>1, QtyAssumption
        <4>3. ev.trade > 0 => <<ev.o, ev.trade>> \in Trades
          BY <4>1, <4>2 DEF Trades
        <4>4. QED
          BY <4>3
      <3>2. IngestFills(T) /\ processed' = processed \cup {ev}
        BY <1>1, <2>2, <3>1 DEF HandleStreamEvent
      <3>3. /\ ev.trade \in 0..Qty /\ ev.exec \in 0..Qty /\ exch[o].exec \in 0..Qty
            /\ ev.trade <= ev.exec /\ ev.exec <= exch[o].exec
        BY <1>1 DEF TypeOK, Report, ReportsOK
      <3>4. \A t \in T : t = <<o, ev.trade>> /\ ev.trade > 0
        BY <1>1, <3>1
      <3>5. \A t \in T : /\ t \in Executed(t[1]) /\ t[1] = o /\ exch[o].exec > 0
        <4>1. SUFFICES ASSUME NEW t \in T
                       PROVE  t \in Executed(t[1]) /\ t[1] = o /\ exch[o].exec > 0
          OBVIOUS
        <4>2. t[1] = o /\ t[2] = ev.trade /\ t \in Trades
          BY <3>4
        <4>3. t[2] <= exch[o].exec /\ exch[o].exec > 0
          BY <3>3, <3>4, <4>2, QtyAssumption
        <4>4. QED
          BY <4>2, <4>3 DEF Executed, TradesOf
      <3>6. /\ fills' = fills \cup T /\ fills' \subseteq Trades
            /\ accounted' \in [Trades -> Nat] /\ ExecutionsCountedOnce'
        BY <1>2, <3>2, <3>5, IngestEffect
      <3>7. \A t \in T : Acknowledged(t[1])'
        BY <1>3, <2>2, <3>3, <3>5
      <3>8. FillsOK'
        <4>1. \A u \in fills : u[1] \in Orders /\ Acknowledged(u[1])
          BY DEF FillsOK, TypeOK, Trades
        <4>2. \A u \in fills : Acknowledged(u[1])'
          BY <1>3, <4>1
        <4>3. QED
          BY <3>6, <3>7, <4>2 DEF FillsOK
      <3>9. QED
        BY <3>2, <3>6, <3>8 DEF TypeOK
    <2>3. QED
      BY <2>1, <2>2
  <1>5. TypeOK'
    BY <1>2, <1>3, <1>4 DEF TypeOK
  <1>6. Grows
    BY <1>2, <1>3, <1>4 DEF Grows, TypeOK, Report
  <1>7. (\A q \in Procs : GoodJob(job[q]))'
    BY <1>2, <1>5, <1>6, JobsUndisturbed
  <1>8. OneSender'
    BY <1>2 DEF OneSender
  <1>9. QED
    BY <1>3, <1>4, <1>5, <1>7, <1>8

-----------------------------------------------------------------------------
(* The inductive invariant                                                  *)

\* The empty ledger satisfies the invariant.
LEMMA InitIInv == Init => IInv
  <1> SUFFICES ASSUME Init PROVE IInv
    OBVIOUS
  <1> USE DEF Init
  <1>1. NoRow \in OrderRow /\ NoRow.status = "ABSENT" /\ NoRow.reason = "none"
        /\ NoRow.version = 0 /\ ~NoRow.eoid /\ NoRow.exec = 0
    BY NoRowType DEF NoRow
  <1>2. \A o \in Orders : /\ exch[o] = NoReport(o) /\ exch[o] \in Report
                          /\ exch[o].status = "ABSENT" /\ exch[o].exec = 0 /\ exch[o].o = o
    BY NoReportType DEF NoReport
  <1>3. SnapshotOf(NoRow) \in Snapshot
    BY <1>1 DEF SnapshotOf, Snapshot, OrderRow
  <1>4. TypeOK
    BY <1>1, <1>2, <1>3, IdleType, FaultAssumption DEF TypeOK
  <1>5. ReportsOK
    BY <1>2 DEF ReportsOK, OnExchange
  <1>6. WireOK
    BY <1>2 DEF WireOK, OnExchange
  <1>7. \A o \in Orders : RowOK(o)
    BY <1>1, <1>2 DEF RowOK
  <1>8. FillsOK /\ ExecutionsCountedOnce /\ ConflictsAreReal /\ NewestStatePublished
    BY DEF FillsOK, ExecutionsCountedOnce, ConflictsAreReal, NewestStatePublished
  <1>9. (\A p \in Procs : GoodJob(job[p])) /\ OneSender
    BY IdleType, IdleIsGood DEF OneSender
  <1>10. QED
    BY <1>4, <1>5, <1>6, <1>7, <1>8, <1>9 DEF IInv

\* Every step of every worker, the stream and the exchange preserves it.
LEMMA NextIInv == IInv /\ [Next]_vars => IInv'
  <1>1. ASSUME IInv, Next PROVE IInv'
    <2>1. ASSUME NEW o \in Orders, Exchange(o) \/ GraceExpires(o) PROVE IInv'
      BY <1>1, <2>1, ExchangeKeeps, GraceExpiresKeeps
    <2>2. ASSUME NEW p \in Traders, Trader(p) PROVE IInv'
      <3>1. p \in Procs
        BY DEF Procs
      <3>2. QED
        BY <1>1, <2>2, <3>1, StartKeeps, CancelKeeps, SubmitInsertKeeps, SendPostKeeps,
           SubmitOutcomeKeeps, MarkRejectedKeeps, MarkAmbiguousKeeps DEF Trader
    <2>3. ASSUME NEW p \in Reconcilers, Reconciler(p) PROVE IInv'
      <3>1. p \in Procs
        BY DEF Procs
      <3>2. QED
        BY <1>1, <2>3, <3>1, StartKeeps, RecentFillsKeeps, RebuildReadKeeps, RebuildSaveKeeps
           DEF Reconciler
    <2>4. ASSUME NEW p \in Procs, RestThread(p) \/ CallFails(p) \/ Crash(p) PROVE IInv'
      BY <1>1, <2>4, StartKeeps, QueryKeeps, ResolveNotFoundKeeps, ApplyRestReportKeeps,
         QueryFillsKeeps, IngestFillKeeps, GiveUpKeeps DEF RestThread
    <2>5. ASSUME NEW ev \in issued, HandleStreamEvent(ev) PROVE IInv'
      BY <1>1, <2>5, HandleStreamEventKeeps
    <2>6. QED
      BY <1>1, <2>1, <2>2, <2>3, <2>4, <2>5 DEF Next
  <1>2. ASSUME IInv, UNCHANGED vars PROVE IInv'
    <2>1. (\A q \in Procs : GoodJob(job[q]))'
      <3>1. TypeOK' /\ Grows /\ UNCHANGED job /\ wire' = wire
        BY <1>2 DEF vars, ledger, exchange, IInv, TypeOK, Grows, Report, Exists, Acknowledged
      <3>2. QED
        BY <1>2, <3>1, JobsUndisturbed DEF IInv
    <2>2. TypeOK' /\ ReportsOK' /\ WireOK' /\ FillsOK' /\ OneSender'
      BY <1>2 DEF vars, ledger, exchange, IInv, TypeOK, ReportsOK, WireOK, FillsOK, OneSender,
                  OnExchange, Exists, Acknowledged
    <2>3. (\A o \in Orders : RowOK(o))'
      BY <1>2 DEF vars, ledger, exchange, IInv, RowOK, OnExchange
    <2>4. ExecutionsCountedOnce' /\ ConflictsAreReal' /\ NewestStatePublished'
      BY <1>2 DEF vars, ledger, exchange, IInv, ExecutionsCountedOnce, ConflictsAreReal,
                  NewestStatePublished, Executed, OnExchange
    <2>5. QED
      BY <2>1, <2>2, <2>3, <2>4 DEF IInv
  <1>3. QED
    BY <1>1, <1>2

\* The inductive invariant: what ledger, exchange, wire and the threads'
\* local state say of each other, at every step of every worker.
THEOREM Invariant == Spec => []IInv
  BY InitIInv, NextIInv, PTL DEF Spec

\* Type correctness of the ledger, the exchange and the workers.
THEOREM TypeCorrect == Spec => []TypeOK
  <1>1. IInv => TypeOK
    BY DEF IInv
  <1>2. QED
    BY Invariant, <1>1, PTL

\* submit_intent: whatever crashes, retries and overlaps, an order is sent at
\* most once and only after it was persisted.
THEOREM SubmittedOnce == Spec => []OneSubmissionPerIntent
  <1>1. IInv => OneSubmissionPerIntent
    BY DEF IInv, WireOK, OneSubmissionPerIntent
  <1>2. QED
    BY Invariant, <1>1, PTL

\* ingest_fill and rebuild: an execution delivered by REST, stream, replay
\* and rebuild, in any order and number, is counted at most once.
THEOREM CountedOnce == Spec => []ExecutionsCountedOnce
  <1>1. IInv => ExecutionsCountedOnce
    BY DEF IInv
  <1>2. QED
    BY Invariant, <1>1, PTL

\* apply_report and mark_rejected: the ledger never runs ahead of the
\* exchange and its terminal orders are terminal there in the same way.
THEOREM AgreesWhenTerminal == Spec => []TerminalAgreement
  <1>1. IInv => TerminalAgreement
    <2> SUFFICES ASSUME IInv, NEW o \in Orders
                 PROVE  /\ orders[o].exec <= exch[o].exec
                        /\ IsTerminal(orders[o]) =>
                             CASE orders[o].reason = "not_found" ->
                                       /\ orders[o].exec = 0 /\ FillsOf(o) = {}
                                       /\ orders[o].eoid => exch[o].status = "REJECTED"
                               [] orders[o].eoid -> exch[o].status = orders[o].status
                               [] OTHER -> wire[o] = "refused"
      BY DEF TerminalAgreement
    <2>1. RowOK(o) /\ orders[o] \in OrderRow
      BY DEF IInv, TypeOK
    <2>2. orders[o].exec <= exch[o].exec
      BY <2>1 DEF RowOK
    <2>3. ASSUME IsTerminal(orders[o]), orders[o].reason = "not_found"
          PROVE  /\ orders[o].exec = 0 /\ FillsOf(o) = {}
                 /\ orders[o].eoid => exch[o].status = "REJECTED"
      BY <2>1, <2>3 DEF RowOK, FillsOf, IInv, FillsOK, Acknowledged, IsTerminal
    <2>4. ASSUME IsTerminal(orders[o]), orders[o].eoid
          PROVE  exch[o].status = orders[o].status
      BY <2>1, <2>4 DEF RowOK
    <2>5. ASSUME IsTerminal(orders[o]), orders[o].reason # "not_found", ~orders[o].eoid
          PROVE  wire[o] = "refused"
      BY <2>1, <2>5 DEF RowOK, IsTerminal, TERMINAL_STATUSES, OrderRow, RejectReason
    <2>6. QED
      BY <2>2, <2>3, <2>4, <2>5
  <1>2. QED
    BY Invariant, <1>1, PTL

\* apply_report raises a conflict only for an order the ledger wrote off and
\* the exchange has: stale and duplicated reports raise none.
THEOREM NoFalseAlarm == Spec => []ConflictsAreReal
  <1>1. IInv => ConflictsAreReal
    BY DEF IInv
  <1>2. QED
    BY Invariant, <1>1, PTL

-----------------------------------------------------------------------------
(* The action property OnlyForward                                          *)

\* What OnlyForward asks of one order.
Forward(o) ==
    Exists(o) =>
        /\ Exists(o)'
        /\ RANK[orders'[o].status] >= RANK[orders[o].status]
        /\ orders'[o].exec >= orders[o].exec
        /\ orders[o].eoid => orders'[o].eoid
        /\ IsTerminal(orders[o]) =>
              /\ orders'[o].status = orders[o].status
              /\ orders'[o].reason = orders[o].reason

\* A row no step touches.
LEMMA SameRowForward ==
  ASSUME IInv, NEW o \in Orders, orders'[o] = orders[o]
  PROVE  Forward(o)
  <1>1. orders[o] \in OrderRow
    BY DEF IInv, TypeOK
  <1>2. Exists(o) => RANK[orders[o].status] \in Int /\ orders[o].exec \in Int
    BY <1>1 DEF Exists, RANK, OrderRow, OrderStatus
  <1>3. QED
    BY <1>2 DEF Forward, Exists

\* save_order with a row that is ahead of the old one moves the table forward.
LEMMA SavedForward ==
  ASSUME IInv, NEW o \in Orders, NEW row \in OrderRow, row.version = orders[o].version,
         SaveOrder(o, row),
         Exists(o) => /\ row.status # "ABSENT"
                      /\ RANK[row.status] >= RANK[orders[o].status]
                      /\ row.exec >= orders[o].exec
                      /\ orders[o].eoid => row.eoid
                      /\ IsTerminal(orders[o]) => /\ row.status = orders[o].status
                                                  /\ row.reason = orders[o].reason
  PROVE  \A u \in Orders : Forward(u)
  <1>1. /\ orders'[o] = [row EXCEPT !.version = @ + 1]
        /\ \A u \in Orders : u # o => orders'[u] = orders[u]
    BY SaveOrderEffect DEF IInv
  <1>2. /\ orders'[o].status = row.status /\ orders'[o].reason = row.reason
        /\ orders'[o].eoid = row.eoid /\ orders'[o].exec = row.exec
    BY <1>1 DEF OrderRow
  <1>3. Forward(o)
    BY <1>2 DEF Forward, Exists
  <1>4. QED
    BY <1>1, <1>3, SameRowForward

\* apply_report moves a row forward or leaves it alone.
LEMMA ReportForward ==
  ASSUME IInv, NEW o \in Orders, Exists(o), NEW r \in issued, ApplyReport(o, r)
  PROVE  \A u \in Orders : Forward(u)
  <1>1. r \in Report /\ r.status \in ReportedStatus /\ orders[o] \in OrderRow
    BY DEF IInv, TypeOK, ReportsOK, Report
  <1>2. CASE UNCHANGED orders
    BY <1>2, SameRowForward
  <1>3. CASE SaveOrder(o, AfterReport(orders[o], r))
    <2>1. PICK row \in OrderRow : row = AfterReport(orders[o], r)
      BY <1>1, RowAfterReport DEF Exists, ReportedStatus, OrderStatus
    <2>2. /\ row.eoid /\ row.version = orders[o].version
          /\ row.exec = MaxOf(orders[o].exec, r.exec)
          /\ row.status = IF Advances(orders[o], r) THEN r.status ELSE orders[o].status
          /\ row.reason = IF Advances(orders[o], r) /\ r.status = "REJECTED"
                          THEN "exchange" ELSE orders[o].reason
      BY <1>1, <2>1 DEF AfterReport, OrderRow
    <2>3. row.exec >= orders[o].exec
      BY <1>1, <2>2 DEF MaxOf, OrderRow, Report
    <2>4. orders[o].status \in OrderStatus
      BY <1>1 DEF OrderRow, Exists
    <2>5. RANK[row.status] >= RANK[orders[o].status]
      <3>1. RANK[orders[o].status] \in Int /\ RANK[r.status] \in Int
        BY <1>1, <2>4 DEF RANK, OrderStatus, ReportedStatus
      <3>2. QED
        BY <2>2, <3>1 DEF Advances
    <2>6. IsTerminal(orders[o]) => ~Advances(orders[o], r)
      BY <2>4 DEF IsTerminal, Advances, CanTransition, ALLOWED_TRANSITIONS, OrderStatus,
                  TERMINAL_STATUSES
    <2>7. row.status # "ABSENT"
      BY <1>1, <2>2, <2>4 DEF ReportedStatus, OrderStatus
    <2>8. QED
      BY <1>3, <2>1, <2>2, <2>3, <2>5, <2>6, <2>7, SavedForward
  <1>4. QED
    BY <1>2, <1>3 DEF ApplyReport

\* mark_rejected moves a row forward or leaves it alone.
LEMMA RejectForward ==
  ASSUME IInv, NEW o \in Orders, Exists(o), NEW why \in RejectReason, RejectOrder(o, why)
  PROVE  \A u \in Orders : Forward(u)
  <1>1. orders[o] \in OrderRow /\ orders[o].status \in OrderStatus
    BY DEF IInv, TypeOK, OrderRow, Exists
  <1>2. CASE UNCHANGED orders
    BY <1>2, SameRowForward
  <1>3. CASE Rejectable(orders[o]) /\ SaveOrder(o, AfterRejection(orders[o], why))
    <2>1. PICK row \in OrderRow : row = AfterRejection(orders[o], why)
      BY <1>1, RowAfterRejection
    <2>2. /\ row.status = "REJECTED" /\ row.version = orders[o].version
          /\ row.eoid = orders[o].eoid /\ row.exec = orders[o].exec
          /\ orders[o].exec \in Int
      BY <1>1, <2>1 DEF AfterRejection, OrderRow
    <2>3. RANK["REJECTED"] >= RANK[orders[o].status]
      BY <1>1 DEF RANK, OrderStatus
    <2>4. row.exec >= orders[o].exec
      BY <2>2
    <2>5. QED
      BY <1>3, <2>1, <2>2, <2>3, <2>4, SavedForward DEF Rejectable
  <1>4. QED
    BY <1>2, <1>3 DEF RejectOrder

\* Every step moves the table forward.
LEMMA NextForward ==
  ASSUME IInv, Next
  PROVE  \A u \in Orders : Forward(u)
  <1> USE DEF IInv
  <1>1. CASE UNCHANGED orders
    BY <1>1, SameRowForward
  <1>2. ASSUME NEW p \in Procs, SubmitInsert(p)
        PROVE  \A u \in Orders : Forward(u)
    <2>1. PICK o \in Orders : o = job[p].o
      BY DEF TypeOK, Job
    <2>2. CASE Exists(o)
      BY <1>1, <1>2, <2>1, <2>2 DEF SubmitInsert
    <2>3. CASE ~Exists(o)
      <3>1. [NoRow EXCEPT !.status = "SUBMITTING"] \in OrderRow
        BY NoRowType DEF OrderRow, OrderStatus
      <3>2. PICK row \in OrderRow : row = [NoRow EXCEPT !.status = "SUBMITTING"]
        BY <3>1
      <3>3. row.version = orders[o].version
        BY <2>3, <3>2 DEF RowOK, Exists, NoRow
      <3>4. SaveOrder(o, row)
        BY <1>2, <2>1, <2>3, <3>2 DEF SubmitInsert
      <3>5. QED
        BY <2>3, <3>3, <3>4, SavedForward
    <2>4. QED
      BY <2>2, <2>3
  <1>3. ASSUME NEW p \in Procs, MarkAmbiguous(p)
        PROVE  \A u \in Orders : Forward(u)
    <2>1. PICK o \in Orders : o = job[p].o
      BY DEF TypeOK, Job
    <2>2. orders[o] \in OrderRow /\ Exists(o)
      BY <1>3, <2>1 DEF TypeOK, GoodJob, MarkAmbiguous
    <2>3. PICK row \in OrderRow : row = [orders[o] EXCEPT !.ambiguous = TRUE]
      BY <2>2 DEF OrderRow
    <2>4. /\ row.status = orders[o].status /\ row.reason = orders[o].reason
          /\ row.version = orders[o].version /\ row.eoid = orders[o].eoid
          /\ row.exec = orders[o].exec /\ orders[o].exec \in Int
          /\ RANK[orders[o].status] \in Int
      BY <2>2, <2>3 DEF OrderRow, RANK, OrderStatus, Exists
    <2>5. SaveOrder(o, row)
      BY <1>3, <2>1, <2>3 DEF MarkAmbiguous
    <2>6. QED
      BY <2>2, <2>4, <2>5, SavedForward DEF Exists
  <1>4. ASSUME NEW p \in Procs, MarkRejected(p) \/ ResolveNotFound(p)
        PROVE  \A u \in Orders : Forward(u)
    <2>1. PICK o \in Orders : o = job[p].o
      BY DEF TypeOK, Job
    <2>2. Exists(o)
      BY <1>4, <2>1 DEF GoodJob, WireOK, MarkRejected, ResolveNotFound
    <2>3. UNCHANGED orders \/ RejectOrder(o, "exchange") \/ RejectOrder(o, "not_found")
      BY <1>4, <2>1 DEF MarkRejected, ResolveNotFound
    <2>4. "exchange" \in RejectReason /\ "not_found" \in RejectReason
      BY DEF RejectReason
    <2>5. QED
      BY <1>1, <2>2, <2>3, <2>4, RejectForward
  <1>5. ASSUME NEW p \in Procs, ApplyRestReport(p)
        PROVE  \A u \in Orders : Forward(u)
    <2>1. PICK o \in Orders : o = job[p].o
      BY DEF TypeOK, Job
    <2>2. PICK r \in issued : r = job[p].rep /\ r.o = o
      BY <1>5, <2>1 DEF GoodJob, ApplyRestReport
    <2>3. Exists(o)
      BY <2>2, ExecutedIsKnown DEF ReportsOK
    <2>4. QED
      BY <1>5, <2>1, <2>2, <2>3, ReportForward DEF ApplyRestReport
  <1>6. ASSUME NEW ev \in issued, HandleStreamEvent(ev)
        PROVE  \A u \in Orders : Forward(u)
    <2>1. ev.o \in Orders
      BY DEF TypeOK, Report
    <2>2. QED
      BY <1>6, <2>1, ReportForward DEF HandleStreamEvent
  <1>7. ASSUME NEW o \in Orders, Exchange(o) \/ GraceExpires(o) PROVE UNCHANGED orders
    BY <1>7 DEF Exchange, ExchangeAccept, ExchangeRefuse, ExchangeTrade, ExchangeExpire,
                GraceExpires, ledger
  <1>8. ASSUME NEW p \in Procs, NEW o \in Orders,
               \/ SubmitCheck(p, o) \/ Cancel(p, o) \/ StartSync(p, o)
               \/ VerifyTerminal(p, o) \/ RecentFills(p, o) \/ FillsIncomplete(p, o)
        PROVE  UNCHANGED orders
    BY <1>8 DEF SubmitCheck, Cancel, StartSync, VerifyTerminal, RecentFills, FillsIncomplete,
                ledger
  <1>9. ASSUME NEW p \in Procs,
               \/ SendPost(p) \/ SubmitOutcome(p) \/ RebuildRead(p) \/ RebuildSave(p)
               \/ QueryFound(p) \/ QueryMissing(p) \/ QueryFills(p) \/ IngestFill(p)
               \/ CallFails(p) \/ Crash(p)
        PROVE  UNCHANGED orders
    BY <1>9 DEF SendPost, SubmitOutcome, RebuildRead, RebuildSave, QueryFound, QueryMissing,
                QueryFills, IngestFill, CallFails, Crash, ledger
  <1>10. QED
    BY <1>1, <1>2, <1>3, <1>4, <1>5, <1>6, <1>7, <1>8, <1>9
       DEF Next, Trader, Reconciler, RestThread, Procs

\* apply_report, mark_rejected and save_order: no interleaving moves an order
\* backwards, shrinks its executed quantity or changes how it ended.
THEOREM MovesForward == Spec => OnlyForward
  <1>1. IInv /\ [Next]_vars => [\A o \in Orders : Forward(o)]_orders
    BY NextForward DEF vars, ledger
  <1>2. Spec => [][\A o \in Orders : Forward(o)]_orders
    BY Invariant, <1>1, PTL DEF Spec
  <1>3. QED
    BY <1>2 DEF OnlyForward, Forward
=============================================================================
