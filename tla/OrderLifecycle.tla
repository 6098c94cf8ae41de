--------------------------- MODULE OrderLifecycle ---------------------------
(***************************************************************************)
(* OrderService, StreamIngestionService and the order, fill, position and  *)
(* outbox tables of the Store, running against an exchange.                *)
(*                                                                         *)
(* Three kinds of actors share the SQLite ledger:                          *)
(*   - the trading worker (Traders) submits intents, refreshes in-flight   *)
(*     orders and cancels protective stops;                                *)
(*   - the reconciliation thread (Reconcilers) resolves, refreshes and     *)
(*     verifies orders, replays recent fills and rebuilds the position;    *)
(*   - the user-data stream handler applies one event per transaction.     *)
(* Store.transaction() is BEGIN IMMEDIATE, so one transaction is one step; *)
(* between two transactions, and around every REST call, anything may      *)
(* happen.  A worker may crash at any step (its local state is lost, the   *)
(* ledger and the exchange stay).                                          *)
(*                                                                         *)
(* The client order id is a hash of the client intent id, so one name      *)
(* stands for both.  An execution is one unit of quantity, <<o, k>>: the   *)
(* k-th trade of order o.  The position is represented by how often it     *)
(* accounts for each execution.                                            *)
(***************************************************************************)
EXTENDS OrderStateMachine, FiniteSets

CONSTANTS Orders,       \* client intent ids = client order ids
          Qty,          \* units each order asks for
          Traders,      \* trading worker processes
          Reconcilers,  \* reconciliation threads
          MaxFaults     \* bound on crashes and failed REST calls

ASSUME QtyAssumption == Qty \in Nat \ {0}
ASSUME OrdersAssumption == Orders # {}
ASSUME FaultAssumption == MaxFaults \in Nat

VARIABLES orders,     \* orders table: one row per order ("ABSENT" = no row)
          fills,      \* fills table: the executions recorded (unique event_key)
          accounted,  \* positions row: how often it accounts for an execution
          processed,  \* processed_events table
          published,  \* outbox: the newest order snapshot enqueued per order
          conflicts,  \* orders with an ORDER_STATE_CONFLICT event enqueued
          exch,       \* the exchange's current report of each order
          issued,     \* every report the exchange ever produced
          wire,       \* the POST of each order, as it travels
          graceOver,  \* AMBIGUOUS_ORDER_GRACE_SECONDS passed since submitted_at
          job,        \* what each worker thread is doing
          faults      \* crashes and failed calls so far

ledger == <<orders, fills, accounted, processed, published, conflicts>>
exchange == <<exch, issued, wire>>
vars == <<ledger, exchange, graceOver, job, faults>>

Procs == Traders \cup Reconcilers
Trades == Orders \X (1..Qty)
TradesOf(o) == {t \in Trades : t[1] = o}

\* An executionReport / REST order: trade is the execution it carries, or 0.
Report == [o: Orders, status: ReportedStatus \cup {"ABSENT"}, exec: 0..Qty,
           upd: Nat, trade: 0..Qty]
OrderRow == [status: OrderStatus \cup {"ABSENT"}, eoid: BOOLEAN, exec: 0..Qty,
             reason: RejectReason, ambiguous: BOOLEAN, upd: Nat, version: Nat]
Snapshot == [version: Nat, status: OrderStatus \cup {"ABSENT"}, exec: 0..Qty]

NoRow == [status |-> "ABSENT", eoid |-> FALSE, exec |-> 0, reason |-> "none",
          ambiguous |-> FALSE, upd |-> 0, version |-> 0]
NoReport(o) == [o |-> o, status |-> "ABSENT", exec |-> 0, upd |-> 0, trade |-> 0]
SnapshotOf(row) == [version |-> row.version, status |-> row.status, exec |-> row.exec]

Exists(o) == orders[o].status # "ABSENT"
\* A query finds it, rather than raising OrderNotFound.
OnExchange(o) == exch[o].status # "ABSENT"
\* The executions a query of the account's trades returns.
Executed(o) == {t \in TradesOf(o) : t[2] <= exch[o].exec}
FillsOf(o) == {t \in fills : t[1] = o}

\* The steps of a worker thread:
\*   insert, post, await      submit_intent up to the executor's outcome
\*   reject, flag             its REJECTED and AMBIGUOUS branches
\*   query                    query_order (mode tells what follows)
\*   grace                    resolve_ambiguous after "not found"
\*   apply                    apply_report of job.rep
\*   trades                   query_fills of _ingest_order_fills
\*   fills                    ingest_fill of each execution in job.todo
\*   rebuild                  PositionService.rebuild between read and save
Step == {"idle", "insert", "post", "await", "reject", "flag", "query", "grace",
         "apply", "trades", "fills", "rebuild"}
Mode == {"none", "submit", "resolve", "refresh", "cancel", "verify", "recent"}
Job == [pc: Step, mode: Mode, o: Orders, rep: Report, todo: SUBSET Trades]

At(o, pc, mode) == [pc |-> pc, mode |-> mode, o |-> o, rep |-> NoReport(o), todo |-> {}]
Idle == At(CHOOSE o \in Orders : TRUE, "idle", "none")

TypeOK ==
    /\ orders \in [Orders -> OrderRow]
    /\ fills \subseteq Trades
    /\ accounted \in [Trades -> Nat]
    /\ issued \subseteq Report
    /\ processed \subseteq issued
    /\ published \in [Orders -> Snapshot]
    /\ conflicts \subseteq Orders
    /\ exch \in [Orders -> Report]
    /\ wire \in [Orders -> {"unsent", "sent", "accepted", "refused", "lost", "resent"}]
    /\ graceOver \in [Orders -> BOOLEAN]
    /\ job \in [Procs -> Job]
    /\ faults \in 0..MaxFaults

Init ==
    /\ orders = [o \in Orders |-> NoRow]
    /\ fills = {}
    /\ accounted = [t \in Trades |-> 0]
    /\ processed = {}
    /\ published = [o \in Orders |-> SnapshotOf(NoRow)]
    /\ conflicts = {}
    /\ exch = [o \in Orders |-> NoReport(o)]
    /\ issued = {}
    /\ wire = [o \in Orders |-> "unsent"]
    /\ graceOver = [o \in Orders |-> FALSE]
    /\ job = [p \in Procs |-> Idle]
    /\ faults = 0

-----------------------------------------------------------------------------
(* Store transactions                                                       *)

\* Store.save_order and OrderService._enqueue_order: the version grows by one
\* and a snapshot keyed by it is enqueued (INSERT OR IGNORE on the key).
SaveOrder(o, row) ==
    LET saved == [row EXCEPT !.version = @ + 1] IN
    /\ orders' = [orders EXCEPT ![o] = saved]
    /\ published' = [published EXCEPT
          ![o] = IF saved.version > @.version THEN SnapshotOf(saved) ELSE @]

\* OrderService.apply_report outside a caller's transaction.
ApplyReport(o, r) ==
    LET after == AfterReport(orders[o], r) IN
    \/ /\ Conflict(orders[o], r)
       /\ conflicts' = conflicts \cup {o}
       /\ UNCHANGED <<orders, published>>
    \/ /\ ~Conflict(orders[o], r)
       /\ after # orders[o]
       /\ SaveOrder(o, after)
       /\ UNCHANGED conflicts
    \/ /\ ~Conflict(orders[o], r)
       /\ after = orders[o]
       /\ UNCHANGED <<orders, published, conflicts>>

\* Variant with a bug: the position is updated even when the fill is known.
IngestFillsAgain(T) ==
    /\ fills' = fills \cup T
    /\ accounted' = [t \in Trades |-> IF t \in T THEN accounted[t] + 1 ELSE accounted[t]]

\* OrderService.ingest_fill: the unique event_key decides; a new fill is
\* inserted and applied to the position in the same transaction.
IngestFills(T) ==
    /\ fills' = fills \cup T
    /\ accounted' = [t \in Trades |->
                        IF t \in T \ fills THEN accounted[t] + 1 ELSE accounted[t]]

\* Order.mark_rejected followed by save_order, when it does not raise and
\* returns True; a raise and a False leave the row alone.
RejectOrder(o, why) ==
    \/ Rejectable(orders[o]) /\ SaveOrder(o, AfterRejection(orders[o], why))
    \/ ~Rejectable(orders[o]) /\ UNCHANGED <<orders, published>>

Goto(p, j) == job' = [job EXCEPT ![p] = j]
Fault == faults < MaxFaults /\ faults' = faults + 1

-----------------------------------------------------------------------------
(* The exchange (external): produces reports, may answer late or never.     *)

Live(o) == exch[o].status \in {"NEW", "PARTIALLY_FILLED"}

\* A report of the order as it is now, with the execution it carries, as
\* stream_event makes it of an executionReport.
Issue(o, status, exec, trade) ==
    LET r == [o |-> o, status |-> status, exec |-> exec,
              upd |-> exch[o].upd + 1, trade |-> trade]
    IN exch' = [exch EXCEPT ![o] = r] /\ issued' = issued \cup {r}

\* The POST arrives, however late, and the order is placed, or refused on
\* record (a REJECTED execution report).
ExchangeAccept(o) ==
    /\ wire[o] = "sent"
    /\ wire' = [wire EXCEPT ![o] = "accepted"]
    /\ \E status \in {"NEW", "REJECTED"} : Issue(o, status, 0, 0)
    /\ UNCHANGED <<ledger, graceOver, job, faults>>

\* An error that proves the order was not accepted (is_definitive_rejection).
\* Or the request is lost, which proves nothing to the caller.
ExchangeRefuse(o) ==
    /\ wire[o] = "sent"
    /\ \E w \in {"refused", "lost"} : wire' = [wire EXCEPT ![o] = w]
    /\ UNCHANGED <<ledger, exch, issued, graceOver, job, faults>>

ExchangeTrade(o) ==
    /\ Live(o)
    /\ exch[o].exec < Qty
    /\ LET k == exch[o].exec + 1 IN
       Issue(o, IF k = Qty THEN "FILLED" ELSE "PARTIALLY_FILLED", k, k)
    /\ UNCHANGED <<ledger, wire, graceOver, job, faults>>

ExchangeExpire(o) ==
    /\ Live(o)
    /\ Issue(o, "EXPIRED", exch[o].exec, 0)
    /\ UNCHANGED <<ledger, wire, graceOver, job, faults>>

-----------------------------------------------------------------------------
(* OrderService.submit_intent, run by the trading worker                    *)

\* get_order_by_intent: an intent that has an order is not resubmitted.
SubmitCheck(p, o) ==
    /\ job[p].pc = "idle"
    /\ Goto(p, IF Exists(o) THEN Idle ELSE At(o, "insert", "submit"))
    /\ UNCHANGED <<ledger, exchange, graceOver, faults>>

\* Variant with a bug: whether the unique insert succeeded is not looked at.
SubmitInsertUnchecked(p) ==
    LET o == job[p].o IN
    /\ job[p].pc = "insert"
    /\ SaveOrder(o, [NoRow EXCEPT !.status = "SUBMITTING"])
    /\ Goto(p, At(o, "post", "submit"))
    /\ UNCHANGED <<fills, accounted, processed, conflicts, exchange, graceOver, faults>>

\* insert_intent_and_order (unique client_intent_id), save_order, enqueue.
SubmitInsert(p) ==
    LET o == job[p].o IN
    /\ job[p].pc = "insert"
    /\ \/ /\ Exists(o)
          /\ Goto(p, Idle)
          /\ UNCHANGED <<orders, published>>
       \/ /\ ~Exists(o)
          /\ SaveOrder(o, [NoRow EXCEPT !.status = "SUBMITTING"])
          /\ Goto(p, At(o, "post", "submit"))
    /\ UNCHANGED <<fills, accounted, processed, conflicts, exchange, graceOver, faults>>

\* executor.submit sends the request.
SendPost(p) ==
    LET o == job[p].o IN
    /\ job[p].pc = "post"
    /\ wire' = [wire EXCEPT ![o] = IF @ = "unsent" THEN "sent" ELSE "resent"]
    /\ Goto(p, At(o, "await", "submit"))
    /\ UNCHANGED <<ledger, exch, issued, graceOver, faults>>

\* ACKNOWLEDGED: the response shows some state the order was in since it was
\* accepted.  REJECTED: a definitive rejection.  AMBIGUOUS: anything else.
SubmitOutcome(p) ==
    LET o == job[p].o IN
    /\ job[p].pc = "await"
    /\ \/ /\ wire[o] = "accepted"
          /\ \E r \in issued :
                /\ r.o = o
                /\ Goto(p, [At(o, "apply", "submit") EXCEPT !.rep = r])
          /\ UNCHANGED faults
       \/ /\ wire[o] = "refused"
          /\ Goto(p, At(o, "reject", "submit"))
          /\ UNCHANGED faults
       \/ /\ Goto(p, At(o, "flag", "submit"))
          /\ (wire[o] = "lost" /\ UNCHANGED faults) \/ Fault
    /\ UNCHANGED <<ledger, exchange, graceOver>>

MarkRejected(p) ==
    /\ job[p].pc = "reject"
    /\ RejectOrder(job[p].o, "exchange")
    /\ Goto(p, Idle)
    /\ UNCHANGED <<fills, accounted, processed, conflicts, exchange, graceOver, faults>>

\* submission_ambiguous is set, then resolve_ambiguous of the re-read row.
MarkAmbiguous(p) ==
    LET o == job[p].o IN
    /\ job[p].pc = "flag"
    /\ SaveOrder(o, [orders[o] EXCEPT !.ambiguous = TRUE])
    /\ Goto(p, IF IsTerminal(orders[o]) THEN Idle ELSE At(o, "query", "resolve"))
    /\ UNCHANGED <<fills, accounted, processed, conflicts, exchange, graceOver, faults>>

-----------------------------------------------------------------------------
(* Synchronising one order over REST                                        *)

\* Variant with a bug: only a flagged order is ever resolved.
SyncModeFlaggedOnly(p, row) == IF row.ambiguous THEN "resolve" ELSE "refresh"

\* A non-terminal order is picked up.  The trading cycle resolves what is
\* flagged ambiguous and refreshes the rest; reconciliation also resolves
\* what is still SUBMITTING.
SyncMode(p, row) ==
    IF row.ambiguous \/ (p \in Reconcilers /\ row.status = "SUBMITTING")
    THEN "resolve" ELSE "refresh"

\* Variant with a bug: an order that was acknowledged is not looked at again.
StartSyncUnacknowledged(p, o) ==
    /\ job[p].pc = "idle"
    /\ orders[o].status = "SUBMITTING"
    /\ Goto(p, At(o, "query", SyncMode(p, orders[o])))
    /\ UNCHANGED <<ledger, exchange, graceOver, faults>>

StartSync(p, o) ==
    /\ job[p].pc = "idle"
    /\ Exists(o) /\ ~IsTerminal(orders[o])
    /\ Goto(p, At(o, "query", SyncMode(p, orders[o])))
    /\ UNCHANGED <<ledger, exchange, graceOver, faults>>

\* Reconciliation re-queries recently terminal orders, except those it
\* rejected as not found.
VerifyTerminal(p, o) ==
    /\ job[p].pc = "idle"
    /\ Exists(o) /\ IsTerminal(orders[o])
    /\ orders[o].eoid
    /\ orders[o].reason # "not_found"
    /\ Goto(p, At(o, "query", "verify"))
    /\ UNCHANGED <<ledger, exchange, graceOver, faults>>

\* Reconciliation reads the recent executions of the account.  An execution
\* of an order without a local exchange id is looked up on the exchange.
RecentFills(p, o) ==
    /\ job[p].pc = "idle"
    /\ Executed(o) # {}
    /\ Goto(p, [At(o, IF orders[o].eoid THEN "fills" ELSE "query", "recent")
                    EXCEPT !.todo = Executed(o)])
    /\ UNCHANGED <<ledger, exchange, graceOver, faults>>

\* Reconciliation: the executed quantity is not explained by recorded fills.
FillsIncomplete(p, o) ==
    /\ job[p].pc = "idle"
    /\ Exists(o)
    /\ orders[o].exec > 0 /\ orders[o].status # "SUBMITTING"
    /\ Cardinality(FillsOf(o)) # orders[o].exec
    /\ Goto(p, At(o, "trades", "refresh"))
    /\ UNCHANGED <<ledger, exchange, graceOver, faults>>

\* verify applies the report only when it differs from the local row.
QueryFound(p) ==
    LET o == job[p].o
        same == exch[o].status = orders[o].status /\ exch[o].exec = orders[o].exec IN
    /\ job[p].pc = "query"
    /\ OnExchange(o)
    /\ Goto(p, IF job[p].mode = "verify" /\ same THEN Idle
               ELSE [job[p] EXCEPT !.pc = "apply", !.rep = exch[o]])
    /\ UNCHANGED <<ledger, exchange, graceOver, faults>>

QueryMissing(p) ==
    LET o == job[p].o IN
    /\ job[p].pc = "query"
    /\ ~OnExchange(o)
    /\ Goto(p, CASE job[p].mode = "resolve" -> At(o, "grace", "resolve")
                 [] job[p].mode = "refresh" -> At(o, "trades", "refresh")
                 [] OTHER -> Idle)
    /\ UNCHANGED <<ledger, exchange, graceOver, faults>>

\* The REST call of a step fails: the operation is given up.
CallFails(p) ==
    /\ job[p].pc \in {"query", "trades"}
    /\ Fault
    /\ Goto(p, Idle)
    /\ UNCHANGED <<ledger, exchange, graceOver>>

\* resolve_ambiguous: not on the exchange.  Inside the grace window the
\* order stays pending, after it the order is REJECTED (NOT_FOUND).
ResolveNotFound(p) ==
    /\ job[p].pc = "grace"
    /\ \/ graceOver[job[p].o] /\ RejectOrder(job[p].o, "not_found")
       \/ ~graceOver[job[p].o] /\ UNCHANGED <<orders, published>>
    /\ Goto(p, Idle)
    /\ UNCHANGED <<fills, accounted, processed, conflicts, exchange, graceOver, faults>>

\* What follows apply_report; a conflict is raised and ends the operation.
AfterApply(p) ==
    LET o == job[p].o
        response == {t \in TradesOf(o) : t[2] <= job[p].rep.exec}
        ingest(T) == IF T = {} THEN Idle
                     ELSE [At(o, "fills", job[p].mode) EXCEPT !.todo = T] IN
    IF Conflict(orders[o], job[p].rep) THEN Idle
    ELSE CASE job[p].mode = "submit" -> ingest(response)
           [] job[p].mode = "recent" -> ingest(job[p].todo)
           [] job[p].mode = "cancel" -> At(o, "query", "refresh")
           [] job[p].mode = "verify" -> Idle
           [] OTHER -> At(o, "trades", "refresh")

ApplyRestReport(p) ==
    /\ job[p].pc = "apply"
    /\ ApplyReport(job[p].o, job[p].rep)
    /\ Goto(p, AfterApply(p))
    /\ UNCHANGED <<fills, accounted, processed, exchange, graceOver, faults>>

\* _ingest_order_fills: nothing without an exchange id, else query_fills.
QueryFills(p) ==
    LET o == job[p].o IN
    /\ job[p].pc = "trades"
    /\ Goto(p, IF orders[o].eoid /\ Executed(o) # {}
               THEN [At(o, "fills", "refresh") EXCEPT !.todo = Executed(o)]
               ELSE Idle)
    /\ UNCHANGED <<ledger, exchange, graceOver, faults>>

\* One transaction per execution, oldest first.
IngestFill(p) ==
    /\ job[p].pc = "fills"
    /\ \E t \in job[p].todo :
          /\ \A u \in job[p].todo : t[2] <= u[2]
          /\ IngestFills({t})
          /\ Goto(p, IF job[p].todo = {t} THEN Idle
                     ELSE [job[p] EXCEPT !.todo = @ \ {t}])
    /\ UNCHANGED <<orders, processed, published, conflicts, exchange, graceOver, faults>>

\* OrderService.cancel: the exchange cancels and answers, cancels and the
\* answer is lost, or does not cancel; the order is refreshed in any case.
Cancel(p, o) ==
    /\ job[p].pc = "idle"
    /\ Exists(o) /\ ~IsTerminal(orders[o])
    /\ \/ /\ Live(o)
          /\ Issue(o, "CANCELED", exch[o].exec, 0)
          /\ \/ Goto(p, [At(o, "apply", "cancel") EXCEPT !.rep = exch'[o]])
                /\ UNCHANGED faults
             \/ Goto(p, At(o, "query", "refresh")) /\ Fault
       \/ /\ (~Live(o) /\ UNCHANGED faults) \/ (Live(o) /\ Fault)
          /\ Goto(p, At(o, "query", "refresh"))
          /\ UNCHANGED <<exch, issued>>
    /\ UNCHANGED <<ledger, wire, graceOver>>

-----------------------------------------------------------------------------
(* PositionService.rebuild: reads the fills, then saves, in no transaction. *)

RebuildRead(p) ==
    /\ job[p].pc = "idle"
    /\ Goto(p, [Idle EXCEPT !.pc = "rebuild", !.todo = fills])
    /\ UNCHANGED <<ledger, exchange, graceOver, faults>>

RebuildSave(p) ==
    /\ job[p].pc = "rebuild"
    /\ accounted' = [t \in Trades |-> IF t \in job[p].todo THEN 1 ELSE 0]
    /\ Goto(p, Idle)
    /\ UNCHANGED <<orders, fills, processed, published, conflicts, exchange,
                   graceOver, faults>>

-----------------------------------------------------------------------------
(* StreamIngestionService.handle: one transaction per event.  Events may be *)
(* delivered late, twice, out of order or never.  Only reports of orders    *)
(* the ledger has are events here: balances go to a key nothing reads, and  *)
(* orders that are foreign or unknown leave the ledger as it is.            *)

HandleStreamEvent(ev) ==
    /\ Exists(ev.o)
    /\ ev \notin processed
    /\ ApplyReport(ev.o, ev)
    /\ IF Conflict(orders[ev.o], ev)
       THEN UNCHANGED <<processed, fills, accounted>>       \* rolled back
       ELSE /\ processed' = processed \cup {ev}
            /\ IngestFills(IF ev.trade > 0 THEN {<<ev.o, ev.trade>>} ELSE {})
    /\ UNCHANGED <<exchange, graceOver, job, faults>>

-----------------------------------------------------------------------------
(* Time and crashes                                                         *)

GraceExpires(o) ==
    /\ Exists(o) /\ ~graceOver[o]
    /\ graceOver' = [graceOver EXCEPT ![o] = TRUE]
    /\ UNCHANGED <<ledger, exchange, job, faults>>

Crash(p) ==
    /\ job[p].pc # "idle"
    /\ Fault
    /\ Goto(p, Idle)
    /\ UNCHANGED <<ledger, exchange, graceOver>>

-----------------------------------------------------------------------------
Exchange(o) ==
    \/ ExchangeAccept(o) \/ ExchangeRefuse(o)
    \/ ExchangeTrade(o) \/ ExchangeExpire(o)

Trader(p) ==
    \/ \E o \in Orders : SubmitCheck(p, o) \/ Cancel(p, o)
    \/ SubmitInsert(p) \/ SendPost(p) \/ SubmitOutcome(p)
    \/ MarkRejected(p) \/ MarkAmbiguous(p)

Reconciler(p) ==
    \/ \E o \in Orders : VerifyTerminal(p, o) \/ RecentFills(p, o) \/ FillsIncomplete(p, o)
    \/ RebuildRead(p) \/ RebuildSave(p)

RestThread(p) ==
    \/ \E o \in Orders : StartSync(p, o)
    \/ QueryFound(p) \/ QueryMissing(p) \/ ResolveNotFound(p)
    \/ ApplyRestReport(p) \/ QueryFills(p) \/ IngestFill(p)

Next ==
    \/ \E o \in Orders : Exchange(o) \/ GraceExpires(o)
    \/ \E p \in Traders : Trader(p)
    \/ \E p \in Reconcilers : Reconciler(p)
    \/ \E p \in Procs : RestThread(p) \/ CallFails(p) \/ Crash(p)
    \/ \E ev \in issued : HandleStreamEvent(ev)

Spec == Init /\ [][Next]_vars

(* Fairness.  The reconciliation worker runs again and again (periodically  *)
(* and on every reconnect), so each of its operations is started over and   *)
(* over, and started operations go on.  Failed calls and crashes are        *)
(* bounded by MaxFaults, which stands for an exchange that is reachable     *)
(* often enough.  Nothing is assumed of the trading worker, of the stream,  *)
(* or of the exchange.                                                      *)
Proceeds(p) ==
    \/ QueryFound(p) \/ QueryMissing(p) \/ ResolveNotFound(p)
    \/ ApplyRestReport(p) \/ QueryFills(p) \/ IngestFill(p) \/ RebuildSave(p)

Fairness ==
    /\ \A o \in Orders : WF_vars(GraceExpires(o))
    /\ \A p \in Reconcilers :
          /\ WF_vars(Proceeds(p))
          /\ SF_vars(RebuildRead(p))
          /\ \A o \in Orders : /\ SF_vars(StartSync(p, o))
                               /\ SF_vars(VerifyTerminal(p, o))
                               /\ SF_vars(RecentFills(p, o))
                               /\ SF_vars(FillsIncomplete(p, o))

FairSpec == Spec /\ Fairness

-----------------------------------------------------------------------------
(* Safety                                                                   *)

\* An order is sent to the exchange at most once, and only after it has been
\* persisted, whatever crashes, retries and overlapping workers do
\* (submit_intent: existing check, unique insert, SUBMITTING saved first).
OneSubmissionPerIntent ==
    \A o \in Orders : /\ wire[o] # "resent"
                      /\ wire[o] # "unsent" => Exists(o)

\* Every recorded fill is a real execution and the position accounts for a
\* fill at most once, although REST answers, stream events, replays and
\* rebuilds all deliver the same executions (ingest_fill, rebuild).
ExecutionsCountedOnce ==
    \A t \in Trades :
        /\ t \in fills => t \in Executed(t[1])
        /\ accounted[t] <= 1
        /\ accounted[t] = 1 => t \in fills

\* The ledger never runs ahead of the exchange, and a terminal order is
\* terminal in the same way there; an order it wrote off as not found holds
\* nothing of what the exchange may have done (apply_report, mark_rejected).
TerminalAgreement ==
    \A o \in Orders :
        /\ orders[o].exec <= exch[o].exec
        /\ IsTerminal(orders[o]) =>
              CASE orders[o].reason = "not_found" ->
                        /\ orders[o].exec = 0 /\ FillsOf(o) = {}
                        /\ orders[o].eoid => exch[o].status = "REJECTED"
                [] orders[o].eoid -> exch[o].status = orders[o].status
                [] OTHER -> wire[o] = "refused"

\* A conflict alert means the exchange holds an order the ledger wrote off;
\* late, duplicated or reordered reports alone never raise one
\* (Order.apply_report).
ConflictsAreReal ==
    \A o \in conflicts : orders[o].reason = "not_found" /\ OnExchange(o)

\* Status rank and executed quantity never decrease, a terminal status and
\* the reason of a rejection never change, an exchange id is never lost
\* (Order.apply_report, mark_rejected, with save_order by stale readers).
OnlyForward ==
    [][\A o \in Orders : Exists(o) =>
          /\ Exists(o)'
          /\ RANK[orders'[o].status] >= RANK[orders[o].status]
          /\ orders'[o].exec >= orders[o].exec
          /\ orders[o].eoid => orders'[o].eoid
          /\ IsTerminal(orders[o]) =>
                /\ orders'[o].status = orders[o].status
                /\ orders'[o].reason = orders[o].reason]_orders

\* A position is the fold of its fills (position_service.py: rebuild and
\* apply_fill "must always agree").
PositionIsFoldOfFills ==
    \A t \in Trades : accounted[t] = IF t \in fills THEN 1 ELSE 0

-----------------------------------------------------------------------------
(* The inductive invariant behind the safety properties                     *)

\* What every report the exchange issued says of the exchange now: orders
\* only grow, and a terminal report is the last word.
ReportsOK ==
    /\ \A r \in issued :
          /\ r.status # "ABSENT"
          /\ OnExchange(r.o)
          /\ r.exec <= exch[r.o].exec
          /\ r.trade <= r.exec
          /\ r.status = "REJECTED" => r.exec = 0
          /\ r.status \in TERMINAL_STATUSES => exch[r.o].status = r.status
    /\ \A o \in Orders :
          /\ exch[o].o = o
          /\ OnExchange(o) => exch[o] \in issued
          /\ ~OnExchange(o) => exch[o].exec = 0

\* An order is on the exchange only if its one POST was accepted.
WireOK ==
    \A o \in Orders : /\ wire[o] # "resent"
                      /\ wire[o] # "unsent" => Exists(o)
                      /\ OnExchange(o) => wire[o] = "accepted"

\* A row without an exchange id has nothing of the exchange in it; a row
\* with one agrees with the exchange.
RowOK(o) ==
    LET row == orders[o] IN
    /\ row.status # "INTENT_CREATED"
    /\ row.status = "ABSENT" => row.version = 0
    /\ row.status = "REJECTED" <=> row.reason # "none"
    /\ ~row.eoid => /\ row.exec = 0
                    /\ row.status \in {"ABSENT", "SUBMITTING", "REJECTED"}
    /\ row.eoid => /\ OnExchange(o)
                   /\ row.status \notin {"ABSENT", "SUBMITTING"}
                   /\ IsTerminal(row) => exch[o].status = row.status
    /\ row.reason = "not_found" => row.exec = 0
    /\ row.reason = "exchange" /\ ~row.eoid => wire[o] = "refused"
    /\ row.exec <= exch[o].exec

\* The ledger holds executions only of orders known to be on the exchange.
Acknowledged(o) == orders[o].eoid /\ orders[o].reason # "not_found"
FillsOK == \A t \in fills : Acknowledged(t[1])

\* What a worker thread knows when it takes its next step.
GoodJob(j) ==
    /\ j.pc = "post" => Exists(j.o) /\ wire[j.o] = "unsent"
    /\ j.pc \in {"await", "flag", "query", "grace"} => Exists(j.o)
    /\ j.pc = "reject" => wire[j.o] = "refused"
    /\ j.pc = "apply" => j.rep \in issued /\ j.rep.o = j.o
    /\ j.pc = "rebuild" => j.todo \subseteq fills
    /\ j.pc = "fills" => Acknowledged(j.o)
    /\ j.pc \in {"query", "apply", "fills"} => j.todo \subseteq Executed(j.o)

\* The newest snapshot in the outbox is the committed row (SaveOrder).
NewestStatePublished ==
    \A o \in Orders : published[o] = SnapshotOf(orders[o])

\* Only one thread is about to send the POST of an order.
OneSender ==
    \A p, q \in Procs : job[p].pc = "post" /\ job[q].pc = "post" /\ job[p].o = job[q].o
                            => p = q

IInv ==
    /\ TypeOK
    /\ ReportsOK
    /\ WireOK
    /\ \A o \in Orders : RowOK(o)
    /\ FillsOK
    /\ \A p \in Procs : GoodJob(job[p])
    /\ OneSender
    /\ ExecutionsCountedOnce
    /\ ConflictsAreReal
    /\ NewestStatePublished

-----------------------------------------------------------------------------
(* Liveness                                                                 *)

\* No order stays SUBMITTING forever: it is found on the exchange, or
\* rejected after the grace window (resolve_ambiguous).
SubmittingResolved ==
    \A o \in Orders : (orders[o].status = "SUBMITTING") ~> (orders[o].status # "SUBMITTING")

\* In the end the ledger agrees with the exchange on every order it did not
\* write off, holds all its executions, and the position accounts for
\* exactly the fills (reconciliation steps 2 to 7).
Converged ==
    /\ PositionIsFoldOfFills
    /\ \A o \in Orders :
          OnExchange(o) /\ orders[o].reason # "not_found" =>
              /\ orders[o].status = exch[o].status
              /\ orders[o].exec = exch[o].exec
              /\ FillsOf(o) = Executed(o)

LedgerConverges == <>[]Converged

\* ORDER_LIFECYCLE.md: if the exchange later reports an order that was
\* rejected as not found, it is a critical conflict.  Every reconciliation
\* run reads the open orders, so one that rests there is reported.
WrittenOffOrderFlagged ==
    \A o \in Orders :
        (orders[o].reason = "not_found" /\ Live(o)) ~> (o \in conflicts \/ ~Live(o))
=============================================================================
