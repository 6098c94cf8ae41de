------------------------- MODULE OrderStateMachine -------------------------
(***************************************************************************)
(* The order state machine of engine/domain/models.py: the statuses, the   *)
(* table of forward transitions, the rank that makes stale reports         *)
(* harmless, and Order.apply_report / Order.mark_rejected as operators on  *)
(* an order row.                                                           *)
(*                                                                         *)
(* A row keeps the columns the properties tell apart.  The cumulative      *)
(* quote quantity follows the executed quantity (unit price) and           *)
(* acknowledged_at is set by the very transition that leaves SUBMITTING,   *)
(* so neither is a field of its own.                                       *)
(***************************************************************************)
EXTENDS Integers

OrderStatus == {"INTENT_CREATED", "SUBMITTING", "NEW", "PARTIALLY_FILLED",
                "FILLED", "CANCELED", "REJECTED", "EXPIRED"}

TERMINAL_STATUSES == {"FILLED", "CANCELED", "REJECTED", "EXPIRED"}

\* The statuses Binance can report (normalizer._STATUS maps onto these).
ReportedStatus == OrderStatus \ {"INTENT_CREATED", "SUBMITTING"}

ALLOWED_TRANSITIONS ==
    [s \in OrderStatus |->
        CASE s = "INTENT_CREATED"   -> {"SUBMITTING", "REJECTED"}
          [] s = "SUBMITTING"       -> {"NEW", "PARTIALLY_FILLED", "FILLED",
                                        "REJECTED", "CANCELED", "EXPIRED"}
          [] s = "NEW"              -> {"PARTIALLY_FILLED", "FILLED",
                                        "CANCELED", "EXPIRED"}
          [] s = "PARTIALLY_FILLED" -> {"FILLED", "CANCELED", "EXPIRED"}
          [] OTHER                  -> {}]

RANK == [s \in OrderStatus |->
            CASE s = "INTENT_CREATED"   -> 0
              [] s = "SUBMITTING"       -> 1
              [] s = "NEW"              -> 2
              [] s = "PARTIALLY_FILLED" -> 3
              [] OTHER                  -> 4]

CanTransition(s, t) == t \in ALLOWED_TRANSITIONS[s]

\* reject_reason: none, the exchange's own words, or NOT_FOUND_ON_EXCHANGE.
RejectReason == {"none", "exchange", "not_found"}

MaxOf(a, b) == IF a >= b THEN a ELSE b

IsTerminal(row) == row.status \in TERMINAL_STATUSES

-----------------------------------------------------------------------------
(* Order.apply_report.  A report r has the fields status, exec (cumulative  *)
(* executed quantity) and upd (update_time_ms).                             *)

\* Variants with a bug: any status differing from a terminal one is taken for
\* a contradiction; a written-off order is overwritten like any other.
ConflictIgnoringRank(row, r) == IsTerminal(row) /\ r.status # row.status
ConflictAmongTerminals(row, r) ==
    /\ IsTerminal(row) /\ row.reason # "not_found"
    /\ r.status # row.status
    /\ RANK[r.status] >= RANK[row.status]

\* The two raises of apply_report.  A raise discards the in-memory row.
Conflict(row, r) ==
    \/ /\ row.status = "REJECTED"
       /\ row.reason = "not_found"
       /\ r.status # "REJECTED"
    \/ /\ r.status # row.status
       /\ RANK[r.status] >= RANK[row.status]
       /\ IsTerminal(row)

\* The report moves the status: newer in rank, and an allowed transition.
Advances(row, r) ==
    /\ RANK[r.status] > RANK[row.status]
    /\ CanTransition(row.status, r.status)

\* Variants with a bug: the last report wins; the cumulative quantity is added.
AfterReportLastWins(row, r) ==
    [row EXCEPT !.eoid = TRUE, !.exec = r.exec, !.upd = r.upd,
                !.status = IF Advances(row, r) THEN r.status ELSE @]
AfterReportAdding(row, r) ==
    [row EXCEPT !.eoid = TRUE, !.exec = @ + r.exec, !.upd = MaxOf(@, r.upd),
                !.status = IF Advances(row, r) THEN r.status ELSE @]

\* The row after a report that raises nothing.
AfterReport(row, r) ==
    [row EXCEPT !.eoid   = TRUE,
                !.exec   = MaxOf(@, r.exec),
                !.status = IF Advances(row, r) THEN r.status ELSE @,
                !.reason = IF Advances(row, r) /\ r.status = "REJECTED"
                           THEN "exchange" ELSE @,
                !.upd    = MaxOf(@, r.upd)]

-----------------------------------------------------------------------------
(* Order.mark_rejected                                                      *)

\* mark_rejected returns FALSE on a terminal row and raises when the table
\* has no transition to REJECTED (a NEW or PARTIALLY_FILLED row).
Rejectable(row) == ~IsTerminal(row) /\ CanTransition(row.status, "REJECTED")

AfterRejection(row, why) == [row EXCEPT !.status = "REJECTED", !.reason = why]
=============================================================================
