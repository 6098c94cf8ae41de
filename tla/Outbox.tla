------------------------------- MODULE Outbox -------------------------------
(***************************************************************************)
(* The transactional outbox: rows enqueued by the engine, the dispatchers  *)
(* of the two workers that deliver them under a lease, and the Laravel     *)
(* side that receives them (idempotency ledger, mirrors of orders, fills,  *)
(* signals, events and positions).                                         *)
(*                                                                         *)
(* A delivery is many steps: renew the lease, send, wait, mark.  Between   *)
(* any two of them the worker may crash, the answer may be lost, and the   *)
(* other worker may run.  A request that timed out at the engine may still *)
(* be executed by Laravel, then or later.                                  *)
(*                                                                         *)
(* Row i of kind "orders" is a snapshot of one order with version i (the   *)
(* engine enqueues a snapshot in the transaction that makes the version).  *)
(* A row of kind "positions" is a snapshot of one position; of its time,   *)
(* updated_at, only the second is kept, as Laravel does when it stores it. *)
(***************************************************************************)
EXTENDS Integers, FiniteSets

CONSTANTS Workers,      \* the processes that run a dispatcher
          Nobody,       \* no live lease
          Gone,         \* the owner of a live lease that crashed
          MaxRows,      \* bound on the rows enqueued
          Kinds,        \* kinds of rows the instance enqueues
          MaxAttempts,  \* OUTBOX_MAX_ATTEMPTS
          MaxFaults     \* bound on crashes, failed deliveries, outlived leases

ASSUME WorkersAssumption == Nobody \notin Workers /\ Gone \notin Workers /\ Gone # Nobody
ASSUME BoundsAssumption == MaxRows \in Nat /\ MaxAttempts \in Nat \ {0} /\ MaxFaults \in Nat
ASSUME KindsAssumption ==
    Kinds \subseteq {"orders", "fills", "signals", "events", "positions", "telegram"}

VARIABLES rows,      \* the outbox table
          lease,     \* the worker whose lease is live
          flush,     \* what each dispatcher is doing
          requests,  \* HTTP requests on their way to or inside Laravel
          recorded,  \* internal_api_requests: request ids with a stored answer
          mirror,    \* engine_version of the mirrored order
          mirrored,  \* rows of the tables of fills, signals and events
          shown,     \* the row whose snapshot the mirrored position shows, 0 = none
          alerts,    \* Telegram messages sent, per row
          faults,    \* crashes, failed deliveries and outlived leases so far
          outlived   \* history: a flush outlived LEASE_TTL_SECONDS

engine == <<rows, lease, flush>>
mirrors == <<mirror, mirrored, shown>>
laravel == <<requests, recorded, mirrors>>
trouble == <<faults, outlived>>
vars == <<engine, laravel, alerts, trouble>>

RowId == 1..MaxRows
\* Rows that Laravel inserts once and never changes.
InsertOnce == {"fills", "signals", "events"}
CP_KINDS == {"orders", "positions"} \cup InsertOnce

\* updated_at of a position's snapshot, of which the second is kept; other
\* rows have 0.
Second == 1..2

Row == [kind: Kinds \cup {"none"}, valid: BOOLEAN,
        status: {"ABSENT", "PENDING", "SENT", "DEAD"}, attempts: Nat, due: BOOLEAN,
        second: {0} \cup Second]
NoRow == [kind |-> "none", valid |-> TRUE, status |-> "ABSENT", attempts |-> 0, due |-> FALSE,
          second |-> 0]

\* A dispatcher: the rows of its flush as it read them, and the number of its
\* current request.
Taken == [id: RowId, attempts: Nat]
Flush == [pc: {"idle", "read", "renew", "send", "await", "mark", "fail", "reject"},
          batch: SUBSET Taken, n: 0..MaxFaults]
IdleFlush == [pc |-> "idle", batch |-> {}, n |-> 0]

Request == [id: RowId, by: Workers, n: 0..MaxFaults,
            stage: {"arrived", "checked", "applied", "answered", "refused"}]

TypeOK ==
    /\ rows \in [RowId -> Row]
    /\ lease \in Workers \cup {Nobody, Gone}
    /\ flush \in [Workers -> Flush]
    /\ requests \subseteq Request
    /\ recorded \subseteq RowId
    /\ mirror \in 0..MaxRows
    /\ mirrored \subseteq RowId
    /\ shown \in 0..MaxRows
    /\ alerts \in [RowId -> Nat]
    /\ faults \in 0..MaxFaults
    /\ outlived \in BOOLEAN

Init ==
    /\ rows = [i \in RowId |-> NoRow]
    /\ lease = Nobody
    /\ flush = [w \in Workers |-> IdleFlush]
    /\ requests = {}
    /\ recorded = {}
    /\ mirror = 0
    /\ mirrored = {}
    /\ shown = 0
    /\ alerts = [i \in RowId |-> 0]
    /\ faults = 0
    /\ outlived = FALSE

\* The row a dispatcher is at: ORDER BY id.
Current(w) == CHOOSE t \in flush[w].batch : \A u \in flush[w].batch : t.id <= u.id
Step(w, pc) == flush' = [flush EXCEPT ![w].pc = pc]
Stop(w) == flush' = [flush EXCEPT ![w] = IdleFlush]
\* On to the next row of the flush, if there is one.
Continue(w) ==
    LET rest == flush[w].batch \ {Current(w)} IN
    flush' = [flush EXCEPT ![w] = IF rest = {} THEN IdleFlush
                                  ELSE [@ EXCEPT !.pc = "renew", !.batch = rest]]
Fault == faults < MaxFaults /\ faults' = faults + 1 /\ UNCHANGED outlived

-----------------------------------------------------------------------------
(* Store                                                                    *)

\* enqueue: a new key, due at once.  Laravel will find the payload of a
\* control-plane row valid or not.  The rebuild of a reconciliation run saves
\* the position before the transaction that enqueues it, so a snapshot may be
\* older than that of an earlier row.
Enqueue(i, kind, valid, second) ==
    /\ rows[i].status = "ABSENT"
    /\ IF kind = "positions"
       THEN second # 0
       ELSE second = 0
    /\ kind = "telegram" => valid
    /\ \A j \in RowId : j < i => rows[j].status # "ABSENT"
    /\ rows' = [rows EXCEPT ![i] = [kind |-> kind, valid |-> valid, status |-> "PENDING",
                                    attempts |-> 0, due |-> TRUE, second |-> second]]
    /\ UNCHANGED <<lease, flush, laravel, alerts, trouble>>

\* Variant with a bug: whose the live lease is, is not looked at.
AcquireAnyLease(w) == lease' = w

\* acquire_lease: free, expired or ours already.
AcquireLease(w) == lease \in {Nobody, w} /\ lease' = w

\* A lease expires LEASE_TTL_SECONDS after its last renewal.  A flush that
\* renews before every delivery, each bounded by the HTTP timeout, keeps it;
\* a paused process or a slower delivery outlives it.
InUse == lease \in Workers /\ flush[lease].pc # "idle"
LeaseExpires ==
    /\ lease # Nobody
    /\ \/ ~InUse /\ UNCHANGED trouble
       \/ InUse /\ faults < MaxFaults /\ faults' = faults + 1 /\ outlived' = TRUE
    /\ lease' = Nobody
    /\ UNCHANGED <<rows, flush, laravel, alerts>>

\* next_attempt_at has come.
BackoffOver(i) ==
    /\ rows[i].status = "PENDING" /\ ~rows[i].due
    /\ rows' = [rows EXCEPT ![i].due = TRUE]
    /\ UNCHANGED <<lease, flush, laravel, alerts, trouble>>

\* mark_outbox_sent
MarkSent(i) == rows' = [rows EXCEPT ![i].status = "SENT"]

\* Variant with a bug: the last attempt is counted from the row as it is.
MarkFailedGivesUp(i, dead) ==
    rows' = [rows EXCEPT ![i].attempts = @ + 1, ![i].due = FALSE, ![i].status = "DEAD"]

\* mark_outbox_failed
MarkFailed(i, dead) ==
    rows' = [rows EXCEPT ![i].attempts = @ + 1, ![i].due = FALSE,
                         ![i].status = IF dead THEN "DEAD" ELSE "PENDING"]

-----------------------------------------------------------------------------
(* OutboxDispatcher.flush                                                   *)

StartFlush(w) ==
    /\ flush[w].pc = "idle"
    /\ AcquireLease(w)
    /\ Step(w, "read")
    /\ UNCHANGED <<rows, laravel, alerts, trouble>>

\* Variant with a bug: only rows that were never tried are selected.
ReadPendingUntried(w) ==
    LET due == {i \in RowId : rows[i].status = "PENDING" /\ rows[i].attempts = 0} IN
    /\ flush[w].pc = "read"
    /\ IF due = {} THEN Stop(w)
       ELSE flush' = [flush EXCEPT ![w].pc = "renew",
                         ![w].batch = {[id |-> i, attempts |-> 0] : i \in due}]
    /\ UNCHANGED <<rows, lease, laravel, alerts, trouble>>

\* pending_outbox: the rows that are pending and due, as they are now.
ReadPending(w) ==
    LET due == {i \in RowId : rows[i].status = "PENDING" /\ rows[i].due} IN
    /\ flush[w].pc = "read"
    /\ IF due = {} THEN Stop(w)
       ELSE flush' = [flush EXCEPT ![w].pc = "renew",
                         ![w].batch = {[id |-> i, attempts |-> rows[i].attempts] : i \in due}]
    /\ UNCHANGED <<rows, lease, laravel, alerts, trouble>>

Renew(w) ==
    /\ flush[w].pc = "renew"
    /\ \/ AcquireLease(w) /\ Step(w, "send")
       \/ lease \notin {Nobody, w} /\ Stop(w) /\ UNCHANGED lease
    /\ UNCHANGED <<rows, laravel, alerts, trouble>>

\* cp.post: the request leaves; the number tells it from earlier ones.
SendPost(w) ==
    LET i == Current(w).id IN
    /\ flush[w].pc = "send"
    /\ rows[i].kind \in CP_KINDS
    /\ requests' = requests \cup {[id |-> i, by |-> w, n |-> faults, stage |-> "arrived"]}
    /\ flush' = [flush EXCEPT ![w].pc = "await", ![w].n = faults]
    /\ UNCHANGED <<rows, lease, recorded, mirrors, alerts, trouble>>

Awaited(q) ==
    /\ flush[q.by].pc = "await"
    /\ Current(q.by).id = q.id
    /\ flush[q.by].n = q.n

\* The answer arrives: a success, or a permanent rejection (400, 409, 422).
Answered(w) ==
    \E q \in requests :
        /\ q.by = w /\ Awaited(q)
        /\ q.stage \in {"answered", "refused"}
        /\ requests' = requests \ {q}
        /\ Step(w, IF q.stage = "answered" THEN "mark" ELSE "reject")
        /\ UNCHANGED <<rows, lease, recorded, mirrors, alerts, trouble>>

\* Variant with a bug: an error is swallowed by the client.
PostFailsUnnoticed(w) ==
    /\ flush[w].pc = "await"
    /\ Fault
    /\ Step(w, "mark")
    /\ UNCHANGED <<rows, lease, laravel, alerts>>

\* Timeout, network error, 401 or 5xx.  The request may still be executed.
PostFails(w) ==
    /\ flush[w].pc = "await"
    /\ Fault
    /\ Step(w, "fail")
    /\ requests' = {q \in requests : ~(Awaited(q) /\ q.by = w /\ q.stage \in {"answered", "refused"})}
    /\ UNCHANGED <<rows, lease, recorded, mirrors, alerts>>

\* notifier.send: delivered, or an error with or without delivery.
SendTelegram(w) ==
    LET i == Current(w).id
        delivered == alerts' = [alerts EXCEPT ![i] = @ + 1] IN
    /\ flush[w].pc = "send"
    /\ rows[i].kind = "telegram"
    /\ \/ delivered /\ Step(w, "mark") /\ UNCHANGED trouble
       \/ (delivered \/ UNCHANGED alerts) /\ Step(w, "fail") /\ Fault
    /\ UNCHANGED <<rows, lease, laravel>>

\* mark_outbox_sent is inside the try: when it raises, the row is marked failed.
DeliveryMarked(w) ==
    /\ flush[w].pc = "mark"
    /\ \/ MarkSent(Current(w).id) /\ Continue(w) /\ UNCHANGED trouble
       \/ Step(w, "fail") /\ Fault /\ UNCHANGED rows
    /\ UNCHANGED <<lease, laravel, alerts>>

\* A failure backs the row off; a control-plane row ends the flush.
DeliveryFailed(w) ==
    LET t == Current(w) IN
    /\ flush[w].pc = "fail"
    /\ MarkFailed(t.id, t.attempts + 1 >= MaxAttempts)
    /\ IF rows[t.id].kind \in CP_KINDS THEN Stop(w) ELSE Continue(w)
    /\ UNCHANGED <<lease, laravel, alerts, trouble>>

\* ControlPlaneRejected: dead-lettered, the flush goes on.
DeliveryRejected(w) ==
    /\ flush[w].pc = "reject"
    /\ MarkFailed(Current(w).id, TRUE)
    /\ Continue(w)
    /\ UNCHANGED <<lease, laravel, alerts, trouble>>

\* The restarted process has a new owner id: its old lease must run out.
Crash(w) ==
    /\ flush[w].pc # "idle"
    /\ Fault
    /\ Stop(w)
    /\ lease' = IF lease = w THEN Gone ELSE lease
    /\ UNCHANGED <<rows, laravel, alerts>>

-----------------------------------------------------------------------------
(* Laravel                                                                  *)

\* Variant with a bug: any version overwrites the mirrored one.
RecordOrderAny(i) == mirror' = i /\ UNCHANGED <<mirrored, shown>>

\* Variant with a bug: the mirror counts deliveries instead of comparing.
RecordOrderCounting(i) == mirror' = mirror + 1 /\ UNCHANGED <<mirrored, shown>>

\* RecordOrder: only a newer engine version is applied.
RecordOrder(i) ==
    mirror' = (IF i > mirror THEN i ELSE mirror) /\ UNCHANGED <<mirrored, shown>>

\* Inserted unless its unique key is there: event_key of a fill,
\* client_signal_id of a signal, the request id of an event.
RecordOnce(i) == mirrored' = mirrored \cup {i} /\ UNCHANGED <<mirror, shown>>

\* RecordPosition: refused when the second stored with the snapshot shown is
\* later than the time of the new one.
ShownSecond == IF shown = 0 THEN 0 ELSE rows[shown].second
RecordPosition(i) ==
    /\ shown' = IF ShownSecond > rows[i].second THEN shown ELSE i
    /\ UNCHANGED <<mirror, mirrored>>

To(q, stage) == (requests \ {q}) \cup {[q EXCEPT !.stage = stage]}
\* An answer nobody waits for any more is dropped.
Reply(q, stage) == IF Awaited(q) THEN To(q, stage) ELSE requests \ {q}

\* EnsureIdempotentRequest: a stored answer is replayed.
Replay(q) ==
    /\ q.stage = "arrived" /\ q.id \in recorded
    /\ requests' = Reply(q, "answered")
    /\ UNCHANGED <<engine, recorded, mirrors, alerts, trouble>>

\* No stored answer: the request goes on to validation and execution.
PassOn(q) ==
    /\ q.stage = "arrived" /\ q.id \notin recorded
    /\ requests' = IF rows[q.id].valid THEN To(q, "checked") ELSE Reply(q, "refused")
    /\ UNCHANGED <<engine, recorded, mirrors, alerts, trouble>>

Execute(q) ==
    /\ q.stage = "checked"
    /\ \/ rows[q.id].kind = "orders" /\ RecordOrder(q.id)
       \/ rows[q.id].kind = "positions" /\ RecordPosition(q.id)
       \/ rows[q.id].kind \in InsertOnce /\ RecordOnce(q.id)
    /\ requests' = To(q, "applied")
    /\ UNCHANGED <<engine, recorded, alerts, trouble>>

\* The answer is stored (or was, by a concurrent duplicate) and returned.
StoreAnswer(q) ==
    /\ q.stage = "applied"
    /\ recorded' = recorded \cup {q.id}
    /\ requests' = Reply(q, "answered")
    /\ UNCHANGED <<engine, mirrors, alerts, trouble>>

\* bot:prune-internal-requests
Prune(i) ==
    /\ i \in recorded
    /\ recorded' = recorded \ {i}
    /\ UNCHANGED <<engine, requests, mirrors, alerts, trouble>>

-----------------------------------------------------------------------------
Serve(q) == Replay(q) \/ PassOn(q) \/ Execute(q) \/ StoreAnswer(q)

Dispatch(w) ==
    \/ StartFlush(w) \/ ReadPending(w) \/ Renew(w) \/ SendPost(w) \/ SendTelegram(w)
    \/ Answered(w) \/ DeliveryMarked(w) \/ DeliveryFailed(w) \/ DeliveryRejected(w)

Next ==
    \/ \E i \in RowId, kind \in Kinds, valid \in BOOLEAN, second \in {0} \cup Second :
          Enqueue(i, kind, valid, second)
    \/ \E i \in RowId : BackoffOver(i) \/ Prune(i)
    \/ LeaseExpires
    \/ \E w \in Workers : Dispatch(w) \/ PostFails(w) \/ Crash(w)
    \/ \E q \in requests : Serve(q)

Spec == Init /\ [][Next]_vars

\* Both workers flush once a second or every 15 s as long as they run, time
\* passes, and Laravel serves the request a worker waits for or it fails
\* (failures are bounded by MaxFaults).
Fairness ==
    /\ \A i \in RowId : WF_vars(BackoffOver(i))
    /\ WF_vars(lease = Gone /\ LeaseExpires)
    /\ \A w \in Workers : /\ WF_vars(Dispatch(w))
                          /\ WF_vars(\E q \in requests : q.by = w /\ Awaited(q) /\ Serve(q))

FairSpec == Spec /\ Fairness

-----------------------------------------------------------------------------
(* Safety                                                                   *)

Effect(i) ==
    \/ rows[i].kind = "orders" /\ mirror >= i
    \/ rows[i].kind \in InsertOnce /\ i \in mirrored
    \/ rows[i].kind = "positions" /\ ShownSecond >= rows[i].second
    \/ rows[i].kind = "telegram" /\ alerts[i] >= 1

\* A row is SENT only when its receiver has it: no crash, lost answer or
\* second worker turns an undelivered row into a sent one (flush).
SentMeansDelivered == \A i \in RowId : rows[i].status = "SENT" => Effect(i)

\* A row is given up only when Laravel can never accept it or after
\* OUTBOX_MAX_ATTEMPTS deliveries failed (flush, mark_outbox_failed).
GivenUpForAReason ==
    \A i \in RowId : rows[i].status = "DEAD" =>
        \/ rows[i].kind \in CP_KINDS /\ ~rows[i].valid
        \/ rows[i].attempts >= MaxAttempts

Delivering(w) == flush[w].pc \in {"send", "await", "mark", "fail", "reject"}

\* Until a flush outlives its lease, exactly one process delivers at a time
\* (OutboxDispatcher: acquire, renew before every delivery).
OneDeliverer ==
    ~outlived => \A v, w \in Workers : Delivering(v) /\ Delivering(w) => v = w

\* ... and a row that was sent stays sent: it is not taken up again.
SentIsFinal ==
    [][~outlived => \A i \in RowId : rows[i].status = "SENT" => rows'[i].status = "SENT"]_rows

\* The mirrored order implements the abstract mirror: it shows a published
\* version and never an older one than before (RecordOrder).
Published == {i \in RowId : rows[i].kind = "orders" /\ rows[i].valid}
Newest == IF Published = {} THEN 0 ELSE CHOOSE i \in Published : \A j \in Published : j <= i
Mirror == INSTANCE ControlPlaneMirror WITH newest <- Newest, mirror <- mirror
FollowsPublished == Mirror!Spec

-----------------------------------------------------------------------------
(* Liveness                                                                 *)

\* Every row is delivered or given up in the end, whatever crashes.
EveryRowSettles ==
    \A i \in RowId : (rows[i].status = "PENDING") ~> (rows[i].status \in {"SENT", "DEAD"})

\* ARCHITECTURE.md: the mirror converges after any outage that ends before a
\* row is given up: it shows the newest order version, and a snapshot of the
\* newest second for the position.
ShowsNewest ==
    /\ mirror = Newest
    /\ \A i \in RowId : rows[i].valid => ShownSecond >= rows[i].second
MirrorConverges == <>[]ShowsNewest
=============================================================================
