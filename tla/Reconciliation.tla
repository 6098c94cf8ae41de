--------------------------- MODULE Reconciliation ---------------------------
(***************************************************************************)
(* The reconciliation worker: the user-data stream's lifecycle, the        *)
(* reconciliation runs, the periodic task, and the reconciliation_state    *)
(* row by which they open and close the trading gate.                      *)
(*                                                                         *)
(* The row has many writers, and each writes it by get_recon_state, a      *)
(* change, save_recon_state: a read and a write of the whole row, in two   *)
(* transactions.                                                           *)
(*   - The callbacks of the stream, the check after a run and the record   *)
(*     of an acknowledgement run on the event loop, one at a time (loop).  *)
(*   - ReconciliationService.run is a thread (run); asyncio.Lock lets one  *)
(*     in at a time, first come first served (lock, waiting).              *)
(*   - touch is another thread (touch), started by the periodic task.      *)
(* set_state decides by one read and saves upon another.  Of the row it     *)
(* read last only last_ack_token survives, which the event loop alone      *)
(* changes, so the two reads are one here.                                 *)
(* What a run compares is OrderLifecycle's business; here it only has a    *)
(* verdict.                                                                *)
(***************************************************************************)
EXTENDS Integers, Sequences

CONSTANTS MaxIncidents, \* bound on crashes, disconnects, stops, stream events,
                        \* bad verdicts, failed polls and store calls
          MaxAcks       \* bound on operator acknowledgements

ASSUME BoundsAssumption == MaxIncidents \in Nat /\ MaxAcks \in Nat

VARIABLES row,        \* reconciliation_state: status and last_ack_token
          fresh,      \* saved within RECON_STATE_MAX_AGE_SECONDS
          stream,     \* where BinanceUserDataStream.run_forever is
          connected,  \* ReconciliationWorker.connected
          stopping,   \* a stop signal arrived
          loop,       \* the event loop's write of the row
          run,        \* the thread of a reconciliation run
          touch,      \* the thread of a touch
          periodic,   \* where the periodic task is
          lock,       \* the task that holds the worker's lock
          waiting,    \* tasks waiting for it
          lastAck,    \* last_ack of the periodic task
          token,      \* reconciliation_ack_token in the control plane
          incidents,  \* incidents so far
          restored,   \* history: a touch wrote back HEALTHY while disconnected
          verified,   \* history: a run of this process was clean
          halted      \* history: a critical verdict nobody acknowledged yet

gate == <<row, fresh, restored>>
tasks == <<stream, connected, stopping, periodic, lock, waiting, lastAck>>
history == <<verified, halted>>
vars == <<gate, tasks, loop, run, touch, token, incidents, history>>

ReconciliationStatus == {"CONNECTING", "RECONCILING", "HEALTHY", "DEGRADED", "HALTED"}
Row == [status: ReconciliationStatus, ack: 0..MaxAcks]
NeverReconciled == [status |-> "CONNECTING", ack |-> 0]

\* A pending write: the operation, the status it sets ("keep" = as read), and
\* the row as read.
LoopOp == {"none", "start", "connecting", "disconnected", "subscribed", "event",
           "postcheck", "ack"}
Loop == [op: LoopOp, pc: {"idle", "read", "save"},
         status: ReconciliationStatus \cup {"keep"}, snap: Row]
IdleLoop == [op |-> "none", pc |-> "idle", status |-> "keep", snap |-> NeverReconciled]

Caller == {"stream", "event", "periodic", "ack"}
Run == [pc: {"idle", "begin", "mark", "compare", "read", "save", "done"},
        prev: ReconciliationStatus, result: ReconciliationStatus, snap: Row,
        ack: BOOLEAN, critical: BOOLEAN]
IdleRun == [pc |-> "idle", prev |-> "CONNECTING", result |-> "CONNECTING",
            snap |-> NeverReconciled, ack |-> FALSE, critical |-> FALSE]
Touch == [pc: {"idle", "read", "save"}, snap: Row]
IdleTouch == [pc |-> "idle", snap |-> NeverReconciled]

TypeOK ==
    /\ row \in Row /\ fresh \in BOOLEAN
    /\ stream \in {"off", "backoff", "connecting", "subscribed", "session", "exit"}
    /\ connected \in BOOLEAN /\ stopping \in BOOLEAN
    /\ loop \in Loop /\ run \in Run /\ touch \in Touch
    /\ periodic \in {"none", "sleep", "touch", "poll", "ack", "interval", "reconcile", "died"}
    /\ lock \in Caller \cup {"free"}
    /\ waiting \in Seq(Caller)
    /\ lastAck \in 0..MaxAcks /\ token \in 0..MaxAcks
    /\ incidents \in 0..MaxIncidents
    /\ restored \in BOOLEAN /\ verified \in BOOLEAN /\ halted \in BOOLEAN

Init ==
    /\ row = NeverReconciled /\ fresh = FALSE
    /\ stream = "off" /\ connected = FALSE /\ stopping = FALSE
    /\ loop = IdleLoop /\ run = IdleRun /\ touch = IdleTouch
    /\ periodic = "none" /\ lock = "free" /\ waiting = <<>>
    /\ lastAck = 0 /\ token = 0 /\ incidents = 0
    /\ restored = FALSE /\ verified = FALSE /\ halted = FALSE

Incident == incidents < MaxIncidents /\ incidents' = incidents + 1
\* The event loop runs a task's next piece: no other callback is in between.
LoopFree == loop.op = "none" /\ stream \notin {"off", "exit"}
SaveRow(r) == row' = r /\ fresh' = TRUE
Save(r) == SaveRow(r) /\ restored' = (restored /\ r.status = "HEALTHY")
Enqueue(c) == waiting' = IF \E i \in DOMAIN waiting : waiting[i] = c THEN waiting
                         ELSE Append(waiting, c)

Begin(op, status) ==
    loop' = [op |-> op, pc |-> "read", status |-> status, snap |-> NeverReconciled]

-----------------------------------------------------------------------------
(* The stream's callbacks: on_state, on_event                               *)

\* Variant with a bug: the state of the last process is taken over.
WorkerStartTrusting ==
    /\ stream = "off" /\ loop.op = "none"
    /\ Begin("start", "keep")
    /\ stopping' = FALSE
    /\ verified' = FALSE
    /\ UNCHANGED <<gate, stream, connected, periodic, lock, waiting, lastAck,
                   run, touch, token, incidents, halted>>

\* ReconciliationWorker.run: CONNECTING unless HALTED, then the tasks start.
WorkerStart ==
    /\ stream = "off" /\ loop.op = "none"
    /\ Begin("start", "CONNECTING")
    /\ stopping' = FALSE
    /\ verified' = FALSE
    /\ UNCHANGED <<gate, stream, connected, periodic, lock, waiting, lastAck,
                   run, touch, token, incidents, halted>>

\* run_forever: the next attempt, after the backoff.
Connect ==
    /\ LoopFree /\ stream = "backoff" /\ ~stopping
    /\ connected' = FALSE
    /\ Begin("connecting", "CONNECTING")
    /\ UNCHANGED <<gate, stream, stopping, periodic, lock, waiting, lastAck,
                   run, touch, token, incidents, history>>

Subscribed ==
    /\ LoopFree /\ stream = "connecting"
    /\ connected' = TRUE
    /\ Begin("subscribed", "keep")
    /\ UNCHANGED <<gate, stream, stopping, periodic, lock, waiting, lastAck,
                   run, touch, token, incidents, history>>

\* The session ends: refused, stale, closed, or stopped.
Disconnected ==
    /\ LoopFree
    /\ \/ stream \in {"connecting", "session"} /\ Incident
       \/ stream = "session" /\ stopping /\ UNCHANGED incidents
    /\ connected' = FALSE
    /\ Begin("disconnected", "DEGRADED")
    /\ UNCHANGED <<gate, stream, stopping, periodic, lock, waiting, lastAck,
                   run, touch, token, history>>

\* After the event was ingested: last_ws_event_at.
StreamEvent ==
    /\ LoopFree /\ stream \in {"subscribed", "session"}
    /\ Incident
    /\ Begin("event", "keep")
    /\ UNCHANGED <<gate, tasks, run, touch, token, history>>

\* What follows when the event loop's write is done.
AfterWrite ==
    \/ /\ loop.op = "start"
       /\ stream' = "backoff" /\ periodic' = "sleep" /\ lastAck' = row'.ack
       /\ UNCHANGED <<lock, waiting>>
    \/ /\ loop.op = "connecting"
       /\ stream' = "connecting" /\ UNCHANGED <<periodic, lock, waiting, lastAck>>
    \/ /\ loop.op = "subscribed"
       /\ stream' = "subscribed" /\ Enqueue("stream")
       /\ UNCHANGED <<periodic, lock, lastAck>>
    \/ /\ loop.op = "disconnected" /\ stopping          \* periodic.cancel()
       /\ stream' = "exit" /\ periodic' = "none"
       /\ lock' = "free" /\ waiting' = <<>> /\ UNCHANGED lastAck
    \/ /\ loop.op = "disconnected" /\ ~stopping
       /\ stream' = "backoff" /\ UNCHANGED <<periodic, lock, waiting, lastAck>>
    \/ /\ loop.op = "event"                             \* create_task(reconcile)
       /\ Enqueue("event") \/ UNCHANGED waiting
       /\ UNCHANGED <<stream, periodic, lock, lastAck>>

\* The row is read.  A halt stays: only a disconnect writes it again, the
\* other callbacks leave the row alone.
LoopRead ==
    /\ loop.pc = "read"
    /\ \/ /\ row.status # "HALTED" \/ loop.op \notin {"start", "connecting", "disconnected"}
          /\ loop' = [loop EXCEPT !.pc = "save", !.snap = row]
          /\ UNCHANGED <<stream, periodic, lock, waiting, lastAck, row>>
       \/ /\ row.status = "HALTED" /\ loop.op = "disconnected"
          /\ loop' = [loop EXCEPT !.pc = "save", !.status = "HALTED", !.snap = row]
          /\ UNCHANGED <<stream, periodic, lock, waiting, lastAck, row>>
       \/ /\ row.status = "HALTED" /\ loop.op \in {"start", "connecting"}
          /\ UNCHANGED row
          /\ loop' = IdleLoop
          /\ AfterWrite
    /\ UNCHANGED <<fresh, restored, connected, stopping, run, touch, token, incidents, history>>

LoopSave ==
    /\ loop.pc = "save" /\ loop.op \notin {"postcheck", "ack"}
    /\ Save([loop.snap EXCEPT !.status = IF loop.status = "keep" THEN @ ELSE loop.status])
    /\ loop' = IdleLoop
    /\ AfterWrite
    /\ UNCHANGED <<connected, stopping, run, touch, token, incidents, history>>

-----------------------------------------------------------------------------
(* ReconciliationService.run                                                *)

\* reconcile: the first task in the queue gets the lock and starts the thread.
StartRun ==
    /\ LoopFree /\ lock = "free" /\ waiting # <<>>
    /\ lock' = Head(waiting) /\ waiting' = Tail(waiting)
    /\ run' = [IdleRun EXCEPT !.pc = "begin", !.ack = (Head(waiting) = "ack")]
    /\ UNCHANGED <<gate, stream, connected, stopping, periodic, lastAck,
                   loop, touch, token, incidents, history>>

\* The state before the run, and the row set_state starts from.
RunBegin ==
    /\ run.pc = "begin"
    /\ run' = [run EXCEPT !.pc = "mark", !.prev = row.status, !.snap = row]
    /\ UNCHANGED <<gate, tasks, loop, touch, token, incidents, history>>

RunMark ==
    /\ run.pc = "mark"
    /\ Save([run.snap EXCEPT !.status = "RECONCILING"])
    /\ run' = [run EXCEPT !.pc = "compare", !.snap = NeverReconciled]
    /\ UNCHANGED <<tasks, loop, touch, token, incidents, history>>

\* Variant with a bug: a failed run leaves a status outside the enumeration.
ResultFailed(verdict) == IF verdict = "clean" THEN "HEALTHY" ELSE verdict

\* A critical verdict halts; a halt needs an acknowledged clean run.
Result(verdict) ==
    CASE verdict = "critical" -> "HALTED"
      [] verdict = "failed"   -> "DEGRADED"
      [] verdict = "pending"  -> "RECONCILING"
      [] verdict = "clean" /\ run.prev = "HALTED" /\ ~run.ack -> "HALTED"
      [] OTHER -> "HEALTHY"

\* The comparison with the exchange.  Anything but a clean verdict (nothing
\* critical, nothing ambiguous in its grace window, no call failed) is a fault.
RunCompare ==
    /\ run.pc = "compare"
    /\ \E verdict \in {"clean", "critical", "pending", "failed"} :
          /\ (verdict = "clean" /\ UNCHANGED incidents) \/ (verdict # "clean" /\ Incident)
          /\ run' = [IdleRun EXCEPT !.pc = "read", !.result = Result(verdict),
                                    !.critical = (verdict = "critical")]
    /\ UNCHANGED <<gate, tasks, loop, touch, token, history>>

RunRead ==
    /\ run.pc = "read"
    /\ run' = [run EXCEPT !.pc = "save", !.snap = row]
    /\ UNCHANGED <<gate, tasks, loop, touch, token, incidents, history>>

RunSave ==
    /\ run.pc = "save"
    /\ Save([run.snap EXCEPT !.status = run.result])
    /\ run' = [IdleRun EXCEPT !.pc = "done", !.result = run.result]
    /\ verified' = (verified \/ run.result = "HEALTHY")
    /\ halted' = (halted \/ run.critical)
    /\ UNCHANGED <<tasks, loop, touch, token, incidents>>

\* The caller of reconcile goes on when the lock is released.  An
\* acknowledgement is recorded at once, in the same step of the event loop.
Release ==
    /\ lock' = "free"
    /\ run' = IdleRun
    /\ stream' = IF lock = "stream" THEN "session" ELSE stream
    /\ periodic' = IF lock = "periodic" THEN "sleep" ELSE periodic

\* Variant with a bug: the stream is not looked at when the thread returns.
RunReturnUnchecked ==
    /\ LoopFree /\ run.pc = "done"
    /\ IF lock = "ack" THEN Begin("ack", "keep") ELSE UNCHANGED loop
    /\ Release
    /\ UNCHANGED <<gate, connected, stopping, waiting, lastAck, touch, token,
                   incidents, history>>

\* The thread returned.  When the stream dropped meanwhile, HEALTHY is undone.
RunReturn ==
    /\ LoopFree /\ run.pc = "done"
    /\ \/ /\ ~connected /\ run.result = "HEALTHY"
          /\ Begin("postcheck", "DEGRADED")
          /\ UNCHANGED <<lock, run, stream, periodic>>
       \/ /\ connected \/ run.result # "HEALTHY"
          /\ IF lock = "ack" THEN Begin("ack", "keep") ELSE UNCHANGED loop
          /\ Release
    /\ UNCHANGED <<gate, connected, stopping, waiting, lastAck, touch, token,
                   incidents, history>>

PostCheckSave ==
    /\ loop.pc = "save" /\ loop.op = "postcheck"
    /\ Save([loop.snap EXCEPT !.status = "DEGRADED"])
    /\ IF lock = "ack" THEN Begin("ack", "keep") ELSE loop' = IdleLoop
    /\ Release
    /\ UNCHANGED <<connected, stopping, waiting, lastAck, touch, token, incidents, history>>

\* Variant with a bug: the acknowledgement is not recorded.
AckSaveForgets ==
    /\ loop.pc = "save" /\ loop.op = "ack"
    /\ Save(loop.snap)
    /\ loop' = IdleLoop
    /\ periodic' = "interval"
    /\ UNCHANGED <<stream, connected, stopping, lock, waiting, lastAck, run, touch,
                   token, incidents, history>>

\* last_ack_token of the row.
AckSave ==
    /\ loop.pc = "save" /\ loop.op = "ack"
    /\ Save([loop.snap EXCEPT !.ack = lastAck])
    /\ loop' = IdleLoop
    /\ periodic' = "interval"
    /\ UNCHANGED <<stream, connected, stopping, lock, waiting, lastAck, run, touch,
                   token, incidents, history>>

-----------------------------------------------------------------------------
(* The periodic task                                                        *)

PeriodicWakes ==
    /\ LoopFree /\ periodic = "sleep"
    /\ periodic' = "touch"
    /\ touch' = [touch EXCEPT !.pc = "read"]
    /\ UNCHANGED <<gate, stream, connected, stopping, lock, waiting, lastAck,
                   loop, run, token, incidents, history>>

TouchRead ==
    /\ touch.pc = "read"
    /\ touch' = [pc |-> "save", snap |-> row]
    /\ UNCHANGED <<gate, tasks, loop, run, token, incidents, history>>

TouchSave ==
    /\ touch.pc = "save"
    /\ SaveRow(touch.snap)
    /\ restored' = (~connected /\ touch.snap.status = "HEALTHY")
    /\ touch' = IdleTouch
    /\ UNCHANGED <<tasks, loop, run, token, incidents, history>>

\* A store call of the periodic task raises: nothing catches it, the task ends.
PeriodicDies ==
    /\ touch.pc # "idle" /\ periodic = "touch"
    /\ Incident
    /\ touch' = IdleTouch
    /\ periodic' = "died"
    /\ UNCHANGED <<gate, stream, connected, stopping, lock, waiting, lastAck,
                   loop, run, token, history>>

\* Variant with a bug: the task does not wait for the touch to end.
TouchReturnsEarly ==
    /\ LoopFree /\ periodic = "touch"
    /\ periodic' = "poll"
    /\ UNCHANGED <<gate, stream, connected, stopping, lock, waiting, lastAck,
                   loop, run, touch, token, incidents, history>>

\* await to_thread(touch)
TouchReturns ==
    /\ LoopFree /\ periodic = "touch" /\ touch.pc = "idle"
    /\ periodic' = "poll"
    /\ UNCHANGED <<gate, stream, connected, stopping, lock, waiting, lastAck,
                   loop, run, touch, token, incidents, history>>

\* The control plane is polled.  A new token is remembered, then acted on.
PollAck ==
    /\ LoopFree /\ periodic = "poll"
    /\ token # 0 /\ token # lastAck
    /\ lastAck' = token
    /\ Enqueue("ack")
    /\ periodic' = "ack"
    /\ UNCHANGED <<gate, stream, connected, stopping, lock, loop, run, touch,
                   token, incidents, history>>

\* No new token, or the control plane does not answer.
PollNothing ==
    /\ LoopFree /\ periodic = "poll"
    /\ (token \in {0, lastAck} /\ UNCHANGED incidents) \/ Incident
    /\ periodic' = "interval"
    /\ UNCHANGED <<gate, stream, connected, stopping, lock, waiting, lastAck,
                   loop, run, touch, token, history>>

\* Variant with a bug: only a healthy state is checked again.
PeriodicReconcileHealthy ==
    /\ LoopFree /\ periodic = "interval"
    /\ connected /\ row.status = "HEALTHY"
    /\ Enqueue("periodic")
    /\ periodic' = "reconcile"
    /\ UNCHANGED <<gate, stream, connected, stopping, lock, lastAck, loop, run,
                   touch, token, incidents, history>>

\* Every RECONCILE_INTERVAL_SECONDS, while connected.
PeriodicReconcile ==
    /\ LoopFree /\ periodic = "interval"
    /\ connected
    /\ Enqueue("periodic")
    /\ periodic' = "reconcile"
    /\ UNCHANGED <<gate, stream, connected, stopping, lock, lastAck, loop, run,
                   touch, token, incidents, history>>

PeriodicSleeps ==
    /\ LoopFree /\ periodic = "interval"
    /\ periodic' = "sleep"
    /\ UNCHANGED <<gate, stream, connected, stopping, lock, waiting, lastAck,
                   loop, run, touch, token, incidents, history>>

-----------------------------------------------------------------------------
(* The operator, time, stops and crashes                                    *)

\* BotControlService.acknowledgeReconciliation: a new token.
Acknowledge ==
    /\ token < MaxAcks
    /\ token' = token + 1
    /\ halted' = FALSE
    /\ UNCHANGED <<gate, tasks, loop, run, touch, incidents, verified>>

Expire ==
    /\ fresh
    /\ fresh' = FALSE
    /\ UNCHANGED <<row, restored, tasks, loop, run, touch, token, incidents, history>>

\* SIGTERM sets an event that run_forever looks at.
Stop ==
    /\ stream \notin {"off", "exit"} /\ ~stopping
    /\ Incident
    /\ stopping' = TRUE
    /\ UNCHANGED <<gate, stream, connected, periodic, lock, waiting, lastAck,
                   loop, run, touch, token, history>>

\* Stopped while it slept between two attempts.
StopAsleep ==
    /\ LoopFree /\ stream = "backoff" /\ stopping
    /\ stream' = "exit" /\ periodic' = "none" /\ lock' = "free" /\ waiting' = <<>>
    /\ UNCHANGED <<gate, connected, stopping, lastAck, loop, run, touch, token,
                   incidents, history>>

\* The interpreter exits when its threads have ended.
Exit ==
    /\ stream = "exit"
    /\ run.pc \in {"idle", "done"} /\ touch.pc = "idle"
    /\ stream' = "off"
    /\ run' = IdleRun
    /\ UNCHANGED <<gate, connected, stopping, periodic, lock, waiting, lastAck,
                   loop, touch, token, incidents, history>>

Crash ==
    /\ stream # "off" \/ loop.op # "none"
    /\ Incident
    /\ stream' = "off" /\ connected' = FALSE /\ stopping' = FALSE
    /\ loop' = IdleLoop /\ run' = IdleRun /\ touch' = IdleTouch
    /\ periodic' = "none" /\ lock' = "free" /\ waiting' = <<>> /\ lastAck' = 0
    /\ UNCHANGED <<gate, token, history>>

-----------------------------------------------------------------------------
Streaming == WorkerStart \/ Connect \/ Subscribed
EventLoop == LoopRead \/ LoopSave \/ PostCheckSave \/ AckSave
RunThread == RunBegin \/ RunMark \/ RunCompare \/ RunRead \/ RunSave
TouchThread == TouchRead \/ TouchSave
PeriodicTask ==
    \/ PeriodicWakes \/ TouchReturns \/ PollAck \/ PollNothing
    \/ PeriodicReconcile \/ PeriodicSleeps

Next ==
    \/ Streaming \/ Disconnected \/ StreamEvent
    \/ EventLoop \/ StartRun \/ RunThread \/ RunReturn
    \/ TouchThread \/ PeriodicTask \/ PeriodicDies
    \/ Acknowledge \/ Expire \/ Stop \/ StopAsleep \/ Exit \/ Crash

Spec == Init /\ [][Next]_vars

\* The supervisor restarts the worker, its threads and tasks go on, the
\* periodic task polls and reconciles again and again, an unwatched row grows
\* old, and the operator acknowledges a halt (while tokens last).
Fairness ==
    /\ WF_vars(Streaming) /\ WF_vars(EventLoop) /\ WF_vars(RunThread) /\ WF_vars(TouchThread)
    /\ WF_vars(StartRun) /\ WF_vars(RunReturn)
    /\ WF_vars(PeriodicTask) /\ SF_vars(PeriodicReconcile)
    /\ WF_vars(StopAsleep \/ (stopping /\ Disconnected)) /\ WF_vars(Exit)
    /\ WF_vars(stream = "off" /\ Expire)
    /\ SF_vars(row.status = "HALTED" /\ Acknowledge)

FairSpec == Spec /\ Fairness

-----------------------------------------------------------------------------
(* Safety                                                                   *)

EntriesAllowed == row.status = "HEALTHY" /\ fresh     \* allows_entries

\* RUNBOOK: after a restart the worker re-verifies the exchange before
\* trading can resume.  No stale snapshot of an earlier life brings HEALTHY
\* back (ReconciliationWorker.run, and every writer of the row).
VerifiedSinceStart == stream \notin {"off", "exit"} /\ row.status = "HEALTHY" => verified

\* ORDER_LIFECYCLE: a lost stream blocks entries.  Once the callback has said
\* so, HEALTHY is not in the row until the stream is back, whatever a run that
\* was under way concludes: it is taken back when the run returns (reconcile).
\* One writer breaks the promise and is exempt here: a touch that read HEALTHY
\* before the disconnect saves it afterwards (restored).
Blocked ==
    /\ ~connected /\ stream \notin {"off", "exit"}
    /\ loop.op \notin {"connecting", "disconnected", "postcheck"}
    /\ ~(run.pc = "done" /\ run.result = "HEALTHY")
BlockedWhileDisconnected == Blocked => row.status # "HEALTHY" \/ restored

\* The recorded acknowledgement never goes back, although five writers save
\* the whole row from earlier reads (_periodic, on_event, touch, set_state).
AckNeverForgotten == [][row'.ack >= row.ack]_row

\* CHANGELOG: HALTED is sticky and requires an operator acknowledgement.
StickyHalt == halted => row.status # "HEALTHY"

-----------------------------------------------------------------------------
(* Liveness                                                                 *)

\* Trading is allowed again and again: no interleaving of disconnects, bad
\* verdicts, stops, crashes and acknowledgements leaves the gate shut for
\* good, while the operator still acknowledges a halt and no store call ended
\* the periodic task.
Recovers ==
    []<>(EntriesAllowed \/ (row.status = "HALTED" /\ token = MaxAcks) \/ periodic = "died")

\* RUNBOOK: acknowledging makes the engine re-run reconciliation.  It does,
\* over crashes, stops and lost polls, unless a store error in touch ended
\* the periodic task, which nothing but a restart brings back.
AckHonouredWhilePolling ==
    \A k \in 1..MaxAcks :
        (token = k) ~> (row.ack = k \/ token # k \/ periodic = "died")
=============================================================================
