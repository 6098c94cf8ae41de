---------------------------- MODULE ControlPlane ----------------------------
(***************************************************************************)
(* The row of the bot in Laravel (bot_instances), which operators and the  *)
(* engine write at the same time:                                          *)
(*   - dashboard and Telegram commands go through BotControlService, which *)
(*     audits every change in the transaction that makes it;               *)
(*   - heartbeats of both workers write status and reconciliation state;   *)
(*   - reconciliation runs, delivered late or out of order by the outbox,  *)
(*     write the reconciliation state.                                     *)
(*                                                                         *)
(* Every request loads the row first and writes later, and Eloquent writes *)
(* only the attributes that differ from what it loaded: what another       *)
(* request wrote in between may survive or be overwritten.  On the default *)
(* SQLite database a transaction is one step, or it fails as a whole.      *)
(***************************************************************************)
EXTENDS Integers, Sequences

CONSTANTS MaxCommands,  \* bound: operator commands
          Slots,        \* heartbeats that may be under way at a time
          MaxRuns,      \* bound: reconciliation runs recorded
          MaxChanges,   \* bound: changes of the engine's reconciliation state
          MaxFaults     \* bound: failed requests and repeated deliveries

ASSUME ControlAssumption ==
    /\ MaxCommands \in Nat /\ MaxRuns \in Nat /\ MaxChanges \in Nat /\ MaxFaults \in Nat

VARIABLES row,       \* bot_instances
          audit,     \* audit_logs
          command,   \* the commands operators gave
          cached,    \* tg_update:<id> cache keys
          handler,   \* the requests that carry commands
          beat,      \* heartbeat requests
          run,       \* reconciliation runs, in the outbox or in a request
          recon,     \* the reconciliation state in the engine store
          changes, faults

requests == <<handler, beat, run>>
engine == <<recon, changes>>
vars == <<row, audit, command, cached, requests, engine, faults>>

Command == 1..MaxCommands
Delivery == 1..2
Run == 1..MaxRuns
Telegram == {"pause", "resume", "emergency_stop"}
Dashboard == Telegram \cup {"clear_emergency_stop", "acknowledge"}
ReconState == {"HEALTHY", "HALTED"}
BotStatus == {"OFFLINE", "RUNNING", "PAUSED", "EMERGENCY_STOP"}

\* ack is the command that set reconciliation_ack_token (a fresh uuid).
Row == [enabled: BOOLEAN, emergency_stop: BOOLEAN, status: BotStatus,
        ack: 0..MaxCommands, recon: ReconState]
\* What an audit row keeps of it (FIELDS), less the status.
Fields(r) == [enabled |-> r.enabled, emergency_stop |-> r.emergency_stop, ack |-> r.ack]
Kept == [enabled: BOOLEAN, emergency_stop: BOOLEAN, ack: 0..MaxCommands]
Audit == [by: Command, before: Kept, after: Kept]

NewRow == [enabled |-> FALSE, emergency_stop |-> FALSE, status |-> "OFFLINE",
           ack |-> 0, recon |-> "HALTED"]
\* A request: "loaded" says that it holds a copy of the row, of which row
\* keeps what the request looks at.
Shown(r) == [enabled |-> r.enabled, emergency_stop |-> r.emergency_stop,
             status |-> r.status, recon |-> r.recon]
View == [enabled: BOOLEAN, emergency_stop: BOOLEAN, status: BotStatus, recon: ReconState]
Handler == [pc: {"none", "loaded", "failed", "done"}, row: Kept]
Beat == [pc: {"free", "sent", "loaded"}, recon: ReconState, row: View]
Record == [pc: {"none", "queued", "loaded", "known"}, recon: ReconState,
           row: [recon: ReconState]]
NoHandler == [pc |-> "none", row |-> Fields(NewRow)]
NoBeat == [pc |-> "free", recon |-> "HALTED", row |-> Shown(NewRow)]
NoRecord == [pc |-> "none", recon |-> "HALTED", row |-> [recon |-> "HALTED"]]

TypeOK ==
    /\ row \in Row
    /\ audit \in Seq(Audit)
    /\ command \in [Command -> [action: Dashboard \cup {"none"}, telegram: BOOLEAN]]
    /\ cached \subseteq Command
    /\ handler \in [Command \X Delivery -> Handler]
    /\ beat \in [Slots -> Beat]
    /\ run \in [Run -> Record]
    /\ recon \in ReconState
    /\ changes \in 0..MaxChanges /\ faults \in 0..MaxFaults

Init ==
    /\ row \in {NewRow, [NewRow EXCEPT !.enabled = TRUE, !.status = "RUNNING"]}
    /\ audit = << >>
    /\ command = [c \in Command |-> [action |-> "none", telegram |-> FALSE]]
    /\ cached = {}
    /\ handler = [h \in Command \X Delivery |-> NoHandler]
    /\ beat = [b \in Slots |-> NoBeat]
    /\ run = [r \in Run |-> NoRecord]
    /\ recon = "HALTED" /\ changes = 0 /\ faults = 0

Fault == faults < MaxFaults /\ faults' = faults + 1

\* Eloquent's update: of changed, what differs from the loaded copy.
Saved(loaded, changed) ==
    LET dirty == {f \in DOMAIN changed : f \in DOMAIN loaded => changed[f] # loaded[f]} IN
    [f \in DOMAIN row |-> IF f \in dirty THEN changed[f] ELSE row[f]]

-----------------------------------------------------------------------------
(* Operators                                                                 *)

\* Variant with a bug: the cache is written but not looked at.
NewUpdateAlways(c) == TRUE

\* Cache::add of the update_id, before anything is done; a dashboard request
\* has none.
NewUpdate(c) == c \notin cached

\* The request of a command arrives and BotInstance::forName loads the row.
Receive(c, d) ==
    handler' = [handler EXCEPT ![<<c, d>>] = IF NewUpdate(c)
                                         THEN [pc |-> "loaded", row |-> Fields(row)]
                                         ELSE [NoHandler EXCEPT !.pc = "done"]]

\* An operator gives a command, on the dashboard or in Telegram, where the
\* stop cannot be cleared nor a halt acknowledged.
Give(c, action, telegram) ==
    /\ command[c].action = "none"
    /\ c > 1 => command[c - 1].action # "none"
    /\ telegram => action \in Telegram
    /\ command' = [command EXCEPT ![c] = [action |-> action, telegram |-> telegram]]
    /\ Receive(c, 1)
    /\ cached' = IF telegram THEN cached \cup {c} ELSE cached
    /\ UNCHANGED <<row, audit, beat, run, engine, faults>>

\* Telegram delivers an update again that got no answer; if it is a duplicate
\* it is answered at once.
Redeliver(c) ==
    /\ command[c].telegram
    /\ handler[<<c, 2>>].pc = "none"
    /\ (handler[<<c, 1>>].pc = "failed" /\ UNCHANGED faults) \/ Fault
    /\ Receive(c, 2)
    /\ UNCHANGED <<row, audit, command, cached, beat, run, engine>>

\* The attributes a command sets.
ChangesOf(c) ==
    CASE command[c].action = "pause" -> [enabled |-> FALSE, status |-> "PAUSED"]
      [] command[c].action = "resume" -> [enabled |-> TRUE, status |-> "RUNNING"]
      [] command[c].action = "emergency_stop" ->
            [enabled |-> FALSE, emergency_stop |-> TRUE, status |-> "EMERGENCY_STOP"]
      [] command[c].action = "clear_emergency_stop" ->
            [enabled |-> FALSE, emergency_stop |-> FALSE, status |-> "PAUSED"]
      [] command[c].action = "acknowledge" -> [ack |-> c]

\* The transaction of BotControlService.change: refresh, update, audit.
Change(c) ==
    /\ row' = Saved(row, ChangesOf(c))
    /\ audit' = Append(audit, [by |-> c, before |-> Fields(row), after |-> Fields(row')])

\* Variant with a bug: a resume does not look at the stop.
HandleUnchecked(c, d) ==
    /\ handler[<<c, d>>].pc = "loaded"
    /\ handler' = [handler EXCEPT ![<<c, d>>] = [NoHandler EXCEPT !.pc = "done"]]
    /\ Change(c)
    /\ UNCHANGED <<command, cached, beat, run, engine, faults>>

\* The handler.  resume is refused when the copy loaded before says stopped.
Handle(c, d) ==
    LET h == handler[<<c, d>>] IN
    /\ h.pc = "loaded"
    /\ handler' = [handler EXCEPT ![<<c, d>>] = [NoHandler EXCEPT !.pc = "done"]]
    /\ IF command[c].action = "resume" /\ h.row.emergency_stop
       THEN UNCHANGED <<row, audit>>
       ELSE Change(c)
    /\ UNCHANGED <<command, cached, beat, run, engine, faults>>

\* An error before the change: nothing is done, the answer is not OK.
HandlerFails(c, d) ==
    /\ handler[<<c, d>>].pc = "loaded"
    /\ Fault
    /\ handler' = [handler EXCEPT ![<<c, d>>] = [NoHandler EXCEPT !.pc = "failed"]]
    /\ UNCHANGED <<row, audit, command, cached, beat, run, engine>>

-----------------------------------------------------------------------------
(* The engine                                                                *)

\* The reconciliation service moves its state, and records its runs.  Which
\* run leads to which state is the subject of Reconciliation.
EngineChanges(s) ==
    /\ s # recon /\ changes < MaxChanges
    /\ recon' = s /\ changes' = changes + 1
    /\ UNCHANGED <<row, audit, command, cached, requests, faults>>

RecordRun(r, s) ==
    /\ run[r].pc = "none"
    /\ r > 1 => run[r - 1].pc # "none"
    /\ run' = [run EXCEPT ![r] = [NoRecord EXCEPT !.pc = "queued", !.recon = s]]
    /\ UNCHANGED <<row, audit, command, cached, handler, beat, engine, faults>>

\* A worker reads its health and sends it.  When it stops waiting, the request
\* may still be served.
Heartbeat(b) ==
    /\ beat[b].pc = "free"
    /\ beat' = [beat EXCEPT ![b] = [NoBeat EXCEPT !.pc = "sent", !.recon = recon]]
    /\ UNCHANGED <<row, audit, command, cached, handler, run, engine, faults>>

HeartbeatLost(b) ==
    /\ beat[b].pc # "free"
    /\ Fault
    /\ beat' = [beat EXCEPT ![b] = NoBeat]
    /\ UNCHANGED <<row, audit, command, cached, handler, run, engine>>

-----------------------------------------------------------------------------
(* The internal API                                                          *)

\* The middleware loads the row.
LoadBeat(b) ==
    /\ beat[b].pc = "sent"
    /\ beat' = [beat EXCEPT ![b].pc = "loaded", ![b].row = Shown(row)]
    /\ UNCHANGED <<row, audit, command, cached, handler, run, engine, faults>>

\* A worker always reports RUNNING; the switches of the loaded copy decide
\* what is shown instead.
StatusFor(r) ==
    IF r.emergency_stop THEN "EMERGENCY_STOP" ELSE IF r.enabled THEN "RUNNING" ELSE "PAUSED"

\* Variant with a bug: the reconciliation state is left to the runs.
SaveBeatStatusOnly(b) ==
    LET h == beat[b] IN
    /\ h.pc = "loaded"
    /\ row' = Saved(h.row, [status |-> StatusFor(h.row)])
    /\ beat' = [beat EXCEPT ![b] = NoBeat]
    /\ UNCHANGED <<audit, command, cached, handler, run, engine, faults>>

SaveBeat(b) ==
    LET h == beat[b] IN
    /\ h.pc = "loaded"
    /\ row' = Saved(h.row, [status |-> StatusFor(h.row), recon |-> h.recon])
    /\ beat' = [beat EXCEPT ![b] = NoBeat]
    /\ UNCHANGED <<audit, command, cached, handler, run, engine, faults>>

\* The outbox delivers the runs in any order.  Later deliveries of the same
\* run_key find it recorded and change nothing.
LoadRun(r) ==
    /\ run[r].pc = "queued"
    /\ run' = [run EXCEPT ![r].pc = "loaded", ![r].row.recon = row.recon]
    /\ UNCHANGED <<row, audit, command, cached, handler, beat, engine, faults>>

\* Variant with a bug: the verdict of a run is written as the bot's status.
SaveRunAsStatus(r) ==
    LET h == run[r] IN
    /\ h.pc = "loaded"
    /\ row' = Saved(h.row, [status |-> h.recon])
    /\ run' = [run EXCEPT ![r] = [NoRecord EXCEPT !.pc = "known"]]
    /\ UNCHANGED <<audit, command, cached, handler, beat, engine, faults>>

\* RecordReconciliationRun
SaveRun(r) ==
    LET h == run[r] IN
    /\ h.pc = "loaded"
    /\ row' = Saved(h.row, [recon |-> h.recon])
    /\ run' = [run EXCEPT ![r] = [NoRecord EXCEPT !.pc = "known"]]
    /\ UNCHANGED <<audit, command, cached, handler, beat, engine, faults>>

-----------------------------------------------------------------------------
Next ==
    \/ \E c \in Command : \/ \E a \in Dashboard, t \in BOOLEAN : Give(c, a, t)
                          \/ Redeliver(c)
                          \/ \E d \in Delivery : Handle(c, d) \/ HandlerFails(c, d)
    \/ \E s \in ReconState : EngineChanges(s) \/ \E r \in Run : RecordRun(r, s)
    \/ \E b \in Slots : Heartbeat(b) \/ HeartbeatLost(b) \/ LoadBeat(b) \/ SaveBeat(b)
    \/ \E r \in Run : LoadRun(r) \/ SaveRun(r)

Spec == Init /\ [][Next]_vars

\* The workers beat every HEARTBEAT_INTERVAL_SECONDS or poll, the outbox
\* delivers, and Laravel serves what it received.
Fairness ==
    /\ \A c \in Command, d \in Delivery : WF_vars(Handle(c, d))
    /\ \A b \in Slots : WF_vars(Heartbeat(b) \/ LoadBeat(b) \/ SaveBeat(b))
    /\ \A r \in Run : WF_vars(LoadRun(r) \/ SaveRun(r))

FairSpec == Spec /\ Fairness

-----------------------------------------------------------------------------
(* Properties                                                                *)

\* The audit log is the history of the switches and the acknowledgement
\* token, with no gap and no change beside it, although heartbeats and runs
\* write the same row from older copies; and no update of Telegram is in it
\* twice (BotControlService: "Every change is audited in the same
\* transaction").
AuditTrail ==
    /\ \A k \in 1..Len(audit) - 1 : audit[k].after = audit[k + 1].before
    /\ Len(audit) > 0 => audit[Len(audit)].after = Fields(row)
    /\ \A j, k \in 1..Len(audit) : audit[j].by = audit[k].by => j = k

\* The requests that carry a resume and found the stop not engaged.
Admitted == {h \in Command \X Delivery :
                /\ command[h[1]].action = "resume"
                /\ handler[h].pc = "loaded" /\ ~handler[h].row.emergency_stop}
Switch == INSTANCE OperatorSwitch WITH Requests <- Command \X Delivery,
                                       enabled <- row.enabled,
                                       emergency_stop <- row.emergency_stop,
                                       admitted <- Admitted

\* The row implements the abstract switches the trading cycle reads: the stop
\* holds until it is cleared, clearing leaves the bot paused, and the bot is
\* enabled beside an engaged stop only by a resume that was let in before the
\* stop, whatever heartbeats, runs and repeated deliveries write from older
\* copies (resume, change).
SwitchesFollowOperator == Switch!Spec

\* Whatever older copies and older runs were written last, the operator sees
\* the engine's reconciliation state and the status of his switches in the
\* end (heartbeat, RecordReconciliationRun).
UpToDate == row.recon = recon /\ row.status = StatusFor(row)
ShownConverges == <>[]UpToDate
=============================================================================
