------------------------- MODULE ControlPlaneProofs -------------------------
(***************************************************************************)
(* Proofs about ControlPlane, for every number of commands, heartbeats,    *)
(* runs and faults: the audit log is the history of the switches, and the  *)
(* row implements OperatorSwitch.                                          *)
(*                                                                         *)
(* The argument: a request writes only the fields it changes (SavedField), *)
(* heartbeats and runs change status and recon only (SavedByEngine), and a *)
(* command changes the row it refreshed and audits both sides of that one  *)
(* step (ChangeTypes).  That a command is audited once needs more than the *)
(* audit log: IInv ties audit rows to handlers that are done, and          *)
(* handlers to the cache that refuses a repeated update.                   *)
(***************************************************************************)
EXTENDS ControlPlane, SequenceTheorems, TLAPS

RowFields == {"enabled", "emergency_stop", "status", "ack", "recon"}

\* The columns of bot_instances that the model keeps.
LEMMA RowDomain == ASSUME row \in Row PROVE DOMAIN row = RowFields
  BY DEF Row, RowFields

\* What Eloquent's update writes to a column: the new value where it differs
\* from the loaded copy, nothing elsewhere.
LEMMA SavedField ==
  ASSUME NEW loaded, NEW changed, NEW f \in DOMAIN row
  PROVE  Saved(loaded, changed)[f] =
            IF f \in DOMAIN changed /\ (f \in DOMAIN loaded => changed[f] # loaded[f])
            THEN changed[f] ELSE row[f]
  BY DEF Saved

\* An update of well-typed attributes leaves a row, whatever copy it was
\* computed from.
LEMMA SavedRow ==
  ASSUME row \in Row, NEW loaded, NEW changed,
         \A f \in DOMAIN changed \cap RowFields :
            /\ f = "enabled" => changed[f] \in BOOLEAN
            /\ f = "emergency_stop" => changed[f] \in BOOLEAN
            /\ f = "status" => changed[f] \in BotStatus
            /\ f = "ack" => changed[f] \in 0..MaxCommands
            /\ f = "recon" => changed[f] \in ReconState
  PROVE  Saved(loaded, changed) \in Row
<1> DEFINE s == Saved(loaded, changed)
<1>1. DOMAIN row = RowFields
  BY RowDomain
<1>2. s = [f \in RowFields |-> s[f]]
  BY <1>1 DEF Saved
<1>3. \A f \in RowFields : s[f] = row[f] \/ (f \in DOMAIN changed /\ s[f] = changed[f])
  BY <1>1, SavedField
<1>4. /\ row.enabled \in BOOLEAN /\ row.emergency_stop \in BOOLEAN /\ row.status \in BotStatus
      /\ row.ack \in 0..MaxCommands /\ row.recon \in ReconState
  BY DEF Row
<1> HIDE DEF s
<1>5. /\ s.enabled \in BOOLEAN /\ s.emergency_stop \in BOOLEAN /\ s.status \in BotStatus
      /\ s.ack \in 0..MaxCommands /\ s.recon \in ReconState
  BY <1>3, <1>4 DEF RowFields
<1>6. s \in Row
  BY <1>2, <1>5 DEF Row, RowFields
<1> QED
  BY <1>6 DEF s

\* A heartbeat or a run, which sets status and recon only, leaves the audited
\* columns alone (HeartbeatController, RecordReconciliationRun).
LEMMA SavedByEngine ==
  ASSUME row \in Row, NEW loaded, NEW changed,
         DOMAIN changed \subseteq {"status", "recon"}
  PROVE  Fields(Saved(loaded, changed)) = Fields(row)
<1>1. \A f \in {"enabled", "emergency_stop", "ack"} : Saved(loaded, changed)[f] = row[f]
  BY RowDomain, SavedField DEF RowFields
<1> QED
  BY <1>1 DEF Fields

\* The attributes of every command are values of their columns.
LEMMA ChangesAreTyped ==
  ASSUME NEW c \in Command, command[c].action \in Dashboard, ControlAssumption
  PROVE  \A f \in DOMAIN ChangesOf(c) \cap RowFields :
            /\ f = "enabled" => ChangesOf(c)[f] \in BOOLEAN
            /\ f = "emergency_stop" => ChangesOf(c)[f] \in BOOLEAN
            /\ f = "status" => ChangesOf(c)[f] \in BotStatus
            /\ f = "ack" => ChangesOf(c)[f] \in 0..MaxCommands
            /\ f = "recon" => ChangesOf(c)[f] \in ReconState
<1>1. CASE command[c].action = "pause"
  <2>1. ChangesOf(c) = [enabled |-> FALSE, status |-> "PAUSED"]
    BY <1>1, Zenon DEF ChangesOf
  <2>2. DOMAIN ChangesOf(c) = {"enabled", "status"}
    BY <2>1
  <2>3. ChangesOf(c).enabled \in BOOLEAN /\ ChangesOf(c).status \in BotStatus
    BY <2>1 DEF BotStatus
  <2> QED
    BY <2>2, <2>3
<1>2. CASE command[c].action = "resume"
  <2>1. ChangesOf(c) = [enabled |-> TRUE, status |-> "RUNNING"]
    BY <1>2, Zenon DEF ChangesOf
  <2>2. DOMAIN ChangesOf(c) = {"enabled", "status"}
    BY <2>1
  <2>3. ChangesOf(c).enabled \in BOOLEAN /\ ChangesOf(c).status \in BotStatus
    BY <2>1 DEF BotStatus
  <2> QED
    BY <2>2, <2>3
<1>3. CASE command[c].action = "emergency_stop"
  <2>1. ChangesOf(c) = [enabled |-> FALSE, emergency_stop |-> TRUE, status |-> "EMERGENCY_STOP"]
    BY <1>3, Zenon DEF ChangesOf
  <2>2. DOMAIN ChangesOf(c) = {"enabled", "emergency_stop", "status"}
    BY <2>1
  <2>3. ChangesOf(c).enabled \in BOOLEAN /\ ChangesOf(c).emergency_stop \in BOOLEAN /\ ChangesOf(c).status \in BotStatus
    BY <2>1 DEF BotStatus
  <2> QED
    BY <2>2, <2>3
<1>4. CASE command[c].action = "clear_emergency_stop"
  <2>1. ChangesOf(c) = [enabled |-> FALSE, emergency_stop |-> FALSE, status |-> "PAUSED"]
    BY <1>4, Zenon DEF ChangesOf
  <2>2. DOMAIN ChangesOf(c) = {"enabled", "emergency_stop", "status"}
    BY <2>1
  <2>3. ChangesOf(c).enabled \in BOOLEAN /\ ChangesOf(c).emergency_stop \in BOOLEAN /\ ChangesOf(c).status \in BotStatus
    BY <2>1 DEF BotStatus
  <2> QED
    BY <2>2, <2>3
<1>5. CASE command[c].action = "acknowledge"
  <2>1. ChangesOf(c) = [ack |-> c]
    BY <1>5 DEF ChangesOf
  <2>2. c \in 0..MaxCommands
    BY DEF Command, ControlAssumption
  <2> QED
    BY <2>1, <2>2
<1> QED
  BY <1>1, <1>2, <1>3, <1>4, <1>5 DEF Dashboard, Telegram

-----------------------------------------------------------------------------
\* A command that was not given has no request.
Fresh ==
    \A c \in Command : command[c].action = "none" =>
        /\ ~command[c].telegram
        /\ \A d \in Delivery : handler[<<c, d>>].pc = "none"

\* The id of a Telegram command is in the cache from its first request on, so
\* its second never holds a row.
Deduplicated ==
    \A c \in Command : /\ command[c].telegram => c \in cached
                       /\ handler[<<c, 2>>].pc \in {"none", "done"}

\* A command is audited only by a first request that is done.
AuditedWhenDone ==
    \A k \in 1..Len(audit) : handler[<<audit[k].by, 1>>].pc = "done"

\* The inductive invariant.
IInv == TypeOK /\ Fresh /\ Deduplicated /\ AuditedWhenDone /\ AuditTrail

\* The idle requests, and the two ways a handler ends.
LEMMA NoRequests ==
  /\ NoHandler \in Handler /\ NoBeat \in Beat /\ NoRecord \in Record
  /\ NoHandler.pc = "none"
  /\ [NoHandler EXCEPT !.pc = "done"] \in Handler
  /\ [NoHandler EXCEPT !.pc = "failed"] \in Handler
<1>1. Fields(NewRow) \in Kept /\ Shown(NewRow) \in View
  BY ControlAssumption DEF Fields, NewRow, Kept, Shown, View, BotStatus, ReconState
<1>2. NoHandler \in Handler /\ NoHandler.pc = "none"
  BY <1>1 DEF NoHandler, Handler
<1>3. NoBeat \in Beat
  BY <1>1 DEF NoBeat, Beat, ReconState
<1>4. NoRecord \in Record
  BY DEF NoRecord, Record, ReconState
<1>5. [NoHandler EXCEPT !.pc = "done"] \in Handler /\ [NoHandler EXCEPT !.pc = "failed"] \in Handler
  BY <1>2 DEF Handler
<1> QED
  BY <1>2, <1>3, <1>4, <1>5

\* Every audit row names a command.
LEMMA AuditRows ==
  ASSUME TypeOK
  PROVE  Len(audit) \in Nat /\ \A k \in 1..Len(audit) : audit[k].by \in Command
<1>1. audit \in Seq(Audit)
  BY DEF TypeOK
<1>2. \A k \in 1..Len(audit) : audit[k] \in Audit
  BY <1>1, ElementOfSeq
<1>3. Len(audit) \in Nat
  BY <1>1, LenProperties
<1> QED
  BY <1>2, <1>3 DEF Audit

\* A fresh database satisfies the inductive invariant.
LEMMA InitIInv == Init => IInv
<1> SUFFICES ASSUME Init PROVE IInv
  OBVIOUS
<1>1. row \in Row
  <2>1. NewRow \in Row
    BY ControlAssumption DEF NewRow, Row, BotStatus, ReconState
  <2>2. [NewRow EXCEPT !.enabled = TRUE, !.status = "RUNNING"] \in Row
    BY <2>1 DEF Row, BotStatus
  <2> QED
    BY <2>1, <2>2 DEF Init
<1>2. TypeOK
  BY <1>1, NoRequests, ControlAssumption DEF Init, TypeOK, ReconState
<1>3. \A c \in Command : ~command[c].telegram
  BY DEF Init
<1>4. \A c \in Command, d \in {1, 2} : handler[<<c, d>>].pc = "none"
  BY NoRequests DEF Init, Delivery
<1>5. Delivery = {1, 2}
  BY DEF Delivery
<1>6. Fresh /\ Deduplicated
  BY <1>3, <1>4, <1>5 DEF Fresh, Deduplicated
<1>7. AuditedWhenDone /\ AuditTrail
  BY DEF Init, AuditedWhenDone, AuditTrail
<1> QED
  BY <1>2, <1>6, <1>7 DEF IInv

-----------------------------------------------------------------------------
\* Giving a command starts its first request and no other.
LEMMA GiveIInv ==
  ASSUME IInv, NEW c \in Command, NEW action \in Dashboard, NEW telegram \in BOOLEAN,
         Give(c, action, telegram)
  PROVE  IInv'
<1>1. /\ UNCHANGED <<row, audit, beat, run, recon, changes, faults>>
      /\ command[c].action = "none"
      /\ command' = [command EXCEPT ![c] = [action |-> action, telegram |-> telegram]]
      /\ cached' = IF telegram THEN cached \cup {c} ELSE cached
      /\ Receive(c, 1)
  BY DEF Give, engine
<1>2. Fields(row) \in Kept
  BY DEF IInv, TypeOK, Row, Fields, Kept
<1>3. PICK h \in Handler : /\ h.pc \in {"loaded", "done"}
                           /\ handler' = [handler EXCEPT ![<<c, 1>>] = h]
  <2>1. CASE NewUpdate(c)
    <3>1. [pc |-> "loaded", row |-> Fields(row)] \in Handler
      BY <1>2 DEF Handler
    <3> QED
      BY <1>1, <2>1, <3>1 DEF Receive
  <2>2. CASE ~NewUpdate(c)
    <3>1. [NoHandler EXCEPT !.pc = "done"] \in Handler
          /\ [NoHandler EXCEPT !.pc = "done"].pc = "done"
      BY NoRequests DEF Handler
    <3> QED
      BY <1>1, <2>2, <3>1 DEF Receive
  <2> QED
    BY <2>1, <2>2
<1>4. handler[<<c, 1>>].pc = "none" /\ handler[<<c, 2>>].pc = "none" /\ 1 \in Delivery /\ 2 \in Delivery
  BY <1>1 DEF IInv, Fresh, Delivery
<1>5. TypeOK'
  <2>1. command' \in [Command -> [action: Dashboard \cup {"none"}, telegram: BOOLEAN]]
    BY <1>1 DEF IInv, TypeOK
  <2>2. cached' \subseteq Command
    BY <1>1 DEF IInv, TypeOK
  <2>3. handler' \in [Command \X Delivery -> Handler]
    BY <1>3, <1>4 DEF IInv, TypeOK
  <2> QED
    BY <1>1, <2>1, <2>2, <2>3 DEF IInv, TypeOK
<1>6. action # "none"
  BY DEF Dashboard, Telegram
<1>7. command'[c].action # "none"
  BY <1>1, <1>6 DEF IInv, TypeOK
<1>8. \A e \in Command \ {c} : command'[e] = command[e]
                               /\ \A d \in Delivery : handler'[<<e, d>>] = handler[<<e, d>>]
  BY <1>1, <1>3 DEF IInv, TypeOK
<1>9. Fresh'
  BY <1>7, <1>8 DEF IInv, Fresh
<1>10. Deduplicated'
  <2>1. command'[c].telegram => c \in cached'
    BY <1>1 DEF IInv, TypeOK
  <2>2. handler'[<<c, 2>>] = handler[<<c, 2>>]
    BY <1>3, <1>4 DEF IInv, TypeOK
  <2>3. cached \subseteq cached'
    BY <1>1
  <2> QED
    BY <1>4, <1>8, <2>1, <2>2, <2>3 DEF IInv, Deduplicated
<1>11. AuditedWhenDone'
  <2>1. \A k \in 1..Len(audit) : audit[k].by \in Command
    BY AuditRows DEF IInv
  <2> QED
    BY <1>1, <1>4, <1>8, <2>1 DEF IInv, AuditedWhenDone
<1>12. AuditTrail'
  BY <1>1 DEF IInv, AuditTrail, Fields
<1> QED
  BY <1>5, <1>9, <1>10, <1>11, <1>12 DEF IInv

\* A repeated update finds its id in the cache and does nothing.
LEMMA RedeliverIInv ==
  ASSUME IInv, NEW c \in Command, Redeliver(c)
  PROVE  IInv'
<1>1. /\ UNCHANGED <<row, audit, command, cached, beat, run, recon, changes>>
      /\ command[c].telegram
      /\ Receive(c, 2)
  BY DEF Redeliver, engine
<1>2. faults' \in 0..MaxFaults
  BY ControlAssumption DEF Redeliver, Fault, IInv, TypeOK
<1>3. PICK h \in Handler : /\ h.pc = "done"
                           /\ handler' = [handler EXCEPT ![<<c, 2>>] = h]
  <2>1. ~NewUpdate(c)
    BY <1>1 DEF IInv, Deduplicated, NewUpdate
  <2>2. [NoHandler EXCEPT !.pc = "done"] \in Handler
        /\ [NoHandler EXCEPT !.pc = "done"].pc = "done"
    BY NoRequests DEF Handler
  <2> QED
    BY <1>1, <2>1, <2>2 DEF Receive
<1>4. command[c].action # "none" /\ 1 \in Delivery /\ 2 \in Delivery
  <2>1. command[c].action # "none"
    BY <1>1, Zenon DEF IInv, Fresh
  <2> QED
    BY <2>1 DEF Delivery
<1>5. handler' \in [Command \X Delivery -> Handler]
  BY <1>3, <1>4 DEF IInv, TypeOK
<1>6. TypeOK'
  BY <1>1, <1>2, <1>5 DEF IInv, TypeOK
<1>7. \A e \in Command, d \in Delivery :
         <<e, d>> # <<c, 2>> => handler'[<<e, d>>] = handler[<<e, d>>]
  BY <1>3 DEF IInv, TypeOK
<1>8. handler'[<<c, 2>>].pc = "done"
  BY <1>3, <1>4 DEF IInv, TypeOK
<1>9. Fresh'
  BY <1>1, <1>4, <1>7 DEF IInv, Fresh
<1>10. Deduplicated'
  BY <1>1, <1>4, <1>7, <1>8 DEF IInv, Deduplicated
<1>11. AuditedWhenDone'
  <2>1. \A k \in 1..Len(audit) : audit[k].by \in Command
    BY AuditRows DEF IInv
  <2> QED
    BY <1>1, <1>4, <1>7, <2>1 DEF IInv, AuditedWhenDone
<1>12. AuditTrail'
  BY <1>1 DEF IInv, AuditTrail, Fields
<1> QED
  BY <1>6, <1>9, <1>10, <1>11, <1>12 DEF IInv

\* Only the first request of a command gets past the cache.
LEMMA LoadedIsFirst ==
  ASSUME IInv, NEW c \in Command, NEW d \in Delivery, handler[<<c, d>>].pc = "loaded"
  PROVE  d = 1 /\ command[c].action \in Dashboard
<1>1. d = 1
  BY DEF IInv, Deduplicated, Delivery
<1>2. command[c].action # "none"
  BY DEF IInv, Fresh
<1> QED
  BY <1>1, <1>2 DEF IInv, TypeOK

\* What a handler that ends, well or not, leaves of the requests.
LEMMA HandlerEnds ==
  ASSUME IInv, NEW c \in Command, handler[<<c, 1>>].pc = "loaded",
         NEW pc \in {"done", "failed"},
         handler' = [handler EXCEPT ![<<c, 1>>] = [NoHandler EXCEPT !.pc = pc]],
         UNCHANGED <<command, cached>>
  PROVE  /\ handler' \in [Command \X Delivery -> Handler]
         /\ handler'[<<c, 1>>].pc = pc
         /\ \A e \in Command, d \in Delivery :
               <<e, d>> # <<c, 1>> => handler'[<<e, d>>] = handler[<<e, d>>]
         /\ Fresh' /\ Deduplicated'
<1>1. [NoHandler EXCEPT !.pc = pc] \in Handler /\ [NoHandler EXCEPT !.pc = pc].pc = pc
  BY NoRequests DEF Handler
<1>2. 1 \in Delivery /\ 2 \in Delivery
  BY DEF Delivery
<1>3. /\ handler' \in [Command \X Delivery -> Handler]
      /\ handler'[<<c, 1>>].pc = pc
      /\ \A e \in Command, d \in Delivery :
            <<e, d>> # <<c, 1>> => handler'[<<e, d>>] = handler[<<e, d>>]
  BY <1>1, <1>2 DEF IInv, TypeOK
<1>4. command[c].action # "none"
  BY <1>2 DEF IInv, Fresh
<1>5. Fresh'
  BY <1>3, <1>4 DEF IInv, Fresh
<1>6. Deduplicated'
  BY <1>2, <1>3 DEF IInv, Deduplicated
<1> QED
  BY <1>3, <1>5, <1>6

\* Both sides of a change can be audited.
LEMMA ChangeTypes ==
  ASSUME IInv, NEW c \in Command, command[c].action \in Dashboard,
         row' = Saved(row, ChangesOf(c))
  PROVE  row' \in Row /\ Fields(row) \in Kept /\ Fields(row') \in Kept
<1>1. row \in Row
  BY DEF IInv, TypeOK
<1>2. row' \in Row
  BY <1>1, SavedRow, ChangesAreTyped, ControlAssumption
<1> QED
  BY <1>1, <1>2 DEF Row, Kept, Fields

\* The transaction of BotControlService.change extends the history by one row.
LEMMA HandleIInv ==
  ASSUME IInv, NEW c \in Command, NEW d \in Delivery, Handle(c, d)
  PROVE  IInv'
<1>1. /\ UNCHANGED <<command, cached, beat, run, recon, changes, faults>>
      /\ handler[<<c, d>>].pc = "loaded"
      /\ handler' = [handler EXCEPT ![<<c, d>>] = [NoHandler EXCEPT !.pc = "done"]]
      /\ UNCHANGED <<row, audit>> \/ Change(c)
  BY DEF Handle, engine
<1>2. d = 1 /\ command[c].action \in Dashboard
  BY <1>1, LoadedIsFirst
<1>3. /\ handler' \in [Command \X Delivery -> Handler]
      /\ handler'[<<c, 1>>].pc = "done"
      /\ \A e \in Command, f \in Delivery :
            <<e, f>> # <<c, 1>> => handler'[<<e, f>>] = handler[<<e, f>>]
      /\ Fresh' /\ Deduplicated'
  BY <1>1, <1>2, HandlerEnds
<1>4. /\ audit \in Seq(Audit) /\ Len(audit) \in Nat
      /\ \A k \in 1..Len(audit) : audit[k].by \in Command
  BY AuditRows DEF IInv, TypeOK
<1>5. \A k \in 1..Len(audit) : handler'[<<audit[k].by, 1>>].pc = "done"
  <2> SUFFICES ASSUME NEW k \in 1..Len(audit) PROVE handler'[<<audit[k].by, 1>>].pc = "done"
    OBVIOUS
  <2>1. audit[k].by \in Command /\ 1 \in Delivery /\ handler[<<audit[k].by, 1>>].pc = "done"
    BY <1>4 DEF IInv, AuditedWhenDone, Delivery
  <2>2. CASE audit[k].by = c
    BY <1>3, <2>2
  <2>3. CASE audit[k].by # c
    BY <1>3, <2>1, <2>3
  <2> QED
    BY <2>2, <2>3
<1>6. CASE UNCHANGED <<row, audit>>
  <2>1. TypeOK'
    BY <1>1, <1>3, <1>6 DEF IInv, TypeOK
  <2>2. AuditedWhenDone'
    BY <1>5, <1>6 DEF AuditedWhenDone
  <2>3. AuditTrail'
    BY <1>6 DEF IInv, AuditTrail, Fields
  <2> QED
    BY <1>3, <2>1, <2>2, <2>3 DEF IInv
<1>7. CASE Change(c)
  <2> DEFINE e == [by |-> c, before |-> Fields(row), after |-> Fields(row')]
             n == Len(audit)
  <2>1. row' = Saved(row, ChangesOf(c)) /\ audit' = Append(audit, e)
    BY <1>7 DEF Change
  <2>2. row' \in Row /\ e \in Audit
    BY <1>2, <2>1, ChangeTypes DEF Audit
  <2>3. e.by = c /\ e.before = Fields(row) /\ e.after = Fields(row')
    OBVIOUS
  <2> HIDE DEF e
  <2>4. /\ audit' \in Seq(Audit) /\ Len(audit') = n + 1
        /\ \A k \in 1..n : audit'[k] = audit[k]
        /\ audit'[n + 1] = e
    BY <1>4, <2>1, <2>2, AppendProperties
  <2>5. TypeOK'
    BY <1>1, <1>3, <2>2, <2>4 DEF IInv, TypeOK
  <2>6. AuditedWhenDone'
    <3>1. \A k \in 1..(n + 1) : k \in 1..n \/ k = n + 1
      BY <1>4
    <3> QED
      BY <1>3, <1>5, <2>3, <2>4, <3>1 DEF AuditedWhenDone
  <2>7. \A k \in 1..n : audit[k].by # c
    BY <1>1, <1>2, <1>4 DEF IInv, AuditedWhenDone
  <2>8. \A k \in 1..(n + 1) - 1 : audit'[k].after = audit'[k + 1].before
    <3> SUFFICES ASSUME NEW k \in 1..n PROVE audit'[k].after = audit'[k + 1].before
      BY <1>4
    <3>1. CASE k = n
      BY <1>4, <2>3, <2>4, <3>1 DEF IInv, AuditTrail
    <3>2. CASE k < n
      <4>1. k \in 1..n - 1 /\ k + 1 \in 1..n
        BY <1>4, <3>2
      <4> QED
        BY <2>4, <4>1 DEF IInv, AuditTrail
    <3> QED
      BY <1>4, <3>1, <3>2
  <2>9. \A j, k \in 1..(n + 1) : audit'[j].by = audit'[k].by => j = k
    <3> SUFFICES ASSUME NEW j \in 1..(n + 1), NEW k \in 1..(n + 1), audit'[j].by = audit'[k].by
                 PROVE  j = k
      OBVIOUS
    <3>1. (j \in 1..n \/ j = n + 1) /\ (k \in 1..n \/ k = n + 1)
      BY <1>4
    <3> QED
      BY <2>3, <2>4, <2>7, <3>1 DEF IInv, AuditTrail
  <2>10. audit'[n + 1].after = Fields(row')
    BY <2>3, <2>4
  <2>11. AuditTrail'
    <3>1. Fields(row)' = Fields(row')
      BY DEF Fields
    <3> QED
      BY <2>4, <2>8, <2>9, <2>10, <3>1 DEF AuditTrail
  <2> QED
    BY <1>3, <2>5, <2>6, <2>11 DEF IInv
<1> QED
  BY <1>1, <1>6, <1>7

\* A handler that fails before its transaction leaves no trace.
LEMMA HandlerFailsIInv ==
  ASSUME IInv, NEW c \in Command, NEW d \in Delivery, HandlerFails(c, d)
  PROVE  IInv'
<1>1. /\ UNCHANGED <<row, audit, command, cached, beat, run, recon, changes>>
      /\ handler[<<c, d>>].pc = "loaded"
      /\ handler' = [handler EXCEPT ![<<c, d>>] = [NoHandler EXCEPT !.pc = "failed"]]
  BY DEF HandlerFails, engine
<1>2. faults' \in 0..MaxFaults
  BY ControlAssumption DEF HandlerFails, Fault, IInv, TypeOK
<1>3. d = 1
  BY <1>1, LoadedIsFirst
<1>4. /\ handler' \in [Command \X Delivery -> Handler]
      /\ \A e \in Command, f \in Delivery :
            <<e, f>> # <<c, 1>> => handler'[<<e, f>>] = handler[<<e, f>>]
      /\ Fresh' /\ Deduplicated'
  BY <1>1, <1>3, HandlerEnds
<1>5. TypeOK'
  BY <1>1, <1>2, <1>4 DEF IInv, TypeOK
<1>6. AuditedWhenDone'
  <2>1. \A k \in 1..Len(audit) : audit[k].by \in Command
    BY AuditRows DEF IInv
  <2>2. \A k \in 1..Len(audit) : audit[k].by # c
    BY <1>1, <1>3 DEF IInv, AuditedWhenDone
  <2> QED
    BY <1>1, <1>4, <2>1, <2>2 DEF IInv, AuditedWhenDone, Delivery
<1>7. AuditTrail'
  BY <1>1 DEF IInv, AuditTrail, Fields
<1> QED
  BY <1>4, <1>5, <1>6, <1>7 DEF IInv

\* A step of the engine that keeps the audited columns keeps the invariant.
LEMMA EngineIInv ==
  ASSUME IInv, UNCHANGED <<audit, command, cached, handler>>,
         row' \in Row, Fields(row') = Fields(row),
         beat' \in [Slots -> Beat], run' \in [Run -> Record],
         recon' \in ReconState, changes' \in 0..MaxChanges, faults' \in 0..MaxFaults
  PROVE  IInv'
<1>1. TypeOK'
  BY DEF IInv, TypeOK
<1>2. Fresh' /\ Deduplicated' /\ AuditedWhenDone'
  BY DEF IInv, Fresh, Deduplicated, AuditedWhenDone
<1>3. AuditTrail'
  <2>1. Fields(row)' = Fields(row)
    BY DEF Fields
  <2> QED
    BY <2>1 DEF IInv, AuditTrail
<1> QED
  BY <1>1, <1>2, <1>3 DEF IInv

\* Every step of heartbeats and runs is such a step.
LEMMA EngineStepIInv ==
  ASSUME IInv,
         \/ \E s \in ReconState : EngineChanges(s) \/ \E r \in Run : RecordRun(r, s)
         \/ \E b \in Slots : Heartbeat(b) \/ HeartbeatLost(b) \/ LoadBeat(b) \/ SaveBeat(b)
         \/ \E r \in Run : LoadRun(r) \/ SaveRun(r)
  PROVE  IInv' /\ Fields(row') = Fields(row)
<1> USE DEF IInv
<1>1. /\ row \in Row /\ beat \in [Slots -> Beat] /\ run \in [Run -> Record]
      /\ recon \in ReconState /\ changes \in 0..MaxChanges /\ faults \in 0..MaxFaults
  BY DEF TypeOK
<1>2. row.recon \in ReconState /\ Shown(row) \in View
  BY <1>1 DEF Row, Shown, View
<1>3. ASSUME NEW s \in ReconState, EngineChanges(s) PROVE IInv' /\ Fields(row') = Fields(row)
  BY ControlAssumption, <1>1, <1>3, EngineIInv DEF EngineChanges, requests
<1>4. ASSUME NEW s \in ReconState, NEW r \in Run, RecordRun(r, s)
      PROVE  IInv' /\ Fields(row') = Fields(row)
  <2>1. [NoRecord EXCEPT !.pc = "queued", !.recon = s] \in Record
    BY NoRequests DEF Record
  <2> QED
    BY <1>1, <1>4, <2>1, EngineIInv DEF RecordRun, engine
<1>5. ASSUME NEW b \in Slots, Heartbeat(b) PROVE IInv' /\ Fields(row') = Fields(row)
  <2>1. [NoBeat EXCEPT !.pc = "sent", !.recon = recon] \in Beat
    BY <1>1, NoRequests DEF Beat
  <2> QED
    BY <1>1, <1>5, <2>1, EngineIInv DEF Heartbeat, engine
<1>6. ASSUME NEW b \in Slots, HeartbeatLost(b) PROVE IInv' /\ Fields(row') = Fields(row)
  <2>1. faults' \in 0..MaxFaults
    BY <1>1, <1>6, ControlAssumption DEF HeartbeatLost, Fault
  <2> QED
    BY <1>1, <1>6, <2>1, NoRequests, EngineIInv DEF HeartbeatLost, engine
<1>7. ASSUME NEW b \in Slots, LoadBeat(b) PROVE IInv' /\ Fields(row') = Fields(row)
  <2>1. beat' \in [Slots -> Beat]
    BY <1>1, <1>2, <1>7 DEF LoadBeat, Beat
  <2> QED
    BY <1>1, <1>7, <2>1, EngineIInv DEF LoadBeat, engine
<1>8. ASSUME NEW b \in Slots, SaveBeat(b) PROVE IInv' /\ Fields(row') = Fields(row)
  <2> DEFINE h == beat[b]
             changed == [status |-> StatusFor(h.row), recon |-> h.recon]
  <2>1. StatusFor(h.row) \in BotStatus /\ h.recon \in ReconState
    BY <1>1 DEF Beat, StatusFor, BotStatus
  <2>2. row' = Saved(h.row, changed) /\ beat' = [beat EXCEPT ![b] = NoBeat]
        /\ UNCHANGED <<audit, command, cached, handler, run, engine, faults>>
    BY <1>8 DEF SaveBeat
  <2>3. Saved(h.row, changed) \in Row
    BY <1>1, <2>1, SavedRow
  <2>4. Fields(Saved(h.row, changed)) = Fields(row)
    BY <1>1, SavedByEngine
  <2> HIDE DEF changed
  <2> QED
    BY <1>1, <2>2, <2>3, <2>4, NoRequests, EngineIInv DEF engine
<1>9. ASSUME NEW r \in Run, LoadRun(r) PROVE IInv' /\ Fields(row') = Fields(row)
  <2>1. run' \in [Run -> Record]
    BY <1>1, <1>2, <1>9 DEF LoadRun, Record
  <2> QED
    BY <1>1, <1>9, <2>1, EngineIInv DEF LoadRun, engine
<1>10. ASSUME NEW r \in Run, SaveRun(r) PROVE IInv' /\ Fields(row') = Fields(row)
  <2> DEFINE h == run[r]
             changed == [recon |-> h.recon]
  <2>1. h.recon \in ReconState
    BY <1>1 DEF Record
  <2>2. row' = Saved(h.row, changed) /\ run' = [run EXCEPT ![r] = [NoRecord EXCEPT !.pc = "known"]]
        /\ UNCHANGED <<audit, command, cached, handler, beat, engine, faults>>
    BY <1>10 DEF SaveRun
  <2>3. Saved(h.row, changed) \in Row
    BY <1>1, <2>1, SavedRow
  <2>4. Fields(Saved(h.row, changed)) = Fields(row)
    BY <1>1, SavedByEngine
  <2>5. [NoRecord EXCEPT !.pc = "known"] \in Record
    BY NoRequests DEF Record
  <2> HIDE DEF changed
  <2> QED
    BY <1>1, <2>2, <2>3, <2>4, <2>5, EngineIInv DEF engine
<1> QED
  BY <1>3, <1>4, <1>5, <1>6, <1>7, <1>8, <1>9, <1>10

\* Every step keeps the inductive invariant.
LEMMA StepIInv == IInv /\ [Next]_vars => IInv'
<1> SUFFICES ASSUME IInv, [Next]_vars PROVE IInv'
  OBVIOUS
<1>1. CASE UNCHANGED vars
  BY <1>1 DEF vars, requests, engine, IInv, TypeOK, Fresh, Deduplicated, AuditedWhenDone,
              AuditTrail, Fields
<1>2. ASSUME NEW c \in Command, NEW a \in Dashboard, NEW t \in BOOLEAN, Give(c, a, t) PROVE IInv'
  BY <1>2, GiveIInv
<1>3. ASSUME NEW c \in Command, Redeliver(c) PROVE IInv'
  BY <1>3, RedeliverIInv
<1>4. ASSUME NEW c \in Command, NEW d \in Delivery, Handle(c, d) PROVE IInv'
  BY <1>4, HandleIInv
<1>5. ASSUME NEW c \in Command, NEW d \in Delivery, HandlerFails(c, d) PROVE IInv'
  BY <1>5, HandlerFailsIInv
<1> QED
  BY <1>1, <1>2, <1>3, <1>4, <1>5, EngineStepIInv DEF Next

\* The inductive invariant holds in every reachable state.
THEOREM Invariance == Spec => []IInv
<1> QED
  BY InitIInv, StepIInv, PTL DEF Spec

\* The state of ControlPlane stays well typed.
THEOREM TypeCorrect == Spec => []TypeOK
<1>1. IInv => TypeOK
  BY DEF IInv
<1> QED
  BY <1>1, Invariance, PTL

\* The audit log is the history of the switches and the acknowledgement token,
\* and no command is in it twice (BotControlService.change,
\* TelegramController.webhook).
THEOREM AuditIsHistory == Spec => []AuditTrail
<1>1. IInv => AuditTrail
  BY DEF IInv
<1> QED
  BY <1>1, Invariance, PTL

-----------------------------------------------------------------------------
\* Each command is one of the operations of OperatorSwitch, or moves no switch.
LEMMA ChangeSwitches ==
  ASSUME IInv, NEW c \in Command, command[c].action \in Dashboard,
         row' = Saved(row, ChangesOf(c))
  PROVE  IF command[c].action = "resume" THEN Switch!Resume
         ELSE \/ Switch!Pause \/ Switch!EmergencyStop \/ Switch!ClearEmergencyStop
              \/ UNCHANGED <<row.enabled, row.emergency_stop>>
<1>1. row \in Row
  BY DEF IInv, TypeOK
<1>2. \A f \in {"enabled", "emergency_stop"} :
         /\ f \in DOMAIN ChangesOf(c) => row'[f] = ChangesOf(c)[f]
         /\ f \notin DOMAIN ChangesOf(c) => row'[f] = row[f]
  BY <1>1, RowDomain, SavedField DEF RowFields
<1>3. CASE command[c].action = "pause"
  <2>1. ChangesOf(c) = [enabled |-> FALSE, status |-> "PAUSED"]
    BY <1>3, Zenon DEF ChangesOf
  <2>2. DOMAIN ChangesOf(c) = {"enabled", "status"}
    BY <2>1
  <2>3. ChangesOf(c).enabled = FALSE
    BY <2>1
  <2>4. row'.enabled = FALSE /\ row'.emergency_stop = row.emergency_stop
    BY <1>2, <2>2, <2>3
  <2> QED
    BY <1>3, <2>4 DEF Switch!Pause
<1>4. CASE command[c].action = "resume"
  <2>1. ChangesOf(c) = [enabled |-> TRUE, status |-> "RUNNING"]
    BY <1>4, Zenon DEF ChangesOf
  <2>2. DOMAIN ChangesOf(c) = {"enabled", "status"}
    BY <2>1
  <2>3. ChangesOf(c).enabled = TRUE
    BY <2>1
  <2>4. row'.enabled = TRUE /\ row'.emergency_stop = row.emergency_stop
    BY <1>2, <2>2, <2>3
  <2> QED
    BY <1>4, <2>4 DEF Switch!Resume
<1>5. CASE command[c].action = "emergency_stop"
  <2>1. ChangesOf(c) = [enabled |-> FALSE, emergency_stop |-> TRUE, status |-> "EMERGENCY_STOP"]
    BY <1>5, Zenon DEF ChangesOf
  <2>2. DOMAIN ChangesOf(c) = {"enabled", "emergency_stop", "status"}
    BY <2>1
  <2>3. ChangesOf(c).enabled = FALSE /\ ChangesOf(c).emergency_stop = TRUE
    BY <2>1
  <2>4. row'.enabled = FALSE /\ row'.emergency_stop = TRUE
    BY <1>2, <2>2, <2>3
  <2> QED
    BY <1>5, <2>4 DEF Switch!EmergencyStop
<1>6. CASE command[c].action = "clear_emergency_stop"
  <2>1. ChangesOf(c) = [enabled |-> FALSE, emergency_stop |-> FALSE, status |-> "PAUSED"]
    BY <1>6, Zenon DEF ChangesOf
  <2>2. DOMAIN ChangesOf(c) = {"enabled", "emergency_stop", "status"}
    BY <2>1
  <2>3. ChangesOf(c).enabled = FALSE /\ ChangesOf(c).emergency_stop = FALSE
    BY <2>1
  <2>4. row'.enabled = FALSE /\ row'.emergency_stop = FALSE
    BY <1>2, <2>2, <2>3
  <2> QED
    BY <1>6, <2>4 DEF Switch!ClearEmergencyStop
<1>7. CASE command[c].action = "acknowledge"
  <2>1. ChangesOf(c) = [ack |-> c]
    BY <1>7, Zenon DEF ChangesOf
  <2>2. DOMAIN ChangesOf(c) = {"ack"}
    BY <2>1
  <2>3. row'.enabled = row.enabled /\ row'.emergency_stop = row.emergency_stop
    BY <1>2, <2>2
  <2> QED
    BY <1>7, <2>3
<1> QED
  BY <1>3, <1>4, <1>5, <1>6, <1>7 DEF Dashboard, Telegram

\* A request arrives: a resume that finds the stop not engaged is let in.
LEMMA ReceiveSwitches ==
  ASSUME IInv, NEW c \in Command, NEW d \in Delivery, Receive(c, d), UNCHANGED row,
         handler[<<c, d>>].pc = "none",
         \A e \in Command : e # c => command'[e] = command[e],
         \A e \in Delivery : handler[<<c, e>>].pc # "none" => command'[c] = command[c]
  PROVE  Switch!AdmitResume(<<c, d>>) \/ UNCHANGED <<row.enabled, row.emergency_stop, Admitted>>
<1>1. handler \in [Command \X Delivery -> Handler]
  BY DEF IInv, TypeOK
<1>2. /\ \A h \in Command \X Delivery : h # <<c, d>> => handler'[h] = handler[h]
      /\ handler'[<<c, d>>].pc = "loaded" => handler'[<<c, d>>].row = Fields(row)
  <2>1. CASE NewUpdate(c)
    <3>1. handler' = [handler EXCEPT ![<<c, d>>] = [pc |-> "loaded", row |-> Fields(row)]]
      BY <2>1 DEF Receive
    <3> QED
      BY <1>1, <3>1
  <2>2. CASE ~NewUpdate(c)
    <3>1. handler' = [handler EXCEPT ![<<c, d>>] = [NoHandler EXCEPT !.pc = "done"]]
      BY <2>2 DEF Receive
    <3>2. [NoHandler EXCEPT !.pc = "done"].pc = "done"
      BY DEF NoHandler
    <3> QED
      BY <1>1, <3>1, <3>2
  <2> QED
    BY <2>1, <2>2
<1>3. \A h \in Command \X Delivery : h # <<c, d>> => (h \in Admitted' <=> h \in Admitted)
  <2> SUFFICES ASSUME NEW h \in Command \X Delivery, h # <<c, d>>
               PROVE  h \in Admitted' <=> h \in Admitted
    OBVIOUS
  <2>1. handler'[h] = handler[h]
    BY <1>1, <1>2
  <2>2. PICK e \in Command, k \in Delivery : h = <<e, k>>
    OBVIOUS
  <2>3. CASE command'[e] = command[e]
    BY <2>1, <2>2, <2>3 DEF Admitted
  <2>4. CASE command'[e] # command[e]
    <3>1. handler[h].pc = "none"
      BY <2>2, <2>4
    <3> QED
      BY <2>1, <3>1 DEF Admitted
  <2> QED
    BY <2>3, <2>4
<1>4. <<c, d>> \notin Admitted /\ <<c, d>> \in Command \X Delivery
  BY DEF Admitted
<1>5. <<c, d>> \in Admitted' => ~row.emergency_stop
  BY <1>1, <1>2 DEF Admitted, Fields
<1>6. Admitted \subseteq Command \X Delivery /\ Admitted' \subseteq Command \X Delivery
  BY DEF Admitted
<1>7. CASE <<c, d>> \in Admitted'
  <2>1. Admitted' = Admitted \cup {<<c, d>>}
    BY <1>3, <1>4, <1>6, <1>7
  <2> QED
    BY <1>5, <1>7, <2>1 DEF Switch!AdmitResume, Switch!switches
<1>8. CASE <<c, d>> \notin Admitted'
  <2>1. Admitted' = Admitted
    BY <1>3, <1>4, <1>6, <1>8
  <2> QED
    BY <2>1
<1> QED
  BY <1>7, <1>8

\* A request ends: it was let in as a resume, or it was not.
LEMMA EndSwitches ==
  ASSUME NEW h \in Command \X Delivery, handler'[h].pc # "loaded", UNCHANGED command,
         \A g \in Command \X Delivery : g # h => handler'[g] = handler[g]
  PROVE  Admitted' = Admitted \ {h}
  BY DEF Admitted

\* Every step of ControlPlane is a step of OperatorSwitch or leaves it alone.
LEMMA StepSwitches == IInv /\ [Next]_vars => [Switch!Next]_<<Switch!switches, Admitted>>
<1> SUFFICES ASSUME IInv, [Next]_vars
             PROVE  Switch!Next \/ UNCHANGED <<row.enabled, row.emergency_stop, Admitted>>
  BY DEF Switch!switches
<1>1. CASE UNCHANGED vars
  BY <1>1 DEF vars, requests, Admitted
<1>2. ASSUME NEW c \in Command, NEW d \in Delivery, Switch!AdmitResume(<<c, d>>)
      PROVE  Switch!Next
  <2>1. <<c, d>> \in Command \X Delivery
    OBVIOUS
  <2> QED
    BY <1>2, <2>1 DEF Switch!Next
<1>3. ASSUME NEW c \in Command, NEW a \in Dashboard, NEW t \in BOOLEAN, Give(c, a, t)
      PROVE  Switch!Next \/ UNCHANGED <<row.enabled, row.emergency_stop, Admitted>>
  <2>1. /\ Receive(c, 1) /\ UNCHANGED row /\ 1 \in Delivery
        /\ \A e \in Command : e # c => command'[e] = command[e]
    BY <1>3 DEF Give, Delivery, IInv, TypeOK
  <2>2. \A e \in Delivery : handler[<<c, e>>].pc = "none"
    BY <1>3 DEF Give, IInv, Fresh
  <2> QED
    BY <1>2, <2>1, <2>2, ReceiveSwitches
<1>4. ASSUME NEW c \in Command, Redeliver(c)
      PROVE  Switch!Next \/ UNCHANGED <<row.enabled, row.emergency_stop, Admitted>>
  <2>1. /\ Receive(c, 2) /\ UNCHANGED <<row, command>> /\ 2 \in Delivery
        /\ handler[<<c, 2>>].pc = "none"
    BY <1>4 DEF Redeliver, Delivery
  <2> QED
    BY <1>2, <2>1, ReceiveSwitches
<1>5. ASSUME NEW c \in Command, NEW d \in Delivery, Handle(c, d)
      PROVE  Switch!Next \/ UNCHANGED <<row.enabled, row.emergency_stop, Admitted>>
  <2> DEFINE h == <<c, d>>
  <2>1. h \in Command \X Delivery /\ command[c].action \in Dashboard /\ handler[h].pc = "loaded"
    BY <1>5, LoadedIsFirst DEF Handle
  <2>2. Admitted' = Admitted \ {h}
    <3>1. [NoHandler EXCEPT !.pc = "done"].pc = "done"
      BY DEF NoHandler
    <3>2. /\ handler' = [handler EXCEPT ![h] = [NoHandler EXCEPT !.pc = "done"]]
          /\ UNCHANGED command
      BY <1>5 DEF Handle
    <3>3. handler \in [Command \X Delivery -> Handler]
      BY DEF IInv, TypeOK
    <3>4. /\ \A g \in Command \X Delivery : g # h => handler'[g] = handler[g]
          /\ handler'[h].pc = "done"
      BY <2>1, <3>1, <3>2, <3>3
    <3> QED
      BY <2>1, <3>2, <3>4, EndSwitches
  <2>3. h \in Admitted <=> command[c].action = "resume" /\ ~handler[h].row.emergency_stop
    BY <2>1 DEF Admitted
  <2>4. CASE h \in Admitted
    <3>1. row' = Saved(row, ChangesOf(c))
      BY <1>5, <2>3, <2>4 DEF Handle, Change
    <3>2. Switch!Resume
      BY <2>1, <2>3, <2>4, <3>1, ChangeSwitches
    <3> QED
      BY <2>1, <2>2, <2>4, <3>2 DEF Switch!Next, Switch!FinishResume
  <2>5. CASE h \notin Admitted
    <3>1. Admitted' = Admitted
      BY <2>2, <2>5
    <3>2. CASE UNCHANGED row
      BY <3>1, <3>2
    <3>3. CASE row' = Saved(row, ChangesOf(c)) /\ command[c].action # "resume"
      BY <2>1, <3>1, <3>3, ChangeSwitches DEF Switch!Next
    <3> QED
      BY <1>5, <2>3, <2>5, <3>2, <3>3 DEF Handle, Change
  <2> QED
    BY <2>4, <2>5
<1>6. ASSUME NEW c \in Command, NEW d \in Delivery, HandlerFails(c, d)
      PROVE  Switch!Next \/ UNCHANGED <<row.enabled, row.emergency_stop, Admitted>>
  <2> DEFINE h == <<c, d>>
  <2>1. h \in Command \X Delivery /\ UNCHANGED row
    BY <1>6 DEF HandlerFails
  <2>2. Admitted' = Admitted \ {h}
    <3>1. [NoHandler EXCEPT !.pc = "failed"].pc = "failed"
      BY DEF NoHandler
    <3>2. /\ handler' = [handler EXCEPT ![h] = [NoHandler EXCEPT !.pc = "failed"]]
          /\ UNCHANGED command
      BY <1>6 DEF HandlerFails
    <3>3. handler \in [Command \X Delivery -> Handler]
      BY DEF IInv, TypeOK
    <3>4. /\ \A g \in Command \X Delivery : g # h => handler'[g] = handler[g]
          /\ handler'[h].pc = "failed"
      BY <2>1, <3>1, <3>2, <3>3
    <3> QED
      BY <2>1, <3>2, <3>4, EndSwitches
  <2>3. CASE h \in Admitted
    BY <2>1, <2>2, <2>3 DEF Switch!Next, Switch!FinishResume, Switch!switches
  <2>4. CASE h \notin Admitted
    BY <2>1, <2>2, <2>4
  <2> QED
    BY <2>3, <2>4
<1>7. ASSUME \/ \E s \in ReconState : EngineChanges(s) \/ \E r \in Run : RecordRun(r, s)
             \/ \E b \in Slots : Heartbeat(b) \/ HeartbeatLost(b) \/ LoadBeat(b) \/ SaveBeat(b)
             \/ \E r \in Run : LoadRun(r) \/ SaveRun(r)
      PROVE  UNCHANGED <<row.enabled, row.emergency_stop, Admitted>>
  <2>1. UNCHANGED <<command, handler>>
    BY <1>7 DEF EngineChanges, RecordRun, Heartbeat, HeartbeatLost, LoadBeat, SaveBeat, LoadRun,
                SaveRun, requests
  <2>2. Fields(row') = Fields(row)
    BY <1>7, EngineStepIInv
  <2> QED
    BY <2>1, <2>2 DEF Fields, Admitted
<1> QED
  BY <1>1, <1>3, <1>4, <1>5, <1>6, <1>7 DEF Next

\* The row implements the operator's abstract switches: only commands move
\* them, although heartbeats and runs write the same row from older copies, and
\* the bot is enabled beside an engaged stop only by a resume that was let in
\* before it.
THEOREM SwitchesRefined == Spec => SwitchesFollowOperator
<1>1. Init => Switch!Init
  <2> SUFFICES ASSUME Init
               PROVE  row.enabled \in BOOLEAN /\ row.emergency_stop = FALSE /\ Admitted = {}
    BY DEF Switch!Init
  <2>0. Admitted = {}
    BY DEF Init, Admitted, NoHandler
  <2>1. NewRow.enabled = FALSE /\ NewRow.emergency_stop = FALSE
    BY DEF NewRow
  <2>2. CASE row = NewRow
    BY <2>0, <2>1, <2>2
  <2>3. CASE row = [NewRow EXCEPT !.enabled = TRUE, !.status = "RUNNING"]
    <3>1. row.enabled = TRUE /\ row.emergency_stop = FALSE
      BY <2>3 DEF NewRow
    <3> QED
      BY <2>0, <3>1
  <2> QED
    BY <2>0, <2>2, <2>3 DEF Init
<1> QED
  BY <1>1, StepSwitches, Invariance, PTL DEF Spec, SwitchesFollowOperator, Switch!Spec
=============================================================================
