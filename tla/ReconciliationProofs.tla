--------------------------- MODULE ReconciliationProofs ----------------------
(***************************************************************************)
(* Proofs about Reconciliation, for every number of incidents and          *)
(* acknowledgements: its type, that HEALTHY was verified by a run of this  *)
(* process, that a recorded acknowledgement is never taken back, and that  *)
(* a lost stream keeps the gate shut but for what a touch restores.        *)
(*                                                                         *)
(* The argument: five writers save the whole row from a copy they read     *)
(* earlier.  Each copy still has the token of the row (Acks), because the  *)
(* only step that changes the token runs while no other writer is between  *)
(* its read and its save; and that is so because the task that records an  *)
(* acknowledgement waits in one place only (Turns): in the lock's queue,   *)
(* at the lock, or at its own write, with the periodic task suspended and  *)
(* so without a touch.  A copy that says HEALTHY was read in this life of  *)
(* the process, after a clean run (Verified).                              *)
(*                                                                         *)
(* For a lost stream the callbacks are followed through the session they   *)
(* belong to (Sessions): while it is lost, the writes that keep the status *)
(* they read are those of a touch and of an acknowledgement, and nobody    *)
(* else writes during the latter.                                          *)
(***************************************************************************)
EXTENDS Reconciliation, SequenceTheorems, TLAPS

\* The tasks in the queue of the lock.
Queued == {waiting[i] : i \in DOMAIN waiting}

\* A worker that is off or about to exit has no task left; a run or a touch may
\* still be in its thread until it is off.
Halts ==
    /\ stream = "off" => /\ run.pc = "idle" /\ touch.pc = "idle" /\ lock = "free"
                         /\ waiting = <<>> /\ periodic = "none" /\ loop.op \in {"none", "start"}
    /\ stream = "exit" => /\ lock = "free" /\ waiting = <<>> /\ periodic = "none"
                          /\ loop.op = "none"

\* The event loop's write: it never sets HEALTHY, and only the one of a start
\* runs while the worker is off.
LoopOK ==
    /\ loop.op = "none" <=> loop.pc = "idle"
    /\ loop.status # "HEALTHY"
    /\ loop.op = "start" => stream = "off" /\ loop.status = "CONNECTING"

\* Who waits for what.  The task of an acknowledgement is in the queue, holds
\* the lock or records it, the periodic task being suspended meanwhile; likewise
\* a periodic run.  A run has the lock unless its worker is exiting, and a touch
\* the periodic task.
Turns ==
    /\ "ack" \in Queued \cup {lock, loop.op} => periodic = "ack"
    /\ "periodic" \in Queued \cup {lock} => periodic = "reconcile"
    /\ lock \in {"ack", "periodic"} => lock \notin Queued
    /\ loop.op = "ack" => run.pc = "idle" /\ lock = "free" /\ "ack" \notin Queued
    /\ loop.op = "postcheck" => run.pc = "done"
    /\ run.pc # "idle" => lock # "free" \/ stream = "exit"
    /\ touch.pc # "idle" => periodic = "touch" \/ stream = "exit"

\* A task is queued once.
OnceQueued == \A i, j \in DOMAIN waiting : waiting[i] = waiting[j] => i = j

\* Tokens grow from the row to the worker to the control plane, and every copy
\* of the row in flight has the row's token.
Acks ==
    /\ lastAck <= token /\ row.ack <= token
    /\ stream # "off" => row.ack <= lastAck
    /\ loop.pc = "save" => loop.snap.ack = row.ack
    /\ touch.pc = "save" => touch.snap.ack = row.ack
    /\ run.pc \in {"mark", "save"} => run.snap.ack = row.ack

\* HEALTHY, in the row or in a copy of it in flight, follows a clean run of this
\* process.
Verified ==
    /\ stream # "off" /\ row.status = "HEALTHY" => verified
    /\ loop.pc = "save" /\ loop.op # "start" /\ loop.snap.status = "HEALTHY" => verified
    /\ touch.pc = "save" /\ touch.snap.status = "HEALTHY" => verified

\* The inductive invariant.
IInv == TypeOK /\ Halts /\ LoopOK /\ Turns /\ OnceQueued /\ Acks
        /\ Verified

-----------------------------------------------------------------------------
\* What a writer saves: its copy with another status.
LEMMA Saved ==
  ASSUME NEW r \in Row, NEW s \in ReconciliationStatus
  PROVE  /\ [r EXCEPT !.status = s] \in Row /\ [r EXCEPT !.status = s].status = s
         /\ [r EXCEPT !.status = s].ack = r.ack
  BY DEF Row

\* A save replaces the row; a HEALTHY row a touch restored stays marked so.
LEMMA SaveIs ==
  ASSUME NEW r, Save(r)
  PROVE  /\ row' = r /\ fresh' = TRUE /\ restored' \in BOOLEAN
         /\ restored' <=> restored /\ r.status = "HEALTHY"
<1>1. row' = r /\ fresh' = TRUE
  BY DEF Save, SaveRow
<1>2. restored' = (restored /\ r.status = "HEALTHY")
  BY DEF Save
<1>3. (restored /\ r.status = "HEALTHY") \in BOOLEAN
  OBVIOUS
<1> QED
  BY <1>1, <1>2, <1>3

\* The idle threads and the first row are well typed.
LEMMA RowTypes ==
  /\ NeverReconciled \in Row /\ NeverReconciled.status = "CONNECTING"
  /\ IdleLoop \in Loop /\ IdleLoop.op = "none" /\ IdleLoop.pc = "idle"
  /\ IdleLoop.status = "keep"
  /\ IdleRun \in Run /\ IdleRun.pc = "idle"
  /\ IdleTouch \in Touch /\ IdleTouch.pc = "idle"
<1>1. NeverReconciled \in Row /\ NeverReconciled.status = "CONNECTING"
  BY BoundsAssumption DEF NeverReconciled, Row, ReconciliationStatus
<1>2. IdleLoop \in Loop /\ IdleLoop.op = "none" /\ IdleLoop.pc = "idle" /\ IdleLoop.status = "keep"
  BY <1>1 DEF IdleLoop, Loop, LoopOp
<1>3. IdleRun \in Run /\ IdleRun.pc = "idle"
  BY <1>1 DEF IdleRun, Run, ReconciliationStatus
<1>4. IdleTouch \in Touch /\ IdleTouch.pc = "idle"
  BY <1>1 DEF IdleTouch, Touch
<1> QED
  BY <1>1, <1>2, <1>3, <1>4

\* A callback begins by reading the row.
LEMMA BeginIs ==
  ASSUME NEW op \in LoopOp, NEW s \in ReconciliationStatus \cup {"keep"}, Begin(op, s)
  PROVE  loop' \in Loop /\ loop'.op = op /\ loop'.pc = "read" /\ loop'.status = s
  BY RowTypes DEF Begin, Loop

\* The queue is left alone.
LEMMA SameQueue == ASSUME OnceQueued, waiting' = waiting PROVE Queued' = Queued /\ OnceQueued'
  BY DEF Queued, OnceQueued

\* The queue is dropped with its tasks.
LEMMA EmptyQueue == ASSUME waiting' = <<>> PROVE Queued' = {} /\ OnceQueued' /\ waiting' \in Seq(Caller)
  BY EmptySeq DEF Queued, OnceQueued

\* A task is added to the queue unless it waits there already.
LEMMA EnqueueIs ==
  ASSUME waiting \in Seq(Caller), OnceQueued, NEW c \in Caller, Enqueue(c)
  PROVE  waiting' \in Seq(Caller) /\ Queued' = Queued \cup {c} /\ OnceQueued'
<1>1. CASE c \in Queued
  BY <1>1 DEF Enqueue, Queued, OnceQueued
<1>2. CASE c \notin Queued
  <2>1. waiting' = Append(waiting, c)
    BY <1>2 DEF Enqueue, Queued
  <2>2. /\ waiting' \in Seq(Caller) /\ Len(waiting') = Len(waiting) + 1 /\ Len(waiting) \in Nat
        /\ \A i \in 1..Len(waiting) : waiting'[i] = waiting[i]
        /\ waiting'[Len(waiting) + 1] = c
        /\ DOMAIN waiting = 1..Len(waiting) /\ DOMAIN waiting' = 1..Len(waiting')
    BY <2>1, AppendProperties, LenProperties
  <2>3. DOMAIN waiting' = DOMAIN waiting \cup {Len(waiting) + 1}
    BY <2>2
  <2> QED
    BY <1>2, <2>2, <2>3 DEF Queued, OnceQueued
<1> QED
  BY <1>1, <1>2

\* The first task leaves the queue.
LEMMA DequeueIs ==
  ASSUME waiting \in Seq(Caller), OnceQueued, waiting # <<>>, waiting' = Tail(waiting)
  PROVE  /\ waiting' \in Seq(Caller) /\ Head(waiting) \in Caller /\ Head(waiting) \in Queued
         /\ Queued' = Queued \ {Head(waiting)} /\ OnceQueued'
<1>1. /\ waiting' \in Seq(Caller) /\ Len(waiting') = Len(waiting) - 1
      /\ Len(waiting) \in Nat \ {0} /\ Head(waiting) = waiting[1]
      /\ \A i \in 1..Len(waiting') : waiting'[i] = waiting[i + 1]
      /\ DOMAIN waiting = 1..Len(waiting) /\ DOMAIN waiting' = 1..Len(waiting')
  BY HeadTailProperties, LenProperties, EmptySeq
<1>2. Head(waiting) \in Caller /\ Head(waiting) \in Queued
  BY <1>1, ElementOfSeq DEF Queued
<1>3. OnceQueued'
  BY <1>1 DEF OnceQueued
<1>4. Queued' = Queued \ {Head(waiting)}
  <2>1. ASSUME NEW c \in Queued' PROVE c \in Queued /\ c # Head(waiting)
    BY <1>1, <2>1 DEF Queued, OnceQueued
  <2>2. ASSUME NEW c \in Queued, c # Head(waiting) PROVE c \in Queued'
    <3>1. PICK i \in 1..Len(waiting) : waiting[i] = c
      BY <1>1 DEF Queued
    <3>2. i - 1 \in 1..Len(waiting') /\ waiting'[i - 1] = c
      BY <1>1, <2>2, <3>1
    <3> QED
      BY <1>1, <3>2 DEF Queued
  <2> QED
    BY <2>1, <2>2
<1> QED
  BY <1>1, <1>2, <1>3, <1>4

-----------------------------------------------------------------------------
\* The worker starts (ReconciliationWorker.run).
LEMMA WorkerStartStep == ASSUME IInv, WorkerStart PROVE IInv' /\ row'.ack >= row.ack
<1> USE DEF IInv, WorkerStart, gate
<1>0. loop' \in Loop /\ loop'.op = "start" /\ loop'.pc = "read" /\ loop'.status = "CONNECTING"
  BY BeginIs DEF LoopOp, ReconciliationStatus
<1>2. TypeOK'
  BY <1>0 DEF TypeOK
<1>3. Queued' = Queued /\ OnceQueued'
  BY SameQueue
<1>4. Halts' /\ LoopOK'
  BY <1>0 DEF Halts, LoopOK
<1>5. Turns'
  BY <1>0, <1>3 DEF Turns
<1>6. Acks' /\ row'.ack >= row.ack
  BY <1>0, BoundsAssumption DEF Acks, TypeOK, Row
<1>7. Verified'
  BY <1>0 DEF Verified, Halts
<1> QED
  BY <1>2, <1>3, <1>4, <1>5, <1>6, <1>7

\* The next attempt to connect (run_forever).
LEMMA ConnectStep == ASSUME IInv, Connect PROVE IInv' /\ row'.ack >= row.ack
<1> USE DEF IInv, Connect, gate, history, LoopFree
<1>0. loop' \in Loop /\ loop'.op = "connecting" /\ loop'.pc = "read" /\ loop'.status = "CONNECTING"
  BY BeginIs DEF LoopOp, ReconciliationStatus
<1>2. TypeOK'
  BY <1>0 DEF TypeOK
<1>3. Queued' = Queued /\ OnceQueued'
  BY SameQueue
<1>4. Halts' /\ LoopOK'
  BY <1>0 DEF Halts, LoopOK
<1>5. Turns'
  BY <1>0, <1>3 DEF Turns
<1>6. Acks' /\ row'.ack >= row.ack
  BY <1>0, BoundsAssumption DEF Acks, TypeOK, Row
<1>7. Verified'
  BY <1>0 DEF Verified
<1> QED
  BY <1>2, <1>3, <1>4, <1>5, <1>6, <1>7

\* The subscription is confirmed (on_state).
LEMMA SubscribedStep == ASSUME IInv, Subscribed PROVE IInv' /\ row'.ack >= row.ack
<1> USE DEF IInv, Subscribed, gate, history, LoopFree
<1>0. loop' \in Loop /\ loop'.op = "subscribed" /\ loop'.pc = "read" /\ loop'.status = "keep"
  BY BeginIs DEF LoopOp, ReconciliationStatus
<1>2. TypeOK'
  BY <1>0 DEF TypeOK
<1>3. Queued' = Queued /\ OnceQueued'
  BY SameQueue
<1>4. Halts' /\ LoopOK'
  BY <1>0 DEF Halts, LoopOK
<1>5. Turns'
  BY <1>0, <1>3 DEF Turns
<1>6. Acks' /\ row'.ack >= row.ack
  BY <1>0, BoundsAssumption DEF Acks, TypeOK, Row
<1>7. Verified'
  BY <1>0 DEF Verified
<1> QED
  BY <1>2, <1>3, <1>4, <1>5, <1>6, <1>7

\* An event was ingested (on_event).
LEMMA StreamEventStep == ASSUME IInv, StreamEvent PROVE IInv' /\ row'.ack >= row.ack
<1> USE DEF IInv, StreamEvent, gate, tasks, history, LoopFree
<1>0. loop' \in Loop /\ loop'.op = "event" /\ loop'.pc = "read" /\ loop'.status = "keep"
  BY BeginIs DEF LoopOp, ReconciliationStatus
<1>1. incidents' \in 0..MaxIncidents
  BY BoundsAssumption DEF TypeOK, Incident
<1>2. TypeOK'
  BY <1>0, <1>1 DEF TypeOK
<1>3. Queued' = Queued /\ OnceQueued'
  BY SameQueue
<1>4. Halts' /\ LoopOK'
  BY <1>0 DEF Halts, LoopOK
<1>5. Turns'
  BY <1>0, <1>3 DEF Turns
<1>6. Acks' /\ row'.ack >= row.ack
  BY <1>0, BoundsAssumption DEF Acks, TypeOK, Row
<1>7. Verified'
  BY <1>0 DEF Verified
<1> QED
  BY <1>2, <1>3, <1>4, <1>5, <1>6, <1>7

\* The run reads the state before it.
LEMMA RunBeginStep == ASSUME IInv, RunBegin PROVE IInv' /\ row'.ack >= row.ack
<1> USE DEF IInv, RunBegin, gate, tasks, history
<1>0. run' \in Run /\ run'.pc = "mark" /\ run'.snap = row
  BY DEF TypeOK, Run, Row
<1>2. TypeOK'
  BY <1>0 DEF TypeOK
<1>3. Queued' = Queued /\ OnceQueued'
  BY SameQueue
<1>4. Halts' /\ LoopOK'
  BY <1>0 DEF Halts, LoopOK
<1>5. Turns'
  BY <1>0, <1>3 DEF Turns
<1>6. Acks' /\ row'.ack >= row.ack
  BY <1>0, BoundsAssumption DEF Acks, TypeOK, Row
<1>7. Verified'
  BY <1>0 DEF Verified
<1> QED
  BY <1>2, <1>3, <1>4, <1>5, <1>6, <1>7

\* The run reads the row for its result (set_state).
LEMMA RunReadStep == ASSUME IInv, RunRead PROVE IInv' /\ row'.ack >= row.ack
<1> USE DEF IInv, RunRead, gate, tasks, history
<1>0. run' \in Run /\ run'.pc = "save" /\ run'.snap = row /\ run'.result = run.result
  BY DEF TypeOK, Run, Row
<1>2. TypeOK'
  BY <1>0 DEF TypeOK
<1>3. Queued' = Queued /\ OnceQueued'
  BY SameQueue
<1>4. Halts' /\ LoopOK'
  BY <1>0 DEF Halts, LoopOK
<1>5. Turns'
  BY <1>0, <1>3 DEF Turns
<1>6. Acks' /\ row'.ack >= row.ack
  BY <1>0, BoundsAssumption DEF Acks, TypeOK, Row
<1>7. Verified'
  BY <1>0 DEF Verified
<1> QED
  BY <1>2, <1>3, <1>4, <1>5, <1>6, <1>7

\* The run saves its result: HEALTHY is verified by it.
LEMMA RunSaveStep == ASSUME IInv, RunSave PROVE IInv' /\ row'.ack >= row.ack
<1> USE DEF IInv, RunSave, tasks
<1>0. /\ run' \in Run /\ run'.pc = "done" /\ row' \in Row /\ row'.status = run.result
      /\ row'.ack = row.ack /\ fresh' = TRUE /\ restored' \in BOOLEAN
  <2>1. row' = [run.snap EXCEPT !.status = run.result] /\ fresh' = TRUE /\ restored' \in BOOLEAN
    BY SaveIs
  <2> QED
    BY <2>1, RowTypes, Saved DEF TypeOK, Run, Acks
<1>2. TypeOK'
  BY <1>0 DEF TypeOK
<1>3. Queued' = Queued /\ OnceQueued'
  BY SameQueue
<1>4. Halts' /\ LoopOK'
  BY <1>0 DEF Halts, LoopOK
<1>5. Turns'
  BY <1>0, <1>3 DEF Turns
<1>6. Acks' /\ row'.ack >= row.ack
  BY <1>0, BoundsAssumption DEF Acks, TypeOK, Row
<1>7. Verified'
  BY <1>0 DEF Verified
<1> QED
  BY <1>2, <1>3, <1>4, <1>5, <1>6, <1>7

\* The periodic task starts a touch.
LEMMA PeriodicWakesStep == ASSUME IInv, PeriodicWakes PROVE IInv' /\ row'.ack >= row.ack
<1> USE DEF IInv, PeriodicWakes, gate, history, LoopFree
<1>0. touch' \in Touch /\ touch'.pc = "read"
  BY DEF TypeOK, Touch
<1>2. TypeOK'
  BY <1>0 DEF TypeOK
<1>3. Queued' = Queued /\ OnceQueued'
  BY SameQueue
<1>4. Halts' /\ LoopOK'
  BY <1>0 DEF Halts, LoopOK
<1>5. Turns'
  BY <1>0, <1>3 DEF Turns
<1>6. Acks' /\ row'.ack >= row.ack
  BY <1>0, BoundsAssumption DEF Acks, TypeOK, Row
<1>7. Verified'
  BY <1>0 DEF Verified
<1> QED
  BY <1>2, <1>3, <1>4, <1>5, <1>6, <1>7

\* The touch reads the row.
LEMMA TouchReadStep == ASSUME IInv, TouchRead PROVE IInv' /\ row'.ack >= row.ack
<1> USE DEF IInv, TouchRead, gate, tasks, history
<1>0. touch' \in Touch /\ touch'.pc = "save" /\ touch'.snap = row
  BY DEF TypeOK, Touch
<1>2. TypeOK'
  BY <1>0 DEF TypeOK
<1>3. Queued' = Queued /\ OnceQueued'
  BY SameQueue
<1>4. Halts' /\ LoopOK'
  BY <1>0 DEF Halts, LoopOK
<1>5. Turns'
  BY <1>0, <1>3 DEF Turns
<1>6. Acks' /\ row'.ack >= row.ack
  BY <1>0, BoundsAssumption DEF Acks, TypeOK, Row
<1>7. Verified'
  BY <1>0 DEF Verified, Halts
<1> QED
  BY <1>2, <1>3, <1>4, <1>5, <1>6, <1>7

\* The touch saves what it read.
LEMMA TouchSaveStep == ASSUME IInv, TouchSave PROVE IInv' /\ row'.ack >= row.ack
<1> USE DEF IInv, TouchSave, tasks, history
<1>0. /\ touch' \in Touch /\ touch'.pc = "idle" /\ row' \in Row /\ row' = touch.snap
      /\ row'.ack = row.ack /\ fresh' = TRUE /\ restored' \in BOOLEAN
  <2>1. row' = touch.snap /\ fresh' = TRUE /\ restored' \in BOOLEAN
    BY DEF SaveRow
  <2> QED
    BY <2>1, RowTypes DEF TypeOK, Touch, Acks
<1>2. TypeOK'
  BY <1>0 DEF TypeOK
<1>3. Queued' = Queued /\ OnceQueued'
  BY SameQueue
<1>4. Halts' /\ LoopOK'
  BY <1>0 DEF Halts, LoopOK
<1>5. Turns'
  BY <1>0, <1>3 DEF Turns
<1>6. Acks' /\ row'.ack >= row.ack
  BY <1>0, BoundsAssumption DEF Acks, TypeOK, Row
<1>7. Verified'
  BY <1>0 DEF Verified
<1> QED
  BY <1>2, <1>3, <1>4, <1>5, <1>6, <1>7

\* A store error in the touch ends the periodic task.
LEMMA PeriodicDiesStep == ASSUME IInv, PeriodicDies PROVE IInv' /\ row'.ack >= row.ack
<1> USE DEF IInv, PeriodicDies, gate, history
<1>0. touch' \in Touch /\ touch'.pc = "idle" /\ incidents' \in 0..MaxIncidents
  BY RowTypes, BoundsAssumption DEF TypeOK, Incident
<1>2. TypeOK'
  BY <1>0 DEF TypeOK
<1>3. Queued' = Queued /\ OnceQueued'
  BY SameQueue
<1>4. Halts' /\ LoopOK'
  BY <1>0 DEF Halts, LoopOK
<1>5. Turns'
  BY <1>0, <1>3 DEF Turns
<1>6. Acks' /\ row'.ack >= row.ack
  BY <1>0, BoundsAssumption DEF Acks, TypeOK, Row
<1>7. Verified'
  BY <1>0 DEF Verified
<1> QED
  BY <1>2, <1>3, <1>4, <1>5, <1>6, <1>7

\* The touch has ended.
LEMMA TouchReturnsStep == ASSUME IInv, TouchReturns PROVE IInv' /\ row'.ack >= row.ack
<1> USE DEF IInv, TouchReturns, gate, history, LoopFree
<1>2. TypeOK'
  BY DEF TypeOK
<1>3. Queued' = Queued /\ OnceQueued'
  BY SameQueue
<1>4. Halts' /\ LoopOK'
  BY DEF Halts, LoopOK
<1>5. Turns'
  BY <1>3 DEF Turns
<1>6. Acks' /\ row'.ack >= row.ack
  BY BoundsAssumption DEF Acks, TypeOK, Row
<1>7. Verified'
  BY DEF Verified
<1> QED
  BY <1>2, <1>3, <1>4, <1>5, <1>6, <1>7

\* There is none, or no answer.
LEMMA PollNothingStep == ASSUME IInv, PollNothing PROVE IInv' /\ row'.ack >= row.ack
<1> USE DEF IInv, PollNothing, gate, history, LoopFree
<1>0. incidents' \in 0..MaxIncidents
  BY BoundsAssumption DEF TypeOK, Incident
<1>2. TypeOK'
  BY <1>0 DEF TypeOK
<1>3. Queued' = Queued /\ OnceQueued'
  BY SameQueue
<1>4. Halts' /\ LoopOK'
  BY <1>0 DEF Halts, LoopOK
<1>5. Turns'
  BY <1>0, <1>3 DEF Turns
<1>6. Acks' /\ row'.ack >= row.ack
  BY <1>0, BoundsAssumption DEF Acks, TypeOK, Row
<1>7. Verified'
  BY <1>0 DEF Verified
<1> QED
  BY <1>2, <1>3, <1>4, <1>5, <1>6, <1>7

\* No run is due.
LEMMA PeriodicSleepsStep == ASSUME IInv, PeriodicSleeps PROVE IInv' /\ row'.ack >= row.ack
<1> USE DEF IInv, PeriodicSleeps, gate, history, LoopFree
<1>2. TypeOK'
  BY DEF TypeOK
<1>3. Queued' = Queued /\ OnceQueued'
  BY SameQueue
<1>4. Halts' /\ LoopOK'
  BY DEF Halts, LoopOK
<1>5. Turns'
  BY <1>3 DEF Turns
<1>6. Acks' /\ row'.ack >= row.ack
  BY BoundsAssumption DEF Acks, TypeOK, Row
<1>7. Verified'
  BY DEF Verified
<1> QED
  BY <1>2, <1>3, <1>4, <1>5, <1>6, <1>7

\* The operator acknowledges.
LEMMA AcknowledgeStep == ASSUME IInv, Acknowledge PROVE IInv' /\ row'.ack >= row.ack
<1> USE DEF IInv, Acknowledge, gate, tasks
<1>0. token' \in 0..MaxAcks /\ token' > token
  BY BoundsAssumption DEF TypeOK
<1>2. TypeOK'
  BY <1>0 DEF TypeOK
<1>3. Queued' = Queued /\ OnceQueued'
  BY SameQueue
<1>4. Halts' /\ LoopOK'
  BY <1>0 DEF Halts, LoopOK
<1>5. Turns'
  BY <1>0, <1>3 DEF Turns
<1>6. Acks' /\ row'.ack >= row.ack
  BY <1>0, BoundsAssumption DEF Acks, TypeOK, Row
<1>7. Verified'
  BY <1>0 DEF Verified
<1> QED
  BY <1>2, <1>3, <1>4, <1>5, <1>6, <1>7

\* The row grows old.
LEMMA ExpireStep == ASSUME IInv, Expire PROVE IInv' /\ row'.ack >= row.ack
<1> USE DEF IInv, Expire, tasks, history
<1>2. TypeOK'
  BY DEF TypeOK
<1>3. Queued' = Queued /\ OnceQueued'
  BY SameQueue
<1>4. Halts' /\ LoopOK'
  BY DEF Halts, LoopOK
<1>5. Turns'
  BY <1>3 DEF Turns
<1>6. Acks' /\ row'.ack >= row.ack
  BY BoundsAssumption DEF Acks, TypeOK, Row
<1>7. Verified'
  BY DEF Verified
<1> QED
  BY <1>2, <1>3, <1>4, <1>5, <1>6, <1>7

\* A stop signal arrives.
LEMMA StopStep == ASSUME IInv, Stop PROVE IInv' /\ row'.ack >= row.ack
<1> USE DEF IInv, Stop, gate, history
<1>0. incidents' \in 0..MaxIncidents
  BY BoundsAssumption DEF TypeOK, Incident
<1>2. TypeOK'
  BY <1>0 DEF TypeOK
<1>3. Queued' = Queued /\ OnceQueued'
  BY SameQueue
<1>4. Halts' /\ LoopOK'
  BY <1>0 DEF Halts, LoopOK
<1>5. Turns'
  BY <1>0, <1>3 DEF Turns
<1>6. Acks' /\ row'.ack >= row.ack
  BY <1>0, BoundsAssumption DEF Acks, TypeOK, Row
<1>7. Verified'
  BY <1>0 DEF Verified
<1> QED
  BY <1>2, <1>3, <1>4, <1>5, <1>6, <1>7

\* The process ends after its threads.
LEMMA ExitStep == ASSUME IInv, Exit PROVE IInv' /\ row'.ack >= row.ack
<1> USE DEF IInv, Exit, gate, history
<1>0. run' \in Run /\ run'.pc = "idle"
  BY RowTypes
<1>2. TypeOK'
  BY <1>0 DEF TypeOK
<1>3. Queued' = Queued /\ OnceQueued'
  BY SameQueue
<1>4. Halts' /\ LoopOK'
  BY <1>0 DEF Halts, LoopOK
<1>5. Turns'
  BY <1>0, <1>3 DEF Turns, Halts
<1>6. Acks' /\ row'.ack >= row.ack
  BY <1>0, BoundsAssumption DEF Acks, TypeOK, Row
<1>7. Verified'
  BY <1>0 DEF Verified
<1> QED
  BY <1>2, <1>3, <1>4, <1>5, <1>6, <1>7

\* The session ended (on_state).
LEMMA DisconnectedStep == ASSUME IInv, Disconnected PROVE IInv' /\ row'.ack >= row.ack
<1> USE DEF IInv, Disconnected, gate, history, LoopFree
<1>0. loop' \in Loop /\ loop'.op = "disconnected" /\ loop'.pc = "read" /\ loop'.status = "DEGRADED"
  BY BeginIs DEF LoopOp, ReconciliationStatus
<1>1. TypeOK'
  <2>1. incidents' \in 0..MaxIncidents
    BY BoundsAssumption DEF TypeOK, Incident
  <2> QED
    BY <1>0, <2>1 DEF TypeOK
<1>2. Queued' = Queued /\ OnceQueued'
  BY SameQueue
<1>3. Halts'
  BY <1>0 DEF Halts
<1>4. LoopOK'
  BY <1>0 DEF LoopOK
<1>5. Turns'
  BY <1>0, <1>2 DEF Turns
<1>6. Acks' /\ row'.ack >= row.ack
  BY <1>0, BoundsAssumption DEF Acks, TypeOK, Row
<1>7. Verified'
  BY <1>0 DEF Verified
<1> QED
  BY <1>1, <1>2, <1>3, <1>4, <1>5, <1>6, <1>7

\* The run saves RECONCILING upon the row it read.
LEMMA RunMarkStep == ASSUME IInv, RunMark PROVE IInv' /\ row'.ack >= row.ack
<1> USE DEF IInv, RunMark, tasks, history
<1>0. run' \in Run /\ run'.pc = "compare"
  BY RowTypes DEF TypeOK, Run
<1>1. /\ row' \in Row /\ row'.status = "RECONCILING" /\ row'.ack = row.ack
      /\ fresh' \in BOOLEAN /\ restored' \in BOOLEAN
  <2>1. run.snap \in Row /\ run.snap.ack = row.ack
    BY DEF TypeOK, Run, Acks
  <2>2. /\ row' = [run.snap EXCEPT !.status = "RECONCILING"] /\ fresh' = TRUE
        /\ restored' \in BOOLEAN
    BY SaveIs
  <2> QED
    BY <2>1, <2>2, Saved DEF ReconciliationStatus
<1>2. TypeOK'
  BY <1>0, <1>1 DEF TypeOK
<1>3. Queued' = Queued /\ OnceQueued'
  BY SameQueue
<1>4. Halts' /\ LoopOK'
  BY <1>0 DEF Halts, LoopOK
<1>5. Turns'
  BY <1>0, <1>3 DEF Turns
<1>6. Acks' /\ row'.ack >= row.ack
  BY <1>0, <1>1, BoundsAssumption DEF Acks, TypeOK, Row
<1>7. Verified'
  BY <1>1 DEF Verified
<1> QED
  BY <1>2, <1>3, <1>4, <1>5, <1>6, <1>7

\* The acknowledgement is recorded: no other write is under way.
LEMMA AckSaveStep == ASSUME IInv, AckSave PROVE IInv' /\ row'.ack >= row.ack
<1> USE DEF IInv, AckSave, history
<1>0. /\ loop.pc = "save" /\ loop.op = "ack" /\ loop' = IdleLoop /\ periodic' = "interval"
      /\ row' = [loop.snap EXCEPT !.ack = lastAck] /\ fresh' = TRUE /\ restored' \in BOOLEAN
  BY SaveIs
<1>1. row' \in Row /\ row'.status = loop.snap.status /\ row'.ack = lastAck
  BY <1>0 DEF TypeOK, Loop, Row
<1>2. TypeOK'
  BY <1>0, <1>1, RowTypes DEF TypeOK
<1>3. Queued' = Queued /\ OnceQueued'
  BY SameQueue
<1>4. Halts' /\ LoopOK'
  BY <1>0, RowTypes DEF Halts, LoopOK
<1>5. /\ stream \notin {"off", "exit"} /\ periodic = "ack" /\ run.pc = "idle"
      /\ touch.pc = "idle"
  BY <1>0 DEF Halts, Turns
<1>6. Turns'
  BY <1>0, <1>3, <1>5, RowTypes DEF Turns
<1>7. Acks' /\ row'.ack >= row.ack
  BY <1>0, <1>1, <1>5, RowTypes, BoundsAssumption DEF Acks, TypeOK, Row
<1>8. Verified'
  BY <1>0, <1>1, RowTypes DEF Verified
<1> QED
  BY <1>2, <1>3, <1>4, <1>6, <1>7, <1>8

\* A new acknowledgement is polled.
LEMMA PollAckStep == ASSUME IInv, PollAck PROVE IInv' /\ row'.ack >= row.ack
<1> USE DEF IInv, PollAck, gate, history, LoopFree
<1>1. waiting' \in Seq(Caller) /\ Queued' = Queued \cup {"ack"} /\ OnceQueued'
  BY EnqueueIs DEF TypeOK, Caller
<1>2. TypeOK'
  BY <1>1 DEF TypeOK
<1>3. Halts' /\ LoopOK'
  BY DEF Halts, LoopOK
<1>4. Turns'
  BY <1>1 DEF Turns
<1>5. Acks' /\ row'.ack >= row.ack
  BY BoundsAssumption DEF Acks, TypeOK, Row
<1>6. Verified'
  BY DEF Verified
<1> QED
  BY <1>1, <1>2, <1>3, <1>4, <1>5, <1>6

\* A periodic run is due.
LEMMA PeriodicReconcileStep ==
  ASSUME IInv, PeriodicReconcile
  PROVE  IInv' /\ row'.ack >= row.ack
<1> USE DEF IInv, PeriodicReconcile, gate, history, LoopFree
<1>1. waiting' \in Seq(Caller) /\ Queued' = Queued \cup {"periodic"} /\ OnceQueued'
  BY EnqueueIs DEF TypeOK, Caller
<1>2. TypeOK'
  BY <1>1 DEF TypeOK
<1>3. Halts' /\ LoopOK'
  BY DEF Halts, LoopOK
<1>4. Turns'
  BY <1>1 DEF Turns
<1>5. Acks' /\ row'.ack >= row.ack
  BY BoundsAssumption DEF Acks, TypeOK, Row
<1>6. Verified'
  BY DEF Verified
<1> QED
  BY <1>1, <1>2, <1>3, <1>4, <1>5, <1>6

\* The worker stops between two attempts to connect.
LEMMA StopAsleepStep == ASSUME IInv, StopAsleep PROVE IInv' /\ row'.ack >= row.ack
<1> USE DEF IInv, StopAsleep, gate, history, LoopFree
<1>1. waiting' \in Seq(Caller) /\ Queued' = {} /\ OnceQueued'
  BY EmptyQueue
<1>2. TypeOK'
  BY <1>1 DEF TypeOK
<1>3. Halts' /\ LoopOK'
  BY DEF Halts, LoopOK
<1>4. Turns'
  BY <1>1 DEF Turns
<1>5. Acks' /\ row'.ack >= row.ack
  BY BoundsAssumption DEF Acks, TypeOK, Row
<1>6. Verified'
  BY DEF Verified
<1> QED
  BY <1>1, <1>2, <1>3, <1>4, <1>5, <1>6

\* The process dies with its copies of the row.
LEMMA CrashStep == ASSUME IInv, Crash PROVE IInv' /\ row'.ack >= row.ack
<1> USE DEF IInv, Crash, gate, history
<1>1. waiting' \in Seq(Caller) /\ Queued' = {} /\ OnceQueued'
  BY EmptyQueue
<1>2. TypeOK'
  <2>1. incidents' \in 0..MaxIncidents /\ lastAck' \in 0..MaxAcks
    BY BoundsAssumption DEF TypeOK, Incident
  <2> QED
    BY <1>1, <2>1, RowTypes DEF TypeOK
<1>3. Halts' /\ LoopOK'
  BY RowTypes DEF Halts, LoopOK
<1>4. Turns'
  BY <1>1, RowTypes DEF Turns
<1>5. Acks' /\ row'.ack >= row.ack
  BY RowTypes, BoundsAssumption DEF Acks, TypeOK, Row
<1>6. Verified'
  BY RowTypes DEF Verified
<1> QED
  BY <1>1, <1>2, <1>3, <1>4, <1>5, <1>6

\* The first task in the queue takes the lock (reconcile).
LEMMA StartRunStep == ASSUME IInv, StartRun PROVE IInv' /\ row'.ack >= row.ack
<1> USE DEF IInv, StartRun, gate, history, LoopFree
<1>0. run' \in Run /\ run'.pc = "begin"
  <2>1. PICK b \in BOOLEAN : b <=> Head(waiting) = "ack"
    OBVIOUS
  <2>2. run' = [IdleRun EXCEPT !.pc = "begin", !.ack = b]
    BY <2>1
  <2> QED
    BY <2>2, RowTypes DEF Run
<1>1. /\ waiting' \in Seq(Caller) /\ Head(waiting) \in Caller /\ Head(waiting) \in Queued
      /\ Queued' = Queued \ {Head(waiting)} /\ OnceQueued'
  BY DequeueIs DEF TypeOK
<1>2. TypeOK'
  BY <1>0, <1>1 DEF TypeOK
<1>3. Halts' /\ LoopOK'
  BY DEF Halts, LoopOK
<1>4. Turns'
  BY <1>0, <1>1 DEF Turns, Caller, LoopOK
<1>5. Acks' /\ row'.ack >= row.ack
  BY <1>0, BoundsAssumption DEF Acks, TypeOK, Row
<1>6. Verified'
  BY DEF Verified
<1> QED
  BY <1>1, <1>2, <1>3, <1>4, <1>5, <1>6

\* A verdict has a status.
LEMMA ResultIs ==
  ASSUME NEW verdict \in {"clean", "critical", "pending", "failed"}
  PROVE  Result(verdict) \in ReconciliationStatus
<1>1. CASE verdict = "critical"
  BY <1>1 DEF Result, ReconciliationStatus
<1>2. CASE verdict = "failed"
  BY <1>2 DEF Result, ReconciliationStatus
<1>3. CASE verdict = "pending"
  BY <1>3 DEF Result, ReconciliationStatus
<1>4. CASE verdict = "clean"
  BY <1>4 DEF Result, ReconciliationStatus
<1> QED
  BY <1>1, <1>2, <1>3, <1>4

\* The comparison with the exchange ends.
LEMMA RunCompareStep == ASSUME IInv, RunCompare PROVE IInv' /\ row'.ack >= row.ack
<1> USE DEF IInv, gate, tasks, history
<1>0. run.pc = "compare" /\ UNCHANGED <<gate, tasks, loop, touch, token, history>>
  BY DEF RunCompare
<1>1. run' \in Run /\ run'.pc = "read" /\ incidents' \in 0..MaxIncidents
  <2>1. PICK verdict \in {"clean", "critical", "pending", "failed"} :
          /\ (verdict = "clean" /\ UNCHANGED incidents) \/ (verdict # "clean" /\ Incident)
          /\ run' = [IdleRun EXCEPT !.pc = "read", !.result = Result(verdict),
                                    !.critical = (verdict = "critical")]
    BY DEF RunCompare
  <2>2. PICK c \in BOOLEAN, s \in ReconciliationStatus :
           (c <=> verdict = "critical") /\ s = Result(verdict)
    BY ResultIs
  <2>3. run' = [IdleRun EXCEPT !.pc = "read", !.result = s, !.critical = c]
    BY <2>1, <2>2
  <2>4. run' \in Run /\ run'.pc = "read"
    BY <2>3, RowTypes DEF Run
  <2>5. incidents' \in 0..MaxIncidents
    BY <2>1, BoundsAssumption DEF TypeOK, Incident
  <2> QED
    BY <2>4, <2>5
<1>2. TypeOK'
  BY <1>0, <1>1 DEF TypeOK
<1>3. Queued' = Queued /\ OnceQueued'
  BY <1>0, SameQueue
<1>4. Halts' /\ LoopOK'
  BY <1>0, <1>1 DEF Halts, LoopOK
<1>5. Turns'
  BY <1>0, <1>1, <1>3 DEF Turns
<1>6. Acks' /\ row'.ack >= row.ack
  BY <1>0, <1>1, BoundsAssumption DEF Acks, TypeOK, Row
<1>7. Verified'
  BY <1>0 DEF Verified
<1> QED
  BY <1>2, <1>3, <1>4, <1>5, <1>6, <1>7

\* The caller of reconcile goes on: the lock is free, and the caller's own place
\* in the queue was one only.
LEMMA ReleaseIs ==
  ASSUME IInv, run.pc # "idle", stream \notin {"off", "exit"}, Release, loop' \in Loop,
         loop'.op = IF lock = "ack" THEN "ack" ELSE "none", UNCHANGED <<waiting, touch>>
  PROVE  /\ run' \in Run /\ run'.pc = "idle" /\ lock' = "free"
         /\ stream' \in {stream, "session"} /\ periodic' \in {periodic, "sleep"}
         /\ Halts' /\ Turns' /\ OnceQueued'
<1>1. /\ run' \in Run /\ run'.pc = "idle" /\ lock' = "free"
      /\ stream' = IF lock = "stream" THEN "session" ELSE stream
      /\ periodic' = IF lock = "periodic" THEN "sleep" ELSE periodic
  BY RowTypes DEF Release
<1>2. Queued' = Queued /\ OnceQueued'
  BY SameQueue DEF IInv
<1>3. Halts'
  BY <1>1 DEF Halts
<1>4. Turns'
  <2>1. lock # "free"
    BY DEF IInv, Turns
  <2>2. CASE lock = "ack"
    BY <1>1, <1>2, <2>2 DEF IInv, Turns
  <2>3. CASE lock = "periodic"
    BY <1>1, <1>2, <2>3 DEF IInv, Turns
  <2>4. CASE lock \notin {"ack", "periodic"}
    BY <1>1, <1>2, <2>1, <2>4 DEF IInv, Turns
  <2> QED
    BY <2>2, <2>3, <2>4
<1> QED
  BY <1>1, <1>2, <1>3, <1>4

\* The thread of a run returned: the result stands, or HEALTHY is undone.
LEMMA RunReturnStep == ASSUME IInv, RunReturn PROVE IInv' /\ row'.ack >= row.ack
<1> USE DEF IInv, gate, history
<1>0. /\ loop.op = "none" /\ loop.pc = "idle" /\ stream \notin {"off", "exit"} /\ run.pc = "done"
      /\ UNCHANGED <<gate, connected, stopping, waiting, lastAck, touch, token, incidents, history>>
  BY DEF RunReturn, LoopFree, LoopOK
<1>1. CASE Begin("postcheck", "DEGRADED") /\ UNCHANGED <<lock, run, stream, periodic>>
  <2>1. /\ loop' \in Loop /\ loop'.op = "postcheck" /\ loop'.pc = "read"
        /\ loop'.status = "DEGRADED"
    BY <1>1, BeginIs DEF LoopOp, ReconciliationStatus
  <2>2. TypeOK'
    BY <1>0, <1>1, <2>1 DEF TypeOK
  <2>3. Queued' = Queued /\ OnceQueued'
    BY <1>0, SameQueue
  <2>4. Halts' /\ LoopOK'
    BY <1>0, <1>1, <2>1 DEF Halts, LoopOK
  <2>5. Turns'
    BY <1>0, <1>1, <2>1, <2>3 DEF Turns
  <2>6. Acks' /\ row'.ack >= row.ack
    BY <1>0, <1>1, <2>1, BoundsAssumption DEF Acks, TypeOK, Row
  <2>7. Verified'
    BY <1>0, <1>1, <2>1 DEF Verified
  <2> QED
    BY <2>2, <2>3, <2>4, <2>5, <2>6, <2>7
<1>2. CASE Release /\ IF lock = "ack" THEN Begin("ack", "keep") ELSE UNCHANGED loop
  <2>1. /\ loop' \in Loop /\ loop'.op = (IF lock = "ack" THEN "ack" ELSE "none")
        /\ loop'.pc = (IF lock = "ack" THEN "read" ELSE "idle") /\ loop'.status # "HEALTHY"
    <3>1. CASE lock = "ack"
      BY <1>2, <3>1, BeginIs DEF LoopOp
    <3>2. CASE lock # "ack"
      BY <1>0, <1>2, <3>2 DEF TypeOK, LoopOK
    <3> QED
      BY <3>1, <3>2
  <2>2. /\ run' \in Run /\ run'.pc = "idle" /\ lock' = "free"
        /\ stream' \in {stream, "session"} /\ periodic' \in {periodic, "sleep"}
        /\ Halts' /\ Turns' /\ OnceQueued'
    BY <1>0, <1>2, <2>1, ReleaseIs
  <2>3. TypeOK'
    BY <1>0, <2>1, <2>2 DEF TypeOK
  <2>4. LoopOK'
    BY <2>1 DEF LoopOK
  <2>5. Acks' /\ row'.ack >= row.ack
    BY <1>0, <2>1, <2>2, BoundsAssumption DEF Acks, TypeOK, Row
  <2>6. Verified'
    BY <1>0, <2>1, <2>2 DEF Verified
  <2> QED
    BY <2>2, <2>3, <2>4, <2>5, <2>6
<1> QED
  BY <1>1, <1>2 DEF RunReturn

\* HEALTHY is undone for a stream that dropped meanwhile.
LEMMA PostCheckSaveStep == ASSUME IInv, PostCheckSave PROVE IInv' /\ row'.ack >= row.ack
<1> USE DEF IInv, history
<1>0. /\ loop.op = "postcheck" /\ loop.pc = "save" /\ stream \notin {"off", "exit"}
      /\ Release /\ run.pc # "idle"
      /\ UNCHANGED <<connected, stopping, waiting, lastAck, touch, token, incidents, history>>
  BY DEF PostCheckSave, Halts, LoopOK, Turns
<1>1. /\ row' \in Row /\ row'.status = "DEGRADED" /\ row'.ack = row.ack /\ fresh' = TRUE
      /\ restored' \in BOOLEAN
  <2>1. loop.snap \in Row /\ loop.snap.ack = row.ack
    BY <1>0 DEF TypeOK, Loop, Acks
  <2>2. /\ row' = [loop.snap EXCEPT !.status = "DEGRADED"] /\ fresh' = TRUE
        /\ restored' \in BOOLEAN
    BY SaveIs DEF PostCheckSave
  <2> QED
    BY <2>1, <2>2, Saved DEF ReconciliationStatus
<1>2. /\ loop' \in Loop /\ loop'.op = (IF lock = "ack" THEN "ack" ELSE "none")
      /\ loop'.pc = (IF lock = "ack" THEN "read" ELSE "idle") /\ loop'.status # "HEALTHY"
  <2>1. CASE lock = "ack"
    BY <2>1, BeginIs DEF LoopOp, PostCheckSave
  <2>2. CASE lock # "ack"
    BY <2>2, RowTypes DEF PostCheckSave
  <2> QED
    BY <2>1, <2>2
<1>3. /\ run' \in Run /\ run'.pc = "idle" /\ lock' = "free"
      /\ stream' \in {stream, "session"} /\ periodic' \in {periodic, "sleep"}
      /\ Halts' /\ Turns' /\ OnceQueued'
  BY <1>0, <1>2, ReleaseIs
<1>4. TypeOK'
  BY <1>0, <1>1, <1>2, <1>3 DEF TypeOK
<1>5. LoopOK'
  BY <1>2 DEF LoopOK
<1>6. Acks' /\ row'.ack >= row.ack
  BY <1>0, <1>1, <1>2, <1>3, BoundsAssumption DEF Acks, TypeOK, Row
<1>7. Verified'
  BY <1>0, <1>1, <1>2 DEF Verified
<1> QED
  BY <1>3, <1>4, <1>5, <1>6, <1>7

\* What follows a write of the event loop keeps the tasks in their places.
LEMMA AfterWriteIs ==
  ASSUME IInv, loop.pc # "idle", AfterWrite, loop' = IdleLoop, UNCHANGED <<run, touch, token>>,
         row' \in Row, row'.ack = row.ack
  PROVE  /\ stream' \in {"backoff", "connecting", "subscribed", "session", "exit"}
         /\ periodic' \in {periodic, "sleep", "none"} /\ lock' \in {lock, "free"}
         /\ waiting' \in Seq(Caller) /\ lastAck' \in {lastAck, row.ack}
         /\ Halts' /\ Turns' /\ OnceQueued' /\ row'.ack <= lastAck'
<1>1. loop'.op = "none" /\ loop'.pc = "idle"
  BY RowTypes
<1>2. row.ack \in Nat
  BY BoundsAssumption DEF IInv, TypeOK, Row
<1>3. ASSUME loop.op # "start"
      PROVE  stream \in {"backoff", "connecting", "subscribed", "session"} /\ row.ack <= lastAck
  BY <1>3 DEF IInv, TypeOK, Halts, LoopOK, Acks
<1>4. ASSUME UNCHANGED waiting
      PROVE  Queued' = Queued /\ OnceQueued' /\ waiting' \in Seq(Caller)
  BY <1>4, SameQueue DEF IInv, TypeOK
<1>5. CASE loop.op = "start"
  <2>1. /\ stream' = "backoff" /\ periodic' = "sleep" /\ lastAck' = row'.ack
        /\ UNCHANGED <<lock, waiting>>
    BY <1>5 DEF AfterWrite
  <2>2. /\ run.pc = "idle" /\ touch.pc = "idle" /\ lock = "free" /\ waiting = <<>>
    BY <1>5 DEF IInv, LoopOK, Halts
  <2>3. Queued' = {} /\ OnceQueued' /\ waiting' \in Seq(Caller)
    BY <2>1, <2>2, EmptyQueue
  <2>4. Halts' /\ Turns'
    BY <1>1, <2>1, <2>2, <2>3 DEF Halts, Turns
  <2> QED
    BY <1>2, <2>1, <2>3, <2>4
<1>6. CASE loop.op = "connecting"
  <2>1. stream' = "connecting" /\ UNCHANGED <<periodic, lock, waiting, lastAck>>
    BY <1>6 DEF AfterWrite
  <2>2. Halts' /\ Turns'
    BY <1>1, <1>3, <1>4, <1>6, <2>1 DEF Halts, Turns, IInv
  <2> QED
    BY <1>3, <1>4, <1>6, <2>1, <2>2
<1>7. CASE loop.op = "subscribed"
  <2>1. stream' = "subscribed" /\ Enqueue("stream") /\ UNCHANGED <<periodic, lock, lastAck>>
    BY <1>7 DEF AfterWrite
  <2>2. Queued' = Queued \cup {"stream"} /\ OnceQueued' /\ waiting' \in Seq(Caller)
    BY <2>1, EnqueueIs DEF IInv, TypeOK, Caller
  <2>3. Halts' /\ Turns'
    BY <1>1, <1>3, <1>7, <2>1, <2>2 DEF Halts, Turns, IInv
  <2> QED
    BY <1>3, <1>7, <2>1, <2>2, <2>3
<1>8. CASE loop.op = "disconnected" /\ stopping
  <2>1. /\ stream' = "exit" /\ periodic' = "none" /\ lock' = "free" /\ waiting' = <<>>
        /\ UNCHANGED lastAck
    BY <1>8 DEF AfterWrite
  <2>2. Queued' = {} /\ OnceQueued' /\ waiting' \in Seq(Caller)
    BY <2>1, EmptyQueue
  <2>3. Halts' /\ Turns'
    BY <1>1, <2>1, <2>2 DEF Halts, Turns
  <2> QED
    BY <1>3, <1>8, <2>1, <2>2, <2>3
<1>9. CASE loop.op = "disconnected" /\ ~stopping
  <2>1. stream' = "backoff" /\ UNCHANGED <<periodic, lock, waiting, lastAck>>
    BY <1>9 DEF AfterWrite
  <2>2. Halts' /\ Turns'
    BY <1>1, <1>3, <1>4, <1>9, <2>1 DEF Halts, Turns, IInv
  <2> QED
    BY <1>3, <1>4, <1>9, <2>1, <2>2
<1>10. CASE loop.op = "event"
  <2>1. (Enqueue("event") \/ UNCHANGED waiting) /\ UNCHANGED <<stream, periodic, lock, lastAck>>
    BY <1>10 DEF AfterWrite
  <2>2. /\ Queued' \in {Queued, Queued \cup {"event"}} /\ OnceQueued'
        /\ waiting' \in Seq(Caller)
    BY <1>4, <2>1, EnqueueIs DEF IInv, TypeOK, Caller
  <2>3. Halts' /\ Turns'
    BY <1>1, <1>3, <1>10, <2>1, <2>2 DEF Halts, Turns, IInv
  <2> QED
    BY <1>3, <1>10, <2>1, <2>2, <2>3
<1> QED
  BY <1>5, <1>6, <1>7, <1>8, <1>9, <1>10 DEF AfterWrite

\* The event loop reads the row; a halt stays.
LEMMA LoopReadStep == ASSUME IInv, LoopRead PROVE IInv' /\ row'.ack >= row.ack
<1> USE DEF IInv, history
<1>0. /\ loop.pc = "read" /\ row' = row /\ row \in Row /\ row.ack \in Nat
      /\ UNCHANGED <<fresh, restored, connected, stopping, run, touch, token, incidents, history>>
  BY BoundsAssumption DEF LoopRead, TypeOK, Row
<1>1. CASE /\ loop' = [loop EXCEPT !.pc = "save", !.snap = row]
           /\ UNCHANGED <<stream, periodic, lock, waiting, lastAck>>
  <2>1. /\ loop' \in Loop /\ loop'.op = loop.op /\ loop'.pc = "save" /\ loop'.snap = row
        /\ loop'.status = loop.status
    BY <1>0, <1>1 DEF TypeOK, Loop
  <2>2. TypeOK'
    BY <1>0, <1>1, <2>1 DEF TypeOK
  <2>3. Queued' = Queued /\ OnceQueued'
    BY <1>1, SameQueue
  <2>4. Halts' /\ LoopOK'
    BY <1>0, <1>1, <2>1 DEF Halts, LoopOK
  <2>5. Turns'
    BY <1>0, <1>1, <2>1, <2>3 DEF Turns
  <2>6. Acks' /\ row'.ack >= row.ack
    BY <1>0, <1>1, <2>1 DEF Acks
  <2>7. Verified'
    BY <1>0, <1>1, <2>1 DEF Verified, Halts, LoopOK
  <2> QED
    BY <2>2, <2>3, <2>4, <2>5, <2>6, <2>7
<1>2. CASE /\ row.status = "HALTED" /\ loop.op = "disconnected"
           /\ loop' = [loop EXCEPT !.pc = "save", !.status = "HALTED", !.snap = row]
           /\ UNCHANGED <<stream, periodic, lock, waiting, lastAck>>
  <2>1. /\ loop' \in Loop /\ loop'.op = loop.op /\ loop'.pc = "save" /\ loop'.snap = row
        /\ loop'.status = "HALTED"
    BY <1>0, <1>2 DEF TypeOK, Loop, ReconciliationStatus
  <2>2. TypeOK'
    BY <1>0, <1>2, <2>1 DEF TypeOK
  <2>3. Queued' = Queued /\ OnceQueued'
    BY <1>2, SameQueue
  <2>4. Halts' /\ LoopOK'
    BY <1>0, <1>2, <2>1 DEF Halts, LoopOK
  <2>5. Turns'
    BY <1>0, <1>2, <2>1, <2>3 DEF Turns
  <2>6. Acks' /\ row'.ack >= row.ack
    BY <1>0, <1>2, <2>1 DEF Acks
  <2>7. Verified'
    BY <1>0, <1>2, <2>1 DEF Verified
  <2> QED
    BY <2>2, <2>3, <2>4, <2>5, <2>6, <2>7
<1>3. CASE row.status = "HALTED" /\ loop' = IdleLoop /\ AfterWrite
  <2>1. /\ stream' \in {"backoff", "connecting", "subscribed", "session", "exit"}
        /\ periodic' \in {periodic, "sleep", "none"} /\ lock' \in {lock, "free"}
        /\ waiting' \in Seq(Caller) /\ lastAck' \in {lastAck, row.ack}
        /\ Halts' /\ Turns' /\ OnceQueued' /\ row'.ack <= lastAck'
    BY <1>0, <1>3, AfterWriteIs
  <2>2. TypeOK'
    BY <1>0, <1>3, <2>1, RowTypes DEF TypeOK, Row
  <2>3. LoopOK'
    BY <1>3, RowTypes DEF LoopOK
  <2>4. Acks' /\ row'.ack >= row.ack
    BY <1>0, <1>3, <2>1, RowTypes DEF Acks
  <2>5. Verified'
    BY <1>0, <1>3, RowTypes DEF Verified
  <2> QED
    BY <2>1, <2>2, <2>3, <2>4, <2>5
<1> QED
  BY <1>1, <1>2, <1>3 DEF LoopRead

\* The event loop saves the row.
LEMMA LoopSaveStep == ASSUME IInv, LoopSave PROVE IInv' /\ row'.ack >= row.ack
<1> USE DEF IInv, history
<1>0. /\ loop.pc = "save" /\ loop' = IdleLoop /\ AfterWrite
      /\ UNCHANGED <<connected, stopping, run, touch, token, incidents, history>>
  BY DEF LoopSave
<1>1. loop.snap \in Row /\ loop.snap.ack = row.ack
  BY <1>0 DEF TypeOK, Loop, Acks
<1>2. PICK s \in ReconciliationStatus :
         /\ s = IF loop.status = "keep" THEN loop.snap.status ELSE loop.status
         /\ row' = [loop.snap EXCEPT !.status = s]
         /\ fresh' = TRUE /\ restored' \in BOOLEAN
  <2>1. loop.status \in ReconciliationStatus \cup {"keep"} /\ loop.snap.status \in ReconciliationStatus
    BY <1>1 DEF TypeOK, Loop, Row
  <2> QED
    BY <2>1, SaveIs DEF LoopSave
<1>3. /\ row' \in Row /\ row'.ack = row.ack /\ row'.status = s /\ fresh' = TRUE
      /\ restored' \in BOOLEAN
  BY <1>1, <1>2, Saved
<1>4. /\ stream' \in {"backoff", "connecting", "subscribed", "session", "exit"}
      /\ periodic' \in {periodic, "sleep", "none"} /\ lock' \in {lock, "free"}
      /\ waiting' \in Seq(Caller) /\ lastAck' \in {lastAck, row.ack}
      /\ Halts' /\ Turns' /\ OnceQueued' /\ row'.ack <= lastAck'
  BY <1>0, <1>3, AfterWriteIs
<1>5. TypeOK'
  BY <1>0, <1>3, <1>4, RowTypes DEF TypeOK, Row
<1>6. LoopOK'
  BY <1>0, RowTypes DEF LoopOK
<1>7. Acks' /\ row'.ack >= row.ack
  <2>1. row.ack \in Nat
    BY BoundsAssumption DEF TypeOK, Row
  <2> QED
    BY <1>0, <1>3, <1>4, <2>1, RowTypes DEF Acks
<1>8. Verified'
  BY <1>0, <1>2, <1>3, RowTypes DEF Verified, LoopOK
<1> QED
  BY <1>4, <1>5, <1>6, <1>7, <1>8

-----------------------------------------------------------------------------
\* The invariant holds at first.
LEMMA InitIInv == Init => IInv
<1> SUFFICES ASSUME Init PROVE IInv
  OBVIOUS
<1>1. /\ row = NeverReconciled /\ fresh = FALSE
      /\ stream = "off" /\ connected = FALSE /\ stopping = FALSE
      /\ loop = IdleLoop /\ run = IdleRun /\ touch = IdleTouch
      /\ periodic = "none" /\ lock = "free" /\ waiting = <<>>
      /\ lastAck = 0 /\ token = 0 /\ incidents = 0
      /\ restored = FALSE /\ verified = FALSE /\ halted = FALSE
  BY DEF Init
<1>2. waiting \in Seq(Caller) /\ Queued = {} /\ OnceQueued
  BY <1>1, EmptySeq DEF Queued, OnceQueued
<1>3. /\ row \in Row /\ row.status = "CONNECTING" /\ row.ack = 0
      /\ loop \in Loop /\ loop.op = "none" /\ loop.pc = "idle" /\ loop.status = "keep"
      /\ run \in Run /\ run.pc = "idle" /\ touch \in Touch /\ touch.pc = "idle"
  BY <1>1, RowTypes DEF NeverReconciled
<1>4. TypeOK
  <2>1. lastAck \in 0..MaxAcks /\ token \in 0..MaxAcks /\ incidents \in 0..MaxIncidents
    BY <1>1, BoundsAssumption
  <2> QED
    BY <1>1, <1>2, <1>3, <2>1 DEF TypeOK
<1>5. Halts /\ LoopOK
  BY <1>1, <1>3 DEF Halts, LoopOK
<1>6. Turns
  BY <1>1, <1>2, <1>3 DEF Turns
<1>7. Acks /\ Verified
  BY <1>1, <1>3 DEF Acks, Verified
<1> QED
  BY <1>2, <1>4, <1>5, <1>6, <1>7 DEF IInv

\* Every step keeps the invariant, and the recorded token.
LEMMA NextIInv == ASSUME IInv, [Next]_vars PROVE IInv' /\ row'.ack >= row.ack
<1>1. CASE UNCHANGED vars
  <2>1. UNCHANGED <<row, fresh, restored, stream, connected, stopping, loop, run, touch, periodic, lock,
                    waiting, lastAck, token, incidents, verified, halted>>
    BY <1>1 DEF vars, gate, tasks, history
  <2>2. Queued' = Queued /\ OnceQueued'
    BY <2>1, SameQueue DEF IInv
  <2>3. TypeOK' /\ Halts' /\ LoopOK'
    BY <2>1 DEF IInv, TypeOK, Halts, LoopOK
  <2>4. Turns'
    BY <2>1, <2>2 DEF IInv, Turns
  <2>5. Acks' /\ Verified' /\ row'.ack >= row.ack
    BY <2>1, BoundsAssumption DEF IInv, TypeOK, Row, Acks, Verified
  <2> QED
    BY <2>2, <2>3, <2>4, <2>5 DEF IInv
<1>2. CASE Streaming \/ Disconnected \/ StreamEvent
  BY <1>2, WorkerStartStep, ConnectStep, SubscribedStep, DisconnectedStep, StreamEventStep
     DEF Streaming
<1>3. CASE EventLoop
  BY <1>3, LoopReadStep, LoopSaveStep, PostCheckSaveStep, AckSaveStep DEF EventLoop
<1>4. CASE StartRun \/ RunThread \/ RunReturn
  BY <1>4, StartRunStep, RunBeginStep, RunMarkStep, RunCompareStep, RunReadStep, RunSaveStep,
     RunReturnStep DEF RunThread
<1>5. CASE TouchThread \/ PeriodicTask \/ PeriodicDies
  BY <1>5, TouchReadStep, TouchSaveStep, PeriodicWakesStep, TouchReturnsStep, PollAckStep,
     PollNothingStep, PeriodicReconcileStep, PeriodicSleepsStep, PeriodicDiesStep
     DEF TouchThread, PeriodicTask
<1>6. CASE Acknowledge \/ Expire \/ Stop \/ StopAsleep \/ Exit \/ Crash
  BY <1>6, AcknowledgeStep, ExpireStep, StopStep, StopAsleepStep, ExitStep, CrashStep
<1> QED
  BY <1>1, <1>2, <1>3, <1>4, <1>5, <1>6 DEF Next

\* The inductive invariant holds in every reachable state.
THEOREM Invariance == Spec => []IInv
<1>1. Init => IInv
  BY InitIInv
<1>2. IInv /\ [Next]_vars => IInv'
  BY NextIInv
<1> QED
  BY <1>1, <1>2, PTL DEF Spec

\* Every variable keeps its type.
THEOREM TypeCorrect == Spec => []TypeOK
<1>1. IInv => TypeOK
  BY DEF IInv
<1> QED
  BY <1>1, Invariance, PTL

\* While the worker runs, HEALTHY was earned by a clean run of this process: no
\* copy of the row from an earlier life brings it back (RUNBOOK: the worker re-
\* verifies after a restart).
THEOREM HealthyWasVerified == Spec => []VerifiedSinceStart
<1>1. IInv => VerifiedSinceStart
  BY DEF IInv, Verified, VerifiedSinceStart
<1> QED
  BY <1>1, Invariance, PTL

\* The recorded acknowledgement never goes back, although every writer saves the
\* whole row from an earlier read (_periodic, on_event, touch, set_state).
THEOREM AckRemembered == Spec => AckNeverForgotten
<1>1. IInv /\ [Next]_vars => [row'.ack >= row.ack]_row
  BY NextIInv
<1> QED
  BY <1>1, Invariance, PTL DEF Spec, AckNeverForgotten

-----------------------------------------------------------------------------
(* A lost stream keeps entries blocked.                                      *)

\* A callback of a session finds it connected, and the write of a lost one says
\* so; a caller that waits for the first run of a session is still subscribed;
\* nobody writes the row between the read and the save of an acknowledgement.
Sessions ==
    /\ loop.op \in {"event", "subscribed"} => connected
    /\ stream \in {"subscribed", "session"} => connected \/ loop.op = "disconnected"
    /\ "stream" \in Queued \cup {lock} => stream = "subscribed"
    /\ lock = "stream" => "stream" \notin Queued
    /\ loop.op = "disconnected" => stream \in {"connecting", "session"}
    /\ loop.op = "connecting" => stream = "backoff"
    /\ loop.op = "subscribed" => stream = "connecting"
    /\ loop.op \in {"start", "connecting", "disconnected"} => loop.status # "keep"
    /\ loop.op = "ack" /\ loop.pc = "save" => loop.snap = row

Disc == Sessions /\ BlockedWhileDisconnected

\* The event loop begins a write: a lost session says so, and no other callback
\* finds the stream lost.
LEMMA BeginDisc ==
  ASSUME IInv, Disc, NEW op \in LoopOp, NEW s \in ReconciliationStatus \cup {"keep"},
         Begin(op, s), loop.op = "none", UNCHANGED <<row, restored, run, lock, waiting, stream>>,
         op \in {"event", "subscribed"} => connected',
         stream \in {"subscribed", "session"} => connected' \/ op = "disconnected",
         op = "disconnected" => stream \in {"connecting", "session"},
         op = "connecting" => stream = "backoff", op = "subscribed" => stream = "connecting",
         op \in {"start", "connecting", "disconnected"} => s # "keep",
         Blocked' => Blocked
  PROVE  Disc'
<1>1. loop'.op = op /\ loop'.pc = "read" /\ loop'.status = s
  BY BeginIs
<1>2. Queued' = Queued
  BY DEF Queued
<1>3. Sessions'
  BY <1>1, <1>2 DEF Disc, Sessions
<1>4. BlockedWhileDisconnected'
  BY DEF Disc, BlockedWhileDisconnected
<1> QED
  BY <1>3, <1>4 DEF Disc

\* The stream's callbacks begin their writes.
LEMMA StreamDisc ==
  ASSUME IInv, Disc, WorkerStart \/ Connect \/ Subscribed \/ Disconnected \/ StreamEvent
  PROVE  Disc'
<1>1. CASE WorkerStart
  <2>1. Begin("start", "CONNECTING") /\ stream = "off" /\ loop.op = "none"
        /\ UNCHANGED <<row, restored, run, lock, waiting, stream, connected>>
    BY <1>1 DEF WorkerStart, gate
  <2>2. ~Blocked'
    BY <2>1 DEF Blocked
  <2> QED
    BY <2>1, <2>2, BeginDisc DEF LoopOp, ReconciliationStatus
<1>2. CASE Connect
  <2>1. Begin("connecting", "CONNECTING") /\ stream = "backoff" /\ loop.op = "none"
        /\ UNCHANGED <<row, restored, run, lock, waiting, stream>>
    BY <1>2 DEF Connect, LoopFree, gate
  <2>2. loop'.op = "connecting"
    BY <2>1, BeginIs DEF LoopOp, ReconciliationStatus
  <2>3. ~Blocked'
    BY <2>2 DEF Blocked
  <2> QED
    BY <2>1, <2>3, BeginDisc DEF LoopOp, ReconciliationStatus
<1>3. CASE Subscribed
  <2>1. Begin("subscribed", "keep") /\ stream = "connecting" /\ loop.op = "none" /\ connected'
        /\ UNCHANGED <<row, restored, run, lock, waiting, stream>>
    BY <1>3 DEF Subscribed, LoopFree, gate
  <2>2. ~Blocked'
    BY <2>1 DEF Blocked
  <2> QED
    BY <2>1, <2>2, BeginDisc DEF LoopOp
<1>4. CASE Disconnected
  <2>1. /\ Begin("disconnected", "DEGRADED") /\ stream \in {"connecting", "session"}
        /\ loop.op = "none" /\ UNCHANGED <<row, restored, run, lock, waiting, stream>>
    BY <1>4 DEF Disconnected, LoopFree, gate
  <2>2. loop'.op = "disconnected"
    BY <2>1, BeginIs DEF LoopOp, ReconciliationStatus
  <2>3. ~Blocked'
    BY <2>2 DEF Blocked
  <2> QED
    BY <2>1, <2>3, BeginDisc DEF LoopOp, ReconciliationStatus
<1>5. CASE StreamEvent
  <2>1. Begin("event", "keep") /\ stream \in {"subscribed", "session"} /\ loop.op = "none"
        /\ UNCHANGED <<row, restored, run, lock, waiting, stream, connected>>
    BY <1>5 DEF StreamEvent, LoopFree, gate, tasks
  <2>2. connected
    BY <2>1 DEF Disc, Sessions
  <2>3. ~Blocked'
    BY <2>1, <2>2 DEF Blocked
  <2> QED
    BY <2>1, <2>2, <2>3, BeginDisc DEF LoopOp
<1> QED
  BY <1>1, <1>2, <1>3, <1>4, <1>5

\* What follows a write of the event loop.
LEMMA AfterWriteDisc ==
  ASSUME IInv, Disc, loop.pc # "idle", AfterWrite, loop' = IdleLoop, UNCHANGED <<run, connected>>,
         row'.status = "HEALTHY" => loop.op \in {"subscribed", "event"}
  PROVE  Disc'
<1>1. loop'.op = "none" /\ loop'.pc = "idle"
  BY RowTypes
<1>2. BlockedWhileDisconnected'
  BY DEF Disc, Sessions, BlockedWhileDisconnected, Blocked
<1>3. waiting' = waiting => Queued' = Queued
  BY DEF Queued
<1>4. CASE loop.op = "start"
  <2>1. stream = "off" /\ lock = "free" /\ waiting = <<>>
    BY <1>4 DEF IInv, LoopOK, Halts
  <2>2. stream' = "backoff" /\ UNCHANGED <<lock, waiting>>
    BY <1>4 DEF AfterWrite
  <2>3. Queued' = {}
    BY <2>1, <2>2, EmptyQueue
  <2> QED
    BY <1>1, <1>2, <2>1, <2>2, <2>3 DEF Disc, Sessions
<1>5. CASE loop.op = "connecting"
  <2>1. stream' = "connecting" /\ UNCHANGED <<lock, waiting>>
    BY <1>5 DEF AfterWrite
  <2> QED
    BY <1>1, <1>2, <1>3, <1>5, <2>1 DEF Disc, Sessions
<1>6. CASE loop.op = "subscribed"
  <2>1. stream' = "subscribed" /\ Enqueue("stream") /\ UNCHANGED lock
    BY <1>6 DEF AfterWrite
  <2>2. Queued' = Queued \cup {"stream"}
    BY <2>1, EnqueueIs DEF IInv, TypeOK, Caller
  <2> QED
    BY <1>1, <1>2, <1>6, <2>1, <2>2 DEF Disc, Sessions
<1>7. CASE loop.op = "disconnected"
  <2>1. \/ stream' = "exit" /\ lock' = "free" /\ waiting' = <<>>
        \/ stream' = "backoff" /\ UNCHANGED <<lock, waiting>>
    BY <1>7 DEF AfterWrite
  <2>2. stream \in {"connecting", "session"}
    BY <1>7 DEF Disc, Sessions
  <2>3. waiting' = <<>> => Queued' = {}
    BY EmptyQueue
  <2> QED
    BY <1>1, <1>2, <1>3, <2>1, <2>2, <2>3 DEF Disc, Sessions
<1>8. CASE loop.op = "event"
  <2>1. (Enqueue("event") \/ UNCHANGED waiting) /\ UNCHANGED <<stream, lock>>
    BY <1>8 DEF AfterWrite
  <2>2. Queued' \in {Queued, Queued \cup {"event"}}
    BY <1>3, <2>1, EnqueueIs DEF IInv, TypeOK, Caller
  <2> QED
    BY <1>1, <1>2, <1>8, <2>1, <2>2 DEF Disc, Sessions
<1> QED
  BY <1>4, <1>5, <1>6, <1>7, <1>8 DEF AfterWrite

\* The event loop reads and saves the row.
LEMMA LoopDisc ==
  ASSUME IInv, Disc, LoopRead \/ LoopSave \/ AckSave
  PROVE  Disc'
<1>1. CASE LoopRead
  <2>1. /\ loop.pc = "read" /\ row' = row /\ UNCHANGED <<restored, connected, run>>
    BY <1>1 DEF LoopRead
  <2>2. CASE /\ loop'.op = loop.op /\ loop'.snap = row
             /\ loop.op \in {"start", "connecting", "disconnected"} => loop'.status # "keep"
             /\ UNCHANGED <<stream, lock, waiting>>
    <3>1. Queued' = Queued
      BY <2>2 DEF Queued
    <3>2. Sessions'
      BY <2>1, <2>2, <3>1 DEF Disc, Sessions
    <3>3. BlockedWhileDisconnected'
      BY <2>1, <2>2 DEF Disc, BlockedWhileDisconnected, Blocked
    <3> QED
      BY <3>2, <3>3 DEF Disc
  <2>3. CASE row.status = "HALTED" /\ loop' = IdleLoop /\ AfterWrite
    BY <2>1, <2>3, AfterWriteDisc
  <2>4. CASE loop' = [loop EXCEPT !.pc = "save", !.snap = row] /\ UNCHANGED <<stream, lock, waiting>>
    <3>1. loop'.op = loop.op /\ loop'.snap = row /\ loop'.status = loop.status
      BY <2>4 DEF IInv, TypeOK, Loop
    <3> QED
      BY <2>2, <2>4, <3>1 DEF Disc, Sessions
  <2>5. CASE /\ loop' = [loop EXCEPT !.pc = "save", !.status = "HALTED", !.snap = row]
             /\ UNCHANGED <<stream, lock, waiting>>
    <3>1. loop'.op = loop.op /\ loop'.snap = row /\ loop'.status = "HALTED"
      BY <2>5 DEF IInv, TypeOK, Loop
    <3> QED
      BY <2>2, <2>5, <3>1 DEF Disc, Sessions
  <2> QED
    BY <1>1, <2>3, <2>4, <2>5 DEF LoopRead
<1>2. CASE LoopSave
  <2>1. /\ loop.pc = "save" /\ loop' = IdleLoop /\ AfterWrite /\ UNCHANGED <<connected, run>>
    BY <1>2 DEF LoopSave
  <2>2. loop.snap \in Row /\ loop.status # "HEALTHY"
    BY DEF IInv, TypeOK, Loop, LoopOK
  <2>3. ASSUME loop.status # "keep" PROVE row'.status # "HEALTHY"
    <3>1. row' = [loop.snap EXCEPT !.status = loop.status]
      BY <1>2, <2>3, SaveIs DEF LoopSave
    <3> QED
      BY <2>2, <3>1 DEF Row
  <2>4. row'.status = "HEALTHY" => loop.op \in {"subscribed", "event"}
    BY <2>1, <2>3 DEF AfterWrite, Disc, Sessions
  <2> QED
    BY <2>1, <2>4, AfterWriteDisc
<1>3. CASE AckSave
  <2>1. /\ loop.op = "ack" /\ loop.pc = "save" /\ loop' = IdleLoop
        /\ row' = [loop.snap EXCEPT !.ack = lastAck]
        /\ restored' <=> restored /\ [loop.snap EXCEPT !.ack = lastAck].status = "HEALTHY"
        /\ UNCHANGED <<stream, connected, lock, waiting, run>>
    BY <1>3, SaveIs DEF AckSave
  <2>2. loop.snap = row /\ row \in Row
    BY <2>1 DEF Disc, Sessions, IInv, TypeOK
  <2>3. row'.status = row.status /\ [loop.snap EXCEPT !.ack = lastAck].status = row.status
    BY <2>1, <2>2 DEF Row
  <2>4. Queued' = Queued /\ loop'.op = "none" /\ loop'.pc = "idle"
    BY <2>1, RowTypes DEF Queued
  <2>5. Sessions'
    BY <2>1, <2>4 DEF Disc, Sessions
  <2>6. BlockedWhileDisconnected'
    BY <2>1, <2>3, <2>4 DEF Disc, BlockedWhileDisconnected, Blocked
  <2> QED
    BY <2>5, <2>6 DEF Disc
<1> QED
  BY <1>1, <1>2, <1>3

\* The run's thread: what it saves as HEALTHY is checked when it returns.
LEMMA RunDisc ==
  ASSUME IInv, Disc, RunThread
  PROVE  Disc'
<1>1. UNCHANGED <<stream, connected, lock, waiting, loop>> /\ Queued' = Queued
  BY DEF RunThread, RunBegin, RunMark, RunCompare, RunRead, RunSave, tasks, Queued
<1>2. loop.op # "ack"
  BY DEF RunThread, RunBegin, RunMark, RunCompare, RunRead, RunSave, IInv, Turns
<1>3. Sessions'
  BY <1>1, <1>2 DEF Disc, Sessions
<1>4. BlockedWhileDisconnected'
  <2>1. CASE RunBegin \/ RunCompare \/ RunRead
    <3>1. UNCHANGED <<row, restored>> /\ run.pc # "done"
      BY <2>1 DEF RunBegin, RunCompare, RunRead, gate
    <3> QED
      BY <1>1, <3>1 DEF Disc, BlockedWhileDisconnected, Blocked
  <2>2. CASE RunMark
    <3>1. row' = [run.snap EXCEPT !.status = "RECONCILING"] /\ run.snap \in Row
      BY <2>2, SaveIs DEF RunMark, IInv, TypeOK, Run
    <3>2. row'.status = "RECONCILING"
      BY <3>1 DEF Row
    <3> QED
      BY <3>2 DEF BlockedWhileDisconnected
  <2>3. CASE RunSave
    <3>1. row' = [run.snap EXCEPT !.status = run.result] /\ run.snap \in Row
      BY <2>3, SaveIs DEF RunSave, IInv, TypeOK, Run
    <3>2. row'.status = run.result
      BY <3>1 DEF Row
    <3>3. run' = [IdleRun EXCEPT !.pc = "done", !.result = run.result]
      BY <2>3 DEF RunSave
    <3>4. run'.pc = "done" /\ run'.result = run.result
      BY <3>3, RowTypes DEF Run
    <3> QED
      BY <3>2, <3>4 DEF BlockedWhileDisconnected, Blocked
  <2> QED
    BY <2>1, <2>2, <2>3 DEF RunThread
<1> QED
  BY <1>3, <1>4 DEF Disc

\* The caller of a run goes on.
LEMMA ReleaseDisc ==
  ASSUME IInv, Disc, Release, stream \notin {"off", "exit"}, UNCHANGED <<connected, waiting>>,
         loop.op \in {"none", "postcheck"}, loop'.op \in {"none", "ack"}, loop'.pc # "save",
         connected \/ row'.status # "HEALTHY" \/ restored'
  PROVE  Disc'
<1>1. lock' = "free" /\ stream' = IF lock = "stream" THEN "session" ELSE stream
  BY DEF Release
<1>2. Queued' = Queued
  BY DEF Queued
<1>3. Sessions'
  BY <1>1, <1>2 DEF Disc, Sessions
<1>4. BlockedWhileDisconnected'
  BY DEF BlockedWhileDisconnected, Blocked
<1> QED
  BY <1>3, <1>4 DEF Disc

\* A run returns: HEALTHY stands if the stream is there, and is undone if not.
LEMMA ReturnDisc ==
  ASSUME IInv, Disc, RunReturn \/ PostCheckSave
  PROVE  Disc'
<1>1. CASE RunReturn
  <2>1. /\ loop.op = "none" /\ stream \notin {"off", "exit"} /\ run.pc = "done"
        /\ UNCHANGED <<row, restored, connected, waiting>>
    BY <1>1 DEF RunReturn, LoopFree, gate
  <2>2. CASE Begin("postcheck", "DEGRADED") /\ UNCHANGED <<lock, run, stream>>
    <3>1. loop'.op = "postcheck"
      BY <2>2, BeginIs DEF LoopOp, ReconciliationStatus
    <3>2. ~Blocked'
      BY <3>1 DEF Blocked
    <3>3. connected' \/ stream \notin {"subscribed", "session"}
      BY <2>1 DEF Disc, Sessions
    <3> QED
      BY <2>1, <2>2, <3>2, <3>3, BeginDisc DEF LoopOp, ReconciliationStatus
  <2>3. CASE /\ connected \/ run.result # "HEALTHY"
             /\ IF lock = "ack" THEN Begin("ack", "keep") ELSE UNCHANGED loop
             /\ Release
    <3>1. loop'.op \in {"none", "ack"} /\ loop'.pc # "save"
      <4>1. CASE lock = "ack"
        BY <2>3, <4>1, BeginIs DEF LoopOp
      <4>2. CASE lock # "ack"
        BY <2>1, <2>3, <4>2 DEF IInv, LoopOK
      <4> QED
        BY <4>1, <4>2
    <3>2. connected \/ row'.status # "HEALTHY" \/ restored'
      BY <2>1, <2>3 DEF Disc, BlockedWhileDisconnected, Blocked
    <3> QED
      BY <2>1, <2>3, <3>1, <3>2, ReleaseDisc
  <2> QED
    BY <1>1, <2>2, <2>3 DEF RunReturn
<1>2. CASE PostCheckSave
  <2>1. /\ loop.op = "postcheck" /\ loop.pc = "save" /\ stream \notin {"off", "exit"}
        /\ Release /\ UNCHANGED <<connected, waiting>>
    BY <1>2 DEF PostCheckSave, IInv, Halts, LoopOK, Turns
  <2>2. row' = [loop.snap EXCEPT !.status = "DEGRADED"] /\ loop.snap \in Row
    BY <1>2, SaveIs DEF PostCheckSave, IInv, TypeOK, Loop
  <2>3. row'.status = "DEGRADED"
    BY <2>2 DEF Row
  <2>4. loop'.op \in {"none", "ack"} /\ loop'.pc # "save"
    <3>1. CASE lock = "ack"
      BY <1>2, <3>1, BeginIs DEF LoopOp, PostCheckSave
    <3>2. CASE lock # "ack"
      BY <1>2, <3>2, RowTypes DEF PostCheckSave
    <3> QED
      BY <3>1, <3>2
  <2> QED
    BY <2>1, <2>3, <2>4, ReleaseDisc
<1> QED
  BY <1>1, <1>2

\* The lock is handed on.
LEMMA StartRunDisc ==
  ASSUME IInv, Disc, StartRun
  PROVE  Disc'
<1>1. /\ Head(waiting) \in Queued /\ Queued' = Queued \ {Head(waiting)}
  BY DequeueIs DEF StartRun, IInv, TypeOK
<1>2. /\ lock' = Head(waiting) /\ loop.op = "none" /\ lock = "free"
      /\ UNCHANGED <<row, restored, stream, connected, loop>>
  BY DEF StartRun, LoopFree, gate
<1>3. Sessions'
  BY <1>1, <1>2 DEF Disc, Sessions
<1>4. run.pc = "idle"
  BY <1>2 DEF IInv, Turns, StartRun, LoopFree
<1>5. BlockedWhileDisconnected'
  BY <1>2, <1>4 DEF Disc, BlockedWhileDisconnected, Blocked
<1> QED
  BY <1>3, <1>5 DEF Disc

\* The touch, and the only save of HEALTHY without a check.
LEMMA TouchDisc ==
  ASSUME IInv, Disc, TouchThread \/ PeriodicDies
  PROVE  Disc'
<1>1. UNCHANGED <<stream, connected, lock, waiting, loop, run>> /\ Queued' = Queued
  BY DEF TouchThread, TouchRead, TouchSave, PeriodicDies, tasks, Queued
<1>2. row' = row \/ loop.op # "ack"
  BY DEF TouchThread, TouchRead, TouchSave, PeriodicDies, gate, IInv, Turns, Halts
<1>3. Sessions'
  BY <1>1, <1>2 DEF Disc, Sessions
<1>4. BlockedWhileDisconnected'
  <2>1. CASE TouchRead \/ PeriodicDies
    BY <1>1, <2>1 DEF TouchRead, PeriodicDies, gate, Disc, BlockedWhileDisconnected, Blocked
  <2>2. CASE TouchSave
    <3>1. row' = touch.snap /\ restored' = (~connected /\ touch.snap.status = "HEALTHY")
      BY <2>2 DEF TouchSave, SaveRow
    <3> QED
      BY <1>1, <3>1 DEF BlockedWhileDisconnected, Blocked
  <2> QED
    BY <2>1, <2>2 DEF TouchThread
<1> QED
  BY <1>3, <1>4 DEF Disc

\* The periodic task, the operator and time leave the row and the stream alone.
LEMMA QuietDisc ==
  ASSUME IInv, Disc, PeriodicTask \/ Acknowledge \/ Expire \/ Stop
  PROVE  Disc'
<1>1. UNCHANGED <<row, restored, stream, connected, lock, loop, run>>
  BY DEF PeriodicTask, PeriodicWakes, TouchReturns, PollAck, PollNothing, PeriodicReconcile,
         PeriodicSleeps, Acknowledge, Expire, Stop, gate, tasks
<1>2. Queued' \subseteq Queued \cup {"ack", "periodic"}
  <2>1. CASE PollAck
    BY <2>1, EnqueueIs DEF PollAck, IInv, TypeOK, Caller
  <2>2. CASE PeriodicReconcile
    BY <2>2, EnqueueIs DEF PeriodicReconcile, IInv, TypeOK, Caller
  <2>3. CASE UNCHANGED waiting
    BY <2>3 DEF Queued
  <2> QED
    BY <2>1, <2>2, <2>3 DEF PeriodicTask, PeriodicWakes, TouchReturns, PollNothing,
       PeriodicSleeps, Acknowledge, Expire, Stop, tasks
<1>3. Sessions'
  BY <1>1, <1>2 DEF Disc, Sessions
<1>4. BlockedWhileDisconnected'
  BY <1>1 DEF Disc, BlockedWhileDisconnected, Blocked
<1> QED
  BY <1>3, <1>4 DEF Disc

\* The worker stops, exits or dies.
LEMMA EndDisc ==
  ASSUME IInv, Disc, StopAsleep \/ Exit \/ Crash
  PROVE  Disc'
<1>1. stream' \in {"off", "exit"}
  BY DEF StopAsleep, Exit, Crash
<1>2. Queued' = {} /\ lock' = "free"
  <2>1. waiting' = <<>> /\ lock' = "free"
    BY DEF StopAsleep, Exit, Crash, IInv, Halts
  <2> QED
    BY <2>1, EmptyQueue
<1>3. loop'.op = "none"
  BY RowTypes DEF StopAsleep, Exit, Crash, LoopFree, IInv, Halts
<1> QED
  BY <1>1, <1>2, <1>3 DEF Disc, Sessions, BlockedWhileDisconnected, Blocked

\* Once a disconnect is handled, HEALTHY is not in the row until the stream is
\* back, unless a touch restored it: no run that was under way and no callback
\* opens the gate (on_state, reconcile).
THEOREM DisconnectBlocks == Spec => []BlockedWhileDisconnected
<1>1. Init => Disc
  <2>1. Init => stream = "off" /\ lock = "free" /\ waiting = <<>> /\ loop.op = "none"
    BY RowTypes DEF Init
  <2>2. waiting = <<>> => Queued = {}
    BY EmptySeq DEF Queued
  <2> QED
    BY <2>1, <2>2 DEF Disc, Sessions, BlockedWhileDisconnected, Blocked
<1>2. IInv /\ Disc /\ [Next]_vars => Disc'
  <2> SUFFICES ASSUME IInv, Disc, [Next]_vars PROVE Disc'
    OBVIOUS
  <2>1. CASE UNCHANGED vars
    <3>1. UNCHANGED <<row, restored, stream, connected, lock, loop, run>> /\ Queued' = Queued
      BY <2>1 DEF vars, gate, tasks, Queued
    <3> QED
      BY <3>1 DEF Disc, Sessions, BlockedWhileDisconnected, Blocked
  <2>2. CASE Next
    BY <2>2, StreamDisc, LoopDisc, RunDisc, ReturnDisc, StartRunDisc, TouchDisc, QuietDisc,
       EndDisc DEF Next, Streaming, EventLoop
  <2> QED
    BY <2>1, <2>2
<1>3. Disc => BlockedWhileDisconnected
  BY DEF Disc
<1> QED
  BY <1>1, <1>2, <1>3, Invariance, PTL DEF Spec

=============================================================================
