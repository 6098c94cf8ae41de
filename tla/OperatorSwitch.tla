--------------------------- MODULE OperatorSwitch ---------------------------
(***************************************************************************)
(* What the operator's controls promise the engine: two switches, one that *)
(* permits new entries and an emergency stop.  Engaging the stop also      *)
(* pauses the bot, clearing it leaves the bot paused, and only these four  *)
(* operations ever move a switch.                                          *)
(*                                                                         *)
(* A resume is let in only while the stop is not engaged.  It is made      *)
(* later, and the stop is not looked at again: engaged in between, it      *)
(* stays engaged and the bot is enabled beside it.  No other way leads     *)
(* there.  (ORDER_LIFECYCLE.md promises more: that the stop disables the   *)
(* bot and resume is refused until it is cleared.)                         *)
(*                                                                         *)
(* ControlPlane implements this specification; TradingCycle reads the two  *)
(* switches and takes any of the moves to happen at any time.              *)
(***************************************************************************)
CONSTANT Requests  \* the requests that may carry a resume

VARIABLES enabled, emergency_stop,
          admitted  \* the resumes that were let in and not made yet
switches == <<enabled, emergency_stop>>

Init == enabled \in BOOLEAN /\ emergency_stop = FALSE /\ admitted = {}

Pause == enabled' = FALSE /\ UNCHANGED emergency_stop

Resume == enabled' = TRUE /\ UNCHANGED emergency_stop

EmergencyStop == emergency_stop' = TRUE /\ enabled' = FALSE

ClearEmergencyStop == emergency_stop' = FALSE /\ enabled' = FALSE

\* What may be seen of the switches next.
Moves == Pause \/ Resume \/ EmergencyStop \/ ClearEmergencyStop

\* resume finds the stop not engaged ...
AdmitResume(r) ==
    /\ ~emergency_stop
    /\ admitted' = admitted \cup {r}
    /\ UNCHANGED switches

\* ... and is made in a transaction of its own, or fails before it.
FinishResume(r) ==
    /\ r \in admitted
    /\ admitted' = admitted \ {r}
    /\ Resume \/ UNCHANGED switches

Next ==
    \/ \E r \in Requests : AdmitResume(r) \/ FinishResume(r)
    \/ (Pause \/ EmergencyStop \/ ClearEmergencyStop) /\ UNCHANGED admitted

Spec == Init /\ [][Next]_<<switches, admitted>>
=============================================================================
