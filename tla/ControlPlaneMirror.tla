------------------------- MODULE ControlPlaneMirror -------------------------
(***************************************************************************)
(* What the outbox promises of the Laravel mirror of an order: it only     *)
(* ever shows a version the engine published, and never an older one than  *)
(* before.                                                                 *)
(***************************************************************************)
EXTENDS Naturals

VARIABLES newest,   \* the newest version the engine published
          mirror    \* the version the control plane shows, 0 = none

mirrorVars == <<newest, mirror>>

Init == newest = 0 /\ mirror = 0

Publish ==
    /\ newest' \in Nat /\ newest' > newest
    /\ UNCHANGED mirror

Show ==
    /\ mirror' \in Nat /\ mirror' > mirror /\ mirror' <= newest
    /\ UNCHANGED newest

Spec == Init /\ [][Publish \/ Show]_mirrorVars
=============================================================================
