--------------------------- MODULE MCControlPlane ---------------------------
(***************************************************************************)
(* Model values for ControlPlane: one heartbeat is under way beside the    *)
(* commands and the runs; the two workers send the same.                   *)
(***************************************************************************)
EXTENDS ControlPlane
CONSTANT heartbeat
=============================================================================
