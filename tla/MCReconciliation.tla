-------------------------- MODULE MCReconciliation --------------------------
(***************************************************************************)
(* The instances of Reconciliation checked by TLC give its constants       *)
(* numbers only; the bounds are named in the README.                       *)
(***************************************************************************)
EXTENDS Reconciliation
=============================================================================
