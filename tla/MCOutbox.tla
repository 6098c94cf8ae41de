------------------------------ MODULE MCOutbox ------------------------------
(***************************************************************************)
(* Model values for Outbox: the dispatchers of the trading worker and of   *)
(* the reconciliation worker.                                              *)
(***************************************************************************)
EXTENDS Outbox
CONSTANTS trading, recon
=============================================================================
