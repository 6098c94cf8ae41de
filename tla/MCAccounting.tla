---------------------------- MODULE MCAccounting ----------------------------
(***************************************************************************)
(* Accounting on a small instance; the constants are numbers.              *)
(***************************************************************************)
EXTENDS Accounting
=============================================================================
