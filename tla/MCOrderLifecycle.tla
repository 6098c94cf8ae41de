-------------------------- MODULE MCOrderLifecycle --------------------------
(***************************************************************************)
(* Model values for OrderLifecycle.  Orders share nothing but the position *)
(* and the threads, so one order with several executions, under two        *)
(* overlapping trading workers, a reconciler and the stream, is the        *)
(* interesting instance.  The trading workers are interchangeable.         *)
(***************************************************************************)
EXTENDS OrderLifecycle, TLC
CONSTANTS o1, trader, trader2, recon
Symmetry == Permutations({trader, trader2})
=============================================================================
