--------------------------- MODULE MCTradingCycle ---------------------------
(***************************************************************************)
(* TradingCycle on small instances; the constants are numbers.             *)
(***************************************************************************)
EXTENDS TradingCycle
=============================================================================
