--------------------------- MODULE MCMarketWorker ---------------------------
(***************************************************************************)
(* Two symbols, so that the poll awaits with a row locked.                 *)
(***************************************************************************)
EXTENDS MarketWorker

CONSTANTS btc, eth

TwoSymbols == <<btc, eth>>
=============================================================================
