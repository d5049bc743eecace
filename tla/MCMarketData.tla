---------------------------- MODULE MCMarketData ----------------------------
(* Instances of MarketData for TLC: the startup call is one of the callers. *)
EXTENDS MarketData
=============================================================================
