---------------------------- MODULE MCMarketScan ----------------------------
(***************************************************************************)
(* Instances of MarketScan for TLC.                                        *)
(***************************************************************************)
EXTENDS MarketScan

CONSTANTS s1, s2

\* One position to leave and one to enter.
OneHeld == { [s \in Symbols |-> IF s = s1 THEN MaxHeld ELSE 0] }
=============================================================================
