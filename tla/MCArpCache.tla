----------------------------- MODULE MCArpCache -----------------------------
(* Values of the constants of ArpCache for TLC: two neighbours, on two      *)
(* interfaces.                                                              *)
EXTENDS ArpCache, TLC

CONSTANTS n1, n2

MCNeighbours == {n1, n2}
MCSocket     == (n1 :> 1) @@ (n2 :> 2)
=============================================================================
