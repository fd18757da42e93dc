------------------------------ MODULE MCMiptpd ------------------------------
(* Values of the constants of Miptpd for TLC: an application that wants to  *)
(* receive, and one that sends more than the buffer holds and then takes    *)
(* back what it asked for.                                                  *)
EXTENDS Miptpd, TLC

CONSTANTS c1, c2

MCClients  == {c1, c2}
MCRequests == (c1 :> <<"receiver">>) @@ (c2 :> <<"large", "untyped">>)
=============================================================================
