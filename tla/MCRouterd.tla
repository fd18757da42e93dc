------------------------------ MODULE MCRouterd ------------------------------
(* Values of the constants of Routerd for TLC.  The host has the address 1; *)
(* its neighbours 2 and 3 offer ways to each other and to 4.                *)
EXTENDS Routerd, TLC

Offered(destination, cost) == [destination |-> destination, next_hop |-> 9, cost |-> cost]

MCOwn == <<1>>

\* Two neighbours that know different ways to 4 and back to this host.
MCTwoNeighbours ==
    {[address |-> 2, entries |-> <<Offered(2, 0), Offered(4, 2), Offered(1, 0)>>],
     [address |-> 2, entries |-> <<Offered(4, MaxCost), Offered(3, 1), Offered(2, 0)>>],
     [address |-> 3, entries |-> <<Offered(3, 0), Offered(4, 1), Offered(1, MaxCost)>>],
     [address |-> 3, entries |-> <<Offered(4, 2), Offered(2, 1)>>]}
=============================================================================
