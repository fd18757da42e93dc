------------------------------ MODULE RouteMap ------------------------------
(***************************************************************************)
(* A routing table as a map from the destinations it knows to routes, and  *)
(* what distance vector routing does with it.  routerd keeps a linked list *)
(* (module RouteTable); that the list behaves as this map is the           *)
(* refinement of module Routerd.                                           *)
(***************************************************************************)
EXTENDS Naturals

CONSTANT MaxCost   \* UINT_MAX, the cost that marks a poisoned route

ASSUME RouteMapAssumption == MaxCost \in Nat

Costs == 0 .. MaxCost

\* One hop more.  Costs are unsigned int, and so wrap.
Further(cost) == (cost + 1) % (MaxCost + 1)

\* Faulty variant: no next hop to oneself, as in the tests of the table.
OwnRoutes_NoHop(own) == [a \in own |-> [hop |-> 255, cost |-> 0]]

\* The routes of a node that knows only itself.
OwnRoutes(own) == [a \in own |-> [hop |-> a, cost |-> 0]]

\* A map without the destinations D.
Without(routes, D) == [d \in DOMAIN routes \ D |-> routes[d]]

\* Faulty variant: a poisoned route is like any other.
Accepts_Poisoned(routes, offers, d) ==
    /\ d \in DOMAIN offers
    /\ d \in DOMAIN routes => Further(offers[d].cost) <= routes[d].cost

\* The offer for d is taken: d is new, or the way by the neighbour is not
\* longer than the known one; and the offer is not poisoned.
Accepts(routes, offers, d) ==
    /\ d \in DOMAIN offers
    /\ offers[d].cost # MaxCost
    /\ d \in DOMAIN routes => Further(offers[d].cost) <= routes[d].cost

\* MIPRouteTable_update_routing: the routes after the neighbour with address
\* via has offered its own.
Learn(routes, offers, via) ==
    LET taken == {d \in DOMAIN offers : Accepts(routes, offers, d)}
    IN  [d \in DOMAIN routes \cup taken |->
            IF d \in taken THEN [hop |-> via, cost |-> Further(offers[d].cost)]
            ELSE routes[d]]

\* Faulty variant: nothing is poisoned.
Poisoned_Never(offers, address) == offers

\* poison_reverse: the routes by the neighbour with this address cost MaxCost.
Poisoned(offers, address) ==
    [d \in DOMAIN offers |->
        IF offers[d].hop = address THEN [offers[d] EXCEPT !.cost = MaxCost] ELSE offers[d]]
=============================================================================
