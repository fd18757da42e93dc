--------------------------- MODULE RoutingService ---------------------------
(***************************************************************************)
(* What routerd promises, without its list, sockets or clock: it holds one *)
(* route per destination, learns what its neighbours offer, forgets only   *)
(* routes to other hosts, offers all it knows, and answers a lookup with   *)
(* the route it holds.                                                     *)
(***************************************************************************)
EXTENDS RouteMap

CONSTANTS
    OwnAddresses,   \* the addresses of the host
    Destinations,   \* what may be looked up
    Offers,         \* what neighbours may offer: records [routes, via]
    NoAnswer,       \* the next hop of an unknown destination
    Silence         \* nothing is written

VARIABLES routes, output

serviceVars == <<routes, output>>

ServiceInit ==
    /\ routes = OwnRoutes(OwnAddresses)
    /\ output = Silence

TakeOffer ==
    /\ \E o \in Offers : routes' = Learn(routes, o.routes, o.via)
    /\ output' = Silence

Forget ==
    /\ \E D \in SUBSET {d \in DOMAIN routes : routes[d].cost # 0} : routes' = Without(routes, D)
    /\ output' = Silence

\* The routes are offered as they were before those that are old are forgotten.
Offer ==
    /\ output' = [table |-> routes]
    /\ \E D \in SUBSET {d \in DOMAIN routes : routes[d].cost # 0} : routes' = Without(routes, D)

Answer ==
    /\ \E d \in Destinations :
          output' = [destination |-> d,
                     next_hop |-> IF d \in DOMAIN routes THEN routes[d].hop ELSE NoAnswer]
    /\ UNCHANGED routes

ServiceNext == TakeOffer \/ Forget \/ Offer \/ Answer

ServiceSpec == ServiceInit /\ [][ServiceNext]_serviceVars
=============================================================================
