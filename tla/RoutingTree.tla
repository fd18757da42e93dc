----------------------------- MODULE RoutingTree -----------------------------
(***************************************************************************)
(* Routing in a network without cycles, such as the lines of hosts the     *)
(* course tests with: there, split horizon is enough to keep every route   *)
(* on the one way there is.                                                *)
(***************************************************************************)
EXTENDS RoutingNetwork

CONSTANT Behind   \* Behind[x][y]: the addresses that x reaches by its link to y

\* What lies behind the link from x to y lies, as seen from y, elsewhere than
\* behind x; each address is the host's own or behind one link; and it is as
\* far as the way by that link is long.
ASSUME TreeAssumption ==
    \A x \in Nodes : \A y \in Neighbours[x] :
        /\ Behind[x][y] \subseteq Addresses
        /\ \A d \in Addresses :
              d \in Behind[x][y] <=>
                  \/ d \in Own[y]
                  \/ \E z \in Neighbours[y] \ {x} : d \in Behind[y][z]
        /\ Behind[x][y] \cap Own[x] = {}
        /\ \A z \in Neighbours[x] \ {y} : Behind[x][y] \cap Behind[x][z] = {}
        /\ \A d \in Behind[x][y] : Distance[x][d] = Distance[y][d] + 1

\* As long as every copy was poisoned for its receiver, a route to d leaves by
\* the link that d is behind, however old it is, and costs what that way is
\* long: there are no loops, and no costs that count up, be d alive or dead.
TowardDestination ==
    ~ unmasked =>
        \A x \in Nodes : \A d \in DOMAIN table[x] \ Own[x] :
            /\ table[x][d].cost = Distance[x][d]
            /\ \A y \in Neighbours[x] : table[x][d].hop = Address[y][x] => d \in Behind[x][y]

\* A host that stays down is forgotten for good by all others, even after some
\* copies went unmasked: no two of them keep renewing its routes between them
\* (routerd/README.md:5).
DeadForgotten ==
    \A x \in Nodes :
        <>[](x \notin up) => <>[](\A z \in up : Own[x] \cap DOMAIN table[z] = {})
=============================================================================
