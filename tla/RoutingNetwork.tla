--------------------------- MODULE RoutingNetwork ---------------------------
(***************************************************************************)
(* Distance vector routing between the hosts of a network.                 *)
(*                                                                         *)
(* On every host a routerd keeps a routing table and regularly writes it   *)
(* to its mipd.  mipd sends one copy on each interface, with the address   *)
(* of the interface as sender, after it has poisoned the routes that go by *)
(* the neighbour on that interface: the neighbour is the one its ARP cache *)
(* holds, and when it holds none the interface's own address is poisoned   *)
(* instead.  A mipd that receives such a copy passes it to its routerd,    *)
(* which takes the routes that are new or not longer than its own.  Routes *)
(* that nobody offers any more are removed when they are too old.          *)
(*                                                                         *)
(* Every link joins two hosts.  Frames and ARP entries may be lost, hosts  *)
(* may fail and start again; the age of a route is left to chance (module  *)
(* Routerd has the clock).                                                 *)
(***************************************************************************)
EXTENDS RouteMap, Functions, Sequences, FiniteSets

CONSTANTS
    Nodes,         \* hosts, each with a mipd and a routerd
    Own,           \* the addresses of each host
    Neighbours,    \* the hosts at the other ends of each host's links
    Address,       \* Address[x][y]: the address of x on its link to y
    Distance,      \* Distance[x][d]: the number of links from x to the host of d
    MaxInFlight,   \* bound: copies under way on a link, per direction
    Faults,        \* bound: what may go wrong ("failure", "loss", "expiry"), and where
    MaxFaults      \* bound: how often something goes wrong

Addresses == UNION {Own[x] : x \in Nodes}
Links     == UNION {{x} \X Neighbours[x] : x \in Nodes}

ASSUME RoutingAssumption ==
    /\ Neighbours \in [Nodes -> SUBSET Nodes]
    /\ \A x \in Nodes : \A y \in Neighbours[x] :
          /\ x # y
          /\ x \in Neighbours[y]
          /\ Address[x][y] \in Own[x]
    /\ \A x, y \in Nodes : x # y => Own[x] \cap Own[y] = {}
    /\ MaxInFlight \in Nat \ {0}
    /\ MaxFaults \in Nat

\* Distance is a distance: what the next host is from d, and one more.
ASSUME DistanceAssumption ==
    /\ \A x \in Nodes : Distance[x] \in [Addresses -> Nat]
    /\ \A x \in Nodes : \A d \in Own[x] : Distance[x][d] = 0
    /\ \A x \in Nodes : \A y \in Neighbours[x] : \A d \in Addresses :
          Distance[x][d] <= Distance[y][d] + 1

VARIABLES
    up,        \* the hosts that run
    table,     \* the routing table of each routerd
    arp,       \* the neighbours in the ARP cache of each mipd
    wire,      \* copies sent on a link that the routerd at its end has not read
    unmasked,  \* history: a copy was sent to a neighbour that was not in the cache
    faults     \* for the bound only

hosts == <<up, table, arp>>
vars  == <<hosts, wire, unmasked, faults>>

Route == [hop : Addresses, cost : Costs]

\* Maps from some of the addresses to routes.
Tables == UNION {[D -> Route] : D \in SUBSET Addresses}
Copies == [offers : Tables, address : Addresses]

TypeOK ==
    /\ up \subseteq Nodes
    /\ table \in [Nodes -> Tables]
    /\ arp \in [Nodes -> SUBSET Nodes]
    /\ wire \in [Links -> Seq(Copies)]
    /\ unmasked \in BOOLEAN
    /\ faults \in Nat

Init ==
    /\ up = Nodes
    /\ table = [x \in Nodes |-> OwnRoutes(Own[x])]
    /\ arp = [x \in Nodes |-> {}]
    /\ wire = [l \in Links |-> <<>>]
    /\ unmasked = FALSE
    /\ faults = 0

\* Something goes wrong at x: it fails, loses a copy sent to it or the ARP entry
\* of a running host, or routes that are still renewed expire.
Happens(kind, x) ==
    /\ <<kind, x>> \in Faults
    /\ faults < MaxFaults
    /\ faults' = faults + 1

-----------------------------------------------------------------------------
(* routerd                                                                  *)

\* A routing event: a neighbour's table is read and merged.
Receive(x, y) ==
    /\ y \in up
    /\ wire[<<x, y>>] # <<>>
    /\ LET copy == Head(wire[<<x, y>>])
       IN  table' = [table EXCEPT ![y] = Learn(@, copy.offers, copy.address)]
    /\ wire' = [wire EXCEPT ![<<x, y>>] = Tail(@)]
    /\ UNCHANGED <<up, arp, unmasked, faults>>

\* Faulty variant: only the routes to direct neighbours age.
Perishable_Direct(x) == {d \in DOMAIN table[x] : table[x][d].cost = 1}

\* The entries MIPRouteTable_remove_old_entries may find too old.
Perishable(x) == {d \in DOMAIN table[x] : table[x][d].cost # 0}

-----------------------------------------------------------------------------
(* mipd                                                                     *)

\* Faulty variant: the address is the one of the link's own end.
Masked_OwnEnd(x, y) == Address[x][y]

\* The address whose routes are poisoned in the copy for y.
Masked(x, y) == IF y \in arp[x] THEN Address[y][x] ELSE Address[x][y]

\* table_address and the poisoned entries of a copy.
CopyFor(x, y, offers) ==
    [offers |-> Poisoned(offers, Masked(x, y)), address |-> Address[x][y]]

\* The copies under way to x, and the next ones of the neighbours that run.
CopiesTo(x) ==
    UNION {Range(wire[<<y, x>>]) : y \in Neighbours[x]}
        \cup {CopyFor(y, x, table[y]) : y \in Neighbours[x] \cap up}

\* The entries of x that these copies write anew, so that their age starts again.
Renewed(x) ==
    UNION {{d \in DOMAIN table[x] : Accepts(table[x], copy.offers, d)} : copy \in CopiesTo(x)}

\* The addresses of the hosts that run.
LiveAddresses == UNION {Own[x] : x \in up}

\* The routes D are older than MIP_TABLE_ENTRY_MAX_AGE_MILLI, and removed.  A
\* route to a running host that is being renewed gets that old only when
\* something goes wrong.
Expire(x, D) ==
    /\ x \in up
    /\ D # {}
    /\ table' = [table EXCEPT ![x] = Without(@, D)]
    /\ \/ /\ D \cap LiveAddresses \cap Renewed(x) = {}
          /\ UNCHANGED faults
       \/ /\ D \cap LiveAddresses \cap Renewed(x) # {}
          /\ Happens("expiry", x)
    /\ UNCHANGED <<up, arp, wire, unmasked>>

\* broadcast_route_table of routerd and then of mipd: the table is written to
\* the routing socket, and a copy is sent on each interface.  A copy for which
\* there is no room is lost, as frames are, and so is one for a host that is
\* down.  (A table that waits in the socket is late, as a copy that waits on a
\* link.)
Broadcast(x) ==
    /\ x \in up
    /\ wire' = [l \in Links |->
          IF l[1] = x /\ l[2] \in up /\ Len(wire[l]) < MaxInFlight
          THEN Append(wire[l], CopyFor(x, l[2], table[x]))
          ELSE wire[l]]
    /\ unmasked' = (unmasked \/ ~ Neighbours[x] \cap up \subseteq arp[x])
    /\ UNCHANGED <<up, table, arp, faults>>

\* A MIP-ARP request or response of a neighbour arrives.
ArpLearn(x, y) ==
    /\ x \in up /\ y \in up
    /\ arp' = [arp EXCEPT ![x] = @ \cup {y}]
    /\ UNCHANGED <<up, table, wire, unmasked, faults>>

-----------------------------------------------------------------------------
(* What can go wrong                                                        *)

\* An ARP entry gets too old: that of a host that is down, sooner or later, or
\* another after frames were lost.
ArpExpire(x, y) ==
    /\ y \in arp[x]
    /\ \/ /\ y \notin up
          /\ UNCHANGED faults
       \/ /\ y \in up
          /\ Happens("loss", x)
    /\ arp' = [arp EXCEPT ![x] = @ \ {y}]
    /\ UNCHANGED <<up, table, wire, unmasked>>

\* A copy is lost.
Lose(x, y) ==
    /\ wire[<<x, y>>] # <<>>
    /\ Happens("loss", y)
    /\ wire' = [wire EXCEPT ![<<x, y>>] = Tail(@)]
    /\ UNCHANGED <<hosts, unmasked>>

\* Both daemons of a host end, and with them their state and sockets.
Fail(x) ==
    /\ x \in up
    /\ Happens("failure", x)
    /\ up' = up \ {x}
    /\ table' = [table EXCEPT ![x] = OwnRoutes(Own[x])]
    /\ arp' = [arp EXCEPT ![x] = {}]
    /\ wire' = [l \in Links |-> IF l[2] = x THEN <<>> ELSE wire[l]]
    /\ UNCHANGED unmasked

\* They start again.
Restart(x) ==
    /\ x \notin up
    /\ up' = up \cup {x}
    /\ UNCHANGED <<table, arp, wire, unmasked, faults>>

-----------------------------------------------------------------------------

Next ==
    \/ \E x \in Nodes : Broadcast(x)
    \/ \E x \in Nodes : \E D \in SUBSET Perishable(x) : Expire(x, D)
    \/ \E x \in Nodes : \E y \in Neighbours[x] : Receive(x, y)
    \/ \E x \in Nodes : \E y \in Neighbours[x] : ArpLearn(x, y)
    \/ \E x \in Nodes : \E y \in Neighbours[x] : ArpExpire(x, y)
    \/ \E x \in Nodes : \E y \in Neighbours[x] : Lose(x, y)
    \/ \E x \in Nodes : Fail(x)
    \/ \E x \in Nodes : Restart(x)

Spec == Init /\ [][Next]_vars

\* The copy that y reads next from x is taken off the socket.
Delivers(x, y) ==
    /\ y \in up
    /\ wire[<<x, y>>] # <<>>
    /\ wire' = [wire EXCEPT ![<<x, y>>] = Tail(@)]

\* The entries of x that nobody renews are removed.
Forgets(x) ==
    /\ x \in up
    /\ table' = [table EXCEPT ![x] = Without(@, Perishable(x) \ Renewed(x))]

\* routerd broadcasts every 2 s, both daemons serve their sockets, mipd
\* repeats its MIP-ARP requests, and what is never renewed again gets too old.
\* Nothing is assumed of routes that neighbours renew, to a running host or not.
Fairness ==
    \A x \in Nodes :
        /\ WF_vars(Broadcast(x))
        /\ WF_table(Forgets(x))
        /\ WF_vars(\E y \in Neighbours[x] : ArpLearn(x, y))
        /\ \A y \in Neighbours[x] : WF_wire(Delivers(x, y))

FairSpec == Spec /\ Fairness
-----------------------------------------------------------------------------
(* Properties                                                               *)

\* A host always knows its own addresses, at no cost: whatever neighbours
\* offer, and however costs wrap, nothing is closer (mip_route_table.c:114).
OwnRoutesStay ==
    \A x \in Nodes : \A a \in Own[x] :
        /\ a \in DOMAIN table[x]
        /\ table[x][a] = [hop |-> a, cost |-> 0]

\* No table, and no copy under way, makes a destination closer than it is,
\* whatever was lost, failed or expired.
NeverTooClose ==
    \A x \in Nodes : \A d \in DOMAIN table[x] : table[x][d].cost >= Distance[x][d]

\* A next hop is an address of this host, for its own addresses, or the
\* address a neighbour has on the common link, which mipd can have in its ARP
\* cache (forwarding.c:54).
NextHopIsNeighbour ==
    \A x \in Nodes : \A d \in DOMAIN table[x] :
        LET hop == table[x][d].hop
        IN  IF d \in Own[x] THEN hop = d
            ELSE \E y \in Neighbours[x] : hop = Address[y][x]

\* The tables are sound: a host knows itself, believes nothing closer than it
\* is, and routes by neighbours only.
SoundTables == OwnRoutesStay /\ NeverTooClose /\ NextHopIsNeighbour

\* A host that routes d by a shortest way.
Shortest(x, d) ==
    /\ d \in DOMAIN table[x]
    /\ table[x][d].cost = Distance[x][d]
    /\ \/ d \in Own[x]
       \/ \E y \in Neighbours[x] :
             /\ table[x][d].hop = Address[y][x]
             /\ Distance[y][d] + 1 = Distance[x][d]

\* When in the end all hosts run and no more routes expire, the tables come to
\* hold the shortest way to every address, and keep it (routerd/README.md:8).
Converges == <>[](up = Nodes) => <>[](\A x \in Nodes : \A d \in Addresses : Shortest(x, d))

\* routerd/README.md:27, "Update distances based on neighbors": the cost of a
\* route follows what its next hop offers.
FollowsItsNextHop ==
    [][\A x \in Nodes : \A y \in Neighbours[x] :
          Receive(x, y) =>
              LET copy == Head(wire[<<x, y>>])
              IN  \A d \in DOMAIN table[y] \cap DOMAIN copy.offers :
                     /\ table[y][d].hop = copy.address
                     /\ copy.offers[d].cost # MaxCost
                     => table'[y][d].cost = copy.offers[d].cost + 1]_vars

=============================================================================
