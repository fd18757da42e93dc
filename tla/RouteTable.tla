----------------------------- MODULE RouteTable -----------------------------
(***************************************************************************)
(* routerd's routing table as it keeps it: a list of entries, the newest   *)
(* last, in which a destination is found by walking from the front.  That  *)
(* the list behaves as a map (module RouteMap) rests on it never holding   *)
(* two entries for a destination.                                          *)
(***************************************************************************)
EXTENDS RouteMap, SequencesExt

CONSTANT MaxAge   \* MIP_TABLE_ENTRY_MAX_AGE_MILLI, in ticks

NoRoute == 255    \* MIP_BROADCAST_ADDRESS

\* MIPRouteEntry_create: the time of the last update is kept as an age.
Entry(destination, next_hop, cost) ==
    [destination |-> destination, next_hop |-> next_hop, cost |-> cost, age |-> 0]

\* The position MIPRouteTable_get finds, 0 if there is none.
Position(table, d) == SelectInSeq(table, LAMBDA e : e.destination = d)

\* MIPRouteTable_remove
RemoveRoute(table, d) == RemoveFirstMatch(table, LAMBDA e : e.destination = d)

\* MIPRouteTable_update
Update(table, d, next_hop, cost) == Append(RemoveRoute(table, d), Entry(d, next_hop, cost))

\* MIPRouteTable_get_next_hop
NextHop(table, d) ==
    IF Position(table, d) = 0 THEN NoRoute ELSE table[Position(table, d)].next_hop

\* The challenger, an entry of a neighbour's table, takes the place of the
\* entry for its destination.
Wins(table, challenger) ==
    LET i == Position(table, challenger.destination)
    IN  /\ challenger.cost # MaxCost
        /\ i # 0 => Further(challenger.cost) <= table[i].cost

\* MIPRouteTable_update_routing
UpdateRouting(table, neighbor) ==
    LET learned[i \in 0 .. Len(neighbor.entries)] ==
            IF i = 0 THEN table
            ELSE LET t == learned[i - 1]
                     e == neighbor.entries[i]
                 IN  IF Wins(t, e) THEN Update(t, e.destination, neighbor.address, Further(e.cost))
                     ELSE t
    IN  learned[Len(neighbor.entries)]

\* Faulty variant: the host's own addresses age as well.
RemoveOldEntries_OwnToo(table) == SelectSeq(table, LAMBDA e : e.age <= MaxAge)

\* MIPRouteTable_remove_old_entries
RemoveOldEntries(table) ==
    LET kept[i \in 0 .. Len(table)] ==
            IF i = 0 THEN <<>>
            ELSE IF table[i].age <= MaxAge \/ table[i].cost = 0 THEN Append(kept[i - 1], table[i])
            ELSE kept[i - 1]
    IN  kept[Len(table)]

\* The table of RouterServer_create, for the addresses of the configuration.
LocalTable(addresses) ==
    LET added[i \in 0 .. Len(addresses)] ==
            IF i = 0 THEN <<>> ELSE Update(added[i - 1], addresses[i], addresses[i], 0)
    IN  added[Len(addresses)]

\* MIPRouteTable_create_package: the entries without their times.
Package(table) ==
    [i \in DOMAIN table |->
        [destination |-> table[i].destination, next_hop |-> table[i].next_hop,
         cost |-> table[i].cost]]

\* A list of entries seen as a map: what walking it finds.
AsMap(entries) ==
    [d \in {entries[i].destination : i \in DOMAIN entries} |->
        LET e == entries[Position(entries, d)] IN [hop |-> e.next_hop, cost |-> e.cost]]
=============================================================================
