---------------------------- MODULE RouterdProofs ----------------------------
(***************************************************************************)
(* routerd's table and loop, for all tables, neighbours and periods: the   *)
(* list behaves as a map (the operations of RouteTable are those of        *)
(* RouteMap), the daemon implements RoutingService, no entry is used that  *)
(* is too old, and the table is written in time.                           *)
(***************************************************************************)
EXTENDS Routerd, SequenceTheorems, WellFoundedInduction, NaturalsInduction, TLAPS

-----------------------------------------------------------------------------
(* Walking a list                                                           *)

\* What holds of 0, and of a number if it holds of the one before, holds up to
\* n: the least number of which it did not hold has one before it.
LEMMA UpTo ==
    ASSUME NEW n \in Nat, NEW T \in SUBSET (0 .. n), 0 \in T,
           \A i \in 1 .. n : i - 1 \in T => i \in T
    PROVE  T = 0 .. n
<1> DEFINE U == (0 .. n) \ T
<1> SUFFICES ASSUME U # {} PROVE FALSE
  OBVIOUS
<1>1. U \subseteq Nat
  OBVIOUS
<1> HIDE DEF U
<1>2. PICK x \in U : \A y \in U : ~ (<<y, x>> \in OpToRel(<, Nat))
  BY <1>1, WFMin, NatLessThanWellFounded
<1>3. x \in 1 .. n /\ x \notin T
  BY DEF U
<1>4. x - 1 \in Nat /\ x \in Nat /\ x - 1 < x /\ x - 1 \in 0 .. n
  BY <1>3
<1>5. <<x - 1, x>> \in OpToRel(<, Nat)
  BY <1>4 DEF OpToRel
<1>6. x - 1 \in T
  BY <1>2, <1>4, <1>5 DEF U
<1> QED
  BY <1>3, <1>6

\* A walk of n steps from start: step[i] is what step i does.
Steps(n, S) == [1 .. n -> [S -> S]]
Walks(n, S, start, step) ==
    {f \in [0 .. n -> S] : f[0] = start /\ \A i \in 1 .. n : f[i] = step[i][f[i - 1]]}

\* Every walk comes to an end.
LEMMA WalkExists ==
    ASSUME NEW n \in Nat, NEW S, NEW start \in S, NEW step \in Steps(n, S)
    PROVE  \E f : f \in Walks(n, S, start, step)
<1> DEFINE T == {k \in 0 .. n : Walks(k, S, start, step) # {}}
<1>1. 0 \in T
  <2> DEFINE f == [i \in 0 .. 0 |-> start]
  <2>1. f \in [0 .. 0 -> S] /\ f[0] = start /\ 1 .. 0 = {}
    OBVIOUS
  <2> HIDE DEF f
  <2>2. f \in Walks(0, S, start, step)
    BY <2>1 DEF Walks
  <2> QED
    BY <2>2
<1>2. ASSUME NEW k \in 1 .. n, k - 1 \in T PROVE k \in T
  <2>1. PICK f \in [0 .. k - 1 -> S] :
            f[0] = start /\ \A i \in 1 .. k - 1 : f[i] = step[i][f[i - 1]]
    BY <1>2 DEF Walks
  <2> DEFINE last == step[k][f[k - 1]]
             g == [i \in 0 .. k |-> IF i = k THEN last ELSE f[i]]
  <2>2. last \in S
    BY <2>1 DEF Steps
  <2> HIDE DEF last
  <2>3. g \in [0 .. k -> S] /\ g[0] = start
    BY <2>1, <2>2
  <2>4. ASSUME NEW i \in 1 .. k PROVE g[i] = step[i][g[i - 1]]
    <3>1. g[i - 1] = f[i - 1]
      OBVIOUS
    <3>2. CASE i = k
      BY <3>1, <3>2 DEF last
    <3>3. CASE i # k
      <4>1. i \in 1 .. k - 1 /\ g[i] = f[i]
        BY <3>3
      <4> QED
        BY <4>1, <3>1, <2>1
    <3> QED
      BY <3>2, <3>3
  <2> HIDE DEF g
  <2>5. g \in Walks(k, S, start, step)
    BY <2>3, <2>4 DEF Walks
  <2> QED
    BY <2>5
<1> HIDE DEF T
<1>3. T = 0 .. n
  <2>1. T \in SUBSET (0 .. n)
    BY DEF T
  <2> QED
    BY <1>1, <1>2, <2>1, UpTo
<1>4. n \in T
  BY <1>3
<1> QED
  BY <1>4 DEF T

-----------------------------------------------------------------------------
(* A list with one entry for a destination is a map                         *)

\* No two entries have the same destination.
Distinct(list) ==
    \A i, j \in DOMAIN list : list[i].destination = list[j].destination => i = j

\* The route of an entry.
RouteOf(e) == [hop |-> e.next_hop, cost |-> e.cost]

\* The list and the map m say the same.
Says(list, m) ==
    /\ m = [d \in DOMAIN m |-> m[d]]
    /\ \A i \in DOMAIN list : list[i].destination \in DOMAIN m
                              /\ m[list[i].destination] = RouteOf(list[i])
    /\ \A d \in DOMAIN m : \E i \in DOMAIN list : list[i].destination = d

\* Where a destination is found.
LEMMA PositionOf ==
    ASSUME NEW S, NEW list \in Seq(S), Distinct(list), NEW d
    PROVE  \/ Position(list, d) = 0 /\ \A i \in DOMAIN list : list[i].destination # d
           \/ Position(list, d) \in DOMAIN list /\ list[Position(list, d)].destination = d
<1> DEFINE I == {i \in 1 .. Len(list) : list[i].destination = d}
<1>1. DOMAIN list = 1 .. Len(list) /\ Len(list) \in Nat
  OBVIOUS
<1>2. Position(list, d) = IF I # {} THEN Min(I) ELSE 0
  BY DEF Position, SelectInSeq
<1>3. CASE I = {}
  BY <1>1, <1>2, <1>3
<1>4. CASE I # {}
  <2>1. PICK i \in I : TRUE
    BY <1>4
  <2>2. \A j \in I : j = i
    BY <1>1 DEF Distinct
  <2>3. Min(I) \in I
    <3>1. i <= i
      BY <1>1
    <3>2. \E x \in I : \A y \in I : x <= y
      BY <2>1, <2>2, <3>1
    <3> QED
      BY <3>2 DEF Min
  <2> QED
    BY <1>1, <1>2, <1>4, <2>3
<1> QED
  BY <1>3, <1>4

\* AsMap says what the list says.
LEMMA AsMapSays ==
    ASSUME NEW S, NEW list \in Seq(S), Distinct(list)
    PROVE  Says(list, AsMap(list))
<1> DEFINE m == AsMap(list)
<1>1. m = [d \in {list[i].destination : i \in DOMAIN list} |-> RouteOf(list[Position(list, d)])]
  BY DEF AsMap, RouteOf
<1>2. ASSUME NEW i \in DOMAIN list PROVE Position(list, list[i].destination) = i
  <2>1. Position(list, list[i].destination) \in DOMAIN list
        /\ list[Position(list, list[i].destination)].destination = list[i].destination
    BY PositionOf
  <2> QED
    BY <2>1 DEF Distinct
<1> QED
  BY <1>1, <1>2 DEF Says

\* There is one map that says what the list says.
LEMMA SaysOne ==
    ASSUME NEW S, NEW list \in Seq(S), Distinct(list), NEW m, Says(list, m)
    PROVE  AsMap(list) = m
<1>1. Says(list, AsMap(list))
  BY AsMapSays
<1>2. DOMAIN AsMap(list) = DOMAIN m
  BY <1>1 DEF Says
<1>3. \A d \in DOMAIN m : AsMap(list)[d] = m[d]
  BY <1>1 DEF Says
<1> DEFINE a == AsMap(list)
<1>4. a = [d \in DOMAIN a |-> a[d]] /\ m = [d \in DOMAIN m |-> m[d]]
  BY <1>1 DEF Says
<1> HIDE DEF a
<1> QED
  BY <1>2, <1>3, <1>4 DEF a

\* RemoveRoute removes the entry for d, if there is one, and nothing else.
LEMMA RemoveRouteFacts ==
    ASSUME NEW S, NEW list \in Seq(S), Distinct(list), NEW d
    PROVE  /\ RemoveRoute(list, d) \in Seq(S)
           /\ Distinct(RemoveRoute(list, d))
           /\ \A i \in DOMAIN RemoveRoute(list, d) :
                 /\ RemoveRoute(list, d)[i].destination # d
                 /\ \E k \in DOMAIN list : list[k] = RemoveRoute(list, d)[i]
           /\ \A k \in DOMAIN list : list[k].destination # d =>
                 \E i \in DOMAIN RemoveRoute(list, d) : RemoveRoute(list, d)[i] = list[k]
<1> DEFINE n == Len(list)
           w == RemoveRoute(list, d)
<1>1. DOMAIN list = 1 .. n /\ n \in Nat
  OBVIOUS
<1>2. CASE ~ \E i \in 1 .. n : list[i].destination = d
  <2>1. w = list
    BY <1>2 DEF RemoveRoute, RemoveFirstMatch, SelectInSeq, RemoveAt
  <2> HIDE DEF w, n
  <2> QED
    BY <2>1, <1>1, <1>2 DEF w
<1>3. CASE \E i \in 1 .. n : list[i].destination = d
  <2>1. PICK m \in 1 .. n : list[m].destination = d
    BY <1>3
  <2>2. {i \in 1 .. n : list[i].destination = d} = {m}
    BY <2>1 DEF Distinct
  <2>3. Min({m}) = m
    BY <2>1 DEF Min
  <2> DEFINE a == SubSeq(list, 1, m - 1)
             b == SubSeq(list, m + 1, n)
  <2>4. w = a \o b
    BY <1>3, <2>2, <2>3 DEF RemoveRoute, RemoveFirstMatch, SelectInSeq, RemoveAt
  <2>5. /\ m \in 1 .. n /\ a \in Seq(S) /\ b \in Seq(S)
        /\ Len(a) = m - 1 /\ Len(b) = n - m
        /\ \A i \in 1 .. m - 1 : a[i] = list[i]
        /\ \A i \in 1 .. n - m : b[i] = list[m + i]
    BY <2>1
  <2> DEFINE from(i) == IF i < m THEN i ELSE i + 1
  <2>6. w \in Seq(S) /\ DOMAIN w = 1 .. n - 1 /\ \A i \in 1 .. n - 1 : w[i] = list[from(i)]
    <3> HIDE DEF w, a, b, n
    <3>1. /\ w \in Seq(S)
          /\ Len(w) = Len(a) + Len(b)
          /\ \A i \in 1 .. Len(a) + Len(b) : w[i] = IF i <= Len(a) THEN a[i] ELSE b[i - Len(a)]
      BY ONLY <2>4, <2>5, ConcatProperties
    <3>2. Len(w) = n - 1 /\ DOMAIN w = 1 .. n - 1
      BY <1>1, <2>5, <3>1
    <3>3. ASSUME NEW i \in 1 .. n - 1 PROVE w[i] = list[from(i)]
      <4>1. CASE i < m
        BY <1>1, <2>5, <3>1, <4>1
      <4>2. CASE ~ (i < m)
        <5>1. i - (m - 1) \in 1 .. n - m /\ m + (i - (m - 1)) = i + 1
          BY <1>1, <2>5, <4>2
        <5>2. w[i] = b[i - (m - 1)]
          BY <1>1, <2>5, <3>1, <4>2
        <5> QED
          BY <2>5, <5>1, <5>2, <4>2
      <4> QED
        BY <4>1, <4>2
    <3> QED
      BY <3>1, <3>2, <3>3
  <2>7. \A i \in 1 .. n - 1 : from(i) \in 1 .. n /\ from(i) # m
    BY <1>1, <2>1
  <2>8. \A i, j \in 1 .. n - 1 : from(i) = from(j) => i = j
    BY <1>1, <2>1
  <2>9. ASSUME NEW k \in DOMAIN list, list[k].destination # d
        PROVE  \E i \in 1 .. n - 1 : from(i) = k
    <3>1. k # m /\ k \in 1 .. n
      BY <2>1, <2>9
    <3>2. CASE k < m
      BY <1>1, <2>1, <3>1, <3>2
    <3>3. CASE k > m
      <4>1. k - 1 \in 1 .. n - 1 /\ from(k - 1) = k
        BY <1>1, <2>1, <3>1, <3>3
      <4> QED
        BY <4>1
    <3> QED
      BY <1>1, <2>1, <3>1, <3>2, <3>3
  <2> HIDE DEF w, from, n
  <2>10. Distinct(w)
    <3> SUFFICES ASSUME NEW i \in DOMAIN w, NEW j \in DOMAIN w, w[i].destination = w[j].destination
                 PROVE  i = j
      BY DEF Distinct
    <3>1. from(i) = from(j)
      BY <1>1, <2>6, <2>7 DEF Distinct
    <3> QED
      BY <2>6, <2>8, <3>1
  <2>11. \A i \in DOMAIN w : w[i].destination # d /\ \E k \in DOMAIN list : list[k] = w[i]
    BY <1>1, <2>1, <2>6, <2>7 DEF Distinct
  <2>12. \A k \in DOMAIN list : list[k].destination # d => \E i \in DOMAIN w : w[i] = list[k]
    BY <2>6, <2>9
  <2> QED
    BY <2>6, <2>10, <2>11, <2>12 DEF w
<1> QED
  BY <1>2, <1>3

\* A map with the route r for d.
Put(m, d, r) == [x \in DOMAIN m \cup {d} |-> IF x = d THEN r ELSE m[x]]

\* Update puts a route into the map, and an entry of no age into the list.
LEMMA UpdateFacts ==
    ASSUME NEW S, NEW list \in Seq(S), Distinct(list), NEW d, NEW hop, NEW cost,
           Entry(d, hop, cost) \in S
    PROVE  /\ Update(list, d, hop, cost) \in Seq(S)
           /\ Distinct(Update(list, d, hop, cost))
           /\ AsMap(Update(list, d, hop, cost)) = Put(AsMap(list), d, [hop |-> hop, cost |-> cost])
           /\ \A i \in DOMAIN Update(list, d, hop, cost) :
                 \/ Update(list, d, hop, cost)[i] = Entry(d, hop, cost)
                 \/ \E k \in DOMAIN list : Update(list, d, hop, cost)[i] = list[k]
<1> DEFINE entry == Entry(d, hop, cost)
           rest  == RemoveRoute(list, d)
           new   == Append(rest, entry)
           m     == AsMap(list)
           p     == Put(m, d, [hop |-> hop, cost |-> cost])
<1>1. entry.destination = d /\ RouteOf(entry) = [hop |-> hop, cost |-> cost] /\ entry \in S
  BY DEF Entry, RouteOf
<1>2. /\ rest \in Seq(S) /\ Distinct(rest)
      /\ \A i \in DOMAIN rest : rest[i].destination # d /\ \E k \in DOMAIN list : list[k] = rest[i]
      /\ \A k \in DOMAIN list : list[k].destination # d => \E i \in DOMAIN rest : rest[i] = list[k]
  BY RemoveRouteFacts
<1>3. Update(list, d, hop, cost) = new
  BY DEF Update
<1>4. Says(list, m)
  BY AsMapSays
<1> HIDE DEF entry, rest, m
<1>5. /\ new \in Seq(S) /\ DOMAIN new = 1 .. Len(rest) + 1 /\ DOMAIN rest = 1 .. Len(rest)
      /\ Len(rest) \in Nat /\ new[Len(rest) + 1] = entry /\ \A i \in DOMAIN rest : new[i] = rest[i]
  BY <1>1, <1>2
<1> HIDE DEF new
<1>6. \A i \in DOMAIN new : i \in DOMAIN rest \/ i = Len(rest) + 1
  BY <1>5
<1>7. Len(rest) + 1 \in DOMAIN new /\ \A i \in DOMAIN rest : i \in DOMAIN new
  BY <1>5
<1>8. Distinct(new)
  <2> SUFFICES ASSUME NEW i \in DOMAIN new, NEW j \in DOMAIN new,
                      new[i].destination = new[j].destination
               PROVE  i = j
    BY DEF Distinct
  <2> QED
    BY <1>1, <1>2, <1>5, <1>6 DEF Distinct
<1>9. DOMAIN p = DOMAIN m \cup {d} /\ p[d] = [hop |-> hop, cost |-> cost]
      /\ \A x \in DOMAIN m : x # d => p[x] = m[x]
  BY DEF Put
<1>10. p = [x \in DOMAIN p |-> p[x]]
  BY DEF Put
<1> HIDE DEF p
<1>11. ASSUME NEW i \in DOMAIN new
       PROVE  new[i].destination \in DOMAIN p /\ p[new[i].destination] = RouteOf(new[i])
  <2>1. CASE i = Len(rest) + 1
    BY <2>1, <1>1, <1>5, <1>9
  <2>2. CASE i \in DOMAIN rest
    <3>1. PICK k \in DOMAIN list : list[k] = rest[i]
      BY <2>2, <1>2
    <3> QED
      BY <2>2, <3>1, <1>2, <1>4, <1>5, <1>9 DEF Says
  <2> QED
    BY <2>1, <2>2, <1>6
<1>12. ASSUME NEW x \in DOMAIN p PROVE \E i \in DOMAIN new : new[i].destination = x
  <2>1. CASE x = d
    BY <2>1, <1>1, <1>5, <1>7
  <2>2. CASE x # d
    <3>1. PICK k \in DOMAIN list : list[k].destination = x
      BY <2>2, <1>4, <1>9 DEF Says
    <3>2. PICK i \in DOMAIN rest : rest[i] = list[k]
      BY <2>2, <3>1, <1>2
    <3> QED
      BY <3>1, <3>2, <1>5, <1>7
  <2> QED
    BY <2>1, <2>2
<1>13. Says(new, p)
  BY <1>10, <1>11, <1>12 DEF Says
<1>14. AsMap(new) = p
  BY <1>5, <1>8, <1>13, SaysOne
<1>15. ASSUME NEW i \in DOMAIN new PROVE new[i] = entry \/ \E k \in DOMAIN list : new[i] = list[k]
  BY <1>2, <1>5, <1>6
<1> QED
  BY <1>3, <1>5, <1>8, <1>14, <1>15 DEF p, m, entry

\* Wins and NextHop on the list are Accepts and a lookup on the map.
LEMMA WinsFacts ==
    ASSUME NEW S, NEW list \in Seq(S), Distinct(list), NEW e
    PROVE  Wins(list, e) <=>
               /\ e.cost # MaxCost
               /\ e.destination \in DOMAIN AsMap(list) =>
                      Further(e.cost) <= AsMap(list)[e.destination].cost
<1> DEFINE d == e.destination
           p == Position(list, d)
           m == AsMap(list)
<1>1. \/ p = 0 /\ \A i \in DOMAIN list : list[i].destination # d
      \/ p \in DOMAIN list /\ list[p].destination = d
  BY PositionOf
<1>2. Says(list, m)
  BY AsMapSays
<1>3. 0 \notin DOMAIN list
  OBVIOUS
<1>4. \A r \in {RouteOf(list[p])} : r.cost = list[p].cost
  BY DEF RouteOf
<1>5. Wins(list, e) <=> e.cost # MaxCost /\ (p # 0 => Further(e.cost) <= list[p].cost)
  BY DEF Wins
<1> HIDE DEF p, m
<1> QED
  BY <1>1, <1>2, <1>3, <1>4, <1>5 DEF Says, m

LEMMA NextHopFacts ==
    ASSUME NEW S, NEW list \in Seq(S), Distinct(list), NEW d
    PROVE  NextHop(list, d) = IF d \in DOMAIN AsMap(list) THEN AsMap(list)[d].hop ELSE NoRoute
<1> DEFINE p == Position(list, d)
           m == AsMap(list)
<1>1. \/ p = 0 /\ \A i \in DOMAIN list : list[i].destination # d
      \/ p \in DOMAIN list /\ list[p].destination = d
  BY PositionOf
<1>2. Says(list, m)
  BY AsMapSays
<1>3. 0 \notin DOMAIN list
  OBVIOUS
<1>4. RouteOf(list[p]).hop = list[p].next_hop
  BY DEF RouteOf
<1>5. NextHop(list, d) = IF p = 0 THEN NoRoute ELSE list[p].next_hop
  BY DEF NextHop
<1> HIDE DEF p, m
<1> QED
  BY <1>1, <1>2, <1>3, <1>4, <1>5 DEF Says, m

-----------------------------------------------------------------------------
(* The walks of RouteTable                                                  *)

\* The lists with one entry for a destination.
Lists(S) == {l \in Seq(S) : Distinct(l)}

\* An entry that RemoveOldEntries keeps.
Stays(e) == e.age <= MaxAge \/ e.cost = 0

\* The list has those of the first n entries that stay, and nothing else.
Filters(list, entries, n) ==
    /\ \A k \in DOMAIN list : \E j \in 1 .. n : list[k] = entries[j] /\ Stays(entries[j])
    /\ \A j \in 1 .. n : Stays(entries[j]) => \E k \in DOMAIN list : list[k] = entries[j]

\* RemoveOldEntries is a walk over the list.
LEMMA RemoveOldWalks ==
    ASSUME NEW S, NEW list \in Seq(S)
    PROVE  \E kept \in [0 .. Len(list) -> Seq(S)] :
              /\ RemoveOldEntries(list) = kept[Len(list)]
              /\ kept[0] = <<>>
              /\ \A i \in 1 .. Len(list) :
                    kept[i] = IF Stays(list[i]) THEN Append(kept[i - 1], list[i]) ELSE kept[i - 1]
<1> DEFINE n == Len(list)
           step == [i \in 1 .. n |-> [s \in Seq(S) |-> IF Stays(list[i]) THEN Append(s, list[i]) ELSE s]]
           kept == CHOOSE f : f = [i \in 0 .. n |->
                        IF i = 0 THEN <<>>
                        ELSE IF list[i].age <= MaxAge \/ list[i].cost = 0 THEN Append(f[i - 1], list[i])
                        ELSE f[i - 1]]
<1>1. n \in Nat /\ <<>> \in Seq(S) /\ \A i \in 1 .. n : list[i] \in S
  OBVIOUS
<1>2. RemoveOldEntries(list) = kept[n]
  BY DEF RemoveOldEntries
<1>3. step \in Steps(n, Seq(S))
  BY <1>1 DEF Steps
<1>4. PICK f : f \in Walks(n, Seq(S), <<>>, step)
  <2> HIDE DEF n, step
  <2> QED
    BY <1>1, <1>3, WalkExists
<1>5. \A i \in 1 .. n : \A s \in Seq(S) :
         step[i][s] = IF Stays(list[i]) THEN Append(s, list[i]) ELSE s
  OBVIOUS
<1> HIDE DEF n, kept, step
<1>6. f \in [0 .. n -> Seq(S)] /\ f[0] = <<>>
  BY <1>4 DEF Walks
<1>7. ASSUME NEW i \in 1 .. n
      PROVE  f[i] = IF Stays(list[i]) THEN Append(f[i - 1], list[i]) ELSE f[i - 1]
  <2>1. f[i - 1] \in Seq(S)
    BY <1>1, <1>6
  <2> QED
    BY <2>1, <1>4, <1>5 DEF Walks
<1>8. f = [i \in 0 .. n |->
              IF i = 0 THEN <<>>
              ELSE IF list[i].age <= MaxAge \/ list[i].cost = 0 THEN Append(f[i - 1], list[i])
              ELSE f[i - 1]]
  <2>1. \A i \in 0 .. n : i # 0 => i \in 1 .. n
    BY <1>1
  <2> QED
    BY <1>6, <1>7, <2>1 DEF Stays
<1>9. kept = [i \in 0 .. n |->
                 IF i = 0 THEN <<>>
                 ELSE IF list[i].age <= MaxAge \/ list[i].cost = 0 THEN Append(kept[i - 1], list[i])
                 ELSE kept[i - 1]]
  BY <1>8 DEF kept
<1>10. /\ DOMAIN kept = 0 .. n /\ kept[0] = <<>>
       /\ \A i \in 1 .. n :
             kept[i] = IF Stays(list[i]) THEN Append(kept[i - 1], list[i]) ELSE kept[i - 1]
  <2>1. 0 \in 0 .. n /\ \A i \in 1 .. n : i \in 0 .. n /\ i # 0
    BY <1>1
  <2> QED
    BY <1>9, <2>1 DEF Stays
<1>11. \A i \in 0 .. n : kept[i] = f[i]
  <2> DEFINE T == {i \in 0 .. n : kept[i] = f[i]}
  <2>1. 0 \in T /\ T \in SUBSET (0 .. n)
    BY <1>1, <1>6, <1>10
  <2>2. ASSUME NEW i \in 1 .. n, i - 1 \in T PROVE i \in T
    BY <2>2, <1>7, <1>10
  <2> HIDE DEF T
  <2>3. T = 0 .. n
    BY <2>1, <2>2, <1>1, UpTo
  <2> QED
    BY <2>3 DEF T
<1>12. kept \in [0 .. n -> Seq(S)]
  BY <1>6, <1>9, <1>11
<1> QED
  BY <1>2, <1>10, <1>12 DEF n

\* One more entry that stays.
LEMMA FiltersOneMore ==
    ASSUME NEW S, NEW entries \in Lists(S), NEW i \in 1 .. Len(entries), NEW list \in Lists(S),
           Filters(list, entries, i - 1), Stays(entries[i])
    PROVE  Append(list, entries[i]) \in Lists(S) /\ Filters(Append(list, entries[i]), entries, i)
<1> DEFINE more == Append(list, entries[i])
<1>1. entries \in Seq(S) /\ list \in Seq(S) /\ Distinct(entries) /\ Distinct(list)
  BY DEF Lists
<1>2. entries[i] \in S /\ i - 1 \in Nat /\ i \in Nat /\ DOMAIN entries = 1 .. Len(entries)
  BY <1>1
<1>3. /\ more \in Seq(S) /\ DOMAIN more = 1 .. Len(list) + 1 /\ Len(list) \in Nat
      /\ DOMAIN list = 1 .. Len(list)
      /\ more[Len(list) + 1] = entries[i] /\ \A k \in DOMAIN list : more[k] = list[k]
  BY <1>1, <1>2
<1> HIDE DEF more
<1>4. \A k \in DOMAIN more : k \in DOMAIN list \/ k = Len(list) + 1
  BY <1>3
<1>5. Len(list) + 1 \in DOMAIN more /\ \A k \in DOMAIN list : k \in DOMAIN more
  BY <1>3
<1>6. \A j \in 1 .. i - 1 : j \in 1 .. i /\ j # i /\ j \in DOMAIN entries
  BY <1>2
<1>7. i \in 1 .. i /\ i \in DOMAIN entries /\ \A j \in 1 .. i : j = i \/ j \in 1 .. i - 1
  BY <1>2
<1>8. ASSUME NEW k \in DOMAIN list PROVE list[k].destination # entries[i].destination
  <2>1. PICK j \in 1 .. i - 1 : list[k] = entries[j]
    BY DEF Filters
  <2> QED
    BY <2>1, <1>1, <1>6, <1>7 DEF Distinct
<1>9. Distinct(more)
  <2> SUFFICES ASSUME NEW k \in DOMAIN more, NEW l \in DOMAIN more,
                      more[k].destination = more[l].destination
               PROVE  k = l
    BY DEF Distinct
  <2> QED
    BY <1>1, <1>3, <1>4, <1>8 DEF Distinct
<1>10. ASSUME NEW k \in DOMAIN more
       PROVE  \E j \in 1 .. i : more[k] = entries[j] /\ Stays(entries[j])
  <2>1. CASE k = Len(list) + 1
    BY <2>1, <1>3, <1>7
  <2>2. CASE k \in DOMAIN list
    <3>1. PICK j \in 1 .. i - 1 : list[k] = entries[j] /\ Stays(entries[j])
      BY <2>2 DEF Filters
    <3> QED
      BY <2>2, <3>1, <1>3, <1>6
  <2> QED
    BY <2>1, <2>2, <1>4
<1>11. ASSUME NEW j \in 1 .. i, Stays(entries[j]) PROVE \E k \in DOMAIN more : more[k] = entries[j]
  <2>1. CASE j = i
    BY <2>1, <1>3, <1>5
  <2>2. CASE j \in 1 .. i - 1
    <3>1. PICK k \in DOMAIN list : list[k] = entries[j]
      BY <2>2, <1>11 DEF Filters
    <3> QED
      BY <3>1, <1>3, <1>5
  <2> QED
    BY <2>1, <2>2, <1>7
<1> QED
  BY <1>3, <1>9, <1>10, <1>11 DEF Filters, Lists, more

\* RemoveOldEntries leaves exactly the entries that stay.
LEMMA RemoveOldFilters ==
    ASSUME NEW S, NEW list \in Lists(S)
    PROVE  RemoveOldEntries(list) \in Lists(S) /\ Filters(RemoveOldEntries(list), list, Len(list))
<1> DEFINE n == Len(list)
<1>1. list \in Seq(S) /\ n \in Nat /\ n = Len(list)
  BY DEF Lists
<1>2. PICK kept \in [0 .. n -> Seq(S)] :
         /\ RemoveOldEntries(list) = kept[n]
         /\ kept[0] = <<>>
         /\ \A i \in 1 .. n :
               kept[i] = IF Stays(list[i]) THEN Append(kept[i - 1], list[i]) ELSE kept[i - 1]
  BY <1>1, RemoveOldWalks
<1> HIDE DEF n
<1> DEFINE T == {i \in 0 .. n : kept[i] \in Lists(S) /\ Filters(kept[i], list, i)}
<1>3. 0 \in T
  <2>1. DOMAIN kept[0] = {} /\ 1 .. 0 = {} /\ 0 \in 0 .. n /\ kept[0] \in Seq(S)
    BY <1>1, <1>2
  <2> QED
    BY <2>1 DEF Filters, Distinct, Lists
<1>4. ASSUME NEW i \in 1 .. n, i - 1 \in T PROVE i \in T
  <2>1. i \in 1 .. Len(list) /\ i \in 0 .. n /\ i \in Nat
    BY <1>1
  <2>2. kept[i - 1] \in Lists(S) /\ Filters(kept[i - 1], list, i - 1)
    BY <1>4
  <2>3. CASE Stays(list[i])
    BY <2>1, <2>2, <2>3, <1>2, FiltersOneMore
  <2>4. CASE ~ Stays(list[i])
    <3>1. kept[i] = kept[i - 1]
      BY <2>4, <1>2
    <3>2. /\ \A j \in 1 .. i : j = i \/ j \in 1 .. i - 1
          /\ \A j \in 1 .. i - 1 : j \in 1 .. i
      BY <2>1
    <3>3. Filters(kept[i], list, i)
      BY <2>2, <2>4, <3>1, <3>2 DEF Filters
    <3> QED
      BY <2>1, <2>2, <3>1, <3>3
  <2> QED
    BY <2>3, <2>4
<1> HIDE DEF T
<1>5. T = 0 .. n
  <2>1. T \in SUBSET (0 .. n)
    BY DEF T
  <2> QED
    BY <1>1, <1>3, <1>4, <2>1, UpTo
<1>6. n \in 0 .. n
  BY <1>1
<1> QED
  BY <1>1, <1>2, <1>5, <1>6 DEF T

\* Seen as a map, RemoveOldEntries forgets some of the routes, and none of the
\* host's own.
LEMMA RemoveOldForgets ==
    ASSUME NEW S, NEW list \in Lists(S)
    PROVE  \E D \in SUBSET {d \in DOMAIN AsMap(list) : AsMap(list)[d].cost # 0} :
              AsMap(RemoveOldEntries(list)) = Without(AsMap(list), D)
<1> DEFINE m    == AsMap(list)
           rest == RemoveOldEntries(list)
           D    == {d \in DOMAIN m : \E i \in DOMAIN list : list[i].destination = d /\ ~ Stays(list[i])}
           w    == Without(m, D)
<1>1. list \in Seq(S) /\ Distinct(list) /\ DOMAIN list = 1 .. Len(list)
  BY DEF Lists
<1>2. rest \in Seq(S) /\ Distinct(rest) /\ Filters(rest, list, Len(list))
  BY RemoveOldFilters DEF Lists
<1>3. Says(list, m)
  BY <1>1, AsMapSays
<1>4. ASSUME NEW d \in D PROVE m[d].cost # 0
  <2>1. PICK i \in DOMAIN list : list[i].destination = d /\ ~ Stays(list[i])
    OBVIOUS
  <2>2. m[d] = RouteOf(list[i])
    BY <1>3, <2>1 DEF Says
  <2> QED
    BY <2>1, <2>2 DEF Stays, RouteOf
<1> HIDE DEF m, rest
<1>5. w = [d \in DOMAIN m \ D |-> m[d]]
  BY DEF Without
<1> HIDE DEF w
<1>6. \A i \in DOMAIN list : list[i].destination \in D <=> ~ Stays(list[i])
  BY <1>1, <1>3 DEF Distinct, Says
<1>7. Says(rest, w)
  <2>1. w = [d \in DOMAIN w |-> w[d]]
    BY <1>5
  <2>2. ASSUME NEW k \in DOMAIN rest
        PROVE  rest[k].destination \in DOMAIN w /\ w[rest[k].destination] = RouteOf(rest[k])
    <3>1. PICK j \in DOMAIN list : rest[k] = list[j] /\ Stays(list[j])
      BY <1>1, <1>2 DEF Filters
    <3>2. list[j].destination \in DOMAIN m /\ list[j].destination \notin D
          /\ m[list[j].destination] = RouteOf(list[j])
      BY <1>3, <1>6, <3>1 DEF Says
    <3> HIDE DEF D
    <3> QED
      BY <1>5, <3>1, <3>2
  <2>3. ASSUME NEW d \in DOMAIN w PROVE \E k \in DOMAIN rest : rest[k].destination = d
    <3>1. d \in DOMAIN m /\ d \notin D
      BY <1>5
    <3>2. PICK j \in DOMAIN list : list[j].destination = d
      BY <1>3, <3>1 DEF Says
    <3>3. Stays(list[j])
      BY <1>6, <3>1, <3>2
    <3>4. PICK k \in DOMAIN rest : rest[k] = list[j]
      BY <1>1, <1>2, <3>3 DEF Filters
    <3> QED
      BY <3>2, <3>4
  <2> QED
    BY <2>1, <2>2, <2>3 DEF Says
<1>8. AsMap(rest) = w
  BY <1>2, <1>7, SaysOne
<1>9. D \in SUBSET {d \in DOMAIN m : m[d].cost # 0}
  BY <1>4
<1> QED
  BY <1>8, <1>9 DEF rest, w, m

\* LocalTable is a walk over the addresses.
LEMMA LocalTableWalks ==
    ASSUME NEW S, NEW A, NEW addresses \in Seq(A), \A a \in A : Entry(a, a, 0) \in S
    PROVE  \E added \in [0 .. Len(addresses) -> Lists(S)] :
              /\ LocalTable(addresses) = added[Len(addresses)]
              /\ added[0] = <<>>
              /\ \A i \in 1 .. Len(addresses) :
                    added[i] = Update(added[i - 1], addresses[i], addresses[i], 0)
<1> DEFINE n == Len(addresses)
           step == [i \in 1 .. n |-> [s \in Lists(S) |-> Update(s, addresses[i], addresses[i], 0)]]
           added == CHOOSE f : f = [i \in 0 .. n |->
                        IF i = 0 THEN <<>> ELSE Update(f[i - 1], addresses[i], addresses[i], 0)]
<1>1. n \in Nat /\ <<>> \in Lists(S) /\ \A i \in 1 .. n : Entry(addresses[i], addresses[i], 0) \in S
  BY DEF Lists, Distinct
<1>2. LocalTable(addresses) = added[n]
  BY DEF LocalTable
<1>3. \A i \in 1 .. n : \A s \in Lists(S) : Update(s, addresses[i], addresses[i], 0) \in Lists(S)
  BY <1>1, UpdateFacts DEF Lists
<1>4. step \in Steps(n, Lists(S))
  BY <1>3 DEF Steps
<1>5. PICK f : f \in Walks(n, Lists(S), <<>>, step)
  <2> HIDE DEF n, step
  <2> QED
    BY <1>1, <1>4, WalkExists
<1>6. \A i \in 1 .. n : \A s \in Lists(S) : step[i][s] = Update(s, addresses[i], addresses[i], 0)
  OBVIOUS
<1> HIDE DEF n, added, step
<1>7. f \in [0 .. n -> Lists(S)] /\ f[0] = <<>>
  BY <1>5 DEF Walks
<1>8. ASSUME NEW i \in 1 .. n PROVE f[i] = Update(f[i - 1], addresses[i], addresses[i], 0)
  <2>1. f[i - 1] \in Lists(S)
    BY <1>1, <1>7
  <2> QED
    BY <2>1, <1>5, <1>6 DEF Walks
<1>9. f = [i \in 0 .. n |->
              IF i = 0 THEN <<>> ELSE Update(f[i - 1], addresses[i], addresses[i], 0)]
  <2>1. \A i \in 0 .. n : i # 0 => i \in 1 .. n
    BY <1>1
  <2> QED
    BY <1>7, <1>8, <2>1
<1>10. added = [i \in 0 .. n |->
                   IF i = 0 THEN <<>> ELSE Update(added[i - 1], addresses[i], addresses[i], 0)]
  BY <1>9 DEF added
<1>11. /\ added[0] = <<>>
       /\ \A i \in 1 .. n : added[i] = Update(added[i - 1], addresses[i], addresses[i], 0)
  <2>1. 0 \in 0 .. n /\ \A i \in 1 .. n : i \in 0 .. n /\ i # 0
    BY <1>1
  <2> QED
    BY <1>10, <2>1
<1>12. \A i \in 0 .. n : added[i] = f[i]
  <2> DEFINE T == {i \in 0 .. n : added[i] = f[i]}
  <2>1. 0 \in T /\ T \in SUBSET (0 .. n)
    BY <1>1, <1>7, <1>11
  <2>2. ASSUME NEW i \in 1 .. n, i - 1 \in T PROVE i \in T
    BY <2>2, <1>8, <1>11
  <2> HIDE DEF T
  <2>3. T = 0 .. n
    BY <2>1, <2>2, <1>1, UpTo
  <2> QED
    BY <2>3 DEF T
<1>13. added \in [0 .. n -> Lists(S)]
  BY <1>7, <1>10, <1>12
<1> QED
  BY <1>2, <1>11, <1>13 DEF n

\* The first table: an entry of cost 0 and no age for each address.
LEMMA LocalTableFacts ==
    ASSUME NEW S, NEW A, NEW addresses \in Seq(A), \A a \in A : Entry(a, a, 0) \in S
    PROVE  /\ LocalTable(addresses) \in Lists(S)
           /\ AsMap(LocalTable(addresses)) = OwnRoutes({addresses[i] : i \in DOMAIN addresses})
<1> DEFINE n == Len(addresses)
           Own(i) == OwnRoutes({addresses[j] : j \in 1 .. i})
<1>1. n \in Nat /\ n = Len(addresses) /\ DOMAIN addresses = 1 .. n
      /\ \A i \in 1 .. n : addresses[i] \in A
  OBVIOUS
<1>2. PICK added \in [0 .. n -> Lists(S)] :
         /\ LocalTable(addresses) = added[n]
         /\ added[0] = <<>>
         /\ \A i \in 1 .. n : added[i] = Update(added[i - 1], addresses[i], addresses[i], 0)
  BY LocalTableWalks
<1> HIDE DEF n
<1> DEFINE T == {i \in 0 .. n : AsMap(added[i]) = Own(i)}
<1>3. 0 \in T
  <2>1. DOMAIN <<>> = {} /\ 1 .. 0 = {} /\ 0 \in 0 .. n
    BY <1>1
  <2>2. AsMap(<<>>) = [d \in {} |-> [hop |-> d, cost |-> 0]]
    BY <2>1 DEF AsMap
  <2>3. Own(0) = [d \in {} |-> [hop |-> d, cost |-> 0]]
    BY <2>1 DEF OwnRoutes
  <2> QED
    BY <1>2, <2>1, <2>2, <2>3
<1>4. ASSUME NEW i \in 1 .. n, i - 1 \in T PROVE i \in T
  <2> DEFINE a == addresses[i]
             X == {addresses[j] : j \in 1 .. i - 1}
             Y == {addresses[j] : j \in 1 .. i}
  <2>1. i \in 0 .. n /\ i - 1 \in 0 .. n /\ a \in A /\ i \in Nat
    BY <1>1
  <2>2. added[i - 1] \in Lists(S) /\ Entry(a, a, 0) \in S
    BY <1>2, <2>1
  <2>3. AsMap(added[i]) = Put(AsMap(added[i - 1]), a, [hop |-> a, cost |-> 0])
    BY <1>2, <2>2, UpdateFacts DEF Lists
  <2>4. AsMap(added[i - 1]) = OwnRoutes(X)
    BY <1>4
  <2>5. Y = X \cup {a}
    <3>1. \A j \in 1 .. i : j = i \/ j \in 1 .. i - 1
      BY <2>1
    <3>2. i \in 1 .. i /\ \A j \in 1 .. i - 1 : j \in 1 .. i
      BY <2>1
    <3> QED
      BY <3>1, <3>2
  <2> HIDE DEF X, Y, a
  <2>6. Put(OwnRoutes(X), a, [hop |-> a, cost |-> 0]) = OwnRoutes(Y)
    BY <2>5 DEF Put, OwnRoutes
  <2> QED
    BY <2>1, <2>3, <2>4, <2>6 DEF Y
<1> HIDE DEF T
<1>5. T = 0 .. n
  <2>1. T \in SUBSET (0 .. n)
    BY DEF T
  <2> QED
    BY <1>1, <1>3, <1>4, <2>1, UpTo
<1>6. n \in T /\ added[n] \in Lists(S)
  BY <1>1, <1>2, <1>5
<1> QED
  BY <1>1, <1>2, <1>6 DEF T

\* A neighbour's table: the entries a host may take from it are in S.
IsOffer(neighbor, S) ==
    /\ neighbor.entries \in Seq({neighbor.entries[i] : i \in DOMAIN neighbor.entries})
    /\ Distinct(neighbor.entries)
    /\ \A i \in DOMAIN neighbor.entries :
          Entry(neighbor.entries[i].destination, neighbor.address,
                Further(neighbor.entries[i].cost)) \in S

\* One entry of it is looked at.
LearnOne(list, neighbor, e) ==
    IF Wins(list, e) THEN Update(list, e.destination, neighbor.address, Further(e.cost)) ELSE list

\* UpdateRouting is a walk over the neighbour's table.
LEMMA UpdateRoutingWalks ==
    ASSUME NEW S, NEW list \in Lists(S), NEW neighbor, IsOffer(neighbor, S)
    PROVE  \E learned \in [0 .. Len(neighbor.entries) -> Lists(S)] :
              /\ UpdateRouting(list, neighbor) = learned[Len(neighbor.entries)]
              /\ learned[0] = list
              /\ \A i \in 1 .. Len(neighbor.entries) :
                    learned[i] = LearnOne(learned[i - 1], neighbor, neighbor.entries[i])
<1> DEFINE n == Len(neighbor.entries)
           entry(i) == neighbor.entries[i]
           step == [i \in 1 .. n |-> [s \in Lists(S) |-> LearnOne(s, neighbor, entry(i))]]
           learned == CHOOSE f : f = [i \in 0 .. n |->
                        IF i = 0 THEN list
                        ELSE IF Wins(f[i - 1], entry(i))
                             THEN Update(f[i - 1], entry(i).destination, neighbor.address,
                                         Further(entry(i).cost))
                             ELSE f[i - 1]]
<1>1. n \in Nat /\ \A i \in 1 .. n :
         Entry(entry(i).destination, neighbor.address, Further(entry(i).cost)) \in S
  BY DEF IsOffer
<1>2. UpdateRouting(list, neighbor) = learned[n]
  BY DEF UpdateRouting
<1> HIDE DEF learned
<1>3. \A i \in 1 .. n : \A s \in Lists(S) : LearnOne(s, neighbor, entry(i)) \in Lists(S)
  <2> HIDE DEF entry, n
  <2> QED
    BY <1>1, UpdateFacts DEF Lists, LearnOne
<1>4. step \in Steps(n, Lists(S))
  BY <1>3 DEF Steps
<1>5. \A i \in 1 .. n : \A s \in Lists(S) : step[i][s] = LearnOne(s, neighbor, entry(i))
  OBVIOUS
<1>6. \A i \in 1 .. n : entry(i) = neighbor.entries[i]
  OBVIOUS
<1> HIDE DEF n, step, entry
<1>7. PICK f : f \in Walks(n, Lists(S), list, step)
  BY <1>1, <1>4, WalkExists
<1>8. f \in [0 .. n -> Lists(S)] /\ f[0] = list
  BY <1>7 DEF Walks
<1>9. ASSUME NEW i \in 1 .. n PROVE f[i] = LearnOne(f[i - 1], neighbor, entry(i))
  <2>1. f[i - 1] \in Lists(S)
    BY <1>1, <1>8
  <2> QED
    BY <2>1, <1>5, <1>7 DEF Walks
<1>10. f = [i \in 0 .. n |->
               IF i = 0 THEN list
               ELSE IF Wins(f[i - 1], entry(i))
                    THEN Update(f[i - 1], entry(i).destination, neighbor.address,
                                Further(entry(i).cost))
                    ELSE f[i - 1]]
  <2>1. \A i \in 0 .. n : i # 0 => i \in 1 .. n
    BY <1>1
  <2> QED
    BY <1>8, <1>9, <2>1 DEF LearnOne
<1>11. learned = [i \in 0 .. n |->
                     IF i = 0 THEN list
                     ELSE IF Wins(learned[i - 1], entry(i))
                          THEN Update(learned[i - 1], entry(i).destination, neighbor.address,
                                      Further(entry(i).cost))
                          ELSE learned[i - 1]]
  BY <1>10 DEF learned
<1>12. /\ learned[0] = list
       /\ \A i \in 1 .. n : learned[i] = LearnOne(learned[i - 1], neighbor, entry(i))
  <2>1. 0 \in 0 .. n /\ \A i \in 1 .. n : i \in 0 .. n /\ i # 0
    BY <1>1
  <2> QED
    BY <1>11, <2>1 DEF LearnOne
<1>13. \A i \in 0 .. n : learned[i] = f[i]
  <2> DEFINE T == {i \in 0 .. n : learned[i] = f[i]}
  <2>1. 0 \in T /\ T \in SUBSET (0 .. n)
    BY <1>1, <1>8, <1>12
  <2>2. ASSUME NEW i \in 1 .. n, i - 1 \in T PROVE i \in T
    BY <2>2, <1>9, <1>12
  <2> HIDE DEF T
  <2>3. T = 0 .. n
    BY <2>1, <2>2, <1>1, UpTo
  <2> QED
    BY <2>3 DEF T
<1>14. learned \in [0 .. n -> Lists(S)]
  BY <1>8, <1>11, <1>13
<1> QED
  BY <1>2, <1>6, <1>12, <1>14 DEF n

\* Seen as a map, UpdateRouting is Learn.
LEMMA UpdateRoutingLearns ==
    ASSUME NEW S, NEW list \in Lists(S), NEW neighbor, IsOffer(neighbor, S)
    PROVE  /\ UpdateRouting(list, neighbor) \in Lists(S)
           /\ AsMap(UpdateRouting(list, neighbor)) =
                  Learn(AsMap(list), AsMap(neighbor.entries), neighbor.address)
<1> DEFINE n        == Len(neighbor.entries)
           entry(i) == neighbor.entries[i]
           m        == AsMap(list)
           offers   == AsMap(neighbor.entries)
           via      == neighbor.address
           taken(i) == {entry(j).destination : j \in {k \in 1 .. i : Accepts(m, offers, entry(k).destination)}}
           new(d)   == [hop |-> via, cost |-> Further(offers[d].cost)]
           after(i) == [d \in DOMAIN m \cup taken(i) |-> IF d \in taken(i) THEN new(d) ELSE m[d]]
<1>1. n \in Nat /\ DOMAIN neighbor.entries = 1 .. n
  BY DEF IsOffer
<1>2. Says(neighbor.entries, offers)
  BY AsMapSays DEF IsOffer
<1>3. m = [d \in DOMAIN m |-> m[d]]
  BY AsMapSays DEF Lists, Says
<1>4. PICK learned \in [0 .. n -> Lists(S)] :
         /\ UpdateRouting(list, neighbor) = learned[n]
         /\ learned[0] = list
         /\ \A i \in 1 .. n : learned[i] = LearnOne(learned[i - 1], neighbor, neighbor.entries[i])
  BY UpdateRoutingWalks
<1>5. \A i \in 1 .. n :
         /\ entry(i) = neighbor.entries[i]
         /\ entry(i).destination \in DOMAIN offers
         /\ offers[entry(i).destination].cost = entry(i).cost
         /\ Entry(entry(i).destination, via, Further(entry(i).cost)) \in S
  <2>1. \A i \in 1 .. n : RouteOf(entry(i)).cost = entry(i).cost
    BY DEF RouteOf
  <2>2. \A i \in 1 .. n : Entry(entry(i).destination, via, Further(entry(i).cost)) \in S
    BY <1>1 DEF IsOffer
  <2>3. \A i \in 1 .. n : /\ entry(i).destination \in DOMAIN offers
                          /\ offers[entry(i).destination] = RouteOf(entry(i))
    <3> HIDE DEF offers
    <3> QED
      BY <1>1, <1>2 DEF Says
  <2> HIDE DEF offers, n
  <2> QED
    BY <2>1, <2>2, <2>3
<1>6. \A i, j \in 1 .. n : entry(i).destination = entry(j).destination => i = j
  BY <1>1 DEF IsOffer, Distinct
<1>7. \A d \in DOMAIN offers : \E i \in 1 .. n : entry(i).destination = d
  <2> HIDE DEF offers
  <2> QED
    BY <1>1, <1>2 DEF Says
<1>8. ASSUME NEW i \in 1 .. n
      PROVE  learned[i] = LearnOne(learned[i - 1], neighbor, entry(i))
  BY <1>4
<1>9. list = learned[0] /\ m = AsMap(learned[0])
  BY <1>4
<1> HIDE DEF n, entry, m, offers, via
<1> DEFINE T == {i \in 0 .. n : AsMap(learned[i]) = after(i)}
<1>10. 0 \in T
  <2>1. taken(0) = {} /\ 0 \in 0 .. n
    BY <1>1
  <2>2. after(0) = m
    BY <2>1, <1>3
  <2> QED
    BY <2>1, <2>2, <1>9
<1>11. ASSUME NEW i \in 1 .. n, i - 1 \in T PROVE i \in T
  <2> DEFINE e == entry(i)
             d == entry(i).destination
  <2>1. i \in 0 .. n /\ i - 1 \in 0 .. n /\ i \in Nat
    BY <1>1
  <2>2. /\ \A j \in 1 .. i : j = i \/ j \in 1 .. i - 1
        /\ \A j \in 1 .. i - 1 : j \in 1 .. i /\ j \in 1 .. n /\ j # i
        /\ i \in 1 .. i
    BY <2>1, <1>1
  <2>3. AsMap(learned[i - 1]) = after(i - 1)
    BY <1>11
  <2>4. learned[i - 1] \in Seq(S) /\ Distinct(learned[i - 1])
    BY <1>4, <2>1 DEF Lists
  <2>5. d \notin taken(i - 1)
    BY <1>6, <2>2
  <2>6. taken(i) = IF Accepts(m, offers, d) THEN taken(i - 1) \cup {d} ELSE taken(i - 1)
    BY <2>2
  <2> HIDE DEF taken
  <2>7. /\ d \in DOMAIN after(i - 1) <=> d \in DOMAIN m
        /\ d \in DOMAIN m => after(i - 1)[d] = m[d]
    BY <2>5
  <2>8. Wins(learned[i - 1], e) <=> Accepts(m, offers, d)
    <3>1. Wins(learned[i - 1], e) <=>
             /\ e.cost # MaxCost
             /\ d \in DOMAIN after(i - 1) => Further(e.cost) <= after(i - 1)[d].cost
      BY <2>3, <2>4, WinsFacts
    <3> HIDE DEF after
    <3> QED
      BY <3>1, <2>7, <1>5 DEF Accepts
  <2>9. CASE Accepts(m, offers, d)
    <3>1. learned[i] = Update(learned[i - 1], d, via, Further(e.cost))
      BY <1>8, <2>8, <2>9 DEF LearnOne, via
    <3>2. Entry(d, via, Further(e.cost)) \in S
      BY <1>5
    <3>3. AsMap(learned[i]) = Put(after(i - 1), d, [hop |-> via, cost |-> Further(e.cost)])
      BY <3>1, <3>2, <2>3, <2>4, UpdateFacts
    <3>4. new(d) = [hop |-> via, cost |-> Further(e.cost)]
      BY <1>5
    <3> HIDE DEF new, e, d
    <3>5. Put(after(i - 1), d, new(d)) = after(i)
      BY <2>6, <2>9 DEF Put
    <3> QED
      BY <3>3, <3>4, <3>5, <2>1
  <2>10. CASE ~ Accepts(m, offers, d)
    <3>1. learned[i] = learned[i - 1]
      BY <1>8, <2>8, <2>10 DEF LearnOne
    <3>2. taken(i) = taken(i - 1)
      BY <2>6, <2>10
    <3>3. after(i) = after(i - 1)
      BY <3>2
    <3> QED
      BY <3>1, <3>3, <2>1, <2>3
  <2> QED
    BY <2>9, <2>10
<1> HIDE DEF T
<1>12. T = 0 .. n
  <2>1. T \in SUBSET (0 .. n)
    BY DEF T
  <2> QED
    BY <1>1, <1>10, <1>11, <2>1, UpTo
<1>13. AsMap(learned[n]) = after(n) /\ learned[n] \in Lists(S)
  <2>1. n \in T /\ learned[n] \in Lists(S)
    BY <1>1, <1>4, <1>12
  <2> HIDE DEF after
  <2> QED
    BY <2>1 DEF T
<1>14. taken(n) = {d \in DOMAIN offers : Accepts(m, offers, d)}
  BY <1>5, <1>7
<1> HIDE DEF taken
<1>15. after(n) = Learn(m, offers, via)
  BY <1>14 DEF Learn
<1> QED
  BY <1>4, <1>13, <1>15 DEF m, offers, via

\* A package says what the table says.
LEMMA PackageSays ==
    ASSUME NEW S, NEW list \in Lists(S)
    PROVE  AsMap(Package(list)) = AsMap(list)
<1> DEFINE p == Package(list)
           E == {p[i] : i \in DOMAIN list}
<1>1. list \in Seq(S) /\ Distinct(list) /\ DOMAIN list = 1 .. Len(list) /\ Len(list) \in Nat
  BY DEF Lists
<1>2. Says(list, AsMap(list))
  BY <1>1, AsMapSays
<1>3. /\ p = [i \in 1 .. Len(list) |-> p[i]]
      /\ \A i \in DOMAIN list : /\ p[i].destination = list[i].destination
                                /\ RouteOf(p[i]) = RouteOf(list[i])
  BY <1>1 DEF Package, RouteOf
<1> HIDE DEF p
<1>4. p \in Seq(E) /\ DOMAIN p = DOMAIN list
  BY <1>1, <1>3
<1>5. Distinct(p)
  BY <1>1, <1>3, <1>4 DEF Distinct
<1>6. Says(p, AsMap(list))
  BY <1>2, <1>3, <1>4 DEF Says
<1> QED
  BY <1>4, <1>5, <1>6, SaysOne DEF p

\* Lists of entries of a kind are lists of a wider kind.
LEMMA ListsWider ==
    ASSUME NEW S, NEW R, NEW list \in Lists(S), \A i \in DOMAIN list : list[i] \in R
    PROVE  list \in Lists(R)
<1>1. list \in Seq(R)
  BY DEF Lists
<1> QED
  BY <1>1 DEF Lists

-----------------------------------------------------------------------------
(***************************************************************************)
(* The invariant of the table.  The age of an entry is bounded by the time *)
(* since the old ones were removed, which is before the wait: NothingStale *)
(* is not inductive without that.  That a destination has one entry is     *)
(* what makes the list a map.                                              *)
(***************************************************************************)
Entries(age) ==
    {e \in [destination : Addresses, next_hop : Addresses, cost : Costs, age : 0 .. AgeCap] :
        e.cost # 0 => e.age <= age}

TableInv ==
    /\ pc \in {"loop", "wait", "serve", "ended"}
    /\ waited \in 0 .. PollingTimeout
    /\ table \in Lists(Entries(MaxAge + PollingTimeout))
    /\ pc = "wait" => table \in Lists(Entries(MaxAge + waited))
    /\ routing \in Seq(Packages)
    /\ forward \in Seq(Destinations)

\* The periods are numbers.
LEMMA Periods ==
    /\ BroadcastFreq \in Nat /\ PollingTimeout \in Nat /\ MaxAge \in Nat /\ MaxCost \in Nat
    /\ SinceCap = BroadcastFreq + PollingTimeout + 1 /\ SinceCap \in Nat
    /\ AgeCap = MaxAge + PollingTimeout + 1 /\ AgeCap \in Nat
<1>1. BroadcastFreq \in Nat /\ PollingTimeout \in Nat /\ MaxAge \in Nat /\ MaxCost \in Nat
  BY RouterdAssumption, RouteMapAssumption
<1>2. BroadcastFreq + PollingTimeout + 1 \in Nat /\ MaxAge + PollingTimeout + 1 \in Nat
  BY <1>1
<1> QED
  BY <1>1, <1>2 DEF SinceCap, AgeCap

\* No wait is longer than its timeout.
LEMMA WaitBound ==
    ASSUME NEW w \in 0 .. PollingTimeout
    PROVE  /\ MaxAge + w \in Nat /\ MaxAge + PollingTimeout \in Nat
           /\ MaxAge + w <= MaxAge + PollingTimeout
<1>1. MaxAge \in Nat /\ PollingTimeout \in Nat
  BY Periods
<1> QED
  BY <1>1

\* Costs wrap, and stay costs.
LEMMA FurtherIsCost ==
    ASSUME NEW cost \in Costs
    PROVE  Further(cost) \in Costs
<1>1. cost \in Nat /\ MaxCost \in Nat
  BY Periods DEF Costs
<1>2. (cost + 1) % (MaxCost + 1) \in 0 .. MaxCost
  <2>1. cost + 1 \in Int /\ MaxCost + 1 \in Nat /\ MaxCost + 1 > 0
    BY <1>1
  <2>2. (cost + 1) % (MaxCost + 1) \in 0 .. (MaxCost + 1) - 1
    BY <2>1
  <2> QED
    BY <1>1, <2>2
<1> QED
  BY <1>2 DEF Further, Costs

\* A new entry is one of any age.
LEMMA NewEntry ==
    ASSUME NEW d \in Addresses, NEW hop \in Addresses, NEW cost \in Costs, NEW age \in Nat
    PROVE  Entry(d, hop, cost) \in Entries(age)
<1>1. 0 \in 0 .. AgeCap /\ 0 <= age
  BY Periods
<1> QED
  BY <1>1 DEF Entry, Entries

\* A neighbour's table is an offer, and so may be learned.
LEMMA PackageIsOffer ==
    ASSUME NEW p \in Packages, NEW age \in Nat
    PROVE  IsOffer(p, Entries(age))
<1>1. /\ p.entries \in Seq({p.entries[i] : i \in DOMAIN p.entries})
      /\ \A i \in DOMAIN p.entries : p.entries[i].cost \in Costs
      /\ Distinct(p.entries)
  BY InputAssumption DEF Distinct
<1>2. p.address \in Addresses /\ \A i \in DOMAIN p.entries : p.entries[i].destination \in Addresses
  BY DEF Addresses
<1>3. ASSUME NEW i \in DOMAIN p.entries
      PROVE  Entry(p.entries[i].destination, p.address, Further(p.entries[i].cost)) \in Entries(age)
  BY <1>1, <1>2, FurtherIsCost, NewEntry
<1> QED
  BY <1>1, <1>3 DEF IsOffer

\* The first table holds the own addresses.
LEMMA FirstTable ==
    /\ LocalTable(OwnAddresses) \in Lists(Entries(MaxAge))
    /\ AsMap(LocalTable(OwnAddresses)) = OwnRoutes({OwnAddresses[i] : i \in DOMAIN OwnAddresses})
<1> DEFINE A == {OwnAddresses[i] : i \in DOMAIN OwnAddresses}
<1>1. OwnAddresses \in Seq(A)
  BY InputAssumption
<1>2. A \subseteq Addresses /\ 0 \in Costs
  BY Periods DEF Addresses, Costs
<1>3. \A a \in A : Entry(a, a, 0) \in Entries(MaxAge)
  BY <1>2, Periods, NewEntry
<1> HIDE DEF A
<1> QED
  BY <1>1, <1>3, LocalTableFacts DEF A

\* After the old entries are removed none is older than the maximum.
LEMMA OldRemoved ==
    ASSUME NEW age, table \in Lists(Entries(age))
    PROVE  RemoveOldEntries(table) \in Lists(Entries(MaxAge))
<1> DEFINE rest == RemoveOldEntries(table)
<1>1. rest \in Lists(Entries(age)) /\ Filters(rest, table, Len(table))
  BY RemoveOldFilters
<1>2. DOMAIN table = 1 .. Len(table) /\ \A i \in DOMAIN table : table[i] \in Entries(age)
  BY DEF Lists
<1>3. \A e \in Entries(age) : Stays(e) => e \in Entries(MaxAge)
  BY DEF Stays, Entries
<1> HIDE DEF rest
<1>4. \A k \in DOMAIN rest : rest[k] \in Entries(MaxAge)
  BY <1>1, <1>2, <1>3 DEF Filters
<1> QED
  BY <1>1, <1>4, ListsWider DEF rest

\* Entries of one age bound have every later one.
LEMMA Older ==
    ASSUME NEW list, NEW a \in Nat, NEW b \in Nat, a <= b, list \in Lists(Entries(a))
    PROVE  list \in Lists(Entries(b))
<1>1. \A e \in Entries(a) : e \in Entries(b)
  <2>1. \A e \in Entries(a) : e.age \in Nat
    BY DEF Entries
  <2> QED
    BY <2>1 DEF Entries
<1>2. \A i \in DOMAIN list : list[i] \in Entries(a)
  BY DEF Lists
<1> QED
  BY <1>1, <1>2, ListsWider

\* A tick of the wait makes the entries older, and says the same.
LEMMA TickFacts ==
    ASSUME TableInv, Tick
    PROVE  /\ table' \in Lists(Entries(MaxAge + waited'))
           /\ AsMap(table') = AsMap(table)
           /\ waited' \in 0 .. PollingTimeout
<1> DEFINE older(e) == [e EXCEPT !.age = AtMost(@ + 1, AgeCap)]
           a == MaxAge + waited
           b == MaxAge + waited'
<1>1. /\ pc = "wait" /\ waited < PollingTimeout /\ waited' = waited + 1
      /\ table' = [i \in DOMAIN table |-> older(table[i])]
  BY DEF Tick
<1>2. waited \in Nat /\ waited' \in 0 .. PollingTimeout /\ a \in Nat /\ b = a + 1
  <2>1. waited \in 0 .. PollingTimeout /\ waited < PollingTimeout /\ waited' = waited + 1
    BY <1>1 DEF TableInv
  <2> QED
    BY <2>1, Periods
<1>3. /\ table \in Seq(Entries(a)) /\ Distinct(table)
      /\ DOMAIN table = 1 .. Len(table) /\ Len(table) \in Nat
  BY <1>1 DEF TableInv, Lists
<1>4. \A i \in DOMAIN table : table[i] \in Entries(a)
  BY <1>3
<1> HIDE DEF a, b
<1>5. ASSUME NEW e \in Entries(a)
      PROVE  /\ older(e) \in Entries(b)
             /\ older(e).destination = e.destination
             /\ RouteOf(older(e)) = RouteOf(e)
  <2> DEFINE next == AtMost(e.age + 1, AgeCap)
  <2>1. e \in [destination : Addresses, next_hop : Addresses, cost : Costs, age : 0 .. AgeCap]
        /\ (e.cost # 0 => e.age <= a)
    BY DEF Entries
  <2>2. e.age \in 0 .. AgeCap
    BY <2>1
  <2>3. next \in 0 .. AgeCap /\ (e.age <= a => next <= b)
    <3> DEFINE age == e.age
    <3>1. age \in 0 .. AgeCap /\ AgeCap \in Nat
      BY <2>2, Periods
    <3> HIDE DEF age
    <3>2. AtMost(age + 1, AgeCap) \in 0 .. AgeCap /\ (age <= a => AtMost(age + 1, AgeCap) <= b)
      BY <3>1, <1>2 DEF AtMost
    <3> QED
      BY <3>2 DEF age
  <2> HIDE DEF next
  <2>4. older(e) = [e EXCEPT !.age = next]
    BY DEF next
  <2> QED
    BY <2>1, <2>3, <2>4 DEF Entries, RouteOf
<1> HIDE DEF older
<1>6. /\ DOMAIN table' = DOMAIN table
      /\ \A i \in DOMAIN table : /\ table'[i] \in Entries(b)
                                 /\ table'[i].destination = table[i].destination
                                 /\ RouteOf(table'[i]) = RouteOf(table[i])
  BY <1>1, <1>4, <1>5
<1>7. table' \in Seq(Entries(b))
  <2>1. table' = [i \in 1 .. Len(table) |-> table'[i]]
    BY <1>1, <1>3, <1>6
  <2> QED
    BY <1>3, <1>6, <2>1
<1>8. Distinct(table')
  BY <1>3, <1>6 DEF Distinct
<1>9. Says(table, AsMap(table))
  BY <1>3, AsMapSays
<1>10. Says(table', AsMap(table))
  BY <1>6, <1>9 DEF Says
<1>11. AsMap(table') = AsMap(table)
  BY <1>7, <1>8, <1>10, SaysOne
<1> QED
  BY <1>2, <1>7, <1>8, <1>11 DEF Lists, b

\* A neighbour's table is learned.
LEMMA HandleTableFacts ==
    ASSUME TableInv, HandleTable
    PROVE  /\ table' \in Lists(Entries(MaxAge + PollingTimeout))
           /\ Head(routing) \in Packages /\ Tail(routing) \in Seq(Packages)
           /\ AsMap(table') = Learn(AsMap(table), AsMap(Head(routing).entries),
                                    Head(routing).address)
<1>1. routing # <<>> /\ table' = UpdateRouting(table, Head(routing))
  BY DEF HandleTable
<1>2. Head(routing) \in Packages /\ Tail(routing) \in Seq(Packages)
  BY <1>1 DEF TableInv
<1>3. MaxAge + PollingTimeout \in Nat
  BY Periods
<1>4. IsOffer(Head(routing), Entries(MaxAge + PollingTimeout))
  BY <1>2, <1>3, PackageIsOffer
<1> QED
  BY <1>1, <1>2, <1>4, UpdateRoutingLearns DEF TableInv

\* The steps that leave the table as it is.
TableStands ==
    \/ LeaveLoop \/ EpollEvents \/ EpollTimeout
    \/ HandleNoTable \/ HandleLookup \/ HandleStdin \/ EndServing
    \/ \E p \in Packages : PassTable(p)
    \/ \E d \in Destinations : AskNextHop(d)
    \/ MipdExit \/ StopLine

LEMMA StandsFacts ==
    ASSUME TableInv, TableStands
    PROVE  /\ UNCHANGED <<table, waited>>
           /\ pc' \in {"loop", "serve", "ended"} \/ pc' = pc
           /\ routing' \in Seq(Packages) /\ forward' \in Seq(Destinations)
<1>1. UNCHANGED <<table, waited>>
  BY DEF TableStands, LeaveLoop, EpollEvents, EpollTimeout, HandleNoTable, HandleLookup,
         HandleStdin, EndServing, PassTable, AskNextHop, MipdExit, StopLine, End, clock
<1>2. pc' \in {"loop", "serve", "ended"} \/ pc' = pc
  BY DEF TableStands, LeaveLoop, EpollEvents, EpollTimeout, HandleNoTable, HandleLookup,
         HandleStdin, EndServing, PassTable, AskNextHop, MipdExit, StopLine, End, Done
<1>3. routing' \in Seq(Packages)
  <2>1. ASSUME NEW p \in Packages, PassTable(p) PROVE routing' \in Seq(Packages)
    BY <2>1 DEF PassTable, TableInv
  <2>2. ASSUME ~ \E p \in Packages : PassTable(p) PROVE routing' = routing
    BY <2>2 DEF TableStands, LeaveLoop, EpollEvents, EpollTimeout, HandleNoTable, HandleLookup,
           HandleStdin, EndServing, AskNextHop, MipdExit, StopLine, End, inputs
  <2> QED
    BY <2>1, <2>2 DEF TableInv
<1>4. forward' \in Seq(Destinations)
  <2>1. ASSUME NEW d \in Destinations, AskNextHop(d) PROVE forward' \in Seq(Destinations)
    BY <2>1 DEF AskNextHop, TableInv
  <2>2. ASSUME HandleLookup PROVE forward' \in Seq(Destinations)
    BY <2>2 DEF HandleLookup, TableInv
  <2>3. ASSUME ~ \E d \in Destinations : AskNextHop(d), ~ HandleLookup PROVE forward' = forward
    BY <2>3 DEF TableStands, LeaveLoop, EpollEvents, EpollTimeout, HandleNoTable,
           HandleStdin, EndServing, PassTable, MipdExit, StopLine, End, inputs
  <2> QED
    BY <2>1, <2>2, <2>3 DEF TableInv
<1> QED
  BY <1>1, <1>2, <1>3, <1>4

\* Every step is one of these.
LEMMA StepKinds ==
    ASSUME [Next]_vars
    PROVE  NoBroadcast \/ Broadcast \/ HandleTable \/ Tick \/ TableStands \/ UNCHANGED vars
  BY DEF Next, Loop, Handle, TableStands

\* The invariant of the table, for all values of the constants.
THEOREM TableInvariant == Spec => []TableInv
<1>1. Init => TableInv
  <2> SUFFICES ASSUME Init PROVE TableInv
    OBVIOUS
  <2>1. table \in Lists(Entries(MaxAge + PollingTimeout))
    <3>1. MaxAge + PollingTimeout \in Nat /\ MaxAge <= MaxAge + PollingTimeout /\ MaxAge \in Nat
      BY Periods
    <3> QED
      BY <3>1, FirstTable, Older DEF Init
  <2>2. waited \in 0 .. PollingTimeout
    BY Periods DEF Init
  <2> QED
    BY <2>1, <2>2 DEF Init, TableInv
<1>2. TableInv /\ [Next]_vars => TableInv'
  <2> SUFFICES ASSUME TableInv, [Next]_vars PROVE TableInv'
    OBVIOUS
  <2>1. CASE NoBroadcast \/ Broadcast
    <3>1. /\ table' = RemoveOldEntries(table) /\ pc' = "wait" /\ waited' = 0
          /\ UNCHANGED <<routing, forward>>
      BY <2>1 DEF NoBroadcast, Broadcast, Wait, inputs
    <3>2. table' \in Lists(Entries(MaxAge))
      BY <3>1, OldRemoved DEF TableInv
    <3>3. MaxAge \in Nat /\ MaxAge + PollingTimeout \in Nat /\ MaxAge <= MaxAge + PollingTimeout
          /\ MaxAge + 0 = MaxAge /\ 0 \in 0 .. PollingTimeout
      BY Periods
    <3>4. table' \in Lists(Entries(MaxAge + PollingTimeout))
      BY <3>2, <3>3, Older
    <3> QED
      BY <3>1, <3>2, <3>3, <3>4 DEF TableInv
  <2>2. CASE HandleTable
    <3>1. pc' \in {"loop", "serve"} /\ UNCHANGED <<waited, forward>> /\ routing' = Tail(routing)
      BY <2>2 DEF HandleTable, Done, clock
    <3> QED
      BY <2>2, <3>1, HandleTableFacts DEF TableInv
  <2>3. CASE Tick
    <3>1. pc' = pc /\ UNCHANGED <<routing, forward>>
      BY <2>3 DEF Tick, inputs
    <3>2. table' \in Lists(Entries(MaxAge + waited')) /\ waited' \in 0 .. PollingTimeout
      BY <2>3, TickFacts
    <3>3. MaxAge + waited' \in Nat /\ MaxAge + PollingTimeout \in Nat
          /\ MaxAge + waited' <= MaxAge + PollingTimeout
      BY <3>2, WaitBound
    <3>4. table' \in Lists(Entries(MaxAge + PollingTimeout))
      BY <3>2, <3>3, Older
    <3> QED
      BY <3>1, <3>2, <3>4 DEF TableInv
  <2>4. CASE TableStands
    BY <2>4, StandsFacts DEF TableInv
  <2>5. CASE UNCHANGED vars
    BY <2>5 DEF vars, clock, inputs, TableInv
  <2> QED
    BY <2>1, <2>2, <2>3, <2>4, <2>5, StepKinds
<1> QED
  BY <1>1, <1>2, PTL DEF Spec

\* Whatever tables arrive, and however long they keep routerd from waiting out
\* its timeout, no entry but the host's own is older than the maximal age and
\* one timeout.
THEOREM NothingStaleHolds == Spec => []NothingStale
<1>1. TableInv => NothingStale
  <2> SUFFICES ASSUME TableInv, NEW i \in DOMAIN table, table[i].cost # 0
               PROVE  table[i].age <= MaxAge + PollingTimeout
    BY DEF NothingStale
  <2>1. table[i] \in Entries(MaxAge + PollingTimeout)
    BY DEF TableInv, Lists
  <2> QED
    BY <2>1 DEF Entries
<1> QED
  BY <1>1, TableInvariant, PTL

\* A destination never has two entries, so that the first one found is the
\* only one.
THEOREM UniqueDestinations == Spec => []Distinct(table)
<1>1. TableInv => Distinct(table)
  BY DEF TableInv, Lists
<1> QED
  BY <1>1, TableInvariant, PTL

-----------------------------------------------------------------------------
(* routerd implements RoutingService                                        *)

\* Forgetting nothing changes nothing.
LEMMA ForgetNothing ==
    ASSUME NEW m, m = [d \in DOMAIN m |-> m[d]]
    PROVE  Without(m, {}) = m
  BY DEF Without

\* The service learns as the map does.
LEMMA ServiceLearns ==
    ASSUME NEW m, NEW offers, NEW via
    PROVE  Service!Learn(m, offers, via) = Learn(m, offers, via)
<1>1. \A c : Service!Further(c) = Further(c)
  BY DEF Service!Further, Further
<1>2. \A d : Service!Accepts(m, offers, d) <=> Accepts(m, offers, d)
  BY <1>1 DEF Service!Accepts, Accepts
<1>3. {d \in DOMAIN offers : Service!Accepts(m, offers, d)} = {d \in DOMAIN offers : Accepts(m, offers, d)}
  BY <1>2
<1> QED
  BY <1>1, <1>3 DEF Service!Learn, Learn

\* A step that writes nothing and may forget routes.
LEMMA ForgetRefines ==
    ASSUME output' = Silence,
           NEW D \in SUBSET {d \in DOMAIN AsMap(table) : AsMap(table)[d].cost # 0},
           AsMap(table') = Without(AsMap(table), D)
    PROVE  Service!ServiceNext
  BY DEF Service!ServiceNext, Service!Forget, Service!Without, Without

\* What the service does in a step of the daemon.
LEMMA StepRefines ==
    ASSUME TableInv, [Next]_vars
    PROVE  Service!ServiceNext \/ UNCHANGED Service!serviceVars
<1> DEFINE m   == AsMap(table)
           mm  == AsMap(table')
           Old == {d \in DOMAIN m : m[d].cost # 0}
<1>1. /\ table \in Lists(Entries(MaxAge + PollingTimeout))
      /\ table \in Seq(Entries(MaxAge + PollingTimeout)) /\ Distinct(table)
  BY DEF Lists, TableInv
<1>2. m = [d \in DOMAIN m |-> m[d]]
  BY <1>1, AsMapSays DEF Says
<1>3. ASSUME output' = Silence, mm = m PROVE Service!ServiceNext
  <2>1. mm = Without(m, {}) /\ {} \in SUBSET Old
    BY <1>2, <1>3, ForgetNothing
  <2> QED
    BY <1>3, <2>1, ForgetRefines
<1>4. CASE NoBroadcast
  <2>1. output' = Silence /\ table' = RemoveOldEntries(table)
    BY <1>4 DEF NoBroadcast
  <2>2. PICK D \in SUBSET Old : mm = Without(m, D)
    BY <2>1, <1>1, RemoveOldForgets
  <2> QED
    BY <2>1, <2>2, ForgetRefines
<1>5. CASE Broadcast
  <2>1. output' = [table |-> Package(table)] /\ table' = RemoveOldEntries(table)
    BY <1>5 DEF Broadcast
  <2>2. PICK D \in SUBSET Old : mm = Without(m, D)
    BY <2>1, <1>1, RemoveOldForgets
  <2>3. output' # Silence /\ "destination" \notin DOMAIN output' /\ output'.table = Package(table)
    <3>1. DOMAIN output' = {"table"} /\ DOMAIN Silence = {"silent"}
      BY <2>1 DEF Silence
    <3> QED
      BY <2>1, <3>1
  <2>4. AsMap(output'.table) = m
    BY <1>1, <2>3, PackageSays
  <2>5. Service!Offer
    BY <2>2, <2>3, <2>4 DEF Service!Offer, Service!Without, Without
  <2> QED
    BY <2>5 DEF Service!ServiceNext
<1>6. CASE HandleTable
  <2> DEFINE p == Head(routing)
  <2>1. output' = Silence
    BY <1>6 DEF HandleTable
  <2>2. p \in Packages /\ mm = Learn(m, AsMap(p.entries), p.address)
    BY <1>6, HandleTableFacts
  <2> HIDE DEF p
  <2> DEFINE o == [routes |-> AsMap(p.entries), via |-> p.address]
             offers == {[routes |-> AsMap(q.entries), via |-> q.address] : q \in Packages}
  <2>3. o \in offers /\ o.routes = AsMap(p.entries) /\ o.via = p.address
    BY <2>2
  <2> HIDE DEF o
  <2>4. mm = Service!Learn(m, o.routes, o.via)
    BY <2>2, <2>3, ServiceLearns
  <2>5. Service!TakeOffer
    BY <2>1, <2>3, <2>4 DEF Service!TakeOffer
  <2> QED
    BY <2>5 DEF Service!ServiceNext
<1>7. CASE Tick
  <2>1. output' = Silence /\ mm = m
    BY <1>7, TickFacts DEF Tick
  <2> QED
    BY <2>1, <1>3
<1>8. CASE HandleLookup
  <2> DEFINE d == Head(forward)
  <2>1. forward # <<>> /\ table' = table
        /\ output' = [destination |-> d, next_hop |-> NextHop(table, d)]
    BY <1>8 DEF HandleLookup
  <2>2. d \in Destinations
    BY <2>1 DEF TableInv
  <2>3. NextHop(table, d) = IF d \in DOMAIN m THEN m[d].hop ELSE NoRoute
    BY <1>1, NextHopFacts
  <2>4. "destination" \in DOMAIN output'
    BY <2>1
  <2>5. Service!Answer
    BY <2>1, <2>2, <2>3, <2>4 DEF Service!Answer
  <2> QED
    BY <2>5 DEF Service!ServiceNext
<1>9. CASE TableStands /\ ~ HandleLookup
  <2>1. output' = Silence
    BY <1>9 DEF TableStands, LeaveLoop, EpollEvents, EpollTimeout, HandleNoTable, HandleStdin,
           EndServing, PassTable, AskNextHop, MipdExit, StopLine, End
  <2>2. table' = table
    BY <1>9, StandsFacts
  <2> QED
    BY <2>1, <2>2, <1>3
<1>10. CASE UNCHANGED vars
  BY <1>10 DEF vars, Service!serviceVars
<1> QED
  BY <1>4, <1>5, <1>6, <1>7, <1>8, <1>9, <1>10, StepKinds DEF TableStands

\* The list, the sockets and the loop do what RoutingService says, for any
\* tables, neighbours, periods and own addresses.
THEOREM Refinement == Spec => ImplementsService
<1>1. Init => Service!ServiceInit
  BY FirstTable DEF Init, Service!ServiceInit, Service!OwnRoutes, OwnRoutes
<1>2. TableInv /\ [Next]_vars => [Service!ServiceNext]_(Service!serviceVars)
  BY StepRefines
<1> QED
  BY <1>1, <1>2, TableInvariant, PTL DEF Spec, ImplementsService, Service!ServiceSpec

-----------------------------------------------------------------------------
(***************************************************************************)
(* BroadcastsInTime is not inductive: that a wait starts soon enough after *)
(* the last broadcast has to be carried through the wait, tick by tick.    *)
(***************************************************************************)
ClockInv ==
    /\ pc \in {"loop", "wait", "serve", "ended"}
    /\ since \in 0 .. SinceCap
    /\ waited \in 0 .. PollingTimeout
    /\ pc = "wait" => since <= BroadcastFreq + waited
    /\ pc = "serve" => since <= BroadcastFreq + PollingTimeout

\* A wait that starts when no broadcast is due, or just after one.
LEMMA WaitStarts ==
    ASSUME ClockInv, Wait, since' = 0 \/ (~ BroadcastDue /\ since' = since)
    PROVE  ClockInv'
<1>1. since' \in 0 .. SinceCap /\ since' <= BroadcastFreq
  BY Periods DEF ClockInv, BroadcastDue
<1>2. pc' = "wait" /\ waited' = 0
  BY DEF Wait
<1> QED
  BY <1>1, <1>2, Periods DEF ClockInv

\* Steps of the loop and of the events that leave the clock alone.
LEMMA ClockStands ==
    ASSUME ClockInv, UNCHANGED <<since, waited>>,
           \/ pc' = pc
           \/ pc' \in {"loop", "ended"}
           \/ pc' = "serve" /\ pc \in {"wait", "serve"}
    PROVE  ClockInv'
<1>1. since' \in 0 .. SinceCap /\ waited' \in 0 .. PollingTimeout
  BY DEF ClockInv
<1>2. CASE pc' = pc
  BY <1>1, <1>2 DEF ClockInv
<1>3. CASE pc' \in {"loop", "ended"}
  BY <1>1, <1>3 DEF ClockInv
<1>4. CASE pc' = "serve" /\ pc \in {"wait", "serve"}
  <2>1. since <= BroadcastFreq + PollingTimeout
    BY <1>4, Periods DEF ClockInv
  <2> QED
    BY <1>1, <1>4, <2>1 DEF ClockInv
<1> QED
  BY <1>2, <1>3, <1>4

\* A tick of the wait.
LEMMA TickKeepsClock ==
    ASSUME ClockInv, Tick
    PROVE  ClockInv'
<1>1. /\ pc = "wait" /\ pc' = "wait"
      /\ waited < PollingTimeout /\ waited' = waited + 1
      /\ since' = AtMost(since + 1, SinceCap)
  BY DEF Tick
<1>2. since <= BroadcastFreq + waited /\ since \in Nat /\ waited \in Nat
  BY <1>1, Periods DEF ClockInv
<1>3. since + 1 <= SinceCap
  BY <1>1, <1>2, Periods
<1>4. since' = since + 1
  BY <1>1, <1>3 DEF AtMost
<1>5. since' \in 0 .. SinceCap /\ waited' \in 0 .. PollingTimeout
  BY <1>1, <1>2, <1>3, <1>4, Periods
<1>6. since' <= BroadcastFreq + waited'
  BY <1>1, <1>2, <1>4, Periods
<1> QED
  BY <1>1, <1>5, <1>6 DEF ClockInv

\* Every step keeps the clock within these bounds.
LEMMA ClockInvariant == Spec => []ClockInv
<1>1. Init => ClockInv
  BY Periods DEF Init, ClockInv
<1>2. ClockInv /\ [Next]_vars => ClockInv'
  <2> SUFFICES ASSUME ClockInv, [Next]_vars PROVE ClockInv'
    OBVIOUS
  <2>1. ASSUME NoBroadcast \/ Broadcast PROVE ClockInv'
    <3>1. Wait /\ (since' = 0 \/ (~ BroadcastDue /\ since' = since))
      BY <2>1 DEF NoBroadcast, Broadcast
    <3> QED
      BY <3>1, WaitStarts
  <2>2. ASSUME LeaveLoop \/ EpollEvents \/ EpollTimeout PROVE ClockInv'
    <3>1. UNCHANGED <<since, waited>>
      BY <2>2 DEF LeaveLoop, End, EpollEvents, EpollTimeout, clock
    <3>2. pc' \in {"loop", "ended"} \/ (pc' = "serve" /\ pc = "wait")
      BY <2>2 DEF LeaveLoop, End, EpollEvents, EpollTimeout
    <3> QED
      BY <3>1, <3>2, ClockStands
  <2>3. ASSUME Handle PROVE ClockInv'
    <3>1. UNCHANGED <<since, waited>>
      BY <2>3 DEF Handle, HandleTable, HandleNoTable, HandleLookup, HandleStdin, EndServing, End, clock
    <3>2. pc' \in {"loop", "ended"} \/ (pc' = "serve" /\ pc = "serve")
      BY <2>3 DEF Handle, HandleTable, HandleNoTable, HandleLookup, HandleStdin, EndServing, End, Done
    <3> QED
      BY <3>1, <3>2, ClockStands
  <2>4. ASSUME Tick PROVE ClockInv'
    BY <2>4, TickKeepsClock
  <2>5. ASSUME \/ \E p \in Packages : PassTable(p)
               \/ \E d \in Destinations : AskNextHop(d)
               \/ MipdExit
               \/ StopLine
        PROVE  ClockInv'
    <3>1. UNCHANGED <<since, waited>> /\ pc' = pc
      BY <2>5 DEF PassTable, AskNextHop, MipdExit, StopLine, clock
    <3> QED
      BY <3>1, ClockStands
  <2>6. CASE UNCHANGED vars
    <3>1. UNCHANGED <<since, waited>> /\ pc' = pc
      BY <2>6 DEF vars, clock
    <3> QED
      BY <3>1, ClockStands
  <2> QED
    BY <2>1, <2>2, <2>3, <2>4, <2>5, <2>6 DEF Next, Loop
<1> QED
  BY <1>1, <1>2, PTL DEF Spec

\* A running routerd is never silent for longer than the broadcast frequency
\* and one timeout, whatever these are and whatever it reads.
THEOREM BroadcastsInTimeHolds == Spec => []BroadcastsInTime
<1>1. ClockInv => BroadcastsInTime
  <2> SUFFICES ASSUME ClockInv, since = SinceCap, pc \in {"wait", "serve"} PROVE FALSE
    BY DEF BroadcastsInTime, ClockInv
  <2>1. since <= BroadcastFreq + PollingTimeout
    BY Periods DEF ClockInv
  <2> QED
    BY <2>1, Periods
<1> QED
  BY <1>1, ClockInvariant, PTL

-----------------------------------------------------------------------------
(* Types                                                                    *)

\* What remains of the types: the flags and the events.
FlagsInv ==
    /\ running \in BOOLEAN /\ stdin \in BOOLEAN /\ mipd \in BOOLEAN
    /\ events \subseteq Descriptors

LEMMA FlagsInvariant == Spec => []FlagsInv
<1>1. Init => FlagsInv
  BY DEF Init, FlagsInv
<1>2. FlagsInv /\ [Next]_vars => FlagsInv'
  <2> SUFFICES ASSUME FlagsInv, [Next]_vars PROVE FlagsInv'
    OBVIOUS
  <2>1. CASE Loop \/ Tick
    BY <2>1 DEF FlagsInv, Loop, NoBroadcast, Broadcast, LeaveLoop, EpollEvents, EpollTimeout,
           End, Ready, Tick, inputs
  <2>2. CASE Handle
    BY <2>2 DEF FlagsInv, Handle, HandleTable, HandleNoTable, HandleLookup, HandleStdin,
           EndServing, End, Done, inputs
  <2>3. CASE \/ \E p \in Packages : PassTable(p)
             \/ \E d \in Destinations : AskNextHop(d)
             \/ MipdExit
             \/ StopLine
    BY <2>3 DEF FlagsInv, PassTable, AskNextHop, MipdExit, StopLine
  <2>4. CASE UNCHANGED vars
    BY <2>4 DEF FlagsInv, vars, inputs
  <2> QED
    BY <2>1, <2>2, <2>3, <2>4 DEF Next
<1> QED
  BY <1>1, <1>2, PTL DEF Spec

\* The variables keep their types, and the times their bounds.
THEOREM TypeCorrect == Spec => []TypeOK
<1>1. TableInv /\ ClockInv /\ FlagsInv => TypeOK
  <2> SUFFICES ASSUME TableInv, ClockInv, FlagsInv PROVE TypeOK
    OBVIOUS
  <2>1. \A i \in DOMAIN table : table[i] \in Entries(MaxAge + PollingTimeout)
    BY DEF TableInv, Lists
  <2>2. \A i \in DOMAIN table : table[i] \in [destination : Addresses, next_hop : Addresses,
                                              cost : Costs, age : 0 .. AgeCap]
    BY <2>1 DEF Entries
  <2> QED
    BY <2>2 DEF TableInv, ClockInv, FlagsInv, TypeOK
<1> QED
  BY <1>1, TableInvariant, ClockInvariant, FlagsInvariant, PTL
=============================================================================
