---------------------------- MODULE RoutingProofs ----------------------------
(***************************************************************************)
(* What the routing tables of any network keep to, whatever is lost, fails *)
(* or expires: a host's own addresses stay, next hops are neighbours, and  *)
(* no destination is ever believed closer than it is.  In every network    *)
(* without cycles, split horizon keeps every route on the one way there    *)
(* is; TreeAssumption is used for that alone, in the last part.            *)
(***************************************************************************)
EXTENDS RoutingTree, SequenceTheorems, TLAPS

-----------------------------------------------------------------------------
(* Costs and maps                                                           *)

\* A cost that is not the poisoned one grows by one.
LEMMA FurtherStep ==
    ASSUME NEW cost \in Costs, cost # MaxCost
    PROVE  Further(cost) = cost + 1 /\ Further(cost) \in Costs
<1>1. cost \in Nat /\ MaxCost \in Nat /\ cost + 1 <= MaxCost
  BY RouteMapAssumption DEF Costs
<1>2. (cost + 1) % (MaxCost + 1) = cost + 1
  BY <1>1
<1> QED
  BY <1>1, <1>2 DEF Further, Costs

\* Members of Tables, and what is one.
LEMMA TableIn ==
    ASSUME NEW D \in SUBSET Addresses, NEW t \in [D -> Route]
    PROVE  t \in Tables
  BY DEF Tables

LEMMA TableOut ==
    ASSUME NEW t \in Tables
    PROVE  /\ DOMAIN t \subseteq Addresses
           /\ t \in [DOMAIN t -> Route]
           /\ \A d \in DOMAIN t : t[d] \in Route /\ t[d].hop \in Addresses /\ t[d].cost \in Costs
  BY DEF Tables, Route

LEMMA OwnRoutesType ==
    ASSUME NEW x \in Nodes
    PROVE  OwnRoutes(Own[x]) \in Tables
<1>1. Own[x] \in SUBSET Addresses
  BY DEF Addresses
<1>2. 0 \in Costs
  BY RouteMapAssumption DEF Costs
<1>3. OwnRoutes(Own[x]) \in [Own[x] -> Route]
  BY <1>1, <1>2 DEF OwnRoutes, Route
<1> QED
  BY <1>1, <1>3, TableIn

LEMMA WithoutType ==
    ASSUME NEW t \in Tables, NEW D
    PROVE  Without(t, D) \in Tables
<1>1. Without(t, D) \in [DOMAIN t \ D -> Route]
  BY TableOut DEF Without
<1> QED
  BY <1>1, TableOut, TableIn

LEMMA PoisonedType ==
    ASSUME NEW t \in Tables, NEW a
    PROVE  /\ Poisoned(t, a) \in Tables
           /\ DOMAIN Poisoned(t, a) = DOMAIN t
           /\ \A d \in DOMAIN t :
                 /\ Poisoned(t, a)[d].hop = t[d].hop
                 /\ Poisoned(t, a)[d].cost = IF t[d].hop = a THEN MaxCost ELSE t[d].cost
<1>1. MaxCost \in Costs
  BY RouteMapAssumption DEF Costs
<1>2. DOMAIN t \subseteq Addresses /\ \A d \in DOMAIN t : t[d] \in Route
  BY TableOut
<1>3. \A r \in Route : /\ [r EXCEPT !.cost = MaxCost] \in Route
                       /\ [r EXCEPT !.cost = MaxCost].hop = r.hop
                       /\ [r EXCEPT !.cost = MaxCost].cost = MaxCost
  BY <1>1 DEF Route
<1>4. Poisoned(t, a) \in [DOMAIN t -> Route]
  BY <1>2, <1>3 DEF Poisoned
<1>5. \A d \in DOMAIN t :
         /\ Poisoned(t, a)[d].hop = t[d].hop
         /\ Poisoned(t, a)[d].cost = IF t[d].hop = a THEN MaxCost ELSE t[d].cost
  <2> TAKE d \in DOMAIN t
  <2>1. Poisoned(t, a)[d] = IF t[d].hop = a THEN [t[d] EXCEPT !.cost = MaxCost] ELSE t[d]
    BY DEF Poisoned
  <2>2. t[d] \in Route
    BY <1>2
  <2>3. CASE t[d].hop = a
    BY <1>3, <2>1, <2>2, <2>3
  <2>4. CASE t[d].hop # a
    BY <2>1, <2>4
  <2> QED
    BY <2>3, <2>4
<1> QED
  BY <1>2, <1>4, <1>5, TableIn

\* What Learn makes of a table.
LEMMA LearnValue ==
    ASSUME NEW t \in Tables, NEW o \in Tables, NEW via \in Addresses
    PROVE  /\ Learn(t, o, via) \in Tables
           /\ DOMAIN t \subseteq DOMAIN Learn(t, o, via)
           /\ \A d \in DOMAIN Learn(t, o, via) :
                 \/ d \in DOMAIN t /\ ~ Accepts(t, o, d) /\ Learn(t, o, via)[d] = t[d]
                 \/ /\ Accepts(t, o, d)
                    /\ o[d].cost \in Costs /\ o[d].cost # MaxCost
                    /\ Learn(t, o, via)[d] = [hop |-> via, cost |-> o[d].cost + 1]
<1> DEFINE taken == {d \in DOMAIN o : Accepts(t, o, d)}
           L == Learn(t, o, via)
<1>1. /\ DOMAIN L = DOMAIN t \cup taken
      /\ \A d \in DOMAIN t \cup taken :
            L[d] = IF d \in taken THEN [hop |-> via, cost |-> Further(o[d].cost)] ELSE t[d]
      /\ L = [d \in DOMAIN t \cup taken |->
                 IF d \in taken THEN [hop |-> via, cost |-> Further(o[d].cost)] ELSE t[d]]
  BY DEF Learn
<1>2. \A d \in taken : o[d].cost \in Costs /\ o[d].cost # MaxCost
  BY TableOut DEF Accepts
<1>3. \A d \in taken : Further(o[d].cost) = o[d].cost + 1 /\ Further(o[d].cost) \in Costs
  BY <1>2, FurtherStep
<1>4. \A d \in DOMAIN t \cup taken :
         (IF d \in taken THEN [hop |-> via, cost |-> Further(o[d].cost)] ELSE t[d]) \in Route
  <2> TAKE d \in DOMAIN t \cup taken
  <2>1. CASE d \in taken
    BY <1>3, <2>1 DEF Route
  <2>2. CASE d \notin taken
    BY <2>2, TableOut
  <2> QED
    BY <2>1, <2>2
<1>5. DOMAIN t \cup taken \in SUBSET Addresses
  BY TableOut
<1>6. L \in Tables
  <2>1. L \in [DOMAIN t \cup taken -> Route]
    BY <1>1, <1>4
  <2> QED
    BY <1>5, <2>1, TableIn
<1>7. \A d \in DOMAIN L :
         \/ d \in DOMAIN t /\ ~ Accepts(t, o, d) /\ L[d] = t[d]
         \/ /\ Accepts(t, o, d)
            /\ o[d].cost \in Costs /\ o[d].cost # MaxCost
            /\ L[d] = [hop |-> via, cost |-> o[d].cost + 1]
  <2> TAKE d \in DOMAIN L
  <2>1. CASE d \in taken
    BY <1>1, <1>2, <1>3, <2>1
  <2>2. CASE d \notin taken
    <3>1. ~ Accepts(t, o, d)
      BY <2>2 DEF Accepts
    <3> QED
      BY <1>1, <2>2, <3>1
  <2> QED
    BY <2>1, <2>2
<1> QED
  BY <1>1, <1>6, <1>7

-----------------------------------------------------------------------------
(***************************************************************************)
(* The inductive invariant.  The properties of the tables alone are not    *)
(* inductive: a table is only as good as the copies it learns from.        *)
(***************************************************************************)
GoodTable(x, t) ==
    /\ \A a \in Own[x] : a \in DOMAIN t /\ t[a] = [hop |-> a, cost |-> 0]
    /\ \A d \in DOMAIN t : t[d].cost >= Distance[x][d]
    /\ \A d \in DOMAIN t \ Own[x] : \E y \in Neighbours[x] : t[d].hop = Address[y][x]

GoodCopy(x, y, c) ==
    /\ c.address = Address[x][y]
    /\ \A d \in DOMAIN c.offers :
          c.offers[d].cost = MaxCost \/ c.offers[d].cost >= Distance[x][d]

GoodCopies(x, y) == {c \in Copies : GoodCopy(x, y, c)}

GoodWires == \A l \in Links : wire[l] \in Seq(GoodCopies(l[1], l[2]))

GoodTables == \A x \in Nodes : GoodTable(x, table[x])

IInv == TypeOK /\ GoodTables /\ GoodWires

\* Neighbours and links.
LEMMA LinkFacts ==
    ASSUME NEW x \in Nodes, NEW y \in Neighbours[x]
    PROVE  /\ y \in Nodes /\ x \in Neighbours[y] /\ x # y
           /\ <<x, y>> \in Links
           /\ Address[x][y] \in Own[x] /\ Address[x][y] \in Addresses
           /\ Address[y][x] \in Own[y] /\ Address[y][x] \in Addresses
<1>1. y \in Nodes /\ x \in Neighbours[y] /\ x # y /\ Address[x][y] \in Own[x]
  BY RoutingAssumption
<1>2. Address[y][x] \in Own[y]
  BY <1>1, RoutingAssumption
<1>3. Own[x] \subseteq Addresses /\ Own[y] \subseteq Addresses
  BY <1>1 DEF Addresses
<1>4. <<x, y>> \in Links
  BY DEF Links
<1> QED
  BY <1>1, <1>2, <1>3, <1>4

LEMMA LinkOut ==
    ASSUME NEW l \in Links
    PROVE  l[1] \in Nodes /\ l[2] \in Neighbours[l[1]] /\ l = <<l[1], l[2]>>
  BY DEF Links

\* A table that knows only the host itself is good.
LEMMA OwnRoutesGood ==
    ASSUME NEW x \in Nodes
    PROVE  GoodTable(x, OwnRoutes(Own[x]))
<1> DEFINE t == OwnRoutes(Own[x])
<1>1. DOMAIN t = Own[x] /\ \A d \in Own[x] : t[d] = [hop |-> d, cost |-> 0]
  BY DEF OwnRoutes
<1> HIDE DEF t
<1>2. \A d \in DOMAIN t : t[d].cost >= Distance[x][d]
  <2> TAKE d \in DOMAIN t
  <2>1. d \in Own[x] /\ t[d] = [hop |-> d, cost |-> 0]
    BY <1>1
  <2>2. t[d].cost = 0
    BY <2>1
  <2>3. Distance[x][d] = 0
    BY <2>1, DistanceAssumption
  <2> QED
    BY <2>2, <2>3
<1>3. GoodTable(x, t)
  BY <1>1, <1>2 DEF GoodTable
<1> QED
  BY <1>3 DEF t

\* Ageing keeps a table good: it spares the routes that cost nothing.
LEMMA WithoutGood ==
    ASSUME NEW x \in Nodes, NEW t, GoodTable(x, t),
           NEW D, \A d \in D \cap DOMAIN t : t[d].cost # 0
    PROVE  GoodTable(x, Without(t, D))
<1>1. DOMAIN Without(t, D) = DOMAIN t \ D /\ \A d \in DOMAIN t \ D : Without(t, D)[d] = t[d]
  BY DEF Without
<1>2. \A a \in Own[x] : a \in DOMAIN t \ D
  <2> TAKE a \in Own[x]
  <2>1. a \in DOMAIN t /\ t[a] = [hop |-> a, cost |-> 0]
    BY DEF GoodTable
  <2>2. t[a].cost = 0
    BY <2>1
  <2> QED
    BY <2>1, <2>2
<1> QED
  BY <1>1, <1>2 DEF GoodTable

\* What a host sends of a good table is good.
LEMMA CopyGood ==
    ASSUME NEW x \in Nodes, NEW y \in Neighbours[x], NEW t \in Tables, GoodTable(x, t)
    PROVE  CopyFor(x, y, t) \in Copies /\ GoodCopy(x, y, CopyFor(x, y, t))
<1> DEFINE m == Masked(x, y)
           p == Poisoned(t, m)
<1> HIDE DEF m
<1>1. /\ p \in Tables /\ DOMAIN p = DOMAIN t
      /\ \A d \in DOMAIN t : p[d].cost = IF t[d].hop = m THEN MaxCost ELSE t[d].cost
  BY PoisonedType
<1>2. CopyFor(x, y, t) = [offers |-> p, address |-> Address[x][y]]
  BY DEF CopyFor, m
<1> HIDE DEF p
<1>3. \A d \in DOMAIN p : p[d].cost = MaxCost \/ p[d].cost >= Distance[x][d]
  <2> TAKE d \in DOMAIN p
  <2>1. p[d].cost = MaxCost \/ p[d].cost = t[d].cost
    BY <1>1
  <2>2. t[d].cost >= Distance[x][d]
    BY <1>1 DEF GoodTable
  <2> QED
    BY <2>1, <2>2
<1> DEFINE c == [offers |-> p, address |-> Address[x][y]]
<1>4. c \in Copies /\ c.offers = p /\ c.address = Address[x][y]
  BY <1>1, LinkFacts DEF Copies
<1> HIDE DEF c
<1>5. GoodCopy(x, y, c)
  BY <1>3, <1>4 DEF GoodCopy
<1> QED
  BY <1>2, <1>4, <1>5 DEF c

\* A host that learns from a good copy keeps a good table.
LEMMA LearnGood ==
    ASSUME NEW x \in Nodes, NEW y \in Neighbours[x],
           NEW t \in Tables, GoodTable(y, t),
           NEW c \in Copies, GoodCopy(x, y, c)
    PROVE  GoodTable(y, Learn(t, c.offers, c.address))
<1> DEFINE o == c.offers
           L == Learn(t, o, c.address)
<1>1. o \in Tables /\ c.address = Address[x][y] /\ c.address \in Addresses
  BY LinkFacts DEF Copies, GoodCopy
<1>2. /\ L \in Tables
      /\ DOMAIN t \subseteq DOMAIN L
      /\ \A d \in DOMAIN L :
            \/ d \in DOMAIN t /\ ~ Accepts(t, o, d) /\ L[d] = t[d]
            \/ /\ Accepts(t, o, d)
               /\ o[d].cost \in Costs /\ o[d].cost # MaxCost
               /\ L[d] = [hop |-> c.address, cost |-> o[d].cost + 1]
  BY <1>1, LearnValue
<1>3. y \in Nodes /\ x \in Neighbours[y]
  BY LinkFacts
<1>4. ASSUME NEW a \in Own[y] PROVE a \in DOMAIN L /\ L[a] = [hop |-> a, cost |-> 0]
  <2>1. a \in DOMAIN t /\ t[a] = [hop |-> a, cost |-> 0]
    BY <1>4 DEF GoodTable
  <2>2. ~ Accepts(t, o, a)
    <3> SUFFICES ASSUME Accepts(t, o, a) PROVE FALSE
      OBVIOUS
    <3>1. a \in DOMAIN o /\ o[a].cost # MaxCost /\ Further(o[a].cost) <= t[a].cost
      BY <2>1 DEF Accepts
    <3>2. o[a].cost \in Costs
      BY <1>1, <3>1, TableOut
    <3>3. Further(o[a].cost) = o[a].cost + 1 /\ t[a].cost = 0
      BY <2>1, <3>1, <3>2, FurtherStep
    <3> QED
      BY <3>1, <3>2, <3>3 DEF Costs
  <2> QED
    BY <1>2, <2>1, <2>2
<1>5. ASSUME NEW d \in DOMAIN L PROVE L[d].cost >= Distance[y][d]
  <2>1. CASE d \in DOMAIN t /\ L[d] = t[d]
    BY <2>1 DEF GoodTable
  <2>2. CASE /\ Accepts(t, o, d)
             /\ o[d].cost \in Costs /\ o[d].cost # MaxCost
             /\ L[d] = [hop |-> c.address, cost |-> o[d].cost + 1]
    <3>1. d \in Addresses /\ d \in DOMAIN o
      BY <1>1, <2>2, TableOut DEF Accepts
    <3>2. o[d].cost >= Distance[x][d]
      BY <2>2, <3>1 DEF GoodCopy
    <3>3. Distance[y][d] <= Distance[x][d] + 1 /\ Distance[x][d] \in Nat /\ Distance[y][d] \in Nat
      BY <1>3, <3>1, DistanceAssumption
    <3>4. o[d].cost \in Nat /\ L[d].cost = o[d].cost + 1
      BY <2>2 DEF Costs
    <3> QED
      BY <3>2, <3>3, <3>4
  <2> QED
    BY <1>2, <2>1, <2>2
<1>6. ASSUME NEW d \in DOMAIN L \ Own[y] PROVE \E z \in Neighbours[y] : L[d].hop = Address[z][y]
  <2>1. CASE d \in DOMAIN t /\ L[d] = t[d]
    BY <2>1, <1>6 DEF GoodTable
  <2>2. CASE L[d] = [hop |-> c.address, cost |-> o[d].cost + 1]
    BY <1>1, <1>3, <2>2
  <2> QED
    BY <1>2, <2>1, <2>2
<1> QED
  BY <1>4, <1>5, <1>6 DEF GoodTable

-----------------------------------------------------------------------------
(* The invariant is inductive: one lemma per group of actions.              *)

\* Wires of good copies are wires of copies.
LEMMA WiresType ==
    ASSUME NEW w, w = [l \in Links |-> w[l]],
           \A l \in Links : w[l] \in Seq(GoodCopies(l[1], l[2]))
    PROVE  w \in [Links -> Seq(Copies)]
<1>1. ASSUME NEW l \in Links PROVE w[l] \in Seq(Copies)
  <2>1. GoodCopies(l[1], l[2]) \subseteq Copies
    BY DEF GoodCopies
  <2>2. Seq(GoodCopies(l[1], l[2])) \subseteq Seq(Copies)
    BY <2>1, SeqMonotonic
  <2> QED
    BY <2>2
<1> QED
  BY <1>1

\* A wire whose first copy is read or lost.
LEMMA TailKeepsWires ==
    ASSUME TypeOK, GoodWires, NEW k \in Links, wire[k] # <<>>,
           wire' = [wire EXCEPT ![k] = Tail(@)]
    PROVE  /\ GoodWires'
           /\ wire' \in [Links -> Seq(Copies)]
           /\ Head(wire[k]) \in GoodCopies(k[1], k[2])
<1>1. wire[k] \in Seq(GoodCopies(k[1], k[2]))
  BY DEF GoodWires
<1>2. /\ Head(wire[k]) \in GoodCopies(k[1], k[2])
      /\ Tail(wire[k]) \in Seq(GoodCopies(k[1], k[2]))
  BY <1>1, HeadTailProperties
<1>3. wire' = [l \in Links |-> IF l = k THEN Tail(wire[k]) ELSE wire[l]]
  BY DEF TypeOK
<1>4. \A l \in Links : wire'[l] \in Seq(GoodCopies(l[1], l[2]))
  BY <1>2, <1>3 DEF GoodWires
<1>5. GoodWires'
  BY <1>4 DEF GoodWires, GoodCopies, GoodCopy
<1>6. wire' = [l \in Links |-> wire'[l]]
  BY <1>3
<1> QED
  BY <1>2, <1>4, <1>5, <1>6, WiresType

\* Wires to a host that fails or starts are emptied.
LEMMA EmptiedWires ==
    ASSUME TypeOK, GoodWires, NEW x \in Nodes,
           wire' = [l \in Links |-> IF l[2] = x THEN <<>> ELSE wire[l]]
    PROVE  GoodWires' /\ wire' \in [Links -> Seq(Copies)]
<1>1. \A l \in Links : wire'[l] \in Seq(GoodCopies(l[1], l[2]))
  BY EmptySeq DEF GoodWires
<1>2. wire' = [l \in Links |-> wire'[l]]
  OBVIOUS
<1> QED
  BY <1>1, <1>2, WiresType DEF GoodWires

LEMMA BroadcastKeeps ==
    ASSUME IInv, NEW x \in Nodes, Broadcast(x)
    PROVE  IInv'
<1>1. GoodTable(x, table[x]) /\ table[x] \in Tables
  BY DEF IInv, GoodTables, TypeOK
<1>2. ASSUME NEW l \in Links PROVE wire'[l] \in Seq(GoodCopies(l[1], l[2]))
  <2>1. wire[l] \in Seq(GoodCopies(l[1], l[2]))
    BY DEF IInv, GoodWires
  <2>2. CASE l[1] = x /\ l[2] \in up /\ Len(wire[l]) < MaxInFlight
    <3> DEFINE c == CopyFor(x, l[2], table[x])
    <3>1. c \in Copies /\ GoodCopy(x, l[2], c)
      BY <1>1, <2>2, LinkOut, CopyGood
    <3>2. c \in GoodCopies(l[1], l[2])
      BY <2>2, <3>1 DEF GoodCopies
    <3>3. wire'[l] = Append(wire[l], c)
      BY <2>2 DEF Broadcast
    <3> HIDE DEF c
    <3> QED
      BY <2>1, <3>2, <3>3, AppendProperties
  <2>3. CASE ~ (l[1] = x /\ l[2] \in up /\ Len(wire[l]) < MaxInFlight)
    <3>1. wire'[l] = wire[l]
      BY <2>3 DEF Broadcast
    <3> QED
      BY <2>1, <3>1
  <2> QED
    BY <2>2, <2>3
<1>3. wire' = [l \in Links |-> wire'[l]]
  BY DEF Broadcast
<1>4. GoodWires' /\ wire' \in [Links -> Seq(Copies)]
  BY <1>2, <1>3, WiresType DEF GoodWires
<1>5. UNCHANGED <<up, table, arp, faults>> /\ unmasked' \in BOOLEAN
  BY DEF Broadcast, IInv, TypeOK
<1>6. GoodTables'
  BY <1>5 DEF IInv, GoodTables
<1>7. TypeOK'
  BY <1>4, <1>5 DEF IInv, TypeOK
<1> QED
  BY <1>4, <1>6, <1>7 DEF IInv

LEMMA ReceiveKeeps ==
    ASSUME IInv, NEW x \in Nodes, NEW y \in Neighbours[x], Receive(x, y)
    PROVE  IInv'
<1> DEFINE k == <<x, y>>
           copy == Head(wire[k])
           L == Learn(table[y], copy.offers, copy.address)
<1>1. k \in Links /\ k[1] = x /\ k[2] = y /\ y \in Nodes
  BY LinkFacts
<1>2. /\ wire[k] # <<>>
      /\ wire' = [wire EXCEPT ![k] = Tail(@)]
      /\ table' = [table EXCEPT ![y] = L]
      /\ UNCHANGED <<up, arp, unmasked, faults>>
  BY DEF Receive
<1> HIDE DEF k
<1>3. GoodWires' /\ wire' \in [Links -> Seq(Copies)] /\ copy \in GoodCopies(k[1], k[2])
  BY <1>1, <1>2, TailKeepsWires DEF IInv
<1> HIDE DEF copy
<1>4. copy \in Copies /\ GoodCopy(x, y, copy)
  BY <1>1, <1>3 DEF GoodCopies
<1>5. table[y] \in Tables /\ GoodTable(y, table[y])
  BY <1>1 DEF IInv, TypeOK, GoodTables
<1>6. GoodTable(y, L)
  BY <1>4, <1>5, LearnGood
<1>7. copy.offers \in Tables /\ copy.address \in Addresses
  BY <1>4 DEF Copies
<1>8. L \in Tables
  BY <1>5, <1>7, LearnValue
<1> HIDE DEF L
<1>9. table' \in [Nodes -> Tables] /\ \A n \in Nodes : table'[n] = IF n = y THEN L ELSE table[n]
  BY <1>1, <1>2, <1>8 DEF IInv, TypeOK
<1>10. GoodTables'
  BY <1>6, <1>9 DEF IInv, GoodTables
<1>11. TypeOK'
  BY <1>2, <1>3, <1>9 DEF IInv, TypeOK
<1> QED
  BY <1>3, <1>10, <1>11 DEF IInv

LEMMA ExpireKeeps ==
    ASSUME IInv, NEW x \in Nodes, NEW D \in SUBSET Perishable(x), Expire(x, D)
    PROVE  IInv'
<1> DEFINE t == Without(table[x], D)
<1>1. table[x] \in Tables /\ GoodTable(x, table[x])
  BY DEF IInv, TypeOK, GoodTables
<1>2. \A d \in D \cap DOMAIN table[x] : table[x][d].cost # 0
  BY DEF Perishable
<1>3. t \in Tables /\ GoodTable(x, t)
  BY <1>1, <1>2, WithoutType, WithoutGood
<1>4. /\ table' = [table EXCEPT ![x] = t]
      /\ UNCHANGED <<up, arp, wire, unmasked>>
      /\ faults' \in Nat
  BY DEF Expire, Happens, IInv, TypeOK
<1> HIDE DEF t
<1>5. table' \in [Nodes -> Tables] /\ \A n \in Nodes : table'[n] = IF n = x THEN t ELSE table[n]
  BY <1>3, <1>4 DEF IInv, TypeOK
<1>6. GoodTables'
  BY <1>3, <1>5 DEF IInv, GoodTables
<1>7. GoodWires'
  BY <1>4 DEF IInv, GoodWires
<1>8. TypeOK'
  BY <1>4, <1>5 DEF IInv, TypeOK
<1> QED
  BY <1>6, <1>7, <1>8 DEF IInv

LEMMA LoseKeeps ==
    ASSUME IInv, NEW x \in Nodes, NEW y \in Neighbours[x], Lose(x, y)
    PROVE  IInv'
<1> DEFINE k == <<x, y>>
<1>1. k \in Links
  BY LinkFacts
<1>2. /\ wire[k] # <<>>
      /\ wire' = [wire EXCEPT ![k] = Tail(@)]
      /\ UNCHANGED <<up, table, arp, unmasked>>
      /\ faults' \in Nat
  BY DEF Lose, Happens, hosts, IInv, TypeOK
<1> HIDE DEF k
<1>3. GoodWires' /\ wire' \in [Links -> Seq(Copies)]
  BY <1>1, <1>2, TailKeepsWires DEF IInv
<1>4. GoodTables'
  BY <1>2 DEF IInv, GoodTables
<1>5. TypeOK'
  BY <1>2, <1>3 DEF IInv, TypeOK
<1> QED
  BY <1>3, <1>4, <1>5 DEF IInv

LEMMA FailKeeps ==
    ASSUME IInv, NEW x \in Nodes, Fail(x)
    PROVE  IInv'
<1> DEFINE t == OwnRoutes(Own[x])
<1>1. t \in Tables /\ GoodTable(x, t)
  BY OwnRoutesType, OwnRoutesGood
<1>2. /\ table' = [table EXCEPT ![x] = t]
      /\ wire' = [l \in Links |-> IF l[2] = x THEN <<>> ELSE wire[l]]
      /\ up' \subseteq Nodes
      /\ arp' \in [Nodes -> SUBSET Nodes]
      /\ UNCHANGED unmasked
      /\ faults' \in Nat
  BY DEF Fail, Happens, IInv, TypeOK
<1> HIDE DEF t
<1>3. GoodWires' /\ wire' \in [Links -> Seq(Copies)]
  BY <1>2, EmptiedWires DEF IInv
<1>4. table' \in [Nodes -> Tables] /\ \A n \in Nodes : table'[n] = IF n = x THEN t ELSE table[n]
  BY <1>1, <1>2 DEF IInv, TypeOK
<1>5. GoodTables'
  BY <1>1, <1>4 DEF IInv, GoodTables
<1>6. TypeOK'
  BY <1>2, <1>3, <1>4 DEF IInv, TypeOK
<1> QED
  BY <1>3, <1>5, <1>6 DEF IInv

LEMMA RestartKeeps ==
    ASSUME IInv, NEW x \in Nodes, Restart(x)
    PROVE  IInv'
<1>1. up' \subseteq Nodes /\ UNCHANGED <<table, arp, wire, unmasked, faults>>
  BY DEF Restart, IInv, TypeOK
<1>2. GoodTables' /\ GoodWires'
  BY <1>1 DEF IInv, GoodTables, GoodWires
<1>3. TypeOK'
  BY <1>1 DEF IInv, TypeOK
<1> QED
  BY <1>2, <1>3 DEF IInv

\* The ARP cache decides what is poisoned, and so has no part in this.
LEMMA ArpKeeps ==
    ASSUME IInv, NEW x \in Nodes, NEW y \in Neighbours[x], ArpLearn(x, y) \/ ArpExpire(x, y)
    PROVE  IInv'
<1>1. /\ arp' \in [Nodes -> SUBSET Nodes]
      /\ UNCHANGED <<up, table, wire, unmasked>>
      /\ faults' \in Nat
  <2>1. CASE ArpLearn(x, y)
    BY <2>1, LinkFacts DEF ArpLearn, IInv, TypeOK
  <2>2. CASE ArpExpire(x, y)
    BY <2>2 DEF ArpExpire, Happens, IInv, TypeOK
  <2> QED
    BY <2>1, <2>2
<1>2. GoodTables'
  BY <1>1 DEF IInv, GoodTables
<1>3. GoodWires'
  BY <1>1 DEF IInv, GoodWires
<1>4. TypeOK'
  BY <1>1 DEF IInv, TypeOK
<1> QED
  BY <1>2, <1>3, <1>4 DEF IInv

-----------------------------------------------------------------------------
(* The theorems                                                             *)

\* The invariant holds of every reachable state of every network.
THEOREM Invariance == Spec => []IInv
<1>1. Init => IInv
  <2> SUFFICES ASSUME Init PROVE IInv
    OBVIOUS
  <2>1. \A x \in Nodes : table[x] \in Tables /\ GoodTable(x, table[x])
    BY OwnRoutesType, OwnRoutesGood DEF Init
  <2>2. table = [x \in Nodes |-> table[x]]
    BY DEF Init
  <2>3. GoodTables /\ table \in [Nodes -> Tables]
    BY <2>1, <2>2 DEF GoodTables
  <2>4. \A l \in Links : wire[l] = <<>>
    BY DEF Init
  <2>5. \A l \in Links : wire[l] \in Seq(GoodCopies(l[1], l[2]))
    BY <2>4, EmptySeq
  <2>6. wire = [l \in Links |-> wire[l]]
    BY DEF Init
  <2>7. GoodWires /\ wire \in [Links -> Seq(Copies)]
    BY <2>5, <2>6, WiresType DEF GoodWires
  <2>8. TypeOK
    BY <2>3, <2>7 DEF Init, TypeOK
  <2> QED
    BY <2>3, <2>7, <2>8 DEF IInv
<1>2. IInv /\ [Next]_vars => IInv'
  <2> SUFFICES ASSUME IInv, [Next]_vars PROVE IInv'
    OBVIOUS
  <2>1. ASSUME NEW x \in Nodes, Broadcast(x) PROVE IInv'
    BY <2>1, BroadcastKeeps
  <2>2. ASSUME NEW x \in Nodes, NEW D \in SUBSET Perishable(x), Expire(x, D) PROVE IInv'
    BY <2>2, ExpireKeeps
  <2>3. ASSUME NEW x \in Nodes, NEW y \in Neighbours[x], Receive(x, y) PROVE IInv'
    BY <2>3, ReceiveKeeps
  <2>4. ASSUME NEW x \in Nodes, NEW y \in Neighbours[x], ArpLearn(x, y) \/ ArpExpire(x, y)
        PROVE  IInv'
    BY <2>4, ArpKeeps
  <2>5. ASSUME NEW x \in Nodes, NEW y \in Neighbours[x], Lose(x, y) PROVE IInv'
    BY <2>5, LoseKeeps
  <2>6. ASSUME NEW x \in Nodes, Fail(x) PROVE IInv'
    BY <2>6, FailKeeps
  <2>7. ASSUME NEW x \in Nodes, Restart(x) PROVE IInv'
    BY <2>7, RestartKeeps
  <2>8. CASE UNCHANGED vars
    BY <2>8 DEF vars, hosts, IInv, TypeOK, GoodTables, GoodWires
  <2> QED
    BY <2>1, <2>2, <2>3, <2>4, <2>5, <2>6, <2>7, <2>8 DEF Next
<1> QED
  BY <1>1, <1>2, PTL DEF Spec

\* Every step of every host keeps the types of the state.
THEOREM TypeCorrect == Spec => []TypeOK
<1>1. IInv => TypeOK
  BY DEF IInv
<1> QED
  BY <1>1, Invariance, PTL

\* In every network, a host always knows its own addresses at no cost.
THEOREM OwnRoutesStayHolds == Spec => []OwnRoutesStay
<1>1. IInv => OwnRoutesStay
  BY DEF IInv, GoodTables, GoodTable, OwnRoutesStay
<1> QED
  BY <1>1, Invariance, PTL

\* In every network, no destination is believed closer than it is.
THEOREM NeverTooCloseHolds == Spec => []NeverTooClose
<1>1. IInv => NeverTooClose
  BY DEF IInv, GoodTables, GoodTable, NeverTooClose
<1> QED
  BY <1>1, Invariance, PTL

\* In every network, a next hop is an address of a direct neighbour.
THEOREM NextHopIsNeighbourHolds == Spec => []NextHopIsNeighbour
<1>1. IInv => NextHopIsNeighbour
  <2> SUFFICES ASSUME IInv, NEW x \in Nodes, NEW d \in DOMAIN table[x]
               PROVE  IF d \in Own[x] THEN table[x][d].hop = d
                      ELSE \E y \in Neighbours[x] : table[x][d].hop = Address[y][x]
    BY DEF NextHopIsNeighbour
  <2>1. GoodTable(x, table[x])
    BY DEF IInv, GoodTables
  <2>2. CASE d \in Own[x]
    <3>1. table[x][d] = [hop |-> d, cost |-> 0]
      BY <2>1, <2>2 DEF GoodTable
    <3> QED
      BY <2>2, <3>1
  <2>3. CASE d \notin Own[x]
    BY <2>1, <2>3 DEF GoodTable
  <2> QED
    BY <2>2, <2>3
<1> QED
  BY <1>1, Invariance, PTL

\* In every network the tables are sound, whatever was lost, failed or expired.
THEOREM SoundTablesHolds == Spec => []SoundTables
BY OwnRoutesStayHolds, NeverTooCloseHolds, NextHopIsNeighbourHolds, PTL DEF SoundTables

-----------------------------------------------------------------------------
(***************************************************************************)
(* TowardDestination is not inductive: it needs that what a neighbour      *)
(* offers, and has not poisoned, lies behind that neighbour and costs what *)
(* the way is long from there.                                             *)
(***************************************************************************)
Toward(x, t) ==
    \A d \in DOMAIN t \ Own[x] :
        /\ t[d].cost = Distance[x][d]
        /\ \A y \in Neighbours[x] : t[d].hop = Address[y][x] => d \in Behind[x][y]

\* What x offers to y of the way to d.
TowardOffer(x, y, d, cost) ==
    cost = MaxCost \/ (d \in Behind[y][x] /\ cost = Distance[x][d])

TowardCopies(x, y) ==
    {c \in GoodCopies(x, y) :
        \A d \in DOMAIN c.offers : TowardOffer(x, y, d, c.offers[d].cost)}

TowardTables == \A x \in Nodes : Toward(x, table[x])
TowardWires  == \A l \in Links : wire[l] \in Seq(TowardCopies(l[1], l[2]))

TreeInv == ~ unmasked => TowardTables /\ TowardWires

\* Neighbours have different addresses on a host's links.
LEMMA AddressesDiffer ==
    ASSUME NEW x \in Nodes, NEW y \in Neighbours[x], NEW z \in Neighbours[x],
           Address[y][x] = Address[z][x]
    PROVE  y = z
<1>1. y \in Nodes /\ z \in Nodes /\ Address[y][x] \in Own[y] /\ Address[z][x] \in Own[z]
  BY LinkFacts
<1> QED
  BY <1>1, RoutingAssumption

\* What a host offers to a neighbour it has in its ARP cache, and has not
\* poisoned, is its own or lies behind another of its neighbours.
LEMMA CopyToward ==
    ASSUME NEW x \in Nodes, NEW y \in Neighbours[x], y \in arp[x],
           NEW t \in Tables, GoodTable(x, t), Toward(x, t)
    PROVE  CopyFor(x, y, t) \in TowardCopies(x, y)
<1> DEFINE a == Address[y][x]
           p == Poisoned(t, a)
           c == CopyFor(x, y, t)
<1>1. c \in Copies /\ GoodCopy(x, y, c)
  BY CopyGood
<1>2. c.offers = p
  BY DEF CopyFor, Masked
<1> HIDE DEF c, a
<1>3. DOMAIN p = DOMAIN t
      /\ \A d \in DOMAIN t : p[d].cost = IF t[d].hop = a THEN MaxCost ELSE t[d].cost
  BY PoisonedType
<1> HIDE DEF p
<1>4. ASSUME NEW d \in DOMAIN p, p[d].cost # MaxCost
      PROVE  d \in Behind[y][x] /\ p[d].cost = Distance[x][d]
  <2>1. d \in DOMAIN t /\ t[d].hop # a /\ p[d].cost = t[d].cost
    BY <1>3, <1>4
  <2>2. d \in Addresses
    BY <2>1, TableOut
  <2>3. y \in Nodes /\ x \in Neighbours[y]
    BY LinkFacts
  <2>4. d \in Behind[y][x] <=>
           d \in Own[x] \/ \E z \in Neighbours[x] \ {y} : d \in Behind[x][z]
    BY <2>2, <2>3, TreeAssumption
  <2>5. CASE d \in Own[x]
    <3>1. t[d] = [hop |-> d, cost |-> 0]
      BY <2>5 DEF GoodTable
    <3>2. t[d].cost = 0
      BY <3>1
    <3>3. Distance[x][d] = 0
      BY <2>5, DistanceAssumption
    <3> QED
      BY <2>1, <2>4, <2>5, <3>2, <3>3
  <2>6. CASE d \notin Own[x]
    <3>1. PICK z \in Neighbours[x] : t[d].hop = Address[z][x]
      BY <2>1, <2>6 DEF GoodTable
    <3>2. z # y
      BY <2>1, <3>1 DEF a
    <3>3. d \in Behind[x][z] /\ t[d].cost = Distance[x][d]
      BY <2>1, <2>6, <3>1 DEF Toward
    <3> QED
      BY <2>1, <2>4, <3>2, <3>3
  <2> QED
    BY <2>5, <2>6
<1>5. \A d \in DOMAIN c.offers : TowardOffer(x, y, d, c.offers[d].cost)
  BY <1>2, <1>4 DEF TowardOffer
<1> QED
  BY <1>1, <1>5 DEF TowardCopies, GoodCopies, c

\* A host that learns such offers keeps its routes on their way.
LEMMA LearnToward ==
    ASSUME NEW x \in Nodes, NEW y \in Neighbours[x],
           NEW t \in Tables, Toward(y, t),
           NEW c \in TowardCopies(x, y)
    PROVE  Toward(y, Learn(t, c.offers, c.address))
<1> DEFINE o == c.offers
           L == Learn(t, o, c.address)
<1>1. c \in Copies /\ GoodCopy(x, y, c)
      /\ \A d \in DOMAIN o : o[d].cost # MaxCost => d \in Behind[y][x] /\ o[d].cost = Distance[x][d]
  BY DEF TowardCopies, GoodCopies, TowardOffer
<1>2. o \in Tables /\ c.address = Address[x][y] /\ c.address \in Addresses
  BY <1>1, LinkFacts DEF Copies, GoodCopy
<1>3. \A d \in DOMAIN L :
         \/ d \in DOMAIN t /\ L[d] = t[d]
         \/ /\ Accepts(t, o, d)
            /\ L[d] = [hop |-> c.address, cost |-> o[d].cost + 1]
  BY <1>2, LearnValue
<1>4. y \in Nodes /\ x \in Neighbours[y]
  BY LinkFacts
<1> HIDE DEF L
<1>5. ASSUME NEW d \in DOMAIN L \ Own[y], NEW z \in Neighbours[y], L[d].hop = Address[z][y]
      PROVE  d \in Behind[y][z]
  <2>1. CASE d \in DOMAIN t /\ L[d] = t[d]
    BY <1>5, <2>1 DEF Toward
  <2>2. CASE /\ Accepts(t, o, d)
             /\ L[d] = [hop |-> c.address, cost |-> o[d].cost + 1]
    <3>1. L[d].hop = Address[x][y]
      BY <1>2, <2>2
    <3>2. z = x
      BY <1>4, <1>5, <3>1, AddressesDiffer
    <3>3. d \in DOMAIN o /\ o[d].cost # MaxCost
      BY <2>2 DEF Accepts
    <3> QED
      BY <1>1, <3>2, <3>3
  <2> QED
    BY <1>3, <2>1, <2>2
<1>6. ASSUME NEW d \in DOMAIN L \ Own[y] PROVE L[d].cost = Distance[y][d]
  <2>1. CASE d \in DOMAIN t /\ L[d] = t[d]
    BY <1>6, <2>1 DEF Toward
  <2>2. CASE /\ Accepts(t, o, d)
             /\ L[d] = [hop |-> c.address, cost |-> o[d].cost + 1]
    <3>1. d \in DOMAIN o /\ o[d].cost # MaxCost
      BY <2>2 DEF Accepts
    <3>2. d \in Behind[y][x] /\ o[d].cost = Distance[x][d]
      BY <1>1, <3>1
    <3>3. Distance[y][d] = Distance[x][d] + 1
      BY <1>4, <3>2, TreeAssumption
    <3>4. L[d].cost = o[d].cost + 1
      BY <2>2
    <3> QED
      BY <3>2, <3>3, <3>4
  <2> QED
    BY <1>3, <2>1, <2>2
<1>7. Toward(y, L)
  BY <1>5, <1>6 DEF Toward
<1> QED
  BY <1>7 DEF L

\* A host that knows only itself has no route to anywhere else.
LEMMA OwnRoutesToward ==
    ASSUME NEW x \in Nodes
    PROVE  Toward(x, OwnRoutes(Own[x]))
  BY DEF Toward, OwnRoutes

-----------------------------------------------------------------------------
(* Every step keeps it.                                                     *)

LEMMA BroadcastToward ==
    ASSUME IInv, TreeInv, NEW x \in Nodes, Broadcast(x)
    PROVE  TreeInv'
<1> SUFFICES ASSUME ~ unmasked' PROVE TowardTables' /\ TowardWires'
  BY DEF TreeInv
<1>1. TowardTables /\ TowardWires /\ Neighbours[x] \cap up \subseteq arp[x] /\ table' = table
  BY DEF TreeInv, Broadcast, IInv, TypeOK
<1>2. TowardTables'
  BY <1>1 DEF TowardTables
<1>3. table[x] \in Tables /\ GoodTable(x, table[x]) /\ Toward(x, table[x])
  BY <1>1 DEF IInv, TypeOK, GoodTables, TowardTables
<1>4. ASSUME NEW l \in Links PROVE wire'[l] \in Seq(TowardCopies(l[1], l[2]))
  <2>1. wire[l] \in Seq(TowardCopies(l[1], l[2]))
    BY <1>1 DEF TowardWires
  <2>2. CASE l[1] = x /\ l[2] \in up /\ Len(wire[l]) < MaxInFlight
    <3> DEFINE c == CopyFor(x, l[2], table[x])
    <3>1. l[2] \in Neighbours[x] /\ l[2] \in arp[x]
      BY <1>1, <2>2, LinkOut
    <3>2. c \in TowardCopies(x, l[2])
      BY <1>3, <3>1, CopyToward
    <3>3. wire'[l] = Append(wire[l], c)
      BY <2>2 DEF Broadcast
    <3> HIDE DEF c
    <3>4. c \in TowardCopies(l[1], l[2])
      BY <2>2, <3>2
    <3> QED
      BY <2>1, <3>3, <3>4, AppendProperties
  <2>3. CASE ~ (l[1] = x /\ l[2] \in up /\ Len(wire[l]) < MaxInFlight)
    <3>1. wire'[l] = wire[l]
      BY <2>3 DEF Broadcast
    <3> QED
      BY <2>1, <3>1
  <2> QED
    BY <2>2, <2>3
<1> QED
  BY <1>2, <1>4 DEF TowardWires

LEMMA TailToward ==
    ASSUME TypeOK, TowardWires, NEW k \in Links, wire[k] # <<>>,
           wire' = [wire EXCEPT ![k] = Tail(@)]
    PROVE  TowardWires' /\ Head(wire[k]) \in TowardCopies(k[1], k[2])
<1>1. wire[k] \in Seq(TowardCopies(k[1], k[2]))
  BY DEF TowardWires
<1>2. /\ Head(wire[k]) \in TowardCopies(k[1], k[2])
      /\ Tail(wire[k]) \in Seq(TowardCopies(k[1], k[2]))
  BY <1>1, HeadTailProperties
<1>3. \A l \in Links : wire'[l] = IF l = k THEN Tail(wire[k]) ELSE wire[l]
  BY DEF TypeOK
<1>4. \A l \in Links : wire'[l] \in Seq(TowardCopies(l[1], l[2]))
  BY <1>2, <1>3 DEF TowardWires
<1> QED
  BY <1>2, <1>4 DEF TowardWires

LEMMA ReceiveToward ==
    ASSUME IInv, TreeInv, NEW x \in Nodes, NEW y \in Neighbours[x], Receive(x, y)
    PROVE  TreeInv'
<1> SUFFICES ASSUME ~ unmasked' PROVE TowardTables' /\ TowardWires'
  BY DEF TreeInv
<1> DEFINE k == <<x, y>>
           copy == Head(wire[k])
           L == Learn(table[y], copy.offers, copy.address)
<1>1. k \in Links /\ k[1] = x /\ k[2] = y /\ y \in Nodes
  BY LinkFacts
<1>2. /\ wire[k] # <<>>
      /\ wire' = [wire EXCEPT ![k] = Tail(@)]
      /\ table' = [table EXCEPT ![y] = L]
      /\ ~ unmasked
  BY DEF Receive
<1>3. TowardTables /\ TowardWires
  BY <1>2 DEF TreeInv
<1> HIDE DEF k
<1>4. TowardWires' /\ copy \in TowardCopies(k[1], k[2])
  BY <1>1, <1>2, <1>3, TailToward DEF IInv
<1> HIDE DEF copy
<1>5. copy \in TowardCopies(x, y)
  BY <1>1, <1>4
<1>6. table[y] \in Tables /\ Toward(y, table[y])
  BY <1>1, <1>3 DEF IInv, TypeOK, TowardTables
<1>7. Toward(y, L)
  BY <1>5, <1>6, LearnToward
<1> HIDE DEF L
<1>8. \A n \in Nodes : table'[n] = IF n = y THEN L ELSE table[n]
  BY <1>2 DEF IInv, TypeOK
<1>9. TowardTables'
  BY <1>3, <1>7, <1>8 DEF TowardTables
<1> QED
  BY <1>4, <1>9

LEMMA ExpireToward ==
    ASSUME IInv, TreeInv, NEW x \in Nodes, NEW D \in SUBSET Perishable(x), Expire(x, D)
    PROVE  TreeInv'
<1> SUFFICES ASSUME ~ unmasked' PROVE TowardTables' /\ TowardWires'
  BY DEF TreeInv
<1> DEFINE t == Without(table[x], D)
<1>1. table' = [table EXCEPT ![x] = t] /\ wire' = wire /\ ~ unmasked
  BY DEF Expire
<1>2. TowardTables /\ TowardWires
  BY <1>1 DEF TreeInv
<1>3. DOMAIN t \subseteq DOMAIN table[x] /\ \A d \in DOMAIN t : t[d] = table[x][d]
  BY DEF Without
<1> HIDE DEF t
<1>4. Toward(x, t)
  BY <1>2, <1>3 DEF Toward, TowardTables
<1>5. \A n \in Nodes : table'[n] = IF n = x THEN t ELSE table[n]
  BY <1>1 DEF IInv, TypeOK
<1>6. TowardTables'
  BY <1>2, <1>4, <1>5 DEF TowardTables
<1> QED
  BY <1>1, <1>2, <1>6 DEF TowardWires

LEMMA LoseToward ==
    ASSUME IInv, TreeInv, NEW x \in Nodes, NEW y \in Neighbours[x], Lose(x, y)
    PROVE  TreeInv'
<1> SUFFICES ASSUME ~ unmasked' PROVE TowardTables' /\ TowardWires'
  BY DEF TreeInv
<1> DEFINE k == <<x, y>>
<1>1. k \in Links
  BY LinkFacts
<1>2. wire[k] # <<>> /\ wire' = [wire EXCEPT ![k] = Tail(@)] /\ table' = table /\ ~ unmasked
  BY DEF Lose, hosts
<1>3. TowardTables /\ TowardWires
  BY <1>2 DEF TreeInv
<1> HIDE DEF k
<1>4. TowardWires'
  BY <1>1, <1>2, <1>3, TailToward DEF IInv
<1> QED
  BY <1>2, <1>3, <1>4 DEF TowardTables

\* Emptied wires, when a host fails or starts.
LEMMA EmptiedToward ==
    ASSUME TowardWires, NEW x \in Nodes,
           wire' = [l \in Links |-> IF l[2] = x THEN <<>> ELSE wire[l]]
    PROVE  TowardWires'
<1>1. \A l \in Links : wire'[l] \in Seq(TowardCopies(l[1], l[2]))
  BY EmptySeq DEF TowardWires
<1> QED
  BY <1>1 DEF TowardWires

LEMMA FailToward ==
    ASSUME IInv, TreeInv, NEW x \in Nodes, Fail(x)
    PROVE  TreeInv'
<1> SUFFICES ASSUME ~ unmasked' PROVE TowardTables' /\ TowardWires'
  BY DEF TreeInv
<1> DEFINE t == OwnRoutes(Own[x])
<1>1. /\ table' = [table EXCEPT ![x] = t]
      /\ wire' = [l \in Links |-> IF l[2] = x THEN <<>> ELSE wire[l]]
      /\ ~ unmasked
  BY DEF Fail
<1>2. TowardTables /\ TowardWires
  BY <1>1 DEF TreeInv
<1>3. Toward(x, t)
  BY OwnRoutesToward
<1> HIDE DEF t
<1>4. \A n \in Nodes : table'[n] = IF n = x THEN t ELSE table[n]
  BY <1>1 DEF IInv, TypeOK
<1>5. TowardTables'
  BY <1>2, <1>3, <1>4 DEF TowardTables
<1> QED
  BY <1>1, <1>2, <1>5, EmptiedToward

LEMMA RestartToward ==
    ASSUME TreeInv, NEW x \in Nodes, Restart(x)
    PROVE  TreeInv'
<1> SUFFICES ASSUME ~ unmasked' PROVE TowardTables' /\ TowardWires'
  BY DEF TreeInv
<1>1. UNCHANGED <<table, wire>> /\ ~ unmasked
  BY DEF Restart
<1> QED
  BY <1>1 DEF TreeInv, TowardTables, TowardWires

-----------------------------------------------------------------------------

\* The strengthened invariant holds of every network without cycles.
THEOREM TreeInvariance == Spec => []TreeInv
<1>1. Init => TreeInv
  <2> SUFFICES ASSUME Init PROVE TowardTables /\ TowardWires
    BY DEF TreeInv
  <2>1. TowardTables
    BY OwnRoutesToward DEF Init, TowardTables
  <2>2. TowardWires
    BY EmptySeq DEF Init, TowardWires
  <2> QED
    BY <2>1, <2>2
<1>2. IInv /\ TreeInv /\ [Next]_vars => TreeInv'
  <2> SUFFICES ASSUME IInv, TreeInv, [Next]_vars PROVE TreeInv'
    OBVIOUS
  <2>1. ASSUME NEW x \in Nodes, Broadcast(x) PROVE TreeInv'
    BY <2>1, BroadcastToward
  <2>2. ASSUME NEW x \in Nodes, NEW D \in SUBSET Perishable(x), Expire(x, D) PROVE TreeInv'
    BY <2>2, ExpireToward
  <2>3. ASSUME NEW x \in Nodes, NEW y \in Neighbours[x], Receive(x, y) PROVE TreeInv'
    BY <2>3, ReceiveToward
  <2>4. ASSUME NEW x \in Nodes, NEW y \in Neighbours[x], ArpLearn(x, y) \/ ArpExpire(x, y)
        PROVE  TreeInv'
    <3>1. UNCHANGED <<table, wire, unmasked>>
      BY <2>4 DEF ArpLearn, ArpExpire
    <3> QED
      BY <3>1 DEF TreeInv, TowardTables, TowardWires
  <2>5. ASSUME NEW x \in Nodes, NEW y \in Neighbours[x], Lose(x, y) PROVE TreeInv'
    BY <2>5, LoseToward
  <2>6. ASSUME NEW x \in Nodes, Fail(x) PROVE TreeInv'
    BY <2>6, FailToward
  <2>7. ASSUME NEW x \in Nodes, Restart(x) PROVE TreeInv'
    BY <2>7, RestartToward
  <2>8. CASE UNCHANGED vars
    BY <2>8 DEF vars, hosts, TreeInv, TowardTables, TowardWires
  <2> QED
    BY <2>1, <2>2, <2>3, <2>4, <2>5, <2>6, <2>7, <2>8 DEF Next
<1> QED
  BY <1>1, <1>2, Invariance, PTL DEF Spec

\* In every network without cycles, as long as every copy was poisoned for its
\* receiver, a route leaves by the link its destination is behind, and costs
\* what the way is long: nothing is counted up.
THEOREM TowardDestinationHolds == Spec => []TowardDestination
<1>1. TreeInv => TowardDestination
  BY DEF TreeInv, TowardTables, Toward, TowardDestination
<1> QED
  BY <1>1, TreeInvariance, PTL
=============================================================================
