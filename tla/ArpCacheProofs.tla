---------------------------- MODULE ArpCacheProofs ----------------------------
(***************************************************************************)
(* The MIP-ARP cache for any number of neighbours, any frequency and any   *)
(* timeout that is not longer: one entry for an address, no neighbour lost *)
(* that runs and answers, and none kept that does not.                     *)
(***************************************************************************)
EXTENDS ArpCache, FiniteSetTheorems, SequenceTheorems, WellFoundedInduction,
        NaturalsInduction, TLAPS

Sockets == {Socket[n] : n \in Neighbours}
Entries == [address : Neighbours, socket : Sockets, age : Nat]

-----------------------------------------------------------------------------
(* The operations on the cache                                              *)

\* What holds of 0, and of a number if it holds of the one before, holds up to
\* n: the least number of which it did not hold has one before it.
LEMMA UpTo ==
    ASSUME NEW n \in Nat, NEW T \in SUBSET (0 .. n), 0 \in T,
           \A i \in 1 .. n : i - 1 \in T => i \in T
    PROVE  T = 0 .. n
<1> DEFINE U == (0 .. n) \ T
<1> SUFFICES ASSUME U # {} PROVE FALSE
  OBVIOUS
<1>1. U \subseteq Nat
  OBVIOUS
<1> HIDE DEF U
<1>2. PICK x \in U : \A y \in U : ~ (<<y, x>> \in OpToRel(<, Nat))
  BY <1>1, WFMin, NatLessThanWellFounded
<1>3. x \in 1 .. n /\ x \notin T
  BY DEF U
<1>4. x - 1 \in Nat /\ x \in Nat /\ x - 1 < x /\ x - 1 \in 0 .. n
  BY <1>3
<1>5. <<x - 1, x>> \in OpToRel(<, Nat)
  BY <1>4 DEF OpToRel
<1>6. x - 1 \in T
  BY <1>2, <1>4, <1>5 DEF U
<1> QED
  BY <1>3, <1>6

\* An entry is kept unless it is expired.
Keep(kept, entry) == IF IsExpired(entry) THEN kept ELSE Append(kept, entry)

\* What is kept of the first entries, for each number of them.
Walks(entries, n, S) ==
    {f \in [0 .. n -> Seq(S)] :
        f[0] = <<>> /\ \A i \in 1 .. n : f[i] = Keep(f[i - 1], entries[i])}

\* The walk over the entries has a result.
LEMMA WalkExists ==
    ASSUME NEW S, NEW entries \in Seq(S)
    PROVE  \E f : f \in Walks(entries, Len(entries), S)
<1> DEFINE n == Len(entries)
           T == {k \in 0 .. n : Walks(entries, k, S) # {}}
<1>1. n \in Nat /\ \A i \in 1 .. n : entries[i] \in S
  OBVIOUS
<1> HIDE DEF n
<1>2. 0 \in T
  <2> DEFINE f == [i \in 0 .. 0 |-> <<>>]
  <2>1. f \in [0 .. 0 -> Seq(S)] /\ f[0] = <<>> /\ 1 .. 0 = {}
    OBVIOUS
  <2> HIDE DEF f
  <2>2. f \in Walks(entries, 0, S)
    BY <2>1 DEF Walks
  <2> QED
    BY <2>2, <1>1
<1>3. ASSUME NEW k \in 1 .. n, k - 1 \in T PROVE k \in T
  <2>1. PICK f \in [0 .. k - 1 -> Seq(S)] :
            f[0] = <<>> /\ \A i \in 1 .. k - 1 : f[i] = Keep(f[i - 1], entries[i])
    BY <1>3 DEF Walks
  <2> DEFINE last == Keep(f[k - 1], entries[k])
             g == [i \in 0 .. k |-> IF i = k THEN last ELSE f[i]]
  <2>2. last \in Seq(S)
    BY <2>1, <1>1 DEF Keep
  <2> HIDE DEF last
  <2>3. g \in [0 .. k -> Seq(S)] /\ g[0] = <<>>
    BY <2>1, <2>2
  <2>4. ASSUME NEW i \in 1 .. k PROVE g[i] = Keep(g[i - 1], entries[i])
    <3>1. g[i - 1] = f[i - 1]
      OBVIOUS
    <3>2. CASE i = k
      BY <3>1, <3>2 DEF last
    <3>3. CASE i # k
      <4>1. i \in 1 .. k - 1 /\ g[i] = f[i]
        BY <3>3
      <4> QED
        BY <4>1, <3>1, <2>1
    <3> QED
      BY <3>2, <3>3
  <2> HIDE DEF g
  <2>5. g \in Walks(entries, k, S)
    BY <2>3, <2>4 DEF Walks
  <2> QED
    BY <2>5
<1> HIDE DEF T
<1>4. T = 0 .. n
  <2>1. T \in SUBSET (0 .. n)
    BY DEF T
  <2> QED
    BY <1>1, <1>2, <1>3, <2>1, UpTo
<1>5. n \in T
  BY <1>1, <1>4
<1> QED
  BY <1>5 DEF T, n

\* RemoveExpired is the end of that walk.
LEMMA RemoveExpiredWalks ==
    ASSUME NEW S, NEW entries \in Seq(S)
    PROVE  \E kept \in Walks(entries, Len(entries), S) : RemoveExpired(entries) = kept[Len(entries)]
<1> DEFINE n == Len(entries)
           kept == CHOOSE f : f = [i \in 0 .. n |->
                        IF i = 0 THEN <<>>
                        ELSE IF IsExpired(entries[i]) THEN f[i - 1]
                        ELSE Append(f[i - 1], entries[i])]
<1>1. n \in Nat
  OBVIOUS
<1>2. RemoveExpired(entries) = kept[n]
  BY DEF RemoveExpired
<1>3. PICK f : f \in Walks(entries, n, S)
  BY WalkExists
<1> HIDE DEF n, kept
<1>4. f = [i \in 0 .. n |->
              IF i = 0 THEN <<>>
              ELSE IF IsExpired(entries[i]) THEN f[i - 1]
              ELSE Append(f[i - 1], entries[i])]
  <2>1. \A i \in 1 .. n : f[i] = IF IsExpired(entries[i]) THEN f[i - 1]
                                 ELSE Append(f[i - 1], entries[i])
    BY <1>3 DEF Walks, Keep
  <2>2. \A i \in 0 .. n : i # 0 => i \in 1 .. n
    BY <1>1
  <2>3. f \in [0 .. n -> Seq(S)] /\ f[0] = <<>>
    BY <1>3 DEF Walks
  <2> QED
    BY <2>1, <2>2, <2>3
<1>5. kept = [i \in 0 .. n |->
                 IF i = 0 THEN <<>>
                 ELSE IF IsExpired(entries[i]) THEN kept[i - 1]
                 ELSE Append(kept[i - 1], entries[i])]
  BY <1>4 DEF kept
<1>6. /\ DOMAIN kept = 0 .. n /\ kept[0] = <<>>
      /\ \A i \in 1 .. n : kept[i] = Keep(kept[i - 1], entries[i])
  <2>1. 0 \in 0 .. n /\ \A i \in 1 .. n : i \in 0 .. n /\ i # 0
    BY <1>1
  <2> QED
    BY <1>5, <2>1 DEF Keep
<1>7. \A i \in 0 .. n : kept[i] = f[i]
  <2> DEFINE T == {i \in 0 .. n : kept[i] = f[i]}
  <2>1. 0 \in T /\ T \in SUBSET (0 .. n)
    BY <1>1, <1>3, <1>6 DEF Walks
  <2>2. ASSUME NEW i \in 1 .. n, i - 1 \in T PROVE i \in T
    BY <2>2, <1>3, <1>6 DEF Walks
  <2> HIDE DEF T
  <2>3. T = 0 .. n
    BY <2>1, <2>2, <1>1, UpTo
  <2> QED
    BY <2>3 DEF T
<1>8. kept = f
  BY <1>3, <1>5, <1>7 DEF Walks
<1> QED
  BY <1>2, <1>3, <1>8 DEF n

\* No two entries of a list have the same address.
Distinct(list) == \A i, j \in DOMAIN list : list[i].address = list[j].address => i = j

\* The list has the first n entries that are not expired, and nothing else.
Filters(list, entries, n) ==
    /\ \A k \in DOMAIN list : \E j \in 1 .. n : list[k] = entries[j] /\ ~ IsExpired(entries[j])
    /\ \A j \in 1 .. n : ~ IsExpired(entries[j]) => \E k \in DOMAIN list : list[k] = entries[j]

\* One more entry that is not expired.
LEMMA FiltersOneMore ==
    ASSUME NEW S, NEW entries \in Seq(S), NEW i \in 1 .. Len(entries), NEW list \in Seq(S),
           Filters(list, entries, i - 1), ~ IsExpired(entries[i])
    PROVE  Filters(Append(list, entries[i]), entries, i)
<1> DEFINE more == Append(list, entries[i])
<1>1. entries[i] \in S /\ i - 1 \in Nat /\ i \in Nat
  OBVIOUS
<1>2. /\ DOMAIN more = 1 .. Len(list) + 1 /\ Len(list) \in Nat /\ DOMAIN list = 1 .. Len(list)
      /\ more[Len(list) + 1] = entries[i] /\ \A k \in DOMAIN list : more[k] = list[k]
  BY <1>1
<1> HIDE DEF more
<1>3. ASSUME NEW k \in DOMAIN more
      PROVE  \E j \in 1 .. i : more[k] = entries[j] /\ ~ IsExpired(entries[j])
  <2>1. CASE k = Len(list) + 1
    <3>1. i \in 1 .. i
      BY <1>1
    <3> QED
      BY <2>1, <3>1, <1>2
  <2>2. CASE k # Len(list) + 1
    <3>1. k \in DOMAIN list
      BY <2>2, <1>2
    <3>2. PICK j \in 1 .. i - 1 : list[k] = entries[j] /\ ~ IsExpired(entries[j])
      BY <3>1 DEF Filters
    <3>3. j \in 1 .. i
      BY <1>1
    <3> QED
      BY <1>2, <3>1, <3>2, <3>3
  <2> QED
    BY <2>1, <2>2
<1>4. ASSUME NEW j \in 1 .. i, ~ IsExpired(entries[j])
      PROVE  \E k \in DOMAIN more : more[k] = entries[j]
  <2>1. CASE j = i
    <3>1. Len(list) + 1 \in DOMAIN more
      BY <1>2
    <3> QED
      BY <2>1, <3>1, <1>2
  <2>2. CASE j # i
    <3>1. j \in 1 .. i - 1
      BY <2>2, <1>1
    <3>2. PICK k \in DOMAIN list : list[k] = entries[j]
      BY <3>1, <1>4 DEF Filters
    <3>3. k \in DOMAIN more
      BY <1>2
    <3> QED
      BY <1>2, <3>2, <3>3
  <2> QED
    BY <2>1, <2>2
<1> QED
  BY <1>3, <1>4 DEF Filters, more

\* Distinct entries stay distinct if one more is kept.
LEMMA DistinctOneMore ==
    ASSUME NEW S, NEW entries \in Seq(S), NEW i \in 1 .. Len(entries), NEW list \in Seq(S),
           Filters(list, entries, i - 1), Distinct(entries), Distinct(list)
    PROVE  Distinct(Append(list, entries[i]))
<1> DEFINE more == Append(list, entries[i])
<1>1. entries[i] \in S /\ i - 1 \in Nat /\ i \in Nat
  OBVIOUS
<1>2. /\ DOMAIN more = 1 .. Len(list) + 1 /\ Len(list) \in Nat /\ DOMAIN list = 1 .. Len(list)
      /\ more[Len(list) + 1] = entries[i] /\ \A k \in DOMAIN list : more[k] = list[k]
  BY <1>1
<1> HIDE DEF more
<1>3. ASSUME NEW k \in DOMAIN list PROVE list[k].address # entries[i].address
  <2>1. PICK j \in 1 .. i - 1 : list[k] = entries[j]
    BY DEF Filters
  <2>2. j \in DOMAIN entries /\ i \in DOMAIN entries /\ j # i
    BY <1>1
  <2> QED
    BY <2>1, <2>2 DEF Distinct
<1>4. ASSUME NEW k \in DOMAIN more, NEW l \in DOMAIN more, more[k].address = more[l].address
      PROVE  k = l
  <2>1. (k \in DOMAIN list \/ k = Len(list) + 1) /\ (l \in DOMAIN list \/ l = Len(list) + 1)
    BY <1>2
  <2> QED
    BY <2>1, <1>2, <1>3, <1>4 DEF Distinct
<1> QED
  BY <1>4 DEF Distinct, more

\* RemoveExpired leaves exactly the entries that are not expired, and no
\* address twice that was not there twice.
LEMMA RemoveExpiredFilters ==
    ASSUME NEW S, NEW entries \in Seq(S)
    PROVE  /\ RemoveExpired(entries) \in Seq(S)
           /\ Filters(RemoveExpired(entries), entries, Len(entries))
           /\ Distinct(entries) => Distinct(RemoveExpired(entries))
<1> DEFINE n == Len(entries)
           Right(list, i) == Filters(list, entries, i) /\ (Distinct(entries) => Distinct(list))
<1>1. PICK kept \in Walks(entries, n, S) : RemoveExpired(entries) = kept[n]
  BY RemoveExpiredWalks
<1>2. n \in Nat /\ n = Len(entries)
  OBVIOUS
<1> HIDE DEF n
<1>3. /\ kept \in [0 .. n -> Seq(S)] /\ kept[0] = <<>>
      /\ \A i \in 1 .. n : kept[i] = Keep(kept[i - 1], entries[i])
  BY <1>1 DEF Walks
<1> DEFINE T == {i \in 0 .. n : Right(kept[i], i)}
<1>4. 0 \in T
  <2>1. DOMAIN kept[0] = {} /\ 1 .. 0 = {} /\ 0 \in 0 .. n
    BY <1>2, <1>3
  <2> QED
    BY <2>1 DEF Filters, Distinct
<1>5. ASSUME NEW i \in 1 .. n, i - 1 \in T PROVE i \in T
  <2>1. kept[i - 1] \in Seq(S) /\ i \in 1 .. Len(entries) /\ i \in 0 .. n
    BY <1>2, <1>3
  <2>2. Right(kept[i - 1], i - 1)
    BY <1>5
  <2>3. CASE IsExpired(entries[i])
    <3>1. kept[i] = kept[i - 1]
      BY <2>3, <1>3 DEF Keep
    <3>2. \A j \in 1 .. i : j = i \/ j \in 1 .. i - 1
      BY <2>1
    <3>3. \A j \in 1 .. i - 1 : j \in 1 .. i
      BY <2>1
    <3>4. Filters(kept[i], entries, i)
      BY <2>2, <2>3, <3>1, <3>2, <3>3 DEF Filters
    <3> QED
      BY <2>1, <2>2, <3>1, <3>4
  <2>4. CASE ~ IsExpired(entries[i])
    <3>1. kept[i] = Append(kept[i - 1], entries[i])
      BY <2>4, <1>3 DEF Keep
    <3>2. Filters(kept[i], entries, i)
      BY <2>1, <2>2, <2>4, <3>1, FiltersOneMore
    <3>3. Distinct(entries) => Distinct(kept[i])
      BY <2>1, <2>2, <3>1, DistinctOneMore
    <3> QED
      BY <2>1, <3>2, <3>3
  <2> QED
    BY <2>3, <2>4
<1> HIDE DEF T
<1>6. T = 0 .. n
  <2>1. T \in SUBSET (0 .. n)
    BY DEF T
  <2> QED
    BY <1>2, <1>4, <1>5, <2>1, UpTo
<1>7. Right(kept[n], n) /\ kept[n] \in Seq(S)
  BY <1>2, <1>3, <1>6 DEF T
<1> QED
  BY <1>1, <1>2, <1>7

\* Where an address is found.
LEMMA PositionOf ==
    ASSUME cache \in Seq(Entries), Distinct(cache), NEW n
    PROVE  \/ Position(n) = 0 /\ \A i \in DOMAIN cache : cache[i].address # n
           \/ Position(n) \in DOMAIN cache /\ cache[Position(n)].address = n
<1> DEFINE I == {i \in 1 .. Len(cache) : cache[i].address = n}
<1>1. DOMAIN cache = 1 .. Len(cache) /\ Len(cache) \in Nat
  OBVIOUS
<1>2. Position(n) = IF I # {} THEN Min(I) ELSE 0
  BY DEF Position, SelectInSeq
<1>3. CASE I = {}
  BY <1>1, <1>2, <1>3
<1>4. CASE I # {}
  <2>1. PICK i \in I : TRUE
    BY <1>4
  <2>2. \A j \in I : j = i
    BY <1>1 DEF Distinct
  <2>3. Min(I) \in I
    <3>1. i <= i
      BY <1>1
    <3>2. \E x \in I : \A y \in I : x <= y
      BY <2>1, <2>2, <3>1
    <3> QED
      BY <3>2 DEF Min
  <2> QED
    BY <1>1, <1>2, <1>4, <2>3
<1> QED
  BY <1>3, <1>4

\* AppendToCache leaves one entry for n, which is new, and the others as they
\* were.
LEMMA AppendToCacheFacts ==
    ASSUME cache \in Seq(Entries), Distinct(cache), NEW n \in Neighbours
    PROVE  /\ AppendToCache(n) \in Seq(Entries)
           /\ Distinct(AppendToCache(n))
           /\ \E k \in DOMAIN AppendToCache(n) : AppendToCache(n)[k].address = n
           /\ \A k \in DOMAIN AppendToCache(n) :
                 \/ AppendToCache(n)[k].address = n /\ AppendToCache(n)[k].age = 0
                 \/ /\ k \in DOMAIN cache /\ AppendToCache(n)[k] = cache[k]
                    /\ cache[k].address # n
           /\ \A k \in DOMAIN cache :
                 k \in DOMAIN AppendToCache(n) /\ AppendToCache(n)[k].address = cache[k].address
<1> DEFINE entry == [address |-> n, socket |-> Socket[n], age |-> 0]
           new   == AppendToCache(n)
           p     == Position(n)
<1>1. entry \in Entries /\ entry.address = n /\ entry.age = 0
  BY DEF Entries, Sockets
<1>2. new = IF p = 0 THEN Append(cache, entry) ELSE [cache EXCEPT ![p] = entry]
  BY DEF AppendToCache
<1>3. \/ p = 0 /\ \A i \in DOMAIN cache : cache[i].address # n
      \/ p \in DOMAIN cache /\ cache[p].address = n
  BY PositionOf
<1>4. DOMAIN cache = 1 .. Len(cache) /\ Len(cache) \in Nat /\ 0 \notin DOMAIN cache
  OBVIOUS
<1> HIDE DEF entry, new, p
<1>5. CASE p = 0
  <2>1. new = Append(cache, entry) /\ \A i \in DOMAIN cache : cache[i].address # n
    BY <1>2, <1>3, <1>4, <1>5
  <2>2. /\ new \in Seq(Entries) /\ DOMAIN new = 1 .. Len(cache) + 1
        /\ new[Len(cache) + 1] = entry /\ \A i \in DOMAIN cache : new[i] = cache[i]
    BY <1>1, <2>1
  <2>3. \A i \in DOMAIN new : i \in DOMAIN cache \/ i = Len(cache) + 1
    BY <1>4, <2>2
  <2>4. Len(cache) + 1 \in DOMAIN new /\ \A i \in DOMAIN cache : i \in DOMAIN new
    BY <1>4, <2>2
  <2>5. Distinct(new)
    <3> SUFFICES ASSUME NEW i \in DOMAIN new, NEW j \in DOMAIN new, new[i].address = new[j].address
                 PROVE  i = j
      BY DEF Distinct
    <3> QED
      BY <1>1, <2>1, <2>2, <2>3 DEF Distinct
  <2> QED
    BY <1>1, <2>1, <2>2, <2>3, <2>4, <2>5 DEF new
<1>6. CASE p # 0
  <2>1. new = [cache EXCEPT ![p] = entry] /\ p \in DOMAIN cache /\ cache[p].address = n
    BY <1>2, <1>3, <1>6
  <2>2. /\ new \in Seq(Entries) /\ DOMAIN new = DOMAIN cache /\ new[p] = entry
        /\ \A i \in DOMAIN cache : i # p => new[i] = cache[i]
    BY <1>1, <2>1
  <2>3. \A i \in DOMAIN cache : i # p => cache[i].address # n
    BY <2>1 DEF Distinct
  <2>4. \A i \in DOMAIN cache : new[i].address = cache[i].address
    BY <1>1, <2>1, <2>2
  <2>5. Distinct(new)
    BY <2>2, <2>4 DEF Distinct
  <2> QED
    BY <1>1, <2>1, <2>2, <2>3, <2>4, <2>5 DEF new
<1> QED
  BY <1>5, <1>6

-----------------------------------------------------------------------------
(***************************************************************************)
(* CacheFollows is not inductive.  That no entry is too old rests on how   *)
(* long the loop may have slept since it removed the expired ones (Aged).  *)
(* That no neighbour that answers is removed rests on the last request:    *)
(* its answer is unread, so that no time has passed since the request, or  *)
(* it was read before any passed, so that the entry is no older than the   *)
(* request (Renewed).                                                      *)
(***************************************************************************)
Typed ==
    /\ pc \in {"start", "loop", "wait"}
    /\ cache \in Seq(Entries)
    /\ sinceArp \in Nat
    /\ waited \in 0 .. PollTimeout
    /\ frames \subseteq Frames
    /\ alive \subseteq Neighbours
    /\ steady \subseteq alive
    /\ losses \in 0 .. MaxLosses
    /\ deaths \in 0 .. MaxDeaths

Clock ==
    /\ sinceArp <= UpdateFreq + PollTimeout
    /\ pc = "wait" => sinceArp <= UpdateFreq + waited

Aged ==
    \A i \in DOMAIN cache :
        /\ cache[i].age <= MaxAge
        /\ pc = "wait" => cache[i].age <= 2 * UpdateFreq + waited

Renewed ==
    \A i \in DOMAIN cache :
        cache[i].address \in steady =>
            /\ cache[i].age <= UpdateFreq + PollTimeout
            /\ cache[i].age <= sinceArp \/ \E f \in frames : f.src = cache[i].address

ArpInv == Typed /\ Distinct(cache) /\ Clock /\ Aged /\ LiveNeighbourStays /\ Renewed

\* The constants are numbers.
LEMMA Constants ==
    /\ UpdateFreq \in Nat /\ PollTimeout \in Nat /\ PollTimeout <= UpdateFreq
    /\ MaxLosses \in Nat /\ MaxDeaths \in Nat
    /\ MaxAge = 2 * UpdateFreq + PollTimeout /\ MaxAge \in Nat
  BY ArpAssumption DEF MaxAge

\* What the cache holds.
LEMMA CacheFacts ==
    ASSUME Typed
    PROVE  /\ DOMAIN cache = 1 .. Len(cache) /\ Len(cache) \in Nat
           /\ \A i \in DOMAIN cache : cache[i] \in Entries /\ cache[i].age \in Nat
<1>1. cache \in Seq(Entries)
  BY DEF Typed
<1>2. \A i \in DOMAIN cache : cache[i] \in Entries
  BY <1>1
<1>3. \A e \in Entries : e.age \in Nat
  BY DEF Entries
<1> QED
  BY <1>1, <1>2, <1>3

\* Of the lost answers there is a number.
LEMMA LostCount ==
    ASSUME alive \subseteq Neighbours, NEW lost \in SUBSET alive
    PROVE  Cardinality(lost) \in Nat
<1>1. IsFiniteSet(lost)
  BY ArpAssumption, FS_Subset
<1> QED
  BY <1>1, FS_CardinalityType

\* A request: whoever is still steady has an answer on its way.
LEMMA RequestFacts ==
    ASSUME Typed, CompleteArp
    PROVE  /\ losses' \in 0 .. MaxLosses /\ frames' \subseteq Frames
           /\ steady' \subseteq steady /\ sinceArp' = 0
           /\ \A n \in steady' : \E f \in frames' : f.src = n
<1>1. PICK lost \in SUBSET alive :
        /\ losses + Cardinality(lost) <= MaxLosses
        /\ losses' = losses + Cardinality(lost)
        /\ frames' = frames \cup {[tra |-> "response", src |-> n] : n \in alive \ lost}
        /\ steady' = steady \ lost
        /\ sinceArp' = 0
  BY DEF CompleteArp
<1>2. losses' \in 0 .. MaxLosses
  <2>1. Cardinality(lost) \in Nat /\ losses \in Nat /\ MaxLosses \in Nat
    BY LostCount, Constants DEF Typed
  <2> QED
    BY <1>1, <2>1
<1>3. frames' \subseteq Frames
  BY <1>1 DEF Typed, Frames
<1>4. ASSUME NEW n \in steady' PROVE \E f \in frames' : f.src = n
  <2>1. n \in alive \ lost
    BY <1>1, <1>4 DEF Typed
  <2>2. [tra |-> "response", src |-> n] \in frames'
    BY <1>1, <2>1
  <2> QED
    BY <2>2
<1> QED
  BY <1>1, <1>2, <1>3, <1>4

\* The first requests.
LEMMA StartKeeps ==
    ASSUME ArpInv, Start
    PROVE  ArpInv'
<1>1. /\ losses' \in 0 .. MaxLosses /\ frames' \subseteq Frames
      /\ steady' \subseteq steady /\ sinceArp' = 0
      /\ \A n \in steady' : \E f \in frames' : f.src = n
  BY RequestFacts DEF ArpInv, Start
<1>2. pc' = "loop" /\ UNCHANGED <<cache, waited, alive, deaths>>
  BY DEF Start
<1>3. Typed'
  BY <1>1, <1>2 DEF ArpInv, Typed
<1>4. Clock'
  BY <1>1, <1>2, Constants DEF Clock
<1>5. Aged' /\ Distinct(cache)'
  BY <1>2 DEF ArpInv, Aged, Distinct
<1>6. LiveNeighbourStays'
  BY <1>1, <1>2 DEF ArpInv, LiveNeighbourStays, Cached
<1>7. Renewed'
  BY <1>1, <1>2 DEF ArpInv, Renewed
<1> QED
  BY <1>3, <1>4, <1>5, <1>6, <1>7 DEF ArpInv

\* The old entries go, none of them of a steady neighbour, and a request is
\* sent if it is time.
LEMMA UpdateArpCacheKeeps ==
    ASSUME ArpInv, UpdateArpCache
    PROVE  ArpInv'
<1>1. /\ pc = "loop" /\ pc' = "wait" /\ waited' = 0 /\ cache' = RemoveExpired(cache)
      /\ UNCHANGED <<alive, deaths>>
  BY DEF UpdateArpCache
<1>2. cache' \in Seq(Entries) /\ Distinct(cache)' /\ Filters(cache', cache, Len(cache))
  BY <1>1, RemoveExpiredFilters DEF ArpInv, Typed, Distinct
<1>3. DOMAIN cache = 1 .. Len(cache) /\ \A i \in DOMAIN cache : cache[i].age \in Nat
  BY CacheFacts DEF ArpInv
<1>4. /\ losses' \in 0 .. MaxLosses /\ frames' \subseteq Frames
      /\ steady' \subseteq steady
      /\ \/ sinceArp' = 0 /\ \A n \in steady' : \E f \in frames' : f.src = n
         \/ UNCHANGED <<sinceArp, frames>> /\ sinceArp <= UpdateFreq
  <2>1. CASE ArpDue
    <3>1. CompleteArp
      BY <2>1 DEF UpdateArpCache
    <3> QED
      BY <3>1, RequestFacts DEF ArpInv
  <2>2. CASE ~ ArpDue
    <3>1. UNCHANGED <<losses, frames, steady, sinceArp>>
      BY <2>2 DEF UpdateArpCache
    <3>2. sinceArp <= UpdateFreq
      BY <2>2, Constants DEF ArpDue, ArpInv, Typed
    <3> QED
      BY <3>1, <3>2 DEF ArpInv, Typed
  <2> QED
    BY <2>1, <2>2
<1>5. sinceArp' \in Nat /\ sinceArp' <= UpdateFreq
  BY <1>4, Constants DEF ArpInv, Typed
<1>6. Typed'
  BY <1>1, <1>2, <1>4, <1>5, Constants DEF ArpInv, Typed
<1>7. Clock'
  BY <1>1, <1>5, Constants DEF Clock
<1>8. Aged'
  <2> SUFFICES ASSUME NEW k \in DOMAIN cache'
               PROVE  cache'[k].age <= MaxAge /\ cache'[k].age <= 2 * UpdateFreq + waited'
    BY DEF Aged
  <2>1. PICK j \in DOMAIN cache : cache'[k] = cache[j] /\ ~ IsExpired(cache[j])
    BY <1>2, <1>3 DEF Filters
  <2>2. cache[j].age \in Nat /\ cache[j].age <= 2 * UpdateFreq
    BY <1>3, <2>1, Constants DEF IsExpired
  <2> DEFINE age == cache[j].age
  <2> HIDE DEF age
  <2>3. age \in Nat /\ age <= 2 * UpdateFreq
    BY <2>2 DEF age
  <2>4. age <= MaxAge /\ age <= 2 * UpdateFreq + 0
    BY <2>3, Constants
  <2> QED
    BY <1>1, <2>1, <2>4 DEF age
<1>9. LiveNeighbourStays'
  <2> SUFFICES ASSUME NEW n \in steady' PROVE \E k \in DOMAIN cache' : cache'[k].address = n
    BY DEF LiveNeighbourStays, Cached
  <2>1. PICK j \in DOMAIN cache : cache[j].address = n
    BY <1>4 DEF ArpInv, LiveNeighbourStays, Cached
  <2>2. cache[j].age <= UpdateFreq + PollTimeout
    BY <1>4, <2>1 DEF ArpInv, Renewed
  <2>3. ~ IsExpired(cache[j])
    <3> DEFINE age == cache[j].age
    <3>1. age \in Nat /\ age <= UpdateFreq + PollTimeout
      BY <1>3, <2>2
    <3> HIDE DEF age
    <3>2. ~ (age > 2 * UpdateFreq)
      BY <3>1, Constants
    <3> QED
      BY <3>2 DEF age, IsExpired
  <2> QED
    BY <1>2, <1>3, <2>1, <2>3 DEF Filters
<1>10. Renewed'
  <2> SUFFICES ASSUME NEW k \in DOMAIN cache', cache'[k].address \in steady'
               PROVE  /\ cache'[k].age <= UpdateFreq + PollTimeout
                      /\ \/ cache'[k].age <= sinceArp'
                         \/ \E f \in frames' : f.src = cache'[k].address
    BY DEF Renewed
  <2>1. PICK j \in DOMAIN cache : cache'[k] = cache[j]
    BY <1>2, <1>3 DEF Filters
  <2>2. /\ cache[j].age <= UpdateFreq + PollTimeout
        /\ cache[j].age <= sinceArp \/ \E f \in frames : f.src = cache[j].address
    BY <1>4, <2>1 DEF ArpInv, Renewed
  <2> QED
    BY <1>4, <2>1, <2>2
<1> QED
  BY <1>2, <1>6, <1>7, <1>8, <1>9, <1>10 DEF ArpInv

\* A frame renews the entry of its sender.
LEMMA HandleArpFrameKeeps ==
    ASSUME ArpInv, NEW f \in frames, HandleArpFrame(f)
    PROVE  ArpInv'
<1>1. /\ pc = "wait" /\ pc' \in {"wait", "loop"} /\ frames' = frames \ {f}
      /\ cache' = AppendToCache(f.src)
      /\ steady' = IF f.src \in alive THEN steady \cup {f.src} ELSE steady
      /\ UNCHANGED <<sinceArp, waited, alive, losses, deaths>>
  BY DEF HandleArpFrame
<1>2. f.src \in Neighbours
  BY DEF ArpInv, Typed, Frames
<1>3. /\ cache' \in Seq(Entries) /\ Distinct(cache)'
      /\ \E k \in DOMAIN cache' : cache'[k].address = f.src
      /\ \A k \in DOMAIN cache' :
            \/ cache'[k].address = f.src /\ cache'[k].age = 0
            \/ k \in DOMAIN cache /\ cache'[k] = cache[k] /\ cache[k].address # f.src
      /\ \A k \in DOMAIN cache : k \in DOMAIN cache' /\ cache'[k].address = cache[k].address
  BY <1>1, <1>2, AppendToCacheFacts DEF ArpInv, Typed, Distinct
<1>4. Typed'
  BY <1>1, <1>3 DEF ArpInv, Typed
<1>5. Clock'
  BY <1>1, Constants DEF ArpInv, Typed, Clock
<1>6. Aged'
  <2>1. 0 <= MaxAge /\ 0 <= 2 * UpdateFreq + waited
    BY Constants DEF ArpInv, Typed
  <2> QED
    BY <1>1, <1>3, <2>1 DEF ArpInv, Aged
<1>7. LiveNeighbourStays'
  BY <1>1, <1>3 DEF ArpInv, LiveNeighbourStays, Cached
<1>8. Renewed'
  <2> SUFFICES ASSUME NEW k \in DOMAIN cache', cache'[k].address \in steady'
               PROVE  /\ cache'[k].age <= UpdateFreq + PollTimeout
                      /\ \/ cache'[k].age <= sinceArp'
                         \/ \E g \in frames' : g.src = cache'[k].address
    BY DEF Renewed
  <2>1. CASE cache'[k].address = f.src /\ cache'[k].age = 0
    <3>1. 0 <= UpdateFreq + PollTimeout /\ 0 <= sinceArp'
      BY <1>1, Constants DEF ArpInv, Typed
    <3> QED
      BY <2>1, <3>1
  <2>2. CASE k \in DOMAIN cache /\ cache'[k] = cache[k] /\ cache[k].address # f.src
    <3>1. cache[k].address \in steady
      BY <1>1, <2>2
    <3>2. /\ cache[k].age <= UpdateFreq + PollTimeout
          /\ cache[k].age <= sinceArp \/ \E g \in frames : g.src = cache[k].address
      BY <2>2, <3>1 DEF ArpInv, Renewed
    <3>3. \A g \in frames : g.src = cache[k].address => g \in frames'
      BY <1>1, <2>2
    <3> QED
      BY <1>1, <2>2, <3>2, <3>3
  <2> QED
    BY <1>3, <2>1, <2>2
<1> QED
  BY <1>3, <1>4, <1>5, <1>6, <1>7, <1>8 DEF ArpInv

\* The wait ends with all as it is.
LEMMA EndWaitKeeps ==
    ASSUME ArpInv, EndWait
    PROVE  ArpInv'
  BY DEF ArpInv, Typed, Distinct, Clock, Aged, LiveNeighbourStays, Cached, Renewed, EndWait

\* A neighbour asks, stops or starts: fewer are steady, or more frames unread.
LEMMA NeighbourKeeps ==
    ASSUME ArpInv, NEW n \in Neighbours,
           NeighbourAsks(n) \/ NeighbourStops(n) \/ NeighbourStarts(n)
    PROVE  ArpInv'
<1>1. /\ UNCHANGED <<pc, cache, sinceArp, waited, losses>>
      /\ steady' \subseteq steady /\ frames \subseteq frames'
  BY DEF NeighbourAsks, NeighbourStops, NeighbourStarts
<1>2. frames' \subseteq Frames /\ alive' \subseteq Neighbours /\ steady' \subseteq alive'
  <2>1. CASE NeighbourAsks(n)
    BY <2>1 DEF NeighbourAsks, ArpInv, Typed, Frames
  <2>2. CASE NeighbourStops(n) \/ NeighbourStarts(n)
    BY <2>2 DEF NeighbourStops, NeighbourStarts, ArpInv, Typed
  <2> QED
    BY <2>1, <2>2
<1>3. deaths' \in 0 .. MaxDeaths
  BY Constants DEF NeighbourAsks, NeighbourStops, NeighbourStarts, ArpInv, Typed
<1>4. Typed'
  BY <1>1, <1>2, <1>3 DEF ArpInv, Typed
<1>5. Distinct(cache)' /\ Clock' /\ Aged' /\ LiveNeighbourStays'
  BY <1>1 DEF ArpInv, Distinct, Clock, Aged, LiveNeighbourStays, Cached
<1>6. Renewed'
  BY <1>1 DEF ArpInv, Renewed
<1> QED
  BY <1>4, <1>5, <1>6 DEF ArpInv

\* All entries grow older, and none of an answering neighbour has its answer
\* unread.
LEMMA TickKeeps ==
    ASSUME ArpInv, Tick
    PROVE  ArpInv'
<1>1. /\ pc = "wait" /\ frames = {} /\ waited < PollTimeout
      /\ waited' = waited + 1 /\ sinceArp' = sinceArp + 1
      /\ cache' = [i \in DOMAIN cache |-> [cache[i] EXCEPT !.age = @ + 1]]
      /\ UNCHANGED <<pc, frames, alive, steady, losses, deaths>>
  BY DEF Tick
<1>2. /\ DOMAIN cache = 1 .. Len(cache) /\ Len(cache) \in Nat
      /\ \A i \in DOMAIN cache : cache[i] \in Entries /\ cache[i].age \in Nat
  BY CacheFacts DEF ArpInv
<1>3. \A e \in Entries : /\ [e EXCEPT !.age = @ + 1] \in Entries
                         /\ [e EXCEPT !.age = @ + 1].address = e.address
                         /\ [e EXCEPT !.age = @ + 1].age = e.age + 1
  BY DEF Entries
<1>4. /\ DOMAIN cache' = DOMAIN cache
      /\ \A i \in DOMAIN cache : /\ cache'[i] \in Entries
                                 /\ cache'[i].address = cache[i].address
                                 /\ cache'[i].age = cache[i].age + 1
  BY <1>1, <1>2, <1>3
<1>5. cache' \in Seq(Entries)
  <2>1. cache' = [i \in 1 .. Len(cache) |-> cache'[i]]
    BY <1>1, <1>2, <1>4
  <2> QED
    BY <1>2, <1>4, <2>1
<1>6. waited \in Nat /\ waited' \in 0 .. PollTimeout /\ sinceArp \in Nat
  BY <1>1, Constants DEF ArpInv, Typed
<1>7. Typed'
  BY <1>1, <1>5, <1>6 DEF ArpInv, Typed
<1>8. Clock'
  <2>1. sinceArp <= UpdateFreq + waited
    BY <1>1 DEF ArpInv, Clock
  <2> QED
    BY <1>1, <1>6, <2>1, Constants DEF Clock
<1>9. ASSUME NEW i \in DOMAIN cache
      PROVE  cache'[i].age <= MaxAge /\ cache'[i].age <= 2 * UpdateFreq + waited'
  <2> DEFINE age == cache[i].age
  <2>1. age \in Nat /\ age <= 2 * UpdateFreq + waited /\ cache'[i].age = age + 1
    BY <1>1, <1>2, <1>4 DEF ArpInv, Aged
  <2> HIDE DEF age
  <2>2. age + 1 <= 2 * UpdateFreq + waited' /\ age + 1 <= MaxAge
    BY <1>1, <1>6, <2>1, Constants
  <2> QED
    BY <2>1, <2>2
<1>10. Aged'
  BY <1>4, <1>9 DEF Aged
<1>11. Distinct(cache)' /\ LiveNeighbourStays'
  <2>1. DOMAIN cache' = DOMAIN cache /\ \A i \in DOMAIN cache : cache'[i].address = cache[i].address
    BY <1>4
  <2>2. Distinct(cache)'
    BY <2>1 DEF ArpInv, Distinct
  <2>3. Cached' = Cached
    BY <2>1 DEF Cached
  <2> QED
    BY <1>1, <2>2, <2>3 DEF ArpInv, LiveNeighbourStays
<1>12. Renewed'
  <2> SUFFICES ASSUME NEW i \in DOMAIN cache, cache[i].address \in steady
               PROVE  /\ cache'[i].age <= UpdateFreq + PollTimeout
                      /\ cache'[i].age <= sinceArp'
    BY <1>1, <1>4 DEF Renewed
  <2> DEFINE age == cache[i].age
  <2>1. age \in Nat /\ age <= sinceArp /\ cache'[i].age = age + 1
    BY <1>1, <1>2, <1>4 DEF ArpInv, Renewed
  <2> HIDE DEF age
  <2>2. age + 1 <= sinceArp' /\ sinceArp' <= UpdateFreq + PollTimeout /\ sinceArp' \in Nat
    BY <1>1, <1>6, <1>8, <2>1 DEF Clock
  <2> QED
    BY <2>1, <2>2, Constants
<1> QED
  BY <1>7, <1>8, <1>10, <1>11, <1>12 DEF ArpInv

\* The invariant, for all values of the constants.
THEOREM ArpInvariant == Spec => []ArpInv
<1>1. Init => ArpInv
  <2> SUFFICES ASSUME Init PROVE ArpInv
    OBVIOUS
  <2>1. DOMAIN cache = {}
    BY DEF Init
  <2>2. Typed
    BY Constants DEF Init, Typed
  <2>3. Clock
    BY Constants DEF Init, Clock
  <2> QED
    BY <2>1, <2>2, <2>3 DEF Init, ArpInv, Distinct, Aged, LiveNeighbourStays, Renewed
<1>2. ArpInv /\ [Next]_vars => ArpInv'
  <2> SUFFICES ASSUME ArpInv, [Next]_vars PROVE ArpInv'
    OBVIOUS
  <2>1. CASE Start
    BY <2>1, StartKeeps
  <2>2. CASE UpdateArpCache
    BY <2>2, UpdateArpCacheKeeps
  <2>3. ASSUME NEW f \in frames, HandleArpFrame(f) PROVE ArpInv'
    BY <2>3, HandleArpFrameKeeps
  <2>4. CASE EndWait
    BY <2>4, EndWaitKeeps
  <2>5. ASSUME NEW n \in Neighbours, NeighbourAsks(n) \/ NeighbourStops(n) \/ NeighbourStarts(n)
        PROVE  ArpInv'
    BY <2>5, NeighbourKeeps
  <2>6. CASE Tick
    BY <2>6, TickKeeps
  <2>7. CASE UNCHANGED vars
    BY <2>7 DEF vars, ArpInv, Typed, Distinct, Clock, Aged, LiveNeighbourStays, Cached, Renewed
  <2> QED
    BY <2>1, <2>2, <2>3, <2>4, <2>5, <2>6, <2>7 DEF Next
<1> QED
  BY <1>1, <1>2, PTL DEF Spec

\* The variables keep their types, and the ages and times the bounds that the
\* periods of the loop give them.
THEOREM TypeCorrect == Spec => []TypeOK
<1>1. ArpInv => TypeOK
  <2> SUFFICES ASSUME ArpInv PROVE TypeOK
    OBVIOUS
  <2> DEFINE bound == MaxAge + PollTimeout + UpdateFreq
             Bounded == [address : Neighbours, socket : Sockets, age : 0 .. bound]
  <2>1. \A e \in Entries : e.age <= MaxAge => e \in Bounded
    <3>1. bound \in Nat /\ MaxAge <= bound
      BY Constants
    <3> HIDE DEF bound
    <3> QED
      BY <3>1, Constants DEF Entries
  <2>2. \A i \in DOMAIN cache : cache[i] \in Bounded
    BY <2>1, CacheFacts DEF ArpInv, Aged
  <2>3. cache \in Seq(Bounded)
    <3> HIDE DEF Bounded
    <3>1. cache = [i \in 1 .. Len(cache) |-> cache[i]] /\ DOMAIN cache = 1 .. Len(cache)
          /\ Len(cache) \in Nat
      BY CacheFacts DEF ArpInv, Typed
    <3> QED
      BY <2>2, <3>1
  <2>4. sinceArp \in 0 .. UpdateFreq + PollTimeout
    BY Constants DEF ArpInv, Typed, Clock
  <2> QED
    BY <2>3, <2>4 DEF ArpInv, Typed, TypeOK, Sockets
<1> QED
  BY <1>1, ArpInvariant, PTL

\* No address ever has two entries.
THEOREM OneEntryPerAddressHolds == Spec => []OneEntryPerAddress
<1>1. ArpInv => OneEntryPerAddress
  BY DEF ArpInv, Distinct, OneEntryPerAddress
<1> QED
  BY <1>1, ArpInvariant, PTL

\* A neighbour that runs and answers stays in the cache, and no entry is older
\* than twice the frequency and one wait: for any frequency, and any timeout
\* that is not longer.
THEOREM CacheFollowsHolds == Spec => []CacheFollows
<1>1. ArpInv => CacheFollows
  BY DEF ArpInv, Aged, CacheFollows, NothingOld
<1> QED
  BY <1>1, ArpInvariant, PTL
=============================================================================
