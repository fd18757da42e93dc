------------------------- MODULE LocalSocketsProofs -------------------------
(***************************************************************************)
(* The local sockets of mipd for any number of clients, any sizes of       *)
(* messages and any number of events: the slots stay true, a round stays   *)
(* as epoll reported it, and which applications have messages spoilt.      *)
(***************************************************************************)
EXTENDS LocalSockets, FiniteSetTheorems, SequenceTheorems, WellFoundedInduction, TLAPS

(***************************************************************************)
(* SlotsCurrent needs that a connection which waits is of the service it   *)
(* waits for and has no number, and that numbers are not shared.           *)
(***************************************************************************)
Waiting ==
    \A s \in Services : \A i \in DOMAIN backlog[s] :
        /\ Service[backlog[s][i]] = s
        /\ number[backlog[s][i]] = None
        /\ \A k \in DOMAIN backlog[s] : backlog[s][k] = backlog[s][i] => k = i

NumbersDistinct ==
    \A c, x \in Clients : number[c] # None /\ number[x] = number[c] => x = c

Known(c) ==
    \/ number[c] # None
    \/ \E i \in DOMAIN backlog[Service[c]] : backlog[Service[c]][i] = c

Slots == Waiting /\ NumbersDistinct /\ SlotsCurrent

(***************************************************************************)
(* A client that mipd has a descriptor of holds the slot of its service,   *)
(* unless it lost it to a later connection.                                *)
(***************************************************************************)
Placed ==
    \A c \in Clients :
        number[c] # None => number[c] = slot[Service[c]] \/ c \in displaced

(***************************************************************************)
(* What is unread of an application that has not been hasty is one         *)
(* message, and of one that has not been crowded begins with one and fits  *)
(* one recv.                                                               *)
(***************************************************************************)
OneMessage(c) ==
    unread[c] = <<>> \/ \E size \in MinSize .. RecvMax : size # 0 /\ unread[c] = Bytes(size)

NotCrowded(c) ==
    Len(unread[c]) <= RecvMax /\ (unread[c] = <<>> \/ Whole(unread[c]))

StreamOf(c) ==
    /\ unread[c] # <<>> \/ c \in open => Known(c)
    /\ c \notin hasty => c \notin spoilt
    /\ c \notin crowded => c \notin garbled
    /\ Service[c] = "app" /\ c \notin hasty => OneMessage(c)
    /\ Service[c] = "app" /\ c \notin crowded => NotCrowded(c)

Streams == \A c \in Clients : StreamOf(c)

-----------------------------------------------------------------------------
(* Lemmas                                                                   *)

LEMMA ConstantFacts ==
    /\ Cardinality(Clients) \in Nat
    /\ \A s \in Services : Listening[s] \in 1 .. 3
    /\ \A s, t \in Services : Listening[s] = Listening[t] => s = t
    /\ Numbers \subseteq Nat
    /\ \A n \in Numbers : n >= 5 /\ n \in 0 .. 4 + Cardinality(Clients)
    /\ None \notin Numbers /\ None \notin 0 .. 4 + Cardinality(Clients)
<1>1. Cardinality(Clients) \in Nat
  BY FS_CardinalityType, LocalSocketsAssumption
<1> QED
  BY <1>1 DEF Services, Listening, Numbers, None

\* The smaller of two numbers.
LEMMA MinOfTwo ==
    ASSUME NEW a \in Nat, NEW b \in Nat
    PROVE  Min({a, b}) = IF a <= b THEN a ELSE b
<1> DEFINE m == IF a <= b THEN a ELSE b
<1>1. m \in {a, b} /\ \A y \in {a, b} : m <= y
  OBVIOUS
<1>2. \A x \in {a, b} : (\A y \in {a, b} : x <= y) => x = m
  OBVIOUS
<1> QED
  BY <1>1, <1>2 DEF Min

\* There is a least element of a set of numbers that is not empty.
LEMMA MinOfNumbers ==
    ASSUME NEW T, T \subseteq Nat, T # {}
    PROVE  Min(T) \in T
<1> DEFINE Below == [x \in T |-> {y \in T : y <= x}]
           U == {Below[x] : x \in T}
<1>1. ASSUME NEW x \in T PROVE Below[x] \in FiniteSubsetsOf(Nat)
  <2>1. x \in Nat /\ Below[x] \in SUBSET Nat /\ \A y \in Below[x] : y <= x
    OBVIOUS
  <2> HIDE DEF Below
  <2>2. IsFiniteSet(Below[x])
    BY <2>1, FS_BoundedSetOfNaturals
  <2> QED
    BY <2>1, <2>2 DEF FiniteSubsetsOf
<1>2. ASSUME NEW x \in T, NEW y \in T, y < x
      PROVE  Below[y] \subseteq Below[x] /\ x \in Below[x] /\ x \notin Below[y]
  <2>1. x <= x /\ ~ (x <= y) /\ \A z \in T : z <= y => z <= x
    BY <1>2
  <2>2. Below[x] = {z \in T : z <= x} /\ Below[y] = {z \in T : z <= y}
    OBVIOUS
  <2> HIDE DEF Below
  <2> QED
    BY <2>1, <2>2, Zenon
<1> HIDE DEF Below
<1>3. U \subseteq FiniteSubsetsOf(Nat) /\ U # {}
  BY <1>1
<1>4. \E u \in U : \A v \in U : ~ (<<v, u>> \in StrictSubsetOrdering(Nat))
  BY <1>3, WFMin, FS_StrictSubsetOrderingWellFounded
<1>5. PICK x \in T : \A y \in T : ~ (<<Below[y], Below[x]>> \in StrictSubsetOrdering(Nat))
  BY <1>4
<1>6. ASSUME NEW y \in T, y < x PROVE FALSE
  BY <1>1, <1>2, <1>5, <1>6 DEF StrictSubsetOrdering, FiniteSubsetsOf
<1>7. \A y \in T : x <= y
  BY <1>6
<1> QED
  BY <1>7 DEF Min

\* There is always a number for a client that has none.
LEMMA NumberLeft ==
    ASSUME number \in [Clients -> Numbers \cup {None}],
           NEW c \in Clients, number[c] = None
    PROVE  NewNumber \in Numbers /\ \A x \in Clients : number[x] # NewNumber
<1> DEFINE Free == Numbers \ {number[x] : x \in Clients}
<1>1. Free # {}
  <2> SUFFICES ASSUME Free = {} PROVE FALSE
    OBVIOUS
  <2>1. \A n \in Numbers : \E x \in Clients \ {c} : number[x] = n
    BY ConstantFacts
  <2> DEFINE f == [n \in Numbers |-> CHOOSE x \in Clients \ {c} : number[x] = n]
  <2>2. f \in [Numbers -> Clients \ {c}] /\ \A n \in Numbers : number[f[n]] = n
    BY <2>1
  <2> HIDE DEF f
  <2>3. /\ IsFiniteSet(Clients \ {c})
        /\ Cardinality(Clients \ {c}) = Cardinality(Clients) - 1
    BY FS_RemoveElement, LocalSocketsAssumption
  <2>4. IsFiniteSet(Numbers) /\ Cardinality(Numbers) = Cardinality(Clients)
    <3> DEFINE low  == 5
               high == 4 + Cardinality(Clients)
    <3>1. low \in Int /\ high \in Int
      BY ConstantFacts
    <3>2. (IF low > high THEN 0 ELSE high - low + 1) = Cardinality(Clients)
      BY ConstantFacts
    <3>3. Numbers = low .. high
      BY DEF Numbers
    <3> HIDE DEF low, high
    <3>4. /\ IsFiniteSet(low .. high)
          /\ Cardinality(low .. high) = IF low > high THEN 0 ELSE high - low + 1
      BY <3>1, FS_Interval
    <3> QED
      BY <3>2, <3>3, <3>4
  <2>5. Cardinality(Clients \ {c}) < Cardinality(Numbers)
    BY <2>3, <2>4, ConstantFacts
  <2>6. PICK n, m \in Numbers : n # m /\ f[n] = f[m]
    BY <2>2, <2>3, <2>4, <2>5, FS_PigeonHole
  <2> QED
    BY <2>2, <2>6
<1>2. Min(Free) \in Free
  BY <1>1, MinOfNumbers, ConstantFacts
<1> QED
  BY <1>2 DEF NewNumber
-----------------------------------------------------------------------------
(* Types                                                                    *)

LEMMA WriteToType ==
    ASSUME TypeOK, NEW s \in Services, WriteTo(s)
    PROVE  result' \in {result, "killed"} /\ answered' \subseteq Daemons
  BY DEF WriteTo, TypeOK

\* One recv takes something, and no more than there is.
LEMMA ReceivedFacts ==
    ASSUME TypeOK, NEW c \in Clients, unread[c] # <<>>
    PROVE  /\ Received(c) \in Seq(Nat)
           /\ Len(Received(c)) = (IF RecvMax <= Len(unread[c]) THEN RecvMax ELSE Len(unread[c]))
           /\ Len(Received(c)) \in 1 .. Len(unread[c])
           /\ \A i \in 1 .. Len(Received(c)) : Received(c)[i] = unread[c][i]
<1>1. /\ unread[c] \in Seq(Nat) /\ Len(unread[c]) \in Nat /\ Len(unread[c]) # 0
      /\ RecvMax \in Nat /\ RecvMax # 0
  BY LocalSocketsAssumption, EmptySeq, LenProperties DEF TypeOK
<1> DEFINE n == Min({RecvMax, Len(unread[c])})
<1>2. n = IF RecvMax <= Len(unread[c]) THEN RecvMax ELSE Len(unread[c])
  BY <1>1, MinOfTwo
<1>3. n \in 1 .. Len(unread[c])
  BY <1>1, <1>2
<1>4. Received(c) = SubSeq(unread[c], 1, n)
  BY DEF Received
<1> HIDE DEF n
<1>5. /\ 1 \in 1 .. Len(unread[c]) + 1 /\ n \in 0 .. Len(unread[c])
      /\ n = (IF 1 <= n THEN n - 1 + 1 ELSE 0)
  BY <1>1, <1>3
<1>6. /\ SubSeq(unread[c], 1, n) \in Seq(Nat)
      /\ Len(SubSeq(unread[c], 1, n)) = n
      /\ \A i \in 1 .. n : SubSeq(unread[c], 1, n)[i] = unread[c][1 + i - 1]
  BY <1>1, <1>3, <1>5, SubSeqProperties
<1>7. \A i \in 1 .. n : SubSeq(unread[c], 1, n)[i] = unread[c][i]
  BY <1>3, <1>6
<1> QED
  BY <1>2, <1>3, <1>4, <1>6, <1>7

\* And leaves the rest.
LEMMA RestFacts ==
    ASSUME TypeOK, NEW c \in Clients, unread[c] # <<>>
    PROVE  LET rest == SubSeq(unread[c], Len(Received(c)) + 1, Len(unread[c]))
           IN  rest \in Seq(Nat) /\ (Len(unread[c]) <= RecvMax => rest = <<>>)
<1> DEFINE u == unread[c]
           k == Len(Received(c)) + 1
<1>1. u \in Seq(Nat) /\ Len(u) \in Nat /\ RecvMax \in Nat
  BY LocalSocketsAssumption, LenProperties DEF TypeOK
<1>2. k \in 1 .. Len(u) + 1
  BY <1>1, ReceivedFacts
<1>3. Len(u) <= RecvMax => k = Len(u) + 1
  BY <1>1, ReceivedFacts
<1> HIDE DEF u, k
<1>4. k \in 1 .. Len(u) + 1 /\ Len(u) \in 0 .. Len(u) /\ Len(u) \in k - 1 .. Len(u)
  BY <1>1, <1>2
<1>5. SubSeq(u, k, Len(u)) \in Seq(Nat)
  BY <1>1, <1>4, SubSeqProperties
<1>6. k = Len(u) + 1 => SubSeq(u, k, Len(u)) = <<>>
  BY <1>1, SubSeqProperties
<1> QED
  BY <1>3, <1>5, <1>6 DEF u, k

\* A step of the daemon serves an event; the others are the clients' steps,
\* the wait and the end of the loop.
Steps ==
    \/ \E input \in SUBSET {Stdin, RawSocket} : EpollWait(input)
    \/ Leave
    \/ \E d \in events :
          \/ ServeNothing(d) \/ ReadStdin(d) \/ HandleFrame(d)
          \/ \E s \in Services : Accept(d, s) \/ AcceptFails(d, s)
          \/ \E c \in Clients : \E s \in {"route", "forward"} : ReadRoutes(d, s, c) \/ RoutesEnd(d, s, c)
          \/ \E c \in Clients : ReadMessage(d, c) \/ AppEnd(d, c)
    \/ \E c \in Clients : Connect(c) \/ ReadAnswer(c) \/ Close(c)
    \/ \E c \in Clients : \E size \in Sizes[c] : Write(c, size)
    \/ UNCHANGED vars

LEMMA NextSteps == [Next]_vars => Steps
  BY DEF Next, ServeEvent, Steps

\* What is accepted was waiting, and gets a number of its own.
LEMMA AcceptFacts ==
    ASSUME TypeOK, Waiting, EventsCurrent,
           NEW d \in events, NEW s \in Services, Accept(d, s)
    PROVE  /\ backlog[s] # <<>>
           /\ Head(backlog[s]) \in Clients
           /\ Head(backlog[s]) = backlog[s][1] /\ 1 \in DOMAIN backlog[s]
           /\ NewNumber \in Numbers
           /\ \A x \in Clients : number[x] # NewNumber
<1>1. d \in Ready \cup {Stdin, RawSocket} /\ d = Listening[s]
  BY DEF Accept, Serve, EventsCurrent
<1>2. d \notin {Stdin, RawSocket} /\ \A c \in Clients : d # number[c]
  <2>1. d \in 1 .. 3
    BY <1>1, ConstantFacts
  <2>2. d \notin Numbers \cup {None}
    BY <2>1, ConstantFacts DEF None
  <2> QED
    BY <2>1, <2>2 DEF Stdin, RawSocket, TypeOK
<1>3. \E t \in Services : d = Listening[t] /\ backlog[t] # <<>>
  BY <1>1, <1>2 DEF Ready
<1>4. backlog[s] # <<>>
  BY <1>1, <1>3, ConstantFacts
<1>5. backlog[s] \in Seq(Clients)
  BY DEF TypeOK
<1>6. /\ Head(backlog[s]) \in Clients /\ Head(backlog[s]) = backlog[s][1]
      /\ 1 \in DOMAIN backlog[s]
  BY <1>4, <1>5
<1>7. number[Head(backlog[s])] = None
  BY <1>6 DEF Waiting
<1> QED
  BY <1>4, <1>6, <1>7, NumberLeft DEF TypeOK

LEMMA TypeStep ==
    ASSUME TypeOK, Waiting, EventsCurrent, [Next]_vars
    PROVE  TypeOK'
<1>1. ASSUME NEW input \in SUBSET {Stdin, RawSocket}, EpollWait(input)
      PROVE  TypeOK'
  <2>1. events' \subseteq 0 .. 4 + Cardinality(Clients)
    BY <1>1, ConstantFacts DEF EpollWait, Ready, Stdin, RawSocket
  <2> QED
    BY <1>1, <2>1 DEF EpollWait, TypeOK, ends, streams, history
<1>2. CASE Leave
  BY <1>2 DEF Leave, TypeOK, ends, streams, history
<1>3. ASSUME NEW d \in events, ServeNothing(d) \/ ReadStdin(d) PROVE TypeOK'
  BY <1>3 DEF ServeNothing, ReadStdin, Serve, TypeOK, ends, streams, history
<1>4. ASSUME NEW d \in events, HandleFrame(d) PROVE TypeOK'
  <2>1. result' \in {"none", "failed", "killed"} /\ answered' \subseteq Daemons
    BY <1>4, WriteToType DEF HandleFrame, Serve, TypeOK
  <2> QED
    BY <1>4, <2>1 DEF HandleFrame, Serve, TypeOK, ends, history
<1>5. ASSUME NEW d \in events, NEW s \in Services, Accept(d, s) PROVE TypeOK'
  <2> DEFINE c == Head(backlog[s])
             n == NewNumber
  <2>1. c \in Clients /\ n \in Numbers
    BY <1>5, AcceptFacts
  <2>2. Tail(backlog[s]) \in Seq(Clients)
    BY <1>5, AcceptFacts DEF TypeOK
  <2>3. number' = [number EXCEPT ![c] = n] /\ slot' = [slot EXCEPT ![s] = n]
    BY <1>5 DEF Accept
  <2> HIDE DEF c, n
  <2>4. /\ number' \in [Clients -> Numbers \cup {None}]
        /\ slot' \in [Services -> Numbers \cup {None}]
    BY <2>1, <2>3 DEF TypeOK
  <2> QED
    BY <1>5, <2>2, <2>4 DEF Accept, Holders, Serve, TypeOK, streams
<1>14. ASSUME NEW d \in events, NEW s \in Services, AcceptFails(d, s) PROVE TypeOK'
  BY <1>14 DEF AcceptFails, Serve, TypeOK, ends, streams, history
<1>6. ASSUME NEW d \in events, NEW c \in Clients, NEW s \in {"route", "forward"},
             ReadRoutes(d, s, c)
      PROVE  TypeOK'
  <2>1. unread' \in [Clients -> Seq(Nat)]
    BY <1>6 DEF ReadRoutes, TypeOK
  <2>2. result' \in {"none", "failed", "killed"}
    BY <1>6 DEF ReadRoutes
  <2> QED
    BY <1>6, <2>1, <2>2 DEF ReadRoutes, Serve, TypeOK, ends, history
<1>7. ASSUME NEW d \in events, NEW c \in Clients, NEW s \in {"route", "forward"},
             RoutesEnd(d, s, c)
      PROVE  TypeOK'
  BY <1>7 DEF RoutesEnd, Disconnect, Serve, TypeOK, Services, streams, history
<1>8. ASSUME NEW d \in events, NEW c \in Clients, ReadMessage(d, c) PROVE TypeOK'
  <2> DEFINE rest == SubSeq(unread[c], Len(Received(c)) + 1, Len(unread[c]))
  <2>1. rest \in Seq(Nat)
    BY <1>8, RestFacts DEF ReadMessage
  <2>2. unread' = [unread EXCEPT ![c] = rest]
    BY <1>8 DEF ReadMessage
  <2> HIDE DEF rest
  <2>3. unread' \in [Clients -> Seq(Nat)]
    BY <2>1, <2>2 DEF TypeOK
  <2>4. result' \in {"none", "failed", "killed"} /\ answered' \subseteq Daemons
    BY <1>8, WriteToType DEF ReadMessage, Serve, Services, TypeOK
  <2>5. spoilt' \subseteq Clients /\ garbled' \subseteq Clients
    BY <1>8 DEF ReadMessage, TypeOK
  <2> QED
    BY <1>8, <2>3, <2>4, <2>5 DEF ReadMessage, Serve, TypeOK, ends
<1>9. ASSUME NEW d \in events, NEW c \in Clients, AppEnd(d, c) PROVE TypeOK'
  BY <1>9 DEF AppEnd, Disconnect, Serve, TypeOK, Services, streams, history
<1>10. ASSUME NEW c \in Clients, Connect(c) PROVE TypeOK'
  <2>1. Service[c] \in Services
    BY LocalSocketsAssumption
  <2>2. backlog' \in [Services -> Seq(Clients)]
    BY <1>10, <2>1 DEF Connect, TypeOK
  <2> QED
    BY <1>10, <2>2 DEF Connect, TypeOK, loop
<1>11. ASSUME NEW c \in Clients, ReadAnswer(c) \/ Close(c) PROVE TypeOK'
  BY <1>11 DEF ReadAnswer, Close, TypeOK, loop, ends, history
<1>12. ASSUME NEW c \in Clients, NEW size \in Sizes[c], Write(c, size) PROVE TypeOK'
  <2>1. Bytes(size) \in Seq(Nat)
    BY LocalSocketsAssumption DEF Bytes
  <2>2. unread' \in [Clients -> Seq(Nat)]
    BY <1>12, <2>1 DEF Write, TypeOK
  <2> QED
    BY <1>12, <2>2 DEF Write, TypeOK, loop, ends
<1>13. CASE UNCHANGED vars
  BY <1>13 DEF TypeOK, vars, loop, ends, streams, history
<1> QED
  BY <1>1, <1>2, <1>3, <1>4, <1>5, <1>6, <1>7, <1>8, <1>9, <1>10, <1>11, <1>12, <1>13,
     <1>14, NextSteps DEF Steps

-----------------------------------------------------------------------------
(* The slots                                                                *)

\* A connection that is closed: the slot of its branch is emptied, and no
\* other slot held its number.
LEMMA DisconnectKeepsSlots ==
    ASSUME TypeOK, Slots, NEW c \in Clients, NEW s \in Services,
           number[c] # None, slot[s] = number[c], Disconnect(c, s), UNCHANGED backlog
    PROVE  Slots'
<1>1. /\ \A x \in Clients : number'[x] = IF x = c THEN None ELSE number[x]
      /\ \A t \in Services : slot'[t] = IF t = s THEN None ELSE slot[t]
  BY DEF Disconnect, TypeOK
<1>2. Waiting'
  BY <1>1 DEF Slots, Waiting, TypeOK
<1>3. NumbersDistinct'
  BY <1>1 DEF Slots, NumbersDistinct
<1>4. Service[c] = s
  BY DEF Slots, SlotsCurrent, NumbersDistinct
<1>5. SlotsCurrent'
  <2> SUFFICES ASSUME NEW t \in Services, slot'[t] # None
               PROVE  \E x \in Clients : number'[x] = slot'[t] /\ Service[x] = t
    BY DEF SlotsCurrent
  <2>1. t # s /\ slot'[t] = slot[t]
    BY <1>1
  <2>2. PICK x \in Clients : number[x] = slot[t] /\ Service[x] = t
    BY <2>1 DEF Slots, SlotsCurrent
  <2>3. x # c
    BY <1>4, <2>1, <2>2
  <2> QED
    BY <1>1, <2>1, <2>2, <2>3
<1> QED
  BY <1>2, <1>3, <1>5 DEF Slots

LEMMA SlotsStep ==
    ASSUME TypeOK, Slots, EventsCurrent, [Next]_vars
    PROVE  Slots'
<1>1. CASE UNCHANGED ends
  BY <1>1 DEF ends, Slots, Waiting, NumbersDistinct, SlotsCurrent
<1>2. ASSUME NEW d \in events, NEW s \in Services, Accept(d, s) PROVE Slots'
  <2> DEFINE c == backlog[s][1]
             n == NewNumber
  <2>1. /\ backlog[s] \in Seq(Clients) /\ backlog[s] # <<>>
        /\ Head(backlog[s]) = c /\ c \in Clients /\ 1 \in DOMAIN backlog[s]
        /\ n \in Numbers /\ n # None /\ \A x \in Clients : number[x] # n
    BY <1>2, AcceptFacts, ConstantFacts DEF Slots, TypeOK
  <2>2. Service[c] = s /\ number[c] = None
    BY <2>1 DEF Slots, Waiting
  <2>3. /\ \A x \in Clients : number'[x] = IF x = c THEN n ELSE number[x]
        /\ \A t \in Services : slot'[t] = IF t = s THEN n ELSE slot[t]
        /\ \A t \in Services : backlog'[t] = IF t = s THEN Tail(backlog[s]) ELSE backlog[t]
    BY <1>2, <2>1 DEF Accept, TypeOK
  <2>4. \A i \in DOMAIN Tail(backlog[s]) :
            i + 1 \in DOMAIN backlog[s] /\ Tail(backlog[s])[i] = backlog[s][i + 1] /\ i + 1 # 1
    BY <2>1
  <2> HIDE DEF c, n
  <2>5. \A t \in Services : \A i \in DOMAIN backlog[t] :
            backlog[t][i] \in Clients
    BY DEF TypeOK
  <2>6. Waiting'
    <3> SUFFICES ASSUME NEW t \in Services, NEW i \in DOMAIN backlog'[t]
                 PROVE  /\ Service[backlog'[t][i]] = t
                        /\ number'[backlog'[t][i]] = None
                        /\ \A k \in DOMAIN backlog'[t] : backlog'[t][k] = backlog'[t][i] => k = i
      BY DEF Waiting
    <3>1. CASE t # s
      <4>1. backlog'[t] = backlog[t]
        BY <2>3, <3>1
      <4>2. Service[backlog[t][i]] = t /\ number[backlog[t][i]] = None
        BY <4>1 DEF Slots, Waiting
      <4>3. backlog[t][i] # c
        BY <2>2, <3>1, <4>2
      <4> QED
        BY <2>3, <2>5, <4>1, <4>2, <4>3 DEF Slots, Waiting
    <3>2. CASE t = s
      <4>1. backlog'[t] = Tail(backlog[s])
        BY <2>3, <3>2
      <4>2. i \in Nat /\ \A k \in DOMAIN Tail(backlog[s]) : k \in Nat
        BY <2>1, <4>1
      <4>3. i + 1 \in DOMAIN backlog[s] /\ backlog'[t][i] = backlog[s][i + 1] /\ i + 1 # 1
        BY <2>4, <4>1
      <4>4. /\ Service[backlog[s][i + 1]] = s /\ number[backlog[s][i + 1]] = None
            /\ backlog[s][i + 1] # backlog[s][1]
        BY <2>1, <4>3 DEF Slots, Waiting
      <4>5. number'[backlog[s][i + 1]] = None
        BY <2>3, <2>5, <4>3, <4>4 DEF c
      <4>6. \A k \in DOMAIN Tail(backlog[s]) :
                Tail(backlog[s])[k] = backlog[s][i + 1] => k + 1 = i + 1
        BY <2>4, <4>3 DEF Slots, Waiting
      <4>7. \A k \in DOMAIN Tail(backlog[s]) : k + 1 = i + 1 => k = i
        BY <4>2
      <4> QED
        BY <3>2, <4>1, <4>3, <4>4, <4>5, <4>6, <4>7
    <3> QED
      BY <3>1, <3>2
  <2>7. NumbersDistinct'
    BY <2>1, <2>3 DEF Slots, NumbersDistinct
  <2>8. SlotsCurrent'
    <3> SUFFICES ASSUME NEW t \in Services, slot'[t] # None
                 PROVE  \E x \in Clients : number'[x] = slot'[t] /\ Service[x] = t
      BY DEF SlotsCurrent
    <3>1. CASE t = s
      BY <2>1, <2>2, <2>3, <3>1
    <3>2. CASE t # s
      <4>1. PICK x \in Clients : number[x] = slot[t] /\ Service[x] = t
        BY <2>3, <3>2 DEF Slots, SlotsCurrent
      <4> QED
        BY <2>2, <2>3, <3>2, <4>1
    <3> QED
      BY <3>1, <3>2
  <2> QED
    BY <2>6, <2>7, <2>8 DEF Slots
<1>3. ASSUME NEW d \in events, NEW c \in Clients, NEW s \in {"route", "forward"},
             RoutesEnd(d, s, c)
      PROVE  Slots'
  <2>1. CASE UNCHANGED <<number, slot>>
    BY <1>1, <1>3, <2>1 DEF RoutesEnd, ends
  <2>2. CASE Disconnect(c, s)
    <3>1. d \in 0 .. 4 + Cardinality(Clients) /\ number[c] = d /\ slot[s] = d
      BY <1>3 DEF RoutesEnd, Serve, Branch, TypeOK
    <3> QED
      BY <1>3, <2>2, <3>1, ConstantFacts, DisconnectKeepsSlots DEF RoutesEnd, Services
  <2> QED
    BY <1>3, <2>1, <2>2 DEF RoutesEnd
<1>4. ASSUME NEW d \in events, NEW c \in Clients, AppEnd(d, c) PROVE Slots'
  <2>1. d \in 0 .. 4 + Cardinality(Clients) /\ number[c] = d /\ slot["app"] = d
    BY <1>4 DEF AppEnd, Serve, Branch, TypeOK
  <2> QED
    BY <1>4, <2>1, ConstantFacts, DisconnectKeepsSlots DEF AppEnd, Services
<1>5. ASSUME NEW c \in Clients, Connect(c) PROVE Slots'
  <2> DEFINE s == Service[c]
  <2>1. s \in Services /\ backlog[s] \in Seq(Clients) /\ number[c] = None
    BY <1>5, LocalSocketsAssumption DEF Connect, TypeOK
  <2>2. \A t \in Services : backlog'[t] = IF t = s THEN Append(backlog[s], c) ELSE backlog[t]
    BY <1>5, <2>1 DEF Connect, TypeOK
  <2>3. UNCHANGED <<number, slot>> /\ \A i \in DOMAIN backlog[s] : backlog[s][i] # c
    BY <1>5 DEF Connect
  <2>4. \A i \in DOMAIN Append(backlog[s], c) :
            \/ i \in DOMAIN backlog[s] /\ Append(backlog[s], c)[i] = backlog[s][i]
            \/ i = Len(backlog[s]) + 1 /\ Append(backlog[s], c)[i] = c
    BY <2>1
  <2>5. s = Service[c]
    OBVIOUS
  <2> HIDE DEF s
  <2>6. Waiting'
    <3> SUFFICES ASSUME NEW t \in Services, NEW i \in DOMAIN backlog'[t]
                 PROVE  /\ Service[backlog'[t][i]] = t
                        /\ number[backlog'[t][i]] = None
                        /\ \A k \in DOMAIN backlog'[t] : backlog'[t][k] = backlog'[t][i] => k = i
      BY <2>3 DEF Waiting
    <3>1. CASE t # s
      BY <2>2, <3>1 DEF Slots, Waiting
    <3>2. CASE t = s
      <4>1. backlog'[t] = Append(backlog[s], c)
        BY <2>2, <3>2
      <4>2. \A k \in DOMAIN backlog[s] :
                Service[backlog[s][k]] = s /\ number[backlog[s][k]] = None
        BY <2>1 DEF Slots, Waiting
      <4>3. \A k, j \in DOMAIN backlog[s] : backlog[s][k] = backlog[s][j] => k = j
        BY <2>1 DEF Slots, Waiting
      <4> QED
        BY <2>1, <2>3, <2>4, <2>5, <3>2, <4>1, <4>2, <4>3
    <3> QED
      BY <3>1, <3>2
  <2> QED
    BY <2>3, <2>6 DEF Slots, NumbersDistinct, SlotsCurrent
<1>6. Steps
  BY NextSteps
<1> QED
  BY <1>1, <1>2, <1>3, <1>4, <1>5, <1>6
  DEF Steps, EpollWait, Leave, ServeNothing, ReadStdin, HandleFrame, AcceptFails, ReadRoutes,
      ReadMessage, ReadAnswer, Close, Write, vars, ends

\* An application that mipd reads from is that of the slot.
LEMMA BranchOf ==
    ASSUME TypeOK, Slots, NEW d \in events, NEW s \in Services, NEW c \in Clients,
           Branch(d) = s, number[c] = d
    PROVE  Service[c] = s /\ number[c] # None /\ slot[s] = number[c]
<1>1. d \in 0 .. 4 + Cardinality(Clients) /\ d # None
  BY ConstantFacts DEF TypeOK
<1>2. slot[s] = d
  BY DEF Branch, Services
<1> QED
  BY <1>1, <1>2 DEF Slots, SlotsCurrent, NumbersDistinct

LEMMA PlacedStep ==
    ASSUME TypeOK, Slots, Placed, EventsCurrent, [Next]_vars
    PROVE  Placed'
<1>1. ASSUME UNCHANGED <<number, slot>>, displaced \subseteq displaced' PROVE Placed'
  BY <1>1 DEF Placed
<1>2. ASSUME NEW d \in events, NEW s \in Services, Accept(d, s) PROVE Placed'
  <2> DEFINE c == Head(backlog[s])
             n == NewNumber
  <2>1. /\ c \in Clients /\ n \in Numbers
        /\ c = backlog[s][1] /\ 1 \in DOMAIN backlog[s]
    BY <1>2, AcceptFacts DEF Slots
  <2>2. Service[c] = s /\ number[c] = None
    BY <2>1 DEF Slots, Waiting
  <2>3. /\ number' = [number EXCEPT ![c] = n] /\ slot' = [slot EXCEPT ![s] = n]
        /\ displaced' = displaced \cup {y \in Clients : slot[s] # None /\ number[y] = slot[s]}
    BY <1>2 DEF Accept, Holders
  <2> HIDE DEF c, n
  <2>4. ASSUME NEW x \in Clients, number'[x] # None
        PROVE  number'[x] = slot'[Service[x]] \/ x \in displaced'
    <3>1. CASE x = c
      BY <2>1, <2>2, <2>3, <3>1 DEF TypeOK
    <3>2. CASE x # c
      <4>1. number'[x] = number[x]
        BY <2>3, <3>2 DEF TypeOK
      <4>2. number[x] = slot[Service[x]] \/ x \in displaced
        BY <2>4, <4>1 DEF Placed
      <4>3. CASE Service[x] = s
        BY <2>3, <2>4, <4>1, <4>2, <4>3
      <4>4. CASE Service[x] # s
        BY <2>3, <4>1, <4>2, <4>4, LocalSocketsAssumption DEF TypeOK
      <4> QED
        BY <4>3, <4>4
    <3> QED
      BY <3>1, <3>2
  <2> QED
    BY <2>4 DEF Placed
<1>3. ASSUME NEW d \in events, NEW c \in Clients, NEW s \in Services,
             Branch(d) = s, number[c] = d, Disconnect(c, s), UNCHANGED displaced
      PROVE  Placed'
  <2>1. Service[c] = s /\ number[c] # None /\ slot[s] = number[c]
    BY <1>3, BranchOf
  <2>2. ASSUME NEW x \in Clients, number'[x] # None
        PROVE  number'[x] = slot'[Service[x]] \/ x \in displaced'
    <3>1. x # c /\ number'[x] = number[x]
      BY <1>3, <2>2 DEF Disconnect, TypeOK
    <3>2. number[x] = slot[Service[x]] \/ x \in displaced
      BY <2>2, <3>1 DEF Placed
    <3>3. number[x] # number[c]
      BY <2>1, <3>1 DEF Slots, NumbersDistinct
    <3>4. CASE Service[x] = s
      BY <1>3, <2>1, <3>2, <3>3, <3>4
    <3>5. CASE Service[x] # s
      BY <1>3, <3>1, <3>2, <3>5, LocalSocketsAssumption DEF Disconnect, TypeOK
    <3> QED
      BY <3>4, <3>5
  <2> QED
    BY <2>2 DEF Placed
<1>4. ASSUME NEW d \in events, NEW c \in Clients, NEW s \in {"route", "forward"},
             RoutesEnd(d, s, c)
      PROVE  Placed'
  <2>1. Branch(d) = s /\ number[c] = d /\ UNCHANGED displaced /\ s \in Services
    BY <1>4 DEF RoutesEnd, Serve, Services, history
  <2>2. UNCHANGED <<number, slot>> \/ Disconnect(c, s)
    BY <1>4 DEF RoutesEnd
  <2> QED
    BY <1>1, <1>3, <2>1, <2>2
<1>5. ASSUME NEW d \in events, NEW c \in Clients, AppEnd(d, c) PROVE Placed'
  BY <1>3, <1>5 DEF AppEnd, Serve, Services, history
<1>6. ASSUME NEW c \in Clients, Connect(c) PROVE Placed'
  BY <1>6 DEF Connect, Placed
<1>7. Steps
  BY NextSteps
<1> QED
  BY <1>1, <1>2, <1>4, <1>5, <1>6, <1>7
  DEF Steps, EpollWait, Leave, ServeNothing, ReadStdin, HandleFrame, AcceptFails, ReadRoutes,
      ReadMessage, ReadAnswer, Close, Write, vars, ends, history

-----------------------------------------------------------------------------
(* The events of a round                                                    *)

\* The event e stays readable over a step that leaves its socket alone.
LEMMA StillReady ==
    ASSUME TypeOK, TypeOK', NEW e \in Ready,
           \A s \in Services : e = Listening[s] /\ backlog[s] # <<>> => backlog'[s] # <<>>,
           \A c \in Clients : e = number[c] =>
               /\ number'[c] = number[c]
               /\ unread[c] # <<>> => unread'[c] # <<>>
               /\ c \notin open => c \notin open'
    PROVE  e \in Ready'
  BY DEF Ready

LEMMA EventsStep ==
    ASSUME TypeOK, TypeOK', Slots, EventsCurrent, [Next]_vars
    PROVE  EventsCurrent'
<1> SUFFICES ASSUME result' = "none", NEW e \in events', e \notin {Stdin, RawSocket}
             PROVE  e \in Ready'
  BY DEF EventsCurrent
<1>1. ASSUME NEW input \in SUBSET {Stdin, RawSocket}, EpollWait(input)
      PROVE  e \in Ready'
  BY <1>1 DEF EpollWait, Ready, ends, streams
<1>2. ASSUME result = "none", e \in events PROVE e \in Ready
  BY <1>2 DEF EventsCurrent
<1>3. ASSUME NEW c \in Clients, e = number[c], e \in events PROVE number[c] # None
  BY <1>3, ConstantFacts DEF TypeOK
<1>4. CASE Leave
  BY <1>4 DEF Leave
<1>5. ASSUME NEW d \in events, ServeNothing(d) \/ ReadStdin(d) \/ HandleFrame(d)
      PROVE  e \in Ready'
  BY <1>2, <1>5 DEF ServeNothing, ReadStdin, HandleFrame, Serve, Ready, ends, streams
<1>6. ASSUME NEW d \in events, NEW s \in Services, Accept(d, s) PROVE e \in Ready'
  <2>1. e \in Ready /\ e # d /\ e \in events /\ d = Listening[s] /\ UNCHANGED <<unread, open>>
    BY <1>2, <1>6 DEF Accept, Serve, streams
  <2>2. \A t \in Services : e = Listening[t] => backlog'[t] = backlog[t]
    BY <1>6, <2>1 DEF Accept, TypeOK
  <2>3. number[Head(backlog[s])] = None
    BY <1>6, AcceptFacts DEF Slots, Waiting
  <2>4. \A c \in Clients : e = number[c] => number'[c] = number[c]
    BY <1>3, <1>6, <2>1, <2>3 DEF Accept, TypeOK
  <2> QED
    BY <2>1, <2>2, <2>4, StillReady
<1>15. ASSUME NEW d \in events, NEW s \in Services, AcceptFails(d, s) PROVE e \in Ready'
  BY <1>15 DEF AcceptFails
<1>7. ASSUME NEW d \in events, NEW c \in Clients, NEW s \in {"route", "forward"},
             ReadRoutes(d, s, c)
      PROVE  e \in Ready'
  <2>1. e \in Ready /\ e # d /\ d = number[c] /\ UNCHANGED <<backlog, number, open>>
    BY <1>2, <1>7 DEF ReadRoutes, Serve, ends
  <2>2. \A x \in Clients : e = number[x] => unread'[x] = unread[x]
    BY <1>7, <2>1 DEF ReadRoutes, TypeOK
  <2> QED
    BY <2>1, <2>2, StillReady
<1>8. ASSUME NEW d \in events, NEW c \in Clients, NEW s \in {"route", "forward"},
             RoutesEnd(d, s, c)
      PROVE  e \in Ready'
  <2>1. e \in Ready /\ e # d /\ d = number[c] /\ UNCHANGED <<backlog, unread, open>>
    BY <1>2, <1>8 DEF RoutesEnd, Serve, streams
  <2>2. \A x \in Clients : e = number[x] => number'[x] = number[x]
    BY <1>8, <2>1 DEF RoutesEnd, Disconnect, TypeOK
  <2> QED
    BY <2>1, <2>2, StillReady
<1>9. ASSUME NEW d \in events, NEW c \in Clients, ReadMessage(d, c) PROVE e \in Ready'
  <2>1. e \in Ready /\ e # d /\ d = number[c] /\ UNCHANGED <<backlog, number, open>>
    BY <1>2, <1>9 DEF ReadMessage, Serve, ends
  <2>2. \A x \in Clients : e = number[x] => unread'[x] = unread[x]
    BY <1>9, <2>1 DEF ReadMessage, TypeOK
  <2> QED
    BY <2>1, <2>2, StillReady
<1>10. ASSUME NEW d \in events, NEW c \in Clients, AppEnd(d, c) PROVE e \in Ready'
  <2>1. e \in Ready /\ e # d /\ d = number[c] /\ UNCHANGED <<backlog, unread, open>>
    BY <1>2, <1>10 DEF AppEnd, Serve, streams
  <2>2. \A x \in Clients : e = number[x] => number'[x] = number[x]
    BY <1>10, <2>1 DEF AppEnd, Disconnect, TypeOK
  <2> QED
    BY <2>1, <2>2, StillReady
<1>11. ASSUME NEW c \in Clients, Connect(c) PROVE e \in Ready'
  <2>1. e \in Ready /\ e \in events /\ UNCHANGED <<number, unread>> /\ number[c] = None
    BY <1>2, <1>11 DEF Connect, loop
  <2>2. \A t \in Services : backlog[t] # <<>> => backlog'[t] # <<>>
    <3>0. Service[c] \in Services /\ backlog[Service[c]] \in Seq(Clients)
      BY LocalSocketsAssumption DEF TypeOK
    <3>1. backlog[Service[c]] \in Seq(Clients) /\ Append(backlog[Service[c]], c) # <<>>
      BY <3>0, AppendProperties
    <3> QED
      BY <1>11, <3>1, LocalSocketsAssumption DEF Connect, TypeOK
  <2>3. \A x \in Clients : e = number[x] /\ x \notin open => x \notin open'
    BY <1>3, <1>11, <2>1 DEF Connect
  <2> QED
    BY <2>1, <2>2, <2>3, StillReady
<1>12. ASSUME NEW c \in Clients, ReadAnswer(c) \/ Close(c) PROVE e \in Ready'
  <2>1. e \in Ready /\ UNCHANGED <<number, backlog, unread>> /\ open' \subseteq open
    BY <1>2, <1>12 DEF ReadAnswer, Close, loop, ends
  <2> QED
    BY <2>1, StillReady
<1>13. ASSUME NEW c \in Clients, NEW size \in Sizes[c], Write(c, size) PROVE e \in Ready'
  <2>1. e \in Ready /\ UNCHANGED <<number, backlog, open>>
    BY <1>2, <1>13 DEF Write, loop, ends
  <2>2. \A x \in Clients : unread[x] # <<>> => unread'[x] # <<>>
    <3>1. unread[c] \in Seq(Nat) /\ Bytes(size) \in Seq(Nat)
      BY LocalSocketsAssumption DEF TypeOK, Bytes
    <3>2. unread[c] # <<>> => unread[c] \o Bytes(size) # <<>>
      BY <3>1, ConcatProperties, EmptySeq, LenProperties
    <3>3. \A x \in Clients : unread'[x] = IF x = c THEN unread[c] \o Bytes(size) ELSE unread[x]
      BY <1>13 DEF Write, TypeOK
    <3> QED
      BY <3>2, <3>3
  <2> QED
    BY <2>1, <2>2, StillReady
<1>14. CASE UNCHANGED vars
  BY <1>2, <1>14 DEF vars, loop, ends, streams, Ready
<1> QED
  BY <1>1, <1>4, <1>5, <1>6, <1>7, <1>8, <1>9, <1>10, <1>11, <1>12, <1>13, <1>14,
     <1>15, NextSteps DEF Steps

-----------------------------------------------------------------------------
(* The streams                                                              *)

LEMMA BytesFacts ==
    ASSUME NEW size \in Nat \ {0}
    PROVE  /\ Bytes(size) \in Seq(Nat) /\ Len(Bytes(size)) = size
           /\ Bytes(size)[1] = size /\ Bytes(size) # <<>>
<1>1. Bytes(size) \in Seq(Nat) /\ Len(Bytes(size)) = size /\ Bytes(size)[1] = size
  BY DEF Bytes
<1> QED
  BY <1>1, EmptySeq

\* A step that leaves what a client has written, and its history, alone.
LEMMA StreamKept ==
    ASSUME NEW c \in Clients, StreamOf(c), Known(c) => Known(c)', c \in open' => c \in open,
           unread'[c] = unread[c],
           c \in hasty <=> c \in hasty', c \in crowded <=> c \in crowded',
           c \in spoilt <=> c \in spoilt', c \in garbled <=> c \in garbled'
    PROVE  StreamOf(c)'
  BY DEF StreamOf, OneMessage, NotCrowded, Whole

\* What is read to its end has been closed.
LEMMA EndIsClosed ==
    ASSUME TypeOK, Slots, EventsCurrent, result = "none",
           NEW d \in events, NEW s \in Services, NEW c \in Clients,
           Branch(d) = s, number[c] = d, unread[c] = <<>>
    PROVE  c \notin open
<1>1. number[c] \in Numbers
  BY BranchOf DEF TypeOK
<1>2. d \notin {Stdin, RawSocket} /\ \A t \in Services : d # Listening[t]
  BY <1>1, ConstantFacts DEF Stdin, RawSocket
<1>3. \A x \in Clients : d = number[x] => x = c
  BY <1>1, ConstantFacts DEF Slots, NumbersDistinct
<1> QED
  BY <1>2, <1>3 DEF EventsCurrent, Ready

LEMMA StreamsStep ==
    ASSUME TypeOK, TypeOK', Slots, EventsCurrent, Streams, [Next]_vars
    PROVE  Streams'
<1> SUFFICES ASSUME NEW x \in Clients PROVE StreamOf(x)'
  BY DEF Streams
<1>0. StreamOf(x)
  BY DEF Streams
<1>1. CASE UNCHANGED <<ends, open, unread, history>>
  BY <1>0, <1>1, StreamKept DEF ends, history, Known
<1>12. ASSUME NEW d \in events, NEW s \in Services, AcceptFails(d, s) PROVE StreamOf(x)'
  BY <1>1, <1>12 DEF AcceptFails, streams
<1>2. ASSUME NEW d \in events, NEW s \in Services, Accept(d, s) PROVE StreamOf(x)'
  <2>1. UNCHANGED <<open, unread, hasty, crowded, spoilt, garbled>>
    BY <1>2 DEF Accept, streams
  <2>2. Known(x) => Known(x)'
    <3> DEFINE c == backlog[s][1]
               n == NewNumber
    <3>1. /\ backlog[s] \in Seq(Clients) /\ backlog[s] # <<>>
          /\ Head(backlog[s]) = c /\ n \in Numbers /\ n # None
      BY <1>2, AcceptFacts, ConstantFacts DEF Slots, TypeOK
    <3>2. /\ \A y \in Clients : number'[y] = IF y = c THEN n ELSE number[y]
          /\ \A t \in Services : backlog'[t] = IF t = s THEN Tail(backlog[s]) ELSE backlog[t]
      BY <1>2, <3>1 DEF Accept, TypeOK
    <3>3. \A i \in DOMAIN backlog[s] : i # 1 =>
              i - 1 \in DOMAIN Tail(backlog[s]) /\ Tail(backlog[s])[i - 1] = backlog[s][i]
      BY <3>1
    <3>4. c = backlog[s][1] /\ Service[x] \in Services
      BY LocalSocketsAssumption
    <3> HIDE DEF c, n
    <3>5. CASE x = c \/ number[x] # None
      BY <3>1, <3>2, <3>5 DEF Known
    <3>6. ASSUME x # c, NEW i \in DOMAIN backlog[Service[x]], backlog[Service[x]][i] = x
          PROVE  \E k \in DOMAIN backlog'[Service[x]] : backlog'[Service[x]][k] = x
      <4>1. CASE Service[x] = s
        <5>1. i # 1 /\ backlog'[s] = Tail(backlog[s])
          BY <3>2, <3>4, <3>6, <4>1
        <5>2. i - 1 \in DOMAIN backlog'[s] /\ backlog'[s][i - 1] = x
          BY <3>3, <3>6, <4>1, <5>1
        <5> QED
          BY <4>1, <5>2
      <4>2. CASE Service[x] # s
        BY <3>2, <3>4, <3>6, <4>2
      <4> QED
        BY <4>1, <4>2
    <3> QED
      BY <3>5, <3>6 DEF Known
  <2> QED
    BY <1>0, <2>1, <2>2, StreamKept
<1>3. ASSUME NEW d \in events, NEW c \in Clients, NEW s \in {"route", "forward"},
             ReadRoutes(d, s, c)
      PROVE  StreamOf(x)'
  <2>1. Service[c] # "app" /\ number[c] # None /\ UNCHANGED <<ends, open, history>>
    BY <1>3, BranchOf DEF ReadRoutes, Serve, Services
  <2>2. CASE x = c
    BY <1>0, <2>1, <2>2 DEF StreamOf, Known, ends, history
  <2>3. CASE x # c
    <3>1. unread'[x] = unread[x]
      BY <1>3, <2>3 DEF ReadRoutes, TypeOK
    <3> QED
      BY <1>0, <2>1, <3>1, StreamKept DEF ends, history, Known
  <2> QED
    BY <2>2, <2>3
<1>4. ASSUME NEW c \in Clients, unread[c] = <<>>, c \notin open,
             UNCHANGED <<backlog, open, unread, history>>,
             \A y \in Clients \ {c} : number'[y] = number[y]
      PROVE  StreamOf(x)'
  <2>1. CASE x = c
    BY <1>0, <1>4, <2>1 DEF StreamOf, OneMessage, NotCrowded, history
  <2>2. CASE x # c
    BY <1>0, <1>4, <2>2, StreamKept DEF Known, history
  <2> QED
    BY <2>1, <2>2
<1>5. ASSUME NEW d \in events, NEW c \in Clients, ReadMessage(d, c) PROVE StreamOf(x)'
  <2>1. Service[c] = "app" /\ number[c] # None /\ UNCHANGED <<ends, open, hasty, crowded>>
    BY <1>5, BranchOf DEF ReadMessage, Serve, Services
  <2>2. CASE x # c
    <3>1. /\ unread'[x] = unread[x]
          /\ (x \in spoilt <=> x \in spoilt')
          /\ (x \in garbled <=> x \in garbled')
      BY <1>5, <2>2 DEF ReadMessage, TypeOK
    <3> QED
      BY <1>0, <2>1, <3>1, StreamKept DEF ends, Known
  <2>3. CASE x = c
    <3> DEFINE read == Received(c)
               rest == SubSeq(unread[c], Len(read) + 1, Len(unread[c]))
    <3>1. unread[c] # <<>> /\ unread'[c] = rest
      BY <1>5 DEF ReadMessage, TypeOK
    <3>2. /\ rest \in Seq(Nat)
          /\ Len(unread[c]) <= RecvMax => rest = <<>>
      BY <3>1, RestFacts
    <3>3. /\ read \in Seq(Nat) /\ unread[c] \in Seq(Nat)
          /\ Len(read) = (IF RecvMax <= Len(unread[c]) THEN RecvMax ELSE Len(unread[c]))
          /\ read[1] = unread[c][1]
          /\ RecvMax \in Nat \ {0} /\ MinSize \in Nat
      <4>1. unread[c] \in Seq(Nat) /\ RecvMax \in Nat \ {0} /\ MinSize \in Nat
        BY LocalSocketsAssumption DEF TypeOK
      <4>2. /\ read \in Seq(Nat) /\ Len(read) \in 1 .. Len(unread[c])
            /\ Len(read) = (IF RecvMax <= Len(unread[c]) THEN RecvMax ELSE Len(unread[c]))
            /\ \A i \in 1 .. Len(read) : read[i] = unread[c][i]
        BY <3>1, ReceivedFacts
      <4> HIDE DEF read
      <4>3. Len(unread[c]) \in Nat
        BY <4>1, LenProperties
      <4>4. 1 \in 1 .. Len(read)
        BY <4>2, <4>3
      <4> QED
        BY <4>1, <4>2, <4>4
    <3>4. /\ Dropped(read) => spoilt' = spoilt \cup {c} /\ garbled' = garbled
          /\ ~ Dropped(read) => spoilt' = IF Alone(read) THEN spoilt ELSE spoilt \cup {c}
          /\ ~ Dropped(read) => garbled' = IF Whole(read) THEN garbled ELSE garbled \cup {c}
      BY <1>5 DEF ReadMessage
    <3> HIDE DEF read, rest
    <3>5. ASSUME c \notin hasty
          PROVE  c \notin spoilt' /\ rest = <<>>
      <4>1. PICK size \in MinSize .. RecvMax : size # 0 /\ unread[c] = Bytes(size)
        BY <1>0, <2>1, <2>3, <3>1, <3>5 DEF StreamOf, OneMessage
      <4>2. size \in Nat \ {0} /\ size >= MinSize /\ size <= RecvMax
        BY <3>3, <4>1
      <4>3. Len(unread[c]) = size /\ unread[c][1] = size
        BY <4>1, <4>2, BytesFacts
      <4>4. Len(read) = size /\ read[1] = size
        BY <3>3, <4>2, <4>3
      <4>5. ~ Dropped(read) /\ Alone(read)
        BY <3>3, <4>2, <4>4 DEF Dropped, Alone, Whole
      <4> QED
        BY <1>0, <2>3, <3>2, <3>4, <3>5, <4>2, <4>3, <4>5 DEF StreamOf
    <3>6. ASSUME c \notin crowded
          PROVE  c \notin garbled' /\ rest = <<>>
      <4>1. Len(unread[c]) <= RecvMax /\ Whole(unread[c]) /\ c \notin garbled
        BY <1>0, <2>1, <2>3, <3>1, <3>6 DEF StreamOf, NotCrowded
      <4>2. Whole(read)
        BY <3>3, <4>1 DEF Whole
      <4> QED
        BY <3>2, <3>4, <4>1, <4>2
    <3>7. <<>> \in Seq(Nat) /\ Len(<<>>) = 0
      OBVIOUS
    <3> QED
      BY <2>1, <2>3, <3>1, <3>3, <3>5, <3>6, <3>7
      DEF StreamOf, OneMessage, NotCrowded, Known, ends
  <2> QED
    BY <2>2, <2>3
<1>6. ASSUME NEW c \in Clients, Connect(c) PROVE StreamOf(x)'
  <2>1. /\ UNCHANGED <<number, unread>> /\ open' = open \cup {c}
        /\ backlog' = [backlog EXCEPT ![Service[c]] = Append(@, c)]
        /\ ~ Known(c)
    BY <1>6 DEF Connect, Known
  <2>2. CASE x = c
    <3>1. unread'[c] = <<>> /\ RecvMax \in Nat /\ Len(<<>>) = 0
      BY <1>0, <2>1, <2>2, LocalSocketsAssumption DEF StreamOf
    <3>2. Known(c)'
      <4> DEFINE b == backlog[Service[c]]
      <4>1. b \in Seq(Clients) /\ backlog'[Service[c]] = Append(b, c)
        BY <2>1, LocalSocketsAssumption DEF TypeOK
      <4> HIDE DEF b
      <4>2. Len(b) + 1 \in DOMAIN Append(b, c) /\ Append(b, c)[Len(b) + 1] = c
        BY <4>1
      <4> QED
        BY <4>1, <4>2 DEF Known
    <3> QED
      BY <1>6, <2>2, <3>1, <3>2 DEF Connect, StreamOf, OneMessage, NotCrowded
  <2>3. CASE x # c
    <3>1. /\ (x \in hasty <=> x \in hasty')
          /\ (x \in crowded <=> x \in crowded')
          /\ (x \in spoilt <=> x \in spoilt')
          /\ (x \in garbled <=> x \in garbled')
      BY <1>6, <2>3 DEF Connect
    <3>2. Known(x) => Known(x)'
      <4>1. \A t \in Services : backlog[t] \in Seq(Clients)
        BY DEF TypeOK
      <4>2. \A t \in Services : \A i \in DOMAIN backlog[t] :
                i \in DOMAIN backlog'[t] /\ backlog'[t][i] = backlog[t][i]
        BY <2>1, <4>1 DEF TypeOK
      <4>3. Service[x] \in Services
        BY LocalSocketsAssumption
      <4> QED
        BY <2>1, <4>2, <4>3 DEF Known
    <3>3. unread'[x] = unread[x] /\ (x \in open' => x \in open)
      BY <2>1, <2>3
    <3> QED
      BY <1>0, <3>1, <3>2, <3>3, StreamKept
  <2> QED
    BY <2>2, <2>3
<1>7. ASSUME NEW c \in Clients, NEW size \in Sizes[c], Write(c, size) PROVE StreamOf(x)'
  <2>1. UNCHANGED <<ends, open, spoilt, garbled>> /\ c \in open
    BY <1>7 DEF Write
  <2>2. CASE x # c
    <3>1. /\ unread'[x] = unread[x]
          /\ (x \in hasty <=> x \in hasty')
          /\ (x \in crowded <=> x \in crowded')
      BY <1>7, <2>2 DEF Write, TypeOK
    <3> QED
      BY <1>0, <2>1, <3>1, StreamKept DEF ends, Known
  <2>3. CASE x = c
    <3>1. /\ size \in Nat \ {0} /\ unread[c] \in Seq(Nat) /\ RecvMax \in Nat /\ MinSize \in Nat
      BY LocalSocketsAssumption DEF TypeOK
    <3>2. /\ unread'[c] = unread[c] \o Bytes(size)
          /\ hasty' = IF unread[c] = <<>> /\ size \in MinSize .. RecvMax THEN hasty
                      ELSE hasty \cup {c}
          /\ crowded' = IF Len(unread'[c]) <= RecvMax THEN crowded ELSE crowded \cup {c}
      BY <1>7 DEF Write, TypeOK
    <3>3. /\ Bytes(size) \in Seq(Nat) /\ Len(Bytes(size)) = size /\ Bytes(size)[1] = size
      BY <3>1, BytesFacts
    <3>4. unread[c] = <<>> => unread'[c] = Bytes(size)
      BY <3>2, <3>3, ConcatEmptySeq
    <3>5. c \notin hasty' => c \notin hasty /\ OneMessage(c)'
      BY <3>1, <3>2, <3>4 DEF OneMessage
    <3>6. ASSUME Service[c] = "app", c \notin crowded'
          PROVE  c \notin crowded /\ NotCrowded(c)'
      <4>1. c \notin crowded /\ Len(unread'[c]) <= RecvMax
        BY <3>2, <3>6
      <4>2. CASE unread[c] = <<>>
        BY <3>1, <3>3, <3>4, <4>1, <4>2 DEF NotCrowded, Whole
      <4>3. CASE unread[c] # <<>>
        <5>1. Whole(unread[c]) /\ Len(unread[c]) \in Nat /\ Len(unread[c]) # 0
          BY <1>0, <2>3, <3>1, <3>6, <4>1, <4>3, EmptySeq, LenProperties DEF StreamOf, NotCrowded
        <5>2. /\ Len(unread'[c]) = Len(unread[c]) + size
              /\ unread'[c][1] = unread[c][1]
          <6> DEFINE u == unread[c]
                     b == Bytes(size)
          <6>1. u \in Seq(Nat) /\ b \in Seq(Nat) /\ Len(b) = size
            BY <3>1, <3>3
          <6> HIDE DEF u, b
          <6>2. /\ Len(u \o b) = Len(u) + Len(b)
                /\ \A i \in 1 .. Len(u) + Len(b) :
                       (u \o b)[i] = IF i <= Len(u) THEN u[i] ELSE b[i - Len(u)]
            BY <6>1, ConcatProperties
          <6>3. Len(u) \in Nat /\ Len(u) # 0
            BY <5>1 DEF u
          <6>4. (u \o b)[1] = u[1]
            BY <3>1, <6>1, <6>2, <6>3
          <6> QED
            BY <3>2, <6>1, <6>2, <6>4 DEF u, b
        <5>3. unread[c][1] \in Nat
          BY <3>1, <5>1
        <5> QED
          BY <3>1, <4>1, <5>1, <5>2, <5>3 DEF NotCrowded, Whole
      <4> QED
        BY <4>1, <4>2, <4>3
    <3>7. c \notin crowded' => c \notin crowded
      BY <3>2
    <3> QED
      BY <1>0, <2>1, <2>3, <3>5, <3>6, <3>7 DEF StreamOf, Known, ends
  <2> QED
    BY <2>2, <2>3
<1>8. ASSUME NEW d \in events, NEW c \in Clients, NEW s \in {"route", "forward"},
             RoutesEnd(d, s, c)
      PROVE  StreamOf(x)'
  <2>1. /\ unread[c] = <<>> /\ UNCHANGED <<backlog, open, unread, history>>
        /\ \A y \in Clients \ {c} : number'[y] = number[y]
    BY <1>8 DEF RoutesEnd, Disconnect, streams, TypeOK
  <2>2. c \notin open
    BY <1>8, <2>1, EndIsClosed DEF RoutesEnd, Serve, Services
  <2> QED
    BY <1>4, <2>1, <2>2
<1>9. ASSUME NEW d \in events, NEW c \in Clients, AppEnd(d, c) PROVE StreamOf(x)'
  <2>1. /\ unread[c] = <<>> /\ UNCHANGED <<backlog, open, unread, history>>
        /\ \A y \in Clients \ {c} : number'[y] = number[y]
    BY <1>9 DEF AppEnd, Disconnect, streams, TypeOK
  <2>2. c \notin open
    BY <1>9, <2>1, EndIsClosed DEF AppEnd, Serve, Services
  <2> QED
    BY <1>4, <2>1, <2>2
<1>10. ASSUME NEW c \in Clients, Close(c) PROVE StreamOf(x)'
  <2>1. UNCHANGED <<ends, unread, history>> /\ open' \subseteq open
    BY <1>10 DEF Close
  <2>2. Known(x) => Known(x)'
    BY <2>1 DEF Known, ends
  <2> QED
    BY <1>0, <2>1, <2>2, StreamKept DEF history
<1>11. Steps
  BY NextSteps
<1> QED
  BY <1>1, <1>2, <1>3, <1>5, <1>6, <1>7, <1>8, <1>9, <1>10, <1>11, <1>12
  DEF Steps, EpollWait, Leave, ServeNothing, ReadStdin, HandleFrame, ReadAnswer,
      vars, streams, history, ends

-----------------------------------------------------------------------------
(* The theorems                                                             *)

IInv == TypeOK /\ Slots /\ Placed /\ EventsCurrent /\ Streams

LEMMA InitIInv == Init => IInv
<1> SUFFICES ASSUME Init PROVE IInv
  OBVIOUS
<1>1. TypeOK
  BY DEF Init, TypeOK
<1>2. Slots /\ Placed /\ EventsCurrent
  BY <1>1 DEF Init, Slots, Waiting, NumbersDistinct, SlotsCurrent, Placed, EventsCurrent
<1>3. Streams
  BY LocalSocketsAssumption DEF Init, Streams, StreamOf, OneMessage, NotCrowded
<1> QED
  BY <1>1, <1>2, <1>3 DEF IInv

LEMMA NextIInv == IInv /\ [Next]_vars => IInv'
<1> SUFFICES ASSUME IInv, [Next]_vars PROVE IInv'
  OBVIOUS
<1>1. TypeOK'
  BY TypeStep DEF IInv, Slots
<1> QED
  BY <1>1, SlotsStep, PlacedStep, EventsStep, StreamsStep DEF IInv

LEMMA SpecIInv == Spec => []IInv
  BY InitIInv, NextIInv, PTL DEF Spec

\* Every variable stays in its type: in particular there is always a number
\* for the connection that is accepted.
THEOREM LocalTypes == Spec => []TypeOK
<1>1. IInv => TypeOK
  BY DEF IInv
<1> QED
  BY <1>1, SpecIInv, PTL

\* A slot of mipd never holds a number that has been closed, or given to a
\* connection of another service (server.c:229, 260, 280, 313).
THEOREM LocalSlots == Spec => []SlotsCurrent
<1>1. IInv => SlotsCurrent
  BY DEF IInv, Slots
<1> QED
  BY <1>1, SpecIInv, PTL

\* No event of a round is stale when it is served (server.c:221-226).
THEOREM LocalEvents == Spec => []EventsCurrent
<1>1. IInv => EventsCurrent
  BY DEF IInv
<1> QED
  BY <1>1, SpecIInv, PTL

\* As long as mipd runs, a message is left unread for ever only when a later
\* connection has taken its application's slot, and read without being acted
\* on only when it was not written alone and fitting (server.c:229, 309-319).
THEOREM LocalMessages == Spec => []LossHasCause
<1>1. IInv => LossHasCause
  <2> SUFFICES ASSUME IInv, NEW c \in Lost PROVE c \in hasty \cup displaced
    BY DEF LossHasCause
  <2>1. c \in Clients
    BY DEF Lost, IInv, TypeOK
  <2>2. CASE c \in spoilt
    BY <2>1, <2>2 DEF IInv, Streams, StreamOf
  <2>3. CASE number[c] # None /\ number[c] # slot[Service[c]]
    BY <2>1, <2>3 DEF IInv, Placed
  <2> QED
    BY <2>2, <2>3 DEF Lost
<1> QED
  BY <1>1, SpecIInv, PTL

\* Other bytes are never taken for a message as long as what is unread fits
\* one recv (server.c:309).
THEOREM LocalHeaders == Spec => []OnlyCrowdedGarbled
<1>1. IInv => OnlyCrowdedGarbled
  <2> SUFFICES ASSUME IInv PROVE garbled \subseteq crowded
    BY DEF OnlyCrowdedGarbled
  <2> QED
    BY DEF IInv, TypeOK, Streams, StreamOf
<1> QED
  BY <1>1, SpecIInv, PTL
=============================================================================
