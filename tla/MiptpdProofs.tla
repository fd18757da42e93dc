---------------------------- MODULE MiptpdProofs ----------------------------
(***************************************************************************)
(* The loop of miptpd for any number of applications, any requests of      *)
(* theirs and any number of events: its list of connections stays sound,   *)
(* and it ends for known reasons only.                                     *)
(***************************************************************************)
EXTENDS Miptpd, SequenceTheorems, TLAPS

(***************************************************************************)
(* ConnectionsSound needs that what waits to be accepted is no connection  *)
(* yet, that what is unread has been asked for, and that an event of an    *)
(* application is one of its requests or of its end, which it stays until  *)
(* it is served.                                                           *)
(***************************************************************************)
BacklogSound ==
    \A i \in DOMAIN backlog :
        /\ backlog[i] \notin accepted
        /\ \A k \in DOMAIN backlog : backlog[k] = backlog[i] => k = i

UnreadAskedFor ==
    \A c \in Clients : \A i \in DOMAIN unread[c] :
        \E k \in 1 .. written[c] : Requests[c][k] = unread[c][i]

WrittenAreRequests == \A c \in Clients : written[c] <= Len(Requests[c])

EventsSound ==
    /\ "listen" \in events => backlog # <<>>
    /\ "mipd" \in events => package \/ mipd = "gone"
    /\ pc # "ended" => \A c \in Clients :
          c \in events => c \in accepted /\ (unread[c] # <<>> \/ c \notin open)

AliveUntilEnd == pc # "ended" => result = "none"

\* Only a sender is held up by mipd.
BlockedSends == pc = "blocked" => ListIsReadable /\ Senders # {}

\* The parts of ConnectionsSound.
OneEach ==
    \A i, k \in DOMAIN connections : connections[i].socket = connections[k].socket => i = k
Accepted == Sockets \subseteq accepted
Listed   == accepted \cap open \subseteq Sockets

\* A connection that is ready has the status its application has asked for.
AskedFor(connection) ==
    connection.status # "not_ready" =>
        \E k \in 1 .. written[connection.socket] :
            Requests[connection.socket][k] = connection.status

SendersAsked == \A i \in DOMAIN connections : AskedFor(connections[i])

Inv ==
    /\ TypeOK
    /\ BacklogSound /\ UnreadAskedFor /\ WrittenAreRequests /\ EventsSound
    /\ OneEach /\ Accepted /\ Listed /\ SendersAsked
    /\ AliveUntilEnd /\ BlockedSends /\ EndsOnlyFor

-----------------------------------------------------------------------------
(* Lemmas                                                                   *)

\* What stays in the list when the connection of c is taken out.
LEMMA WithoutFacts ==
    ASSUME connections \in Seq(Connection), OneEach, NEW c
    PROVE  /\ Without(c) \in Seq(Connection)
           /\ \A i \in DOMAIN Without(c) :
                 /\ Without(c)[i].socket # c
                 /\ \E k \in DOMAIN connections : connections[k] = Without(c)[i]
           /\ \A k \in DOMAIN connections : connections[k].socket # c =>
                 \E i \in DOMAIN Without(c) : Without(c)[i] = connections[k]
           /\ \A i, k \in DOMAIN Without(c) :
                 Without(c)[i].socket = Without(c)[k].socket => i = k
<1>1. CASE ~ \E i \in 1 .. Len(connections) : connections[i].socket = c
  <2>1. Without(c) = connections
    BY <1>1 DEF Without, RemoveFirstMatch, SelectInSeq, RemoveAt
  <2>2. DOMAIN connections = 1 .. Len(connections)
    OBVIOUS
  <2> QED BY <2>1, <2>2, <1>1 DEF OneEach
<1>2. CASE \E i \in 1 .. Len(connections) : connections[i].socket = c
  <2>1. PICK m \in 1 .. Len(connections) : connections[m].socket = c
    BY <1>2
  <2>2. {i \in 1 .. Len(connections) : connections[i].socket = c} = {m}
    BY <2>1 DEF OneEach
  <2>3. Min({m}) = m
    BY <2>1 DEF Min
  <2>4. Without(c) = SubSeq(connections, 1, m - 1)
                       \o SubSeq(connections, m + 1, Len(connections))
    BY <1>2, <2>2, <2>3 DEF Without, RemoveFirstMatch, SelectInSeq, RemoveAt
  <2> DEFINE n == Len(connections)
             w == Without(c)
  <2> DEFINE a == SubSeq(connections, 1, m - 1)
             b == SubSeq(connections, m + 1, n)
  <2>a. /\ n \in Nat /\ m \in 1 .. n
        /\ a \in Seq(Connection) /\ b \in Seq(Connection)
        /\ Len(a) = m - 1 /\ Len(b) = n - m
        /\ \A i \in 1 .. m - 1 : a[i] = connections[i]
    BY <2>1
  <2>b. \A i \in 1 .. n - m : b[i] = connections[m + i]
    BY <2>1
  <2>c. w = a \o b
    BY <2>4
  <2>5. /\ Len(w) = n - 1
        /\ w \in Seq(Connection)
        /\ \A i \in 1 .. n - 1 : w[i] = connections[IF i < m THEN i ELSE i + 1]
    <3> HIDE DEF w, a, b, n
    <3>1. /\ w \in Seq(Connection)
          /\ Len(w) = Len(a) + Len(b)
          /\ \A i \in 1 .. Len(a) + Len(b) : w[i] = IF i <= Len(a) THEN a[i] ELSE b[i - Len(a)]
      BY ONLY <2>a, <2>c, ConcatProperties
    <3>2. Len(w) = n - 1
      BY <2>a, <3>1
    <3>3. ASSUME NEW i \in 1 .. n - 1
          PROVE  w[i] = connections[IF i < m THEN i ELSE i + 1]
      <4>1. CASE i < m
        BY <2>a, <3>1, <4>1
      <4>2. CASE ~ (i < m)
        <5>1. i - (m - 1) \in 1 .. n - m /\ m + (i - (m - 1)) = i + 1
          BY <2>a, <4>2
        <5>2. w[i] = b[i - (m - 1)]
          BY <2>a, <3>1, <4>2
        <5> QED BY <2>b, <5>1, <5>2, <4>2
      <4> QED BY <4>1, <4>2
    <3> QED BY <3>1, <3>2, <3>3
  <2>6. \A i \in 1 .. n - 1 : /\ (IF i < m THEN i ELSE i + 1) \in 1 .. n
                              /\ (IF i < m THEN i ELSE i + 1) # m
    BY <2>1
  <2>7. \A i \in DOMAIN w : /\ w[i].socket # c
                            /\ \E k \in DOMAIN connections : connections[k] = w[i]
    BY <2>1, <2>2, <2>5, <2>6
  <2>8. ASSUME NEW k \in DOMAIN connections, connections[k].socket # c
        PROVE  \E i \in DOMAIN w : w[i] = connections[k]
    <3>1. k # m /\ k \in 1 .. n
      BY <2>1, <2>8
    <3>2. CASE k < m
      BY <2>1, <2>5, <3>1, <3>2
    <3>3. CASE k > m
      <4>1. k - 1 \in 1 .. n - 1 /\ ~ (k - 1 < m) /\ (k - 1) + 1 = k
        BY <2>1, <3>1, <3>3
      <4> QED BY <2>5, <4>1
    <3> QED BY <2>1, <3>1, <3>2, <3>3
  <2>9. ASSUME NEW i \in DOMAIN w, NEW k \in DOMAIN w, w[i].socket = w[k].socket
        PROVE  i = k
    <3>1. i \in 1 .. n - 1 /\ k \in 1 .. n - 1
      BY <2>5
    <3> DEFINE x == IF i < m THEN i ELSE i + 1
               y == IF k < m THEN k ELSE k + 1
    <3>2. /\ w[i] = connections[x] /\ x \in DOMAIN connections
          /\ w[k] = connections[y] /\ y \in DOMAIN connections
      <4>1. DOMAIN connections = 1 .. n
        OBVIOUS
      <4> HIDE DEF w, n
      <4> QED BY <2>5, <2>6, <3>1, <4>1
    <3>3. x = y
      <4> HIDE DEF x, y, w
      <4> QED BY <2>9, <3>2 DEF OneEach
    <3> QED BY <2>1, <3>1, <3>3
  <2> QED BY <2>5, <2>7, <2>8, <2>9
<1> QED BY <1>1, <1>2

\* The list without the connection of c.
LEMMA RemovedFacts ==
    ASSUME connections \in Seq(Connection), OneEach, NEW c, connections' = Without(c)
    PROVE  /\ connections' \in Seq(Connection)
           /\ OneEach'
           /\ Sockets' = Sockets \ {c}
           /\ \A i \in DOMAIN connections' :
                 \E k \in DOMAIN connections : connections'[i] = connections[k]
<1> DEFINE w == Without(c)
<1>1. /\ connections' = w
      /\ w \in Seq(Connection)
      /\ \A i \in DOMAIN w : /\ w[i].socket # c
                             /\ \E k \in DOMAIN connections : connections[k] = w[i]
      /\ \A k \in DOMAIN connections : connections[k].socket # c =>
            \E i \in DOMAIN w : w[i] = connections[k]
      /\ \A i, k \in DOMAIN w : w[i].socket = w[k].socket => i = k
  BY WithoutFacts, Zenon
<1> HIDE DEF w
<1>2. OneEach'
  BY <1>1 DEF OneEach
<1>3. Sockets' = Sockets \ {c}
  BY <1>1 DEF Sockets
<1>4. \A i \in DOMAIN connections' :
          \E k \in DOMAIN connections : connections'[i] = connections[k]
  BY <1>1
<1> QED BY <1>1, <1>2, <1>3, <1>4

\* The list with a new connection at its end.
LEMMA AppendedFacts ==
    ASSUME NEW w \in Seq(Connection), NEW r \in Connection, connections' = Append(w, r),
           \A i, k \in DOMAIN w : w[i].socket = w[k].socket => i = k,
           \A i \in DOMAIN w : w[i].socket # r.socket
    PROVE  /\ connections' \in Seq(Connection)
           /\ OneEach'
           /\ Sockets' = {w[i].socket : i \in DOMAIN w} \cup {r.socket}
           /\ \A i \in DOMAIN connections' :
                 connections'[i] = r \/ \E k \in DOMAIN w : connections'[i] = w[k]
<1> DEFINE n == Len(w)
           v == connections'
<1>1. /\ n \in Nat /\ DOMAIN w = 1 .. n
      /\ v \in Seq(Connection) /\ DOMAIN v = 1 .. n + 1
      /\ v[n + 1] = r
      /\ \A i \in 1 .. n : v[i] = w[i]
  OBVIOUS
<1>2. \A i \in DOMAIN v : i \in DOMAIN w \/ i = n + 1
  BY <1>1
<1>3. \A i \in DOMAIN w : i \in DOMAIN v /\ v[i] = w[i]
  BY <1>1
<1>4. n + 1 \in DOMAIN v /\ n + 1 \notin DOMAIN w
  BY <1>1
<1>5. v = connections'
  OBVIOUS
<1>6. v \in Seq(Connection) /\ v[n + 1] = r
  BY <1>1
<1> HIDE DEF v, n
<1>7. OneEach'
  <2>1. ASSUME NEW i \in DOMAIN v, NEW k \in DOMAIN v, v[i].socket = v[k].socket
        PROVE  i = k
    <3>1. CASE i \in DOMAIN w /\ k \in DOMAIN w
      BY <1>3, <2>1, <3>1
    <3>2. CASE i \in DOMAIN w /\ k = n + 1
      BY <1>3, <1>6, <2>1, <3>2
    <3>3. CASE i = n + 1 /\ k \in DOMAIN w
      BY <1>3, <1>6, <2>1, <3>3
    <3> QED BY <1>2, <3>1, <3>2, <3>3
  <2> QED BY <1>5, <2>1 DEF OneEach
<1>8. Sockets' = {w[i].socket : i \in DOMAIN w} \cup {r.socket}
  BY <1>2, <1>3, <1>4, <1>5, <1>6 DEF Sockets
<1>9. \A i \in DOMAIN connections' :
          connections'[i] = r \/ \E k \in DOMAIN w : connections'[i] = w[k]
  BY <1>2, <1>3, <1>5, <1>6
<1> QED BY <1>5, <1>6, <1>7, <1>8, <1>9

\* The list with a connection in place of the one of c.
LEMMA ReplacedFacts ==
    ASSUME connections \in Seq(Connection), OneEach, NEW c \in Clients,
           NEW kind \in {"sender", "large", "untyped"}, connections' = Replaced(c, kind)
    PROVE  /\ connections' \in Seq(Connection)
           /\ OneEach'
           /\ Sockets' = Sockets \cup {c}
           /\ \A i \in DOMAIN connections' :
                 \/ \E k \in DOMAIN connections : connections'[i] = connections[k]
                 \/ connections'[i].socket = c /\ connections'[i].status \in {kind, "not_ready"}
<1> DEFINE w == Without(c)
           r == [socket |-> c, status |-> IF kind = "untyped" THEN "not_ready" ELSE kind]
<1>1. /\ w \in Seq(Connection)
      /\ \A i \in DOMAIN w : /\ w[i].socket # c
                             /\ \E k \in DOMAIN connections : connections[k] = w[i]
      /\ \A k \in DOMAIN connections : connections[k].socket # c =>
            \E i \in DOMAIN w : w[i] = connections[k]
      /\ \A i, k \in DOMAIN w : w[i].socket = w[k].socket => i = k
  BY WithoutFacts, Zenon
<1>2. r \in Connection /\ r.socket = c /\ r.status \in {kind, "not_ready"}
  BY DEF Connection
<1>3. connections' = Append(w, r)
  BY DEF Replaced
<1> HIDE DEF w, r
<1>4. /\ connections' \in Seq(Connection)
      /\ OneEach'
      /\ Sockets' = {w[i].socket : i \in DOMAIN w} \cup {r.socket}
      /\ \A i \in DOMAIN connections' :
            connections'[i] = r \/ \E k \in DOMAIN w : connections'[i] = w[k]
  BY <1>1, <1>2, <1>3, AppendedFacts
<1>5. {w[i].socket : i \in DOMAIN w} = Sockets \ {c}
  BY <1>1 DEF Sockets
<1>6. Sockets' = Sockets \cup {c}
  BY <1>2, <1>4, <1>5
<1>7. ASSUME NEW i \in DOMAIN connections'
      PROVE  \/ \E k \in DOMAIN connections : connections'[i] = connections[k]
             \/ connections'[i].socket = c /\ connections'[i].status \in {kind, "not_ready"}
  <2>1. connections'[i] = r \/ \E k \in DOMAIN w : connections'[i] = w[k]
    BY <1>4
  <2> QED BY <1>1, <1>2, <2>1
<1> QED BY <1>4, <1>6, <1>7

-----------------------------------------------------------------------------
(* The inductive invariant                                                  *)

LEMMA InitInv == Init => Inv
<1> SUFFICES ASSUME Init PROVE Inv
  OBVIOUS
<1>1. TypeOK
  <2>1. unread \in [Clients -> Seq(Kinds)] /\ written \in [Clients -> Nat]
    BY DEF Init
  <2>2. connections \in Seq(Connection) /\ backlog \in Seq(Clients)
    BY DEF Init
  <2> QED BY <2>1, <2>2 DEF Init, TypeOK
<1>2. BacklogSound /\ UnreadAskedFor /\ EventsSound
  BY DEF Init, BacklogSound, UnreadAskedFor, EventsSound
<1>3. WrittenAreRequests
  BY MiptpdAssumption DEF Init, WrittenAreRequests
<1>4. Sockets = {} /\ DOMAIN connections = {} /\ OneEach
  BY DEF Init, Sockets, OneEach
<1>5. Accepted /\ Listed /\ SendersAsked
  BY <1>4 DEF Init, Accepted, Listed, SendersAsked
<1>6. AliveUntilEnd /\ BlockedSends /\ EndsOnlyFor
  BY DEF Init, AliveUntilEnd, BlockedSends, EndsOnlyFor
<1> QED BY <1>1, <1>2, <1>3, <1>4, <1>5, <1>6 DEF Inv

\* What is said of the list and of the ends of the applications.
Lasting ==
    /\ BacklogSound /\ UnreadAskedFor /\ WrittenAreRequests
    /\ OneEach /\ Accepted /\ Listed /\ SendersAsked

LEMMA LastingKept ==
    ASSUME Inv, UNCHANGED <<connections, ends>>
    PROVE  Lasting'
<1>1. /\ connections' = connections /\ backlog' = backlog /\ accepted' = accepted
      /\ open' = open /\ written' = written /\ unread' = unread
  BY DEF ends
<1>2. BacklogSound' /\ UnreadAskedFor' /\ WrittenAreRequests' /\ OneEach'
  BY <1>1 DEF Inv, BacklogSound, UnreadAskedFor, WrittenAreRequests, OneEach
<1>3. Sockets' = Sockets
  BY <1>1 DEF Sockets
<1>4. Accepted' /\ Listed' /\ SendersAsked'
  BY <1>1, <1>3 DEF Inv, Accepted, Listed, SendersAsked, AskedFor
<1> QED BY <1>2, <1>4 DEF Lasting

\* A step after which miptpd has not ended.
LEMMA NotEnded ==
    ASSUME Inv, pc # "ended", result' = result,
           pc' # "blocked" \/ UNCHANGED <<pc, connections, fits>>
    PROVE  AliveUntilEnd' /\ BlockedSends' /\ EndsOnlyFor'
<1>1. AliveUntilEnd' /\ EndsOnlyFor'
  BY DEF Inv, AliveUntilEnd, EndsOnlyFor
<1>2. CASE pc' # "blocked"
  BY <1>1, <1>2 DEF BlockedSends
<1>3. CASE UNCHANGED <<pc, connections, fits>>
  <2>1. Senders' = Senders
    BY <1>3 DEF Senders, WithStatus
  <2> QED BY <1>1, <1>3, <2>1 DEF Inv, BlockedSends, ListIsReadable
<1> QED BY <1>2, <1>3

\* Fewer events, or more to read, or fewer ends open.
LEMMA EventsKept ==
    ASSUME Inv, pc # "ended", events' \subseteq events,
           backlog' = backlog, package \/ mipd = "gone" => package' \/ mipd' = "gone",
           UNCHANGED <<accepted, open, unread>>
    PROVE  EventsSound'
BY DEF Inv, EventsSound

\* A list that is not empty lists an accepted application.
LEMMA ListedAccepted == ASSUME Inv, connections # <<>> PROVE accepted # {}
<1>1. connections \in Seq(Connection)
  BY DEF Inv, TypeOK
<1>2. 1 \in DOMAIN connections
  BY <1>1
<1>3. connections[1].socket \in Sockets
  BY <1>2 DEF Sockets
<1> QED BY <1>3 DEF Inv, Accepted

LEMMA PollInv == ASSUME Inv, EpollWait PROVE Inv'
<1>1. Lasting'
  BY LastingKept DEF EpollWait
<1>2. TypeOK'
  BY DEF Inv, TypeOK, EpollWait, Ready, ends, others
<1>3. EventsSound'
  <2>1. /\ events' \subseteq Ready
        /\ UNCHANGED <<backlog, accepted, open, unread, package, mipd>>
    BY DEF EpollWait, ends, others
  <2>2. \A c \in Clients : c # "stdin" /\ c # "mipd" /\ c # "listen"
    BY MiptpdAssumption
  <2>3. Ready \cap Clients \subseteq {c \in accepted : unread[c] # <<>> \/ c \notin open}
    BY <2>2 DEF Ready
  <2>4. "listen" \notin accepted /\ "mipd" \notin accepted
    BY <2>2 DEF Inv, TypeOK
  <2>5. /\ "listen" \in Ready => backlog # <<>>
        /\ "mipd" \in Ready => package \/ mipd = "gone"
    BY <2>4 DEF Ready
  <2> QED BY <2>1, <2>3, <2>5 DEF EventsSound
<1>4. AliveUntilEnd' /\ BlockedSends' /\ EndsOnlyFor'
  BY NotEnded DEF EpollWait
<1> QED BY <1>1, <1>2, <1>3, <1>4 DEF Inv, Lasting

\* A large sender has asked for it.
LEMMA LargeAsked == ASSUME Inv, WithStatus({"large"}) # {} PROVE Asked({"large"})
<1>1. PICK i \in DOMAIN connections : connections[i].status = "large"
  BY DEF WithStatus
<1>2. connections[i] \in Connection
  BY DEF Inv, TypeOK
<1>3. connections[i].socket \in Clients
  BY <1>2 DEF Connection
<1>4. AskedFor(connections[i])
  BY DEF Inv, SendersAsked
<1> QED BY <1>1, <1>3, <1>4 DEF AskedFor, Asked

\* The end of miptpd while it writes to a mipd that has gone.
LEMMA WriteFailsInv ==
    ASSUME Inv, WriteFails, UNCHANGED <<connections, fits, ends, others>>,
           mipd = "gone", pc # "ended", ListIsReadable, Senders # {}
    PROVE  Inv'
<1>0. /\ pc' = "ended" /\ result' \in {"failed", "killed"} /\ UNCHANGED <<running, events>>
      /\ fits' = fits /\ mipd' = mipd /\ package' = package
  BY DEF WriteFails, End, others
<1>1. Lasting'
  BY LastingKept
<1>2. TypeOK'
  BY <1>0 DEF Inv, TypeOK, ends, others
<1>3. EventsSound'
  BY <1>0, EventsKept DEF ends
<1>4. Senders' = Senders /\ accepted' = accepted
  BY DEF Senders, WithStatus, ends
<1>5. connections # <<>>
  BY DEF Senders, WithStatus
<1>6. accepted # {}
  BY <1>5, ListedAccepted
<1>7. AliveUntilEnd' /\ BlockedSends' /\ EndsOnlyFor'
  BY <1>0, <1>4, <1>6 DEF AliveUntilEnd, BlockedSends, EndsOnlyFor
<1> QED BY <1>1, <1>2, <1>3, <1>7 DEF Inv, Lasting

LEMMA OutgoingInv == ASSUME Inv, HandleOutgoing PROVE Inv'
<1>0. /\ pc = "send" /\ UNCHANGED <<connections, fits, ends, others>>
  BY DEF HandleOutgoing
<1>1. Lasting'
  BY <1>0, LastingKept
<1>2. CASE /\ pc' \in {"poll", "serve"} \/ (pc' = "blocked" /\ ListIsReadable /\ Senders # {})
           /\ UNCHANGED <<running, result, events>>
  <2>1. TypeOK'
    BY <1>0, <1>2 DEF Inv, TypeOK, ends, others
  <2>2. EventsSound'
    BY <1>0, <1>2, EventsKept DEF ends, others
  <2>3. AliveUntilEnd' /\ EndsOnlyFor'
    BY <1>0, <1>2 DEF Inv, AliveUntilEnd, EndsOnlyFor
  <2>4. Senders' = Senders /\ (ListIsReadable' <=> ListIsReadable)
    BY <1>0 DEF Senders, WithStatus, ListIsReadable
  <2>5. BlockedSends'
    BY <1>2, <2>4 DEF BlockedSends
  <2> QED BY <1>1, <2>1, <2>2, <2>3, <2>5 DEF Inv, Lasting
<1>3. CASE ListIsReadable /\ mipd = "gone" /\ Senders # {} /\ WriteFails
  BY <1>0, <1>3, WriteFailsInv
<1>4. CASE (~ ListIsReadable \/ WithStatus({"large"}) # {}) /\ End("killed")
  <2>1. /\ pc' = "ended" /\ result' = "killed" /\ UNCHANGED <<running, events>>
        /\ fits' = fits /\ mipd' = mipd /\ package' = package
        /\ accepted' = accepted /\ written' = written
    BY <1>0, <1>4 DEF End, others, ends
  <2>2. TypeOK'
    BY <1>0, <2>1 DEF Inv, TypeOK, ends, others
  <2>3. EventsSound'
    BY <1>0, <2>1, EventsKept DEF ends
  <2>4. Asked({"large"})' <=> Asked({"large"})
    BY <2>1 DEF Asked
  <2>5. fits => Asked({"large"})
    BY <1>4, LargeAsked DEF ListIsReadable
  <2>6. connections # <<>>
    BY <1>4 DEF ListIsReadable, WithStatus
  <2>7. accepted # {}
    BY <2>6, ListedAccepted
  <2>8. AliveUntilEnd' /\ BlockedSends' /\ EndsOnlyFor'
    BY <2>1, <2>4, <2>5, <2>7 DEF AliveUntilEnd, BlockedSends, EndsOnlyFor
  <2> QED BY <1>1, <2>2, <2>3, <2>8 DEF Inv, Lasting
<1> QED BY <1>2, <1>3, <1>4 DEF HandleOutgoing, Sent

LEMMA SendReturnsInv == ASSUME Inv, SendReturns PROVE Inv'
<1>1. pc = "blocked" /\ mipd = "gone" /\ WriteFails /\ UNCHANGED <<connections, fits, ends, others>>
  BY DEF SendReturns
<1>2. ListIsReadable /\ Senders # {}
  BY <1>1 DEF Inv, BlockedSends
<1> QED BY <1>1, <1>2, WriteFailsInv

LEMMA LeaveInv == ASSUME Inv, LeaveLoop PROVE Inv'
<1>1. Lasting'
  BY LastingKept DEF LeaveLoop
<1>2. TypeOK'
  BY DEF Inv, TypeOK, LeaveLoop, End, ends, others
<1>3. EventsSound'
  BY EventsKept DEF LeaveLoop, Serving, End, ends, others
<1>4. AliveUntilEnd' /\ BlockedSends' /\ EndsOnlyFor'
  BY DEF LeaveLoop, End, AliveUntilEnd, BlockedSends, EndsOnlyFor
<1> QED BY <1>1, <1>2, <1>3, <1>4 DEF Inv, Lasting

LEMMA AcceptFailsInv == ASSUME Inv, AcceptFails PROVE Inv'
<1>1. Lasting'
  BY LastingKept DEF AcceptFails
<1>2. TypeOK'
  BY DEF Inv, TypeOK, AcceptFails, Serving, End, ends, others
<1>3. EventsSound'
  BY EventsKept DEF AcceptFails, Serving, End, ends, others
<1>4. AliveUntilEnd' /\ BlockedSends' /\ EndsOnlyFor'
  BY DEF AcceptFails, End, ends, AliveUntilEnd, BlockedSends, EndsOnlyFor
<1> QED BY <1>1, <1>2, <1>3, <1>4 DEF Inv, Lasting

LEMMA MipdWroteInv == ASSUME Inv, MipdWrote PROVE Inv'
<1>1. Lasting'
  BY LastingKept DEF MipdWrote
<1>2. TypeOK'
  BY DEF Inv, TypeOK, MipdWrote, Serving, End, ends, others
<1>3. EventsSound'
  BY EventsKept DEF MipdWrote, Serving, End, ends, others
<1>4. AliveUntilEnd' /\ BlockedSends' /\ EndsOnlyFor'
  BY DEF MipdWrote, End, others, AliveUntilEnd, BlockedSends, EndsOnlyFor
<1> QED BY <1>1, <1>2, <1>3, <1>4 DEF Inv, Lasting

LEMMA MipdLeftInv == ASSUME Inv, MipdLeft PROVE Inv'
<1>1. Lasting'
  BY LastingKept DEF MipdLeft
<1>2. TypeOK'
  BY DEF Inv, TypeOK, MipdLeft, Serving, Served, ends, others
<1>3. EventsSound'
  BY EventsKept DEF MipdLeft, Serving, Served, ends, others
<1>4. AliveUntilEnd' /\ BlockedSends' /\ EndsOnlyFor'
  BY NotEnded DEF MipdLeft, Serving, Served
<1> QED BY <1>1, <1>2, <1>3, <1>4 DEF Inv, Lasting

LEMMA IgnoreInv == ASSUME Inv, NEW c \in Clients, Ignore(c) PROVE Inv'
<1>1. Lasting'
  BY LastingKept DEF Ignore
<1>2. TypeOK'
  BY DEF Inv, TypeOK, Ignore, Serving, Served, ends, others
<1>3. EventsSound'
  BY EventsKept DEF Ignore, Serving, Served, ends, others
<1>4. AliveUntilEnd' /\ BlockedSends' /\ EndsOnlyFor'
  BY NotEnded DEF Ignore, Serving, Served
<1> QED BY <1>1, <1>2, <1>3, <1>4 DEF Inv, Lasting

LEMMA StopLineReadInv == ASSUME Inv, StopLineRead PROVE Inv'
<1>1. Lasting'
  BY LastingKept DEF StopLineRead
<1>2. TypeOK'
  BY DEF Inv, TypeOK, StopLineRead, Serving, Served, ends
<1>3. EventsSound'
  BY EventsKept DEF StopLineRead, Serving, Served, ends
<1>4. AliveUntilEnd' /\ BlockedSends' /\ EndsOnlyFor'
  BY NotEnded DEF StopLineRead, Serving, Served
<1> QED BY <1>1, <1>2, <1>3, <1>4 DEF Inv, Lasting

LEMMA WalkFailsInv == ASSUME Inv, WalkFails PROVE Inv'
<1>1. Lasting'
  BY LastingKept DEF WalkFails
<1>2. TypeOK'
  BY DEF Inv, TypeOK, WalkFails, End, ends, others
<1>3. EventsSound'
  BY EventsKept DEF WalkFails, Serving, End, ends, others
<1>4. ~ fits /\ connections # <<>> /\ fits' = fits /\ accepted' = accepted
  BY DEF WalkFails, ListIsReadable, ends
<1>5. accepted # {}
  BY <1>4, ListedAccepted
<1>6. AliveUntilEnd' /\ BlockedSends' /\ EndsOnlyFor'
  BY <1>4, <1>5 DEF WalkFails, End, AliveUntilEnd, BlockedSends, EndsOnlyFor
<1> QED BY <1>1, <1>2, <1>3, <1>6 DEF Inv, Lasting

LEMMA AcceptInv == ASSUME Inv, Accept PROVE Inv'
<1> DEFINE c == Head(backlog)
           r == [socket |-> c, status |-> "not_ready"]
<1>0. /\ pc = "serve" /\ "listen" \in events /\ result' = result
      /\ accepted' = accepted \cup {c} /\ backlog' = Tail(backlog)
      /\ connections' = Append(connections, r)
      /\ events' = events \ {"listen"}
      /\ pc' \in {"poll", "serve"}
      /\ UNCHANGED <<running, fits, open, written, unread, buffer, limit, stdin, mipd, package>>
  BY DEF Accept, Serving, Served, others
<1>1. /\ backlog \in Seq(Clients) /\ backlog # <<>> /\ connections \in Seq(Connection)
      /\ accepted \subseteq Clients
  BY <1>0 DEF Inv, TypeOK, EventsSound
<1>2. c \in Clients /\ c = backlog[1] /\ 1 \in DOMAIN backlog /\ Tail(backlog) \in Seq(Clients)
  BY <1>1
<1>3. c \notin accepted /\ \A k \in DOMAIN backlog : backlog[k] = c => k = 1
  BY <1>2 DEF Inv, BacklogSound
<1>4. r \in Connection /\ r.socket = c /\ r.status = "not_ready"
  BY <1>2 DEF Connection
<1>5. \A i \in DOMAIN connections : connections[i].socket # c
  BY <1>3 DEF Inv, Accepted, Sockets
<1>6. /\ connections' \in Seq(Connection)
      /\ OneEach'
      /\ Sockets' = Sockets \cup {c}
      /\ \A i \in DOMAIN connections' :
            connections'[i] = r \/ \E k \in DOMAIN connections : connections'[i] = connections[k]
  <2> HIDE DEF c, r
  <2>1. \A i, k \in DOMAIN connections : connections[i].socket = connections[k].socket => i = k
    BY DEF Inv, OneEach
  <2>2. /\ connections' \in Seq(Connection)
        /\ OneEach'
        /\ Sockets' = {connections[i].socket : i \in DOMAIN connections} \cup {r.socket}
        /\ \A i \in DOMAIN connections' :
              connections'[i] = r \/ \E k \in DOMAIN connections : connections'[i] = connections[k]
    BY <1>0, <1>1, <1>4, <1>5, <2>1, AppendedFacts
  <2> QED BY <1>4, <2>2 DEF Sockets
<1>7. TypeOK'
  <2> HIDE DEF c, r
  <2>1. accepted' \subseteq Clients /\ backlog' \in Seq(Clients)
    BY <1>0, <1>1, <1>2
  <2> QED BY <1>0, <1>6, <2>1 DEF Inv, TypeOK, Accept, Served
<1>8. BacklogSound'
  <2>1. \A i \in DOMAIN Tail(backlog) :
            i + 1 \in DOMAIN backlog /\ i \in Nat /\ Tail(backlog)[i] = backlog[i + 1]
    BY <1>1
  <2>2. \A i \in DOMAIN Tail(backlog) : i + 1 # 1
    BY <2>1
  <2>3. \A i \in DOMAIN Tail(backlog) :
            backlog[i + 1] # c /\ backlog[i + 1] \notin accepted
    BY <1>3, <2>1, <2>2 DEF Inv, BacklogSound
  <2>4. \A i, k \in DOMAIN Tail(backlog) : backlog[i + 1] = backlog[k + 1] => i + 1 = k + 1
    BY <2>1 DEF Inv, BacklogSound
  <2>5. \A i, k \in DOMAIN Tail(backlog) : i + 1 = k + 1 => i = k
    BY <2>1
  <2> HIDE DEF c, r
  <2> QED BY <1>0, <2>1, <2>3, <2>4, <2>5 DEF BacklogSound
<1>9. UnreadAskedFor' /\ WrittenAreRequests'
  BY <1>0 DEF Inv, UnreadAskedFor, WrittenAreRequests
<1>10. EventsSound'
  <2> HIDE DEF c, r
  <2> QED BY <1>0 DEF Inv, EventsSound
<1>11. Accepted' /\ Listed' /\ SendersAsked'
  <2> HIDE DEF c, r
  <2>1. Accepted' /\ Listed'
    BY <1>0, <1>6 DEF Inv, Accepted, Listed
  <2>2. SendersAsked'
    BY <1>0, <1>4, <1>6 DEF Inv, SendersAsked, AskedFor
  <2> QED BY <2>1, <2>2
<1>12. AliveUntilEnd' /\ BlockedSends' /\ EndsOnlyFor'
  BY <1>0, NotEnded
<1> QED BY <1>6, <1>7, <1>8, <1>9, <1>10, <1>11, <1>12 DEF Inv

LEMMA DisconnectInv == ASSUME Inv, NEW c \in Clients, Disconnect(c) PROVE Inv'
<1>0. /\ pc = "serve" /\ c \in events /\ result' = result
      /\ unread[c] = <<>>
      /\ connections' = Without(c)
      /\ events' = events \ {c}
      /\ pc' \in {"poll", "serve"}
      /\ UNCHANGED <<running, fits, backlog, accepted, open, written, unread, buffer, limit>>
      /\ UNCHANGED <<stdin, mipd, package>>
  BY DEF Disconnect, Serving, Served, ends, others
<1>1. c \notin open
  BY <1>0 DEF Inv, EventsSound
<1>2. /\ connections' \in Seq(Connection)
      /\ OneEach'
      /\ Sockets' = Sockets \ {c}
      /\ \A i \in DOMAIN connections' :
            \E k \in DOMAIN connections : connections'[i] = connections[k]
  BY <1>0, RemovedFacts DEF Inv, TypeOK
<1>3. TypeOK'
  BY <1>0, <1>2 DEF Inv, TypeOK, Disconnect, Served
<1>4. BacklogSound' /\ UnreadAskedFor' /\ WrittenAreRequests'
  BY <1>0 DEF Inv, BacklogSound, UnreadAskedFor, WrittenAreRequests
<1>5. EventsSound'
  BY <1>0, EventsKept
<1>6. Accepted' /\ Listed' /\ SendersAsked'
  <2>1. Accepted' /\ Listed'
    BY <1>0, <1>1, <1>2 DEF Inv, Accepted, Listed
  <2>2. SendersAsked'
    BY <1>0, <1>2 DEF Inv, SendersAsked, AskedFor
  <2> QED BY <2>1, <2>2
<1>7. AliveUntilEnd' /\ BlockedSends' /\ EndsOnlyFor'
  BY <1>0, NotEnded
<1> QED BY <1>2, <1>3, <1>4, <1>5, <1>6, <1>7 DEF Inv

LEMMA HandleAppPackageInv == ASSUME Inv, NEW c \in Clients, HandleAppPackage(c) PROVE Inv'
<1> DEFINE kind == Head(unread[c])
<1>0. /\ pc = "serve" /\ c \in events /\ c \in Sockets
      /\ unread[c] # <<>>
      /\ unread' = [unread EXCEPT ![c] = <<>>]
      /\ UNCHANGED <<running, fits, backlog, accepted, open, written, buffer, limit>>
      /\ UNCHANGED <<stdin, mipd, package>>
  BY DEF HandleAppPackage, Serving, Served, End, others
<1>1. unread \in [Clients -> Seq(Kinds)] /\ unread' \in [Clients -> Seq(Kinds)]
  BY <1>0 DEF Inv, TypeOK
<1>2. \E k \in 1 .. written[c] : Requests[c][k] = kind
  <2>1. 1 \in DOMAIN unread[c] /\ kind = unread[c][1]
    BY <1>0, <1>1
  <2> QED BY <2>1 DEF Inv, UnreadAskedFor
<1>3. BacklogSound' /\ WrittenAreRequests'
  BY <1>0 DEF Inv, BacklogSound, WrittenAreRequests
<1>4. UnreadAskedFor'
  <2>1. ASSUME NEW x \in Clients, NEW i \in DOMAIN unread'[x]
        PROVE  i \in DOMAIN unread[x] /\ unread'[x][i] = unread[x][i]
    <3>1. CASE x = c
      <4>1. unread'[x] = <<>>
        BY <1>0, <1>1, <3>1
      <4> QED BY <4>1
    <3>2. CASE x # c
      BY <1>0, <1>1, <3>2
    <3> QED BY <3>1, <3>2
  <2> QED BY <1>0, <2>1 DEF Inv, UnreadAskedFor
<1>5. CASE kind \in {"receiver", "invalid"}
  <2>1. /\ pc' = "ended" /\ result' = "failed" /\ events' = events
        /\ connections' = connections
    BY <1>5 DEF HandleAppPackage, End
  <2>2. TypeOK'
    BY <1>0, <1>1, <2>1 DEF Inv, TypeOK
  <2>3. OneEach' /\ Sockets' = Sockets
    BY <2>1 DEF Inv, OneEach, Sockets
  <2>4. Accepted' /\ Listed' /\ SendersAsked'
    BY <1>0, <2>1, <2>3 DEF Inv, Accepted, Listed, SendersAsked, AskedFor
  <2>5. EventsSound'
    BY <1>0, <2>1 DEF Inv, EventsSound
  <2>6. AliveUntilEnd' /\ BlockedSends' /\ EndsOnlyFor'
    <3> HIDE DEF kind
    <3>1. Asked({"receiver", "invalid"})'
      BY <1>0, <1>2, <1>5 DEF Asked
    <3> QED BY <2>1, <3>1 DEF AliveUntilEnd, BlockedSends, EndsOnlyFor
  <2> QED BY <1>3, <1>4, <2>2, <2>3, <2>4, <2>5, <2>6 DEF Inv
<1>6. CASE kind \notin {"receiver", "invalid"}
  <2>0. kind \in {"sender", "large", "untyped"}
    BY <1>0, <1>1, <1>6 DEF Kinds
  <2>1. /\ connections' = Replaced(c, kind)
        /\ events' = events \ {c} /\ result' = result
        /\ pc' = IF events = {c} THEN "poll" ELSE "serve"
    BY <1>6 DEF HandleAppPackage, Served
  <2> HIDE DEF kind
  <2>2. /\ connections' \in Seq(Connection)
        /\ OneEach'
        /\ Sockets' = Sockets \cup {c}
        /\ \A i \in DOMAIN connections' :
              \/ \E k \in DOMAIN connections : connections'[i] = connections[k]
              \/ connections'[i].socket = c /\ connections'[i].status \in {kind, "not_ready"}
    BY <2>0, <2>1, ReplacedFacts DEF Inv, TypeOK
  <2>3. TypeOK'
    BY <1>0, <1>1, <2>1, <2>2 DEF Inv, TypeOK
  <2>4. Accepted' /\ Listed'
    BY <1>0, <2>2 DEF Inv, Accepted, Listed
  <2>5. SendersAsked'
    <3>1. ASSUME NEW i \in DOMAIN connections' PROVE AskedFor(connections[i])'
      <4>1. CASE \E k \in DOMAIN connections : connections'[i] = connections[k]
        BY <1>0, <4>1 DEF Inv, SendersAsked, AskedFor
      <4>2. CASE connections'[i].socket = c /\ connections'[i].status \in {kind, "not_ready"}
        BY <1>0, <1>2, <4>2 DEF AskedFor
      <4> QED BY <2>2, <4>1, <4>2
    <3> QED BY <3>1 DEF SendersAsked
  <2>6. EventsSound'
    <3>1. \A x \in Clients : x \in events' => unread'[x] = unread[x]
      BY <1>0, <1>1, <2>1
    <3> QED BY <1>0, <2>1, <3>1 DEF Inv, EventsSound
  <2>7. AliveUntilEnd' /\ BlockedSends' /\ EndsOnlyFor'
    BY <1>0, <2>1, NotEnded
  <2> QED BY <1>3, <1>4, <2>2, <2>3, <2>4, <2>5, <2>6, <2>7 DEF Inv
<1> QED BY <1>5, <1>6

LEMMA ConnectInv == ASSUME Inv, NEW c \in Clients, Connect(c) PROVE Inv'
<1>0. /\ pc # "ended" /\ c \notin accepted /\ c \notin Range(backlog)
      /\ open' = open \cup {c} /\ backlog' = Append(backlog, c)
      /\ UNCHANGED <<pc, running, result, events, connections, fits, accepted, written>>
      /\ UNCHANGED <<unread, buffer, limit, stdin, mipd, package>>
  BY DEF Connect, control, others
<1>1. backlog \in Seq(Clients) /\ backlog' \in Seq(Clients)
  BY <1>0 DEF Inv, TypeOK
<1>2. TypeOK'
  BY <1>0, <1>1 DEF Inv, TypeOK
<1>3. BacklogSound'
  <2> DEFINE n == Len(backlog)
  <2>1. /\ n \in Nat /\ DOMAIN backlog = 1 .. n /\ DOMAIN backlog' = 1 .. n + 1
        /\ backlog'[n + 1] = c
        /\ \A i \in 1 .. n : backlog'[i] = backlog[i]
    BY <1>0, <1>1
  <2>2. /\ \A i \in DOMAIN backlog' : i \in DOMAIN backlog \/ i = n + 1
        /\ \A i \in DOMAIN backlog : backlog'[i] = backlog[i]
        /\ backlog'[n + 1] = c
    BY <2>1
  <2>3. \A i \in DOMAIN backlog : backlog[i] # c
    BY <1>0 DEF Range
  <2> HIDE DEF n
  <2> QED BY <1>0, <2>2, <2>3 DEF Inv, BacklogSound
<1>4. UnreadAskedFor' /\ WrittenAreRequests' /\ OneEach'
  BY <1>0 DEF Inv, UnreadAskedFor, WrittenAreRequests, OneEach
<1>5. Sockets' = Sockets
  BY <1>0 DEF Sockets
<1>6. Accepted' /\ Listed' /\ SendersAsked'
  BY <1>0, <1>5 DEF Inv, Accepted, Listed, SendersAsked, AskedFor
<1>7. EventsSound'
  BY <1>0, <1>1 DEF Inv, EventsSound
<1>8. AliveUntilEnd' /\ BlockedSends' /\ EndsOnlyFor'
  BY <1>0, NotEnded
<1> QED BY <1>2, <1>3, <1>4, <1>6, <1>7, <1>8 DEF Inv

LEMMA WriteRequestInv == ASSUME Inv, NEW c \in Clients, WriteRequest(c) PROVE Inv'
<1>0. /\ pc # "ended" /\ written[c] < Len(Requests[c])
      /\ written' = [written EXCEPT ![c] = @ + 1]
      /\ unread' = [unread EXCEPT ![c] = Append(@, Requests[c][written'[c]])]
      /\ UNCHANGED <<pc, running, result, events, connections, fits, backlog, accepted>>
      /\ UNCHANGED <<open, buffer, limit, stdin, mipd, package>>
  BY DEF WriteRequest, control, others
<1> DEFINE n == written[c] + 1
           request == Requests[c][n]
<1>1. /\ written \in [Clients -> Nat] /\ unread \in [Clients -> Seq(Kinds)]
      /\ Requests[c] \in Seq(Kinds)
  BY MiptpdAssumption DEF Inv, TypeOK
<1>2. n \in 1 .. Len(Requests[c]) /\ written[c] \in Nat /\ written'[c] = n
  BY <1>0, <1>1
<1>3. request \in Kinds
  BY <1>1, <1>2
<1>4. /\ written' \in [Clients -> Nat]
      /\ \A x \in Clients : x # c => written'[x] = written[x]
  BY <1>0, <1>1
<1>5. /\ unread' \in [Clients -> Seq(Kinds)]
      /\ unread'[c] = Append(unread[c], request)
      /\ \A x \in Clients : x # c => unread'[x] = unread[x]
  <2>1. unread' = [unread EXCEPT ![c] = Append(@, request)]
    BY <1>0, <1>2
  <2> HIDE DEF request
  <2> QED BY <1>1, <1>3, <2>1
<1>6. TypeOK'
  BY <1>0, <1>4, <1>5 DEF Inv, TypeOK
<1>7. ASSUME NEW x \in Clients, NEW k \in 1 .. written[x]
      PROVE  k \in 1 .. written'[x]
  <2>1. CASE x = c
    BY <1>2, <1>7, <2>1
  <2>2. CASE x # c
    BY <1>4, <1>7, <2>2
  <2> QED BY <2>1, <2>2
<1>8. BacklogSound' /\ OneEach'
  BY <1>0 DEF Inv, BacklogSound, OneEach
<1>9. WrittenAreRequests'
  <2>1. written'[c] <= Len(Requests[c])
    BY <1>2
  <2> QED BY <1>4, <2>1 DEF Inv, WrittenAreRequests
<1>10. UnreadAskedFor'
  <2>1. ASSUME NEW x \in Clients, NEW i \in DOMAIN unread'[x]
        PROVE  \E k \in 1 .. written'[x] : Requests[x][k] = unread'[x][i]
    <3>1. CASE i \in DOMAIN unread[x] /\ unread'[x][i] = unread[x][i]
      BY <3>1, <1>7 DEF Inv, UnreadAskedFor
    <3>2. CASE x = c /\ unread'[x][i] = request
      BY <3>2, <1>2
    <3>3. CASE x # c
      BY <3>1, <3>3, <2>1, <1>5
    <3>4. CASE x = c
      <4>1. unread[c] \in Seq(Kinds)
        BY <1>1
      <4>2. \/ i \in DOMAIN unread[c] /\ Append(unread[c], request)[i] = unread[c][i]
            \/ Append(unread[c], request)[i] = request
        BY <4>1, <1>5, <2>1, <3>4
      <4> QED BY <4>2, <3>1, <3>2, <3>4, <1>5
    <3> QED BY <3>3, <3>4
  <2> QED BY <2>1 DEF UnreadAskedFor
<1>11. Sockets' = Sockets
  BY <1>0 DEF Sockets
<1>12. Accepted' /\ Listed'
  BY <1>0, <1>11 DEF Inv, Accepted, Listed
<1>13. SendersAsked'
  <2>1. \A i \in DOMAIN connections : connections[i].socket \in Clients
    <3>1. connections \in Seq(Connection)
      BY DEF Inv, TypeOK
    <3>2. \A i \in DOMAIN connections : connections[i] \in Connection
      BY <3>1
    <3> QED BY <3>2 DEF Connection
  <2> QED BY <1>0, <1>7, <2>1 DEF Inv, SendersAsked, AskedFor
<1>14. EventsSound'
  <2>1. unread'[c] # <<>>
    <3>1. unread[c] \in Seq(Kinds)
      BY <1>1
    <3> HIDE DEF request
    <3>2. Append(unread[c], request) # <<>>
      BY <3>1
    <3> QED BY <3>2, <1>5
  <2> QED BY <1>0, <1>5, <2>1 DEF Inv, EventsSound
<1>15. AliveUntilEnd' /\ BlockedSends' /\ EndsOnlyFor'
  BY <1>0, NotEnded
<1> QED BY <1>6, <1>8, <1>9, <1>10, <1>12, <1>13, <1>14, <1>15 DEF Inv

LEMMA CloseInv == ASSUME Inv, NEW c \in Clients, Close(c) PROVE Inv'
<1>0. /\ pc # "ended" /\ open' = open \ {c}
      /\ UNCHANGED <<pc, running, result, events, connections, fits, backlog, accepted>>
      /\ UNCHANGED <<written, unread, buffer, limit, stdin, mipd, package>>
  BY DEF Close, control, others
<1>1. TypeOK'
  BY <1>0 DEF Inv, TypeOK
<1>2. BacklogSound' /\ UnreadAskedFor' /\ WrittenAreRequests' /\ OneEach'
  BY <1>0 DEF Inv, BacklogSound, UnreadAskedFor, WrittenAreRequests, OneEach
<1>3. Sockets' = Sockets
  BY <1>0 DEF Sockets
<1>4. Accepted' /\ Listed' /\ SendersAsked'
  BY <1>0, <1>3 DEF Inv, Accepted, Listed, SendersAsked, AskedFor
<1>5. EventsSound'
  BY <1>0 DEF Inv, EventsSound
<1>6. AliveUntilEnd' /\ BlockedSends' /\ EndsOnlyFor'
  BY <1>0, NotEnded
<1> QED BY <1>1, <1>2, <1>4, <1>5, <1>6 DEF Inv

LEMMA OutsideInv == ASSUME Inv, MipdWrites \/ MipdDeafens \/ MipdExits \/ StopLine PROVE Inv'
<1>0. /\ pc # "ended"
      /\ UNCHANGED <<control, connections, fits, ends>>
      /\ package \/ mipd = "gone" => package' \/ mipd' = "gone"
  BY DEF MipdWrites, MipdDeafens, MipdExits, StopLine
<1>1. Lasting'
  BY <1>0, LastingKept
<1>2. TypeOK'
  BY DEF Inv, TypeOK, MipdWrites, MipdDeafens, MipdExits, StopLine, control, ends
<1>3. EventsSound'
  BY <1>0, EventsKept DEF control, ends
<1>4. AliveUntilEnd' /\ BlockedSends' /\ EndsOnlyFor'
  BY <1>0, NotEnded DEF control
<1> QED BY <1>1, <1>2, <1>3, <1>4 DEF Inv, Lasting

LEMMA StutterInv == ASSUME Inv, UNCHANGED vars PROVE Inv'
<1>0. UNCHANGED <<control, connections, fits, ends, others>>
  BY DEF vars
<1>1. Lasting'
  BY <1>0, LastingKept
<1>2. TypeOK'
  BY <1>0 DEF Inv, TypeOK, control, ends, others
<1>3. EventsSound' /\ AliveUntilEnd'
  BY <1>0 DEF Inv, EventsSound, AliveUntilEnd, control, ends, others
<1>4. BlockedSends' /\ EndsOnlyFor'
  <2>1. Senders' = Senders
    BY <1>0 DEF Senders, WithStatus
  <2>2. \A kinds : Asked(kinds)' <=> Asked(kinds)
    BY <1>0 DEF Asked, ends
  <2> QED BY <1>0, <2>1, <2>2 DEF Inv, EndsOnlyFor, BlockedSends, ListIsReadable, control, ends, others
<1> QED BY <1>1, <1>2, <1>3, <1>4 DEF Inv, Lasting

LEMMA StepInv == ASSUME Inv, [Next]_vars PROVE Inv'
<1>1. CASE EpollWait
  BY <1>1, PollInv
<1>2. CASE Loop
  BY <1>2, OutgoingInv, SendReturnsInv, LeaveInv DEF Loop
<1>3. CASE Serve
  <2>1. CASE MipdWrote \/ MipdLeft
    BY <2>1, MipdWroteInv, MipdLeftInv
  <2>2. CASE Accept \/ AcceptFails
    BY <2>2, AcceptInv, AcceptFailsInv
  <2>3. ASSUME NEW c \in Clients, HandleAppPackage(c) \/ Disconnect(c) \/ Ignore(c)
        PROVE  Inv'
    BY <2>3, HandleAppPackageInv, DisconnectInv, IgnoreInv
  <2>4. CASE StopLineRead \/ WalkFails
    BY <2>4, StopLineReadInv, WalkFailsInv
  <2> QED BY <1>3, <2>1, <2>2, <2>3, <2>4 DEF Serve
<1>4. ASSUME NEW c \in Clients, Connect(c) \/ WriteRequest(c) \/ Close(c)
      PROVE  Inv'
  BY <1>4, ConnectInv, WriteRequestInv, CloseInv
<1>5. CASE MipdWrites \/ MipdDeafens \/ MipdExits \/ StopLine
  BY <1>5, OutsideInv
<1>6. CASE UNCHANGED vars
  BY <1>6, StutterInv
<1> QED BY <1>1, <1>2, <1>3, <1>4, <1>5, <1>6 DEF Next

-----------------------------------------------------------------------------
(* Theorems                                                                 *)

\* The inductive invariant of miptpd's loop (MIPTPServer_run).
THEOREM ServerInvariance == Spec => []Inv
<1>1. Init => Inv
  BY InitInv
<1>2. Inv /\ [Next]_vars => Inv'
  BY StepInv
<1> QED BY <1>1, <1>2, PTL DEF Spec

\* Every step of miptpd and of its applications keeps the types of the state:
\* no connection ever has another status than the two the code knows.
THEOREM ServerTypes == Spec => []TypeOK
<1>1. Inv => TypeOK
  BY DEF Inv
<1> QED BY <1>1, ServerInvariance, PTL

\* Whatever applications ask, close and leave in whatever order, the list has
\* one connection for each that is there, and senders have asked to send
\* (miptp_app_controller.c:66-68, 153-170).
THEOREM ServerConnections == Spec => []ConnectionsSound
<1>1. Inv => ConnectionsSound
  <2> SUFFICES ASSUME Inv PROVE ConnectionsSound
    OBVIOUS
  <2>1. ASSUME NEW c \in Senders
        PROVE  \E i \in 1 .. written[c] : Requests[c][i] \in {"sender", "large"}
    <3>1. PICK k \in DOMAIN connections :
              connections[k].socket = c /\ connections[k].status \in {"sender", "large"}
      BY DEF Senders, WithStatus
    <3>2. AskedFor(connections[k])
      BY DEF Inv, SendersAsked
    <3> QED BY <3>1, <3>2 DEF AskedFor
  <2> QED BY <2>1 DEF Inv, OneEach, Accepted, Listed, ConnectionsSound
<1> QED BY <1>1, ServerInvariance, PTL

\* Whatever applications do, miptpd ends only for the known causes, of which the
\* number of applications it has ever accepted is one (miptp_server.c:88-154).
THEOREM ServerEnds == Spec => []EndsOnlyFor
<1>1. Inv => EndsOnlyFor
  BY DEF Inv
<1> QED BY <1>1, ServerInvariance, PTL
=============================================================================
