--------------------------- MODULE TransportProofs ---------------------------
(***************************************************************************)
(* What holds of a transport package in every network, whatever the        *)
(* routing daemons answer: it crosses a bounded number of links, and it    *)
(* keeps the address of the host it comes from.                            *)
(***************************************************************************)
EXTENDS Transport, TLAPS

(***************************************************************************)
(* LinksBounded needs the account of the time to live that every hop       *)
(* keeps, and SourceIsOrigin that an address is missing only at the source.*)
(***************************************************************************)
TTLAccount ==
    \A p \in Packages :
        /\ state[p] = "new" => links[p] + ttl[p] = InitialTTL
        /\ state[p] = "queued" => links[p] + ttl[p] = InitialTTL
        /\ state[p] = "sent" => links[p] + ttl[p] = InitialTTL + 1
        /\ links[p] <= InitialTTL + 1

SourceAccount ==
    \A p \in Packages :
        /\ state[p] = "new" => src[p] = NoAddress /\ host[p] = Source[p]
        /\ state[p] = "queued" =>
              src[p] \in Own[Source[p]] \/ (src[p] = NoAddress /\ host[p] = Source[p])
        /\ state[p] \in {"sent", "delivered"} => src[p] \in Own[Source[p]]

IInv == TypeOK /\ TTLAccount /\ SourceAccount

\* Neighbours are hosts, and a host's address on a link is its own.
LEMMA LinkFacts ==
    ASSUME NEW x \in Nodes, NEW y \in Neighbours[x]
    PROVE  y \in Nodes /\ Address[x][y] \in Own[x] /\ Address[x][y] \in Addresses
                /\ Address[x][y] # NoAddress
  BY TransportAssumption DEF Addresses

\* A package that is sent, with an address of its source.
LEMMA SendToKeeps ==
    ASSUME IInv, NEW p \in Packages, NEW x \in Nodes, NEW y \in Neighbours[x],
           NEW a \in Addresses, a \in Own[Source[p]],
           SendTo(p, x, y, a), state[p] \in {"new", "queued"},
           UNCHANGED <<arp, app, ttl>>
    PROVE  IInv'
<1>1. /\ links[p] \in Nat /\ ttl[p] \in 0 .. InitialTTL /\ InitialTTL \in Nat
      /\ links[p] + ttl[p] = InitialTTL
  BY TransportAssumption DEF IInv, TypeOK, TTLAccount
<1> DEFINE n == links[p]
           t == ttl[p]
<1>2. links' = [links EXCEPT ![p] = n + 1]
  <2>1. ~(n > InitialTTL + 1)
    BY <1>1
  <2>2. links' = [links EXCEPT ![p] = IF n > InitialTTL + 1 THEN n ELSE n + 1]
    BY DEF SendTo
  <2> HIDE DEF n
  <2> QED
    BY <2>1, <2>2
<1>3. n + 1 \in Nat /\ (n + 1) + t = InitialTTL + 1 /\ n + 1 <= InitialTTL + 1
  BY <1>1
<1> HIDE DEF n, t
<1>4. /\ state' = [state EXCEPT ![p] = "sent"]
      /\ host' = [host EXCEPT ![p] = y]
      /\ src' = [src EXCEPT ![p] = a]
  BY DEF SendTo
<1>5. y \in Nodes
  BY LinkFacts
<1>6. TypeOK'
  BY <1>2, <1>3, <1>4, <1>5 DEF IInv, TypeOK, States
<1>7. TTLAccount'
  <2> SUFFICES ASSUME NEW q \in Packages
               PROVE  /\ state'[q] = "new" => links'[q] + ttl'[q] = InitialTTL
                      /\ state'[q] = "queued" => links'[q] + ttl'[q] = InitialTTL
                      /\ state'[q] = "sent" => links'[q] + ttl'[q] = InitialTTL + 1
                      /\ links'[q] <= InitialTTL + 1
    BY DEF TTLAccount
  <2>1. CASE q = p
    <3>1. state'[p] = "sent" /\ links'[p] = n + 1 /\ ttl'[p] = t
      BY <1>2, <1>4 DEF IInv, TypeOK, t
    <3> QED
      BY <1>3, <2>1, <3>1
  <2>2. CASE q # p
    <3>1. state'[q] = state[q] /\ links'[q] = links[q] /\ ttl'[q] = ttl[q]
      BY <1>2, <1>4, <2>2 DEF IInv, TypeOK
    <3> QED
      BY <3>1 DEF IInv, TTLAccount
  <2> QED
    BY <2>1, <2>2
<1>8. SourceAccount'
  BY <1>4 DEF IInv, TypeOK, SourceAccount
<1> QED
  BY <1>6, <1>7, <1>8 DEF IInv

\* A package that stays where it is.
LEMMA BecomesKeeps ==
    ASSUME IInv, NEW p \in Packages, NEW end \in States,
           Becomes(p, end), UNCHANGED <<arp, app>>,
           ttl' \in [Packages -> 0 .. InitialTTL],
           \A q \in Packages \ {p} : ttl'[q] = ttl[q],
           end \notin {"new", "sent"},
           end = "queued" => /\ links[p] + ttl'[p] = InitialTTL
                             /\ state[p] \in {"new", "sent"},
           end = "delivered" => state[p] = "sent"
    PROVE  IInv'
<1>1. /\ state' = [state EXCEPT ![p] = end]
      /\ UNCHANGED <<host, src, links, arp, app>>
  BY DEF Becomes
<1>2. TypeOK'
  BY <1>1 DEF IInv, TypeOK
<1>3. TTLAccount'
  <2> SUFFICES ASSUME NEW q \in Packages
               PROVE  /\ state'[q] = "new" => links'[q] + ttl'[q] = InitialTTL
                      /\ state'[q] = "queued" => links'[q] + ttl'[q] = InitialTTL
                      /\ state'[q] = "sent" => links'[q] + ttl'[q] = InitialTTL + 1
                      /\ links'[q] <= InitialTTL + 1
    BY DEF TTLAccount
  <2>0. links'[q] = links[q] /\ links[q] <= InitialTTL + 1
    BY <1>1 DEF IInv, TTLAccount
  <2>1. CASE q = p
    <3>1. state'[p] = end
      BY <1>1 DEF IInv, TypeOK
    <3> QED
      BY <2>0, <2>1, <3>1
  <2>2. CASE q # p
    <3>1. state'[q] = state[q] /\ ttl'[q] = ttl[q]
      BY <1>1, <2>2 DEF IInv, TypeOK
    <3> QED
      BY <2>0, <3>1 DEF IInv, TTLAccount
  <2> QED
    BY <2>1, <2>2
<1>4. SourceAccount'
  BY <1>1 DEF IInv, TypeOK, SourceAccount
<1> QED
  BY <1>2, <1>3, <1>4 DEF IInv

LEMMA SendDirectKeeps ==
    ASSUME IInv, NEW p \in Packages, SendDirect(p)
    PROVE  IInv'
<1>1. Source[p] \in Nodes
  BY TransportAssumption
<1>2. PICK y \in arp[Source[p]] : SendTo(p, Source[p], y, Address[Source[p]][y])
  BY DEF SendDirect
<1>3. y \in Neighbours[Source[p]]
  BY <1>1 DEF IInv, TypeOK
<1>4. state[p] = "new" /\ UNCHANGED <<arp, app, ttl>>
  BY DEF SendDirect
<1> QED
  BY <1>1, <1>2, <1>3, <1>4, LinkFacts, SendToKeeps

LEMMA SendQueuedKeeps ==
    ASSUME IInv, NEW p \in Packages, SendQueued(p)
    PROVE  IInv'
<1>1. state[p] = "new" /\ UNCHANGED <<arp, app, ttl>>
  BY DEF SendQueued
<1>2. PICK s \in {"queued", "dropped"} : Becomes(p, s)
  BY DEF SendQueued
<1>3. links[p] + ttl'[p] = InitialTTL
  BY <1>1 DEF IInv, TTLAccount
<1>4. ttl' \in [Packages -> 0 .. InitialTTL] /\ \A q \in Packages \ {p} : ttl'[q] = ttl[q]
  BY <1>1 DEF IInv, TypeOK
<1>5. s \in States /\ s \notin {"new", "sent"} /\ s # "delivered"
  BY DEF States
<1> QED
  BY <1>1, <1>2, <1>3, <1>4, <1>5, BecomesKeeps

LEMMA ForwardKeeps ==
    ASSUME IInv, NEW p \in Packages, Forward(p)
    PROVE  IInv'
<1> DEFINE a(y) == IF src[p] = NoAddress THEN Address[host[p]][y] ELSE src[p]
<1>1. host[p] \in Nodes /\ src[p] \in Addresses
  BY DEF IInv, TypeOK
<1>2. state[p] = "queued" /\ UNCHANGED <<arp, app, ttl>>
  BY DEF Forward
<1>3. PICK y \in arp[host[p]] : SendTo(p, host[p], y, a(y))
  BY DEF Forward
<1>4. y \in Neighbours[host[p]]
  BY <1>1 DEF IInv, TypeOK
<1>5. src[p] \in Own[Source[p]] \/ (src[p] = NoAddress /\ host[p] = Source[p])
  BY <1>2 DEF IInv, SourceAccount
<1>6. a(y) \in Own[Source[p]] /\ a(y) \in Addresses
  <2>1. CASE src[p] = NoAddress
    <3>1. Source[p] \in Nodes
      BY TransportAssumption
    <3>2. host[p] = Source[p]
      BY <1>5, <2>1, <3>1, TransportAssumption
    <3> QED
      BY <1>1, <1>4, <2>1, <3>2, LinkFacts
  <2>2. CASE src[p] # NoAddress
    BY <1>1, <1>5, <2>2
  <2> QED
    BY <2>1, <2>2
<1> HIDE DEF a
<1> QED
  BY <1>1, <1>2, <1>3, <1>4, <1>6, SendToKeeps

LEMMA DroppedKeeps ==
    ASSUME IInv, NEW p \in Packages, NoRoute(p) \/ Lose(p)
    PROVE  IInv'
<1>1. UNCHANGED <<arp, app, ttl>> /\ Becomes(p, "dropped")
  BY DEF NoRoute, Lose
<1>2. ttl' \in [Packages -> 0 .. InitialTTL] /\ \A q \in Packages \ {p} : ttl'[q] = ttl[q]
  BY <1>1 DEF IInv, TypeOK
<1>3. "dropped" \in States
  BY DEF States
<1> QED
  BY <1>1, <1>2, <1>3, BecomesKeeps

LEMMA ArriveKeeps ==
    ASSUME IInv, NEW p \in Packages, Arrive(p)
    PROVE  IInv'
<1>1. state[p] = "sent" /\ UNCHANGED <<arp, app>>
  BY DEF Arrive
<1>2. ttl \in [Packages -> 0 .. InitialTTL] /\ InitialTTL \in Nat /\ links[p] \in Nat
  BY TransportAssumption DEF IInv, TypeOK
<1>3. CASE UNCHANGED ttl /\ \E end \in {"delivered", "dropped"} : Becomes(p, end)
  <2>1. PICK end \in {"delivered", "dropped"} : Becomes(p, end)
    BY <1>3
  <2>2. end \in States /\ end \notin {"new", "sent", "queued"}
    BY DEF States
  <2>3. ttl' \in [Packages -> 0 .. InitialTTL] /\ \A q \in Packages \ {p} : ttl'[q] = ttl[q]
    BY <1>2, <1>3
  <2> QED
    BY <1>1, <2>1, <2>2, <2>3, BecomesKeeps
<1>4. CASE /\ ttl[p] # 0
           /\ ttl' = [ttl EXCEPT ![p] = @ - 1]
           /\ \E s \in {"queued", "dropped"} : Becomes(p, s)
  <2> DEFINE t == ttl[p]
             n == links[p]
  <2>1. t \in 0 .. InitialTTL /\ t # 0 /\ n \in Nat /\ n + t = InitialTTL + 1
    BY <1>1, <1>2, <1>4 DEF IInv, TTLAccount
  <2>2. ttl' = [ttl EXCEPT ![p] = t - 1]
    BY <1>4
  <2> HIDE DEF t, n
  <2>3. t - 1 \in 0 .. InitialTTL /\ n + (t - 1) = InitialTTL
    BY <1>2, <2>1
  <2>4. /\ ttl' \in [Packages -> 0 .. InitialTTL]
        /\ \A q \in Packages \ {p} : ttl'[q] = ttl[q]
        /\ ttl'[p] = t - 1
    BY <1>2, <2>2, <2>3
  <2>5. PICK s \in {"queued", "dropped"} : Becomes(p, s)
    BY <1>4
  <2>6. links[p] + ttl'[p] = InitialTTL
    BY <2>3, <2>4 DEF n
  <2>7. s \in States /\ s \notin {"new", "sent"} /\ s # "delivered"
    BY DEF States
  <2> QED
    BY <1>1, <2>4, <2>5, <2>6, <2>7, BecomesKeeps
<1> QED
  BY <1>3, <1>4 DEF Arrive

-----------------------------------------------------------------------------
(* The theorems                                                             *)

\* The accounts hold of every reachable state of every network.
THEOREM Invariance == Spec => []IInv
<1>1. Init => IInv
  <2> SUFFICES ASSUME Init PROVE IInv
    OBVIOUS
  <2>1. TypeOK
    BY TransportAssumption DEF Init, TypeOK, States, Addresses
  <2>2. TTLAccount
    <3>1. 0 + InitialTTL = InitialTTL /\ 0 <= InitialTTL + 1
      BY TransportAssumption
    <3>2. \A p \in Packages : state[p] = "new" /\ links[p] = 0 /\ ttl[p] = InitialTTL
      BY DEF Init
    <3> QED
      BY <3>1, <3>2 DEF TTLAccount
  <2>3. SourceAccount
    BY TransportAssumption DEF Init, SourceAccount
  <2> QED
    BY <2>1, <2>2, <2>3 DEF IInv
<1>2. IInv /\ [Next]_vars => IInv'
  <2> SUFFICES ASSUME IInv, [Next]_vars PROVE IInv'
    OBVIOUS
  <2>1. ASSUME NEW p \in Packages, SendDirect(p) PROVE IInv'
    BY <2>1, SendDirectKeeps
  <2>2. ASSUME NEW p \in Packages, SendQueued(p) PROVE IInv'
    BY <2>2, SendQueuedKeeps
  <2>3. ASSUME NEW p \in Packages, Forward(p) PROVE IInv'
    BY <2>3, ForwardKeeps
  <2>4. ASSUME NEW p \in Packages, NoRoute(p) \/ Lose(p) PROVE IInv'
    BY <2>4, DroppedKeeps
  <2>5. ASSUME NEW p \in Packages, Arrive(p) PROVE IInv'
    BY <2>5, ArriveKeeps
  <2>6. ASSUME NEW x \in Nodes, NEW y \in Neighbours[x], ArpLearn(x, y) \/ ArpExpire(x, y)
        PROVE  IInv'
    <3>1. UNCHANGED <<app, state, host, ttl, src, links>>
      BY <2>6 DEF ArpLearn, ArpExpire, package
    <3>2. TypeOK'
      BY <2>6, <3>1, LinkFacts DEF ArpLearn, ArpExpire, IInv, TypeOK
    <3> QED
      BY <3>1, <3>2 DEF IInv, TTLAccount, SourceAccount
  <2>7. ASSUME NEW x \in Nodes, AppChanges(x) PROVE IInv'
    BY <2>7 DEF AppChanges, package, IInv, TypeOK, TTLAccount, SourceAccount
  <2>8. CASE UNCHANGED vars
    BY <2>8 DEF vars, package, IInv, TypeOK, TTLAccount, SourceAccount
  <2> QED
    BY <2>1, <2>2, <2>3, <2>4, <2>5, <2>6, <2>7, <2>8 DEF Next
<1> QED
  BY <1>1, <1>2, PTL DEF Spec

\* Every step of every package keeps the types of the state; the time to live
\* never leaves its 4 bits.
THEOREM TypeCorrect == Spec => []TypeOK
<1>1. IInv => TypeOK
  BY DEF IInv
<1> QED
  BY <1>1, Invariance, PTL

\* In every network and for every routing, a package crosses at most one link
\* more than its time to live.
THEOREM LinksBoundedHolds == Spec => []LinksBounded
<1>1. IInv => LinksBounded
  BY DEF IInv, TTLAccount, LinksBounded
<1> QED
  BY <1>1, Invariance, PTL

\* In every network a received package bears an address of its source host.
THEOREM SourceIsOriginHolds == Spec => []SourceIsOrigin
<1>1. IInv => SourceIsOrigin
  BY DEF IInv, SourceAccount, SourceIsOrigin
<1> QED
  BY <1>1, Invariance, PTL
=============================================================================
