-------------------------- MODULE ForwardingProofs --------------------------
(***************************************************************************)
(* Proofs about Forwarding, for any number of packages, destinations and   *)
(* routerd processes.                                                      *)
(***************************************************************************)
EXTENDS Forwarding, SequenceTheorems, TLAPS

LEMMA ConnectionsType ==
    /\ \A c \in Connections : c \in Nat /\ c # NoConnection
    /\ NoConnection = 0
BY ForwardingAssumption DEF Connections, NoConnection

\* Types are kept by request_forwarding.
LEMMA RequestType ==
    ASSUME TypeOK, NEW p \in Packages, NEW f \in Fates, RequestForwarding(p, f)
    PROVE  /\ mipd' \in {"running", "blocked"} \cup Ended
           /\ queue' \in Seq(Packages)
           /\ requests' \in [Connections -> Seq(Packages)]
           /\ fate' \in [Packages -> Fates]
<1>1. CASE slot = NoConnection /\ fate' = [fate EXCEPT ![p] = f] /\ UNCHANGED <<mipd, queue, requests>>
  BY <1>1 DEF TypeOK
<1>2. CASE /\ slot \in routerds
           /\ requests' = [requests EXCEPT ![slot] = Append(@, p)]
           /\ queue' = Append(queue, p)
           /\ fate' = [fate EXCEPT ![p] = "queued"]
           /\ UNCHANGED mipd
  <2>1. queue' \in Seq(Packages)
    BY <1>2, AppendProperties DEF TypeOK
  <2>2. \A c \in Connections : Append(requests[c], p) \in Seq(Packages)
    BY AppendProperties DEF TypeOK
  <2>3. requests' \in [Connections -> Seq(Packages)]
    BY <1>2, <2>2 DEF TypeOK
  <2>4. "queued" \in Fates
    BY DEF Fates
  <2> QED
    BY <1>2, <2>1, <2>3, <2>4 DEF TypeOK
<1>3. CASE /\ slot # NoConnection
           /\ slot \notin routerds
           /\ mipd' = "killed"
           /\ UNCHANGED <<queue, requests, fate>>
  BY <1>3 DEF TypeOK, Ended
<1> QED
  BY <1>1, <1>2, <1>3 DEF RequestForwarding

\* The head of the answers of a connection, and what is left of them.
LEMMA ResponseType ==
    ASSUME TypeOK, NEW c \in Connections, responses[c] # <<>>
    PROVE  /\ Head(responses[c]) \in Response
           /\ Head(responses[c]).hop \in Answer
           /\ Head(responses[c]).pkg \in Packages
           /\ [responses EXCEPT ![c] = Tail(@)] \in [Connections -> Seq(Response)]
<1>1. responses[c] \in Seq(Response)
  BY DEF TypeOK
<1>2. Head(responses[c]) \in Response /\ Tail(responses[c]) \in Seq(Response)
  BY <1>1, HeadTailProperties
<1>3. [responses EXCEPT ![c] = Tail(@)] \in [Connections -> Seq(Response)]
  BY <1>2 DEF TypeOK
<1> QED
  BY <1>2, <1>3 DEF Response

\* A connection in the slot is one of the connections.
LEMMA SlotType ==
    ASSUME TypeOK
    PROVE  /\ slot \in Nat
           /\ slot # NoConnection => slot \in Connections
           /\ accepted \in Nat /\ opened \in Nat
           /\ routerds \subseteq Connections
BY ForwardingAssumption DEF TypeOK, Connections, NoConnection

\* Type correctness: the slot names an accepted connection, accepted ones have
\* been opened, and the queue, the wires and the history hold what they should.
THEOREM TypeCorrect == Spec => []TypeOK
<1>1. Init => TypeOK
  BY ForwardingAssumption DEF Init, TypeOK, NoConnection, Fates
<1>2. TypeOK /\ [Next]_vars => TypeOK'
  <2> SUFFICES ASSUME TypeOK, [Next]_vars PROVE TypeOK'
    OBVIOUS
  <2> USE DEF vars, mipdVars, wires, peers, history
  <2>1. ASSUME NEW p \in Packages, ApplicationSends(p) PROVE TypeOK'
    <3>1. "sent" \in Fates /\ "dropped" \in Fates
      BY DEF Fates
    <3>2. CASE /\ \E f \in {"sent", "dropped"} : fate' = [fate EXCEPT ![p] = f]
               /\ mipd' \in {mipd, "broken"}
               /\ UNCHANGED <<queue, requests>>
      BY <2>1, <3>1, <3>2 DEF ApplicationSends, TypeOK, Ended
    <3>3. CASE RequestForwarding(p, "dropped")
      BY <2>1, <3>1, <3>3, RequestType DEF ApplicationSends, TypeOK
    <3> QED
      BY <2>1, <3>2, <3>3 DEF ApplicationSends, SystemCallFails
  <2>2. ASSUME NEW p \in Packages, TransportArrives(p) PROVE TypeOK'
    <3>1. {"delivered", "dropped", "leaked"} \subseteq Fates
      BY DEF Fates
    <3>2. CASE /\ \E f \in {"delivered", "dropped"} : fate' = [fate EXCEPT ![p] = f]
               /\ mipd' \in {mipd, "running", "blocked"} \cup Ended
               /\ UNCHANGED <<queue, requests>>
      BY <2>2, <3>1, <3>2 DEF TransportArrives, TypeOK
    <3>3. CASE RequestForwarding(p, "leaked")
      BY <2>2, <3>1, <3>3, RequestType DEF TransportArrives, TypeOK
    <3> QED
      BY <2>2, <3>2, <3>3 DEF TransportArrives, Deliver, SystemCallFails, Ended
  <2>3. ASSUME AcceptForward PROVE TypeOK'
    BY <2>3, SlotType DEF AcceptForward, TypeOK, SystemCallFails, Ended
  <2>4. ASSUME ForwardResponse PROVE TypeOK'
    <3> DEFINE r == Head(responses[slot])
    <3>1. slot \in Connections /\ responses[slot] # <<>>
      BY <2>4, SlotType DEF ForwardResponse
    <3>2. responses' \in [Connections -> Seq(Response)] /\ r.hop \in Answer /\ r.pkg \in Packages
      BY <2>4, <3>1, ResponseType DEF ForwardResponse
    <3>3. CASE queue = <<>>
      BY <2>4, <3>2, <3>3 DEF ForwardResponse, TypeOK, Ended
    <3>4. CASE queue # <<>>
      <4>1. Head(queue) \in Packages /\ Tail(queue) \in Seq(Packages)
        BY <3>4, HeadTailProperties DEF TypeOK
      <4>2. [pkg |-> Head(queue), asked |-> r.pkg, hop |-> r.hop] \in Applied
        BY <3>2, <4>1 DEF Applied
      <4>3. log' = Append(log, [pkg |-> Head(queue), asked |-> r.pkg, hop |-> r.hop])
        BY <2>4, <3>4 DEF ForwardResponse
      <4>5. log' \in Seq(Applied)
        BY <4>2, <4>3, AppendProperties DEF TypeOK
      <4>4. fate' \in [Packages -> Fates] /\ mipd' \in {"running"} \cup Ended
        BY <2>4, <3>4, <4>1 DEF ForwardResponse, TypeOK, Fates, SystemCallFails, Ended
      <4> QED
        BY <2>4, <3>2, <3>4, <4>1, <4>5, <4>4 DEF ForwardResponse, TypeOK
    <3> QED
      BY <3>3, <3>4
  <2>5. ASSUME ForwardClosed PROVE TypeOK'
    BY <2>5, SlotType DEF ForwardClosed, TypeOK, NoConnection, Ended
  <2>6. ASSUME NEW a \in Neighbours, ArpLearn(a) PROVE TypeOK'
    BY <2>6 DEF ArpLearn, TypeOK, SystemCallFails, Ended
  <2>7. ASSUME NEW a \in Neighbours, ArpExpire(a) PROVE TypeOK'
    BY <2>7, ForwardingAssumption DEF ArpExpire, TypeOK
  <2>8. ASSUME RouterdStart PROVE TypeOK'
    BY <2>8, SlotType, ForwardingAssumption DEF RouterdStart, TypeOK
  <2>9. ASSUME NEW c \in Connections, RouterdAnswer(c) PROVE TypeOK'
    <3> DEFINE p == Head(requests[c])
    <3>1. p \in Packages /\ Tail(requests[c]) \in Seq(Packages)
      BY <2>9, HeadTailProperties DEF RouterdAnswer, TypeOK
    <3>2. Dest[p] \in Destinations
      BY <3>1, ForwardingAssumption
    <3>3. PICK h \in Hops[Dest[p]] \cup {NoRoute} :
             responses' = [responses EXCEPT ![c] = Append(@, [pkg |-> p, hop |-> h])]
      BY <2>9 DEF RouterdAnswer
    <3>4. h \in Answer
      BY <3>2, ForwardingAssumption DEF Answer
    <3>5. [pkg |-> p, hop |-> h] \in Response
      BY <3>1, <3>4 DEF Response
    <3>6. Append(responses[c], [pkg |-> p, hop |-> h]) \in Seq(Response)
      BY <3>5, AppendProperties DEF TypeOK
    <3>7. responses' \in [Connections -> Seq(Response)]
      BY <3>3, <3>6 DEF TypeOK
    <3>8. requests' \in [Connections -> Seq(Packages)]
      BY <2>9, <3>1 DEF RouterdAnswer, TypeOK
    <3> QED
      BY <2>9, <3>7, <3>8 DEF RouterdAnswer, TypeOK
  <2>10. ASSUME NEW c \in Connections, RouterdExit(c) PROVE TypeOK'
    BY <2>10 DEF RouterdExit, TypeOK
  <2>11. ASSUME ApplicationConnects PROVE TypeOK'
    BY <2>11 DEF ApplicationConnects, TypeOK, SystemCallFails, Ended
  <2>12. ASSUME ApplicationReads PROVE TypeOK'
    BY <2>12 DEF ApplicationReads, TypeOK
  <2>13. ASSUME ApplicationLeaves PROVE TypeOK'
    BY <2>13 DEF ApplicationLeaves, TypeOK, Ended
  <2>14. ASSUME ApplicationClosed PROVE TypeOK'
    BY <2>14 DEF ApplicationClosed, TypeOK
  <2>15. ASSUME UNCHANGED vars PROVE TypeOK'
    BY <2>15 DEF TypeOK
  <2> QED
    BY <2>1, <2>2, <2>3, <2>4, <2>5, <2>6, <2>7, <2>8, <2>9, <2>10, <2>11, <2>12, <2>13, <2>14,
       <2>15 DEF Next
<1> QED
  BY <1>1, <1>2, PTL DEF Spec

-----------------------------------------------------------------------------
(***************************************************************************)
(* Matching by position.  Stated about three sequences: the queue q, the   *)
(* answers rs not yet read and the requests qs not yet answered, which lie *)
(* side by side at the end of q.                                           *)
(***************************************************************************)
Matched(q, rs, qs) ==
    /\ Len(rs) + Len(qs) <= Len(q)
    /\ \A i \in 1 .. Len(rs), k \in 1 .. Len(q) :
          k + Len(rs) + Len(qs) = Len(q) + i => q[k] = rs[i].pkg
    /\ \A i \in 1 .. Len(qs), k \in 1 .. Len(q) :
          k + Len(qs) = Len(q) + i => q[k] = qs[i]

\* A package queued together with its request keeps the sequences matched.
LEMMA AskMatched ==
    ASSUME NEW q \in Seq(Packages), NEW rs \in Seq(Response), NEW qs \in Seq(Packages),
           NEW p \in Packages, Matched(q, rs, qs)
    PROVE  Matched(Append(q, p), rs, Append(qs, p))
<1> DEFINE q1 == Append(q, p)
           qs1 == Append(qs, p)
<1>1. Len(q) \in Nat /\ Len(qs) \in Nat /\ Len(rs) \in Nat
  BY LenProperties
<1>0. Len(q1) = Len(q) + 1 /\ Len(qs1) = Len(qs) + 1
  BY AppendProperties
<1>2. /\ Len(q1) = Len(q) + 1
      /\ \A k \in 1 .. Len(q) : q1[k] = q[k]
      /\ q1[Len(q) + 1] = p
  BY AppendProperties
<1>3. /\ Len(qs1) = Len(qs) + 1
      /\ \A k \in 1 .. Len(qs) : qs1[k] = qs[k]
      /\ qs1[Len(qs) + 1] = p
  BY AppendProperties
<1> HIDE DEF q1, qs1
<1>4. Len(rs) + Len(qs1) <= Len(q1)
  BY <1>1, <1>2, <1>3 DEF Matched
<1>5. ASSUME NEW i \in 1 .. Len(rs), NEW k \in 1 .. Len(q1), k + Len(rs) + Len(qs1) = Len(q1) + i
      PROVE  q1[k] = rs[i].pkg
  <2>0. k \in Int /\ i \in Int /\ k + Len(rs) + (Len(qs) + 1) = (Len(q) + 1) + i
    BY <1>0, <1>5
  <2>1. k + Len(rs) + Len(qs) = Len(q) + i
    BY <1>1, <2>0
  <2>2. k \in 1 .. Len(q)
    BY <1>0, <1>1, <2>1
  <2> QED
    BY <1>2, <2>1, <2>2 DEF Matched
<1>6. ASSUME NEW i \in 1 .. Len(qs1), NEW k \in 1 .. Len(q1), k + Len(qs1) = Len(q1) + i
      PROVE  q1[k] = qs1[i]
  <2>1. CASE i \in 1 .. Len(qs)
    <3>1. k \in 1 .. Len(q) /\ k + Len(qs) = Len(q) + i
      BY <1>0, <1>1, <1>6, <2>1
    <3> QED
      BY <1>2, <1>3, <2>1, <3>1 DEF Matched
  <2>2. CASE i = Len(qs) + 1
    <3>1. k = Len(q) + 1
      BY <1>0, <1>1, <1>6, <2>2
    <3> QED
      BY <1>2, <1>3, <2>2, <3>1
  <2> QED
    BY <1>1, <1>3, <2>1, <2>2
<1>7. Matched(q1, rs, qs1)
  BY <1>4, <1>5, <1>6 DEF Matched
<1> QED
  BY <1>7 DEF q1, qs1

\* A request that is answered keeps the sequences matched.
LEMMA AnswerMatched ==
    ASSUME NEW q \in Seq(Packages), NEW rs \in Seq(Response), NEW qs \in Seq(Packages),
           qs # <<>>, NEW r \in Response, r.pkg = Head(qs), Matched(q, rs, qs)
    PROVE  Matched(q, Append(rs, r), Tail(qs))
<1> DEFINE rs1 == Append(rs, r)
           qs1 == Tail(qs)
<1>1. Len(q) \in Nat /\ Len(qs) \in Nat /\ Len(rs) \in Nat /\ Len(qs) # 0 /\ qs[1] = r.pkg
  BY LenProperties, EmptySeq
<1>0. Len(rs1) = Len(rs) + 1 /\ Len(qs1) = Len(qs) - 1
  BY AppendProperties, HeadTailProperties
<1>2. /\ Len(rs1) = Len(rs) + 1
      /\ \A k \in 1 .. Len(rs) : rs1[k] = rs[k]
      /\ rs1[Len(rs) + 1] = r
  BY AppendProperties
<1>3. /\ Len(qs1) = Len(qs) - 1
      /\ \A k \in 1 .. Len(qs1) : qs1[k] = qs[k + 1]
  BY HeadTailProperties
<1> HIDE DEF rs1, qs1
<1>4. Len(rs1) + Len(qs1) <= Len(q)
  BY <1>1, <1>2, <1>3 DEF Matched
<1>5. ASSUME NEW i \in 1 .. Len(rs1), NEW k \in 1 .. Len(q), k + Len(rs1) + Len(qs1) = Len(q) + i
      PROVE  q[k] = rs1[i].pkg
  <2>1. k + Len(rs) + Len(qs) = Len(q) + i
    BY <1>0, <1>1, <1>5
  <2>2. CASE i \in 1 .. Len(rs)
    BY <1>2, <2>1, <2>2 DEF Matched
  <2>3. CASE i = Len(rs) + 1
    <3>1. k + Len(qs) = Len(q) + 1 /\ 1 \in 1 .. Len(qs)
      BY <1>1, <2>1, <2>3
    <3>2. q[k] = qs[1]
      BY <3>1 DEF Matched
    <3> QED
      BY <1>1, <1>2, <2>3, <3>2
  <2> QED
    BY <1>1, <1>2, <2>2, <2>3
<1>6. ASSUME NEW i \in 1 .. Len(qs1), NEW k \in 1 .. Len(q), k + Len(qs1) = Len(q) + i
      PROVE  q[k] = qs1[i]
  <2>1. k + Len(qs) = Len(q) + (i + 1) /\ i + 1 \in 1 .. Len(qs)
    BY <1>0, <1>1, <1>6
  <2>2. q[k] = qs[i + 1]
    BY <2>1 DEF Matched
  <2> QED
    BY <1>3, <2>2
<1>7. Matched(q, rs1, qs1)
  BY <1>4, <1>5, <1>6 DEF Matched
<1> QED
  BY <1>7 DEF rs1, qs1

\* An answer that is read with the oldest package keeps the sequences matched,
\* and there is such a package: its own, when every entry has its lookup.
LEMMA ReadMatched ==
    ASSUME NEW q \in Seq(Packages), NEW rs \in Seq(Response), NEW qs \in Seq(Packages),
           rs # <<>>, Matched(q, rs, qs)
    PROVE  /\ q # <<>>
           /\ Matched(Tail(q), Tail(rs), qs)
           /\ Len(Tail(q)) = Len(q) - 1
           /\ Len(Tail(rs)) = Len(rs) - 1
           /\ Len(q) = Len(rs) + Len(qs) => Head(q) = Head(rs).pkg
<1> DEFINE q1 == Tail(q)
           rs1 == Tail(rs)
<1>1. Len(q) \in Nat /\ Len(qs) \in Nat /\ Len(rs) \in Nat /\ Len(rs) # 0
  BY LenProperties, EmptySeq
<1>2. q # <<>> /\ Len(q) # 0
  BY <1>1, EmptySeq DEF Matched
<1>0. Len(q1) = Len(q) - 1 /\ Len(rs1) = Len(rs) - 1
  BY <1>2, HeadTailProperties
<1>3. /\ Len(q1) = Len(q) - 1
      /\ \A k \in 1 .. Len(q1) : q1[k] = q[k + 1]
  BY <1>2, HeadTailProperties
<1>4. /\ Len(rs1) = Len(rs) - 1
      /\ \A k \in 1 .. Len(rs1) : rs1[k] = rs[k + 1]
  BY HeadTailProperties
<1>5. Head(q) = q[1] /\ Head(rs) = rs[1]
  OBVIOUS
<1> HIDE DEF q1, rs1
<1>6. Len(rs1) + Len(qs) <= Len(q1)
  BY <1>1, <1>3, <1>4 DEF Matched
<1>7. ASSUME NEW i \in 1 .. Len(rs1), NEW k \in 1 .. Len(q1), k + Len(rs1) + Len(qs) = Len(q1) + i
      PROVE  q1[k] = rs1[i].pkg
  <2>1. /\ (k + 1) + Len(rs) + Len(qs) = Len(q) + (i + 1)
        /\ k + 1 \in 1 .. Len(q) /\ i + 1 \in 1 .. Len(rs)
    BY <1>0, <1>1, <1>7
  <2>2. q[k + 1] = rs[i + 1].pkg
    BY <2>1 DEF Matched
  <2> QED
    BY <1>3, <1>4, <2>2
<1>8. ASSUME NEW i \in 1 .. Len(qs), NEW k \in 1 .. Len(q1), k + Len(qs) = Len(q1) + i
      PROVE  q1[k] = qs[i]
  <2>1. (k + 1) + Len(qs) = Len(q) + i /\ k + 1 \in 1 .. Len(q)
    BY <1>0, <1>1, <1>8
  <2>2. q[k + 1] = qs[i]
    BY <2>1 DEF Matched
  <2> QED
    BY <1>3, <2>2
<1>9. Matched(q1, rs1, qs)
  BY <1>6, <1>7, <1>8 DEF Matched
<1>10. ASSUME Len(q) = Len(rs) + Len(qs) PROVE Head(q) = Head(rs).pkg
  <2>1. 1 + Len(rs) + Len(qs) = Len(q) + 1 /\ 1 \in 1 .. Len(rs) /\ 1 \in 1 .. Len(q)
    BY <1>1, <1>2, <1>10
  <2>2. q[1] = rs[1].pkg
    BY <2>1 DEF Matched
  <2> QED
    BY <1>5, <2>2
<1> QED
  BY <1>2, <1>3, <1>4, <1>9, <1>10 DEF q1, rs1

-----------------------------------------------------------------------------
(***************************************************************************)
(* The inductive invariant.  LookupsAreNewest alone is not inductive: a    *)
(* connection that is accepted must bring empty wires, and OwnAnswer needs *)
(* that nothing is queued before the first connection and that every entry *)
(* has its lookup while that one lasts.                                    *)
(***************************************************************************)
WiresIdle ==
    \A c \in Connections : c > accepted => requests[c] = <<>> /\ responses[c] = <<>>

SlotMatched ==
    slot # NoConnection => Matched(queue, responses[slot], requests[slot])

FirstConnection ==
    /\ accepted = 0 => queue = <<>>
    /\ accepted <= 1 /\ slot # NoConnection =>
          Len(queue) = Len(responses[slot]) + Len(requests[slot])

IInv == TypeOK /\ WiresIdle /\ SlotMatched /\ FirstConnection /\ OwnAnswer

\* request_forwarding keeps the positions: the request and the entry are added
\* together, or neither is.
LEMMA RequestKeepsPositions ==
    ASSUME IInv, NEW p \in Packages, NEW f, RequestForwarding(p, f),
           UNCHANGED <<slot, accepted, responses, log>>
    PROVE  WiresIdle' /\ SlotMatched' /\ FirstConnection' /\ OwnAnswer'
<1>1. OwnAnswer'
  BY DEF IInv, OwnAnswer
<1>2. CASE UNCHANGED <<queue, requests>>
  BY <1>1, <1>2 DEF IInv, WiresIdle, SlotMatched, FirstConnection
<1>3. CASE /\ slot \in routerds
           /\ requests' = [requests EXCEPT ![slot] = Append(@, p)]
           /\ queue' = Append(queue, p)
  <2>1. slot \in Connections /\ slot \in Nat /\ slot # NoConnection /\ slot <= accepted /\ accepted \in Nat
    BY <1>3, SlotType, ForwardingAssumption DEF IInv, TypeOK, Connections, NoConnection
  <2>2. /\ queue \in Seq(Packages)
        /\ responses[slot] \in Seq(Response)
        /\ requests[slot] \in Seq(Packages)
    BY <2>1 DEF IInv, TypeOK
  <2>3. requests'[slot] = Append(requests[slot], p)
    BY <1>3, <2>1 DEF IInv, TypeOK
  <2>4. WiresIdle'
    BY <1>3, <2>1 DEF IInv, WiresIdle, TypeOK, Connections
  <2>5. Matched(queue, responses[slot], requests[slot])
    BY <2>1 DEF IInv, SlotMatched
  <2>6. SlotMatched'
    BY <1>3, <2>2, <2>3, <2>5, AskMatched DEF SlotMatched
  <2>7. /\ Len(queue') = Len(queue) + 1
        /\ Len(requests'[slot]) = Len(requests[slot]) + 1
    BY <1>3, <2>2, <2>3, AppendProperties
  <2>8. Len(queue) \in Nat /\ Len(requests[slot]) \in Nat /\ Len(responses[slot]) \in Nat
    BY <2>2, LenProperties
  <2>9. accepted # 0
    BY <2>1 DEF NoConnection
  <2>10. FirstConnection'
    <3>1. slot' = slot /\ accepted' = accepted /\ responses'[slot] = responses[slot]
      BY <2>1
    <3>2. accepted <= 1 => Len(queue) = Len(responses[slot]) + Len(requests[slot])
      BY <2>1 DEF IInv, FirstConnection
    <3>3. accepted <= 1 => Len(queue') = Len(responses[slot]) + Len(requests'[slot])
      <4> DEFINE q == Len(queue)
                 q1 == Len(queue')
                 rs == Len(responses[slot])
                 qs == Len(requests[slot])
                 qs1 == Len(requests'[slot])
      <4>1. q1 = q + 1 /\ qs1 = qs + 1
        BY <2>7
      <4>2. q \in Nat /\ qs \in Nat /\ rs \in Nat
        BY <2>8
      <4>3. accepted <= 1 => q = rs + qs
        BY <3>2
      <4> HIDE DEF q, q1, rs, qs, qs1
      <4>4. accepted <= 1 => q1 = rs + qs1
        BY <4>1, <4>2, <4>3
      <4> QED
        BY <4>4 DEF q1, rs, qs1
    <3> QED
      BY <2>9, <3>1, <3>3 DEF FirstConnection
  <2> QED
    BY <1>1, <2>4, <2>6, <2>10
<1> QED
  BY <1>2, <1>3 DEF RequestForwarding

\* IInv is an invariant.
THEOREM PositionsInvariant == Spec => []IInv
<1>1. Init => IInv
  <2> SUFFICES ASSUME Init PROVE IInv
    OBVIOUS
  <2>1. TypeOK
    BY ForwardingAssumption DEF Init, TypeOK, NoConnection, Fates
  <2>2. WiresIdle /\ SlotMatched /\ FirstConnection /\ OwnAnswer
    BY DEF Init, WiresIdle, SlotMatched, FirstConnection, OwnAnswer
  <2> QED
    BY <2>1, <2>2 DEF IInv
<1>2. IInv /\ TypeOK' /\ [Next]_vars => IInv'
  <2> SUFFICES ASSUME IInv, TypeOK', [Next]_vars
               PROVE  WiresIdle' /\ SlotMatched' /\ FirstConnection' /\ OwnAnswer'
    BY DEF IInv
  <2> DEFINE Goal == WiresIdle' /\ SlotMatched' /\ FirstConnection' /\ OwnAnswer'
  <2> USE DEF mipdVars, wires, peers, history
  <2>0. TypeOK
    BY DEF IInv
  <2>1. ASSUME NEW p \in Packages, ApplicationSends(p) PROVE Goal
    <3>1. UNCHANGED <<slot, accepted, responses, log>>
      BY <2>1 DEF ApplicationSends
    <3>2. CASE UNCHANGED <<queue, requests>>
      BY <3>1, <3>2 DEF IInv, WiresIdle, SlotMatched, FirstConnection, OwnAnswer
    <3>3. CASE RequestForwarding(p, "dropped")
      BY <3>1, <3>3, RequestKeepsPositions
    <3> QED
      BY <2>1, <3>2, <3>3 DEF ApplicationSends
  <2>2. ASSUME NEW p \in Packages, TransportArrives(p) PROVE Goal
    <3>1. UNCHANGED <<slot, accepted, responses, log>>
      BY <2>2 DEF TransportArrives
    <3>2. CASE UNCHANGED <<queue, requests>>
      BY <3>1, <3>2 DEF IInv, WiresIdle, SlotMatched, FirstConnection, OwnAnswer
    <3>3. CASE RequestForwarding(p, "leaked")
      BY <3>1, <3>3, RequestKeepsPositions
    <3> QED
      BY <2>2, <3>2, <3>3 DEF TransportArrives
  <2>0a. CASE UNCHANGED <<queue, requests, responses, slot, accepted, log>>
    BY <2>0a DEF IInv, WiresIdle, SlotMatched, FirstConnection, OwnAnswer
  <2>3. ASSUME AcceptForward, accepted' = accepted + 1, slot' = accepted + 1 PROVE Goal
    <3>1. /\ accepted' = accepted + 1 /\ slot' = accepted + 1
          /\ UNCHANGED <<queue, requests, responses, log>>
          /\ accepted \in Nat /\ accepted + 1 \in Connections
      BY <2>3, <2>0, SlotType, ForwardingAssumption DEF AcceptForward, TypeOK, Connections
    <3>2. requests[accepted + 1] = <<>> /\ responses[accepted + 1] = <<>>
      BY <3>1 DEF IInv, WiresIdle
    <3>3. WiresIdle'
      BY <3>1 DEF IInv, WiresIdle, Connections
    <3>4. queue \in Seq(Packages) /\ Len(queue) \in Nat
      BY <2>0, LenProperties DEF TypeOK
    <3>5. Len(<<>>) = 0
      OBVIOUS
    <3>6. SlotMatched'
      BY <3>1, <3>2, <3>4, <3>5 DEF SlotMatched, Matched
    <3>7. FirstConnection'
      BY <3>1, <3>2, <3>5 DEF IInv, FirstConnection
    <3>8. OwnAnswer'
      BY <3>1 DEF IInv, OwnAnswer
    <3> QED
      BY <3>3, <3>6, <3>7, <3>8
  <2>4. ASSUME ForwardResponse PROVE Goal
    <3> DEFINE r == Head(responses[slot])
    <3>1. /\ slot \in Connections /\ slot # NoConnection /\ slot \in 1 .. accepted /\ accepted \in Nat
          /\ responses[slot] # <<>>
          /\ responses' = [responses EXCEPT ![slot] = Tail(@)]
          /\ UNCHANGED <<slot, accepted, requests>>
      BY <2>4, <2>0, SlotType, ForwardingAssumption DEF ForwardResponse, TypeOK, Connections, NoConnection
    <3>2. /\ queue \in Seq(Packages)
          /\ responses[slot] \in Seq(Response)
          /\ requests[slot] \in Seq(Packages)
          /\ responses'[slot] = Tail(responses[slot])
      BY <2>0, <3>1 DEF TypeOK
    <3>3. /\ queue # <<>>
          /\ Matched(Tail(queue), Tail(responses[slot]), requests[slot])
          /\ Len(Tail(queue)) = Len(queue) - 1
          /\ Len(Tail(responses[slot])) = Len(responses[slot]) - 1
          /\ Len(queue) = Len(responses[slot]) + Len(requests[slot]) => Head(queue) = r.pkg
      BY <3>1, <3>2, ReadMatched DEF IInv, SlotMatched
    <3>4. queue' = Tail(queue) /\ log' = Append(log, [pkg |-> Head(queue), asked |-> r.pkg, hop |-> r.hop])
      BY <2>4, <3>3 DEF ForwardResponse
    <3>5. WiresIdle'
      BY <2>0, <3>1 DEF IInv, WiresIdle, TypeOK, Connections
    <3>6. SlotMatched'
      BY <3>1, <3>2, <3>3, <3>4 DEF SlotMatched
    <3>7. Len(queue) \in Nat /\ Len(responses[slot]) \in Nat /\ Len(requests[slot]) \in Nat
      BY <3>2, LenProperties
    <3>8. FirstConnection'
      <4>1. accepted' # 0
        BY <3>1
      <4>2. /\ Len(queue') = Len(queue) - 1
            /\ Len(responses'[slot]) = Len(responses[slot]) - 1
        BY <3>2, <3>3, <3>4
      <4>3. accepted <= 1 => Len(queue) = Len(responses[slot]) + Len(requests[slot])
        BY <3>1 DEF IInv, FirstConnection
      <4>4. accepted <= 1 => Len(queue') = Len(responses'[slot]) + Len(requests[slot])
        <5> DEFINE q == Len(queue)
                   q1 == Len(queue')
                   rs == Len(responses[slot])
                   rs1 == Len(responses'[slot])
                   qs == Len(requests[slot])
        <5>1. q1 = q - 1 /\ rs1 = rs - 1
          BY <4>2
        <5>2. q \in Nat /\ rs \in Nat /\ qs \in Nat
          BY <3>7
        <5>3. accepted <= 1 => q = rs + qs
          BY <4>3
        <5> HIDE DEF q, q1, rs, rs1, qs
        <5>4. accepted <= 1 => q1 = rs1 + qs
          BY <5>1, <5>2, <5>3
        <5> QED
          BY <5>4 DEF q1, rs1, qs
      <4>5. slot' = slot /\ accepted' = accepted /\ requests' = requests
        BY <3>1
      <4> QED
        BY <4>1, <4>4, <4>5 DEF FirstConnection
    <3>9. OwnAnswer'
      <4> SUFFICES ASSUME accepted <= 1, NEW i \in DOMAIN log' PROVE log'[i].asked = log'[i].pkg
        BY <3>1 DEF OwnAnswer
      <4>1. Head(queue) = r.pkg
        BY <3>1, <3>3 DEF IInv, FirstConnection
      <4>2. [pkg |-> Head(queue), asked |-> r.pkg, hop |-> r.hop] \in Applied
        <5>1. r \in Response
          BY <3>1, <2>0, ResponseType
        <5>2. Head(queue) \in Packages
          BY <3>2, <3>3, HeadTailProperties
        <5> QED
          BY <5>1, <5>2 DEF Response, Applied
      <4>3. log \in Seq(Applied)
        BY <2>0 DEF TypeOK
      <4>4. /\ Len(log') = Len(log) + 1 /\ Len(log) \in Nat /\ DOMAIN log' = 1 .. Len(log')
            /\ \A j \in 1 .. Len(log) : log'[j] = log[j]
            /\ log'[Len(log) + 1] = [pkg |-> Head(queue), asked |-> r.pkg, hop |-> r.hop]
            /\ DOMAIN log = 1 .. Len(log)
        BY <3>4, <4>2, <4>3, AppendProperties, LenProperties
      <4>5. CASE i \in 1 .. Len(log)
        BY <4>4, <4>5 DEF IInv, OwnAnswer
      <4>6. CASE i = Len(log) + 1
        BY <4>1, <4>4, <4>6
      <4> QED
        BY <4>4, <4>5, <4>6
    <3> QED
      BY <3>5, <3>6, <3>8, <3>9
  <2>5. ASSUME ForwardClosed PROVE Goal
    BY <2>5 DEF ForwardClosed, IInv, WiresIdle, SlotMatched, FirstConnection, OwnAnswer
  <2>6. ASSUME NEW a \in Neighbours, ArpLearn(a) \/ ArpExpire(a) PROVE Goal
    BY <2>0a, <2>6 DEF ArpLearn, ArpExpire
  <2>7. ASSUME ApplicationConnects \/ ApplicationReads \/ ApplicationLeaves \/ ApplicationClosed
        PROVE  Goal
    BY <2>0a, <2>7 DEF ApplicationConnects, ApplicationReads, ApplicationLeaves, ApplicationClosed
  <2>8. ASSUME RouterdStart PROVE Goal
    BY <2>0a, <2>8 DEF RouterdStart
  <2>9. ASSUME NEW c \in Connections, RouterdAnswer(c) PROVE Goal
    <3> DEFINE p == Head(requests[c])
    <3>1. /\ requests[c] # <<>>
          /\ requests' = [requests EXCEPT ![c] = Tail(@)]
          /\ UNCHANGED <<queue, slot, accepted, log>>
      BY <2>9 DEF RouterdAnswer
    <3>2. PICK h \in Hops[Dest[p]] \cup {NoRoute} :
             responses' = [responses EXCEPT ![c] = Append(@, [pkg |-> p, hop |-> h])]
      BY <2>9 DEF RouterdAnswer
    <3>3. /\ queue \in Seq(Packages)
          /\ responses[c] \in Seq(Response)
          /\ requests[c] \in Seq(Packages)
          /\ p \in Packages
      BY <2>0, <3>1, HeadTailProperties DEF TypeOK
    <3>4. h \in Answer
      BY <3>3, ForwardingAssumption DEF Answer
    <3>5. [pkg |-> p, hop |-> h] \in Response
      BY <3>3, <3>4 DEF Response
    <3>6. /\ \A d \in Connections : d # c => requests'[d] = requests[d] /\ responses'[d] = responses[d]
          /\ requests'[c] = Tail(requests[c])
          /\ responses'[c] = Append(responses[c], [pkg |-> p, hop |-> h])
      BY <2>0, <3>1, <3>2 DEF TypeOK
    <3>7. WiresIdle'
      BY <3>1, <3>6 DEF IInv, WiresIdle
    <3>8. OwnAnswer'
      BY <3>1 DEF IInv, OwnAnswer
    <3>9. CASE slot = c
      <4>1. c # NoConnection
        BY ConnectionsType
      <4>2. SlotMatched'
        BY <3>1, <3>3, <3>5, <3>6, <3>9, <4>1, AnswerMatched DEF IInv, SlotMatched
      <4>3. /\ Len(responses'[c]) = Len(responses[c]) + 1
            /\ Len(requests'[c]) = Len(requests[c]) - 1
            /\ Len(responses[c]) \in Nat /\ Len(requests[c]) \in Nat
        <5>1. Len(responses'[c]) = Len(responses[c]) + 1
          BY <3>3, <3>5, <3>6, AppendProperties
        <5>2. Len(requests'[c]) = Len(requests[c]) - 1
          BY <3>1, <3>3, <3>6, HeadTailProperties
        <5>3. Len(responses[c]) \in Nat /\ Len(requests[c]) \in Nat
          BY <3>3, LenProperties
        <5> QED
          BY <5>1, <5>2, <5>3
      <4>4. Len(responses'[c]) + Len(requests'[c]) = Len(responses[c]) + Len(requests[c])
        <5> DEFINE rs == Len(responses[c])
                   rs1 == Len(responses'[c])
                   qs == Len(requests[c])
                   qs1 == Len(requests'[c])
        <5>1. rs1 = rs + 1 /\ qs1 = qs - 1 /\ rs \in Nat /\ qs \in Nat
          BY <4>3
        <5> HIDE DEF rs, rs1, qs, qs1
        <5>2. rs1 + qs1 = rs + qs
          BY <5>1
        <5> QED
          BY <5>2 DEF rs, rs1, qs, qs1
      <4>5. FirstConnection'
        BY <3>1, <3>9, <4>4 DEF IInv, FirstConnection
      <4> QED
        BY <3>7, <3>8, <4>2, <4>5
    <3>10. CASE slot # c
      <4>1. slot # NoConnection => requests'[slot] = requests[slot] /\ responses'[slot] = responses[slot]
        BY <2>0, <3>6, <3>10, SlotType
      <4>2. SlotMatched' /\ FirstConnection'
        BY <3>1, <4>1 DEF IInv, SlotMatched, FirstConnection
      <4> QED
        BY <3>7, <3>8, <4>2
    <3> QED
      BY <3>9, <3>10
  <2>10. ASSUME NEW c \in Connections, RouterdExit(c) PROVE Goal
    BY <2>0a, <2>10 DEF RouterdExit
  <2>11. ASSUME UNCHANGED vars PROVE Goal
    BY <2>0a, <2>11 DEF vars
  <2>12. ASSUME AcceptForward PROVE Goal
    BY <2>0a, <2>3, <2>12 DEF AcceptForward
  <2> QED
    BY <2>1, <2>2, <2>4, <2>5, <2>6, <2>7, <2>8, <2>9, <2>10, <2>11, <2>12 DEF Next
<1> QED
  BY <1>1, <1>2, TypeCorrect, PTL DEF Spec

\* As long as one routerd has been accepted, mipd applies to each package the
\* answer to that package's lookup.
THEOREM OwnAnswerHolds == Spec => []OwnAnswer
<1>1. IInv => OwnAnswer
  BY DEF IInv
<1> QED
  BY <1>1, PositionsInvariant, PTL

\* The outstanding lookups are those of the newest packages of the queue,
\* whatever routerds came and went: an answer never meets an empty queue.
THEOREM LookupsAreNewestHolds == Spec => []LookupsAreNewest
<1>1. IInv => LookupsAreNewest
  <2> SUFFICES ASSUME IInv, slot # NoConnection PROVE LookupsAreNewest
    BY DEF LookupsAreNewest
  <2> DEFINE rs == responses[slot]
             qs == requests[slot]
  <2>1. queue \in Seq(Packages) /\ rs \in Seq(Response) /\ qs \in Seq(Packages)
    BY SlotType DEF IInv, TypeOK
  <2>2. Matched(queue, rs, qs)
    BY DEF IInv, SlotMatched
  <2>3. Len(queue) \in Nat /\ Len(rs) \in Nat /\ Len(qs) \in Nat
    BY <2>1, LenProperties
  <2>4. Stale = Len(queue) - (Len(rs) + Len(qs))
    BY DEF Stale, Outstanding
  <2> HIDE DEF rs, qs
  <2>5. Stale \in Nat /\ Stale >= 0 /\ Stale + Len(rs) + Len(qs) = Len(queue)
    BY <2>2, <2>3, <2>4 DEF Matched
  <2>6. ASSUME NEW i \in 1 .. Len(rs) PROVE queue[Stale + i] = rs[i].pkg
    <3>1. Stale + i \in 1 .. Len(queue) /\ (Stale + i) + Len(rs) + Len(qs) = Len(queue) + i
      BY <2>3, <2>5
    <3> QED
      BY <2>2, <3>1 DEF Matched
  <2>7. ASSUME NEW i \in 1 .. Len(qs) PROVE queue[Stale + Len(rs) + i] = qs[i]
    <3>1. (Stale + Len(rs) + i) \in 1 .. Len(queue) /\ (Stale + Len(rs) + i) + Len(qs) = Len(queue) + i
      BY <2>3, <2>5
    <3> QED
      BY <2>2, <3>1 DEF Matched
  <2> HIDE DEF Stale
  <2>8. Stale >= 0
    BY <2>5
  <2> QED
    BY <2>6, <2>7, <2>8 DEF LookupsAreNewest, rs, qs
<1> QED
  BY <1>1, PositionsInvariant, PTL

-----------------------------------------------------------------------------
(***************************************************************************)
(* Each package is queued, and answered, once.  The invariant adds to      *)
(* EachPackageOnce that a package with an answer is neither new nor        *)
(* queued, so that it is not queued again and not answered again.          *)
(***************************************************************************)
Holds(s, x)   == \E i \in DOMAIN s : s[i] = x
Distinct(s)   == \A i, j \in DOMAIN s : s[i] = s[j] => i = j
AnswerOnce(s) == \A i, j \in DOMAIN s : s[i].pkg = s[j].pkg => i = j
Answered(s, p) == \E i \in DOMAIN s : s[i].pkg = p

OnceInv ==
    /\ \A p \in Packages : (fate[p] = "queued") <=> Holds(queue, p)
    /\ Distinct(queue)
    /\ AnswerOnce(log)
    /\ \A p \in Packages : Answered(log, p) => fate[p] \notin {"new", "queued"}

\* What a sequence holds after one element was appended.
LEMMA AppendHolds ==
    ASSUME NEW S, NEW s \in Seq(S), NEW x \in S, ~ Holds(s, x), Distinct(s)
    PROVE  /\ \A y : Holds(Append(s, x), y) <=> (y = x \/ Holds(s, y))
           /\ Distinct(Append(s, x))
<1> DEFINE t == Append(s, x)
<1>1. /\ DOMAIN s = 1 .. Len(s) /\ Len(s) \in Nat
      /\ DOMAIN t = 1 .. Len(s) + 1
      /\ \A i \in 1 .. Len(s) : t[i] = s[i]
      /\ t[Len(s) + 1] = x
  BY AppendProperties, LenProperties
<1> HIDE DEF t
<1>2. \A y : Holds(t, y) <=> (y = x \/ Holds(s, y))
  BY <1>1 DEF Holds
<1>3. Distinct(t)
  BY <1>1 DEF Holds, Distinct
<1> QED
  BY <1>2, <1>3 DEF t

\* And after its first was removed.
LEMMA TailHolds ==
    ASSUME NEW S, NEW s \in Seq(S), s # <<>>, Distinct(s)
    PROVE  /\ \A y : Holds(Tail(s), y) <=> (y # Head(s) /\ Holds(s, y))
           /\ Distinct(Tail(s))
           /\ Holds(s, Head(s))
<1> DEFINE t == Tail(s)
<1>1. /\ DOMAIN s = 1 .. Len(s) /\ Len(s) \in Nat /\ Len(s) # 0
      /\ DOMAIN t = 1 .. Len(s) - 1
      /\ \A i \in 1 .. Len(s) - 1 : t[i] = s[i + 1]
      /\ Head(s) = s[1]
  BY HeadTailProperties, LenProperties, EmptySeq
<1> HIDE DEF t
<1>2. Distinct(t)
  BY <1>1 DEF Distinct
<1>3. Holds(s, Head(s))
  BY <1>1 DEF Holds
<1>4. ASSUME NEW y, Holds(t, y) PROVE y # Head(s) /\ Holds(s, y)
  BY <1>1, <1>4 DEF Holds, Distinct
<1>5. ASSUME NEW y, y # Head(s), Holds(s, y) PROVE Holds(t, y)
  <2>1. PICK i \in 1 .. Len(s) : s[i] = y
    BY <1>1, <1>5 DEF Holds
  <2>2. i - 1 \in 1 .. Len(s) - 1 /\ (i - 1) + 1 = i
    BY <1>1, <1>5, <2>1
  <2>3. t[i - 1] = y
    BY <1>1, <2>1, <2>2
  <2> QED
    BY <1>1, <2>2, <2>3 DEF Holds
<1> QED
  BY <1>2, <1>3, <1>4, <1>5 DEF t

\* An answer that is logged for a package without one.
LEMMA LogOnce ==
    ASSUME NEW s \in Seq(Applied), NEW e \in Applied, ~ Answered(s, e.pkg), AnswerOnce(s)
    PROVE  /\ AnswerOnce(Append(s, e))
           /\ \A p : Answered(Append(s, e), p) <=> (p = e.pkg \/ Answered(s, p))
<1> DEFINE t == Append(s, e)
<1>1. /\ DOMAIN s = 1 .. Len(s) /\ Len(s) \in Nat
      /\ DOMAIN t = 1 .. Len(s) + 1
      /\ \A i \in 1 .. Len(s) : t[i] = s[i]
      /\ t[Len(s) + 1] = e
  BY AppendProperties, LenProperties
<1> HIDE DEF t
<1>2. AnswerOnce(t)
  BY <1>1 DEF AnswerOnce, Answered
<1>3. \A p : Answered(t, p) <=> (p = e.pkg \/ Answered(s, p))
  BY <1>1 DEF Answered
<1> QED
  BY <1>2, <1>3 DEF t

\* A new package that is queued, or not, by request_forwarding.
LEMMA RequestOnce ==
    ASSUME TypeOK, OnceInv, NEW p \in Packages, fate[p] = "new",
           NEW f \in {"dropped", "leaked"}, RequestForwarding(p, f), UNCHANGED log
    PROVE  OnceInv'
<1>1. ~ Holds(queue, p) /\ ~ Answered(log, p)
  BY DEF OnceInv
<1>2. CASE fate' = [fate EXCEPT ![p] = f] /\ UNCHANGED queue
  BY <1>1, <1>2 DEF OnceInv, TypeOK
<1>3. CASE queue' = Append(queue, p) /\ fate' = [fate EXCEPT ![p] = "queued"]
  <2>1. /\ \A y : Holds(queue', y) <=> (y = p \/ Holds(queue, y))
        /\ Distinct(queue')
    BY <1>1, <1>3, AppendHolds DEF OnceInv, TypeOK
  <2> QED
    BY <1>1, <1>3, <2>1 DEF OnceInv, TypeOK
<1>4. CASE UNCHANGED <<queue, fate>>
  BY <1>4 DEF OnceInv
<1> QED
  BY <1>2, <1>3, <1>4 DEF RequestForwarding

\* OnceInv is an invariant.
THEOREM OnceInvariant == Spec => []OnceInv
<1>1. Init => OnceInv
  <2> SUFFICES ASSUME Init PROVE OnceInv
    OBVIOUS
  <2>1. DOMAIN queue = {} /\ DOMAIN log = {}
    BY DEF Init
  <2> QED
    BY <2>1 DEF Init, OnceInv, Holds, Distinct, AnswerOnce, Answered
<1>2. TypeOK /\ OnceInv /\ [Next]_vars => OnceInv'
  <2> SUFFICES ASSUME TypeOK, OnceInv, [Next]_vars PROVE OnceInv'
    OBVIOUS
  <2> USE DEF mipdVars, wires, peers, history
  <2>1. ASSUME NEW p \in Packages, ApplicationSends(p) PROVE OnceInv'
    <3>1. CASE (\E f \in {"sent", "dropped"} : fate' = [fate EXCEPT ![p] = f])
               /\ UNCHANGED queue
      BY <2>1, <3>1 DEF ApplicationSends, OnceInv, TypeOK
    <3>2. CASE RequestForwarding(p, "dropped")
      BY <2>1, <3>2, RequestOnce DEF ApplicationSends
    <3> QED
      BY <2>1, <3>1, <3>2 DEF ApplicationSends
  <2>2. ASSUME NEW p \in Packages, TransportArrives(p) PROVE OnceInv'
    <3>1. CASE (\E f \in {"delivered", "dropped"} : fate' = [fate EXCEPT ![p] = f])
               /\ UNCHANGED queue
      BY <2>2, <3>1 DEF TransportArrives, OnceInv, TypeOK
    <3>2. CASE RequestForwarding(p, "leaked")
      BY <2>2, <3>2, RequestOnce DEF TransportArrives
    <3> QED
      BY <2>2, <3>1, <3>2 DEF TransportArrives, Deliver
  <2>3. ASSUME ForwardResponse PROVE OnceInv'
    <3>1. CASE queue = <<>>
      BY <2>3, <3>1 DEF ForwardResponse, OnceInv
    <3>2. CASE queue # <<>>
      <4> DEFINE r == Head(responses[slot])
                 e == [pkg |-> Head(queue), asked |-> r.pkg, hop |-> r.hop]
      <4>1. slot \in Connections /\ responses[slot] # <<>>
        BY <2>3, SlotType DEF ForwardResponse
      <4>2. Head(queue) \in Packages /\ queue \in Seq(Packages)
        BY <3>2, HeadTailProperties DEF TypeOK
      <4>3. e \in Applied
        BY <4>1, <4>2, ResponseType DEF Applied
      <4>4. /\ \A y : Holds(queue', y) <=> (y # Head(queue) /\ Holds(queue, y))
            /\ Distinct(queue')
            /\ Holds(queue, Head(queue))
        BY <2>3, <3>2, <4>2, TailHolds DEF ForwardResponse, OnceInv
      <4>5. ~ Answered(log, Head(queue))
        BY <4>2, <4>4 DEF OnceInv
      <4>6. log' = Append(log, e) /\ log \in Seq(Applied) /\ e.pkg = Head(queue)
        BY <2>3, <3>2 DEF ForwardResponse, TypeOK
      <4>7. /\ AnswerOnce(log')
            /\ \A p : Answered(log', p) <=> (p = Head(queue) \/ Answered(log, p))
        <5> HIDE DEF e
        <5> QED
          BY <4>3, <4>5, <4>6, LogOnce DEF OnceInv
      <4>8. PICK f \in {"dropped", "sent", "leaked"} : fate' = [fate EXCEPT ![Head(queue)] = f]
        BY <2>3, <3>2 DEF ForwardResponse
      <4> QED
        BY <4>2, <4>4, <4>7, <4>8 DEF OnceInv, TypeOK
    <3> QED
      BY <3>1, <3>2
  <2>4. CASE UNCHANGED <<queue, fate, log>>
    BY <2>4 DEF OnceInv
  <2> QED
    BY <2>1, <2>2, <2>3, <2>4
       DEF Next, vars, AcceptForward, ForwardClosed, ArpLearn, ArpExpire, RouterdStart,
           RouterdAnswer, RouterdExit, ApplicationConnects, ApplicationReads, ApplicationLeaves,
           ApplicationClosed
<1> QED
  BY <1>1, <1>2, TypeCorrect, PTL DEF Spec

\* A package is in the queue exactly while it is queued, in one place, and one
\* answer at most is ever applied to it, whatever routerds come and go.
THEOREM EachPackageOnceHolds == Spec => []EachPackageOnce
<1>1. OnceInv => EachPackageOnce
  BY DEF OnceInv, EachPackageOnce, Holds, Distinct, AnswerOnce
<1> QED
  BY <1>1, OnceInvariant, PTL

-----------------------------------------------------------------------------
\* The reasons for which mipd may have stopped, the end of a routerd or of the
\* application and a next hop that is missing from the ARP cache, are the only
\* ones besides a system call that failed: by IInv an answer never meets an
\* empty queue, which would be another.
THEOREM StopsOnlyForHolds == Spec => []StopsOnlyFor
<1>1. Init => StopsOnlyFor
  BY DEF Init, StopsOnlyFor
<1>2. IInv /\ StopsOnlyFor /\ [Next]_vars => StopsOnlyFor'
  <2> SUFFICES ASSUME IInv, StopsOnlyFor, [Next]_vars PROVE StopsOnlyFor'
    OBVIOUS
  <2> USE DEF mipdVars, wires, peers, history
  <2>0. TypeOK /\ routerds \subseteq 1 .. opened
    BY DEF IInv, TypeOK
  <2>1. slot # NoConnection => slot \in 1 .. opened
    BY <2>0, SlotType DEF TypeOK, NoConnection
  <2>2. ASSUME NEW p, NEW f, RequestForwarding(p, f), mipd = "running", UNCHANGED peers
        PROVE  StopsOnlyFor'
    BY <2>0, <2>1, <2>2 DEF RequestForwarding, StopsOnlyFor
  <2>3. ASSUME NEW p \in Packages, ApplicationSends(p) PROVE StopsOnlyFor'
    BY <2>2, <2>3 DEF ApplicationSends, SystemCallFails, StopsOnlyFor
  <2>4. ASSUME NEW p \in Packages, TransportArrives(p) PROVE StopsOnlyFor'
    BY <2>2, <2>4 DEF TransportArrives, Deliver, SystemCallFails, StopsOnlyFor
  <2>5. ASSUME ForwardResponse PROVE StopsOnlyFor'
    <3> DEFINE r == Head(responses[slot])
               e == [pkg |-> Head(queue), asked |-> r.pkg, hop |-> r.hop]
    <3>1. slot \in Connections /\ responses[slot] # <<>> /\ slot # NoConnection
      BY <2>0, <2>5, SlotType DEF ForwardResponse
    <3>2. /\ queue \in Seq(Packages)
          /\ responses[slot] \in Seq(Response)
          /\ requests[slot] \in Seq(Packages)
      BY <2>0, <3>1 DEF TypeOK
    <3>3. queue # <<>>
      BY <3>1, <3>2, ReadMatched DEF IInv, SlotMatched
    <3>4. Head(queue) \in Packages
      BY <3>2, <3>3, HeadTailProperties
    <3>5. e \in Applied
      BY <2>0, <3>1, <3>4, ResponseType DEF Applied
    <3>6. log' = Append(log, e) /\ log \in Seq(Applied) /\ e.hop = r.hop
      BY <2>0, <2>5, <3>3 DEF ForwardResponse, TypeOK
    <3>7. log' # <<>> /\ log'[Len(log')].hop = r.hop
      <4> HIDE DEF e
      <4>1. Len(log) \in Nat /\ Len(log') = Len(log) + 1 /\ log'[Len(log) + 1] = e
        BY <3>5, <3>6, AppendProperties, LenProperties
      <4> QED
        BY <3>6, <4>1
    <3>8. mipd' \in {"failed", "killed"} => r.hop \notin cache' \cup {NoRoute}
      BY <2>5, <3>3 DEF ForwardResponse, SystemCallFails
    <3> QED
      BY <3>7, <3>8 DEF StopsOnlyFor
  <2>6. ASSUME ForwardClosed PROVE StopsOnlyFor'
    BY <2>0, <2>1, <2>6 DEF ForwardClosed, StopsOnlyFor
  <2>7. ASSUME NEW c \in Connections, RouterdExit(c) PROVE StopsOnlyFor'
    BY <2>0, <2>7 DEF RouterdExit, StopsOnlyFor
  <2>8. CASE mipd' \notin {"failed", "killed"} \/ UNCHANGED vars
    BY <2>8 DEF vars, StopsOnlyFor
  <2>9. ASSUME ApplicationLeaves PROVE StopsOnlyFor'
    BY <2>9 DEF ApplicationLeaves, StopsOnlyFor
  <2>10. ASSUME \/ AcceptForward \/ ApplicationConnects \/ ApplicationReads \/ ApplicationClosed
                \/ \E a \in Neighbours : ArpLearn(a) \/ ArpExpire(a)
         PROVE  mipd' \notin {"failed", "killed"}
    BY <2>10 DEF AcceptForward, ApplicationConnects, ApplicationReads, ApplicationClosed,
                 ArpLearn, ArpExpire, SystemCallFails
  <2>11. ASSUME \/ RouterdStart
                \/ \E c \in Connections : RouterdAnswer(c)
         PROVE  mipd' \notin {"failed", "killed"}
    BY <2>11 DEF RouterdStart, RouterdAnswer, Ended
  <2> QED
    BY <2>3, <2>4, <2>5, <2>6, <2>7, <2>8, <2>9, <2>10, <2>11 DEF Next
<1> QED
  BY <1>1, <1>2, PositionsInvariant, PTL DEF Spec


-----------------------------------------------------------------------------
(***************************************************************************)
(* Entries without a lookup.  Stale compares the queue with what lies on   *)
(* the wires of the connection in the slot: every step that keeps the slot *)
(* changes both by the same amount.                                        *)
(***************************************************************************)
Surplus(q, rs, qs) == Len(q) - (Len(rs) + Len(qs))

\* Stale, by the wires of the slot.
LEMMA StaleIs ==
    /\ slot = NoConnection => Stale = Len(queue)
    /\ slot # NoConnection => Stale = Surplus(queue, responses[slot], requests[slot])
BY DEF Stale, Outstanding, Surplus

\* An entry comes with its lookup, goes with its answer, and an answer takes
\* the place of a request.
LEMMA SurplusStands ==
    ASSUME NEW q \in Seq(Packages), NEW rs \in Seq(Response), NEW qs \in Seq(Packages)
    PROVE  /\ \A p \in Packages : Surplus(Append(q, p), rs, Append(qs, p)) = Surplus(q, rs, qs)
           /\ qs # <<>> => \A r \in Response : Surplus(q, Append(rs, r), Tail(qs)) = Surplus(q, rs, qs)
           /\ q # <<>> /\ rs # <<>> => Surplus(Tail(q), Tail(rs), qs) = Surplus(q, rs, qs)
           /\ Surplus(q, rs, qs) \in Int
           /\ Len(q) \in Nat
<1>1. Len(q) \in Nat /\ Len(rs) \in Nat /\ Len(qs) \in Nat
  BY LenProperties
<1>2. \A p \in Packages : Len(Append(q, p)) = Len(q) + 1 /\ Len(Append(qs, p)) = Len(qs) + 1
  BY AppendProperties
<1>3. \A r \in Response : Len(Append(rs, r)) = Len(rs) + 1
  BY AppendProperties
<1>4. /\ q # <<>> => Len(Tail(q)) = Len(q) - 1
      /\ rs # <<>> => Len(Tail(rs)) = Len(rs) - 1
      /\ qs # <<>> => Len(Tail(qs)) = Len(qs) - 1
  BY HeadTailProperties
<1>5. ASSUME NEW p \in Packages PROVE Surplus(Append(q, p), rs, Append(qs, p)) = Surplus(q, rs, qs)
  BY <1>1, <1>2 DEF Surplus
<1>6. ASSUME qs # <<>>, NEW r \in Response PROVE Surplus(q, Append(rs, r), Tail(qs)) = Surplus(q, rs, qs)
  BY <1>1, <1>3, <1>4, <1>6 DEF Surplus
<1>7. ASSUME q # <<>>, rs # <<>> PROVE Surplus(Tail(q), Tail(rs), qs) = Surplus(q, rs, qs)
  BY <1>1, <1>4, <1>7 DEF Surplus
<1>8. Surplus(q, rs, qs) \in Int
  BY <1>1 DEF Surplus
<1> QED
  BY <1>1, <1>5, <1>6, <1>7, <1>8


\* A lookup whose request is not written is not queued either.
LEMMA RequestKeepsStale ==
    ASSUME IInv, NEW p \in Packages, NEW f, RequestForwarding(p, f), UNCHANGED <<slot, responses>>
    PROVE  Stale' = Stale
<1>1. CASE UNCHANGED <<queue, requests>>
  BY <1>1 DEF Stale, Outstanding
<1>2. CASE /\ slot \in routerds
           /\ requests' = [requests EXCEPT ![slot] = Append(@, p)]
           /\ queue' = Append(queue, p)
  <2>1. slot \in Connections /\ slot # NoConnection
    BY <1>2, SlotType, ConnectionsType DEF IInv
  <2>2. queue \in Seq(Packages) /\ responses[slot] \in Seq(Response) /\ requests[slot] \in Seq(Packages)
    BY <2>1 DEF IInv, TypeOK
  <2>3. requests'[slot] = Append(requests[slot], p)
    BY <1>2, <2>1 DEF IInv, TypeOK
  <2>4. Stale = Surplus(queue, responses[slot], requests[slot])
    BY <2>1, StaleIs
  <2>5. Stale' = Surplus(queue', responses[slot], requests'[slot])
    BY <2>1 DEF Stale, Outstanding, Surplus
  <2> QED
    BY <1>2, <2>2, <2>3, <2>4, <2>5, SurplusStands
<1> QED
  BY <1>1, <1>2 DEF RequestForwarding

\* Lookups are lost to the queue by a change of connection only: a step that
\* keeps the slot leaves no entry without a lookup that had one.
THEOREM StaleOnlyByReconnectHolds == Spec => StaleOnlyByReconnect
<1>1. ASSUME IInv, [Next]_vars, slot' = slot PROVE Stale' <= Stale
  <2> USE DEF mipdVars, wires, peers, history
  <2>0. TypeOK /\ queue \in Seq(Packages)
    BY <1>1 DEF IInv, TypeOK
  <2>1. Stale \in Int
    <3>1. CASE slot = NoConnection
      BY <2>0, <3>1, StaleIs, LenProperties
    <3>2. CASE slot # NoConnection
      <4>1. responses[slot] \in Seq(Response) /\ requests[slot] \in Seq(Packages)
        BY <2>0, <3>2, SlotType DEF TypeOK
      <4> QED
        BY <2>0, <3>2, <4>1, StaleIs, SurplusStands
    <3> QED
      BY <3>1, <3>2
  <2> SUFFICES Stale' = Stale
    <3> HIDE DEF Stale
    <3> QED
      BY <2>1
  <2>2. CASE UNCHANGED <<queue, requests, responses>>
    BY <1>1, <2>2 DEF Stale, Outstanding
  <2>3. ASSUME NEW p \in Packages, ApplicationSends(p) PROVE Stale' = Stale
    BY <1>1, <2>2, <2>3, RequestKeepsStale DEF ApplicationSends
  <2>4. ASSUME NEW p \in Packages, TransportArrives(p) PROVE Stale' = Stale
    BY <1>1, <2>2, <2>4, RequestKeepsStale DEF TransportArrives
  <2>5. ASSUME AcceptForward PROVE UNCHANGED <<queue, requests, responses>>
    BY <2>5 DEF AcceptForward
  <2>6. ASSUME ForwardResponse PROVE Stale' = Stale
    <3>1. /\ slot \in Connections /\ slot # NoConnection /\ responses[slot] # <<>>
          /\ responses'[slot] = Tail(responses[slot])
          /\ UNCHANGED requests
      BY <2>0, <2>6, SlotType DEF ForwardResponse, TypeOK
    <3>2. responses[slot] \in Seq(Response) /\ requests[slot] \in Seq(Packages)
      BY <2>0, <3>1 DEF TypeOK
    <3>3. queue # <<>>
      BY <1>1, <2>0, <3>1, <3>2, ReadMatched DEF IInv, SlotMatched
    <3>4. queue' = Tail(queue)
      BY <2>6, <3>3 DEF ForwardResponse
    <3>5. Stale = Surplus(queue, responses[slot], requests[slot])
      BY <3>1, StaleIs
    <3>6. Stale' = Surplus(queue', responses'[slot], requests[slot])
      BY <1>1, <3>1 DEF Stale, Outstanding, Surplus
    <3> QED
      BY <2>0, <3>1, <3>2, <3>3, <3>4, <3>5, <3>6, SurplusStands
  <2>7. ASSUME NEW c \in Connections, RouterdAnswer(c) PROVE Stale' = Stale
    <3> DEFINE p == Head(requests[c])
    <3>1. PICK h \in Hops[Dest[p]] \cup {NoRoute} :
             responses' = [responses EXCEPT ![c] = Append(@, [pkg |-> p, hop |-> h])]
      BY <2>7 DEF RouterdAnswer
    <3>2. /\ requests' = [requests EXCEPT ![c] = Tail(@)] /\ requests[c] # <<>>
          /\ UNCHANGED queue
      BY <2>7 DEF RouterdAnswer
    <3>3. responses[c] \in Seq(Response) /\ requests[c] \in Seq(Packages) /\ p \in Packages
      BY <2>0, <3>2, HeadTailProperties DEF TypeOK
    <3>4. h \in Answer
      BY <3>3, ForwardingAssumption DEF Answer
    <3>5. [pkg |-> p, hop |-> h] \in Response
      BY <3>3, <3>4 DEF Response
    <3>6. CASE slot = c
      <4>1. /\ requests'[c] = Tail(requests[c])
            /\ responses'[c] = Append(responses[c], [pkg |-> p, hop |-> h])
            /\ c # NoConnection
        BY <2>0, <3>1, <3>2, ConnectionsType DEF TypeOK
      <4>2. Stale = Surplus(queue, responses[c], requests[c])
        BY <3>6, <4>1, StaleIs
      <4>3. Stale' = Surplus(queue, responses'[c], requests'[c])
        BY <1>1, <3>2, <3>6, <4>1 DEF Stale, Outstanding, Surplus
      <4> QED
        BY <2>0, <3>2, <3>3, <3>5, <4>1, <4>2, <4>3, SurplusStands
    <3>7. CASE slot # c
      <4>1. slot # NoConnection => requests'[slot] = requests[slot] /\ responses'[slot] = responses[slot]
        BY <2>0, <3>1, <3>2, <3>7, SlotType DEF TypeOK
      <4>2. CASE slot = NoConnection
        BY <1>1, <3>2, <4>2 DEF Stale
      <4>3. CASE slot # NoConnection
        <5>1. Outstanding' = Outstanding
          BY <1>1, <4>1, <4>3 DEF Outstanding
        <5> QED
          BY <1>1, <3>2, <4>3, <5>1 DEF Stale
      <4> QED
        BY <4>2, <4>3
    <3> QED
      BY <3>6, <3>7
  <2> QED
    BY <1>1, <2>2, <2>3, <2>4, <2>5, <2>6, <2>7
       DEF Next, vars, ForwardClosed, ArpLearn, ArpExpire, RouterdStart, RouterdExit,
           ApplicationConnects, ApplicationReads, ApplicationLeaves, ApplicationClosed
<1> QED
  BY <1>1, PositionsInvariant, PTL DEF Spec, StaleOnlyByReconnect


-----------------------------------------------------------------------------
(***************************************************************************)
(* Forwarding with one routerd implements LookupService.  The line of the  *)
(* service is the queue, each package with the hop of the answer that lies *)
(* at its place; what has been released is the log.                        *)
(***************************************************************************)
LineOf(q, rs) ==
    [i \in DOMAIN q |-> [pkg |-> q[i], hop |-> IF i <= Len(rs) THEN rs[i].hop ELSE Undecided]]

Waiting == [pkg : Packages, hop : Answer \cup {Undecided}]

\* The line is a list of packages that wait, as long as the queue.
LEMMA LineType ==
    ASSUME NEW q \in Seq(Packages), NEW rs \in Seq(Response)
    PROVE  /\ LineOf(q, rs) \in Seq(Waiting)
           /\ Len(LineOf(q, rs)) = Len(q)
           /\ DOMAIN LineOf(q, rs) = 1 .. Len(q)
           /\ \A i \in 1 .. Len(q) :
                 LineOf(q, rs)[i] = [pkg |-> q[i], hop |-> IF i <= Len(rs) THEN rs[i].hop ELSE Undecided]
<1>1. Len(q) \in Nat /\ DOMAIN q = 1 .. Len(q) /\ Len(rs) \in Nat
  BY LenProperties
<1>2. ASSUME NEW i \in 1 .. Len(q)
      PROVE  [pkg |-> q[i], hop |-> IF i <= Len(rs) THEN rs[i].hop ELSE Undecided] \in Waiting
  <2>1. q[i] \in Packages
    BY <1>1, <1>2
  <2>2. CASE i <= Len(rs)
    <3>1. rs[i] \in Response
      BY <1>1, <2>2
    <3> QED
      BY <2>1, <2>2, <3>1 DEF Response, Waiting
  <2>3. CASE ~ (i <= Len(rs))
    BY <2>1, <2>3 DEF Waiting
  <2> QED
    BY <2>2, <2>3
<1>3. LineOf(q, rs) \in [1 .. Len(q) -> Waiting]
  BY <1>1, <1>2 DEF LineOf
<1>4. LineOf(q, rs) \in Seq(Waiting)
  BY <1>1, <1>3, IsASeq
<1>5. Len(LineOf(q, rs)) = Len(q)
  BY <1>1, <1>3, <1>4, LenProperties
<1> QED
  BY <1>1, <1>3, <1>4, <1>5 DEF LineOf

\* Undecided is no answer.
LEMMA AnswersDecide ==
    ASSUME NEW r \in Response
    PROVE  r.hop # Undecided
BY ForwardingAssumption, UndecidedAssumption DEF Response, Answer

\* A package that is queued joins the line, undecided.
LEMMA LineAsked ==
    ASSUME NEW q \in Seq(Packages), NEW rs \in Seq(Response), NEW p \in Packages, Len(rs) <= Len(q)
    PROVE  LineOf(Append(q, p), rs) = Append(LineOf(q, rs), [pkg |-> p, hop |-> Undecided])
<1> DEFINE q1 == Append(q, p)
           e == [pkg |-> p, hop |-> Undecided]
           l == LineOf(q, rs)
           l1 == LineOf(q1, rs)
           m == Append(l, e)
<1>1. Len(q) \in Nat /\ Len(rs) \in Nat
  BY LenProperties
<1>2. /\ q1 \in Seq(Packages) /\ Len(q1) = Len(q) + 1
      /\ \A i \in 1 .. Len(q) : q1[i] = q[i]
      /\ q1[Len(q) + 1] = p
  BY AppendProperties
<1>3. l \in Seq(Waiting) /\ Len(l) = Len(q)
  BY LineType
<1>4. e \in Waiting
  BY DEF Waiting
<1>5. /\ m \in Seq(Waiting) /\ Len(m) = Len(q) + 1
      /\ \A i \in 1 .. Len(q) : m[i] = l[i]
      /\ m[Len(q) + 1] = e
  <2> HIDE DEF l, e
  <2> QED
    BY <1>3, <1>4, AppendProperties
<1> HIDE DEF q1
<1>6. /\ l1 \in Seq(Waiting) /\ Len(l1) = Len(q) + 1
      /\ \A i \in 1 .. Len(q) + 1 :
            l1[i] = [pkg |-> q1[i], hop |-> IF i <= Len(rs) THEN rs[i].hop ELSE Undecided]
  BY <1>2, LineType
<1>7. \A i \in 1 .. Len(q) :
         l[i] = [pkg |-> q[i], hop |-> IF i <= Len(rs) THEN rs[i].hop ELSE Undecided]
  BY LineType
<1> HIDE DEF l, l1, m
<1>8. ASSUME NEW i \in 1 .. Len(l1) PROVE l1[i] = m[i]
  <2>1. i \in 1 .. Len(q) + 1
    BY <1>6
  <2>2. CASE i \in 1 .. Len(q)
    BY <1>2, <1>5, <1>6, <1>7, <2>1, <2>2
  <2>3. CASE i = Len(q) + 1
    <3>1. ~ (i <= Len(rs))
      BY <1>1, <2>3
    <3> QED
      BY <1>2, <1>5, <1>6, <2>1, <2>3, <3>1
  <2> QED
    BY <1>1, <2>1, <2>2, <2>3
<1>9. l1 = m
  BY <1>5, <1>6, <1>8, SeqEqual
<1> QED
  BY <1>9 DEF l, l1, m, q1

\* An answer decides the first package that is undecided.
LEMMA LineAnswered ==
    ASSUME NEW q \in Seq(Packages), NEW rs \in Seq(Response), NEW r \in Response, Len(rs) < Len(q)
    PROVE  /\ LineOf(q, Append(rs, r)) = [LineOf(q, rs) EXCEPT ![Len(rs) + 1].hop = r.hop]
           /\ Len(rs) + 1 \in DOMAIN LineOf(q, rs)
           /\ LineOf(q, rs)[Len(rs) + 1] = [pkg |-> q[Len(rs) + 1], hop |-> Undecided]
           /\ \A j \in 1 .. Len(rs) : LineOf(q, rs)[j].hop # Undecided
<1> DEFINE n == Len(rs) + 1
           rs1 == Append(rs, r)
           l == LineOf(q, rs)
           l1 == LineOf(q, rs1)
<1>1. Len(q) \in Nat /\ Len(rs) \in Nat /\ n \in 1 .. Len(q) /\ ~ (n <= Len(rs))
  BY LenProperties
<1>2. /\ rs1 \in Seq(Response) /\ Len(rs1) = n
      /\ \A i \in 1 .. Len(rs) : rs1[i] = rs[i]
      /\ rs1[n] = r
  BY AppendProperties
<1>3. /\ l \in Seq(Waiting) /\ DOMAIN l = 1 .. Len(q)
      /\ \A i \in 1 .. Len(q) :
            l[i] = [pkg |-> q[i], hop |-> IF i <= Len(rs) THEN rs[i].hop ELSE Undecided]
  BY LineType
<1> HIDE DEF rs1
<1>4. /\ l1 \in Seq(Waiting) /\ DOMAIN l1 = 1 .. Len(q)
      /\ \A i \in 1 .. Len(q) :
            l1[i] = [pkg |-> q[i], hop |-> IF i <= Len(rs1) THEN rs1[i].hop ELSE Undecided]
  BY <1>2, LineType
<1> HIDE DEF l, l1
<1>5. l[n] = [pkg |-> q[n], hop |-> Undecided]
  BY <1>1, <1>3
<1>6. \A i \in 1 .. Len(q) : i # n => l1[i] = l[i]
  <2> SUFFICES ASSUME NEW i \in 1 .. Len(q), i # n PROVE l1[i] = l[i]
    OBVIOUS
  <2>1. CASE i <= Len(rs)
    <3>1. i \in 1 .. Len(rs) /\ i <= Len(rs1)
      BY <1>1, <1>2, <2>1
    <3> QED
      BY <1>2, <1>3, <1>4, <2>1, <3>1
  <2>2. CASE ~ (i <= Len(rs))
    <3>1. ~ (i <= Len(rs1))
      BY <1>1, <1>2, <2>2
    <3> QED
      BY <1>3, <1>4, <2>2, <3>1
  <2> QED
    BY <2>1, <2>2
<1>7. l1[n] = [pkg |-> q[n], hop |-> r.hop]
  <2>1. n <= Len(rs1)
    BY <1>1, <1>2
  <2> QED
    BY <1>1, <1>2, <1>4, <2>1
<1>8. l1 = [l EXCEPT ![n].hop = r.hop]
  <2>1. [l[n] EXCEPT !.hop = r.hop] = [pkg |-> q[n], hop |-> r.hop]
    BY <1>5
  <2>2. [l EXCEPT ![n].hop = r.hop] = [i \in 1 .. Len(q) |-> IF i = n THEN [pkg |-> q[n], hop |-> r.hop] ELSE l[i]]
    BY <1>3, <2>1
  <2>3. l1 = [i \in 1 .. Len(q) |-> l1[i]]
    BY <1>4
  <2> QED
    BY <1>6, <1>7, <2>2, <2>3
<1>9. \A j \in 1 .. Len(rs) : l[j].hop # Undecided
  <2> SUFFICES ASSUME NEW j \in 1 .. Len(rs) PROVE l[j].hop # Undecided
    OBVIOUS
  <2>1. j \in 1 .. Len(q) /\ j <= Len(rs) /\ rs[j] \in Response
    BY <1>1
  <2>2. l[j].hop = rs[j].hop
    BY <1>3, <2>1
  <2> QED
    BY <2>1, <2>2, AnswersDecide
<1> QED
  BY <1>1, <1>3, <1>5, <1>8, <1>9 DEF l, l1, rs1

\* The oldest package leaves with the oldest answer.
LEMMA LineReleased ==
    ASSUME NEW q \in Seq(Packages), NEW rs \in Seq(Response), q # <<>>, rs # <<>>
    PROVE  /\ LineOf(q, rs) # <<>>
           /\ Head(LineOf(q, rs)) = [pkg |-> Head(q), hop |-> Head(rs).hop]
           /\ LineOf(Tail(q), Tail(rs)) = Tail(LineOf(q, rs))
<1> DEFINE q1 == Tail(q)
           rs1 == Tail(rs)
           l == LineOf(q, rs)
           l1 == LineOf(q1, rs1)
           m == Tail(l)
<1>1. /\ Len(q) \in Nat /\ Len(rs) \in Nat /\ Len(q) # 0 /\ Len(rs) # 0
      /\ Head(q) = q[1] /\ Head(rs) = rs[1]
  BY LenProperties, EmptySeq
<1>2. /\ q1 \in Seq(Packages) /\ Len(q1) = Len(q) - 1
      /\ \A i \in 1 .. Len(q) - 1 : q1[i] = q[i + 1]
      /\ rs1 \in Seq(Response) /\ Len(rs1) = Len(rs) - 1
      /\ \A i \in 1 .. Len(rs) - 1 : rs1[i] = rs[i + 1]
  BY HeadTailProperties
<1>3. /\ l \in Seq(Waiting) /\ Len(l) = Len(q)
      /\ \A i \in 1 .. Len(q) :
            l[i] = [pkg |-> q[i], hop |-> IF i <= Len(rs) THEN rs[i].hop ELSE Undecided]
  BY LineType
<1>4. l # <<>>
  BY <1>1, <1>3, EmptySeq
<1>5. Head(l) = [pkg |-> Head(q), hop |-> Head(rs).hop]
  <2>1. Head(l) = l[1] /\ 1 \in 1 .. Len(q) /\ 1 <= Len(rs)
    BY <1>1, <1>3
  <2> HIDE DEF l
  <2> QED
    BY <1>1, <1>3, <2>1
<1>6. /\ m \in Seq(Waiting) /\ Len(m) = Len(q) - 1
      /\ \A i \in 1 .. Len(q) - 1 : m[i] = l[i + 1]
  <2> HIDE DEF l
  <2> QED
    BY <1>3, <1>4, HeadTailProperties
<1> HIDE DEF q1, rs1
<1>7. /\ l1 \in Seq(Waiting) /\ Len(l1) = Len(q) - 1
      /\ \A i \in 1 .. Len(q) - 1 :
            l1[i] = [pkg |-> q1[i], hop |-> IF i <= Len(rs1) THEN rs1[i].hop ELSE Undecided]
  BY <1>2, LineType
<1> HIDE DEF l, l1, m
<1>8. ASSUME NEW i \in 1 .. Len(l1) PROVE l1[i] = m[i]
  <2>1. i \in 1 .. Len(q) - 1 /\ i + 1 \in 1 .. Len(q)
    BY <1>1, <1>7
  <2>2. CASE i <= Len(rs1)
    <3>1. i \in 1 .. Len(rs) - 1 /\ i + 1 <= Len(rs)
      BY <1>1, <1>2, <2>1, <2>2
    <3> QED
      BY <1>2, <1>3, <1>6, <1>7, <2>1, <2>2, <3>1
  <2>3. CASE ~ (i <= Len(rs1))
    <3>1. ~ (i + 1 <= Len(rs))
      BY <1>1, <1>2, <2>1, <2>3
    <3> QED
      BY <1>2, <1>3, <1>6, <1>7, <2>1, <2>3, <3>1
  <2> QED
    BY <2>2, <2>3
<1>9. l1 = m
  BY <1>6, <1>7, <1>8, SeqEqual
<1> QED
  BY <1>4, <1>5, <1>9 DEF l, l1, m, q1, rs1


ReleasedOf(l) == [i \in DOMAIN l |-> [pkg |-> l[i].pkg, hop |-> l[i].hop]]

\* An answer that is logged is a package released.
LEMMA LogReleases ==
    ASSUME NEW l \in Seq(Applied), NEW e \in Applied
    PROVE  ReleasedOf(Append(l, e)) = Append(ReleasedOf(l), [pkg |-> e.pkg, hop |-> e.hop])
<1> DEFINE l1 == Append(l, e)
           d == [pkg |-> e.pkg, hop |-> e.hop]
           R == [pkg : Packages, hop : Answer]
           m == Append(ReleasedOf(l), d)
<1>1. /\ l1 \in Seq(Applied) /\ Len(l1) = Len(l) + 1 /\ Len(l) \in Nat
      /\ \A i \in 1 .. Len(l) : l1[i] = l[i]
      /\ l1[Len(l) + 1] = e
      /\ DOMAIN l = 1 .. Len(l)
  BY AppendProperties, LenProperties
<1>2. d \in R
  BY DEF Applied
<1> HIDE DEF l1, d, R
<1>3. ASSUME NEW k \in Seq(Applied)
      PROVE  /\ ReleasedOf(k) \in Seq(R) /\ Len(ReleasedOf(k)) = Len(k)
             /\ \A i \in 1 .. Len(k) : ReleasedOf(k)[i] = [pkg |-> k[i].pkg, hop |-> k[i].hop]
  <2>1. DOMAIN k = 1 .. Len(k) /\ Len(k) \in Nat
    BY LenProperties
  <2>2. \A i \in 1 .. Len(k) : k[i] \in Applied
    OBVIOUS
  <2>3. \A i \in 1 .. Len(k) : [pkg |-> k[i].pkg, hop |-> k[i].hop] \in R
    BY <2>2 DEF Applied, R
  <2>4. ReleasedOf(k) \in [1 .. Len(k) -> R]
    BY <2>1, <2>3 DEF ReleasedOf
  <2>5. ReleasedOf(k) \in Seq(R)
    BY <2>1, <2>4, IsASeq
  <2>6. Len(ReleasedOf(k)) = Len(k)
    BY <2>1, <2>4, <2>5, LenProperties
  <2> QED
    BY <2>1, <2>5, <2>6 DEF ReleasedOf
<1>4. /\ m \in Seq(R) /\ Len(m) = Len(l) + 1
      /\ \A i \in 1 .. Len(l) : m[i] = ReleasedOf(l)[i]
      /\ m[Len(l) + 1] = d
  <2>1. ReleasedOf(l) \in Seq(R) /\ Len(ReleasedOf(l)) = Len(l)
    BY <1>3
  <2> QED
    BY <1>2, <2>1, AppendProperties
<1> HIDE DEF m
<1>5. ASSUME NEW i \in 1 .. Len(l) + 1 PROVE ReleasedOf(l1)[i] = m[i]
  <2>1. ReleasedOf(l1)[i] = [pkg |-> l1[i].pkg, hop |-> l1[i].hop]
    BY <1>1, <1>3
  <2>2. CASE i \in 1 .. Len(l)
    BY <1>1, <1>3, <1>4, <2>1, <2>2
  <2>3. CASE i = Len(l) + 1
    BY <1>1, <1>4, <2>1, <2>3 DEF d
  <2> QED
    BY <1>1, <2>2, <2>3
<1>6. ReleasedOf(l1) = m
  BY <1>1, <1>3, <1>4, <1>5, SeqEqual
<1> QED
  BY <1>6 DEF m, l1, d

-----------------------------------------------------------------------------
\* Once the only routerd has left the slot, its answers have all been read and
\* it is gone; before it is accepted nothing has been asked of it.
OneInv ==
    slot = NoConnection => responses[1] = <<>> /\ (1 \in routerds => requests[1] = <<>>)

\* OneInv is an invariant of a mipd with one routerd.
LEMMA OneInvariant ==
    ASSUME MaxConnections = 1
    PROVE  Spec => []OneInv
<1>1. Connections = {1} /\ 1 # NoConnection
  BY DEF Connections, NoConnection
<1>2. Init => OneInv
  BY <1>1 DEF Init, OneInv
<1>3. IInv /\ OneInv /\ [Next]_vars => OneInv'
  <2> SUFFICES ASSUME IInv, OneInv, [Next]_vars PROVE OneInv'
    OBVIOUS
  <2> USE DEF mipdVars, wires, peers, history
  <2>0. TypeOK /\ (slot = NoConnection \/ slot = 1) /\ 1 \in Connections
    BY <1>1, SlotType DEF IInv
  <2>1. ASSUME NEW p, NEW f, RequestForwarding(p, f), UNCHANGED <<slot, routerds, responses>>
        PROVE  OneInv'
    BY <1>1, <2>0, <2>1 DEF RequestForwarding, OneInv, TypeOK
  <2>2. ASSUME NEW p \in Packages, ApplicationSends(p) PROVE OneInv'
    BY <2>1, <2>2 DEF ApplicationSends, OneInv
  <2>3. ASSUME NEW p \in Packages, TransportArrives(p) PROVE OneInv'
    BY <2>1, <2>3 DEF TransportArrives, OneInv
  <2>4. ASSUME AcceptForward PROVE OneInv'
    BY <2>0, <2>4 DEF AcceptForward, OneInv, NoConnection, TypeOK
  <2>5. ASSUME ForwardResponse PROVE OneInv'
    BY <2>5 DEF ForwardResponse, OneInv
  <2>6. ASSUME ForwardClosed PROVE OneInv'
    BY <2>0, <2>6 DEF ForwardClosed, OneInv
  <2>7. ASSUME RouterdStart PROVE OneInv'
    <3>1. accepted = 0 /\ UNCHANGED <<slot, requests, responses>>
      BY <2>0, <2>7 DEF RouterdStart, TypeOK
    <3>2. requests[1] = <<>>
      BY <2>0, <3>1 DEF IInv, WiresIdle
    <3> QED
      BY <3>1, <3>2 DEF OneInv
  <2>8. ASSUME NEW c \in Connections, RouterdAnswer(c) PROVE OneInv'
    BY <1>1, <2>8 DEF RouterdAnswer, OneInv
  <2>9. ASSUME NEW c \in Connections, RouterdExit(c) PROVE OneInv'
    BY <2>9 DEF RouterdExit, OneInv
  <2>10. CASE UNCHANGED <<slot, routerds, requests, responses>>
    BY <2>10 DEF OneInv
  <2> QED
    BY <2>2, <2>3, <2>4, <2>5, <2>6, <2>7, <2>8, <2>9, <2>10
       DEF Next, vars, ArpLearn, ArpExpire, ApplicationConnects, ApplicationReads,
           ApplicationLeaves, ApplicationClosed
<1> QED
  BY <1>2, <1>3, PositionsInvariant, PTL DEF Spec

-----------------------------------------------------------------------------
\* The refinement mapping of Service, by the operators above.
LEMMA MappingIs ==
    /\ Line = LineOf(queue, responses[1])
    /\ [i \in DOMAIN log |-> [pkg |-> log[i].pkg, hop |-> log[i].hop]] = ReleasedOf(log)
    /\ Service!Undecided = Undecided
BY DEF Line, LineOf, ReleasedOf, Service!Undecided, Undecided


\* What a package that is new meets: it is neither in the line nor released.
LEMMA NewIsNowhere ==
    ASSUME TypeOK, OnceInv, NEW p \in Packages, fate[p] = "new"
    PROVE  ~ Service!InLine(p) /\ ~ Service!Left(p)
<1>1. ~ Holds(queue, p) /\ ~ Answered(log, p)
  BY DEF OnceInv
<1>2. ~ Service!InLine(p)
  BY <1>1 DEF Service!InLine, Line, Holds
<1>3. ~ Service!Left(p)
  BY <1>1 DEF Service!Left, Answered
<1> QED
  BY <1>2, <1>3

RefInv == IInv /\ OnceInv /\ OneInv

\* No answer without its package; and when every entry has its lookup, the
\* entry after those answered is the one whose request comes first.
LEMMA MatchedFirst ==
    ASSUME NEW q \in Seq(Packages), NEW rs \in Seq(Response), NEW qs \in Seq(Packages),
           Matched(q, rs, qs)
    PROVE  /\ Len(rs) <= Len(q)
           /\ qs # <<>> /\ Len(q) = Len(rs) + Len(qs) =>
                 Len(rs) < Len(q) /\ q[Len(rs) + 1] = Head(qs)
<1>1. Len(q) \in Nat /\ Len(rs) \in Nat /\ Len(qs) \in Nat
  BY LenProperties
<1>2. Len(rs) <= Len(q)
  BY <1>1 DEF Matched
<1>3. ASSUME qs # <<>>, Len(q) = Len(rs) + Len(qs)
      PROVE  Len(rs) < Len(q) /\ q[Len(rs) + 1] = Head(qs)
  <2>1. Len(qs) # 0 /\ Head(qs) = qs[1]
    BY <1>3, EmptySeq
  <2>2. /\ Len(rs) < Len(q) /\ Len(rs) + 1 \in 1 .. Len(q) /\ 1 \in 1 .. Len(qs)
        /\ (Len(rs) + 1) + Len(qs) = Len(q) + 1
    BY <1>1, <1>3, <2>1
  <2> QED
    BY <2>1, <2>2 DEF Matched
<1> QED
  BY <1>2, <1>3

\* A package that request_forwarding queues asks the service; one that it does
\* not queue is none of the service's concern.
LEMMA RequestAsks ==
    ASSUME MaxConnections = 1, RefInv, NEW p \in Packages, fate[p] = "new",
           NEW f, RequestForwarding(p, f), UNCHANGED <<slot, responses, log>>
    PROVE  [Service!LineNext]_(Service!lineVars)
<1>1. CASE UNCHANGED queue
  BY <1>1 DEF Service!lineVars, Line
<1>2. CASE slot \in routerds /\ queue' = Append(queue, p)
  <2>1. TypeOK /\ slot = 1 /\ 1 \in Connections /\ slot # NoConnection
    BY <1>2, SlotType, ConnectionsType DEF RefInv, IInv, Connections
  <2>2. /\ queue \in Seq(Packages) /\ responses[1] \in Seq(Response) /\ requests[1] \in Seq(Packages)
    BY <2>1 DEF TypeOK
  <2>3. Len(responses[1]) <= Len(queue)
    <3>1. Matched(queue, responses[1], requests[1])
      BY <2>1 DEF RefInv, IInv, SlotMatched
    <3> QED
      BY <2>2, <3>1, MatchedFirst
  <2>4. Line' = LineOf(queue', responses[1])
    BY DEF Line, LineOf
  <2>5. Line' = Append(Line, [pkg |-> p, hop |-> Service!Undecided])
    BY <1>2, <2>2, <2>3, <2>4, LineAsked, MappingIs
  <2>6. Service!Ask(p)
    BY <2>1, <2>5, NewIsNowhere DEF RefInv, Service!Ask
  <2> QED
    BY <2>6 DEF Service!LineNext
<1> QED
  BY <1>1, <1>2 DEF RequestForwarding

\* An answer of routerd decides the lookup that is next in line.
LEMMA AnswerDecides ==
    ASSUME MaxConnections = 1, RefInv, NEW c \in Connections, RouterdAnswer(c)
    PROVE  Service!LineNext
<1> DEFINE p == Head(requests[1])
           n == Len(responses[1]) + 1
<1>1. TypeOK /\ c = 1 /\ 1 \in Connections
  BY DEF RefInv, IInv, Connections
<1>2. requests[1] # <<>> /\ 1 \in routerds /\ UNCHANGED <<queue, log>>
  BY <1>1 DEF RouterdAnswer, history, mipdVars
<1>3. slot = 1 /\ slot # NoConnection
  BY <1>1, <1>2, SlotType DEF RefInv, OneInv, Connections
<1>4. /\ queue \in Seq(Packages) /\ responses[1] \in Seq(Response) /\ requests[1] \in Seq(Packages)
      /\ p \in Packages
  BY <1>1, <1>2, HeadTailProperties DEF TypeOK
<1>5. PICK h \in Hops[Dest[p]] \cup {NoRoute} :
         responses' = [responses EXCEPT ![1] = Append(@, [pkg |-> p, hop |-> h])]
  BY <1>1 DEF RouterdAnswer
<1> DEFINE r == [pkg |-> p, hop |-> h]
<1>6. r \in Response
  <2>1. h \in Answer
    BY <1>4, ForwardingAssumption DEF Answer
  <2> QED
    BY <1>4, <2>1 DEF Response
<1>7. responses'[1] = Append(responses[1], r)
  BY <1>1, <1>5 DEF TypeOK
<1>8. Matched(queue, responses[1], requests[1]) /\ Len(queue) = Len(responses[1]) + Len(requests[1])
  BY <1>1, <1>3, SlotType DEF RefInv, IInv, SlotMatched, FirstConnection, TypeOK
<1>9. Len(responses[1]) \in Nat
  BY <1>4, LenProperties
<1>10. Len(responses[1]) < Len(queue)
  BY <1>2, <1>4, <1>8, MatchedFirst
<1>11. queue[n] = p
  BY <1>2, <1>4, <1>8, MatchedFirst
<1>12. Line' = LineOf(queue, Append(responses[1], r))
  BY <1>2, <1>7 DEF Line, LineOf
<1> HIDE DEF n, p
<1>13. /\ Line' = [Line EXCEPT ![n].hop = h]
       /\ n \in DOMAIN Line
       /\ Line[n] = [pkg |-> p, hop |-> Undecided]
       /\ \A j \in 1 .. Len(responses[1]) : Line[j].hop # Undecided
  <2>1. r.hop = h
    OBVIOUS
  <2> HIDE DEF r
  <2>2. /\ LineOf(queue, Append(responses[1], r)) = [LineOf(queue, responses[1]) EXCEPT ![n].hop = r.hop]
        /\ n \in DOMAIN LineOf(queue, responses[1])
        /\ LineOf(queue, responses[1])[n] = [pkg |-> queue[n], hop |-> Undecided]
        /\ \A j \in 1 .. Len(responses[1]) : LineOf(queue, responses[1])[j].hop # Undecided
    BY <1>4, <1>6, <1>10, LineAnswered DEF n
  <2>3. Line = LineOf(queue, responses[1])
    BY MappingIs
  <2> QED
    BY <1>11, <1>12, <2>1, <2>2, <2>3
<1>14. \A j \in 1 .. n - 1 : Line[j].hop # Service!Undecided
  <2>1. 1 .. n - 1 = 1 .. Len(responses[1])
    BY <1>9 DEF n
  <2> QED
    BY <1>13, <2>1, MappingIs
<1>15. UNCHANGED [i \in DOMAIN log |-> [pkg |-> log[i].pkg, hop |-> log[i].hop]]
  BY <1>2
<1>16. /\ Line[n].hop = Service!Undecided /\ Line[n].pkg = p
  BY <1>13, MappingIs
<1>17. Service!Decide(n)
  BY <1>5, <1>13, <1>14, <1>15, <1>16 DEF Service!Decide
<1> QED
  BY <1>13, <1>17 DEF Service!LineNext

\* mipd releases the oldest package with the decision at its place.
LEMMA ResponseReleases ==
    ASSUME MaxConnections = 1, RefInv, ForwardResponse
    PROVE  Service!LineNext
<1> DEFINE r == Head(responses[1])
           e == [pkg |-> Head(queue), asked |-> r.pkg, hop |-> r.hop]
<1>1. TypeOK /\ slot = 1 /\ 1 \in Connections /\ slot # NoConnection
  BY SlotType DEF RefInv, IInv, Connections, ForwardResponse
<1>2. responses[1] # <<>> /\ responses'[1] = Tail(responses[1])
  BY <1>1 DEF ForwardResponse, TypeOK
<1>3. /\ queue \in Seq(Packages) /\ responses[1] \in Seq(Response) /\ requests[1] \in Seq(Packages)
      /\ log \in Seq(Applied)
  BY <1>1 DEF TypeOK
<1>4. queue # <<>>
  BY <1>1, <1>2, <1>3, ReadMatched DEF RefInv, IInv, SlotMatched
<1>5. queue' = Tail(queue) /\ log' = Append(log, e)
  BY <1>1, <1>4 DEF ForwardResponse
<1>6. Head(queue) \in Packages
  BY <1>3, <1>4, HeadTailProperties
<1>7. r \in Response /\ e \in Applied
  <2>1. r \in Response
    BY <1>1, <1>2, ResponseType
  <2> QED
    BY <1>6, <2>1 DEF Response, Applied
<1>8. /\ Line # <<>>
      /\ Head(Line) = [pkg |-> Head(queue), hop |-> r.hop]
      /\ Line' = Tail(Line)
  <2>1. Line' = LineOf(Tail(queue), Tail(responses[1]))
    BY <1>2, <1>5 DEF Line, LineOf
  <2> QED
    BY <1>2, <1>3, <1>4, <2>1, LineReleased, MappingIs
<1>9. r.hop # Service!Undecided
  BY <1>7, AnswersDecide, MappingIs
<1>10. ReleasedOf(log') = Append(ReleasedOf(log), [pkg |-> Head(queue), hop |-> r.hop])
  <2>1. e.pkg = Head(queue) /\ e.hop = r.hop
    OBVIOUS
  <2> HIDE DEF e
  <2> QED
    BY <1>3, <1>5, <1>7, <2>1, LogReleases
<1>11. [i \in DOMAIN log |-> [pkg |-> log[i].pkg, hop |-> log[i].hop]]'
          = Append([i \in DOMAIN log |-> [pkg |-> log[i].pkg, hop |-> log[i].hop]], Head(Line))
  BY <1>8, <1>10 DEF ReleasedOf
<1>12. Head(Line).hop # Service!Undecided
  BY <1>8, <1>9
<1>13. Service!Release
  BY <1>8, <1>11, <1>12 DEF Service!Release
<1> QED
  BY <1>13 DEF Service!LineNext

\* With one routerd, whenever it comes and goes, forwarding implements the
\* lookup service: every package leaves in its turn, by a route to its own
\* destination.
THEOREM Refinement ==
    ASSUME MaxConnections = 1
    PROVE  Spec => ImplementsService
<1>1. Init => Service!LineInit
  <2> SUFFICES ASSUME Init PROVE Service!LineInit
    OBVIOUS
  <2>1. DOMAIN queue = {} /\ DOMAIN log = {}
    BY DEF Init
  <2> QED
    BY <2>1 DEF Service!LineInit, Line
<1>2. RefInv /\ [Next]_vars => [Service!LineNext]_(Service!lineVars)
  <2> SUFFICES ASSUME RefInv, [Next]_vars PROVE [Service!LineNext]_(Service!lineVars)
    OBVIOUS
  <2> USE DEF mipdVars, wires, peers, history
  <2>1. CASE UNCHANGED <<queue, responses, log>>
    BY <2>1 DEF Service!lineVars, Line
  <2>2. ASSUME NEW p \in Packages, ApplicationSends(p) PROVE [Service!LineNext]_(Service!lineVars)
    BY <2>1, <2>2, RequestAsks DEF ApplicationSends
  <2>3. ASSUME NEW p \in Packages, TransportArrives(p) PROVE [Service!LineNext]_(Service!lineVars)
    BY <2>1, <2>3, RequestAsks DEF TransportArrives
  <2> QED
    BY <2>1, <2>2, <2>3, AnswerDecides, ResponseReleases
       DEF Next, vars, AcceptForward, ForwardClosed, ArpLearn, ArpExpire, RouterdStart, RouterdExit,
           ApplicationConnects, ApplicationReads, ApplicationLeaves, ApplicationClosed
<1> QED
  BY <1>1, <1>2, PositionsInvariant, OnceInvariant, OneInvariant, PTL
     DEF Spec, RefInv, ImplementsService, Service!LineSpec


-----------------------------------------------------------------------------
(***************************************************************************)
(* A route to its own destination.  RoutedByItsDestination fails once an   *)
(* answer reaches a package it was not asked for; the positions say when   *)
(* that cannot be.                                                         *)
(***************************************************************************)
\* While one routerd has been accepted, what is sent after a lookup goes to a
\* next hop that a table may hold for its destination.
RoutedByOneRouterd == accepted <= 1 => RoutedByItsDestination

Routed(r) == r.hop \in Hops[Dest[r.pkg]] \cup {NoRoute}

\* Every answer is one to its lookup's destination, and none without a route
\* sends a package.
AnswersInv ==
    /\ \A c \in Connections : \A i \in DOMAIN responses[c] : Routed(responses[c][i])
    /\ \A i \in DOMAIN log :
          /\ log[i].hop \in Hops[Dest[log[i].asked]] \cup {NoRoute}
          /\ fate[log[i].pkg] = "sent" => log[i].hop # NoRoute

\* What happens to a package without an answer is no news of those that have one.
LEMMA OthersKeep ==
    ASSUME TypeOK, OnceInv, AnswersInv, NEW p \in Packages, fate[p] = "new",
           NEW f, fate' = [fate EXCEPT ![p] = f], UNCHANGED <<responses, log>>
    PROVE  AnswersInv'
<1>1. \A i \in DOMAIN log : log[i].pkg # p /\ log[i].pkg \in Packages
  <2>1. ~ Answered(log, p)
    BY DEF OnceInv
  <2>2. \A i \in DOMAIN log : log[i] \in Applied
    BY DEF TypeOK
  <2> QED
    BY <2>1, <2>2 DEF Answered, Applied
<1>2. \A i \in DOMAIN log : fate'[log[i].pkg] = fate[log[i].pkg]
  BY <1>1 DEF TypeOK
<1> QED
  BY <1>2 DEF AnswersInv

\* The history of the answers stays good.
LEMMA AnswersInvariant == Spec => []AnswersInv
<1>1. Init => AnswersInv
  <2> SUFFICES ASSUME Init PROVE AnswersInv
    OBVIOUS
  <2>1. DOMAIN log = {} /\ \A c \in Connections : DOMAIN responses[c] = {}
    BY DEF Init
  <2> QED
    BY <2>1 DEF AnswersInv
<1>2. TypeOK /\ OnceInv /\ AnswersInv /\ [Next]_vars => AnswersInv'
  <2> SUFFICES ASSUME TypeOK, OnceInv, AnswersInv, [Next]_vars PROVE AnswersInv'
    OBVIOUS
  <2> USE DEF mipdVars, wires, peers, history
  <2>1. CASE UNCHANGED <<responses, log, fate>>
    BY <2>1 DEF AnswersInv
  <2>2. ASSUME NEW p \in Packages, ApplicationSends(p) PROVE AnswersInv'
    BY <2>1, <2>2, OthersKeep DEF ApplicationSends, RequestForwarding
  <2>3. ASSUME NEW p \in Packages, TransportArrives(p) PROVE AnswersInv'
    BY <2>1, <2>3, OthersKeep DEF TransportArrives, RequestForwarding, Deliver
  <2>4. ASSUME ForwardResponse PROVE AnswersInv'
    <3> DEFINE r == Head(responses[slot])
               e == [pkg |-> Head(queue), asked |-> r.pkg, hop |-> r.hop]
    <3>1. /\ slot \in Connections /\ responses[slot] # <<>> /\ responses[slot] \in Seq(Response)
          /\ responses'[slot] = Tail(responses[slot])
          /\ \A c \in Connections : c # slot => responses'[c] = responses[c]
      BY <2>4, SlotType DEF ForwardResponse, TypeOK
    <3>2. /\ \A i \in DOMAIN Tail(responses[slot]) :
                i + 1 \in DOMAIN responses[slot] /\ Tail(responses[slot])[i] = responses[slot][i + 1]
          /\ 1 \in DOMAIN responses[slot] /\ r = responses[slot][1]
      <4> DEFINE s == responses[slot]
      <4>1. s \in Seq(Response) /\ s # <<>>
        BY <3>1
      <4> HIDE DEF s
      <4>2. /\ Len(s) \in Nat /\ Len(s) # 0 /\ DOMAIN s = 1 .. Len(s) /\ DOMAIN Tail(s) = 1 .. Len(s) - 1
            /\ \A i \in 1 .. Len(s) - 1 : Tail(s)[i] = s[i + 1]
            /\ Head(s) = s[1]
        BY <4>1, HeadTailProperties, LenProperties, EmptySeq
      <4>3. /\ \A i \in DOMAIN Tail(s) : i + 1 \in DOMAIN s /\ Tail(s)[i] = s[i + 1]
            /\ 1 \in DOMAIN s /\ Head(s) = s[1]
        BY <4>2
      <4> QED
        BY <4>3 DEF s
    <3>3. \A c \in Connections : \A i \in DOMAIN responses'[c] : Routed(responses'[c][i])
      <4> SUFFICES ASSUME NEW c \in Connections, NEW i \in DOMAIN responses'[c]
                   PROVE  Routed(responses'[c][i])
        OBVIOUS
      <4>1. CASE c # slot
        BY <3>1, <4>1 DEF AnswersInv
      <4>2. CASE c = slot
        <5>1. i \in DOMAIN Tail(responses[slot]) /\ responses'[c][i] = Tail(responses[slot])[i]
          BY <3>1, <4>2
        <5>2. i + 1 \in DOMAIN responses[slot] /\ responses'[c][i] = responses[slot][i + 1]
          BY <3>2, <5>1
        <5> QED
          BY <3>1, <5>2 DEF AnswersInv
      <4> QED
        BY <4>1, <4>2
    <3>4. CASE queue = <<>>
      BY <2>4, <3>3, <3>4 DEF ForwardResponse, AnswersInv
    <3>5. CASE queue # <<>>
      <4>1. Head(queue) \in Packages /\ Holds(queue, Head(queue))
        BY <3>5, TailHolds, HeadTailProperties DEF TypeOK, OnceInv
      <4>2. ~ Answered(log, Head(queue))
        BY <4>1 DEF OnceInv
      <4>3. e \in Applied /\ r \in Response /\ Routed(r)
        BY <3>1, <3>2, <4>1, ResponseType DEF Applied, AnswersInv
      <4>4. log' = Append(log, e) /\ log \in Seq(Applied)
        BY <2>4, <3>5 DEF ForwardResponse, TypeOK
      <4>5. PICK f : fate' = [fate EXCEPT ![Head(queue)] = f] /\ (f = "sent" => r.hop # NoRoute)
        <5>1. /\ r.hop = NoRoute => fate' = [fate EXCEPT ![Head(queue)] = "dropped"]
              /\ r.hop \notin cache \cup {NoRoute} => fate' = [fate EXCEPT ![Head(queue)] = "leaked"]
              /\ r.hop \in cache =>
                    /\ r.hop # NoRoute
                    /\ \E f \in {"sent", "leaked"} : fate' = [fate EXCEPT ![Head(queue)] = f]
          BY <2>4, <3>5, ForwardingAssumption DEF ForwardResponse, TypeOK
        <5> QED
          BY <5>1
      <4>6. /\ e.pkg = Head(queue) /\ e.asked = r.pkg /\ e.hop = r.hop
        OBVIOUS
      <4> HIDE DEF e, r
      <4>7. /\ DOMAIN log = 1 .. Len(log) /\ Len(log) \in Nat
            /\ DOMAIN log' = 1 .. Len(log) + 1
            /\ \A i \in 1 .. Len(log) : log'[i] = log[i]
            /\ log'[Len(log) + 1] = e
        BY <4>3, <4>4, AppendProperties, LenProperties
      <4>8. \A i \in DOMAIN log : log[i].pkg # Head(queue) /\ log[i].pkg \in Packages
        <5>1. \A i \in DOMAIN log : log[i] \in Applied
          BY <4>4
        <5> QED
          BY <4>2, <5>1 DEF Answered, Applied
      <4>9. fate'[Head(queue)] = f /\ \A p \in Packages : p # Head(queue) => fate'[p] = fate[p]
        BY <4>1, <4>5 DEF TypeOK
      <4>10. ASSUME NEW i \in DOMAIN log'
             PROVE  /\ log'[i].hop \in Hops[Dest[log'[i].asked]] \cup {NoRoute}
                    /\ fate'[log'[i].pkg] = "sent" => log'[i].hop # NoRoute
        <5>1. CASE i \in DOMAIN log
          BY <4>7, <4>8, <4>9, <5>1 DEF AnswersInv
        <5>2. CASE i = Len(log) + 1
          BY <4>3, <4>5, <4>6, <4>7, <4>9, <5>2 DEF Routed
        <5> QED
          BY <4>7, <4>10, <5>1, <5>2
      <4> QED
        BY <3>3, <4>10 DEF AnswersInv
    <3> QED
      BY <3>4, <3>5
  <2>5. ASSUME NEW c \in Connections, RouterdAnswer(c) PROVE AnswersInv'
    <3> DEFINE p == Head(requests[c])
    <3>1. PICK h \in Hops[Dest[p]] \cup {NoRoute} :
             responses' = [responses EXCEPT ![c] = Append(@, [pkg |-> p, hop |-> h])]
      BY <2>5 DEF RouterdAnswer
    <3> DEFINE r == [pkg |-> p, hop |-> h]
    <3>2. p \in Packages
      BY <2>5, HeadTailProperties DEF RouterdAnswer, TypeOK
    <3>3. r \in Response /\ Routed(r)
      <4>1. h \in Answer
        BY <3>2, ForwardingAssumption DEF Answer
      <4> QED
        BY <3>2, <4>1 DEF Response, Routed
    <3>4. /\ responses'[c] = Append(responses[c], r) /\ responses[c] \in Seq(Response)
          /\ \A d \in Connections : d # c => responses'[d] = responses[d]
      BY <3>1 DEF TypeOK
    <3> HIDE DEF r
    <3>5. \A i \in DOMAIN responses'[c] : Routed(responses'[c][i])
      <4>1. /\ DOMAIN Append(responses[c], r) = 1 .. Len(responses[c]) + 1
            /\ Append(responses[c], r)[Len(responses[c]) + 1] = r
            /\ \A i \in 1 .. Len(responses[c]) : Append(responses[c], r)[i] = responses[c][i]
            /\ DOMAIN responses[c] = 1 .. Len(responses[c]) /\ Len(responses[c]) \in Nat
        BY <3>3, <3>4, AppendProperties, LenProperties
      <4> QED
        BY <3>3, <3>4, <4>1 DEF AnswersInv
    <3> QED
      BY <2>5, <3>4, <3>5 DEF RouterdAnswer, AnswersInv
  <2> QED
    BY <2>1, <2>2, <2>3, <2>4, <2>5
       DEF Next, vars, AcceptForward, ForwardClosed, ArpLearn, ArpExpire, RouterdStart, RouterdExit,
           ApplicationConnects, ApplicationReads, ApplicationLeaves, ApplicationClosed
<1> QED
  BY <1>1, <1>2, TypeCorrect, OnceInvariant, PTL DEF Spec

\* The sentence of routerd/README.md:55 that the second routerd breaks is kept
\* for as long as mipd has accepted one: what is sent after a lookup goes to a
\* next hop that a table may hold for its destination.
THEOREM RoutedByOneRouterdHolds == Spec => []RoutedByOneRouterd
<1>1. TypeOK /\ OwnAnswer /\ AnswersInv => RoutedByOneRouterd
  <2> SUFFICES ASSUME OwnAnswer, AnswersInv, accepted <= 1, NEW i \in DOMAIN log,
                      fate[log[i].pkg] = "sent"
               PROVE  log[i].hop \in Hops[Dest[log[i].pkg]]
    BY DEF RoutedByOneRouterd, RoutedByItsDestination
  <2> QED
    BY DEF OwnAnswer, AnswersInv
<1> QED
  BY <1>1, TypeCorrect, OwnAnswerHolds, AnswersInvariant, PTL
=============================================================================
