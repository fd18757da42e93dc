------------------------------ MODULE Transport ------------------------------
(***************************************************************************)
(* The way of a transport package (TRA 3) through the hosts of a network.  *)
(*                                                                         *)
(* The mipd of the sending host puts it on the link itself when its        *)
(* destination is a neighbour in the ARP cache, and asks its routerd for a *)
(* next hop otherwise.  A mipd that receives it passes it to its           *)
(* application, drops it at the end of its time to live, or asks for a     *)
(* next hop in its turn.                                                   *)
(*                                                                         *)
(* What a routerd answers is left open: any neighbour in the cache, at any *)
(* time another one.  Routing tables are stale or contradictory while they *)
(* converge (module RoutingNetwork), and answers may be given to the wrong *)
(* package (module Forwarding).  Where these stop a mipd, the package ends *)
(* as one that is lost.                                                    *)
(* Nothing makes a package go on: its lookup may never be answered.        *)
(***************************************************************************)
EXTENDS Naturals

CONSTANTS
    Nodes,        \* hosts
    Own,          \* the addresses of each host
    Neighbours,   \* the hosts at the other ends of each host's links
    Address,      \* Address[x][y]: the address of x on its link to y
    Packages,     \* packages, by identity
    Source,       \* the host whose application sends it
    Dest,         \* m_header.dst_addr
    NoAddress,    \* 255, the source address of a package that was queued unsent
    InitialTTL    \* 15, all a ttl of 4 bits can hold

ASSUME TransportAssumption ==
    /\ Neighbours \in [Nodes -> SUBSET Nodes]
    /\ \A x \in Nodes : \A y \in Neighbours[x] : x # y /\ Address[x][y] \in Own[x]
    /\ Source \in [Packages -> Nodes]
    /\ \A p \in Packages : Dest[p] \notin Own[Source[p]]
    /\ \A x \in Nodes : NoAddress \notin Own[x]
    /\ InitialTTL \in Nat

VARIABLES
    arp,     \* the neighbours in the ARP cache of each mipd
    app,     \* the hosts where an application is connected
    state,   \* where each package is in its life
    host,    \* the host that has it, or to which it is sent
    ttl,     \* m_header.ttl
    src,     \* m_header.src_addr
    links    \* history: the links each package has crossed, as far as they are counted

package == <<state, host, ttl, src, links>>
vars    == <<arp, app, package>>

States    == {"new", "queued", "sent", "delivered", "dropped"}
Addresses == (UNION {Own[x] : x \in Nodes}) \cup {NoAddress}

TypeOK ==
    /\ arp \in [Nodes -> SUBSET Nodes]
    /\ \A x \in Nodes : arp[x] \subseteq Neighbours[x]
    /\ app \subseteq Nodes
    /\ state \in [Packages -> States]
    /\ host \in [Packages -> Nodes]
    /\ ttl \in [Packages -> 0 .. InitialTTL]
    /\ src \in [Packages -> Addresses]
    /\ links \in [Packages -> Nat]

Init ==
    /\ arp = [x \in Nodes |-> {}]
    /\ app = Nodes
    /\ state = [p \in Packages |-> "new"]
    /\ host = Source
    /\ ttl = [p \in Packages |-> InitialTTL]
    /\ src = [p \in Packages |-> NoAddress]
    /\ links = [p \in Packages |-> 0]

-----------------------------------------------------------------------------
(* Steps of a package                                                       *)

\* sendto_raw_mip_package: host x sends p to its neighbour y, from address a.
SendTo(p, x, y, a) ==
    /\ state' = [state EXCEPT ![p] = "sent"]
    /\ host' = [host EXCEPT ![p] = y]
    /\ src' = [src EXCEPT ![p] = a]
    /\ links' = [links EXCEPT ![p] = IF @ > InitialTTL + 1 THEN @ ELSE @ + 1]

\* It ends here.
Becomes(p, end) ==
    /\ state' = [state EXCEPT ![p] = end]
    /\ UNCHANGED <<host, src, links>>

\* handle_domain_socket_request: the destination is a neighbour.
SendDirect(p) ==
    /\ state[p] = "new"
    /\ \E y \in arp[Source[p]] :
          /\ Dest[p] = Address[y][Source[p]]
          /\ SendTo(p, Source[p], y, Address[Source[p]][y])
    /\ UNCHANGED <<arp, app, ttl>>

\* create_queueable_MIPDMessage_MIPPackage: it waits for a next hop, or is
\* dropped because no routerd is connected.
SendQueued(p) ==
    /\ state[p] = "new"
    /\ \A y \in arp[Source[p]] : Dest[p] # Address[y][Source[p]]
    /\ \E s \in {"queued", "dropped"} : Becomes(p, s)
    /\ UNCHANGED <<arp, app, ttl>>

\* Faulty variant: every router writes its own address into the package.
Forward_AlwaysFrom(p) ==
    /\ state[p] = "queued"
    /\ \E y \in arp[host[p]] : SendTo(p, host[p], y, Address[host[p]][y])
    /\ UNCHANGED <<arp, app, ttl>>

\* load_forward_package, handle_forward_response: the source address is filled
\* in where the package starts.
Forward(p) ==
    /\ state[p] = "queued"
    /\ \E y \in arp[host[p]] :
          SendTo(p, host[p], y, IF src[p] = NoAddress THEN Address[host[p]][y] ELSE src[p])
    /\ UNCHANGED <<arp, app, ttl>>

\* 255 is the answer, there is no route.
NoRoute(p) ==
    /\ state[p] = "queued"
    /\ Becomes(p, "dropped")
    /\ UNCHANGED <<arp, app, ttl>>

\* Faulty variant: the time to live is decremented only for own packages.
Arrive_KeepsTTL(p) ==
    /\ state[p] = "sent"
    /\ \/ /\ Dest[p] \in Own[host[p]]
          /\ Becomes(p, IF host[p] \in app THEN "delivered" ELSE "dropped")
       \/ /\ Dest[p] \notin Own[host[p]] /\ ttl[p] = 0
          /\ Becomes(p, "dropped")
       \/ /\ Dest[p] \notin Own[host[p]] /\ ttl[p] # 0
          /\ \E s \in {"queued", "dropped"} : Becomes(p, s)
    /\ UNCHANGED <<arp, app, ttl>>

\* Faulty variant: 0 is decremented too, in 4 bits.
Arrive_Wraps(p) ==
    /\ state[p] = "sent"
    /\ \/ /\ Dest[p] \in Own[host[p]]
          /\ Becomes(p, IF host[p] \in app THEN "delivered" ELSE "dropped")
          /\ UNCHANGED ttl
       \/ /\ Dest[p] \notin Own[host[p]]
          /\ ttl' = [ttl EXCEPT ![p] = IF @ = 0 THEN InitialTTL ELSE @ - 1]
          /\ \E s \in {"queued", "dropped"} : Becomes(p, s)
    /\ UNCHANGED <<arp, app>>

\* Faulty variant: dropped when the time to live is -1, as the README words it.
Arrive_ToMinusOne(p) ==
    /\ state[p] = "sent"
    /\ \/ /\ Dest[p] \in Own[host[p]]
          /\ Becomes(p, IF host[p] \in app THEN "delivered" ELSE "dropped")
          /\ UNCHANGED ttl
       \/ /\ Dest[p] \notin Own[host[p]]
          /\ ttl' = [ttl EXCEPT ![p] = @ - 1]
          /\ \E s \in {"queued", "dropped"} : Becomes(p, IF ttl[p] = 0 THEN "dropped" ELSE s)
    /\ UNCHANGED <<arp, app>>

\* handle_raw_socket_frame: it is for the application, at its end, or to be
\* forwarded.
Arrive(p) ==
    /\ state[p] = "sent"
    /\ \/ /\ Dest[p] \in Own[host[p]]
          /\ Becomes(p, IF host[p] \in app THEN "delivered" ELSE "dropped")
          /\ UNCHANGED ttl
       \/ /\ Dest[p] \notin Own[host[p]] /\ ttl[p] = 0
          /\ Becomes(p, "dropped")
          /\ UNCHANGED ttl
       \/ /\ Dest[p] \notin Own[host[p]] /\ ttl[p] # 0
          /\ ttl' = [ttl EXCEPT ![p] = @ - 1]
          /\ \E s \in {"queued", "dropped"} : Becomes(p, s)
    /\ UNCHANGED <<arp, app>>

-----------------------------------------------------------------------------
(* The hosts around it                                                      *)

\* A frame is lost, or the mipd that has the package ends.
Lose(p) ==
    /\ state[p] \in {"queued", "sent"}
    /\ Becomes(p, "dropped")
    /\ UNCHANGED <<arp, app, ttl>>

ArpLearn(x, y) ==
    /\ arp' = [arp EXCEPT ![x] = @ \cup {y}]
    /\ UNCHANGED <<app, package>>

ArpExpire(x, y) ==
    /\ arp' = [arp EXCEPT ![x] = @ \ {y}]
    /\ UNCHANGED <<app, package>>

\* The application of a host disconnects, or connects again.
AppChanges(x) ==
    /\ app' = IF x \in app THEN app \ {x} ELSE app \cup {x}
    /\ UNCHANGED <<arp, package>>

-----------------------------------------------------------------------------

Next ==
    \/ \E p \in Packages : SendDirect(p)
    \/ \E p \in Packages : SendQueued(p)
    \/ \E p \in Packages : Forward(p)
    \/ \E p \in Packages : NoRoute(p)
    \/ \E p \in Packages : Arrive(p)
    \/ \E p \in Packages : Lose(p)
    \/ \E x \in Nodes : \E y \in Neighbours[x] : ArpLearn(x, y)
    \/ \E x \in Nodes : \E y \in Neighbours[x] : ArpExpire(x, y)
    \/ \E x \in Nodes : AppChanges(x)

Spec == Init /\ [][Next]_vars

-----------------------------------------------------------------------------
(* Properties                                                               *)

\* A package crosses one link more than its time to live allows hops, however
\* the routes turn while it is under way (routerd/README.md:57, server.c:127).
LinksBounded == \A p \in Packages : links[p] <= InitialTTL + 1

\* What a host receives bears an address of the host that sent it, so that its
\* application can answer, whichever hosts have forwarded it
\* (forwarding.c:72).
SourceIsOrigin ==
    \A p \in Packages : state[p] \in {"sent", "delivered"} => src[p] \in Own[Source[p]]

\* No package circulates for ever, even if routes form a loop for ever: it ends,
\* or it stays where it is, as in the queue of a lookup without an answer
\* (server.c:127-136).
ComesToRest == \A p \in Packages : <>[][UNCHANGED <<state[p], host[p]>>]_vars
=============================================================================
