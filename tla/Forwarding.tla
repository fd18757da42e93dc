----------------------------- MODULE Forwarding -----------------------------
(***************************************************************************)
(* The forwarding engine of mipd and its conversation with routerd.        *)
(*                                                                         *)
(* mipd has one epoll loop.  A transport package that is neither for this  *)
(* host nor (when an application sends it) for a direct neighbour is put   *)
(* at the end of the forward queue, and its destination, one byte, is      *)
(* written to the forward socket.  routerd reads the bytes one by one and  *)
(* writes one byte back for each: the next hop, or 255.  An answer carries *)
(* nothing that names its package: mipd pops the oldest package of the     *)
(* queue and applies the answer to it.                                     *)
(*                                                                         *)
(* routerd processes come and go.  Each connects to the listening socket   *)
(* of mipd, which accepts connections in order and remembers the last one  *)
(* in a single slot (connected_socket_fd).                                 *)
(*                                                                         *)
(* An application comes and goes too.  mipd writes to it what arrives for  *)
(* this host, which may block it, or end it when the application has gone. *)
(* Every error of a handler ends the loop, and so ends mipd.               *)
(*                                                                         *)
(* The byte written for a package is its destination; the model writes the *)
(* package itself, so that properties can tell whose lookup it was.  The   *)
(* code reads nothing but Dest[p] from it.                                 *)
(***************************************************************************)
EXTENDS Naturals, Sequences, FiniteSets

CONSTANTS
    Packages,        \* transport packages, by identity
    FromApplication, \* those the local application sends; the others arrive on a raw socket
    Expired,         \* those that arrive with a TTL of 0
    Destinations,    \* MIP addresses
    Own,             \* the addresses of this host's interfaces
    Neighbours,      \* the addresses a link reaches
    Dest,            \* m_header.dst_addr of each package
    Hops,            \* the next hops a table of routerd may hold for each destination
    NoRoute,         \* 255, the answer for an unknown destination
    MaxConnections,  \* bound: how many routerd processes are ever started
    MaxExpiries      \* bound: how often an ARP cache entry expires

Connections  == 1 .. MaxConnections
NoConnection == 0    \* connected_socket_fd = -1

ASSUME ForwardingAssumption ==
    /\ FromApplication \subseteq Packages
    /\ Expired \subseteq Packages \ FromApplication
    /\ Own \subseteq Destinations
    /\ Neighbours \subseteq Destinations
    /\ Own \cap Neighbours = {}
    /\ Dest \in [Packages -> Destinations]
    /\ Hops \in [Destinations -> SUBSET (Own \cup Neighbours)]
    /\ \A a \in Own : Hops[a] = {a}
    /\ NoRoute \notin Destinations
    /\ MaxConnections \in Nat
    /\ MaxExpiries \in Nat

VARIABLES
    mipd,       \* running, blocked (in a send), or ended: see Ended
    application,\* the application in the slot: none, open, or gone and not yet noticed
    cache,      \* the neighbours in the ARP cache
    queue,      \* the forward queue, oldest package first
    slot,       \* forward_socket->connected_socket_fd
    opened,     \* how many routerds have connected
    accepted,   \* how many of these connections mipd has accepted
    routerds,   \* the connections whose routerd is alive
    requests,   \* bytes from mipd to routerd, per connection
    responses,  \* bytes from routerd to mipd, per connection
    reset,      \* connections closed with unread bytes: a read reports an error
    expiries,   \* ARP entries expired so far (for the bound only)
    fate,       \* history: what became of each package
    log         \* history: the answers applied, in order

mipdVars == <<mipd, cache, queue, slot, accepted, expiries>>
wires    == <<requests, responses>>
peers    == <<opened, routerds, reset, application>>
history  == <<fate, log>>
vars     == <<mipdVars, wires, peers, history>>

\* mipd has left its loop by an error of its own, by a system call that
\* failed, or was killed by a signal.
Ended    == {"failed", "broken", "killed"}
Answer   == Own \cup Neighbours \cup {NoRoute}
Fates    == {"new", "queued", "sent", "delivered", "dropped", "leaked"}
Response == [pkg : Packages, hop : Answer]
Applied  == [pkg : Packages, asked : Packages, hop : Answer]

TypeOK ==
    /\ mipd \in {"running", "blocked"} \cup Ended
    /\ application \in {"none", "open", "gone"}
    /\ cache \subseteq Neighbours
    /\ queue \in Seq(Packages)
    /\ opened \in 0 .. MaxConnections
    /\ accepted \in 0 .. opened
    /\ slot \in 0 .. accepted
    /\ routerds \subseteq 1 .. opened
    /\ reset \subseteq 1 .. opened
    /\ requests \in [Connections -> Seq(Packages)]
    /\ responses \in [Connections -> Seq(Response)]
    /\ expiries \in 0 .. MaxExpiries
    /\ fate \in [Packages -> Fates]
    /\ log \in Seq(Applied)

Init ==
    /\ mipd = "running"
    /\ application = "none"
    /\ cache = {}
    /\ queue = <<>>
    /\ slot = NoConnection
    /\ opened = 0
    /\ accepted = 0
    /\ routerds = {}
    /\ reset = {}
    /\ requests = [c \in Connections |-> <<>>]
    /\ responses = [c \in Connections |-> <<>>]
    /\ expiries = 0
    /\ fate = [p \in Packages |-> "new"]
    /\ log = <<>>

-----------------------------------------------------------------------------
(* mipd: a package arrives                                                  *)

\* Faulty variant: the entry goes to the end the queue is popped from.
RequestForwarding_LastInFirstOut(p, unsent) ==
    /\ slot \in routerds
    /\ requests' = [requests EXCEPT ![slot] = Append(@, p)]
    /\ queue' = <<p>> \o queue
    /\ fate' = [fate EXCEPT ![p] = "queued"]
    /\ UNCHANGED mipd

\* Faulty variant: the package is queued whether or not the write succeeds.
RequestForwarding_IgnoresWriteError(p, unsent) ==
    /\ slot \in routerds \cup {NoConnection}
    /\ requests' = IF slot = NoConnection THEN requests
                   ELSE [requests EXCEPT ![slot] = Append(@, p)]
    /\ queue' = Append(queue, p)
    /\ fate' = [fate EXCEPT ![p] = "queued"]
    /\ UNCHANGED mipd

\* Faulty variant: the destination is queued in place of the package.
RequestForwarding_QueuesDestination(p, unsent) ==
    /\ slot \in routerds
    /\ requests' = [requests EXCEPT ![slot] = Append(@, p)]
    /\ queue' = Append(queue, Dest[p])
    /\ fate' = [fate EXCEPT ![p] = "queued"]
    /\ UNCHANGED mipd

\* request_forwarding: write the destination, then queue the package.  The
\* write fails at once when no routerd is connected; when the routerd at the
\* other end has gone, it raises SIGPIPE, which mipd does not handle.
RequestForwarding(p, unsent) ==
    \/ /\ slot = NoConnection
       /\ fate' = [fate EXCEPT ![p] = unsent]
       /\ UNCHANGED <<mipd, queue, requests>>
    \/ /\ slot \in routerds
       /\ requests' = [requests EXCEPT ![slot] = Append(@, p)]
       /\ queue' = Append(queue, p)
       /\ fate' = [fate EXCEPT ![p] = "queued"]
       /\ UNCHANGED mipd
    \/ /\ slot # NoConnection
       /\ slot \notin routerds
       /\ mipd' = "killed"
       /\ UNCHANGED <<queue, requests, fate>>

\* sendto, accept, epoll_ctl or recv returns -1, and the handler an error.
SystemCallFails == mipd' = "broken"

\* The application sends p: straight to a neighbour in the ARP cache, else by
\* a lookup.  A package that cannot be looked up is destroyed.
ApplicationSends(p) ==
    /\ mipd = "running"
    /\ application # "none"
    /\ p \in FromApplication
    /\ fate[p] = "new"
    /\ \/ /\ Dest[p] \in cache
          /\ \/ /\ fate' = [fate EXCEPT ![p] = "sent"]
                /\ UNCHANGED mipd
             \/ /\ fate' = [fate EXCEPT ![p] = "dropped"]
                /\ SystemCallFails
          /\ UNCHANGED <<queue, requests>>
       \/ /\ Dest[p] \notin cache
          /\ RequestForwarding(p, "dropped")
    /\ UNCHANGED <<cache, slot, accepted, expiries, responses, peers, log>>

\* handle_MIPPackage_for_application: nobody is there to take the package, or
\* it is written, which may have to wait until the application reads, or the
\* application has gone: the write raises SIGPIPE, or fails.
Deliver(p) ==
    \/ /\ application = "none"
       /\ fate' = [fate EXCEPT ![p] = "dropped"]
       /\ UNCHANGED mipd
    \/ /\ application = "open"
       /\ fate' = [fate EXCEPT ![p] = "delivered"]
       /\ mipd' \in {"running", "blocked"}
    \/ /\ application = "gone"
       /\ fate' = [fate EXCEPT ![p] = "dropped"]
       /\ mipd' \in {"failed", "killed"}

\* A transport package arrives on a raw socket: for this host, at the end of
\* its time to live, or to be forwarded; or it cannot be received.  A package
\* that cannot be looked up is neither queued nor destroyed.
TransportArrives(p) ==
    /\ mipd = "running"
    /\ p \in Packages \ FromApplication
    /\ fate[p] = "new"
    /\ \/ /\ Dest[p] \in Own
          /\ Deliver(p)
          /\ UNCHANGED <<queue, requests>>
       \/ /\ Dest[p] \notin Own
          /\ p \in Expired
          /\ fate' = [fate EXCEPT ![p] = "dropped"]
          /\ UNCHANGED <<mipd, queue, requests>>
       \/ /\ Dest[p] \notin Own
          /\ p \notin Expired
          /\ RequestForwarding(p, "leaked")
       \/ /\ SystemCallFails
          /\ fate' = [fate EXCEPT ![p] = "dropped"]
          /\ UNCHANGED <<queue, requests>>
    /\ UNCHANGED <<cache, slot, accepted, expiries, responses, peers, log>>

-----------------------------------------------------------------------------
(* mipd: events on the forward socket                                       *)

\* A routerd connects: its connection takes the slot, whatever was there.
AcceptForward ==
    /\ mipd = "running"
    /\ accepted < opened
    /\ \/ /\ accepted' = accepted + 1
          /\ slot' = accepted + 1
          /\ UNCHANGED mipd
       \/ /\ SystemCallFails
          /\ UNCHANGED <<accepted, slot>>
    /\ UNCHANGED <<cache, queue, expiries, wires, peers, history>>

\* Faulty variant: without a route, the package is destroyed but not popped.
ForwardResponse_KeepsDropped ==
    /\ mipd = "running"
    /\ slot # NoConnection
    /\ responses[slot] # <<>>
    /\ queue # <<>>
    /\ LET r == Head(responses[slot])
       IN  /\ r.hop \in cache \cup {NoRoute}
           /\ queue' = IF r.hop = NoRoute THEN queue ELSE Tail(queue)
           /\ log' = Append(log, [pkg |-> Head(queue), asked |-> r.pkg, hop |-> r.hop])
           /\ fate' = [fate EXCEPT ![Head(queue)] = IF r.hop = NoRoute THEN "dropped" ELSE "sent"]
    /\ responses' = [responses EXCEPT ![slot] = Tail(@)]
    /\ UNCHANGED <<mipd, cache, slot, accepted, expiries, requests, peers>>

\* Faulty variant: 255 is taken for a next hop (no forward_found).
ForwardResponse_NoForwardFound ==
    /\ mipd = "running"
    /\ slot # NoConnection
    /\ responses[slot] # <<>>
    /\ queue # <<>>
    /\ LET r == Head(responses[slot])
       IN  /\ queue' = Tail(queue)
           /\ log' = Append(log, [pkg |-> Head(queue), asked |-> r.pkg, hop |-> r.hop])
           /\ fate' = [fate EXCEPT ![Head(queue)] = IF r.hop \in cache THEN "sent" ELSE "leaked"]
           /\ mipd' = IF r.hop \in cache THEN mipd ELSE "failed"
    /\ responses' = [responses EXCEPT ![slot] = Tail(@)]
    /\ UNCHANGED <<cache, slot, accepted, expiries, requests, peers>>

\* An answer: pop the oldest package; send it to the next hop when the ARP
\* cache holds it, drop it when there is no route.  Popping an empty queue is
\* an error (no route) or a NULL dereference; a next hop that is not in the
\* ARP cache is an error, as is a send that fails, and an error ends the loop.
ForwardResponse ==
    /\ mipd = "running"
    /\ slot # NoConnection
    /\ responses[slot] # <<>>
    /\ LET r == Head(responses[slot])
       IN  \/ /\ queue = <<>>
              /\ mipd' = IF r.hop = NoRoute \/ r.hop \notin cache THEN "failed" ELSE "killed"
              /\ UNCHANGED <<queue, history>>
           \/ /\ queue # <<>>
              /\ queue' = Tail(queue)
              /\ log' = Append(log, [pkg |-> Head(queue), asked |-> r.pkg, hop |-> r.hop])
              /\ \/ /\ r.hop = NoRoute
                    /\ fate' = [fate EXCEPT ![Head(queue)] = "dropped"]
                    /\ UNCHANGED mipd
                 \/ /\ r.hop \in cache
                    /\ \/ /\ fate' = [fate EXCEPT ![Head(queue)] = "sent"]
                          /\ UNCHANGED mipd
                       \/ /\ fate' = [fate EXCEPT ![Head(queue)] = "leaked"]
                          /\ SystemCallFails
                 \/ /\ r.hop \notin cache \cup {NoRoute}
                    /\ fate' = [fate EXCEPT ![Head(queue)] = "leaked"]
                    /\ mipd' = "failed"
    /\ responses' = [responses EXCEPT ![slot] = Tail(@)]
    /\ UNCHANGED <<cache, slot, accepted, expiries, requests, peers>>

\* The routerd in the slot has closed and every answer of it has been read: a
\* read returns 0 and empties the slot (the queue stays as it is), or reports
\* the reset, which ends the loop.
ForwardClosed ==
    /\ mipd = "running"
    /\ slot # NoConnection
    /\ slot \notin routerds
    /\ responses[slot] = <<>>
    /\ \/ /\ slot \in reset
          /\ mipd' = "failed"
          /\ UNCHANGED slot
       \/ /\ slot \notin reset
          /\ slot' = NoConnection
          /\ UNCHANGED mipd
    /\ UNCHANGED <<cache, queue, accepted, expiries, wires, peers, history>>

-----------------------------------------------------------------------------
(* mipd: the ARP cache                                                      *)

\* A MIP-ARP request or response of a neighbour arrives; the answer to a
\* request may fail.
ArpLearn(a) ==
    /\ mipd = "running"
    /\ cache' = cache \cup {a}
    /\ UNCHANGED mipd \/ SystemCallFails
    /\ UNCHANGED <<queue, slot, accepted, expiries, wires, peers, history>>

\* update_arp_cache finds an entry too old.
ArpExpire(a) ==
    /\ mipd = "running"
    /\ a \in cache
    /\ expiries < MaxExpiries
    /\ expiries' = expiries + 1
    /\ cache' = cache \ {a}
    /\ UNCHANGED <<mipd, queue, slot, accepted, wires, peers, history>>

-----------------------------------------------------------------------------
(* The application                                                          *)

\* An application connects and mipd accepts it, whatever was in the slot.
ApplicationConnects ==
    /\ mipd = "running"
    /\ \/ /\ application' = "open"
          /\ UNCHANGED mipd
       \/ /\ SystemCallFails
          /\ UNCHANGED application
    /\ UNCHANGED <<cache, queue, slot, accepted, expiries, wires, opened, routerds, reset, history>>

\* It reads what it was sent, and a send that waits returns.
ApplicationReads ==
    /\ mipd = "blocked"
    /\ application = "open"
    /\ mipd' = "running"
    /\ UNCHANGED <<cache, queue, slot, accepted, expiries, wires, peers, history>>

\* It closes its socket, under a send that waits or not.
ApplicationLeaves ==
    /\ application = "open"
    /\ application' = "gone"
    /\ mipd' \in IF mipd = "blocked" THEN {"failed", "killed"} ELSE {mipd}
    /\ UNCHANGED <<cache, queue, slot, accepted, expiries, wires, opened, routerds, reset, history>>

\* mipd reads the end, or an error, and empties the slot.
ApplicationClosed ==
    /\ mipd = "running"
    /\ application = "gone"
    /\ application' = "none"
    /\ UNCHANGED <<mipdVars, wires, opened, routerds, reset, history>>

-----------------------------------------------------------------------------
(* routerd                                                                  *)

\* RouterServer_init: a process connects to the forward socket.
RouterdStart ==
    /\ mipd \notin Ended
    /\ opened < MaxConnections
    /\ opened' = opened + 1
    /\ routerds' = routerds \cup {opened + 1}
    /\ UNCHANGED <<mipdVars, wires, reset, application, history>>

\* Faulty variant: a lookup that finds nothing is not answered.
RouterdAnswer_OnlyFound(c) ==
    /\ mipd \notin Ended
    /\ c \in routerds
    /\ requests[c] # <<>>
    /\ LET p == Head(requests[c])
       IN  \/ \E h \in Hops[Dest[p]] :
                 responses' = [responses EXCEPT ![c] = Append(@, [pkg |-> p, hop |-> h])]
           \/ UNCHANGED responses
    /\ requests' = [requests EXCEPT ![c] = Tail(@)]
    /\ UNCHANGED <<mipdVars, peers, history>>

\* A forward event: read one destination, look it up, answer.
RouterdAnswer(c) ==
    /\ mipd \notin Ended
    /\ c \in routerds
    /\ requests[c] # <<>>
    /\ LET p == Head(requests[c])
       IN  \E h \in Hops[Dest[p]] \cup {NoRoute} :
              responses' = [responses EXCEPT ![c] = Append(@, [pkg |-> p, hop |-> h])]
    /\ requests' = [requests EXCEPT ![c] = Tail(@)]
    /\ UNCHANGED <<mipdVars, peers, history>>

\* The process ends; the kernel closes its sockets.
RouterdExit(c) ==
    /\ c \in routerds
    /\ routerds' = routerds \ {c}
    /\ reset' = IF requests[c] # <<>> THEN reset \cup {c} ELSE reset
    /\ UNCHANGED <<mipdVars, wires, opened, application, history>>

-----------------------------------------------------------------------------

Next ==
    \/ \E p \in Packages : ApplicationSends(p)
    \/ \E p \in Packages : TransportArrives(p)
    \/ AcceptForward
    \/ ForwardResponse
    \/ ForwardClosed
    \/ \E a \in Neighbours : ArpLearn(a)
    \/ \E a \in Neighbours : ArpExpire(a)
    \/ ApplicationConnects
    \/ ApplicationReads
    \/ ApplicationLeaves
    \/ ApplicationClosed
    \/ RouterdStart
    \/ \E c \in Connections : RouterdAnswer(c)
    \/ \E c \in Connections : RouterdExit(c)

Spec == Init /\ [][Next]_vars

\* epoll is level-triggered and serves ready descriptors in turn, in mipd as
\* in routerd: an event that stays ready is handled, unless a send of mipd to
\* an application that does not read never returns.
Fairness ==
    /\ WF_vars(AcceptForward)
    /\ WF_vars(ForwardResponse)
    /\ WF_vars(ForwardClosed)
    /\ \A c \in Connections : WF_vars(RouterdAnswer(c))

FairSpec == Spec /\ Fairness
-----------------------------------------------------------------------------
(* Properties                                                               *)

\* The lookups of the current connection that mipd has not read the answer of.
Outstanding == Len(responses[slot]) + Len(requests[slot])

\* The entries of the queue that no outstanding lookup is for: their answers
\* were lost with an earlier connection.
Stale == IF slot = NoConnection THEN Len(queue) ELSE Len(queue) - Outstanding

\* The outstanding lookups are those of the newest packages of the queue, in
\* its order, so an answer never meets an empty queue: what makes matching by
\* position (forwarding.c:91, server.c:286) possible at all.
LookupsAreNewest ==
    slot # NoConnection =>
        /\ Stale >= 0
        /\ \A i \in 1 .. Len(responses[slot]) : queue[Stale + i] = responses[slot][i].pkg
        /\ \A i \in 1 .. Len(requests[slot]) :
              queue[Stale + Len(responses[slot]) + i] = requests[slot][i]

\* As long as one routerd has been accepted, the answer mipd applies to a
\* package is the answer to the lookup of that package.
OwnAnswer ==
    accepted <= 1 => \A i \in DOMAIN log : log[i].asked = log[i].pkg

\* A package is in the queue exactly while it is queued, in one place; and one
\* answer at most is ever applied to it.
EachPackageOnce ==
    /\ \A p \in Packages :
          (fate[p] = "queued") <=> (\E i \in DOMAIN queue : queue[i] = p)
    /\ \A i, j \in DOMAIN queue : queue[i] = queue[j] => i = j
    /\ \A i, j \in DOMAIN log : log[i].pkg = log[j].pkg => i = j

\* mipd leaves its loop by itself, or is killed, only after a routerd or its
\* application has gone, or by an answer that names a next hop its ARP cache
\* does not hold: no answer, and no lookup, ends it otherwise (server.c:287,
\* forwarding.c:54, 92).
StopsOnlyFor ==
    mipd \in {"failed", "killed"} =>
        \/ routerds # 1 .. opened
        \/ application = "gone"
        \/ log # <<>> /\ log[Len(log)].hop \notin cache \cup {NoRoute}

\* Lookups are lost to the queue by a change of connection only: no other
\* step leaves an entry without a lookup.
StaleOnlyByReconnect == [][slot' = slot => Stale' <= Stale]_vars

\* The abstract lookup service, as mipd implements it with one routerd.
Undecided == <<"undecided">>

\* An address is a byte, and no byte stands for "no answer yet".
ASSUME UndecidedAssumption == Undecided \notin Destinations \cup {NoRoute}

Line == [i \in DOMAIN queue |->
            [pkg |-> queue[i],
             hop |-> IF i <= Len(responses[1]) THEN responses[1][i].hop ELSE Undecided]]

Service == INSTANCE LookupService
              WITH line <- Line,
                   released <- [i \in DOMAIN log |-> [pkg |-> log[i].pkg, hop |-> log[i].hop]]

\* With one routerd, forwarding implements the lookup service: every package
\* leaves in its turn, by a route to its own destination.
ImplementsService == Service!LineSpec

\* A package that waits for its lookup leaves the queue, as long as mipd runs
\* and its routerd stays connected (one routerd).
LookupsAnswered ==
    \A p \in Packages :
        fate[p] = "queued" ~> \/ fate[p] # "queued"
                             \/ mipd # "running"
                             \/ slot = NoConnection

\* routerd/README.md:55, "The MIP daemon must forward transport packets [...]
\* in accordance with the current routing table state": a package is sent to
\* a next hop that a table may hold for its destination.
RoutedByItsDestination ==
    \A i \in DOMAIN log :
        fate[log[i].pkg] = "sent" => log[i].hop \in Hops[Dest[log[i].pkg]]

\* routerd/README.md:55, "[...] or pass it up to the application if the
\* destination address is local to the host": a package for this host does
\* not stop the daemon.
LocalDestinationIsHarmless ==
    \A i \in DOMAIN log : Dest[log[i].pkg] \in Own => mipd # "failed"

=============================================================================
