# Verification of the MIP stack

TLA+ models, model-checking runs and proofs for the network stack in
`src/delivery/IN4230-HE2`: the MIP daemon `mipd`, the routing daemon `routerd`
and the way packages take through a network of hosts that run them. File names
below are relative to that directory.

## 1. The system

Every host runs one `mipd`, at most one `routerd` and perhaps a `miptpd`.
`mipd` owns the raw sockets of the host's interfaces. It talks to three local
clients over stream sockets in the file system, one listening socket each: the
application, and `routerd` on two connections, one for routing tables and one
for lookups. `miptpd`, which sends files in packages, is to `mipd` an
application; its own applications connect to it in the same way. Each daemon is a single-threaded `epoll` loop; concurrency is
between processes and hosts.

```
 application      routerd                       routerd      application
     |         tables | lookups              tables | lookups     |
     +-----------> mipd <======= raw link =======> mipd <---------+
                ARP, tables, transport packages (TRA 1/0, 2, 3)
```

| component | state | operations | what is hard | what makes it correct |
|---|---|---|---|---|
| forwarding engine of mipd (`mipd/.../router/forwarding.c`, `server.c`) | FIFO of packages without a next hop; one slot for the lookup connection | queue a package and write its destination; apply the next answer to the oldest package | answers carry no destination; routerd comes, goes and is replaced; the next hop may have left the ARP cache | every answer meets the package it was asked for; none meets an empty queue; no package is answered twice; mipd stops for known reasons only |
| routing between hosts (`router/routing.c`, `mip_route_table.c`) | a table per host, copies on the links | broadcast one poisoned copy per interface; merge a received table; expire entries | lost copies, stale copies, wrapping costs, hosts that fail | no loops without cycles, no cost below the distance, failed hosts are forgotten, tables converge |
| routerd (`router_server.c`, `routing_handler.c`, `forwarding_handler.c`) | the table as a list, two clocks, two streams | broadcast and age at the top of the loop; one read per ready descriptor | a loop that looks at its clock only between waits; list against map | broadcasts in time, nothing stale is used, one entry per destination, lookups are answered |
| MIP-ARP (`mip_arp.c`) | a list of neighbours with the time of the last frame | request on every interface; learn from answers and requests; expire | renewal and expiry are both driven by the loop | living neighbours stay, dead ones go, one entry per neighbour |
| transport packages (`server.c`, `forwarding.c`, `app_connection.c`) | time to live, source address | send, forward, deliver, drop | every hop is another daemon with other, changing tables | bounded number of links, the source address is the origin's, no package circulates for ever |
| local sockets of mipd (`server.c`, `app_connection.c`, `mipd_message.c`) | a slot per service, the descriptors behind them, the events of a round | accept, read one message per `recv`, notice an end | descriptors that are closed and given out again, orphaned connections, messages joined or split by the stream | a slot is a connection of its service, no event of a round is stale, who writes one message at a time and keeps its slot loses none |
| send job of miptpd (`miptp_send_job.c`, `sliding_window.c`, `app_connection.c`) | the data, a window | send the window, move it by acknowledgements, complete | numbers of any package that arrives, 16-bit indices, packages at the edge of the data, a serialization that cuts | the window keeps pace, a sender has something to send, the packages make up the file but for what the serialization cuts, complete means handed over |
| loop of miptpd (`miptp_server.c`, `miptp_app_controller.c`) | a list of connections, the events of a round | accept, handle a request, disconnect, send all windows | lists changed while they are served, descriptors that are never closed and used up, a mipd that does not read, mipd's end noticed too late | one connection per application, ends for known reasons only, ends when it should, reads every request |
| raw links (`link.c`, `interface.c`, `packaging/`) | none | copy a package to and from a frame | the receive buffer is smaller than a full table | a frame is one step of the other modules |
| receive job of miptpd, ping programs, tpclient, tpserver | none that lasts | | | not modelled, see section 5 |

`commons/` has wrappers and vendored containers. `src/check/delivery` is a copy
of the delivery, `src/IN4230_HE/MIP` an earlier exercise. PROJECT.json lists
all of these under `components`, and under `hazards` every place where this
code is hard to test, at its line.

## 2. The modules

| module | what it is |
|---|---|
| `Forwarding` | mipd's forward queue, its lookup connections and the routerd processes at their other ends, one host |
| `LookupService` | what the lookups promise: a line of packages, each decided by the routes of its own destination, released in order |
| `RouteMap` | a routing table as a map: learn, poison, forget, costs that wrap |
| `RoutingNetwork` | distance-vector routing between the hosts of any network, on top of `RouteMap` |
| `RoutingTree` | the properties special to networks without cycles |
| `RouteTable` | the list that routerd really keeps |
| `Routerd` | the loop of one routerd: clock, events, streams, on top of `RouteTable` |
| `RoutingService` | what one routerd promises, in terms of `RouteMap` |
| `ArpCache` | the MIP-ARP cache and the clock of mipd's loop |
| `Transport` | the way of packages through the hosts of any network |
| `LocalSockets` | mipd's loop: listening sockets, slots, descriptors, rounds of events, the stream of an application |
| `SendJob` | how a file is cut into packages, which may be sent and what is serialized of them: operators, in 16 bits |
| `FileTransfer` | the send job as an object: its window, its status, what it has handed to mipd, on top of `SendJob` |
| `Miptpd` | miptpd's loop and its list of connections |
| `MC...` | values of the constants for TLC |
| `...Proofs` | theorems about the module they are named for; `RoutingProofs` about `RoutingNetwork` and `RoutingTree` |

How they fit together: `Routerd` implements `RoutingService` (refinement, run
`Routerd`). `RoutingService` is written with the same operators of
`RouteMap` as the steps `Receive`, `Expire` and `Broadcast` of
`RoutingNetwork`, so the network is studied with one map per host instead of a
list, a clock and two sockets. `Forwarding` leaves routerd's answers open
within the tables it may hold (`Hops`), and implements `LookupService` as long
as there is one routerd. `Transport` leaves the answers open altogether and
keeps of each mipd what a package meets. `ArpCache` has the clock that
`Forwarding`, `RoutingNetwork` and `Transport` replace by expiry at any time.
`LocalSockets` has every branch of mipd's loop and leaves open, within what the
code can do, what `Forwarding`, `RoutingNetwork` and `Transport` say of the
messages it reads. `FileTransfer` is what one sending connection of `Miptpd`
does with its packages and with the numbers it is told; `Miptpd` is the loop
around all connections, which in this commit never comes to tell it one.

### State and actions against the code

**Forwarding.** `queue` is `server->forward_queue`, `slot` is
`forward_socket->connected_socket_fd`, `requests` and `responses` are the bytes
in the two directions of each connection. `RequestForwarding` is
`request_forwarding`, used by `ApplicationSends` and `TransportArrives` (the
application branch of `MIPDServer_run` and the transport branch of
`handle_raw_socket_frame`). `ForwardResponse` is the forward branch that reads
one byte, pops, looks the next hop up in the ARP cache and sends, all in one
step because the loop does nothing in between; where the code leaves the loop,
`mipd` becomes `"failed"`, or `"broken"` when the cause is a system call that
failed (`SystemCallFails`); where a write meets a closed socket, `"killed"`
(SIGPIPE is not handled). `Deliver` is a package for this host: it is written to
the application, which may be gone (`application`), or not reading, so that mipd
waits in `send` (`"blocked"`) until it reads or leaves. `AcceptForward` overwrites the slot, as the code
does; the older descriptor stays open and is served by no branch.
`ForwardClosed` is the end of the stream or its reset. `RouterdStart`,
`RouterdAnswer`, `RouterdExit` are the other end. The byte a lookup consists
of is a destination; the model writes the package, and reads nothing but its
destination, so that properties can tell whose lookup it was.

**RoutingNetwork.** `table[x]` is the table of x's routerd, `arp[x]` the
neighbours in its mipd's cache, `wire[<<x, y>>]` the copies under way.
`Broadcast` is routerd's broadcast and mipd's loop over the interfaces
together: each copy bears the address of the interface and is poisoned for the
first ARP entry of the interface, or, when there is none, for the interface's
own address (`Masked`). `Receive` is the way up and
`MIPRouteTable_update_routing`. `Expire` takes any set of routes with a cost
other than 0: ages are left to chance here and counted in `Routerd`.
`Renewed` are the routes that copies
under way, or about to be sent, write anew: a route to a running host among them
expires only as a fault, any other freely. `Fail` and `Restart` are both daemons
of a host. A table that waits in a local
socket is late as one that waits on the link, and a copy for which a link has
no room, or whose receiver is down, is lost.

**Routerd.** `pc` is the place in `RouterServer_run`: the top of the loop, the
wait, the events of one round (served in any order), or ended. `since` and
`waited` count ticks in place of `last_broadcast_milli` and the timeout, an
entry's `age` in place of `last_update`. Time passes only in the wait. The
process ends by a stop line, by a table with too many entries, by SIGPIPE or
ECONNRESET when mipd has gone. `output` is what the last step wrote.

**ArpCache.** `cache` is the array with its size, `UpdateArpCache` is
`update_arp_cache` at the top of the loop with the requests it may send,
`HandleArpFrame` both branches of `handle_raw_socket_frame` that learn.

**Transport.** `state` is where a package is, `host` who has it. `SendDirect`
is `handle_domain_socket_request`, `SendQueued` the package built by
`create_queueable_MIPDMessage_MIPPackage`, `Forward` the answer, with the
source address filled in where it is missing, `NoRoute` the answer without a next
hop; `Lose` is anything that takes a package out of the network at any time; `Arrive` the transport branch of
`handle_raw_socket_frame`.

**LocalSockets.** `slot` is `connected_socket_fd` of the three sockets, `number`
the descriptors `accept` returned and nobody closed, `events` what is left of
the array `epoll_wait` filled. `Branch` is the chain of conditions of
`MIPDServer_run`, in its order; `Accept` overwrites a slot, or fails and ends
the loop (`AcceptFails`), `Disconnect` closes and empties it, `ServeNothing` is a descriptor no condition fits. `unread` holds
bytes: a message is its size followed by as many bytes less one, so that what a
`recv` takes (`Received`), what is too short (`Dropped`) and what is taken for a
header (`Whole`) are told apart. Bytes of data that are taken for a header may
read as any size. `hasty`, `crowded`, `displaced`, `spoilt` and `garbled` are
history and read by no action.

**SendJob, FileTransfer.** A package is its number and the interval of bytes it
carries. `Slide` is `SlidingWindow_update`, `PackageOf` and `NextPackages` are
`MIPTPSendJob_next_package(s)` with indices cut to 16 bits, `IsComplete` is
`MIPTPSendJob_is_complete`. `SendWindow` is `AppConnection_next_packages` with the part of
`MIPTPAppController_handle_outgoing` that serializes: `Serialized` is what is left
of a package when the size leaves out its own two bytes, `Overruns` a whole batch
that is written over the end of the buffer and may end the process.
`ReceivePackage` is `AppConnection_receive_package` with the completion it looks
for. It takes any number at any time, as the code does, which looks at neither
host nor kind; whether a number is the last one that arrived (`miptpd/README.md`)
or the next one asked for (`sliding_window.c:14`) is therefore left open.
`foreign` is history: a number came that no package had yet.

**Miptpd.** `connections` is the controller's list, `accepted` the descriptors
in epoll (none is ever closed, and `AcceptFails` ends the process when there is
none left), `events` the rest of a round, `mipd` and `package` the socket to mipd,
which is read, not read any more (`"deaf"`: its connection has lost the slot, or
mipd is held up) or closed. `pc` follows `MIPTPServer_run`: wait, send all
windows (`HandleOutgoing`), serve the events, look at `running`; or `"blocked"` in
a send to a mipd that does not read, until `SendReturns`.
`HandleAppPackage` reads all there is and handles the first request in it,
`Disconnect` is the end of an application, `MipdWrote` and `MipdLeft` are
mipd's. `fits` is chosen once: whether pointers survive the `int` that functions
without a return type return. SIGPIPE and NULL or cut pointers end the process
(`"killed"`).

The definitions named `X_Suffix` are faulty variants of the definition `X`.
They are used in no specification; replacing `X` by one shows that a property
notices the bug (PROJECT.json, `mutants`).

## 3. The runs

| run | what it asks | bounds |
|---|---|---|
| `ForwardingSingle` | with one routerd, is every answer applied to its own package, is `LookupService` implemented, does every queued package leave? | 4 packages (two of the application, one to forward, one at the end of its time to live), 1 connection, 1 ARP expiry |
| `ForwardingRestarts` | with a second routerd, after or beside the first: do positions still match, does each package get one answer, why does mipd stop, when do lookups get lost? | the same, 2 connections, and an application that may leave with a package for it on the way |
| `ForwardingStaleAnswer` | finding: a package leaves by the next hop of another destination | 2 connections |
| `ForwardingToSelf` | finding: a message to the host's own address ends mipd | 1 connection |
| `Routing` | are the tables sound, do routes lead toward their destination at its cost, do tables converge, is a failed host forgotten though neighbours renew each other's routes to it? | line of three hosts, the middle one with the same address on both links; one copy per link and direction; costs modulo 4; one fault: a copy or an ARP entry of the middle host is lost, some of its routes expire early, or an end fails and may restart |
| `RoutingStaleCost` | finding: worse news from the next hop is ignored | the same line with two addresses in the middle, 1 expiry at any host, costs modulo 7 |
| `Routerd` | are broadcasts in time, is nothing stale used, is `RoutingService` implemented (the list is a map), is every lookup answered? | two neighbours with two tables each that disagree on destinations, costs and poison; 1 unread table and lookup; periods 1 : 2 : 2; at most 4 entries per package, which the tables can fill |
| `ArpCache` | one entry per neighbour, the living stay, the old go | two neighbours, frequency 4 and wait 4 ticks, 3 lost answers, 1 death |
| `TransportRing` | bounded links, the origin's address, no package circulates for ever | ring of three hosts, 1 package, time to live 15 |
| `LocalSockets` | do slots and events stay true when descriptors are used again, which messages are lost, unread ones included, or misread? | two applications, one that writes, and the lookup end of routerd; rounds of 2 events; messages of 2 and 5 bytes, 4 taken by one recv, less than 2 dropped; 2 unread messages |
| `FileTransfer` | does the window keep pace, does a sender always have something to send, what has been handed over when it is complete, which bytes? | words of 16, batches of 3, windows of 4; files of 0, 1, 3, 8, 14 and 15 bytes; any number at any time |
| `Miptpd` | is the list sound, why does miptpd end, does it end when it should, is every request read? | two applications, one that wants to receive, one that sends a whole batch and then takes it back; rounds of 1 or 2 events; descriptors for 1 or 2 applications; a mipd that reads, goes deaf or leaves; both outcomes of `fits` |

The three findings are runs that TLC must find violated; each quotes a sentence
of the repository that the code does not keep:

* **Answers of another destination** (`server.c:280`): when the lookup
  connection ends or is replaced, the queue keeps the packages whose lookups
  were lost; from then on every answer is applied to an older package.
* **A message to oneself** (`forwarding.c:54`): routerd answers with the
  host's own address, no ARP cache holds it, and mipd leaves its loop.
* **Worse news is no news** (`mip_route_table.c:114`): only a lower or equal
  cost replaces an entry, even from the entry's own next hop.

A copy sent without an ARP entry for its interface is poisoned for nobody
(`routing.c:67`), and routes may then lead back to where they came from:
`unmasked` records that this has happened, and `TowardDestination` is stated for
as long as it has not.

**Why the bounds are enough.** Forwarding: the shift of answers needs one lost
lookup and one package behind it with another destination; three queued
packages leave one to spare, and with two connections both orders (replaced
while alive, lost and replaced) occur. Routing: three hosts are the least with
a host that forwards, and the least in which counting to infinity could start
(A and B keep each other's route to C). One fault at a time, of one of the
pairs in `MCFaults`, covers each kind of fault against all interleavings of
copies: both ends depend on the copies and routes of the middle host, and the
end that fails is the one all others reach through a neighbour. What does not
depend on the number of hosts and faults is proved for all of them (section 4). Routerd: two neighbours
are needed for a route to change its next hop; the four tables contain a new
route, a better, an equal and a poisoned one, and one to the host itself. The
periods keep the order of the code's 2 s, 5 s and 5 s (the frequency below the
wait, the wait as long as the maximal age); the bound on the silence is proved
for all periods. ARP: entries of two neighbours are needed for the shift under
the walking loop; frequency and wait are equal, as in the code (10 s each), in
ticks fine enough for an expiry to fall before, on and after a wake-up.
Transport: 15 is the code's time to live. LocalSockets: 4 bytes per recv stand
for 1496 and 2 for the 16 bytes of a `MIPDMessage` (a message that fits and one
that does not), 2 events for the 5 of a round; two applications are the least
for one to take the slot and the number of the other, and a descriptor of
another service is there to be mistaken for theirs. FileTransfer: the word of 16
holds five packages of 3 (44 of 1492 in the code), so that numbers wrap, the
last index meets the size, and files end within, at and behind a package and at
the last one the word can tell apart (14, 15); the window, 4 wide (11 in the
code), is smaller than a file; a package of the word's last numbers is told as any
other. Miptpd: in rounds of 1 event, the descriptor of one application that has
gone fills a round ahead of the other's request, which is what many do to rounds
of the code's size; in rounds of 2 the events of one round meet. With descriptors
for one application, the second cannot be accepted even when the first has long
gone. More requests than one are needed for a replacement and for a request
behind another.

**Fairness.** `Forwarding`: weak fairness of `AcceptForward`,
`ForwardResponse`, `ForwardClosed` and of each routerd's answers; epoll is
level-triggered, and every loop serves all ready descriptors of a round. A send
to an application that does not read may block mipd for ever: the application
owes nothing, and `LookupsAnswered` asks for nothing then. `RoutingNetwork`:
each host broadcasts again and again (every 2 s) and reads its sockets, learns
neighbours that repeat their ARP requests, and removes an entry that nobody
renews any more. Nothing is assumed of an entry that some copy under way, or
about to be sent, writes anew, to a running host or to a dead one, and an ARP
entry of a dead neighbour may go at any time or never. That dead hosts are
forgotten all the same is for `DeadForgotten` to show, unmasked copies and all:
an entry is renewed only by an offer that is at least one less than its cost, so
that of the entries for a dead host that are left the cheapest is renewed by
nobody, and goes; the costs of the others count up, to at most `MaxCost`, where
an offer is taken for a poisoned one. (In the code that is 2^32 - 1, and each
round of removal takes the maximal age of 5 s: forgotten in the end is not
forgotten soon.) Links owe nothing beyond delivering what is not one of the
bounded losses. Failures, losses and restarts are not fair. `Routerd`: the process
runs, handles the events of a round, and time passes. A lookup that waits is in
every round of events, which is why tables cannot starve it. `Transport`
and `FileTransfer` assume none: a queued package may wait for ever, and nobody
owes the send job a number. `Miptpd`: the process runs and serves the events of
its rounds, and epoll goes round the ready descriptors when there is no room for
all (strong fairness of each being in a round). A send that waits returns only
when mipd has gone, so that nothing is promised of a miptpd whose mipd is deaf.
Applications, mipd and the user owe nothing.

**Deadlock** is checked except where the system may really stop: mipd, routerd
or miptpd may end (`Forwarding...`, `LocalSockets`, `Routerd`, `Miptpd`), and so
may a send job (`FileTransfer`).

## 4. What is proved

All proofs are checked by TLAPS, for every value of the constants that the
modules' assumptions allow: any number of hosts, packages, connections,
addresses, any periods.

| theorem | says |
|---|---|
| `ForwardingProofs!TypeCorrect` | types |
| `ForwardingProofs!PositionsInvariant` | the unanswered lookups of the connection in the slot are, by position, the newest packages of the queue |
| `ForwardingProofs!LookupsAreNewestHolds`, `OwnAnswerHolds` | an answer never meets an empty queue; while one routerd has been accepted it is the answer to its package's own lookup |
| `ForwardingProofs!EachPackageOnceHolds`, `StopsOnlyForHolds` | no package is answered twice; but for a system call that fails, mipd ends only after a routerd or an application has gone or for a next hop that is not in its ARP cache |
| `ForwardingProofs!StaleOnlyByReconnectHolds` | no step that keeps the lookup connection leaves a queued package without its lookup |
| `ForwardingProofs!Refinement` | with one routerd, whenever it comes and goes, forwarding implements `LookupService` |
| `ForwardingProofs!RoutedByOneRouterdHolds` | while mipd has accepted one routerd, what it sends after a lookup takes a route to its own destination: what a second routerd breaks (`ForwardingStaleAnswer`) |
| `RoutingProofs!Invariance`, `TypeCorrect` | tables and copies under way are good |
| `RoutingProofs!SoundTablesHolds` | a host never loses or re-routes its own addresses, although costs wrap; no table makes a destination closer than it is; a next hop is the address of a direct neighbour on the common link: with cycles, losses, failures |
| `RoutingProofs!TowardDestinationHolds` | without cycles, as long as every copy was poisoned, routes never loop and cost what the way is long: nothing counts up |
| `RouterdProofs!TableInvariant`, `TypeCorrect`, `UniqueDestinations` | types; the list never has two entries for a destination |
| `RouterdProofs!NothingStaleHolds` | no entry is older than the maximal age and one wait |
| `RouterdProofs!Refinement` | routerd's list, clock and loop implement `RoutingService` |
| `RouterdProofs!BroadcastsInTimeHolds` | a running routerd is silent for at most the frequency and one wait |
| `ArpCacheProofs!ArpInvariant`, `TypeCorrect`, `OneEntryPerAddressHolds` | types; one entry per neighbour |
| `ArpCacheProofs!CacheFollowsHolds` | a neighbour that runs and of which no answer was lost never leaves the cache; no entry gets older than twice the frequency and one wait |
| `TransportProofs!Invariance`, `TypeCorrect`, `LinksBoundedHolds`, `SourceIsOriginHolds` | a package crosses at most one link more than its time to live, and bears its source's address once it has left |
| `LocalSocketsProofs!LocalTypes`, `LocalSlots`, `LocalEvents` | a slot holds a connection of its own service; what is left of a round is as ready as epoll said |
| `LocalSocketsProofs!LocalMessages`, `LocalHeaders` | only who did not write one fitting message at a time, or whose slot went to a later connection, has one lost, be it never read; only who had more unread than one recv takes has one misread |
| `FileTransferProofs!TransferTypes`, `TransferPace`, `TransferForward` | whatever numbers come, the window keeps its width and never moves back; nothing is sent more than a window ahead |
| `FileTransferProofs!TransferSends`, `TransferComplete` | a sender of a file that is not empty always has a package to send; a complete one has handed over all, unless it was told a number it had not sent |
| `FileTransferProofs!TransferBytes` | no byte goes out under two numbers or from beyond the end; of a complete file, all but the last two of each package |
| `MiptpdProofs!ServerInvariance`, `ServerTypes`, `ServerConnections`, `ServerEnds` | one connection for each application that is there, a sender only if it asked; miptpd ends for the known causes only, among them that there is no descriptor left |

**Assumptions.** Links are symmetric, a host's addresses are its own, neighbours
have different addresses on different links (`RoutingAssumption`); `Distance`
satisfies the triangle inequality along links (`DistanceAssumption`); in
`RoutingTree`, what lies behind a link is defined recursively, the parts behind
different links are disjoint, and the way there is one longer than from the next
host (`TreeAssumption`); routerd's own addresses are looked up as
themselves (`ForwardingAssumption`); a package is not addressed to its own
source host (`TransportAssumption`, the case of `ForwardingToSelf`); there are
finitely many clients and a table or answer of routerd is one piece
(`LocalSocketsAssumption`); a batch and a window are smaller than a word
(`SendJobAssumption`), and with a window on top of its last package every file
stays within it (`FileTransferAssumption`); names of applications are no other descriptors'
(`MiptpdAssumption`); there are finitely many neighbours, and the loop never
waits longer than the frequency of requests, 10 s both in the code
(`ArpAssumption`); routerd's own addresses are a list, and a neighbour's table
is one with an entry per destination, as it is a package of the neighbour's own
list (`InputAssumption`, which `UniqueDestinations` shows of this host's
packages); no address is the mark of a lookup that is not decided
(`UndecidedAssumption`).

**The inductive invariants.**

* *Forwarding.* `LookupsAreNewest` alone is not inductive: a connection that is
  accepted later must find its streams empty, and while the first connection is
  in the slot the queue has no entry but the outstanding ones. The invariant
  says where the unread bytes of every connection, accepted or not, may be, and
  equates lengths on the first one. Each action then moves the same number of
  positions at both ends. `EachPackageOnce` needs, beside it, that a package
  with an answer is neither new nor queued again; `StopsOnlyFor` follows the
  causes one by one, which never go away again.
* *Forwarding, the refinement.* The line of `LookupService` is the queue, and
  the k-th package in it is decided when there is a k-th unread answer. Asking
  appends to the queue, an answer decides the first undecided package because
  by `FirstConnection` it is the one whose request is at the head of the wire,
  and reading takes both heads. It needs that the only routerd, once out of
  the slot, is gone with all its answers read (`OneInv`), or the queue would be
  decided by nobody mipd reads from. Lemmas `LineAsked`, `LineAnswered` and
  `LineReleased` are the three steps, stated about sequences.
* *RoutingNetwork.* A table is as good as the copies it is made of, so the
  invariant is about both: a copy on the link from x to y bears the address x
  has on it and offers no cost below x's distance, unless it is the poisoned
  one, which is not learned. Wires are described as sequences of good copies,
  which head, tail and append keep.
* *RoutingTree.* What y may be offered by x, and is not poisoned, lies behind x
  as seen from y, at x's distance. Poisoning removes exactly the routes that lie
  behind y as seen from x, and the rest is one link further on a tree.
* *Lists.* Loops over a list (`RemoveExpired`, `RemoveOldEntries`,
  `UpdateRouting`, `LocalTable`) are recursive functions of the position, as in
  the code. What they compute is proved without an induction scheme: the set of
  positions at which the claim holds contains 0 and with each position the
  next, so that its complement in 0 .. n has no least element (`UpTo`, from
  `WFMin`). For each loop there is first a function that satisfies the
  recursion (`WalkExists`), then the value at the end.
* *Routerd, the table.* A list with one entry per destination says one map
  (`Says`, `SaysOne`), removal and appending say what `Without` and a new
  binding say of it, and so `UpdateRouting` is `Learn` (`UpdateRoutingLearns`),
  ageing is `Forget`, the package is the offer and a lookup is `NextHop`. Each
  step of the loop is then one of `RoutingService` or none. The bound on ages
  (`NothingStale`) is one on the time since the old entries were removed
  (`TableInv`): within the wait it grows with `waited`.
* *ArpCache.* That no entry is too old rests on how long the loop may have slept
  since it removed the expired ones (`Aged`, `Clock`). That no neighbour that
  answers is removed rests on the last request: either its answer is unread, or
  its entry is no older than the request (`Renewed`). That both agree at the top
  of the loop needs `PollTimeout <= UpdateFreq`.
* *Routerd, the clock.* `since <= BroadcastFreq + waited` throughout a wait. The events of
  a round start before the timeout is over, and the loop's top looks at the clock.
* *Transport.* Links crossed plus time to live is constant, one more on a link
  than at a host; a source address is missing only on the source host.
* *LocalSockets.* A slot is only as good as the numbers in it: two clients never
  have the same number (`NumbersDistinct`), a connection that waits is of the
  service it waits for and has none (`Waiting`), and so a number in a slot is
  that of one client of the slot's service. An event stays ready because only its own
  branch reads its stream or closes its number. For the messages: who has a number
  but no slot is one that lost it to a later connection (`Placed`), and who has been
  neither hasty nor crowded has at most one whole message unread, or a stream
  that begins with one (`Streams`).
* *FileTransfer.* What was handed over is what the job cuts for its number
  (`OfTheJob`). As long as no number came that no package had, the packages
  handed over are all up to some number, which is not below the base
  (`NoneSkipped`). A sender's base stays below its last package
  (`SenderWithin`), and a complete one's has reached it (`CompleteAt`). For the
  bytes, division by the batch puts each byte into one package, and the lemmas
  on remainders say where indices wrap.
* *Miptpd.* `ConnectionsSound` needs that what waits to be accepted is no
  connection yet and not twice in line, that what is unread was written and so
  asked for, and that the event of an application without anything unread is one
  of an application that has left, which it stays until it is served: only then
  does removing its connection not leave a living application without one. For
  `EndsOnlyFor`, a process that waits in a send has senders in a list it could
  read (`BlockedSends`), and causes last (`Lasting`). The
  lemma about removal (`WithoutFacts`) opens the search and the cut of the list.

**Only model-checked:** liveness (`LookupsAnswered` twice, `Converges`,
`DeadForgotten`, `ComesToRest`, `Ends`, `RequestsRead`): ENABLED
and fairness are out of the installed provers' reach. Every invariant, action
property and refinement of a passing run is a theorem. The three properties of
the findings are false and have their counterexamples in the runs; for the
first, `RoutedByOneRouterdHolds` says up to when it is true. Refinements are
those of the safety part: neither `LookupService` nor `RoutingService` states
fairness.

## 5. What is abstracted, and what is not modelled

* Bytes, formats and logs. A frame is one step; that a route table of more than
  20 entries does not fit in the 188-byte receive buffer (`link.c:84`) is out of
  the models, which hold up to there.
* A number told to miptpd: the first package that mipd passes up is used as a
  pointer and ends the daemon (`MipdWrote` in `Miptpd`), so that `ReceivePackage`
  of `FileTransfer` is reached only by those who call the job directly, as
  `tests/miptp_send_job_tests.c` does. That transfers complete, or deliver, is no
  property of this code, and none is stated. Nor is it decided whether a number
  is the last one received or the next one asked for: under the second, a job is
  complete one package before its end has arrived. A file without data never
  completes (`miptp_send_job.c:112`), as `SenderSends` has it.
* Every link joins two hosts. On a shared link a copy is poisoned for the first
  ARP entry only; the code's split horizon is made for two.
* Memory: leaks, and the ARP cache's 64 entries.
* Blocking writes, where they do not decide anything: mipd's to its application
  (`Forwarding`) and miptpd's to mipd (`Miptpd`) may wait for ever; the buffers
  between mipd and routerd, both of which read all the time, never fill. The
  other modules leave a daemon that waits to chance, as one that is slow.
* System calls that fail: where one ends a daemon it is an outcome of the action
  (`SystemCallFails`, `AcceptFails`); `StopsOnlyFor` leaves these ends aside.
* The receive job of miptpd (`miptp_receive_job.c`): an application that asks to
  receive ends the daemon before its job is used (`app_connection.c:73`, the
  request `receiver` of `Miptpd`); the job itself acknowledges nothing and
  `append_data` returns -1. `MIPTPAppController_handle_completes` has no caller
  and therefore no action.
* The ping programs and tpclient: they connect, write one message, wait and
  leave, which `Connect`, `Write` and `Close` of `LocalSockets` and `Miptpd` may
  do at any time. tpserver does not compile.
* Wrappers of system calls, command lines, vendored containers (`bstrlib.c`,
  `hashmap.c`, `darray.c`, three times each in the repository, and most of its
  lines), the copy in `src/check` and the earlier exercise in `src/IN4230_HE`.
* Clock time is discrete, and a daemon's own work takes none of it.

## 6. Plan

Done in this order: forwarding, routing between hosts, routerd, ARP, transport;
then the send job with one transfer, the loop of miptpd, mipd's local sockets,
and the proofs about them; then the lists of routerd and ARP, and the two
refinements. What is left:

1. `RawFrame`: how much of a route table survives the receive buffer, as a
   pure operator on entry counts, checked against the full table.
2. A host composed of `Forwarding` and `ArpCache`, to relate mipd's stops to
   the ARP clock.
3. Proofs: the cheapest entry for a dead host never gets cheaper
   (`RoutingNetwork`), and the links a package can still cross (`Transport`), as
   measures that each step of progress decreases: the safety half of
   `DeadForgotten` and `ComesToRest`.
4. The receive job, once its acknowledgements are written.
