------------------------------- MODULE Routerd -------------------------------
(***************************************************************************)
(* The routing daemon of one host: RouterServer_run.                       *)
(*                                                                         *)
(* Once around its loop routerd writes its table to mipd if the last time  *)
(* is long enough ago, removes the entries that are too old, and waits for *)
(* events: tables and lookups that mipd writes, and a line on stdin.  One  *)
(* read is done for each descriptor that is ready, in any order, before    *)
(* the loop starts again.                                                  *)
(*                                                                         *)
(* Time passes in ticks, and only while routerd waits and nothing is       *)
(* ready: what it does takes no time.  An entry has an age in place of the *)
(* time of its last update.                                                *)
(***************************************************************************)
EXTENDS RouteTable

CONSTANTS
    OwnAddresses,     \* the configured addresses, in order
    Destinations,     \* the addresses mipd asks for
    Packages,         \* the neighbours' tables: records [address, entries]
    BroadcastFreq,    \* BROADCAST_FREQ_MILLI, in ticks
    PollingTimeout,   \* POLLING_TIMEOUT, in ticks
    PackageEntries,   \* MIP_TABLE_PACKAGE_ENTRIES_MAX_SIZE
    MaxInbox          \* bound: unread tables, and unread lookups

ASSUME RouterdAssumption ==
    /\ MaxAge \in Nat
    /\ BroadcastFreq \in Nat
    /\ PollingTimeout \in Nat
    /\ PackageEntries \in Nat
    /\ MaxInbox \in Nat \ {0}

\* The addresses are a list.  So is a neighbour's table, and it has one entry
\* for a destination: it is a package of the neighbour's own list.
ASSUME InputAssumption ==
    /\ OwnAddresses \in Seq({OwnAddresses[i] : i \in DOMAIN OwnAddresses})
    /\ \A p \in Packages :
          /\ p.entries \in Seq({p.entries[i] : i \in DOMAIN p.entries})
          /\ \A i \in DOMAIN p.entries : p.entries[i].cost \in Costs
          /\ \A i, j \in DOMAIN p.entries :
                p.entries[i].destination = p.entries[j].destination => i = j

Descriptors == {"stdin", "routing", "forward"}
Silence     == [silent |-> TRUE]

\* Ages beyond these make no difference.
AgeCap   == MaxAge + PollingTimeout + 1
SinceCap == BroadcastFreq + PollingTimeout + 1

VARIABLES
    pc,        \* where in RouterServer_run the process is
    running,   \* running
    table,     \* table
    since,     \* ticks since last_broadcast_milli
    waited,    \* ticks spent in epoll_wait
    events,    \* the events left to handle
    routing,   \* tables written by mipd and not yet read
    forward,   \* lookups written by mipd and not yet read
    stdin,     \* a stop line is to be read
    mipd,      \* mipd is at the other end of both sockets
    output     \* what the last step wrote, if anything

inputs == <<routing, forward, stdin, mipd>>
clock  == <<since, waited>>
vars   == <<pc, running, table, clock, events, inputs, output>>

Addresses == {OwnAddresses[i] : i \in DOMAIN OwnAddresses} \cup Destinations
                 \cup {p.address : p \in Packages}
                 \cup UNION {{p.entries[i].destination : i \in DOMAIN p.entries} : p \in Packages}

TypeOK ==
    /\ pc \in {"loop", "wait", "serve", "ended"}
    /\ running \in BOOLEAN
    /\ \A i \in DOMAIN table : table[i] \in [destination : Addresses, next_hop : Addresses,
                                             cost : Costs, age : 0 .. AgeCap]
    /\ since \in 0 .. SinceCap
    /\ waited \in 0 .. PollingTimeout
    /\ events \subseteq Descriptors
    /\ routing \in Seq(Packages)
    /\ forward \in Seq(Destinations)
    /\ stdin \in BOOLEAN /\ mipd \in BOOLEAN

\* last_broadcast_milli is 0, which is long ago.
Init ==
    /\ pc = "loop"
    /\ running = TRUE
    /\ table = LocalTable(OwnAddresses)
    /\ since = SinceCap
    /\ waited = 0
    /\ events = {}
    /\ routing = <<>> /\ forward = <<>> /\ stdin = FALSE /\ mipd = TRUE
    /\ output = Silence

-----------------------------------------------------------------------------
(* The loop                                                                 *)

\* Faulty variant: compared with the timeout of the wait.
BroadcastDue_AfterTimeout == since > PollingTimeout

\* should_complete_route_broadcast
BroadcastDue == since > BroadcastFreq

\* The wait starts.
Wait == pc' = "wait" /\ waited' = 0

\* Faulty variant: old entries are removed only when the table is broadcast.
NoBroadcast_KeepsOld ==
    /\ pc = "loop" /\ running /\ ~ BroadcastDue
    /\ Wait
    /\ output' = Silence
    /\ UNCHANGED <<running, table, since, events, inputs>>

\* Nothing to broadcast this time.
NoBroadcast ==
    /\ pc = "loop" /\ running /\ ~ BroadcastDue
    /\ table' = RemoveOldEntries(table)
    /\ Wait
    /\ output' = Silence
    /\ UNCHANGED <<running, since, events, inputs>>

\* broadcast_route_table: the table as it is, before old entries are removed.
Broadcast ==
    /\ pc = "loop" /\ running /\ BroadcastDue
    /\ Len(table) < PackageEntries
    /\ mipd
    /\ output' = [table |-> Package(table)]
    /\ since' = 0
    /\ table' = RemoveOldEntries(table)
    /\ Wait
    /\ UNCHANGED <<running, events, inputs>>

\* The process ends.
End ==
    /\ pc' = "ended"
    /\ output' = Silence
    /\ UNCHANGED <<running, table, clock, events, inputs>>

\* Out of the loop: after a stop line, when the table does not fit in a
\* package, or by SIGPIPE when the package is written and mipd is gone.
LeaveLoop ==
    /\ pc = "loop"
    /\ \/ ~ running
       \/ BroadcastDue /\ (Len(table) >= PackageEntries \/ ~ mipd)
    /\ End

\* The descriptors with something to read; one whose peer is gone reads EOF.
Ready ==
    {f \in Descriptors :
        \/ f = "stdin" /\ stdin
        \/ f = "routing" /\ (routing # <<>> \/ ~ mipd)
        \/ f = "forward" /\ (forward # <<>> \/ ~ mipd)}

\* Faulty variant: lookups are left for when there are no tables to read.
EpollEvents_TablesFirst ==
    /\ pc = "wait"
    /\ Ready # {}
    /\ events' = IF "routing" \in Ready THEN {"routing"} ELSE Ready
    /\ pc' = "serve"
    /\ output' = Silence
    /\ UNCHANGED <<running, table, clock, inputs>>

EpollEvents ==
    /\ pc = "wait"
    /\ Ready # {}
    /\ events' = Ready
    /\ pc' = "serve"
    /\ output' = Silence
    /\ UNCHANGED <<running, table, clock, inputs>>

EpollTimeout ==
    /\ pc = "wait"
    /\ Ready = {}
    /\ waited = PollingTimeout
    /\ pc' = "loop"
    /\ output' = Silence
    /\ UNCHANGED <<running, table, clock, events, inputs>>

-----------------------------------------------------------------------------
(* Events                                                                   *)

\* One event is done.
Done(f) ==
    /\ pc = "serve"
    /\ f \in events
    /\ events' = events \ {f}
    /\ pc' = IF events = {f} THEN "loop" ELSE "serve"

\* handle_route_request: a neighbour's table.
HandleTable ==
    /\ Done("routing")
    /\ routing # <<>>
    /\ Len(Head(routing).entries) < PackageEntries
    /\ table' = UpdateRouting(table, Head(routing))
    /\ routing' = Tail(routing)
    /\ output' = Silence
    /\ UNCHANGED <<running, clock, forward, stdin, mipd>>

\* At the end of the stream recv returns 0, and the package is empty.
HandleNoTable ==
    /\ Done("routing")
    /\ routing = <<>>
    /\ output' = Silence
    /\ UNCHANGED <<running, table, clock, inputs>>

\* handle_forwarding_request and send_forwarding_response
HandleLookup ==
    /\ Done("forward")
    /\ forward # <<>> /\ mipd
    /\ LET d == Head(forward)
       IN  output' = [destination |-> d, next_hop |-> NextHop(table, d)]
    /\ forward' = Tail(forward)
    /\ UNCHANGED <<running, table, clock, routing, stdin, mipd>>

\* A line with "stop": the other events of this round are still handled.
HandleStdin ==
    /\ Done("stdin")
    /\ running' = FALSE
    /\ stdin' = FALSE
    /\ output' = Silence
    /\ UNCHANGED <<table, clock, routing, forward, mipd>>

\* An event ends the process: the answer is written to a mipd that is gone
\* (SIGPIPE), a table cannot be read after mipd left data unread (ECONNRESET),
\* or a table has too many entries.
EndServing ==
    /\ pc = "serve"
    /\ \/ "forward" \in events /\ ~ mipd
       \/ "routing" \in events /\ ~ mipd
       \/ /\ "routing" \in events /\ routing # <<>>
          /\ Len(Head(routing).entries) >= PackageEntries
    /\ End

-----------------------------------------------------------------------------
(* mipd, the user and the time                                              *)

\* recv_route_table_broadcast: mipd passes a neighbour's table on.
PassTable(p) ==
    /\ mipd /\ pc # "ended"
    /\ Len(routing) < MaxInbox
    /\ routing' = Append(routing, p)
    /\ output' = Silence
    /\ UNCHANGED <<pc, running, table, clock, events, forward, stdin, mipd>>

\* request_forwarding: mipd asks for a next hop.
AskNextHop(d) ==
    /\ mipd /\ pc # "ended"
    /\ Len(forward) < MaxInbox
    /\ forward' = Append(forward, d)
    /\ output' = Silence
    /\ UNCHANGED <<pc, running, table, clock, events, routing, stdin, mipd>>

MipdExit ==
    /\ mipd /\ pc # "ended"
    /\ mipd' = FALSE
    /\ output' = Silence
    /\ UNCHANGED <<pc, running, table, clock, events, routing, forward, stdin>>

StopLine ==
    /\ ~ stdin /\ running /\ pc # "ended"
    /\ stdin' = TRUE
    /\ output' = Silence
    /\ UNCHANGED <<pc, running, table, clock, events, routing, forward, mipd>>

\* n, or the cap if that is less.
AtMost(n, cap) == IF n <= cap THEN n ELSE cap

\* Faulty variant: the wait has no timeout.
Tick_NoTimeout ==
    /\ pc = "wait"
    /\ Ready = {}
    /\ waited' = waited + 1
    /\ since' = AtMost(since + 1, SinceCap)
    /\ table' = [i \in DOMAIN table |-> [table[i] EXCEPT !.age = AtMost(@ + 1, AgeCap)]]
    /\ output' = Silence
    /\ UNCHANGED <<pc, running, events, inputs>>

Tick ==
    /\ pc = "wait"
    /\ Ready = {}
    /\ waited < PollingTimeout
    /\ waited' = waited + 1
    /\ since' = AtMost(since + 1, SinceCap)
    /\ table' = [i \in DOMAIN table |-> [table[i] EXCEPT !.age = AtMost(@ + 1, AgeCap)]]
    /\ output' = Silence
    /\ UNCHANGED <<pc, running, events, inputs>>

-----------------------------------------------------------------------------

Loop   == NoBroadcast \/ Broadcast \/ LeaveLoop \/ EpollEvents \/ EpollTimeout
Handle == HandleTable \/ HandleNoTable \/ HandleLookup \/ HandleStdin \/ EndServing

Next ==
    \/ Loop
    \/ Handle
    \/ Tick
    \/ \E p \in Packages : PassTable(p)
    \/ \E d \in Destinations : AskNextHop(d)
    \/ MipdExit
    \/ StopLine

Spec == Init /\ [][Next]_vars

\* The process runs, handles each event of a round (all it does while it
\* serves, unless it ends), and time passes.
FairSpec ==
    /\ Spec
    /\ WF_vars(Loop)
    /\ WF_<<pc, events>>(\E f \in events : Done(f))
    /\ WF_vars(Tick)

-----------------------------------------------------------------------------
(* Properties                                                               *)

\* A running routerd is never silent for longer than the broadcast frequency
\* and the timeout of the wait, whatever keeps it busy (router_server.c:106).
BroadcastsInTime == since = SinceCap => pc \in {"loop", "ended"}

\* No lookup is answered, and no neighbour is offered a route, by an entry
\* older than the maximum age and the timeout of one wait: old entries are
\* looked for only before the wait (router_server.c:117-119).
NothingStale ==
    \A i \in DOMAIN table : table[i].cost # 0 => table[i].age <= MaxAge + PollingTimeout

\* Every lookup is answered, whatever tables arrive meanwhile, unless the
\* daemon ends (routerd/README.md:41).
LookupsAnswered ==
    \A d \in Destinations :
        (\E i \in DOMAIN forward : forward[i] = d)
            ~> (pc = "ended" \/ ("destination" \in DOMAIN output /\ output.destination = d))

\* The list, the sockets and the loop do what RoutingService says.
Service == INSTANCE RoutingService WITH
    OwnAddresses <- {OwnAddresses[i] : i \in DOMAIN OwnAddresses},
    Offers <- {[routes |-> AsMap(p.entries), via |-> p.address] : p \in Packages},
    NoAnswer <- NoRoute,
    routes <- AsMap(table),
    output <- IF output = Silence \/ "destination" \in DOMAIN output THEN output
              ELSE [table |-> AsMap(output.table)]

ImplementsService == Service!ServiceSpec
=============================================================================
