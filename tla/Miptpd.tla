------------------------------- MODULE Miptpd -------------------------------
(***************************************************************************)
(* The loop of miptpd and the list of its connections: MIPTPServer_run     *)
(* with the handlers of MIPTPAppController.                                *)
(*                                                                         *)
(* Once around, miptpd waits for events, sends the windows of all senders  *)
(* to mipd, and then serves the events.  An application connects, writes   *)
(* requests and may leave at any time.  A descriptor is named for the      *)
(* application at its other end; miptpd never closes one, so that numbers  *)
(* are not used again, and in the end there are none left.  What a job     *)
(* sends is in module FileTransfer.                                        *)
(*                                                                         *)
(* mipd is at the other end of a socket that blocks.  A mipd that is deaf  *)
(* lives but never reads again: it has lost the slot of this connection to *)
(* another one (module LocalSockets), or is held up itself.                *)
(***************************************************************************)
EXTENDS Naturals, FiniteSets, FiniteSetsExt, SequencesExt

CONSTANTS
    Clients,            \* applications that connect
    Requests,           \* Requests[c]: what c writes, in this order
    DescriptorLimits,   \* how many applications there may be descriptors for
    EventsBuffers       \* how many events a round may have room for

\* A sender, a sender of a whole batch and more, a receiver, neither of these,
\* or with port or destination 0.
Kinds == {"sender", "large", "receiver", "untyped", "invalid"}

ASSUME MiptpdAssumption ==
    /\ Requests \in [Clients -> Seq(Kinds)]
    /\ DescriptorLimits \subseteq Nat
    /\ EventsBuffers \subseteq Nat \ {0}
    /\ Clients \cap {"stdin", "mipd", "listen"} = {}

Descriptors == Clients \cup {"stdin", "mipd", "listen"}

VARIABLES
    pc,            \* where in MIPTPServer_run the process is
    running,       \* running
    result,        \* how the process has ended, if it has
    connections,   \* connections of the controller
    events,        \* the events left to serve
    fits,          \* a pointer survives its way through an int
    backlog,       \* connections not yet accepted, in order
    accepted,      \* the applications miptpd has a descriptor of
    open,          \* the applications that have not closed their ends
    written,       \* how many requests each has written
    unread,        \* what miptpd has not read of them
    buffer,        \* EVENTS_BUFFER_SIZE
    limit,         \* how many applications miptpd can have descriptors of
    stdin,         \* a stop line is to be read
    mipd,          \* what mipd does at the other end
    package        \* mipd has written a package that is not read

control == <<pc, running, result, events>>
ends    == <<backlog, accepted, open, written, unread, buffer, limit>>
others  == <<stdin, mipd, package>>
vars    == <<control, connections, fits, ends, others>>

Connection == [socket : Clients, status : {"not_ready", "sender", "large"}]

Sockets == {connections[i].socket : i \in DOMAIN connections}

\* The sockets of the connections with one of these statuses.
WithStatus(statuses) ==
    {connections[i].socket : i \in {k \in DOMAIN connections :
                                       connections[k].status \in statuses}}

Senders == WithStatus({"sender", "large"})

TypeOK ==
    /\ pc \in {"poll", "send", "blocked", "serve", "ended"}
    /\ running \in BOOLEAN
    /\ result \in {"none", "stopped", "failed", "killed"}
    /\ connections \in Seq(Connection)
    /\ events \subseteq Descriptors
    /\ fits \in BOOLEAN
    /\ backlog \in Seq(Clients)
    /\ accepted \subseteq Clients
    /\ open \subseteq Clients
    /\ written \in [Clients -> Nat]
    /\ unread \in [Clients -> Seq(Kinds)]
    /\ buffer \in EventsBuffers
    /\ limit \in DescriptorLimits
    /\ stdin \in BOOLEAN /\ mipd \in {"reads", "deaf", "gone"} /\ package \in BOOLEAN

\* MIPTPServer_init has connected to mipd.  The functions that make connections
\* have no return type (app_connection.c:5, 44): the pointers they return pass
\* through an int, which truncates them or not, as the build has it.
Init ==
    /\ pc = "poll"
    /\ running = TRUE
    /\ result = "none"
    /\ connections = <<>>
    /\ events = {}
    /\ fits \in BOOLEAN
    /\ backlog = <<>>
    /\ accepted = {}
    /\ open = {}
    /\ written = [c \in Clients |-> 0]
    /\ unread = [c \in Clients |-> <<>>]
    /\ buffer \in EventsBuffers
    /\ limit \in DescriptorLimits
    /\ stdin = FALSE /\ mipd = "reads" /\ package = FALSE

-----------------------------------------------------------------------------
(* The loop                                                                 *)

End(how) == pc' = "ended" /\ result' = how /\ UNCHANGED <<running, events>>

\* What has something to read; what has been closed reads the end.
Ready ==
    {d \in Descriptors :
        \/ d = "stdin" /\ stdin
        \/ d = "mipd" /\ (package \/ mipd = "gone")
        \/ d = "listen" /\ backlog # <<>>
        \/ d \in accepted /\ (unread[d] # <<>> \/ d \notin open)}

\* epoll_wait, with as many events as there is room for, or after its timeout.
EpollWait ==
    /\ pc = "poll" /\ running
    /\ events' \in SUBSET Ready
    /\ Cardinality(events') = Min({buffer, Cardinality(Ready)})
    /\ pc' = "send"
    /\ UNCHANGED <<running, result, connections, fits, ends, others>>

\* Walking the list reads through every pointer in it.
ListIsReadable == fits \/ connections = <<>>

\* The windows of the senders are sent, and the events come next.
Sent ==
    /\ pc' = IF events = {} THEN "poll" ELSE "serve"
    /\ UNCHANGED <<running, result, events>>

\* A write to a mipd that is gone: a signal or an error, as there were bytes it
\* had not read or not.
WriteFails == \E how \in {"failed", "killed"} : End(how)

\* Faulty variant: mipd is written to by connections of any status.
HandleOutgoing_AnyStatus ==
    /\ pc = "send"
    /\ \/ ListIsReadable /\ (mipd # "gone" \/ connections = <<>>) /\ Sent
       \/ ListIsReadable /\ mipd = "gone" /\ connections # <<>> /\ WriteFails
       \/ ~ ListIsReadable /\ End("killed")
    /\ UNCHANGED <<connections, fits, ends, others>>

\* MIPTPAppController_handle_outgoing: before the events are looked at, and
\* into a socket that is full in the end if mipd does not read it.  A whole
\* batch is serialized over the end of its buffer, which ends the process or
\* does not.
HandleOutgoing ==
    /\ pc = "send"
    /\ \/ ListIsReadable /\ (mipd # "gone" \/ Senders = {}) /\ Sent
       \/ /\ ListIsReadable /\ mipd = "deaf" /\ Senders # {}
          /\ pc' = "blocked"
          /\ UNCHANGED <<running, result, events>>
       \/ ListIsReadable /\ mipd = "gone" /\ Senders # {} /\ WriteFails
       \/ (~ ListIsReadable \/ WithStatus({"large"}) # {}) /\ End("killed")
    /\ UNCHANGED <<connections, fits, ends, others>>

\* The send that waits for mipd comes back when mipd has gone.
SendReturns ==
    /\ pc = "blocked"
    /\ mipd = "gone"
    /\ WriteFails
    /\ UNCHANGED <<connections, fits, ends, others>>

\* running is looked at when all the events are served.
LeaveLoop ==
    /\ pc = "poll" /\ ~ running
    /\ End("stopped")
    /\ UNCHANGED <<connections, fits, ends, others>>

-----------------------------------------------------------------------------
(* Events                                                                   *)

\* Event d is the next one served.
Serving(d) == pc = "serve" /\ d \in events

\* It is served, and the loop goes on.
Served(d) ==
    /\ events' = events \ {d}
    /\ pc' = IF events = {d} THEN "poll" ELSE "serve"
    /\ UNCHANGED result

\* The bytes mipd has written are used as if they were a MIPDMessage, and with
\* them a pointer to data.
MipdWrote ==
    /\ Serving("mipd")
    /\ package
    /\ End("killed")
    /\ UNCHANGED <<connections, fits, ends, others>>

\* Faulty variant: the loop goes on without mipd.
MipdLeft_GoesOn ==
    /\ Serving("mipd")
    /\ ~ package
    /\ Served("mipd")
    /\ UNCHANGED <<running, connections, fits, ends, others>>

MipdLeft ==
    /\ Serving("mipd")
    /\ ~ package
    /\ running' = FALSE
    /\ Served("mipd")
    /\ UNCHANGED <<connections, fits, ends, others>>

\* MIPTPAppController_handle_connection, while there are descriptors
Accept ==
    /\ Serving("listen")
    /\ Cardinality(accepted) < limit
    /\ accepted' = accepted \cup {Head(backlog)}
    /\ backlog' = Tail(backlog)
    /\ connections' = Append(connections, [socket |-> Head(backlog), status |-> "not_ready"])
    /\ Served("listen")
    /\ UNCHANGED <<running, fits, open, written, unread, buffer, limit, others>>

\* accept fails when all descriptors are in use.
AcceptFails ==
    /\ Serving("listen")
    /\ Cardinality(accepted) >= limit
    /\ End("failed")
    /\ UNCHANGED <<connections, fits, ends, others>>

\* The list without the first connection of c.
Without(c) == RemoveFirstMatch(connections, LAMBDA k : k.socket = c)

\* Faulty variant: the connection c had stays in the list.
Replaced_Kept(c, kind) ==
    Append(connections, [socket |-> c,
                         status |-> IF kind = "untyped" THEN "not_ready" ELSE kind])

\* Faulty variant: the status is what the request says.
Replaced_Unchecked(c, kind) == Append(Without(c), [socket |-> c, status |-> kind])

\* The list after a request of c: a connection with the status of the request
\* in place of the one c had.
Replaced(c, kind) ==
    Append(Without(c), [socket |-> c,
                        status |-> IF kind = "untyped" THEN "not_ready" ELSE kind])

\* MIPTPAppController_handle_app_package: all there is to read is read, and the
\* first request in it is handled.  One without port or destination ends
\* miptpd, and so does a receiver (app_connection.c:72 asks for its s_job).
HandleAppPackage(c) ==
    /\ Serving(c)
    /\ ListIsReadable
    /\ c \in Sockets
    /\ unread[c] # <<>>
    /\ unread' = [unread EXCEPT ![c] = <<>>]
    /\ LET kind == Head(unread[c])
       IN  IF kind \in {"receiver", "invalid"}
           THEN End("failed") /\ UNCHANGED connections
           ELSE /\ connections' = Replaced(c, kind)
                /\ Served(c)
                /\ UNCHANGED running
    /\ UNCHANGED <<fits, backlog, accepted, open, written, buffer, limit, others>>

\* Faulty variant: a closed end is noticed before what was written is read.
Disconnect_Unread(c) ==
    /\ Serving(c)
    /\ ListIsReadable
    /\ c \in Sockets
    /\ c \notin open
    /\ connections' = Without(c)
    /\ Served(c)
    /\ UNCHANGED <<running, fits, ends, others>>

\* MIPTPAppController_disconnect: the descriptor stays open, and ready.
Disconnect(c) ==
    /\ Serving(c)
    /\ ListIsReadable
    /\ c \in Sockets
    /\ unread[c] = <<>>
    /\ connections' = Without(c)
    /\ Served(c)
    /\ UNCHANGED <<running, fits, ends, others>>

\* The event of a descriptor without a connection.
Ignore(c) ==
    /\ Serving(c)
    /\ ListIsReadable
    /\ c \notin Sockets
    /\ Served(c)
    /\ UNCHANGED <<running, connections, fits, ends, others>>

StopLineRead ==
    /\ Serving("stdin")
    /\ ListIsReadable
    /\ stdin' = FALSE
    /\ running' = FALSE
    /\ Served("stdin")
    /\ UNCHANGED <<connections, fits, ends, mipd, package>>

\* MIPTPAppController_is_a_connection walks the list for these events.
WalkFails ==
    /\ \E d \in Clients \cup {"stdin"} : Serving(d)
    /\ ~ ListIsReadable
    /\ End("killed")
    /\ UNCHANGED <<connections, fits, ends, others>>

-----------------------------------------------------------------------------
(* Applications, mipd and the user                                          *)

Connect(c) ==
    /\ pc # "ended"
    /\ c \notin accepted \cup open \cup Range(backlog)
    /\ open' = open \cup {c}
    /\ backlog' = Append(backlog, c)
    /\ UNCHANGED <<control, connections, fits, accepted, written, unread, buffer, limit, others>>

WriteRequest(c) ==
    /\ pc # "ended"
    /\ c \in open
    /\ written[c] < Len(Requests[c])
    /\ written' = [written EXCEPT ![c] = @ + 1]
    /\ unread' = [unread EXCEPT ![c] = Append(@, Requests[c][written'[c]])]
    /\ UNCHANGED <<control, connections, fits, backlog, accepted, open, buffer, limit, others>>

Close(c) ==
    /\ pc # "ended"
    /\ c \in open
    /\ open' = open \ {c}
    /\ UNCHANGED <<control, connections, fits, backlog, accepted, written, unread, buffer, limit, others>>

MipdWrites ==
    /\ pc # "ended" /\ mipd = "reads"
    /\ package' = TRUE
    /\ UNCHANGED <<control, connections, fits, ends, stdin, mipd>>

MipdDeafens ==
    /\ pc # "ended" /\ mipd = "reads"
    /\ mipd' = "deaf"
    /\ UNCHANGED <<control, connections, fits, ends, stdin, package>>

MipdExits ==
    /\ pc # "ended" /\ mipd # "gone"
    /\ mipd' = "gone"
    /\ UNCHANGED <<control, connections, fits, ends, stdin, package>>

StopLine ==
    /\ pc # "ended" /\ running /\ ~ stdin
    /\ stdin' = TRUE
    /\ UNCHANGED <<control, connections, fits, ends, mipd, package>>

-----------------------------------------------------------------------------

Loop  == HandleOutgoing \/ SendReturns \/ LeaveLoop
Serve ==
    \/ MipdWrote
    \/ MipdLeft
    \/ Accept
    \/ AcceptFails
    \/ \E c \in Clients : HandleAppPackage(c) \/ Disconnect(c) \/ Ignore(c)
    \/ StopLineRead
    \/ WalkFails

Next ==
    \/ EpollWait
    \/ Loop
    \/ Serve
    \/ \E c \in Clients : Connect(c) \/ WriteRequest(c) \/ Close(c)
    \/ MipdWrites
    \/ MipdDeafens
    \/ MipdExits
    \/ StopLine

Spec == Init /\ [][Next]_vars

\* The process runs, serves the events of a round, and epoll goes round the
\* descriptors that are ready when there is no room for all of them.
Fairness ==
    /\ WF_pc(EpollWait)
    /\ WF_pc(Loop)
    /\ WF_<<pc, events>>(Serve)
    /\ \A d \in Descriptors : SF_pc(EpollWait /\ d \in events')

FairSpec == Spec /\ Fairness
-----------------------------------------------------------------------------
(* Properties                                                               *)

\* An application has at most one connection in the list, although requests
\* and ends replace and remove connections while others are served; every
\* application that is still there has one; and it is a sender only if the
\* application has asked for it (miptp_app_controller.c:66-68).
ConnectionsSound ==
    /\ \A i, k \in DOMAIN connections : connections[i].socket = connections[k].socket => i = k
    /\ Sockets \subseteq accepted
    /\ accepted \cap open \subseteq Sockets
    /\ \A c \in Senders : \E i \in 1 .. written[c] : Requests[c][i] \in {"sender", "large"}

\* A request of one of these kinds was written.
Asked(kinds) == \E c \in Clients : \E i \in 1 .. written[c] : Requests[c][i] \in kinds

\* What ends miptpd, but for a stop line and the end of mipd: a request of a
\* receiver or without port or destination, as many applications as there are
\* descriptors, though they may long have gone, the end of mipd while there is
\* something to send to it, a package of mipd, a file of a whole batch, or a
\* build in which pointers do not fit.
EndsOnlyFor ==
    /\ result = "failed" =>
          \/ Asked({"receiver", "invalid"})
          \/ Cardinality(accepted) >= limit
          \/ mipd = "gone" /\ Senders # {}
    /\ result = "killed" /\ fits =>
          \/ package
          \/ mipd = "gone" /\ Senders # {}
          \/ Asked({"large"})
    /\ result = "killed" /\ ~ fits => package \/ accepted # {}

\* When mipd has gone, miptpd ends, and when a stop line was given too unless
\* mipd is deaf: neither senders nor descriptors that stay ready after their
\* ends were closed keep it busy for ever (miptp_server.c:105, 142).
Ends == [](stdin \/ mipd = "gone" => <>(pc = "ended" \/ mipd = "deaf"))

\* Every request is read, even if the descriptors of applications that have
\* gone fill a round of events, unless miptpd ends or mipd is deaf
\* (miptp_server.c:91, 125).
RequestsRead ==
    \A c \in Clients :
        [](unread[c] # <<>> => <>(unread[c] = <<>> \/ pc = "ended" \/ mipd = "deaf"))
=============================================================================
