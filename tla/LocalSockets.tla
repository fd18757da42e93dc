---------------------------- MODULE LocalSockets ----------------------------
(***************************************************************************)
(* The local sockets of mipd and the event loop that serves them:          *)
(* MIPDServer_run with its branches for the three listening sockets, the   *)
(* three connections, the raw sockets and stdin.                           *)
(*                                                                         *)
(* For each service mipd has one slot, the descriptor of the connection it *)
(* accepted last.  A descriptor is a number, and a number that was closed  *)
(* is given out again.  epoll_wait reports at most MaxEvents descriptors   *)
(* that are ready; each is served by the branch its number selects at the  *)
(* time.  An application's messages are bytes of a stream; recv takes as   *)
(* many of them as its buffer holds.                                       *)
(*                                                                         *)
(* What the answers of routerd do is in module Forwarding, what its tables *)
(* do in RoutingNetwork.  Sizes are scaled: see the README.                *)
(***************************************************************************)
EXTENDS Integers, FiniteSets, FiniteSetsExt, SequencesExt

CONSTANTS
    Clients,     \* processes that connect to mipd: applications and ends of routerd
    Service,     \* Service[c]: the socket c connects to
    Sizes,       \* Sizes[c]: the sizes of what c writes, in bytes; a table is one piece
    MaxEvents,   \* MAX_EVENTS
    RecvMax,     \* MAX_MIPMESSAGE_DATA_SIZE, the size of one recv
    MinSize,     \* sizeof(MIPDMessage), below which what was read is dropped
    MaxUnread    \* bound: MaxUnread[c], messages of c that are unread

Services == {"app", "route", "forward"}
Daemons  == {c \in Clients : Service[c] # "app"}

ASSUME LocalSocketsAssumption ==
    /\ IsFiniteSet(Clients)
    /\ Service \in [Clients -> Services]
    /\ Sizes \in [Clients -> SUBSET (Nat \ {0})]
    /\ \A c \in Daemons : Sizes[c] = {1}
    /\ MaxEvents \in Nat \ {0}
    /\ RecvMax \in Nat \ {0}
    /\ MinSize \in Nat
    /\ MaxUnread \in [Clients -> Nat]

\* The descriptors that are open all the time, and the numbers above them.
Stdin      == 0
Listening  == [app |-> 1, route |-> 2, forward |-> 3]
RawSocket  == 4
Numbers    == 5 .. 4 + Cardinality(Clients)
None       == -1

VARIABLES
    running,   \* running
    result,    \* how the process has ended, if it has
    events,    \* the events left to serve
    slot,      \* connected_socket_fd of each service
    backlog,   \* connections not yet accepted, in order
    number,    \* the descriptor mipd has of a client, or None
    open,      \* the clients that have a connection and not closed it
    unread,    \* the bytes each has written and mipd not read
    answered,  \* the ends of routerd that have not read what mipd wrote
    reset,     \* those that have closed without reading it
    hasty,     \* history: clients that did not write one fitting message at a time
    crowded,   \* history: clients that had more unread than one recv takes
    displaced, \* history: clients whose slot went to another while they held it
    spoilt,    \* history: clients with a message read that mipd did not act on, whole
    garbled    \* history: clients mipd took other bytes of for a message

loop    == <<running, result, events>>
ends    == <<backlog, number, slot>>
streams == <<open, unread, answered, reset>>
history == <<hasty, crowded, displaced, spoilt, garbled>>
vars    == <<loop, ends, streams, history>>

TypeOK ==
    /\ running \in BOOLEAN
    /\ result \in {"none", "stopped", "failed", "killed"}
    /\ events \subseteq 0 .. 4 + Cardinality(Clients)
    /\ slot \in [Services -> Numbers \cup {None}]
    /\ backlog \in [Services -> Seq(Clients)]
    /\ number \in [Clients -> Numbers \cup {None}]
    /\ open \subseteq Clients
    /\ unread \in [Clients -> Seq(Nat)]
    /\ answered \subseteq Daemons /\ reset \subseteq Daemons
    /\ hasty \subseteq Clients /\ crowded \subseteq Clients /\ displaced \subseteq Clients
    /\ spoilt \subseteq Clients /\ garbled \subseteq Clients

Init ==
    /\ running = TRUE
    /\ result = "none"
    /\ events = {}
    /\ slot = [s \in Services |-> None]
    /\ backlog = [s \in Services |-> <<>>]
    /\ number = [c \in Clients |-> None]
    /\ open = {}
    /\ unread = [c \in Clients |-> <<>>]
    /\ answered = {} /\ reset = {}
    /\ hasty = {} /\ crowded = {} /\ displaced = {} /\ spoilt = {} /\ garbled = {}

-----------------------------------------------------------------------------
(* The loop                                                                 *)

\* The local sockets to read from without waiting; what has been closed reads
\* the end.  (Whether there is a line on stdin or a frame on a raw socket is
\* left to chance when epoll_wait looks.)
Ready ==
    {d \in 0 .. 4 + Cardinality(Clients) :
        \/ \E s \in Services : d = Listening[s] /\ backlog[s] # <<>>
        \/ \E c \in Clients : d = number[c] /\ (unread[c] # <<>> \/ c \notin open)}

\* epoll_wait, with as many events as there is room for.
EpollWait(input) ==
    /\ result = "none" /\ running /\ events = {}
    /\ events' \in SUBSET (Ready \cup input)
    /\ events' # {}
    /\ Cardinality(events') = Min({MaxEvents, Cardinality(Ready \cup input)})
    /\ UNCHANGED <<running, result, ends, streams, history>>

\* After a stop line, when the other events of the round are served.
Leave ==
    /\ result = "none" /\ ~ running /\ events = {}
    /\ result' = "stopped"
    /\ UNCHANGED <<running, events, ends, streams, history>>

\* The branch that serves a descriptor: the first that fits, if one does.
Branch(d) ==
    IF \E s \in Services : d = Listening[s] THEN "accept"
    ELSE IF d = slot["route"]   THEN "route"
    ELSE IF d = slot["forward"] THEN "forward"
    ELSE IF d = RawSocket       THEN "raw"
    ELSE IF d = slot["app"]     THEN "app"
    ELSE IF d = Stdin           THEN "stdin"
    ELSE "none"

\* The event d is served, by this branch.
Serve(d, branch) ==
    /\ result = "none"
    /\ d \in events
    /\ Branch(d) = branch
    /\ events' = events \ {d}

\* An end that is no longer, or not yet again, in a slot: no branch fits, and
\* the descriptor stays open and ready.
ServeNothing(d) ==
    /\ Serve(d, "none")
    /\ UNCHANGED <<running, result, ends, streams, history>>

\* A line, with "stop" or without.
ReadStdin(d) ==
    /\ Serve(d, "stdin")
    /\ running' \in {FALSE, running}
    /\ UNCHANGED <<result, ends, streams, history>>

-----------------------------------------------------------------------------
(* Connections                                                              *)

\* The lowest number that is free, as the kernel gives it out.
NewNumber == Min(Numbers \ {number[c] : c \in Clients})

\* Faulty variant: the connection that was in the slot is closed.
Accept_ClosesOld(d, s) ==
    /\ Serve(d, "accept")
    /\ d = Listening[s]
    /\ LET c == Head(backlog[s])
       IN  number' = [x \in Clients |-> IF x = c THEN NewNumber
                                        ELSE IF slot[s] # None /\ number[x] = slot[s] THEN None
                                        ELSE number[x]]
    /\ slot' = [slot EXCEPT ![s] = NewNumber]
    /\ backlog' = [backlog EXCEPT ![s] = Tail(@)]
    /\ UNCHANGED <<running, result, streams, history>>

\* Who holds the slot of s.
Holders(s) == {c \in Clients : slot[s] # None /\ number[c] = slot[s]}

\* handle_domain_socket_connection: the new connection takes the slot, and
\* the one that was there keeps its descriptor.
Accept(d, s) ==
    /\ Serve(d, "accept")
    /\ d = Listening[s]
    /\ number' = [number EXCEPT ![Head(backlog[s])] = NewNumber]
    /\ slot' = [slot EXCEPT ![s] = NewNumber]
    /\ backlog' = [backlog EXCEPT ![s] = Tail(@)]
    /\ displaced' = displaced \cup Holders(s)
    /\ UNCHANGED <<running, result, streams, hasty, crowded, spoilt, garbled>>

\* accept or epoll_ctl fails, as when there is no descriptor left: the error
\* leaves the loop.
AcceptFails(d, s) ==
    /\ Serve(d, "accept")
    /\ d = Listening[s]
    /\ result' = "failed"
    /\ UNCHANGED <<running, ends, streams, history>>

\* Faulty variant: the slot keeps the number.
Disconnect_KeepsSlot(c, s) ==
    /\ number' = [number EXCEPT ![c] = None]
    /\ UNCHANGED slot

\* Faulty variant: no connection is 0, which is a descriptor too.
Disconnect_Zero(c, s) ==
    /\ number' = [number EXCEPT ![c] = None]
    /\ slot' = [slot EXCEPT ![s] = 0]

\* Faulty variant: every branch empties the slot of the applications.
Disconnect_AppSlot(c, s) ==
    /\ number' = [number EXCEPT ![c] = None]
    /\ slot' = [slot EXCEPT !["app"] = None]

\* handle_domain_socket_disconnect, and the slot is emptied.
Disconnect(c, s) ==
    /\ number' = [number EXCEPT ![c] = None]
    /\ slot' = [slot EXCEPT ![s] = None]

\* mipd writes to the connection in a slot.  When the process at the other
\* end has gone this raises SIGPIPE; without a connection nothing is written.
WriteTo(s) ==
    \/ /\ slot[s] = None
       /\ UNCHANGED <<result, answered>>
    \/ \E c \in Clients :
          /\ slot[s] # None /\ number[c] = slot[s]
          /\ \/ /\ c \in open
                /\ answered' = answered \cup ({c} \cap Daemons)
                /\ UNCHANGED result
             \/ /\ c \notin open
                /\ result' = "killed"
                /\ UNCHANGED answered

-----------------------------------------------------------------------------
(* Events                                                                   *)

\* A table or an answer of routerd: each is written, and read, in one piece.
\* An answer may end the daemon (module Forwarding says when), and so may a
\* link that fails.
ReadRoutes(d, s, c) ==
    /\ Serve(d, s)
    /\ number[c] = d
    /\ unread[c] # <<>>
    /\ unread' = [unread EXCEPT ![c] = Tail(@)]
    /\ result' \in IF s = "forward" THEN {"none", "failed", "killed"} ELSE {"none", "failed"}
    /\ UNCHANGED <<running, ends, open, answered, reset, history>>

\* The end of the stream, or the error that routerd left data unread.
RoutesEnd(d, s, c) ==
    /\ Serve(d, s)
    /\ number[c] = d
    /\ unread[c] = <<>>
    /\ \/ /\ c \in reset
          /\ result' = "failed"
          /\ UNCHANGED <<number, slot>>
       \/ /\ c \notin reset
          /\ Disconnect(c, s)
          /\ UNCHANGED result
    /\ UNCHANGED <<running, backlog, streams, history>>

\* Bytes of a message: the first holds its size, as its header does.  The data
\* is 0, no header: where one should be, it may read as any size.
Bytes(size) == [i \in 1 .. size |-> IF i = 1 THEN size ELSE 0]

\* Faulty variant: one byte less is asked for.
Received_OneShort(c) == SubSeq(unread[c], 1, Min({RecvMax - 1, Len(unread[c])}))

\* What recv puts into read_buffer.
Received(c) == SubSeq(unread[c], 1, Min({RecvMax, Len(unread[c])}))

\* Too short to hold a MIPDMessage.
Dropped(bytes) == Len(bytes) < MinSize

\* What was read begins with a message, and holds all of it.
Whole(bytes) == bytes[1] # 0 /\ bytes[1] <= Len(bytes)

\* And holds nothing else.
Alone(bytes) == Whole(bytes) /\ bytes[1] = Len(bytes)

\* Bytes of the application are read: the first message in them is sent to a
\* neighbour or looked up at routerd.  Its size is read from the bytes where
\* its header should be: more than was read is copied from beyond it, or makes
\* no message, whose NULL is dereferenced.  A link that fails ends the daemon.
ReadMessage(d, c) ==
    /\ Serve(d, "app")
    /\ number[c] = d
    /\ unread[c] # <<>>
    /\ unread' = [unread EXCEPT ![c] = SubSeq(@, Len(Received(c)) + 1, Len(@))]
    /\ \/ /\ Dropped(Received(c))
          /\ spoilt' = spoilt \cup {c}
          /\ UNCHANGED <<result, answered, garbled>>
       \/ /\ ~ Dropped(Received(c))
          /\ spoilt' = IF Alone(Received(c)) THEN spoilt ELSE spoilt \cup {c}
          /\ garbled' = IF Whole(Received(c)) THEN garbled ELSE garbled \cup {c}
          /\ \/ WriteTo("forward")
             \/ result' \in {"none", "failed"} /\ UNCHANGED answered
             \/ /\ ~ Whole(Received(c))
                /\ result' = "killed"
                /\ UNCHANGED answered
    /\ UNCHANGED <<running, ends, open, reset, hasty, crowded, displaced>>

\* The end of the stream, or an error, alike: the application is gone.
AppEnd(d, c) ==
    /\ Serve(d, "app")
    /\ number[c] = d
    /\ unread[c] = <<>>
    /\ Disconnect(c, "app")
    /\ UNCHANGED <<running, result, backlog, streams, history>>

\* handle_raw_socket_frame: a package for the application, a table for routerd,
\* a package to look up a route for, or what stays out of the local sockets.
HandleFrame(d) ==
    /\ Serve(d, "raw")
    /\ \/ \E s \in Services : WriteTo(s)
       \/ result' \in {"none", "failed"} /\ UNCHANGED answered
    /\ UNCHANGED <<running, ends, open, unread, reset, history>>

-----------------------------------------------------------------------------
(* The clients                                                              *)

\* A new process connects, or one that had left and is forgotten by mipd.
Connect(c) ==
    /\ result = "none"
    /\ c \notin open
    /\ number[c] = None
    /\ \A i \in DOMAIN backlog[Service[c]] : backlog[Service[c]][i] # c
    /\ open' = open \cup {c}
    /\ backlog' = [backlog EXCEPT ![Service[c]] = Append(@, c)]
    /\ hasty' = hasty \ {c} /\ crowded' = crowded \ {c} /\ displaced' = displaced \ {c}
    /\ spoilt' = spoilt \ {c} /\ garbled' = garbled \ {c}
    /\ UNCHANGED <<loop, number, slot, unread, answered, reset>>

\* c writes a message of this size, accepted or not.
Write(c, size) ==
    /\ result = "none"
    /\ c \in open
    /\ Cardinality({i \in DOMAIN unread[c] : unread[c][i] # 0}) < MaxUnread[c]
    /\ unread' = [unread EXCEPT ![c] = @ \o Bytes(size)]
    /\ hasty' = IF unread[c] = <<>> /\ size \in MinSize .. RecvMax THEN hasty
                ELSE hasty \cup {c}
    /\ crowded' = IF Len(unread'[c]) <= RecvMax THEN crowded ELSE crowded \cup {c}
    /\ UNCHANGED <<loop, ends, open, answered, reset, displaced, spoilt, garbled>>

ReadAnswer(c) ==
    /\ result = "none"
    /\ c \in open \cap answered
    /\ answered' = answered \ {c}
    /\ UNCHANGED <<loop, ends, open, unread, reset, history>>

Close(c) ==
    /\ result = "none"
    /\ c \in open
    /\ open' = open \ {c}
    /\ reset' = IF c \in answered THEN reset \cup {c} ELSE reset
    /\ answered' = answered \ {c}
    /\ UNCHANGED <<loop, ends, unread, history>>

-----------------------------------------------------------------------------

ServeEvent ==
    \E d \in events :
        \/ ServeNothing(d)
        \/ ReadStdin(d)
        \/ HandleFrame(d)
        \/ \E s \in Services : Accept(d, s)
        \/ \E s \in Services : AcceptFails(d, s)
        \/ \E c \in Clients : \E s \in {"route", "forward"} : ReadRoutes(d, s, c)
        \/ \E c \in Clients : \E s \in {"route", "forward"} : RoutesEnd(d, s, c)
        \/ \E c \in Clients : ReadMessage(d, c)
        \/ \E c \in Clients : AppEnd(d, c)

Next ==
    \/ \E input \in SUBSET {Stdin, RawSocket} : EpollWait(input)
    \/ ServeEvent
    \/ Leave
    \/ \E c \in Clients : Connect(c)
    \/ \E c \in Clients : \E size \in Sizes[c] : Write(c, size)
    \/ \E c \in Clients : ReadAnswer(c)
    \/ \E c \in Clients : Close(c)

Spec == Init /\ [][Next]_vars

-----------------------------------------------------------------------------
(* Properties                                                               *)

\* A slot is empty or holds the descriptor of a connection of its own
\* service, so that no branch reads another's bytes and no write goes astray,
\* however often numbers are used again (server.c:229, 260, 280, 313).
SlotsCurrent ==
    \A s \in Services : slot[s] # None =>
        \E c \in Clients : number[c] = slot[s] /\ Service[c] = s

\* What is left of a round is as ready as it was when epoll reported it: no
\* event closes or empties what a later one reads, which would block the loop
\* or serve a connection that has taken the number (server.c:221-226).
EventsCurrent == result = "none" => events \subseteq Ready \cup {Stdin, RawSocket}

\* Clients with a message that was read and not acted on, or that no branch
\* will ever read.
Lost == spoilt \cup {c \in Clients :
                         /\ number[c] # None /\ number[c] # slot[Service[c]]
                         /\ unread[c] # <<>>}

\* As long as mipd runs, a message is lost for one of two reasons only: its
\* application wrote it before the last one was read, too short or too long,
\* or a later connection has taken the slot from it (server.c:229, 309-319).
LossHasCause == Lost \subseteq hasty \cup displaced

\* As long as no application has more unread than one recv takes, nothing but
\* a whole message is taken for one, even where messages are lost
\* (server.c:309).
OnlyCrowdedGarbled == garbled \subseteq crowded
=============================================================================
