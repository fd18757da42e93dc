------------------------------ MODULE ArpCache ------------------------------
(***************************************************************************)
(* The MIP-ARP cache of one mipd, and the clock of its loop.               *)
(*                                                                         *)
(* Once around the loop mipd removes the entries that are too old and, if  *)
(* the last time is long enough ago, sends a MIP-ARP request on each       *)
(* interface.  Neighbours answer, and send requests of their own; either   *)
(* frame makes or renews their entry.  Whatever wakes the loop up, it      *)
(* starts again from the top.                                              *)
(*                                                                         *)
(* Time passes in ticks, while mipd waits and no ARP frame is unread: the  *)
(* way to a neighbour and back takes no time.                              *)
(***************************************************************************)
EXTENDS Naturals, SequencesExt

CONSTANTS
    Neighbours,    \* the addresses that the links reach
    Socket,        \* the raw socket of the interface to each neighbour
    UpdateFreq,    \* update_freq, in ticks
    PollTimeout,   \* the timeout of MIPDServer_run, in ticks
    MaxLosses,     \* bound: how many answers are lost
    MaxDeaths      \* bound: how often a neighbour stops

\* The answers to one request come before the entries of the last are too old
\* only if the loop is not asleep for longer than the frequency.
ASSUME ArpAssumption ==
    /\ IsFiniteSet(Neighbours)
    /\ UpdateFreq \in Nat
    /\ PollTimeout \in 0 .. UpdateFreq
    /\ MaxLosses \in Nat
    /\ MaxDeaths \in Nat

VARIABLES
    pc,         \* at the top of the loop, or in epoll_wait
    cache,      \* entries, oldest position first
    sinceArp,   \* ticks since last_arp
    waited,     \* ticks spent in epoll_wait
    frames,     \* ARP frames that mipd has not read
    alive,      \* the neighbours that run
    steady,     \* history: the neighbours that have run, and lost no answer, since they were last renewed
    losses, deaths   \* for the bounds only

vars == <<pc, cache, sinceArp, waited, frames, alive, steady, losses, deaths>>

Frames == [tra : {"request", "response"}, src : Neighbours]
MaxAge == 2 * UpdateFreq + PollTimeout

TypeOK ==
    /\ pc \in {"start", "loop", "wait"}
    /\ cache \in Seq([address : Neighbours, socket : {Socket[n] : n \in Neighbours},
                      age : 0 .. MaxAge + PollTimeout + UpdateFreq])
    /\ sinceArp \in 0 .. UpdateFreq + PollTimeout
    /\ waited \in 0 .. PollTimeout
    /\ frames \subseteq Frames
    /\ alive \subseteq Neighbours
    /\ steady \subseteq alive
    /\ losses \in 0 .. MaxLosses
    /\ deaths \in 0 .. MaxDeaths

Cached == {cache[i].address : i \in DOMAIN cache}

\* create_cache
Init ==
    /\ pc = "start"
    /\ cache = <<>>
    /\ sinceArp = 0 /\ waited = 0
    /\ frames = {}
    /\ alive = Neighbours
    /\ steady = {}
    /\ losses = 0 /\ deaths = 0

-----------------------------------------------------------------------------
(* Operations on the cache                                                  *)

\* query_mip_address_pos
Position(address) == SelectInSeq(cache, LAMBDA e : e.address = address)

\* Faulty variant: the position of a known address is not looked up.
AppendToCache_Always(n) == Append(cache, [address |-> n, socket |-> Socket[n], age |-> 0])

\* append_to_cache: a known address keeps its position.
AppendToCache(n) ==
    LET entry == [address |-> n, socket |-> Socket[n], age |-> 0]
    IN  IF Position(n) = 0 THEN Append(cache, entry) ELSE [cache EXCEPT ![Position(n)] = entry]

\* is_cache_entry_expired, with twice the frequency.
IsExpired(entry) == entry.age > 2 * UpdateFreq

\* Faulty variant: the entry that moves into the place of a removed one is
\* passed over (mip_arp.c:165 left out).
RemoveExpired_PassesOver(entries) ==
    LET gone(i) == IsExpired(entries[i]) /\ (i = 1 \/ ~ IsExpired(entries[i - 1]))
        kept == SelectSeq([i \in DOMAIN entries |-> i], LAMBDA i : ~ gone(i))
    IN  [k \in DOMAIN kept |-> entries[kept[k]]]

\* remove_from_cache, for every entry that is expired: kept[i] is what is left
\* of the first i entries.
RemoveExpired(entries) ==
    LET kept[i \in 0 .. Len(entries)] ==
            IF i = 0 THEN <<>>
            ELSE IF IsExpired(entries[i]) THEN kept[i - 1]
            ELSE Append(kept[i - 1], entries[i])
    IN  kept[Len(entries)]

\* Faulty variant: the factor of the expiry is taken here too.
ArpDue_Doubled == sinceArp > 2 * UpdateFreq

\* should_complete_new_arp
ArpDue == sinceArp > UpdateFreq

-----------------------------------------------------------------------------
(* The loop                                                                 *)

\* complete_mip_arp: requests on all interfaces.  The neighbours that run
\* answer; some of the answers, or of the requests, are lost.
CompleteArp ==
    \E lost \in SUBSET alive :
        /\ losses + Cardinality(lost) <= MaxLosses
        /\ losses' = losses + Cardinality(lost)
        /\ frames' = frames \cup {[tra |-> "response", src |-> n] : n \in alive \ lost}
        /\ steady' = steady \ lost
        /\ sinceArp' = 0

\* The first requests, before the loop.
Start ==
    /\ pc = "start"
    /\ CompleteArp
    /\ pc' = "loop"
    /\ UNCHANGED <<cache, waited, alive, deaths>>

\* update_arp_cache, and then the wait.
UpdateArpCache ==
    /\ pc = "loop"
    /\ cache' = RemoveExpired(cache)
    /\ IF ArpDue THEN CompleteArp ELSE UNCHANGED <<losses, frames, steady, sinceArp>>
    /\ pc' = "wait"
    /\ waited' = 0
    /\ UNCHANGED <<alive, deaths>>

\* handle_raw_socket_frame: a response, or a request (which is also answered).
\* Another descriptor may be served in the same round.
HandleArpFrame(f) ==
    /\ pc = "wait"
    /\ f \in frames
    /\ frames' = frames \ {f}
    /\ cache' = AppendToCache(f.src)
    /\ steady' = IF f.src \in alive THEN steady \cup {f.src} ELSE steady
    /\ pc' \in {"wait", "loop"}
    /\ UNCHANGED <<sinceArp, waited, alive, losses, deaths>>

\* The wait ends by the timeout, or for another descriptor.
EndWait ==
    /\ pc = "wait"
    /\ pc' = "loop"
    /\ UNCHANGED <<cache, sinceArp, waited, frames, alive, steady, losses, deaths>>

-----------------------------------------------------------------------------
(* The neighbours and the time                                              *)

\* A neighbour sends a request of its own.
NeighbourAsks(n) ==
    /\ n \in alive
    /\ frames' = frames \cup {[tra |-> "request", src |-> n]}
    /\ UNCHANGED <<pc, cache, sinceArp, waited, alive, steady, losses, deaths>>

NeighbourStops(n) ==
    /\ n \in alive
    /\ deaths < MaxDeaths
    /\ deaths' = deaths + 1
    /\ alive' = alive \ {n}
    /\ steady' = steady \ {n}
    /\ UNCHANGED <<pc, cache, sinceArp, waited, frames, losses>>

NeighbourStarts(n) ==
    /\ n \notin alive
    /\ alive' = alive \cup {n}
    /\ UNCHANGED <<pc, cache, sinceArp, waited, frames, steady, losses, deaths>>

Tick ==
    /\ pc = "wait"
    /\ frames = {}
    /\ waited < PollTimeout
    /\ waited' = waited + 1
    /\ sinceArp' = sinceArp + 1
    /\ cache' = [i \in DOMAIN cache |-> [cache[i] EXCEPT !.age = @ + 1]]
    /\ UNCHANGED <<pc, frames, alive, steady, losses, deaths>>

-----------------------------------------------------------------------------

Next ==
    \/ Start
    \/ UpdateArpCache
    \/ \E f \in frames : HandleArpFrame(f)
    \/ EndWait
    \/ \E n \in Neighbours : NeighbourAsks(n)
    \/ \E n \in Neighbours : NeighbourStops(n)
    \/ \E n \in Neighbours : NeighbourStarts(n)
    \/ Tick

Spec == Init /\ [][Next]_vars

-----------------------------------------------------------------------------
(* Properties                                                               *)

\* An address never has two entries, so that a next hop is one place and a
\* renewed entry does not leave an old one behind (mip_arp.c:46).
OneEntryPerAddress ==
    \A i, j \in DOMAIN cache : cache[i].address = cache[j].address => i = j

\* mipd leaves its loop when a next hop is not in the cache (forwarding.c:54):
\* a neighbour that runs, and of which no answer was lost, never leaves the
\* cache, although it is renewed only as often as the loop happens to ask.
LiveNeighbourStays == steady \subseteq Cached

\* A neighbour that has stopped is not sent packages for longer than this:
\* entries are looked at once around the loop, one after another
\* (mip_arp.c:162-167).
NothingOld == \A i \in DOMAIN cache : cache[i].age <= MaxAge

\* The cache follows the neighbours: the living stay and the dead go, although
\* both depend on when the loop comes round (mip_arp.c:159-176).
CacheFollows == LiveNeighbourStays /\ NothingOld
=============================================================================
