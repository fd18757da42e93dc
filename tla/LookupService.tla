--------------------------- MODULE LookupService ---------------------------
(***************************************************************************)
(* What the lookups of next hops promise to mipd, without sockets or       *)
(* processes: packages wait in line, a next hop is decided for each from   *)
(* the routes to its own destination, and they leave in line, each with    *)
(* the next hop decided for it.  A package that waits may wait for ever:   *)
(* the routing daemon may end.                                             *)
(***************************************************************************)
EXTENDS Naturals, Sequences

CONSTANTS Packages, Destinations, Dest, Hops, NoRoute

Undecided == <<"undecided">>

VARIABLES
    line,      \* the packages that wait, oldest first, each with its decision
    released   \* the packages that have left, in order, each with its decision

lineVars == <<line, released>>

InLine(p) == \E i \in DOMAIN line : line[i].pkg = p
Left(p)   == \E i \in DOMAIN released : released[i].pkg = p

LineInit ==
    /\ line = <<>>
    /\ released = <<>>

Ask(p) ==
    /\ ~ InLine(p)
    /\ ~ Left(p)
    /\ line' = Append(line, [pkg |-> p, hop |-> Undecided])
    /\ UNCHANGED released

\* Lookups are decided in the order they were asked.
Decide(i) ==
    /\ line[i].hop = Undecided
    /\ \A j \in 1 .. i - 1 : line[j].hop # Undecided
    /\ \E h \in Hops[Dest[line[i].pkg]] \cup {NoRoute} :
          line' = [line EXCEPT ![i].hop = h]
    /\ UNCHANGED released

Release ==
    /\ line # <<>>
    /\ Head(line).hop # Undecided
    /\ released' = Append(released, Head(line))
    /\ line' = Tail(line)

LineNext ==
    \/ \E p \in Packages : Ask(p)
    \/ \E i \in DOMAIN line : Decide(i)
    \/ Release

LineSpec == LineInit /\ [][LineNext]_lineVars
=============================================================================
