---------------------------- MODULE MCForwarding ----------------------------
(* Values of the constants of Forwarding for TLC.                           *)
EXTENDS Forwarding, TLC

CONSTANTS p1, p2, p3, p4, me, near, other, far, gone

MCPackages     == {p1, p2, p3, p4}
MCDestinations == {me, near, other, far, gone}
MCNeighbours   == {near, other}

\* p1 and p2 go to destinations with different routes; p3 comes in from a
\* link, p4 too but at the end of its time to live.
MCDest == (p1 :> far) @@ (p2 :> near) @@ (p3 :> gone) @@ (p4 :> far)

\* With a package that comes in for this host.
MCDestHere == (p1 :> far) @@ (p2 :> near) @@ (p3 :> gone) @@ (p4 :> me)

\* With an application that sends to this very host.
MCDestSelf == (p1 :> me) @@ (p2 :> far) @@ (p3 :> gone) @@ (p4 :> far)

MCHops == (me :> {me}) @@ (near :> {near}) @@ (other :> {other})
              @@ (far :> {near}) @@ (gone :> {other})
=============================================================================
