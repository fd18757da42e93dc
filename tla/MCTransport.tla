---------------------------- MODULE MCTransport ----------------------------
(* A ring of three hosts, so that routes can form loops of two and three.  *)
EXTENDS Transport, TLC

CONSTANTS A, B, C, ab, ac, ba, bc, ca, cb, p

MCNodes      == {A, B, C}
MCOwn        == (A :> {ab, ac}) @@ (B :> {ba, bc}) @@ (C :> {ca, cb})
MCNeighbours == (A :> {B, C}) @@ (B :> {A, C}) @@ (C :> {A, B})
MCAddress    == (A :> ((B :> ab) @@ (C :> ac))) @@ (B :> ((A :> ba) @@ (C :> bc)))
             @@ (C :> ((A :> ca) @@ (B :> cb)))

MCPackages == {p}
MCSource   == p :> A

\* To the address of C on its link to A: sent directly while A has C in its
\* ARP cache, and by any way otherwise.
MCDest     == p :> ca
=============================================================================
