---------------------------- MODULE MCRoutingLine ----------------------------
(* Three hosts in a line, A - B - C.  B has an address on each link, or the *)
(* same address on both, as its command line says.                          *)
EXTENDS RoutingTree, TLC

CONSTANTS A, B, C, a, b1, b2, c

MCNodes      == {A, B, C}
MCNeighbours == (A :> {B}) @@ (B :> {A, C}) @@ (C :> {B})
MCOwn        == (A :> {a}) @@ (B :> {b1, b2}) @@ (C :> {c})
MCAddress    == (A :> (B :> a)) @@ (B :> ((A :> b1) @@ (C :> b2))) @@ (C :> (B :> c))
MCDistance   == (A :> ((a :> 0) @@ (b1 :> 1) @@ (b2 :> 1) @@ (c :> 2)))
             @@ (B :> ((a :> 1) @@ (b1 :> 0) @@ (b2 :> 0) @@ (c :> 1)))
             @@ (C :> ((a :> 2) @@ (b1 :> 1) @@ (b2 :> 1) @@ (c :> 0)))
MCBehind     == (A :> (B :> {b1, b2, c})) @@ (B :> ((A :> {a}) @@ (C :> {c})))
             @@ (C :> (B :> {a, b1, b2}))

\* Something goes wrong with the frames and the routes of B, or C fails.
MCFaults == {<<"loss", B>>, <<"expiry", B>>, <<"failure", C>>}
MCExpiry == {<<"expiry", x>> : x \in MCNodes}
=============================================================================
