--------------------------- MODULE MCLocalSockets ---------------------------
(* Two applications, one of which writes messages, and one end of routerd.  *)
EXTENDS LocalSockets, TLC

CONSTANTS a1, a2, f

MCService == (a1 :> "app") @@ (a2 :> "app") @@ (f :> "forward")

\* A message that one recv takes and one that it does not.
MCSizes     == (a1 :> {2, 5}) @@ (a2 :> {}) @@ (f :> {1})
MCMaxUnread == (a1 :> 2) @@ (a2 :> 0) @@ (f :> 1)
=============================================================================
