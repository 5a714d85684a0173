--------------------------- MODULE MCMessageSync ---------------------------
(* Two accounts and two messages: m1 is sent by a1's request, names a2,    *)
(* says @everyone and carries a file; m2 is an outsider's, and Discord     *)
(* reports that it mentions a1 and everyone.                               *)
EXTENDS MessageSync, TLC

CONSTANTS a1, a2, m1, m2

MCBy     == m1 :> a1   @@ m2 :> None
MCNames  == m1 :> {a2} @@ m2 :> {}
MCEchoed == m1 :> {a2} @@ m2 :> {a1}
=============================================================================
