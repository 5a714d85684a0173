----------------------------- MODULE MCStateBus -----------------------------
(* Both watchers watch a; a is in the room that is published, and so is b  *)
(* when there is a b.                                                      *)
EXTENDS StateBus, TLC

CONSTANTS a, b, s1, s2

MCOf == s1 :> a @@ s2 :> a
=============================================================================
