------------------------------ MODULE MCIdentity ------------------------------
(* Identity on a small instance: requests about one account, next to root  *)
(* with a name and a bot that they can collide with; two bots, three       *)
(* names, two API tokens and two requests.                                 *)
EXTENDS Identity, TLC

Symmetry == Permutations(Op) \cup Permutations(Name \ {RootName})
=============================================================================
