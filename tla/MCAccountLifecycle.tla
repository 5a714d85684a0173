-------------------------- MODULE MCAccountLifecycle --------------------------
(* AccountLifecycle on a small instance: symmetric requests, instances and *)
(* subscriptions.                                                          *)
EXTENDS AccountLifecycle, TLC

Symmetry == Permutations(Caller) \cup Permutations(Provider) \cup Permutations(Sub)
=============================================================================
