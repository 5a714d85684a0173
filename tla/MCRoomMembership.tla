-------------------------- MODULE MCRoomMembership --------------------------
(* RoomMembership on a small instance: two accounts, two bots and two      *)
(* requests, all symmetric, on one room (no operation relates two).        *)
EXTENDS RoomMembership, TLC

Symmetry == Permutations(Account) \cup Permutations(Bot) \cup Permutations(Op)
=============================================================================
