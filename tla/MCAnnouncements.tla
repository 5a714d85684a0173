-------------------------- MODULE MCAnnouncements ---------------------------
(* Announcements on a small instance: one user, who watches his state and  *)
(* is an administrator or a member, two requests at a time, two versions   *)
(* and one system announcement.                                            *)
EXTENDS Announcements, TLC

CONSTANT user

Users == {user}
Symmetry == Permutations(Op)
=============================================================================
