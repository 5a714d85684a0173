------------------------------- MODULE MCDaemon -------------------------------
(* Daemon on a small instance: two processes that are started again and    *)
(* again on one data root, two inodes (each process has one open at most), *)
(* one account with two requests at once, and two migrations of two        *)
(* statements.                                                             *)
EXTENDS Daemon, TLC

\* Processes, inodes and slots are interchangeable.
Symmetry == Permutations(Proc) \cup Permutations(Inode) \cup Permutations(Op)

\* Once two daemons run on one root, they handle one request in all.
Bound == raced = "yes" => \A p, q \in Proc, o, x \in Op :
    req[p][o] # NoReq /\ req[q][x] # NoReq => p = q /\ o = x
=============================================================================
