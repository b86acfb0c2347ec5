---------------------------- MODULE MCIndexJobs ----------------------------
(* Small instances of IndexJobs.                                            *)
EXTENDS IndexJobs, TLC

CONSTANTS f1, f2

(* Every commit holds the same contents: a commit without a change to the    *)
(* analysed files, or one that was amended.                                  *)
SameTree == [k \in Commits |-> f1]

Symmetry == Permutations(Clients) \cup Permutations(Tokens)
=============================================================================
