---------------------------- MODULE MCDirectory -----------------------------
(* A small instance: two people, no bot. *)
EXTENDS Directory, TLC

Api == INSTANCE RoyalApi

(* Chat and royal agree about the calls the directory is asked by. *)
ASSUME RoyalAssumption == Api!RoyalAgrees

NoOwners == [x \in {} |-> x]

Symmetry ==
    Permutations(Humans) \cup Permutations(Tasks) \cup Permutations(Groups)
    \cup Permutations(Instances)
=============================================================================
