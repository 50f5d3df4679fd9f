------------------------------ MODULE MCGroups ------------------------------
(* The names of groups are interchangeable. *)
EXTENDS Groups, TLC
OwnerSymmetry == Permutations(Owners)
=============================================================================
