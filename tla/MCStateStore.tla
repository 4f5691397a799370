----------------------------- MODULE MCStateStore ------------------------------
(***************************************************************************)
(* Three processes: two that meet and one that comes after a crash.        *)
(***************************************************************************)
EXTENDS StateStore, TLC

Symmetry == Permutations(Proc)

================================================================================
