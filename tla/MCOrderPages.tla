---------------------------- MODULE MCOrderPages ----------------------------
(* OrderPages with interchangeable filters.                                   *)
EXTENDS OrderPages, TLC

MCSymmetry == Permutations(Filters)
=============================================================================
