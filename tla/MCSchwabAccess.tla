--------------------------- MODULE MCSchwabAccess ---------------------------
(* SchwabAccess with interchangeable accounts here and at Schwab.             *)
EXTENDS SchwabAccess, TLC

MCSymmetry == Permutations(Hashes) \cup Permutations(Accounts)
=============================================================================
