--------------------------- MODULE MCRefreshPlan ---------------------------
(* Three orders: two in a group, of which one is not on the page, and one in  *)
(* another group.                                                             *)
EXTENDS RefreshPlan, TLC

CONSTANTS o1, o2, o3

MCGroupOf == o1 :> 1 @@ o2 :> 1 @@ o3 :> 2
MCCreation == o1 :> 1 @@ o2 :> 2 @@ o3 :> 3
=============================================================================
