------------------------- MODULE MCPortfolioRefresh -------------------------
(* Two institutions; runs are interchangeable. *)
EXTENDS PortfolioRefresh, TLC

CONSTANTS a1, a2, p1, p2, t1

MCProviderOf == a1 :> p1 @@ a2 :> p2

MCAccountOf == t1 :> a1

MCSymmetry == Permutations(Runs)
=============================================================================
