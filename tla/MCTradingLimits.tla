-------------------------- MODULE MCTradingLimits --------------------------
(* Two dashboards, one order; limits, quantities and prices of one or two.  *)
EXTENDS TradingLimits, TLC

CONSTANTS o1, o2
MCOwners == {o1, o2}
Choice(live, kill, shares, notional) ==
    [live |-> live, kill |-> kill, shares |-> shares, notional |-> notional]
(* off; on with the kill switch; on with two pairs of limits; on with one limit *)
MCChoices == {Choice(FALSE, FALSE, 0, 0), Choice(TRUE, TRUE, 2, 2),
              Choice(TRUE, FALSE, 2, 2), Choice(TRUE, FALSE, 1, 2),
              Choice(TRUE, FALSE, 2, 0)}
Symmetry == Permutations(MCOwners)
=============================================================================
