----------------------------- MODULE MCOverview -----------------------------
(* Two accounts, and answers that have every kind of position: valued, with *)
(* and without a cost basis, unpriced, short, in another currency.          *)
EXTENDS Overview, TLC

CONSTANTS a1, a2
MCAccounts == {a1, a2}
Symmetry == Permutations(MCAccounts)

Held(symbol, class, currency, value, cost) ==
    [symbol |-> symbol, class |-> class, currency |-> currency,
     value |-> value, cost |-> cost]
Answer(currency, positions) == [currency |-> currency, positions |-> positions]

MCOffers == {
    Answer("USD", {}),
    Answer("USD", {Held("VTI", "equity_etf", "USD", 5, 1),
                   Held("USD", "cash", "USD", 1, Missing)}),
    Answer("USD", {Held("VTI", "equity_etf", "USD", 31, 40),
                   Held("USD", "cash", "USD", 1, Missing),
                   Held("XIC", "equity_etf", "CAD", 5, 5)}),
    Answer("USD", {Held("AAPL", "equity", "USD", 4, 2),
                   Held("NEW", "equity", "USD", Missing, 1)}),
    Answer("USD", {Held("AAPL", "equity", "USD", -2, 2)}),
    Answer("USD", {Held("NEW", "equity", "USD", Missing, 1)}),
    Answer("CAD", {Held("XIC", "equity_etf", "CAD", 5, 5),
                   Held("BND", "bond", "USD", 1, Missing)})}
=============================================================================
