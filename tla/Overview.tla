------------------------------ MODULE Overview ------------------------------
(***************************************************************************)
(* The overview of all accounts (overview.py) over the holdings, the stale *)
(* flags and the daily values that refreshes leave in the store.           *)
(*                                                                         *)
(* The state is what is stored, changed by refreshes and by the days that  *)
(* pass; the overview is a function of it, since all of it is read in one  *)
(* transaction (read_portfolio_view), so a property of the overview is an  *)
(* invariant.  Money is whole dollars and a share is a whole number of     *)
(* hundredths of a percent, rounded half up as the code rounds it.         *)
(*                                                                         *)
(* A refresh is one step here; PortfolioRefresh has its awaits, its        *)
(* failures and its overlaps.                                              *)
(***************************************************************************)
EXTENDS Integers, FiniteSets, FiniteSetsExt, Functions

CONSTANTS Accounts,
          Offers,     \* what a provider may answer for an account: its currency
                      \* and its positions
          Days,       \* the days, 1..n
          Missing     \* no value, no row

\* A position as the provider reports it; price and cost basis may be missing
Position == [symbol: STRING, class: STRING, currency: STRING,
             value: Int \cup {Missing}, cost: Int \cup {Missing}]

\* A row of daily_account_values
DailyValue == [value: Int, currency: STRING]

ASSUME OverviewAssumption ==
    /\ IsFiniteSet(Accounts)
    /\ Days \in Nat \ {0}
    /\ \A o \in Offers : IsFiniteSet(o.positions)
    /\ Offers \subseteq [currency: STRING, positions: SUBSET Position]
    /\ Missing \notin Offers \cup DailyValue \cup Int

VARIABLES
    account,    \* account[a]: the last answer that was stored, or Missing
    stale,      \* the accounts whose last refresh failed, or that disappeared
    daily,      \* daily[a][d]: the value recorded for a on day d, or Missing
    day,        \* today
    refreshed   \* the day of the last refresh, 0 before the first

overviewVars == <<account, stale, daily, day, refreshed>>

Stored == {a \in Accounts : account[a] # Missing}
Today == 1..Days

OverviewInit ==
    /\ account = [a \in Accounts |-> Missing]
    /\ stale = {}
    /\ daily = [a \in Accounts |-> [d \in Today |-> Missing]]
    /\ day = 1 /\ refreshed = 0

-----------------------------------------------------------------------------
(* What a refresh stores                                                   *)

ValueOf(p) == p.value
CostOf(p) == p.cost
Sum(field(_), S) == SumFunctionOnSet([x \in S |-> field(x)], S)

\* The positions that count for the account's value of the day
OfOwnCurrency(o) == {p \in o.positions : p.value # Missing /\ p.currency = o.currency}

DailyRow(o) == [value |-> Sum(ValueOf, OfOwnCurrency(o)), currency |-> o.currency]

\* Bug: the first value of a day stays.
FirstOfDay(a, o) ==
    [daily[a] EXCEPT ![day] = IF OfOwnCurrency(o) = {} \/ @ # Missing THEN @ ELSE DailyRow(o)]

\* The day's row is written anew; without any value to count it is left alone
SaveDaily(a, o) ==
    [daily[a] EXCEPT ![day] = IF OfOwnCurrency(o) = {} THEN @ ELSE DailyRow(o)]

\* Bug: an account that failed and was never stored is marked too.
MarkEveryOther(got) == Accounts \ got

\* An account without a row has nothing to mark
MarkStale(got) == Stored \ got

\* save_refresh, and save_failed_refresh when nothing was answered: the accounts
\* that were answered are replaced, all others that are stored become stale
Refresh == \E got \in SUBSET Accounts : \E answer \in [got -> Offers] :
    /\ account' = [a \in Accounts |-> IF a \in got THEN answer[a] ELSE account[a]]
    /\ stale' = MarkStale(got)
    /\ daily' = [a \in Accounts |->
                    IF a \in got THEN SaveDaily(a, answer[a]) ELSE daily[a]]
    /\ refreshed' = day
    /\ UNCHANGED day

NextDay ==
    /\ day < Days
    /\ day' = day + 1
    /\ UNCHANGED <<account, stale, daily, refreshed>>

OverviewNext == Refresh \/ NextDay
OverviewSpec == OverviewInit /\ [][OverviewNext]_overviewVars

-----------------------------------------------------------------------------
(* Which positions count                                                   *)

\* A stored position, with the account that holds it
Positions == UNION {
    {[account |-> a, symbol |-> p.symbol, class |-> p.class, currency |-> p.currency,
      value |-> p.value, cost |-> p.cost] : p \in account[a].positions} : a \in Stored}

\* The reasons to leave one out, in this order: the first that applies is reported
UnsupportedCurrency == {p \in Positions : p.currency # "USD"}
MissingMarketValue == {p \in Positions \ UnsupportedCurrency : p.value = Missing}
AllKnownUsd == Positions \ (UnsupportedCurrency \cup MissingMarketValue)
StaleAccount == {p \in AllKnownUsd : p.account \in stale}
FreshUsd == AllKnownUsd \ StaleAccount

\* Without a cost basis a position counts for the totals but not for the gain
MissingCostBasis == {p \in FreshUsd : p.cost = Missing}
GainLossPositions == FreshUsd \ MissingCostBasis

-----------------------------------------------------------------------------
(* Totals, contributions and allocations                                   *)

\* All accounts stale: there is no total
TotalKnownUsd == IF Stored \subseteq stale THEN Missing ELSE Sum(ValueOf, FreshUsd)

CashUsd ==
    IF FreshUsd = {} THEN Missing
    ELSE Sum(ValueOf, {p \in FreshUsd : p.class \in {"cash", "cash_equivalent"}})

GainLoss ==
    IF GainLossPositions = {} THEN Missing
    ELSE Sum(ValueOf, GainLossPositions) - Sum(CostOf, GainLossPositions)

\* What an account contributes; a stale one shows its last known value
Of(a, S) == {p \in S : p.account = a}
Contribution(a) ==
    IF a \notin stale THEN Sum(ValueOf, Of(a, FreshUsd))
    ELSE IF Of(a, AllKnownUsd) = {} THEN Missing
    ELSE Sum(ValueOf, Of(a, AllKnownUsd))

Denominator ==
    IF TotalKnownUsd # Missing /\ TotalKnownUsd > 0 THEN TotalKnownUsd ELSE 0

Unit == 10000

\* Bug: the share is cut off, not rounded.
ShareCut(amount) == (amount * Unit) \div Denominator

\* The share of an amount in ten thousandths, half rounded away from zero
Share(amount) ==
    LET half(n) == (2 * n * Unit + Denominator) \div (2 * Denominator)
    IN  IF amount >= 0 THEN half(amount) ELSE -half(-amount)

Slice(key, amount, count) ==
    [key |-> key, amount |-> amount, count |-> count,
     share |-> IF Denominator > 0 THEN Share(amount) ELSE 0]

\* Accounts with nothing or less than nothing have no slice
AccountSlices ==
    {Slice(a, Contribution(a), Cardinality(Of(a, FreshUsd))) :
        a \in {b \in Stored \ stale : Contribution(b) > 0}}

\* The security type is told from the class by the first of the words "etf",
\* "cash", "bond", ... that it contains in lower case; here, by the class, for the
\* classes the providers report
SecurityType(p) ==
    CASE p.class \in {"equity_etf", "bond_etf", "commodity_etf"} -> "etf"
      [] p.class \in {"cash", "cash_equivalent"} -> "cash"
      [] p.class \in {"bond", "fixed_income", "treasury"} -> "fixed_income"
      [] p.class = "crypto" -> "cryptocurrency"
      [] OTHER -> "equity"

Groupings == {"asset_class", "security_type"}
Key(by, p) == IF by = "asset_class" THEN p.class ELSE SecurityType(p)

\* One slice for each key among the fresh positions
Group(by, k) == {p \in FreshUsd : Key(by, p) = k}
GroupSlices(by) ==
    IF Denominator = 0 THEN {}
    ELSE {Slice(k, Sum(ValueOf, Group(by, k)), Cardinality(Group(by, k))) :
            k \in {Key(by, p) : p \in FreshUsd}}

-----------------------------------------------------------------------------
(* The recorded history                                                    *)

\* The values recorded in USD on a day make its point, if there are any
SnapsOn(d) ==
    {a \in Accounts : daily[a][d] # Missing /\ daily[a][d].currency = "USD"}
Points == {d \in Today : SnapsOn(d) # {}}

PointValue(d) == LET value(a) == daily[a][d].value IN Sum(value, SnapsOn(d))
IsComplete(d) == Cardinality(SnapsOn(d)) >= Cardinality(Stored)

-----------------------------------------------------------------------------
(* Properties                                                              *)

\* Every variable has its type; only stored accounts are stale or have daily
\* values, and there are none of the days to come.
OverviewTypeOK ==
    /\ account \in [Accounts -> Offers \cup {Missing}]
    /\ stale \subseteq Stored
    /\ day \in Today /\ refreshed \in 0..day
    /\ daily \in [Accounts -> [Today -> DailyValue \cup {Missing}]]
    /\ \A a \in Accounts, d \in Today :
         daily[a][d] # Missing => a \in Stored /\ d <= refreshed

Amount(s) == s.amount
Count(s) == s.count
ShareOf(s) == s.share
Slices == {GroupSlices(by) : by \in Groupings}

\* The parts of the overview, computed apart from each other, agree: the accounts
\* that are not stale contribute the total; the gain, what was paid for it and the
\* positions whose cost is not known make the total, so the gain is over exactly the
\* counted positions that have a cost; while there is something to divide, the
\* asset classes and the security types divide all of it and name every counted
\* position once, and the cash is the slice of cash; the slices of the accounts
\* make the total too unless some account owes more than it has
\* (_calculate_contributions, _calculate_gain_loss, _build_allocation_group).
TotalsAddUp == TotalKnownUsd # Missing =>
    /\ Sum(Contribution, Stored \ stale) = TotalKnownUsd
    /\ GainLoss # Missing =>
         GainLoss + Sum(CostOf, GainLossPositions) + Sum(ValueOf, MissingCostBasis)
             = TotalKnownUsd
    /\ TotalKnownUsd > 0 =>
         /\ \A slices \in Slices :
              /\ Sum(Amount, slices) = TotalKnownUsd
              /\ Sum(Count, slices) = Cardinality(FreshUsd)
         /\ CashUsd = Sum(Amount, {s \in GroupSlices("security_type") : s.key = "cash"})
    /\ (\A a \in Stored \ stale : Contribution(a) >= 0) =>
         Sum(Amount, AccountSlices) = TotalKnownUsd

\* Where nothing is negative, the shares of a grouping differ from one hundred
\* percent by no more than half a unit for each slice, and a larger slice never
\* has the smaller share (ROUND_HALF_UP to four places).
SharesAddUp == Denominator > 0 =>
    \A slices \in Slices \cup {AccountSlices} :
        (/\ \A s \in slices : s.amount >= 0
         /\ Sum(Amount, slices) = TotalKnownUsd) =>
            /\ 2 * (Sum(ShareOf, slices) - Unit) \in -Cardinality(slices)..Cardinality(slices)
            /\ \A s, t \in slices : s.amount <= t.amount => s.share <= t.share

\* An account today's point stands for: in USD, refreshed today, with a value
Countable(a) ==
    /\ a \notin stale
    /\ account[a].currency = "USD" /\ OfOwnCurrency(account[a]) # {}

\* A point said to be complete has a value in USD of every account that is stored,
\* and when every account was refreshed today and has one, today's point is complete
\* and its value is the overview's total: the sum a refresh recorded and the sum of
\* what it stored are the same (_save_snapshot, _build_history).
HistoryAgrees ==
    /\ \A d \in Points : IsComplete(d) =>
         \A a \in Stored : daily[a][d] # Missing /\ daily[a][d].currency = "USD"
    /\ (refreshed = day /\ Stored # {} /\ \A a \in Stored : Countable(a)) =>
         day \in Points /\ IsComplete(day) /\ PointValue(day) = TotalKnownUsd

=============================================================================
