-------------------------- MODULE PortfolioRefresh --------------------------
(***************************************************************************)
(* Runs of PortfolioRefreshService.refresh in the API.  A run lists the    *)
(* provider's accounts, reads holdings and history account by account,     *)
(* asks for capabilities and saves everything in one transaction.  Every   *)
(* read is an await, so runs overlap and accounts change between two       *)
(* reads; nothing else writes these tables.                                *)
(*                                                                         *)
(* Data.  Of an account's holdings the model knows whether they were read  *)
(* or saved, of its history which transactions.  Left out: time stamps,    *)
(* error codes and texts of a run, and the daily values, which are written *)
(* with the holdings and read by nothing here.                             *)
(***************************************************************************)
EXTENDS Naturals, FiniteSets

CONSTANTS Accounts,     \* accounts the provider may list
          Providers,    \* their institutions
          ProviderOf,   \* the institution of each account
          Transactions, \* what may be traded
          AccountOf,    \* the account of each transaction
          Runs          \* refreshes that can be under way together

ASSUME AccountAssumption ==
  /\ IsFiniteSet(Accounts)
  /\ ProviderOf \in [Accounts -> Providers]
  /\ AccountOf \in [Transactions -> Accounts]

VARIABLES
  offered,    \* accounts the provider lists now
  made,       \* transactions made so far
  pc,         \* where each run is
  listed,     \* the accounts a run was told of
  todo,       \* those it has not finished reading
  snapshots,  \* those whose holdings it read
  history,    \* the transactions it read
  stored,     \* the accounts with a row in accounts, and so with positions
  stale,      \* those whose is_stale is set
  activity,   \* the rows of activities
  capability, \* account_capabilities
  latest,     \* the last row of refresh_runs with its outcomes
  basis       \* history variable: what the run behind latest had to go by

world == <<offered, made>>
local == <<listed, todo, snapshots, history>>
saved == <<stored, stale, activity, capability, latest, basis>>
vars == <<world, pc, local, saved>>

\* No row; a current row, fresh or stale; the row of an account not listed.
Capabilities == {"none", "fresh", "stale", "gone"}

\* How many of the accounts belong to an institution.
Count(p, accounts) == Cardinality({a \in accounts : ProviderOf[a] = p})

\* The ProviderRefreshOutcome of each institution; one without accounts has no
\* row, which is all zeroes here.
Outcomes(refreshed, behind, excluded) ==
  [p \in Providers |-> [refreshed |-> Count(p, refreshed),
                        stale |-> Count(p, behind),
                        excluded |-> Count(p, excluded)]]

Incomplete(o) == o.stale + o.excluded > 0

\* The status of a run whose institutions came out like that.
RefreshStatus(outcomes) ==
  IF \A p \in Providers : ~Incomplete(outcomes[p]) THEN "success"
  ELSE IF \E p \in Providers : outcomes[p].refreshed > 0 THEN "partial"
  ELSE "failed"

Init ==
  /\ offered \in SUBSET Accounts
  /\ made = {}
  /\ pc = [r \in Runs |-> "idle"]
  /\ listed = [r \in Runs |-> {}]
  /\ todo = [r \in Runs |-> {}]
  /\ snapshots = [r \in Runs |-> {}]
  /\ history = [r \in Runs |-> {}]
  /\ stored = {}
  /\ stale = {}
  /\ activity = {}
  /\ capability = [a \in Accounts |-> "none"]
  /\ latest = [status |-> "none", outcomes |-> Outcomes({}, {}, {})]
  /\ basis = [listed |-> {}, got |-> {}, capable |-> {}]

-----------------------------------------------------------------------------
(* A run up to its transaction. *)

Goto(r, l) == pc' = [pc EXCEPT ![r] = l]

Start(r) ==
  /\ pc[r] = "idle"
  /\ Goto(r, "listing")
  /\ UNCHANGED <<world, local, saved>>

\* Defect: the loop does not look whether an account is left.
NextAccountBlind(r, left) ==
  /\ todo' = [todo EXCEPT ![r] = left]
  /\ Goto(r, "holdings")

\* After an account has been read comes the next one, then the capabilities.
NextAccount(r, left) ==
  /\ todo' = [todo EXCEPT ![r] = left]
  /\ Goto(r, IF left = {} THEN "capabilities" ELSE "holdings")

ListAccounts(r) ==
  /\ pc[r] = "listing"
  /\ listed' = [listed EXCEPT ![r] = offered]
  /\ NextAccount(r, offered)
  /\ UNCHANGED <<world, snapshots, history, saved>>

\* The account being read; the order of the list is the provider's.
Current(r) == CHOOSE a \in todo[r] : TRUE

\* get_holdings answers or raises, in which case the account has failed.
GetHoldings(r) ==
  /\ pc[r] = "holdings"
  /\ \/ snapshots' = [snapshots EXCEPT ![r] = @ \cup {Current(r)}]
     \/ UNCHANGED snapshots
  /\ Goto(r, "history")
  /\ UNCHANGED <<world, listed, todo, history, saved>>

\* get_transactions is tried in either case; its failure is ignored.
GetTransactions(r) ==
  /\ pc[r] = "history"
  /\ \/ history' = [history EXCEPT ![r] = @ \cup {t \in made : AccountOf[t] = Current(r)}]
     \/ UNCHANGED history
  /\ NextAccount(r, todo[r] \ {Current(r)})
  /\ UNCHANGED <<world, listed, snapshots, saved>>

\* The run is over and its locals are gone.
End(r) ==
  /\ Goto(r, "idle")
  /\ listed' = [listed EXCEPT ![r] = {}]
  /\ todo' = [todo EXCEPT ![r] = {}]
  /\ snapshots' = [snapshots EXCEPT ![r] = {}]
  /\ history' = [history EXCEPT ![r] = {}]

-----------------------------------------------------------------------------
(* The transactions. *)

\* Defect: the history read replaces the one that was saved.
SaveTransactionsOver(r) == activity' = history[r]

\* _save_transactions inserts or updates by the provider's transaction id.
SaveTransactions(r) == activity' = activity \cup history[r]

\* Defect: an account the provider no longer lists keeps its flag.
SaveAccountsListed(r) ==
  /\ stored' = stored \cup snapshots[r]
  /\ stale' = (stale \ listed[r]) \cup ((listed[r] \cap stored) \ snapshots[r])

\* _mark_removed_accounts, _save_snapshot for each account read, and
\* _mark_failed_accounts: of the stored accounts only those read are fresh.
SaveAccounts(r) ==
  /\ stored' = stored \cup snapshots[r]
  /\ stale' = stored \ snapshots[r]

\* The rows of account_capabilities: an account not listed loses its row's
\* currency, capabilities received go to accounts that are stored, and those
\* of failed accounts, or all if the call failed, are stale.
CapabilityRows(r, received, good) ==
  [a \in Accounts |->
     IF capability[a] = "none" /\ a \notin (IF received THEN stored' \cap listed[r] ELSE {})
       THEN "none"
     ELSE IF a \notin listed[r] THEN "gone"
     ELSE IF a \in good \cap snapshots[r] THEN "fresh" ELSE "stale"]

\* Defect: a capability that could not be read stays as it was.
SaveCapabilitiesReceived(r, received, good) ==
  IF received THEN capability' = CapabilityRows(r, received, good) ELSE UNCHANGED capability

SaveCapabilities(r, received, good) == capability' = CapabilityRows(r, received, good)

\* Defect: the stale accounts are counted before they are marked.
RecordRunEarly(r) ==
  LET outcomes == Outcomes(snapshots[r], stale, listed[r] \ stored') IN
  latest' = [status |-> RefreshStatus(outcomes), outcomes |-> outcomes]

\* The row of the run, with the flags as they are after the marking.
RecordRun(r) ==
  LET outcomes == Outcomes(snapshots[r], stale', listed[r] \ stored') IN
  latest' = [status |-> RefreshStatus(outcomes), outcomes |-> outcomes]

\* The capabilities arrive for all listed accounts, those in good being fresh,
\* or the call fails or answers about other accounts; then save_refresh.
SaveRefresh(r) ==
  /\ pc[r] = "capabilities"
  /\ \E received \in BOOLEAN, good \in SUBSET listed[r] :
       /\ ~received => good = {}
       /\ SaveAccounts(r)
       /\ SaveTransactions(r)
       /\ SaveCapabilities(r, received, good)
       /\ RecordRun(r)
       /\ basis' = [listed |-> listed[r], got |-> snapshots[r], capable |-> good]
  /\ End(r)
  /\ UNCHANGED world

\* list_accounts raised: save_failed_refresh keeps everything and marks it.
\* (With nothing stored its only outcome is that of a provider without a name.)
SaveFailedRefresh(r) ==
  /\ pc[r] = "listing"
  /\ stale' = stored
  /\ capability' = [a \in Accounts |-> IF capability[a] = "fresh" THEN "stale"
                                                                  ELSE capability[a]]
  /\ latest' = [status |-> "failed", outcomes |-> Outcomes({}, stored, {})]
  /\ basis' = [listed |-> {}, got |-> {}, capable |-> {}]
  /\ End(r)
  /\ UNCHANGED <<world, stored, activity>>

\* The transaction fails, for instance on a symbol held twice, and the request
\* ends with an error that is recorded nowhere.
SaveFails(r) ==
  /\ pc[r] \in {"listing", "capabilities"}
  /\ End(r)
  /\ UNCHANGED <<world, saved>>

-----------------------------------------------------------------------------
(* The world outside. *)

Trade(t) ==
  /\ t \notin made
  /\ made' = made \cup {t}
  /\ UNCHANGED <<offered, pc, local, saved>>

\* An account is connected to the provider, or disconnected.
Connect(a) ==
  /\ offered' = IF a \in offered THEN offered \ {a} ELSE offered \cup {a}
  /\ UNCHANGED <<made, pc, local, saved>>

\* The API stops with everything it was reading.
Stop ==
  /\ \E r \in Runs : pc[r] # "idle"
  /\ pc' = [r \in Runs |-> "idle"]
  /\ listed' = [r \in Runs |-> {}]
  /\ todo' = [r \in Runs |-> {}]
  /\ snapshots' = [r \in Runs |-> {}]
  /\ history' = [r \in Runs |-> {}]
  /\ UNCHANGED <<world, saved>>

Next ==
  \/ \E r \in Runs : \/ Start(r) \/ ListAccounts(r) \/ GetHoldings(r) \/ GetTransactions(r)
                     \/ SaveRefresh(r) \/ SaveFailedRefresh(r) \/ SaveFails(r)
  \/ \E a \in Accounts : Connect(a)
  \/ \E t \in Transactions : Trade(t)
  \/ Stop

Spec == Init /\ [][Next]_vars

-----------------------------------------------------------------------------
(* What readers make of the tables. *)

Fresh == stored \ stale

\* Defect: the status looks at the flags alone.
OverviewStatusByFlags ==
  IF stored = {} THEN "empty"
  ELSE IF Fresh = {} THEN "stale"
  ELSE IF Fresh # stored THEN "partial"
  ELSE "fresh"

\* OverviewService._determine_status; nothing stored is "empty" or "error".
OverviewStatus ==
  IF stored = {} THEN (IF latest.status = "failed" THEN "error" ELSE "empty")
  ELSE IF Fresh = {} \/ latest.status = "failed" THEN "stale"
  ELSE IF Fresh # stored \/ latest.status = "partial" THEN "partial"
  ELSE "fresh"

\* _provider_health_state: an institution whose outcome is a success.
Healthy(p) ==
  LET o == latest.outcomes[p] IN
  /\ o.refreshed + o.stale + o.excluded > 0
  /\ latest.status # "failed"
  /\ ~Incomplete(o)
  /\ \A a \in stale : ProviderOf[a] # p

\* account_capability and its is_stale: what a trade may rely on.  (A capability
\* observed more than a day ago is stale as well.)
Tradable == {a \in Fresh : capability[a] = "fresh"}

-----------------------------------------------------------------------------
(* Properties. *)

Phases == {"idle", "listing", "holdings", "history", "capabilities"}

TypeOK ==
  /\ offered \subseteq Accounts
  /\ pc \in [Runs -> Phases]
  /\ listed \in [Runs -> SUBSET Accounts]
  /\ \A r \in Runs : /\ todo[r] \cup snapshots[r] \subseteq listed[r]
                     /\ pc[r] \in {"holdings", "history"} => todo[r] # {}
                     /\ history[r] \subseteq made
  /\ stale \subseteq stored /\ stored \subseteq Accounts
  /\ activity \subseteq made /\ made \subseteq Transactions
  /\ capability \in [Accounts -> Capabilities]
  /\ latest.status \in {"none", "success", "partial", "failed"}

\* However runs overlap and whatever they could not read: an account that is
\* not marked stale was read by the last run that was saved, so an account the
\* provider dropped, or one only an earlier run could read, is not shown fresh.
FreshIsRecent == Fresh \subseteq basis.got

\* The outcomes of the last saved run say what the flags say: every stored
\* account is counted once, as refreshed or as stale, and an account that was
\* listed but never read counts as excluded.
CoverageMatches ==
  latest.status # "none" =>
    latest.outcomes = Outcomes(Fresh, stale, basis.listed \ stored)

\* The overview is called fresh, and an institution healthy, only when nothing
\* is missing: every account that is stored, and every account the last run was
\* told of, was read by that run.
OverviewComplete ==
  LET missing == (stored \cup basis.listed) \ basis.got IN
  /\ OverviewStatus = "fresh" => missing = {}
  /\ \A p \in Providers : Healthy(p) => \A a \in missing : ProviderOf[a] # p

\* An account may be traded on its capability only if the last saved run read
\* both its holdings and its capability.
TradableIsRecent == Tradable \subseteq basis.got \cap basis.capable

\* A run that fails, wholly or for an account, and a run that is late take
\* nothing away: accounts stay on record and activity is never lost.
NothingLost ==
  [][stored \subseteq stored' /\ activity \subseteq activity']_vars
=============================================================================
