----------------------- MODULE PortfolioRefreshProofs -----------------------
(***************************************************************************)
(* Proofs about PortfolioRefresh for any accounts, institutions and number *)
(* of overlapping runs.  Its properties hold of each saved run, whatever   *)
(* the others do: the transactions overwrite the flags of all accounts.    *)
(***************************************************************************)
EXTENDS PortfolioRefresh, FiniteSetTheorems, TLAPS

\* What a run under way has read.
Reading ==
  /\ pc \in [Runs -> Phases]
  /\ listed \in [Runs -> SUBSET Accounts]
  /\ todo \in [Runs -> SUBSET Accounts]
  /\ snapshots \in [Runs -> SUBSET Accounts]
  /\ history \in [Runs -> SUBSET made]
  /\ offered \subseteq Accounts
  /\ made \subseteq Transactions
  /\ \A r \in Runs : todo[r] \subseteq listed[r] /\ snapshots[r] \subseteq listed[r]
  /\ \A r \in Runs : /\ pc[r] \in {"holdings", "history"} => todo[r] # {}
                     /\ pc[r] \in {"idle", "listing"} => snapshots[r] = {}

\* What the tables say of the last saved run.
Tables ==
  /\ stored \subseteq Accounts
  /\ stale \subseteq stored
  /\ stored \ stale = basis.got
  /\ basis.got \subseteq basis.listed
  /\ basis.listed \subseteq Accounts
  /\ activity \subseteq made
  /\ capability \in [Accounts -> Capabilities]
  /\ \A a \in Accounts : capability[a] = "fresh" => a \in basis.capable

\* What the row of the run says of the tables.
Covered ==
  /\ latest.status = "none" => stored = {} /\ basis.listed = {}
  /\ latest.status # "none" =>
       latest.outcomes = Outcomes(basis.got, stale, basis.listed \ stored)
  /\ latest.status = "success" => \A p \in Providers : ~Incomplete(latest.outcomes[p])
  /\ latest.status \in {"none", "success", "partial", "failed"}

IInv == Reading /\ Tables /\ Covered

-----------------------------------------------------------------------------
LEMMA Initially == Init => IInv
  BY DEF Init, IInv, Reading, Tables, Covered, Phases, Capabilities

\* A run that only reads leaves the tables alone.
LEMMA SavedFrame ==
  ASSUME IInv, UNCHANGED saved, made \subseteq made'
  PROVE  Tables' /\ Covered'
  BY DEF IInv, Tables, Covered, saved, Outcomes, Count, Incomplete

\* A run that ends forgets what it read.
LEMMA EndForgets ==
  ASSUME IInv, NEW r \in Runs, End(r), UNCHANGED world
  PROVE  Reading'
  BY DEF IInv, Reading, End, Goto, world, Phases

LEMMA CurrentListed ==
  ASSUME IInv, NEW r \in Runs, pc[r] \in {"holdings", "history"}
  PROVE  Current(r) \in todo[r] /\ Current(r) \in listed[r] /\ Current(r) \in Accounts
<1>1. todo[r] # {} /\ todo[r] \subseteq listed[r] /\ listed[r] \subseteq Accounts
  BY DEF IInv, Reading
<1>2. Current(r) \in todo[r]
  BY <1>1 DEF Current
<1> QED
  BY <1>1, <1>2

\* The four steps of a run up to its transaction.
LEMMA ReadStep ==
  ASSUME IInv, NEW r \in Runs,
         Start(r) \/ ListAccounts(r) \/ GetHoldings(r) \/ GetTransactions(r)
  PROVE  IInv'
<1>1. CASE Start(r)
  <2>1. Reading'
    BY <1>1 DEF IInv, Reading, Start, Goto, world, local, Phases
  <2> QED
    BY <1>1, <2>1, SavedFrame DEF IInv, Start, world
<1>2. CASE ListAccounts(r)
  <2>1. Reading'
    BY <1>2 DEF IInv, Reading, ListAccounts, NextAccount, Goto, world, Phases
  <2> QED
    BY <1>2, <2>1, SavedFrame DEF IInv, ListAccounts, world
<1>3. CASE GetHoldings(r)
  <2>1. Current(r) \in listed[r] /\ Current(r) \in Accounts
    BY <1>3, CurrentListed DEF GetHoldings
  <2>2. Reading'
    BY <1>3, <2>1 DEF IInv, Reading, GetHoldings, Goto, world, Phases
  <2> QED
    BY <1>3, <2>2, SavedFrame DEF IInv, GetHoldings, world
<1>4. CASE GetTransactions(r)
  <2>1. todo[r] \ {Current(r)} \subseteq listed[r] /\ todo[r] \ {Current(r)} \subseteq Accounts
    BY DEF IInv, Reading
  <2>2. \A a : {t \in made : AccountOf[t] = a} \subseteq made
    OBVIOUS
  <2>3. Reading'
    BY <1>4, <2>1, <2>2 DEF IInv, Reading, GetTransactions, NextAccount, Goto, world, Phases
  <2> QED
    BY <1>4, <2>3, SavedFrame DEF IInv, GetTransactions, world
<1> QED
  BY <1>1, <1>2, <1>3, <1>4

\* save_refresh: every flag is set from what this run read.
LEMMA SaveStep ==
  ASSUME IInv, NEW r \in Runs, SaveRefresh(r)
  PROVE  IInv'
<1>1. PICK received \in BOOLEAN, good \in SUBSET listed[r] :
        /\ SaveAccounts(r)
        /\ SaveTransactions(r)
        /\ SaveCapabilities(r, received, good)
        /\ RecordRun(r)
        /\ basis' = [listed |-> listed[r], got |-> snapshots[r], capable |-> good]
  BY DEF SaveRefresh
<1>2. snapshots[r] \subseteq listed[r] /\ listed[r] \subseteq Accounts /\ history[r] \subseteq made
  BY DEF IInv, Reading
<1>3. UNCHANGED world
  BY DEF SaveRefresh
<1>4. Reading'
  BY <1>3, EndForgets DEF SaveRefresh
<1>5. stored' = stored \cup snapshots[r] /\ stale' = stored \ snapshots[r]
  BY <1>1 DEF SaveAccounts
<1>6. stored' \ stale' = snapshots[r]
  BY <1>5
<1>7. basis'.got = snapshots[r] /\ basis'.listed = listed[r] /\ basis'.capable = good
  BY <1>1
<1>8. /\ capability' \in [Accounts -> Capabilities]
      /\ \A a \in Accounts : capability'[a] = "fresh" => a \in good
  BY <1>1 DEF SaveCapabilities, CapabilityRows, Capabilities
<1>9. Tables'
  <2>1. activity' \subseteq made'
    BY <1>1, <1>2, <1>3 DEF SaveTransactions, IInv, Tables, world
  <2>2. stored' \subseteq Accounts /\ stale' \subseteq stored'
    BY <1>2, <1>5 DEF IInv, Tables
  <2> QED
    BY <1>2, <1>6, <1>7, <1>8, <2>1, <2>2 DEF Tables
<1>10. Covered'
  <2> DEFINE outcomes == Outcomes(snapshots[r], stale', listed[r] \ stored')
  <2>1. latest' = [status |-> RefreshStatus(outcomes), outcomes |-> outcomes]
    BY <1>1 DEF RecordRun
  <2>2. /\ RefreshStatus(outcomes) \in {"success", "partial", "failed"}
        /\ RefreshStatus(outcomes) = "success" => \A p \in Providers : ~Incomplete(outcomes[p])
    BY DEF RefreshStatus
  <2> HIDE DEF outcomes
  <2>3. latest'.status = RefreshStatus(outcomes) /\ latest'.outcomes = outcomes
    BY <2>1
  <2>4. outcomes = Outcomes(basis'.got, stale', basis'.listed \ stored')
    BY <1>7 DEF outcomes
  <2> QED
    BY <2>2, <2>3, <2>4 DEF Covered, Outcomes, Count, Incomplete
<1> QED
  BY <1>4, <1>9, <1>10 DEF IInv

\* save_failed_refresh: everything that is stored is stale.
LEMMA SaveFailedStep ==
  ASSUME IInv, NEW r \in Runs, SaveFailedRefresh(r)
  PROVE  IInv'
<1>1. Reading'
  BY EndForgets DEF SaveFailedRefresh, world
<1>2. Tables'
  BY DEF IInv, Tables, SaveFailedRefresh, world, Capabilities
<1>3. /\ latest'.status = "failed"
      /\ latest'.outcomes = Outcomes(basis'.got, stale', basis'.listed \ stored')
  <2>1. basis'.listed \ stored' = {} /\ basis'.got = {} /\ stale' = stored
    BY DEF SaveFailedRefresh
  <2> QED
    BY <2>1 DEF SaveFailedRefresh
<1>4. Covered'
  BY <1>3 DEF Covered, Outcomes, Count, Incomplete
<1> QED
  BY <1>1, <1>2, <1>4 DEF IInv

LEMMA Inductive == IInv /\ [Next]_vars => IInv'
<1> SUFFICES ASSUME IInv, [Next]_vars
             PROVE  IInv'
  OBVIOUS
<1>1. ASSUME NEW r \in Runs,
             Start(r) \/ ListAccounts(r) \/ GetHoldings(r) \/ GetTransactions(r)
      PROVE  IInv'
  BY <1>1, ReadStep
<1>2. ASSUME NEW r \in Runs, SaveRefresh(r)
      PROVE  IInv'
  BY <1>2, SaveStep
<1>3. ASSUME NEW r \in Runs, SaveFailedRefresh(r)
      PROVE  IInv'
  BY <1>3, SaveFailedStep
<1>4. ASSUME NEW r \in Runs, SaveFails(r)
      PROVE  IInv'
  BY <1>4, EndForgets, SavedFrame DEF IInv, SaveFails, world
<1>5. ASSUME NEW a \in Accounts, Connect(a)
      PROVE  IInv'
  <2>1. Reading'
    BY <1>5 DEF IInv, Reading, Connect, local, Phases
  <2> QED
    BY <1>5, <2>1, SavedFrame DEF IInv, Connect
<1>6. ASSUME NEW t \in Transactions, Trade(t)
      PROVE  IInv'
  <2>1. Reading'
    BY <1>6 DEF IInv, Reading, Trade, local, Phases
  <2> QED
    BY <1>6, <2>1, SavedFrame DEF IInv, Trade
<1>7. CASE Stop
  <2>1. Reading'
    BY <1>7 DEF IInv, Reading, Stop, world, Phases
  <2> QED
    BY <1>7, <2>1, SavedFrame DEF IInv, Stop, world
<1>8. CASE UNCHANGED vars
  <2>1. Reading'
    BY <1>8 DEF IInv, Reading, vars, world, local, Phases
  <2> QED
    BY <1>8, <2>1, SavedFrame DEF IInv, vars, world
<1> QED
  BY <1>1, <1>2, <1>3, <1>4, <1>5, <1>6, <1>7, <1>8 DEF Next

\* What runs have saved and still hold agrees with the flags, in every state.
THEOREM Invariance == Spec => []IInv
  BY Initially, Inductive, PTL DEF Spec

-----------------------------------------------------------------------------
\* Every variable keeps its type.
THEOREM TypeCorrect == Spec => []TypeOK
<1>1. IInv => TypeOK
  BY DEF IInv, Reading, Tables, Covered, TypeOK, Phases, Capabilities
<1> QED
  BY <1>1, Invariance, PTL

\* What is shown as fresh was read by the last saved run.
THEOREM Recent == Spec => []FreshIsRecent
<1>1. IInv => FreshIsRecent
  BY DEF IInv, Tables, FreshIsRecent, Fresh
<1> QED
  BY <1>1, Invariance, PTL

\* The outcomes of the last saved run agree with the flags.
THEOREM Coverage == Spec => []CoverageMatches
<1>1. IInv => CoverageMatches
  BY DEF IInv, Tables, Covered, CoverageMatches, Fresh
<1> QED
  BY <1>1, Invariance, PTL

\* An institution without failures has no account among the excluded.
LEMMA NoneExcluded ==
  ASSUME NEW p \in Providers, NEW got,
         NEW behind \in SUBSET Accounts, NEW excluded \in SUBSET Accounts,
         ~Incomplete(Outcomes(got, behind, excluded)[p])
  PROVE  \A a \in excluded : ProviderOf[a] # p
<1> DEFINE B == {b \in behind : ProviderOf[b] = p}
           E == {b \in excluded : ProviderOf[b] = p}
<1>1. IsFiniteSet(B) /\ IsFiniteSet(E)
  BY AccountAssumption, FS_Subset, B \subseteq Accounts, E \subseteq Accounts
<1>2. Cardinality(B) \in Nat /\ Cardinality(E) \in Nat
  BY <1>1, FS_CardinalityType
<1>3. ~(Cardinality(B) + Cardinality(E) > 0)
  BY DEF Incomplete, Outcomes, Count
<1>4. Cardinality(E) = 0
  BY <1>2, <1>3
<1>5. E = {}
  BY <1>1, <1>4, FS_EmptySet
<1> QED
  BY <1>5

\* A fresh overview and a healthy institution miss nothing.
THEOREM Complete == Spec => []OverviewComplete
<1> DEFINE missing == (stored \cup basis.listed) \ basis.got
<1>1. ASSUME IInv
      PROVE  /\ stale \in SUBSET Accounts
             /\ basis.listed \ stored \in SUBSET Accounts
             /\ missing = stale \cup (basis.listed \ stored)
  BY <1>1 DEF IInv, Tables
<1>2. ASSUME IInv, NEW p \in Providers, latest.status # "none",
             ~Incomplete(latest.outcomes[p])
      PROVE  \A a \in basis.listed \ stored : ProviderOf[a] # p
  <2>1. ~Incomplete(Outcomes(basis.got, stale, basis.listed \ stored)[p])
    BY <1>2 DEF IInv, Covered
  <2> QED
    BY <1>1, <1>2, <2>1, NoneExcluded
<1>3. ASSUME IInv, OverviewStatus = "fresh"
      PROVE  missing = {}
  <2>1. stored # {} /\ latest.status \notin {"failed", "partial"} /\ stored \ stale = stored
    BY <1>3 DEF OverviewStatus, Fresh
  <2>2. latest.status = "success"
    BY <1>3, <2>1 DEF IInv, Covered
  <2>3. \A p \in Providers : ~Incomplete(latest.outcomes[p])
    BY <1>3, <2>2 DEF IInv, Covered
  <2>4. \A p \in Providers : \A a \in basis.listed \ stored : ProviderOf[a] # p
    BY <1>2, <1>3, <2>2, <2>3
  <2>5. \A a \in basis.listed \ stored : ProviderOf[a] \in Providers
    BY <1>1, <1>3, AccountAssumption
  <2>6. stale = {}
    BY <1>3, <2>1 DEF IInv, Tables
  <2> QED
    BY <1>1, <1>3, <2>4, <2>5, <2>6
<1>4. ASSUME IInv, NEW p \in Providers, Healthy(p)
      PROVE  \A a \in missing : ProviderOf[a] # p
  <2>1. ~Incomplete(latest.outcomes[p]) /\ \A a \in stale : ProviderOf[a] # p
    BY <1>4 DEF Healthy
  <2>2. CASE latest.status = "none"
    BY <1>1, <1>4, <2>1, <2>2 DEF IInv, Covered
  <2>3. CASE latest.status # "none"
    BY <1>1, <1>2, <1>4, <2>1, <2>3
  <2> QED
    BY <2>2, <2>3
<1>5. IInv => OverviewComplete
  BY <1>3, <1>4 DEF OverviewComplete
<1> QED
  BY <1>5, Invariance, PTL

\* What may be traded was read, holdings and capability, by the last saved run.
THEOREM TradableSafe == Spec => []TradableIsRecent
<1>1. IInv => TradableIsRecent
  BY DEF IInv, Tables, TradableIsRecent, Tradable, Fresh
<1> QED
  BY <1>1, Invariance, PTL

\* Neither failures nor overlapping runs take anything away.
THEOREM Kept == Spec => NothingLost
<1>1. IInv /\ [Next]_vars => [stored \subseteq stored' /\ activity \subseteq activity']_vars
  BY DEF Next, vars, world, local, saved, Start, ListAccounts, GetHoldings, GetTransactions,
         SaveRefresh, SaveAccounts, SaveTransactions, SaveFailedRefresh, SaveFails, Connect,
         Trade, Stop
<1> QED
  BY <1>1, Invariance, PTL DEF Spec, NothingLost
=============================================================================
