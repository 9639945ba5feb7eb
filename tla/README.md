# A formal model of portfolio-mcp's trading core

portfolio-mcp is a local portfolio dashboard that can place and cancel orders
through a broker. This directory holds TLA+ models of the part of it where
mistakes cost money: an order must reach the broker at most once, the database
must never claim to know what it does not know, and nothing may happen that the
owner did not review. Around it stand the parts those rest on: the trading
limits every order is held to, the portfolio refresh and the overview made of
what it stored, the access to Schwab, the schedule by which orders are
refreshed, and the lists in which the owner reviews them. TLC checks the models
on small instances; TLAPS proves every safety property of every module for any
number of calls, processes, accounts, orders, rows and dollars.

Paths below are relative to the repository, `P` stands for
`src/portfolio_mcp`.

## The system

Two kinds of processes share one SQLite file: the dashboard's **API**
(`P/api/app.py`, FastAPI on one event loop) and the **MCP servers**
(`P/server.py`, stdio, one per client). Both submit and cancel orders; only the
API refreshes orders, authorizes, and changes settings. No process tells
another anything except through the database and, for submissions, a lock
directory.

Three facts about the code shape every model.

*Event loops.* All handlers are `async def` and all store functions are
synchronous, so within a process a store function is never interleaved with
anything. Only `await` lets other coroutines in.

*SQLite through pysqlite.* `P/database.py` uses the driver's legacy
transactions: no transaction is open until the first INSERT, UPDATE or DELETE.
What a function read before its first write can be changed by another process
before it writes. Where the write is `UPDATE ... WHERE version = ? AND state =
?` and the row count is checked, that is harmless and the function is one
action. Where the write is keyed by the id alone the function is two actions.

*The broker.* A request that left cannot be called back, a request without an
answer may have had any outcome, and what a later read says may be older than
what is stored.

### Components, their state and what makes them correct

| Component | State | Operations | Correct when |
|---|---|---|---|
| Order states (`P/execution.py`) | - | `require_transition` | terminal states are final |
| Submission (`P/trading_service.py`, `P/order_submission_store.py`) | `orders`, `order_drafts`, authorizations | `confirm`, `submit_authorized`, recovery at start-up and before reads | a draft is sent at most once, after the intent is stored; the stored result is what the broker said or UNKNOWN; recovery never touches a live call |
| Submission locks (`P/submission_locks.py`) | thread locks, lock files | `claim` | one holder per draft over all processes, released by death |
| Cancellation (`P/trading_service.py`, `P/order_cancellation_store.py`) | `orders`, the attempts in `order_events` | `cancel` = begin, broker call, finish | one attempt at a time, on the version that was reviewed, with a result that is true |
| Cancellation requests (`P/order_cancellation_store.py`, `P/mcp_authorization.py`, `P/order_authorization_store.py`) | `cancellation_requests`, `mcp_authorizations` | request, authorize, use, expire, close | a code works once, for one request, on one version, and can hardly be guessed |
| Reconciliation (`P/order_reconciliation.py`, `P/reconciliation_store.py`) | `reconciliation_gates`, `orders` | `refresh`, plan, claim, finish | an outdated read changes nothing; reads are throttled; no order starves |
| Trading limits (`P/trading_safety.py`, `P/trading_settings_store.py`) | `trading_settings` | `replace`, `evaluate` | no lost update; nothing is sent that the kill switch or a limit forbade since its row was stored |
| Portfolio refresh (`P/refresh.py`, `P/portfolio_store.py`) | accounts, positions, daily values, capabilities, runs | `refresh`, reads | stale flags and health agree with the last runs |
| Schwab access (`P/schwab_*.py`) | token cache, account mappings | `request`, readiness, mapping | a rejected token is replaced once; a mapping is unique |
| Queries (`P/order_query_store.py`, `P/order_history.py`) | cursors | list orders and events | no order is skipped or repeated by paging |
| Overview (`P/overview.py`) | - | totals, coverage, allocations | sums count what they say |
| Dashboard (`src/dashboard`) | refresh loop | plan, refresh, back off | the loop never goes dead |

They interact by calls inside a process and by rows across processes. A
submission calls the lock, the stores, the validator (quotes and limits), the
broker; a cancellation request ends in a cancellation; every change of an order
closes its open cancellation requests in the same transaction; recovery looks
at the orders submissions left behind, and reconciliation at what submissions
and cancellations left UNKNOWN or pending.

### What is hard

Two processes between a read and a write; answers that come after a timeout,
after a restart or out of order; a process that dies between two transactions;
recovery that must tell a dead call from a slow one; codes presented twice;
requests superseded while they are being authorized. `PROJECT.json` lists
each at its line under "hazards", with the property that watches it.

## The modules

| Module | Models |
|---|---|
| `OrderStates` | `OrderState`, `_TRANSITIONS`, `require_transition` |
| `SubmitOnce` | what submission promises, abstractly: a draft's request is sent once or never, and then has one outcome |
| `Submission` | the whole submission: calls, locks, rows, authorizations, recovery, deaths, the broker |
| `MCSubmission` | its instance: the API and an MCP server |
| `SubmissionProofs` | theorems about `Submission` |
| `OrderUpdates` | one placed order: cancellations and refreshes against a broker that goes on trading |
| `TrackedOrder` | what cancellations and refreshes promise together, abstractly: the broker ends an order on its own or on request, and the store notes what is true, one thing at a time |
| `MCOrderUpdates` | its instance |
| `OrderUpdatesProofs` | theorems about `OrderUpdates` |
| `CancellationRequests` | requests and codes between the owner and MCP clients |
| `MCCancellationRequests` | its instance |
| `CancellationRequestsProofs` | theorems about `CancellationRequests` |
| `PortfolioRefresh` | overlapping refreshes of the portfolio, and what readers make of the tables |
| `MCPortfolioRefresh` | its instance |
| `PortfolioRefreshProofs` | theorems about `PortfolioRefresh` |
| `TradingLimits` | the settings and their versions, the guard, and an order on its way through both its runs |
| `MCTradingLimits` | its instance |
| `TradingLimitsProofs` | theorems about `TradingLimits` |
| `RefreshPlan` | which order is refreshed when: the API's plan and gates, the dashboard's loop |
| `MCRefreshPlan` | its instance |
| `RefreshPlanProofs` | theorems about `RefreshPlan` |
| `SchwabAccess` | the token cache, readiness checks and account mappings |
| `MCSchwabAccess` | its instance |
| `SchwabAccessProofs` | theorems about `SchwabAccess` |
| `OrderPages` | orders and audit events page by page while rows come and change |
| `MCOrderPages` | its instance |
| `Overview` | the overview as a function of what refreshes stored |
| `MCOverview` | its instance |
| `ViewProofs` | theorems about the two modules of what the owner looks at, `OrderPages` and `Overview`, and the facts about sums over finite sets they need |

The later modules look closer at what the earlier ones leave open: `Submission` takes the guard as a refusal that may come, and
`TradingLimits` shows what it refuses; `OrderUpdates` takes the gate as open or
closed, and `RefreshPlan` shows when. `Overview` takes a refresh as the one
transaction that saves it; what led to it is in `PortfolioRefresh`. They share no
state formally: no run checks two of them together.

### Submission

Actors are single runs: confirmations, authorized calls (MCP) and recovery
sweeps; `Host` gives each its process. `pc` is where a run is; the drafts' rows,
the order rows, authorizations and audits are the tables; the lock table is an
atomic mutual exclusion (thread lock and file lock together), dropped by
`Crash`. `Claim`, `ConfirmCheck`, `AuthorizedCheck`, `ConsumeCode`, `Validate`,
`Begin`, `FinalCheck`, `MarkStarted`, `Send`, `Answer`, `FinishRead`,
`FinishWrite` follow `_execute_submission` from top to bottom;
`CheckExpiry`/`NoteExpiry`/`AuditFails` are the refusals `confirm` writes down
after the lock is released; `Sweep...` is `recover_stranded_submissions`, whose
list of candidates is read before any lock.

`Raise` is any exception that leaves the claim. `claim` turns every `OSError` of
its body into a `SubmissionLockError` (`submission_locks.py:96`), so a validator
that loses its connection after the row is committed (`trading_service.py:380`)
is answered `submission_lock_unavailable`, "its ownership lock could not be
acquired", while the lock was held and the order exists; recovery makes it
UNKNOWN later. `RefusalIsFinal` therefore promises of that answer less than of
the other refusals: not that there is no order, only that nothing was started or
sent for it.

Abstractions: quotes and trading limits are a refusal that may or may not come.
The final validator's await and the expiry check after it are one action
(neither writes). Wrong codes are not counted here but in
`CancellationRequests`, whose functions are the same. The second attempt of
`_unknown` to store UNKNOWN is the same write. Closing cancellation requests is
left out: an order that is SUBMITTING has none.

### OrderUpdates

`Review` reads what the owner sees; `Begin` is one action (guarded UPDATE);
`FinishRead` and `FinishWrite` are the two halves of
`finish_order_cancellation`; `Start`, `ClaimRead`, `ClaimGate`, `Look`, `Apply`
are a refresh. `busy` marks a process that is inside a store call, `turn` is
the asyncio lock per order, `row` the order, `broker` its history at the
broker, from which snapshots may be as old as they like. An answer that never
came, came too late, is malformed or about another order is `Nothing`.

Abstractions: a snapshot's `updated_at` check is part of "may be refused"; the
gate opens when no store call is under way, because thirty seconds outlast any
of them; an order that can be canceled has a broker id.

`TrackedOrder` has three variables: the order at the broker (`actual`), the row
(`known`) and whether a cancellation was ever recorded (`asked`). Its actions are
what anybody outside may see happen: `Trade` and `Close` at the broker, `Ask` and
`Learn` in the store. `ImplementsTrackedOrder` maps them to the last entry of
`broker`, to `row` and to `latest`, so that every step of `OrderUpdates` is one of
the four or changes none of the three. It contains `LegalHistory` and says more:
what a state means is true when it is written, not only somehow consistent with
the row before, and no order is canceled that nobody asked to cancel.

### CancellationRequests

The order is its version and whether it can be canceled. A process works on one
of these functions at a time (none awaits before the cancellation), so `pc` and
`local` are per process. `Close` is
`_invalidate_cancellation_requests_for_order_in_session`: it writes an event
with a unique key per request, so a second closing of one request rolls back
the transaction it is part of. A function that reads before it closes is in
`closing` in between. The owner's authorization reads the request and the order
in two statements: `AuthorizeRead` and `ReviewOrder`. `create_cancellation_request`
is one action (`CreateRequest`), as it starts with an UPDATE that writes the order's
version over itself where the version is still the one that was read, and so holds
the database before it looks at anything. `OpenIsCurrent` is what that is for: the
request is for the order as it is when the transaction commits, and nothing moves the
order afterwards without closing it.

### PortfolioRefresh

A run of `PortfolioRefreshService.refresh` is a row of local variables: `listed`
and `todo` (the accounts `list_accounts` gave and those still to read),
`snapshots` and `history` (what was read). `Start`, `ListAccounts`,
`GetHoldings`, `GetTransactions` are its awaits, `SaveRefresh` and
`SaveFailedRefresh` the two transactions of `portfolio_store.py`, each one
action because only the API writes these tables and a store function awaits
nothing. `SaveFails` is a transaction that raises, `Stop` the end of the
process. `Connect` and `Trade` change the provider's side between any two reads.
`stored`, `stale`, `activity`, `capability` and `latest` are the tables;
`OverviewStatus`, `Healthy` and `Tradable` are what `overview.py` and the trading
limits read from them. `basis` records what the run behind `latest` had read and
is used by properties only.

Abstractions: holdings are read or not read; time stamps, error codes and texts,
and daily values are left out. Accounts are read in one fixed order: reads of
different accounts do not depend on each other. The age of a capability (a day)
is left out of `Tradable`.

### TradingLimits

`settings` is the row, `form` what each dashboard received last; `Save` is
`TradingSettingsService.replace` with the insert (`Inserted`) and the update
(`Updated`) of `replace_trading_settings`. `pc` takes one order through
`OrderDraftService.create` and `_execute_submission`: `AskQuote`,
`QuoteArrives`, the guard, `StoreDraft`, then `Submit`, `Begin`, `Insert`,
`Recheck`, `Validate`, the guard again, `Send`. The guard is three actions,
`ReadSettings`, `ReadCapability` and `ReadHoldings`, because each read is a
transaction of its own and another process may write in between. `okSince`
remembers under which aspects the order was all right at some moment since its
row was stored; what it means to be all right (`AllRight`) is stated positively,
apart from the violations the guard looks for.

Abstractions: zero stands for a limit or a price that is not there; a capability
is the set of sides it supports; a price is what the quote has for the order's
side; a market quote may be of any time, also of a time to come. What `confirm`
does around this, replays and crashes, is `Submission`. The validator is the one
that is shipped (`fixture_submission_validator`), which looks at the broker's
holdings; a provider that is injected brings its own, and of the aspects of
`SentWithinLimits` "broker" holds for the shipped one only. After a save the
dashboard fetches the settings again; `Save` leaves the form with the row it
wrote, and a `Load` before the next save may bring a newer one.

`SentWithinLimits` speaks of some moment, not of the moment of sending and not
of one moment for all aspects: the code checks the dates, awaits the validator,
then reads three times. Two drafts that sell the same shares both pass.

### RefreshPlan

`rank` numbers the orders, never attempted or attempted longest ago first, and
`Target` is a group's first by it among those that can be refreshed; an attempt
makes the order the last. `wait` is the gate of a group. `At`,
`Earliest` and `Schedule` are `schedulePlan`; `Load`, `LoadFails`, `Fire`,
`Respond` and `RequestFails` the rest of the loop; `Hide`, `Show` and `Wake` what
`OrdersSection.tsx` does to it; `request` is the pending promise the loop shares
with the refresh buttons (`Click`). `Claim` and `MayAttempt` are the API's side.

Abstractions: a page is loaded within a tick, and a refresh is answered before
the gate of its group opens again, as the broker read is cut off after ten
seconds and an interval has thirty at least. Ties go to the group listed first.
What a refresh finds is left to `OrderUpdates`: here an order moves on by itself
(`Progress`). `isStopped()` in the loop is "stopped, or the view is not active at
this moment" (`orderRefreshLoop.ts:29`, `OrdersSection.tsx:125`), and the effect
that stops the loop runs a little after the view went out of sight; `Hide` makes
the two one step, and `Show` the return and the new loop. If the view came back
before the effect ran, while a timer fired in between, the loop would be left
without a timer until the page is loaded again: `LoopNeverDead` and
`NoOrderStarves` do not speak of that. A loop that is asleep does not notice orders an MCP client placed
until the page is fetched again, which is why `LoopNeverDead` speaks of the page.

### SchwabAccess

A call is a record of local variables: where it is (`step`), which request it is
in (`stage`), its token and answer. Every request has two ends, at Schwab and in
the code, and what a call does between two requests is one action, as only the
API serves these calls. `RetryRejected` is the one retry after a 401, `Rejected`
and `RequestFails` the ways to give up, `NumbersRead` and `DetailRead` the two
answers a readiness check needs, `SaveMapping` the store's conflict check.

Abstractions: a check is ready or blocked, for whatever reason; any failure but
a 401 ends the call; masks, labels, suggestions and restarts are left out; one
check per account at a time.

### OrderPages

`listed` is what the reader has from all pages so far, `cursor` where the next
begins. `Found`, `Cut` and `NextCursor` are the query, and `InListOrder` is its
ORDER BY: the k-th row has k - 1 before it. `Accepted` is the digest
check that refuses a cursor of another list. Rows come with any time, as events
carry the time their operation began, and with any place among those of one time,
as ids are random; orders change which filters they pass.

### Overview

Only what refreshes store is state: the last answer of each account, stale
flags, daily values. The overview is made of operators on it, one for each
function of `overview.py`, since `read_portfolio_view` reads everything in one
transaction. `Refresh` stores any answers for any of the accounts and marks the
others stale, as `save_refresh` and `save_failed_refresh` do.

Money is whole dollars, shares are ten thousandths rounded half away from zero.
The sums agree only under conditions, which `TotalsAddUp` states: without a
positive total there are no slices of asset classes, though there may be one of
an account; and an account that owes more than it has gets no slice, so those of
the others make more than the total. The gain is over the positions with a known
cost; with that cost and the value of the others it makes the total, so no position
is in the gain that the total leaves out. `SecurityType` compares classes where the
code searches for words in them. A day's value stays as it was when a later
refresh of the day finds nothing to value, so `HistoryAgrees` compares today's
point with the total only if every account has something.

## The runs

| Run | Instance | Shows |
|---|---|---|
| `submission` | 1 draft, 2 confirmations, 1 authorized call, 1 sweep, 2 processes, 1 death, fairness | at most one request, truthful record, exclusive ownership, final refusals, legal history, refinement of `SubmitOnce`; no order stays SUBMITTING |
| `order_updates` | a cancellation in each process, 1 refresh, 1 fault, fairness | a final state or a fill is stored only when the broker has it; a cancellation that began is resolved unless a store call failed |
| `order_updates_api` | 2 cancellations, 2 refreshes, one process | refinement of `TrackedOrder`: the row moves along the transition table, version by version, keeps its fill, and each note is true when it is taken |
| `order_updates_race` | 1 cancellation, 1 refresh, two processes | **violation**, see below |
| `cancellation_requests` | 2 servers and the API, 2 requests, 2 codes, 2 guesses, 1 change of the order | codes and requests |
| `cancellation_requests_race` | the same | **violation**, see below |
| `portfolio_refresh` | 2 institutions with an account each, 1 transaction, 2 runs again and again | flags, outcomes, overview status, health and capabilities agree with the last saved run; nothing saved is lost |
| `trading_limits` | 2 dashboards, 2 saves, 1 order, 2 changes of the account, 2 ticks | no save overwrites an unseen one; what is sent met every limit after its row was stored |
| `refresh_plan` | 3 orders in 2 groups, 1 of them off the page, 2 failures, 2 clicks, fairness | the loop never goes dead, no order is attempted twice while another waits, none starves |
| `schwab_access` | 2 accounts, 2 accounts at Schwab, 1 owner, 2 tokens | a rejected token is replaced by a newer one; a report never has two accounts ready on one |
| `order_pages` | 4 rows, 2 times, 2 filters, pages of 1 and 2 | pages are in order, repeat nothing, miss nothing |
| `overview` | 2 accounts, 7 answers, 2 days | totals, groupings, shares and history agree |

Bounds. One draft is enough for submission: drafts share no row and no lock.
Two confirmations and an authorized call give two rivals in one process and one
in another; one sweep can meet any of them, and one death can hit any step. A
quantity of two gives an order without, with a partial and with a full fill. Two
requests are what superseding needs, two servers what presenting a code
together needs, two wrong codes what passing a limit in parallel needs
(`MaxAttempts` is five in the code). `MaxVersion` leaves room for one change of
the order by another service besides the cancellation. `MaxCrashes` and
`MaxFaults` bound deaths and failing store calls; `order_updates_api` has room for
four runs because it has no fault, which `order_updates` and the proof of
`Refinement` have. For refreshes two runs give
every overlap of a late run with a newer one, and as a run that ended starts
again there is no bound on their number; two accounts of different institutions
are what a status that mixes them needs, and one transaction is enough because
each is a row of its own. Runs of one kind in one process are
interchangeable, which the symmetry sets say. `CHECK_DEADLOCK` is off where
the instance ends when all runs have ended.

In `trading_limits` the first save creates the row and the second changes what a
drafted order was checked for; prices, quantities and limits of one and two put
an order below, at and above each limit, and ticks of zero, one and two put it
within its quote's life (0), its draft's (1) and beyond. What an owner may type
is five forms (`MCChoices`): off, on with the kill switch, on with two pairs of
limits, and on with one limit, which is refused. `refresh_plan` has a group with
two orders, one of them off the page, and one beside it; an interval of two ticks
lies above and below the back-off of one and two. In `schwab_access` two tokens
are the rejected one and its successor; more calls than three would only repeat
a race of two. Two times in `order_pages` put several rows on one time, and four
rows give a second and a third page. The answers in `overview` have every kind
of position: priced and not, with a cost basis and without, owing, cash, in
another currency; two of their totals make shares whose rounding does not cancel
out (5, 1, 1 of 7) or falls on a half (1 of 32).

Fairness. `submission` assumes for `SubmissionSettles` that calls which are not
waiting for the broker go on, that the broker client answers or raises (the code
sets no deadline for `submit_order`), and that recovery is started again and
again, as the API does before each read of orders and the MCP server before its
tools. `order_updates` assumes only that event loops run what is ready; the
cancel request has a deadline of ten seconds in the code, so no answer is
assumed; a store call that fails may leave CANCEL_PENDING behind for good, so
`CancellationResolves` is stated for behaviours without one. `refresh_plan`
assumes that the browser loads pages and runs timers that are due, that the API
receives and answers requests, and that time goes on; loads and requests may
fail, the owner may do nothing, hide the view or come back, and orders may move
on or not.

Calls of a submission get weak fairness, because nothing but a death disables
what a call does next. A sweep gets it for listing and for ending, and strong
fairness for taking a lock, which others hold now and then, and for recovering,
which a failing transaction may interrupt. Cancellations and refreshes get
strong fairness because a process that runs a store call disables the others
again and again.

## What the violations show

`order_updates_race`: `finish_order_cancellation` reads CANCEL_PENDING, a
refresh in the API stores FILLED or EXPIRED, and the cancellation's UPDATE, by
id alone, puts its own result over it with a version that was used already.
The same property holds in one process (it is part of what `order_updates_api`
checks, and proved as `HistoryLegal`), and for
submissions, whose finish is written the same way, the lock excludes it
(`OwnerUndisturbed`, proved).

`cancellation_requests_race`: `authorize_cancellation_request` reads a pending
request, an MCP server supersedes it, and the authorization sets it to
authorized by id. It has a usable code again, and because its invalidation is
on record under a unique key, every later transaction that would close it, that
is every change of the order, fails. `CodeFollowsRequest` and `OpenIsCurrent`
still hold, the latter because it speaks of requests without an invalidation on
record; and the code cannot cancel another version than the one reviewed, because
`cancel` compares versions.

One disagreement has no run: the message of `submission_lock_unavailable` says
that the lock could not be acquired, which is untrue when the `OSError` came from a
validator inside the claim (see Submission above); `RefusalIsFinal` says what does
hold of that answer.

## What is proved

`SubmissionProofs` proves, for any sets of drafts, runs and processes and any
number of deaths: `TypeCorrect`, `AtMostOnce`, `OwnerSafe`, `Truthful`,
`RefusalsFinal`, `HistoryLegal` and `Refinement` (`Submission` implements
`SubmitOnce`), all from `Invariance`, and `LocksInUse`.

None of the properties is inductive. The invariant `IInv` adds to `TypeOK` what
the code relies on silently, in six parts. `StepsApart`: sweeps and calls keep
to their own steps, and a call that left `idle` has a draft. `Ownership`: a run
between taking and leaving a draft's lock is the holder of it. `Flight`: a call
that has inserted its order finds the row in the version and state it remembers
and has not sent before it marks the intent; the result it is about to store is
one the broker gave, or UNKNOWN. `Record`: per draft, the row agrees with what
was sent and what became of it. `Answers`: what a call has answered, whether it
has an order, and what its audit says. `Unsent`: a call that answered
"lock unavailable" from inside the claim leaves an order that nobody starts, since
only its creator marks it and that call is over. `Flight` is the step that is easy to get
wrong: it survives a step of another actor only because by `Ownership` two
actors past `Claim` work on different drafts (`Alone`), and it survives
a death because a dead call leaves `InFlight`.

Lemmas about the four ways to move (`Goto`, `Release`, `Leave`, `Refuse`) and
about what each kind of step leaves alone (`CallFrame`, `SweepFrame`) carry
most cases; each part has one lemma, `TypeStep` to `AnswersStep`, with a case
per action, and `Inductive` combines them. `LocksInUse` is the converse of
`Ownership`: a lock that is held is held by somebody at work on that draft, so no
refusal, failed transaction or death leaves one behind, and recovery, which skips
what is locked, skips only live calls. What `SubmissionSettles` needs besides is
fairness. Assumptions (`ActorAssumption`,
`BoundAssumption`): confirmations and authorized calls, calls and sweeps, and
actors and drafts are disjoint sets, `None` is neither actor nor draft, every
actor has a process, and the bound on deaths is a number.

`PortfolioRefreshProofs` proves, for any finite set of accounts, any
institutions and any number of overlapping runs: `TypeCorrect`, `Recent`,
`Coverage`, `Complete`, `TradableSafe` and `Kept`, from its own `Invariance`. Its
`IInv` has three parts. `Reading`: a run has read nothing it was not told of, and
nothing before it was told. `Tables`: the accounts not marked stale are exactly
those the last saved run read. `Covered`: its row counts exactly them. The last
two survive a step of any run, for a run under way changes no table, and are
established anew by a run that saves, whatever was there before: that is why
overlapping runs do no harm to them. `NoneExcluded` turns a count of zero into
an empty set, which needs the accounts to be finite (`AccountAssumption`).

`OrderUpdatesProofs` proves, for any cancellations and refreshes of an order,
over any processes and with any number of failing store calls: `TypeCorrect` and
`FinalTrue`, and for one process `HistoryLegal`. `FinalIsTrue` speaks of the row
only, and the row is written from what a run has read long before. So `IInv`
says of everything a run has read or been told that it is true of the broker
(`Truth`), which stays so because the broker's history is `Ordered`: fills grow
and nothing follows a final state. `HistoryLegal` has a hypothesis, `OneProcess`,
and needs it: with two processes the property is false, which is what
`order_updates_race` shows. Its invariant `Current` says that a run which has
read the row to store its result still holds the row's content; in one process
nobody can write in between, as a run inside a store call occupies it
(`Holding`).

`Refinement` has the same hypothesis and shows that `OrderUpdates` implements
`TrackedOrder`. `OrderStep` sorts the steps by what they do to the order:
`Keeps`, `Asks`, `Learns`, `Trades`, each a stutter or an action of `TrackedOrder`.
That a note is true when it is taken comes from `Truth`, that it follows the row it
replaces from `Current`, and that its fill fits its state, also when a refresh
only confirms the row, from `Faithful`, which says as well that no request is on
its way unless it was recorded (`Recorded`). `Recorded` needs no hypothesis:
`CanceledOnRequest` says for any number of processes that neither broker nor store
has the order canceled without a recorded cancellation. `NothingLeftHeld`, also
for any number of processes, says that one cancellation at most is under way in
each, and that neither its lock nor the event loop stays held by a run that
failed or died.

`CancellationRequestsProofs` proves, for any servers, requests, codes and number
of guesses: `TypeCorrect`, `CodesFollow`, `FewGuesses`, `AtMostOneUse` and
`OpenCurrent`. `IInv` adds to what the properties say that a request has one code at
most and none while it is pending (`OneCode`), what a process relies on at each
step between its reads and writes (`Knows`), and that two servers never get past
the consumption of one code (`Apart`). The first is what is left standing when
the authorization races with another request, the case of
`cancellation_requests_race`. `OpenCurrent` has an argument of its own beside
`IInv`: the dashboard writes by id what it reviewed two steps before, and that is
safe because a request whose order moved meanwhile has its invalidation on record,
and one without is still pending for the version that was reviewed (`StillPending`).

`TradingLimitsProofs` proves, for any owners, amounts and number of saves, ticks
and changes of the account: `TypeCorrect` (no settings with live trading and
without both limits), `WithinLimits` and `NoneOverwritten`. The guard reads three times
and decides at the end, so `IInv` says what the order satisfied by the time it
has come to each read, provided no violation was found so far (`Checked`), and
that the guard runs for a submission only once the row is stored (`Guarded`).
`FormsTrue`, that a form with the current version shows the current settings,
makes a save with the right version one that has seen what it replaces.

`SchwabAccessProofs` proves, for any accounts, owners and tokens: `TypeCorrect`,
`Distinct` and `Replaced`. Two accounts are shown ready from checks that ran at
different times, while the owner may have mapped and unmapped both. `ReportsApart`
therefore speaks of the checks of a report that are open as well: they keep the
mappings as they stood when the report began, which were distinct by
`MappingOK`. `Emptied` says that the cache is empty during a call's request only
because another call emptied it; without it `Replaced` is not preserved.

`RefreshPlanProofs` proves, for any finite set of orders, any groups, intervals,
failures and clicks: `TypeCorrect`, `NeverDead` and `PassedOnce`. `PassedOnce`
follows from `Behind`: who was attempted while an order waits is behind that
order in `rank`, hence is not the group's target again before it. That a group
with candidates has a target, the first of a set of numbers, is proved from the
least element of a well-founded order (`NatLessThanWellFounded`). `NeverDead` is
inductive with the types of request and timer.

`ViewProofs` proves about `OrderPages`, for any rows, times, filters and page sizes up to the
limit of 100: `TypeCorrect`, `PagesInOrder` and `PagesComplete`. First,
`InListOrderEffect`: counting the rows before each one is a bijection between a
finite set of rows and 1 to their number, so that the list names each of them
once and in order. `AnswerEffect` says from it what one page holds, and
`AfterCursor` that the condition on the cursor means "later in the list than its
last row". `IInv` adds `CursorOK`, that the cursor is made of the last row listed and
of what the reader asked for at first: the rows of the next page follow all that
are listed, and the rows that have been there throughout are either listed or
among those it looks for. It holds because a row never changes its time.

About `Overview` it proves, for any finite set of accounts and institutions, any
offers of holdings and any number of days: `OverviewTypeCorrect`, `Totals`,
`Shares` and `History`. All four compare sums over different finite sets, and a
sum is defined by recursion over the set. What the recursion computes is
established once, without an induction theorem, whose operator parameter the
provers cannot instantiate: the pairs of a subset and its sum are a set
(`AllSubsets`), the subsets without a sum, were there any, would include a least one
by well-foundedness of the natural numbers, and taking one element out of it
contradicts that it is the least (`AddsExists`, `AddsUnique`, `SumChosen`). From
`SumRemove`, that one element may be taken out of a sum, follow the lemmas the
theorems cite: equal terms have equal sums (`SumEqual`), a sum of ones counts
(`SumOnes`), a sum split by a key is the sum of its parts (`SumKeyed`, `SumParts`), and
rounded shares differ from the whole by at most half a unit each (`Rounding`,
`SumRounded`). The inductive invariant of `OverviewInvariance` adds to the types
one fact, that the day's row is that of the last answer where today's refresh gave
one (`Recorded`): `HistoryAgrees` needs it. The totals and the shares need the types
alone, because the overview is a function of what is stored.

The constants are constrained only by what the code has: sets of different
things are disjoint, `None` is none of them, bounds and sizes are numbers, sets
of orders and accounts are finite. `LimitsAssumption` has the number one among
the quantities, which is the holding the model begins with; the bounds on saves,
ticks and changes are any numbers. `Creation` numbers the orders without ties,
because the query sorts by id where times are equal.

Of the type invariants, those of `CancellationRequests` and `SchwabAccess` are not
inductive by themselves, and are part of `IInv`.

Only model-checked: `SubmissionSettles`, `CancellationResolves` and
`NoOrderStarves`, which are liveness under fairness. The two violations are
counterexamples, found by TLC; `LegalHistory` of `OrderUpdates` is false with two
processes and has no unconditional theorem, and for the property that
`cancellation_requests_race` violates there is none.

## Not modelled

Routes and tools beyond the services they call (validation, translation of
errors), views other than the refresh loop, adapters of providers, migrations,
configuration and fixtures; of the Schwab access, the exchange of the
authorization code and market data; of the overview, warnings and coverage; see
"components" in `PROJECT.json` for each part and the reason. A refresh that is
late may save older holdings over newer ones, and `refreshed_at` may go back:
nothing in the repository promises an order of runs, and the properties of
`PortfolioRefresh` speak of the run saved last, not of the one started last. A
confirmation replayed after a cancellation is listed as a hazard without a property.

Activity is paged by offset (`GET /api/activity`), so a refresh between two
pages makes rows at the border appear twice; nothing promises otherwise.

## Plan

1. `SubmissionLocks`: thread lock and file lock, refining the mutual exclusion
   `Submission` assumes; proof of mutual exclusion.
2. Composition of `OrderUpdates` with `CancellationRequests`, and of `SubmitOnce`
   with `TrackedOrder` to one abstract specification of an order's life.
