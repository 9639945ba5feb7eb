--------------------------- MODULE TradingLimits ---------------------------
(***************************************************************************)
(* The trading settings (trading_safety.py, trading_settings_store.py),    *)
(* the guard that every order passes twice, and one order on its way from  *)
(* a draft to the broker (trading_service.py).                             *)
(*                                                                         *)
(* The settings are one row with a version.  An owner loads them into a    *)
(* form and saves the form; the save names the version that was loaded.    *)
(* The guard reads the settings, the account's capability and its stored   *)
(* positions in three transactions, so another process may write between   *)
(* them; it runs once for the draft and once more, after the order's row   *)
(* is stored and the last validator has answered, before the order is sent.*)
(***************************************************************************)
EXTENDS Integers

CONSTANTS Owners,        \* dashboards (or tabs) that edit the settings
          Shares,        \* share limits, order quantities and holdings, one share included
          Notionals,     \* notional limits
          Prices,        \* prices per share
          Choices,       \* bound: what an owner may type into the form
          QuoteLife,     \* how long the quote of a market order counts (60 s)
          DraftLife,     \* how long a draft may be submitted (5 min)
          MaxTime,       \* bound: ticks of the clock
          MaxVersion,    \* bound: saves of the settings
          MaxChanges     \* bound: changes of the account, by broker and refresh

ASSUME LimitsAssumption ==
    /\ Shares \subseteq Nat \ {0} /\ 1 \in Shares /\ Notionals \subseteq Nat \ {0}
    /\ Prices \subseteq Nat \ {0}
    /\ Choices \subseteq [live: BOOLEAN, kill: BOOLEAN,
                          shares: Shares \cup {0}, notional: Notionals \cup {0}]
    /\ {QuoteLife, DraftLife, MaxTime, MaxVersion, MaxChanges} \subseteq Nat

VARIABLES
    settings,   \* the stored row; version 0: there is no row yet
    form,       \* form[o]: the settings as o's dashboard last received them
    account,    \* what is stored of the account, and what the broker holds
    draft,      \* the order: what is asked for, its price, its two dates
    stage,      \* what the guard runs for: "draft" or "submit"
    pc,         \* the next step of the order
    found,      \* violations the running guard has found
    now,        \* the clock
    changes,    \* changes of the account so far
    okSince     \* history: the aspects under which the order was all right
                \* at some moment since its row was stored

vars == <<settings, form, account, draft, stage, pc, found, now, changes, okSince>>
world == <<settings, form, account, now, changes>>
order == <<draft, stage, pc, found>>

None == 0      \* no limit, no price: the real ones are positive
Sides == {"buy", "sell"}
Types == {"market", "limit"}

\* TradingSettingsService.replace: trading is enabled only with both limits
Valid(new) == new.live => new.shares # None /\ new.notional # None

Limits == {new \in [live: BOOLEAN, kill: BOOLEAN,
                    shares: Shares \cup {None}, notional: Notionals \cup {None}] : Valid(new)}
WithVersion(s, v) == [live |-> s.live, kill |-> s.kill, shares |-> s.shares,
                      notional |-> s.notional, version |-> v]
Settings == {WithVersion(s, v) : s \in Limits, v \in 0..MaxVersion}
NoRow == [live |-> FALSE, kill |-> TRUE, shares |-> None, notional |-> None,
          version |-> 0]

Init ==
    /\ settings = NoRow
    /\ form = [o \in Owners |-> NoRow]
    /\ account = [capability |-> Sides, held |-> 1, fresh |-> TRUE, broker |-> 1]
    /\ draft = [side |-> "buy", type |-> "limit", quantity |-> 1, price |-> None,
                observed |-> 0, expires |-> 0]
    /\ stage = "draft" /\ pc = "idle" /\ found = {}
    /\ now = 0 /\ changes = 0 /\ okSince = {}

-----------------------------------------------------------------------------
(* The settings                                                            *)

\* GET /api/trading/settings
Load(o) ==
    /\ form' = [form EXCEPT ![o] = settings]
    /\ UNCHANGED <<settings, account, now, changes>> /\ UNCHANGED order

\* Bug: the update does not look at the version.
UpdatedAnyVersion(o) == settings.version # 0

\* The insert of the first row, which does nothing when a row exists, and the
\* update, which asks for the version that was loaded
Inserted(o) == form[o].version = 0 /\ settings.version = 0
Updated(o) == settings.version # 0 /\ settings.version = form[o].version

\* Bug: one limit is enough to enable trading.
ValidWithOneLimit(new) == new.live => new.shares # None \/ new.notional # None
Accepted(new) == Valid(new)

\* PUT /api/trading/settings that is accepted: the row is replaced and returned.
\* The dashboard fetches the settings again and fills the form with what it gets:
\* this row, or through a Load before the next save a newer one
Save(o) == \E new \in Choices :
    /\ Accepted(new)
    /\ Inserted(o) \/ Updated(o)
    /\ form[o].version < MaxVersion
    /\ settings' = WithVersion(new, form[o].version + 1)
    /\ form' = [form EXCEPT ![o] = settings']
    /\ UNCHANGED <<account, now, changes>> /\ UNCHANGED order

-----------------------------------------------------------------------------
(* The guard                                                               *)

Notional(d) == d.quantity * d.price

\* What one read of the settings finds, the missing price included
SettingsViolations(s, d) ==
    {code \in {"trading_disabled", "kill_switch_active", "quote_unavailable",
               "share_limit_exceeded", "notional_limit_exceeded"} :
        \/ code = "trading_disabled" /\ ~s.live
        \/ code = "kill_switch_active" /\ s.kill
        \/ code = "quote_unavailable" /\ d.price = None
        \/ code = "share_limit_exceeded" /\ s.shares # None /\ d.quantity > s.shares
        \/ /\ code = "notional_limit_exceeded"
           /\ d.price # None /\ s.notional # None /\ Notional(d) > s.notional}

CapabilityViolations(d) ==
    {code \in {"capability_unavailable", "capability_unsupported"} :
        \/ code = "capability_unavailable" /\ account.capability = {}
        \/ /\ code = "capability_unsupported"
           /\ account.capability # {} /\ d.side \notin account.capability}

HoldingsViolations(d) ==
    {code \in {"insufficient_holdings"} :
        d.side = "sell" /\ ~(account.fresh /\ d.quantity <= account.held)}

\* The guard starts with nothing found
GuardFor(s) == stage' = s /\ pc' = "settings" /\ found' = {}

ReadSettings ==
    /\ pc = "settings"
    /\ found' = SettingsViolations(settings, draft)
    /\ pc' = "capability"
    /\ UNCHANGED <<draft, stage>> /\ UNCHANGED world

ReadCapability ==
    /\ pc = "capability"
    /\ found' = found \cup CapabilityViolations(draft)
    /\ pc' = "holdings"
    /\ UNCHANGED <<draft, stage>> /\ UNCHANGED world

\* The last read, and the decision
ReadHoldings ==
    /\ pc = "holdings"
    /\ found' = found \cup HoldingsViolations(draft)
    /\ pc' = CASE found' = {} /\ stage = "draft" -> "store"
               [] found' = {} /\ stage = "submit" -> "approved"
               [] OTHER -> "refused"
    /\ UNCHANGED <<draft, stage>> /\ UNCHANGED world

-----------------------------------------------------------------------------
(* The order                                                               *)

FreshAt(d, t) == d.type = "market" => t - d.observed \in 0..QuoteLife
UnexpiredAt(d, t) == t <= d.expires
Current(d) == UnexpiredAt(d, now) /\ FreshAt(d, now)

\* OrderDraftService.create: the input is valid and the quote is asked for
AskQuote ==
    /\ pc = "idle"
    /\ \E side \in Sides, type \in Types, quantity \in Shares :
         draft' = [draft EXCEPT !.side = side, !.type = type, !.quantity = quantity]
    /\ pc' = "quote"
    /\ UNCHANGED <<stage, found>> /\ UNCHANGED world

\* The quote, of any time, with or without the price this order needs; a limit
\* order brings its own price, and the quote's time (0 here) counts for nothing
QuoteArrives ==
    /\ pc = "quote"
    /\ \E price \in Prices \cup {None}, observed \in 0..MaxTime :
         /\ draft.type = "limit" => price # None /\ observed = 0
         /\ draft' = [draft EXCEPT !.price = price, !.observed = observed,
                                   !.expires = now + DraftLife]
    /\ IF FreshAt(draft', now)
       THEN GuardFor("draft")
       ELSE pc' = "refused" /\ UNCHANGED <<stage, found>>
    /\ UNCHANGED world

\* The draft is stored.  The capability is read once more, and asserted: it may
\* have gone since the guard read it
StoreDraft ==
    /\ pc = "store"
    /\ \/ pc' = "drafted"
       \/ account.capability = {} /\ pc' = "refused"
    /\ UNCHANGED <<draft, stage, found>> /\ UNCHANGED world

\* The validator that is shipped reads the broker's holdings.  Another one may be
\* injected and check less; the aspect "broker" below is then its own affair
ValidatorPasses == draft.side = "sell" => draft.quantity <= account.broker

\* _execute_submission: the first validation, then the broker's permission
Submit ==
    /\ pc = "drafted"
    /\ pc' = IF ValidatorPasses THEN "begin" ELSE "refused"
    /\ UNCHANGED <<draft, stage, found>> /\ UNCHANGED world

\* The broker may not permit it; a draft or quote out of date is not submitted
Begin ==
    /\ pc = "begin"
    /\ \/ pc' = IF Current(draft) THEN "insert" ELSE "refused"
       \/ pc' = "refused"
    /\ UNCHANGED <<draft, stage, found>> /\ UNCHANGED world

\* begin_order_submission: the order's row is stored; okSince starts
Insert ==
    /\ pc = "insert"
    /\ pc' = "recheck"
    /\ UNCHANGED <<draft, stage, found>> /\ UNCHANGED world

Recheck ==
    /\ pc = "recheck"
    /\ pc' = IF Current(draft) THEN "validate" ELSE "refused"
    /\ UNCHANGED <<draft, stage, found>> /\ UNCHANGED world

\* Bug: the guard ran for the draft already.
FinalWithoutGuard ==
    /\ pc = "validate"
    /\ pc' = IF ValidatorPasses THEN "approved" ELSE "refused"
    /\ UNCHANGED <<draft, stage, found>> /\ UNCHANGED world

\* The last validation, awaited; then the guard
Validate ==
    /\ pc = "validate"
    /\ IF ValidatorPasses
       THEN GuardFor("submit")
       ELSE pc' = "refused" /\ UNCHANGED <<stage, found>>
    /\ UNCHANGED draft /\ UNCHANGED world

\* The order is marked as started and goes to the broker
Send ==
    /\ pc = "approved"
    /\ pc' = "sent"
    /\ UNCHANGED <<draft, stage, found>> /\ UNCHANGED world

-----------------------------------------------------------------------------
(* The world around it                                                     *)

Holdings == {0} \cup Shares

Changed(a) ==
    /\ changes < MaxChanges /\ changes' = changes + 1
    /\ account' = a
    /\ UNCHANGED <<settings, form, now>> /\ UNCHANGED order

\* The account changes at the broker
BrokerChanges == \E n \in Holdings \ {account.broker} :
    Changed([account EXCEPT !.broker = n])

\* A refresh of the account that succeeds stores what the broker holds
Refreshed == \E c \in {{}, {"buy"}, Sides} :
    Changed([account EXCEPT !.held = account.broker, !.fresh = TRUE, !.capability = c])

\* One that fails marks what is stored as stale, the capability too
RefreshFailed ==
    Changed([account EXCEPT !.fresh = FALSE, !.capability = {}])

Tick ==
    /\ now < MaxTime /\ now' = now + 1
    /\ UNCHANGED <<settings, form, account, changes>> /\ UNCHANGED order

-----------------------------------------------------------------------------
\* What an order has to satisfy to be sent, stated on the state alone
WithinSettings ==
    /\ settings.live /\ ~settings.kill
    /\ draft.quantity <= settings.shares
    /\ draft.price # None /\ draft.quantity * draft.price <= settings.notional

Aspects == {"settings", "capability", "stored", "broker", "quote", "expiry"}
AllRight == {a \in Aspects :
    \/ a = "settings" /\ WithinSettings
    \/ a = "capability" /\ draft.side \in account.capability
    \/ /\ a = "stored"
       /\ draft.side = "sell" => account.fresh /\ draft.quantity <= account.held
    \/ a = "broker" /\ (draft.side = "sell" => draft.quantity <= account.broker)
    \/ a = "quote" /\ (draft.type = "market" => draft.observed \in (now - QuoteLife)..now)
    \/ a = "expiry" /\ now <= draft.expires}

\* An order whose row is stored and that is not settled yet, or is sent
OnItsWay == \/ pc \in {"recheck", "validate", "approved", "sent"}
            \/ stage = "submit" /\ pc \in {"settings", "capability", "holdings"}

Remember == okSince' = IF OnItsWay' THEN okSince \cup AllRight' ELSE {}

OrderStep == \/ AskQuote \/ QuoteArrives \/ StoreDraft
             \/ ReadSettings \/ ReadCapability \/ ReadHoldings
             \/ Submit \/ Begin \/ Insert \/ Recheck \/ Validate \/ Send
WorldStep == \/ \E o \in Owners : Load(o) \/ Save(o)
             \/ BrokerChanges \/ Refreshed \/ RefreshFailed \/ Tick

Next == (OrderStep \/ WorldStep) /\ Remember

Spec == Init /\ [][Next]_vars

-----------------------------------------------------------------------------
(* Properties                                                              *)

Steps == {"idle", "quote", "settings", "capability", "holdings", "store", "drafted",
          "begin", "insert", "recheck", "validate", "approved", "sent", "refused"}
Codes == {"trading_disabled", "kill_switch_active", "quote_unavailable",
          "share_limit_exceeded", "notional_limit_exceeded", "capability_unavailable",
          "capability_unsupported", "insufficient_holdings"}

\* Every variable has its type; among them: trading is never enabled, in the row
\* or in a form, without both limits.
TypeOK ==
    /\ settings \in Settings
    /\ form \in [Owners -> Settings]
    /\ account \in [capability: SUBSET Sides, held: Holdings, fresh: BOOLEAN,
                    broker: Holdings]
    /\ draft \in [side: Sides, type: Types, quantity: Shares, price: Prices \cup {None},
                  observed: 0..MaxTime, expires: 0..(MaxTime + DraftLife)]
    /\ stage \in {"draft", "submit"} /\ pc \in Steps /\ found \subseteq Codes
    /\ now \in 0..MaxTime /\ changes \in 0..MaxChanges /\ okSince \subseteq Aspects

\* Whoever replaces the settings had the replaced version on the screen, and has
\* the new one after: no save overwrites another one unseen, the first included
\* (replace_trading_settings).
NoLostUpdate == [][settings' # settings =>
    \E o \in Owners : form[o] = settings /\ form'[o] = settings']_vars

\* An order that is sent was, at some moment after its row was stored, within the
\* settings of that moment (enabled, no kill switch, both limits), allowed by the
\* account's capability, covered by the stored and by the broker's holdings, and
\* neither its quote nor its draft was out of date: what was found when the draft
\* was made, before the owner's confirmation, counts for none of it
\* (_execute_submission).
SentWithinLimits == pc = "sent" => okSince = Aspects
=============================================================================
