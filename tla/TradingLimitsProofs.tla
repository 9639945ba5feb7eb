------------------------- MODULE TradingLimitsProofs -------------------------
(***************************************************************************)
(* Proofs about TradingLimits for any number of owners, any limits,        *)
(* quantities, prices and lifetimes, and any number of saves, changes of   *)
(* the account and ticks of the clock.                                     *)
(***************************************************************************)
EXTENDS TradingLimits, TLAPS

\* A version names one content of the settings: a form that names the stored
\* version shows the stored settings.
FormsTrue ==
    \A o \in Owners :
        /\ form[o].version <= settings.version
        /\ form[o].version = settings.version => form[o] = settings

\* The guard runs for a submission only after the order's row was stored, and
\* nothing else runs then.
Guarded ==
    /\ stage = "submit" =>
         pc \in {"settings", "capability", "holdings", "approved", "sent", "refused"}
    /\ pc \in {"approved", "sent"} => stage = "submit"

\* What the order satisfied by the time it has come where it is.
Checked ==
    /\ pc = "validate" => {"quote", "expiry"} \subseteq okSince
    /\ stage = "submit" /\ pc \in {"settings", "capability", "holdings"} =>
         {"quote", "expiry", "broker"} \subseteq okSince
    /\ stage = "submit" /\ pc \in {"capability", "holdings"} /\ found = {} =>
         "settings" \in okSince
    /\ stage = "submit" /\ pc = "holdings" /\ found = {} => "capability" \in okSince
    /\ pc \in {"approved", "sent"} => okSince = Aspects

IInv == TypeOK /\ FormsTrue /\ Guarded /\ Checked

-----------------------------------------------------------------------------
(* Types. *)

\* What a save stores has the type of settings.
LEMMA SavedTyping ==
    ASSUME NEW new \in Choices, Accepted(new), NEW v \in 0..MaxVersion
    PROVE  WithVersion(new, v) \in Settings /\ WithVersion(new, v).version = v
<1>1. new \in Limits
  BY LimitsAssumption DEF Accepted, Limits, None
<1> QED
  BY <1>1 DEF Settings, WithVersion

\* Settings: the fields, and that trading is enabled only with both limits.
LEMMA SettingsFields ==
    ASSUME NEW s \in Settings
    PROVE  /\ s.version \in 0..MaxVersion
           /\ s.shares \in Shares \cup {None} /\ s.notional \in Notionals \cup {None}
           /\ s.live => s.shares # None /\ s.notional # None
<1>1. PICK l \in Limits, v \in 0..MaxVersion : s = WithVersion(l, v)
  BY DEF Settings
<1>2. s.version = v /\ s.shares = l.shares /\ s.notional = l.notional /\ s.live = l.live
  BY <1>1 DEF WithVersion
<1> QED
  BY <1>1, <1>2 DEF Limits, Valid

\* The row that is not there yet.
LEMMA NoRowTyping == NoRow \in Settings
<1> DEFINE l == [live |-> FALSE, kill |-> TRUE, shares |-> None, notional |-> None]
<1>1. l \in Limits
  BY DEF Limits, Valid
<1>2. NoRow = WithVersion(l, 0) /\ 0 \in 0..MaxVersion
  BY LimitsAssumption DEF NoRow, WithVersion
<1> QED
  BY <1>1, <1>2 DEF Settings

\* A save replaces the settings that the owner's form shows by the next version.
LEMMA SaveEffect ==
    ASSUME IInv, NEW o \in Owners, Save(o)
    PROVE  /\ settings' \in Settings /\ settings'.version = settings.version + 1
           /\ form[o] = settings
           /\ form' = [form EXCEPT ![o] = settings']
<1> PICK new \in Choices : /\ Accepted(new)
                           /\ Inserted(o) \/ Updated(o)
                           /\ form[o].version < MaxVersion
                           /\ settings' = WithVersion(new, form[o].version + 1)
                           /\ form' = [form EXCEPT ![o] = settings']
  BY DEF Save
<1>1. form[o].version = settings.version /\ form[o] = settings
  BY DEF IInv, FormsTrue, Inserted, Updated
<1>2. form[o].version + 1 \in 0..MaxVersion
  BY SettingsFields, LimitsAssumption DEF IInv, TypeOK
<1> QED
  BY <1>1, <1>2, SavedTyping

\* The types of an order's draft and of what is known of its account.
Drafts == [side: Sides, type: Types, quantity: Shares, price: Prices \cup {None},
           observed: 0..MaxTime, expires: 0..(MaxTime + DraftLife)]
Accounts == [capability: SUBSET Sides, held: Holdings, fresh: BOOLEAN, broker: Holdings]

\* A step of the order keeps every variable in its type.
LEMMA OrderTyping ==
    ASSUME TypeOK, OrderStep, Remember
    PROVE  TypeOK'
<1> okSince' \subseteq Aspects
  BY DEF TypeOK, Remember, AllRight
<1> USE DEF TypeOK, Steps
<1>1. CASE AskQuote
  <2>1. PICK side \in Sides, type \in Types, quantity \in Shares :
          draft' = [draft EXCEPT !.side = side, !.type = type, !.quantity = quantity]
    BY <1>1 DEF AskQuote
  <2>2. draft' \in Drafts
    BY <2>1 DEF Drafts
  <2> QED
    BY <1>1, <2>2 DEF AskQuote, world, Drafts
<1>2. CASE QuoteArrives
  <2>1. PICK price \in Prices \cup {None}, observed \in 0..MaxTime :
          draft' = [draft EXCEPT !.price = price, !.observed = observed,
                                 !.expires = now + DraftLife]
    BY <1>2 DEF QuoteArrives
  <2>2. now + DraftLife \in 0..(MaxTime + DraftLife)
    BY LimitsAssumption
  <2>3. draft' \in Drafts
    BY <2>1, <2>2 DEF Drafts
  <2> QED
    BY <1>2, <2>3 DEF QuoteArrives, GuardFor, world, Drafts
<1>3. CASE StoreDraft
  BY <1>3 DEF StoreDraft, world
<1>4. CASE ReadSettings
  BY <1>4 DEF ReadSettings, SettingsViolations, Codes, world
<1>5. CASE ReadCapability
  BY <1>5 DEF ReadCapability, CapabilityViolations, Codes, world
<1>6. CASE ReadHoldings
  <2>1. pc' \in {"store", "approved", "refused"}
    BY <1>6 DEF ReadHoldings
  <2> QED
    BY <1>6, <2>1 DEF ReadHoldings, HoldingsViolations, Codes, world
<1>7. CASE Submit
  BY <1>7 DEF Submit, world
<1>8. CASE Begin
  BY <1>8 DEF Begin, world
<1>9. CASE Insert
  BY <1>9 DEF Insert, world
<1>10. CASE Recheck
  BY <1>10 DEF Recheck, world
<1>11. CASE Validate
  BY <1>11 DEF Validate, GuardFor, world
<1>12. CASE Send
  BY <1>12 DEF Send, world
<1> QED
  BY <1>1, <1>2, <1>3, <1>4, <1>5, <1>6, <1>7, <1>8, <1>9, <1>10, <1>11, <1>12 DEF OrderStep

\* A step of the world around it keeps every variable in its type, and all forms
\* true.
LEMMA WorldTyping ==
    ASSUME IInv, WorldStep, Remember
    PROVE  TypeOK' /\ FormsTrue'
<1> okSince' \subseteq Aspects /\ TypeOK /\ FormsTrue
  BY DEF IInv, TypeOK, Remember, AllRight
<1>1. \A o \in Owners : form[o].version \in Nat /\ settings.version \in Nat
  BY SettingsFields, LimitsAssumption DEF TypeOK
<1>2. ASSUME NEW o \in Owners, Load(o) PROVE TypeOK' /\ FormsTrue'
  BY <1>1, <1>2 DEF Load, TypeOK, FormsTrue, order
<1>3. ASSUME NEW o \in Owners, Save(o) PROVE TypeOK' /\ FormsTrue'
  <2>1. /\ settings' \in Settings /\ settings'.version = settings.version + 1
        /\ form' = [form EXCEPT ![o] = settings']
    BY <1>3, SaveEffect
  <2>2. FormsTrue'
    BY <1>1, <2>1 DEF FormsTrue, TypeOK
  <2> QED
    BY <1>3, <2>1, <2>2 DEF Save, TypeOK, order
<1>4. ASSUME NEW a \in Accounts, Changed(a) PROVE TypeOK' /\ FormsTrue'
  <2>1. changes' \in 0..MaxChanges
    BY <1>4, LimitsAssumption DEF Changed, TypeOK
  <2> QED
    BY <1>4, <2>1 DEF Changed, TypeOK, FormsTrue, order, Accounts
<1>5. account \in Accounts
  BY DEF TypeOK, Accounts
<1>6. CASE BrokerChanges
  BY <1>4, <1>5, <1>6 DEF BrokerChanges, Accounts
<1>7. CASE Refreshed
  BY <1>4, <1>5, <1>7 DEF Refreshed, Accounts, Sides
<1>8. CASE RefreshFailed
  BY <1>4, <1>5, <1>8 DEF RefreshFailed, Accounts
<1>9. CASE Tick
  <2>1. now' \in 0..MaxTime
    BY <1>9, LimitsAssumption DEF Tick, TypeOK
  <2> QED
    BY <1>9, <2>1 DEF Tick, TypeOK, FormsTrue, order
<1> QED
  BY <1>2, <1>3, <1>6, <1>7, <1>8, <1>9 DEF WorldStep

-----------------------------------------------------------------------------
(* What the order satisfies. *)

\* While the order is on its way, everything that was right stays remembered,
\* and what is right now is remembered too.
LEMMA Remembers ==
    ASSUME Remember, OnItsWay'
    PROVE  okSince \subseteq okSince' /\ AllRight' \subseteq okSince'
BY DEF Remember

\* The settings the guard found nothing wrong with.
LEMMA NothingWrong ==
    ASSUME NEW s \in Settings, NEW d \in Drafts, SettingsViolations(s, d) = {}
    PROVE  /\ s.live /\ ~s.kill
           /\ d.quantity <= s.shares
           /\ d.price # None /\ d.quantity * d.price <= s.notional
<1>1. /\ s.live /\ ~s.kill
      /\ d.price # None
      /\ ~(s.shares # None /\ d.quantity > s.shares)
      /\ ~(d.price # None /\ s.notional # None /\ Notional(d) > s.notional)
  BY DEF SettingsViolations
<1>2. s.shares # None /\ s.notional # None
  BY <1>1, SettingsFields
<1>3. s.shares \in Nat /\ s.notional \in Nat /\ d.quantity \in Nat /\ d.price \in Nat
  <2>1. None \in Nat
    BY DEF None
  <2>2. s.shares \in Nat /\ s.notional \in Nat
    BY <2>1, SettingsFields, LimitsAssumption
  <2>3. d.quantity \in Nat /\ d.price \in Nat
    BY <2>1, LimitsAssumption DEF Drafts
  <2> QED
    BY <2>2, <2>3
<1>4. d.quantity * d.price \in Nat
  BY <1>3
<1> QED
  BY <1>1, <1>2, <1>3, <1>4 DEF Notional

\* The guard's read of the settings.
LEMMA SettingsRight ==
    ASSUME TypeOK, ReadSettings, found' = {}
    PROVE  "settings" \in AllRight'
<1>1. UNCHANGED <<settings, draft>>
  BY DEF ReadSettings, world
<1>2. WithinSettings
  BY NothingWrong DEF ReadSettings, TypeOK, WithinSettings, Drafts
<1>3. WithinSettings'
  BY <1>1, <1>2 DEF WithinSettings
<1> QED
  BY <1>3 DEF AllRight, Aspects

\* The guard's read of the capability.
LEMMA CapabilityRight ==
    ASSUME TypeOK, ReadCapability, found' = {}
    PROVE  found = {} /\ "capability" \in AllRight'
<1>1. UNCHANGED <<account, draft>>
  BY DEF ReadCapability, world
<1>2. CapabilityViolations(draft) = {} /\ found = {}
  BY DEF ReadCapability
<1>3. draft.side \in account.capability
  BY <1>2 DEF CapabilityViolations
<1> QED
  BY <1>1, <1>2, <1>3 DEF AllRight, Aspects

\* The guard's read of the holdings.
LEMMA HoldingsRight ==
    ASSUME TypeOK, ReadHoldings, found' = {}
    PROVE  found = {} /\ "stored" \in AllRight'
<1>1. UNCHANGED <<account, draft>>
  BY DEF ReadHoldings, world
<1>2. HoldingsViolations(draft) = {} /\ found = {}
  BY DEF ReadHoldings
<1>3. draft.side = "sell" => account.fresh /\ draft.quantity <= account.held
  BY <1>2 DEF HoldingsViolations
<1> QED
  BY <1>1, <1>2, <1>3 DEF AllRight, Aspects

\* The dates of a draft that is current.
LEMMA DatesRight ==
    ASSUME TypeOK, Current(draft), UNCHANGED <<draft, now>>
    PROVE  {"quote", "expiry"} \subseteq AllRight'
<1>1. now <= draft.expires
  BY DEF Current, UnexpiredAt
<1>2. ASSUME draft.type = "market"
      PROVE  draft.observed \in (now - QuoteLife)..now
  <2>1. now - draft.observed \in 0..QuoteLife
    BY <1>2 DEF Current, FreshAt
  <2>2. draft.observed \in Int /\ now \in Int
    BY DEF TypeOK
  <2> QED
    BY <2>1, <2>2, LimitsAssumption
<1> QED
  BY <1>1, <1>2 DEF AllRight, Aspects

\* The broker's holdings, when the validator passes.
LEMMA BrokerRight ==
    ASSUME ValidatorPasses, UNCHANGED <<draft, account>>
    PROVE  "broker" \in AllRight'
BY DEF ValidatorPasses, AllRight, Aspects

\* A step of the order after which it is not on its way to the broker.
LEMMA NotYet ==
    ASSUME stage' = "draft", pc' \notin {"validate", "approved", "sent"}
    PROVE  Guarded' /\ Checked'
BY DEF Guarded, Checked

\* An order that is refused satisfies everything.
LEMMA RefusedKept ==
    ASSUME pc' = "refused"
    PROVE  Guarded' /\ Checked'
BY DEF Guarded, Checked

\* A step of the order remembers what its next ones need.
LEMMA OrderChecked ==
    ASSUME IInv, OrderStep, Remember
    PROVE  Guarded' /\ Checked'
<1> TypeOK /\ Guarded /\ Checked
  BY DEF IInv
<1> stage \in {"draft", "submit"}
  BY DEF TypeOK
<1>1. CASE AskQuote
  BY <1>1, NotYet DEF AskQuote, Guarded
<1>2. CASE QuoteArrives
  BY <1>2, NotYet, RefusedKept DEF QuoteArrives, GuardFor
<1>3. CASE StoreDraft
  BY <1>3, NotYet DEF StoreDraft, Guarded
<1>4. CASE ReadSettings
  <2>1. pc = "settings" /\ pc' = "capability" /\ stage' = stage
    BY <1>4 DEF ReadSettings
  <2>2. CASE stage = "draft"
    BY <2>1, <2>2, NotYet
  <2>3. CASE stage = "submit"
    <3>1. okSince \subseteq okSince' /\ AllRight' \subseteq okSince'
      BY <2>1, <2>3, Remembers DEF OnItsWay
    <3>2. {"quote", "expiry", "broker"} \subseteq okSince'
      BY <2>1, <2>3, <3>1 DEF Checked
    <3>3. found' = {} => "settings" \in okSince'
      BY <1>4, <3>1, SettingsRight
    <3> QED
      BY <2>1, <2>3, <3>2, <3>3 DEF Guarded, Checked
  <2> QED
    BY <2>2, <2>3
<1>5. CASE ReadCapability
  <2>1. pc = "capability" /\ pc' = "holdings" /\ stage' = stage
    BY <1>5 DEF ReadCapability
  <2>2. CASE stage = "draft"
    BY <2>1, <2>2, NotYet
  <2>3. CASE stage = "submit"
    <3>1. okSince \subseteq okSince' /\ AllRight' \subseteq okSince'
      BY <2>1, <2>3, Remembers DEF OnItsWay
    <3>2. {"quote", "expiry", "broker"} \subseteq okSince'
      BY <2>1, <2>3, <3>1 DEF Checked
    <3>3. found' = {} => {"settings", "capability"} \subseteq okSince'
      BY <1>5, <2>1, <2>3, <3>1, CapabilityRight DEF Checked
    <3> QED
      BY <2>1, <2>3, <3>2, <3>3 DEF Guarded, Checked
  <2> QED
    BY <2>2, <2>3
<1>6. CASE ReadHoldings
  <2>1. pc = "holdings" /\ stage' = stage
    BY <1>6 DEF ReadHoldings
  <2>2. CASE found' = {} /\ stage = "draft"
    <3>1. pc' = "store"
      BY <1>6, <2>2 DEF ReadHoldings
    <3> QED
      BY <2>1, <2>2, <3>1, NotYet
  <2>3. CASE found' = {} /\ stage = "submit"
    <3>1. pc' = "approved"
      BY <1>6, <2>3 DEF ReadHoldings
    <3>2. okSince \subseteq okSince' /\ AllRight' \subseteq okSince'
      BY <3>1, Remembers DEF OnItsWay
    <3>3. found = {} /\ "stored" \in okSince'
      BY <1>6, <2>3, <3>2, HoldingsRight
    <3>4. {"quote", "expiry", "broker", "settings", "capability"} \subseteq okSince'
      BY <2>1, <2>3, <3>2, <3>3 DEF Checked
    <3>5. okSince' \subseteq Aspects
      BY DEF Remember, AllRight, TypeOK
    <3>6. okSince' = Aspects
      BY <3>3, <3>4, <3>5 DEF Aspects
    <3> QED
      BY <2>1, <2>3, <3>1, <3>6 DEF Guarded, Checked
  <2>4. CASE found' # {}
    <3>1. pc' = "refused"
      BY <1>6, <2>4 DEF ReadHoldings
    <3> QED
      BY <3>1, RefusedKept
  <2> QED
    BY <2>2, <2>3, <2>4
<1>7. CASE Submit
  BY <1>7, NotYet DEF Submit, Guarded
<1>8. CASE Begin
  BY <1>8, NotYet DEF Begin, Guarded
<1>9. CASE Insert
  BY <1>9, NotYet DEF Insert, Guarded
<1>10. CASE Recheck
  <2>1. stage' = "draft"
    BY <1>10 DEF Recheck, Guarded
  <2>2. CASE Current(draft)
    <3>1. pc' = "validate" /\ UNCHANGED <<draft, now>>
      BY <1>10, <2>2 DEF Recheck, world
    <3>2. {"quote", "expiry"} \subseteq okSince'
      BY <2>2, <3>1, Remembers, DatesRight DEF OnItsWay
    <3> QED
      BY <2>1, <3>1, <3>2 DEF Guarded, Checked
  <2>3. CASE ~Current(draft)
    BY <1>10, <2>3, RefusedKept DEF Recheck
  <2> QED
    BY <2>2, <2>3
<1>11. CASE Validate
  <2>1. CASE ValidatorPasses
    <3>1. pc' = "settings" /\ stage' = "submit" /\ UNCHANGED <<draft, account>>
      BY <1>11, <2>1 DEF Validate, GuardFor, world
    <3>2. {"quote", "expiry", "broker"} \subseteq okSince'
      BY <1>11, <2>1, <3>1, Remembers, BrokerRight DEF OnItsWay, Checked, Validate
    <3> QED
      BY <3>1, <3>2 DEF Guarded, Checked
  <2>2. CASE ~ValidatorPasses
    BY <1>11, <2>2, RefusedKept DEF Validate
  <2> QED
    BY <2>1, <2>2
<1>12. CASE Send
  <2>1. pc = "approved" /\ pc' = "sent" /\ stage' = stage
    BY <1>12 DEF Send
  <2>2. okSince \subseteq okSince' /\ okSince' \subseteq Aspects
    BY <2>1, Remembers DEF OnItsWay, Remember, AllRight, TypeOK
  <2> QED
    BY <2>1, <2>2 DEF Guarded, Checked
<1> QED
  BY <1>1, <1>2, <1>3, <1>4, <1>5, <1>6, <1>7, <1>8, <1>9, <1>10, <1>11, <1>12 DEF OrderStep

\* The world around it forgets nothing.
LEMMA WorldChecked ==
    ASSUME IInv, WorldStep, Remember
    PROVE  Guarded' /\ Checked'
<1>1. UNCHANGED <<stage, pc, found>>
  BY DEF WorldStep, Load, Save, BrokerChanges, Refreshed, RefreshFailed, Changed, Tick, order
<1>2. Guarded'
  BY <1>1 DEF IInv, Guarded
<1>3. ASSUME \/ pc \in {"validate", "approved", "sent"}
             \/ stage = "submit" /\ pc \in {"settings", "capability", "holdings"}
      PROVE  okSince \subseteq okSince' /\ okSince' \subseteq Aspects
  <2>1. OnItsWay'
    BY <1>1, <1>3 DEF OnItsWay
  <2> QED
    BY <2>1 DEF Remember, AllRight, IInv, TypeOK
<1>4. Checked
  BY DEF IInv
<1>5. Checked'
  <2>1. ASSUME pc = "validate" PROVE {"quote", "expiry"} \subseteq okSince'
    BY <1>3, <1>4, <2>1 DEF Checked
  <2>2. ASSUME stage = "submit", pc \in {"settings", "capability", "holdings"}
        PROVE  /\ {"quote", "expiry", "broker"} \subseteq okSince'
               /\ pc \in {"capability", "holdings"} /\ found = {} =>
                    "settings" \in okSince'
               /\ pc = "holdings" /\ found = {} => "capability" \in okSince'
    BY <1>3, <1>4, <2>2 DEF Checked
  <2>3. ASSUME pc \in {"approved", "sent"} PROVE okSince' = Aspects
    BY <1>3, <1>4, <2>3 DEF Checked
  <2> QED
    BY <1>1, <2>1, <2>2, <2>3 DEF Checked
<1> QED
  BY <1>2, <1>5

-----------------------------------------------------------------------------
(* The inductive invariant and what follows. *)

LEMMA Initially == Init => IInv
<1> SUFFICES ASSUME Init PROVE IInv
  OBVIOUS
<1>1. TypeOK
  <2>1. settings \in Settings /\ form \in [Owners -> Settings]
    BY NoRowTyping DEF Init
  <2>2. 0 \in 0..MaxTime /\ 0 \in 0..MaxChanges /\ 0 \in 0..(MaxTime + DraftLife)
    BY LimitsAssumption
  <2>3. account \in Accounts
    BY LimitsAssumption DEF Init, Accounts, Holdings
  <2>4. draft \in Drafts
    BY <2>2, LimitsAssumption DEF Init, Drafts, Sides, Types
  <2>5. stage \in {"draft", "submit"} /\ pc \in Steps /\ found \subseteq Codes
    BY DEF Init, Steps
  <2>6. now \in 0..MaxTime /\ changes \in 0..MaxChanges /\ okSince \subseteq Aspects
    BY <2>2 DEF Init
  <2> QED
    BY <2>1, <2>3, <2>4, <2>5, <2>6 DEF TypeOK, Accounts, Drafts
<1>2. FormsTrue
  <2>1. settings = NoRow /\ \A o \in Owners : form[o] = NoRow
    BY DEF Init
  <2>2. NoRow.version <= NoRow.version
    BY DEF NoRow
  <2> QED
    BY <2>1, <2>2 DEF FormsTrue
<1>3. Guarded /\ Checked
  BY DEF Init, Guarded, Checked
<1> QED
  BY <1>1, <1>2, <1>3 DEF IInv

LEMMA Inductive == IInv /\ [Next]_vars => IInv'
<1> SUFFICES ASSUME IInv, [Next]_vars PROVE IInv'
  OBVIOUS
<1>1. CASE OrderStep /\ Remember
  <2>1. UNCHANGED <<settings, form>>
    BY <1>1 DEF OrderStep, AskQuote, QuoteArrives, StoreDraft, ReadSettings, ReadCapability,
                ReadHoldings, Submit, Begin, Insert, Recheck, Validate, Send, world
  <2>2. FormsTrue'
    BY <2>1 DEF IInv, FormsTrue
  <2> QED
    BY <1>1, <2>2, OrderTyping, OrderChecked DEF IInv
<1>2. CASE WorldStep /\ Remember
  BY <1>2, WorldTyping, WorldChecked DEF IInv
<1>3. CASE UNCHANGED vars
  BY <1>3 DEF IInv, TypeOK, FormsTrue, Guarded, Checked, vars
<1> QED
  BY <1>1, <1>2, <1>3 DEF Next

\* Forms are never newer than the settings, and the order has satisfied what the
\* steps behind it look at.
THEOREM Invariance == Spec => []IInv
BY Initially, Inductive, PTL DEF Spec

\* Every variable keeps its type: no sequence of saves, from any number of
\* dashboards, enables trading without both limits.
THEOREM TypeCorrect == Spec => []TypeOK
<1>1. IInv => TypeOK
  BY DEF IInv
<1> QED
  BY <1>1, Invariance, PTL

\* Whatever owners save, refreshes store and the broker changes between the reads
\* of the guard, an order that is sent was under every aspect all right at some
\* moment since its row was stored.
THEOREM WithinLimits == Spec => []SentWithinLimits
<1>1. IInv => SentWithinLimits
  BY DEF IInv, Checked, SentWithinLimits
<1> QED
  BY <1>1, Invariance, PTL

\* Only a save replaces the settings.
LEMMA OnlySaves ==
    ASSUME IInv, Next, settings' # settings
    PROVE  \E o \in Owners : form[o] = settings /\ form'[o] = settings'
<1>1. PICK o \in Owners : Save(o)
  BY DEF Next, OrderStep, AskQuote, QuoteArrives, StoreDraft, ReadSettings, ReadCapability,
         ReadHoldings, Submit, Begin, Insert, Recheck, Validate, Send, world,
         WorldStep, Load, BrokerChanges, Refreshed, RefreshFailed, Changed, Tick
<1> QED
  BY <1>1, SaveEffect DEF IInv, TypeOK

\* Of any number of dashboards, the one whose save replaces the settings had the
\* replaced version on the screen and gets the new one.
THEOREM NoneOverwritten == Spec => NoLostUpdate
<1>1. IInv /\ [Next]_vars
        => [settings' # settings =>
              \E o \in Owners : form[o] = settings /\ form'[o] = settings']_vars
  BY OnlySaves
<1> QED
  BY <1>1, Invariance, PTL DEF Spec, NoLostUpdate
===============================================================================
