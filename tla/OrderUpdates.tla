---------------------------- MODULE OrderUpdates ----------------------------
(***************************************************************************)
(* What happens to one placed order: cancellations (runs of                *)
(* OrderCancellationService.cancel, in the dashboard's API or in the MCP   *)
(* server) and refreshes (runs of OrderReconciliationService.refresh)      *)
(* while the broker fills, expires or cancels it.                          *)
(*                                                                         *)
(* Granularity.  A process runs its coroutines on one event loop, so a     *)
(* store function is indivisible for the other coroutines of its process,  *)
(* and only for them: the database opens a transaction at the first write, *)
(* so what a function read before it can be stale when another process     *)
(* writes.  A guarded UPDATE is one step; a read followed by an UPDATE     *)
(* keyed by the order's id is two, between which the process is busy.      *)
(***************************************************************************)
EXTENDS Naturals, Sequences, OrderStates

CONSTANTS Cancels,    \* runs of cancel
          Refreshes,  \* runs of refresh
          Processes,  \* operating-system processes
          Host,       \* the process each run belongs to
          Quantity,   \* the order's quantity
          MaxFaults,  \* bound on process deaths and failed store calls
          None        \* no run

Actors == Cancels \cup Refreshes

ASSUME RunAssumption ==
  /\ Cancels \cap Refreshes = {}
  /\ None \notin Actors
  /\ Host \in [Actors -> Processes]

ASSUME SizeAssumption == Quantity \in Nat \ {0} /\ MaxFaults \in Nat

VARIABLES
  pc,      \* where each run is
  busy,    \* the run in the middle of a store call, by process
  turn,    \* holder of the service's asyncio lock for the order, by process
  row,     \* the row of orders
  latest,  \* the last run to record cancellation_requested
  gate,    \* the account's reconciliation gate is open
  seen,    \* the row a run last read
  found,   \* what the broker told a run
  sent,    \* the cancel requests that are on their way to the broker
  broker,  \* the order's history at the broker, empty if it never arrived
  faults   \* process deaths and failed store calls so far

local == <<seen, found>>
stored == <<row, latest, gate>>
outside == <<sent, broker>>
vars == <<pc, busy, turn, stored, local, outside, faults>>

\* The columns that decide; no fill is 0.
Rows == [state : OrderState, version : Nat, filled : 0..Quantity]

\* An ExecutionResult or a BrokerOrderSnapshot; Nothing stands for everything
\* that is stored as "no answer": errors, timeouts, answers about another order
\* and snapshots that are stale or malformed.
Answers == [state : OrderState \cup {"NONE"}, fill : 0..Quantity]
Nothing == [state |-> "NONE", fill |-> 0]

\* What a run that is not under way has read.
Unread == [state |-> "UNKNOWN", version |-> 0, filled |-> 0]

\* What the broker holds now.
AtBroker == broker[Len(broker)]

Labels == {"idle", "reviewed", "queued", "requesting", "awaiting", "finishing", "writing",
           "claiming", "gating", "looking", "applying", "done"}

Goto(a, l) == pc' = [pc EXCEPT ![a] = l]

Free(a) == busy[Host[a]] = None

\* A run ends and its locals with it.
End(a) ==
  /\ Goto(a, "done")
  /\ seen' = [seen EXCEPT ![a] = Unread]
  /\ found' = [found EXCEPT ![a] = Nothing]

\* The next cancel run of the process may take the asyncio lock.
EndTurn(c) == turn' = [turn EXCEPT ![Host[c]] = None]

-----------------------------------------------------------------------------
\* An order whose request was answered, or whose outcome is unknown: the broker
\* may have it, have refused it, or never have received it.
Init ==
  /\ pc = [a \in Actors |-> "idle"]
  /\ busy = [p \in Processes |-> None]
  /\ turn = [p \in Processes |-> None]
  /\ \E s \in {"ACCEPTED", "UNKNOWN"} :
       /\ row = [state |-> s, version |-> 2, filled |-> 0]
       /\ broker \in {<<[state |-> "ACCEPTED", fill |-> 0]>>}
                  \cup IF s = "UNKNOWN" THEN {<<>>, <<[state |-> "REJECTED", fill |-> 0]>>}
                       ELSE {}
  /\ latest = None
  /\ gate = TRUE
  /\ seen = [a \in Actors |-> Unread]
  /\ found = [a \in Actors |-> Nothing]
  /\ sent = {}
  /\ faults = 0

-----------------------------------------------------------------------------
(* Cancellation. *)

\* The owner reviews the order: expected_version and expected_state.
Review(c) ==
  /\ pc[c] = "idle"
  /\ seen' = [seen EXCEPT ![c] = row]
  /\ Goto(c, "reviewed")
  /\ UNCHANGED <<busy, turn, stored, found, outside, faults>>

\* cancel up to the lock: the capability is awaited and may refuse.
Capability(c) ==
  /\ pc[c] = "reviewed"
  /\ \/ Goto(c, "queued") /\ UNCHANGED local
     \/ End(c)
  /\ UNCHANGED <<busy, turn, stored, outside, faults>>

\* _can_cancel_decision, for an order the broker has given an id.
CanCancel(r) == r.state \in Open /\ (r.state = "PARTIALLY_FILLED" => r.filled < Quantity)

\* begin_order_cancellation, whose guarded UPDATE repeats its checks.
Begin(c) ==
  /\ pc[c] = "queued"
  /\ Free(c)
  /\ turn[Host[c]] = None
  /\ IF row.state = seen[c].state /\ row.version = seen[c].version /\ CanCancel(row)
       THEN /\ row' = [row EXCEPT !.state = "CANCEL_PENDING", !.version = @ + 1]
            /\ latest' = c
            /\ turn' = [turn EXCEPT ![Host[c]] = c]
            /\ Goto(c, "requesting")
            /\ UNCHANGED local
       ELSE /\ End(c)
            /\ UNCHANGED <<row, latest, turn>>
  /\ UNCHANGED <<busy, gate, outside, faults>>

\* cancel_order leaves for the broker.
Request(c) ==
  /\ pc[c] = "requesting"
  /\ Free(c)
  /\ sent' = sent \cup {c}
  /\ Goto(c, "awaiting")
  /\ UNCHANGED <<busy, turn, stored, local, broker, faults>>

AnswerOr(c, failure) ==
  /\ pc[c] = "awaiting"
  /\ \/ c \notin sent /\ UNCHANGED found
     \/ found' = [found EXCEPT ![c] = failure]
  /\ Goto(c, "finishing")
  /\ UNCHANGED <<busy, turn, stored, seen, outside, faults>>

\* Defects: no answer is taken for success; the request has no timeout.
AnswerOptimist(c) == AnswerOr(c, [Nothing EXCEPT !.state = "CANCELED"])
AnswerPatient(c) == c \notin sent /\ AnswerOr(c, found[c])

\* The broker's answer, or an exception, a cancellation or the ten seconds.
Answer(c) == AnswerOr(c, Nothing)

\* finish_order_cancellation, its reads.
FinishRead(c) ==
  /\ pc[c] = "finishing"
  /\ Free(c)
  /\ IF row.state = "CANCEL_PENDING" /\ latest = c
       THEN /\ seen' = [seen EXCEPT ![c] = row]
            /\ busy' = [busy EXCEPT ![Host[c]] = c]
            /\ Goto(c, "writing")
            /\ UNCHANGED <<turn, found>>
       ELSE /\ End(c)
            /\ EndTurn(c)
            /\ UNCHANGED busy
  /\ UNCHANGED <<stored, outside, faults>>

\* Defect: an answer that says nothing of the order is stored as it came.
ResolveRaw(r, f) == f

\* _resolve_cancellation_state: an answer about the fill that contradicts what
\* is stored, or the answer itself, leaves the order UNKNOWN.
Resolve(r, f) ==
  LET total == IF f.fill # 0 THEN f.fill ELSE r.filled
      fits == \/ f.state = "CANCELED" /\ total < Quantity
              \/ f.state = "FILLED" /\ f.fill = Quantity
              \/ f.state = "PARTIALLY_FILLED" /\ 0 < total /\ total < Quantity
              \/ f.state = "ACCEPTED" /\ total = 0
              \/ f.state = "EXPIRED" /\ f.fill < Quantity
      usable == f.state \in Open \cup {"CANCELED", "FILLED", "EXPIRED"} /\ total >= r.filled
  IN  [state |-> IF usable /\ fits THEN f.state ELSE "UNKNOWN",
       fill |-> IF usable THEN f.fill ELSE 0]

\* finish_order_cancellation, its writes: an UPDATE keyed by the id alone, of
\* the columns that changed since the row was read.
FinishWrite(c) ==
  LET was == seen[c]
      to == Resolve(was, found[c])
      filled == IF to.fill = 0 \/ to.fill = was.filled THEN row.filled ELSE to.fill
  IN  /\ pc[c] = "writing"
      /\ row' = [row EXCEPT !.state = to.state, !.version = was.version + 1,
                            !.filled = filled]
      /\ busy' = [busy EXCEPT ![Host[c]] = None]
      /\ EndTurn(c)
      /\ End(c)
      /\ UNCHANGED <<latest, gate, outside, faults>>

-----------------------------------------------------------------------------
(* Refresh. *)

\* refresh looks whether the order can be refreshed at all.
Start(r) ==
  /\ pc[r] = "idle"
  /\ Free(r)
  /\ IF row.state \in Syncable
       THEN Goto(r, "claiming") /\ busy' = [busy EXCEPT ![Host[r]] = r] /\ UNCHANGED local
       ELSE End(r) /\ UNCHANGED busy
  /\ UNCHANGED <<turn, stored, outside, faults>>

\* claim_order_reconciliation and claim_planned_order_reconciliation read the
\* order again, ...
ClaimRead(r) ==
  /\ pc[r] = "claiming"
  /\ seen' = [seen EXCEPT ![r] = row]
  /\ Goto(r, "gating")
  /\ UNCHANGED <<busy, turn, stored, found, outside, faults>>

\* ... then take the account's gate by a guarded upsert, unless it is closed or,
\* for the planned claim, another order of the account is due.
ClaimGate(r) ==
  /\ pc[r] = "gating"
  /\ busy' = [busy EXCEPT ![Host[r]] = None]
  /\ \/ /\ gate
        /\ gate' = FALSE
        /\ Goto(r, "looking")
        /\ UNCHANGED local
     \/ End(r) /\ UNCHANGED gate
  /\ UNCHANGED <<turn, row, latest, outside, faults>>

\* The provider's snapshot: of now or of an earlier moment, with or without a
\* fill, or UNKNOWN, or none that matches.
Snapshots ==
  {Nothing} \cup
  UNION {[state : {broker[i].state, "UNKNOWN"}, fill : {0, broker[i].fill}]
           : i \in DOMAIN broker}

Look(r) ==
  /\ pc[r] = "looking"
  /\ \E f \in Snapshots : found' = [found EXCEPT ![r] = f]
  /\ Goto(r, "applying")
  /\ UNCHANGED <<busy, turn, stored, seen, outside, faults>>

\* Defect: a state is stored with whatever fill there is.
AnyFillFits(state, filled) == TRUE

\* The fills that a reconciled state may be stored with.
FillFits(state, filled) ==
  /\ state = "FILLED" => filled = Quantity
  /\ state = "PARTIALLY_FILLED" => filled < Quantity

\* _finish_match and finish_order_reconciliation's checks, and the row they
\* produce: a snapshot that cannot be applied only advances the version.
Reconciled(s, f) ==
  LET to == IF s.state = "CANCEL_PENDING" /\ f.state \in Open THEN "CANCEL_PENDING"
            ELSE f.state
      filled == IF f.fill = 0 THEN s.filled ELSE f.fill
      applies == /\ f # Nothing
                 /\ to = s.state \/ MayMove(s.state, to)
                 /\ filled >= s.filled
                 /\ FillFits(to, filled)
  IN  IF applies
        THEN [state |-> to, version |-> s.version + 1, filled |-> filled]
        ELSE [s EXCEPT !.version = @ + 1]

\* finish_order_reconciliation: an UPDATE guarded by the version and the state
\* of the claim; otherwise ConcurrentOrderUpdate ends the refresh.
Apply(r) ==
  /\ pc[r] = "applying"
  /\ Free(r)
  /\ row' = IF row.version = seen[r].version /\ row.state = seen[r].state
              THEN Reconciled(seen[r], found[r]) ELSE row
  /\ End(r)
  /\ UNCHANGED <<busy, turn, latest, gate, outside, faults>>

-----------------------------------------------------------------------------
(* Faults and the world outside. *)

\* A store call fails and rolls back; a cancellation then stays unfinished.
StoreFails(a) ==
  /\ faults < MaxFaults
  /\ pc[a] \in {"queued", "finishing", "writing", "claiming", "gating", "applying"}
  /\ Free(a) \/ busy[Host[a]] = a
  /\ faults' = faults + 1
  /\ busy' = [busy EXCEPT ![Host[a]] = None]
  /\ turn' = [turn EXCEPT ![Host[a]] = IF @ = a THEN None ELSE @]
  /\ End(a)
  /\ UNCHANGED <<stored, outside>>

\* A process dies; what it sent stays sent.
Crash(p) ==
  /\ faults < MaxFaults
  /\ faults' = faults + 1
  /\ LET dead == {a \in Actors : Host[a] = p /\ pc[a] # "idle"} IN
       /\ pc' = [a \in Actors |-> IF a \in dead THEN "done" ELSE pc[a]]
       /\ seen' = [a \in Actors |-> IF a \in dead THEN Unread ELSE seen[a]]
       /\ found' = [a \in Actors |-> IF a \in dead THEN Nothing ELSE found[a]]
  /\ busy' = [busy EXCEPT ![p] = None]
  /\ turn' = [turn EXCEPT ![p] = None]
  /\ UNCHANGED <<stored, outside>>

\* Thirty seconds pass, longer than any store call lasts.
GateOpens ==
  /\ \A p \in Processes : busy[p] = None
  /\ ~gate
  /\ gate' = TRUE
  /\ UNCHANGED <<pc, busy, turn, row, latest, local, outside, faults>>

BrokerHas(s) == broker # <<>> /\ AtBroker.state \in s

\* The broker executes part of the order, or lets it expire.
Executes ==
  /\ BrokerHas(Open)
  /\ \/ broker' = Append(broker,
          [state |-> IF AtBroker.fill + 1 = Quantity THEN "FILLED" ELSE "PARTIALLY_FILLED",
           fill |-> AtBroker.fill + 1])
     \/ broker' = Append(broker, [AtBroker EXCEPT !.state = "EXPIRED"])
  /\ UNCHANGED <<pc, busy, turn, stored, local, sent, faults>>

\* The broker handles a cancel request, now or long after its run gave up, and
\* answers with what it then holds.
Handles(c) ==
  /\ c \in sent
  /\ broker # <<>>
  /\ sent' = sent \ {c}
  /\ \/ BrokerHas(Open) /\ broker' = Append(broker, [AtBroker EXCEPT !.state = "CANCELED"])
     \/ UNCHANGED broker
  /\ \E f \in {0, AtBroker.fill} :
       found' = IF pc[c] = "awaiting"
                  THEN [found EXCEPT ![c] = [state |-> broker'[Len(broker')].state,
                                             fill |-> f]]
                  ELSE found
  /\ UNCHANGED <<pc, busy, turn, stored, seen, faults>>

-----------------------------------------------------------------------------
CancelProgress(c) ==
  Capability(c) \/ Begin(c) \/ Request(c) \/ Answer(c) \/ FinishRead(c) \/ FinishWrite(c)

RefreshStep(r) == Start(r) \/ ClaimRead(r) \/ ClaimGate(r) \/ Look(r) \/ Apply(r)

World ==
  \/ \E a \in Actors : StoreFails(a)
  \/ \E p \in Processes : Crash(p)
  \/ GateOpens
  \/ Executes
  \/ \E c \in Cancels : Handles(c)

Next ==
  \/ \E c \in Cancels : Review(c) \/ CancelProgress(c)
  \/ \E r \in Refreshes : RefreshStep(r)
  \/ World

Spec == Init /\ [][Next]_vars

\* The event loops run what is ready, provider calls end within their timeouts.
Fairness ==
  /\ \A c \in Cancels : SF_vars(CancelProgress(c))
  /\ \A r \in Refreshes : SF_vars(RefreshStep(r))

FairSpec == Spec /\ Fairness

-----------------------------------------------------------------------------
(* Properties. *)

TypeOK ==
  /\ pc \in [Actors -> Labels]
  /\ busy \in [Processes -> Actors \cup {None}]
  /\ turn \in [Processes -> Cancels \cup {None}]
  /\ row \in Rows
  /\ latest \in Cancels \cup {None}
  /\ gate \in BOOLEAN
  /\ seen \in [Actors -> Rows]
  /\ found \in [Actors -> Answers]
  /\ sent \subseteq Cancels
  /\ broker \in Seq([state : OrderState, fill : 0..Quantity])
  /\ faults \in Nat

\* A final state is only ever stored when the broker has it: no interleaving of
\* cancellations, refreshes, late answers and outdated snapshots shows an order
\* as over that may still trade, or the fill of shares that were not bought.
FinalIsTrue ==
  /\ row.state \in Terminal => BrokerHas({row.state})
  /\ row.filled # 0 => broker # <<>> /\ row.filled <= AtBroker.fill

\* The stored order moves along require_transition's table, every write is a
\* new version, and the fill never decreases.
LegalHistory ==
  [][row' # row => /\ row'.state = row.state \/ MayMove(row.state, row'.state)
                   /\ row'.version = row.version + 1
                   /\ row'.filled >= row.filled]_vars

\* The order at the broker, NONE if it never arrived.
Held == IF broker = <<>> THEN Nothing ELSE AtBroker

Tracked == INSTANCE TrackedOrder
             WITH actual <- Held, known <- row, asked <- (latest # None)

\* The cancellations and refreshes of one process keep what TrackedOrder
\* promises: besides LegalHistory, the store notes an end only once it happened,
\* every cancellation at the broker comes after a recorded one, and no state is
\* stored with a fill that contradicts it.
ImplementsTrackedOrder == Tracked!Spec

\* A cancellation that started is resolved, whether or not the broker answers,
\* unless a store call failed or a process died on the way.
CancellationResolves ==
  row.state = "CANCEL_PENDING" ~> row.state # "CANCEL_PENDING" \/ faults > 0
=============================================================================
