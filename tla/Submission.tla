----------------------------- MODULE Submission -----------------------------
(***************************************************************************)
(* Placing the order of a reviewed draft.  A call is one run of            *)
(* OrderSubmissionService.confirm (the dashboard's click) or of            *)
(* submit_authorized (the MCP tool with an owner's code); a sweep is one   *)
(* caller of recover_stranded_submissions.  Calls and sweeps live in       *)
(* processes that share one SQLite file and the per-draft ownership lock.  *)
(*                                                                         *)
(* Granularity.  The database library opens a transaction at the first     *)
(* write, so a store function that reads a row, checks it and assigns      *)
(* attributes is a read step and a write step; one that issues a guarded   *)
(* UPDATE or a keyed INSERT is one step.  Every await is a step boundary.  *)
(***************************************************************************)
EXTENDS Naturals, OrderStates

CONSTANTS Drafts,     \* drafts that may be submitted
          Confirms,   \* runs of confirm
          Authorized, \* runs of submit_authorized
          Sweeps,     \* callers of recover_stranded_submissions
          Processes,  \* operating-system processes
          Host,       \* the process each actor runs in
          MaxCrashes, \* bound on process deaths
          None        \* no actor, no draft

Calls == Confirms \cup Authorized
Actors == Calls \cup Sweeps

ASSUME ActorAssumption ==
  /\ Confirms \cap Authorized = {}
  /\ Calls \cap Sweeps = {}
  /\ Actors \cap Drafts = {}
  /\ None \notin Actors
  /\ None \notin Drafts
  /\ Host \in [Actors -> Processes]

ASSUME BoundAssumption == MaxCrashes \in Nat

VARIABLES
  pc,       \* where each actor is
  target,   \* the draft an actor works on
  lock,     \* holder of the submission lock of each draft
  state,    \* orders.state of the draft's order, "ABSENT" before there is a row
  version,  \* orders.version
  source,   \* orders.result_source
  started,  \* orders.provider_submission_started_at is set
  creator,  \* the call that inserted the order
  code,     \* an active MCP submit code exists for the draft
  expired,  \* the clock has passed the draft's expires_at
  seen,     \* the order version a call last read
  pending,  \* the result a call is about to store
  result,   \* what the call answered
  sends,    \* number of submit_order requests for the draft
  wire,     \* what became of the request at the broker
  todo,     \* the SUBMITTING orders a sweep has listed
  audit,    \* authorization_failed events, by call; draft_expired, by draft
  crashes   \* process deaths so far

order == <<state, version, source, started, creator>>
call == <<seen, pending, result>>
broker == <<sends, wire>>
world == <<code, expired, crashes>>
vars == <<pc, target, lock, order, call, broker, world, todo, audit>>

Sources == {"none", "LOCAL", "PROVIDER", "SYSTEM"}

\* A result to store; late: its code is draft_expired.
Outcomes == [state : OrderState, source : Sources, late : BOOLEAN]

Unknown == [state |-> "UNKNOWN", source |-> "SYSTEM", late |-> FALSE]

\* Before the order row exists; after it does; the steps outside the lock.
Early == {"claimed", "consuming", "validating", "ready"}
InFlight == {"created", "marking", "sending", "awaiting", "finishing", "writing"}
Locked == Early \cup InFlight \cup {"sweeping"}
Auditing == {"audit", "checkExpiry", "noteExpiry"}
Outside == {"idle", "scanning", "done"} \cup Auditing

Results == {"none", "placed", "existing", "in_progress", "lock_unavailable", "refused",
            "expired", "error", "crashed"}

Goto(a, l) == pc' = [pc EXCEPT ![a] = l]

Release(a) == lock' = [lock EXCEPT ![target[a]] = None]

\* The end of a call, which leaves the claim's context manager.
Leave(c, r) ==
  /\ Goto(c, "done")
  /\ Release(c)
  /\ result' = [result EXCEPT ![c] = r]

\* A TradingValidationError: confirm records it after the lock is released.
Refuse(c, r) ==
  /\ Goto(c, IF c \in Confirms THEN "audit" ELSE "done")
  /\ Release(c)
  /\ result' = [result EXCEPT ![c] = r]

-----------------------------------------------------------------------------
Init ==
  /\ pc = [a \in Actors |-> "idle"]
  /\ target = [a \in Actors |-> None]
  /\ lock = [d \in Drafts |-> None]
  /\ state = [d \in Drafts |-> "ABSENT"]
  /\ version = [d \in Drafts |-> 0]
  /\ source = [d \in Drafts |-> "none"]
  /\ started = [d \in Drafts |-> FALSE]
  /\ creator = [d \in Drafts |-> None]
  /\ code = [d \in Drafts |-> FALSE]
  /\ expired = [d \in Drafts |-> FALSE]
  /\ seen = [c \in Calls |-> 0]
  /\ pending = [c \in Calls |-> Unknown]
  /\ result = [c \in Calls |-> "none"]
  /\ sends = [d \in Drafts |-> 0]
  /\ wire = [d \in Drafts |-> "none"]
  /\ todo = [s \in Sweeps |-> {}]
  /\ audit = {}
  /\ crashes = 0

-----------------------------------------------------------------------------
(* The submission service. *)

\* _submission_claim: both locks are taken without waiting.  A lock file that
\* cannot be used refuses the call; neither refusal is audited.
Claim(c, d) ==
  /\ pc[c] = "idle"
  /\ target' = [target EXCEPT ![c] = d]
  /\ IF lock[d] = None
       THEN /\ Goto(c, "claimed")
            /\ lock' = [lock EXCEPT ![d] = c]
            /\ UNCHANGED result
       ELSE /\ Goto(c, "done")
            /\ result' = [result EXCEPT ![c] = "in_progress"]
            /\ UNCHANGED lock
  /\ UNCHANGED <<order, seen, pending, broker, world, todo, audit>>

LockUnavailable(c, d) ==
  /\ pc[c] = "idle"
  /\ target' = [target EXCEPT ![c] = d]
  /\ Goto(c, "done")
  /\ result' = [result EXCEPT ![c] = "lock_unavailable"]
  /\ UNCHANGED <<lock, order, seen, pending, broker, world, todo, audit>>

\* _confirm up to its first await: a bad confirmation refuses; an order that
\* exists is returned again; otherwise the submission starts.
ConfirmCheck(c) ==
  /\ c \in Confirms
  /\ pc[c] = "claimed"
  /\ \/ Refuse(c, "refused")
     \/ /\ state[target[c]] # "ABSENT"
        /\ Leave(c, "existing")
     \/ /\ state[target[c]] = "ABSENT"
        /\ Goto(c, "validating")
        /\ UNCHANGED <<lock, result>>
  /\ UNCHANGED <<target, order, seen, pending, broker, world, todo, audit>>

\* _submit_authorized before the code: an expired draft or an existing order
\* refuses and leaves the code unused.
AuthorizedCheck(c) ==
  /\ c \in Authorized
  /\ pc[c] = "claimed"
  /\ IF expired[target[c]] \/ state[target[c]] # "ABSENT"
       THEN Refuse(c, "refused")
       ELSE /\ Goto(c, "consuming")
            /\ UNCHANGED <<lock, result>>
  /\ UNCHANGED <<target, order, seen, pending, broker, world, todo, audit>>

\* consume_authorization: the guarded update takes the active code, or the
\* candidate is wrong, late or superseded.
ConsumeCode(c) ==
  /\ pc[c] = "consuming"
  /\ \/ /\ code[target[c]]
        /\ code' = [code EXCEPT ![target[c]] = FALSE]
        /\ Goto(c, "validating")
        /\ UNCHANGED <<lock, result>>
     \/ /\ Refuse(c, "refused")
        /\ UNCHANGED code
  /\ UNCHANGED <<target, order, seen, pending, broker, expired, crashes, todo, audit>>

\* An exception that is no refusal leaves the claim: an OSError is reported by
\* it as a lock that could not be had, any other as it is.
Raise(c) == \E r \in {"error", "lock_unavailable"} : Leave(c, r)

\* The validator and the capability are awaited; either may refuse or raise.
Validate(c) ==
  /\ pc[c] = "validating"
  /\ \/ Refuse(c, "refused")
     \/ Raise(c)
     \/ Goto(c, "ready") /\ UNCHANGED <<lock, result>>
  /\ UNCHANGED <<target, order, seen, pending, broker, world, todo, audit>>

\* begin_order_submission: one transaction inserts the authorization, the
\* order and its events; the unique draft_id turns a second insert into a read.
Begin(c) ==
  LET d == target[c] IN
  /\ pc[c] = "ready"
  /\ IF expired[d]
       THEN Refuse(c, "expired") /\ UNCHANGED <<order, seen>>
       ELSE IF state[d] # "ABSENT"
       THEN Leave(c, "existing") /\ UNCHANGED <<order, seen>>
       ELSE /\ state' = [state EXCEPT ![d] = "SUBMITTING"]
            /\ version' = [version EXCEPT ![d] = 1]
            /\ creator' = [creator EXCEPT ![d] = c]
            /\ seen' = [seen EXCEPT ![c] = 1]
            /\ Goto(c, "created")
            /\ UNCHANGED <<lock, result, source, started>>
  /\ UNCHANGED <<target, pending, broker, world, todo, audit>>

\* Defect: a late refusal answers like an early one and is not stored.
FinalCheckForgets(c) ==
  /\ pc[c] = "created"
  /\ \/ Refuse(c, "refused")
     \/ Raise(c)
     \/ Goto(c, "marking") /\ UNCHANGED <<lock, result>>
  /\ UNCHANGED <<target, order, seen, pending, broker, world, todo, audit>>

\* The last checks before the broker: a refusal is stored as a local
\* rejection; an exception leaves the order SUBMITTING.
FinalCheck(c) ==
  /\ pc[c] = "created"
  /\ \/ /\ Goto(c, "finishing")
        /\ pending' = [pending EXCEPT ![c] = [state |-> "REJECTED", source |-> "LOCAL",
                                               late |-> expired[target[c]]]]
        /\ UNCHANGED <<lock, result>>
     \/ Raise(c) /\ UNCHANGED pending
     \/ /\ ~expired[target[c]]
        /\ Goto(c, "marking")
        /\ UNCHANGED <<lock, result, pending>>
  /\ UNCHANGED <<target, order, seen, broker, world, todo, audit>>

\* The row a store function's guard asks for.
Matches(c) == state[target[c]] = "SUBMITTING" /\ version[target[c]] = seen[c]

\* mark_provider_submission_started: intent is committed before the request.
\* The row that is not found is the handler of ConcurrentOrderUpdate.
MarkStarted(c) ==
  /\ pc[c] = "marking"
  /\ IF Matches(c)
       THEN /\ started' = [started EXCEPT ![target[c]] = TRUE]
            /\ Goto(c, "sending")
            /\ UNCHANGED <<lock, result>>
       ELSE Leave(c, "existing") /\ UNCHANGED started
  /\ UNCHANGED <<target, state, version, source, creator, seen, pending, broker, world,
                 todo, audit>>

\* submit_order leaves for the broker.
Send(c) ==
  /\ pc[c] = "sending"
  /\ sends' = [sends EXCEPT ![target[c]] = @ + 1]
  /\ wire' = [wire EXCEPT ![target[c]] = "sent"]
  /\ Goto(c, "awaiting")
  /\ UNCHANGED <<target, lock, order, call, world, todo, audit>>

\* submit_order ends with a well-formed answer, or with what a timeout, a
\* cancellation or an unusable answer is stored as.
AnswerOr(c, failure) ==
  /\ pc[c] = "awaiting"
  /\ \E o \in Outcomes :
       /\ \/ /\ o.source = "PROVIDER" /\ ~o.late
             /\ \/ o.state \in Working /\ wire[target[c]] = "taken"
                \/ o.state = "REJECTED" /\ wire[target[c]] = "refused"
          \/ o = failure
       /\ pending' = [pending EXCEPT ![c] = o]
  /\ Goto(c, "finishing")
  /\ UNCHANGED <<target, lock, order, seen, result, broker, world, todo, audit>>

\* Defect: no answer is taken for a refusal.
AnswerPessimist(c) ==
  AnswerOr(c, [state |-> "REJECTED", source |-> "PROVIDER", late |-> FALSE])

Answer(c) == AnswerOr(c, Unknown)

\* finish_order_submission, its reads: the version and the transition.
FinishRead(c) ==
  /\ pc[c] = "finishing"
  /\ IF version[target[c]] = seen[c] /\ MayMove(state[target[c]], pending[c].state)
       THEN Goto(c, "writing") /\ UNCHANGED <<lock, result>>
       ELSE Leave(c, IF pending[c].source = "PROVIDER" THEN "existing" ELSE "error")
  /\ UNCHANGED <<target, order, seen, pending, broker, world, todo, audit>>

\* finish_order_submission, its writes, keyed by the order's id alone.
FinishWrite(c) ==
  LET d == target[c] IN
  /\ pc[c] = "writing"
  /\ state' = [state EXCEPT ![d] = pending[c].state]
  /\ source' = [source EXCEPT ![d] = pending[c].source]
  /\ version' = [version EXCEPT ![d] = seen[c] + 1]
  /\ audit' = audit \cup IF pending[c].late THEN {d} ELSE {}
  /\ \E r \in {"placed", "error"} :
       /\ r = "error" => pending[c] = Unknown
       /\ Leave(c, r)
  /\ UNCHANGED <<target, started, creator, seen, pending, broker, world, todo>>

\* A transaction fails and rolls back.  Once the intent is being marked the
\* service falls back to _unknown; failing in that, or before, it gives up.
StoreFails(c) ==
  /\ \/ /\ \/ pc[c] \in {"claimed", "consuming", "ready"}
           \/ pc[c] \in {"finishing", "writing"} /\ pending[c].source # "PROVIDER"
        /\ Leave(c, "error")
        /\ UNCHANGED pending
     \/ /\ \/ pc[c] = "marking"
           \/ pc[c] \in {"finishing", "writing"} /\ pending[c].source = "PROVIDER"
        /\ Goto(c, "finishing")
        /\ pending' = [pending EXCEPT ![c] = Unknown]
        /\ UNCHANGED <<lock, result>>
  /\ UNCHANGED <<target, order, seen, broker, world, todo, audit>>

\* confirm's except clause, after the claim: the authorization_failed event,
\* and, when the refusal was the draft's expiry, record_draft_expiry.
Audit(c) ==
  /\ pc[c] = "audit"
  /\ audit' = audit \cup {c}
  /\ Goto(c, IF result[c] = "expired" THEN "checkExpiry" ELSE "done")
  /\ UNCHANGED <<target, lock, order, call, broker, world, todo>>

\* record_draft_expiry looks for the draft_expired event of the draft (only a
\* confirm of another process could come between the two steps) ...
CheckExpiry(c) ==
  /\ pc[c] = "checkExpiry"
  /\ Goto(c, IF target[c] \in audit THEN "done" ELSE "noteExpiry")
  /\ UNCHANGED <<target, lock, order, call, broker, world, todo, audit>>

\* ... and inserts it: the unique key makes an IntegrityError of a second one.
NoteExpiry(c) ==
  /\ pc[c] = "noteExpiry"
  /\ audit' = audit \cup {target[c]}
  /\ result' = [result EXCEPT ![c] = IF target[c] \in audit THEN "error" ELSE @]
  /\ Goto(c, "done")
  /\ UNCHANGED <<target, lock, order, seen, pending, broker, world, todo>>

AuditFails(c) ==
  /\ pc[c] \in Auditing
  /\ result' = [result EXCEPT ![c] = "error"]
  /\ Goto(c, "done")
  /\ UNCHANGED <<target, lock, order, seen, pending, broker, world, todo, audit>>

-----------------------------------------------------------------------------
(* Recovery, at start-up and before every read of orders. *)

SweepList(s, found) ==
  /\ pc[s] = "idle"
  /\ found # {}
  /\ todo' = [todo EXCEPT ![s] = found]
  /\ Goto(s, "scanning")
  /\ UNCHANGED <<target, lock, order, call, broker, world, audit>>

\* Defect: only orders whose request was announced count as stranded.
SweepScanStarted(s) ==
  SweepList(s, {d \in Drafts : state[d] = "SUBMITTING" /\ started[d]})

\* The candidates are listed outside any lock.
SweepScan(s) == SweepList(s, {d \in Drafts : state[d] = "SUBMITTING"})

SweepTake(s, d, free) ==
  /\ pc[s] = "scanning"
  /\ d \in todo[s]
  /\ todo' = [todo EXCEPT ![s] = @ \ {d}]
  /\ IF free
       THEN /\ lock' = [lock EXCEPT ![d] = s]
            /\ target' = [target EXCEPT ![s] = d]
            /\ Goto(s, "sweeping")
       ELSE UNCHANGED <<lock, target, pc>>
  /\ UNCHANGED <<order, call, broker, world, audit>>

\* Defect: recovery does not ask who owns the submission.
SweepClaimAny(s, d) == SweepTake(s, d, TRUE)

\* Each candidate needs its lock; one that is owned is skipped.
SweepClaim(s, d) == SweepTake(s, d, lock[d] = None)

SweepStore(s, to, step) ==
  LET d == target[s] IN
  /\ pc[s] = "sweeping"
  /\ IF state[d] = "SUBMITTING"
       THEN /\ state' = [state EXCEPT ![d] = to]
            /\ source' = [source EXCEPT ![d] = "SYSTEM"]
            /\ version' = [version EXCEPT ![d] = @ + step]
       ELSE UNCHANGED <<state, source, version>>
  /\ Release(s)
  /\ Goto(s, "scanning")
  /\ UNCHANGED <<target, started, creator, call, broker, world, todo, audit>>

\* Defects: recovery clears the way for another try, believes an announced
\* request was accepted, forgets the version, or stores a state of its own.
SweepRetries(s) == SweepStore(s, "ABSENT", 1)
SweepBelieves(s) == SweepStore(s, IF started[target[s]] THEN "ACCEPTED" ELSE "UNKNOWN", 1)
SweepSilent(s) == SweepStore(s, "UNKNOWN", 0)
SweepLabels(s) == SweepStore(s, "STRANDED", 1)

\* The row is read again and updated under its version and state.  (An order
\* that is SUBMITTING has no cancellation request to invalidate.)
SweepRecover(s) == SweepStore(s, "UNKNOWN", 1)

SweepEnd(s) ==
  /\ pc[s] = "scanning"
  /\ todo[s] = {}
  /\ Goto(s, "idle")
  /\ UNCHANGED <<target, lock, order, call, broker, world, todo, audit>>

\* A lock file or a transaction that fails ends the whole sweep.
SweepFails(s) ==
  /\ \/ pc[s] = "scanning" /\ todo[s] # {} /\ UNCHANGED lock
     \/ pc[s] = "sweeping" /\ Release(s)
  /\ Goto(s, "idle")
  /\ todo' = [todo EXCEPT ![s] = {}]
  /\ UNCHANGED <<target, order, call, broker, world, audit>>

-----------------------------------------------------------------------------
(* The world outside the services. *)

\* The dashboard issues an MCP code: create_mcp_authorization's checks.
IssueCode(d) ==
  /\ ~code[d]
  /\ ~expired[d]
  /\ state[d] = "ABSENT"
  /\ code' = [code EXCEPT ![d] = TRUE]
  /\ UNCHANGED <<pc, target, lock, order, call, broker, expired, crashes, todo, audit>>

Expire(d) ==
  /\ ~expired[d]
  /\ expired' = [expired EXCEPT ![d] = TRUE]
  /\ UNCHANGED <<pc, target, lock, order, call, broker, code, crashes, todo, audit>>

\* The broker decides on a request it received, whoever still waits for it.
\* A request that stays "sent" was lost.
BrokerDecides(d) ==
  /\ wire[d] = "sent"
  /\ \E w \in {"taken", "refused"} : wire' = [wire EXCEPT ![d] = w]
  /\ UNCHANGED <<pc, target, lock, order, call, sends, world, todo, audit>>

\* A process dies: its calls are lost and the kernel drops its locks.
Crash(p) ==
  LET dead == {a \in Actors : Host[a] = p /\ pc[a] \notin {"idle", "done"}} IN
  /\ crashes < MaxCrashes
  /\ dead # {}
  /\ crashes' = crashes + 1
  /\ pc' = [a \in Actors |-> IF a \notin dead THEN pc[a]
                             ELSE IF a \in Sweeps THEN "idle" ELSE "done"]
  /\ result' = [c \in Calls |-> IF c \in dead THEN "crashed" ELSE result[c]]
  /\ lock' = [d \in Drafts |-> IF lock[d] \in dead THEN None ELSE lock[d]]
  /\ todo' = [s \in Sweeps |-> IF s \in dead THEN {} ELSE todo[s]]
  /\ UNCHANGED <<target, order, seen, pending, broker, code, expired, audit>>

-----------------------------------------------------------------------------
\* What a call does by itself once it holds the lock, store failures aside.
CallProgress(c) ==
  \/ ConfirmCheck(c) \/ AuthorizedCheck(c) \/ ConsumeCode(c) \/ Validate(c)
  \/ Begin(c) \/ FinalCheck(c) \/ MarkStarted(c) \/ Send(c) \/ Answer(c)
  \/ FinishRead(c) \/ FinishWrite(c) \/ Audit(c) \/ CheckExpiry(c) \/ NoteExpiry(c)

CallStep(c) ==
  \/ \E d \in Drafts : Claim(c, d) \/ LockUnavailable(c, d)
  \/ CallProgress(c)
  \/ StoreFails(c)
  \/ AuditFails(c)

SweepStep(s) ==
  \/ SweepScan(s) \/ SweepRecover(s) \/ SweepEnd(s) \/ SweepFails(s)
  \/ \E d \in Drafts : SweepClaim(s, d)

World ==
  \/ \E d \in Drafts : IssueCode(d) \/ Expire(d) \/ BrokerDecides(d)
  \/ \E p \in Processes : Crash(p)

Next ==
  \/ \E c \in Calls : CallStep(c)
  \/ \E s \in Sweeps : SweepStep(s)
  \/ World

Spec == Init /\ [][Next]_vars

\* The event loop runs every coroutine that is ready, the provider's client
\* answers or raises, the dashboard polls orders (so recovery runs again and
\* again) and the database and lock files do not fail for ever.
Fairness ==
  /\ \A c \in Calls : WF_vars(CallProgress(c))
  /\ \A s \in Sweeps : /\ WF_vars(SweepScan(s) \/ SweepEnd(s))
                       /\ SF_vars(SweepRecover(s))
                       /\ \A d \in Drafts : SF_vars(SweepClaim(s, d))

FairSpec == Spec /\ Fairness

-----------------------------------------------------------------------------
(* Properties. *)

TypeOK ==
  /\ pc \in [Actors -> Locked \cup Outside]
  /\ target \in [Actors -> Drafts \cup {None}]
  /\ lock \in [Drafts -> Actors \cup {None}]
  /\ state \in [Drafts -> OrderState \cup {"ABSENT"}]
  /\ version \in [Drafts -> Nat]
  /\ source \in [Drafts -> Sources]
  /\ started \in [Drafts -> BOOLEAN]
  /\ creator \in [Drafts -> Calls \cup {None}]
  /\ code \in [Drafts -> BOOLEAN]
  /\ expired \in [Drafts -> BOOLEAN]
  /\ seen \in [Calls -> Nat]
  /\ pending \in [Calls -> Outcomes]
  /\ result \in [Calls -> Results]
  /\ sends \in [Drafts -> Nat]
  /\ wire \in [Drafts -> {"none", "sent", "taken", "refused"}]
  /\ todo \in [Sweeps -> SUBSET Drafts]
  /\ audit \subseteq Calls \cup Drafts
  /\ crashes \in Nat

\* However calls, recovery, crashes and store failures interleave, the broker
\* receives at most one submit_order request for a draft, and only after the
\* intent to send it was committed: a request without provider_submission_
\* started_at could never be found again by reconciliation.
AtMostOneSubmission ==
  \A d \in Drafts : sends[d] <= 1 /\ (sends[d] = 1 => started[d])

\* A call between begin_order_submission and its last write finds the order
\* as it left it: recovery and other calls never touch a live submission, so
\* the unguarded write of finish_order_submission cannot lose an update.
OwnerUndisturbed ==
  \A c \in Calls : pc[c] \in InFlight => Matches(c)

\* What the record says is what happened: a local rejection was never sent, an
\* order shown as working is at the broker and one shown as rejected is not.
RecordTruthful ==
  \A d \in Drafts :
    /\ source[d] = "LOCAL" => sends[d] = 0
    /\ state[d] \in Working => wire[d] = "taken"
    /\ state[d] = "REJECTED" => wire[d] # "taken"

\* A call that is told no (busy, refused or expired), or whose failure is in
\* the audit trail, has placed nothing.  One that is told the lock could not be
\* had may have inserted its order, for an OSError of the last validation is
\* reported so; but nothing of that order was sent or ever will be, whoever
\* tries again or recovers it.  confirm audits every refusal it answers with,
\* unless the refusal is about the lock.
RefusalIsFinal ==
  \A c \in Calls :
    /\ result[c] \in {"in_progress", "refused", "expired"} \/ c \in audit
         => \A d \in Drafts : creator[d] # c
    /\ result[c] = "lock_unavailable"
         => \A d \in Drafts : creator[d] = c => ~started[d] /\ sends[d] = 0
    /\ c \in Confirms /\ pc[c] = "done" /\ result[c] \in {"refused", "expired"}
         => c \in audit
    /\ result[c] \in {"in_progress", "lock_unavailable"} => c \notin audit

\* A stored order only moves along require_transition's table, one version at
\* a time, and what it was stored with is never taken back.
LegalHistory ==
  [][\A d \in Drafts :
       /\ state[d] # "ABSENT" /\ state'[d] # state[d]
            => MayMove(state[d], state'[d]) /\ version'[d] = version[d] + 1
       /\ started[d] => started'[d]
       /\ creator[d] # None => creator'[d] = creator[d]]_vars

\* No order stays SUBMITTING for ever: its call stores a result, or recovery
\* finds it once the call's lock is gone.
SubmissionSettles ==
  \A d \in Drafts : state[d] = "SUBMITTING" ~> state[d] # "SUBMITTING"

\* Submission implements SubmitOnce: the order row is the recorded order and
\* the requests that left for the broker are the deliveries.
Once == INSTANCE SubmitOnce WITH order <- state, deliveries <- sends

ImplementsSubmitOnce == Once!Spec
=============================================================================
