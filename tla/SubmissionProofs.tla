-------------------------- MODULE SubmissionProofs --------------------------
(***************************************************************************)
(* Proofs about Submission for any number of drafts, calls, sweeps and     *)
(* processes.  Everything rests on one inductive invariant, IInv: an actor *)
(* between taking and releasing a draft's lock holds it alone, and a call  *)
(* past begin_order_submission finds the order exactly as it inserted it.  *)
(***************************************************************************)
EXTENDS Submission, TLAPS

Refused == {"in_progress", "refused", "expired"}

\* Sweeps and calls keep to their own steps.
StepsApart ==
  /\ \A s \in Sweeps : pc[s] \in {"idle", "scanning", "sweeping"}
  /\ \A c \in Calls : /\ pc[c] \notin {"scanning", "sweeping"}
                      /\ pc[c] # "idle" => target[c] \in Drafts

\* Whoever is past the claim holds the lock of its draft.
Ownership ==
  \A a \in Actors : pc[a] \in Locked => target[a] \in Drafts /\ lock[target[a]] = a

\* What a call in flight knows of its order and of the broker.
FlightOf(c) ==
  pc[c] \in InFlight =>
    /\ Matches(c)
    /\ creator[target[c]] = c
    /\ pc[c] \in {"created", "marking", "sending"} => sends[target[c]] = 0
    /\ pc[c] = "created" => ~started[target[c]]
    /\ pc[c] = "sending" => started[target[c]]
    /\ pc[c] \in {"finishing", "writing"} =>
         /\ MayMove("SUBMITTING", pending[c].state)
         /\ pending[c].source = "LOCAL" => sends[target[c]] = 0
         /\ pending[c].state \in Working => wire[target[c]] = "taken"
         /\ pending[c].state = "REJECTED" => wire[target[c]] \in {"none", "refused"}

Flight == \A c \in Calls : FlightOf(c)

\* What the order's row says of the broker.
RecordOf(d) ==
  /\ sends[d] \in {0, 1}
  /\ sends[d] = 0 <=> wire[d] = "none"
  /\ sends[d] = 1 => started[d]
  /\ state[d] = "ABSENT" => sends[d] = 0 /\ creator[d] = None /\ ~started[d]
  /\ state[d] \in {"ABSENT", "SUBMITTING"} => source[d] = "none"
  /\ source[d] = "LOCAL" => sends[d] = 0
  /\ state[d] \in Working => wire[d] = "taken"
  /\ state[d] = "REJECTED" => wire[d] \in {"none", "refused"}

Record == \A d \in Drafts : RecordOf(d)

\* What a call answers, whom it leaves an order for, and its audit event.
AnswersOf(c) ==
  /\ result[c] # "none" => pc[c] \in Auditing \cup {"done"}
  /\ \A d \in Drafts :
       creator[d] = c => \/ pc[c] \in InFlight /\ target[c] = d
                         \/ pc[c] = "done" /\ result[c] \notin Refused /\ c \notin audit
  /\ pc[c] = "audit" => result[c] \in {"refused", "expired"}
  /\ pc[c] \in {"checkExpiry", "noteExpiry"} => c \in audit /\ result[c] = "expired"
  /\ pc[c] \notin {"checkExpiry", "noteExpiry", "done"} => c \notin audit
  /\ pc[c] = "done" /\ c \in Confirms /\ result[c] \in {"refused", "expired"} => c \in audit
  /\ result[c] \in {"in_progress", "lock_unavailable"} => c \notin audit

Answers == \A c \in Calls : AnswersOf(c)

\* The order of a call that was told its lock could not be had stays unsent.
UnsentOf(c) ==
  result[c] = "lock_unavailable" => \A d \in Drafts : creator[d] = c => ~started[d]

Unsent == \A c \in Calls : UnsentOf(c)

IInv == TypeOK /\ StepsApart /\ Ownership /\ Flight /\ Record /\ Answers /\ Unsent

-----------------------------------------------------------------------------
(* How calls and actors move. *)

\* The variables through which a call leaves the lock.
ControlOK ==
  /\ pc \in [Actors -> Locked \cup Outside]
  /\ lock \in [Drafts -> Actors \cup {None}]
  /\ result \in [Calls -> Results]

\* A step to a known label keeps pc a function to labels.
LEMMA GotoTyping ==
  ASSUME TypeOK, NEW a \in Actors, NEW l \in Locked \cup Outside, Goto(a, l)
  PROVE  pc' \in [Actors -> Locked \cup Outside]
BY DEF TypeOK, Goto

\* Giving a lock up keeps its holder an actor or nobody.
LEMMA ReleaseTyping ==
  ASSUME TypeOK, NEW a \in Actors, Release(a)
  PROVE  lock' \in [Drafts -> Actors \cup {None}]
BY DEF TypeOK, Release

\* A step that keeps the lock and answers nothing keeps control well typed.
LEMMA StayTyping ==
  ASSUME TypeOK, NEW a \in Actors, NEW l \in Locked \cup Outside, Goto(a, l),
         UNCHANGED <<lock, result>>
  PROVE  ControlOK'
BY GotoTyping DEF TypeOK, ControlOK

\* So does the end of a call, which releases the lock and answers.
LEMMA LeaveTyping ==
  ASSUME TypeOK, NEW c \in Calls, NEW r \in Results, Leave(c, r)
  PROVE  ControlOK'
<1> "done" \in Locked \cup Outside /\ c \in Actors
  BY DEF Outside, Auditing, Actors
<1>1. lock' \in [Drafts -> Actors \cup {None}] /\ pc' \in [Actors -> Locked \cup Outside]
  BY GotoTyping, ReleaseTyping DEF Leave
<1>2. result' \in [Calls -> Results]
  BY DEF TypeOK, Leave
<1> QED
  BY <1>1, <1>2 DEF ControlOK

\* So does a refusal, which goes on to the audit.
LEMMA RefuseTyping ==
  ASSUME TypeOK, NEW c \in Calls, NEW r \in Results, Refuse(c, r)
  PROVE  ControlOK'
<1> {"done", "audit"} \subseteq Locked \cup Outside /\ c \in Actors
  BY DEF Outside, Auditing, Actors
<1>1. lock' \in [Drafts -> Actors \cup {None}] /\ pc' \in [Actors -> Locked \cup Outside]
  BY GotoTyping, ReleaseTyping DEF Refuse
<1>2. result' \in [Calls -> Results]
  BY DEF TypeOK, Refuse
<1> QED
  BY <1>1, <1>2 DEF ControlOK

\* The labels and answers, spelled out.
LEMMA Labels ==
  /\ {"claimed", "consuming", "validating", "ready", "created", "marking", "sending",
      "awaiting", "finishing", "writing", "sweeping", "idle", "scanning", "audit",
      "checkExpiry", "noteExpiry", "done"} = Locked \cup Outside
  /\ {"placed", "existing", "in_progress", "lock_unavailable", "refused", "expired",
      "error", "crashed"} \subseteq Results
BY DEF Locked, Outside, Auditing, Early, InFlight, Results

\* Whoever is past the claim works on a draft whose lock it holds.
LEMMA Held ==
  ASSUME Ownership, NEW a \in Actors, pc[a] \in Locked
  PROVE  target[a] \in Drafts /\ lock[target[a]] = a
BY DEF Ownership

\* What _unknown stores is a result.
LEMMA UnknownTyping == Unknown \in Outcomes
BY DEF Unknown, Outcomes, OrderState, Sources

\* Every action keeps every variable in its type; where an action writes at
\* target, ownership says that this is a draft.
LEMMA TypeStep == IInv /\ Next => TypeOK'
<1> SUFFICES ASSUME IInv, Next PROVE TypeOK'
  OBVIOUS
<1> USE Labels DEF IInv
<1> Calls \subseteq Actors /\ Sweeps \subseteq Actors
  BY DEF Actors
<1>1. ASSUME NEW c \in Calls, NEW d \in Drafts, Claim(c, d) PROVE TypeOK'
  <2>1. ControlOK'
    BY <1>1, GotoTyping DEF Claim, ControlOK, TypeOK
  <2>2. QED
    BY <1>1, <2>1 DEF ControlOK, TypeOK, Claim, order, call, broker, world
<1>2. ASSUME NEW c \in Calls, NEW d \in Drafts, LockUnavailable(c, d) PROVE TypeOK'
  <2>1. ControlOK'
    BY <1>2, GotoTyping DEF LockUnavailable, ControlOK, TypeOK
  <2>2. QED
    BY <1>2, <2>1 DEF ControlOK, TypeOK, LockUnavailable, order, call, broker, world
<1>3. ASSUME NEW c \in Calls, ConfirmCheck(c) PROVE TypeOK'
  <2>1. ControlOK'
    BY <1>3, StayTyping, LeaveTyping, RefuseTyping DEF ConfirmCheck
  <2>2. QED
    BY <1>3, <2>1 DEF ControlOK, TypeOK, ConfirmCheck, order, call, broker, world
<1>4. ASSUME NEW c \in Calls, AuthorizedCheck(c) PROVE TypeOK'
  <2>1. ControlOK'
    BY <1>4, StayTyping, LeaveTyping, RefuseTyping DEF AuthorizedCheck
  <2>2. QED
    BY <1>4, <2>1 DEF ControlOK, TypeOK, AuthorizedCheck, order, call, broker, world
<1>5. ASSUME NEW c \in Calls, ConsumeCode(c) PROVE TypeOK'
  <2>1. ControlOK'
    BY <1>5, StayTyping, LeaveTyping, RefuseTyping DEF ConsumeCode
  <2>2. QED
    BY <1>5, <2>1 DEF ControlOK, TypeOK, ConsumeCode, order, call, broker, world
<1>6. ASSUME NEW c \in Calls, Validate(c) PROVE TypeOK'
  <2>1. ControlOK'
    BY <1>6, StayTyping, LeaveTyping, RefuseTyping DEF Validate, Raise
  <2>2. QED
    BY <1>6, <2>1 DEF ControlOK, TypeOK, Validate, order, call, broker, world
<1>7. ASSUME NEW c \in Calls, MarkStarted(c) PROVE TypeOK'
  <2>1. ControlOK'
    BY <1>7, StayTyping, LeaveTyping, RefuseTyping DEF MarkStarted
  <2>2. QED
    BY <1>7, <2>1 DEF ControlOK, TypeOK, MarkStarted, order, call, broker, world
<1>8. ASSUME NEW c \in Calls, FinishRead(c) PROVE TypeOK'
  <2>1. ControlOK'
    BY <1>8, StayTyping, LeaveTyping, RefuseTyping DEF FinishRead
  <2>2. QED
    BY <1>8, <2>1 DEF ControlOK, TypeOK, FinishRead, order, call, broker, world
<1>9. ASSUME NEW c \in Calls, Begin(c) PROVE TypeOK'
  <2>1. ControlOK'
    BY <1>9, StayTyping, LeaveTyping, RefuseTyping DEF Begin
  <2>2. /\ state' \in [Drafts -> OrderState \cup {"ABSENT"}]
        /\ version' \in [Drafts -> Nat]
        /\ creator' \in [Drafts -> Calls \cup {None}]
        /\ seen' \in [Calls -> Nat]
        /\ UNCHANGED <<source, started>>
    BY <1>9 DEF TypeOK, Begin, order, OrderState
  <2>3. QED
    BY <1>9, <2>1, <2>2 DEF ControlOK, TypeOK, Begin, broker, world
<1>10. ASSUME NEW c \in Calls, FinalCheck(c) PROVE TypeOK'
  <2>1. ControlOK'
    BY <1>10, StayTyping, LeaveTyping DEF FinalCheck, Raise
  <2>2. target[c] \in Drafts
    BY <1>10, Held DEF FinalCheck, Locked, InFlight
  <2>3. [state |-> "REJECTED", source |-> "LOCAL", late |-> expired[target[c]]] \in Outcomes
    BY <2>2 DEF TypeOK, Outcomes, OrderState, Sources
  <2>4. pending' \in [Calls -> Outcomes]
    BY <1>10, <2>3 DEF TypeOK, FinalCheck
  <2>5. QED
    BY <1>10, <2>1, <2>4 DEF ControlOK, TypeOK, FinalCheck, order, broker, world
<1>11. ASSUME NEW c \in Calls, Send(c) PROVE TypeOK'
  <2>1. pc' \in [Actors -> Locked \cup Outside]
    BY <1>11, GotoTyping DEF Send
  <2>2. target[c] \in Drafts
    BY <1>11, Held DEF Send, Locked, InFlight
  <2>3. /\ sends' \in [Drafts -> Nat]
        /\ wire' \in [Drafts -> {"none", "sent", "taken", "refused"}]
    BY <1>11, <2>2 DEF TypeOK, Send
  <2>4. QED
    BY <1>11, <2>1, <2>3 DEF TypeOK, Send, order, call, world
<1>12. ASSUME NEW c \in Calls, Answer(c) PROVE TypeOK'
  <2>1. pc' \in [Actors -> Locked \cup Outside]
    BY <1>12, GotoTyping DEF Answer, AnswerOr
  <2>2. pending' \in [Calls -> Outcomes]
    BY <1>12 DEF TypeOK, Answer, AnswerOr
  <2>3. QED
    BY <1>12, <2>1, <2>2 DEF TypeOK, Answer, AnswerOr, order, broker, world
<1>13. ASSUME NEW c \in Calls, FinishWrite(c) PROVE TypeOK'
  <2>1. ControlOK'
    BY <1>13, LeaveTyping DEF FinishWrite
  <2>2. /\ target[c] \in Drafts
        /\ pending[c] \in Outcomes
    BY <1>13, Held DEF FinishWrite, Locked, InFlight, TypeOK
  <2>3. /\ state' \in [Drafts -> OrderState \cup {"ABSENT"}]
        /\ source' \in [Drafts -> Sources]
        /\ version' \in [Drafts -> Nat]
        /\ audit' \subseteq Calls \cup Drafts
    BY <1>13, <2>2 DEF TypeOK, FinishWrite, Outcomes
  <2>4. QED
    BY <1>13, <2>1, <2>3 DEF ControlOK, TypeOK, FinishWrite, broker, world
<1>14. ASSUME NEW c \in Calls, StoreFails(c) PROVE TypeOK'
  <2>1. ControlOK'
    BY <1>14, StayTyping, LeaveTyping DEF StoreFails
  <2>2. pending' \in [Calls -> Outcomes]
    BY <1>14, UnknownTyping DEF TypeOK, StoreFails
  <2>3. QED
    BY <1>14, <2>1, <2>2 DEF ControlOK, TypeOK, StoreFails, order, broker, world
<1>15. ASSUME NEW c \in Calls, Audit(c) PROVE TypeOK'
  <2>1. pc' \in [Actors -> Locked \cup Outside]
    BY <1>15, GotoTyping DEF Audit
  <2>2. audit' \subseteq Calls \cup Drafts
    BY <1>15 DEF TypeOK, Audit, StepsApart
  <2>3. QED
    BY <1>15, <2>1, <2>2 DEF TypeOK, Audit, order, call, broker, world
<1>16. ASSUME NEW c \in Calls, CheckExpiry(c) \/ NoteExpiry(c) \/ AuditFails(c) PROVE TypeOK'
  <2> USE DEF CheckExpiry, NoteExpiry, AuditFails
  <2>1. pc' \in [Actors -> Locked \cup Outside]
    BY <1>16, GotoTyping
  <2>2. audit' \subseteq Calls \cup Drafts
    BY <1>16 DEF TypeOK, StepsApart, Auditing
  <2>3. result' \in [Calls -> Results]
    BY <1>16 DEF TypeOK, call
  <2>4. QED
    BY <1>16, <2>1, <2>2, <2>3 DEF TypeOK, order, call, broker, world
<1>17. ASSUME NEW s \in Sweeps, SweepScan(s) PROVE TypeOK'
  <2>1. pc' \in [Actors -> Locked \cup Outside] /\ lock' \in [Drafts -> Actors \cup {None}]
    BY <1>17, GotoTyping, ReleaseTyping DEF SweepScan, SweepList, TypeOK
  <2>2. QED
    BY <1>17, <2>1 DEF TypeOK, SweepScan, SweepList, order, call, broker, world
<1>18. ASSUME NEW s \in Sweeps, NEW d \in Drafts, SweepClaim(s, d) PROVE TypeOK'
  <2>1. CASE lock[d] # None
    BY <1>18, <2>1 DEF TypeOK, SweepClaim, SweepTake, order, call, broker, world
  <2>2. CASE lock[d] = None
    <3>1. /\ lock' = [lock EXCEPT ![d] = s]
          /\ target' = [target EXCEPT ![s] = d]
          /\ todo' = [todo EXCEPT ![s] = @ \ {d}]
          /\ Goto(s, "sweeping")
      BY <1>18, <2>2 DEF SweepClaim, SweepTake
    <3>2. pc' \in [Actors -> Locked \cup Outside]
      BY <3>1, GotoTyping
    <3>3. /\ lock' \in [Drafts -> Actors \cup {None}]
          /\ target' \in [Actors -> Drafts \cup {None}]
          /\ todo' \in [Sweeps -> SUBSET Drafts]
      BY <3>1 DEF TypeOK
    <3>4. QED
      BY <1>18, <3>2, <3>3 DEF TypeOK, SweepClaim, SweepTake, order, call, broker, world
  <2>3. QED
    BY <2>1, <2>2
<1>19. ASSUME NEW s \in Sweeps, SweepRecover(s) PROVE TypeOK'
  <2>1. pc' \in [Actors -> Locked \cup Outside] /\ lock' \in [Drafts -> Actors \cup {None}]
    BY <1>19, GotoTyping, ReleaseTyping DEF SweepRecover, SweepStore, TypeOK
  <2>2. /\ state' \in [Drafts -> OrderState \cup {"ABSENT"}]
        /\ source' \in [Drafts -> Sources]
        /\ version' \in [Drafts -> Nat]
    BY <1>19 DEF TypeOK, SweepRecover, SweepStore, OrderState, Sources
  <2>3. QED
    BY <1>19, <2>1, <2>2 DEF TypeOK, SweepRecover, SweepStore, call, broker, world
<1>20. ASSUME NEW s \in Sweeps, SweepEnd(s) PROVE TypeOK'
  <2>1. pc' \in [Actors -> Locked \cup Outside] /\ lock' \in [Drafts -> Actors \cup {None}]
    BY <1>20, GotoTyping, ReleaseTyping DEF SweepEnd, TypeOK
  <2>2. QED
    BY <1>20, <2>1 DEF TypeOK, SweepEnd, order, call, broker, world
<1>21. ASSUME NEW s \in Sweeps, SweepFails(s) PROVE TypeOK'
  <2>1. pc' \in [Actors -> Locked \cup Outside] /\ lock' \in [Drafts -> Actors \cup {None}]
    BY <1>21, GotoTyping, ReleaseTyping DEF SweepFails, TypeOK
  <2>2. QED
    BY <1>21, <2>1 DEF TypeOK, SweepFails, order, call, broker, world
<1>22. ASSUME NEW d \in Drafts, IssueCode(d) PROVE TypeOK'
  BY <1>22 DEF TypeOK, IssueCode, order, call, broker, world
<1>23. ASSUME NEW d \in Drafts, Expire(d) PROVE TypeOK'
  BY <1>23 DEF TypeOK, Expire, order, call, broker, world
<1>24. ASSUME NEW d \in Drafts, BrokerDecides(d) PROVE TypeOK'
  BY <1>24 DEF TypeOK, BrokerDecides, order, call, broker, world
<1>25. ASSUME NEW p \in Processes, Crash(p) PROVE TypeOK'
  <2>1. /\ pc' \in [Actors -> Locked \cup Outside]
        /\ result' \in [Calls -> Results]
        /\ lock' \in [Drafts -> Actors \cup {None}]
        /\ todo' \in [Sweeps -> SUBSET Drafts]
        /\ crashes' \in Nat
    BY <1>25 DEF TypeOK, Crash
  <2>2. QED
    BY <1>25, <2>1 DEF TypeOK, Crash, order, broker
<1>26. QED
  BY <1>1, <1>2, <1>3, <1>4, <1>5, <1>6, <1>7, <1>8, <1>9, <1>10, <1>11, <1>12, <1>13, <1>14,
     <1>15, <1>16, <1>17, <1>18, <1>19, <1>20, <1>21, <1>22, <1>23, <1>24, <1>25
  DEF Next, CallStep, CallProgress, SweepStep, World

-----------------------------------------------------------------------------
(* What a step does to the lock, to the other actors and to other drafts. *)

Moves(a, S) == \E l \in S : pc' = [pc EXCEPT ![a] = l]

Takes(a) ==
  /\ pc[a] \in Outside
  /\ Moves(a, Locked)
  /\ \E d \in Drafts : /\ lock[d] = None
                       /\ lock' = [lock EXCEPT ![d] = a]
                       /\ target' = [target EXCEPT ![a] = d]

Keeps(a) == pc[a] \in Locked /\ Moves(a, Locked) /\ UNCHANGED <<lock, target>>

Drops(a) == pc[a] \in Locked /\ Moves(a, Outside) /\ Release(a) /\ UNCHANGED target

Roams(a) ==
  /\ pc[a] \in Outside
  /\ Moves(a, Outside)
  /\ UNCHANGED lock
  /\ target' = target \/ \E d \in Drafts : target' = [target EXCEPT ![a] = d]

\* A call takes a free lock, keeps its own, gives it up, or has none.
LEMMA CallLocking ==
  ASSUME TypeOK, NEW c \in Calls, CallStep(c)
  PROVE  Takes(c) \/ Keeps(c) \/ Drops(c) \/ Roams(c)
<1> USE DEF Takes, Keeps, Drops, Roams, Moves, Goto, Leave, Refuse, Raise, Locked, Outside,
        Early, InFlight
<1>1. ASSUME NEW d \in Drafts, Claim(c, d) \/ LockUnavailable(c, d) PROVE Takes(c) \/ Roams(c)
  BY <1>1 DEF Claim, LockUnavailable
<1>2. CASE ConfirmCheck(c) \/ AuthorizedCheck(c) \/ ConsumeCode(c)
  BY <1>2 DEF Auditing, ConfirmCheck, AuthorizedCheck, ConsumeCode
<1>3. CASE Validate(c) \/ Begin(c)
  BY <1>3 DEF Auditing, Validate, Begin
<1>4. CASE FinalCheck(c) \/ MarkStarted(c)
  BY <1>4 DEF FinalCheck, MarkStarted
<1>5. CASE Send(c) \/ Answer(c)
  BY <1>5 DEF Send, Answer, AnswerOr
<1>6. CASE FinishRead(c) \/ FinishWrite(c)
  BY <1>6 DEF FinishRead, FinishWrite
<1>7. CASE StoreFails(c)
  BY <1>7 DEF StoreFails
<1>8. CASE Audit(c) \/ CheckExpiry(c) \/ NoteExpiry(c) \/ AuditFails(c)
  BY <1>8 DEF Audit, CheckExpiry, NoteExpiry, AuditFails, Auditing
<1>9. QED
  BY <1>1, <1>2, <1>3, <1>4, <1>5, <1>6, <1>7, <1>8 DEF CallStep, CallProgress

\* The same of recovery.
LEMMA SweepLocking ==
  ASSUME TypeOK, NEW s \in Sweeps, SweepStep(s)
  PROVE  Takes(s) \/ Keeps(s) \/ Drops(s) \/ Roams(s)
<1> USE DEF Takes, Drops, Roams, Moves, Goto, Locked, Outside
<1>1. CASE SweepScan(s) \/ SweepEnd(s) \/ SweepFails(s)
  BY <1>1 DEF SweepScan, SweepList, SweepEnd, SweepFails
<1>2. CASE SweepRecover(s)
  BY <1>2 DEF SweepRecover, SweepStore
<1>3. ASSUME NEW d \in Drafts, SweepClaim(s, d) PROVE Takes(s) \/ Roams(s)
  BY <1>3 DEF SweepClaim, SweepTake, TypeOK
<1>4. QED
  BY <1>1, <1>2, <1>3 DEF SweepStep

\* Any such step preserves ownership: a lock is only taken when it is free and
\* only given up by its holder.
LEMMA LockingOwnership ==
  ASSUME TypeOK, Ownership, NEW a \in Actors,
         Takes(a) \/ Keeps(a) \/ Drops(a) \/ Roams(a)
  PROVE  Ownership'
<1> SUFFICES ASSUME NEW b \in Actors, pc'[b] \in Locked
             PROVE  target'[b] \in Drafts /\ lock'[target'[b]] = b
  BY DEF Ownership
<1> Locked \cap Outside = {} /\ None \notin Actors
  BY ActorAssumption DEF Locked, Outside, Auditing, Early, InFlight
<1>1. CASE b = a
  BY <1>1 DEF Takes, Keeps, Drops, Roams, Moves, TypeOK, Ownership
<1>2. CASE b # a
  <2>1. /\ pc[b] \in Locked /\ target[b] \in Drafts /\ lock[target[b]] = b
        /\ target'[b] = target[b]
    BY <1>2 DEF Takes, Keeps, Drops, Roams, Moves, TypeOK, Ownership
  <2>2. CASE Drops(a)
    <3>1. lock[target[a]] = a
      BY <2>2 DEF Drops, Ownership
    <3>2. QED
      BY <1>2, <2>1, <2>2, <3>1 DEF Drops, Release, TypeOK
  <2>3. CASE ~Drops(a)
    BY <1>2, <2>1, <2>3 DEF Takes, Keeps, Roams, TypeOK
  <2>4. QED
    BY <2>2, <2>3
<1>3. QED
  BY <1>1, <1>2

\* A crash drops the locks of the dead and nobody else's.
LEMMA CrashOwnership ==
  ASSUME TypeOK, Ownership, NEW p \in Processes, Crash(p)
  PROVE  Ownership'
BY DEF Crash, Ownership, TypeOK, Locked, Early, InFlight

\* Every action keeps locks exclusive.
LEMMA OwnershipStep == IInv /\ Next => Ownership'
<1> SUFFICES ASSUME IInv, Next PROVE Ownership'
  OBVIOUS
<1> USE DEF IInv
<1>1. ASSUME NEW c \in Calls, CallStep(c) PROVE Ownership'
  BY <1>1, CallLocking, LockingOwnership DEF Actors
<1>2. ASSUME NEW s \in Sweeps, SweepStep(s) PROVE Ownership'
  BY <1>2, SweepLocking, LockingOwnership DEF Actors
<1>3. ASSUME NEW d \in Drafts, IssueCode(d) \/ Expire(d) \/ BrokerDecides(d) PROVE Ownership'
  BY <1>3 DEF IssueCode, Expire, BrokerDecides, Ownership
<1>4. QED
  BY <1>1, <1>2, <1>3, CrashOwnership DEF Next, World

\* Every action keeps calls out of recovery's labels and the reverse.
LEMMA StepsApartStep == IInv /\ Next => StepsApart'
<1> SUFFICES ASSUME IInv, Next PROVE StepsApart'
  OBVIOUS
<1> USE DEF IInv
<1>0. Sweeps \cap Calls = {} /\ Sweeps \subseteq Actors /\ Calls \subseteq Actors
  BY ActorAssumption DEF Actors
<1>1. ASSUME NEW c \in Calls, CallStep(c) PROVE StepsApart'
  <2>1. /\ Moves(c, (Locked \cup Outside) \ {"scanning", "sweeping"})
        /\ target' = target \/ \E d \in Drafts : target' = [target EXCEPT ![c] = d]
        /\ pc[c] = "idle" => \E d \in Drafts : target' = [target EXCEPT ![c] = d]
    <3> USE DEF Moves, Goto, Leave, Refuse, Raise, Locked, Outside, Early, InFlight
    <3>1. ASSUME NEW d \in Drafts, Claim(c, d) \/ LockUnavailable(c, d)
          PROVE  <2>1!1 /\ <2>1!2 /\ <2>1!3
      BY <3>1 DEF Claim, LockUnavailable
    <3>2. CASE ConfirmCheck(c) \/ AuthorizedCheck(c) \/ ConsumeCode(c) \/ Validate(c)
      BY <3>2 DEF Auditing, ConfirmCheck, AuthorizedCheck, ConsumeCode, Validate
    <3>3. CASE Begin(c) \/ FinalCheck(c) \/ MarkStarted(c)
      BY <3>3 DEF Auditing, FinalCheck, MarkStarted, Begin
    <3>4. CASE Send(c) \/ Answer(c) \/ FinishRead(c) \/ FinishWrite(c)
      BY <3>4 DEF Send, Answer, AnswerOr, FinishRead, FinishWrite
    <3>5. CASE StoreFails(c) \/ Audit(c)
      BY <3>5 DEF Auditing, StoreFails, Audit
    <3>6. CASE CheckExpiry(c) \/ NoteExpiry(c) \/ AuditFails(c)
      BY <3>6 DEF CheckExpiry, NoteExpiry, AuditFails, Auditing
    <3>7. QED
      BY <1>1, <3>1, <3>2, <3>3, <3>4, <3>5, <3>6 DEF CallStep, CallProgress
  <2>2. QED
    BY <1>0, <2>1 DEF Moves, StepsApart, TypeOK
<1>2. ASSUME NEW s \in Sweeps, SweepStep(s) PROVE StepsApart'
  <2>1. /\ Moves(s, {"idle", "scanning", "sweeping"})
        /\ \A c \in Calls : target'[c] = target[c]
    BY <1>0, <1>2 DEF SweepStep, SweepScan, SweepList, SweepClaim, SweepTake, SweepRecover,
                SweepStore, SweepEnd, SweepFails, Moves, Goto, StepsApart, TypeOK
  <2>2. \A c \in Calls : pc'[c] = pc[c]
    BY <1>0, <2>1 DEF Moves, TypeOK
  <2>3. \A t \in Sweeps : pc'[t] \in {"idle", "scanning", "sweeping"}
    BY <1>0, <2>1 DEF Moves, StepsApart, TypeOK
  <2>4. QED
    BY <2>1, <2>2, <2>3 DEF StepsApart
<1>3. ASSUME NEW d \in Drafts, IssueCode(d) \/ Expire(d) \/ BrokerDecides(d)
      PROVE  StepsApart'
  BY <1>3 DEF IssueCode, Expire, BrokerDecides, StepsApart
<1>4. ASSUME NEW p \in Processes, Crash(p) PROVE StepsApart'
  <2>1. /\ \A c \in Calls : pc'[c] \in {pc[c], "done"} /\ (pc'[c] = "idle" <=> pc[c] = "idle")
        /\ \A s \in Sweeps : pc'[s] \in {pc[s], "idle"}
        /\ target' = target
    BY <1>0, <1>4 DEF Crash
  <2>2. QED
    BY <2>1 DEF StepsApart
<1>5. QED
  BY <1>1, <1>2, <1>3, <1>4 DEF Next, World

-----------------------------------------------------------------------------
(* A step of one call leaves the other calls and the other drafts alone. *)

Untouched(d) ==
  /\ state'[d] = state[d] /\ version'[d] = version[d] /\ source'[d] = source[d]
  /\ started'[d] = started[d] /\ creator'[d] = creator[d]
  /\ sends'[d] = sends[d] /\ wire'[d] = wire[d]

Unmoved(c) ==
  /\ pc'[c] = pc[c] /\ target'[c] = target[c]
  /\ seen'[c] = seen[c] /\ pending'[c] = pending[c] /\ result'[c] = result[c]
  /\ c \in audit' <=> c \in audit

FrameOf(c) ==
  /\ \A b \in Calls \ {c} : Unmoved(b)
  /\ \A d \in Drafts :
       Untouched(d) \/ (d = target[c] /\ pc[c] \in InFlight \cup {"ready"})

\* A call writes no other call's locals, and only the order of its draft, and
\* that only from begin_order_submission on.
LEMMA CallFrame ==
  ASSUME TypeOK, StepsApart, NEW c \in Calls, CallStep(c)
  PROVE  FrameOf(c)
<1> USE DEF TypeOK, FrameOf, Unmoved, Untouched, InFlight, Goto, Leave, Refuse, Raise, order,
            call, broker, world
<1>0. Calls \cap Drafts = {} /\ Calls \subseteq Actors
  BY ActorAssumption DEF Actors
<1>1. ASSUME NEW d \in Drafts, Claim(c, d) \/ LockUnavailable(c, d) PROVE FrameOf(c)
  BY <1>0, <1>1 DEF Claim, LockUnavailable
<1>2. CASE ConfirmCheck(c) \/ AuthorizedCheck(c)
  BY <1>0, <1>2 DEF ConfirmCheck, AuthorizedCheck
<1>3. CASE ConsumeCode(c) \/ Validate(c)
  BY <1>0, <1>3 DEF ConsumeCode, Validate
<1>4. CASE Begin(c)
  BY <1>0, <1>4 DEF Begin
<1>5. CASE FinalCheck(c)
  BY <1>0, <1>5 DEF FinalCheck
<1>6. CASE MarkStarted(c)
  BY <1>0, <1>6 DEF MarkStarted
<1>7. CASE Send(c)
  BY <1>0, <1>7 DEF Send
<1>8. CASE Answer(c)
  BY <1>0, <1>8 DEF Answer, AnswerOr
<1>9. CASE FinishRead(c)
  BY <1>0, <1>9 DEF FinishRead
<1>10. CASE FinishWrite(c)
  <2>1. target[c] \in Drafts
    BY <1>10 DEF FinishWrite, StepsApart
  <2>2. \A b \in Calls : b \in audit' <=> b \in audit
    BY <1>0, <1>10, <2>1 DEF FinishWrite
  <2>3. QED
    BY <1>0, <1>10, <2>2 DEF FinishWrite
<1>11. CASE StoreFails(c)
  BY <1>0, <1>11 DEF StoreFails
<1>12. CASE Audit(c) \/ CheckExpiry(c) \/ NoteExpiry(c) \/ AuditFails(c)
  BY <1>0, <1>12 DEF Audit, CheckExpiry, NoteExpiry, AuditFails, Auditing, StepsApart
<1>13. QED
  BY <1>1, <1>2, <1>3, <1>4, <1>5, <1>6, <1>7, <1>8, <1>9, <1>10, <1>11, <1>12
  DEF CallStep, CallProgress

\* Recovery writes no call's locals, and only an order that is SUBMITTING.
LEMMA SweepFrame ==
  ASSUME TypeOK, NEW s \in Sweeps, SweepStep(s)
  PROVE  /\ \A b \in Calls : Unmoved(b)
         /\ \A d \in Drafts :
              \/ Untouched(d)
              \/ d = target[s] /\ pc[s] = "sweeping" /\ state[d] = "SUBMITTING"
<1> USE DEF TypeOK, Unmoved, Untouched, Goto, order, call, broker, world
<1>0. Sweeps \cap Calls = {} /\ Calls \subseteq Actors
  BY ActorAssumption DEF Actors
<1>1. CASE SweepScan(s) \/ SweepEnd(s) \/ SweepFails(s)
  BY <1>0, <1>1 DEF SweepScan, SweepList, SweepEnd, SweepFails
<1>2. ASSUME NEW d \in Drafts, SweepClaim(s, d)
      PROVE  /\ \A b \in Calls : Unmoved(b)
             /\ \A e \in Drafts : Untouched(e)
  BY <1>0, <1>2 DEF SweepClaim, SweepTake
<1>3. CASE SweepRecover(s)
  BY <1>0, <1>3 DEF SweepRecover, SweepStore
<1>4. QED
  BY <1>1, <1>2, <1>3 DEF SweepStep

\* Two actors that hold the lock of one draft are the same actor.
LEMMA Alone ==
  ASSUME Ownership, NEW a \in Actors, NEW b \in Actors,
         pc[a] \in Locked, pc[b] \in Locked, target[a] = target[b]
  PROVE  a = b
BY DEF Ownership

-----------------------------------------------------------------------------
\* _TRANSITIONS at SUBMITTING.
LEMMA SubmittingMoves ==
  \A s \in OrderState :
    MayMove("SUBMITTING", s)
      <=> s \in {"ACCEPTED", "PARTIALLY_FILLED", "FILLED", "REJECTED", "UNKNOWN"}
BY DEF MayMove, Transitions, OrderState

\* Every action keeps the order's row consistent with the broker.
LEMMA RecordStep == IInv /\ Next => Record'
<1> SUFFICES ASSUME IInv, Next, NEW d \in Drafts PROVE RecordOf(d)'
  BY DEF Record
<1> USE DEF IInv
<1>0. Calls \subseteq Actors /\ RecordOf(d)
  BY DEF Actors, Record
<1>1. CASE Untouched(d)
  BY <1>0, <1>1 DEF Untouched, RecordOf
<1>2. ASSUME NEW c \in Calls, CallStep(c), d = target[c], pc[c] \in InFlight \cup {"ready"}
      PROVE  RecordOf(d)'
  <2> USE <1>0, <1>2 DEF TypeOK, RecordOf, order, call, broker
  <2>1. pc[c] \in InFlight => FlightOf(c)
    BY DEF Flight
  <2>2. CASE Begin(c)
    BY <2>2 DEF Begin, Working
  <2>3. CASE MarkStarted(c)
    BY <2>1, <2>3 DEF MarkStarted, FlightOf, InFlight, Matches
  <2>4. CASE Send(c)
    BY <2>1, <2>4 DEF Send, FlightOf, InFlight, Matches, Working
  <2>5. CASE FinishWrite(c)
    <3>1. /\ pending[c] \in Outcomes
          /\ FlightOf(c)
          /\ pc[c] \in InFlight /\ pc[c] = "writing"
      BY <2>1, <2>5 DEF FinishWrite, InFlight
    <3>2. pending[c].state \in OrderState /\ pending[c].source \in Sources
      BY <3>1 DEF Outcomes
    <3>3. /\ state'[d] = pending[c].state /\ source'[d] = pending[c].source
          /\ UNCHANGED <<started, creator, sends, wire>>
      BY <2>5 DEF FinishWrite
    <3>4. pending[c].state \notin {"ABSENT", "SUBMITTING"}
      BY <3>1, <3>2, SubmittingMoves DEF FlightOf, OrderState
    <3>5. QED
      BY <3>1, <3>2, <3>3, <3>4 DEF FlightOf
  <2>6. CASE ~(Begin(c) \/ MarkStarted(c) \/ Send(c) \/ FinishWrite(c))
    <3>1. Untouched(d)
      BY <2>6 DEF CallStep, CallProgress, Claim, LockUnavailable, ConfirmCheck, AuthorizedCheck,
                  ConsumeCode, Validate, FinalCheck, Answer, AnswerOr, FinishRead, StoreFails,
                  Audit, CheckExpiry, NoteExpiry, AuditFails, Untouched
    <3>2. QED
      BY <3>1, <1>1
  <2>7. QED
    BY <2>2, <2>3, <2>4, <2>5, <2>6
<1>3. ASSUME NEW s \in Sweeps, SweepStep(s), d = target[s], pc[s] = "sweeping",
             state[d] = "SUBMITTING", ~Untouched(d)
      PROVE  RecordOf(d)'
  <2>1. SweepRecover(s)
    BY <1>3 DEF SweepStep, SweepScan, SweepList, SweepEnd, SweepFails, SweepClaim, SweepTake,
                Untouched, order, broker
  <2>2. QED
    BY <1>0, <1>3, <2>1 DEF SweepRecover, SweepStore, TypeOK, RecordOf, Working, broker
<1>4. ASSUME NEW e \in Drafts, IssueCode(e) \/ Expire(e) \/ BrokerDecides(e) PROVE RecordOf(d)'
  <2>1. CASE IssueCode(e) \/ Expire(e)
    BY <1>1, <2>1 DEF IssueCode, Expire, Untouched, order, broker
  <2>2. CASE BrokerDecides(e)
    BY <1>0, <2>2 DEF BrokerDecides, RecordOf, TypeOK, order, Working
  <2>3. QED
    BY <1>4, <2>1, <2>2
<1>5. ASSUME NEW p \in Processes, Crash(p) PROVE RecordOf(d)'
  BY <1>1, <1>5 DEF Crash, Untouched, order, broker
<1>6. QED
  BY <1>1, <1>2, <1>3, <1>4, <1>5, CallFrame, SweepFrame DEF Next, World, FrameOf

\* What a call in flight knows survives a step that touches neither it nor
\* its order.
LEMMA FlightKept ==
  ASSUME NEW b \in Calls, pc'[b] = pc[b], target'[b] = target[b], seen'[b] = seen[b],
         pending'[b] = pending[b], Untouched(target[b]), FlightOf(b)
  PROVE  FlightOf(b)'
BY DEF FlightOf, Matches, Untouched

\* Every action keeps what calls in flight know: their own steps establish it,
\* and no other actor can reach the order without the lock.
LEMMA FlightStep == IInv /\ Next => Flight'
<1> SUFFICES ASSUME IInv, Next, NEW b \in Calls, pc'[b] \in InFlight PROVE FlightOf(b)'
  BY DEF Flight, FlightOf
<1> USE DEF IInv
<1>0. /\ Calls \subseteq Actors /\ Sweeps \subseteq Actors /\ Calls \cap Sweeps = {}
      /\ FlightOf(b)
      /\ InFlight \subseteq Locked /\ "ready" \in Locked /\ "sweeping" \in Locked
      /\ "ready" \notin InFlight
  BY ActorAssumption DEF Actors, Flight, Locked, Early, InFlight
<1>1. ASSUME NEW c \in Calls, CallStep(c), b # c PROVE FlightOf(b)'
  <2>1. FrameOf(c) /\ Unmoved(b)
    BY <1>1, CallFrame DEF FrameOf
  <2>2. pc[b] \in InFlight /\ target[b] \in Drafts
    BY <1>0, <2>1, Held DEF Unmoved
  <2>3. Untouched(target[b])
    BY <1>0, <1>1, <2>1, <2>2, Alone DEF FrameOf
  <2>4. QED
    BY <1>0, <2>1, <2>3, FlightKept DEF Unmoved
<1>2. ASSUME CallStep(b) PROVE FlightOf(b)'
  <2>1. CASE pc[b] = "ready"
    <3>1. Begin(b)
      BY <1>2, <2>1 DEF CallStep, CallProgress, Claim, LockUnavailable, ConfirmCheck,
         AuthorizedCheck, ConsumeCode, Validate, FinalCheck, MarkStarted, Send, Answer,
         AnswerOr, FinishRead, FinishWrite, StoreFails, Audit, CheckExpiry, NoteExpiry,
         AuditFails, Leave, Raise, Goto,
         InFlight, TypeOK, Actors
    <3>2. target[b] \in Drafts /\ RecordOf(target[b])
      BY <1>0, <2>1, Held DEF Record
    <3>3. state[target[b]] = "ABSENT" /\ pc'[b] = "created"
      BY <1>0, <3>1 DEF Begin, Refuse, Leave, Goto, InFlight, TypeOK
    <3>4. QED
      BY <1>0, <3>1, <3>2, <3>3 DEF Begin, TypeOK, FlightOf, Matches, RecordOf, broker, Refuse,
         Leave, Goto
  <2>2. CASE pc[b] # "ready"
    <3>1. pc[b] \in InFlight
      BY <1>0, <1>2, <2>2 DEF CallStep, CallProgress, Claim, LockUnavailable, ConfirmCheck,
         AuthorizedCheck, ConsumeCode, Validate, Begin, FinalCheck, MarkStarted, Send, Answer,
         AnswerOr, FinishRead, FinishWrite, StoreFails, Audit, CheckExpiry, NoteExpiry,
         AuditFails, Leave, Refuse, Raise, Goto,
         InFlight, TypeOK
    <3>2. target[b] \in Drafts /\ RecordOf(target[b]) /\ Matches(b) /\ creator[target[b]] = b
      BY <1>0, <3>1, Held DEF Record, FlightOf
    <3> USE <1>0, <3>1, <3>2 DEF TypeOK, Goto
    <3>3. CASE FinalCheck(b)
      <4>1. /\ UNCHANGED <<target, order, seen, broker>>
            /\ \/ pc'[b] = "finishing" /\ pending'[b].state = "REJECTED" /\ sends[target[b]] = 0
               \/ pc'[b] = "marking" /\ sends[target[b]] = 0
        BY <3>3 DEF FinalCheck, FlightOf, Leave, Raise, InFlight, world
      <4>2. QED
        BY <4>1, SubmittingMoves
        DEF FlightOf, Matches, RecordOf, order, broker, OrderState, Working
    <3>4. CASE MarkStarted(b)
      <4>1. pc'[b] = "sending" /\ pc[b] = "marking"
        BY <3>4 DEF MarkStarted, Leave, InFlight
      <4>2. QED
        BY <3>4, <4>1 DEF MarkStarted, FlightOf, Matches, broker
    <3>5. CASE Send(b)
      BY <3>5 DEF Send, FlightOf, Matches, order, call
    <3>6. CASE Answer(b)
      <4>1. /\ UNCHANGED <<target, order, seen, broker>> /\ pc'[b] = "finishing"
            /\ \/ /\ pending'[b].source = "PROVIDER"
                  /\ \/ pending'[b].state \in Working /\ wire[target[b]] = "taken"
                     \/ pending'[b].state = "REJECTED" /\ wire[target[b]] = "refused"
               \/ pending'[b] = Unknown
        BY <3>6 DEF Answer, AnswerOr
      <4>2. QED
        BY <4>1, SubmittingMoves
        DEF FlightOf, Matches, Unknown, order, broker, OrderState, Working
    <3>7. CASE FinishRead(b)
      <4>1. pc'[b] = "writing" /\ pc[b] = "finishing"
        BY <3>7 DEF FinishRead, Leave, InFlight
      <4>2. QED
        BY <3>7, <4>1 DEF FinishRead, FlightOf, Matches, order, broker
    <3>8. CASE FinishWrite(b)
      BY <3>8 DEF FinishWrite, Leave, InFlight
    <3>9. CASE StoreFails(b)
      <4>1. /\ UNCHANGED <<target, order, seen, broker>>
            /\ pc'[b] = "finishing" /\ pending'[b] = Unknown
        BY <3>9 DEF StoreFails, Leave, InFlight
      <4>2. QED
        BY <4>1, SubmittingMoves
        DEF FlightOf, Matches, Unknown, order, broker, OrderState, Working
    <3>10. QED
      BY <1>2, <3>3, <3>4, <3>5, <3>6, <3>7, <3>8, <3>9
      DEF CallStep, CallProgress, Claim, LockUnavailable, ConfirmCheck, AuthorizedCheck,
          ConsumeCode, Validate, Begin, Audit, CheckExpiry, NoteExpiry, AuditFails, InFlight
  <2>3. QED
    BY <2>1, <2>2
<1>3. ASSUME NEW s \in Sweeps, SweepStep(s) PROVE FlightOf(b)'
  <2>1. Unmoved(b)
    BY <1>3, SweepFrame
  <2>2. pc[b] \in InFlight /\ target[b] \in Drafts
    BY <1>0, <2>1, Held DEF Unmoved
  <2>3. Untouched(target[b])
    BY <1>0, <1>3, <2>2, SweepFrame, Alone
  <2>4. QED
    BY <1>0, <2>1, <2>3, FlightKept DEF Unmoved
<1>4. ASSUME NEW d \in Drafts, IssueCode(d) \/ Expire(d) PROVE FlightOf(b)'
  BY <1>0, <1>4 DEF IssueCode, Expire, FlightOf, Matches, order, call, broker
<1>5. ASSUME NEW d \in Drafts, BrokerDecides(d) PROVE FlightOf(b)'
  BY <1>0, <1>5 DEF BrokerDecides, FlightOf, Matches, order, call, TypeOK
<1>6. ASSUME NEW p \in Processes, Crash(p) PROVE FlightOf(b)'
  <2>1. pc'[b] = pc[b]
    BY <1>0, <1>6 DEF Crash, InFlight
  <2>2. QED
    BY <1>0, <1>6, <2>1, FlightKept DEF Crash, Untouched, order, broker
<1>7. QED
  BY <1>1, <1>2, <1>3, <1>4, <1>5, <1>6 DEF Next, World

\* The ways in which a step of a call can change its answer.
Continues(c) ==
  /\ pc[c] \in {"idle"} \cup Locked /\ pc'[c] \in Locked
  /\ pc[c] \in InFlight => pc'[c] \in InFlight
  /\ result'[c] = result[c] /\ (c \in audit' <=> c \in audit)
  /\ pc[c] # "idle" => target' = target
  /\ \/ creator' = creator
     \/ /\ pc[c] # "idle" /\ pc'[c] \in InFlight
        /\ creator' = [creator EXCEPT ![target[c]] = c]

Ends(c) ==
  /\ pc[c] \in Locked /\ pc'[c] = "done"
  /\ result'[c] \in {"placed", "existing", "error", "lock_unavailable"}
  /\ result'[c] = "lock_unavailable" => pc[c] \in {"validating", "created"}
  /\ (c \in audit' <=> c \in audit) /\ UNCHANGED <<creator, started>>

Refuses(c) ==
  /\ pc[c] \in Early /\ pc'[c] = IF c \in Confirms THEN "audit" ELSE "done"
  /\ result'[c] \in {"refused", "expired"} /\ audit' = audit /\ creator' = creator

TurnsAway(c) ==
  /\ pc[c] = "idle" /\ pc'[c] = "done"
  /\ result'[c] \in {"in_progress", "lock_unavailable"} /\ audit' = audit /\ creator' = creator

\* Every step of a call goes on, ends it, refuses it, turns it away or audits.
LEMMA CallAnswers ==
  ASSUME TypeOK, StepsApart, NEW c \in Calls, CallStep(c)
  PROVE  Continues(c) \/ Ends(c) \/ Refuses(c) \/ TurnsAway(c)
         \/ Audit(c) \/ CheckExpiry(c) \/ NoteExpiry(c) \/ AuditFails(c)
<1> USE DEF TypeOK, Continues, Ends, Refuses, TurnsAway, InFlight, Early, Locked, Goto, Leave,
            Refuse, Raise, order, call
<1>0. Calls \cap Drafts = {} /\ Calls \subseteq Actors
  BY ActorAssumption DEF Actors
<1> DEFINE Goal == Continues(c) \/ Ends(c) \/ Refuses(c) \/ TurnsAway(c)
<1>1. ASSUME NEW d \in Drafts, Claim(c, d) \/ LockUnavailable(c, d) PROVE Goal
  BY <1>0, <1>1 DEF Claim, LockUnavailable
<1>2. CASE ConfirmCheck(c) \/ AuthorizedCheck(c)
  BY <1>0, <1>2 DEF ConfirmCheck, AuthorizedCheck
<1>3. CASE ConsumeCode(c) \/ Validate(c)
  BY <1>0, <1>3 DEF ConsumeCode, Validate
<1>4. CASE Begin(c)
  BY <1>0, <1>4 DEF Begin
<1>5. CASE FinalCheck(c) \/ MarkStarted(c)
  BY <1>0, <1>5 DEF FinalCheck, MarkStarted
<1>6. CASE Send(c) \/ Answer(c)
  BY <1>0, <1>6 DEF Send, Answer, AnswerOr
<1>7. CASE FinishRead(c)
  BY <1>0, <1>7 DEF FinishRead
<1>8. CASE FinishWrite(c)
  <2>1. target[c] \in Drafts
    BY <1>8 DEF FinishWrite, StepsApart
  <2>2. c \in audit' <=> c \in audit
    BY <1>0, <1>8, <2>1 DEF FinishWrite
  <2>3. QED
    BY <1>0, <1>8, <2>2 DEF FinishWrite
<1>9. CASE StoreFails(c)
  BY <1>0, <1>9 DEF StoreFails
<1>10. QED
  BY <1>1, <1>2, <1>3, <1>4, <1>5, <1>6, <1>7, <1>8, <1>9 DEF CallStep, CallProgress

\* Only the call that inserts an order becomes its creator.
LEMMA CreatorFrame ==
  ASSUME TypeOK, StepsApart, NEW c \in Calls, CallStep(c), NEW d \in Drafts
  PROVE  creator'[d] \in {creator[d], c}
<1>1. CASE Begin(c)
  BY <1>1 DEF Begin, TypeOK, order
<1>2. CASE ~Begin(c)
  BY <1>2 DEF CallStep, CallProgress, Claim, LockUnavailable, ConfirmCheck, AuthorizedCheck,
     ConsumeCode, Validate, FinalCheck, MarkStarted, Send, Answer, AnswerOr, FinishRead,
     FinishWrite, StoreFails, Audit, CheckExpiry, NoteExpiry, AuditFails, order
<1>3. QED
  BY <1>1, <1>2

\* Every action keeps answers, creators and audit events in agreement.
LEMMA AnswersStep == IInv /\ Next => Answers'
<1> SUFFICES ASSUME IInv, Next, NEW b \in Calls PROVE AnswersOf(b)'
  BY DEF Answers
<1> USE DEF IInv
<1>0. /\ Calls \subseteq Actors /\ Sweeps \subseteq Actors /\ Calls \cap Sweeps = {}
      /\ AnswersOf(b)
  BY ActorAssumption DEF Actors, Answers
<1>1. ASSUME NEW c \in Calls, CallStep(c), b # c PROVE AnswersOf(b)'
  <2>1. Unmoved(b) /\ \A d \in Drafts : creator'[d] \in {creator[d], c}
    BY <1>1, CallFrame, CreatorFrame DEF FrameOf
  <2>2. QED
    BY <1>0, <1>1, <2>1 DEF AnswersOf, Unmoved
<1>2. ASSUME CallStep(b) PROVE AnswersOf(b)'
  <2>1. CASE Continues(b)
    BY <1>0, <2>1 DEF Continues, AnswersOf, Auditing, Locked, Early, InFlight, TypeOK
  <2>2. CASE Ends(b)
    BY <1>0, <2>2 DEF Ends, AnswersOf, Locked, Early, InFlight, Refused
  <2>3. CASE Refuses(b)
    BY <1>0, <2>3 DEF Refuses, AnswersOf, Auditing, Early, InFlight
  <2>4. CASE TurnsAway(b)
    BY <1>0, <2>4 DEF TurnsAway, AnswersOf, InFlight
  <2>5. CASE Audit(b)
    <3>1. /\ pc[b] = "audit" /\ result' = result /\ creator' = creator /\ b \in audit'
          /\ pc'[b] = IF result[b] = "expired" THEN "checkExpiry" ELSE "done"
      BY <1>0, <2>5 DEF Audit, Goto, TypeOK, order, call
    <3>2. QED
      BY <1>0, <3>1 DEF AnswersOf, Auditing, InFlight
  <2>6. CASE CheckExpiry(b) \/ NoteExpiry(b)
    <3>1. /\ pc[b] \in {"checkExpiry", "noteExpiry"} /\ pc'[b] \in {"noteExpiry", "done"}
          /\ creator' = creator /\ audit \subseteq audit'
          /\ result'[b] \in {result[b], "error"}
          /\ pc'[b] = "noteExpiry" => result'[b] = result[b]
      BY <1>0, <2>6 DEF CheckExpiry, NoteExpiry, Goto, TypeOK, order, call
    <3>2. QED
      BY <1>0, <3>1 DEF AnswersOf, InFlight, Auditing, Refused
  <2>7. CASE AuditFails(b)
    <3>1. /\ pc[b] \in Auditing /\ pc'[b] = "done" /\ result'[b] = "error"
          /\ creator' = creator /\ audit' = audit
      BY <1>0, <2>7 DEF AuditFails, Goto, TypeOK, order
    <3>2. QED
      BY <1>0, <3>1 DEF AnswersOf, InFlight, Auditing, Refused
  <2>8. QED
    BY <1>2, <2>1, <2>2, <2>3, <2>4, <2>5, <2>6, <2>7, CallAnswers
<1>3. ASSUME NEW s \in Sweeps, SweepStep(s) PROVE AnswersOf(b)'
  <2>1. Unmoved(b) /\ creator' = creator
    BY <1>3, SweepFrame DEF SweepStep, SweepScan, SweepList, SweepClaim, SweepTake,
       SweepRecover, SweepStore, SweepEnd, SweepFails, order
  <2>2. QED
    BY <1>0, <2>1 DEF AnswersOf, Unmoved
<1>4. ASSUME NEW d \in Drafts, IssueCode(d) \/ Expire(d) \/ BrokerDecides(d) PROVE AnswersOf(b)'
  BY <1>0, <1>4 DEF IssueCode, Expire, BrokerDecides, AnswersOf, order, call
<1>5. ASSUME NEW p \in Processes, Crash(p) PROVE AnswersOf(b)'
  <2>1. /\ UNCHANGED <<creator, audit, target>>
        /\ \/ pc'[b] = pc[b] /\ result'[b] = result[b]
           \/ pc'[b] = "done" /\ result'[b] = "crashed"
    BY <1>0, <1>5 DEF Crash, order
  <2>2. QED
    BY <1>0, <2>1 DEF AnswersOf, InFlight, Refused
<1>6. QED
  BY <1>1, <1>2, <1>3, <1>4, <1>5 DEF Next, World

\* Only the call that inserted an order marks its intent.
LEMMA StartedFrame ==
  ASSUME IInv, NEW c \in Calls, CallStep(c), NEW d \in Drafts, creator[d] # c
  PROVE  started'[d] = started[d]
<1>1. CASE MarkStarted(c)
  <2>1. FlightOf(c) /\ pc[c] \in InFlight
    BY <1>1 DEF MarkStarted, IInv, Flight, InFlight
  <2>2. d # target[c]
    BY <2>1 DEF FlightOf
  <2>3. QED
    BY <1>1, <2>2 DEF MarkStarted, IInv, TypeOK
<1>2. CASE ~MarkStarted(c)
  BY <1>2 DEF CallStep, CallProgress, Claim, LockUnavailable, ConfirmCheck, AuthorizedCheck,
     ConsumeCode, Validate, Begin, FinalCheck, Send, Answer, AnswerOr, FinishRead,
     FinishWrite, StoreFails, Audit, CheckExpiry, NoteExpiry, AuditFails, order
<1>3. QED
  BY <1>1, <1>2

\* Every action leaves the order of such a call unsent: the call is gone, and
\* its intent was its own to mark.
LEMMA UnsentStep == IInv /\ Next => Unsent'
<1> SUFFICES ASSUME IInv, Next, NEW b \in Calls PROVE UnsentOf(b)'
  BY DEF Unsent
<1>0. UnsentOf(b) /\ AnswersOf(b) /\ FlightOf(b)
  BY DEF IInv, Unsent, Answers, Flight
<1>1. ASSUME NEW c \in Calls, CallStep(c), b # c PROVE UnsentOf(b)'
  <2>1. /\ result'[b] = result[b]
        /\ \A d \in Drafts : creator'[d] = b => creator[d] = b
    BY <1>1, CallFrame, CreatorFrame DEF IInv, FrameOf, Unmoved
  <2>2. QED
    BY <1>0, <1>1, <2>1, StartedFrame DEF UnsentOf
<1>2. ASSUME CallStep(b) PROVE UnsentOf(b)'
  <2>1. CASE Continues(b)
    BY <1>0, <2>1 DEF Continues, AnswersOf, UnsentOf, Auditing, Locked, Early, InFlight
  <2>2. CASE Ends(b)
    <3>1. pc[b] \in Locked
      BY <2>2 DEF Ends
    <3>2. \A d \in Drafts : creator[d] = b => pc[b] \in InFlight /\ target[b] = d
      BY <1>0, <3>1 DEF AnswersOf, Locked, Early, InFlight
    <3>3. result'[b] = "lock_unavailable" =>
            \A d \in Drafts : creator[d] = b => ~started[d]
      BY <1>0, <2>2, <3>2 DEF Ends, FlightOf, InFlight
    <3>4. QED
      BY <2>2, <3>3 DEF Ends, UnsentOf
  <2>3. CASE Refuses(b)
    BY <2>3 DEF Refuses, UnsentOf
  <2>4. CASE TurnsAway(b)
    BY <1>0, <2>4 DEF TurnsAway, AnswersOf, UnsentOf, InFlight
  <2>5. CASE Audit(b)
    BY <1>0, <2>5 DEF Audit, AnswersOf, UnsentOf, order, call
  <2>6. CASE CheckExpiry(b) \/ NoteExpiry(b)
    <3>1. result[b] = "expired" /\ result'[b] \in {result[b], "error"}
      BY <1>0, <2>6 DEF CheckExpiry, NoteExpiry, AnswersOf, IInv, TypeOK, call
    <3>2. QED
      BY <3>1 DEF UnsentOf
  <2>7. CASE AuditFails(b)
    BY <2>7 DEF AuditFails, UnsentOf, IInv, TypeOK
  <2>8. QED
    BY <1>2, <2>1, <2>2, <2>3, <2>4, <2>5, <2>6, <2>7, CallAnswers DEF IInv
<1>3. ASSUME NEW s \in Sweeps, SweepStep(s) PROVE UnsentOf(b)'
  BY <1>0, <1>3 DEF SweepStep, SweepScan, SweepList, SweepClaim, SweepTake, SweepRecover,
     SweepStore, SweepEnd, SweepFails, UnsentOf, order, call
<1>4. ASSUME NEW d \in Drafts, IssueCode(d) \/ Expire(d) \/ BrokerDecides(d) PROVE UnsentOf(b)'
  BY <1>0, <1>4 DEF IssueCode, Expire, BrokerDecides, UnsentOf, order, call
<1>5. ASSUME NEW p \in Processes, Crash(p) PROVE UnsentOf(b)'
  <2>1. UNCHANGED <<creator, started>> /\ result'[b] \in {result[b], "crashed"}
    BY <1>5 DEF Crash, order
  <2>2. QED
    BY <1>0, <2>1 DEF UnsentOf
<1>6. QED
  BY <1>1, <1>2, <1>3, <1>4, <1>5 DEF Next, World

-----------------------------------------------------------------------------
(* The inductive invariant and what follows from it. *)

\* The invariant holds before anything is submitted.
LEMMA Initially == Init => IInv
<1> SUFFICES ASSUME Init PROVE IInv
  OBVIOUS
<1>1. TypeOK
  BY UnknownTyping DEF Init, TypeOK, BoundAssumption, Locked, Outside, Sources, Results
<1>2. StepsApart /\ Ownership
  BY ActorAssumption DEF Init, StepsApart, Ownership, Actors, Locked, Early, InFlight
<1>3. Flight /\ Answers /\ Unsent
  BY ActorAssumption
  DEF Init, Flight, FlightOf, Answers, AnswersOf, Unsent, UnsentOf, Actors, InFlight, Refused
<1>4. Record
  BY DEF Init, Record, RecordOf, Working
<1>5. QED
  BY <1>1, <1>2, <1>3, <1>4 DEF IInv

\* Every step, and every stutter, keeps the invariant.
LEMMA Inductive == IInv /\ [Next]_vars => IInv'
<1> SUFFICES ASSUME IInv, [Next]_vars PROVE IInv'
  OBVIOUS
<1>1. CASE Next
  BY <1>1, TypeStep, StepsApartStep, OwnershipStep, FlightStep, RecordStep, AnswersStep,
     UnsentStep DEF IInv
<1>2. CASE UNCHANGED vars
  <2> USE <1>2 DEF IInv, vars, order, call, broker, world
  <2>1. TypeOK' /\ StepsApart' /\ Ownership'
    BY DEF TypeOK, StepsApart, Ownership
  <2>2. Flight' /\ Record' /\ Answers' /\ Unsent'
    BY DEF Flight, FlightOf, Matches, Record, RecordOf, Answers, AnswersOf, Unsent, UnsentOf
  <2>3. QED
    BY <2>1, <2>2
<1>3. QED
  BY <1>1, <1>2

\* The inductive invariant holds in every reachable state of submission.
THEOREM Invariance == Spec => []IInv
BY Initially, Inductive, PTL DEF Spec

\* Submission keeps every variable in its type.
THEOREM TypeCorrect == Spec => []TypeOK
<1>1. IInv => TypeOK
  BY DEF IInv
<1>2. QED
  BY <1>1, Invariance, PTL

\* However many calls, sweeps and processes there are, however often they
\* crash: a draft's request reaches the broker at most once, and only after
\* mark_provider_submission_started committed the intent.
THEOREM AtMostOnce == Spec => []AtMostOneSubmission
<1>1. IInv => AtMostOneSubmission
  BY DEF IInv, Record, RecordOf, AtMostOneSubmission
<1>2. QED
  BY <1>1, Invariance, PTL

\* Recovery and rival calls never touch the order of a live submission, so
\* the unguarded write of finish_order_submission loses no update.
THEOREM OwnerSafe == Spec => []OwnerUndisturbed
<1>1. IInv => OwnerUndisturbed
  BY DEF IInv, Flight, FlightOf, OwnerUndisturbed
<1>2. QED
  BY <1>1, Invariance, PTL

\* The order's row never claims more, or less, than the broker knows.
THEOREM Truthful == Spec => []RecordTruthful
<1>1. IInv => RecordTruthful
  BY DEF IInv, Record, RecordOf, RecordTruthful
<1>2. QED
  BY <1>1, Invariance, PTL

\* A refused call left no order behind, one that was told its lock could not be
\* had left at most an order of which nothing is ever sent, and exactly the
\* refusals of confirm that are not about the lock are audited.
THEOREM RefusalsFinal == Spec => []RefusalIsFinal
<1>1. IInv => RefusalIsFinal
  <2> SUFFICES
        ASSUME IInv, NEW c \in Calls
        PROVE  /\ result[c] \in Refused \/ c \in audit => \A d \in Drafts : creator[d] # c
               /\ result[c] = "lock_unavailable"
                    => \A d \in Drafts : creator[d] = c => ~started[d] /\ sends[d] = 0
               /\ c \in Confirms /\ pc[c] = "done" /\ result[c] \in {"refused", "expired"}
                    => c \in audit
               /\ result[c] \in {"in_progress", "lock_unavailable"} => c \notin audit
    BY DEF RefusalIsFinal, Refused
  <2>1. AnswersOf(c) /\ UnsentOf(c) /\ \A d \in Drafts : RecordOf(d)
    BY DEF IInv, Answers, Unsent, Record
  <2>2. result[c] = "lock_unavailable"
          => \A d \in Drafts : creator[d] = c => ~started[d] /\ sends[d] = 0
    BY <2>1 DEF UnsentOf, RecordOf
  <2>3. QED
    BY <2>1, <2>2 DEF AnswersOf, Auditing, Refused, InFlight
<1>2. QED
  BY <1>1, Invariance, PTL

-----------------------------------------------------------------------------
(* What a step can do to the orders: nothing, or one of three moves of one  *)
(* order, which are those of SubmitOnce.                                    *)

Rests ==
  /\ UNCHANGED <<state, version, creator, sends>>
  /\ \A d \in Drafts : started[d] => started'[d]

Inserts(d) ==
  /\ state[d] = "ABSENT" /\ creator[d] = None
  /\ state' = [state EXCEPT ![d] = "SUBMITTING"]
  /\ \E c \in Calls : creator' = [creator EXCEPT ![d] = c]
  /\ UNCHANGED <<started, sends>>

Delivers(d) ==
  /\ state[d] = "SUBMITTING" /\ sends[d] = 0
  /\ sends' = [sends EXCEPT ![d] = 1]
  /\ UNCHANGED order

Settles(d) ==
  /\ state[d] = "SUBMITTING"
  /\ \E s \in OrderState : /\ MayMove("SUBMITTING", s)
                           /\ s \in Working => sends[d] = 1
                           /\ state' = [state EXCEPT ![d] = s]
  /\ version' = [version EXCEPT ![d] = @ + 1]
  /\ UNCHANGED <<started, creator, sends>>

Moved == Rests \/ \E d \in Drafts : Inserts(d) \/ Delivers(d) \/ Settles(d)

\* A call's step makes at most one of the three moves, on its own draft.
LEMMA CallMoves ==
  ASSUME IInv, NEW c \in Calls, CallStep(c)
  PROVE  Moved
<1> USE DEF IInv
<1>1. pc[c] \in InFlight \cup {"ready"} => target[c] \in Drafts /\ RecordOf(target[c])
  BY Held DEF Actors, Locked, Early, InFlight, Record
<1>2. pc[c] \in InFlight => FlightOf(c)
  BY DEF Flight
<1>3. CASE Begin(c)
  <2>1. pc[c] = "ready"
    BY <1>3 DEF Begin
  <2>2. CASE state[target[c]] = "ABSENT" /\ ~expired[target[c]]
    BY <1>1, <1>3, <2>1, <2>2 DEF Begin, RecordOf, Moved, Inserts, broker
  <2>3. CASE ~(state[target[c]] = "ABSENT" /\ ~expired[target[c]])
    BY <1>3, <2>3 DEF Begin, Moved, Rests, order, broker
  <2>4. QED
    BY <2>2, <2>3
<1>4. CASE MarkStarted(c)
  BY <1>4 DEF MarkStarted, Moved, Rests, order, broker, TypeOK
<1>5. CASE Send(c)
  <2>1. pc[c] = "sending" /\ pc[c] \in InFlight
    BY <1>5 DEF Send, InFlight
  <2>2. sends[target[c]] = 0 /\ state[target[c]] = "SUBMITTING"
    BY <1>2, <2>1 DEF FlightOf, Matches
  <2>3. sends' = [sends EXCEPT ![target[c]] = 1] /\ UNCHANGED order
    BY <1>5, <2>2 DEF Send
  <2>4. QED
    BY <1>1, <2>1, <2>2, <2>3 DEF Moved, Delivers
<1>6. CASE FinishWrite(c)
  <2>1. pc[c] = "writing" /\ pc[c] \in InFlight
    BY <1>6 DEF FinishWrite, InFlight
  <2>2. pending[c].state \in OrderState
    BY DEF TypeOK, Outcomes
  <2>3. pending[c].state \in Working => sends[target[c]] = 1
    BY <1>1, <1>2, <2>1 DEF FlightOf, RecordOf
  <2>4. Settles(target[c])
    BY <1>2, <1>6, <2>1, <2>2, <2>3 DEF FinishWrite, FlightOf, Matches, Settles, broker
  <2>5. QED
    BY <1>1, <2>1, <2>4 DEF Moved
<1>7. CASE ~(Begin(c) \/ MarkStarted(c) \/ Send(c) \/ FinishWrite(c))
  BY <1>7 DEF CallStep, CallProgress, Claim, LockUnavailable, ConfirmCheck, AuthorizedCheck,
     ConsumeCode, Validate, FinalCheck, Answer, AnswerOr, FinishRead, StoreFails, Audit,
     CheckExpiry, NoteExpiry, AuditFails, Moved, Rests, order, broker
<1>8. QED
  BY <1>3, <1>4, <1>5, <1>6, <1>7

\* So does any step.
LEMMA StepMoves == IInv /\ Next => Moved
<1> SUFFICES ASSUME IInv, Next PROVE Moved
  OBVIOUS
<1>1. ASSUME NEW s \in Sweeps, SweepRecover(s) PROVE Moved
  <2>1. s \in Actors /\ pc[s] \in Locked
    BY <1>1 DEF SweepRecover, SweepStore, Actors, Locked
  <2>2. target[s] \in Drafts
    BY <2>1, Held DEF IInv
  <2>3. CASE state[target[s]] = "SUBMITTING"
    <3>1. Settles(target[s])
      BY <1>1, <2>3, SubmittingMoves
      DEF SweepRecover, SweepStore, Settles, OrderState, Working, broker
    <3>2. QED
      BY <2>2, <3>1 DEF Moved
  <2>4. CASE state[target[s]] # "SUBMITTING"
    BY <1>1, <2>4 DEF SweepRecover, SweepStore, Moved, Rests, broker
  <2>5. QED
    BY <2>3, <2>4
<1>2. ASSUME NEW s \in Sweeps, SweepStep(s), ~SweepRecover(s) PROVE Moved
  BY <1>2 DEF SweepStep, SweepScan, SweepList, SweepClaim, SweepTake, SweepEnd, SweepFails,
     Moved, Rests, order, broker
<1>3. CASE World
  BY <1>3 DEF World, IssueCode, Expire, BrokerDecides, Crash, Moved, Rests, order, broker
<1>4. QED
  BY <1>1, <1>2, <1>3, CallMoves DEF Next

\* Every change of an order is a transition of _TRANSITIONS that raises the
\* version by one; the intent and the inserting call are never taken back.
THEOREM HistoryLegal == Spec => LegalHistory
<1> DEFINE Kept(d) ==
      /\ state[d] # "ABSENT" /\ state'[d] # state[d]
           => MayMove(state[d], state'[d]) /\ version'[d] = version[d] + 1
      /\ started[d] => started'[d]
      /\ creator[d] # None => creator'[d] = creator[d]
<1>1. IInv /\ [Next]_vars => [\A d \in Drafts : Kept(d)]_vars
  <2> SUFFICES ASSUME IInv, Next, NEW d \in Drafts PROVE Kept(d)
    OBVIOUS
  <2>1. CASE Rests
    BY <2>1 DEF Rests
  <2>2. ASSUME NEW e \in Drafts, Inserts(e) \/ Delivers(e) \/ Settles(e) PROVE Kept(d)
    BY <2>2 DEF Inserts, Delivers, Settles, IInv, TypeOK, order
  <2>3. QED
    BY <2>1, <2>2, StepMoves DEF Moved
<1>2. QED
  BY <1>1, Invariance, PTL DEF Spec, LegalHistory

\* Submission implements SubmitOnce: each step inserts, delivers or settles one
\* order as that specification allows, or stutters.
THEOREM Refinement == Spec => ImplementsSubmitOnce
<1>1. Init => Once!Init
  BY DEF Init, Once!Init
<1>2. IInv /\ [Next]_vars => [Once!Next]_Once!vars
  <2> SUFFICES ASSUME IInv, [Next]_vars PROVE Once!Next \/ UNCHANGED Once!vars
    OBVIOUS
  <2>1. CASE UNCHANGED vars \/ Rests
    BY <2>1 DEF vars, order, broker, Rests, Once!vars
  <2>2. ASSUME NEW d \in Drafts, Inserts(d) PROVE Once!Record(d)
    BY <2>2 DEF Inserts, Once!Record
  <2>3. ASSUME NEW d \in Drafts, Delivers(d) PROVE Once!Deliver(d)
    BY <2>3 DEF Delivers, Once!Deliver, order
  <2>4. ASSUME NEW d \in Drafts, Settles(d) PROVE \E s \in Once!OrderState : Once!Settle(d, s)
    BY <2>4 DEF Settles, Once!Settle, OrderState, Once!OrderState, MayMove, Once!MayMove,
       Transitions, Once!Transitions, Working, Once!Working
  <2>5. QED
    BY <2>1, <2>2, <2>3, <2>4, StepMoves DEF Moved, Once!Next
<1>3. QED
  BY <1>1, <1>2, Invariance, PTL DEF Spec, ImplementsSubmitOnce, Once!Spec
-----------------------------------------------------------------------------
(* Locks come back. *)

\* A draft's lock is free, or held by an actor that is at work on that draft.
HeldInUse ==
  \A d \in Drafts : lock[d] # None => pc[lock[d]] \in Locked /\ target[lock[d]] = d

\* A step that takes, keeps or gives up a lock leaves none behind.
LEMMA LockingInUse ==
  ASSUME TypeOK, Ownership, HeldInUse, NEW a \in Actors,
         Takes(a) \/ Keeps(a) \/ Drops(a) \/ Roams(a)
  PROVE  HeldInUse'
<1> SUFFICES ASSUME NEW d \in Drafts, lock'[d] # None
             PROVE  pc'[lock'[d]] \in Locked /\ target'[lock'[d]] = d
  BY DEF HeldInUse
<1> Locked \cap Outside = {} /\ None \notin Actors
  BY ActorAssumption DEF Locked, Outside, Auditing, Early, InFlight
<1>1. CASE Takes(a)
  BY <1>1 DEF Takes, Moves, TypeOK, HeldInUse
<1>2. CASE Keeps(a)
  BY <1>2 DEF Keeps, Moves, TypeOK, HeldInUse
<1>3. CASE Drops(a)
  <2>1. lock[d] # a
    BY <1>3 DEF Drops, Release, TypeOK, HeldInUse
  <2> QED
    BY <1>3, <2>1 DEF Drops, Moves, Release, TypeOK, HeldInUse
<1>4. CASE Roams(a)
  <2>1. lock[d] # a
    BY <1>4 DEF Roams, HeldInUse
  <2> QED
    BY <1>4, <2>1 DEF Roams, Moves, TypeOK, HeldInUse
<1> QED
  BY <1>1, <1>2, <1>3, <1>4

\* Every action, whichever way it ends, gives its lock back when it leaves.
LEMMA InUseStep == IInv /\ HeldInUse /\ [Next]_vars => HeldInUse'
<1> SUFFICES ASSUME IInv, HeldInUse, [Next]_vars PROVE HeldInUse'
  OBVIOUS
<1> USE DEF IInv
<1>1. ASSUME NEW c \in Calls, CallStep(c) PROVE HeldInUse'
  BY <1>1, CallLocking, LockingInUse DEF Actors
<1>2. ASSUME NEW s \in Sweeps, SweepStep(s) PROVE HeldInUse'
  BY <1>2, SweepLocking, LockingInUse DEF Actors
<1>3. ASSUME NEW d \in Drafts, IssueCode(d) \/ Expire(d) \/ BrokerDecides(d) PROVE HeldInUse'
  BY <1>3 DEF IssueCode, Expire, BrokerDecides, HeldInUse
<1>4. ASSUME NEW p \in Processes, Crash(p) PROVE HeldInUse'
  BY <1>4 DEF Crash, HeldInUse, TypeOK
<1>5. CASE UNCHANGED vars
  BY <1>5 DEF vars, HeldInUse
<1> QED
  BY <1>1, <1>2, <1>3, <1>4, <1>5 DEF Next, World

\* No path through a call or a sweep, no failed transaction and no crash leaves
\* a draft's lock behind: recovery, which skips an order whose lock is held,
\* only ever skips one that somebody is at work on.
THEOREM LocksInUse == Spec => []HeldInUse
<1>1. Init => HeldInUse
  BY DEF Init, HeldInUse
<1>2. QED
  BY <1>1, Invariance, InUseStep, PTL DEF Spec
=============================================================================
