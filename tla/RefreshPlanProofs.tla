--------------------------- MODULE RefreshPlanProofs ---------------------------
(***************************************************************************)
(* Proofs about RefreshPlan for any number of orders, on the page or not,  *)
(* of groups, failures and clicks, and for any interval and back-off.      *)
(***************************************************************************)
EXTENDS RefreshPlan, FiniteSetTheorems, WellFoundedInduction, TLAPS

\* Who asks for a refresh names an order.
RequestOK ==
  request # NoRequest =>
     /\ request.order \in Orders /\ request.mode \in {"manual", "scheduled"}
     /\ request.step \in {"sent", "decided"}
TimerOK == timer.kind = "refresh" => timer.order \in Orders

\* Who was attempted while another order waited is behind it.
Behind == \A o, p \in Orders : o \in passed[p] => rank[p] < rank[o]

IInv == TypeOK /\ RequestOK /\ TimerOK /\ LoopNeverDead /\ Behind

-----------------------------------------------------------------------------
(* Firsts *)

LEMMA Least ==
  ASSUME NEW T \in SUBSET Nat, T # {}
  PROVE  \E n \in T : \A m \in T : n <= m
<1>1. PICK n \in T : \A m \in T : ~ (<<m, n>> \in OpToRel(<, Nat))
  BY WFMin, NatLessThanWellFounded
<1>2. \A m \in T : ~ (m < n)
  BY <1>1 DEF OpToRel
<1> QED
  BY <1>2

\* There is a first order among those that are due.
LEMMA FirstByEffect ==
  ASSUME NEW number \in [Orders -> Nat], NEW due \in SUBSET Orders, due # {}
  PROVE  /\ FirstBy(number, due) \in due
         /\ \A p \in due : number[FirstBy(number, due)] <= number[p]
<1> DEFINE T == {number[o] : o \in due}
<1>1. T \in SUBSET Nat /\ T # {}
  OBVIOUS
<1> HIDE DEF T
<1>2. PICK n \in T : \A m \in T : n <= m
  BY <1>1, Least
<1>3. PICK o \in due : n = number[o]
  BY DEF T
<1>4. \E x \in due : \A p \in due : number[x] <= number[p]
  BY <1>2, <1>3 DEF T
<1> QED
  BY <1>4 DEF FirstBy

\* There is an earliest group in a plan that names some.
LEMMA EarliestEffect ==
  ASSUME TypeOK, NEW gs \in SUBSET Groups, gs # {}
  PROVE  Earliest(gs) \in gs
<1> DEFINE T == {At(g) : g \in gs}
<1>1. \A g \in gs : At(g) \in Nat /\ g \in Nat
  BY PlanAssumption DEF TypeOK, At
<1>2. T \in SUBSET Nat /\ T # {}
  BY <1>1
<1> HIDE DEF T
<1>3. PICK n \in T : \A m \in T : n <= m
  BY <1>2, Least
<1> DEFINE U == {g \in gs : At(g) = n}
<1>4. U \in SUBSET Nat /\ U # {}
  BY <1>1 DEF T
<1> HIDE DEF U
<1>5. PICK g \in U : \A h \in U : g <= h
  BY <1>4, Least
<1>6. g \in gs /\ At(g) = n
  BY DEF U
<1>7. \A h \in gs : At(g) < At(h) \/ (At(g) = At(h) /\ g <= h)
  <2> SUFFICES ASSUME NEW h \in gs PROVE At(g) < At(h) \/ (At(g) = At(h) /\ g <= h)
    OBVIOUS
  <2>1. n <= At(h)
    BY <1>3 DEF T
  <2>2. CASE At(h) = n
    BY <1>5, <1>6, <2>2 DEF U
  <2>3. CASE At(h) # n
    BY <1>1, <1>6, <2>1, <2>3
  <2> QED
    BY <2>2, <2>3
<1> QED
  BY <1>6, <1>7 DEF Earliest

LEMMA Numbers == Cardinality(Orders) \in Nat
BY FS_CardinalityType, PlanAssumption

\* The target of a group that has one: an order that can be refreshed, and the
\* first of those.
LEMMA TargetEffect ==
  ASSUME TypeOK, NEW g
  PROVE  /\ Target(g) # None =>
              /\ Target(g) \in Candidates(g)
              /\ \A p \in Candidates(g) : rank[Target(g)] <= rank[p]
         /\ Candidates(g) # {} => Target(g) \in Candidates(g)
<1>1. rank \in [Orders -> Nat]
  BY Numbers DEF TypeOK
<1>2. CASE Candidates(g) = {}
  BY <1>2 DEF Target
<1>3. CASE Candidates(g) # {}
  <2>1. Candidates(g) \in SUBSET Orders
    BY DEF Candidates
  <2>2. Target(g) = FirstBy(rank, Candidates(g))
    BY <1>3 DEF Target
  <2> QED
    BY <1>1, <1>3, <2>1, <2>2, FirstByEffect
<1> QED
  BY <1>2, <1>3

\* An attempt puts its order last, and leaves the others in their order.
LEMMA ClaimEffect ==
  ASSUME TypeOK, NEW o \in Orders, Claim(o)
  PROVE  /\ rank' \in [Orders -> 1..Cardinality(Orders)]
         /\ \A p, q \in Orders : rank'[p] = rank'[q] => p = q
         /\ \A p \in Orders \ {o} : rank'[p] < rank'[o]
         /\ \A p, q \in Orders \ {o} : rank[p] < rank[q] => rank'[p] < rank'[q]
<1> DEFINE N == Cardinality(Orders)
<1>1. N \in Nat
  BY Numbers
<1> HIDE DEF N
<1>2. rank \in [Orders -> 1..N] /\ \A p, q \in Orders : rank[p] = rank[q] => p = q
  BY DEF TypeOK, N
<1>3. \A p \in Orders : rank'[p] = IF p = o THEN N
                                   ELSE IF rank[p] > rank[o] THEN rank[p] - 1 ELSE rank[p]
  BY DEF Claim, N
<1>4. ASSUME NEW p \in Orders \ {o}
      PROVE  rank'[p] \in 1..(N - 1) /\ (rank'[p] = rank[p] - 1 \/ rank'[p] = rank[p])
  <2>1. rank[p] # rank[o] /\ rank[p] \in 1..N /\ rank[o] \in 1..N
    BY <1>2
  <2> QED
    BY <1>1, <1>3, <2>1
<1>5. N \in 1..N
  BY <1>1, <1>2
<1>6. rank' \in [Orders -> 1..N]
  <2>1. \A p \in Orders : rank'[p] \in 1..N
    BY <1>1, <1>3, <1>4, <1>5
  <2> QED
    BY <2>1 DEF Claim
<1>7. ASSUME NEW p \in Orders \ {o}, NEW q \in Orders \ {o}, rank[p] < rank[q]
      PROVE  rank'[p] < rank'[q]
  <2>1. rank[p] \in 1..N /\ rank[q] \in 1..N /\ rank[o] \in 1..N
        /\ rank[p] # rank[o] /\ rank[q] # rank[o]
    BY <1>2
  <2> QED
    BY <1>1, <1>3, <1>7, <2>1
<1>8. \A p \in Orders \ {o} : rank'[p] < rank'[o]
  BY <1>1, <1>3, <1>4
<1>9. \A p, q \in Orders : rank'[p] = rank'[q] => p = q
  <2> SUFFICES ASSUME NEW p \in Orders, NEW q \in Orders, p # q PROVE rank'[p] # rank'[q]
    OBVIOUS
  <2>1. rank'[p] \in Nat /\ rank'[q] \in Nat
    BY <1>1, <1>6
  <2>2. rank[p] \in Nat /\ rank[q] \in Nat /\ rank[p] # rank[q]
    BY <1>1, <1>2
  <2>3. CASE p = o \/ q = o
    BY <1>8, <2>1, <2>3
  <2>4. CASE p # o /\ q # o
    BY <1>7, <2>1, <2>2, <2>4
  <2> QED
    BY <2>3, <2>4
<1> QED
  BY <1>6, <1>7, <1>8, <1>9 DEF N

-----------------------------------------------------------------------------
(* Steps of the loop *)

Phases == {"stopped", "loading", "waiting", "refreshing", "busy", "asleep"}
Timers == [kind : {"none", "reload", "refresh"}, order : Orders \cup {None}, left : 0..Interval]
Requests == [order : Orders \cup {None}, mode : {"none", "manual", "scheduled"},
             step : {"none", "sent", "decided"}]

ApiOK ==
  /\ state \in [Orders -> {"submitting", "open", "over"}]
  /\ rank \in [Orders -> 1..Cardinality(Orders)]
  /\ \A o, p \in Orders : rank[o] = rank[p] => o = p
  /\ wait \in [Groups -> 0..Interval]
  /\ passed \in [Orders -> SUBSET Orders]

LoopOK ==
  /\ retry \in [Groups -> 0..MaxBackoff]
  /\ phase \in Phases /\ timer \in Timers
  /\ (phase = "waiting") <=> (timer.kind # "none")
  /\ TimerOK

AskedOK == request \in Requests /\ RequestOK
BoundsOK == faults \in 0..MaxFaults /\ clicks \in 0..MaxClicks

\* The parts of the invariant, by what the steps change.
LEMMA Parts == IInv <=> ApiOK /\ LoopOK /\ AskedOK /\ BoundsOK /\ LoopNeverDead /\ Behind
BY DEF IInv, TypeOK, ApiOK, LoopOK, AskedOK, BoundsOK, Phases, Timers, Requests

LEMMA NoTimerOK == NoTimer \in Timers /\ NoTimer.kind = "none"
BY PlanAssumption DEF NoTimer, Timers

LEMMA NoRequestOK == NoRequest \in Requests /\ NoRequest.step = "none"
BY DEF NoRequest, Requests

\* A request under way names an order and its group.
LEMMA RequestEffect ==
  ASSUME AskedOK, request # NoRequest \/ request.step \in {"sent", "decided"}
  PROVE  /\ request.order \in Orders /\ request.mode \in {"manual", "scheduled"}
         /\ GroupOf[request.order] \in Groups
<1>1. request # NoRequest
  BY DEF NoRequest
<1> QED
  BY <1>1, PlanAssumption DEF AskedOK, RequestOK

\* A timer that is set and leaves the loop alive.
LEMMA ScheduleEffect ==
  ASSUME IInv, Schedule
  PROVE  /\ phase' \in {"waiting", "asleep"} /\ timer' \in Timers
         /\ (phase' = "waiting") <=> (timer'.kind # "none")
         /\ timer'.kind = "refresh" => timer'.order \in Orders
         /\ phase' = "asleep" => \A o \in Shown : state[o] = "over"
<1> DEFINE gs == Planned  next == Earliest(gs)
           sub == \E o \in Shown : state[o] = "submitting"
<1> TypeOK
  BY DEF IInv
<1>1. Page.refresh_groups = gs /\ (Page.submitting <=> sub)
  BY DEF Page
<1>2. CASE gs # {} /\ (sub => At(next) = 0)
  <2>1. phase' = "waiting" /\ timer' = [kind |-> "refresh", order |-> Target(next), left |-> At(next)]
    BY <1>1, <1>2 DEF Schedule
  <2>2. gs \in SUBSET Groups
    BY PlanAssumption DEF Planned
  <2>3. next \in gs
    BY <1>2, <2>2, EarliestEffect
  <2>4. At(next) \in 0..Interval
    <3>1. PICK g \in Groups : g = next
      BY <2>2, <2>3
    <3>2. wait[g] \in 0..Interval /\ retry[g] \in 0..Interval
      BY PlanAssumption DEF TypeOK
    <3> QED
      BY <3>1, <3>2 DEF At
  <2>5. Candidates(next) # {}
    BY <2>3, PlanAssumption DEF Planned, Candidates
  <2>6. Target(next) \in Orders
    BY <2>5, TargetEffect DEF Candidates
  <2> HIDE DEF next
  <2> QED
    BY <2>1, <2>4, <2>6 DEF Timers
<1>3. CASE ~ (gs # {} /\ (sub => At(next) = 0)) /\ sub
  <2>1. phase' = "waiting" /\ timer' = [kind |-> "reload", order |-> None, left |-> 1]
    BY <1>1, <1>3 DEF Schedule
  <2> QED
    BY <2>1, PlanAssumption DEF Timers
<1>4. CASE gs = {} /\ ~ sub
  <2>1. phase' = "asleep" /\ timer' = NoTimer
    BY <1>1, <1>4 DEF Schedule
  <2>2. ASSUME NEW o \in Shown PROVE state[o] = "over"
    <3>1. state[o] \in {"submitting", "open", "over"}
      BY PlanAssumption DEF TypeOK
    <3>2. state[o] # "open"
      BY <1>4 DEF Planned, Syncable
    <3> QED
      BY <1>4, <3>1, <3>2
  <2> QED
    BY <2>1, <2>2, NoTimerOK
<1> QED
  BY <1>2, <1>3, <1>4

\* What a step of the loop leaves alone.
LEMMA LoopKeeps ==
  ASSUME IInv, UNCHANGED api, LoopOK', AskedOK', BoundsOK',
         phase' # "asleep" \/ phase' = phase
  PROVE  IInv'
<1>1. ApiOK' /\ Behind'
  BY Parts DEF ApiOK, Behind, api
<1>2. LoopNeverDead'
  BY Parts DEF LoopNeverDead, api
<1> QED
  BY <1>1, <1>2, Parts DEF IInv, TypeOK, ApiOK, LoopOK, AskedOK, BoundsOK, Phases, Timers,
     Requests, LoopNeverDead, Behind, TimerOK, RequestOK

\* Load, LoadFails, Fire, Wake, Hide and Show.
LEMMA LoopInductive ==
  ASSUME IInv, Load \/ LoadFails \/ Fire \/ Wake \/ Hide \/ Show
  PROVE  IInv'
<1> ApiOK /\ LoopOK /\ AskedOK /\ BoundsOK /\ LoopNeverDead /\ Behind
  BY Parts
<1>1. CASE Load
  <2>1. LoopOK' /\ (phase' = "asleep" => \A o \in Shown : state[o] = "over")
    BY <1>1, ScheduleEffect DEF Load, LoopOK, TimerOK, Phases
  <2>2. UNCHANGED <<state, rank, wait, passed, request, faults, clicks>>
    BY <1>1 DEF Load, api
  <2> QED
    BY <2>1, <2>2 DEF IInv, TypeOK, LoopOK, RequestOK, LoopNeverDead, Behind, Phases, Timers
<1>2. CASE LoadFails
  <2>1. PICK left \in 1..MaxBackoff : timer' = [kind |-> "reload", order |-> None, left |-> left]
    BY <1>2 DEF LoadFails
  <2>2. timer' \in Timers /\ timer'.kind = "reload"
    BY <2>1, PlanAssumption DEF Timers
  <2>3. LoopOK' /\ AskedOK' /\ phase' = "waiting"
    BY <1>2, <2>2 DEF LoadFails, LoopOK, TimerOK, Phases, AskedOK, RequestOK
  <2>4. BoundsOK'
    BY <1>2, PlanAssumption DEF LoadFails, BoundsOK
  <2> QED
    BY <1>2, <2>3, <2>4, LoopKeeps DEF LoadFails
<1>3. CASE Fire
  <2>1. LoopOK' /\ phase' # "asleep"
    BY <1>3, NoTimerOK DEF Fire, LoopOK, TimerOK, Phases
  <2>2. AskedOK'
    <3>1. CASE UNCHANGED request
      BY <3>1 DEF AskedOK, RequestOK
    <3>2. CASE /\ timer.kind # "reload"
               /\ request' = [order |-> timer.order, mode |-> "scheduled", step |-> "sent"]
      <4>1. timer.order \in Orders
        BY <1>3, <3>2 DEF Fire, LoopOK, TimerOK, Timers
      <4> QED
        BY <3>2, <4>1 DEF AskedOK, RequestOK, Requests
    <3> QED
      BY <1>3, <3>1, <3>2 DEF Fire
  <2> QED
    BY <1>3, <2>1, <2>2, LoopKeeps DEF Fire, BoundsOK
<1>4. CASE Wake
  <2>1. LoopOK' /\ phase' # "asleep" /\ AskedOK'
    BY <1>4, NoTimerOK DEF Wake, LoopOK, TimerOK, Phases, AskedOK, RequestOK
  <2>2. BoundsOK'
    BY <1>4, PlanAssumption DEF Wake, BoundsOK
  <2> QED
    BY <1>4, <2>1, <2>2, LoopKeeps DEF Wake
<1>5. CASE Hide
  <2>1. LoopOK' /\ phase' # "asleep" /\ AskedOK'
    BY <1>5, NoTimerOK, PlanAssumption
    DEF Hide, LoopOK, TimerOK, Phases, AskedOK, RequestOK
  <2> QED
    BY <1>5, <2>1, LoopKeeps DEF Hide, BoundsOK
<1>6. CASE Show
  <2>1. LoopOK' /\ phase' # "asleep" /\ AskedOK'
    BY <1>6 DEF Show, LoopOK, TimerOK, Phases, AskedOK, RequestOK
  <2> QED
    BY <1>6, <2>1, LoopKeeps DEF Show, BoundsOK
<1> QED
  BY <1>1, <1>2, <1>3, <1>4, <1>5, <1>6

-----------------------------------------------------------------------------
(* Steps of requests, orders and time *)

\* What an attempt does to the order in which orders are attempted.
LEMMA ClaimBehind ==
  ASSUME IInv, NEW o \in Orders, Claim(o)
  PROVE  Behind' /\ passed' \in [Orders -> SUBSET Orders] /\ wait' \in [Groups -> 0..Interval]
<1> TypeOK /\ Behind
  BY DEF IInv
<1>1. wait' \in [Groups -> 0..Interval]
  BY PlanAssumption DEF Claim, TypeOK
<1>2. \A p \in Orders : \/ passed'[p] = {}
                        \/ p # o /\ passed'[p] \subseteq passed[p] \cup {o}
  BY DEF Claim
<1>3. passed' \in [Orders -> SUBSET Orders]
  <2>1. \A p \in Orders : passed'[p] \in SUBSET Orders
    BY <1>2 DEF TypeOK
  <2> QED
    BY <2>1 DEF Claim
<1>4. ASSUME NEW q \in Orders, NEW p \in Orders, q \in passed'[p]
      PROVE  rank'[p] < rank'[q]
  <2>1. p # o /\ (q \in passed[p] \/ q = o)
    BY <1>2, <1>4
  <2>2. CASE q = o
    BY <2>1, <2>2, ClaimEffect
  <2>3. CASE q # o
    <3>1. rank[p] < rank[q]
      BY <2>1, <2>3 DEF Behind
    <3> QED
      BY <2>1, <2>3, <3>1, ClaimEffect
  <2> QED
    BY <2>2, <2>3
<1> QED
  BY <1>1, <1>3, <1>4 DEF Behind

\* What a request does to the back-off of a group.
LEMMA RetrySet ==
  ASSUME retry \in [Groups -> 0..MaxBackoff], NEW g, NEW left \in 0..MaxBackoff
  PROVE  [retry EXCEPT ![g] = left] \in [Groups -> 0..MaxBackoff]
OBVIOUS

\* The steps of a request.
LEMMA RequestInductive ==
  ASSUME IInv, \/ Arrive \/ Respond \/ RequestFails
               \/ \E o \in Shown : Click(o)
  PROVE  IInv'
<1> ApiOK /\ LoopOK /\ AskedOK /\ BoundsOK /\ LoopNeverDead /\ Behind /\ TypeOK
  BY Parts DEF IInv
<1>1. CASE Arrive
  <2> DEFINE o == request.order
  <2>1. o \in Orders /\ request.mode \in {"manual", "scheduled"}
    BY <1>1, RequestEffect DEF Arrive
  <2>2. request' = [order |-> o, mode |-> request.mode, step |-> "decided"]
    BY <1>1 DEF Arrive, AskedOK, Requests
  <2>3. AskedOK'
    BY <2>1, <2>2 DEF AskedOK, RequestOK, Requests
  <2>4. /\ rank' \in [Orders -> 1..Cardinality(Orders)]
        /\ \A p, q \in Orders : rank'[p] = rank'[q] => p = q
        /\ wait' \in [Groups -> 0..Interval] /\ passed' \in [Orders -> SUBSET Orders]
        /\ Behind'
    <3>1. CASE Claim(o)
      BY <2>1, <3>1, ClaimEffect, ClaimBehind
    <3>2. CASE UNCHANGED <<rank, wait, passed>>
      BY <3>2 DEF ApiOK, Behind
    <3> QED
      BY <1>1, <3>1, <3>2 DEF Arrive
  <2>5. UNCHANGED <<state, phase, timer, retry, faults, clicks>>
    BY <1>1 DEF Arrive, loop
  <2> QED
    BY <2>3, <2>4, <2>5
    DEF IInv, TypeOK, AskedOK, RequestOK, Requests, TimerOK, LoopNeverDead
<1>2. CASE Respond
  <2>1. request # NoRequest /\ UNCHANGED api /\ AskedOK'
    BY <1>2, NoRequestOK DEF Respond, NoRequest, AskedOK, RequestOK
  <2>2. phase' \in Phases /\ (phase' = "loading" \/ phase' = phase)
    BY <1>2 DEF Respond, Invalidated, Resumed, LoopOK, Phases
  <2>3. timer' = IF phase' = "loading" THEN NoTimer ELSE timer
    BY <1>2 DEF Respond
  <2>4. retry' \in [Groups -> 0..MaxBackoff]
    <3>1. 0 \in 0..MaxBackoff
      BY PlanAssumption
    <3>2. \/ retry' = retry
          \/ retry' = [retry EXCEPT ![GroupOf[request.order]] = 0]
      BY <1>2 DEF Respond
    <3> QED
      BY <3>1, <3>2, RetrySet DEF LoopOK
  <2>5. LoopOK'
    <3>1. CASE phase' = "loading"
      BY <2>3, <2>4, <3>1, NoTimerOK DEF LoopOK, TimerOK, Phases
    <3>2. CASE phase' # "loading"
      BY <2>2, <2>3, <2>4, <3>2 DEF LoopOK, TimerOK
    <3> QED
      BY <3>1, <3>2
  <2> QED
    BY <1>2, <2>1, <2>2, <2>5, LoopKeeps DEF Respond, BoundsOK
<1>3. CASE RequestFails
  <2>1. UNCHANGED <<api, timer>> /\ AskedOK'
    BY <1>3, NoRequestOK DEF RequestFails, AskedOK, RequestOK
  <2>2. phase' \in Phases /\ ((phase' = "loading" /\ phase \in {"refreshing", "busy"}) \/ phase' = phase)
    BY <1>3 DEF RequestFails, Resumed, LoopOK, Phases
  <2>3. retry' \in [Groups -> 0..MaxBackoff]
    <3>1. CASE UNCHANGED retry
      BY <3>1 DEF LoopOK
    <3>2. ASSUME NEW left \in 1..MaxBackoff,
                 retry' = [retry EXCEPT ![GroupOf[request.order]] = left]
          PROVE  retry' \in [Groups -> 0..MaxBackoff]
      <4>1. left \in 0..MaxBackoff
        BY PlanAssumption
      <4> QED
        BY <3>2, <4>1, RetrySet DEF LoopOK
    <3> QED
      BY <1>3, <3>1, <3>2 DEF RequestFails
  <2>4. LoopOK'
    BY <2>1, <2>2, <2>3 DEF LoopOK, TimerOK
  <2>5. BoundsOK'
    BY <1>3, PlanAssumption DEF RequestFails, BoundsOK
  <2> QED
    BY <2>1, <2>2, <2>4, <2>5, LoopKeeps
<1>4. ASSUME NEW o \in Shown, Click(o) PROVE IInv'
  <2>1. o \in Orders /\ request' = [order |-> o, mode |-> "manual", step |-> "sent"]
    BY <1>4, PlanAssumption DEF Click
  <2>2. AskedOK'
    BY <2>1 DEF AskedOK, RequestOK, Requests
  <2>3. LoopOK' /\ UNCHANGED <<api, phase>>
    BY <1>4 DEF Click, LoopOK, TimerOK, loop
  <2>4. BoundsOK'
    BY <1>4, PlanAssumption DEF Click, BoundsOK
  <2> QED
    BY <2>2, <2>3, <2>4, LoopKeeps
<1> QED
  BY <1>1, <1>2, <1>3, <1>4

\* An order moves on, and time does.
LEMMA OutsideInductive ==
  ASSUME IInv, Tick \/ \E o \in Orders : Progress(o)
  PROVE  IInv'
<1> ApiOK /\ LoopOK /\ AskedOK /\ BoundsOK /\ LoopNeverDead /\ Behind /\ TypeOK
  BY Parts DEF IInv
<1>1. ASSUME NEW o \in Orders, Progress(o) PROVE IInv'
  <2>1. /\ state' \in [Orders -> {"submitting", "open", "over"}]
        /\ \A p \in Orders : state[p] = "over" => state'[p] = "over"
    BY <1>1 DEF Progress, ApiOK
  <2>2. UNCHANGED <<rank, wait, passed, phase, timer, retry, request, faults, clicks>>
    BY <1>1 DEF Progress, loop
  <2>3. LoopNeverDead'
    BY <2>1, <2>2, PlanAssumption DEF LoopNeverDead
  <2> QED
    BY <2>1, <2>2, <2>3 DEF IInv, TypeOK, RequestOK, TimerOK, Behind
<1>2. CASE Tick
  <2>1. /\ wait' \in [Groups -> 0..Interval] /\ retry' \in [Groups -> 0..MaxBackoff]
    BY <1>2, PlanAssumption DEF Tick, Down, TypeOK
  <2>2. timer' = [kind |-> timer.kind, order |-> timer.order, left |-> Down(timer.left)]
    BY <1>2 DEF Tick, LoopOK, Timers
  <2>3. Down(timer.left) \in 0..Interval
    BY PlanAssumption DEF LoopOK, Timers, Down
  <2>4. timer' \in Timers /\ timer'.kind = timer.kind /\ timer'.order = timer.order
    BY <2>2, <2>3 DEF LoopOK, Timers
  <2>5. UNCHANGED <<state, rank, passed, phase, request, faults, clicks>>
    BY <1>2 DEF Tick
  <2> QED
    BY <2>1, <2>4, <2>5 DEF IInv, TypeOK, Timers, RequestOK, TimerOK, LoopNeverDead, Behind
<1> QED
  BY <1>1, <1>2

-----------------------------------------------------------------------------
(* The inductive invariant and what follows. *)

LEMMA Initially == Init => IInv
<1> SUFFICES ASSUME Init PROVE IInv
  OBVIOUS
<1>1. ApiOK
  BY PlanAssumption DEF Init, ApiOK
<1>2. LoopOK
  BY NoTimerOK, PlanAssumption DEF Init, LoopOK, Phases, TimerOK
<1>3. AskedOK /\ BoundsOK
  BY NoRequestOK, PlanAssumption DEF Init, AskedOK, RequestOK, BoundsOK
<1>4. LoopNeverDead /\ Behind
  BY DEF Init, LoopNeverDead, Behind
<1> QED
  BY <1>1, <1>2, <1>3, <1>4, Parts

LEMMA Inductive == IInv /\ [Next]_vars => IInv'
<1> SUFFICES ASSUME IInv, [Next]_vars PROVE IInv'
  OBVIOUS
<1>1. CASE Next
  BY <1>1, LoopInductive, RequestInductive, OutsideInductive DEF Next
<1>2. CASE UNCHANGED vars
  BY <1>2 DEF vars, api, loop, IInv, TypeOK, RequestOK, TimerOK, LoopNeverDead, Behind
<1> QED
  BY <1>1, <1>2

\* Requests and timers name orders, who was attempted is behind who waits, and the
\* loop is not dead.
THEOREM Invariance == Spec => []IInv
BY Initially, Inductive, PTL DEF Spec

\* Every variable keeps its type; among them: the loop has a timer exactly while it
\* waits for it.
THEOREM TypeCorrect == Spec => []TypeOK
<1>1. IInv => TypeOK
  BY DEF IInv
<1> QED
  BY <1>1, Invariance, PTL

\* With any number of orders, failures and clicks: a loop that is active and has no
\* timer and nothing under way has nothing left to do on its page.
THEOREM NeverDead == Spec => []LoopNeverDead
<1>1. IInv => LoopNeverDead
  BY DEF IInv
<1> QED
  BY <1>1, Invariance, PTL

\* Only an attempt closes a gate.
LEMMA OnlyArrive ==
  ASSUME IInv, Next, NEW g \in Groups, wait'[g] > wait[g]
  PROVE  Arrive /\ MayAttempt(request.order, request.mode)
<1>1. wait[g] \in Nat
  BY PlanAssumption DEF IInv, TypeOK
<1>2. ~ UNCHANGED wait
  BY <1>1
<1>3. ~ Tick
  <2>1. ASSUME Tick PROVE wait'[g] = Down(wait[g])
    BY <2>1 DEF Tick
  <2> QED
    BY <1>1, <2>1 DEF Down
<1>4. Arrive
  BY <1>2, <1>3
  DEF Next, Load, LoadFails, Fire, Respond, RequestFails, Wake, Hide, Show, Click, Progress, api
<1> QED
  BY <1>2, <1>4 DEF Arrive

\* Of any number of orders that wait for their group's gate, none is passed twice by
\* the same one, however often the owner refreshes others in between.
THEOREM PassedOnce == Spec => BoundedOvertaking
<1> DEFINE A == \A o \in Orders :
       Attempted(o) /\ request.mode = "scheduled" =>
         \A p \in Orders \ {o} : Syncable(p) /\ GroupOf[p] = GroupOf[o] => o \notin passed[p]
<1>1. IInv /\ [Next]_vars => [A]_vars
  <2> SUFFICES ASSUME IInv, Next, NEW o \in Orders, Attempted(o), request.mode = "scheduled",
                      NEW p \in Orders \ {o}, Syncable(p), GroupOf[p] = GroupOf[o],
                      o \in passed[p]
               PROVE  FALSE
    OBVIOUS
  <2> DEFINE g == GroupOf[o]
  <2>1. g \in Groups /\ wait'[g] > wait[g] /\ request.order = o
    BY PlanAssumption DEF Attempted
  <2>2. Target(g) = o
    BY <2>1, OnlyArrive DEF MayAttempt
  <2>3. p \in Candidates(g) /\ o # None
    BY PlanAssumption DEF Candidates
  <2>4. rank[o] <= rank[p]
    BY <2>2, <2>3, TargetEffect DEF IInv
  <2>5. rank[p] < rank[o]
    BY DEF IInv, Behind
  <2>6. rank[o] \in Nat /\ rank[p] \in Nat
    BY Numbers DEF IInv, TypeOK
  <2> QED
    BY <2>4, <2>5, <2>6
<1> QED
  BY <1>1, Invariance, PTL DEF Spec, BoundedOvertaking
===============================================================================
