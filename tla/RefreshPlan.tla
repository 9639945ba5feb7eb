----------------------------- MODULE RefreshPlan -----------------------------
(***************************************************************************)
(* Who is refreshed when.  The API names one order per group (provider and *)
(* account) as the next to refresh, the one attempted longest ago, and a   *)
(* gate lets one attempt through per interval.  The dashboard's loop loads *)
(* a page of orders with the plan for its groups, sets a timer, requests   *)
(* the refresh and loads again; it backs off after failures, is woken by   *)
(* other loads of the page, and shares one pending request with the        *)
(* owner's refresh buttons.                                                *)
(*                                                                         *)
(* Time is counted in ticks of which an interval (30 s at least) has a     *)
(* few.  A page loads within a tick, and a refresh answers before the gate *)
(* of its group opens again: the broker read is cut off after 10 s         *)
(* (_PROVIDER_READ_TIMEOUT).                                               *)
(*                                                                         *)
(* Leaving the view, or hiding it, and the end of the loop are one step    *)
(* (Hide), coming back and the start of a new loop another (Show).  The    *)
(* code asks isActive() besides: between the browser's change and the      *)
(* effect that stops the loop, a timer that fires does nothing.  If the    *)
(* view came back before the effect ran, the loop would go on without a    *)
(* timer, and nothing here speaks of that.                                 *)
(*                                                                         *)
(* Data.  What a refresh finds is OrderUpdates' subject; here an order     *)
(* moves on by itself.                                                     *)
(***************************************************************************)
EXTENDS Naturals, FiniteSets

CONSTANTS Orders,
          Shown,      \* the orders on the page
          Groups,     \* numbered in the order the plan lists them
          GroupOf,
          Creation,   \* the orders' numbers by created_at and id
          Interval,   \* ticks between two attempts in a group
          MaxBackoff, \* longest back-off in ticks
          MaxFaults,  \* bound on loads and requests that fail
          MaxClicks,  \* bound on manual refreshes and other loads of the page
          None

ASSUME PlanAssumption ==
  /\ Shown \subseteq Orders /\ None \notin Orders
  /\ Groups \subseteq Nat /\ GroupOf \in [Orders -> Groups]
  /\ IsFiniteSet(Orders) /\ Creation \in [Orders -> 1..Cardinality(Orders)]
  /\ \A o, p \in Orders : Creation[o] = Creation[p] => o = p
  /\ Interval \in Nat \ {0} /\ MaxBackoff \in 1..Interval
  /\ {MaxFaults, MaxClicks} \subseteq Nat

VARIABLES
  state,   \* of each order, as far as the plan cares
  rank,    \* the orders' numbers, never attempted or attempted longest ago first
  wait,    \* ticks until the gate of each group opens
  phase,   \* what the loop is doing
  timer,   \* its timer
  retry,   \* refreshFailures: ticks until a group is tried again
  request, \* the refresh under way, pendingRefresh in the dashboard
  faults, clicks,
  passed   \* history variable: by order, who was attempted while it waited

api == <<state, rank, wait, passed>>
loop == <<phase, timer, retry>>
vars == <<api, loop, request, faults, clicks>>

NoTimer == [kind |-> "none", order |-> None, left |-> 0]
NoRequest == [order |-> None, mode |-> "none", step |-> "none"]

(***************************************************************************)
(* The API                                                                 *)
(***************************************************************************)

\* _SYNCABLE_STATES
Syncable(o) == state[o] = "open"

\* The orders of a group that can be refreshed, and the first of them.
Candidates(g) == {o \in Orders : GroupOf[o] = g /\ Syncable(o)}
FirstBy(number, due) == CHOOSE o \in due : \A p \in due : number[o] <= number[p]

\* Bug: the oldest order, whenever it was attempted.
TargetByAge(g) == IF Candidates(g) = {} THEN None ELSE FirstBy(Creation, Candidates(g))

\* _reconciliation_target
Target(g) == IF Candidates(g) = {} THEN None ELSE FirstBy(rank, Candidates(g))

\* plan_for_orders: the groups of the orders on the page that can be refreshed.
Planned == {GroupOf[o] : o \in {p \in Shown : Syncable(p)}}

\* What the page answers besides the orders: whether one of them is SUBMITTING,
\* and the groups with their targets.
Page == [submitting |-> \E o \in Shown : state[o] = "submitting", refresh_groups |-> Planned]

\* _claim_order_reconciliation: the gate closes and the attempt is recorded, which
\* makes the order the one attempted last.
Claim(o) ==
  /\ wait' = [wait EXCEPT ![GroupOf[o]] = Interval]
  /\ rank' = [p \in Orders |-> IF p = o THEN Cardinality(Orders)
                               ELSE IF rank[p] > rank[o] THEN rank[p] - 1 ELSE rank[p]]
  /\ passed' = [p \in Orders |->
       IF p = o THEN {}
       ELSE IF request.mode = "scheduled" /\ Syncable(p) /\ GroupOf[p] = GroupOf[o]
            THEN passed[p] \cup {o} ELSE passed[p]]

\* refresh decides whether to attempt: the order may be over by now, another
\* one be due in its group, or the gate be closed.
MayAttempt(o, mode) ==
  /\ Syncable(o)
  /\ mode = "scheduled" => Target(GroupOf[o]) = o
  /\ wait[GroupOf[o]] = 0

(***************************************************************************)
(* The loop                                                                *)
(***************************************************************************)

\* When schedulePlan would refresh a group.
At(g) == IF wait[g] > retry[g] THEN wait[g] ELSE retry[g]

\* Bug: the first group of the plan, whenever it is due.
FirstListed(gs) == CHOOSE g \in gs : \A h \in gs : g <= h

\* The earliest group of the plan; of equals, the one listed first.
Earliest(gs) ==
  CHOOSE g \in gs : \A h \in gs : At(g) < At(h) \/ (At(g) = At(h) /\ g <= h)

\* schedulePlan.  A reload of a page with a SUBMITTING order is a tick away.
Schedule ==
  LET next == Earliest(Page.refresh_groups) IN
  IF Page.refresh_groups # {} /\ (Page.submitting => At(next) = 0)
    THEN phase' = "waiting" /\ timer' = [kind |-> "refresh", order |-> Target(next), left |-> At(next)]
  ELSE IF Page.submitting
    THEN phase' = "waiting" /\ timer' = [kind |-> "reload", order |-> None, left |-> 1]
  ELSE phase' = "asleep" /\ timer' = NoTimer

\* loadAndSchedule
Load ==
  /\ phase = "loading"
  /\ Schedule
  /\ UNCHANGED <<api, retry, request, faults, clicks>>

LoadFails ==
  /\ phase = "loading" /\ faults < MaxFaults
  /\ faults' = faults + 1
  /\ phase' = "waiting"
  /\ \E left \in 1..MaxBackoff : timer' = [kind |-> "reload", order |-> None, left |-> left]
  /\ UNCHANGED <<api, retry, request, clicks>>

\* The timer fires: a reload, or requestRefresh, which waits for a request that
\* is pending already and then reports busy.
Fire ==
  /\ phase = "waiting" /\ timer.left = 0
  /\ timer' = NoTimer
  /\ IF timer.kind = "reload" THEN phase' = "loading" /\ UNCHANGED request
     ELSE IF request # NoRequest THEN phase' = "busy" /\ UNCHANGED request
     ELSE /\ phase' = "refreshing"
          /\ request' = [order |-> timer.order, mode |-> "scheduled", step |-> "sent"]
  /\ UNCHANGED <<api, retry, faults, clicks>>

\* The request reaches the API.
Arrive ==
  /\ request.step = "sent"
  /\ request' = [request EXCEPT !.step = "decided"]
  /\ IF MayAttempt(request.order, request.mode) THEN Claim(request.order)
                                               ELSE UNCHANGED <<rank, wait, passed>>
  /\ UNCHANGED <<state, loop, faults, clicks>>

\* Bug: who finds the request pending gives up.
ResumedGivesUp == phase' = IF phase = "busy" THEN "asleep"
                           ELSE IF phase = "refreshing" THEN "loading" ELSE phase

\* Whoever waited for the request loads the page again.  A loop that was
\* stopped in between does not wait any more.
Resumed == phase' = IF phase \in {"refreshing", "busy"} THEN "loading" ELSE phase

\* A manual refresh that succeeds has the page loaded again, which wakes the loop.
Invalidated ==
  phase' = IF phase \in {"waiting", "asleep", "busy"} THEN "loading" ELSE phase

\* Its answer.
Respond ==
  /\ request.step = "decided"
  /\ request' = NoRequest
  /\ IF request.mode = "manual" /\ phase # "busy" THEN Invalidated ELSE Resumed
  /\ timer' = IF phase' = "loading" THEN NoTimer ELSE timer
  /\ retry' = IF phase = "refreshing" THEN [retry EXCEPT ![GroupOf[request.order]] = 0] ELSE retry
  /\ UNCHANGED <<api, faults, clicks>>

\* The request or its answer is lost.
RequestFails ==
  /\ request # NoRequest /\ faults < MaxFaults
  /\ faults' = faults + 1
  /\ request' = NoRequest
  /\ Resumed
  /\ IF phase = "refreshing"
       THEN \E left \in 1..MaxBackoff : retry' = [retry EXCEPT ![GroupOf[request.order]] = left]
       ELSE UNCHANGED retry
  /\ UNCHANGED <<api, timer, clicks>>

(***************************************************************************)
(* The owner, the orders and time                                          *)
(***************************************************************************)

Click(o) ==
  /\ phase # "stopped" /\ request = NoRequest /\ clicks < MaxClicks
  /\ clicks' = clicks + 1
  /\ request' = [order |-> o, mode |-> "manual", step |-> "sent"]
  /\ UNCHANGED <<api, loop, faults>>

\* wake: the page was loaded for another reason.  A loop that is in flight
\* ignores it.
Wake ==
  /\ phase \in {"waiting", "asleep"} /\ clicks < MaxClicks
  /\ clicks' = clicks + 1
  /\ phase' = "loading" /\ timer' = NoTimer
  /\ UNCHANGED <<api, retry, request, faults>>

\* Bug: the timer is not cleared.
HideKeepsTimer ==
  /\ phase # "stopped"
  /\ phase' = "stopped"
  /\ retry' = [g \in Groups |-> 0]
  /\ UNCHANGED <<api, timer, request, faults, clicks>>

\* The view is left, or hidden: stop, and isActive() is false from the same moment.
\* The request goes on.
Hide ==
  /\ phase # "stopped"
  /\ phase' = "stopped" /\ timer' = NoTimer
  /\ retry' = [g \in Groups |-> 0]
  /\ UNCHANGED <<api, request, faults, clicks>>

\* startOrderRefreshLoop
Show ==
  /\ phase = "stopped"
  /\ phase' = "loading"
  /\ UNCHANGED <<api, timer, retry, request, faults, clicks>>

\* A submission gets its result; an order is over, by a refresh or a cancellation
\* from elsewhere.
Progress(o) ==
  /\ state[o] # "over"
  /\ state' = [state EXCEPT ![o] = IF @ = "submitting" THEN "open" ELSE "over"]
  /\ UNCHANGED <<rank, wait, passed, loop, request, faults, clicks>>

Down(n) == IF n = 0 THEN 0 ELSE n - 1

\* Time passes, but not past a timer that is due, a load or the answer to a
\* request.
Tick ==
  /\ phase # "loading" /\ (phase = "waiting" => timer.left > 0)
  /\ request.step # "sent"
  /\ request.step = "decided" => wait[GroupOf[request.order]] > 1
  /\ wait' = [g \in Groups |-> Down(wait[g])]
  /\ retry' = [g \in Groups |-> Down(retry[g])]
  /\ timer' = [timer EXCEPT !.left = Down(@)]
  /\ UNCHANGED <<state, rank, passed, phase, request, faults, clicks>>

Init ==
  /\ state \in [Orders -> {"submitting", "open"}]
  /\ rank = Creation
  /\ wait = [g \in Groups |-> 0]
  /\ phase = "loading" /\ timer = NoTimer /\ retry = [g \in Groups |-> 0]
  /\ request = NoRequest
  /\ faults = 0 /\ clicks = 0
  /\ passed = [o \in Orders |-> {}]

Next ==
  \/ Load \/ LoadFails \/ Fire \/ Arrive \/ Respond \/ RequestFails
  \/ Wake \/ Hide \/ Show \/ Tick
  \/ \E o \in Shown : Click(o)
  \/ \E o \in Orders : Progress(o)

Spec == Init /\ [][Next]_vars

\* The browser runs what is due, the API answers, and time goes on.
Fairness == WF_vars(Load) /\ WF_vars(Fire) /\ WF_vars(Arrive) /\ WF_vars(Respond) /\ WF_vars(Tick)

FairSpec == Spec /\ Fairness

(***************************************************************************)
(* Properties                                                              *)
(***************************************************************************)

\* Types of all variables.
TypeOK ==
  /\ state \in [Orders -> {"submitting", "open", "over"}]
  /\ rank \in [Orders -> 1..Cardinality(Orders)]
  /\ \A o, p \in Orders : rank[o] = rank[p] => o = p
  /\ wait \in [Groups -> 0..Interval] /\ retry \in [Groups -> 0..MaxBackoff]
  /\ phase \in {"stopped", "loading", "waiting", "refreshing", "busy", "asleep"}
  /\ timer \in [kind : {"none", "reload", "refresh"}, order : Orders \cup {None}, left : 0..Interval]
  /\ (phase = "waiting") <=> (timer.kind # "none")
  /\ request \in [order : Orders \cup {None}, mode : {"none", "manual", "scheduled"},
                  step : {"none", "sent", "decided"}]
  /\ faults \in 0..MaxFaults /\ clicks \in 0..MaxClicks
  /\ passed \in [Orders -> SUBSET Orders]

\* A loop that is active and has no timer and nothing under way has nothing
\* left to do on its page, whatever was hidden, woken, refused or lost before
\* (startOrderRefreshLoop), provided the effect ran each time the view was hidden.
LoopNeverDead == phase = "asleep" => \A o \in Shown : state[o] = "over"

\* The gate of the order's group closes for it.
Attempted(o) == request.order = o /\ wait'[GroupOf[o]] > wait[GroupOf[o]]

\* No order of a group is attempted by schedule twice while another one that could
\* be waits, whatever the owner refreshes in between (_reconciliation_target,
\* target_changed).
BoundedOvertaking ==
  [][\A o \in Orders :
       Attempted(o) /\ request.mode = "scheduled" =>
         \A p \in Orders \ {o} : Syncable(p) /\ GroupOf[p] = GroupOf[o] => o \notin passed[p]]_vars

Due(o) == phase # "stopped" /\ Syncable(o) /\ GroupOf[o] \in Planned

\* An order that stays open is attempted again and again as long as its group
\* is on the page and the page is in view, on the page itself or not
\* (order_refresh_plans, schedulePlan).
NoOrderStarves ==
  \A o \in Orders : []<><<Attempted(o)>>_vars \/ []<>(~ Due(o))
=============================================================================
