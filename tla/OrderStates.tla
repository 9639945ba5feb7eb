---------------------------- MODULE OrderStates ----------------------------
(***************************************************************************)
(* The order state machine that every trading store applies: the states of *)
(* an order, the transitions require_transition lets through and the sets  *)
(* of states the services branch on.                                       *)
(***************************************************************************)

\* OrderState.
OrderState == {"SUBMITTING", "ACCEPTED", "PARTIALLY_FILLED", "FILLED", "REJECTED",
               "CANCEL_PENDING", "CANCELED", "EXPIRED", "UNKNOWN"}

\* States with no successor: the broker will not report anything further.
Terminal == {"FILLED", "REJECTED", "CANCELED", "EXPIRED"}

\* States in which the broker still trades the order.
Open == {"ACCEPTED", "PARTIALLY_FILLED"}

\* _TRANSITIONS.
Transitions ==
  [s \in OrderState |->
     CASE s = "SUBMITTING" ->
            {"ACCEPTED", "PARTIALLY_FILLED", "FILLED", "REJECTED", "UNKNOWN"}
       [] s = "ACCEPTED" ->
            {"PARTIALLY_FILLED", "FILLED", "CANCELED", "EXPIRED", "CANCEL_PENDING",
             "UNKNOWN"}
       [] s = "PARTIALLY_FILLED" ->
            {"PARTIALLY_FILLED", "FILLED", "CANCELED", "EXPIRED", "CANCEL_PENDING",
             "UNKNOWN"}
       [] s \in {"CANCEL_PENDING", "UNKNOWN"} ->
            {"ACCEPTED", "PARTIALLY_FILLED", "FILLED", "REJECTED", "CANCELED",
             "EXPIRED", "UNKNOWN"}
       [] OTHER -> {}]

\* require_transition: raises unless this holds.
MayMove(from, to) == to \in Transitions[from]

\* The states in which the broker is known to have taken the order.
Working == {"ACCEPTED", "PARTIALLY_FILLED", "FILLED"}

\* _SYNCABLE_STATES: the orders that reconciliation may poll.
Syncable == {"ACCEPTED", "PARTIALLY_FILLED", "CANCEL_PENDING", "UNKNOWN"}
=============================================================================
