---------------------------- MODULE TrackedOrder ----------------------------
(***************************************************************************)
(* What cancellations and refreshes promise for a placed order, however    *)
(* many of them run: the broker trades the order and ends it on its own or *)
(* because it was asked to; the store takes note of one thing at a time,   *)
(* along require_transition's table and under a new version, never forgets *)
(* a fill and never knows more than is true when it takes the note.        *)
(***************************************************************************)
EXTENDS Naturals, OrderStates

CONSTANT Quantity  \* the order's quantity

VARIABLES
  actual,  \* the order at the broker, in state NONE if it never arrived
  known,   \* the order in the store
  asked    \* a cancellation was recorded

vars == <<actual, known, asked>>

Init ==
  /\ actual \in [state : {"NONE", "ACCEPTED", "REJECTED"}, fill : {0}]
  /\ known \in [state : {"ACCEPTED", "UNKNOWN"}, version : {2}, filled : {0}]
  /\ known.state = "ACCEPTED" => actual.state = "ACCEPTED"
  /\ asked = FALSE

\* The broker executes more of the order.
Trade(fill) ==
  /\ actual.state \in Open
  /\ actual.fill < fill
  /\ actual' = [state |-> IF fill = Quantity THEN "FILLED" ELSE "PARTIALLY_FILLED",
                fill |-> fill]
  /\ UNCHANGED <<known, asked>>

\* The broker ends the order; it cancels none it was not asked to cancel.
Close(state) ==
  /\ actual.state \in Open
  /\ state = "EXPIRED" \/ (state = "CANCELED" /\ asked)
  /\ actual' = [actual EXCEPT !.state = state]
  /\ UNCHANGED <<known, asked>>

\* A cancellation is recorded, before the broker is asked.
Ask ==
  /\ known.state \in Open
  /\ known' = [known EXCEPT !.state = "CANCEL_PENDING", !.version = @ + 1]
  /\ asked' = TRUE
  /\ UNCHANGED actual

\* The store takes note of a state and a fill, both new or not: an end only if
\* it is the actual one, and no fill that contradicts the state.
Learn(state, filled) ==
  /\ state \in Terminal => state = actual.state
  /\ state = "FILLED" => filled = Quantity
  /\ state = "PARTIALLY_FILLED" => filled < Quantity
  /\ known' = [state |-> state, version |-> known.version + 1, filled |-> filled]
  /\ UNCHANGED <<actual, asked>>

\* The states the store may note next; a cancellation is none the broker reports.
Onward == {known.state} \cup (Transitions[known.state] \ {"CANCEL_PENDING"})

Next ==
  \/ \E fill \in 1..Quantity : Trade(fill)
  \/ \E state \in {"EXPIRED", "CANCELED"} : Close(state)
  \/ Ask
  \/ \E state \in Onward, filled \in known.filled..actual.fill : Learn(state, filled)

Spec == Init /\ [][Next]_vars
=============================================================================
