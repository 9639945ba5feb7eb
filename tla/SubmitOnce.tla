----------------------------- MODULE SubmitOnce -----------------------------
(***************************************************************************)
(* What submission promises for each draft, whoever asks and however often: *)
(* the order is recorded, its request is delivered at most once while it is *)
(* SUBMITTING, and it leaves SUBMITTING once, with a working state only if  *)
(* the request was delivered.                                              *)
(***************************************************************************)
EXTENDS Naturals, OrderStates

CONSTANT Drafts

VARIABLES order, deliveries

vars == <<order, deliveries>>

Init ==
  /\ order = [d \in Drafts |-> "ABSENT"]
  /\ deliveries = [d \in Drafts |-> 0]

Record(d) ==
  /\ order[d] = "ABSENT"
  /\ order' = [order EXCEPT ![d] = "SUBMITTING"]
  /\ UNCHANGED deliveries

Deliver(d) ==
  /\ order[d] = "SUBMITTING"
  /\ deliveries[d] = 0
  /\ deliveries' = [deliveries EXCEPT ![d] = 1]
  /\ UNCHANGED order

Settle(d, s) ==
  /\ order[d] = "SUBMITTING"
  /\ MayMove("SUBMITTING", s)
  /\ s \in Working => deliveries[d] = 1
  /\ order' = [order EXCEPT ![d] = s]
  /\ UNCHANGED deliveries

Next ==
  \E d \in Drafts :
    \/ Record(d)
    \/ Deliver(d)
    \/ \E s \in OrderState : Settle(d, s)

Spec == Init /\ [][Next]_vars
=============================================================================
