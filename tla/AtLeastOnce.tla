---------------------------- MODULE AtLeastOnce ----------------------------
(***************************************************************************)
(* The contract every delivery stage of the system makes: an event that    *)
(* was accepted is attempted one or more times and ends either delivered,  *)
(* which needs an attempt that took effect and is final, or dead-lettered. *)
(* A dead event may still be delivered later (a slow attempt that ends     *)
(* after the event was given up on).  The outbox relay and the consumer    *)
(* group are both shown to implement it.                                   *)
(***************************************************************************)
EXTENDS Naturals

CONSTANT Events

VARIABLES
  outcome,   \* what became of each event
  effects    \* how many times the stage's effect happened for each event

vars == <<outcome, effects>>

Outcomes == {"absent", "open", "delivered", "dead"}

Init ==
  /\ outcome = [e \in Events |-> "absent"]
  /\ effects = [e \in Events |-> 0]

Accept(e) ==
  /\ outcome[e] = "absent"
  /\ outcome' = [outcome EXCEPT ![e] = "open"]
  /\ UNCHANGED effects

\* One more effect of an event that was accepted: a retry, a duplicate, or
\* a request that lands late.
Attempt(e) ==
  /\ outcome[e] # "absent"
  /\ effects' = [effects EXCEPT ![e] = @ + 1]
  /\ UNCHANGED outcome

\* The stage takes the event for done; its effect may commit in that step.
Deliver(e) ==
  /\ outcome[e] \in {"open", "dead"}
  /\ outcome' = [outcome EXCEPT ![e] = "delivered"]
  /\ \/ effects[e] > 0 /\ UNCHANGED effects
     \/ effects' = [effects EXCEPT ![e] = @ + 1]

GiveUp(e) ==
  /\ outcome[e] = "open"
  /\ outcome' = [outcome EXCEPT ![e] = "dead"]
  /\ UNCHANGED effects

Next == \E e \in Events : Accept(e) \/ Attempt(e) \/ Deliver(e) \/ GiveUp(e)

\* An accepted event does not stay open for ever; nothing obliges a dead one.
Settle(e) == outcome[e] = "open" /\ (Deliver(e) \/ GiveUp(e))

Fairness == \A e \in Events : WF_vars(Settle(e))

SafeSpec == Init /\ [][Next]_vars
Spec == SafeSpec /\ Fairness
============================================================================
