------------------------- MODULE CircuitBreaker_proofs -------------------------
(***************************************************************************)
(* The fields of the circuit breaker agree at every moment, for any number *)
(* of calls and any policy that meets BreakerAssumption.  FieldsAgree and  *)
(* TypeOK together are inductive.                                          *)
(***************************************************************************)
EXTENDS CircuitBreaker, TLAPS

\* What the proofs use of the policy.
LEMMA Policy ==
  /\ FailMax \in Nat \ {0} /\ MaxCycles \in Nat \ {0} /\ MaxAttempts \in Nat \ {0}
  /\ CooldownMax \in Nat /\ MaxFaults \in Nat
BY BreakerAssumption DEF BreakerAssumption

\* The fields of the breaker have their types and agree.
BreakerOK ==
  /\ state \in {"CLOSED", "OPEN", "HALF_OPEN"}
  /\ fails \in 0..FailMax /\ cycles \in 0..MaxCycles
  /\ age \in Ages \cup {NoFailure}
  /\ FieldsAgree

\* No failure is recorded at an age a failure can have.
LEMMA NoFailureIsNoAge == NoFailure \notin Ages
BY Policy DEF NoFailure, Ages

\* can_execute keeps the fields in agreement: a breaker that becomes half-open
\* has as many failures as the open one had.
LEMMA CanExecuteOK ==
  ASSUME BreakerOK, CanExecute
  PROVE  BreakerOK'
BY DEF BreakerOK, FieldsAgree, CanExecute, Ages, NoFailure

\* record_success, whatever the state it finds.
LEMMA RecordSuccessOK ==
  ASSUME RecordSuccess
  PROVE  BreakerOK'
BY Policy DEF BreakerOK, FieldsAgree, RecordSuccess

\* record_failure, whatever the state it finds.
LEMMA RecordFailureOK ==
  ASSUME BreakerOK, RecordFailure
  PROVE  BreakerOK'
<1> USE Policy DEF RecordFailure, BreakerOK, FieldsAgree
<1>1. fails' \in 0..FailMax /\ fails' # 0
  BY DEF AtMost
<1>2. age' \in Ages /\ age' # NoFailure
  BY NoFailureIsNoAge DEF Ages
<1>3. CASE fails' >= FailMax
  <2>1. fails' = FailMax /\ state' = "OPEN"
    BY <1>1, <1>3
  <2>2. cycles' \in 0..MaxCycles /\ cycles' # 0
    BY <1>3 DEF AtMost
  <2> QED BY <1>1, <1>2, <2>1, <2>2
<1>4. CASE ~(fails' >= FailMax)
  <2>1. fails' = fails + 1 /\ fails < FailMax
    BY <1>1, <1>4 DEF AtMost
  <2>2. state = "CLOSED" /\ cycles = 0 /\ UNCHANGED <<state, cycles>>
    BY <1>4, <2>1
  <2> QED BY <1>1, <1>2, <1>4, <2>2
<1> QED BY <1>3, <1>4

\* A callers' step moves one caller between states of the right type.
CallsOK ==
  /\ call \in [Calls -> [pc : {"idle", "admitted", "calling"}, attempt : 0..MaxAttempts]]
  /\ provider \in {"up", "down", "throttling"} /\ faults \in 0..MaxFaults

LEMMA SplitTypeOK == TypeOK /\ FieldsAgree <=> BreakerOK /\ CallsOK
BY DEF TypeOK, BreakerOK, CallsOK

\* Every step either asks the breaker, records one outcome, moves the clock or
\* leaves the breaker alone.
LEMMA BreakerStep ==
  ASSUME BreakerOK, [Next]_vars
  PROVE  BreakerOK'
<1>1. CASE \E c \in Calls : Admit(c)
  BY <1>1, CanExecuteOK DEF Admit
<1>2. CASE \E c \in Calls : Succeeds(c)
  BY <1>2, RecordSuccessOK DEF Succeeds
<1>3. CASE \E c \in Calls : Fails(c) \/ Refused(c)
  BY <1>3, RecordFailureOK DEF Fails, Refused
<1>4. CASE Tick \/ ClockSetBack
  <2>1. age \in Ages /\ age' \in Ages /\ UNCHANGED <<state, fails, cycles>>
    BY <1>4, Policy DEF Tick, ClockSetBack, Ages
  <2> QED BY <2>1, NoFailureIsNoAge DEF BreakerOK, FieldsAgree
<1>5. CASE UNCHANGED breaker
  BY <1>5 DEF breaker, BreakerOK, FieldsAgree
<1>6. CASE UNCHANGED vars
  BY <1>6, <1>5 DEF vars, breaker
<1> QED
  BY <1>1, <1>2, <1>3, <1>4, <1>5, <1>6
     DEF Next, Attempt, TakeSlot, Retry, Throttled, Cancel, ProviderTurns

LEMMA CallsStep ==
  ASSUME CallsOK, [Next]_vars
  PROVE  CallsOK'
<1> USE Policy DEF CallsOK
<1>1. ASSUME NEW c \in Calls, Admit(c) PROVE CallsOK'
  BY <1>1 DEF Admit, Admitted
<1>2. ASSUME NEW c \in Calls, TakeSlot(c) PROVE CallsOK'
  BY <1>2 DEF TakeSlot
<1>3. ASSUME NEW c \in Calls, Retry(c) PROVE CallsOK'
  BY <1>3 DEF Retry
<1>4. ASSUME NEW c \in Calls, Succeeds(c) \/ Fails(c) \/ Throttled(c) PROVE CallsOK'
  BY <1>4 DEF Succeeds, Fails, Throttled, Ended, NoCall
<1>5. ASSUME NEW c \in Calls, Cancel(c) \/ Refused(c) PROVE CallsOK'
  BY <1>5 DEF Cancel, Refused, NoCall
<1>6. ASSUME NEW p \in {"up", "down", "throttling"}, ProviderTurns(p) PROVE CallsOK'
  BY <1>6 DEF ProviderTurns
<1>7. CASE Tick
  BY <1>7 DEF Tick
<1>8. CASE ClockSetBack
  BY <1>8 DEF ClockSetBack
<1>9. CASE UNCHANGED vars
  BY <1>9 DEF vars
<1> QED
  BY <1>1, <1>2, <1>3, <1>4, <1>5, <1>6, <1>7, <1>8, <1>9 DEF Next, Attempt

LEMMA Inductive == Spec => [](TypeOK /\ FieldsAgree)
<1>1. Init => BreakerOK /\ CallsOK
  BY Policy DEF Init, BreakerOK, CallsOK, FieldsAgree, NoCall
<1>2. BreakerOK /\ CallsOK /\ [Next]_vars => (BreakerOK /\ CallsOK)'
  BY BreakerStep, CallsStep
<1> QED BY <1>1, <1>2, SplitTypeOK, PTL DEF Spec

\* Every variable keeps its type, whatever the policy.
THEOREM TypeCorrect == Spec => []TypeOK
BY Inductive, PTL

\* The state, the failure count, the time of the last failure and the cycle
\* count agree, in whatever order the outcomes of calls that overlap are
\* recorded; the assertion in can_execute never fails.
THEOREM FieldsAlwaysAgree == Spec => []FieldsAgree
BY Inductive, PTL
=============================================================================
