---------------------------- MODULE CircuitBreaker ----------------------------
(***************************************************************************)
(* The circuit breaker of one LLM provider and the calls of the router     *)
(* that go through it: a call asks the breaker, waits for one of the       *)
(* provider's slots, makes its attempts, and records the outcome, which    *)
(* may be long after the breaker has changed.  Streams take no slot and    *)
(* are not retried.                                                        *)
(*                                                                         *)
(* Time is the age of the last recorded failure, in units of the cooldown; *)
(* the wall clock may be set back.  fail_count and consec_open_fails are   *)
(* only compared, so they stop counting where nothing changes any more.    *)
(***************************************************************************)
EXTENDS Integers, FiniteSets

CONSTANTS
  Calls,          \* callers of the provider at once
  Streams,        \* those of them that stream
  FailMax,        \* fail_max
  CooldownBase,   \* reset_timeout_s
  CooldownStep,   \* cooldown_step_s
  CooldownMax,    \* cooldown_max_s
  MaxCycles,      \* the OPEN cycle whose cooldown is the longest
  MaxAttempts,    \* max_attempts of the retry policy
  ProviderSlots,  \* max_concurrent of the provider
  MaxFaults       \* bound: refused and cancelled calls, clocks set back

ASSUME BreakerAssumption ==
  /\ Streams \subseteq Calls
  /\ {FailMax, MaxCycles, MaxAttempts, ProviderSlots} \subseteq Nat \ {0}
  /\ {CooldownBase, CooldownStep, CooldownMax, MaxFaults} \subseteq Nat
  /\ CooldownBase + (MaxCycles - 1) * CooldownStep >= CooldownMax

VARIABLES
  state,     \* CBState
  fails,     \* fail_count
  age,       \* time since last_failure_at, or NoFailure
  cycles,    \* consec_open_fails
  call,      \* the callers' local state
  provider,  \* what the provider does to attempts at the moment
  faults     \* refused and cancelled calls, clocks set back so far

vars == <<state, fails, age, cycles, call, provider, faults>>
breaker == <<state, fails, age, cycles>>

NoFailure == -(CooldownMax + 1)
Ages == -CooldownMax .. CooldownMax

AtMost(n, max) == IF n < max THEN n ELSE max

NoCall == [pc |-> "idle", attempt |-> 0]

Init ==
  /\ state = "CLOSED" /\ fails = 0 /\ age = NoFailure /\ cycles = 0
  /\ call = [c \in Calls |-> NoCall]
  /\ provider = "up" /\ faults = 0

----------------------------------------------------------------------------
(* CircuitBreaker *)

\* effective_cooldown_s: the first cycle has the base.
Cooldown == AtMost(CooldownBase + (cycles - 1) * CooldownStep, CooldownMax)

\* can_execute, when it returns True.
CanExecute ==
  /\ \/ state # "OPEN" /\ UNCHANGED state
     \/ state = "OPEN" /\ age >= Cooldown /\ state' = "HALF_OPEN"
  /\ UNCHANGED <<fails, age, cycles>>

\* Mutant: the failures counted before the success stay.
RecordSuccessKeepingCount ==
  /\ state' = "CLOSED" /\ age' = NoFailure /\ cycles' = 0
  /\ UNCHANGED fails

RecordSuccess ==
  /\ state' = "CLOSED" /\ fails' = 0 /\ age' = NoFailure /\ cycles' = 0

\* A failure recorded while the breaker is open restarts the cooldown, but
\* does not make it longer.
RecordFailure ==
  /\ fails' = AtMost(fails + 1, FailMax)
  /\ age' = 0
  /\ IF fails' >= FailMax
     THEN /\ state' = "OPEN"
          /\ cycles' = IF state = "OPEN" THEN cycles ELSE AtMost(cycles + 1, MaxCycles)
     ELSE UNCHANGED <<state, cycles>>

----------------------------------------------------------------------------
(* Calls *)

Admitted(c) == call' = [call EXCEPT ![c].pc = IF c \in Streams THEN "calling" ELSE "admitted"]

\* Mutant: a rejected call counts as a failure.
AdmitOrCount(c) ==
  /\ call[c].pc = "idle"
  /\ IF state = "OPEN" /\ age < Cooldown
     THEN RecordFailure /\ UNCHANGED call
     ELSE CanExecute /\ Admitted(c)
  /\ UNCHANGED <<provider, faults>>

\* A call that is not admitted raises at once and changes nothing.
Admit(c) ==
  /\ call[c].pc = "idle"
  /\ CanExecute
  /\ Admitted(c)
  /\ UNCHANGED <<provider, faults>>

\* The provider's semaphore; the breaker is not asked again.
TakeSlot(c) ==
  /\ call[c].pc = "admitted"
  /\ Cardinality({d \in Calls \ Streams : call[d].pc = "calling"}) < ProviderSlots
  /\ call' = [call EXCEPT ![c] = [pc |-> "calling", attempt |-> 1]]
  /\ UNCHANGED <<breaker, provider, faults>>

\* Mutant: one attempt more than max_attempts.
RetryOnceMore(c) ==
  /\ call[c].pc = "calling" /\ c \notin Streams
  /\ provider # "up" /\ call[c].attempt <= MaxAttempts
  /\ call' = [call EXCEPT ![c].attempt = @ + 1]
  /\ UNCHANGED <<breaker, provider, faults>>

\* retry_with_backoff: a timeout, a server error or a 429, and attempts left.
Retry(c) ==
  /\ call[c].pc = "calling" /\ c \notin Streams
  /\ provider # "up" /\ call[c].attempt < MaxAttempts
  /\ call' = [call EXCEPT ![c].attempt = @ + 1]
  /\ UNCHANGED <<breaker, provider, faults>>

Ended(c) == call' = [call EXCEPT ![c] = NoCall] /\ UNCHANGED <<provider, faults>>

Succeeds(c) ==
  /\ call[c].pc = "calling" /\ provider = "up"
  /\ RecordSuccess /\ Ended(c)

\* Retries used up, a stream that breaks (a 429 in its middle counts) or stays
\* empty.
Fails(c) ==
  /\ call[c].pc = "calling"
  /\ provider = "down" \/ (provider = "throttling" /\ c \in Streams)
  /\ RecordFailure /\ Ended(c)

\* An error that is not retried, whoever is to blame: a request that a provider
\* in good health refuses counts like an outage.
Refused(c) ==
  /\ call[c].pc = "calling" /\ faults < MaxFaults
  /\ RecordFailure
  /\ faults' = faults + 1
  /\ call' = [call EXCEPT ![c] = NoCall]
  /\ UNCHANGED provider

\* A 429 when the stream opens or at the last attempt is not an outage.
Throttled(c) ==
  /\ call[c].pc = "calling" /\ provider = "throttling"
  /\ c \in Streams \/ call[c].attempt = MaxAttempts
  /\ UNCHANGED breaker /\ Ended(c)

\* CancelledError passes by: the client has gone.
Cancel(c) ==
  /\ call[c].pc # "idle" /\ faults < MaxFaults
  /\ faults' = faults + 1
  /\ call' = [call EXCEPT ![c] = NoCall]
  /\ UNCHANGED <<breaker, provider>>

----------------------------------------------------------------------------
(* The provider and the clock *)

ProviderTurns(p) ==
  /\ provider # p /\ provider' = p
  /\ UNCHANGED <<breaker, call, faults>>

Tick ==
  /\ age \in Ages /\ age < CooldownMax
  /\ age' = age + 1
  /\ UNCHANGED <<state, fails, cycles, call, provider, faults>>

\* The wall clock is set back, before the last failure even.
ClockSetBack ==
  /\ age \in Ages /\ faults < MaxFaults
  /\ \E a \in Ages : a < age /\ age' = a
  /\ faults' = faults + 1
  /\ UNCHANGED <<state, fails, cycles, call, provider>>

----------------------------------------------------------------------------

Attempt(c) == Retry(c) \/ Succeeds(c) \/ Fails(c) \/ Throttled(c)

Next ==
  \/ \E c \in Calls : Admit(c) \/ TakeSlot(c) \/ Attempt(c) \/ Refused(c) \/ Cancel(c)
  \/ \E p \in {"up", "down", "throttling"} : ProviderTurns(p)
  \/ Tick \/ ClockSetBack

Spec == Init /\ [][Next]_vars

\* Users keep asking, attempts end (they have a timeout), time passes.
FairSpec ==
  /\ Spec
  /\ \A c \in Calls : WF_vars(Admit(c)) /\ WF_vars(TakeSlot(c)) /\ WF_vars(Attempt(c))
  /\ WF_vars(Tick)

----------------------------------------------------------------------------
(* Properties *)

\* Types.  A call makes at most max_attempts attempts.
TypeOK ==
  /\ state \in {"CLOSED", "OPEN", "HALF_OPEN"}
  /\ fails \in 0..FailMax /\ cycles \in 0..MaxCycles
  /\ age \in Ages \cup {NoFailure}
  /\ call \in [Calls -> [pc : {"idle", "admitted", "calling"}, attempt : 0..MaxAttempts]]
  /\ provider \in {"up", "down", "throttling"} /\ faults \in 0..MaxFaults

\* Whatever the order in which outcomes of old and new calls are recorded, the
\* four fields agree: the breaker is closed exactly while fewer than FailMax
\* failures have been recorded since the last success, an open one has a
\* failure to count its cooldown from (the assertion of can_execute), one more
\* failure reopens a half-open one, and a closed one starts from the base.
FieldsAgree ==
  /\ state = "CLOSED" <=> fails < FailMax
  /\ state = "CLOSED" <=> cycles = 0
  /\ age = NoFailure <=> fails = 0

\* Once the provider is well again for good, and refuses no more requests (they
\* are finitely many), the breaker closes for good, however long its cooldown
\* had become, whatever outcomes were still on their way and although the clock
\* had been set back.
RecoversWithProvider == <>[](provider = "up") => <>[](state = "CLOSED")
=============================================================================
