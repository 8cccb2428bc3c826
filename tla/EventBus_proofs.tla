--------------------------- MODULE EventBus_proofs ---------------------------
(***************************************************************************)
(* What holds of the event bus for any number of messages, replicas,       *)
(* deliveries, entries and faults.                                         *)
(***************************************************************************)
EXTENDS EventBus, FiniteSetTheorems, TLAPS

\* Whatever the group, a task or a scan works on is an entry of the stream.
OnStream ==
  /\ cursor <= Len(stream)
  /\ \A e \in Entries : pel[e] > 0 => Added(e)
  /\ \A p \in Replicas, e \in Entries :
       /\ task[p][e] # "none" => Added(e)
       /\ scan[p][e] > 0 => Added(e)
       /\ copied[p] = e => Added(e)

\* A task about to acknowledge has its mark; one about to mark has its effect.
TaskHasProof ==
  \A p \in Replicas, e \in Entries :
    /\ task[p][e] = "ack" => stream[e] \in inbox
    /\ task[p][e] = "ran" => effects[stream[e]] > 0

\* A poison entry about to be acknowledged was copied, or trimmed before.
CopiedIsKept ==
  \A p \in Replicas : copied[p] # NoEntry =>
    Trimmed(copied[p]) \/ stream[copied[p]] \in dlq

BusInv == TypeOK /\ OnStream /\ TaskHasProof /\ CopiedIsKept /\ NoSilentDrop /\ InboxMeansEffect

\* An empty stream satisfies the invariant.
LEMMA BusInitInv == Init => BusInv
<1> SUFFICES ASSUME Init PROVE BusInv
  OBVIOUS
<1>1. TypeOK
  BY BusAssumption DEF Init, TypeOK, TaskStates, NoEntry, Entries
<1>2. OnStream /\ TaskHasProof /\ CopiedIsKept /\ NoSilentDrop /\ InboxMeansEffect
  BY DEF Init, OnStream, TaskHasProof, CopiedIsKept, NoSilentDrop, InboxMeansEffect,
     NoEntry, Entries, Added, Settled
<1> QED BY <1>1, <1>2 DEF BusInv

\* XADD leaves the entries already there as they were, and never brings a
\* trimmed one back.
LEMMA AddKeeps ==
  ASSUME TypeOK, NEW m \in Msgs, Add(m)
  PROVE  /\ stream' \in Seq(Msgs)
         /\ Len(stream') = Len(stream) + 1 /\ Len(stream') <= MaxEntries
         /\ \A e \in 1..Len(stream) : stream'[e] = stream[e]
         /\ first' \in 1..MaxEntries + 1 /\ first <= first'
  BY BusAssumption DEF Add, TypeOK

\* The entry of a task is on the stream, and carries a message.
LEMMA BusyIsAdded ==
  ASSUME TypeOK, OnStream, NEW p \in Replicas, NEW e \in Entries, task[p][e] # "none"
  PROVE  e \in 1..Len(stream) /\ stream[e] \in Msgs
  BY DEF TypeOK, OnStream, Added

\* Every step of a replica, of Redis and of a publisher keeps the invariant.
LEMMA BusStepInv == BusInv /\ [Next]_vars => BusInv'
<1> SUFFICES ASSUME BusInv, [Next]_vars PROVE BusInv'
  OBVIOUS
<1> USE BusAssumption DEF BusInv
<1>1. ASSUME NEW m \in Msgs, Add(m) PROVE BusInv'
  <2>1. TypeOK'
    BY <1>1, AddKeeps DEF Add, TypeOK
  <2>2. OnStream'
    BY <1>1, AddKeeps DEF Add, TypeOK, OnStream, Added
  <2>5. TaskHasProof'
    BY <1>1, AddKeeps, BusyIsAdded DEF Add, TypeOK, TaskHasProof
  <2>6. CopiedIsKept'
    <3>1. \A q \in Replicas : copied[q] # NoEntry => copied[q] \in 1..Len(stream)
      BY DEF TypeOK, OnStream, Added
    <3>2. UNCHANGED <<copied, dlq>>
      BY <1>1 DEF Add
    <3>3. ASSUME NEW q \in Replicas, copied[q] # NoEntry
          PROVE  copied[q] < first' \/ stream'[copied[q]] \in dlq
      <4>1. copied[q] < first \/ stream[copied[q]] \in dlq
        BY <3>3 DEF CopiedIsKept, Trimmed
      <4>2. copied[q] \in 1..Len(stream)
        BY <3>1, <3>3
      <4>5. Len(stream) \in Nat /\ first \in Nat
        BY DEF TypeOK
      <4>6. first' \in Nat /\ first <= first'
        BY <1>1, AddKeeps
      <4>3. stream'[copied[q]] = stream[copied[q]]
        BY <1>1, <4>2, AddKeeps
      <4>4. copied[q] < first => copied[q] < first'
        BY <4>2, <4>5, <4>6
      <4> QED BY <4>1, <4>3, <4>4
    <3> QED BY <3>2, <3>3 DEF CopiedIsKept, Trimmed
  <2>3. NoSilentDrop'
    \* The new entry is beyond the cursor.
    <3>1. SUFFICES ASSUME NEW e \in Entries, e <= cursor, pel[e] = 0, ~(e < first')
                   PROVE  stream'[e] \in inbox \cup dlq
      BY <1>1 DEF Add, NoSilentDrop, Settled, Trimmed
    <3>2. Len(stream) \in Nat /\ cursor \in Nat /\ first \in Nat /\ e \in Nat \ {0}
      BY DEF TypeOK, Entries
    <3>3. e \in 1..Len(stream)
      BY <3>1, <3>2 DEF OnStream
    <3>4. ~(e < first)
      BY <1>1, <3>1, <3>2, AddKeeps
    <3>5. stream'[e] = stream[e]
      BY <1>1, <3>3, AddKeeps
    <3> QED BY <3>1, <3>3, <3>4, <3>5 DEF NoSilentDrop, Added, Settled, Trimmed
  <2>4. InboxMeansEffect'
    BY <1>1 DEF Add, InboxMeansEffect
  <2> QED BY <2>1, <2>2, <2>3, <2>4, <2>5, <2>6
<1>2. ASSUME NEW p \in Replicas, Read(p) PROVE BusInv'
  <2>1. PICK n \in cursor + 1 .. Len(stream) :
          LET batch == {e \in cursor + 1 .. n : ~Trimmed(e)} IN
          /\ cursor' = n
          /\ pel' = [e \in Entries |-> IF e \in batch THEN 1 ELSE pel[e]]
          /\ task' = [task EXCEPT ![p] =
                        [e \in Entries |-> IF e \in batch THEN "received" ELSE "none"]]
    BY <1>2 DEF Read
  <2>2. UNCHANGED <<stream, first, scan, copied, hint, inbox, dlq, effects, faults>>
    BY <1>2 DEF Read
  <2>3. TypeOK'
    <3>1. cursor' \in 0..MaxEntries
      BY <2>1 DEF TypeOK
    <3>2. pel' \in [Entries -> Nat]
      BY <2>1 DEF TypeOK
    <3>3. task' \in [Replicas -> [Entries -> TaskStates]]
      BY <2>1 DEF TypeOK, TaskStates
    <3> QED BY <2>2, <3>1, <3>2, <3>3 DEF TypeOK
  <2>4. OnStream' /\ TaskHasProof'
    <3>1. OnStream'
      BY <2>1, <2>2, SMTT(20) DEF TypeOK, OnStream, Added, Entries
    <3>2. TaskHasProof'
      BY <2>1, <2>2 DEF TypeOK, TaskHasProof
    <3> QED BY <3>1, <3>2
  <2>5. NoSilentDrop'
    \* An entry the cursor passed is pending, or was trimmed.
    BY <2>1, <2>2 DEF TypeOK, NoSilentDrop, Added, Settled, Trimmed, Entries
  <2>6. CopiedIsKept' /\ InboxMeansEffect'
    BY <2>2 DEF CopiedIsKept, InboxMeansEffect, Trimmed
  <2> QED BY <2>3, <2>4, <2>5, <2>6
<1>3. ASSUME NEW p \in Replicas, NEW e \in Entries, NEW pc \in TaskStates,
             task[p][e] # "none", SetTask(p, e, pc),
             pc = "ack" => stream[e] \in inbox, pc # "ran",
             hint' \subseteq Msgs,
             UNCHANGED <<stream, first, cursor, pel, scan, copied, inbox, dlq, effects,
                         faults>>
      PROVE  BusInv'
  <2>1. TypeOK'
    BY <1>3 DEF SetTask, TypeOK
  <2>2. OnStream' /\ TaskHasProof'
    BY <1>3 DEF SetTask, TypeOK, OnStream, TaskHasProof, Added
  <2>3. CopiedIsKept' /\ NoSilentDrop' /\ InboxMeansEffect'
    BY <1>3 DEF CopiedIsKept, NoSilentDrop, InboxMeansEffect, Added, Settled, Trimmed
  <2> QED BY <2>1, <2>2, <2>3
<1>4. ASSUME NEW p \in Replicas, NEW e \in Entries,
             SetHint(p, e) \/ CheckInbox(p, e) \/ TaskFails(p, e)
      PROVE  BusInv'
  <2>1. task[p][e] # "none" /\ stream[e] \in Msgs
    BY <1>4 DEF SetHint, CheckInbox, TaskFails, OnStream, Added, TypeOK
  <2>2. CASE SetHint(p, e)
    BY <1>3, <2>1, <2>2 DEF SetHint, TaskStates, TypeOK
  <2>3. CASE CheckInbox(p, e)
    BY <1>3, <2>1, <2>3 DEF CheckInbox, TaskStates, TypeOK
  <2>4. CASE TaskFails(p, e)
    BY <1>3, <2>1, <2>4 DEF TaskFails, TaskStates, TypeOK
  <2> QED BY <1>4, <2>2, <2>3, <2>4
<1>5. ASSUME NEW p \in Replicas, NEW e \in Entries,
             RunHandler(p, e) \/ MarkProcessed(p, e)
      PROVE  BusInv'
  <2>1. /\ stream[e] \in Msgs /\ task[p][e] # "none"
        /\ UNCHANGED <<stream, first, cursor, pel, scan, copied, hint, dlq, faults>>
    BY <1>5 DEF RunHandler, MarkProcessed, OnStream, Added, TypeOK
  <2>2. /\ inbox \subseteq inbox' /\ inbox' \subseteq Msgs
        /\ effects' \in [Msgs -> Nat]
        /\ \A m \in Msgs : effects'[m] >= effects[m]
        /\ \A m \in inbox' : effects'[m] > 0
    <3>1. CASE effects' = [effects EXCEPT ![stream[e]] = @ + 1]
               /\ inbox' \in {inbox, inbox \cup {stream[e]}}
      BY <2>1, <3>1 DEF TypeOK, InboxMeansEffect
    <3>2. CASE UNCHANGED <<effects, inbox>>
      BY <3>2 DEF TypeOK, InboxMeansEffect
    <3>3. CASE MarkProcessed(p, e)
      BY <2>1, <3>3 DEF MarkProcessed, TypeOK, TaskHasProof, InboxMeansEffect
    <3> QED BY <1>5, <3>1, <3>2, <3>3 DEF RunHandler
  <2>3. PICK pc \in {"ran", "ack"} :
          /\ SetTask(p, e, pc)
          /\ pc = "ack" => stream[e] \in inbox'
          /\ pc = "ran" => effects'[stream[e]] > 0
    BY <1>5, <2>1 DEF RunHandler, MarkProcessed, TypeOK
  <2>4. TypeOK'
    BY <2>1, <2>2, <2>3 DEF SetTask, TypeOK, TaskStates
  <2>5. OnStream'
    BY <2>1, <2>3 DEF SetTask, TypeOK, OnStream, Added
  <2>6. TaskHasProof'
    <3>1. ASSUME NEW q \in Replicas, NEW f \in Entries, task'[q][f] \in {"ack", "ran"}
          PROVE  /\ stream[f] \in Msgs
                 /\ task'[q][f] = "ack" => stream[f] \in inbox'
                 /\ task'[q][f] = "ran" => effects'[stream[f]] > 0
      <4>1. CASE q = p /\ f = e
        BY <2>1, <2>3, <4>1 DEF SetTask, TypeOK
      <4>2. CASE ~(q = p /\ f = e)
        <5>1. task'[q][f] = task[q][f]
          BY <2>3, <4>2 DEF SetTask, TypeOK
        <5>2. stream[f] \in Msgs
          BY <3>1, <5>1, BusyIsAdded
        <5> QED BY <2>2, <3>1, <5>1, <5>2 DEF TaskHasProof, TypeOK
      <4> QED BY <4>1, <4>2
    <3> QED BY <2>1, <3>1 DEF TaskHasProof
  <2>7. CopiedIsKept' /\ NoSilentDrop' /\ InboxMeansEffect'
    BY <2>1, <2>2 DEF CopiedIsKept, NoSilentDrop, InboxMeansEffect, Added, Settled, Trimmed
  <2> QED BY <2>4, <2>5, <2>6, <2>7
<1>6. ASSUME NEW p \in Replicas, NEW e \in Entries, Ack(p, e) PROVE BusInv'
  <2>1. stream[e] \in inbox
    BY <1>6 DEF Ack, TaskHasProof
  <2>2. TypeOK'
    BY <1>6 DEF Ack, SetTask, TypeOK, TaskStates
  <2>3. OnStream' /\ TaskHasProof'
    BY <1>6 DEF Ack, SetTask, TypeOK, OnStream, TaskHasProof, Added
  <2>4. NoSilentDrop'
    BY <1>6, <2>1 DEF Ack, TypeOK, NoSilentDrop, Added, Settled, Trimmed
  <2>5. CopiedIsKept' /\ InboxMeansEffect'
    BY <1>6 DEF Ack, CopiedIsKept, InboxMeansEffect, Trimmed
  <2> QED BY <2>2, <2>3, <2>4, <2>5
<1>7. ASSUME NEW p \in Replicas, NEW idle \in SUBSET Entries, Scan(p, idle) PROVE BusInv'
  <2>1. TypeOK'
    BY <1>7 DEF Scan, TypeOK
  <2>2. OnStream'
    BY <1>7 DEF Scan, TypeOK, OnStream, Added
  <2>3. TaskHasProof' /\ CopiedIsKept' /\ NoSilentDrop' /\ InboxMeansEffect'
    BY <1>7 DEF Scan, TaskHasProof, CopiedIsKept, NoSilentDrop, InboxMeansEffect, Added,
       Settled, Trimmed
  <2> QED BY <2>1, <2>2, <2>3
<1>8. ASSUME NEW p \in Replicas, NEW e \in Entries, CopyPoison(p, e) PROVE BusInv'
  <2>1. Added(e) /\ stream[e] \in Msgs
    BY <1>8 DEF CopyPoison, IsNextPoison, Poison, Scanned, OnStream, Added, TypeOK
  <2>2. TypeOK'
    BY <1>8, <2>1 DEF CopyPoison, TypeOK
  <2>3. OnStream' /\ TaskHasProof'
    BY <1>8, <2>1 DEF CopyPoison, TypeOK, OnStream, TaskHasProof, Added
  <2>4. CopiedIsKept' /\ NoSilentDrop' /\ InboxMeansEffect'
    BY <1>8 DEF CopyPoison, TypeOK, CopiedIsKept, NoSilentDrop, InboxMeansEffect, Added,
       Settled, Trimmed
  <2> QED BY <2>2, <2>3, <2>4
<1>9. ASSUME NEW p \in Replicas, NEW e \in Entries, AckPoison(p, e) PROVE BusInv'
  <2>1. Trimmed(e) \/ stream[e] \in dlq
    BY <1>9 DEF AckPoison, CopiedIsKept
  <2>2. TypeOK'
    BY <1>9 DEF AckPoison, TypeOK
  <2>3. TaskHasProof'
    BY <1>9 DEF AckPoison, TaskHasProof
  <2>6. OnStream'
    <3>1. /\ \A f \in Entries : pel'[f] \in {pel[f], 0}
          /\ \A q \in Replicas, f \in Entries : scan'[q][f] \in {scan[q][f], 0}
          /\ \A q \in Replicas : copied'[q] \in {copied[q], NoEntry}
      BY <1>9 DEF AckPoison, TypeOK
    <3> QED BY <1>9, <3>1 DEF AckPoison, OnStream, Added, NoEntry, Entries
  <2>5. CopiedIsKept'
    BY <1>9 DEF AckPoison, TypeOK, CopiedIsKept, Trimmed
  <2>4. NoSilentDrop' /\ InboxMeansEffect'
    BY <1>9, <2>1 DEF AckPoison, TypeOK, NoSilentDrop, InboxMeansEffect, Added, Settled,
       Trimmed
  <2> QED BY <2>2, <2>3, <2>4, <2>5, <2>6
<1>10. ASSUME NEW p \in Replicas, NEW e \in Entries, DeadLetterFails(p, e) PROVE BusInv'
  <2>1. TypeOK'
    BY <1>10 DEF DeadLetterFails, TypeOK
  <2>2. OnStream' /\ TaskHasProof'
    BY <1>10 DEF DeadLetterFails, TypeOK, OnStream, TaskHasProof, Added, NoEntry, Entries
  <2>3. CopiedIsKept'
    BY <1>10 DEF DeadLetterFails, TypeOK, CopiedIsKept, Trimmed
  <2>4. NoSilentDrop' /\ InboxMeansEffect'
    BY <1>10 DEF DeadLetterFails, NoSilentDrop, InboxMeansEffect, Added, Settled, Trimmed
  <2> QED BY <2>1, <2>2, <2>3, <2>4
<1>11. ASSUME NEW p \in Replicas, Claim(p) PROVE BusInv'
  <2>1. PICK claimed \in SUBSET {e \in Pending(p) : ~Trimmed(e)} :
          /\ pel' = [e \in Entries |->
                       CASE e \in claimed -> pel[e] + 1
                         [] e \in Scanned(p) /\ Trimmed(e) -> 0
                         [] OTHER -> pel[e]]
          /\ task' = [task EXCEPT ![p] =
                        [e \in Entries |-> IF e \in claimed THEN "received" ELSE "none"]]
    BY <1>11 DEF Claim
  <2>2. /\ scan' = [scan EXCEPT ![p] = [e \in Entries |-> 0]]
        /\ UNCHANGED <<stream, first, cursor, copied, hint, inbox, dlq, effects, faults>>
    BY <1>11 DEF Claim
  <2>3. \A e \in Entries :
          /\ pel'[e] \in Nat
          /\ e \in claimed => pel[e] > 0
          /\ pel'[e] > 0 => pel[e] > 0
          /\ pel'[e] = 0 => pel[e] = 0 \/ Trimmed(e)
    BY <2>1 DEF TypeOK, Pending, Trimmed
  <2>4. TypeOK'
    BY <2>1, <2>2, <2>3 DEF TypeOK, TaskStates
  <2>5. OnStream' /\ TaskHasProof'
    BY <2>1, <2>2, <2>3 DEF TypeOK, OnStream, TaskHasProof, Added
  <2>6. NoSilentDrop'
    \* Only a trimmed entry leaves the pending list here.
    BY <2>2, <2>3 DEF NoSilentDrop, Added, Settled, Trimmed
  <2>7. CopiedIsKept' /\ InboxMeansEffect'
    BY <2>2 DEF CopiedIsKept, InboxMeansEffect, Trimmed
  <2> QED BY <2>4, <2>5, <2>6, <2>7
<1>12. ASSUME NEW p \in Replicas, ClaimFails(p) \/ Crash(p) PROVE BusInv'
  <2>1. /\ UNCHANGED <<stream, first, cursor, pel, hint, inbox, dlq, effects>>
        /\ faults' \in Nat
        /\ task' \in {task, [task EXCEPT ![p] = [e \in Entries |-> "none"]]}
        /\ scan' = [scan EXCEPT ![p] = [e \in Entries |-> 0]]
        /\ copied' \in {copied, [copied EXCEPT ![p] = NoEntry]}
    BY <1>12 DEF ClaimFails, Crash, TypeOK
  <2>2. /\ task' \in [Replicas -> [Entries -> TaskStates]]
        /\ scan' \in [Replicas -> [Entries -> Nat]]
        /\ copied' \in [Replicas -> Entries \cup {NoEntry}]
    <3>1. [e \in Entries |-> "none"] \in [Entries -> TaskStates]
      BY DEF TaskStates
    <3>2. [e \in Entries |-> 0] \in [Entries -> Nat]
      OBVIOUS
    <3>3. task' \in [Replicas -> [Entries -> TaskStates]]
      BY <2>1, <3>1 DEF TypeOK
    <3>4. scan' \in [Replicas -> [Entries -> Nat]]
      BY <2>1, <3>2 DEF TypeOK
    <3>5. copied' \in [Replicas -> Entries \cup {NoEntry}]
      BY <2>1 DEF TypeOK
    <3> QED BY <3>3, <3>4, <3>5
  <2>3. /\ \A q \in Replicas, e \in Entries :
             /\ task'[q][e] \in {task[q][e], "none"}
             /\ scan'[q][e] \in {scan[q][e], 0}
        /\ \A q \in Replicas : copied'[q] \in {copied[q], NoEntry}
    <3>1. \A q \in Replicas, e \in Entries : task'[q][e] \in {task[q][e], "none"}
      <4>1. CASE task' = task
        BY <4>1
      <4>2. CASE task' = [task EXCEPT ![p] = [e \in Entries |-> "none"]]
        BY <4>2 DEF TypeOK
      <4> QED BY <2>1, <4>1, <4>2
    <3>2. \A q \in Replicas, e \in Entries : scan'[q][e] \in {scan[q][e], 0}
      BY <2>1 DEF TypeOK
    <3>3. \A q \in Replicas : copied'[q] \in {copied[q], NoEntry}
      BY <2>1 DEF TypeOK
    <3> QED BY <3>1, <3>2, <3>3
  <2>4. TypeOK'
    BY <2>1, <2>2 DEF TypeOK
  <2>5. OnStream'
    BY <2>1, <2>3 DEF OnStream, Added, NoEntry, Entries
  <2>6. TaskHasProof' /\ CopiedIsKept'
    BY <2>1, <2>3 DEF TaskHasProof, CopiedIsKept, Trimmed
  <2>7. NoSilentDrop' /\ InboxMeansEffect'
    BY <2>1 DEF NoSilentDrop, InboxMeansEffect, Added, Settled, Trimmed
  <2> QED BY <2>4, <2>5, <2>6, <2>7
<1>13. ASSUME GroupRecreated PROVE BusInv'
  \* Nothing is settled any more: the group starts at id 0.
  BY <1>13 DEF GroupRecreated, TypeOK, OnStream, TaskHasProof, CopiedIsKept,
     NoSilentDrop, InboxMeansEffect, Added, Settled, Trimmed, Entries
<1>14. ASSUME NEW m \in Msgs, HintExpire(m) PROVE BusInv'
  BY <1>14 DEF HintExpire, TypeOK, OnStream, TaskHasProof, CopiedIsKept, NoSilentDrop,
     InboxMeansEffect, Added, Settled, Trimmed
<1>15. CASE UNCHANGED vars
  BY <1>15 DEF vars, TypeOK, OnStream, TaskHasProof, CopiedIsKept, NoSilentDrop,
     InboxMeansEffect, Added, Settled, Trimmed
<1> QED
  BY <1>1, <1>2, <1>4, <1>5, <1>6, <1>7, <1>8, <1>9, <1>10, <1>11, <1>12, <1>13, <1>14,
     <1>15 DEF Next, Dispatch

\* The strengthened invariant of the bus holds in every behaviour.
THEOREM BusInvariance == SafeSpec => []BusInv
  BY BusInitInv, BusStepInv, PTL DEF SafeSpec

\* Type correctness of the bus, for every value of the constants.
THEOREM BusTypeCorrect == SafeSpec => []TypeOK
  BY BusInvariance, PTL DEF BusInv

\* No entry still on the stream is lost between XREADGROUP and XACK, whatever
\* handlers, crashes, claims and lost groups do.
THEOREM NoSilentDropThm == SafeSpec => []NoSilentDrop
  BY BusInvariance, PTL DEF BusInv

\* A committed inbox mark proves a committed effect.
THEOREM InboxMeansEffectThm == SafeSpec => []InboxMeansEffect
  BY BusInvariance, PTL DEF BusInv

----------------------------------------------------------------------------
(* Exactly once, for handlers that take the inbox_tx hook. *)

\* The effect and the mark commit together, and no bus-owned mark is due.
MarkedWithEffect ==
  /\ \A m \in Msgs : effects[m] = IF m \in inbox THEN 1 ELSE 0
  /\ \A p \in Replicas, e \in Entries : task[p][e] # "ran"

\* With the hook, every step keeps effects and marks together.
LEMMA HookStep ==
  ASSUME HookAware, BusInv, MarkedWithEffect, [Next]_vars
  PROVE  MarkedWithEffect'
<1> USE BusAssumption DEF BusInv
<1>1. ASSUME NEW p \in Replicas, NEW e \in Entries, RunHandler(p, e)
      PROVE  MarkedWithEffect'
  <2>1. stream[e] \in Msgs
    BY <1>1, BusyIsAdded DEF RunHandler
  <2>2. SetTask(p, e, "ack")
    BY <1>1 DEF RunHandler
  <2>3. \A q \in Replicas, f \in Entries : task'[q][f] # "ran"
    BY <2>2 DEF SetTask, MarkedWithEffect, TypeOK
  <2>4. \A m \in Msgs : effects'[m] = IF m \in inbox' THEN 1 ELSE 0
    BY <1>1, <2>1 DEF RunHandler, MarkedWithEffect, TypeOK
  <2> QED BY <2>3, <2>4 DEF MarkedWithEffect
<1>2. ASSUME UNCHANGED <<inbox, effects>>,
             \A p \in Replicas, e \in Entries :
               task'[p][e] \in {task[p][e], "none", "received", "check", "run", "ack"}
      PROVE  MarkedWithEffect'
  BY <1>2 DEF MarkedWithEffect
<1>3. ASSUME NEW p \in Replicas, NEW e \in Entries,
             SetHint(p, e) \/ CheckInbox(p, e) \/ Ack(p, e) \/ TaskFails(p, e)
      PROVE  MarkedWithEffect'
  <2>1. PICK pc \in {"none", "check", "run", "ack"} : SetTask(p, e, pc)
    BY <1>3 DEF SetHint, CheckInbox, Ack, TaskFails
  <2>2. \A q \in Replicas, f \in Entries : task'[q][f] \in {task[q][f], pc}
    BY <2>1 DEF SetTask, TypeOK
  <2>3. UNCHANGED <<inbox, effects>>
    BY <1>3 DEF SetHint, CheckInbox, Ack, TaskFails
  <2> QED BY <1>2, <2>2, <2>3
<1>4. ASSUME NEW p \in Replicas, Read(p) PROVE MarkedWithEffect'
  <2>1. \A q \in Replicas, f \in Entries :
          task'[q][f] \in {task[q][f], "none", "received"}
    BY <1>4 DEF Read, TypeOK
  <2> QED BY <1>2, <1>4, <2>1 DEF Read
<1>5. ASSUME NEW p \in Replicas, Claim(p) PROVE MarkedWithEffect'
  <2>1. \A q \in Replicas, f \in Entries :
          task'[q][f] \in {task[q][f], "none", "received"}
    BY <1>5 DEF Claim, TypeOK
  <2> QED BY <1>2, <1>5, <2>1 DEF Claim
<1>6. ASSUME NEW p \in Replicas, Crash(p) PROVE MarkedWithEffect'
  <2>1. \A q \in Replicas, f \in Entries : task'[q][f] \in {task[q][f], "none"}
    BY <1>6 DEF Crash, TypeOK
  <2> QED BY <1>2, <1>6, <2>1 DEF Crash
<1>7. ASSUME NEW p \in Replicas, NEW e \in Entries, MarkProcessed(p, e)
      PROVE  MarkedWithEffect'
  BY <1>7 DEF MarkProcessed, MarkedWithEffect
<1>8. CASE UNCHANGED <<inbox, effects, task>>
  BY <1>8 DEF MarkedWithEffect
<1> QED
  BY <1>1, <1>3, <1>4, <1>5, <1>6, <1>7, <1>8 DEF Next, Dispatch, vars, Add, HintExpire,
     ClaimFails, Scan, CopyPoison, AckPoison, DeadLetterFails, GroupRecreated

\* A handler that marks in its own transaction takes effect at most once per
\* message, however often the message is delivered.
THEOREM EffectOnceThm == SafeSpec => []EffectOnce
<1>1. CASE HookAware
  <2>1. Init => MarkedWithEffect
    BY DEF Init, MarkedWithEffect
  <2>2. BusInv /\ MarkedWithEffect /\ [Next]_vars => MarkedWithEffect'
    BY <1>1, HookStep
  <2>3. MarkedWithEffect => EffectOnce
    BY DEF MarkedWithEffect, EffectOnce
  <2> QED BY <2>1, <2>2, <2>3, BusInvariance, PTL DEF SafeSpec
<1>2. CASE ~HookAware
  <2>1. EffectOnce
    BY <1>2 DEF EffectOnce
  <2> QED BY <2>1, PTL
<1> QED BY <1>1, <1>2

----------------------------------------------------------------------------
(* Deliveries past the budget. *)

\* The replicas whose XPENDING answer still allows them to claim the entry.
Armed(e) == {p \in Replicas : scan[p][e] \in 1..MaxDeliveries}

\* A delivery past the budget is paid for by the answer it was taken from.
ArmedBound ==
  \A e \in Entries :
    pel[e] + Cardinality(Armed(e)) <= MaxDeliveries + Cardinality(Replicas)

\* Some replicas are armed for an entry, and no more than there are.
LEMMA ArmedCount ==
  ASSUME NEW S \in SUBSET Replicas
  PROVE  /\ IsFiniteSet(S) /\ Cardinality(S) \in Nat
         /\ Cardinality(Replicas) \in Nat /\ Cardinality(S) <= Cardinality(Replicas)
BY ReplicasFinite, FS_Subset, FS_CardinalityType DEF ReplicasFinite

\* An entry not delivered more often than the budget allows is within the bound.
LEMMA WithinBudget ==
  ASSUME NEW n \in Nat, n <= MaxDeliveries, NEW S \in SUBSET Replicas
  PROVE  n + Cardinality(S) <= MaxDeliveries + Cardinality(Replicas)
<1>1. /\ Cardinality(S) \in Nat /\ Cardinality(Replicas) \in Nat
      /\ Cardinality(S) <= Cardinality(Replicas)
  BY ArmedCount
<1> QED BY <1>1, BusAssumption DEF BusAssumption

\* Fewer deliveries and fewer answers stay within the bound.
LEMMA Shrinks ==
  ASSUME BusInv, ArmedBound, NEW e \in Entries, pel'[e] \in {pel[e], 0},
         \A p \in Replicas : scan'[p][e] \in {scan[p][e], 0}
  PROVE  pel'[e] + Cardinality(Armed(e)') <= MaxDeliveries + Cardinality(Replicas)
<1>1. Armed(e)' \subseteq Armed(e) /\ Armed(e) \subseteq Replicas
  BY DEF Armed
<1>2. /\ Cardinality(Armed(e)') <= Cardinality(Armed(e))
      /\ Cardinality(Armed(e)') \in Nat /\ Cardinality(Armed(e)) \in Nat
  BY <1>1, ArmedCount, FS_Subset
<1>3. pel[e] \in Nat /\ pel[e] + Cardinality(Armed(e)) <= MaxDeliveries + Cardinality(Replicas)
  BY DEF BusInv, TypeOK, ArmedBound
<1>4. pel'[e] \in Nat /\ pel'[e] <= pel[e]
  BY <1>3
<1>5. MaxDeliveries \in Nat /\ Cardinality(Replicas) \in Nat
  BY BusAssumption, ArmedCount DEF BusAssumption
<1> QED BY <1>2, <1>3, <1>4, <1>5

\* Every step keeps the bound: a scan arms nobody for an entry past its
\* budget, and a claim spends the answer it was taken from.
LEMMA ArmedStep == BusInv /\ ArmedBound /\ [Next]_vars => ArmedBound'
<1> SUFFICES ASSUME BusInv, ArmedBound, [Next]_vars, NEW e \in Entries
             PROVE  pel'[e] + Cardinality(Armed(e)') <= MaxDeliveries + Cardinality(Replicas)
  BY DEF ArmedBound
<1>0. /\ pel \in [Entries -> Nat] /\ scan \in [Replicas -> [Entries -> Nat]]
      /\ Armed(e)' \in SUBSET Replicas
  BY DEF BusInv, TypeOK, Armed
<1>1. ASSUME NEW p \in Replicas, Read(p)
      PROVE  pel'[e] + Cardinality(Armed(e)') <= MaxDeliveries + Cardinality(Replicas)
  <2>1. pel'[e] \in {pel[e], 1} /\ scan' = scan
    BY <1>0, <1>1 DEF Read
  <2>2. CASE pel'[e] = 1
    BY <1>0, <2>2, WithinBudget, BusAssumption DEF BusAssumption
  <2>3. CASE pel'[e] = pel[e]
    BY <2>1, <2>3, Shrinks
  <2> QED BY <2>1, <2>2, <2>3
<1>2. ASSUME NEW p \in Replicas, NEW idle \in SUBSET Entries, Scan(p, idle)
      PROVE  pel'[e] + Cardinality(Armed(e)') <= MaxDeliveries + Cardinality(Replicas)
  <2>1. pel' = pel /\ \A q \in Replicas : scan'[q][e] \in {scan[q][e], 0, pel[e]}
    BY <1>0, <1>2 DEF Scan
  <2>2. CASE pel[e] <= MaxDeliveries
    BY <1>0, <2>1, <2>2, WithinBudget
  <2>3. CASE pel[e] > MaxDeliveries
    <3>1. Armed(e)' \subseteq Armed(e) /\ Armed(e) \subseteq Replicas
      BY <1>0, <2>1, <2>3, BusAssumption DEF Armed, BusAssumption
    <3>2. Cardinality(Armed(e)') <= Cardinality(Armed(e)) /\ Cardinality(Armed(e)') \in Nat
          /\ Cardinality(Armed(e)) \in Nat /\ Cardinality(Replicas) \in Nat
      BY <3>1, ArmedCount, FS_Subset
    <3> QED BY <1>0, <2>1, <3>2, BusAssumption DEF ArmedBound, BusAssumption
  <2> QED BY <1>0, <2>2, <2>3, BusAssumption DEF BusAssumption
<1>3. ASSUME NEW p \in Replicas, Claim(p)
      PROVE  pel'[e] + Cardinality(Armed(e)') <= MaxDeliveries + Cardinality(Replicas)
  <2>1. \A q \in Replicas : scan'[q][e] = IF q = p THEN 0 ELSE scan[q][e]
    BY <1>0, <1>3 DEF Claim
  <2>2. PICK claimed \in SUBSET {f \in Pending(p) : ~Trimmed(f)} :
          pel' = [f \in Entries |->
                    CASE f \in claimed -> pel[f] + 1
                      [] f \in Scanned(p) /\ Trimmed(f) -> 0
                      [] OTHER -> pel[f]]
    BY <1>3 DEF Claim
  <2>3. CASE e \in claimed
    <3>1. pel'[e] = pel[e] + 1
      BY <2>2, <2>3
    <3>2. p \in Armed(e)
      BY <1>0, <1>3, <2>3, BusAssumption DEF Claim, Pending, Poison, Scanned, Armed,
         BusAssumption
    <3>3. Armed(e)' = Armed(e) \ {p}
      BY <2>1 DEF Armed
    <3>4. /\ Cardinality(Armed(e)') = Cardinality(Armed(e)) - 1
          /\ Cardinality(Armed(e)) \in Nat
      BY <3>2, <3>3, ArmedCount, FS_RemoveElement DEF Armed
    <3>5. Cardinality(Replicas) \in Nat /\ MaxDeliveries \in Nat
      BY ArmedCount, BusAssumption DEF BusAssumption
    <3> QED BY <1>0, <3>1, <3>4, <3>5 DEF ArmedBound
  <2>4. CASE e \notin claimed
    <3>1. pel'[e] \in {pel[e], 0}
      BY <2>2, <2>4
    <3> QED BY <2>1, <3>1, Shrinks
  <2> QED BY <2>3, <2>4
<1>4. CASE /\ pel'[e] \in {pel[e], 0}
           /\ \A q \in Replicas : scan'[q][e] \in {scan[q][e], 0}
  BY <1>4, Shrinks
<1>5. CASE UNCHANGED <<pel, scan>>
  BY <1>4, <1>5
<1>6. ASSUME NEW p \in Replicas, NEW f \in Entries,
             Ack(p, f) \/ AckPoison(p, f) \/ DeadLetterFails(p, f)
      PROVE  /\ pel'[e] \in {pel[e], 0}
             /\ \A q \in Replicas : scan'[q][e] \in {scan[q][e], 0}
  BY <1>0, <1>6 DEF Ack, AckPoison, DeadLetterFails
<1>7. ASSUME NEW p \in Replicas, ClaimFails(p) \/ Crash(p)
      PROVE  pel' = pel /\ \A q \in Replicas : scan'[q][e] \in {scan[q][e], 0}
  BY <1>0, <1>7 DEF ClaimFails, Crash
<1>8. ASSUME GroupRecreated PROVE pel'[e] = 0 /\ scan' = scan
  BY <1>8 DEF GroupRecreated
<1>9. ASSUME NEW p \in Replicas, NEW f \in Entries,
             \/ SetHint(p, f) \/ CheckInbox(p, f) \/ RunHandler(p, f)
             \/ MarkProcessed(p, f) \/ TaskFails(p, f) \/ CopyPoison(p, f)
      PROVE  UNCHANGED <<pel, scan>>
  BY <1>9 DEF SetHint, CheckInbox, RunHandler, MarkProcessed, TaskFails, CopyPoison
<1>10. ASSUME NEW m \in Msgs, Add(m) \/ HintExpire(m) PROVE UNCHANGED <<pel, scan>>
  BY <1>10 DEF Add, HintExpire
<1>11. CASE UNCHANGED vars
  BY <1>5, <1>11 DEF vars
<1> QED
  BY <1>1, <1>2, <1>3, <1>4, <1>5, <1>6, <1>7, <1>8, <1>9, <1>10, <1>11 DEF Next, Dispatch

\* For any number of replicas, entries and deliveries: replicas that work from
\* old XPENDING answers deliver an entry past its budget at most once each.
THEOREM DeliveriesBoundedThm == SafeSpec => []DeliveriesBounded
<1>1. Init => ArmedBound
  <2> SUFFICES ASSUME Init, NEW e \in Entries
               PROVE  pel[e] + Cardinality(Armed(e)) <= MaxDeliveries + Cardinality(Replicas)
    BY DEF ArmedBound
  <2>1. pel[e] = 0 /\ Armed(e) \in SUBSET Replicas
    BY DEF Init, Armed
  <2> QED BY <2>1, WithinBudget, BusAssumption DEF BusAssumption
<1>2. BusInv /\ ArmedBound => DeliveriesBounded
  <2> SUFFICES ASSUME BusInv, ArmedBound, NEW e \in Entries
               PROVE  pel[e] <= MaxDeliveries + Cardinality(Replicas)
    BY DEF DeliveriesBounded
  <2>1. /\ pel[e] \in Nat /\ Cardinality(Armed(e)) \in Nat
        /\ pel[e] + Cardinality(Armed(e)) <= MaxDeliveries + Cardinality(Replicas)
    BY ArmedCount DEF BusInv, TypeOK, ArmedBound, Armed
  <2>2. MaxDeliveries \in Nat /\ Cardinality(Replicas) \in Nat
    BY ArmedCount, BusAssumption DEF BusAssumption
  <2> QED BY <2>1, <2>2
<1> QED BY <1>1, <1>2, ArmedStep, BusInvariance, PTL DEF SafeSpec

----------------------------------------------------------------------------
(* What the group is done with. *)

\* No step but the loss of the group moves the cursor back or makes an entry
\* pending again: a read takes what is beyond the cursor, a claim what is pending.
LEMMA SettledStep ==
  ASSUME BusInv, [Next]_vars, faults' = faults, NEW e \in Entries, Settled(e)
  PROVE  cursor <= cursor' /\ pel'[e] = 0
<1>0. /\ pel \in [Entries -> Nat] /\ cursor \in Nat /\ faults \in Nat /\ e \in Nat
      /\ stream \in Seq(Msgs) /\ pel[e] = 0 /\ e <= cursor
  BY DEF BusInv, TypeOK, Settled, Entries
<1>1. ASSUME NEW p \in Replicas, Read(p) PROVE cursor <= cursor' /\ pel'[e] = 0
  BY <1>0, <1>1 DEF Read
<1>2. ASSUME NEW p \in Replicas, Claim(p) PROVE cursor <= cursor' /\ pel'[e] = 0
  BY <1>0, <1>2 DEF Claim, Pending
<1>3. ASSUME NEW p \in Replicas, NEW f \in Entries, Ack(p, f) \/ AckPoison(p, f)
      PROVE  cursor <= cursor' /\ pel'[e] = 0
  BY <1>0, <1>3 DEF Ack, AckPoison
<1>4. CASE UNCHANGED <<cursor, pel>>
  BY <1>0, <1>4
<1>5. ASSUME NEW p \in Replicas, NEW f \in Entries,
             \/ SetHint(p, f) \/ CheckInbox(p, f) \/ RunHandler(p, f) \/ MarkProcessed(p, f)
             \/ TaskFails(p, f) \/ CopyPoison(p, f) \/ DeadLetterFails(p, f)
      PROVE  UNCHANGED <<cursor, pel>>
  BY <1>5 DEF SetHint, CheckInbox, RunHandler, MarkProcessed, TaskFails, CopyPoison,
     DeadLetterFails
<1>6. ASSUME NEW p \in Replicas,
             ClaimFails(p) \/ Crash(p) \/ \E idle \in SUBSET Entries : Scan(p, idle)
      PROVE  UNCHANGED <<cursor, pel>>
  BY <1>6 DEF ClaimFails, Crash, Scan
<1>7. ASSUME NEW m \in Msgs, Add(m) \/ HintExpire(m) PROVE UNCHANGED <<cursor, pel>>
  BY <1>7 DEF Add, HintExpire
<1>8. ~GroupRecreated
  BY <1>0 DEF GroupRecreated
<1>9. CASE UNCHANGED vars
  BY <1>4, <1>9 DEF vars
<1> QED BY <1>1, <1>2, <1>3, <1>4, <1>5, <1>6, <1>7, <1>8, <1>9 DEF Next, Dispatch

\* For any number of replicas and deliveries: while the group lives, whatever
\* old answers replicas claim from, an entry it is done with stays so.
THEOREM SettledIsFinalThm == SafeSpec => SettledIsFinal
<1>1. BusInv /\ [Next]_vars
        => [\A e \in Entries : Settled(e) /\ faults' = faults => Settled(e)']_vars
  <2> SUFFICES ASSUME BusInv, [Next]_vars, faults' = faults, NEW e \in Entries, Settled(e)
               PROVE  Settled(e)'
    OBVIOUS
  <2>1. cursor \in Nat /\ cursor' \in Nat /\ e \in Nat /\ e <= cursor
    BY BusStepInv DEF BusInv, TypeOK, Settled, Entries
  <2> QED BY <2>1, SettledStep DEF Settled
<1> QED BY <1>1, BusInvariance, PTL DEF SafeSpec, SettledIsFinal

----------------------------------------------------------------------------
(* The consumer group implements the at-least-once contract. *)

OnTheStream(m) == \E e \in 1..Len(stream) : stream[e] = m

\* What decides the outcome of a message.
LEMMA OutcomeIs ==
  ASSUME NEW m
  PROVE  /\ m \in inbox => Outcome(m) = "delivered"
         /\ m \in dlq /\ m \notin inbox => Outcome(m) = "dead"
         /\ m \notin inbox \cup dlq /\ OnTheStream(m) => Outcome(m) = "open"
         /\ m \notin inbox \cup dlq /\ ~OnTheStream(m) => Outcome(m) = "absent"
BY DEF Outcome, OnTheStream

\* A step that neither marks, dead-letters nor adds a message keeps its outcome.
LEMMA OutcomeKept ==
  ASSUME NEW m, m \in inbox' <=> m \in inbox, m \in dlq' <=> m \in dlq,
         OnTheStream(m)' <=> OnTheStream(m)
  PROVE  Outcome(m)' = Outcome(m)
BY DEF Outcome, OnTheStream

\* XADD accepts a message, unless the relay has sent it before.
LEMMA AddContract ==
  ASSUME BusInv, NEW n \in Msgs, Add(n)
  PROVE  Contract!Accept(n) \/ UNCHANGED Contract!vars
<1>1. /\ stream \in Seq(Msgs) /\ stream' = Append(stream, n)
      /\ UNCHANGED <<inbox, dlq, effects>>
  BY DEF Add, BusInv, TypeOK
<1>2. /\ Len(stream') = Len(stream) + 1 /\ Len(stream) \in Nat
      /\ stream'[Len(stream')] = n
      /\ \A e \in 1..Len(stream) : stream'[e] = stream[e]
  BY <1>1
<1>3. OnTheStream(n)'
  BY <1>2 DEF OnTheStream
<1>4. \A m \in Msgs \ {n} : OnTheStream(m)' <=> OnTheStream(m)
  BY <1>2 DEF OnTheStream
<1>5. \A m \in Msgs \ {n} : Outcome(m)' = Outcome(m)
  BY <1>1, <1>4, OutcomeKept
<1>6. CASE Outcome(n) = "absent"
  <2>1. n \notin inbox \cup dlq
    BY <1>6, OutcomeIs
  <2>2. Outcome(n)' = "open"
    BY <1>1, <1>3, <2>1 DEF Outcome, OnTheStream
  <2> QED BY <1>1, <1>5, <1>6, <2>2 DEF Contract!Accept
<1>7. CASE Outcome(n) # "absent"
  <2>1. n \in inbox \cup dlq \/ OnTheStream(n)
    BY <1>7, OutcomeIs
  <2>2. Outcome(n)' = Outcome(n)
    BY <1>1, <1>3, <2>1 DEF Outcome, OnTheStream
  <2> QED BY <1>1, <1>5, <2>2 DEF Contract!vars
<1> QED BY <1>6, <1>7

\* A committed handler is an attempt; with the hook it is the delivery.
LEMMA HandlerContract ==
  ASSUME BusInv, NEW p \in Replicas, NEW e \in Entries,
         RunHandler(p, e) \/ MarkProcessed(p, e)
  PROVE  \/ \E m \in Msgs : Contract!Attempt(m) \/ Contract!Deliver(m)
         \/ UNCHANGED Contract!vars
<1>1. PICK m \in Msgs : m = stream[e] /\ OnTheStream(m) /\ UNCHANGED <<stream, dlq>>
  BY BusyIsAdded DEF BusInv, RunHandler, MarkProcessed, OnTheStream
<1>2. Outcome(m) # "absent" /\ (m \notin inbox => Outcome(m) \in {"open", "dead"})
  BY <1>1, OutcomeIs
<1>3. CASE UNCHANGED inbox
  <2>1. \A n \in Msgs : Outcome(n)' = Outcome(n)
    BY <1>1, <1>3, OutcomeKept DEF OnTheStream
  <2>2. CASE UNCHANGED effects
    BY <2>1, <2>2 DEF Contract!vars
  <2>3. CASE effects' = [effects EXCEPT ![m] = @ + 1]
    BY <1>1, <1>2, <2>1, <2>3 DEF Contract!Attempt
  <2> QED BY <1>1, <2>2, <2>3 DEF RunHandler, MarkProcessed
<1>4. CASE inbox' = inbox \cup {m} /\ m \notin inbox
  <2>1. \A n \in Msgs \ {m} : Outcome(n)' = Outcome(n)
    BY <1>1, <1>4, OutcomeKept DEF OnTheStream
  <2>2. Outcome(m)' = "delivered"
    BY <1>4 DEF Outcome
  <2>3. \/ effects[m] > 0 /\ UNCHANGED effects
        \/ effects' = [effects EXCEPT ![m] = @ + 1]
    BY <1>1, <1>4 DEF BusInv, TaskHasProof, RunHandler, MarkProcessed
  <2> DEFINE outcome == [n \in Msgs |-> Outcome(n)]
  <2>4. outcome[m] \in {"open", "dead"}
    BY <1>1, <1>2, <1>4
  <2>5. outcome' = [outcome EXCEPT ![m] = "delivered"]
    BY <1>1, <2>1, <2>2
  <2> QED BY <1>1, <2>3, <2>4, <2>5 DEF Contract!Deliver
<1> QED BY <1>1, <1>3, <1>4 DEF RunHandler, MarkProcessed

\* A dead letter gives the message up, unless one of its entries was handled.
LEMMA PoisonContract ==
  ASSUME BusInv, NEW p \in Replicas, NEW e \in Entries, CopyPoison(p, e)
  PROVE  \/ \E m \in Msgs : Contract!GiveUp(m)
         \/ UNCHANGED Contract!vars
<1>1. PICK m \in Msgs : m = stream[e] /\ OnTheStream(m)
  BY DEF CopyPoison, IsNextPoison, Poison, Scanned, BusInv, OnStream, Added, TypeOK, OnTheStream
<1>2. /\ UNCHANGED <<stream, inbox, effects>>
      /\ dlq' = dlq \/ dlq' = dlq \cup {m}
  BY <1>1 DEF CopyPoison
<1>3. \A n \in Msgs \ {m} : Outcome(n)' = Outcome(n)
  BY <1>2, OutcomeKept DEF OnTheStream
<1>4. CASE m \in inbox \/ dlq' = dlq \/ m \in dlq
  <2>1. Outcome(m)' = Outcome(m)
    BY <1>2, <1>4 DEF Outcome
  <2> QED BY <1>2, <1>3, <2>1 DEF Contract!vars
<1>5. CASE dlq' = dlq \cup {m} /\ m \notin inbox /\ m \notin dlq
  <2>1. Outcome(m) = "open"
    BY <1>1, <1>5, OutcomeIs
  <2>2. Outcome(m)' = "dead"
    BY <1>2, <1>5 DEF Outcome
  <2> QED BY <1>1, <1>2, <1>3, <2>1, <2>2 DEF Contract!GiveUp
<1> QED BY <1>2, <1>4, <1>5

\* Every step of the group is a step of the contract or a stutter.
LEMMA StepContract == BusInv /\ [Next]_vars => [Contract!Next]_(Contract!vars)
<1> SUFFICES ASSUME BusInv, [Next]_vars
             PROVE  [Contract!Next]_(Contract!vars)
  OBVIOUS
<1>1. ASSUME UNCHANGED <<stream, inbox, dlq, effects>> PROVE UNCHANGED Contract!vars
  BY <1>1 DEF Contract!vars, Outcome
<1>2. CASE UNCHANGED <<stream, inbox, dlq, effects>>
  BY <1>1, <1>2
<1> QED
  BY <1>2, AddContract, HandlerContract, PoisonContract
     DEF Next, Dispatch, Contract!Next, vars, Read, SetHint, CheckInbox, Ack, TaskFails,
     Scan, AckPoison, DeadLetterFails, Claim, ClaimFails, Crash, GroupRecreated, HintExpire

\* For any number of messages, replicas, entries and faults, and for handlers
\* with the hook or without: what becomes of a message is a behaviour of the
\* at-least-once contract.  Delivered needs an effect, and is final.
THEOREM BusImplementsContract == SafeSpec => ImplementsSafeContract
<1>1. Init => Contract!Init
  BY DEF Init, Contract!Init, Outcome
<1> QED
  BY <1>1, StepContract, BusInvariance, PTL
     DEF SafeSpec, ImplementsSafeContract, Contract!SafeSpec
============================================================================
