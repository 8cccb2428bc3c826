----------------------- MODULE OutboxPublisher_proofs -----------------------
(***************************************************************************)
(* What holds of the outbox relay for every number of rows, replicas,      *)
(* retries and faults.  OutboxInv is the inductive invariant: the state of *)
(* a row under lock, the entry behind every acknowledged publish and the   *)
(* snapshot a replica carries, read together.                              *)
(***************************************************************************)
EXTENDS OutboxPublisher, TLAPS

\* A row that is not committed yet was neither sent nor marked.
AbsentIsClean ==
  \A r \in Rows : outbox[r].status = "absent" =>
    ~outbox[r].processed_at /\ copies[r] = 0 /\ late[r] = 0

\* A row under lock is still pending, and has one holder.
LockedIsPending ==
  \A p \in Replicas : publisher[p].pc \in {"locked", "published"} =>
    /\ outbox[publisher[p].row].status = "pending"
    /\ ~outbox[publisher[p].row].processed_at

OneHolder ==
  \A p, q \in Replicas : \A r \in Rows : Holds(p, r) /\ Holds(q, r) => p = q

\* A replica past its poll works on a committed row and carries a snapshot
\* that is not ahead of the row.
BusyHasRow ==
  \A p \in Replicas : publisher[p].pc # "idle" =>
    /\ publisher[p].row \in Rows
    /\ outbox[publisher[p].row].status # "absent"
    /\ publisher[p].retry_count <= outbox[publisher[p].row].retry_count

PublishedHasEntry ==
  \A p \in Replicas : publisher[p].pc = "published" => copies[publisher[p].row] > 0

ProcessedIsMarked ==
  \A r \in Rows : outbox[r].status = "processed" => outbox[r].processed_at

OutboxInv ==
  /\ TypeOK /\ AbsentIsClean /\ LockedIsPending /\ OneHolder /\ BusyHasRow
  /\ PublishedHasEntry /\ ProcessedIsMarked /\ ProcessedIsOnStream /\ DlqAfterBudget

\* An empty table satisfies the invariant.
LEMMA InitInv == Init => OutboxInv
  BY OutboxAssumption
  DEF Init, OutboxInv, TypeOK, AbsentIsClean, LockedIsPending, OneHolder, BusyHasRow,
      PublishedHasEntry, ProcessedIsMarked, ProcessedIsOnStream, DlqAfterBudget,
      RowRecord, PublisherRecord, Idle, NoRow, Holds

\* Every step of a replica, of a committing client and of Redis keeps it.
LEMMA StepInv == OutboxInv /\ [Next]_vars => OutboxInv'
<1> SUFFICES ASSUME OutboxInv, [Next]_vars PROVE OutboxInv'
  OBVIOUS
<1> USE OutboxAssumption DEF OutboxInv, RowRecord, PublisherRecord
<1>1. ASSUME NEW r \in Rows, CommitRow(r) PROVE OutboxInv'
  \* The row is not under lock: a locked row is pending.
  BY <1>1 DEF CommitRow, TypeOK, AbsentIsClean, LockedIsPending, OneHolder, BusyHasRow,
     PublishedHasEntry, ProcessedIsMarked, ProcessedIsOnStream, DlqAfterBudget, Holds
<1>2. ASSUME NEW r \in Rows, LateXadd(r) PROVE OutboxInv'
  BY <1>2 DEF LateXadd, TypeOK, AbsentIsClean, LockedIsPending, OneHolder, BusyHasRow,
     PublishedHasEntry, ProcessedIsMarked, ProcessedIsOnStream, DlqAfterBudget, Holds
<1>3. ASSUME NEW p \in Replicas, PollOne(p) PROVE OutboxInv'
  <2>1. PICK r \in Rows : /\ Eligible(r)
                          /\ publisher' = [publisher EXCEPT ![p] =
                               [pc |-> "locked", row |-> r,
                                retry_count |-> outbox[r].retry_count]]
    BY <1>3 DEF PollOne
  <2>2. UNCHANGED <<outbox, copies, late, interrupts>>
    BY <1>3 DEF PollOne
  <2>3. TypeOK' /\ LockedIsPending' /\ BusyHasRow' /\ PublishedHasEntry'
    BY <2>1, <2>2 DEF TypeOK, LockedIsPending, BusyHasRow, PublishedHasEntry, Eligible
  <2>4. OneHolder'
    BY <2>1 DEF TypeOK, OneHolder, Eligible, Locked, Holds
  <2>5. (AbsentIsClean /\ ProcessedIsMarked /\ ProcessedIsOnStream /\ DlqAfterBudget)'
    BY <2>2 DEF AbsentIsClean, ProcessedIsMarked, ProcessedIsOnStream, DlqAfterBudget
  <2> QED BY <2>3, <2>4, <2>5
<1>4. ASSUME NEW p \in Replicas, Publish(p) PROVE OutboxInv'
  <2>1. publisher[p].row \in Rows /\ outbox[publisher[p].row].status # "absent"
    BY <1>4 DEF Publish, BusyHasRow
  <2>2. TypeOK' /\ AbsentIsClean' /\ PublishedHasEntry' /\ ProcessedIsOnStream'
    BY <1>4, <2>1 DEF Publish, TypeOK, AbsentIsClean, PublishedHasEntry, BusyHasRow,
       ProcessedIsOnStream
  <2>3. LockedIsPending' /\ OneHolder' /\ BusyHasRow'
    BY <1>4 DEF Publish, TypeOK, LockedIsPending, OneHolder, BusyHasRow, Holds
  <2>4. ProcessedIsMarked' /\ DlqAfterBudget'
    BY <1>4 DEF Publish, ProcessedIsMarked, DlqAfterBudget
  <2> QED BY <2>2, <2>3, <2>4
<1>5. ASSUME NEW p \in Replicas, PublishFails(p) PROVE OutboxInv'
  <2>1. publisher[p].row \in Rows /\ outbox[publisher[p].row].status # "absent"
    BY <1>5 DEF PublishFails, BusyHasRow
  <2>2. TypeOK' /\ AbsentIsClean'
    BY <1>5, <2>1 DEF PublishFails, TypeOK, AbsentIsClean
  <2>3. LockedIsPending' /\ OneHolder' /\ BusyHasRow' /\ PublishedHasEntry'
    BY <1>5 DEF PublishFails, TypeOK, LockedIsPending, OneHolder, BusyHasRow,
       PublishedHasEntry, Holds
  <2>4. ProcessedIsMarked' /\ ProcessedIsOnStream' /\ DlqAfterBudget'
    BY <1>5 DEF PublishFails, ProcessedIsMarked, ProcessedIsOnStream, DlqAfterBudget
  <2> QED BY <2>2, <2>3, <2>4
<1>6. ASSUME NEW p \in Replicas, publisher[p].pc = "published",
             MarkProcessed(publisher[p].row),
             publisher' \in {[publisher EXCEPT ![p] = Idle],
                             [publisher EXCEPT ![p].pc = "failed"]},
             UNCHANGED <<copies, late, interrupts>>
      PROVE  OutboxInv'
  <2> DEFINE r == publisher[p].row
  <2>1. r \in Rows /\ outbox[r].status = "pending" /\ copies[r] > 0
    BY <1>6 DEF BusyHasRow, LockedIsPending, PublishedHasEntry
  <2>2. \A q \in Replicas : q # p => ~Holds(q, r)
    BY <1>6, <2>1 DEF OneHolder, Holds
  <2>3. /\ publisher' \in [Replicas -> PublisherRecord]
        /\ \A q \in Replicas : q # p => publisher'[q] = publisher[q]
        /\ \/ publisher'[p] = Idle
           \/ /\ publisher'[p].pc = "failed"
              /\ publisher'[p].row = r
              /\ publisher'[p].retry_count = publisher[p].retry_count
    <3>1. CASE publisher' = [publisher EXCEPT ![p] = Idle]
      BY <3>1 DEF TypeOK, Idle, NoRow
    <3>2. CASE publisher' = [publisher EXCEPT ![p].pc = "failed"]
      BY <3>2 DEF TypeOK
    <3> QED BY <1>6, <3>1, <3>2
  <2>4. /\ outbox' \in [Rows -> RowRecord]
        /\ \A s \in Rows : outbox'[s].retry_count = outbox[s].retry_count
        /\ \A s \in Rows : s # r => outbox'[s] = outbox[s]
        /\ outbox'[r].status = "processed" /\ outbox'[r].processed_at
    BY <1>6, <2>1 DEF TypeOK, MarkProcessed
  <2>5. TypeOK' /\ LockedIsPending'
    BY <1>6, <2>2, <2>3, <2>4 DEF TypeOK, LockedIsPending, Holds, Idle, BusyHasRow
  <2>6. OneHolder' /\ PublishedHasEntry'
    <3>1. \A q \in Replicas : publisher'[q].pc \in {"locked", "published"} =>
            q # p /\ publisher'[q] = publisher[q]
      BY <2>3 DEF Idle
    <3>2. OneHolder'
      BY <3>1 DEF OneHolder, Holds
    <3>3. PublishedHasEntry'
      BY <1>6, <3>1 DEF PublishedHasEntry
    <3> QED BY <3>2, <3>3
  <2>7. BusyHasRow'
    BY <1>6, <2>1, <2>3, <2>4 DEF TypeOK, BusyHasRow, Idle
  <2>8. AbsentIsClean' /\ ProcessedIsMarked' /\ ProcessedIsOnStream' /\ DlqAfterBudget'
    <3>1. AbsentIsClean'
      BY <1>6, <2>1, <2>4 DEF TypeOK, AbsentIsClean
    <3>2. ProcessedIsMarked' /\ ProcessedIsOnStream'
      BY <1>6, <2>1, <2>4 DEF TypeOK, ProcessedIsMarked, ProcessedIsOnStream
    <3>3. DlqAfterBudget'
      BY <1>6, <2>1, <2>4 DEF TypeOK, DlqAfterBudget
    <3> QED BY <3>1, <3>2, <3>3
  <2> QED BY <2>5, <2>6, <2>7, <2>8
<1>7. ASSUME NEW p \in Replicas, CommitErrors(p), UNCHANGED outbox PROVE OutboxInv'
  BY <1>7 DEF CommitErrors, TypeOK, AbsentIsClean, LockedIsPending, OneHolder, BusyHasRow,
     PublishedHasEntry, ProcessedIsMarked, ProcessedIsOnStream, DlqAfterBudget, Holds
<1>8. ASSUME NEW p \in Replicas, RecordFailure(p) PROVE OutboxInv'
  <2> DEFINE r == publisher[p].row
  <2>1. /\ r \in Rows /\ ~Locked(r)
        /\ outbox[r].status # "absent"
        /\ publisher[p].retry_count <= outbox[r].retry_count
    BY <1>8 DEF RecordFailure, BusyHasRow
  <2>2. TypeOK'
    BY <1>8, <2>1 DEF RecordFailure, FailedRow, TypeOK, Idle, NoRow
  <2>3. LockedIsPending' /\ OneHolder'
    \* The UPDATE waits for the row lock, so no replica holds the row.
    BY <1>8, <2>1 DEF RecordFailure, FailedRow, TypeOK, LockedIsPending, OneHolder, Locked, Holds,
       Idle, BusyHasRow
  <2>4. BusyHasRow' /\ PublishedHasEntry'
    BY <1>8, <2>1 DEF RecordFailure, FailedRow, TypeOK, BusyHasRow, PublishedHasEntry, Idle
  <2>5. DlqAfterBudget'
    \* The snapshot reached the budget, and the row is never behind it.
    BY <1>8, <2>1 DEF RecordFailure, FailedRow, TypeOK, DlqAfterBudget
  <2>6. AbsentIsClean' /\ ProcessedIsMarked' /\ ProcessedIsOnStream'
    BY <1>8, <2>1 DEF RecordFailure, FailedRow, TypeOK, AbsentIsClean, ProcessedIsMarked,
       ProcessedIsOnStream
  <2> QED BY <2>2, <2>3, <2>4, <2>5, <2>6
<1>9. ASSUME NEW p \in Replicas, Interrupt(p) PROVE OutboxInv'
  BY <1>9 DEF Interrupt, TypeOK, AbsentIsClean, LockedIsPending, OneHolder, BusyHasRow,
     PublishedHasEntry, ProcessedIsMarked, ProcessedIsOnStream, DlqAfterBudget, Holds,
     Idle, NoRow
<1>10. CASE UNCHANGED vars
  BY <1>10 DEF vars, TypeOK, AbsentIsClean, LockedIsPending, OneHolder, BusyHasRow,
     PublishedHasEntry, ProcessedIsMarked, ProcessedIsOnStream, DlqAfterBudget, Holds
<1>11. ASSUME NEW p \in Replicas, Commit(p) PROVE OutboxInv'
  BY <1>6, <1>11 DEF Commit
<1>12. ASSUME NEW p \in Replicas, CommitErrors(p) PROVE OutboxInv'
  BY <1>6, <1>7, <1>12 DEF CommitErrors
<1> QED
  BY <1>1, <1>2, <1>3, <1>4, <1>5, <1>8, <1>9, <1>10, <1>11, <1>12 DEF Next

\* Every reachable state satisfies the inductive invariant.
THEOREM Invariance == SafeSpec => []OutboxInv
  BY InitInv, StepInv, PTL DEF SafeSpec

\* Type correctness, for every value of the constants.
THEOREM TypeCorrect == SafeSpec => []TypeOK
  BY Invariance, PTL DEF OutboxInv

\* A row marked processed has an entry on the stream.
THEOREM ProcessedIsOnStreamThm == SafeSpec => []ProcessedIsOnStream
  BY Invariance, PTL DEF OutboxInv

\* A row is dead-lettered only after its retry budget was used.
THEOREM DlqAfterBudgetThm == SafeSpec => []DlqAfterBudget
  BY Invariance, PTL DEF OutboxInv

\* No step sends a row that is marked processed or dead-lettered: whoever
\* sends holds the lock of a pending row.
LEMMA SettledStep ==
  ASSUME OutboxInv, [Next]_vars, NEW r \in Rows,
         outbox[r].processed_at \/ outbox[r].status = "dlq"
  PROVE  Sent(r)' = Sent(r)
<1> USE DEF OutboxInv, RowRecord, PublisherRecord
<1>1. ASSUME NEW p \in Replicas, Publish(p) \/ PublishFails(p) PROVE Sent(r)' = Sent(r)
  <2>1. publisher[p].row \in Rows /\ publisher[p].row # r
    BY <1>1 DEF Publish, PublishFails, BusyHasRow, LockedIsPending
  <2> QED BY <1>1, <2>1 DEF Publish, PublishFails, Sent, TypeOK
<1>2. ASSUME NEW s \in Rows, LateXadd(s) PROVE Sent(r)' = Sent(r)
  BY <1>2 DEF LateXadd, Sent, TypeOK
<1>3. ASSUME UNCHANGED <<copies, late>> PROVE Sent(r)' = Sent(r)
  BY <1>3 DEF Sent
<1> QED
  BY <1>1, <1>2, <1>3 DEF Next, vars, CommitRow, PollOne, Commit, CommitErrors,
     RecordFailure, Interrupt

\* A row marked processed is never sent again.
THEOREM ProcessedNeverResentThm == SafeSpec => ProcessedNeverResent
<1>1. OutboxInv /\ [Next]_vars
        => [\A r \in Rows : outbox[r].processed_at => Sent(r)' = Sent(r)]_vars
  BY SettledStep
<1> QED BY <1>1, Invariance, PTL DEF SafeSpec, ProcessedNeverResent

\* A dead-lettered row is never sent again.
THEOREM DlqNeverResentThm == SafeSpec => DlqNeverResent
<1>1. OutboxInv /\ [Next]_vars
        => [\A r \in Rows : outbox[r].status = "dlq" => Sent(r)' = Sent(r)]_vars
  BY SettledStep
<1> QED BY <1>1, Invariance, PTL DEF SafeSpec, DlqNeverResent

----------------------------------------------------------------------------
(* The relay implements the at-least-once contract. *)

\* A step that leaves status and processed_at of a row alone, or rewrites the
\* status of a processed one, is no event of the contract.
LEMMA OutcomeKept ==
  ASSUME NEW r \in Rows,
         outbox'[r].processed_at = outbox[r].processed_at,
         outbox'[r].status = outbox[r].status \/ outbox[r].processed_at
  PROVE  Outcome(r)' = Outcome(r)
  BY DEF Outcome

\* The empty table is the initial state of the contract.
LEMMA InitContract == Init => Contract!Init
  BY DEF Init, Contract!Init, Outcome

\* Every step of the relay is a step of the contract or a stutter.
LEMMA StepContract ==
  OutboxInv /\ [Next]_vars => [Contract!Next]_(Contract!vars)
<1> SUFFICES ASSUME OutboxInv, [Next]_vars
             PROVE  [Contract!Next]_(Contract!vars)
  OBVIOUS
<1> DEFINE outcome == [r \in Rows |-> Outcome(r)]
<1> USE DEF OutboxInv, RowRecord, PublisherRecord
<1>1. ASSUME NEW r \in Rows, CommitRow(r) PROVE Contract!Accept(r)
  BY <1>1 DEF CommitRow, Contract!Accept, Outcome, TypeOK, AbsentIsClean
<1>2. ASSUME NEW r \in Rows, LateXadd(r) PROVE Contract!Attempt(r)
  BY <1>2 DEF LateXadd, Contract!Attempt, Outcome, TypeOK, AbsentIsClean
<1>3. ASSUME NEW p \in Replicas, Publish(p) PROVE Contract!Attempt(publisher[p].row)
  BY <1>3 DEF Publish, Contract!Attempt, Outcome, TypeOK, BusyHasRow
<1>4. ASSUME NEW p \in Replicas, publisher[p].pc = "published",
             MarkProcessed(publisher[p].row), UNCHANGED copies
      PROVE  Contract!Deliver(publisher[p].row)
  BY <1>4 DEF MarkProcessed, Contract!Deliver, Outcome, TypeOK, BusyHasRow,
     LockedIsPending, PublishedHasEntry
<1>5. ASSUME NEW p \in Replicas, NEW r \in Rows, r = publisher[p].row, RecordFailure(p)
      PROVE  \/ Contract!GiveUp(r)
             \/ UNCHANGED Contract!vars
  <2>1. outbox[r].status # "absent" /\ UNCHANGED copies
    BY <1>5 DEF RecordFailure, BusyHasRow
  <2>2. /\ \A s \in Rows : outbox'[s].processed_at = outbox[s].processed_at
        /\ \A s \in Rows : s # r => outbox'[s].status = outbox[s].status
        /\ outbox'[r].status \in {outbox[r].status, "dlq"}
    BY <1>5 DEF RecordFailure, FailedRow, TypeOK
  <2>3. \A s \in Rows : s # r => Outcome(s)' = Outcome(s)
    BY <2>2, OutcomeKept
  <2>4. CASE Outcome(r)' = Outcome(r)
    <3>1. \A s \in Rows : Outcome(s)' = Outcome(s)
      BY <2>3, <2>4
    <3> QED BY <2>1, <3>1 DEF Contract!vars
  <2>5. CASE Outcome(r)' # Outcome(r)
    <3>1. Outcome(r) = "open" /\ Outcome(r)' = "dead"
      BY <2>1, <2>2, <2>5 DEF Outcome, TypeOK
    <3>2. outcome[r] = "open" /\ outcome' = [outcome EXCEPT ![r] = "dead"]
      BY <2>3, <3>1
    <3> QED BY <2>1, <3>2 DEF Contract!GiveUp
  <2> QED BY <2>4, <2>5
<1>6. ASSUME UNCHANGED <<outbox, copies>> PROVE UNCHANGED Contract!vars
  BY <1>6 DEF Contract!vars, Outcome
<1>7. ASSUME NEW p \in Replicas, PollOne(p) \/ PublishFails(p) \/ Interrupt(p)
      PROVE  UNCHANGED Contract!vars
  BY <1>6, <1>7 DEF PollOne, PublishFails, Interrupt
<1>8. ASSUME NEW p \in Replicas, Commit(p) \/ CommitErrors(p)
      PROVE  \/ Contract!Deliver(publisher[p].row)
             \/ UNCHANGED Contract!vars
  BY <1>4, <1>6, <1>8 DEF Commit, CommitErrors
<1>9. ASSUME NEW p \in Replicas, publisher[p].pc # "idle" PROVE publisher[p].row \in Rows
  BY <1>9 DEF BusyHasRow
<1>10. ASSUME UNCHANGED vars PROVE UNCHANGED Contract!vars
  BY <1>6, <1>10 DEF vars
<1> QED
  BY <1>1, <1>2, <1>3, <1>5, <1>7, <1>8, <1>9, <1>10
     DEF Next, Contract!Next, Publish, Commit, CommitErrors, RecordFailure

\* Whatever the faults, what the relay does to a row is a behaviour of the
\* at-least-once contract.
THEOREM RelayImplementsContract == SafeSpec => ImplementsSafeContract
  BY InitContract, StepContract, Invariance, PTL
     DEF SafeSpec, ImplementsSafeContract, Contract!SafeSpec
============================================================================
