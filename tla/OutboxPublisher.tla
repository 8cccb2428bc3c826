-------------------------- MODULE OutboxPublisher --------------------------
(***************************************************************************)
(* The transactional outbox and its publisher replicas.                    *)
(*                                                                         *)
(* A unit of work commits an outbox row with the business change it        *)
(* announces.  Publisher replicas drain the table: each locks the oldest   *)
(* pending row nobody holds (FOR UPDATE SKIP LOCKED), XADDs it to Redis    *)
(* and marks it processed in the transaction that holds the lock.  When    *)
(* the publish fails, the transaction is rolled back first, which frees    *)
(* the row, and the failure is recorded afterwards in a transaction of its *)
(* own, from the snapshot read while the row was locked.                   *)
(*                                                                         *)
(* Rows are numbers in the order of their created_at.  Payload, headers    *)
(* and metrics are left out; an entry on the stream is counted, not named. *)
(***************************************************************************)
EXTENDS Integers, FiniteSets

CONSTANTS
  Rows,           \* outbox rows, ordered by created_at
  Replicas,       \* processes that run run_outbox_loop
  MaxRetries,     \* max_retries of run_outbox_loop
  MaxInterrupts,  \* bound: crashes and unhandled errors in a behaviour
  MaxLate         \* bound: abandoned XADDs of one row on the wire at once

ASSUME OutboxAssumption ==
  /\ Rows \subseteq Nat \ {0}
  /\ MaxRetries \in Nat
  /\ MaxInterrupts \in Nat
  /\ MaxLate \in Nat

VARIABLES
  outbox,      \* the table: one record per row
  publisher,   \* per replica: where it is in _drain_batch_per_row
  copies,      \* per row: entries on the Redis stream that carry its id
  late,        \* per row: XADDs given up by the client that may still land
  interrupts   \* crashes and unhandled errors so far

vars == <<outbox, publisher, copies, late, interrupts>>

NoRow == 0

RowRecord == [status       : {"absent", "pending", "processed", "dlq"},
              processed_at : BOOLEAN,
              retry_count  : Nat]

\* "locked": the row lock is held, nothing sent.  "published": XADD answered,
\* the lock-transaction not committed.  "failed": rolled back, the failure
\* not recorded.  retry_count is the snapshot taken by the poll.
PublisherRecord == [pc          : {"idle", "locked", "published", "failed"},
                    row         : Rows \cup {NoRow},
                    retry_count : Nat]

Idle == [pc |-> "idle", row |-> NoRow, retry_count |-> 0]

Init ==
  /\ outbox = [r \in Rows |->
                 [status |-> "absent", processed_at |-> FALSE, retry_count |-> 0]]
  /\ publisher = [p \in Replicas |-> Idle]
  /\ copies = [r \in Rows |-> 0]
  /\ late = [r \in Rows |-> 0]
  /\ interrupts = 0

Holds(p, r) == publisher[p].pc \in {"locked", "published"} /\ publisher[p].row = r

Locked(r) == \E p \in Replicas : Holds(p, r)

\* Mutants of the poll: SKIP LOCKED, or the status filter, is lost.
EligibleIgnoringLocks(r) ==
  /\ outbox[r].status = "pending"
  /\ ~outbox[r].processed_at

EligibleIgnoringStatus(r) ==
  /\ outbox[r].status # "absent"
  /\ ~outbox[r].processed_at
  /\ ~Locked(r)

\* The WHERE clause of the poll, and SKIP LOCKED.
Eligible(r) ==
  /\ outbox[r].status = "pending"
  /\ ~outbox[r].processed_at
  /\ ~Locked(r)

\* UnitOfWork.commit: the row becomes visible with the business change.
CommitRow(r) ==
  /\ outbox[r].status = "absent"
  /\ outbox' = [outbox EXCEPT ![r].status = "pending"]
  /\ UNCHANGED <<publisher, copies, late, interrupts>>

\* poll_one_for_update: ORDER BY created_at LIMIT 1 FOR UPDATE SKIP LOCKED.
PollOne(p) ==
  /\ publisher[p].pc = "idle"
  /\ \E r \in Rows :
       /\ Eligible(r)
       /\ \A s \in Rows : Eligible(s) => r <= s
       /\ publisher' = [publisher EXCEPT
            ![p] = [pc |-> "locked", row |-> r, retry_count |-> outbox[r].retry_count]]
  /\ UNCHANGED <<outbox, copies, late, interrupts>>

\* XADD answered with an entry id.  The client repeats a timed-out command
\* once by itself, so a first request may have been given up on the way.
Publish(p) ==
  LET r == publisher[p].row IN
  /\ publisher[p].pc = "locked"
  /\ publisher' = [publisher EXCEPT ![p].pc = "published"]
  /\ copies' = [copies EXCEPT ![r] = @ + 1]
  /\ \E n \in 0..1 : /\ late[r] + n <= MaxLate
                     /\ late' = [late EXCEPT ![r] = @ + n]
  /\ UNCHANGED <<outbox, interrupts>>

\* Mutant: publish swallows the Redis error instead of raising BusError.
PublishFailsSilently(p) ==
  /\ publisher[p].pc = "locked"
  /\ publisher' = [publisher EXCEPT ![p].pc = "published"]
  /\ UNCHANGED <<outbox, copies, late, interrupts>>

\* BusError: no answer, or an empty one.  Rollback frees the row; the
\* requests already sent may still be carried out.
PublishFails(p) ==
  LET r == publisher[p].row IN
  /\ publisher[p].pc = "locked"
  /\ publisher' = [publisher EXCEPT ![p].pc = "failed"]
  /\ \E n \in 0..2 : /\ late[r] + n <= MaxLate
                     /\ late' = [late EXCEPT ![r] = @ + n]
  /\ UNCHANGED <<outbox, copies, interrupts>>

MarkProcessed(r) ==
  outbox' = [outbox EXCEPT ![r].status = "processed", ![r].processed_at = TRUE]

\* mark_processed_in_session and the commit of the lock-transaction.
Commit(p) ==
  /\ publisher[p].pc = "published"
  /\ MarkProcessed(publisher[p].row)
  /\ publisher' = [publisher EXCEPT ![p] = Idle]
  /\ UNCHANGED <<copies, late, interrupts>>

\* The commit ends in an OSError or a timeout, which the loop takes for a
\* failed publish.  The database may have committed all the same.
CommitErrors(p) ==
  /\ publisher[p].pc = "published"
  /\ \/ MarkProcessed(publisher[p].row)
     \/ UNCHANGED outbox
  /\ publisher' = [publisher EXCEPT ![p].pc = "failed"]
  /\ UNCHANGED <<copies, late, interrupts>>

\* Mutants of the failure record: the attempt in hand counts against the
\* budget; the counter is not bumped; a failed row gets a status no poll
\* selects.
FailedRowEarly(row, snapshot) ==
  IF snapshot + 1 >= MaxRetries
  THEN [row EXCEPT !.status = "dlq"]
  ELSE [row EXCEPT !.retry_count = @ + 1]

FailedRowNotBumped(row, snapshot) ==
  IF snapshot >= MaxRetries THEN [row EXCEPT !.status = "dlq"] ELSE row

FailedRowNewStatus(row, snapshot) ==
  IF snapshot >= MaxRetries
  THEN [row EXCEPT !.status = "dlq"]
  ELSE [row EXCEPT !.retry_count = @ + 1, !.status = "retry"]

\* mark_dlq or mark_retry, chosen by the retry_count the poll had read.
FailedRow(row, snapshot) ==
  IF snapshot >= MaxRetries
  THEN [row EXCEPT !.status = "dlq"]
  ELSE [row EXCEPT !.retry_count = @ + 1]

\* _record_publish_failure: an UPDATE by id alone.  It waits while a peer
\* holds the row lock, and does not look at what the peer made of the row.
RecordFailure(p) ==
  LET r == publisher[p].row IN
  /\ publisher[p].pc = "failed"
  /\ ~Locked(r)
  /\ outbox' = [outbox EXCEPT ![r] = FailedRow(@, publisher[p].retry_count)]
  /\ publisher' = [publisher EXCEPT ![p] = Idle]
  /\ UNCHANGED <<copies, late, interrupts>>

\* The process dies, or an error outside the caught classes (SQLAlchemyError
\* of the commit, an error of the failure record) reaches the outer loop:
\* the transaction is rolled back and nothing is recorded.
Interrupt(p) ==
  /\ publisher[p].pc # "idle"
  /\ interrupts < MaxInterrupts
  /\ interrupts' = interrupts + 1
  /\ publisher' = [publisher EXCEPT ![p] = Idle]
  /\ UNCHANGED <<outbox, copies, late>>

\* A request the client gave up on is carried out by Redis after all.
LateXadd(r) ==
  /\ late[r] > 0
  /\ late' = [late EXCEPT ![r] = @ - 1]
  /\ copies' = [copies EXCEPT ![r] = @ + 1]
  /\ UNCHANGED <<outbox, publisher, interrupts>>

Next ==
  \/ \E r \in Rows : CommitRow(r) \/ LateXadd(r)
  \/ \E p \in Replicas :
       \/ PollOne(p) \/ Publish(p) \/ PublishFails(p)
       \/ Commit(p) \/ CommitErrors(p) \/ RecordFailure(p) \/ Interrupt(p)

\* run_outbox_loop never stops polling and every await of an iteration ends,
\* by an answer or by a timeout.
Fairness ==
  \A p \in Replicas :
    /\ WF_vars(PollOne(p))
    /\ WF_vars(Publish(p) \/ PublishFails(p))
    /\ WF_vars(Commit(p) \/ CommitErrors(p))
    /\ WF_vars(RecordFailure(p))

SafeSpec == Init /\ [][Next]_vars
Spec == SafeSpec /\ Fairness

----------------------------------------------------------------------------
(* Properties *)

\* Every variable has its type.
TypeOK ==
  /\ outbox \in [Rows -> RowRecord]
  /\ publisher \in [Replicas -> PublisherRecord]
  /\ copies \in [Rows -> Nat]
  /\ late \in [Rows -> Nat]
  /\ interrupts \in Nat

\* "A Redis blip cannot mark an outbox row processed while no entry is on the
\* stream" (redis_streams_bus.publish): whatever fails in between, a row that
\* left the pending set as processed has at least one entry.
ProcessedIsOnStream ==
  \A r \in Rows : outbox[r].processed_at => copies[r] > 0

\* A row is given up only after the retry budget was used: the threshold is
\* tested on a snapshot that peers may have made stale, so the row itself is
\* compared here.
DlqAfterBudget ==
  \A r \in Rows : outbox[r].status = "dlq" => outbox[r].retry_count >= MaxRetries

Sent(r) == copies[r] + late[r]

\* Once a row was marked processed, no replica sends it again, whichever
\* snapshots and failure records are still on their way.
ProcessedNeverResent ==
  [][\A r \in Rows : outbox[r].processed_at => Sent(r)' = Sent(r)]_vars

\* A row taken out of the pending set by the dead-letter mark is not sent
\* again either.
DlqNeverResent ==
  [][\A r \in Rows : outbox[r].status = "dlq" => Sent(r)' = Sent(r)]_vars

\* Every committed row is finally published or dead-lettered, with crashing
\* replicas and failing publishes.
EventuallySettled ==
  \A r \in Rows :
    outbox[r].status = "pending" ~> outbox[r].status \in {"processed", "dlq"}

\* What an event is to the delivery contract: processed_at decides, whatever
\* status a late failure record leaves behind.
Outcome(r) ==
  IF outbox[r].processed_at THEN "delivered"
  ELSE CASE outbox[r].status = "absent" -> "absent"
         [] outbox[r].status = "dlq" -> "dead"
         [] OTHER -> "open"

Contract == INSTANCE AtLeastOnce WITH
  Events <- Rows,
  outcome <- [r \in Rows |-> Outcome(r)],
  effects <- copies

\* The relay implements the at-least-once contract: a delivered row stays
\* delivered, and only after a send; with its liveness under Fairness.
ImplementsSafeContract == Contract!SafeSpec
ImplementsContract == Contract!Spec
============================================================================
