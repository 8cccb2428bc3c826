------------------------------ MODULE EventBus ------------------------------
(***************************************************************************)
(* One subject of the Redis Streams event bus and the consumer group of    *)
(* one subscriber, with the transactional inbox in PostgreSQL.             *)
(*                                                                         *)
(* A replica reads a batch with XREADGROUP, or claims idle entries of the  *)
(* pending list (XPENDING, XCLAIM), and runs _dispatch_one for each entry: *)
(* SET NX on the dedup key, a look at the inbox when the key was there,    *)
(* the handler, the inbox mark, XACK.  Entries delivered too often are     *)
(* copied to the dead-letter stream and acknowledged.  The stream is       *)
(* capped (MAXLEN ~), so old entries disappear whether read or not.        *)
(*                                                                         *)
(* Entry ids are positions in the stream.  Idle time is abstracted: any    *)
(* pending entry may be found idle, a slow handler's included.             *)
(***************************************************************************)
EXTENDS Integers, Sequences, FiniteSets

CONSTANTS
  Msgs,           \* Msg-Ids, the UUIDs of outbox rows
  Replicas,       \* consumers of the group
  HookAware,      \* whether the handler declares the inbox_tx parameter
  MaxDeliveries,  \* DEFAULT_BUS_DLQ_MAX_DELIVERIES
  StreamMaxLen,   \* DEFAULT_STREAM_MAXLEN
  MaxEntries,     \* bound: entries ever added, duplicates included
  MaxFaults,      \* bound: crashes, failed dead-letter moves, lost groups
  HintExpires     \* whether a dedup key may outlive its TTL in a behaviour

ASSUME BusAssumption ==
  /\ HookAware \in BOOLEAN
  /\ HintExpires \in BOOLEAN
  /\ MaxDeliveries \in Nat \ {0}
  /\ StreamMaxLen \in Nat \ {0}
  /\ MaxEntries \in Nat
  /\ MaxFaults \in Nat

ASSUME ReplicasFinite == IsFiniteSet(Replicas)

VARIABLES
  stream,   \* the Msg-Id of every entry ever added
  first,    \* the oldest entry MAXLEN has left on the stream
  cursor,   \* last-delivered-id of the group
  pel,      \* the group's pending list: times_delivered, 0 when not pending
  task,     \* per replica and entry: where its _dispatch_one is
  scan,     \* per replica: the XPENDING answer recovery works through
  copied,   \* per replica: the poison entry between dead-letter XADD and XACK
  hint,     \* dedup keys in Redis
  inbox,    \* marks committed to event_inbox
  dlq,      \* Msg-Ids on the dead-letter stream
  effects,  \* per message: how many times its handler's effect committed
  faults    \* crashes, failed dead-letter moves and lost groups so far

vars == <<stream, first, cursor, pel, task, scan, copied, hint, inbox, dlq,
          effects, faults>>

Entries == 1..MaxEntries
NoEntry == 0

TaskStates == {
  "none",      \* no task for this entry
  "received",  \* before SET NX
  "check",     \* the key was there: before the inbox lookup
  "run",       \* before the handler
  "ran",       \* the handler returned, before the mark (1-arg handlers)
  "ack"}       \* the mark is committed, before XACK

Init ==
  /\ stream = <<>> /\ first = 1 /\ cursor = 0
  /\ pel = [e \in Entries |-> 0]
  /\ task = [p \in Replicas |-> [e \in Entries |-> "none"]]
  /\ scan = [p \in Replicas |-> [e \in Entries |-> 0]]
  /\ copied = [p \in Replicas |-> NoEntry]
  /\ hint = {} /\ inbox = {} /\ dlq = {}
  /\ effects = [m \in Msgs |-> 0]
  /\ faults = 0

Trimmed(e) == e < first

\* The loop awaits the gather of a batch before it reads or recovers again.
Free(p) ==
  /\ \A e \in Entries : task[p][e] = "none" /\ scan[p][e] = 0
  /\ copied[p] = NoEntry

----------------------------------------------------------------------------
(* The stream *)

\* XADD with MAXLEN ~: the cap is a floor, so any excess may go or stay.
Add(m) ==
  /\ Len(stream) < MaxEntries
  /\ stream' = Append(stream, m)
  /\ first' \in {f \in first..(Len(stream) + 1) :
                   f = first \/ Len(stream) + 2 - f >= StreamMaxLen}
  /\ UNCHANGED <<cursor, pel, task, scan, copied, hint, inbox, dlq, effects, faults>>

\* XREADGROUP ">": the next entries still on the stream become pending.
Read(p) ==
  /\ Free(p)
  /\ \E n \in cursor + 1 .. Len(stream) :
       LET batch == {e \in cursor + 1 .. n : ~Trimmed(e)} IN
       /\ batch # {}
       /\ cursor' = n
       /\ pel' = [e \in Entries |-> IF e \in batch THEN 1 ELSE pel[e]]
       /\ task' = [task EXCEPT ![p] =
                     [e \in Entries |-> IF e \in batch THEN "received" ELSE "none"]]
  /\ UNCHANGED <<stream, first, scan, copied, hint, inbox, dlq, effects, faults>>

----------------------------------------------------------------------------
(* _dispatch_one *)

SetTask(p, e, pc) == task' = [task EXCEPT ![p][e] = pc]

\* Mutant: the dedup key alone decides, as before the transactional inbox.
TrustHint(p, e) ==
  /\ task[p][e] = "received"
  /\ hint' = hint \cup {stream[e]}
  /\ SetTask(p, e, IF stream[e] \in hint THEN "ack" ELSE "run")
  /\ UNCHANGED <<stream, first, cursor, pel, scan, copied, inbox, dlq, effects, faults>>

\* SET NX: a key that was not there sends the entry straight to the handler.
SetHint(p, e) ==
  /\ task[p][e] = "received"
  /\ hint' = hint \cup {stream[e]}
  /\ SetTask(p, e, IF stream[e] \in hint THEN "check" ELSE "run")
  /\ UNCHANGED <<stream, first, cursor, pel, scan, copied, inbox, dlq, effects, faults>>

\* _inbox_seen: a committed mark skips the handler; a database error is
\* taken for "not seen".
CheckInbox(p, e) ==
  /\ task[p][e] = "check"
  /\ \/ stream[e] \in inbox /\ SetTask(p, e, "ack")
     \/ SetTask(p, e, "run")
  /\ UNCHANGED <<stream, first, cursor, pel, scan, copied, hint, inbox, dlq, effects,
                 faults>>

\* Mutant: the conflict of the mark does not abort the handler's transaction.
RunHandlerNoAbort(p, e) ==
  /\ task[p][e] = "run"
  /\ effects' = [effects EXCEPT ![stream[e]] = @ + 1]
  /\ IF HookAware
     THEN inbox' = inbox \cup {stream[e]} /\ SetTask(p, e, "ack")
     ELSE UNCHANGED inbox /\ SetTask(p, e, "ran")
  /\ UNCHANGED <<stream, first, cursor, pel, scan, copied, hint, dlq, faults>>

\* The handler's transaction commits.  With the inbox_tx hook the mark is
\* part of it, and a mark already there aborts it (InboxDuplicateError).
RunHandler(p, e) ==
  LET m == stream[e] IN
  /\ task[p][e] = "run"
  /\ \/ /\ HookAware /\ m \in inbox
        /\ SetTask(p, e, "ack")
        /\ UNCHANGED <<inbox, effects>>
     \/ /\ HookAware => m \notin inbox
        /\ effects' = [effects EXCEPT ![m] = @ + 1]
        /\ IF HookAware
           THEN inbox' = inbox \cup {m} /\ SetTask(p, e, "ack")
           ELSE UNCHANGED inbox /\ SetTask(p, e, "ran")
  /\ UNCHANGED <<stream, first, cursor, pel, scan, copied, hint, dlq, faults>>

\* _mark_processed: the bus's own transaction; a duplicate is only logged.
MarkProcessed(p, e) ==
  /\ task[p][e] = "ran"
  /\ inbox' = inbox \cup {stream[e]}
  /\ SetTask(p, e, "ack")
  /\ UNCHANGED <<stream, first, cursor, pel, scan, copied, hint, dlq, effects, faults>>

\* Mutant: acknowledging is not idempotent.
AckCounted(p, e) ==
  /\ task[p][e] = "ack"
  /\ pel' = [pel EXCEPT ![e] = @ - 1]
  /\ SetTask(p, e, "none")
  /\ UNCHANGED <<stream, first, cursor, scan, copied, hint, inbox, dlq, effects, faults>>

\* XACK of an entry the group does not hold any more changes nothing.
Ack(p, e) ==
  /\ task[p][e] = "ack"
  /\ pel' = [pel EXCEPT ![e] = 0]
  /\ SetTask(p, e, "none")
  /\ UNCHANGED <<stream, first, cursor, scan, copied, hint, inbox, dlq, effects, faults>>

\* Mutant: an error of the handler is swallowed before the mark.
TaskFailsSwallowed(p, e) ==
  /\ task[p][e] \in {"received", "run", "ran", "ack"}
  /\ SetTask(p, e, IF task[p][e] = "run" THEN "ran" ELSE "none")
  /\ UNCHANGED <<stream, first, cursor, pel, scan, copied, hint, inbox, dlq, effects,
                 faults>>

\* Any await but the inbox lookup raises: logged, and the entry stays pending.
TaskFails(p, e) ==
  /\ task[p][e] \in {"received", "run", "ran", "ack"}
  /\ SetTask(p, e, "none")
  /\ UNCHANGED <<stream, first, cursor, pel, scan, copied, hint, inbox, dlq, effects,
                 faults>>

----------------------------------------------------------------------------
(* recover_pending_messages *)

\* XPENDING with the idle filter: some pending entries and their counts.
Scan(p, idle) ==
  /\ Free(p)
  /\ idle # {} /\ \A e \in idle : pel[e] > 0
  /\ scan' = [scan EXCEPT ![p] = [e \in Entries |-> IF e \in idle THEN pel[e] ELSE 0]]
  /\ UNCHANGED <<stream, first, cursor, pel, task, copied, hint, inbox, dlq, effects,
                 faults>>

Scanned(p) == {e \in Entries : scan[p][e] > 0}

\* Mutant: the delivery budget is one too large.
PoisonLate(p) == {e \in Scanned(p) : scan[p][e] > MaxDeliveries + 1}

Poison(p) == {e \in Scanned(p) : scan[p][e] > MaxDeliveries}

IsNextPoison(p, e) == e \in Poison(p) /\ \A f \in Poison(p) : e <= f

\* _dead_letter, XRANGE and XADD: a trimmed entry leaves nothing to copy.
CopyPoison(p, e) ==
  /\ copied[p] = NoEntry
  /\ IsNextPoison(p, e)
  /\ copied' = [copied EXCEPT ![p] = e]
  /\ dlq' = IF Trimmed(e) THEN dlq ELSE dlq \cup {stream[e]}
  /\ UNCHANGED <<stream, first, cursor, pel, task, scan, hint, inbox, effects, faults>>

\* Mutant: the copy is made and the entry stays pending.
AckPoisonForgotten(p, e) ==
  /\ copied[p] = e /\ e # NoEntry
  /\ scan' = [scan EXCEPT ![p][e] = 0]
  /\ copied' = [copied EXCEPT ![p] = NoEntry]
  /\ UNCHANGED <<stream, first, cursor, pel, task, hint, inbox, dlq, effects, faults>>

\* _dead_letter, XACK.
AckPoison(p, e) ==
  /\ copied[p] = e /\ e # NoEntry
  /\ pel' = [pel EXCEPT ![e] = 0]
  /\ scan' = [scan EXCEPT ![p][e] = 0]
  /\ copied' = [copied EXCEPT ![p] = NoEntry]
  /\ UNCHANGED <<stream, first, cursor, task, hint, inbox, dlq, effects, faults>>

\* A Redis error in the move: the entry is kept for the next pass.
DeadLetterFails(p, e) ==
  /\ faults < MaxFaults /\ faults' = faults + 1
  /\ IsNextPoison(p, e)
  /\ scan' = [scan EXCEPT ![p][e] = 0]
  /\ copied' = [copied EXCEPT ![p] = NoEntry]
  /\ UNCHANGED <<stream, first, cursor, pel, task, hint, inbox, dlq, effects>>

\* Mutant: the claim forces entries back that were acknowledged meanwhile.
PendingUnchecked(p) == Scanned(p)

Pending(p) == {e \in Scanned(p) : pel[e] > 0}

\* XCLAIM of the scanned entries still pending.  One delivered again since
\* the scan is claimed only if it got idle once more; a trimmed one is
\* dropped from the pending list by Redis.
Claim(p) ==
  /\ Scanned(p) # {} /\ Poison(p) = {} /\ copied[p] = NoEntry
  /\ \E claimed \in SUBSET {e \in Pending(p) : ~Trimmed(e)} :
       /\ \A e \in Pending(p) : ~Trimmed(e) /\ pel[e] = scan[p][e] => e \in claimed
       /\ pel' = [e \in Entries |->
                    CASE e \in claimed -> pel[e] + 1
                      [] e \in Scanned(p) /\ Trimmed(e) -> 0
                      [] OTHER -> pel[e]]
       /\ task' = [task EXCEPT ![p] =
                     [e \in Entries |-> IF e \in claimed THEN "received" ELSE "none"]]
  /\ scan' = [scan EXCEPT ![p] = [e \in Entries |-> 0]]
  /\ UNCHANGED <<stream, first, cursor, copied, hint, inbox, dlq, effects, faults>>

ClaimFails(p) ==
  /\ faults < MaxFaults /\ faults' = faults + 1
  /\ Scanned(p) # {} /\ Poison(p) = {} /\ copied[p] = NoEntry
  /\ scan' = [scan EXCEPT ![p] = [e \in Entries |-> 0]]
  /\ UNCHANGED <<stream, first, cursor, pel, task, copied, hint, inbox, dlq, effects>>

----------------------------------------------------------------------------
(* Faults *)

\* The process dies; its successor is another consumer of the group.
Crash(p) ==
  /\ faults < MaxFaults /\ faults' = faults + 1
  /\ ~Free(p)
  /\ task' = [task EXCEPT ![p] = [e \in Entries |-> "none"]]
  /\ scan' = [scan EXCEPT ![p] = [e \in Entries |-> 0]]
  /\ copied' = [copied EXCEPT ![p] = NoEntry]
  /\ UNCHANGED <<stream, first, cursor, pel, hint, inbox, dlq, effects>>

\* The group is lost with its pending list; the next read gets NOGROUP and
\* _ensure_group_exists creates it at id 0.
GroupRecreated ==
  /\ faults < MaxFaults /\ faults' = faults + 1
  /\ cursor' = 0
  /\ pel' = [e \in Entries |-> 0]
  /\ UNCHANGED <<stream, first, task, scan, copied, hint, inbox, dlq, effects>>

\* DEFAULT_OUTBOX_DEDUP_TTL_S ran out, or Redis lost the key.
HintExpire(m) ==
  /\ HintExpires
  /\ m \in hint
  /\ hint' = hint \ {m}
  /\ UNCHANGED <<stream, first, cursor, pel, task, scan, copied, inbox, dlq, effects,
                 faults>>

Dispatch(p, e) ==
  SetHint(p, e) \/ CheckInbox(p, e) \/ RunHandler(p, e) \/ MarkProcessed(p, e) \/ Ack(p, e)

Next ==
  \/ \E m \in Msgs : Add(m) \/ HintExpire(m)
  \/ \E p \in Replicas :
       \/ Read(p) \/ Claim(p) \/ ClaimFails(p) \/ Crash(p)
       \/ \E idle \in SUBSET Entries : Scan(p, idle)
       \/ \E e \in Entries :
            \/ Dispatch(p, e) \/ TaskFails(p, e)
            \/ CopyPoison(p, e) \/ AckPoison(p, e) \/ DeadLetterFails(p, e)
  \/ GroupRecreated

\* The loop of every replica keeps reading and, every twelfth turn,
\* recovering; every await ends with an answer, an error or a timeout; an
\* entry that stays pending is found idle by some pass.
Fairness ==
  /\ \A p \in Replicas :
       /\ WF_vars(Read(p))
       /\ WF_vars(Claim(p))
       /\ WF_vars(\E e \in Entries : CopyPoison(p, e) \/ AckPoison(p, e))
       /\ \A e \in Entries : WF_vars(Dispatch(p, e) \/ TaskFails(p, e))
  /\ \A e \in Entries :
       WF_vars(\E p \in Replicas, idle \in SUBSET Entries : e \in idle /\ Scan(p, idle))

SafeSpec == Init /\ [][Next]_vars
Spec == SafeSpec /\ Fairness

----------------------------------------------------------------------------
(* Properties *)

\* Every variable has its type.
TypeOK ==
  /\ stream \in Seq(Msgs) /\ Len(stream) <= MaxEntries
  /\ first \in 1..MaxEntries + 1 /\ cursor \in 0..MaxEntries
  /\ pel \in [Entries -> Nat]
  /\ task \in [Replicas -> [Entries -> TaskStates]]
  /\ scan \in [Replicas -> [Entries -> Nat]]
  /\ copied \in [Replicas -> Entries \cup {NoEntry}]
  /\ hint \subseteq Msgs /\ inbox \subseteq Msgs /\ dlq \subseteq Msgs
  /\ effects \in [Msgs -> Nat]
  /\ faults \in Nat

Added(e) == e \in 1..Len(stream)

\* The group has no claim on the entry any more.
Settled(e) == e <= cursor /\ pel[e] = 0

\* "Failure direction is keep, never drop": an entry the group is done with,
\* and that MAXLEN did not remove, has its mark committed or is dead-lettered.
NoSilentDrop ==
  \A e \in Entries :
    Added(e) /\ Settled(e) /\ ~Trimmed(e) => stream[e] \in inbox \cup dlq

\* A committed mark proves completed work: the handler's effect committed
\* before it or with it.
InboxMeansEffect == \A m \in inbox : effects[m] > 0

\* With the inbox_tx hook a message takes effect once, however often its
\* entries are delivered and by however many replicas at the same time.
EffectOnce == HookAware => \A m \in Msgs : effects[m] <= 1

\* Passes that work from an old XPENDING answer deliver an entry past its
\* budget, at most once per replica.
DeliveriesBounded ==
  \A e \in Entries : pel[e] <= MaxDeliveries + Cardinality(Replicas)

\* While the group lives, an entry it is done with is not delivered again.
SettledIsFinal ==
  [][\A e \in Entries : Settled(e) /\ faults' = faults => Settled(e)']_vars

\* Every entry is finally acknowledged: handled, or dead-lettered once its
\* delivery budget is used, with crashing replicas and failing handlers.
EventuallySettled == \A e \in Entries : Added(e) ~> Settled(e)

Outcome(m) ==
  CASE m \in inbox -> "delivered"
    [] m \in dlq \ inbox -> "dead"
    [] m \notin inbox \cup dlq /\ \E e \in 1..Len(stream) : stream[e] = m -> "open"
    [] OTHER -> "absent"

Contract == INSTANCE AtLeastOnce WITH
  Events <- Msgs,
  outcome <- [m \in Msgs |-> Outcome(m)],
  effects <- effects

\* The consumer group implements the at-least-once contract: delivered means
\* the handler's effect committed, and stays so; with its liveness under
\* Fairness while no entry is trimmed.
ImplementsSafeContract == Contract!SafeSpec
ImplementsContract == Contract!Spec
============================================================================
