--------------------------- MODULE DocumentIngest ---------------------------
(***************************************************************************)
(* The life of a document: the client operations that announce or remove   *)
(* it, the document workers that ingest it from at-least-once events, and  *)
(* the recovery sweep that replays what got stuck.                         *)
(*                                                                         *)
(* Every database transaction is one step, every operation a sequence of   *)
(* them with a program counter: what one transaction read may be stale     *)
(* when the next one writes.  A worker reads the source, updates the       *)
(* document row, reads the stored chunks, stores the difference in one     *)
(* transaction, and flips the state from what is then stored.              *)
(*                                                                         *)
(* A content is the sequence of its (enriched) chunk texts and stands for  *)
(* its own hash.  Chunk rows are counted per index and text; their ids are *)
(* time-ordered and not unique per index.  Parsing, chunking, embedding,   *)
(* the stats index, caches and metrics are left out, and two transactions  *)
(* of one kind are taken to serialise.                                     *)
(***************************************************************************)
EXTENDS Integers, Sequences

CONSTANTS
  Docs,
  Workers,        \* tasks that run handle_document_uploaded
  Events,         \* document.uploaded.v1 events, as numbers
  ClientEvents,   \* the events clients announce; the others are replays
  Texts,          \* chunk texts
  Contents,       \* contents a source may have: sequences of Texts
  MaxChunks,      \* chunks of the longest content
  NoContent,      \* raw_content is NULL
  Pending,        \* the content_hash of a document no worker has read yet
  Operations,     \* client operations of a behaviour
  Refetchable,    \* whether sources have an http URL
  EditsAnytime,   \* whether a source may change while it is being ingested
  MaxDeliveries,  \* deliveries of an event before the bus gives it up
  MaxFaults,      \* bound: failures and crashes of workers
  MaxAborts       \* bound: crashes of clients between two transactions

NoText == "no text"
NoEvent == 0
NoDoc == "no document"

ASSUME IngestAssumption ==
  /\ Events \subseteq Nat \ {0} /\ ClientEvents \subseteq Events
  /\ MaxChunks \in Nat /\ \A c \in Contents : c \in Seq(Texts) /\ Len(c) <= MaxChunks
  /\ NoText \notin Texts
  /\ NoContent \notin Contents /\ Pending \notin Contents /\ NoContent # Pending
  /\ Operations \subseteq {"upload", "post", "rechunk", "delete", "purge"}
  /\ Refetchable \in BOOLEAN /\ EditsAnytime \in BOOLEAN
  /\ MaxDeliveries \in Nat /\ MaxFaults \in Nat /\ MaxAborts \in Nat

VARIABLES
  source,  \* what each document's source holds now
  doc,     \* the documents table
  rows,    \* document_chunks: copies per document, index and text
  event,   \* per event: delivery, job row and what was announced for it
  recent,  \* events whose outbox row keeps the sweep off their document
  found,   \* documents the running sweep has still to replay
  worker,  \* per worker: where it is in the handler, and what it has read
  client,  \* the client operation under way
  faults,  \* failures and crashes of workers so far
  aborts   \* crashes of clients so far

vars == <<source, doc, rows, event, recent, found, worker, client, faults, aborts>>

Indexes == 1 .. MaxChunks

NoRows == [i \in Indexes |-> [t \in Texts |-> 0]]

\* The rows of a content freshly ingested, one per chunk.
RowsOf(content) ==
  [i \in Indexes |-> [t \in Texts |->
     IF i <= Len(content) /\ content[i] = t THEN 1 ELSE 0]]

IdleWorker == [pc |-> "idle", event |-> NoEvent, content |-> NoContent,
               existing |-> [i \in Indexes |-> NoText], outcome |-> "done"]

IdleClient == [pc |-> "idle", doc |-> NoDoc, state |-> "none", hash |-> NoContent]

Init ==
  /\ source \in [Docs -> Contents]
  /\ doc = [d \in Docs |-> [state |-> "none", deleted |-> FALSE, raw |-> NoContent,
                            hash |-> NoContent, processed |-> FALSE]]
  /\ rows = [d \in Docs |-> NoRows]
  /\ event = [e \in Events |-> [status |-> "absent", doc |-> NoDoc, deliveries |-> 0,
                                job |-> "none", announced |-> {}]]
  /\ recent = {} /\ found = {}
  /\ worker = [w \in Workers |-> IdleWorker]
  /\ client = IdleClient
  /\ faults = 0 /\ aborts = 0

Live(d) == doc[d].state # "none" /\ ~doc[d].deleted

\* uq_documents_bot_content_hash: unique among the live documents of a bot.
Conflict(d, hash) == \E c \in Docs \ {d} : Live(c) /\ doc[c].hash = hash

\* save writes the row of d with the hash of its entity; deleted_at is not a
\* field of the entity, so the index counts the row as live as it is now.
SaveRefused(d, hash) == ~doc[d].deleted /\ Conflict(d, hash)

EventsOf(d) == {e \in Events : event[e].doc = d}

Doc(w) == event[worker[w].event].doc

Busy == client.pc # "idle" \/ \E w \in Workers : worker[w].pc # "idle"

\* The tenant edits the source.
Edit(d) ==
  /\ EditsAnytime \/ ~Busy
  /\ \E c \in Contents \ {source[d]} : source' = [source EXCEPT ![d] = c]
  /\ UNCHANGED <<doc, rows, event, recent, worker, client, faults, aborts, found>>

----------------------------------------------------------------------------
(* Clients *)

\* The outbox row of an operation's event is committed.
Announce(d, e, job) ==
  event' = [event EXCEPT ![e].status = "pending", ![e].doc = d, ![e].job = job]

Unused(pool) == {e \in pool : event[e].status = "absent"}

IsNext(e, pool) == e \in Unused(pool) /\ \A f \in Unused(pool) : e <= f

\* IngestDocumentUseCase, first transaction: a new row, or the surviving one
\* reactivated in place.  deleted_at and raw_content stay as they are.  The
\* unique index may refuse the placeholder hash, and the request ends.
UploadSave(d) ==
  /\ "upload" \in Operations /\ client.pc = "idle"
  /\ Unused(ClientEvents) # {}
  /\ ~SaveRefused(d, Pending)
  /\ doc' = [doc EXCEPT ![d].state = "DRAFT", ![d].hash = Pending]
  /\ recent' = IF doc' = doc THEN recent ELSE recent \ EventsOf(d)
  /\ client' = [IdleClient EXCEPT !.pc = "job", !.doc = d]
  /\ UNCHANGED <<source, rows, event, worker, faults, aborts, found>>

\* RechunkDocumentUseCase, first transaction: the chunks are wiped, whatever
\* the state of the document.
RechunkWipe(d) ==
  /\ "rechunk" \in Operations /\ client.pc = "idle"
  /\ Unused(ClientEvents) # {}
  /\ doc[d].state # "none"
  /\ rows' = [rows EXCEPT ![d] = NoRows]
  /\ client' = [IdleClient EXCEPT !.pc = "job", !.doc = d]
  /\ UNCHANGED <<source, doc, event, recent, worker, faults, aborts, found>>

\* JobRepository.create commits on its own.
CreateJob ==
  /\ client.pc = "job"
  /\ client' = [client EXCEPT !.pc = "commit"]
  /\ UNCHANGED <<source, doc, rows, event, recent, worker, faults, aborts, found>>

\* The event's created_at is the begin of the operation's transaction, the
\* document's updated_at that of its last writer's: either may be the older.
CommitEvent(e) ==
  /\ client.pc = "commit" /\ IsNext(e, ClientEvents)
  /\ Announce(client.doc, e, "queued")
  /\ recent' \in {recent, recent \cup {e}}
  /\ client' = IdleClient
  /\ UNCHANGED <<source, doc, rows, worker, faults, aborts, found>>

\* The upload route: document with its content and event in one transaction,
\* no job row.  Its event is as old as the document, so it is not "recent".
\* A document is posted once: that the route replaces the soft-deleted row of
\* a name posted again by a new one is left out.
Post(d, e) ==
  /\ "post" \in Operations /\ IsNext(e, ClientEvents)
  /\ doc[d].state = "none" /\ ~Conflict(d, source[d])
  /\ doc' = [doc EXCEPT ![d].state = "DRAFT", ![d].raw = source[d], ![d].hash = source[d]]
  /\ event' = [event EXCEPT ![e].status = "pending", ![e].doc = d]
  /\ UNCHANGED <<source, rows, recent, worker, client, faults, aborts, found>>

\* DeleteDocumentUseCase: read the document ...
DeleteRead(d) ==
  /\ "delete" \in Operations /\ client.pc = "idle"
  /\ doc[d].state # "none"
  /\ client' = [IdleClient EXCEPT !.pc = "wipe", !.doc = d,
                  !.state = doc[d].state, !.hash = doc[d].hash]
  /\ UNCHANGED <<source, doc, rows, event, recent, worker, faults, aborts, found>>

\* ... delete its chunks ...
DeleteWipe ==
  /\ client.pc = "wipe"
  /\ rows' = [rows EXCEPT ![client.doc] = NoRows]
  /\ client' = [client EXCEPT !.pc = "archive"]
  /\ UNCHANGED <<source, doc, event, recent, worker, faults, aborts, found>>

\* ... and save what was read as ARCHIVED, if that state may be archived and
\* the index takes the hash read; deleted_at is not touched.
DeleteArchive ==
  LET d == client.doc
      saved == /\ client.state \in {"active", "DRAFT"}
               /\ ~SaveRefused(d, client.hash)
  IN
  /\ client.pc = "archive"
  /\ doc' = IF saved
            THEN [doc EXCEPT ![d].state = "ARCHIVED", ![d].hash = client.hash]
            ELSE doc
  /\ recent' = IF saved THEN recent \ EventsOf(d) ELSE recent
  /\ client' = IdleClient
  /\ UNCHANGED <<source, rows, event, worker, faults, aborts, found>>

\* DocumentService.delete_document: one transaction.
Purge(d) ==
  /\ "purge" \in Operations /\ client.pc = "idle" /\ doc[d].state # "none"
  /\ rows' = [rows EXCEPT ![d] = NoRows]
  /\ doc' = [doc EXCEPT ![d].deleted = TRUE]
  /\ UNCHANGED <<source, event, recent, worker, client, faults, aborts, found>>

\* The request dies between two transactions, or one of them fails.
ClientAborts ==
  /\ client.pc # "idle"
  /\ aborts < MaxAborts /\ aborts' = aborts + 1
  /\ client' = IdleClient
  /\ UNCHANGED <<source, doc, rows, event, recent, worker, faults, found>>

Client ==
  \/ \E d \in Docs :
       \/ UploadSave(d) \/ RechunkWipe(d) \/ DeleteRead(d) \/ Purge(d)
       \/ \E e \in Events : Post(d, e)
  \/ CreateJob \/ DeleteWipe \/ DeleteArchive \/ ClientAborts
  \/ \E e \in Events : CommitEvent(e)

----------------------------------------------------------------------------
(* handle_document_uploaded *)

Goto(w, pc) == worker' = [worker EXCEPT ![w].pc = pc]

\* update_status of the event's job; a replay has a job id but no row.
SetJob(e, status) ==
  event' = [event EXCEPT ![e].job = IF @ = "none" THEN "none" ELSE status]

\* The bus delivers an event, again if it is still pending; the job runs.
Deliver(w, e) ==
  /\ worker[w].pc = "idle"
  /\ event[e].status = "pending" /\ event[e].deliveries < MaxDeliveries
  /\ event' = [event EXCEPT ![e].deliveries = @ + 1,
                            ![e].job = IF @ = "none" THEN "none" ELSE "running"]
  /\ worker' = [worker EXCEPT ![w] = [IdleWorker EXCEPT !.pc = "read", !.event = e]]
  /\ UNCHANGED <<source, doc, rows, recent, client, faults, aborts, found>>

\* A URL is fetched again; what has none must be in raw_content.
Available(d) ==
  IF Refetchable THEN source[d]
  ELSE IF doc[d].deleted THEN NoContent ELSE doc[d].raw

ReadSource(w) ==
  /\ worker[w].pc = "read"
  /\ worker' = [worker EXCEPT ![w] =
       IF Available(Doc(w)) = NoContent
       THEN [@ EXCEPT !.pc = "fail", !.outcome = "rejected"]
       ELSE [@ EXCEPT !.pc = "update", !.content = Available(Doc(w))]]
  /\ UNCHANGED <<source, doc, rows, event, recent, client, faults, aborts, found>>

\* The UPDATE of the document row; content of another live document is
\* refused by the index, which is a terminal failure.
UpdateRow(w) ==
  LET d == Doc(w)
      content == worker[w].content
  IN
  /\ worker[w].pc = "update"
  /\ IF ~doc[d].deleted /\ Conflict(d, content)
     THEN /\ worker' = [worker EXCEPT ![w].pc = "fail", ![w].outcome = "rejected"]
          /\ UNCHANGED doc
     ELSE /\ Goto(w, "chunk")
          /\ doc' = [doc EXCEPT ![d].raw = content, ![d].hash = content]
  /\ UNCHANGED <<source, rows, event, recent, client, faults, aborts, found>>

\* What SELECT chunk_index, content_hash leaves in a dict: of several rows
\* with one index, the last.
Readings(d) ==
  {f \in [Indexes -> Texts \cup {NoText}] :
     \A i \in Indexes :
       IF f[i] = NoText THEN \A t \in Texts : rows[d][i][t] = 0
                        ELSE rows[d][i][f[i]] > 0}

\* Chunked, chunks_processed reset, and the stored hashes read.
ReadExisting(w) ==
  /\ worker[w].pc = "chunk"
  /\ \E f \in Readings(Doc(w)) :
       worker' = [worker EXCEPT ![w].pc = "store", ![w].existing = f]
  /\ doc' = [doc EXCEPT ![Doc(w)].processed = FALSE]
  /\ UNCHANGED <<source, rows, event, recent, client, faults, aborts, found>>

ToEmbed(w) ==
  {i \in 1 .. Len(worker[w].content) : worker[w].existing[i] # worker[w].content[i]}

\* Mutants of the difference: an old index just past the end is kept; changed
\* chunks are inserted beside the old ones.
DroppedOffByOne(w) ==
  LET existing == worker[w].existing
      stale == \E i \in Indexes : i > Len(worker[w].content) + 1 /\ existing[i] # NoText
  IN {i \in Indexes : IF i > Len(worker[w].content) THEN stale
                      ELSE i \in ToEmbed(w) /\ existing[i] # NoText}

DroppedStaleOnly(w) ==
  {i \in Indexes : i > Len(worker[w].content) /\ worker[w].existing[i] # NoText}

\* Stale indexes all go if any was read; changed ones are deleted.
Dropped(w) ==
  LET existing == worker[w].existing
      stale == \E i \in Indexes : i > Len(worker[w].content) /\ existing[i] # NoText
  IN {i \in Indexes : IF i > Len(worker[w].content) THEN stale
                      ELSE i \in ToEmbed(w) /\ existing[i] # NoText}

\* The chunk transaction: delete, then insert what was embedded.
Store(w) ==
  /\ worker[w].pc = "store"
  /\ rows' = [rows EXCEPT ![Doc(w)] =
       [i \in Indexes |-> [t \in Texts |->
          (IF i \in Dropped(w) THEN 0 ELSE @[i][t])
          + (IF i \in ToEmbed(w) /\ worker[w].content[i] = t THEN 1 ELSE 0)]]]
  /\ Goto(w, "finalize")
  /\ UNCHANGED <<source, doc, event, recent, client, faults, aborts, found>>

\* The embedder fails, or returns too few vectors: the document is failed
\* and soft-deleted, and the error is a transient one.
EmbedFails(w) ==
  /\ worker[w].pc = "store" /\ ToEmbed(w) # {}
  /\ faults < MaxFaults /\ faults' = faults + 1
  /\ doc' = [doc EXCEPT ![Doc(w)].state = "failed", ![Doc(w)].deleted = TRUE]
  /\ worker' = [worker EXCEPT ![w].pc = "fail", ![w].outcome = "retry"]
  /\ UNCHANGED <<source, rows, event, recent, client, aborts, found>>

\* Mutant: a soft-deleted document comes back beside the one that took over.
FinalizeUnchecked(w) ==
  LET d == Doc(w)
      stored == rows[d] # NoRows
  IN
  /\ worker[w].pc = "finalize"
  /\ doc' = [doc EXCEPT ![d].state = IF stored THEN "active" ELSE "failed",
                        ![d].deleted = @ /\ ~stored,
                        ![d].processed = stored]
  /\ recent' = recent \ EventsOf(d)
  /\ Goto(w, "publish")
  /\ UNCHANGED <<source, rows, event, client, faults, aborts, found>>

\* The state flip, from the rows now stored; "active" clears a soft delete,
\* unless the index refuses the document back.
Finalize(w) ==
  LET d == Doc(w)
      stored == rows[d] # NoRows
  IN
  /\ worker[w].pc = "finalize"
  /\ ~(stored /\ doc[d].deleted /\ Conflict(d, doc[d].hash))
  /\ doc' = [doc EXCEPT ![d].state = IF stored THEN "active" ELSE "failed",
                        ![d].deleted = @ /\ ~stored,
                        ![d].processed = stored]
  /\ recent' = recent \ EventsOf(d)
  /\ Goto(w, "publish")
  /\ UNCHANGED <<source, rows, event, client, faults, aborts, found>>

\* The flip is best-effort: its failure is logged and the handler goes on.
FlipFails(w) ==
  LET d == Doc(w) IN
  /\ worker[w].pc = "finalize"
  /\ \/ /\ rows[d] # NoRows /\ doc[d].deleted /\ Conflict(d, doc[d].hash)
        /\ UNCHANGED faults
     \/ faults < MaxFaults /\ faults' = faults + 1
  /\ Goto(w, "publish")
  /\ UNCHANGED <<source, doc, rows, event, recent, client, aborts, found>>

\* DocumentIngested is committed to the outbox, whatever the state became.
PublishIngested(w) ==
  /\ worker[w].pc = "publish"
  /\ event' = [event EXCEPT ![worker[w].event].announced = @ \cup {"ingested"}]
  /\ Goto(w, "succeed")
  /\ UNCHANGED <<source, doc, rows, recent, client, faults, aborts, found>>

JobSucceeds(w) ==
  /\ worker[w].pc = "succeed"
  /\ SetJob(worker[w].event, "success")
  /\ Goto(w, "ack")
  /\ UNCHANGED <<source, doc, rows, recent, client, faults, aborts, found>>

\* Any await inside the handler's try raises: a transient error, to be
\* delivered again, or a terminal one.
Fails(w) ==
  /\ worker[w].pc \in {"read", "update", "chunk", "store", "finalize", "publish", "succeed"}
  /\ faults < MaxFaults /\ faults' = faults + 1
  /\ \E outcome \in {"retry", "rejected"} :
       worker' = [worker EXCEPT ![w].pc = "fail", ![w].outcome = outcome]
  /\ UNCHANGED <<source, doc, rows, event, recent, client, aborts, found>>

\* Mutant: the handler ends once the job is marked.
JobFailsQuietly(w) ==
  /\ worker[w].pc = "fail"
  /\ SetJob(worker[w].event, "failed")
  /\ Goto(w, "ack")
  /\ UNCHANGED <<source, doc, rows, recent, client, faults, aborts, found>>

JobFails(w) ==
  /\ worker[w].pc = "fail"
  /\ SetJob(worker[w].event, "failed")
  /\ Goto(w, "announce")
  /\ UNCHANGED <<source, doc, rows, recent, client, faults, aborts, found>>

\* Mutant: a transient error is swallowed like a terminal one.
PublishFailedSwallowed(w) ==
  /\ worker[w].pc = "announce"
  /\ event' = [event EXCEPT ![worker[w].event].announced = @ \cup {"failed"}]
  /\ Goto(w, "ack")
  /\ UNCHANGED <<source, doc, rows, recent, client, faults, aborts, found>>

\* DocumentFailed is committed to the outbox at every failing delivery; a
\* transient error is raised again, so the event stays pending.
PublishFailed(w) ==
  /\ worker[w].pc = "announce"
  /\ event' = [event EXCEPT ![worker[w].event].announced = @ \cup {"failed"}]
  /\ worker' = [worker EXCEPT ![w] =
       IF @.outcome = "retry" THEN IdleWorker ELSE [@ EXCEPT !.pc = "ack"]]
  /\ UNCHANGED <<source, doc, rows, recent, client, faults, aborts, found>>

\* The handler returned: the bus acknowledges the event.
Acknowledge(w) ==
  /\ worker[w].pc = "ack"
  /\ event' = [event EXCEPT ![worker[w].event].status =
                 IF @ = "pending" THEN worker[w].outcome ELSE @]
  /\ worker' = [worker EXCEPT ![w] = IdleWorker]
  /\ UNCHANGED <<source, doc, rows, recent, client, faults, aborts, found>>

\* The worker dies, or recording a failure fails: the event stays pending.
Interrupt(w) ==
  /\ worker[w].pc # "idle"
  /\ faults < MaxFaults /\ faults' = faults + 1
  /\ worker' = [worker EXCEPT ![w] = IdleWorker]
  /\ UNCHANGED <<source, doc, rows, event, recent, client, aborts, found>>

\* The bus gives an event up after its last delivery went idle.
DeadLetter(e) ==
  /\ event[e].status = "pending" /\ event[e].deliveries = MaxDeliveries
  /\ event' = [event EXCEPT ![e].status = "dead"]
  /\ UNCHANGED <<source, doc, rows, recent, worker, client, faults, aborts, found>>

----------------------------------------------------------------------------
(* The recovery sweep *)

Stuck(d) ==
  /\ Live(d)
  /\ \/ doc[d].state = "DRAFT"
     \/ doc[d].state = "active" /\ ~doc[d].processed /\ rows[d] = NoRows

\* Mutant: any earlier event, however old, keeps the sweep off the document.
SweepableOnce(d) == Stuck(d) /\ EventsOf(d) = {}

\* A stuck document is replayed unless a recent event announced it.  Any
\* document may be found older than the stuck threshold.
Sweepable(d) == Stuck(d) /\ recent \cap EventsOf(d) = {}

\* The scan of one sweep; its rows are replayed one after the other.
SweepScan ==
  /\ found = {}
  /\ found' = {d \in Docs : Sweepable(d)} /\ found' # {}
  /\ UNCHANGED <<source, doc, rows, event, recent, worker, client, faults, aborts>>

\* A fresh event for a document found, without another look at it.
Replay(d, e) ==
  /\ d \in found /\ IsNext(e, Events \ ClientEvents)
  /\ Announce(d, e, "none")
  /\ recent' = recent \cup {e}
  /\ found' = found \ {d}
  /\ UNCHANGED <<source, doc, rows, worker, client, faults, aborts>>

ReplayFails(d) ==
  /\ d \in found
  /\ faults < MaxFaults /\ faults' = faults + 1
  /\ found' = found \ {d}
  /\ UNCHANGED <<source, doc, rows, event, recent, worker, client, aborts>>

\* DEFAULT_RECOVERY_REPLAY_COOLDOWN_S passed since the event was written.
CooldownPasses(e) ==
  /\ e \in recent
  /\ recent' = recent \ {e}
  /\ UNCHANGED <<source, doc, rows, event, worker, client, faults, aborts, found>>

----------------------------------------------------------------------------

Step(w) ==
  \/ ReadSource(w) \/ UpdateRow(w) \/ ReadExisting(w) \/ Store(w) \/ Finalize(w)
  \/ PublishIngested(w) \/ JobSucceeds(w) \/ JobFails(w) \/ PublishFailed(w)
  \/ Acknowledge(w) \/ FlipFails(w)

Next ==
  \/ Client
  \/ \E d \in Docs : Edit(d) \/ ReplayFails(d) \/ \E e \in Events : Replay(d, e)
  \/ SweepScan
  \/ \E w \in Workers :
       \/ Step(w) \/ EmbedFails(w) \/ Fails(w) \/ Interrupt(w)
       \/ \E e \in Events : Deliver(w, e)
  \/ \E e \in Events : DeadLetter(e) \/ CooldownPasses(e)

\* The bus delivers what is pending, every await of a handler ends, the sweep
\* runs every DEFAULT_RECOVERY_INTERVAL_S and time passes.
Fairness ==
  /\ \A w \in Workers : WF_vars(Step(w))
  /\ \A e \in Events :
       /\ WF_vars(\E w \in Workers : Deliver(w, e))
       /\ WF_vars(CooldownPasses(e))
  /\ WF_vars(SweepScan)
  /\ \A d \in Docs : WF_vars(\E e \in Events : Replay(d, e))

SafeSpec == Init /\ [][Next]_vars
Spec == SafeSpec /\ Fairness

----------------------------------------------------------------------------
(* Properties *)

States == {"none", "DRAFT", "active", "failed", "ARCHIVED"}
Hashes == Contents \cup {NoContent, Pending}

DocRecord == [state : States, deleted : BOOLEAN, raw : Contents \cup {NoContent},
              hash : Hashes, processed : BOOLEAN]

Outcomes == SUBSET {"ingested", "failed"}

EventRecord == [status : {"absent", "pending", "done", "rejected", "dead"},
                doc : Docs \cup {NoDoc}, deliveries : Nat,
                job : {"none", "queued", "running", "success", "failed"},
                announced : Outcomes]

WorkerRecord == [pc : {"idle", "read", "update", "chunk", "store", "finalize", "publish",
                       "succeed", "fail", "announce", "ack"},
                 event : Events \cup {NoEvent}, content : Contents \cup {NoContent},
                 existing : [Indexes -> Texts \cup {NoText}],
                 outcome : {"done", "retry", "rejected"}]

ClientRecord == [pc : {"idle", "job", "commit", "wipe", "archive"},
                 doc : Docs \cup {NoDoc}, state : States, hash : Hashes]

\* Every variable has its type.
TypeOK ==
  /\ source \in [Docs -> Contents]
  /\ doc \in [Docs -> DocRecord]
  /\ rows \in [Docs -> [Indexes -> [Texts -> Nat]]]
  /\ event \in [Events -> EventRecord]
  /\ recent \subseteq Events /\ found \subseteq Docs
  /\ worker \in [Workers -> WorkerRecord]
  /\ client \in ClientRecord
  /\ faults \in Nat /\ aborts \in Nat

\* The rows a worker has read are still the rows, one per index.
AsRead(w) ==
  \A i \in Indexes, t \in Texts :
    rows[Doc(w)][i][t] = IF worker[w].existing[i] = t THEN 1 ELSE 0

\* The difference is exact: from whatever a crashed, failed or older ingest
\* left in the table, storing it leaves the rows of the content read, one per
\* chunk and nothing stale.
StoreIsExact ==
  [][\A w \in Workers :
       worker[w].pc = "store" /\ worker'[w].pc = "finalize" /\ AsRead(w)
         => rows'[Doc(w)] = RowsOf(worker[w].content)]_vars

Holds(d, content) ==
  \A i \in Indexes, t \in Texts :
    rows[d][i][t] > 0 <=> i <= Len(content) /\ content[i] = t

Quiescent ==
  /\ ~Busy
  /\ \A e \in Events : event[e].status \in {"absent", "done"}

\* Deliveries of one document may overlap each other and a rechunk that wipes
\* its chunks under them: once every event is handled, an active document has
\* a row for every chunk of its content and for nothing else.  (Rows may be
\* doubled; the source stays as it is while anyone is at work.)
QuiescentIsComplete ==
  Quiescent =>
    \A d \in Docs : doc[d].state = "active" => Holds(d, doc[d].raw)

\* Whatever fails on the way, the bus is told an event is finished only after
\* its outcome was announced.
SettledIsAnnounced ==
  \A e \in Events :
    /\ event[e].status = "done" => "ingested" \in event[e].announced
    /\ event[e].status = "rejected" => "failed" \in event[e].announced

Serving(d) == Live(d) /\ doc[d].state = "active"

\* A content is not served twice: of two active documents that hold the same
\* content one was uploaded again while a worker was at it, which replaced its
\* hash by the placeholder.  Neither a soft-deleted document that an ingest
\* brings back, nor an archive that saves a hash read two transactions ago,
\* nor an ingest overtaken by another document's adds a second copy.  (A
\* delete beside the ingest of an edited source may save the hash of the older
\* content; that is why sources are fixed where documents are deleted.)
TwinsWereReuploaded ==
  "delete" \notin Operations \/ (\A a, b \in Contents : a = b) =>
    \A c, d \in Docs :
      c # d /\ Serving(c) /\ Serving(d) /\ doc[c].raw = doc[d].raw
        => Pending \in {doc[c].hash, doc[d].hash}

Draft(d) == Live(d) /\ doc[d].state = "DRAFT"

\* A document does not stay in DRAFT: an event that was never committed, or
\* was spent on failing deliveries, is replaced by the sweep until one gets
\* through (or the replays of this instance are used up).
DraftIsRecovered ==
  \A d \in Docs : Draft(d) ~> (~Draft(d) \/ Unused(Events \ ClientEvents) = {})
============================================================================
