------------------------ MODULE DocumentIngest_proofs ------------------------
(***************************************************************************)
(* What holds of the ingest for every number of documents, workers, events *)
(* and chunks: its types, that an event is finished only after its outcome *)
(* was announced, that the stored difference is exact, and that overlapping*)
(* deliveries, rechunks and failures end in complete documents.            *)
(***************************************************************************)
EXTENDS DocumentIngest, TLAPS

\* An event that was announced names a document.
EventHasDoc == \A e \in Events : event[e].status # "absent" => event[e].doc \in Docs

\* What a worker at each point of the handler has in hand, has announced, and
\* that its outcome changes only when it fails.
WorkerFits(r, table) ==
  LET announced == table[r.event].announced IN
  /\ r.pc # "idle" => r.event \in Events /\ table[r.event].status # "absent"
  /\ r.pc \in {"update", "chunk", "store", "finalize"} => r.content \in Contents
  /\ r.pc \notin {"fail", "announce", "ack"} => r.outcome = "done"
  /\ r.pc = "succeed" => "ingested" \in announced
  /\ r.pc \in {"fail", "announce"} => r.outcome \in {"retry", "rejected"}
  /\ r.pc = "ack" => \/ r.outcome = "done" /\ "ingested" \in announced
                     \/ r.outcome = "rejected" /\ "failed" \in announced

WorkersFit == \A w \in Workers : WorkerFits(worker[w], event)

ClientHasDoc == client.pc # "idle" => client.doc \in Docs

\* The inductive invariant.
IngestInv ==
  /\ TypeOK /\ EventHasDoc /\ WorkersFit /\ ClientHasDoc
  /\ SettledIsAnnounced

\* A step that takes back no event and no announcement leaves every worker it
\* does not move where it fits.
EventsGrow ==
  \A e \in Events : /\ event[e].status # "absent" => event'[e].status # "absent"
                    /\ event[e].announced \subseteq event'[e].announced

\* A worker that does not move still fits the events.
LEMMA OthersFit ==
  ASSUME WorkersFit, EventsGrow, NEW w \in Workers, worker'[w] = worker[w]
  PROVE  WorkerFits(worker'[w], event')
BY DEF WorkersFit, WorkerFits, EventsGrow

\* Empty tables and idle workers satisfy the invariant.
LEMMA IngestInit == Init => IngestInv
<1> SUFFICES ASSUME Init PROVE IngestInv
  OBVIOUS
<1> USE IngestAssumption
<1>1. TypeOK
  BY DEF Init, TypeOK, IdleWorker, IdleClient, NoRows, States, Hashes, DocRecord, EventRecord,
         WorkerRecord, ClientRecord, Outcomes
<1>2. EventHasDoc /\ WorkersFit /\ ClientHasDoc /\ SettledIsAnnounced
  BY DEF Init, EventHasDoc, WorkersFit, WorkerFits, ClientHasDoc, SettledIsAnnounced,
         IdleWorker, IdleClient
<1> QED
  BY <1>1, <1>2 DEF IngestInv

\* The tables keep their types when an operation sets some of their columns.
LEMMA DocColumns ==
  ASSUME TypeOK, NEW d \in Docs
  PROVE  /\ \A s \in States, h \in Hashes :
              [doc EXCEPT ![d].state = s, ![d].hash = h] \in [Docs -> DocRecord]
         /\ \A s \in States, b \in BOOLEAN :
              [doc EXCEPT ![d].state = s, ![d].deleted = b] \in [Docs -> DocRecord]
         /\ \A b \in BOOLEAN : [doc EXCEPT ![d].deleted = b] \in [Docs -> DocRecord]
         /\ \A b \in BOOLEAN : [doc EXCEPT ![d].processed = b] \in [Docs -> DocRecord]
<1>0. doc \in [Docs -> DocRecord] /\ doc[d] \in DocRecord
  BY DEF TypeOK
<1>1. ASSUME NEW s \in States, NEW h \in Hashes
      PROVE  [doc EXCEPT ![d].state = s, ![d].hash = h] \in [Docs -> DocRecord]
  <2>1. [doc[d] EXCEPT !.state = s, !.hash = h] \in DocRecord
    BY <1>0 DEF DocRecord
  <2> QED
    BY <1>0, <2>1
<1>2. ASSUME NEW s \in States, NEW b \in BOOLEAN
      PROVE  [doc EXCEPT ![d].state = s, ![d].deleted = b] \in [Docs -> DocRecord]
  <2>1. [doc[d] EXCEPT !.state = s, !.deleted = b] \in DocRecord
    BY <1>0 DEF DocRecord
  <2> QED
    BY <1>0, <2>1
<1>3. ASSUME NEW b \in BOOLEAN
      PROVE  /\ [doc EXCEPT ![d].deleted = b] \in [Docs -> DocRecord]
             /\ [doc EXCEPT ![d].processed = b] \in [Docs -> DocRecord]
  <2>1. /\ [doc[d] EXCEPT !.deleted = b] \in DocRecord
        /\ [doc[d] EXCEPT !.processed = b] \in DocRecord
    BY <1>0 DEF DocRecord
  <2> QED
    BY <1>0, <2>1
<1> QED
  BY <1>1, <1>2, <1>3

\* A wiped document has a count for every index and text.
LEMMA NoRowsType == NoRows \in [Indexes -> [Texts -> Nat]]
BY DEF NoRows

\* The records of idle workers and of an idle client have their types.
LEMMA IdleTypes == IdleWorker \in WorkerRecord /\ IdleClient \in ClientRecord
BY DEF IdleWorker, IdleClient, WorkerRecord, ClientRecord, States, Hashes

\* The transactions of upload, post, rechunk, delete and purge.
LEMMA ClientKeeps == IngestInv /\ Client => IngestInv'
<1> SUFFICES ASSUME IngestInv, Client PROVE IngestInv'
  OBVIOUS
<1> USE IngestAssumption DEF IngestInv
<1>0. NoRows \in [Indexes -> [Texts -> Nat]] /\ IdleClient \in ClientRecord
  BY NoRowsType, IdleTypes
<1>1. ASSUME NEW d \in Docs, UploadSave(d) PROVE IngestInv'
  <2>1. doc' \in [Docs -> DocRecord]
    BY <1>1, DocColumns DEF UploadSave, States, Hashes
  <2>2. client' \in ClientRecord /\ client'.doc = d
    BY <1>1 DEF UploadSave, IdleClient, ClientRecord, States, Hashes
  <2>3. recent' \subseteq Events
    BY <1>1 DEF UploadSave, TypeOK
  <2> QED
    BY <1>1, <2>1, <2>2, <2>3 DEF UploadSave, TypeOK, EventHasDoc, WorkersFit,
       WorkerFits, ClientHasDoc, SettledIsAnnounced
<1>3. ASSUME NEW d \in Docs, RechunkWipe(d) PROVE IngestInv'
  <2>1. client' \in ClientRecord /\ client'.doc = d
    BY <1>3 DEF RechunkWipe, IdleClient, ClientRecord, States, Hashes
  <2> QED
    BY <1>0, <1>3, <2>1 DEF RechunkWipe, TypeOK, EventHasDoc, WorkersFit,
       WorkerFits, ClientHasDoc, SettledIsAnnounced
<1>4. ASSUME NEW d \in Docs, DeleteRead(d) PROVE IngestInv'
  <2>0. doc[d].state \in States /\ doc[d].hash \in Hashes
    BY DEF TypeOK, DocRecord
  <2>1. client' \in ClientRecord /\ client'.doc = d
    BY <1>4, <2>0 DEF DeleteRead, IdleClient, ClientRecord
  <2> QED
    BY <1>4, <2>1 DEF DeleteRead, TypeOK, EventHasDoc, WorkersFit,
       WorkerFits, ClientHasDoc, SettledIsAnnounced
<1>5. ASSUME NEW d \in Docs, Purge(d) PROVE IngestInv'
  <2>1. doc' \in [Docs -> DocRecord]
    <3>1. TRUE \in BOOLEAN
      OBVIOUS
    <3> QED
      BY <1>5, <3>1, DocColumns DEF Purge
  <2> QED
    BY <1>0, <1>5, <2>1 DEF Purge, TypeOK, EventHasDoc, WorkersFit,
       WorkerFits, ClientHasDoc, SettledIsAnnounced
<1>6. ASSUME NEW d \in Docs, NEW e \in Events, Post(d, e) PROVE IngestInv'
  <2>0. source[d] \in Contents
    BY DEF TypeOK
  <2>1. doc' \in [Docs -> DocRecord]
    <3>1. [doc[d] EXCEPT !.state = "DRAFT", !.raw = source[d], !.hash = source[d]] \in DocRecord
      <4>0. doc[d] \in DocRecord
        BY DEF TypeOK
      <4> QED
        BY <2>0, <4>0 DEF DocRecord, States, Hashes
    <3> QED
      BY <1>6, <3>1 DEF Post, TypeOK
  <2>2. event' \in [Events -> EventRecord]
    <3>0. event[e] \in EventRecord
      BY DEF TypeOK
    <3>1. [event[e] EXCEPT !.status = "pending", !.doc = d] \in EventRecord
      BY <3>0 DEF EventRecord
    <3> QED
      BY <1>6, <3>1 DEF Post, TypeOK
  <2>3. TypeOK'
    BY <1>6, <2>1, <2>2 DEF TypeOK, Post
  <2>4. EventHasDoc' /\ EventsGrow /\ SettledIsAnnounced'
    BY <1>6 DEF TypeOK, EventRecord, EventHasDoc, EventsGrow, SettledIsAnnounced, Post, IsNext,
       Unused
  <2>5. WorkersFit' /\ ClientHasDoc'
    BY <1>6, <2>4, OthersFit DEF WorkersFit, ClientHasDoc, Post
  <2> QED
    BY <2>3, <2>4, <2>5
<1>7. ASSUME CreateJob \/ DeleteWipe \/ ClientAborts PROVE IngestInv'
  <2>0. client \in ClientRecord /\ client.doc \in Docs
    BY <1>7 DEF TypeOK, ClientHasDoc, CreateJob, DeleteWipe, ClientAborts
  <2>1. client' \in ClientRecord /\ (client'.pc # "idle" => client'.doc \in Docs)
    BY <1>0, <1>7, <2>0 DEF CreateJob, DeleteWipe, ClientAborts, ClientRecord, IdleClient
  <2>2. rows' \in [Docs -> [Indexes -> [Texts -> Nat]]]
    BY <1>0, <1>7, <2>0 DEF CreateJob, DeleteWipe, ClientAborts, TypeOK
  <2>3. aborts' \in Nat
    BY <1>7 DEF CreateJob, DeleteWipe, ClientAborts, TypeOK
  <2> QED
    BY <1>7, <2>1, <2>2, <2>3 DEF CreateJob, DeleteWipe, ClientAborts, TypeOK, EventHasDoc,
       WorkersFit, WorkerFits, ClientHasDoc, SettledIsAnnounced
<1>8. ASSUME DeleteArchive PROVE IngestInv'
  <2>0. client.doc \in Docs /\ client.hash \in Hashes
    BY <1>8 DEF TypeOK, ClientHasDoc, ClientRecord, DeleteArchive
  <2>1. doc' \in [Docs -> DocRecord]
    <3>1. [doc EXCEPT ![client.doc].state = "ARCHIVED", ![client.doc].hash = client.hash]
            \in [Docs -> DocRecord]
      BY <2>0, DocColumns DEF States
    <3>2. doc \in [Docs -> DocRecord]
      BY DEF TypeOK
    <3> QED
      BY <1>8, <3>1, <3>2 DEF DeleteArchive
  <2>2. recent' \subseteq Events /\ client' = IdleClient
    BY <1>8 DEF DeleteArchive, TypeOK
  <2> QED
    BY <1>0, <1>8, <2>1, <2>2 DEF DeleteArchive, TypeOK, EventHasDoc, WorkersFit,
       WorkerFits, ClientHasDoc, SettledIsAnnounced, IdleClient
<1>9. ASSUME NEW e \in Events, CommitEvent(e) PROVE IngestInv'
  <2>1. client.doc \in Docs
    BY <1>9 DEF CommitEvent, ClientHasDoc
  <2>2. event' \in [Events -> EventRecord]
    <3>0. event[e] \in EventRecord
      BY DEF TypeOK
    <3>1. [event[e] EXCEPT !.status = "pending", !.doc = client.doc, !.job = "queued"]
            \in EventRecord
      BY <3>0, <2>1 DEF EventRecord
    <3> QED
      BY <1>9, <3>1 DEF TypeOK, CommitEvent, Announce
  <2>3. TypeOK'
    BY <1>0, <1>9, <2>2 DEF TypeOK, CommitEvent, Announce
  <2>4. EventHasDoc' /\ EventsGrow /\ SettledIsAnnounced'
    BY <1>9, <2>1 DEF TypeOK, EventRecord, EventHasDoc, EventsGrow, SettledIsAnnounced,
       CommitEvent, Announce, IsNext, Unused
  <2>5. WorkersFit' /\ ClientHasDoc'
    BY <1>9, <2>4, OthersFit DEF WorkersFit, ClientHasDoc, CommitEvent, IdleClient
  <2> QED
    BY <2>3, <2>4, <2>5
<1> QED
  BY <1>1, <1>3, <1>4, <1>5, <1>6, <1>7, <1>8, <1>9 DEF Client

----------------------------------------------------------------------------

\* A delivery adds to an event, and leaves the document it is of.
EventsSameDoc ==
  \A e \in Events : /\ event'[e].doc = event[e].doc
                    /\ event[e].status = "absent" => event'[e].status = "absent"

\* What is to be shown of a step of one worker.
LEMMA WorkerMoves ==
  ASSUME IngestInv, NEW w \in Workers, NEW r \in WorkerRecord,
         worker' = [worker EXCEPT ![w] = r], WorkerFits(r, event'),
         event' \in [Events -> EventRecord], EventsGrow, EventsSameDoc, SettledIsAnnounced',
         doc' \in [Docs -> DocRecord], rows' \in [Docs -> [Indexes -> [Texts -> Nat]]],
         recent' \subseteq recent, faults' \in Nat, UNCHANGED <<source, client, aborts, found>>
  PROVE  IngestInv'
<1> USE DEF IngestInv
<1>1. worker'[w] = r /\ \A v \in Workers \ {w} : worker'[v] = worker[v]
  BY DEF TypeOK
<1>2. TypeOK'
  BY DEF TypeOK
<1>3. EventHasDoc' /\ ClientHasDoc'
  BY DEF EventHasDoc, EventsSameDoc, EventsGrow, ClientHasDoc
<1>4. WorkersFit'
  <2> SUFFICES ASSUME NEW v \in Workers PROVE WorkerFits(worker'[v], event')
    BY DEF WorkersFit
  <2>1. CASE v = w
    BY <1>1, <2>1
  <2>2. CASE v # w
    BY <1>1, <2>2, OthersFit
  <2> QED
    BY <2>1, <2>2
<1> QED
  BY <1>2, <1>3, <1>4

\* The types of what a busy worker has in hand.
LEMMA BusyTypes ==
  ASSUME IngestInv, NEW w \in Workers
  PROVE  /\ worker[w] \in WorkerRecord /\ WorkerFits(worker[w], event)
         /\ worker[w].pc # "idle" => worker[w].event \in Events /\ Doc(w) \in Docs
BY DEF IngestInv, TypeOK, WorkersFit, WorkerFits, EventHasDoc, Doc

\* The steps that only move the worker.
LEMMA OnlyWorkerMoves ==
  ASSUME IngestInv, NEW w \in Workers, NEW r \in WorkerRecord,
         worker' = [worker EXCEPT ![w] = r], WorkerFits(r, event), faults' \in Nat,
         UNCHANGED <<source, doc, rows, event, recent, client, aborts, found>>
  PROVE  IngestInv'
<1>1. /\ event' \in [Events -> EventRecord] /\ EventsGrow /\ EventsSameDoc
      /\ SettledIsAnnounced' /\ doc' \in [Docs -> DocRecord]
      /\ rows' \in [Docs -> [Indexes -> [Texts -> Nat]]] /\ recent' \subseteq recent
  BY DEF IngestInv, TypeOK, EventsGrow, EventsSameDoc, SettledIsAnnounced
<1>2. WorkerFits(r, event')
  BY DEF WorkerFits
<1> QED
  BY <1>1, <1>2, WorkerMoves

\* The steps that only move the worker and change a document row.
LEMMA WorkerAndDocMove ==
  ASSUME IngestInv, NEW w \in Workers, NEW r \in WorkerRecord,
         worker' = [worker EXCEPT ![w] = r], WorkerFits(r, event), faults' \in Nat,
         doc' \in [Docs -> DocRecord], recent' \subseteq recent,
         UNCHANGED <<source, rows, event, client, aborts, found>>
  PROVE  IngestInv'
<1>1. /\ event' \in [Events -> EventRecord] /\ EventsGrow /\ EventsSameDoc
      /\ SettledIsAnnounced'
      /\ rows' \in [Docs -> [Indexes -> [Texts -> Nat]]]
  BY DEF IngestInv, TypeOK, EventsGrow, EventsSameDoc, SettledIsAnnounced
<1>2. WorkerFits(r, event')
  BY DEF WorkerFits
<1> QED
  BY <1>1, <1>2, WorkerMoves

\* The steps that only read, or only write a document row.
LEMMA ReadsAndUpdatesKeep ==
  ASSUME IngestInv, NEW w \in Workers,
         \/ ReadSource(w) \/ UpdateRow(w) \/ ReadExisting(w) \/ EmbedFails(w)
         \/ Finalize(w) \/ FlipFails(w) \/ Fails(w) \/ Interrupt(w)
  PROVE  IngestInv'
<1> DEFINE d == Doc(w)
<1>0. /\ worker[w] \in WorkerRecord /\ WorkerFits(worker[w], event)
      /\ worker[w].pc # "idle" => worker[w].event \in Events /\ d \in Docs
      /\ faults \in Nat /\ (faults < MaxFaults => faults + 1 \in Nat)
      /\ source \in [Docs -> Contents] /\ doc \in [Docs -> DocRecord]
  BY BusyTypes DEF IngestInv, TypeOK
<1>idle. IdleWorker \in WorkerRecord /\ WorkerFits(IdleWorker, event)
  BY IdleTypes DEF IdleWorker, WorkerFits
<1>1. CASE ReadSource(w)
  <2>1. d \in Docs
    BY <1>0, <1>1 DEF ReadSource
  <2>2. Available(d) \in Contents \cup {NoContent}
    BY <1>0, <2>1 DEF Available, DocRecord
  <2> DEFINE r == IF Available(d) = NoContent
                  THEN [worker[w] EXCEPT !.pc = "fail", !.outcome = "rejected"]
                  ELSE [worker[w] EXCEPT !.pc = "update", !.content = Available(d)]
  <2>3. r \in WorkerRecord
    BY <1>0, <2>2 DEF WorkerRecord
  <2>4. WorkerFits(r, event)
    BY <1>0, <1>1, <2>2 DEF WorkerRecord, WorkerFits, ReadSource
  <2>5. worker' = [worker EXCEPT ![w] = r]
    BY <1>1 DEF ReadSource
  <2> QED
    BY <1>0, <1>1, <2>3, <2>4, <2>5, OnlyWorkerMoves DEF ReadSource
<1>2. CASE UpdateRow(w)
  <2>1. d \in Docs /\ worker[w].content \in Contents
    BY <1>0, <1>2 DEF UpdateRow, WorkerFits
  <2> DEFINE stop == [worker[w] EXCEPT !.pc = "fail", !.outcome = "rejected"]
             go == [worker[w] EXCEPT !.pc = "chunk"]
  <2>2. stop \in WorkerRecord /\ go \in WorkerRecord
    BY <1>0 DEF WorkerRecord
  <2>3. WorkerFits(stop, event) /\ WorkerFits(go, event)
    BY <1>0, <1>2 DEF WorkerRecord, WorkerFits, UpdateRow
  <2>4. [doc[d] EXCEPT !.raw = worker[w].content, !.hash = worker[w].content] \in DocRecord
    BY <1>0, <2>1 DEF DocRecord, Hashes
  <2>5. doc' \in [Docs -> DocRecord]
    BY <1>0, <1>2, <2>1, <2>4 DEF UpdateRow
  <2>6. worker' = [worker EXCEPT ![w] = stop] \/ worker' = [worker EXCEPT ![w] = go]
    BY <1>0, <1>2 DEF UpdateRow, Goto, WorkerRecord, IngestInv, TypeOK
  <2> QED
    BY <1>0, <1>2, <2>2, <2>3, <2>5, <2>6, WorkerAndDocMove DEF UpdateRow
<1>3. CASE ReadExisting(w)
  <2>1. PICK f \in Readings(d) :
          worker' = [worker EXCEPT ![w].pc = "store", ![w].existing = f]
    BY <1>3 DEF ReadExisting
  <2> DEFINE r == [worker[w] EXCEPT !.pc = "store", !.existing = f]
  <2>2. f \in [Indexes -> Texts \cup {NoText}] /\ d \in Docs
    BY <1>0, <1>3, <2>1 DEF Readings, ReadExisting
  <2>3. r \in WorkerRecord
    BY <1>0, <2>2 DEF WorkerRecord
  <2>4. WorkerFits(r, event)
    BY <1>0, <1>3 DEF WorkerRecord, WorkerFits, ReadExisting
  <2>5. worker' = [worker EXCEPT ![w] = r]
    BY <1>0, <2>1 DEF IngestInv, TypeOK
  <2>6. doc' \in [Docs -> DocRecord]
    <3>1. FALSE \in BOOLEAN
      OBVIOUS
    <3> QED
      BY <1>3, <2>2, <3>1, DocColumns DEF ReadExisting, IngestInv
  <2> QED
    BY <1>0, <1>3, <2>3, <2>4, <2>5, <2>6, WorkerAndDocMove DEF ReadExisting
<1>4. CASE EmbedFails(w)
  <2> DEFINE r == [worker[w] EXCEPT !.pc = "fail", !.outcome = "retry"]
  <2>1. d \in Docs
    BY <1>0, <1>4 DEF EmbedFails
  <2>2. r \in WorkerRecord
    BY <1>0 DEF WorkerRecord
  <2>3. WorkerFits(r, event)
    BY <1>0, <1>4 DEF WorkerRecord, WorkerFits, EmbedFails
  <2>4. worker' = [worker EXCEPT ![w] = r]
    BY <1>0, <1>4 DEF EmbedFails, IngestInv, TypeOK
  <2>5. doc' \in [Docs -> DocRecord]
    <3>1. TRUE \in BOOLEAN /\ "failed" \in States
      BY DEF States
    <3> QED
      BY <1>4, <2>1, <3>1, DocColumns DEF EmbedFails, IngestInv
  <2> QED
    BY <1>0, <1>4, <2>2, <2>3, <2>4, <2>5, WorkerAndDocMove DEF EmbedFails
<1>5. CASE Finalize(w) \/ FlipFails(w)
  <2> DEFINE r == [worker[w] EXCEPT !.pc = "publish"]
  <2>1. d \in Docs
    BY <1>0, <1>5 DEF Finalize, FlipFails
  <2>2. r \in WorkerRecord
    BY <1>0 DEF WorkerRecord
  <2>3. WorkerFits(r, event)
    BY <1>0, <1>5 DEF WorkerRecord, WorkerFits, Finalize, FlipFails
  <2>4. worker' = [worker EXCEPT ![w] = r]
    BY <1>0, <1>5 DEF Finalize, FlipFails, Goto, IngestInv, TypeOK
  <2>5. doc' \in [Docs -> DocRecord] /\ recent' \subseteq recent /\ faults' \in Nat
    <3> DEFINE stored == rows[d] # NoRows
               row == [doc[d] EXCEPT !.state = IF stored THEN "active" ELSE "failed",
                                     !.deleted = @ /\ ~stored, !.processed = stored]
    <3>0. doc[d].deleted \in BOOLEAN /\ doc[d] \in DocRecord
      BY <1>0, <2>1 DEF DocRecord
    <3>1. (doc[d].deleted /\ ~stored) \in BOOLEAN /\ stored \in BOOLEAN
      OBVIOUS
    <3>2. (IF stored THEN "active" ELSE "failed") \in States
      BY DEF States
    <3>3. row \in DocRecord
      <4> HIDE DEF stored
      <4> QED
        BY <3>0, <3>1, <3>2 DEF DocRecord
    <3>4. CASE Finalize(w)
      <4>1. doc' = [doc EXCEPT ![d] = row]
        BY <1>0, <2>1, <3>4, Zenon DEF Finalize
      <4> QED
        BY <1>0, <2>1, <3>3, <3>4, <4>1 DEF Finalize
    <3>5. CASE FlipFails(w)
      BY <1>0, <3>5 DEF FlipFails
    <3> QED
      BY <1>5, <3>4, <3>5
  <2> QED
    BY <1>0, <1>5, <2>2, <2>3, <2>4, <2>5, WorkerAndDocMove DEF Finalize, FlipFails
<1>6. CASE Fails(w)
  <2>1. PICK outcome \in {"retry", "rejected"} :
          worker' = [worker EXCEPT ![w].pc = "fail", ![w].outcome = outcome]
    BY <1>6 DEF Fails
  <2> DEFINE r == [worker[w] EXCEPT !.pc = "fail", !.outcome = outcome]
  <2>2. r \in WorkerRecord
    BY <1>0 DEF WorkerRecord
  <2>3. WorkerFits(r, event)
    BY <1>0, <1>6 DEF WorkerRecord, WorkerFits, Fails
  <2>4. worker' = [worker EXCEPT ![w] = r]
    BY <1>0, <2>1 DEF IngestInv, TypeOK
  <2> QED
    BY <1>0, <1>6, <2>2, <2>3, <2>4, OnlyWorkerMoves DEF Fails
<1>7. CASE Interrupt(w)
  BY <1>0, <1>7, <1>idle, OnlyWorkerMoves DEF Interrupt
<1> QED
  BY <1>1, <1>2, <1>3, <1>4, <1>5, <1>6, <1>7

\* The steps of a worker that write to its event.
LEMMA WorkerAndEventMove ==
  ASSUME IngestInv, NEW w \in Workers, NEW r \in WorkerRecord,
         NEW e \in Events, NEW x \in EventRecord,
         worker' = [worker EXCEPT ![w] = r], event' = [event EXCEPT ![e] = x],
         WorkerFits(r, event'),
         x.doc = event[e].doc, x.status = "absent" <=> event[e].status = "absent",
         event[e].announced \subseteq x.announced,
         x.status = "done" => "ingested" \in x.announced,
         x.status = "rejected" => "failed" \in x.announced,
         UNCHANGED <<source, doc, rows, recent, client, faults, aborts, found>>
  PROVE  IngestInv'
<1>1. event \in [Events -> EventRecord]
  BY DEF IngestInv, TypeOK
<1>2. event'[e] = x /\ \A f \in Events \ {e} : event'[f] = event[f]
  BY <1>1
<1>3. event' \in [Events -> EventRecord]
  BY <1>1
<1>4. EventsGrow /\ EventsSameDoc
  BY <1>2 DEF EventsGrow, EventsSameDoc
<1>5. SettledIsAnnounced'
  BY <1>2 DEF IngestInv, SettledIsAnnounced
<1>6. /\ doc' \in [Docs -> DocRecord] /\ rows' \in [Docs -> [Indexes -> [Texts -> Nat]]]
      /\ recent' \subseteq recent /\ faults' \in Nat
  BY DEF IngestInv, TypeOK
<1> QED
  BY <1>3, <1>4, <1>5, <1>6, WorkerMoves

\* The chunk transaction, whose counts stay natural numbers.
LEMMA StoreKeeps == ASSUME IngestInv, NEW w \in Workers, Store(w) PROVE IngestInv'
<1> DEFINE d == Doc(w)
           r == [worker[w] EXCEPT !.pc = "finalize"]
           kept(i, t) == IF i \in Dropped(w) THEN 0 ELSE rows[d][i][t]
           added(i, t) == IF i \in ToEmbed(w) /\ worker[w].content[i] = t THEN 1 ELSE 0
           stored == [i \in Indexes |-> [t \in Texts |-> kept(i, t) + added(i, t)]]
<1>0. /\ worker[w] \in WorkerRecord /\ WorkerFits(worker[w], event) /\ d \in Docs
      /\ rows \in [Docs -> [Indexes -> [Texts -> Nat]]]
  BY BusyTypes DEF IngestInv, TypeOK, Store
<1>1. r \in WorkerRecord
  BY <1>0 DEF WorkerRecord
<1>2. WorkerFits(r, event')
  BY <1>0 DEF WorkerRecord, WorkerFits, Store
<1>3. worker' = [worker EXCEPT ![w] = r]
  BY <1>0 DEF Store, Goto, IngestInv, TypeOK
<1>4. stored \in [Indexes -> [Texts -> Nat]]
  <2> SUFFICES ASSUME NEW i \in Indexes, NEW t \in Texts
               PROVE  kept(i, t) + added(i, t) \in Nat
    BY Zenon
  <2>1. rows[d][i][t] \in Nat
    BY <1>0
  <2>2. kept(i, t) \in Nat
    BY <2>1
  <2>3. added(i, t) \in Nat
    OBVIOUS
  <2> QED
    BY <2>2, <2>3
<1>5. rows' = [rows EXCEPT ![d] = stored]
  BY <1>0, Zenon DEF Store
<1>6. rows' \in [Docs -> [Indexes -> [Texts -> Nat]]]
  <2> HIDE DEF stored
  <2> QED
    BY <1>0, <1>4, <1>5
<1>7. /\ event' \in [Events -> EventRecord] /\ EventsGrow /\ EventsSameDoc
      /\ SettledIsAnnounced' /\ doc' \in [Docs -> DocRecord]
      /\ recent' \subseteq recent /\ faults' \in Nat
  BY DEF IngestInv, TypeOK, EventsGrow, EventsSameDoc, SettledIsAnnounced, Store
<1>8. UNCHANGED <<source, client, aborts, found>>
  BY DEF Store
<1> HIDE DEF r
<1> QED
  BY <1>1, <1>2, <1>3, <1>6, <1>7, <1>8, WorkerMoves

\* The steps that deliver an event, announce its outcome, set its job row or
\* acknowledge it.
LEMMA EventStepsKeep ==
  ASSUME IngestInv, NEW w \in Workers,
         \/ \E e \in Events : Deliver(w, e)
         \/ PublishIngested(w) \/ JobSucceeds(w) \/ JobFails(w) \/ PublishFailed(w)
         \/ Acknowledge(w)
  PROVE  IngestInv'
<1> DEFINE e == worker[w].event
<1>0. /\ worker[w] \in WorkerRecord /\ WorkerFits(worker[w], event)
      /\ worker[w].pc # "idle" => e \in Events
      /\ event \in [Events -> EventRecord]
      /\ worker \in [Workers -> WorkerRecord]
      /\ SettledIsAnnounced
  BY BusyTypes DEF IngestInv, TypeOK
<1>idle. IdleWorker \in WorkerRecord /\ WorkerFits(IdleWorker, event')
  BY IdleTypes DEF IdleWorker, WorkerFits
<1>1. ASSUME NEW f \in Events, Deliver(w, f) PROVE IngestInv'
  <2> DEFINE r == [IdleWorker EXCEPT !.pc = "read", !.event = f]
             x == [event[f] EXCEPT !.deliveries = @ + 1,
                                   !.job = IF @ = "none" THEN "none" ELSE "running"]
  <2>1. event[f] \in EventRecord
    BY <1>0
  <2>2. x \in EventRecord
    <3>1. event[f].deliveries + 1 \in Nat
      BY <2>1 DEF EventRecord
    <3>2. (IF event[f].job = "none" THEN "none" ELSE "running")
            \in {"none", "queued", "running", "success", "failed"}
      OBVIOUS
    <3> QED
      BY <2>1, <3>1, <3>2 DEF EventRecord
  <2>3. r \in WorkerRecord
    BY <1>idle DEF WorkerRecord
  <2>4. event' = [event EXCEPT ![f] = x] /\ worker' = [worker EXCEPT ![w] = r]
    BY <1>0, <1>1, <2>1 DEF Deliver, EventRecord
  <2>5. WorkerFits(r, event')
    <3>1. r.pc = "read" /\ r.event = f /\ r.outcome = "done"
      BY DEF IdleWorker
    <3>2. event'[f] = x /\ x.status = "pending"
      BY <1>0, <1>1, <2>1, <2>4 DEF Deliver, EventRecord
    <3> QED
      BY <3>1, <3>2 DEF WorkerFits
  <2>6. /\ x.doc = event[f].doc /\ x.announced = event[f].announced
        /\ x.status = event[f].status
    BY <2>1 DEF EventRecord
  <2>7. /\ x.status = "done" => "ingested" \in x.announced
        /\ x.status = "rejected" => "failed" \in x.announced
    BY <1>0, <2>6 DEF SettledIsAnnounced
  <2>u. /\ UNCHANGED <<source, doc, rows, recent, client, faults, aborts, found>>
        /\ event[f].announced \subseteq x.announced
        /\ x.status = "absent" <=> event[f].status = "absent"
    BY <1>1, <2>1, <2>5, <2>6 DEF Deliver
  <2> HIDE DEF r, x
  <2> QED
    BY <1>1, <2>2, <2>3, <2>4, <2>5, <2>6, <2>7, <2>u, WorkerAndEventMove
<1>2. CASE PublishIngested(w)
  <2> DEFINE r == [worker[w] EXCEPT !.pc = "succeed"]
             x == [event[e] EXCEPT !.announced = @ \cup {"ingested"}]
  <2>1. event[e] \in EventRecord
    BY <1>0, <1>2 DEF PublishIngested
  <2>2. x \in EventRecord
    BY <2>1 DEF EventRecord, Outcomes
  <2>3. r \in WorkerRecord
    BY <1>0 DEF WorkerRecord
  <2>4. event' = [event EXCEPT ![e] = x] /\ worker' = [worker EXCEPT ![w] = r]
    BY <1>0, <1>2 DEF PublishIngested, Goto
  <2>5. /\ x.doc = event[e].doc /\ x.announced = event[e].announced \cup {"ingested"}
        /\ x.status = event[e].status /\ e \in Events
    BY <1>0, <1>2, <2>1 DEF EventRecord, PublishIngested
  <2>6. WorkerFits(r, event')
    BY <1>0, <1>2, <2>4, <2>5 DEF WorkerFits, PublishIngested, WorkerRecord
  <2>7. /\ x.status = "done" => "ingested" \in x.announced
        /\ x.status = "rejected" => "failed" \in x.announced
    BY <1>0, <2>5 DEF SettledIsAnnounced
  <2>u. /\ UNCHANGED <<source, doc, rows, recent, client, faults, aborts, found>>
        /\ event[e].announced \subseteq x.announced
        /\ x.status = "absent" <=> event[e].status = "absent"
    BY <1>2, <2>1, <2>5, <2>6 DEF PublishIngested
  <2> HIDE DEF r, x, e
  <2> QED
    BY <1>2, <2>2, <2>3, <2>4, <2>5, <2>6, <2>7, <2>u, WorkerAndEventMove
<1>3. CASE JobSucceeds(w) \/ JobFails(w)
  <2> DEFINE r == [worker[w] EXCEPT !.pc = IF worker[w].pc = "fail" THEN "announce" ELSE "ack"]
             x == [event[e] EXCEPT !.job =
                     IF @ = "none" THEN "none"
                     ELSE IF worker[w].pc = "fail" THEN "failed" ELSE "success"]
  <2>1. event[e] \in EventRecord
    BY <1>0, <1>3 DEF JobSucceeds, JobFails
  <2>2. x \in EventRecord
    BY <2>1 DEF EventRecord
  <2>3. r \in WorkerRecord
    BY <1>0 DEF WorkerRecord
  <2>4. event' = [event EXCEPT ![e] = x] /\ worker' = [worker EXCEPT ![w] = r]
    BY <1>0, <1>3, <2>1 DEF JobSucceeds, JobFails, SetJob, Goto, EventRecord
  <2>5. /\ x.doc = event[e].doc /\ x.announced = event[e].announced
        /\ x.status = event[e].status /\ e \in Events
    BY <1>0, <1>3, <2>1 DEF EventRecord, JobSucceeds, JobFails
  <2>6. WorkerFits(r, event')
    BY <1>0, <1>3, <2>4, <2>5 DEF WorkerFits, JobSucceeds, JobFails, WorkerRecord
  <2>7. /\ x.status = "done" => "ingested" \in x.announced
        /\ x.status = "rejected" => "failed" \in x.announced
    BY <1>0, <2>5 DEF SettledIsAnnounced
  <2>u. /\ UNCHANGED <<source, doc, rows, recent, client, faults, aborts, found>>
        /\ event[e].announced \subseteq x.announced
        /\ x.status = "absent" <=> event[e].status = "absent"
    BY <1>3, <2>1, <2>5, <2>6 DEF JobSucceeds, JobFails
  <2> HIDE DEF r, x, e
  <2> QED
    BY <1>3, <2>2, <2>3, <2>4, <2>5, <2>6, <2>7, <2>u, WorkerAndEventMove
<1>4. CASE PublishFailed(w)
  <2> DEFINE stop == [worker[w] EXCEPT !.pc = "ack"]
             r == IF worker[w].outcome = "retry" THEN IdleWorker ELSE stop
             x == [event[e] EXCEPT !.announced = @ \cup {"failed"}]
  <2>1. event[e] \in EventRecord
    BY <1>0, <1>4 DEF PublishFailed
  <2>2. x \in EventRecord
    BY <2>1 DEF EventRecord, Outcomes
  <2>3. r \in WorkerRecord
    BY <1>0, <1>idle DEF WorkerRecord
  <2>4. event' = [event EXCEPT ![e] = x] /\ worker' = [worker EXCEPT ![w] = r]
    BY <1>0, <1>4 DEF PublishFailed
  <2>5. /\ x.doc = event[e].doc /\ x.announced = event[e].announced \cup {"failed"}
        /\ x.status = event[e].status /\ e \in Events
    BY <1>0, <1>4, <2>1 DEF EventRecord, PublishFailed
  <2>6. WorkerFits(stop, event') \/ worker[w].outcome = "retry"
    BY <1>0, <1>4, <2>4, <2>5 DEF WorkerFits, PublishFailed, WorkerRecord
  <2>7. WorkerFits(r, event')
    BY <1>idle, <2>6
  <2>8. /\ x.status = "done" => "ingested" \in x.announced
        /\ x.status = "rejected" => "failed" \in x.announced
    BY <1>0, <2>5 DEF SettledIsAnnounced
  <2>u. /\ UNCHANGED <<source, doc, rows, recent, client, faults, aborts, found>>
        /\ event[e].announced \subseteq x.announced
        /\ x.status = "absent" <=> event[e].status = "absent"
    BY <1>4, <2>1, <2>5, <2>6 DEF PublishFailed
  <2> HIDE DEF r, x, e
  <2> QED
    BY <1>4, <2>2, <2>3, <2>4, <2>5, <2>7, <2>8, <2>u, WorkerAndEventMove
<1>5. CASE Acknowledge(w)
  <2> DEFINE x == [event[e] EXCEPT !.status = IF @ = "pending" THEN worker[w].outcome ELSE @]
  <2>1. event[e] \in EventRecord /\ worker[w].outcome \in {"done", "rejected"} /\ e \in Events
    BY <1>0, <1>5 DEF Acknowledge, WorkerFits
  <2>2. x \in EventRecord
    BY <2>1 DEF EventRecord
  <2>3. event' = [event EXCEPT ![e] = x] /\ worker' = [worker EXCEPT ![w] = IdleWorker]
    BY <1>0, <1>5 DEF Acknowledge
  <2>4. /\ x.doc = event[e].doc /\ x.announced = event[e].announced
        /\ x.status = IF event[e].status = "pending" THEN worker[w].outcome
                                                      ELSE event[e].status
    BY <2>1 DEF EventRecord
  <2>5. /\ x.status = "done" => "ingested" \in x.announced
        /\ x.status = "rejected" => "failed" \in x.announced
    BY <1>0, <1>5, <2>1, <2>4 DEF SettledIsAnnounced, WorkerFits, Acknowledge
  <2>6. x.status = "absent" <=> event[e].status = "absent"
    BY <2>1, <2>4
  <2>u. /\ UNCHANGED <<source, doc, rows, recent, client, faults, aborts, found>>
        /\ event[e].announced \subseteq x.announced
        /\ x.status = "absent" <=> event[e].status = "absent"
    BY <1>5, <2>1, <2>4 DEF Acknowledge
  <2> HIDE DEF x, e
  <2> QED
    BY <1>5, <1>idle, <2>1, <2>2, <2>3, <2>4, <2>5, <2>6, <2>u, WorkerAndEventMove
<1> QED
  BY <1>1, <1>2, <1>3, <1>4, <1>5

----------------------------------------------------------------------------

\* The bus gives an event up, the sweep replays, time passes, a source is edited.
LEMMA OthersKeep ==
  ASSUME IngestInv,
         \/ \E d \in Docs : Edit(d) \/ ReplayFails(d) \/ \E e \in Events : Replay(d, e)
         \/ SweepScan
         \/ \E e \in Events : DeadLetter(e) \/ CooldownPasses(e)
  PROVE  IngestInv'
<1> USE IngestAssumption
<1>0. TypeOK /\ EventHasDoc /\ WorkersFit /\ ClientHasDoc /\ SettledIsAnnounced
  BY DEF IngestInv
<1>1. ASSUME NEW d \in Docs, Edit(d) \/ ReplayFails(d) PROVE IngestInv'
  <2>1. source' \in [Docs -> Contents]
    BY <1>0, <1>1 DEF TypeOK, Edit, ReplayFails
  <2>2. faults' \in Nat /\ found' \subseteq Docs
    BY <1>0, <1>1 DEF TypeOK, Edit, ReplayFails
  <2>3. TypeOK'
    BY <1>0, <1>1, <2>1, <2>2 DEF TypeOK, Edit, ReplayFails
  <2> QED
    BY <1>0, <1>1, <2>3 DEF IngestInv, EventHasDoc, WorkersFit, WorkerFits, ClientHasDoc,
       SettledIsAnnounced, Edit, ReplayFails
<1>2. ASSUME SweepScan \/ \E e \in Events : CooldownPasses(e) PROVE IngestInv'
  <2>1. TypeOK'
    BY <1>0, <1>2 DEF TypeOK, SweepScan, CooldownPasses
  <2> QED
    BY <1>0, <1>2, <2>1 DEF IngestInv, EventHasDoc, WorkersFit, WorkerFits, ClientHasDoc,
       SettledIsAnnounced, SweepScan, CooldownPasses
<1>3. ASSUME NEW d \in Docs, NEW e \in Events, Replay(d, e) PROVE IngestInv'
  <2>1. event' \in [Events -> EventRecord]
    <3>0. event[e] \in EventRecord
      BY <1>0 DEF TypeOK
    <3>1. [event[e] EXCEPT !.status = "pending", !.doc = d, !.job = "none"] \in EventRecord
      BY <3>0 DEF EventRecord
    <3> QED
      BY <1>0, <1>3, <3>1 DEF TypeOK, Replay, Announce
  <2>2. TypeOK'
    BY <1>0, <1>3, <2>1 DEF TypeOK, Replay, Announce
  <2>3. EventHasDoc' /\ EventsGrow /\ SettledIsAnnounced'
    <3>1. event[e].status = "absent" /\ d \in Docs /\ event \in [Events -> EventRecord]
      BY <1>0, <1>3 DEF TypeOK, Replay, IsNext, Unused
    <3>2. /\ event'[e].status = "pending" /\ event'[e].doc = d
          /\ event'[e].announced = event[e].announced
      BY <1>0, <1>3, <3>1 DEF Replay, Announce, EventRecord
    <3>3. \A f \in Events \ {e} : event'[f] = event[f]
      BY <1>0, <1>3, <3>1 DEF Replay, Announce
    <3>4. EventHasDoc'
      BY <1>0, <3>1, <3>2, <3>3 DEF EventHasDoc
    <3>5. EventsGrow
      BY <3>1, <3>2, <3>3 DEF EventsGrow
    <3>6. SettledIsAnnounced'
      BY <1>0, <3>1, <3>2, <3>3 DEF SettledIsAnnounced
    <3> QED
      BY <3>4, <3>5, <3>6
  <2>4. WorkersFit' /\ ClientHasDoc'
    BY <1>0, <1>3, <2>3, OthersFit DEF WorkersFit, ClientHasDoc, Replay
  <2> QED
    BY <2>2, <2>3, <2>4 DEF IngestInv
<1>4. ASSUME NEW e \in Events, DeadLetter(e) PROVE IngestInv'
  <2>1. event' \in [Events -> EventRecord]
    <3>0. event[e] \in EventRecord
      BY <1>0 DEF TypeOK
    <3>1. [event[e] EXCEPT !.status = "dead"] \in EventRecord
      BY <3>0 DEF EventRecord
    <3> QED
      BY <1>0, <1>4, <3>1 DEF TypeOK, DeadLetter
  <2>2. TypeOK'
    BY <1>0, <1>4, <2>1 DEF TypeOK, DeadLetter
  <2>3. EventHasDoc' /\ EventsGrow /\ SettledIsAnnounced'
    BY <1>0, <1>4 DEF TypeOK, EventRecord, EventHasDoc, EventsGrow, SettledIsAnnounced,
       DeadLetter
  <2>4. WorkersFit' /\ ClientHasDoc'
    BY <1>0, <1>4, <2>3, OthersFit DEF WorkersFit, ClientHasDoc, DeadLetter
  <2> QED
    BY <2>2, <2>3, <2>4 DEF IngestInv
<1> QED
  BY <1>1, <1>2, <1>3, <1>4

\* Every step of every client, worker, sweep and of the bus keeps the
\* inductive invariant.
LEMMA IngestStep == IngestInv /\ [Next]_vars => IngestInv'
<1> SUFFICES ASSUME IngestInv, [Next]_vars PROVE IngestInv'
  OBVIOUS
<1>1. CASE Client
  BY <1>1, ClientKeeps
<1>2. ASSUME NEW w \in Workers,
             \/ Step(w) \/ EmbedFails(w) \/ Fails(w) \/ Interrupt(w)
             \/ \E e \in Events : Deliver(w, e)
      PROVE  IngestInv'
  BY <1>2, ReadsAndUpdatesKeep, StoreKeeps, EventStepsKeep DEF Step
<1>3. CASE UNCHANGED vars
  BY <1>3 DEF vars, IngestInv, TypeOK, EventHasDoc, WorkersFit, WorkerFits, ClientHasDoc,
     SettledIsAnnounced
<1> QED
  BY <1>1, <1>2, <1>3, OthersKeep DEF Next

\* The inductive invariant holds in every state: an event in the table names
\* its document, and a worker past the announcement of an outcome has made it.
THEOREM IngestInvariance == SafeSpec => []IngestInv
BY IngestInit, IngestStep, PTL DEF SafeSpec

\* The types of the tables, of the handler's locals and of the counters.
THEOREM IngestTypeCorrect == SafeSpec => []TypeOK
<1>1. IngestInv => TypeOK
  BY DEF IngestInv
<1> QED
  BY <1>1, IngestInvariance, PTL

\* Whatever fails on the way, the bus is told that an event is finished only
\* after DocumentIngested or DocumentFailed was committed for it.
THEOREM SettledIsAnnouncedThm == SafeSpec => []SettledIsAnnounced
<1>1. IngestInv => SettledIsAnnounced
  BY DEF IngestInv
<1> QED
  BY <1>1, IngestInvariance, PTL

----------------------------------------------------------------------------

\* What one store transaction leaves at one index and text.
LEMMA StoredRow ==
  ASSUME IngestInv, NEW w \in Workers, worker[w].pc = "store", AsRead(w),
         NEW i \in Indexes, NEW t \in Texts
  PROVE  (IF i \in Dropped(w) THEN 0 ELSE rows[Doc(w)][i][t])
         + (IF i \in ToEmbed(w) /\ worker[w].content[i] = t THEN 1 ELSE 0)
         = RowsOf(worker[w].content)[i][t]
<1> USE IngestAssumption
<1> DEFINE content == worker[w].content
           existing == worker[w].existing
<1>1. /\ content \in Contents /\ existing \in [Indexes -> Texts \cup {NoText}]
      /\ content \in Seq(Texts) /\ Len(content) <= MaxChunks
  BY BusyTypes DEF WorkerFits, WorkerRecord
<1>2. rows[Doc(w)][i][t] = IF existing[i] = t THEN 1 ELSE 0
  BY DEF AsRead
<1>3. RowsOf(content)[i][t] = IF i <= Len(content) /\ content[i] = t THEN 1 ELSE 0
  BY DEF RowsOf
<1>4. CASE i > Len(content)
  <2>1. i \notin ToEmbed(w)
    BY <1>1, <1>4 DEF ToEmbed, Indexes
  <2>0. RowsOf(content)[i][t] = 0
    <3>1. i \in Nat /\ Len(content) \in Nat
      BY <1>1 DEF Indexes
    <3> QED
      BY <1>3, <1>4, <3>1
  <2>2. CASE existing[i] = NoText
    <3>1. rows[Doc(w)][i][t] = 0
      BY <1>2, <2>2
    <3> QED
      BY <2>0, <2>1, <3>1
  <2>3. CASE existing[i] # NoText
    <3>1. i \in Dropped(w)
      BY <1>4, <2>3 DEF Dropped
    <3> QED
      BY <2>0, <2>1, <3>1
  <2> QED
    BY <2>2, <2>3
<1>5. CASE ~(i > Len(content))
  <2>0. i \in 1 .. Len(content)
    BY <1>1, <1>5 DEF Indexes
  <2>1. CASE existing[i] = content[i]
    <3>1. i \notin ToEmbed(w) /\ i \notin Dropped(w)
      BY <1>5, <2>1 DEF ToEmbed, Dropped
    <3> QED
      BY <1>2, <1>3, <1>5, <2>0, <2>1, <3>1 DEF Indexes
  <2>2. CASE existing[i] # content[i]
    <3>1. i \in ToEmbed(w) /\ (i \in Dropped(w) <=> existing[i] # NoText)
      BY <1>5, <2>0, <2>2 DEF ToEmbed, Dropped
    <3> QED
      BY <1>1, <1>2, <1>3, <2>0, <2>2, <3>1 DEF Indexes
  <2> QED
    BY <2>1, <2>2
<1> QED
  BY <1>4, <1>5

\* For contents of any length: from whatever rows a crashed, failed or older
\* ingest left, one per index, the chunk transaction leaves the rows of the
\* content read, one per chunk and nothing stale.
THEOREM StoreIsExactThm == SafeSpec => StoreIsExact
<1> DEFINE Exact == \A w \in Workers :
             worker[w].pc = "store" /\ worker'[w].pc = "finalize" /\ AsRead(w)
               => rows'[Doc(w)] = RowsOf(worker[w].content)
<1>1. IngestInv /\ [Next]_vars => [Exact]_vars
  <2> SUFFICES ASSUME IngestInv, Next, NEW w \in Workers,
                      worker[w].pc = "store", worker'[w].pc = "finalize", AsRead(w)
               PROVE  rows'[Doc(w)] = RowsOf(worker[w].content)
    OBVIOUS
  <2>1. Store(w)
    <3>0. worker \in [Workers -> WorkerRecord]
      BY DEF IngestInv, TypeOK
    <3>1. ~Client
      BY DEF Client, UploadSave, RechunkWipe, DeleteRead, Purge, Post, CreateJob,
         DeleteWipe, DeleteArchive, ClientAborts, CommitEvent
    <3>2. ~ \E d \in Docs : Edit(d) \/ ReplayFails(d) \/ \E e \in Events : Replay(d, e)
      BY DEF Edit, ReplayFails, Replay
    <3>3. ~SweepScan /\ ~ \E e \in Events : DeadLetter(e) \/ CooldownPasses(e)
      BY DEF SweepScan, DeadLetter, CooldownPasses
    <3>4. PICK v \in Workers :
            \/ Step(v) \/ EmbedFails(v) \/ Fails(v) \/ Interrupt(v)
            \/ \E e \in Events : Deliver(v, e)
      BY <3>1, <3>2, <3>3 DEF Next
    <3>5. v = w
      BY <3>0, <3>4 DEF Step, ReadSource, UpdateRow, ReadExisting, Store, Finalize, FlipFails,
         PublishIngested, JobSucceeds, JobFails, PublishFailed, Acknowledge, EmbedFails, Fails,
         Interrupt, Deliver, Goto
    <3>6. ~EmbedFails(w) /\ ~Fails(w) /\ ~Interrupt(w)
      <4>1. ASSUME NEW o,
                   worker' = [worker EXCEPT ![w].pc = "fail", ![w].outcome = o]
            PROVE  FALSE
        BY <3>0, <4>1 DEF WorkerRecord
      <4>2. ~EmbedFails(w) /\ ~Fails(w)
        BY <4>1 DEF EmbedFails, Fails
      <4>3. ~Interrupt(w)
        BY <3>0 DEF Interrupt, IdleWorker
      <4> QED
        BY <4>2, <4>3
    <3> QED
      BY <3>4, <3>5, <3>6 DEF Step, ReadSource, UpdateRow, ReadExisting, Finalize, FlipFails,
         PublishIngested, JobSucceeds, JobFails, PublishFailed, Acknowledge, Deliver
  <2>2. Doc(w) \in Docs /\ rows \in [Docs -> [Indexes -> [Texts -> Nat]]]
    BY BusyTypes DEF IngestInv, TypeOK
  <2>3. rows'[Doc(w)] =
          [i \in Indexes |-> [t \in Texts |->
             (IF i \in Dropped(w) THEN 0 ELSE rows[Doc(w)][i][t])
             + (IF i \in ToEmbed(w) /\ worker[w].content[i] = t THEN 1 ELSE 0)]]
    BY <2>1, <2>2, Zenon DEF Store
  <2>4. RowsOf(worker[w].content) =
          [i \in Indexes |-> [t \in Texts |-> RowsOf(worker[w].content)[i][t]]]
    BY DEF RowsOf
  <2>5. \A i \in Indexes, t \in Texts :
          (IF i \in Dropped(w) THEN 0 ELSE rows[Doc(w)][i][t])
          + (IF i \in ToEmbed(w) /\ worker[w].content[i] = t THEN 1 ELSE 0)
          = RowsOf(worker[w].content)[i][t]
    BY StoredRow
  <2> QED
    BY <2>3, <2>4, <2>5
<1> QED
  BY <1>1, IngestInvariance, PTL DEF SafeSpec, StoreIsExact
----------------------------------------------------------------------------
(* Quiescence is completeness *)

\* Where the argument applies: nothing is deleted, no request dies between its
\* transactions, and sources are not edited under a worker.
Undisturbed ==
  /\ Operations \subseteq {"upload", "post", "rechunk"}
  /\ ~EditsAnytime /\ MaxAborts = 0

\* What every worker of d that reads now will work from.
Target(d) == IF Refetchable THEN source[d] ELSE doc[d].raw

\* A worker with record r is past its chunk transaction, on the way to "done";
\* it is past its UPDATE of the document row.
Succeeds(r) == \/ r.pc \in {"finalize", "publish", "succeed"}
               \/ r.pc = "ack" /\ r.outcome = "done"
PastUpdate(r) == r.pc \in {"chunk", "store"} \/ Succeeds(r)

\* Since the worker read the chunks of d, nothing but its own content came in.
OnlySince(r, d) ==
  \A i \in Indexes, t \in Texts :
    rows[d][i][t] > 0 => t = r.existing[i] \/ (i <= Len(r.content) /\ t = r.content[i])

\* The chunks it will not write again are still there.
Restores(r, d) ==
  \A i \in Indexes : i <= Len(r.content) /\ r.existing[i] = r.content[i]
                       => rows[d][i][r.content[i]] > 0

\* All workers of a document have the same content in hand, which the row
\* has as soon as one of them wrote it, or finished.
Synced(r) ==
  r.pc # "idle" =>
    LET d == event[r.event].doc IN
    /\ r.pc = "update" \/ PastUpdate(r) => r.content = Target(d)
    /\ PastUpdate(r) => doc[d].raw = r.content
    /\ event[r.event].status = "done" => doc[d].raw = Target(d)
    /\ r.pc = "store" => OnlySince(r, d)

OneTextEach(d) ==
  \A i \in Indexes, t \in Texts, u \in Texts :
    rows[d][i][t] > 0 /\ rows[d][i][u] > 0 => t = u

Exists(d) == doc[d].state # "none"

\* What is announced, replayed or worked on exists.
AllExist ==
  /\ \A e \in Events : event[e].status # "absent" => Exists(event[e].doc)
  /\ \A d \in found : Exists(d)
  /\ client.pc \in {"idle", "job", "commit"}
  /\ client.pc # "idle" => Exists(client.doc)

\* An event not yet handled whose handling, wherever it stands, will leave the
\* document complete.
Redoes(r, d) == ~Succeeds(r) /\ (r.pc = "store" => Restores(r, d))
Fresh(e) ==
  /\ event[e].status \in {"pending", "rejected", "dead"}
  /\ \A w \in Workers :
       worker[w].pc # "idle" /\ worker[w].event = e => Redoes(worker[w], event[e].doc)

Complete(d) == doc[d].raw \in Contents /\ Holds(d, doc[d].raw)

\* A document that is not complete has a request under way that will announce
\* it, or an event that will redo it.
Covered(d) ==
  \/ client.pc # "idle" /\ client.doc = d
  \/ \E e \in Events : event[e].doc = d /\ Fresh(e)

\* The inductive invariant of an undisturbed instance.
CompleteInv ==
  /\ \A w \in Workers : Synced(worker[w])
  /\ \A d \in Docs : OneTextEach(d)
  /\ AllExist
  /\ \A d \in Docs : Exists(d) => Complete(d) \/ Covered(d)

\* What a worker of a document may find changed by a step, and what not.
SameDoc(d) ==
  source'[d] = source[d] /\ doc'[d].raw = doc[d].raw /\ rows'[d] = rows[d]

\* A worker's record stays in step while its document is left alone.
LEMMA SyncedStays ==
  ASSUME NEW r, Synced(r),
         r.pc # "idle" =>
           /\ event'[r.event].doc = event[r.event].doc
           /\ event'[r.event].status = "done" => event[r.event].status = "done"
           /\ SameDoc(event[r.event].doc)
  PROVE  Synced(r)'
BY DEF Synced, SameDoc, Target, OnlySince

\* A worker that goes on, or gives up, with what it had in hand.
LEMMA SyncedOnward ==
  ASSUME NEW q, NEW r, Synced(q), r.pc # "idle" => q.pc # "idle" /\ r.event = q.event,
         r.pc \notin {"update", "store"},
         PastUpdate(r) => PastUpdate(q) /\ r.content = q.content
  PROVE  Synced(r)
BY DEF Synced

LEMMA DocStays ==
  ASSUME NEW d, SameDoc(d)
  PROVE  /\ OneTextEach(d) => OneTextEach(d)'
         /\ Complete(d) => Complete(d)'
         /\ \A r : Redoes(r, d) => Redoes(r, d)'
BY DEF SameDoc, OneTextEach, Complete, Holds, Redoes, Restores

\* An event stays fresh while its workers redo it.
LEMMA FreshStays ==
  ASSUME NEW e \in Events, Fresh(e), event'[e].status \in {"pending", "rejected", "dead"},
         event'[e].doc = event[e].doc,
         \A w \in Workers :
           worker'[w].pc # "idle" /\ worker'[w].event = e
             => Redoes(worker[w], event[e].doc)'
  PROVE  Fresh(e)'
BY DEF Fresh, Redoes, Restores

\* What a busy worker's event names.
LEMMA BusyDoc ==
  ASSUME IngestInv, CompleteInv, NEW w \in Workers, worker[w].pc # "idle"
  PROVE  /\ worker[w].event \in Events /\ event[worker[w].event].status # "absent"
         /\ event[worker[w].event].doc \in Docs /\ Doc(w) = event[worker[w].event].doc
         /\ Exists(Doc(w))
BY DEF IngestInv, WorkersFit, WorkerFits, EventHasDoc, CompleteInv, AllExist, Doc

\* A step that only moves a worker, to where it is in step with the others.
LEMMA MoveKeeps ==
  ASSUME IngestInv, CompleteInv, NEW w \in Workers, NEW r,
         worker' = [worker EXCEPT ![w] = r],
         UNCHANGED <<source, rows, client, found>>,
         \A d \in Docs : /\ doc'[d].raw = doc[d].raw
                         /\ doc'[d].state = "none" <=> doc[d].state = "none",
         \A e \in Events : /\ event'[e].doc = event[e].doc
                           /\ event'[e].status = event[e].status,
         Synced(r),
         r.pc # "idle" =>
           /\ r.event \in Events /\ event[r.event].doc \in Docs
           /\ \/ Redoes(r, event[r.event].doc)
              \/ /\ worker[w].pc # "idle" /\ Succeeds(worker[w])
                 /\ r.event = worker[w].event
  PROVE  CompleteInv'
<1>1. worker'[w] = r /\ \A v \in Workers \ {w} : worker'[v] = worker[v]
  BY DEF IngestInv, TypeOK
<1>2. \A d \in Docs : SameDoc(d)
  BY DEF SameDoc
<1>3. ASSUME NEW v \in Workers
      PROVE  Synced(worker[v])'
  <2>1. CASE v = w
    <3>1. Synced(r)'
      BY <1>2, SyncedStays
    <3> QED BY <1>1, <2>1, <3>1 DEF Synced, Target, OnlySince
  <2>2. CASE v # w
    <3>1. PICK q : q = worker[v]
      OBVIOUS
    <3>2. q.pc # "idle" => q.event \in Events /\ event[q.event].doc \in Docs
      BY <3>1, BusyDoc
    <3>3. Synced(q)
      BY <3>1 DEF CompleteInv
    <3>4. worker'[v] = q
      BY <1>1, <2>2, <3>1
    <3>5. ASSUME q.pc # "idle"
          PROVE  /\ event'[q.event].doc = event[q.event].doc
                 /\ event'[q.event].status = event[q.event].status
                 /\ SameDoc(event[q.event].doc)
      BY <1>2, <3>2, <3>5
    <3>6. Synced(q)'
      BY <3>3, <3>5, SyncedStays
    <3> QED BY <3>4, <3>6 DEF Synced, Target, OnlySince
  <2> QED BY <2>1, <2>2
<1>4. \A d \in Docs : OneTextEach(d)'
  BY <1>2, DocStays DEF CompleteInv
<1>5. AllExist' /\ \A d \in Docs : Exists(d)' <=> Exists(d)
  BY DEF IngestInv, TypeOK, EventHasDoc, ClientHasDoc, CompleteInv, AllExist, Exists
<1>6. ASSUME NEW e \in Events, Fresh(e), event[e].doc \in Docs
      PROVE  Fresh(e)'
  <2>1. event'[e].status \in {"pending", "rejected", "dead"} /\ event'[e].doc = event[e].doc
    BY <1>6 DEF Fresh
  <2>2. rows'[event[e].doc] = rows[event[e].doc]
    OBVIOUS
  <2>3. ASSUME NEW v \in Workers, worker'[v].pc # "idle", worker'[v].event = e
        PROVE  Redoes(worker[v], event[e].doc)'
    <3>1. Redoes(worker'[v], event[e].doc)
      BY <1>1, <1>6, <2>3 DEF Fresh, Redoes
    <3> QED BY <2>2, <3>1 DEF Redoes, Restores
  <2> QED BY <2>1, <2>3 DEF Fresh
<1>7. ASSUME NEW d \in Docs, Exists(d)
      PROVE  Complete(d)' \/ Covered(d)'
  <2>1. Complete(d) \/ Covered(d)
    BY <1>7 DEF CompleteInv
  <2>2. Complete(d) => Complete(d)'
    BY <1>2, DocStays
  <2>3. Covered(d) => Covered(d)'
    BY <1>6 DEF Covered
  <2> QED BY <2>1, <2>2, <2>3
<1> QED BY <1>3, <1>4, <1>5, <1>7 DEF CompleteInv

\* The steps of a worker that move only itself and, perhaps, the state of its
\* document or what was announced for its event.
LEMMA GoesOnComplete ==
  ASSUME IngestInv, CompleteInv, NEW w \in Workers,
         \/ EmbedFails(w) \/ Finalize(w) \/ FlipFails(w) \/ PublishIngested(w)
         \/ JobSucceeds(w) \/ JobFails(w) \/ PublishFailed(w) \/ Fails(w) \/ Interrupt(w)
  PROVE  CompleteInv'
<1>1. /\ worker \in [Workers -> WorkerRecord] /\ worker[w] \in WorkerRecord
      /\ doc \in [Docs -> DocRecord] /\ event \in [Events -> EventRecord]
      /\ WorkerFits(worker[w], event) /\ Synced(worker[w])
  BY DEF IngestInv, TypeOK, WorkersFit, CompleteInv
<1>2. worker[w].pc # "idle"
  BY DEF EmbedFails, Finalize, FlipFails, PublishIngested, JobSucceeds, JobFails,
     PublishFailed, Fails, Interrupt
<1>3. /\ Doc(w) \in Docs /\ Doc(w) = event[worker[w].event].doc /\ Exists(Doc(w))
      /\ worker[w].event \in Events
  BY <1>2, BusyDoc
<1>4. UNCHANGED <<source, rows, client, found>>
  BY DEF EmbedFails, Finalize, FlipFails, PublishIngested, JobSucceeds, JobFails,
     PublishFailed, Fails, Interrupt
<1>5. \A d \in Docs : /\ doc'[d].raw = doc[d].raw
                      /\ doc'[d].state = "none" <=> doc[d].state = "none"
  <2>1. CASE Finalize(w)
    <3>1. \A d \in Docs \ {Doc(w)} : doc'[d] = doc[d]
      BY <1>1, <1>3, <2>1 DEF Finalize
    <3>2. doc'[Doc(w)].raw = doc[Doc(w)].raw /\ doc'[Doc(w)].state # "none"
      BY <1>1, <1>3, <2>1 DEF Finalize, DocRecord
    <3> QED BY <1>3, <3>1, <3>2 DEF Exists
  <2>2. CASE EmbedFails(w)
    BY <1>1, <1>3, <2>2 DEF EmbedFails, DocRecord, Exists
  <2>3. CASE ~Finalize(w) /\ ~EmbedFails(w)
    <3>1. UNCHANGED doc
      BY <2>3 DEF FlipFails, PublishIngested, JobSucceeds, JobFails, PublishFailed, Fails,
         Interrupt
    <3> QED BY <3>1
  <2> QED BY <2>1, <2>2, <2>3
<1>6. \A e \in Events : /\ event'[e].doc = event[e].doc
                        /\ event'[e].status = event[e].status
  <2>1. CASE EmbedFails(w) \/ Finalize(w) \/ FlipFails(w) \/ Fails(w) \/ Interrupt(w)
    <3>1. UNCHANGED event
      BY <2>1 DEF EmbedFails, Finalize, FlipFails, Fails, Interrupt
    <3> QED BY <3>1
  <2>2. CASE PublishIngested(w) \/ PublishFailed(w)
    BY <1>1, <1>3, <2>2 DEF PublishIngested, PublishFailed, EventRecord
  <2>3. CASE JobSucceeds(w) \/ JobFails(w)
    BY <1>1, <1>3, <2>3 DEF JobSucceeds, JobFails, SetJob, EventRecord
  <2> QED BY <2>1, <2>2, <2>3
<1>7. ASSUME NEW r, worker' = [worker EXCEPT ![w] = r],
             \/ r.pc \in {"idle", "fail", "announce"}
             \/ r.pc = "ack" /\ r.outcome # "done",
             r.pc # "idle" => r.event = worker[w].event
      PROVE  CompleteInv'
  <2>1. Synced(r) /\ ~Succeeds(r) /\ r.pc # "store"
    BY <1>1, <1>2, <1>7, SyncedOnward DEF Succeeds, PastUpdate
  <2> QED BY <1>3, <1>4, <1>5, <1>6, <1>7, <2>1, MoveKeeps DEF Redoes
<1>8. ASSUME NEW r, worker' = [worker EXCEPT ![w] = r], Succeeds(worker[w]),
             r.pc \in {"publish", "succeed", "ack"}, r.event = worker[w].event,
             r.content = worker[w].content
      PROVE  CompleteInv'
  <2>1. Synced(r)
    BY <1>1, <1>2, <1>8, SyncedOnward DEF PastUpdate
  <2> QED BY <1>2, <1>3, <1>4, <1>5, <1>6, <1>8, <2>1, MoveKeeps
<1>9. CASE EmbedFails(w) \/ Fails(w)
  <2>1. PICK o \in {"retry", "rejected"} :
          worker' = [worker EXCEPT ![w].pc = "fail", ![w].outcome = o]
    BY <1>9 DEF EmbedFails, Fails
  <2>2. worker' = [worker EXCEPT ![w] = [worker[w] EXCEPT !.pc = "fail", !.outcome = o]]
    BY <1>1, <2>1
  <2> QED BY <1>1, <1>7, <2>2 DEF WorkerRecord
<1>10. CASE Finalize(w) \/ FlipFails(w)
  <2>1. worker' = [worker EXCEPT ![w] = [worker[w] EXCEPT !.pc = "publish"]]
    BY <1>1, <1>10 DEF Finalize, FlipFails, Goto
  <2> QED BY <1>1, <1>8, <1>10, <2>1 DEF Finalize, FlipFails, Succeeds, WorkerRecord
<1>11. CASE PublishIngested(w)
  <2>1. worker' = [worker EXCEPT ![w] = [worker[w] EXCEPT !.pc = "succeed"]]
    BY <1>1, <1>11 DEF PublishIngested, Goto
  <2> QED BY <1>1, <1>8, <1>11, <2>1 DEF PublishIngested, Succeeds, WorkerRecord
<1>12. CASE JobSucceeds(w)
  <2>1. worker' = [worker EXCEPT ![w] = [worker[w] EXCEPT !.pc = "ack"]]
    BY <1>1, <1>12 DEF JobSucceeds, Goto
  <2> QED BY <1>1, <1>8, <1>12, <2>1 DEF JobSucceeds, Succeeds, WorkerRecord
<1>13. CASE JobFails(w)
  <2>1. worker' = [worker EXCEPT ![w] = [worker[w] EXCEPT !.pc = "announce"]]
    BY <1>1, <1>13 DEF JobFails, Goto
  <2> QED BY <1>1, <1>7, <2>1 DEF WorkerRecord
<1>14. CASE PublishFailed(w)
  <2> DEFINE r == IF worker[w].outcome = "retry" THEN IdleWorker
                  ELSE [worker[w] EXCEPT !.pc = "ack"]
  <2>1. worker' = [worker EXCEPT ![w] = r]
    BY <1>1, <1>14 DEF PublishFailed
  <2>2. /\ r.pc = "idle" \/ (r.pc = "ack" /\ r.outcome # "done")
        /\ r.pc # "idle" => r.event = worker[w].event
    BY <1>1, <1>14 DEF PublishFailed, WorkerFits, WorkerRecord, IdleWorker
  <2> HIDE DEF r
  <2> QED BY <1>7, <2>1, <2>2
<1>15. CASE Interrupt(w)
  BY <1>7, <1>15 DEF Interrupt, IdleWorker
<1> QED BY <1>9, <1>10, <1>11, <1>12, <1>13, <1>14, <1>15

\* A delivery begins; the worker reads the source; it reads the stored chunks.
LEMMA ReadsComplete ==
  ASSUME IngestInv, CompleteInv, NEW w \in Workers,
         ReadSource(w) \/ ReadExisting(w) \/ \E e \in Events : Deliver(w, e)
  PROVE  CompleteInv'
<1> USE IngestAssumption
<1>1. /\ worker \in [Workers -> WorkerRecord] /\ worker[w] \in WorkerRecord
      /\ doc \in [Docs -> DocRecord] /\ event \in [Events -> EventRecord]
      /\ WorkerFits(worker[w], event) /\ Synced(worker[w])
  BY DEF IngestInv, TypeOK, WorkersFit, CompleteInv
<1>2. UNCHANGED <<source, rows, client, found>>
  BY DEF ReadSource, ReadExisting, Deliver
<1>3. \A d \in Docs : /\ doc'[d].raw = doc[d].raw
                      /\ doc'[d].state = "none" <=> doc[d].state = "none"
  <2>1. CASE ReadExisting(w)
    <3>1. doc' = [doc EXCEPT ![Doc(w)].processed = FALSE]
      BY <2>1 DEF ReadExisting
    <3> DEFINE d == Doc(w)
    <3> HIDE DEF d
    <3>2. doc' = [doc EXCEPT ![d].processed = FALSE]
      BY <3>1 DEF d
    <3> QED BY <1>1, <3>2 DEF DocRecord
  <2>2. CASE ~ReadExisting(w)
    <3>1. UNCHANGED doc
      BY <2>2 DEF ReadSource, Deliver
    <3> QED BY <3>1
  <2> QED BY <2>1, <2>2
<1>4. \A e \in Events : /\ event'[e].doc = event[e].doc
                        /\ event'[e].status = event[e].status
  <2>1. ASSUME NEW e \in Events, Deliver(w, e)
        PROVE  \A f \in Events : /\ event'[f].doc = event[f].doc
                                 /\ event'[f].status = event[f].status
    <3>1. PICK job : event' = [event EXCEPT ![e].deliveries = event[e].deliveries + 1,
                                            ![e].job = job]
      BY <1>1, <2>1 DEF Deliver, EventRecord
    <3> QED BY <1>1, <3>1 DEF EventRecord
  <2>2. CASE ReadSource(w) \/ ReadExisting(w)
    <3>1. UNCHANGED event
      BY <2>2 DEF ReadSource, ReadExisting
    <3> QED BY <3>1
  <2> QED BY <2>1, <2>2
<1>5. worker[w].pc # "idle" => /\ Doc(w) \in Docs /\ Doc(w) = event[worker[w].event].doc
                               /\ worker[w].event \in Events
  BY BusyDoc
<1>6. ASSUME NEW e \in Events, Deliver(w, e) PROVE CompleteInv'
  <2> DEFINE r == [IdleWorker EXCEPT !.pc = "read", !.event = e]
  <2>1. worker' = [worker EXCEPT ![w] = r] /\ event[e].status = "pending"
    BY <1>6 DEF Deliver
  <2>2. r.pc = "read" /\ r.event = e
    BY DEF IdleWorker
  <2>3. event[e].doc \in Docs
    BY <2>1 DEF IngestInv, EventHasDoc
  <2> HIDE DEF r
  <2>4. Synced(r) /\ Redoes(r, event[e].doc)
    BY <2>1, <2>2 DEF Synced, PastUpdate, Succeeds, Redoes
  <2> QED BY <1>2, <1>3, <1>4, <2>1, <2>2, <2>3, <2>4, MoveKeeps
<1>7. CASE ReadSource(w)
  <2> DEFINE c == Available(Doc(w))
             r == IF c = NoContent
                  THEN [worker[w] EXCEPT !.pc = "fail", !.outcome = "rejected"]
                  ELSE [worker[w] EXCEPT !.pc = "update", !.content = c]
  <2>1. worker' = [worker EXCEPT ![w] = r] /\ worker[w].pc = "read"
    BY <1>7 DEF ReadSource
  <2>2. c # NoContent => c = Target(Doc(w))
    BY DEF Available, Target
  <2>3. /\ r.event = worker[w].event /\ r.pc \in {"fail", "update"}
        /\ r.pc = "update" => r.content = Target(Doc(w))
    BY <1>1, <2>2 DEF WorkerRecord
  <2> HIDE DEF r, c
  <2>4. Synced(r) /\ Redoes(r, event[r.event].doc)
    BY <1>1, <1>5, <2>1, <2>3 DEF Synced, PastUpdate, Succeeds, Redoes
  <2> QED BY <1>2, <1>3, <1>4, <1>5, <2>1, <2>3, <2>4, MoveKeeps
<1>8. CASE ReadExisting(w)
  <2> DEFINE d == Doc(w)
  <2>1. PICK f \in Readings(d) :
          worker' = [worker EXCEPT ![w].pc = "store", ![w].existing = f]
    BY <1>8 DEF ReadExisting
  <2> DEFINE r == [worker[w] EXCEPT !.pc = "store", !.existing = f]
  <2>2. worker' = [worker EXCEPT ![w] = r] /\ worker[w].pc = "chunk"
    BY <1>1, <1>8, <2>1 DEF ReadExisting
  <2>3. /\ r.event = worker[w].event /\ r.pc = "store" /\ r.content = worker[w].content
        /\ r.existing = f
    BY <1>1 DEF WorkerRecord
  <2>4. d \in Docs /\ d = event[worker[w].event].doc /\ worker[w].event \in Events
    BY <1>5, <2>2
  <2>5. /\ rows[d] \in [Indexes -> [Texts -> Nat]] /\ OneTextEach(d)
        /\ worker[w].content \in Seq(Texts)
    BY <1>1, <2>2, <2>4 DEF IngestInv, TypeOK, CompleteInv, WorkerFits
  <2>6. /\ f \in [Indexes -> Texts \cup {NoText}]
        /\ \A i \in Indexes : f[i] = NoText => \A t \in Texts : rows[d][i][t] = 0
        /\ \A i \in Indexes : f[i] # NoText => rows[d][i][f[i]] > 0
    BY <2>1 DEF Readings
  <2> HIDE DEF r, d
  <2>7. OnlySince(r, d)
    <3> SUFFICES ASSUME NEW i \in Indexes, NEW t \in Texts, rows[d][i][t] > 0
                 PROVE  t = f[i]
      BY <2>3 DEF OnlySince
    <3>1. f[i] # NoText
      BY <2>6
    <3>2. f[i] \in Texts /\ rows[d][i][f[i]] > 0
      BY <2>6, <3>1
    <3> QED BY <2>5, <3>2 DEF OneTextEach
  <2>8. Restores(r, d)
    <3> SUFFICES ASSUME NEW i \in Indexes, i <= Len(r.content), f[i] = r.content[i]
                 PROVE  rows[d][i][r.content[i]] > 0
      BY <2>3 DEF Restores
    <3>1. r.content[i] \in Texts
      BY <2>3, <2>5 DEF Indexes
    <3> QED BY <2>6, <3>1
  <2>9. Synced(r) /\ Redoes(r, event[r.event].doc)
    BY <1>1, <2>2, <2>3, <2>4, <2>7, <2>8 DEF Synced, PastUpdate, Succeeds, Redoes
  <2> QED BY <1>2, <1>3, <1>4, <2>2, <2>3, <2>4, <2>9, MoveKeeps
<1> QED BY <1>6, <1>7, <1>8

\* What the chunk transaction of a worker leaves, though the rows may have
\* changed since it read them: its content and nothing else, and all of it if
\* what it did not write again was still there.
LEMMA StoreLeaves ==
  ASSUME IngestInv, CompleteInv, NEW w \in Workers, Store(w),
         NEW d, d = Doc(w), NEW c, c = worker[w].content
  PROVE  /\ d \in Docs /\ c \in Contents /\ c \in Seq(Texts)
         /\ \A b \in Docs \ {d} : rows'[b] = rows[b]
         /\ \A i \in Indexes, t \in Texts :
              rows'[d][i][t] > 0 => i <= Len(c) /\ c[i] = t
         /\ \A i \in Indexes : i <= Len(c) =>
              /\ c[i] \in Texts
              /\ rows[d][i][c[i]] > 0 => rows'[d][i][c[i]] > 0
              /\ Restores(worker[w], d) => rows'[d][i][c[i]] > 0
<1> USE IngestAssumption
<1> DEFINE E == worker[w].existing
<1>1. /\ worker[w].pc = "store" /\ worker[w] \in WorkerRecord /\ WorkerFits(worker[w], event)
      /\ d \in Docs /\ rows \in [Docs -> [Indexes -> [Texts -> Nat]]]
      /\ d = event[worker[w].event].doc /\ Synced(worker[w])
  BY BusyTypes, BusyDoc DEF IngestInv, TypeOK, CompleteInv, Store
<1>2. c \in Contents /\ c \in Seq(Texts) /\ E \in [Indexes -> Texts \cup {NoText}]
  BY <1>1 DEF WorkerFits, WorkerRecord
<1>3. OnlySince(worker[w], d)
  BY <1>1 DEF Synced
<1>4. rows' = [rows EXCEPT ![d] =
        [i \in Indexes |-> [t \in Texts |->
           (IF i \in Dropped(w) THEN 0 ELSE rows[d][i][t])
           + (IF i \in ToEmbed(w) /\ c[i] = t THEN 1 ELSE 0)]]]
  BY <1>1, Zenon DEF Store
<1>5. \A b \in Docs \ {d} : rows'[b] = rows[b]
  BY <1>1, <1>4
<1>6. ASSUME NEW i \in Indexes, NEW t \in Texts
      PROVE  rows'[d][i][t] = (IF i \in Dropped(w) THEN 0 ELSE rows[d][i][t])
                              + (IF i \in ToEmbed(w) /\ c[i] = t THEN 1 ELSE 0)
  BY <1>1, <1>4, Zenon
<1>7. \A i \in Indexes : /\ i \in ToEmbed(w) <=> i <= Len(c) /\ E[i] # c[i]
                         /\ i <= Len(c) => c[i] \in Texts
                         /\ i \in Nat /\ Len(c) \in Nat
                         /\ i <= Len(c) => (i \in Dropped(w) <=> E[i] # c[i] /\ E[i] # NoText)
                         /\ i > Len(c) /\ E[i] # NoText => i \in Dropped(w)
  BY <1>2 DEF ToEmbed, Dropped, Indexes
<1>8. ASSUME NEW i \in Indexes, NEW t \in Texts, rows'[d][i][t] > 0
      PROVE  i <= Len(c) /\ c[i] = t
  <2>1. CASE i \in ToEmbed(w) /\ c[i] = t
    BY <1>7, <2>1
  <2>2. CASE ~(i \in ToEmbed(w) /\ c[i] = t)
    <3>0. rows[d][i][t] \in Nat
      BY <1>1
    <3>1. i \notin Dropped(w) /\ rows[d][i][t] > 0
      <4>1. rows'[d][i][t] = (IF i \in Dropped(w) THEN 0 ELSE rows[d][i][t]) + 0
        BY <1>6, <2>2
      <4>2. CASE i \in Dropped(w)
        <5>1. rows'[d][i][t] = 0
          BY <4>1, <4>2
        <5> QED BY <1>8, <5>1
      <4>3. CASE i \notin Dropped(w)
        <5>1. rows'[d][i][t] = rows[d][i][t]
          BY <3>0, <4>1, <4>3
        <5> QED BY <1>8, <4>3, <5>1
      <4> QED BY <4>2, <4>3
    <3>2. t = E[i] \/ (i <= Len(c) /\ t = c[i])
      BY <1>3, <3>1 DEF OnlySince
    <3>3. CASE t = E[i]
      <4>1. E[i] # NoText
        BY <3>3
      <4>2. i <= Len(c) /\ E[i] = c[i]
        BY <1>7, <3>1, <4>1
      <4> QED BY <3>3, <4>2
    <3> QED BY <3>2, <3>3
  <2> QED BY <2>1, <2>2
<1>9. ASSUME NEW i \in Indexes, i <= Len(c), rows[d][i][c[i]] > 0 \/ Restores(worker[w], d)
      PROVE  rows'[d][i][c[i]] > 0
  <2>1. c[i] \in Texts /\ rows[d][i][c[i]] \in Nat
    BY <1>1, <1>7, <1>9
  <2>2. CASE i \in ToEmbed(w)
    <3>1. rows'[d][i][c[i]] = (IF i \in Dropped(w) THEN 0 ELSE rows[d][i][c[i]]) + 1
      BY <1>6, <2>1, <2>2
    <3> QED BY <2>1, <3>1
  <2>3. CASE i \notin ToEmbed(w)
    <3>1. E[i] = c[i] /\ i \notin Dropped(w)
      BY <1>7, <1>9, <2>3
    <3>2. rows'[d][i][c[i]] = rows[d][i][c[i]] + 0
      BY <1>6, <2>1, <2>3, <3>1
    <3>3. rows[d][i][c[i]] > 0
      BY <1>9, <3>1 DEF Restores
    <3> QED BY <2>1, <3>2, <3>3
  <2> QED BY <2>2, <2>3
<1> HIDE DEF E
<1> QED BY <1>1, <1>2, <1>5, <1>7, <1>8, <1>9

\* The chunk transaction of one worker suits the others: all of them have the
\* same content in hand.
LEMMA StoreComplete ==
  ASSUME IngestInv, CompleteInv, NEW w \in Workers, Store(w)
  PROVE  CompleteInv'
<1> PICK d : d = Doc(w)
  OBVIOUS
<1> PICK c : c = worker[w].content
  OBVIOUS
<1>1. /\ worker[w].pc = "store" /\ worker[w] \in WorkerRecord
      /\ UNCHANGED <<source, doc, event, client, found>>
      /\ worker' = [worker EXCEPT ![w].pc = "finalize"]
      /\ worker \in [Workers -> WorkerRecord]
  BY DEF Store, Goto, IngestInv, TypeOK
<1>2. /\ d \in Docs /\ c \in Contents /\ c \in Seq(Texts)
      /\ \A b \in Docs \ {d} : rows'[b] = rows[b]
      /\ \A i \in Indexes, t \in Texts :
           rows'[d][i][t] > 0 => i <= Len(c) /\ c[i] = t
      /\ \A i \in Indexes : i <= Len(c) =>
           /\ c[i] \in Texts
           /\ rows[d][i][c[i]] > 0 => rows'[d][i][c[i]] > 0
           /\ Restores(worker[w], d) => rows'[d][i][c[i]] > 0
  BY StoreLeaves
<1>3. /\ d = event[worker[w].event].doc /\ worker[w].event \in Events
      /\ c = Target(d) /\ doc[d].raw = c
  <2>1. Synced(worker[w])
    BY DEF CompleteInv
  <2> QED BY <1>1, <2>1, BusyDoc DEF Synced, PastUpdate
<1>4. /\ worker'[w].pc = "finalize" /\ worker'[w].event = worker[w].event
      /\ worker'[w].content = c
      /\ \A v \in Workers \ {w} : worker'[v] = worker[v]
  BY <1>1 DEF WorkerRecord
<1>5. \A b \in Docs : Target(b)' = Target(b)
  BY <1>1 DEF Target
<1>6. ASSUME NEW v \in Workers, v # w, worker[v].pc # "idle"
      PROVE  LET b == event[worker[v].event].doc IN
             /\ b \in Docs /\ worker[v].event \in Events
             /\ worker[v].pc = "store" /\ b = d => worker[v].content = c
  <2>1. Synced(worker[v])
    BY DEF CompleteInv
  <2> QED BY <1>3, <1>6, <2>1, BusyDoc DEF Synced, PastUpdate
<1>7. ASSUME NEW v \in Workers
      PROVE  Synced(worker[v])'
  <2>1. Synced(worker[v])
    BY DEF CompleteInv
  <2>2. CASE v = w
    <3>1. Synced(worker[w])
      BY DEF CompleteInv
    <3> PICK r : r = worker'[w]
      OBVIOUS
    <3>2. /\ r.pc = "finalize" /\ r.event = worker[w].event /\ r.content = c
          /\ event'[r.event].doc = d /\ doc'[d].raw = c /\ source' = source /\ doc' = doc
      BY <1>1, <1>3, <1>4
    <3>3. Synced(r)'
      BY <1>3, <3>2 DEF Synced, Target
    <3> QED BY <2>2, <3>2, <3>3 DEF Synced, Target
  <2>3. CASE v # w /\ worker[v].pc # "idle"
    <3> PICK q : q = worker[v]
      OBVIOUS
    <3>1. worker'[v] = q /\ q.pc # "idle"
      BY <1>4, <2>3
    <3> PICK b : b = event[q.event].doc
      OBVIOUS
    <3>2. b \in Docs /\ (q.pc = "store" /\ b = d => q.content = c)
      BY <1>6, <2>3
    <3>3. q.pc = "store" => OnlySince(q, b)'
      <4>1. CASE b # d
        BY <1>2, <2>1, <3>1, <3>2, <4>1 DEF Synced, OnlySince
      <4>2. CASE b = d
        BY <1>2, <3>2, <4>2 DEF OnlySince
      <4> QED BY <4>1, <4>2
    <3>4. /\ q.pc = "update" \/ PastUpdate(q) => q.content = Target(b)
          /\ PastUpdate(q) => doc[b].raw = q.content
          /\ event[q.event].status = "done" => doc[b].raw = Target(b)
      BY <2>1, <3>1 DEF Synced
    <3>5. Synced(q)'
      BY <1>1, <1>5, <3>2, <3>3, <3>4 DEF Synced
    <3> QED BY <3>1, <3>5 DEF Synced, Target, OnlySince
  <2>4. CASE v # w /\ worker[v].pc = "idle"
    BY <1>4, <2>4 DEF Synced
  <2> QED BY <2>2, <2>3, <2>4
<1>8. \A b \in Docs : OneTextEach(b)'
  <2>1. ASSUME NEW b \in Docs, b # d
        PROVE  OneTextEach(b)'
    BY <1>2, <2>1 DEF CompleteInv, OneTextEach
  <2>2. OneTextEach(d)'
    BY <1>2 DEF OneTextEach
  <2> QED BY <2>1, <2>2
<1>9. AllExist' /\ \A b \in Docs : Exists(b)' <=> Exists(b)
  BY <1>1 DEF CompleteInv, AllExist, Exists
<1>10. ASSUME \A i \in Indexes : i <= Len(c) => rows'[d][i][c[i]] > 0
       PROVE  Complete(d)'
  <2>1. \A i \in Indexes, t \in Texts : rows'[d][i][t] > 0 <=> i <= Len(c) /\ c[i] = t
    BY <1>2, <1>10
  <2>2. doc'[d].raw = c
    BY <1>1, <1>3
  <2> QED BY <1>2, <2>1, <2>2 DEF Complete, Holds
<1>11. Complete(d) \/ Restores(worker[w], d) => Complete(d)'
  <2>1. ASSUME Complete(d), NEW i \in Indexes, i <= Len(c)
        PROVE  rows[d][i][c[i]] > 0
    <3>1. c[i] \in Texts
      BY <1>2, <2>1
    <3>2. Holds(d, c)
      BY <1>3, <2>1 DEF Complete
    <3> QED BY <2>1, <3>1, <3>2 DEF Holds
  <2> QED BY <1>2, <1>10, <2>1
<1>12. ASSUME NEW e \in Events, Fresh(e), event[e].doc \in Docs
       PROVE  Fresh(e)' \/ (event[e].doc = d /\ Complete(d)')
  <2>1. CASE worker[w].event = e
    <3>1. Redoes(worker[w], d)
      BY <1>1, <1>3, <1>12, <2>1 DEF Fresh
    <3> QED BY <1>1, <1>3, <1>11, <2>1, <3>1 DEF Redoes
  <2>2. CASE worker[w].event # e
    <3>1. ASSUME NEW v \in Workers, worker'[v].pc # "idle", worker'[v].event = e
          PROVE  Redoes(worker[v], event[e].doc)'
      <4>1. v # w /\ worker'[v] = worker[v]
        BY <1>4, <2>2, <3>1
      <4> PICK q : q = worker[v]
        OBVIOUS
      <4> PICK b : b = event[e].doc
        OBVIOUS
      <4>2. /\ ~Succeeds(q) /\ (q.pc = "store" => Restores(q, b)) /\ b \in Docs
            /\ q.pc = "store" /\ b = d => q.content = c
        BY <1>6, <1>12, <3>1, <4>1 DEF Fresh, Redoes
      <4>3. ASSUME q.pc = "store"
            PROVE  \A i \in Indexes : i <= Len(q.content) /\ q.existing[i] = q.content[i]
                                        => rows'[b][i][q.content[i]] > 0
        <5>1. CASE b = d
          BY <1>2, <4>2, <4>3, <5>1 DEF Restores
        <5>2. CASE b # d
          BY <1>2, <4>2, <4>3, <5>2 DEF Restores
        <5> QED BY <5>1, <5>2
      <4>4. worker'[v] = q /\ event'[e].doc = b
        BY <1>1, <4>1
      <4> QED BY <4>2, <4>3, <4>4 DEF Redoes, Restores
    <3>2. Fresh(e)'
      BY <1>1, <1>12, <3>1, FreshStays DEF Fresh
    <3> QED BY <3>2
  <2> QED BY <2>1, <2>2
<1>13. ASSUME NEW b \in Docs, Exists(b)
       PROVE  Complete(b)' \/ Covered(b)'
  <2>1. Complete(b) \/ Covered(b)
    BY <1>13 DEF CompleteInv
  <2>2. Complete(b) => Complete(b)'
    <3>1. CASE b = d
      BY <1>11, <3>1
    <3>2. CASE b # d
      <4>1. SameDoc(b)
        BY <1>1, <1>2, <3>2 DEF SameDoc
      <4> QED BY <4>1, DocStays
    <3> QED BY <3>1, <3>2
  <2>3. Covered(b) => Covered(b)' \/ Complete(b)'
    BY <1>1, <1>12 DEF Covered
  <2> QED BY <2>1, <2>2, <2>3
<1> QED BY <1>7, <1>8, <1>9, <1>13 DEF CompleteInv

\* The UPDATE may take the document away from the content its chunks are of;
\* the event being handled will then bring the chunks after it.
LEMMA UpdateComplete ==
  ASSUME IngestInv, CompleteInv, NEW w \in Workers, UpdateRow(w)
  PROVE  CompleteInv'
<1> PICK d : d = Doc(w)
  OBVIOUS
<1> PICK c : c = worker[w].content
  OBVIOUS
<1> PICK f : f = worker[w].event
  OBVIOUS
<1>1. /\ worker[w].pc = "update" /\ worker[w] \in WorkerRecord
      /\ worker \in [Workers -> WorkerRecord] /\ doc \in [Docs -> DocRecord]
      /\ event \in [Events -> EventRecord]
      /\ UNCHANGED <<source, rows, event, client, found>>
  BY DEF UpdateRow, IngestInv, TypeOK
<1>2. /\ f \in Events /\ event[f].doc = d /\ d \in Docs /\ Exists(d)
      /\ event[f].status # "absent"
      /\ c \in Contents /\ c = Target(d) /\ (event[f].status = "done" => doc[d].raw = c)
  <2>1. Synced(worker[w]) /\ WorkerFits(worker[w], event)
    BY DEF CompleteInv, IngestInv, WorkersFit
  <2> QED BY <1>1, <2>1, BusyDoc DEF Synced, WorkerFits
<1>3. CASE UNCHANGED doc
  <2> DEFINE r == [worker[w] EXCEPT !.pc = "fail", !.outcome = "rejected"]
             g == [worker[w] EXCEPT !.pc = "chunk"]
  <2>1. worker' = [worker EXCEPT ![w] = r] \/ worker' = [worker EXCEPT ![w] = g]
    BY <1>1 DEF UpdateRow, Goto
  <2>2. r.pc = "fail" /\ r.event = f
    BY <1>1 DEF WorkerRecord
  <2>3. g.pc = "chunk" /\ g.event = f /\ g.content = c
    BY <1>1 DEF WorkerRecord
  <2>4. worker' = [worker EXCEPT ![w] = g] => doc[d].raw = c
    <3>1. ASSUME worker' = [worker EXCEPT ![w] = g]
          PROVE  doc' = [doc EXCEPT ![d].raw = c, ![d].hash = c]
      <4>1. worker'[w].pc = "chunk"
        BY <1>1, <2>3, <3>1
      <4>2. worker' # [worker EXCEPT ![w].pc = "fail", ![w].outcome = "rejected"]
        BY <1>1, <4>1 DEF WorkerRecord
      <4> QED BY <4>2 DEF UpdateRow
    <3>2. ASSUME doc' = [doc EXCEPT ![d].raw = c, ![d].hash = c]
          PROVE  doc'[d].raw = c
      BY <1>1, <1>2, <3>2 DEF DocRecord
    <3> QED BY <1>3, <3>1, <3>2
  <2> HIDE DEF r, g
  <2>5. Synced(worker[w])
    BY DEF CompleteInv
  <2>6. Synced(r) /\ Redoes(r, d)
    BY <1>1, <2>2, <2>5, SyncedOnward DEF PastUpdate, Succeeds, Redoes
  <2>7. doc[d].raw = c => Synced(g) /\ Redoes(g, d)
    BY <1>2, <2>3 DEF Synced, PastUpdate, Succeeds, Redoes
  <2> QED BY <1>1, <1>2, <1>3, <2>1, <2>2, <2>3, <2>4, <2>6, <2>7, MoveKeeps
<1>4. CASE doc' # doc
  <2>1. /\ worker' = [worker EXCEPT ![w].pc = "chunk"]
        /\ doc' = [doc EXCEPT ![d].raw = c, ![d].hash = c]
    BY <1>4 DEF UpdateRow, Goto
  <2>2. /\ worker'[w].pc = "chunk" /\ worker'[w].event = f /\ worker'[w].content = c
        /\ \A v \in Workers \ {w} : worker'[v] = worker[v]
    BY <1>1, <2>1 DEF WorkerRecord
  <2>3. /\ doc'[d].raw = c /\ doc'[d].state = doc[d].state
        /\ \A b \in Docs \ {d} : doc'[b] = doc[b]
    BY <1>1, <1>2, <2>1 DEF DocRecord
  <2>4. ASSUME NEW b \in Docs
        PROVE  Target(b)' = Target(b)
    BY <1>1, <1>2, <2>3 DEF Target
  <2>5. ASSUME NEW v \in Workers
        PROVE  Synced(worker[v])'
    <3> PICK q : q = worker'[v]
      OBVIOUS
    <3> PICK b : b = event[q.event].doc
      OBVIOUS
    <3>1. CASE q.pc = "idle"
      BY <3>1 DEF Synced
    <3>2. CASE v = w
      <4>1. Synced(q)'
        BY <1>1, <1>2, <2>2, <2>3, <2>4, <3>2 DEF Synced
      <4> QED BY <4>1 DEF Synced, Target, OnlySince
    <3>3. CASE v # w /\ q.pc # "idle"
      <4>1. q = worker[v] /\ Synced(q)
        BY <2>2, <3>3 DEF CompleteInv
      <4>2. b \in Docs /\ q.event \in Events
        BY <3>3, <4>1, BusyDoc
      <4>3. /\ q.pc = "update" \/ PastUpdate(q) => q.content = Target(b)
            /\ PastUpdate(q) => doc[b].raw = q.content
            /\ event[q.event].status = "done" => doc[b].raw = Target(b)
            /\ q.pc = "store" => OnlySince(q, b)
        BY <3>3, <4>1 DEF Synced
      <4>4. /\ PastUpdate(q) => doc'[b].raw = q.content
            /\ event[q.event].status = "done" => doc'[b].raw = Target(b)
        BY <1>2, <2>3, <4>2, <4>3
      <4>5. q.pc = "store" => OnlySince(q, b)'
        BY <1>1, <4>3 DEF OnlySince
      <4>6. Synced(q)'
        BY <1>1, <2>4, <4>2, <4>3, <4>4, <4>5 DEF Synced
      <4> QED BY <4>6 DEF Synced, Target, OnlySince
    <3> QED BY <3>1, <3>2, <3>3
  <2>6. \A b \in Docs : OneTextEach(b)'
    BY <1>1 DEF CompleteInv, OneTextEach
  <2>7. \A b \in Docs : Exists(b)' <=> Exists(b)
    BY <2>3 DEF Exists
  <2>8. AllExist'
    <3>1. /\ \A e \in Events : event[e].status # "absent" => event[e].doc \in Docs
          /\ found \subseteq Docs /\ (client.pc # "idle" => client.doc \in Docs)
      BY DEF IngestInv, TypeOK, EventHasDoc, ClientHasDoc
    <3> QED BY <1>1, <2>3, <3>1 DEF CompleteInv, AllExist, Exists
  <2>9. ASSUME NEW e \in Events, Fresh(e)
        PROVE  Fresh(e)'
    <3>1. ASSUME NEW v \in Workers, worker'[v].pc # "idle", worker'[v].event = e
          PROVE  Redoes(worker[v], event[e].doc)'
      <4>1. CASE v = w
        BY <2>2, <4>1 DEF Redoes, Succeeds
      <4>2. CASE v # w
        <5>1. worker'[v] = worker[v]
          BY <2>2, <4>2
        <5>2. Redoes(worker[v], event[e].doc)
          BY <2>9, <3>1, <5>1 DEF Fresh
        <5> QED BY <1>1, <5>1, <5>2 DEF Redoes, Restores
      <4> QED BY <4>1, <4>2
    <3> QED BY <1>1, <2>9, <3>1, FreshStays DEF Fresh
  <2>10. doc[d].raw # c => Fresh(f)'
    <3> SUFFICES ASSUME doc[d].raw # c PROVE Fresh(f)'
      OBVIOUS
    <3>1. event[f].status \in {"pending", "rejected", "dead"}
      BY <1>1, <1>2 DEF EventRecord
    <3>2. ASSUME NEW v \in Workers, worker'[v].pc # "idle", worker'[v].event = f
          PROVE  Redoes(worker[v], event[f].doc)'
      <4>1. CASE v = w
        BY <2>2, <4>1 DEF Redoes, Succeeds
      <4>2. CASE v # w
        <5>1. worker'[v] = worker[v] /\ Synced(worker[v])
          BY <2>2, <4>2 DEF CompleteInv
        <5>2. ~PastUpdate(worker[v])
          BY <1>2, <3>2, <5>1 DEF Synced
        <5> QED BY <5>1, <5>2 DEF Redoes, PastUpdate, Succeeds
      <4> QED BY <4>1, <4>2
    <3> QED BY <1>1, <3>1, <3>2 DEF Fresh
  <2>11. ASSUME NEW b \in Docs, Exists(b)
         PROVE  Complete(b)' \/ Covered(b)'
    <3>1. Complete(b) \/ Covered(b)
      BY <2>11 DEF CompleteInv
    <3>2. Covered(b) => Covered(b)'
      BY <1>1, <2>9 DEF Covered
    <3>3. CASE b = d /\ doc[d].raw # c
      BY <1>1, <1>2, <2>10, <3>3 DEF Covered
    <3>4. CASE ~(b = d /\ doc[d].raw # c)
      <4>1. SameDoc(b)
        BY <1>1, <2>3, <3>4 DEF SameDoc
      <4> QED BY <3>1, <3>2, <4>1, DocStays
    <3> QED BY <3>3, <3>4
  <2> QED BY <2>5, <2>6, <2>7, <2>8, <2>11 DEF CompleteInv
<1> QED BY <1>3, <1>4

\* An event is finished: its workers have brought the document up to date, and
\* one of them stored its chunks.
LEMMA AcknowledgeComplete ==
  ASSUME IngestInv, CompleteInv, NEW w \in Workers, Acknowledge(w)
  PROVE  CompleteInv'
<1> PICK f : f = worker[w].event
  OBVIOUS
<1>1. /\ worker[w].pc = "ack" /\ worker \in [Workers -> WorkerRecord]
      /\ event \in [Events -> EventRecord] /\ Synced(worker[w])
      /\ UNCHANGED <<source, doc, rows, client, found>>
      /\ worker[w].outcome \in {"done", "rejected"}
  BY DEF Acknowledge, IngestInv, TypeOK, CompleteInv, WorkersFit, WorkerFits
<1>2. f \in Events /\ event[f].status # "absent" /\ event[f].doc \in Docs
  BY <1>1, BusyDoc
<1>3. /\ \A e \in Events : event'[e].doc = event[e].doc
      /\ \A e \in Events \ {f} : event'[e] = event[e]
      /\ event'[f].status = IF event[f].status = "pending" THEN worker[w].outcome
                            ELSE event[f].status
  BY <1>1, <1>2 DEF Acknowledge, EventRecord
<1>4. worker'[w].pc = "idle" /\ \A v \in Workers \ {w} : worker'[v] = worker[v]
  BY <1>1 DEF Acknowledge, IdleWorker
<1>5. worker[w].outcome = "done" => /\ doc[event[f].doc].raw = Target(event[f].doc)
                                    /\ Succeeds(worker[w])
  BY <1>1 DEF Synced, PastUpdate, Succeeds
<1>6. ASSUME NEW v \in Workers
      PROVE  Synced(worker[v])'
  <2> PICK q : q = worker'[v]
    OBVIOUS
  <2>1. CASE q.pc = "idle"
    BY <2>1 DEF Synced
  <2>2. CASE q.pc # "idle"
    <3>1. q = worker[v] /\ Synced(q)
      BY <1>4, <2>2 DEF CompleteInv
    <3>2. q.event \in Events
      BY <2>2, <3>1, BusyDoc
    <3>3. event'[q.event].status = "done"
            => doc[event[q.event].doc].raw = Target(event[q.event].doc)
      BY <1>1, <1>3, <1>5, <2>2, <3>1, <3>2 DEF Synced
    <3>4. Synced(q)'
      BY <1>1, <1>3, <2>2, <3>1, <3>2, <3>3 DEF Synced, Target, OnlySince
    <3> QED BY <3>4 DEF Synced, Target, OnlySince
  <2> QED BY <2>1, <2>2
<1>7. \A b \in Docs : SameDoc(b) /\ (Exists(b)' <=> Exists(b))
  BY <1>1 DEF SameDoc, Exists
<1>8. AllExist'
  BY <1>1, <1>2, <1>3 DEF CompleteInv, AllExist, Exists
<1>9. ASSUME NEW e \in Events, Fresh(e)
      PROVE  Fresh(e)'
  <2>1. event'[e].status \in {"pending", "rejected", "dead"}
    <3>1. CASE e = f /\ worker[w].outcome = "done"
      BY <1>1, <1>5, <1>9, <3>1 DEF Fresh, Redoes
    <3>2. CASE ~(e = f /\ worker[w].outcome = "done")
      BY <1>1, <1>2, <1>3, <1>9, <3>2 DEF Fresh
    <3> QED BY <3>1, <3>2
  <2>2. ASSUME NEW v \in Workers, worker'[v].pc # "idle", worker'[v].event = e
        PROVE  Redoes(worker[v], event[e].doc)'
    <3>1. worker'[v] = worker[v]
      BY <1>4, <2>2
    <3>2. Redoes(worker[v], event[e].doc)
      BY <1>9, <2>2, <3>1 DEF Fresh
    <3> QED BY <1>1, <1>3, <3>1, <3>2 DEF Redoes, Restores
  <2> QED BY <1>3, <1>9, <2>1, <2>2, FreshStays
<1>10. ASSUME NEW b \in Docs, Exists(b)
       PROVE  Complete(b)' \/ Covered(b)'
  <2>1. Complete(b) \/ Covered(b)
    BY <1>10 DEF CompleteInv
  <2>2. Covered(b) => Covered(b)'
    BY <1>1, <1>3, <1>9 DEF Covered
  <2> QED BY <1>7, <2>1, <2>2, DocStays
<1> QED BY <1>6, <1>7, <1>8, <1>10, DocStays DEF CompleteInv

\* The steps that leave the workers alone.  They may announce a new event,
\* and change a document that no worker is at work on.
LEMMA OutsideKeeps ==
  ASSUME IngestInv, CompleteInv, UNCHANGED worker, AllExist',
         \A e \in Events :
           /\ event[e].status # "absent" => event'[e].doc = event[e].doc
           /\ event'[e].status = "done" => event[e].status = "done"
           /\ event[e].status \in {"pending", "rejected", "dead"}
                => event'[e].status \in {"pending", "rejected", "dead"},
         \A w \in Workers : worker[w].pc # "idle" => SameDoc(Doc(w)),
         \A d \in Docs : rows'[d] = rows[d],
         \A d \in Docs : Exists(d)' => \/ Exists(d) /\ doc'[d].raw = doc[d].raw
                                      \/ Covered(d)',
         \A d \in Docs : client.pc # "idle" /\ client.doc = d => Covered(d)'
  PROVE  CompleteInv'
<1>1. ASSUME NEW w \in Workers
      PROVE  Synced(worker[w])'
  <2> PICK q : q = worker[w]
    OBVIOUS
  <2>1. worker'[w] = q /\ Synced(q)
    BY DEF CompleteInv
  <2>2. q.pc # "idle" => /\ event'[q.event].doc = event[q.event].doc
                         /\ event'[q.event].status = "done" => event[q.event].status = "done"
                         /\ SameDoc(event[q.event].doc)
    BY BusyDoc
  <2>3. Synced(q)'
    BY <2>1, <2>2, SyncedStays
  <2> QED BY <2>1, <2>3 DEF Synced, Target, OnlySince
<1>2. \A d \in Docs : OneTextEach(d)'
  BY DEF CompleteInv, OneTextEach
<1>3. ASSUME NEW e \in Events, Fresh(e)
      PROVE  Fresh(e)'
  <2>1. /\ event'[e].status \in {"pending", "rejected", "dead"}
        /\ event'[e].doc = event[e].doc /\ event[e].doc \in Docs
    BY <1>3 DEF Fresh, IngestInv, EventHasDoc
  <2>2. ASSUME NEW v \in Workers, worker'[v].pc # "idle", worker'[v].event = e
        PROVE  Redoes(worker[v], event[e].doc)'
    BY <1>3, <2>1, <2>2 DEF Fresh, Redoes, Restores
  <2> QED BY <1>3, <2>1, <2>2, FreshStays
<1>4. ASSUME NEW d \in Docs, Exists(d)'
      PROVE  Complete(d)' \/ Covered(d)'
  <2>1. CASE Exists(d) /\ doc'[d].raw = doc[d].raw
    <3>1. Complete(d) \/ Covered(d)
      BY <2>1 DEF CompleteInv
    <3>2. Complete(d) => Complete(d)'
      BY <2>1 DEF Complete, Holds
    <3>3. ASSUME NEW e \in Events, event[e].doc = d, Fresh(e)
          PROVE  Covered(d)'
      <4>1. Fresh(e)' /\ event'[e].doc = d
        BY <1>3, <3>3 DEF Fresh
      <4> QED BY <4>1 DEF Covered
    <3> QED BY <3>1, <3>2, <3>3 DEF Covered
  <2> QED BY <1>4, <2>1
<1> QED BY <1>1, <1>2, <1>4 DEF CompleteInv

\* No worker has an event that is only now announced.
LEMMA AnnouncedFresh ==
  ASSUME IngestInv, CompleteInv, UNCHANGED worker, NEW e \in Events,
         event[e].status = "absent", event'[e].status = "pending"
  PROVE  Fresh(e)'
<1>1. \A w \in Workers : worker[w].pc # "idle" => worker[w].event # e
  BY BusyDoc
<1> QED BY <1>1 DEF Fresh

\* What exists, in types.
LEMMA NamedDocs ==
  ASSUME IngestInv
  PROVE  /\ doc \in [Docs -> DocRecord] /\ event \in [Events -> EventRecord]
         /\ rows \in [Docs -> [Indexes -> [Texts -> Nat]]]
         /\ client \in ClientRecord /\ found \subseteq Docs /\ source \in [Docs -> Contents]
         /\ \A e \in Events : event[e].status # "absent" => event[e].doc \in Docs
         /\ client.pc # "idle" => client.doc \in Docs
BY DEF IngestInv, TypeOK, EventHasDoc, ClientHasDoc

\* Sources, the sweep, time and the bus.
LEMMA SurroundingsComplete ==
  ASSUME Undisturbed, IngestInv, CompleteInv,
         \/ \E d \in Docs : Edit(d) \/ ReplayFails(d) \/ \E e \in Events : Replay(d, e)
         \/ SweepScan
         \/ \E e \in Events : DeadLetter(e) \/ CooldownPasses(e)
  PROVE  CompleteInv'
<1>1. UNCHANGED <<doc, rows, worker, client>>
  BY DEF Edit, ReplayFails, Replay, SweepScan, DeadLetter, CooldownPasses
<1>2. /\ doc \in [Docs -> DocRecord] /\ event \in [Events -> EventRecord]
      /\ found \subseteq Docs
      /\ \A e \in Events : event[e].status # "absent" => event[e].doc \in Docs
  BY NamedDocs
<1>3. \A w \in Workers : worker[w].pc # "idle" => SameDoc(Doc(w))
  <2>1. CASE \E d \in Docs : Edit(d)
    <3>1. ~Busy
      BY <2>1 DEF Edit, Undisturbed
    <3> QED BY <3>1 DEF Busy
  <2>2. CASE ~ \E d \in Docs : Edit(d)
    BY <1>1, <2>2 DEF SameDoc, ReplayFails, Replay, SweepScan, DeadLetter, CooldownPasses
  <2> QED BY <2>1, <2>2
<1>4. \A e \in Events :
        /\ event[e].status # "absent" => event'[e].doc = event[e].doc
        /\ event'[e].status = "done" => event[e].status = "done"
        /\ event[e].status \in {"pending", "rejected", "dead"}
             => event'[e].status \in {"pending", "rejected", "dead"}
        /\ event'[e].status # "absent" => \/ event[e].status # "absent"
                                         \/ event'[e].doc \in found
  <2>1. ASSUME NEW d \in Docs, NEW e \in Events, Replay(d, e)
        PROVE  /\ event[e].status = "absent" /\ event'[e].status = "pending"
               /\ event'[e].doc \in found /\ \A g \in Events \ {e} : event'[g] = event[g]
    BY <1>2, <2>1 DEF Replay, Announce, IsNext, Unused, EventRecord
  <2>2. ASSUME NEW e \in Events, DeadLetter(e)
        PROVE  /\ event[e].status = "pending" /\ event'[e].status = "dead"
               /\ event'[e].doc = event[e].doc /\ \A g \in Events \ {e} : event'[g] = event[g]
    BY <1>2, <2>2 DEF DeadLetter, EventRecord
  <2>3. \/ \E d \in Docs, e \in Events : Replay(d, e)
        \/ \E e \in Events : DeadLetter(e)
        \/ UNCHANGED event
    BY DEF Edit, ReplayFails, SweepScan, CooldownPasses
  <2> QED BY <2>1, <2>2, <2>3
<1>5. \A d \in found' : d \in found \/ Exists(d)
  BY <1>2 DEF Edit, ReplayFails, Replay, SweepScan, DeadLetter, CooldownPasses, Sweepable,
     Stuck, Live, Exists
<1>6. AllExist'
  BY <1>1, <1>4, <1>5 DEF CompleteInv, AllExist, Exists
<1>7. \A d \in Docs : client.pc # "idle" /\ client.doc = d => Covered(d)'
  BY <1>1 DEF Covered
<1> QED BY <1>1, <1>3, <1>4, <1>6, <1>7, OutsideKeeps DEF Exists

\* The requests of clients, but for the wipe of a rechunk.
LEMMA RequestsComplete ==
  ASSUME IngestInv, CompleteInv,
         \/ \E d \in Docs : UploadSave(d) \/ \E e \in Events : Post(d, e)
         \/ CreateJob \/ \E e \in Events : CommitEvent(e)
  PROVE  CompleteInv'
<1>1. UNCHANGED <<source, rows, worker, found>>
  BY DEF UploadSave, Post, CreateJob, CommitEvent
<1>2. /\ doc \in [Docs -> DocRecord] /\ event \in [Events -> EventRecord]
      /\ client \in ClientRecord /\ found \subseteq Docs
      /\ \A e \in Events : event[e].status # "absent" => event[e].doc \in Docs
      /\ client.pc # "idle" => client.doc \in Docs
      /\ AllExist
  BY NamedDocs DEF CompleteInv
<1>3. ASSUME NEW d \in Docs, UploadSave(d) PROVE CompleteInv'
  <2>1. /\ client.pc = "idle" /\ client'.pc = "job" /\ client'.doc = d /\ event' = event
        /\ doc'[d].state = "DRAFT" /\ doc'[d].raw = doc[d].raw
        /\ \A b \in Docs \ {d} : doc'[b] = doc[b]
    BY <1>2, <1>3 DEF UploadSave, IdleClient, DocRecord
  <2>2. AllExist'
    BY <1>1, <1>2, <2>1 DEF AllExist, Exists
  <2>3. \A b \in Docs : SameDoc(b)
    BY <1>1, <2>1 DEF SameDoc
  <2>4. \A b \in Docs : Exists(b)' => (Exists(b) /\ doc'[b].raw = doc[b].raw) \/ Covered(b)'
    BY <2>1 DEF Exists, Covered
  <2>5. \A w \in Workers : worker[w].pc # "idle" => SameDoc(Doc(w))
    BY <2>3, BusyDoc
  <2> QED BY <1>1, <2>1, <2>2, <2>4, <2>5, OutsideKeeps
<1>4. ASSUME NEW d \in Docs, NEW e \in Events, Post(d, e) PROVE CompleteInv'
  <2>1. /\ event[e].status = "absent" /\ event'[e].status = "pending" /\ event'[e].doc = d
        /\ \A g \in Events \ {e} : event'[g] = event[g]
        /\ ~Exists(d) /\ Exists(d)' /\ client' = client
        /\ \A b \in Docs \ {d} : doc'[b] = doc[b]
    <3>1. event' = [event EXCEPT ![e].status = "pending", ![e].doc = d]
          /\ event[e].status = "absent"
      BY <1>4 DEF Post, IsNext, Unused
    <3>2. /\ event'[e].status = "pending" /\ event'[e].doc = d
          /\ \A g \in Events \ {e} : event'[g] = event[g]
      BY <1>2, <3>1 DEF EventRecord
    <3>3. /\ doc' = [doc EXCEPT ![d].state = "DRAFT", ![d].raw = source[d],
                                ![d].hash = source[d]]
          /\ doc[d].state = "none" /\ client' = client
      BY <1>4 DEF Post
    <3>4. doc'[d].state = "DRAFT" /\ \A b \in Docs \ {d} : doc'[b] = doc[b]
      BY <1>2, <3>3 DEF DocRecord
    <3> QED BY <3>1, <3>2, <3>3, <3>4 DEF Exists
  <2>2. AllExist'
    BY <1>1, <1>2, <2>1 DEF AllExist, Exists
  <2>3. \A w \in Workers : worker[w].pc # "idle" => SameDoc(Doc(w))
    BY <1>1, <2>1, BusyDoc DEF SameDoc
  <2>4. Fresh(e)'
    BY <1>1, <2>1, AnnouncedFresh
  <2>5. \A b \in Docs : Exists(b)' => (Exists(b) /\ doc'[b].raw = doc[b].raw) \/ Covered(b)'
    BY <2>1, <2>4 DEF Exists, Covered
  <2>6. \A b \in Docs : client.pc # "idle" /\ client.doc = b => Covered(b)'
    BY <2>1 DEF Covered
  <2> QED BY <1>1, <2>1, <2>2, <2>3, <2>5, <2>6, OutsideKeeps
<1>5. CASE CreateJob
  <2>1. /\ client.pc = "job" /\ client'.pc = "commit" /\ client'.doc = client.doc
        /\ event' = event /\ doc' = doc
    BY <1>2, <1>5 DEF CreateJob, ClientRecord
  <2>2. AllExist'
    BY <1>1, <1>2, <2>1 DEF AllExist, Exists
  <2>3. \A w \in Workers : worker[w].pc # "idle" => SameDoc(Doc(w))
    BY <1>1, <2>1 DEF SameDoc
  <2>4. \A b \in Docs : client.pc # "idle" /\ client.doc = b => Covered(b)'
    BY <2>1 DEF Covered
  <2> QED BY <1>1, <2>1, <2>2, <2>3, <2>4, OutsideKeeps DEF Exists
<1>6. ASSUME NEW e \in Events, CommitEvent(e) PROVE CompleteInv'
  <2>1. /\ event[e].status = "absent" /\ event'[e].status = "pending"
        /\ event'[e].doc = client.doc /\ \A g \in Events \ {e} : event'[g] = event[g]
        /\ client.pc = "commit" /\ client'.pc = "idle" /\ doc' = doc
    <3>1. /\ event' = [event EXCEPT ![e].status = "pending", ![e].doc = client.doc,
                                    ![e].job = "queued"]
          /\ event[e].status = "absent"
      BY <1>6 DEF CommitEvent, Announce, IsNext, Unused
    <3>2. /\ event'[e].status = "pending" /\ event'[e].doc = client.doc
          /\ \A g \in Events \ {e} : event'[g] = event[g]
      BY <1>2, <3>1 DEF EventRecord
    <3>3. client.pc = "commit" /\ client'.pc = "idle" /\ doc' = doc
      BY <1>6 DEF CommitEvent, IdleClient
    <3> QED BY <3>1, <3>2, <3>3
  <2>2. AllExist'
    BY <1>1, <1>2, <2>1 DEF AllExist, Exists
  <2>3. \A w \in Workers : worker[w].pc # "idle" => SameDoc(Doc(w))
    BY <1>1, <2>1 DEF SameDoc
  <2>4. Fresh(e)'
    BY <1>1, <2>1, AnnouncedFresh
  <2>5. \A b \in Docs : client.pc # "idle" /\ client.doc = b => Covered(b)'
    BY <2>1, <2>4 DEF Covered
  <2> QED BY <1>1, <2>1, <2>2, <2>3, <2>5, OutsideKeeps DEF Exists
<1> QED BY <1>3, <1>4, <1>5, <1>6

\* The wipe of a rechunk is the one step that takes a complete document's
\* chunks away; the request will announce it.
LEMMA WipeComplete ==
  ASSUME IngestInv, CompleteInv, NEW d \in Docs, RechunkWipe(d)
  PROVE  CompleteInv'
<1>1. /\ UNCHANGED <<source, doc, event, worker, found>>
      /\ client.pc = "idle" /\ client'.pc = "job" /\ client'.doc = d /\ Exists(d)
  BY DEF RechunkWipe, IdleClient, Exists
<1>2. /\ \A i \in Indexes, t \in Texts : rows'[d][i][t] = 0
      /\ \A b \in Docs \ {d} : rows'[b] = rows[b]
  BY NamedDocs DEF RechunkWipe, NoRows
<1>3. ASSUME NEW w \in Workers
      PROVE  Synced(worker[w])'
  <2> PICK q : q = worker[w]
    OBVIOUS
  <2>1. worker'[w] = q /\ Synced(q)
    BY <1>1 DEF CompleteInv
  <2>2. q.pc # "idle" => event[q.event].doc \in Docs
    BY BusyDoc
  <2>3. ASSUME q.pc = "store" PROVE OnlySince(q, event[q.event].doc)'
    <3>1. event[q.event].doc \in Docs /\ OnlySince(q, event[q.event].doc)
      BY <2>1, <2>2, <2>3 DEF Synced
    <3> QED BY <1>1, <1>2, <3>1 DEF OnlySince
  <2>4. Synced(q)'
    BY <1>1, <2>1, <2>3 DEF Synced, Target
  <2> QED BY <2>1, <2>4 DEF Synced, Target, OnlySince
<1>4. \A b \in Docs : OneTextEach(b)'
  <2>1. OneTextEach(d)'
    BY <1>2 DEF OneTextEach
  <2>2. \A b \in Docs \ {d} : OneTextEach(b)'
    BY <1>2 DEF CompleteInv, OneTextEach
  <2> QED BY <2>1, <2>2
<1>5. AllExist'
  BY <1>1 DEF CompleteInv, AllExist, Exists
<1>6. ASSUME NEW b \in Docs, Exists(b)'
      PROVE  Complete(b)' \/ Covered(b)'
  <2>1. CASE b = d
    BY <1>1, <2>1 DEF Covered
  <2>2. CASE b # d
    <3>1. Complete(b) \/ Covered(b)
      BY <1>1, <1>6 DEF CompleteInv, Exists
    <3>2. SameDoc(b)
      BY <1>1, <1>2, <2>2 DEF SameDoc
    <3>3. ASSUME NEW e \in Events, event[e].doc = b, Fresh(e)
          PROVE  Fresh(e)'
      BY <1>1, <1>2, <2>2, <3>3 DEF Fresh, Redoes, Restores
    <3>4. Covered(b) => Covered(b)'
      BY <1>1, <3>3 DEF Covered
    <3> QED BY <3>1, <3>2, <3>4, DocStays
  <2> QED BY <2>1, <2>2
<1> QED BY <1>3, <1>4, <1>5, <1>6 DEF CompleteInv

LEMMA CompleteInit == Init => CompleteInv
<1> SUFFICES ASSUME Init PROVE CompleteInv
  OBVIOUS
<1>1. \A w \in Workers : Synced(worker[w])
  BY DEF Init, IdleWorker, Synced
<1>2. ASSUME NEW d \in Docs PROVE OneTextEach(d) /\ ~Exists(d)
  <2>1. doc[d].state = "none"
    BY DEF Init
  <2>2. rows[d] = NoRows
    BY DEF Init
  <2>3. \A i \in Indexes, t \in Texts : rows[d][i][t] = 0
    BY <2>2 DEF NoRows
  <2> QED BY <2>1, <2>3 DEF OneTextEach, Exists
<1>3. AllExist
  BY DEF Init, AllExist, IdleClient
<1> QED BY <1>1, <1>2, <1>3 DEF CompleteInv

LEMMA CompleteStep ==
  ASSUME Undisturbed, IngestInv, CompleteInv, [Next]_vars
  PROVE  CompleteInv'
<1>1. CASE Client
  <2>1. client.pc \in {"idle", "job", "commit"} /\ aborts \in Nat
    BY DEF CompleteInv, AllExist, IngestInv, TypeOK
  <2>2. /\ ~ \E d \in Docs : DeleteRead(d) \/ Purge(d)
        /\ ~DeleteWipe /\ ~DeleteArchive /\ ~ClientAborts
    <3>1. "delete" \notin Operations /\ "purge" \notin Operations
      BY DEF Undisturbed
    <3>2. ~DeleteWipe /\ ~DeleteArchive
      BY <2>1 DEF DeleteWipe, DeleteArchive
    <3>3. ~ClientAborts
      BY <2>1 DEF Undisturbed, ClientAborts
    <3> QED BY <3>1, <3>2, <3>3 DEF DeleteRead, Purge
  <2> QED BY <1>1, <2>2, RequestsComplete, WipeComplete DEF Client
<1>2. ASSUME NEW w \in Workers,
             \/ Step(w) \/ EmbedFails(w) \/ Fails(w) \/ Interrupt(w)
             \/ \E e \in Events : Deliver(w, e)
      PROVE  CompleteInv'
  BY <1>2, GoesOnComplete, ReadsComplete, UpdateComplete, StoreComplete, AcknowledgeComplete
     DEF Step
<1>3. CASE UNCHANGED vars
  <2>1. \A w \in Workers : SameDoc(Doc(w))
    BY <1>3 DEF vars, SameDoc
  <2>2. AllExist' /\ \A d \in Docs : client.pc # "idle" /\ client.doc = d => Covered(d)'
    BY <1>3 DEF vars, CompleteInv, AllExist, Exists, Covered
  <2> QED BY <1>3, <2>1, <2>2, OutsideKeeps DEF vars, Exists
<1> QED BY <1>1, <1>2, <1>3, SurroundingsComplete DEF Next

LEMMA InvIsComplete == CompleteInv => QuiescentIsComplete
<1> SUFFICES ASSUME CompleteInv, Quiescent, NEW d \in Docs, doc[d].state = "active"
             PROVE  Holds(d, doc[d].raw)
  BY DEF QuiescentIsComplete
<1>1. ~Covered(d)
  BY DEF Quiescent, Busy, Covered, Fresh
<1> QED BY <1>1 DEF CompleteInv, Exists, Complete

\* For any number of documents, events and workers, contents of any length and
\* any number of failures, crashes and redeliveries of workers: if nothing is
\* deleted, no request dies half-way and sources are not edited under a
\* worker, then a document all of whose events were handled has a row for
\* every chunk of its content and for nothing else.
THEOREM QuiescentIsCompleteThm ==
  ASSUME Undisturbed
  PROVE  SafeSpec => []QuiescentIsComplete
<1>1. IngestInv /\ CompleteInv /\ [Next]_vars => CompleteInv'
  BY CompleteStep
<1> QED BY <1>1, CompleteInit, InvIsComplete, IngestInvariance, PTL DEF SafeSpec
=============================================================================
