------------------------------ MODULE AnswerCache ------------------------------
(***************************************************************************)
(* The answer cache of one bot: the semantic_cache rows, the corpus        *)
(* version they are tagged with, and the Redis memo of that version.       *)
(*                                                                         *)
(* A turn resolves the version (memo, else MAX over the documents'         *)
(* timestamps, then fills the memo), looks for a row of that version,      *)
(* else retrieves, answers and stores the answer in the background under   *)
(* the version it resolved.  Ingests and deletes change the chunks, delete *)
(* the bot's rows, stamp a document and bust the memo, in several          *)
(* transactions of an order of their own.                                  *)
(*                                                                         *)
(* The chunks are represented by their generation, the number of           *)
(* transactions that changed them; the hash of a marker by the marker,     *)
(* a timestamp taken from clock.  All turns ask one question.              *)
(***************************************************************************)
EXTENDS Integers, FiniteSets

CONSTANTS
  Turns,       \* query turns under way at once
  Ingests,     \* ingests under way at once
  Deletes,     \* deletes under way at once
  MaxCorpus,   \* bound: transactions that change chunks
  MaxStamps,   \* bound: timestamps taken
  MaxRows      \* bound: rows of the bot at once

ASSUME CacheAssumption ==
  /\ MaxCorpus \in Nat
  /\ MaxStamps \in Nat \ {0}
  /\ MaxRows \in Nat

VARIABLES
  corpus,    \* generation of the bot's chunks
  clock,     \* the last timestamp taken by a transaction's now()
  marker,    \* MAX(GREATEST(updated_at, deleted_at)) of the bot's documents
  markedAt,  \* the corpus when the marker became this stamp (history)
  memo,      \* the Redis entry of the version
  rows,      \* semantic_cache rows of the bot that have not expired
  turn,      \* the turns' local state
  mutator    \* the ingests' and deletes' local state

Mutators == Ingests \cup Deletes

vars == <<corpus, clock, marker, markedAt, memo, rows, turn, mutator>>

Empty == 0       \* DEFAULT_CORPUS_VERSION_EMPTY_SENTINEL: no documents
Legacy == -1     \* LEGACY_CORPUS_VERSION_TAG: the version could not be read
Absent == -2     \* no memo
Unissued == -1   \* markedAt of a stamp that never was the marker

Stamps == 0..MaxStamps
Tags == Stamps \cup {Legacy}
Generations == 0..MaxCorpus

\* early: the chunks are read before the version, by a turn that bypasses
\* the lookup or retrieves speculatively beside it.
Row == [tag : Tags, content : Generations, early : BOOLEAN]

NoTurn == [pc |-> "idle", tag |-> Legacy, content |-> 0, early |-> FALSE]
NoMutator == [pc |-> "idle", stamp |-> 0, gone |-> FALSE]
Busting == [NoMutator EXCEPT !.pc = "bust"]   \* committed, before the memo

\* A bot with a document, nothing cached.
Init ==
  /\ corpus = 0 /\ clock = 1 /\ marker = 1
  /\ markedAt = [s \in Stamps |-> IF s <= 1 THEN 0 ELSE Unissued]
  /\ memo = Absent /\ rows = {}
  /\ turn = [t \in Turns |-> NoTurn]
  /\ mutator = [m \in Mutators |-> NoMutator]

----------------------------------------------------------------------------
(* Turns *)

StartTurn(t, early) ==
  /\ turn[t].pc = "idle"
  /\ turn' = [turn EXCEPT ![t] = [NoTurn EXCEPT !.early = early,
                                  !.pc = IF early THEN "read" ELSE "resolve"]]
  /\ UNCHANGED <<corpus, clock, marker, markedAt, memo, rows, mutator>>

\* What a turn does once it has its version: a bypassing turn, which resolves
\* it in persist, stores; the others look the question up.
Resolved(t, tag) ==
  \E pc \in IF turn[t].early THEN {"lookup", "store"} ELSE {"lookup"} :
    turn' = [turn EXCEPT ![t].tag = tag, ![t].pc = pc]

ResolveFromMemo(t) ==
  /\ turn[t].pc = "resolve" /\ memo # Absent
  /\ Resolved(t, memo)
  /\ UNCHANGED <<corpus, clock, marker, markedAt, memo, rows, mutator>>

\* No memo, or Redis did not answer: the marker is read from the database ...
ReadMarker(t) ==
  /\ turn[t].pc = "resolve"
  /\ turn' = [turn EXCEPT ![t].tag = marker, ![t].pc = "fill"]
  /\ UNCHANGED <<corpus, clock, marker, markedAt, memo, rows, mutator>>

\* ... and written to the memo, unless Redis fails.
FillMemo(t) ==
  /\ turn[t].pc = "fill"
  /\ memo' \in {memo, turn[t].tag}
  /\ Resolved(t, turn[t].tag)
  /\ UNCHANGED <<corpus, clock, marker, markedAt, rows, mutator>>

\* Mutant: a failed resolution yields no version instead of the legacy tag.
ResolvesToNothing(t) ==
  /\ turn[t].pc = "resolve"
  /\ Resolved(t, Absent)
  /\ UNCHANGED <<corpus, clock, marker, markedAt, memo, rows, mutator>>

\* The database did not answer either.
ResolveFails(t) ==
  /\ turn[t].pc = "resolve"
  /\ Resolved(t, Legacy)
  /\ UNCHANGED <<corpus, clock, marker, markedAt, memo, rows, mutator>>

Hit(t) ==
  /\ turn[t].pc = "lookup"
  /\ \E r \in rows : r.tag = turn[t].tag
       /\ turn' = [turn EXCEPT ![t].pc = "hit", ![t].content = r.content]
  /\ UNCHANGED <<corpus, clock, marker, markedAt, memo, rows, mutator>>

\* No row of the version, none similar enough, or the lookup timed out.
Miss(t) ==
  /\ turn[t].pc = "lookup"
  /\ turn' = [turn EXCEPT ![t].pc = IF turn[t].early THEN "store" ELSE "read"]
  /\ UNCHANGED <<corpus, clock, marker, markedAt, memo, rows, mutator>>

\* Retrieval makes several reads; the answer is as old as the first of them.
ReadChunks(t) ==
  /\ turn[t].pc = "read"
  /\ turn' = [turn EXCEPT ![t].content = corpus,
                          ![t].pc = IF turn[t].early THEN "resolve" ELSE "store"]
  /\ UNCHANGED <<corpus, clock, marker, markedAt, memo, rows, mutator>>

\* Mutant: persist resolves the version again instead of reusing the turn's.
StoreUnderMarker(t) ==
  /\ turn[t].pc = "store" /\ Cardinality(rows) < MaxRows
  /\ rows' = rows \cup {[tag |-> marker, content |-> turn[t].content,
                         early |-> turn[t].early]}
  /\ turn' = [turn EXCEPT ![t] = NoTurn]
  /\ UNCHANGED <<corpus, clock, marker, markedAt, memo, mutator>>

\* The background write of persist, after the answer was given.
Store(t) ==
  /\ turn[t].pc = "store" /\ Cardinality(rows) < MaxRows
  /\ rows' = rows \cup {[tag |-> turn[t].tag, content |-> turn[t].content,
                         early |-> turn[t].early]}
  /\ turn' = [turn EXCEPT ![t] = NoTurn]
  /\ UNCHANGED <<corpus, clock, marker, markedAt, memo, mutator>>

\* Mutant: persist does not look at cache_status, a served row is stored anew.
EndTurnStoring(t) ==
  /\ turn[t].pc # "idle"
  /\ turn' = [turn EXCEPT ![t] = NoTurn]
  /\ rows' = IF turn[t].pc = "hit"
             THEN {[tag |-> turn[t].tag, content |-> turn[t].content,
                    early |-> turn[t].early]}
             ELSE rows
  /\ UNCHANGED <<corpus, clock, marker, markedAt, memo, mutator>>

\* A served turn, one that refused or failed, one whose write failed.
EndTurn(t) ==
  /\ turn[t].pc # "idle"
  /\ turn' = [turn EXCEPT ![t] = NoTurn]
  /\ UNCHANGED <<corpus, clock, marker, markedAt, memo, rows, mutator>>

----------------------------------------------------------------------------
(* Ingests and deletes *)

\* A document gets stamp s as its updated_at or deleted_at.
Mark(s, generation) ==
  IF s > marker
  THEN /\ marker' = s
       /\ markedAt' = [markedAt EXCEPT ![s] = generation]
  ELSE UNCHANGED <<marker, markedAt>>

SetPc(m, pc) == mutator' = [mutator EXCEPT ![m].pc = pc]

\* A new document is stamped when its row is upserted, a known one is not.
BeginIngest(m) ==
  /\ mutator[m].pc = "idle"
  /\ mutator' = [mutator EXCEPT ![m] = [NoMutator EXCEPT !.pc = "chunks"]]
  /\ \/ /\ clock < MaxStamps
        /\ clock' = clock + 1
        /\ Mark(clock', corpus)
     \/ marker # Empty /\ UNCHANGED <<clock, marker, markedAt>>
  /\ UNCHANGED <<corpus, memo, rows, turn>>

\* The chunk transaction.  Nothing changed: the rows are left alone.
StoreChunks(m) ==
  /\ mutator[m].pc = "chunks" /\ ~mutator[m].gone
  /\ \/ corpus < MaxCorpus /\ corpus' = corpus + 1 /\ SetPc(m, "purge")
     \/ UNCHANGED corpus /\ SetPc(m, "flip")
  /\ UNCHANGED <<clock, marker, markedAt, memo, rows, turn>>

PurgeRows(m) ==
  /\ mutator[m].pc = "purge"
  /\ rows' = {}
  /\ SetPc(m, "flip")
  /\ UNCHANGED <<corpus, clock, marker, markedAt, memo, turn>>

\* A transaction whose now() will stamp the document when it commits.
Stamped(m, pc) ==
  /\ clock < MaxStamps
  /\ clock' = clock + 1
  /\ mutator' = [mutator EXCEPT ![m] = [pc |-> pc, stamp |-> clock', gone |-> @.gone]]

BeginFlip(m) ==
  /\ mutator[m].pc = "flip"
  /\ Stamped(m, "flipping")
  /\ UNCHANGED <<corpus, marker, markedAt, memo, rows, turn>>

\* The terminal state flip; a document that was wiped is not there to stamp.
CommitFlip(m) ==
  /\ mutator[m].pc = "flipping"
  /\ IF mutator[m].gone THEN UNCHANGED <<marker, markedAt>>
     ELSE Mark(mutator[m].stamp, corpus)
  /\ mutator' = [mutator EXCEPT ![m] = Busting]
  /\ UNCHANGED <<corpus, clock, memo, rows, turn>>

\* delete_document and replace_documents_for_bot: one transaction.
BeginDelete(m) ==
  /\ mutator[m].pc = "idle" /\ marker # Empty
  /\ Stamped(m, "deleting")
  /\ UNCHANGED <<corpus, marker, markedAt, memo, rows, turn>>

CommitDelete(m) ==
  /\ mutator[m].pc = "deleting" /\ corpus < MaxCorpus
  /\ corpus' = corpus + 1
  /\ rows' = {}
  /\ IF mutator[m].gone THEN UNCHANGED <<marker, markedAt>>
     ELSE Mark(mutator[m].stamp, corpus')
  /\ mutator' = [mutator EXCEPT ![m] = Busting]
  /\ UNCHANGED <<clock, memo, turn>>

\* delete_all_for_bot removes the documents themselves, those under way too.
Wipe(m) ==
  /\ mutator[m].pc = "idle" /\ marker # Empty /\ corpus < MaxCorpus
  /\ corpus' = corpus + 1
  /\ rows' = {}
  /\ marker' = Empty
  /\ mutator' = [n \in Mutators |->
                   IF n = m THEN Busting
                   ELSE IF mutator[n].pc = "idle" THEN NoMutator
                   ELSE [mutator[n] EXCEPT !.gone = TRUE]]
  /\ UNCHANGED <<clock, markedAt, memo, turn>>

\* CorpusVersionService.invalidate is best-effort.
Invalidate(m) ==
  /\ mutator[m].pc = "bust"
  /\ memo' \in {memo, Absent}
  /\ mutator' = [mutator EXCEPT ![m] = NoMutator]
  /\ UNCHANGED <<corpus, clock, marker, markedAt, rows, turn>>

\* A failed flip, chunks refused by the foreign key of a wiped document, a
\* crash between two transactions.
EndMutator(m) ==
  /\ mutator[m].pc # "idle"
  /\ mutator' = [mutator EXCEPT ![m] = NoMutator]
  /\ UNCHANGED <<corpus, clock, marker, markedAt, memo, rows, turn>>

----------------------------------------------------------------------------
(* Expiry *)

\* Mutant: the memo is written without its TTL.
MemoStays == FALSE /\ UNCHANGED vars

MemoExpires ==
  /\ memo # Absent
  /\ memo' = Absent
  /\ UNCHANGED <<corpus, clock, marker, markedAt, rows, turn, mutator>>

RowExpires(r) ==
  /\ r \in rows
  /\ rows' = rows \ {r}
  /\ UNCHANGED <<corpus, clock, marker, markedAt, memo, turn, mutator>>

----------------------------------------------------------------------------

ResolveStep(t) == ResolveFromMemo(t) \/ ReadMarker(t) \/ ResolveFails(t)

TurnStep(t) ==
  \/ ResolveStep(t) \/ FillMemo(t) \/ Hit(t) \/ Miss(t) \/ ReadChunks(t)
  \/ Store(t) \/ EndTurn(t)

MutatorStep(m) ==
  \/ StoreChunks(m) \/ PurgeRows(m) \/ BeginFlip(m) \/ CommitFlip(m)
  \/ CommitDelete(m) \/ Invalidate(m) \/ EndMutator(m)

Next ==
  \/ \E t \in Turns : (\E early \in BOOLEAN : StartTurn(t, early)) \/ TurnStep(t)
  \/ \E m \in Ingests : BeginIngest(m)
  \/ \E m \in Deletes : BeginDelete(m) \/ Wipe(m)
  \/ \E m \in Mutators : MutatorStep(m)
  \/ MemoExpires
  \/ \E r \in rows : RowExpires(r)

Spec == Init /\ [][Next]_vars

\* Steps under way end (an answer, an error, a timeout), entries expire.
\* Nobody is obliged to ask, to upload or to delete.
FairSpec ==
  /\ Spec
  /\ \A t \in Turns : WF_vars(TurnStep(t))
  /\ \A m \in Mutators : WF_vars(MutatorStep(m))
  /\ WF_vars(MemoExpires)
  /\ \A g \in Generations : WF_vars(\E r \in rows : r.content = g /\ RowExpires(r))

----------------------------------------------------------------------------
(* Properties *)

\* Types.  A turn never carries a tag that is no version: a version that cannot
\* be read gives the legacy tag, a bot without documents the empty one.
TypeOK ==
  /\ corpus \in Generations /\ clock \in Stamps /\ marker \in Stamps
  /\ markedAt \in [Stamps -> Generations \cup {Unissued}]
  /\ memo \in Stamps \cup {Legacy, Absent}
  /\ rows \subseteq Row
  /\ turn \in [Turns -> [pc : {"idle", "resolve", "fill", "lookup", "hit", "read", "store"},
                         tag : Tags, content : Generations, early : BOOLEAN]]
  /\ mutator \in [Mutators ->
                    [pc : {"idle", "chunks", "purge", "flip", "flipping", "deleting", "bust"},
                     stamp : Stamps, gone : BOOLEAN]]

\* A row is never older than its version: an answer stored under a version was
\* retrieved from chunks at least as new as when that version came up, however
\* old the memo was and however late the write is.  So a turn that sees a new
\* version is never served an answer from before the change.  (Turns that read
\* first and resolve later are the exception, and so are the two constant tags.)
TagIsSound ==
  \A r \in rows :
    ~r.early /\ r.tag \notin {Empty, Legacy} => r.content >= markedAt[r.tag]

\* The module's docstring: "staleness window is bounded and never exceeds the
\* TTL".  Once the documents stay as they are the memo is the current version,
\* or absent, for good: a late SET of an old version does not survive.
MemoConverges == <>[](memo \in {marker, Absent})

\* Once the corpus stays as it is, answers from before its last change stop
\* being served, whatever stored them: a stale memo, a write that comes after
\* the purge, a flip that failed, a turn that resolved late.
HitsConverge == <>[](\A t \in Turns : turn[t].pc = "hit" => turn[t].content = corpus)
=============================================================================
