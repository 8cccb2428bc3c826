-------------------------- MODULE AnswerCache_proofs --------------------------
(***************************************************************************)
(* TagIsSound for any number of turns, ingests and deletes.  It is not     *)
(* inductive: that a stored answer is as new as its version needs that the *)
(* version of a turn, of the memo and of a row was the marker once, and    *)
(* that a stamp becomes the marker at most once: a transaction's stamp is  *)
(* its own and nobody can have resolved it before it commits.              *)
(***************************************************************************)
EXTENDS AnswerCache, TLAPS

TurnRec == [pc : {"idle", "resolve", "fill", "lookup", "hit", "read", "store"},
            tag : Tags, content : Generations, early : BOOLEAN]
MutatorRec == [pc : {"idle", "chunks", "purge", "flip", "flipping", "deleting", "bust"},
               stamp : Stamps, gone : BOOLEAN]

\* The stamp was the marker once.
Issued(s) == markedAt[s] # Unissued

\* Carries a stamp that its commit may make the marker.
Pending(m) == mutator[m].pc \in {"flipping", "deleting"} /\ mutator[m].gone = FALSE

StampsOK ==
  /\ Issued(marker) /\ Issued(Empty)
  /\ \A s \in Stamps : markedAt[s] <= corpus /\ (s > clock => ~Issued(s))
  /\ \A m \in Mutators : Pending(m) => mutator[m].stamp <= clock /\ ~Issued(mutator[m].stamp)
  /\ \A m, n \in Mutators :
       Pending(m) /\ Pending(n) /\ mutator[m].stamp = mutator[n].stamp => m = n

\* Versions that are in use were the marker; what is stored, or about to be, in
\* the order version, chunks is as new as its version.
TagsOK ==
  /\ memo \in Stamps => Issued(memo)
  /\ \A t \in Turns : turn[t].tag # Legacy => Issued(turn[t].tag)
  /\ \A t \in Turns :
       turn[t].pc = "store" /\ turn[t].early = FALSE /\ turn[t].tag # Legacy
         => turn[t].content >= markedAt[turn[t].tag]
  /\ \A r \in rows :
       r.early = FALSE /\ r.tag # Legacy => Issued(r.tag) /\ r.content >= markedAt[r.tag]

Inv == TypeOK /\ StampsOK /\ TagsOK

LEMMA InvGivesTagIsSound == Inv => TagIsSound
<1> SUFFICES ASSUME Inv, NEW r \in rows, ~r.early, r.tag # Legacy
             PROVE  r.content >= markedAt[r.tag]
  BY DEF TagIsSound
<1>1. r.early = FALSE
  BY DEF Inv, TypeOK, Row
<1> QED BY <1>1 DEF Inv, TagsOK

LEMMA InitInv == Init => Inv
<1> SUFFICES ASSUME Init PROVE Inv
  OBVIOUS
<1> USE CacheAssumption DEF CacheAssumption
<1>1. TypeOK
  <2>1. /\ corpus \in Generations /\ clock \in Stamps /\ marker \in Stamps
        /\ markedAt \in [Stamps -> Generations \cup {Unissued}]
        /\ memo \in Stamps \cup {Legacy, Absent} /\ rows \subseteq Row
    BY DEF Init, Generations, Stamps, Unissued, Absent
  <2>2. NoTurn \in TurnRec
    BY DEF NoTurn, TurnRec, Tags, Generations
  <2>3. NoMutator \in MutatorRec
    BY DEF NoMutator, MutatorRec, Stamps
  <2> QED BY <2>1, <2>2, <2>3 DEF Init, TypeOK, TurnRec, MutatorRec
<1>2. StampsOK
  BY DEF Init, StampsOK, Issued, Pending, NoMutator, Stamps, Unissued, Empty
<1>3. TagsOK
  BY DEF Init, TagsOK, NoTurn, Absent, Stamps
<1> QED BY <1>1, <1>2, <1>3 DEF Inv

----------------------------------------------------------------------------
(* Turns *)

\* What a turn keeps when its fields are updated.
LEMMA Resolving ==
  ASSUME TypeOK, NEW t \in Turns, NEW tag \in Tags, Resolved(t, tag)
  PROVE  /\ turn' \in [Turns -> TurnRec]
         /\ turn'[t].tag = tag /\ turn'[t].early = turn[t].early
         /\ turn'[t].pc \in {"lookup", "store"}
         /\ turn'[t].early = FALSE => turn'[t].pc = "lookup"
         /\ \A u \in Turns \ {t} : turn'[u] = turn[u]
<1>1. PICK pc \in {"lookup", "store"} :
        /\ turn' = [turn EXCEPT ![t].tag = tag, ![t].pc = pc]
        /\ turn[t].early = FALSE => pc = "lookup"
  BY DEF Resolved
<1>2. turn \in [Turns -> TurnRec] /\ turn[t] \in TurnRec
  BY DEF TypeOK, TurnRec
<1>3. \A u \in Turns \ {t} : turn'[u] = turn[u]
  BY <1>1, <1>2
<1>4. /\ turn'[t].tag = tag /\ turn'[t].early = turn[t].early /\ turn'[t].pc = pc
      /\ turn'[t] \in TurnRec
  BY <1>1, <1>2 DEF TurnRec
<1>5. turn' \in [Turns -> TurnRec]
  BY <1>1, <1>2, <1>3, <1>4
<1> QED BY <1>1, <1>3, <1>4, <1>5

LEMMA UnstampedKeep ==
  ASSUME StampsOK, UNCHANGED <<corpus, clock, marker, markedAt, mutator>>
  PROVE  StampsOK'
BY DEF StampsOK, Issued, Pending

\* A step of a turn: it may take an issued tag, and read.
LEMMA TurnKeeps ==
  ASSUME Inv, UNCHANGED <<corpus, clock, marker, markedAt, mutator>>,
         NEW t \in Turns, turn' \in [Turns -> TurnRec],
         \A u \in Turns \ {t} : turn'[u] = turn[u],
         turn'[t].tag # Legacy => Issued(turn'[t].tag),
         turn'[t].pc = "store" /\ turn'[t].early = FALSE /\ turn'[t].tag # Legacy
           => turn'[t].content >= markedAt[turn'[t].tag],
         memo' \in Stamps \cup {Legacy, Absent}, memo' \in Stamps => Issued(memo'),
         rows' \subseteq Row,
         \A r \in rows' : r \in rows \/ (r.early = FALSE /\ r.tag # Legacy
                                         => Issued(r.tag) /\ r.content >= markedAt[r.tag])
  PROVE  Inv'
<1>1. TypeOK'
  BY DEF Inv, TypeOK, TurnRec
<1>2. StampsOK'
  BY UnstampedKeep DEF Inv
<1>3. TagsOK'
  <2>1. \A u \in Turns : turn'[u].tag # Legacy => Issued(turn'[u].tag)
    BY DEF Inv, TagsOK
  <2>2. \A u \in Turns :
          turn'[u].pc = "store" /\ turn'[u].early = FALSE /\ turn'[u].tag # Legacy
            => turn'[u].content >= markedAt[turn'[u].tag]
    BY DEF Inv, TagsOK
  <2>3. \A r \in rows' :
          r.early = FALSE /\ r.tag # Legacy => Issued(r.tag) /\ r.content >= markedAt[r.tag]
    BY DEF Inv, TagsOK
  <2> QED BY <2>1, <2>2, <2>3 DEF TagsOK, Issued
<1> QED BY <1>1, <1>2, <1>3 DEF Inv

LEMMA TurnInv ==
  ASSUME Inv, NEW t \in Turns,
         (\E early \in BOOLEAN : StartTurn(t, early)) \/ TurnStep(t)
  PROVE  Inv'
<1> USE CacheAssumption DEF CacheAssumption
<1>0. /\ turn \in [Turns -> TurnRec] /\ turn[t] \in TurnRec
      /\ NoTurn \in TurnRec /\ NoTurn.tag = Legacy /\ NoTurn.pc = "idle"
      /\ memo \in Stamps \cup {Legacy, Absent} /\ rows \subseteq Row
      /\ marker \in Stamps /\ corpus \in Generations
      /\ memo \in Stamps => Issued(memo)
      /\ turn[t].tag # Legacy => Issued(turn[t].tag)
  BY DEF Inv, TypeOK, TagsOK, NoTurn, TurnRec, Tags, Generations
<1>1. ASSUME NEW early \in BOOLEAN, StartTurn(t, early)
      PROVE  Inv'
  <2>1. PICK v \in TurnRec : turn' = [turn EXCEPT ![t] = v] /\ v.tag = Legacy
    <3> DEFINE v == [NoTurn EXCEPT !.early = early, !.pc = IF early THEN "read" ELSE "resolve"]
    <3>1. v \in TurnRec /\ v.tag = Legacy
      BY <1>0 DEF TurnRec, NoTurn
    <3> QED BY <1>1, <3>1 DEF StartTurn
  <2>2. /\ turn' \in [Turns -> TurnRec] /\ turn'[t].tag = Legacy
        /\ \A u \in Turns \ {t} : turn'[u] = turn[u]
    BY <1>0, <2>1
  <2>3. UNCHANGED <<corpus, clock, marker, markedAt, mutator, memo, rows>>
    BY <1>1 DEF StartTurn
  <2> QED BY <1>0, <2>2, <2>3, TurnKeeps
<1>2. CASE ResolveFromMemo(t) \/ ResolveFails(t)
  <2>1. PICK tag \in Tags : Resolved(t, tag) /\ (tag # Legacy => Issued(tag))
    <3>1. CASE ResolveFromMemo(t)
      <4>1. memo \in Tags /\ Resolved(t, memo)
        BY <1>0, <3>1 DEF ResolveFromMemo, Tags
      <4>2. memo # Legacy => Issued(memo)
        BY <1>0, <4>1 DEF Tags
      <4> QED BY <4>1, <4>2
    <3>2. CASE ResolveFails(t)
      BY <3>2 DEF ResolveFails, Tags
    <3> QED BY <1>2, <3>1, <3>2
  <2>2. /\ turn' \in [Turns -> TurnRec] /\ turn'[t].tag = tag
        /\ turn'[t].early = FALSE => turn'[t].pc # "store"
        /\ \A u \in Turns \ {t} : turn'[u] = turn[u]
    BY <2>1, Resolving DEF Inv
  <2>3. UNCHANGED <<corpus, clock, marker, markedAt, mutator, memo, rows>>
    BY <1>2 DEF ResolveFromMemo, ResolveFails
  <2> QED BY <1>0, <2>1, <2>2, <2>3, TurnKeeps
<1>3. CASE ReadMarker(t)
  <2>1. turn' = [turn EXCEPT ![t].tag = marker, ![t].pc = "fill"]
        /\ UNCHANGED <<corpus, clock, marker, markedAt, mutator, memo, rows>>
    BY <1>3 DEF ReadMarker
  <2>2. \A u \in Turns \ {t} : turn'[u] = turn[u]
    BY <1>0, <2>1
  <2>3. turn'[t].tag = marker /\ turn'[t].pc = "fill" /\ turn'[t] \in TurnRec
    BY <1>0, <2>1 DEF TurnRec, Tags
  <2>4. turn' \in [Turns -> TurnRec]
    BY <1>0, <2>1, <2>2, <2>3
  <2>5. Issued(marker)
    BY DEF Inv, StampsOK
  <2> QED BY <1>0, <2>1, <2>2, <2>3, <2>4, <2>5, TurnKeeps
<1>4. CASE FillMemo(t)
  <2>1. Resolved(t, turn[t].tag) /\ memo' \in {memo, turn[t].tag}
        /\ UNCHANGED <<corpus, clock, marker, markedAt, mutator, rows>>
    BY <1>4 DEF FillMemo
  <2>2. turn[t].tag \in Tags
    BY <1>0 DEF TurnRec
  <2>3. /\ turn' \in [Turns -> TurnRec] /\ turn'[t].tag = turn[t].tag
        /\ turn'[t].early = FALSE => turn'[t].pc # "store"
        /\ \A u \in Turns \ {t} : turn'[u] = turn[u]
    BY <2>1, <2>2, Resolving DEF Inv
  <2>4. memo' \in Stamps \cup {Legacy, Absent} /\ (memo' \in Stamps => Issued(memo'))
    BY <1>0, <2>1, <2>2 DEF Tags, Stamps, Legacy
  <2> QED BY <1>0, <2>1, <2>3, <2>4, TurnKeeps
<1>5. CASE Hit(t)
  <2>1. PICK r \in rows : /\ r.tag = turn[t].tag
                          /\ turn' = [turn EXCEPT ![t].pc = "hit", ![t].content = r.content]
    BY <1>5 DEF Hit
  <2>2. UNCHANGED <<corpus, clock, marker, markedAt, mutator, memo, rows>>
    BY <1>5 DEF Hit
  <2>3. r.content \in Generations
    BY <1>0 DEF Row
  <2>4. \A u \in Turns \ {t} : turn'[u] = turn[u]
    BY <1>0, <2>1
  <2>5. turn'[t].tag = turn[t].tag /\ turn'[t].pc = "hit" /\ turn'[t] \in TurnRec
    BY <1>0, <2>1, <2>3 DEF TurnRec
  <2>6. turn' \in [Turns -> TurnRec]
    BY <1>0, <2>1, <2>4, <2>5
  <2> QED BY <1>0, <2>2, <2>4, <2>5, <2>6, TurnKeeps
<1>6. CASE Miss(t)
  <2>1. PICK pc \in {"store", "read"} : /\ turn' = [turn EXCEPT ![t].pc = pc]
                                        /\ turn[t].early = FALSE => pc = "read"
    BY <1>6 DEF Miss
  <2>2. UNCHANGED <<corpus, clock, marker, markedAt, mutator, memo, rows>>
    BY <1>6 DEF Miss
  <2>3. /\ turn' \in [Turns -> TurnRec] /\ turn'[t].tag = turn[t].tag
        /\ turn'[t].pc = pc /\ turn'[t].early = turn[t].early
        /\ \A u \in Turns \ {t} : turn'[u] = turn[u]
    BY <1>0, <2>1 DEF TurnRec
  <2> QED BY <1>0, <2>1, <2>2, <2>3, TurnKeeps
<1>7. CASE ReadChunks(t)
  <2>1. PICK pc \in {"resolve", "store"} :
          turn' = [turn EXCEPT ![t].content = corpus, ![t].pc = pc]
    BY <1>7 DEF ReadChunks
  <2>2. UNCHANGED <<corpus, clock, marker, markedAt, mutator, memo, rows>>
    BY <1>7 DEF ReadChunks
  <2>3. \A u \in Turns \ {t} : turn'[u] = turn[u]
    BY <1>0, <2>1
  <2>4. turn'[t].tag = turn[t].tag /\ turn'[t].content = corpus /\ turn'[t] \in TurnRec
    BY <1>0, <2>1 DEF TurnRec
  <2>5. turn' \in [Turns -> TurnRec]
    BY <1>0, <2>1, <2>3, <2>4
  <2>6. turn[t].tag # Legacy => corpus >= markedAt[turn[t].tag]
    <3>1. turn[t].tag # Legacy => turn[t].tag \in Stamps
      BY <1>0 DEF TurnRec, Tags
    <3> QED BY <1>0, <3>1 DEF Inv, StampsOK, TypeOK, Generations, Unissued
  <2> QED BY <1>0, <2>2, <2>3, <2>4, <2>5, <2>6, TurnKeeps
<1>8. CASE Store(t)
  <2> DEFINE new == [tag |-> turn[t].tag, content |-> turn[t].content, early |-> turn[t].early]
  <2>1. /\ turn[t].pc = "store" /\ rows' = rows \cup {new}
        /\ turn' = [turn EXCEPT ![t] = NoTurn]
        /\ UNCHANGED <<corpus, clock, marker, markedAt, mutator, memo>>
    BY <1>8 DEF Store
  <2>2. new \in Row
    BY <1>0 DEF Row, TurnRec
  <2>3. new.early = FALSE /\ new.tag # Legacy
          => Issued(new.tag) /\ new.content >= markedAt[new.tag]
    BY <1>0, <2>1 DEF Inv, TagsOK
  <2> HIDE DEF new
  <2>4. /\ turn' \in [Turns -> TurnRec] /\ turn'[t] = NoTurn
        /\ \A u \in Turns \ {t} : turn'[u] = turn[u]
    BY <1>0, <2>1
  <2>5. rows' \subseteq Row
        /\ \A r \in rows' : r \in rows \/ (r.early = FALSE /\ r.tag # Legacy
                                           => Issued(r.tag) /\ r.content >= markedAt[r.tag])
    BY <1>0, <2>1, <2>2, <2>3
  <2> QED BY <1>0, <2>1, <2>4, <2>5, TurnKeeps
<1>9. CASE EndTurn(t)
  <2>1. turn' = [turn EXCEPT ![t] = NoTurn]
        /\ UNCHANGED <<corpus, clock, marker, markedAt, mutator, memo, rows>>
    BY <1>9 DEF EndTurn
  <2>2. /\ turn' \in [Turns -> TurnRec] /\ turn'[t] = NoTurn
        /\ \A u \in Turns \ {t} : turn'[u] = turn[u]
    BY <1>0, <2>1
  <2> QED BY <1>0, <2>1, <2>2, TurnKeeps
<1> QED
  BY <1>1, <1>2, <1>3, <1>4, <1>5, <1>6, <1>7, <1>8, <1>9 DEF TurnStep, ResolveStep

----------------------------------------------------------------------------
(* Ingests and deletes *)

\* Of the two tables of stamps a step changes the entry of s at most; what was
\* issued stays as it is.
LEMMA Marked ==
  ASSUME TypeOK, StampsOK, NEW s \in Stamps, ~Issued(s), NEW g \in Generations,
         Mark(s, g)
  PROVE  /\ marker' \in Stamps /\ markedAt' \in [Stamps -> Generations \cup {Unissued}]
         /\ \A v \in Stamps \ {s} : markedAt'[v] = markedAt[v]
         /\ markedAt'[s] \in {Unissued, g} /\ markedAt'[marker'] # Unissued
         /\ marker' \in {marker, s}
<1>1. g # Unissued
  BY CacheAssumption DEF Unissued, Generations, CacheAssumption
<1>2. CASE s > marker
  BY <1>1, <1>2 DEF Mark, TypeOK
<1>3. CASE ~(s > marker)
  BY <1>3 DEF Mark, TypeOK, StampsOK, Issued
<1> QED BY <1>2, <1>3

\* A step that leaves turns alone and can only remove what is cached.
LEMMA MutatorKeeps ==
  ASSUME Inv, StampsOK', turn' = turn, memo' \in {memo, Absent}, rows' \subseteq rows,
         corpus' \in Generations, clock' \in Stamps, marker' \in Stamps,
         markedAt' \in [Stamps -> Generations \cup {Unissued}],
         mutator' \in [Mutators -> MutatorRec],
         \A v \in Stamps : Issued(v) => markedAt'[v] = markedAt[v]
  PROVE  Inv'
<1>1. TypeOK'
  BY DEF Inv, TypeOK, MutatorRec
<1>2. /\ \A u \in Turns : turn[u].tag # Legacy => turn[u].tag \in Stamps
      /\ \A r \in rows : r.tag # Legacy => r.tag \in Stamps
  BY DEF Inv, TypeOK, Row, Tags
<1>3. \A v \in Stamps : Issued(v) => markedAt'[v] # Unissued
  BY DEF Issued
<1>4. memo' \in Stamps => markedAt'[memo'] # Unissued
  <2>1. Absent \notin Stamps
    BY DEF Absent, Stamps
  <2> QED BY <1>3, <2>1 DEF Inv, TagsOK
<1>5. \A u \in Turns : turn[u].tag # Legacy => markedAt'[turn[u].tag] # Unissued
  BY <1>2, <1>3 DEF Inv, TagsOK
<1>6. \A u \in Turns :
        turn[u].pc = "store" /\ turn[u].early = FALSE /\ turn[u].tag # Legacy
          => turn[u].content >= markedAt'[turn[u].tag]
  BY <1>2 DEF Inv, TagsOK
<1>7. \A r \in rows' :
        r.early = FALSE /\ r.tag # Legacy
          => markedAt'[r.tag] # Unissued /\ r.content >= markedAt'[r.tag]
  BY <1>2, <1>3 DEF Inv, TagsOK
<1>8. TagsOK'
  BY <1>4, <1>5, <1>6, <1>7 DEF TagsOK, Issued
<1> QED BY <1>1, <1>8 DEF Inv

\* A step that stamps a document with s, at most, and makes nothing pending.
LEMMA StampsKept ==
  ASSUME TypeOK, StampsOK, NEW s \in Stamps, s <= clock',
         clock' \in Stamps, clock <= clock',
         corpus' \in Generations, corpus <= corpus',
         markedAt' \in [Stamps -> Generations \cup {Unissued}],
         \A v \in Stamps \ {s} : markedAt'[v] = markedAt[v],
         markedAt'[s] <= corpus',
         markedAt'[marker'] # Unissued, markedAt'[Empty] # Unissued,
         \A m \in Mutators : Pending(m)' => /\ Pending(m) /\ mutator[m].stamp # s
                                            /\ mutator'[m].stamp = mutator[m].stamp
  PROVE  StampsOK'
<1>1. \A v \in Stamps : markedAt'[v] <= corpus' /\ (v > clock' => markedAt'[v] = Unissued)
  <2> SUFFICES ASSUME NEW v \in Stamps
               PROVE  markedAt'[v] <= corpus' /\ (v > clock' => markedAt'[v] = Unissued)
    OBVIOUS
  <2>1. CASE v = s
    BY <2>1 DEF Stamps
  <2>2. CASE v # s
    <3>1. markedAt'[v] = markedAt[v] /\ markedAt[v] <= corpus
          /\ (v > clock => markedAt[v] = Unissued) /\ markedAt[v] \in Int
      BY <2>2 DEF StampsOK, Issued, TypeOK, Generations, Unissued
    <3> QED BY <3>1 DEF TypeOK, Stamps, Generations
  <2> QED BY <2>1, <2>2
<1>2. \A m \in Mutators :
        Pending(m)' => mutator'[m].stamp <= clock' /\ markedAt'[mutator'[m].stamp] = Unissued
  <2> SUFFICES ASSUME NEW m \in Mutators, Pending(m)'
               PROVE  mutator'[m].stamp <= clock' /\ markedAt'[mutator'[m].stamp] = Unissued
    OBVIOUS
  <2>1. /\ mutator'[m].stamp = mutator[m].stamp /\ mutator[m].stamp \in Stamps \ {s}
        /\ mutator[m].stamp <= clock /\ markedAt[mutator[m].stamp] = Unissued
    BY DEF StampsOK, Issued, TypeOK
  <2> QED BY <2>1 DEF TypeOK, Stamps
<1>3. \A m, n \in Mutators :
        Pending(m)' /\ Pending(n)' /\ mutator'[m].stamp = mutator'[n].stamp => m = n
  BY DEF StampsOK
<1> QED BY <1>1, <1>2, <1>3 DEF StampsOK, Issued

\* The same for a step that stamps nothing.
LEMMA StampsAlone ==
  ASSUME TypeOK, StampsOK, clock' = clock, markedAt' = markedAt, marker' \in {marker, Empty},
         corpus' \in Generations, corpus <= corpus',
         \A m \in Mutators : Pending(m)' => /\ Pending(m)
                                            /\ mutator'[m].stamp = mutator[m].stamp
  PROVE  StampsOK'
<1>1. /\ marker \in Stamps /\ marker <= clock /\ markedAt[marker] <= corpus
      /\ markedAt \in [Stamps -> Generations \cup {Unissued}] /\ clock \in Stamps
      /\ markedAt[marker] \in Int /\ corpus \in Int
  BY DEF TypeOK, StampsOK, Stamps, Generations, Unissued, Issued
<1>2. \A m \in Mutators : Pending(m) => mutator[m].stamp # marker
  BY DEF StampsOK, Issued
<1>3. markedAt[marker'] # Unissued /\ markedAt[Empty] # Unissued
  BY DEF StampsOK, Issued
<1>4. markedAt[marker] <= corpus' /\ clock <= clock
  BY <1>1 DEF Generations, Stamps
<1> QED BY <1>1, <1>2, <1>3, <1>4, StampsKept

\* Mutator m gets other local state, the others keep theirs.
LEMMA MutatorSet ==
  ASSUME TypeOK, NEW m \in Mutators, NEW v \in MutatorRec, mutator' = [mutator EXCEPT ![m] = v]
  PROVE  /\ mutator' \in [Mutators -> MutatorRec] /\ mutator'[m] = v
         /\ \A n \in Mutators \ {m} : mutator'[n] = mutator[n]
BY DEF TypeOK, MutatorRec

LEMMA IdleRecs ==
  /\ NoMutator \in MutatorRec /\ Busting \in MutatorRec
  /\ [NoMutator EXCEPT !.pc = "chunks"] \in MutatorRec
  /\ NoMutator.pc = "idle" /\ Busting.pc = "bust"
  /\ [NoMutator EXCEPT !.pc = "chunks"].pc = "chunks"
<1>1. 0 \in Stamps
  BY CacheAssumption DEF Stamps, CacheAssumption
<1>2. NoMutator \in MutatorRec /\ NoMutator.pc = "idle"
  BY <1>1 DEF NoMutator, MutatorRec
<1>3. \A pc \in {"chunks", "bust"} : /\ [NoMutator EXCEPT !.pc = pc] \in MutatorRec
                                    /\ [NoMutator EXCEPT !.pc = pc].pc = pc
  BY <1>2 DEF MutatorRec
<1> QED BY <1>2, <1>3 DEF Busting

\* The steps that neither stamp nor begin to.
LEMMA QuietInv ==
  ASSUME Inv, NEW m \in Mutators,
         PurgeRows(m) \/ StoreChunks(m) \/ Invalidate(m) \/ EndMutator(m)
  PROVE  Inv'
<1> USE CacheAssumption DEF CacheAssumption
<1>1. /\ UNCHANGED <<clock, marker, markedAt, turn>> /\ memo' \in {memo, Absent}
      /\ rows' \subseteq rows /\ corpus' \in Generations /\ corpus <= corpus'
  BY DEF PurgeRows, StoreChunks, Invalidate, EndMutator, Inv, TypeOK, Generations
<1>2. PICK v \in MutatorRec : /\ mutator' = [mutator EXCEPT ![m] = v]
                              /\ v.pc \in {"purge", "flip", "idle"}
  <2>1. CASE Invalidate(m) \/ EndMutator(m)
    BY <2>1, IdleRecs DEF Invalidate, EndMutator
  <2>2. CASE PurgeRows(m) \/ StoreChunks(m)
    <3>1. PICK pc \in {"purge", "flip"} : SetPc(m, pc)
      BY <2>2 DEF PurgeRows, StoreChunks
    <3>2. /\ mutator[m] \in MutatorRec
          /\ mutator' = [mutator EXCEPT ![m] = [mutator[m] EXCEPT !.pc = pc]]
      BY <3>1 DEF Inv, TypeOK, MutatorRec, SetPc
    <3>3. [mutator[m] EXCEPT !.pc = pc] \in MutatorRec /\ [mutator[m] EXCEPT !.pc = pc].pc = pc
      BY <3>2 DEF MutatorRec
    <3> QED BY <3>2, <3>3
  <2> QED BY <2>1, <2>2
<1>3. /\ mutator' \in [Mutators -> MutatorRec] /\ mutator'[m] = v
      /\ \A n \in Mutators \ {m} : mutator'[n] = mutator[n]
  BY <1>2, MutatorSet DEF Inv
<1>4. \A n \in Mutators : Pending(n)' => Pending(n) /\ mutator'[n].stamp = mutator[n].stamp
  BY <1>2, <1>3 DEF Pending
<1>5. StampsOK'
  BY <1>1, <1>4, StampsAlone DEF Inv
<1> QED BY <1>1, <1>3, <1>5, MutatorKeeps DEF Inv, TypeOK

\* A step that stamps a document with s, which no other transaction carries.
LEMMA StampInv ==
  ASSUME Inv, NEW s \in Stamps, ~Issued(s), s <= clock',
         Mark(s, corpus'), corpus' \in Generations, corpus <= corpus',
         clock' \in Stamps, clock <= clock',
         turn' = turn, memo' \in {memo, Absent}, rows' \subseteq rows,
         mutator' \in [Mutators -> MutatorRec],
         \A n \in Mutators : Pending(n)' => /\ Pending(n) /\ mutator[n].stamp # s
                                            /\ mutator'[n].stamp = mutator[n].stamp
  PROVE  Inv'
<1>1. /\ marker' \in Stamps /\ markedAt' \in [Stamps -> Generations \cup {Unissued}]
      /\ \A v \in Stamps \ {s} : markedAt'[v] = markedAt[v]
      /\ markedAt'[s] \in {Unissued, corpus'} /\ markedAt'[marker'] # Unissued
  BY Marked DEF Inv
<1>2. markedAt'[s] <= corpus'
  BY <1>1 DEF Unissued, Generations
<1>3. \A v \in Stamps : Issued(v) => markedAt'[v] = markedAt[v]
  BY <1>1
<1>4. markedAt'[Empty] # Unissued
  <2>1. Empty \in Stamps /\ Issued(Empty)
    BY CacheAssumption DEF Inv, StampsOK, Stamps, Empty, CacheAssumption
  <2> QED BY <1>3, <2>1 DEF Issued
<1>5. StampsOK'
  BY <1>1, <1>2, <1>4, StampsKept DEF Inv
<1> QED BY <1>1, <1>3, <1>5, MutatorKeeps

LEMMA BeginIngestInv ==
  ASSUME Inv, NEW m \in Mutators, BeginIngest(m)
  PROVE  Inv'
<1> USE CacheAssumption DEF CacheAssumption
<1> DEFINE v == [NoMutator EXCEPT !.pc = "chunks"]
<1>1. /\ mutator' \in [Mutators -> MutatorRec] /\ mutator'[m] = v
      /\ \A n \in Mutators \ {m} : mutator'[n] = mutator[n]
  BY IdleRecs, MutatorSet DEF BeginIngest, Inv
<1>2. \A n \in Mutators : Pending(n)' => Pending(n) /\ mutator'[n].stamp = mutator[n].stamp
  BY <1>1, IdleRecs DEF Pending
<1>3. UNCHANGED <<corpus, memo, rows, turn>>
  BY DEF BeginIngest
<1>4. /\ corpus \in Generations /\ corpus <= corpus /\ clock \in Stamps
      /\ marker \in Stamps /\ markedAt \in [Stamps -> Generations \cup {Unissued}]
  BY DEF Inv, TypeOK, Generations
<1>5. CASE UNCHANGED <<clock, marker, markedAt>>
  <2>1. StampsOK'
    BY <1>2, <1>3, <1>4, <1>5, StampsAlone DEF Inv
  <2> QED BY <1>1, <1>3, <1>4, <1>5, <2>1, MutatorKeeps
<1>6. CASE clock < MaxStamps /\ clock' = clock + 1 /\ Mark(clock', corpus)
  <2>1. clock' \in Stamps /\ clock <= clock' /\ clock' <= clock' /\ clock' > clock
    BY <1>4, <1>6 DEF Stamps
  <2>2. ~Issued(clock')
    BY <2>1 DEF Inv, StampsOK
  <2>3. \A n \in Mutators : Pending(n) => mutator[n].stamp # clock'
    BY <1>4, <2>1 DEF Inv, StampsOK, TypeOK, Stamps
  <2>4. PICK s \in Stamps : s = clock'
    BY <2>1
  <2>5. ~Issued(s) /\ s <= clock' /\ Mark(s, corpus')
    BY <1>3, <1>6, <2>1, <2>2, <2>4
  <2> QED BY <1>1, <1>2, <1>3, <1>4, <2>1, <2>3, <2>4, <2>5, StampInv
<1> QED BY <1>5, <1>6 DEF BeginIngest

\* A transaction gets a stamp nobody has.
LEMMA StampedInv ==
  ASSUME Inv, NEW m \in Mutators, BeginFlip(m) \/ BeginDelete(m)
  PROVE  Inv'
<1> USE CacheAssumption DEF CacheAssumption
<1>1. PICK pc \in {"flipping", "deleting"} : Stamped(m, pc)
  BY DEF BeginFlip, BeginDelete
<1>2. UNCHANGED <<corpus, marker, markedAt, memo, rows, turn>>
  BY DEF BeginFlip, BeginDelete
<1>3. /\ clock < MaxStamps /\ clock' = clock + 1
      /\ mutator' = [mutator EXCEPT ![m] = [pc |-> pc, stamp |-> clock', gone |-> mutator[m].gone]]
  BY <1>1 DEF Stamped, Inv, TypeOK
<1>4. /\ corpus \in Generations /\ clock \in Stamps /\ marker \in Stamps
      /\ markedAt \in [Stamps -> Generations \cup {Unissued}] /\ mutator[m] \in MutatorRec
      /\ \A n \in Mutators : mutator[n].stamp \in Stamps
  BY DEF Inv, TypeOK, MutatorRec
<1>5. clock' \in Stamps /\ clock' > clock
  BY <1>3, <1>4 DEF Stamps
<1>6. PICK v \in MutatorRec : /\ v = [pc |-> pc, stamp |-> clock', gone |-> mutator[m].gone]
                              /\ mutator' = [mutator EXCEPT ![m] = v]
  BY <1>3, <1>4, <1>5 DEF MutatorRec
<1>7. /\ mutator' \in [Mutators -> MutatorRec] /\ mutator'[m] = v
      /\ \A n \in Mutators \ {m} : mutator'[n] = mutator[n]
  BY <1>6, MutatorSet DEF Inv
<1>8. mutator'[m].stamp = clock'
  BY <1>6, <1>7
<1>9. /\ Issued(marker) /\ Issued(Empty) /\ ~Issued(clock')
      /\ \A s \in Stamps : markedAt[s] <= corpus /\ (s > clock' => ~Issued(s))
  BY <1>3, <1>4, <1>5 DEF Inv, StampsOK, Stamps
<1>10. \A n \in Mutators \ {m} : Pending(n)' => /\ Pending(n) /\ mutator'[n].stamp <= clock
                                               /\ ~Issued(mutator'[n].stamp)
  BY <1>7 DEF Inv, StampsOK, Pending
<1>11. \A n \in Mutators :
         Pending(n)' => mutator'[n].stamp <= clock' /\ ~Issued(mutator'[n].stamp)
  <2> SUFFICES ASSUME NEW n \in Mutators, Pending(n)'
               PROVE  mutator'[n].stamp <= clock' /\ ~Issued(mutator'[n].stamp)
    OBVIOUS
  <2>1. CASE n = m
    BY <1>5, <1>8, <1>9, <2>1 DEF Stamps
  <2>2. CASE n # m
    <3>1. mutator'[n].stamp \in Stamps /\ mutator'[n].stamp <= clock
      BY <1>4, <1>7, <1>10, <2>2
    <3> QED BY <1>4, <1>5, <1>10, <2>2, <3>1 DEF Stamps
  <2> QED BY <2>1, <2>2
<1>12. \A l, n \in Mutators :
         Pending(l)' /\ Pending(n)' /\ mutator'[l].stamp = mutator'[n].stamp => l = n
  <2> SUFFICES ASSUME NEW l \in Mutators, NEW n \in Mutators, Pending(l)', Pending(n)',
                      mutator'[l].stamp = mutator'[n].stamp
               PROVE  l = n
    OBVIOUS
  <2>1. CASE l = m \/ n = m
    <3>1. \A k \in Mutators \ {m} : Pending(k)' => mutator'[k].stamp # clock'
      BY <1>4, <1>5, <1>7, <1>10 DEF Stamps
    <3> QED BY <1>8, <2>1, <3>1
  <2>2. CASE l # m /\ n # m
    BY <1>7, <1>10, <2>2 DEF Inv, StampsOK
  <2> QED BY <2>1, <2>2
<1>13. StampsOK'
  BY <1>2, <1>9, <1>11, <1>12 DEF StampsOK, Issued
<1> QED BY <1>2, <1>4, <1>5, <1>7, <1>13, MutatorKeeps

\* The stamp of a transaction becomes the marker, unless the document is gone.
LEMMA CommitInv ==
  ASSUME Inv, NEW m \in Mutators, CommitFlip(m) \/ CommitDelete(m)
  PROVE  Inv'
<1> USE CacheAssumption DEF CacheAssumption
<1>1. /\ UNCHANGED <<clock, memo, turn>> /\ rows' \subseteq rows
      /\ corpus' \in Generations /\ corpus <= corpus'
  BY DEF CommitFlip, CommitDelete, Inv, TypeOK, Generations
<1>2. /\ mutator' \in [Mutators -> MutatorRec] /\ mutator'[m] = Busting
      /\ \A n \in Mutators \ {m} : mutator'[n] = mutator[n]
  BY IdleRecs, MutatorSet DEF CommitFlip, CommitDelete, Inv
<1>3. \A n \in Mutators : Pending(n)' => /\ Pending(n) /\ n # m
                                         /\ mutator'[n].stamp = mutator[n].stamp
  BY <1>2, IdleRecs DEF Pending
<1>4. /\ clock \in Stamps /\ clock <= clock /\ marker \in Stamps
      /\ markedAt \in [Stamps -> Generations \cup {Unissued}]
  BY DEF Inv, TypeOK, Stamps
<1>5. CASE mutator[m].gone
  <2>1. UNCHANGED <<marker, markedAt>>
    BY <1>5 DEF CommitFlip, CommitDelete
  <2>2. StampsOK'
    BY <1>1, <1>3, <2>1, StampsAlone DEF Inv
  <2> QED BY <1>1, <1>2, <1>4, <2>1, <2>2, MutatorKeeps
<1>6. CASE ~mutator[m].gone
  <2>1. mutator[m].gone = FALSE
    BY <1>6 DEF Inv, TypeOK
  <2>2. Pending(m)
    BY <2>1 DEF CommitFlip, CommitDelete, Pending
  <2>3. PICK s \in Stamps : s = mutator[m].stamp
    BY DEF Inv, TypeOK
  <2>4. ~Issued(s) /\ s <= clock'
    BY <1>1, <2>2, <2>3 DEF Inv, StampsOK
  <2>5. \A n \in Mutators : Pending(n) /\ n # m => mutator[n].stamp # s
    BY <2>2, <2>3 DEF Inv, StampsOK
  <2>6. Mark(s, corpus')
    BY <1>6, <2>3 DEF CommitFlip, CommitDelete
  <2> QED BY <1>1, <1>2, <1>3, <1>4, <2>4, <2>5, <2>6, StampInv
<1> QED BY <1>5, <1>6

\* The documents are removed: nothing under way stamps any more.
LEMMA WipeInv ==
  ASSUME Inv, NEW m \in Mutators, Wipe(m)
  PROVE  Inv'
<1> USE CacheAssumption DEF CacheAssumption
<1>1. /\ UNCHANGED <<clock, markedAt, memo, turn>> /\ rows' \subseteq rows
      /\ marker' = Empty /\ Empty \in Stamps
      /\ corpus' \in Generations /\ corpus <= corpus'
  BY DEF Wipe, Inv, TypeOK, Generations, Stamps, Empty
<1>2. /\ clock \in Stamps /\ markedAt \in [Stamps -> Generations \cup {Unissued}]
      /\ \A n \in Mutators : mutator[n] \in MutatorRec
  BY DEF Inv, TypeOK, MutatorRec
<1>3. \A n \in Mutators : /\ mutator'[n] \in {Busting, NoMutator, [mutator[n] EXCEPT !.gone = TRUE]}
                          /\ mutator'[n] \in MutatorRec /\ ~Pending(n)'
  <2> SUFFICES ASSUME NEW n \in Mutators
               PROVE  /\ mutator'[n] \in {Busting, NoMutator, [mutator[n] EXCEPT !.gone = TRUE]}
                      /\ mutator'[n] \in MutatorRec /\ ~Pending(n)'
    OBVIOUS
  <2>1. mutator'[n] \in {Busting, NoMutator, [mutator[n] EXCEPT !.gone = TRUE]}
    BY DEF Wipe
  <2>2. /\ [mutator[n] EXCEPT !.gone = TRUE] \in MutatorRec
        /\ [mutator[n] EXCEPT !.gone = TRUE].gone = TRUE
    BY <1>2 DEF MutatorRec
  <2> QED BY <2>1, <2>2, IdleRecs DEF Pending
<1>4. mutator' \in [Mutators -> MutatorRec]
  BY <1>3 DEF Wipe
<1>5. StampsOK'
  BY <1>1, <1>3, StampsAlone DEF Inv
<1> QED BY <1>1, <1>2, <1>4, <1>5, MutatorKeeps

----------------------------------------------------------------------------

LEMMA ExpiryInv ==
  ASSUME Inv, MemoExpires \/ (\E r \in rows : RowExpires(r)) \/ UNCHANGED vars
  PROVE  Inv'
<1>1. /\ UNCHANGED <<corpus, clock, marker, markedAt, turn, mutator>>
      /\ memo' \in {memo, Absent} /\ rows' \subseteq rows
  BY DEF MemoExpires, RowExpires, vars
<1>2. /\ corpus \in Generations /\ clock \in Stamps /\ marker \in Stamps
      /\ markedAt \in [Stamps -> Generations \cup {Unissued}]
      /\ mutator \in [Mutators -> MutatorRec]
  BY DEF Inv, TypeOK, MutatorRec
<1>3. StampsOK'
  BY <1>1, UnstampedKeep DEF Inv
<1> QED BY <1>1, <1>2, <1>3, MutatorKeeps

LEMMA Inductive == Spec => []Inv
<1>1. Inv /\ [Next]_vars => Inv'
  <2> SUFFICES ASSUME Inv, [Next]_vars PROVE Inv'
    OBVIOUS
  <2>1. Ingests \subseteq Mutators /\ Deletes \subseteq Mutators
    BY DEF Mutators
  <2> QED BY <2>1, TurnInv, QuietInv, BeginIngestInv, StampedInv, CommitInv, WipeInv, ExpiryInv
             DEF Next, MutatorStep
<1> QED BY <1>1, InitInv, PTL DEF Spec

\* Versions, stamps, cached rows and the local state of turns, ingests and
\* deletes keep their types.
THEOREM TypeCorrect == Spec => []TypeOK
<1>1. Inv => TypeOK
  BY DEF Inv
<1> QED BY <1>1, Inductive, PTL

\* For any number of turns, ingests, deletes, rows and changes of the corpus: an
\* answer cached under a version was retrieved from chunks at least as new.
THEOREM TagAlwaysSound == Spec => []TagIsSound
<1> QED BY Inductive, InvGivesTagIsSound, PTL
=============================================================================
